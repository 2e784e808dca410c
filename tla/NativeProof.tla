---------------------------- MODULE NativeProof ----------------------------
(***************************************************************************)
(* A batch process and its proofs: native_proof.py, the same file beside   *)
(* every batch.py, and what answers it.  On Linux that is proof_worker.c, a *)
(* process of its own behind two pipes; on Windows and macOS a library in  *)
(* the process.  A server generates reports, a client verifies them, and   *)
(* in the mutual protocol both do both.                                    *)
(***************************************************************************)
EXTENDS Evidence

CONSTANTS
  Self,      \* the platform this process runs on
  Anchors,   \* [key, measure] it is configured to trust
  MaxCalls   \* bound on the proofs one process asks for

\* The chip of this machine certifies an SM2 key under a short text.
ASSUME SelfAssumption ==
  /\ Self \in Platforms
  /\ Self.curve = Sm2Curve /\ Self.uidLength \notin LongUid /\ Self.uid \in Text
  /\ \E p \in Platforms : Anchors = [key |-> p.key, measure |-> p.measure]
  /\ MaxCalls \in Nat

VARIABLES
  setup,      \* what the process is: backend, serving, mutual, configured
  pc,         \* where it stands
  stop,       \* STOP: the signal handler ran
  error,      \* it ends with an error
  calls,      \* how many proofs it has asked for
  call,       \* the proof under way
  last,       \* the proof just answered, with its outcome
  worker,     \* the helper process
  clean,      \* it left with exit code 0
  toWorker,   \* its standard input: requests, and Q
  fromWorker, \* its standard output: outcomes and reports
  eof,        \* its standard input has no writer any more
  pagemap,    \* its open descriptors of /proc/self/pagemap
  trouble     \* what has happened that is not the ordinary course

process == <<setup, pc, stop, error, calls, call, last>>
helper == <<worker, clean, fromWorker, pagemap>>
vars == <<setup, pc, stop, error, calls, call, last, worker, clean, toWorker, fromWorker, eof,
          pagemap, trouble>>

Backends == {"linux", "windows", "macos"}
Setup == [backend : Backends, serving : BOOLEAN, mutual : BOOLEAN, configured : BOOLEAN]
Troubles == {"stop", "interrupt", "report", "hang", "fault"}
NoCall == [mode |-> "none", binding |-> <<>>, report |-> Broken]
NoAnswer == [mode |-> "none", binding |-> <<>>, report |-> Broken, ok |-> FALSE]
Quit == [mode |-> "quit", binding |-> <<>>, report |-> Broken]
Yes == <<"yes", Broken>>
No == <<"no", Broken>>
Modes == IF setup.mutual THEN {"generate", "verify"}
         ELSE IF setup.serving THEN {"generate"} ELSE {"verify"}
Helper == setup.backend = "linux"
Over == pc \in {"ended", "killed"}

-----------------------------------------------------------------------------
(* The helper is started before anything else is; signals find their handlers *)
(* only after that.                                                          *)

Init ==
  /\ setup \in Setup
  /\ setup.backend # "linux" => ~setup.serving /\ ~setup.mutual
  /\ pc = "init" /\ stop = FALSE /\ error = FALSE /\ calls = 0
  /\ call = NoCall /\ last = NoAnswer
  /\ worker = IF Helper THEN "opening" ELSE "none"
  /\ clean = TRUE /\ toWorker = <<>> /\ fromWorker = <<>> /\ eof = FALSE /\ pagemap = 0
  /\ trouble = IF setup.configured THEN {} ELSE {"fault"}

\* The process ends without close: the helper's pipes close with it.
Abandon ==
  /\ error' = TRUE
  /\ pc' = "ended"
  /\ eof' = TRUE

Constructed ==
  /\ pc = "init"
  /\ \/ /\ Helper /\ fromWorker # <<>>
        /\ pc' = "idle" /\ fromWorker' = Tail(fromWorker)
        /\ UNCHANGED <<error, eof>>
     \/ /\ Helper /\ fromWorker = <<>> /\ worker = "gone"
        /\ Abandon /\ UNCHANGED fromWorker
     \/ /\ ~Helper /\ setup.configured
        /\ pc' = "idle" /\ UNCHANGED <<error, eof, fromWorker>>
     \/ /\ ~Helper /\ ~setup.configured
        /\ Abandon /\ UNCHANGED fromWorker
  /\ UNCHANGED <<setup, stop, calls, call, last, worker, clean, toWorker, pagemap, trouble>>

\* A proof that is answered.  A client that is refused one ends; a server records it and
\* serves the next request.
Answer(c, ok) ==
  /\ last' = [mode |-> c.mode, binding |-> c.binding, report |-> c.report, ok |-> ok]
  /\ call' = NoCall
  /\ pc' = IF ok \/ setup.serving THEN "idle" ELSE "close"
  /\ error' = (error \/ (~ok /\ ~setup.serving))

\* __call__: a file of the wrong size is refused before anything is written, a request to a
\* helper that is gone fails, and the libraries answer at once.
Ask(c, sound) ==
  /\ pc = "idle" /\ calls < MaxCalls
  /\ setup.serving => ~stop
  /\ calls' = calls + 1
  /\ \/ /\ ~sound /\ c.mode = "verify"
        /\ Answer(c, FALSE)
        /\ trouble' = trouble \cup {"fault"}
        /\ UNCHANGED toWorker
     \/ /\ sound /\ Helper /\ worker = "gone"
        /\ Answer(c, FALSE)
        /\ UNCHANGED <<toWorker, trouble>>
     \/ /\ sound /\ Helper /\ worker # "gone"
        /\ call' = c /\ pc' = "status" /\ last' = NoAnswer
        /\ toWorker' = Append(toWorker, c)
        /\ UNCHANGED <<error, trouble>>
     \/ /\ sound /\ ~Helper
        /\ LET ok == Verify(setup.backend, c.report, c.binding, Anchors) IN
             /\ Answer(c, ok)
             /\ trouble' = IF ok THEN trouble ELSE trouble \cup {"report"}
        /\ UNCHANGED toWorker
  /\ UNCHANGED <<setup, stop, worker, clean, fromWorker, eof, pagemap>>

Request ==
  \/ /\ "verify" \in Modes
     /\ \E b \in Bindings :
          \/ \E r \in Reports : Ask([mode |-> "verify", binding |-> b, report |-> r], TRUE)
          \/ Ask([mode |-> "verify", binding |-> b, report |-> Broken], FALSE)
  \/ /\ "generate" \in Modes
     /\ \E b \in Bindings : Ask([mode |-> "generate", binding |-> b, report |-> Broken], TRUE)

StatusRead ==
  /\ fromWorker # <<>>
  /\ fromWorker' = Tail(fromWorker)
  /\ IF Head(fromWorker) = Yes /\ call.mode = "generate"
     THEN pc' = "body" /\ UNCHANGED <<call, last, error>>
     ELSE Answer(call, Head(fromWorker) = Yes)

\* Mutant: the end of the pipe is read for ever.
ReadStatusForever ==
  /\ pc = "status"
  /\ StatusRead
  /\ UNCHANGED <<setup, stop, calls, worker, clean, toWorker, eof, pagemap, trouble>>

\* The byte of the outcome, or the end of the pipe.
ReadStatus ==
  /\ pc = "status"
  /\ \/ StatusRead
     \/ fromWorker = <<>> /\ worker = "gone" /\ Answer(call, FALSE) /\ UNCHANGED fromWorker
  /\ UNCHANGED <<setup, stop, calls, worker, clean, toWorker, eof, pagemap, trouble>>

\* The report, which may then fail to be written to its file.
ReadBody ==
  /\ pc = "body"
  /\ \/ /\ fromWorker # <<>>
        /\ fromWorker' = Tail(fromWorker)
        /\ \E written \in BOOLEAN :
             /\ Answer([call EXCEPT !.report = Head(fromWorker)[2]], written)
             /\ trouble' = IF written THEN trouble ELSE trouble \cup {"fault"}
     \/ /\ fromWorker = <<>> /\ worker = "gone"
        /\ Answer(call, FALSE)
        /\ UNCHANGED <<fromWorker, trouble>>
  /\ UNCHANGED <<setup, stop, calls, worker, clean, toWorker, eof, pagemap>>

\* A process that was told to stop leaves its loop, a client when nothing is left to confirm.
Finish ==
  /\ pc = "idle" /\ stop
  /\ pc' = "close"
  /\ UNCHANGED <<setup, stop, error, calls, call, last, toWorker, eof, trouble>>
  /\ UNCHANGED helper

\* close: Q and the end of the pipe; a helper that is gone breaks the pipe.
Close ==
  /\ pc = "close"
  /\ \/ /\ Helper /\ worker # "gone"
        /\ toWorker' = Append(toWorker, Quit) /\ eof' = TRUE
        /\ pc' = "join" /\ UNCHANGED error
     \/ /\ Helper /\ worker = "gone"
        /\ Abandon /\ UNCHANGED toWorker
     \/ /\ ~Helper
        /\ pc' = "ended" /\ UNCHANGED <<error, eof, toWorker>>
  /\ UNCHANGED <<setup, stop, calls, call, last, trouble>>
  /\ UNCHANGED helper

\* Mutant: a helper that does not leave is left alone.
JoinLeaving ==
  /\ pc = "join" /\ pc' = "ended"
  /\ error' = (error \/ worker # "gone" \/ ~clean)
  /\ UNCHANGED <<setup, stop, calls, call, last, toWorker, eof, trouble>>
  /\ UNCHANGED helper

\* wait: the helper's exit code is looked at; one that does not leave in ten seconds is killed.
Join ==
  /\ pc = "join" /\ pc' = "ended"
  /\ \/ /\ worker = "gone"
        /\ error' = (error \/ ~clean)
        /\ UNCHANGED <<worker, clean, trouble>>
     \/ /\ worker # "gone"
        /\ worker' = "gone" /\ clean' = FALSE
        /\ error' = TRUE
        /\ trouble' = trouble \cup {"fault"}
  /\ UNCHANGED <<setup, stop, calls, call, last, toWorker, fromWorker, eof, pagemap>>

-----------------------------------------------------------------------------
(* proof_worker.c.                                                           *)

\* Its answer goes to the pipe; without a reader the write ends it.
Reply(items) ==
  IF Over
  THEN worker' = "gone" /\ clean' = FALSE /\ UNCHANGED fromWorker
  ELSE fromWorker' = fromWorker \o items /\ UNCHANGED <<worker, clean>>

WorkerOpen ==
  /\ worker = "opening"
  /\ IF setup.configured
     THEN IF Over THEN worker' = "gone" /\ clean' = FALSE /\ UNCHANGED fromWorker
          ELSE worker' = "ready" /\ fromWorker' = <<Yes>> /\ UNCHANGED clean
     ELSE worker' = "gone" /\ clean' = FALSE /\ UNCHANGED fromWorker
  /\ UNCHANGED <<process, toWorker, eof, pagemap, trouble>>

\* tcpra_csv_generate_report: the wrapper asks the library, and the report made is verified
\* like any other, with this process's trusted values.  The buffer is the loop's: where the
\* library makes no report it still has an earlier one.
Outcome(r, h, rc, ok) ==
  /\ IF Aborts(h)
     THEN worker' = "gone" /\ clean' = FALSE /\ UNCHANGED <<fromWorker, pagemap>>
     ELSE Reply(IF ok THEN <<Yes, <<"report", r>>>> ELSE <<No>>) /\ pagemap' = pagemap + Leak(h)
  /\ trouble' = IF LibraryFails(h, rc) THEN trouble \cup {"fault"} ELSE trouble

\* Mutant: the library's result is not looked at, nor its report.
GenerateUnchecked(binding, r, h, rc) == Outcome(r, h, rc, TRUE)
Generate(binding, r, h, rc) ==
  Outcome(r, h, rc, WrapperOk(h, rc) /\ verify_impl(r, binding, Anchors))

WorkerStep ==
  /\ worker = "ready" /\ toWorker # <<>>
  /\ LET c == Head(toWorker) IN
       \/ /\ c.mode = "quit"
          /\ worker' = "gone"
          /\ UNCHANGED <<clean, fromWorker, pagemap, trouble>>
       \/ /\ c.mode = "verify"
          /\ LET ok == verify_impl(c.report, c.binding, Anchors) IN
               /\ Reply(IF ok THEN <<Yes>> ELSE <<No>>)
               /\ trouble' = IF ok THEN trouble ELSE trouble \cup {"report"}
          /\ UNCHANGED pagemap
       \/ /\ c.mode = "generate"
          /\ \E h \in Habits, rc \in BOOLEAN, n \in Nonces, b \in Bindings :
               /\ rc => b = c.binding
               /\ Generate(c.binding, get_report(Self, b, n), h, rc)
  /\ toWorker' = Tail(toWorker)
  /\ UNCHANGED <<process, eof>>

WorkerEof ==
  /\ worker = "ready" /\ toWorker = <<>> /\ eof
  /\ worker' = "gone"
  /\ UNCHANGED <<process, clean, toWorker, fromWorker, eof, pagemap, trouble>>

-----------------------------------------------------------------------------
(* What may happen to both.                                                  *)

\* The library never returns.
Hang ==
  /\ worker = "ready" /\ toWorker # <<>> /\ Head(toWorker).mode # "quit"
  /\ worker' = "stuck"
  /\ trouble' = trouble \cup {"hang"}
  /\ UNCHANGED <<process, clean, toWorker, fromWorker, eof, pagemap>>

\* The helper dies, the library's fault or the system's.
Crash ==
  /\ worker \in {"opening", "ready"}
  /\ worker' = "gone" /\ clean' = FALSE
  /\ trouble' = trouble \cup {"fault"}
  /\ UNCHANGED <<process, toWorker, fromWorker, eof, pagemap>>

\* The process is killed.
Kill ==
  /\ ~Over
  /\ pc' = "killed" /\ eof' = TRUE
  /\ UNCHANGED <<setup, stop, error, calls, call, last, toWorker, trouble>>
  /\ UNCHANGED helper

\* SIGTERM, or SIGINT sent to the process: its handler sets STOP, what it was reading is
\* read on.
Signal ==
  /\ pc # "init" /\ ~Over /\ ~stop
  /\ stop' = TRUE
  /\ trouble' = trouble \cup {"stop"}
  /\ UNCHANGED <<setup, pc, error, calls, call, last, toWorker, eof>>
  /\ UNCHANGED helper

\* Ctrl+C at a terminal: SIGINT goes to the foreground process group.  The helper is in it,
\* and has no handler.
Interrupt ==
  /\ pc # "init" /\ ~Over /\ ~stop
  /\ stop' = TRUE
  /\ trouble' = trouble \cup {"interrupt"}
  /\ IF Helper /\ worker # "gone"
     THEN worker' = "gone" /\ clean' = FALSE
     ELSE UNCHANGED <<worker, clean>>
  /\ UNCHANGED <<setup, pc, error, calls, call, last, toWorker, fromWorker, eof, pagemap>>

Next ==
  \/ Constructed \/ Request \/ ReadStatus \/ ReadBody \/ Finish \/ Close \/ Join
  \/ WorkerOpen \/ WorkerStep \/ WorkerEof
  \/ Hang \/ Crash \/ Kill \/ Signal \/ Interrupt

Spec == Init /\ [][Next]_vars

\* The process and the helper run; whether a proof is asked for, and what befalls them, is
\* not forced.
FairSpec ==
  /\ Spec
  /\ WF_vars(Constructed) /\ WF_vars(ReadStatus) /\ WF_vars(ReadBody)
  /\ WF_vars(Finish) /\ WF_vars(Close) /\ WF_vars(Join)
  /\ WF_vars(WorkerOpen) /\ WF_vars(WorkerStep) /\ WF_vars(WorkerEof)

-----------------------------------------------------------------------------
TypeOK ==
  /\ setup \in Setup
  /\ pc \in {"init", "idle", "status", "body", "close", "join", "ended", "killed"}
  /\ stop \in BOOLEAN /\ error \in BOOLEAN /\ calls \in 0 .. MaxCalls
  /\ call.mode \in {"none", "verify", "generate"} /\ last.mode \in {"none", "verify", "generate"}
  /\ worker \in {"none", "opening", "ready", "stuck", "gone"}
  /\ clean \in BOOLEAN /\ eof \in BOOLEAN /\ pagemap \in Nat
  /\ trouble \subseteq Troubles

\* A proof that verified is of the trusted platform, measured as trusted, and made for the
\* binding asked about: nothing that is signed was changed on the way, though the nonce that
\* masks it is not signed, and no answer is another request's.
VerifiedIsGenuine ==
  last.mode = "verify" /\ last.ok =>
    \E p \in Platforms, n \in Nonces :
      LET r == get_report(p, last.binding, n) IN
      /\ Anchors = [key |-> p.key, measure |-> p.measure]
      /\ Signed(last.report) = Signed(r)
      /\ last.report.anonce = n /\ last.report.sig = r.sig

\* A report that was generated verifies for the binding it was asked for, in each of the three
\* implementations that may receive it.
GeneratedVerifies ==
  last.mode = "generate" /\ last.ok =>
    \A b \in Backends :
      Verify(b, last.report, last.binding, [key |-> Self.key, measure |-> Self.measure])

\* An endpoint of the mutual protocol can generate its proof: it fails only when the library,
\* the file or the helper does.
GeneratesWhenSound ==
  setup.mutual /\ last.mode = "generate" /\ trouble \subseteq {"stop", "report"} => last.ok

\* Stopped by a signal to it alone, and with nothing else amiss, a process ends without an
\* error; and however it ends by itself, its helper is gone before it, reaped, with no file
\* left open.
StopIsClean ==
  /\ pc = "ended" /\ trouble \subseteq {"stop"} => ~error
  /\ pc = "ended" => worker \in {"none", "gone"}
  /\ pagemap = 0

\* A process that is told to stop ends, and so does a helper whose process was killed, unless
\* the library hangs.
StopEnds ==
  /\ stop ~> (Over \/ "hang" \in trouble)
  /\ pc = "killed" ~> (worker \in {"none", "gone", "stuck"})
=============================================================================
