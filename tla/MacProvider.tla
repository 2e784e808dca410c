----------------------------- MODULE MacProvider -----------------------------
(***************************************************************************)
(* The macOS client (agents/macos/Provider.swift): a content filter that   *)
(* is asked about each direction of each flow to the protected endpoint.   *)
(* What the framework calls runs under the flow's condition lock; an       *)
(* exchange with the report server runs on a queue of its own; a timer     *)
(* decides against the flow five seconds after its start; the framework    *)
(* reports when the flow has closed.                                       *)
(*                                                                         *)
(* Around them: applications, peers, the report server, and the framework, *)
(* which lets the data of a direction pass, withholds it or drops it by    *)
(* the last verdict.                                                       *)
(***************************************************************************)
EXTENDS Naturals, FiniteSets

CONSTANTS
  Flows,      \* NEFilterFlow identifiers, never used twice
  Capacity    \* flows that are tracked at a time

ASSUME ProviderAssumption == IsFiniteSet(Flows) /\ Capacity \in Nat

VARIABLES
  conn,      \* the flows of the applications
  out, in,   \* what the framework does with each direction of a flow: it asks, withholds,
             \* lets pass, drops, or asks no more for whatever reason
  late,      \* flows whose deadline has passed
  wire,      \* flows whose application data has left the host
  states,    \* the flows in the dictionary
  st,        \* their FlowState
  exch,      \* the exchange of each flow, and its finish
  timer,     \* the timer of each flow, and its finish
  proved,    \* flows for which verifyFn has accepted the report
  told       \* flows whose server got the verdict that all is well

framework == <<conn, out, in, late, wire>>
threads == <<exch, timer>>
server == <<proved, told>>
vars == <<framework, states, st, threads, server>>

Direction == {"none", "peek", "pause", "allow", "drop", "over"}
FlowState == [lookup : BOOLEAN, binder : BOOLEAN, decision : {"nil", "yes", "no"},
              paused : BOOLEAN, inboundDone : BOOLEAN, outboundDone : BOOLEAN]
NewState == [lookup |-> FALSE, binder |-> FALSE, decision |-> "nil", paused |-> FALSE,
             inboundDone |-> FALSE, outboundDone |-> FALSE]

\* A thread that will call finish with its result, or resume the flow by it.
Thread == [pc : {"none", "armed", "request", "binder", "verify", "verdict", "finish", "resume",
                 "done"},
           verified : BOOLEAN]
NoThread == [pc |-> "none", verified |-> FALSE]

TypeOK ==
  /\ conn \in [Flows -> {"none", "open", "closed", "reported"}]
  /\ out \in [Flows -> Direction]
  /\ in \in [Flows -> {"none", "peek", "over"}]
  /\ late \subseteq Flows
  /\ wire \subseteq Flows
  /\ states \subseteq Flows
  /\ Cardinality(states) <= Capacity
  /\ st \in [Flows -> FlowState]
  /\ exch \in [Flows -> Thread]
  /\ timer \in [Flows -> Thread]
  /\ proved \subseteq Flows
  /\ told \subseteq Flows

Init ==
  /\ conn = [f \in Flows |-> "none"]
  /\ out = [f \in Flows |-> "none"]
  /\ in = [f \in Flows |-> "none"]
  /\ late = {}
  /\ wire = {}
  /\ states = {}
  /\ st = [f \in Flows |-> NewState]
  /\ exch = [f \in Flows |-> NoThread]
  /\ timer = [f \in Flows |-> NoThread]
  /\ proved = {}
  /\ told = {}

-----------------------------------------------------------------------------
(* The framework and time.                                                   *)

\* A flow closes at any time, and the filter is asked about its data no more.
Close(f) ==
  /\ conn[f] = "open"
  /\ conn' = [conn EXCEPT ![f] = "closed"]
  /\ out' = [out EXCEPT ![f] = "over"]
  /\ in' = [in EXCEPT ![f] = "over"]
  /\ UNCHANGED <<late, wire, states, st, threads, server>>

\* The five seconds of the timer and those of the flow's deadline are the same.
Expire(f) ==
  /\ conn[f] # "none"
  /\ f \notin late
  /\ late' = late \cup {f}
  /\ UNCHANGED <<conn, out, in, wire, states, st, threads, server>>

\* Data that the filter is not asked about any more, or data it withheld.
SendUnfiltered(f) ==
  /\ out[f] = "allow"
  /\ wire' = wire \cup {f}
  /\ UNCHANGED <<conn, out, in, late, states, st, threads, server>>

-----------------------------------------------------------------------------
(* handleNewFlow                                                             *)

\* Beyond the capacity a flow is dropped at once.
HandleNewFlow(f) ==
  /\ conn[f] = "none"
  /\ conn' = [conn EXCEPT ![f] = "open"]
  /\ \/ /\ Cardinality(states) < Capacity
        /\ states' = states \cup {f}
        /\ timer' = [timer EXCEPT ![f].pc = "armed"]
        /\ out' = [out EXCEPT ![f] = "peek"]
        /\ in' = [in EXCEPT ![f] = "peek"]
     \/ /\ Cardinality(states) >= Capacity
        /\ out' = [out EXCEPT ![f] = "drop"]
        /\ in' = [in EXCEPT ![f] = "over"]
        /\ UNCHANGED <<states, timer>>
  /\ UNCHANGED <<late, wire, st, exch, server>>

-----------------------------------------------------------------------------
(* handleOutboundData                                                        *)

Decided(f) == st[f].decision # "nil"
ByDecision(f) == IF st[f].decision = "yes" THEN "allow" ELSE "drop"

Outbound(f) == out[f] = "peek"
OutboundDone == UNCHANGED <<conn, in, late, states, timer, server>>

\* No entry, or a decision.
OutboundByDecision(f) ==
  /\ Outbound(f)
  /\ f \in states => Decided(f)
  /\ out' = [out EXCEPT ![f] = IF f \in states THEN ByDecision(f) ELSE "drop"]
  /\ UNCHANGED <<wire, st, exch>>
  /\ OutboundDone

\* The ClientHello passes, and the exchange starts.
OutboundHello(f) ==
  /\ Outbound(f) /\ f \in states /\ ~Decided(f)
  /\ ~st[f].lookup
  /\ st' = [st EXCEPT ![f].lookup = TRUE]
  /\ exch' = [exch EXCEPT ![f].pc = "request"]
  /\ UNCHANGED <<out, wire>>
  /\ OutboundDone

\* Anything else before it, and a bad change_cipher_spec after it.
OutboundGarbage(f) ==
  /\ Outbound(f) /\ f \in states /\ ~Decided(f)
  /\ out' = [out EXCEPT ![f] = "drop"]
  /\ UNCHANGED <<wire, st, exch>>
  /\ OutboundDone

\* Data after it is withheld, a change_cipher_spec in front of it included, which passes
\* only alone and is no application data.
OutboundData(f) ==
  /\ Outbound(f) /\ f \in states /\ ~Decided(f)
  /\ st[f].lookup
  /\ st' = [st EXCEPT ![f].paused = TRUE]
  /\ out' = [out EXCEPT ![f] = "pause"]
  /\ UNCHANGED <<wire, exch>>
  /\ OutboundDone

HandleOutboundData(f) ==
  \/ OutboundByDecision(f)
  \/ OutboundHello(f)
  \/ OutboundGarbage(f)
  \/ OutboundData(f)

-----------------------------------------------------------------------------
(* handleInboundData                                                         *)

Inbound(f) == in[f] = "peek"

\* The ServerHello gives the binder and is the last thing the filter is asked about; it is
\* dropped if it cannot be parsed or the flow is denied already.
HandleInboundData(f) ==
  /\ Inbound(f)
  /\ in' = [in EXCEPT ![f] = "over"]
  /\ \/ /\ f \in states
        /\ st[f].decision # "no"
        /\ st' = [st EXCEPT ![f].binder = TRUE]
     \/ UNCHANGED st
  /\ UNCHANGED <<conn, out, late, wire, states, threads, server>>

-----------------------------------------------------------------------------
(* complete, handle(report)                                                  *)

\* One direction has ended; with the second the entry goes.
Complete(f, s) ==
  \/ /\ f \in states
     /\ st' = [st EXCEPT ![f] = s]
     /\ states' = IF s.inboundDone /\ s.outboundDone THEN states \ {f} ELSE states
  \/ /\ f \notin states
     /\ UNCHANGED <<st, states>>

HandleDataComplete(f) ==
  /\ \/ /\ Inbound(f)
        /\ Complete(f, [st[f] EXCEPT !.inboundDone = TRUE])
        /\ in' = [in EXCEPT ![f] = "over"]
        /\ UNCHANGED out
     \/ /\ Outbound(f)
        /\ Complete(f, [st[f] EXCEPT !.outboundDone = TRUE])
        /\ out' = [out EXCEPT ![f] = "over"]
        /\ UNCHANGED in
  /\ UNCHANGED <<conn, late, wire, threads, server>>

\* The report that the flow has closed decides against it, if nothing else has decided.
HandleReport(f) ==
  /\ conn[f] = "closed"
  /\ conn' = [conn EXCEPT ![f] = "reported"]
  /\ states' = states \ {f}
  /\ st' = IF f \in states /\ ~Decided(f) THEN [st EXCEPT ![f].decision = "no"] ELSE st
  /\ UNCHANGED <<out, in, late, wire, threads, server>>

-----------------------------------------------------------------------------
(* exchange                                                                  *)

Goto(f, pc) == exch' = [exch EXCEPT ![f].pc = pc]
Finish(f, verified) == exch' = [exch EXCEPT ![f] = [pc |-> "finish", verified |-> verified]]
ExchangeLocal == UNCHANGED <<framework, states, st, timer>>

\* Connection, request, response and report, each before the deadline.
Request(f) ==
  /\ exch[f].pc = "request"
  /\ \/ f \notin late /\ Goto(f, "binder")
     \/ Finish(f, FALSE)
  /\ UNCHANGED server
  /\ ExchangeLocal

\* waitBinder: the wait ends with the binder, a decision or the deadline, but a binder
\* that is there is used whatever was decided.
WaitBinder(f) ==
  /\ exch[f].pc = "binder"
  /\ \/ st[f].binder /\ Goto(f, "verify")
     \/ ~st[f].binder /\ (Decided(f) \/ f \in late) /\ Finish(f, FALSE)
  /\ UNCHANGED server
  /\ ExchangeLocal

Verify(f) ==
  /\ exch[f].pc = "verify"
  /\ Goto(f, "verdict")
  /\ proved' \in {proved, proved \cup {f}}
  /\ UNCHANGED told
  /\ ExchangeLocal

\* Mutant: it is enough that the verdict could be sent.
SendAnyVerdict(f) ==
  /\ exch[f].pc = "verdict"
  /\ \/ /\ f \notin late
        /\ told' = told \cup ({f} \cap proved)
        /\ Finish(f, TRUE)
     \/ /\ UNCHANGED told
        /\ Finish(f, FALSE)
  /\ UNCHANGED proved
  /\ ExchangeLocal

\* The verdict is sent before the deadline, or counts for nothing.
SendVerdict(f) ==
  /\ exch[f].pc = "verdict"
  /\ \/ /\ f \notin late
        /\ told' = told \cup ({f} \cap proved)
        /\ Finish(f, f \in proved)
     \/ /\ UNCHANGED told
        /\ Finish(f, FALSE)
  /\ UNCHANGED proved
  /\ ExchangeLocal

-----------------------------------------------------------------------------
(* finish, called by the exchange and by the timer                           *)

\* Mutant: only an admitted flow is resumed.
DecideResumingVerified(f, t) ==
  \/ /\ ~Decided(f)
     /\ st' = [st EXCEPT ![f].decision = IF t.verified THEN "yes" ELSE "no"]
     /\ t.pc = IF st[f].paused /\ t.verified THEN "resume" ELSE "done"
  \/ /\ Decided(f)
     /\ t.pc = "done"
     /\ UNCHANGED st

\* Under the lock: the first decision stands, and resumes what is paused; "t" is the
\* thread after that.
Decide(f, t) ==
  \/ /\ ~Decided(f)
     /\ st' = [st EXCEPT ![f].decision = IF t.verified THEN "yes" ELSE "no"]
     /\ t.pc = IF st[f].paused THEN "resume" ELSE "done"
  \/ /\ Decided(f)
     /\ t.pc = "done"
     /\ UNCHANGED st

FinishExchange(f) ==
  /\ exch[f].pc = "finish"
  /\ \E pc \in {"resume", "done"} : Decide(f, [exch[f] EXCEPT !.pc = pc]) /\ Goto(f, pc)
  /\ UNCHANGED <<framework, states, timer, server>>

FireTimer(f) ==
  /\ timer[f].pc = "armed"
  /\ f \in late
  /\ \E pc \in {"resume", "done"} : /\ Decide(f, [timer[f] EXCEPT !.pc = pc])
                                    /\ timer' = [timer EXCEPT ![f].pc = pc]
  /\ UNCHANGED <<framework, states, exch, server>>

\* resumeFlow, outside the lock: the framework ignores it unless the flow is paused.
Resume(f, verified) ==
  /\ out' = IF out[f] = "pause"
            THEN [out EXCEPT ![f] = IF verified THEN "allow" ELSE "drop"]
            ELSE out
  /\ UNCHANGED <<conn, in, late, wire, states, st, server>>

ResumeByExchange(f) ==
  /\ exch[f].pc = "resume"
  /\ Goto(f, "done")
  /\ Resume(f, exch[f].verified)
  /\ UNCHANGED timer

ResumeByTimer(f) ==
  /\ timer[f].pc = "resume"
  /\ timer' = [timer EXCEPT ![f].pc = "done"]
  /\ Resume(f, timer[f].verified)
  /\ UNCHANGED exch

-----------------------------------------------------------------------------
Framework(f) ==
  \/ Close(f)
  \/ Expire(f)
  \/ SendUnfiltered(f)
  \/ HandleNewFlow(f)
  \/ HandleOutboundData(f)
  \/ HandleInboundData(f)
  \/ HandleDataComplete(f)
  \/ HandleReport(f)
Exchange(f) ==
  \/ Request(f)
  \/ WaitBinder(f)
  \/ Verify(f)
  \/ SendVerdict(f)
  \/ FinishExchange(f)
  \/ ResumeByExchange(f)
Timer(f) == FireTimer(f) \/ ResumeByTimer(f)

Next == \E f \in Flows : Framework(f) \/ Exchange(f) \/ Timer(f)

Spec == Init /\ [][Next]_vars

\* Time passes, and the dispatch queues run.
FairSpec ==
  /\ Spec
  /\ \A f \in Flows : WF_vars(Expire(f)) /\ WF_vars(Exchange(f)) /\ WF_vars(Timer(f))

-----------------------------------------------------------------------------
(* What must hold.                                                           *)

\* Application data leaves the host only if the flow's report was verified, the server was
\* told so and the flow was decided to be good, which no later timer, exchange or report
\* of the flow's end changes (handleOutboundData, exchange, finish, handle).
DataIsAttested == \A f \in wire : f \in proved \cap told /\ st[f].decision = "yes"

\* A flow that was paused is resumed or dropped, or it closes: the decision cannot miss a
\* pause, nor a pause the decision (the condition lock of handleOutboundData and finish).
PauseEnds == \A f \in Flows : out[f] = "pause" ~> out[f] # "pause"
=============================================================================
