---------------------------- MODULE WindowsAgent ----------------------------
(***************************************************************************)
(* The Windows client agent (agents/windows/tcpra_agent_c.c) and its       *)
(* guardian (guardian.c, guardian_client.c, firewall_helper.c).            *)
(*                                                                         *)
(* The agent's main thread discovers connections by their SYN and opens a  *)
(* divert handle for each.  Flow workers receive what a handle diverts,    *)
(* pass it on or hold it; control workers obtain a report for a            *)
(* ClientHello, verify it, tell the server and decide.  The guardian is a  *)
(* process of its own that holds a duplicate of every divert handle, so    *)
(* that traffic stays diverted when the agent dies, until the endpoint is  *)
(* blocked in the firewall.                                                *)
(*                                                                         *)
(* Around them: applications, the peer, the report server, the WinDivert   *)
(* driver, the firewall, and the end of a process at any time.             *)
(***************************************************************************)
EXTENDS Naturals, Sequences, FiniteSets

CONSTANTS
  Flows,           \* the connections the agent takes: --expected of them
  Discovery,       \* the handle that diverts SYNs
  Nil,             \* no flow
  FlowWorkers,
  ControlWorkers,
  QueueCap,        \* QUEUE_CAP, of both queues
  HeldCap,         \* HELD_CAP, in packets
  GuardCap,        \* duplicates the guardian has room for
  DivertCap,       \* bound: packets queued in a divert handle
  MaxCrash         \* bound: processes that die

ASSUME AgentAssumption ==
  /\ Discovery \notin Flows
  /\ Nil \notin Flows
  /\ IsFiniteSet(Flows)
  /\ QueueCap \in Nat
  /\ HeldCap \in Nat
  /\ GuardCap \in Nat
  /\ DivertCap \in Nat
  /\ MaxCrash \in {0, 1}

VARIABLES
  app,       \* the application's connection on each four-tuple
  divq,      \* packets queued in each divert handle
  wire,      \* flows whose application data has left the host
  blocked,   \* the endpoint is blocked in the firewall, and its connections are aborted
  alive,     \* the agent runs
  crashes,   \* processes that have died
  main,      \* the agent's main thread
  tripped,   \* of guardian_client.c: the latch of the agent's process
  sess,      \* the agent's sessions
  flowq,     \* context->flow_queue
  ctlq,      \* context->control_queue
  fw,        \* the flow workers
  cw,        \* the control workers
  guard,     \* the guardian: its message loop, or what follows it
  refs,      \* the handles the guardian has duplicates of
  banned,    \* guardian: the endpoint was quarantined
  clean      \* guardian: the agent reported that all is well

environment == <<app, divq, wire>>
processes == <<alive, crashes>>
guardian == <<blocked, guard, refs, banned, clean>>
agent == <<main, tripped, sess, flowq, ctlq, fw, cw>>
vars == <<environment, processes, guardian, agent>>

-----------------------------------------------------------------------------
Handles == Flows \cup {Discovery}

\* "handle" is the agent's handle of the flow; "shut" that it diverts no more; "drop"
\* the handle that drops the packets of a denied session; "row" the session's result.
Session == [handle : BOOLEAN, shut : BOOLEAN, drop : BOOLEAN, lookup : BOOLEAN,
            shello : BOOLEAN, held : Seq({"hello", "data"}), verified : BOOLEAN, told : BOOLEAN,
            decided : BOOLEAN, allowed : BOOLEAN, done : BOOLEAN,
            row : {"none", "success", "failure"}]
NoSession == [handle |-> FALSE, shut |-> FALSE, drop |-> FALSE, lookup |-> FALSE,
              shello |-> FALSE, held |-> <<>>, verified |-> FALSE, told |-> FALSE,
              decided |-> FALSE, allowed |-> FALSE, done |-> FALSE, row |-> "none"]

FlowWorker == [pc : {"idle", "recv", "finish", "ban", "close"}, f : Flows \cup {Nil}]
ControlWorker == [pc : {"idle", "exchange", "await", "verify", "verdict", "decide", "ban",
                        "deny", "admit", "release", "failed", "shut"},
                  f  : Flows \cup {Nil},
                  ok : BOOLEAN]
IdleFlow == [pc |-> "idle", f |-> Nil]
IdleControl == [pc |-> "idle", f |-> Nil, ok |-> FALSE]

TypeOK ==
  /\ app \in [Flows -> {"closed", "open", "sent", "talk"}]
  /\ divq \in [Flows -> Seq({"hello", "shello", "data"})]
  /\ wire \subseteq Flows
  /\ blocked \in BOOLEAN
  /\ alive \in BOOLEAN
  /\ crashes \in 0 .. MaxCrash
  /\ main \in {"start", "discover", "banned", "wait", "cleanup", "ban", "exit", "done",
               "gone"}
  /\ tripped \in BOOLEAN
  /\ sess \in [Flows -> Session]
  /\ \A f \in Flows : Len(sess[f].held) <= HeldCap
  /\ flowq \in Seq(Flows)
  /\ ctlq \in Seq(Flows)
  /\ fw \in [FlowWorkers -> FlowWorker]
  /\ cw \in [ControlWorkers -> ControlWorker]
  /\ guard \in {"serve", "close", "exit", "dead"}
  /\ refs \subseteq Handles
  /\ banned \in BOOLEAN
  /\ clean \in BOOLEAN

Init ==
  /\ app = [f \in Flows |-> "closed"]
  /\ divq = [f \in Flows |-> <<>>]
  /\ wire = {}
  /\ blocked = FALSE
  /\ alive = TRUE
  /\ crashes = 0
  /\ main = "start"
  /\ tripped = FALSE
  /\ sess = [f \in Flows |-> NoSession]
  /\ flowq = <<>>
  /\ ctlq = <<>>
  /\ fw = [w \in FlowWorkers |-> IdleFlow]
  /\ cw = [w \in ControlWorkers |-> IdleControl]
  /\ guard = "serve"
  /\ refs = {}
  /\ banned = FALSE
  /\ clean = FALSE

-----------------------------------------------------------------------------
(* Applications, the peer and the driver.                                    *)

Taken(f) == sess[f] # NoSession
Diverted(f) == ~sess[f].shut /\ ((alive /\ sess[f].handle) \/ f \in refs)
Dropped(f) == alive /\ sess[f].drop

\* A packet of an established connection meets the handle of its flow, where it may be
\* lost, or the dropping handle, or nothing.
Send(f, p) ==
  /\ ~blocked
  /\ IF Diverted(f)
     THEN /\ Len(divq[f]) < DivertCap
          /\ divq' = [divq EXCEPT ![f] = Append(@, p)]
          /\ UNCHANGED <<app, wire>>
     ELSE /\ ~Dropped(f)
          /\ app' = [app EXCEPT ![f] = CASE p = "hello"  -> "sent"
                                         [] p = "shello" -> "talk"
                                         [] p = "data"   -> @]
          /\ wire' = IF p = "data" THEN wire \cup {f} ELSE wire
          /\ UNCHANGED divq
  /\ UNCHANGED <<processes, guardian, agent>>

\* The ClientHello leaves first, and again until it has got through; the peer answers
\* it; the application's data follows the answer.
SendHello(f) == app[f] = "open" /\ Send(f, "hello")
PeerHello(f) == app[f] = "sent" /\ Send(f, "shello")
SendData(f) == app[f] = "talk" /\ Send(f, "data")

-----------------------------------------------------------------------------
(* guardian_client.c.  A command is answered by the guardian while it lives;  *)
(* its lock makes commands one at a time.                                    *)

Serving == guard = "serve"

\* The second half of guard_trip: the guardian quarantines the endpoint, or the agent
\* does it itself if the guardian does not answer.
Quarantine ==
  /\ blocked' = TRUE
  /\ banned' = (banned \/ Serving)
  /\ UNCHANGED <<guard, refs, clean>>

CanHold == Serving /\ ~banned /\ ~tripped /\ Cardinality(refs) < GuardCap

-----------------------------------------------------------------------------
(* run_agent.                                                                *)

Main(from, to) == alive /\ main = from /\ main' = to

HoldDiscovery ==
  /\ \/ /\ Main("start", "discover")
        /\ CanHold
        /\ refs' = refs \cup {Discovery}
     \/ /\ Main("start", "cleanup")
        /\ UNCHANGED refs
  /\ UNCHANGED <<environment, processes, blocked, guard, banned, clean, tripped, sess, flowq,
                 ctlq, fw, cw>>

DiscoveredAll == \A f \in Flows : Taken(f)

\* Mutant: the handle is not handed to the guardian.
DiscoverUnguarded(f) ==
  /\ alive /\ main = "discover" /\ ~DiscoveredAll /\ ~blocked
  /\ ~Taken(f)
  /\ CanHold
  /\ Len(flowq) < QueueCap
  /\ sess' = [sess EXCEPT ![f].handle = TRUE]
  /\ flowq' = Append(flowq, f)
  /\ app' = [app EXCEPT ![f] = "open"]
  /\ UNCHANGED <<divq, wire, processes, guardian, main, tripped, ctlq, fw, cw>>

\* The SYN of a new connection: its handle is opened and held by the guardian before
\* the SYN goes on.
Discover(f) ==
  /\ alive /\ main = "discover" /\ ~DiscoveredAll /\ ~blocked
  /\ ~Taken(f)
  /\ CanHold
  /\ Len(flowq) < QueueCap
  /\ refs' = refs \cup {f}
  /\ sess' = [sess EXCEPT ![f].handle = TRUE]
  /\ flowq' = Append(flowq, f)
  /\ app' = [app EXCEPT ![f] = "open"]
  /\ UNCHANGED <<divq, wire, processes, blocked, guard, banned, clean, main, tripped, ctlq,
                 fw, cw>>

\* Anything fails, or the port of a connection is used again.
MainFails ==
  /\ Main("discover", "cleanup")
  /\ UNCHANGED <<environment, processes, guardian, tripped, sess, flowq, ctlq, fw, cw>>

\* All are discovered: guard_release of the discovery handle, which is closed.
ReleaseDiscovery ==
  /\ DiscoveredAll
  /\ \/ /\ Serving
        /\ Main("discover", "wait")
        /\ refs' = refs \ {Discovery}
        /\ UNCHANGED tripped
     \/ /\ ~Serving
        /\ Main("discover", "banned")
        /\ tripped' = TRUE
        /\ UNCHANGED refs
  /\ UNCHANGED <<environment, processes, blocked, guard, banned, clean, sess, flowq, ctlq, fw,
                 cw>>

Completed == \A f \in Flows : sess[f].row # "none" /\ ~sess[f].handle
Succeeded == \A f \in Flows : sess[f].row = "success"
WorkersIdle == /\ \A w \in FlowWorkers : fw[w] = IdleFlow
               /\ \A w \in ControlWorkers : cw[w] = IdleControl

\* The workers are joined and the results written, if that succeeds.
Collect ==
  /\ Completed /\ WorkersIdle
  /\ \/ Succeeded /\ Main("wait", "done")
     \/ Main("wait", "cleanup")
  /\ UNCHANGED <<environment, processes, guardian, tripped, sess, flowq, ctlq, fw, cw>>

Cleanup ==
  /\ Main("cleanup", "ban")
  /\ tripped' = TRUE
  /\ UNCHANGED <<environment, processes, guardian, sess, flowq, ctlq, fw, cw>>

MainBan ==
  /\ \/ Main("ban", "exit")
     \/ Main("banned", "wait")
  /\ Quarantine
  /\ UNCHANGED <<environment, processes, tripped, sess, flowq, ctlq, fw, cw>>

\* The discovery handle is given up if it still is held, and the process ends: its
\* handles are closed, its threads are no more.
Exit ==
  /\ Main("exit", "gone")
  /\ alive' = FALSE
  /\ refs' = refs \ {Discovery}
  /\ UNCHANGED <<environment, crashes, blocked, guard, banned, clean, tripped, sess, flowq, ctlq,
                 fw, cw>>

\* guard_done, and the end of a process without failures.
Done ==
  /\ Main("done", "gone")
  /\ alive' = FALSE
  /\ clean' = (~tripped /\ Serving /\ refs = {} /\ ~banned)
  /\ UNCHANGED <<environment, crashes, blocked, guard, refs, banned, tripped, sess, flowq, ctlq,
                 fw, cw>>

-----------------------------------------------------------------------------
(* Flow workers.                                                             *)

FlowAt(w, pc) == alive /\ fw[w].pc = pc
FlowGoto(w, pc) == fw' = [fw EXCEPT ![w].pc = pc]

TakeFlow(w) ==
  /\ FlowAt(w, "idle")
  /\ flowq # <<>>
  /\ fw' = [fw EXCEPT ![w] = [pc |-> "recv", f |-> Head(flowq)]]
  /\ flowq' = Tail(flowq)
  /\ UNCHANGED <<environment, processes, guardian, main, tripped, sess, ctlq, cw>>

\* The session's lock is held while its packets are released.
Locked(f) == \E w \in ControlWorkers : cw[w].pc = "release" /\ cw[w].f = f

\* inspect_packet, and what flow_worker does with its answer.
\* The ClientHello submits the session, and is sent on or lost on the way.
FirstHello(f) ==
  /\ ~sess[f].lookup
  /\ Len(ctlq) < QueueCap
  /\ sess' = [sess EXCEPT ![f].lookup = TRUE]
  /\ ctlq' = Append(ctlq, f)
  /\ app' \in {app, [app EXCEPT ![f] = "sent"]}
  /\ UNCHANGED wire

ServerHello(f) ==
  /\ sess' = [sess EXCEPT ![f].shello = TRUE]
  /\ app' \in {app, [app EXCEPT ![f] = "talk"]}
  /\ UNCHANGED <<wire, ctlq>>

\* A packet that leaves the host.
Sent(f, p) ==
  /\ app' = IF p = "hello" /\ app[f] = "open" THEN [app EXCEPT ![f] = "sent"] ELSE app
  /\ wire' = IF p = "data" THEN wire \cup {f} ELSE wire

Hold(f, p) ==
  /\ sess' = IF Len(sess[f].held) < HeldCap
             THEN [sess EXCEPT ![f].held = Append(@, p)]
             ELSE sess
  /\ UNCHANGED <<app, wire>>

\* Mutant: packets are held until the report is verified, not until the session is decided.
LaterUntilVerified(f, p) ==
  /\ sess[f].lookup
  /\ \/ ~sess[f].verified /\ Hold(f, p)
     \/ sess[f].verified /\ Sent(f, p) /\ UNCHANGED sess
  /\ UNCHANGED ctlq

\* Whatever the application sends after it, a second ClientHello too, is held until the
\* session is decided, if there is room; then it is sent or dropped.
Later(f, p) ==
  /\ sess[f].lookup
  /\ \/ ~sess[f].decided /\ Hold(f, p)
     \/ sess[f].decided /\ sess[f].allowed /\ Sent(f, p) /\ UNCHANGED sess
     \/ sess[f].decided /\ ~sess[f].allowed /\ UNCHANGED <<app, wire, sess>>
  /\ UNCHANGED ctlq

Recv(w) ==
  LET f == fw[w].f
      p == Head(divq[f])
  IN  /\ FlowAt(w, "recv")
      /\ divq[f] # <<>>
      /\ ~Locked(f)
      /\ \/ p = "hello" /\ FirstHello(f)
         \/ p = "shello" /\ ServerHello(f)
         \/ p # "shello" /\ Later(f, p)
      /\ divq' = [divq EXCEPT ![f] = Tail(@)]
      /\ UNCHANGED <<processes, guardian, main, tripped, flowq, fw, cw>>

\* WinDivertRecv fails: nothing is queued and nothing more will be.
RecvEnds(w) ==
  /\ FlowAt(w, "recv")
  /\ sess[fw[w].f].shut
  /\ divq[fw[w].f] = <<>>
  /\ FlowGoto(w, "finish")
  /\ UNCHANGED <<environment, processes, guardian, main, tripped, sess, flowq, ctlq, cw>>

\* finish_session: the result is taken when the control worker is done; then the guardian
\* gives its handle up.
FinishSession(w) ==
  LET f == fw[w].f
  IN  /\ FlowAt(w, "finish")
      /\ sess[f].done
      /\ sess' = [sess EXCEPT ![f].row =
                    IF sess[f].decided /\ sess[f].allowed /\ sess[f].told
                    THEN "success" ELSE "failure"]
      /\ \/ /\ Serving
            /\ refs' = refs \ {f}
            /\ FlowGoto(w, "close")
            /\ UNCHANGED tripped
         \/ /\ ~Serving
            /\ tripped' = TRUE
            /\ FlowGoto(w, "ban")
            /\ UNCHANGED refs
      /\ UNCHANGED <<environment, processes, blocked, guard, banned, clean, main, flowq, ctlq, cw>>

FlowBan(w) ==
  /\ FlowAt(w, "ban")
  /\ FlowGoto(w, "close")
  /\ Quarantine
  /\ UNCHANGED <<environment, processes, main, tripped, sess, flowq, ctlq, cw>>

CloseFlow(w) ==
  /\ FlowAt(w, "close")
  /\ sess' = [sess EXCEPT ![fw[w].f].handle = FALSE]
  /\ fw' = [fw EXCEPT ![w] = IdleFlow]
  /\ UNCHANGED <<environment, processes, guardian, main, tripped, flowq, ctlq, cw>>

-----------------------------------------------------------------------------
(* Control workers.                                                          *)

ControlAt(w, pc) == alive /\ cw[w].pc = pc
ControlGoto(w, pc) == cw' = [cw EXCEPT ![w].pc = pc]
Outcome(w, pc, ok) == cw' = [cw EXCEPT ![w].pc = pc, ![w].ok = ok]
ControlLocal == UNCHANGED <<environment, processes, main, flowq, fw>>

TakeControl(w) ==
  /\ ControlAt(w, "idle")
  /\ ctlq # <<>>
  /\ cw' = [cw EXCEPT ![w] = [pc |-> "exchange", f |-> Head(ctlq), ok |-> TRUE]]
  /\ ctlq' = Tail(ctlq)
  /\ UNCHANGED <<guardian, tripped, sess>>
  /\ ControlLocal

\* Mutant: a failure is not decided.
ExchangeGivesUp(w) ==
  /\ ControlAt(w, "exchange")
  /\ \/ Outcome(w, "await", TRUE)
     \/ cw' = [cw EXCEPT ![w] = IdleControl]
  /\ UNCHANGED <<guardian, tripped, sess, ctlq>>
  /\ ControlLocal

\* Request, response and report; any failure goes straight to the decision.
Exchange(w) ==
  /\ ControlAt(w, "exchange")
  /\ \/ Outcome(w, "await", TRUE)
     \/ Outcome(w, "decide", FALSE)
  /\ UNCHANGED <<guardian, tripped, sess, ctlq>>
  /\ ControlLocal

\* The wait for the ServerHello, which may time out.
AwaitServerHello(w) ==
  /\ ControlAt(w, "await")
  /\ \/ sess[cw[w].f].shello /\ Outcome(w, "verify", TRUE)
     \/ ~sess[cw[w].f].shello /\ Outcome(w, "decide", FALSE)
  /\ UNCHANGED <<guardian, tripped, sess, ctlq>>
  /\ ControlLocal

\* The report verifies against the key of the ServerHello, or does not.
Verify(w) ==
  /\ ControlAt(w, "verify")
  /\ \E verified \in BOOLEAN : sess' = [sess EXCEPT ![cw[w].f].verified = verified]
  /\ ControlGoto(w, "verdict")
  /\ UNCHANGED <<guardian, tripped, ctlq>>
  /\ ControlLocal

\* Mutant: only a verdict that cannot be sent is a failure.
SendVerdictOnly(w) ==
  LET f == cw[w].f
  IN  /\ ControlAt(w, "verdict")
      /\ \/ /\ sess' = [sess EXCEPT ![f].told = TRUE]
            /\ Outcome(w, "decide", TRUE)
         \/ /\ Outcome(w, "decide", FALSE)
            /\ UNCHANGED sess
      /\ UNCHANGED <<guardian, tripped, ctlq>>
      /\ ControlLocal

\* The verdict is sent, if it can be, before the decision is taken.
SendVerdict(w) ==
  LET f == cw[w].f
  IN  /\ ControlAt(w, "verdict")
      /\ \/ /\ sess' = [sess EXCEPT ![f].told = TRUE]
            /\ Outcome(w, "decide", sess[f].verified)
         \/ /\ Outcome(w, "decide", FALSE)
            /\ UNCHANGED sess
      /\ UNCHANGED <<guardian, tripped, ctlq>>
      /\ ControlLocal

\* Mutant: the endpoint is not blocked for a denial.
DecideUntripped(w) ==
  /\ ControlAt(w, "decide")
  /\ ControlGoto(w, IF cw[w].ok /\ ~tripped THEN "admit" ELSE "deny")
  /\ UNCHANGED <<guardian, tripped, sess, ctlq>>
  /\ ControlLocal

\* decide: a session is admitted unless its report failed or the latch has tripped.
Decide(w) ==
  /\ ControlAt(w, "decide")
  /\ \/ /\ cw[w].ok /\ ~tripped
        /\ ControlGoto(w, "admit")
        /\ UNCHANGED tripped
     \/ /\ ~cw[w].ok \/ tripped
        /\ tripped' = TRUE
        /\ ControlGoto(w, "ban")
  /\ UNCHANGED <<guardian, sess, ctlq>>
  /\ ControlLocal

\* Under the session's lock, which may be later than another session's denial.
Admit(w) ==
  /\ ControlAt(w, "admit")
  /\ sess' = [sess EXCEPT ![cw[w].f].allowed = TRUE]
  /\ ControlGoto(w, "release")
  /\ UNCHANGED <<guardian, tripped, ctlq>>
  /\ ControlLocal

ControlBan(w) ==
  /\ \/ ControlAt(w, "ban") /\ ControlGoto(w, "deny")
     \/ ControlAt(w, "failed") /\ ControlGoto(w, "shut")
  /\ Quarantine
  /\ UNCHANGED <<tripped, sess, ctlq>>
  /\ ControlLocal

\* A handle that drops the session's packets is opened, if that succeeds, and the
\* session is denied; guard_trip once more changes nothing.
Deny(w) ==
  LET f == cw[w].f
  IN  /\ ControlAt(w, "deny")
      /\ \E drop \in BOOLEAN :
           sess' = [sess EXCEPT ![f].drop = drop, ![f].held = <<>>, ![f].decided = TRUE]
      /\ ControlGoto(w, "shut")
      /\ UNCHANGED <<guardian, tripped, ctlq>>
      /\ ControlLocal

\* The next held packet is sent, unless the latch has tripped or sending fails.
ReleaseNext(w) ==
  LET f == cw[w].f
  IN  /\ ControlAt(w, "release")
      /\ sess[f].held # <<>>
      /\ \/ /\ ~tripped
            /\ sess' = [sess EXCEPT ![f].held = Tail(@)]
            /\ Sent(f, Head(sess[f].held))
            /\ UNCHANGED <<tripped, cw>>
         \/ /\ sess' = [sess EXCEPT ![f].held = <<>>, ![f].decided = TRUE,
                                     ![f].allowed = FALSE]
            /\ tripped' = TRUE
            /\ ControlGoto(w, "failed")
            /\ UNCHANGED <<app, wire>>
      /\ UNCHANGED <<divq, processes, guardian, main, flowq, ctlq, fw>>

Released(w) ==
  /\ ControlAt(w, "release")
  /\ sess[cw[w].f].held = <<>>
  /\ sess' = [sess EXCEPT ![cw[w].f].decided = TRUE]
  /\ ControlGoto(w, "shut")
  /\ UNCHANGED <<guardian, tripped, ctlq>>
  /\ ControlLocal

\* The handle diverts no more, and control_done is set.
Shut(w) ==
  /\ ControlAt(w, "shut")
  /\ sess' = [sess EXCEPT ![cw[w].f].shut = TRUE, ![cw[w].f].done = TRUE]
  /\ cw' = [cw EXCEPT ![w] = IdleControl]
  /\ UNCHANGED <<guardian, tripped, ctlq>>
  /\ ControlLocal

-----------------------------------------------------------------------------
(* guard_parent, and the end of processes.                                   *)

\* Mutants: the duplicates are closed first; only an agent that held handles is thought
\* to have failed.
CloseRefsFirst ==
  /\ guard = "serve"
  /\ ~alive
  /\ refs # {}
  /\ refs' = {}
  /\ UNCHANGED <<guard, blocked, banned, clean, environment, processes, agent>>
GuardianEndsUnlessIdle ==
  /\ guard = "serve"
  /\ ~alive
  /\ guard' = "close"
  /\ blocked' = (blocked \/ refs # {})
  /\ banned' = (banned \/ refs # {})
  /\ UNCHANGED <<refs, clean, environment, processes, agent>>

\* The message loop ends with the agent; unless all was well the endpoint is
\* quarantined, if it has not been already.
GuardianEnds ==
  /\ guard = "serve"
  /\ ~alive
  /\ guard' = "close"
  /\ blocked' = (blocked \/ ~clean)
  /\ banned' = (banned \/ ~clean)
  /\ UNCHANGED <<refs, clean, environment, processes, agent>>

\* After that the duplicates are closed.
CloseRefs ==
  /\ guard = "close"
  /\ guard' = "exit"
  /\ refs' = {}
  /\ UNCHANGED <<blocked, banned, clean, environment, processes, agent>>

\* The agent is killed, or the guardian is.
CrashAgent ==
  /\ alive
  /\ crashes < MaxCrash
  /\ alive' = FALSE
  /\ crashes' = crashes + 1
  /\ UNCHANGED <<environment, guardian, agent>>

CrashGuardian ==
  /\ guard \in {"serve", "close"}
  /\ crashes < MaxCrash
  /\ crashes' = crashes + 1
  /\ guard' = "dead"
  /\ refs' = {}
  /\ UNCHANGED <<environment, alive, blocked, banned, clean, agent>>

-----------------------------------------------------------------------------
Environment(f) == SendHello(f) \/ PeerHello(f) \/ SendData(f)
MainThread ==
  \/ HoldDiscovery
  \/ \E f \in Flows : Discover(f)
  \/ MainFails
  \/ ReleaseDiscovery
  \/ Collect
  \/ Cleanup
  \/ MainBan
  \/ Exit
  \/ Done
FlowThread(w) ==
  \/ TakeFlow(w)
  \/ Recv(w)
  \/ RecvEnds(w)
  \/ FinishSession(w)
  \/ FlowBan(w)
  \/ CloseFlow(w)
ControlThread(w) ==
  \/ TakeControl(w)
  \/ Exchange(w)
  \/ AwaitServerHello(w)
  \/ Verify(w)
  \/ SendVerdict(w)
  \/ Decide(w)
  \/ Admit(w)
  \/ ControlBan(w)
  \/ Deny(w)
  \/ ReleaseNext(w)
  \/ Released(w)
  \/ Shut(w)
Guardian == GuardianEnds \/ CloseRefs

Next ==
  \/ \E f \in Flows : Environment(f)
  \/ MainThread
  \/ \E w \in FlowWorkers : FlowThread(w)
  \/ \E w \in ControlWorkers : ControlThread(w)
  \/ Guardian
  \/ CrashAgent
  \/ CrashGuardian

Spec == Init /\ [][Next]_vars

\* Threads run; a control worker's sockets and its wait for the ServerHello have
\* timeouts; a quarantine is retried until it succeeds.
FairSpec ==
  /\ Spec
  /\ WF_vars(Collect \/ Cleanup \/ MainBan \/ Exit \/ Done)
  /\ \A w \in FlowWorkers : WF_vars(FlowThread(w))
  /\ \A w \in ControlWorkers : WF_vars(ControlThread(w))
  /\ WF_vars(Guardian)

-----------------------------------------------------------------------------
(* What must hold.                                                           *)

\* The application data of a connection leaves the host only if a report for its
\* handshake was verified and the server was told, wherever the agent or the guardian is
\* killed (decide, inspect_packet, guard_parent).
DataIsAttested == \A f \in wire : sess[f].verified /\ sess[f].told

\* A connection that is no longer diverted is one that was admitted, or the endpoint is
\* blocked: the duplicates of the guardian cover the death of the agent, and are closed
\* after the endpoint is blocked (guard_hold before the SYN goes on, guard_parent).
OpenIsSafe == \A f \in Flows : Taken(f) => \/ Diverted(f)
                                         \/ sess[f].allowed
                                         \/ blocked

\* Once its control worker is done with it, a session is admitted or the endpoint is
\* blocked: no denial leaves the endpoint open (decide calls guard_trip first).
DeniedIsBlocked == \A f \in Flows : sess[f].done => \/ sess[f].allowed
                                                   \/ blocked

\* The guardian is told that all is well (guard_done) only if every connection was
\* verified, its server told and its packets released, and nothing was ever blocked.
CleanIsHonest ==
  clean => /\ ~tripped /\ ~banned /\ ~blocked
           /\ \A f \in Flows : /\ sess[f].verified /\ sess[f].told
                               /\ sess[f].allowed /\ sess[f].held = <<>>

\* A session that was submitted is decided while the agent lives, whatever the server
\* and the peer do (the timeouts of control_worker).
SessionIsDecided == \A f \in Flows : sess[f].lookup ~> (sess[f].done \/ ~alive)

\* However the agent ends, the endpoint gets blocked unless every session was admitted
\* (run_agent's cleanup, guard_parent after its loop).
EndIsBlocked == ~alive ~> (blocked \/ Succeeded)
=============================================================================
