-------------------------- MODULE WindowsAgent_proofs --------------------------
(***************************************************************************)
(* Theorems about WindowsAgent, for every number of flows and workers and  *)
(* every capacity, whichever process is killed.                            *)
(***************************************************************************)
EXTENDS WindowsAgent, TLAPS

-----------------------------------------------------------------------------
(* The inductive invariant.                                                  *)

\* A session: it is admitted on a verified report of which the server was told, it is denied
\* with the endpoint blocked, and its handle diverts until then.
SessionOf(f) ==
  /\ sess[f].allowed => sess[f].lookup /\ sess[f].verified /\ sess[f].told
  /\ sess[f].decided => sess[f].lookup /\ sess[f].held = <<>>
  /\ sess[f].shut => sess[f].done
  /\ sess[f].done => sess[f].lookup /\ sess[f].decided /\ (sess[f].allowed \/ blocked)
  /\ sess[f].row = "success" => sess[f].done /\ sess[f].allowed /\ sess[f].told
  /\ Taken(f) => sess[f].handle \/ sess[f].done
  /\ app[f] # "closed" => Taken(f)
  /\ f \in wire => /\ sess[f].allowed \/ sess[f].decided
                   /\ sess[f].verified /\ sess[f].told

\* A handle that is still needed is held by the guardian, unless that has died or ended.
CoverOf(f) ==
  Taken(f) /\ ~sess[f].done => sess[f].handle /\ (f \in refs \/ guard \in {"dead", "exit"})

\* A session that nothing was decided about.
Open(f) ==
  f \in Flows /\ sess[f].lookup /\ ~sess[f].allowed /\ ~sess[f].decided /\ ~sess[f].done

Early == {"exchange", "await", "verify", "verdict", "decide", "admit", "ban", "deny"}

\* A control worker: what it has established about its session so far.
Working(pc, ok, f) ==
  /\ pc \in Early => Open(f)
  /\ pc # "idle" => f \in Flows /\ sess[f].lookup /\ ~sess[f].done
  /\ pc = "decide" /\ ok => sess[f].verified /\ sess[f].told
  /\ pc = "admit" => sess[f].verified /\ sess[f].told
  /\ pc = "release" => sess[f].allowed /\ ~sess[f].decided
  /\ pc \in {"ban", "failed"} => tripped
  /\ pc = "deny" => blocked
  /\ pc \in {"failed", "shut"} => sess[f].decided
  /\ pc = "shut" => sess[f].allowed \/ blocked
ControlOf(w) == Working(cw[w].pc, cw[w].ok, cw[w].f)

\* A session is queued or with one control worker.
Alone(w) == cw[w].pc # "idle" =>
  /\ \A v \in ControlWorkers : v # w /\ cw[v].pc # "idle" => cw[v].f # cw[w].f
  /\ \A i \in DOMAIN ctlq : ctlq[i] # cw[w].f
Queued == \A i \in DOMAIN ctlq : /\ Open(ctlq[i])
                                 /\ \A j \in DOMAIN ctlq : ctlq[i] = ctlq[j] => i = j

\* A flow worker gives up only the handle of a session that is done.
FlowOf(w) ==
  /\ fw[w].pc # "idle" => fw[w].f \in Flows /\ Taken(fw[w].f)
  /\ fw[w].pc \in {"ban", "close"} => sess[fw[w].f].done
  /\ fw[w].pc = "ban" => tripped

Discovered == \A i \in DOMAIN flowq : Taken(flowq[i])

\* The main thread and the guardian: either ends only when the endpoint is blocked or all
\* has succeeded, unless it is killed, and not both are.
EndInv ==
  /\ main \in {"ban", "banned"} => tripped
  /\ main = "exit" => blocked
  /\ main = "done" => Succeeded
  /\ blocked /\ alive => tripped
  /\ clean => ~alive /\ ~tripped /\ ~banned /\ ~blocked /\ Succeeded
  /\ ~alive /\ crashes = 0 => blocked \/ Succeeded
  /\ guard = "dead" => crashes = 1 /\ (~alive => blocked \/ Succeeded)
  /\ guard \in {"close", "exit"} => ~alive /\ (blocked \/ clean)

-----------------------------------------------------------------------------
(* Updates of the sessions.                                                  *)

\* The session of one flow is replaced.
LEMMA Replaced ==
  ASSUME NEW s \in [Flows -> Session], NEW f \in Flows, NEW e \in Session,
         NEW t, t = [s EXCEPT ![f] = e]
  PROVE  /\ t \in [Flows -> Session]
         /\ t[f] = e
         /\ \A g \in Flows : g # f => t[g] = s[g]
<1> QED
  OBVIOUS

\* What a flow worker may do to a session.
Quiet(s, t) ==
  /\ t \in Session
  /\ t.verified = s.verified /\ t.told = s.told
  /\ t.allowed = s.allowed /\ t.decided = s.decided
  /\ t.done = s.done /\ t.shut = s.shut
  /\ s.lookup => t.lookup
  /\ s.decided => t.held = s.held
  /\ s.handle => t.handle \/ s.done
  /\ s.row = "success" /\ s.done /\ s.decided /\ s.allowed /\ s.told => t.row = "success"
  /\ t.row = "success" => s.row = "success" \/ (s.done /\ s.allowed /\ s.told)
  /\ Len(s.held) <= HeldCap => Len(t.held) <= HeldCap

LEMMA QuietSame ==
  ASSUME NEW s \in Session
  PROVE  Quiet(s, s)
<1> QED
  BY DEF Quiet

LEMMA QuietFlags ==
  ASSUME NEW s \in Session
  PROVE  /\ Quiet(s, [s EXCEPT !.lookup = TRUE])
         /\ Quiet(s, [s EXCEPT !.shello = TRUE])
         /\ s.done => Quiet(s, [s EXCEPT !.handle = FALSE])
<1>1. Quiet(s, [s EXCEPT !.lookup = TRUE])
  BY DEF Quiet, Session
<1>2. Quiet(s, [s EXCEPT !.shello = TRUE])
  BY DEF Quiet, Session
<1>3. s.done => Quiet(s, [s EXCEPT !.handle = FALSE])
  BY DEF Quiet, Session
<1> QED
  BY <1>1, <1>2, <1>3

LEMMA QuietHold ==
  ASSUME NEW s \in Session, ~s.decided, Len(s.held) < HeldCap, NEW p \in {"hello", "data"}
  PROVE  Quiet(s, [s EXCEPT !.held = Append(@, p)])
<1>1. s.held \in Seq({"hello", "data"})
  BY DEF Session
<1>2. /\ Append(s.held, p) \in Seq({"hello", "data"})
      /\ Len(Append(s.held, p)) = Len(s.held) + 1
      /\ Len(s.held) \in Nat
  BY <1>1
<1>3. Len(Append(s.held, p)) <= HeldCap
  BY <1>2, AgentAssumption
<1> DEFINE h == Append(s.held, p)
<1>4. h \in Seq({"hello", "data"}) /\ Len(h) <= HeldCap
  BY <1>2, <1>3
<1> HIDE DEF h
<1>5. Quiet(s, [s EXCEPT !.held = h])
  BY <1>4 DEF Quiet, Session
<1> QED
  BY <1>5 DEF h

LEMMA QuietRow ==
  ASSUME NEW s \in Session, s.done,
         NEW r, r = IF s.decided /\ s.allowed /\ s.told THEN "success" ELSE "failure"
  PROVE  Quiet(s, [s EXCEPT !.row = r])
<1>1. r \in {"none", "success", "failure"}
  OBVIOUS
<1> QED
  BY <1>1 DEF Quiet, Session

-----------------------------------------------------------------------------
(* What each part leaves alone, and what it does to sessions.                *)

LEMMA EnvironmentFrame ==
  ASSUME NEW f \in Flows, Environment(f)
  PROVE  /\ UNCHANGED <<alive, crashes, blocked, guard, refs, banned, clean, main, tripped, sess,
                        flowq, ctlq, fw, cw>>
         /\ \E p \in {"hello", "shello", "data"} : Send(f, p)
<1>1. PICK p \in {"hello", "shello", "data"} : Send(f, p)
  BY DEF Environment, SendHello, PeerHello, SendData
<1> QED
  BY <1>1 DEF Send, processes, guardian, agent

LEMMA RecvFrame ==
  ASSUME TypeOK, NEW w \in FlowWorkers, fw[w].f \in Flows, Recv(w)
  PROVE  LET f == fw[w].f IN
         /\ UNCHANGED <<alive, crashes, blocked, guard, refs, banned, clean, main, tripped, flowq,
                        fw, cw>>
         /\ alive
         /\ \E e \in Session : /\ Quiet(sess[f], e)
                               /\ sess' = [sess EXCEPT ![f] = e]
                               /\ ctlq' # ctlq => e.lookup
         /\ ctlq' = ctlq \/ (~sess[f].lookup /\ ctlq' = Append(ctlq, f))
         /\ app' = app \/ sess'[f].lookup \/ sess'[f].shello
         /\ \A g \in Flows : g # f => app'[g] = app[g]
         /\ wire' \subseteq wire \cup {f}
         /\ wire' # wire => sess[f].allowed /\ sess[f].decided
         /\ app' \in [Flows -> {"closed", "open", "sent", "talk"}]
         /\ divq' \in [Flows -> Seq({"hello", "shello", "data"})]
<1> DEFINE f == fw[w].f
           s == sess[f]
           p == Head(divq[f])
<1>1. s \in Session /\ Len(s.held) <= HeldCap /\ sess = [sess EXCEPT ![f] = s]
  BY DEF TypeOK
<1>2. /\ divq[f] \in Seq({"hello", "shello", "data"})
      /\ divq[f] # <<>>
      /\ divq' = [divq EXCEPT ![f] = Tail(@)]
      /\ \/ p = "hello" /\ FirstHello(f)
         \/ p = "shello" /\ ServerHello(f)
         \/ p # "shello" /\ Later(f, p)
      /\ UNCHANGED <<processes, guardian, main, tripped, flowq, fw, cw>>
      /\ alive
  BY DEF Recv, FlowAt, TypeOK
<1>3. p \in {"hello", "shello", "data"} /\ divq' \in [Flows -> Seq({"hello", "shello", "data"})]
  <2>1. p \in {"hello", "shello", "data"} /\ Tail(divq[f]) \in Seq({"hello", "shello", "data"})
    BY <1>2
  <2> QED
    BY <1>2, <2>1 DEF TypeOK
<1>4. CASE FirstHello(f)
  <2>1. Quiet(s, [s EXCEPT !.lookup = TRUE]) /\ [s EXCEPT !.lookup = TRUE].lookup
    BY <1>1, QuietFlags DEF Session
  <2>2. sess' = [sess EXCEPT ![f] = [s EXCEPT !.lookup = TRUE]]
    BY <1>4 DEF FirstHello
  <2>3. sess'[f].lookup
    BY <2>1, <2>2 DEF TypeOK
  <2> QED
    BY <1>2, <1>3, <1>4, <2>1, <2>2, <2>3
    DEF FirstHello, TypeOK, Quiet, processes, guardian
<1>5. CASE ServerHello(f)
  <2>1. Quiet(s, [s EXCEPT !.shello = TRUE]) /\ [s EXCEPT !.shello = TRUE].shello
    BY <1>1, QuietFlags DEF Session
  <2>2. sess' = [sess EXCEPT ![f] = [s EXCEPT !.shello = TRUE]]
    BY <1>5 DEF ServerHello
  <2>3. sess'[f].shello
    BY <2>1, <2>2 DEF TypeOK
  <2> QED
    BY <1>2, <1>3, <1>5, <2>1, <2>2, <2>3 DEF ServerHello, TypeOK, Quiet, processes, guardian
<1>6. CASE p # "shello" /\ Later(f, p)
  <2>0. p \in {"hello", "data"} /\ s.lookup
    BY <1>3, <1>6 DEF Later
  <2>1. CASE ~s.decided /\ Hold(f, p) /\ UNCHANGED ctlq /\ Len(s.held) < HeldCap
    <3>1. Quiet(s, [s EXCEPT !.held = Append(@, p)])
      BY <1>1, <2>0, <2>1, QuietHold
    <3>2. sess' = [sess EXCEPT ![f] = [s EXCEPT !.held = Append(@, p)]]
      BY <2>1 DEF Hold
    <3> QED
      BY <1>2, <1>3, <2>1, <3>1, <3>2 DEF Hold, TypeOK, Quiet, processes, guardian
  <2>2. CASE UNCHANGED <<sess, ctlq, app, wire>>
    BY <1>1, <1>2, <1>3, <2>2, QuietSame DEF TypeOK, processes, guardian
  <2>3. CASE s.decided /\ s.allowed /\ Sent(f, p) /\ UNCHANGED <<sess, ctlq>>
    BY <1>1, <1>2, <1>3, <2>0, <2>3, QuietSame DEF Sent, TypeOK, processes, guardian
  <2> QED
    BY <1>6, <2>1, <2>2, <2>3 DEF Later, Hold
<1> QED
  BY <1>2, <1>4, <1>5, <1>6

LEMMA FlowFrame ==
  ASSUME TypeOK, NEW w \in FlowWorkers, FlowOf(w), FlowThread(w), ~Recv(w)
  PROVE  LET f == fw[w].f IN
         /\ UNCHANGED <<app, divq, wire, alive, crashes, guard, clean, main, ctlq, cw>>
         /\ alive
         /\ blocked => blocked'
         /\ banned => banned'
         /\ tripped => tripped'
         /\ blocked' => blocked \/ tripped
         /\ \/ UNCHANGED sess
            \/ /\ f \in Flows
               /\ \E e \in Session : Quiet(sess[f], e) /\ sess' = [sess EXCEPT ![f] = e]
         /\ \/ UNCHANGED refs
            \/ f \in Flows /\ refs' = refs \ {f} /\ sess[f].done
         /\ \A v \in FlowWorkers : v # w => fw'[v] = fw[v]
<1> DEFINE f == fw[w].f
           s == sess[f]
<1>0. FlowAt(w, "finish") \/ FlowAt(w, "close") => f \in Flows /\ s \in Session
  BY DEF TypeOK, FlowOf, FlowAt
<1>1. CASE TakeFlow(w) \/ RecvEnds(w)
  BY <1>1 DEF TakeFlow, RecvEnds, FlowAt, FlowGoto, environment, processes, guardian, TypeOK
<1>2. CASE FinishSession(w)
  <2>1. s.done /\ f \in Flows /\ s \in Session
    BY <1>0, <1>2 DEF FinishSession
  <2> DEFINE r == IF s.decided /\ s.allowed /\ s.told THEN "success" ELSE "failure"
             e == [s EXCEPT !.row = r]
  <2>2. Quiet(s, e)
    BY <2>1, QuietRow
  <2>3. sess' = [sess EXCEPT ![f] = e]
    BY <1>2 DEF FinishSession
  <2>4. UNCHANGED <<app, divq, wire, alive, crashes, guard, clean, main, ctlq, cw, blocked, banned>>
    BY <1>2 DEF FinishSession, environment, processes
  <2>5. /\ alive
        /\ tripped => tripped'
        /\ refs' = refs \/ refs' = refs \ {f}
        /\ \A v \in FlowWorkers : v # w => fw'[v] = fw[v]
    BY <1>2 DEF FinishSession, FlowAt, FlowGoto, TypeOK
  <2> HIDE DEF e
  <2> QED
    BY <2>1, <2>2, <2>3, <2>4, <2>5 DEF Quiet
<1>3. CASE FlowBan(w)
  <2>1. tripped
    BY <1>3 DEF FlowBan, FlowAt, FlowOf
  <2> QED
    BY <1>3, <2>1 DEF FlowBan, FlowAt, FlowGoto, Quarantine, environment, processes, TypeOK
<1>4. CASE CloseFlow(w)
  <2>1. f \in Flows /\ s \in Session /\ s.done
    BY <1>0, <1>4 DEF CloseFlow, FlowAt, FlowOf
  <2> DEFINE e == [s EXCEPT !.handle = FALSE]
  <2>2. Quiet(s, e)
    BY <2>1, QuietFlags
  <2>3. sess' = [sess EXCEPT ![f] = e]
    BY <1>4 DEF CloseFlow
  <2> HIDE DEF e
  <2> QED
    BY <1>4, <2>1, <2>2, <2>3 DEF CloseFlow, FlowAt, Quiet, environment, processes, guardian, TypeOK
<1> QED
  BY <1>1, <1>2, <1>3, <1>4 DEF FlowThread

LEMMA MainFrame ==
  ASSUME TypeOK, EndInv, MainThread
  PROVE  /\ UNCHANGED <<divq, wire, crashes, guard, ctlq, fw, cw>>
         /\ alive
         /\ blocked => blocked'
         /\ banned => banned'
         /\ tripped => tripped'
         /\ blocked' => blocked \/ tripped
         /\ \/ \E f \in Flows :
                 /\ ~Taken(f)
                 /\ Discover(f)
            \/ UNCHANGED <<sess, flowq, app>> /\ refs \ {Discovery} \subseteq refs'
               /\ refs' \subseteq refs \cup {Discovery}
<1>1. CASE \E f \in Flows : Discover(f)
  <2>1. PICK f \in Flows : Discover(f)
    BY <1>1
  <2>2. /\ UNCHANGED <<divq, wire, crashes, guard, ctlq, fw, cw, blocked, banned, tripped>>
        /\ alive
        /\ ~Taken(f)
    BY <2>1 DEF Discover, processes
  <2> QED
    BY <2>1, <2>2
<1>2. CASE HoldDiscovery \/ MainFails \/ ReleaseDiscovery
  BY <1>2 DEF HoldDiscovery, MainFails, ReleaseDiscovery, Main, environment, processes, guardian
<1>3. CASE Collect \/ Cleanup \/ Exit \/ Done
  BY <1>3 DEF Collect, Cleanup, Exit, Done, Main, environment, processes, guardian
<1>4. CASE MainBan
  <2>1. tripped
    BY <1>4 DEF MainBan, Main, EndInv
  <2> QED
    BY <1>4, <2>1 DEF MainBan, Main, Quarantine, environment, processes
<1> QED
  BY <1>1, <1>2, <1>3, <1>4 DEF MainThread

\* What a control worker may do to a session.
Worked(s, t) ==
  /\ t \in Session
  /\ t.lookup = s.lookup /\ t.handle = s.handle /\ t.row = s.row
  /\ Len(s.held) <= HeldCap => Len(t.held) <= HeldCap

LEMMA WorkedFlags ==
  ASSUME NEW s \in Session, NEW v \in BOOLEAN
  PROVE  /\ Worked(s, s)
         /\ Worked(s, [s EXCEPT !.verified = v])
         /\ Worked(s, [s EXCEPT !.told = TRUE])
         /\ Worked(s, [s EXCEPT !.allowed = TRUE])
         /\ Worked(s, [s EXCEPT !.decided = TRUE])
         /\ Worked(s, [s EXCEPT !.shut = TRUE, !.done = TRUE])
<1>1. Worked(s, s)
  BY DEF Worked
<1>2. Worked(s, [s EXCEPT !.verified = v])
  BY DEF Worked, Session
<1>3. Worked(s, [s EXCEPT !.told = TRUE])
  BY DEF Worked, Session
<1>4. Worked(s, [s EXCEPT !.allowed = TRUE])
  BY DEF Worked, Session
<1>5. Worked(s, [s EXCEPT !.decided = TRUE])
  BY DEF Worked, Session
<1>6. Worked(s, [s EXCEPT !.shut = TRUE, !.done = TRUE])
  BY DEF Worked, Session
<1> QED
  BY <1>1, <1>2, <1>3, <1>4, <1>5, <1>6

LEMMA WorkedHeld ==
  ASSUME NEW s \in Session, NEW v \in BOOLEAN
  PROVE  /\ Worked(s, [s EXCEPT !.drop = v, !.held = <<>>, !.decided = TRUE])
         /\ Worked(s, [s EXCEPT !.held = <<>>, !.decided = TRUE, !.allowed = FALSE])
         /\ s.held # <<>> => Worked(s, [s EXCEPT !.held = Tail(@)])
<1>1. <<>> \in Seq({"hello", "data"}) /\ Len(<<>>) <= HeldCap
  BY AgentAssumption
<1>2. Worked(s, [s EXCEPT !.drop = v, !.held = <<>>, !.decided = TRUE])
  BY <1>1 DEF Worked, Session
<1>3. Worked(s, [s EXCEPT !.held = <<>>, !.decided = TRUE, !.allowed = FALSE])
  BY <1>1 DEF Worked, Session
<1>4. ASSUME s.held # <<>>
      PROVE  Worked(s, [s EXCEPT !.held = Tail(@)])
  <2>1. s.held \in Seq({"hello", "data"})
    BY DEF Session
  <2>2. /\ Tail(s.held) \in Seq({"hello", "data"})
        /\ Len(Tail(s.held)) = Len(s.held) - 1
        /\ Len(s.held) \in Nat
    BY <1>4, <2>1
  <2>3. Len(s.held) <= HeldCap => Len(Tail(s.held)) <= HeldCap
    BY <2>2, AgentAssumption
  <2> DEFINE h == Tail(s.held)
  <2>4. h \in Seq({"hello", "data"}) /\ (Len(s.held) <= HeldCap => Len(h) <= HeldCap)
    BY <2>2, <2>3
  <2> HIDE DEF h
  <2>5. Worked(s, [s EXCEPT !.held = h])
    BY <2>4 DEF Worked, Session
  <2> QED
    BY <2>5 DEF h
<1> QED
  BY <1>2, <1>3, <1>4

\* A worker that moves on keeps its session.
LEMMA Moves ==
  ASSUME cw \in [ControlWorkers -> ControlWorker], NEW w \in ControlWorkers, NEW pc, NEW ok \in BOOLEAN,
         pc \in {"exchange", "await", "verify", "verdict", "decide", "ban", "deny", "admit",
                 "release", "failed", "shut"},
         ControlGoto(w, pc) \/ Outcome(w, pc, ok)
  PROVE  /\ cw' \in [ControlWorkers -> ControlWorker]
         /\ cw'[w].pc = pc
         /\ cw'[w].f = cw[w].f
         /\ ControlGoto(w, pc) => cw'[w].ok = cw[w].ok
         /\ Outcome(w, pc, ok) => cw'[w].ok = ok
         /\ \A v \in ControlWorkers : v # w => cw'[v] = cw[v]
<1>0. cw[w] \in ControlWorker
  OBVIOUS
<1>1. CASE ControlGoto(w, pc)
  <2> DEFINE c == [cw[w] EXCEPT !.pc = pc]
  <2>1. c \in ControlWorker /\ c.pc = pc /\ c.f = cw[w].f /\ c.ok = cw[w].ok
    BY <1>0 DEF ControlWorker
  <2>2. cw' = [cw EXCEPT ![w] = c]
    BY <1>1 DEF ControlGoto
  <2>3. ASSUME Outcome(w, pc, ok) PROVE cw'[w].ok = ok
    BY <1>0, <2>3 DEF Outcome, ControlWorker
  <2> HIDE DEF c
  <2> QED
    BY <2>1, <2>2, <2>3
<1>2. CASE Outcome(w, pc, ok)
  <2> DEFINE c == [cw[w] EXCEPT !.pc = pc, !.ok = ok]
  <2>1. c \in ControlWorker /\ c.pc = pc /\ c.f = cw[w].f /\ c.ok = ok
    BY <1>0 DEF ControlWorker
  <2>2. cw' = [cw EXCEPT ![w] = c]
    BY <1>2 DEF Outcome
  <2>3. ASSUME ControlGoto(w, pc) PROVE cw'[w].ok = cw[w].ok
    BY <1>0, <2>3 DEF ControlGoto, ControlWorker
  <2> HIDE DEF c
  <2> QED
    BY <2>1, <2>2, <2>3
<1> QED
  BY <1>1, <1>2

LEMMA ControlFrame ==
  ASSUME TypeOK, NEW w \in ControlWorkers, ControlOf(w), ControlThread(w), ~TakeControl(w),
         NEW f, f = cw[w].f
  PROVE  /\ UNCHANGED <<divq, alive, crashes, guard, refs, clean, main, flowq, fw, ctlq>>
         /\ alive
         /\ f \in Flows
         /\ cw[w].pc # "idle"
         /\ blocked => blocked'
         /\ banned => banned'
         /\ tripped => tripped'
         /\ blocked' => blocked \/ tripped
         /\ cw' \in [ControlWorkers -> ControlWorker]
         /\ \A v \in ControlWorkers : v # w => cw'[v] = cw[v]
         /\ cw'[w] = IdleControl \/ cw'[w].f = f
         /\ \E e \in Session : Worked(sess[f], e) /\ sess' = [sess EXCEPT ![f] = e]
         /\ app' \in [Flows -> {"closed", "open", "sent", "talk"}]
         /\ \A g \in Flows : g # f => app'[g] = app[g]
         /\ wire' \subseteq wire \cup {f}
<1> DEFINE s == sess[f]
<1>1. cw[w].pc # "idle" /\ alive
  BY DEF ControlThread, Exchange, AwaitServerHello, Verify, SendVerdict, Decide, Admit, ControlBan,
         Deny, ReleaseNext, Released, Shut, ControlAt
<1>2. f \in Flows /\ s \in Session /\ sess \in [Flows -> Session]
  BY <1>1 DEF ControlOf, Working, TypeOK
<1>3. cw \in [ControlWorkers -> ControlWorker]
  BY DEF TypeOK
<1>4. app \in [Flows -> {"closed", "open", "sent", "talk"}]
  BY DEF TypeOK
<1>5. \A e : Worked(s, e) => e \in Session
  BY DEF Worked
<1>6. ASSUME UNCHANGED sess
      PROVE  \E e \in Session : Worked(s, e) /\ sess' = [sess EXCEPT ![f] = e]
  <2>1. sess = [sess EXCEPT ![f] = s]
    BY <1>2
  <2> QED
    BY <1>2, <1>6, <2>1, WorkedFlags
<1>7. CASE Exchange(w) \/ AwaitServerHello(w) \/ Decide(w)
  <2>1. /\ cw' \in [ControlWorkers -> ControlWorker]
        /\ cw'[w].f = f
        /\ \A v \in ControlWorkers : v # w => cw'[v] = cw[v]
    BY <1>3, <1>7, Moves DEF Exchange, AwaitServerHello, Decide
  <2>2. /\ UNCHANGED <<divq, alive, crashes, guard, refs, clean, main, flowq, fw, ctlq>>
        /\ UNCHANGED <<sess, app, wire, blocked, banned>>
    BY <1>7 DEF Exchange, AwaitServerHello, Decide, ControlLocal, environment, processes, guardian
  <2>3. tripped => tripped'
    BY <1>7 DEF Exchange, AwaitServerHello, Decide
  <2> QED
    BY <1>1, <1>2, <1>4, <1>6, <2>1, <2>2, <2>3
<1>8. CASE Verify(w) \/ SendVerdict(w) \/ Admit(w)
  <2>1. /\ cw' \in [ControlWorkers -> ControlWorker]
        /\ cw'[w].f = f
        /\ \A v \in ControlWorkers : v # w => cw'[v] = cw[v]
    <3>1. s.verified \in BOOLEAN
      BY <1>2 DEF Session
    <3>2. CASE Verify(w) \/ Admit(w)
      BY <1>3, <3>2, Moves DEF Verify, Admit
    <3>3. CASE SendVerdict(w)
      <4>1. Outcome(w, "decide", s.verified) \/ Outcome(w, "decide", FALSE)
        BY <3>3 DEF SendVerdict
      <4> QED
        BY <1>3, <3>1, <4>1, Moves
    <3> QED
      BY <1>8, <3>2, <3>3
  <2>2. /\ UNCHANGED <<divq, alive, crashes, guard, refs, clean, main, flowq, fw, ctlq>>
        /\ UNCHANGED <<app, wire, blocked, banned, tripped>>
    BY <1>8 DEF Verify, SendVerdict, Admit, ControlLocal, environment, processes, guardian
  <2>3. \E e \in Session : Worked(s, e) /\ sess' = [sess EXCEPT ![f] = e]
    <3>1. CASE Verify(w)
      <4>1. PICK v \in BOOLEAN : sess' = [sess EXCEPT ![f] = [s EXCEPT !.verified = v]]
        BY <3>1 DEF Verify
      <4> QED
        BY <1>2, <1>5, <4>1, WorkedFlags
    <3>2. CASE SendVerdict(w)
      <4>1. UNCHANGED sess \/ sess' = [sess EXCEPT ![f] = [s EXCEPT !.told = TRUE]]
        BY <3>2 DEF SendVerdict
      <4> QED
        BY <1>2, <1>5, <1>6, <4>1, WorkedFlags
    <3>3. CASE Admit(w)
      <4>1. sess' = [sess EXCEPT ![f] = [s EXCEPT !.allowed = TRUE]]
        BY <3>3 DEF Admit
      <4> QED
        BY <1>2, <1>5, <4>1, WorkedFlags
    <3> QED
      BY <1>8, <3>1, <3>2, <3>3
  <2> QED
    BY <1>1, <1>2, <1>4, <2>1, <2>2, <2>3
<1>9. CASE ControlBan(w)
  <2>1. /\ cw' \in [ControlWorkers -> ControlWorker]
        /\ cw'[w].f = f
        /\ \A v \in ControlWorkers : v # w => cw'[v] = cw[v]
    BY <1>3, <1>9, Moves DEF ControlBan
  <2>2. tripped
    BY <1>9 DEF ControlBan, ControlAt, ControlOf, Working
  <2>3. /\ UNCHANGED <<divq, alive, crashes, guard, refs, clean, main, flowq, fw, ctlq>>
        /\ UNCHANGED <<sess, app, wire, tripped>>
        /\ blocked'
        /\ banned => banned'
    BY <1>9 DEF ControlBan, Quarantine, ControlLocal, environment, processes
  <2> QED
    BY <1>1, <1>2, <1>4, <1>6, <2>1, <2>2, <2>3
<1>10. CASE Deny(w) \/ Released(w)
  <2>1. /\ cw' \in [ControlWorkers -> ControlWorker]
        /\ cw'[w].f = f
        /\ \A v \in ControlWorkers : v # w => cw'[v] = cw[v]
    BY <1>3, <1>10, Moves DEF Deny, Released
  <2>2. /\ UNCHANGED <<divq, alive, crashes, guard, refs, clean, main, flowq, fw, ctlq>>
        /\ UNCHANGED <<app, wire, blocked, banned, tripped>>
    BY <1>10 DEF Deny, Released, ControlLocal, environment, processes, guardian
  <2>3. \E e \in Session : Worked(s, e) /\ sess' = [sess EXCEPT ![f] = e]
    <3>1. CASE Deny(w)
      <4>1. PICK v \in BOOLEAN :
              sess' = [sess EXCEPT ![f].drop = v, ![f].held = <<>>, ![f].decided = TRUE]
        BY <3>1 DEF Deny
      <4>2. sess' = [sess EXCEPT ![f] = [s EXCEPT !.drop = v, !.held = <<>>, !.decided = TRUE]]
        BY <1>2, <4>1
      <4> QED
        BY <1>2, <1>5, <4>2, WorkedHeld
    <3>2. CASE Released(w)
      <4>1. sess' = [sess EXCEPT ![f] = [s EXCEPT !.decided = TRUE]]
        BY <3>2 DEF Released
      <4> QED
        BY <1>2, <1>5, <4>1, WorkedFlags
    <3> QED
      BY <1>10, <3>1, <3>2
  <2> QED
    BY <1>1, <1>2, <1>4, <2>1, <2>2, <2>3
<1>11. CASE ReleaseNext(w)
  <2>1. /\ UNCHANGED <<divq, alive, crashes, guard, refs, clean, main, flowq, fw, ctlq>>
        /\ UNCHANGED <<blocked, banned>>
        /\ tripped => tripped'
    BY <1>11 DEF ReleaseNext, processes, guardian
  <2>2. /\ s.held # <<>>
        /\ \/ /\ sess' = [sess EXCEPT ![f].held = Tail(@)]
              /\ Sent(f, Head(s.held))
              /\ UNCHANGED cw
           \/ /\ sess' = [sess EXCEPT ![f].held = <<>>, ![f].decided = TRUE, ![f].allowed = FALSE]
              /\ ControlGoto(w, "failed")
              /\ UNCHANGED <<app, wire>>
    BY <1>11 DEF ReleaseNext
  <2>3. CASE sess' = [sess EXCEPT ![f].held = Tail(@)] /\ Sent(f, Head(s.held)) /\ UNCHANGED cw
    <3>1. sess' = [sess EXCEPT ![f] = [s EXCEPT !.held = Tail(@)]]
      BY <2>3
    <3>2. \E e \in Session : Worked(s, e) /\ sess' = [sess EXCEPT ![f] = e]
      BY <1>2, <1>5, <2>2, <3>1, WorkedHeld
    <3>3. /\ app' \in [Flows -> {"closed", "open", "sent", "talk"}]
          /\ \A g \in Flows : g # f => app'[g] = app[g]
          /\ wire' \subseteq wire \cup {f}
      BY <1>2, <1>4, <2>3 DEF Sent
    <3> QED
      BY <1>1, <1>2, <1>3, <2>1, <2>3, <3>2, <3>3
  <2>4. CASE /\ sess' = [sess EXCEPT ![f].held = <<>>, ![f].decided = TRUE, ![f].allowed = FALSE]
             /\ ControlGoto(w, "failed")
             /\ UNCHANGED <<app, wire>>
    <3>1. sess' = [sess EXCEPT ![f] = [s EXCEPT !.held = <<>>, !.decided = TRUE, !.allowed = FALSE]]
      BY <1>2, <2>4
    <3>2. \E e \in Session : Worked(s, e) /\ sess' = [sess EXCEPT ![f] = e]
      BY <1>2, <1>5, <3>1, WorkedHeld
    <3>3. /\ cw' \in [ControlWorkers -> ControlWorker]
          /\ cw'[w].f = f
          /\ \A v \in ControlWorkers : v # w => cw'[v] = cw[v]
      BY <1>3, <2>4, Moves
    <3> QED
      BY <1>1, <1>2, <1>4, <2>1, <2>4, <3>2, <3>3
  <2> QED
    BY <2>2, <2>3, <2>4
<1>12. CASE Shut(w)
  <2>1. sess' = [sess EXCEPT ![f] = [s EXCEPT !.shut = TRUE, !.done = TRUE]]
    BY <1>2, <1>12 DEF Shut
  <2>2. \E e \in Session : Worked(s, e) /\ sess' = [sess EXCEPT ![f] = e]
    BY <1>2, <1>5, <2>1, WorkedFlags
  <2>3. IdleControl \in ControlWorker
    BY DEF IdleControl, ControlWorker
  <2>4. /\ cw' \in [ControlWorkers -> ControlWorker]
        /\ cw'[w] = IdleControl
        /\ \A v \in ControlWorkers : v # w => cw'[v] = cw[v]
    BY <1>3, <1>12, <2>3 DEF Shut
  <2>5. /\ UNCHANGED <<divq, alive, crashes, guard, refs, clean, main, flowq, fw, ctlq>>
        /\ UNCHANGED <<app, wire, blocked, banned, tripped>>
    BY <1>12 DEF Shut, ControlLocal, environment, processes, guardian
  <2> QED
    BY <1>1, <1>2, <1>4, <2>2, <2>4, <2>5
<1> QED
  BY <1>7, <1>8, <1>9, <1>10, <1>11, <1>12 DEF ControlThread

-----------------------------------------------------------------------------
(* Types.                                                                    *)

SessionType(s) == s \in [Flows -> Session] /\ \A f \in Flows : Len(s[f].held) <= HeldCap

LEMMA QuietType ==
  ASSUME SessionType(sess), NEW f \in Flows, NEW e, Quiet(sess[f], e) \/ Worked(sess[f], e),
         sess' = [sess EXCEPT ![f] = e]
  PROVE  SessionType(sess)'
<1>1. e \in Session /\ Len(e.held) <= HeldCap
  BY DEF Quiet, Worked, SessionType
<1>2. SessionType([sess EXCEPT ![f] = e])
  BY <1>1 DEF SessionType
<1> QED
  BY <1>2 DEF SessionType

LEMMA EnvironmentType ==
  ASSUME TypeOK, NEW f \in Flows, Environment(f)
  PROVE  TypeOK'
<1>1. PICK p \in {"hello", "shello", "data"} : Send(f, p)
  BY EnvironmentFrame
<1>2. divq' \in [Flows -> Seq({"hello", "shello", "data"})]
  <2>1. divq[f] \in Seq({"hello", "shello", "data"})
    BY DEF TypeOK
  <2>2. Append(divq[f], p) \in Seq({"hello", "shello", "data"})
    BY <2>1
  <2> QED
    BY <1>1, <2>2 DEF Send, TypeOK
<1>3. app' \in [Flows -> {"closed", "open", "sent", "talk"}] /\ wire' \subseteq Flows
  BY <1>1 DEF Send, TypeOK
<1> QED
  BY <1>2, <1>3, EnvironmentFrame DEF TypeOK

LEMMA MainType ==
  ASSUME TypeOK, EndInv, MainThread
  PROVE  TypeOK'
<1>0. UNCHANGED <<divq, wire, crashes, guard, ctlq, fw, cw>>
  BY MainFrame
<1>1. CASE \E f \in Flows : Discover(f)
  <2>1. PICK f \in Flows : Discover(f)
    BY <1>1
  <2>2. SessionType(sess)'
    <3>1. [sess[f] EXCEPT !.handle = TRUE] \in Session
      BY ZenonT(30) DEF TypeOK, Session
    <3>2. [sess[f] EXCEPT !.handle = TRUE].held = sess[f].held
      BY DEF TypeOK, Session
    <3> DEFINE e == [sess[f] EXCEPT !.handle = TRUE]
    <3>3. sess' = [sess EXCEPT ![f] = e]
      BY <2>1 DEF Discover
    <3>4. e \in Session /\ e.held = sess[f].held
      BY <3>1, <3>2
    <3> HIDE DEF e
    <3> QED
      BY <3>3, <3>4 DEF SessionType, TypeOK
  <2>3. flowq' \in Seq(Flows)
    BY <2>1 DEF Discover, TypeOK
  <2>4. refs' \subseteq Handles
    BY <2>1 DEF Discover, TypeOK, Handles
  <2>5. app' \in [Flows -> {"closed", "open", "sent", "talk"}]
    BY <2>1 DEF Discover, TypeOK
  <2>6. UNCHANGED <<alive, blocked, banned, clean, main, tripped>>
    BY <2>1 DEF Discover, processes
  <2> QED
    BY <1>0, <2>2, <2>3, <2>4, <2>5, <2>6 DEF TypeOK, SessionType
<1>2. CASE ~\E f \in Flows : Discover(f)
  <2>1. UNCHANGED <<sess, flowq, app>> /\ refs' \subseteq refs \cup {Discovery}
    BY <1>2, MainFrame
  <2>2. /\ main' \in {"start", "discover", "banned", "wait", "cleanup", "ban", "exit", "done",
                      "gone"}
        /\ alive' \in BOOLEAN
    BY <1>2 DEF MainThread, HoldDiscovery, MainFails, ReleaseDiscovery, Collect, Cleanup, MainBan,
                Exit, Done, Main, TypeOK, processes
  <2>3. tripped' \in BOOLEAN
    BY <1>2 DEF MainThread, HoldDiscovery, MainFails, ReleaseDiscovery, Collect, Cleanup, MainBan,
                Exit, Done, TypeOK
  <2>4. blocked' \in BOOLEAN /\ banned' \in BOOLEAN /\ clean' \in BOOLEAN
    BY <1>2 DEF MainThread, HoldDiscovery, MainFails, ReleaseDiscovery, Collect, Cleanup, MainBan,
                Exit, Done, Quarantine, Serving, TypeOK, guardian
  <2> QED
    BY <1>0, <2>1, <2>2, <2>3, <2>4 DEF TypeOK, Handles
<1> QED
  BY <1>1, <1>2

LEMMA FlowType ==
  ASSUME TypeOK, NEW w \in FlowWorkers, FlowOf(w), FlowThread(w)
  PROVE  TypeOK'
<1>1. CASE Recv(w)
  <2> DEFINE f == fw[w].f
  <2>1. f \in Flows
    BY <1>1 DEF Recv, FlowAt, FlowOf
  <2>2. PICK e \in Session : Quiet(sess[f], e) /\ sess' = [sess EXCEPT ![f] = e]
    BY <1>1, <2>1, RecvFrame
  <2>3. SessionType(sess)'
    BY <2>1, <2>2, QuietType DEF TypeOK, SessionType
  <2>4. ctlq' \in Seq(Flows)
    <3>1. ctlq' = ctlq \/ ctlq' = Append(ctlq, f)
      BY <1>1, <2>1, RecvFrame
    <3>2. ctlq \in Seq(Flows)
      BY DEF TypeOK
    <3> QED
      BY <2>1, <3>1, <3>2
  <2>5. /\ UNCHANGED <<alive, crashes, blocked, guard, refs, banned, clean, main, tripped, flowq,
                       fw, cw>>
        /\ app' \in [Flows -> {"closed", "open", "sent", "talk"}]
        /\ divq' \in [Flows -> Seq({"hello", "shello", "data"})]
        /\ wire' \subseteq wire \cup {f}
    BY <1>1, <2>1, RecvFrame
  <2> QED
    BY <2>1, <2>3, <2>4, <2>5 DEF TypeOK, SessionType
<1>2. CASE ~Recv(w)
  <2> DEFINE f == fw[w].f
  <2>1. /\ UNCHANGED <<app, divq, wire, alive, crashes, guard, clean, main, ctlq, cw>>
        /\ refs' \subseteq refs
    BY <1>2, FlowFrame
  <2>2. SessionType(sess)'
    <3>1. CASE UNCHANGED sess
      BY <3>1 DEF TypeOK, SessionType
    <3>2. CASE f \in Flows /\ \E e \in Session : Quiet(sess[f], e) /\ sess' = [sess EXCEPT ![f] = e]
      BY <3>2, QuietType DEF TypeOK, SessionType
    <3> QED
      BY <1>2, <3>1, <3>2, FlowFrame
  <2>3. flowq' \in Seq(Flows)
    <3>1. flowq' = flowq \/ (flowq # <<>> /\ flowq' = Tail(flowq))
      BY <1>2 DEF FlowThread, TakeFlow, RecvEnds, FinishSession, FlowBan, CloseFlow
    <3>2. flowq \in Seq(Flows)
      BY DEF TypeOK
    <3> QED
      BY <3>1, <3>2
  <2>4. fw' \in [FlowWorkers -> FlowWorker]
    <3>1. fw[w] \in FlowWorker /\ fw \in [FlowWorkers -> FlowWorker]
      BY DEF TypeOK
    <3>2. CASE TakeFlow(w)
      <4> DEFINE t == [pc |-> "recv", f |-> Head(flowq)]
      <4>1. Head(flowq) \in Flows
        BY <3>2 DEF TakeFlow, TypeOK
      <4>2. t \in FlowWorker
        BY <4>1 DEF FlowWorker
      <4>3. fw' = [fw EXCEPT ![w] = t]
        BY <3>2 DEF TakeFlow
      <4> HIDE DEF t
      <4> QED
        BY <3>1, <4>2, <4>3
    <3>3. CASE CloseFlow(w)
      <4>1. IdleFlow \in FlowWorker
        BY DEF IdleFlow, FlowWorker
      <4> QED
        BY <3>1, <3>3, <4>1 DEF CloseFlow
    <3>4. CASE \E pc \in {"finish", "ban", "close"} : FlowGoto(w, pc)
      <4>1. PICK pc \in {"finish", "ban", "close"} : fw' = [fw EXCEPT ![w].pc = pc]
        BY <3>4 DEF FlowGoto
      <4>2. [fw[w] EXCEPT !.pc = pc] \in FlowWorker
        BY <3>1 DEF FlowWorker
      <4> QED
        BY <3>1, <4>1, <4>2
    <3> QED
      BY <1>2, <3>2, <3>3, <3>4 DEF FlowThread, RecvEnds, FinishSession, FlowBan
  <2>5. tripped' \in BOOLEAN
    BY <1>2 DEF TypeOK, FlowThread, TakeFlow, RecvEnds, FinishSession, FlowBan, CloseFlow
  <2>6. blocked' \in BOOLEAN /\ banned' \in BOOLEAN
    BY <1>2 DEF TypeOK, FlowThread, TakeFlow, RecvEnds, FinishSession, FlowBan, CloseFlow, Quarantine,
                Serving, guardian
  <2> QED
    BY <2>1, <2>2, <2>3, <2>4, <2>5, <2>6 DEF TypeOK, SessionType
<1> QED
  BY <1>1, <1>2

LEMMA Takes ==
  ASSUME TypeOK, NEW w \in ControlWorkers, TakeControl(w)
  PROVE  /\ UNCHANGED <<app, divq, wire, alive, crashes, blocked, guard, refs, banned, clean, main,
                        tripped, sess, flowq, fw>>
         /\ ctlq \in Seq(Flows) /\ ctlq # <<>>
         /\ ctlq' = Tail(ctlq)
         /\ cw' \in [ControlWorkers -> ControlWorker]
         /\ cw'[w].pc = "exchange" /\ cw'[w].f = Head(ctlq)
         /\ \A v \in ControlWorkers : v # w => cw'[v] = cw[v]
<1> DEFINE c == [pc |-> "exchange", f |-> Head(ctlq), ok |-> TRUE]
<1>1. ctlq \in Seq(Flows) /\ ctlq # <<>>
  BY DEF TakeControl, TypeOK
<1>2. Head(ctlq) \in Flows
  BY <1>1
<1>3. c \in ControlWorker /\ c.pc = "exchange" /\ c.f = Head(ctlq)
  BY <1>2 DEF ControlWorker
<1>4. cw' = [cw EXCEPT ![w] = c]
  BY DEF TakeControl
<1>5. UNCHANGED <<app, divq, wire, alive, crashes, blocked, guard, refs, banned, clean, main,
                  tripped, sess, flowq, fw>>
  BY DEF TakeControl, ControlLocal, environment, processes, guardian
<1>6. ctlq' = Tail(ctlq)
  BY DEF TakeControl
<1> HIDE DEF c
<1> QED
  BY <1>1, <1>3, <1>4, <1>5, <1>6 DEF TypeOK

LEMMA ControlType ==
  ASSUME TypeOK, NEW w \in ControlWorkers, ControlOf(w), ControlThread(w)
  PROVE  TypeOK'
<1>1. CASE TakeControl(w)
  <2>1. ctlq' \in Seq(Flows)
    BY <1>1, Takes
  <2>2. /\ UNCHANGED <<app, divq, wire, alive, crashes, blocked, guard, refs, banned, clean, main,
                       tripped, sess, flowq, fw>>
        /\ cw' \in [ControlWorkers -> ControlWorker]
    BY <1>1, Takes
  <2> QED
    BY <2>1, <2>2 DEF TypeOK
<1>2. CASE ~TakeControl(w)
  <2> DEFINE f == cw[w].f
  <2>1. /\ UNCHANGED <<divq, alive, crashes, guard, refs, clean, main, flowq, fw, ctlq>>
        /\ f \in Flows
        /\ cw' \in [ControlWorkers -> ControlWorker]
        /\ app' \in [Flows -> {"closed", "open", "sent", "talk"}]
        /\ wire' \subseteq wire \cup {f}
    BY <1>2, ControlFrame
  <2>2. SessionType(sess)'
    <3>1. PICK e \in Session : Worked(sess[f], e) /\ sess' = [sess EXCEPT ![f] = e]
      BY <1>2, ControlFrame
    <3> QED
      BY <2>1, <3>1, QuietType DEF TypeOK, SessionType
  <2>3. tripped' \in BOOLEAN
    BY <1>2 DEF TypeOK, ControlThread, Exchange, AwaitServerHello, Verify, SendVerdict, Decide, Admit,
                ControlBan, Deny, ReleaseNext, Released, Shut
  <2>4. blocked' \in BOOLEAN /\ banned' \in BOOLEAN
    BY <1>2 DEF TypeOK, ControlThread, Exchange, AwaitServerHello, Verify, SendVerdict, Decide, Admit,
                ControlBan, Deny, ReleaseNext, Released, Shut, Quarantine, Serving, guardian
  <2> QED
    BY <2>1, <2>2, <2>3, <2>4 DEF TypeOK, SessionType
<1> QED
  BY <1>1, <1>2

LEMMA EndType ==
  ASSUME TypeOK, Guardian \/ CrashAgent \/ CrashGuardian
  PROVE  TypeOK'
<1>1. CASE GuardianEnds \/ CloseRefs
  BY <1>1, ZenonT(30) DEF TypeOK, GuardianEnds, CloseRefs, environment, processes, agent
<1>2. CASE CrashAgent \/ CrashGuardian
  <2>1. crashes' \in 0 .. MaxCrash
    BY <1>2, AgentAssumption DEF TypeOK, CrashAgent, CrashGuardian
  <2> QED
    BY <1>2, <2>1, ZenonT(30) DEF TypeOK, CrashAgent, CrashGuardian, environment, guardian, agent
<1> QED
  BY <1>1, <1>2 DEF Guardian

-----------------------------------------------------------------------------
(* Steps that decide nothing.                                                *)

LEMMA QuietSession ==
  ASSUME NEW g \in Flows, SessionOf(g), Quiet(sess[g], sess'[g]),
         Taken(g)' => Taken(g) \/ sess'[g].handle,
         blocked => blocked',
         app'[g] # "closed" =>
           app[g] # "closed" \/ sess'[g].lookup \/ sess'[g].shello \/ sess'[g].handle,
         g \in wire' => g \in wire \/ sess[g].allowed
  PROVE  SessionOf(g)'
<1> USE DEF SessionOf, Quiet
<1>1. Taken(g) => sess'[g].handle \/ sess'[g].done
  OBVIOUS
<1>2. sess'[g].handle \/ sess'[g].done \/ sess'[g].lookup \/ sess'[g].shello => Taken(g)'
  BY DEF Taken, NoSession
<1>3. app'[g] # "closed" => Taken(g)'
  BY <1>1, <1>2
<1>4. g \in wire' => (sess[g].allowed \/ sess[g].decided) /\ sess[g].verified /\ sess[g].told
  OBVIOUS
<1>5. Taken(g)' => sess'[g].handle \/ sess'[g].done
  BY <1>1
<1> QED
  BY <1>3, <1>4, <1>5

LEMMA QuietCover ==
  ASSUME NEW g \in Flows, CoverOf(g), Quiet(sess[g], sess'[g]),
         Taken(g)' => Taken(g) \/ (sess'[g].handle /\ g \in refs'),
         g \in refs => g \in refs' \/ sess[g].done \/ guard' \in {"dead", "exit"},
         guard \in {"dead", "exit"} => guard' = guard
  PROVE  CoverOf(g)'
<1> QED
  BY DEF CoverOf, Quiet

LEMMA QuietControl ==
  ASSUME NEW w \in ControlWorkers, ControlOf(w), UNCHANGED cw,
         \A f \in Flows : Quiet(sess[f], sess'[f]),
         blocked => blocked', tripped => tripped'
  PROVE  ControlOf(w)'
<1> SUFFICES ASSUME NEW pc, NEW ok, NEW f, Working(pc, ok, f)
             PROVE  Working(pc, ok, f)'
  BY DEF ControlOf
<1>1. CASE f \in Flows
  <2>1. Quiet(sess[f], sess'[f])
    BY <1>1
  <2>2. Open(f) => Open(f)'
    BY <2>1 DEF Open, Quiet
  <2> QED
    BY <2>1, <2>2 DEF Working, Quiet
<1>2. CASE f \notin Flows
  BY <1>2 DEF Working, Open, Early
<1> QED
  BY <1>1, <1>2

LEMMA QuietQueue ==
  ASSUME TypeOK, Queued, \A w \in ControlWorkers : Alone(w), UNCHANGED <<cw, ctlq>>,
         \A f \in Flows : Quiet(sess[f], sess'[f])
  PROVE  Queued' /\ \A w \in ControlWorkers : Alone(w)'
<1>1. \A i \in DOMAIN ctlq : Open(ctlq[i])'
  <2>1. SUFFICES ASSUME NEW i \in DOMAIN ctlq
                 PROVE  Open(ctlq[i])'
    OBVIOUS
  <2>2. Open(ctlq[i]) /\ ctlq' = ctlq
    BY DEF Queued
  <2> QED
    BY <2>2 DEF Open, Quiet
<1> QED
  BY <1>1 DEF Queued, Alone

LEMMA QuietFlows ==
  ASSUME NEW w \in FlowWorkers, FlowOf(w), fw'[w] = fw[w],
         \A f \in Flows : Quiet(sess[f], sess'[f]), \A f \in Flows : Taken(f) => Taken(f)',
         tripped => tripped'
  PROVE  FlowOf(w)'
<1> QED
  BY DEF FlowOf, Quiet

\* All but the end of the processes.
Core ==
  /\ \A f \in Flows : SessionOf(f)
  /\ \A f \in Flows : CoverOf(f)
  /\ \A w \in ControlWorkers : ControlOf(w)
  /\ \A w \in ControlWorkers : Alone(w)
  /\ Queued
  /\ \A w \in FlowWorkers : FlowOf(w)
  /\ Discovered

LEMMA QuietTaken ==
  ASSUME NEW g \in Flows, SessionOf(g), Quiet(sess[g], sess'[g])
  PROVE  Taken(g) => Taken(g)'
<1> QED
  BY DEF SessionOf, Quiet, Taken, NoSession

\* No session, worker or queue changes.
LEMMA StillCore ==
  ASSUME TypeOK, Core, UNCHANGED <<sess, cw, ctlq, fw, flowq>>,
         blocked => blocked', tripped => tripped',
         \A g \in Flows : app'[g] # "closed" => app[g] # "closed",
         \A g \in Flows : g \in wire' => g \in wire \/ sess[g].allowed,
         \A g \in Flows : g \in refs => g \in refs' \/ guard' \in {"dead", "exit"},
         guard \in {"dead", "exit"} => guard' = guard
  PROVE  Core'
<1>1. \A g \in Flows : Quiet(sess[g], sess'[g])
  BY QuietSame DEF TypeOK
<1>2. \A g : Taken(g)' = Taken(g)
  BY DEF Taken
<1>3. \A g \in Flows : SessionOf(g)' /\ CoverOf(g)'
  BY <1>1, <1>2, QuietSession, QuietCover DEF Core
<1>4. \A w \in ControlWorkers : ControlOf(w)'
  BY <1>1, QuietControl DEF Core
<1>5. Queued' /\ \A w \in ControlWorkers : Alone(w)'
  BY <1>1, QuietQueue DEF Core
<1>6. \A w \in FlowWorkers : FlowOf(w)'
  BY <1>1, <1>2, QuietFlows DEF Core
<1>7. Discovered'
  BY <1>2 DEF Core, Discovered
<1> QED
  BY <1>3, <1>4, <1>5, <1>6, <1>7 DEF Core

\* A flow is open only when it is admitted or the endpoint is blocked.
LEMMA OpenFollows ==
  ASSUME TypeOK, Core, EndInv
  PROVE  OpenIsSafe
<1> SUFFICES ASSUME NEW f \in Flows, Taken(f), ~sess[f].allowed, ~blocked
             PROVE  Diverted(f)
  BY DEF OpenIsSafe
<1>1. ~sess[f].done /\ ~sess[f].shut
  BY DEF Core, SessionOf
<1>2. sess[f].handle /\ (f \in refs \/ guard \in {"dead", "exit"})
  BY <1>1 DEF Core, CoverOf
<1>3. ~Succeeded
  BY DEF Succeeded, Core, SessionOf
<1>4. guard \in {"dead", "exit"} => alive
  BY <1>3 DEF EndInv
<1> QED
  BY <1>1, <1>2, <1>4 DEF Diverted

LEMMA EnvironmentKeeps ==
  ASSUME TypeOK, Core, EndInv, NEW f \in Flows, Environment(f)
  PROVE  Core'
<1>1. UNCHANGED <<sess, cw, ctlq, fw, flowq, blocked, tripped, refs, guard>>
  BY EnvironmentFrame
<1>2. \A g \in Flows : app'[g] # "closed" => app[g] # "closed"
  BY DEF Environment, SendHello, PeerHello, SendData, Send, TypeOK
<1>3. \A g \in Flows : g \in wire' => g \in wire \/ sess[g].allowed
  <2>1. CASE SendHello(f) \/ PeerHello(f)
    BY <2>1 DEF SendHello, PeerHello, Send
  <2>2. CASE SendData(f)
    <3>1. app[f] = "talk" /\ ~blocked /\ (Diverted(f) => wire' = wire) /\ wire' \subseteq wire \cup {f}
      BY <2>2 DEF SendData, Send
    <3>2. Taken(f)
      BY <3>1 DEF Core, SessionOf
    <3>3. Diverted(f) \/ sess[f].allowed
      BY <3>1, <3>2, OpenFollows DEF OpenIsSafe
    <3> QED
      BY <3>1, <3>3
  <2> QED
    BY <2>1, <2>2 DEF Environment
<1> QED
  BY <1>1, <1>2, <1>3, StillCore

LEMMA GuardianKeeps ==
  ASSUME TypeOK, Core, Guardian \/ CrashAgent \/ CrashGuardian
  PROVE  Core'
<1>1. UNCHANGED <<sess, cw, ctlq, fw, flowq, tripped, app, wire>>
  BY DEF Guardian, GuardianEnds, CloseRefs, CrashAgent, CrashGuardian, environment, processes, agent
<1>2. blocked => blocked'
  BY DEF Guardian, GuardianEnds, CloseRefs, CrashAgent, CrashGuardian, guardian
<1>3. guard' \in {"dead", "exit"} \/ refs' = refs
  BY DEF Guardian, GuardianEnds, CloseRefs, CrashAgent, CrashGuardian, guardian
<1>4. guard \in {"dead", "exit"} => guard' = guard
  BY DEF Guardian, GuardianEnds, CloseRefs, CrashAgent, CrashGuardian, guardian
<1> QED
  BY <1>1, <1>2, <1>3, <1>4, StillCore

LEMMA MainKeeps ==
  ASSUME TypeOK, Core, EndInv, MainThread
  PROVE  Core'
<1>1. CASE \E f \in Flows : ~Taken(f) /\ Discover(f)
  <2>1. PICK f \in Flows : ~Taken(f) /\ Discover(f)
    BY <1>1
  <2>2. /\ sess[f] = NoSession
        /\ sess[f] \in Session
        /\ sess' = [sess EXCEPT ![f].handle = TRUE]
        /\ refs' = refs \cup {f}
        /\ flowq' = Append(flowq, f)
        /\ app' = [app EXCEPT ![f] = "open"]
        /\ UNCHANGED <<wire, ctlq, fw, cw, blocked, tripped, guard>>
    BY <2>1 DEF Discover, Taken, TypeOK, processes
  <2>3. sess'[f].handle /\ Quiet(sess[f], sess'[f])
    <3> DEFINE e == [NoSession EXCEPT !.handle = TRUE]
    <3>1. e.handle /\ Quiet(sess[f], e)
      BY <2>2, ZenonT(30) DEF Quiet, NoSession, Session
    <3>2. sess'[f] = e
      BY <2>2 DEF TypeOK
    <3> HIDE DEF e
    <3> QED
      BY <3>1, <3>2
  <2>4. \A g \in Flows : g # f => sess'[g] = sess[g]
    BY <2>2 DEF TypeOK
  <2>5. \A g \in Flows : Quiet(sess[g], sess'[g])
    BY <2>3, <2>4, QuietSame DEF TypeOK
  <2>6. \A g \in Flows : Taken(g)' => Taken(g) \/ (sess'[g].handle /\ g \in refs')
    BY <2>2, <2>3, <2>4 DEF Taken
  <2>7. \A g \in Flows : app'[g] # "closed" => app[g] # "closed" \/ sess'[g].handle
    BY <2>2, <2>3 DEF TypeOK
  <2>8. \A g \in Flows : SessionOf(g)'
    BY <2>2, <2>5, <2>6, <2>7, QuietSession DEF Core
  <2>9. \A g \in Flows : CoverOf(g)'
    BY <2>2, <2>5, <2>6, QuietCover DEF Core
  <2>10. (\A w \in ControlWorkers : ControlOf(w)') /\ Queued' /\ \A w \in ControlWorkers : Alone(w)'
    BY <2>2, <2>5, QuietControl, QuietQueue DEF Core
  <2>11. \A g \in Flows : Taken(g) => Taken(g)'
    BY <2>5, QuietTaken DEF Core
  <2>12. \A w \in FlowWorkers : FlowOf(w)'
    BY <2>2, <2>5, <2>11, QuietFlows DEF Core
  <2>13. Discovered'
    <3>1. flowq \in Seq(Flows) /\ Taken(f)'
      BY <2>3 DEF TypeOK, Taken, NoSession
    <3>2. SUFFICES ASSUME NEW i \in DOMAIN flowq'
                   PROVE  sess'[flowq'[i]] # NoSession
      BY DEF Discovered, Taken
    <3>3. (i \in DOMAIN flowq /\ flowq'[i] = flowq[i]) \/ flowq'[i] = f
      BY <2>2, <3>1
    <3>4. i \in DOMAIN flowq => flowq[i] \in Flows /\ Taken(flowq[i])
      BY <3>1 DEF Core, Discovered
    <3> QED
      BY <2>11, <3>1, <3>3, <3>4 DEF Taken
  <2> QED
    BY <2>8, <2>9, <2>10, <2>12, <2>13 DEF Core
<1>2. CASE UNCHANGED <<sess, flowq, app>> /\ refs \ {Discovery} \subseteq refs'
  <2>1. \A g \in Flows : g \in refs => g \in refs'
    BY <1>2, AgentAssumption
  <2> QED
    BY <1>2, <2>1, MainFrame, StillCore
<1> QED
  BY <1>1, <1>2, MainFrame

LEMMA RecvKeeps ==
  ASSUME TypeOK, Core, NEW w \in FlowWorkers, Recv(w)
  PROVE  Core'
<1>1. PICK f \in Flows : f = fw[w].f /\ Taken(f)
  BY DEF Recv, FlowAt, Core, FlowOf
<1>2. PICK e \in Session : /\ Quiet(sess[f], e)
                           /\ sess' = [sess EXCEPT ![f] = e]
                           /\ ctlq' # ctlq => e.lookup
  BY <1>1, RecvFrame
<1>3. /\ UNCHANGED <<blocked, guard, refs, tripped, flowq, fw, cw>>
      /\ ctlq' = ctlq \/ (~sess[f].lookup /\ ctlq' = Append(ctlq, f))
      /\ app' = app \/ sess'[f].lookup \/ sess'[f].shello
      /\ \A g \in Flows : g # f => app'[g] = app[g]
      /\ wire' \subseteq wire \cup {f}
      /\ wire' # wire => sess[f].allowed
  BY <1>1, RecvFrame
<1>4. sess'[f] = e /\ \A g \in Flows : g # f => sess'[g] = sess[g]
  BY <1>1, <1>2 DEF TypeOK
<1>5. \A g \in Flows : Quiet(sess[g], sess'[g])
  BY <1>2, <1>4, QuietSame DEF TypeOK
<1>6. \A g \in Flows : Taken(g)' => Taken(g)
  BY <1>1, <1>4 DEF Taken
<1>7. \A g \in Flows : Taken(g) => Taken(g)'
  BY <1>5, QuietTaken DEF Core
<1>8. \A g \in Flows : SessionOf(g)' /\ CoverOf(g)'
  <2>1. \A g \in Flows : app'[g] # "closed" => app[g] # "closed" \/ sess'[g].lookup \/ sess'[g].shello
    BY <1>3
  <2>2. \A g \in Flows : g \in wire' => g \in wire \/ sess[g].allowed
    BY <1>3
  <2> QED
    BY <1>3, <1>5, <1>6, <2>1, <2>2, QuietSession, QuietCover DEF Core
<1>9. \A v \in ControlWorkers : ControlOf(v)'
  BY <1>3, <1>5, QuietControl DEF Core
<1>10. Queued' /\ \A v \in ControlWorkers : Alone(v)'
  <2>1. CASE ctlq' = ctlq
    BY <1>3, <1>5, <2>1, QuietQueue DEF Core
  <2>2. CASE ctlq' # ctlq
    <3>1. ~sess[f].lookup /\ ctlq' = Append(ctlq, f) /\ sess'[f].lookup
      BY <1>2, <1>3, <1>4, <2>2
    <3>2. Open(f)'
      <4>1. SessionOf(f) /\ Quiet(sess[f], sess'[f])
        BY <1>1, <1>5 DEF Core
      <4> QED
        BY <1>1, <3>1, <4>1 DEF Open, SessionOf, Quiet
    <3>3. ctlq \in Seq(Flows)
      BY DEF TypeOK
    <3>4. \A g \in Flows : Open(g) => g # f /\ Open(g)'
      BY <1>4, <3>1 DEF Open
    <3>5. /\ \A i \in DOMAIN ctlq' : i \in DOMAIN ctlq \/ i = Len(ctlq) + 1
          /\ ctlq'[Len(ctlq) + 1] = f
          /\ \A i \in DOMAIN ctlq : ctlq'[i] = ctlq[i] /\ ctlq[i] \in Flows
      BY <3>1, <3>3
    <3>6. \A i \in DOMAIN ctlq : Open(ctlq[i]) /\ ctlq[i] # f
      BY <3>4, <3>5 DEF Core, Queued
    <3>7. \A g \in Flows : (\E i \in DOMAIN ctlq' : g = ctlq'[i]) => Open(g)'
      BY <3>2, <3>4, <3>5, <3>6
    <3>8. \A i, j \in DOMAIN ctlq' : ctlq'[i] = ctlq'[j] => i = j
      BY <3>5, <3>6 DEF Core, Queued
    <3>9. \A v \in ControlWorkers : Alone(v)'
      <4>1. SUFFICES ASSUME NEW v \in ControlWorkers, cw[v].pc # "idle"
                     PROVE  \A i \in DOMAIN ctlq' : ctlq'[i] # cw[v].f
        BY <1>3 DEF Core, Alone
      <4>2. cw[v].f # f
        BY <3>1, <4>1 DEF Core, ControlOf, Working
      <4>3. \A i \in DOMAIN ctlq : ctlq[i] # cw[v].f
        BY <4>1 DEF Core, Alone
      <4> QED
        BY <3>5, <4>2, <4>3
    <3>10. \A i \in DOMAIN ctlq' : ctlq'[i] \in Flows
      BY <3>5
    <3> QED
      BY <3>7, <3>8, <3>9, <3>10 DEF Queued, Open
  <2> QED
    BY <2>1, <2>2
<1>11. \A v \in FlowWorkers : FlowOf(v)'
  BY <1>3, <1>5, <1>7, QuietFlows DEF Core
<1>12. Discovered'
  <2>1. \A i \in DOMAIN flowq : flowq[i] \in Flows
    BY DEF TypeOK
  <2> QED
    BY <1>3, <1>7, <2>1 DEF Core, Discovered, Taken
<1> QED
  BY <1>8, <1>9, <1>10, <1>11, <1>12 DEF Core

LEMMA FlowKeeps ==
  ASSUME TypeOK, Core, NEW w \in FlowWorkers, FlowThread(w), ~Recv(w)
  PROVE  Core'
<1> DEFINE f == fw[w].f
<1>0. FlowOf(w)
  BY DEF Core
<1>1. /\ UNCHANGED <<app, wire, guard, ctlq, cw>>
      /\ blocked => blocked'
      /\ tripped => tripped'
      /\ \A v \in FlowWorkers : v # w => fw'[v] = fw[v]
      /\ refs' = refs \/ (f \in Flows /\ refs' = refs \ {f} /\ sess[f].done)
  BY <1>0, FlowFrame
<1>2. (\A g \in Flows : Quiet(sess[g], sess'[g])) /\ \A g \in Flows : sess'[g] = sess[g] \/ g = f
  <2>1. CASE UNCHANGED sess
    BY <2>1, QuietSame DEF TypeOK
  <2>2. CASE f \in Flows /\ \E e \in Session : Quiet(sess[f], e) /\ sess' = [sess EXCEPT ![f] = e]
    <3>1. PICK e \in Session : Quiet(sess[f], e) /\ sess' = [sess EXCEPT ![f] = e]
      BY <2>2
    <3>2. sess'[f] = e /\ \A g \in Flows : g # f => sess'[g] = sess[g]
      BY <2>2, <3>1 DEF TypeOK
    <3> QED
      BY <3>1, <3>2, QuietSame DEF TypeOK
  <2> QED
    BY <1>0, <2>1, <2>2, FlowFrame
<1>3. \A g \in Flows : Taken(g) => Taken(g)'
  BY <1>2, QuietTaken DEF Core
<1>4. \A g \in Flows : Taken(g)' => Taken(g)
  <2>1. f \in Flows => Taken(f) \/ UNCHANGED sess
    BY <1>0 DEF FlowOf, FlowThread, TakeFlow, RecvEnds, FinishSession, FlowBan, CloseFlow, FlowAt
  <2> QED
    BY <1>2, <2>1 DEF Taken
<1>5. \A g \in Flows : SessionOf(g)' /\ CoverOf(g)'
  BY <1>1, <1>2, <1>4, QuietSession, QuietCover DEF Core
<1>6. (\A v \in ControlWorkers : ControlOf(v)') /\ Queued' /\ \A v \in ControlWorkers : Alone(v)'
  BY <1>1, <1>2, QuietControl, QuietQueue DEF Core
<1>7. \A v \in FlowWorkers : v # w => FlowOf(v)'
  BY <1>1, <1>2, <1>3, QuietFlows DEF Core
<1>8. FlowOf(w)'
  <2>1. CASE TakeFlow(w)
    <3>1. /\ fw'[w].pc = "recv" /\ fw'[w].f = Head(flowq)
          /\ flowq # <<>> /\ flowq \in Seq(Flows)
      BY <2>1 DEF TakeFlow, TypeOK
    <3>2. 1 \in DOMAIN flowq /\ Head(flowq) = flowq[1] /\ flowq[1] \in Flows
      BY <3>1
    <3>3. PICK h \in Flows : h = flowq[1] /\ Taken(h)
      BY <3>2 DEF Core, Discovered
    <3>4. Taken(h)'
      BY <1>3, <3>3
    <3> QED
      BY <3>1, <3>2, <3>3, <3>4 DEF FlowOf, Taken
  <2>2. CASE CloseFlow(w)
    <3>1. fw'[w].pc = "idle"
      BY <2>2 DEF CloseFlow, TypeOK, IdleFlow
    <3> QED
      BY <3>1 DEF FlowOf
  <2>3. CASE RecvEnds(w) \/ FinishSession(w) \/ FlowBan(w)
    <3>1. fw'[w].f = f /\ fw[w].pc # "idle"
      BY <2>3 DEF RecvEnds, FinishSession, FlowBan, FlowGoto, FlowAt, TypeOK, FlowWorker
    <3>2. fw'[w].pc \in {"ban", "close"} => sess[f].done
      BY <1>0, <2>3 DEF RecvEnds, FinishSession, FlowBan, FlowGoto, FlowAt, TypeOK, FlowWorker, FlowOf
    <3>3. fw'[w].pc = "ban" => tripped'
      BY <2>3 DEF RecvEnds, FinishSession, FlowBan, FlowGoto, FlowAt, TypeOK, FlowWorker
    <3>4. PICK h \in Flows : h = f /\ Taken(h)
      BY <1>0, <3>1 DEF FlowOf
    <3>5. Taken(h)' /\ (sess[h].done => sess'[h].done)
      BY <1>2, <1>3, <3>4 DEF Quiet
    <3>6. fw'[w].f = h /\ (fw'[w].pc \in {"ban", "close"} => sess[h].done)
      BY <3>1, <3>2, <3>4
    <3> QED
      BY <3>3, <3>5, <3>6 DEF FlowOf, Taken
  <2> QED
    BY <2>1, <2>2, <2>3 DEF FlowThread
<1>9. Discovered'
  <2>1. flowq' = flowq \/ (flowq # <<>> /\ flowq' = Tail(flowq))
    BY DEF FlowThread, TakeFlow, RecvEnds, FinishSession, FlowBan, CloseFlow
  <2>2. flowq \in Seq(Flows)
    BY DEF TypeOK
  <2>3. \A i \in DOMAIN flowq' : \E j \in DOMAIN flowq : flowq'[i] = flowq[j]
    <3>1. CASE flowq' = flowq
      BY <3>1
    <3>2. CASE flowq # <<>> /\ flowq' = Tail(flowq)
      <4>1. SUFFICES ASSUME NEW i \in DOMAIN flowq'
                     PROVE  i + 1 \in DOMAIN flowq /\ flowq'[i] = flowq[i + 1]
        OBVIOUS
      <4> QED
        BY <2>2, <3>2
    <3> QED
      BY <2>1, <3>1, <3>2
  <2>4. \A j \in DOMAIN flowq : flowq[j] \in Flows /\ Taken(flowq[j])
    BY <2>2 DEF Core, Discovered
  <2> QED
    BY <1>3, <2>3, <2>4 DEF Discovered, Taken
<1> QED
  BY <1>5, <1>6, <1>7, <1>8, <1>9 DEF Core

-----------------------------------------------------------------------------
(* Steps of the control workers.                                             *)

\* What a step of a control worker makes of its own session.
Own(w, f) ==
  /\ sess[f] \in Session
  /\ SessionOf(f)
  /\ ControlOf(w)
  /\ sess[f].lookup
  /\ ~sess[f].done
  /\ sess[f].row # "success"
  /\ cw \in [ControlWorkers -> ControlWorker]
  /\ sess \in [Flows -> Session]

LEMMA StagesMove ==
  ASSUME NEW w \in ControlWorkers, NEW f \in Flows, f = cw[w].f, Own(w, f),
         Exchange(w) \/ AwaitServerHello(w) \/ Decide(w) \/ ControlBan(w)
  PROVE  SessionOf(f)' /\ ControlOf(w)'
<1> DEFINE s == sess[f]
<1>1. UNCHANGED <<sess, app, wire>> /\ (blocked => blocked')
  <2>1. UNCHANGED <<sess, app, wire>>
    BY DEF Exchange, AwaitServerHello, Decide, ControlBan, ControlLocal, environment
  <2>2. UNCHANGED blocked \/ blocked'
    BY DEF Exchange, AwaitServerHello, Decide, ControlBan, Quarantine, guardian
  <2> QED
    BY <2>1, <2>2
<1>2. SessionOf(f)'
  BY <1>1 DEF SessionOf, Own, Taken
<1>3. Working(cw[w].pc, cw[w].ok, f)
  BY DEF Own, ControlOf
<1>4. CASE Exchange(w) \/ AwaitServerHello(w)
  <2>1. cw[w].pc \in {"exchange", "await"}
    BY <1>4 DEF Exchange, AwaitServerHello, ControlAt
  <2>2. /\ cw'[w].f = f
        /\ \/ cw'[w].pc \in {"await", "verify"}
           \/ cw'[w].pc = "decide" /\ cw'[w].ok = FALSE
    BY <1>4, Moves DEF Exchange, AwaitServerHello, Own
  <2>3. Open(f)'
    BY <1>1, <1>3, <2>1 DEF Working, Early, Open
  <2> QED
    BY <1>2, <2>2, <2>3 DEF ControlOf, Working, Open
<1>5. CASE Decide(w)
  <2>1. cw[w].pc = "decide" /\ cw[w].ok \in BOOLEAN
    BY <1>5 DEF Decide, ControlAt, Own, ControlWorker
  <2>2. /\ cw'[w].f = f
        /\ cw'[w].ok = cw[w].ok
        /\ \/ cw'[w].pc = "admit" /\ cw[w].ok
           \/ cw'[w].pc = "ban" /\ tripped'
    BY <1>5, <2>1, Moves DEF Decide, Own
  <2>3. Open(f)' /\ (cw'[w].pc = "admit" => sess'[f].verified /\ sess'[f].told)
    BY <1>1, <1>3, <2>1, <2>2 DEF Working, Early, Open
  <2> QED
    BY <1>2, <2>2, <2>3 DEF ControlOf, Working, Open
<1>6. CASE ControlBan(w)
  <2>1. /\ cw'[w].f = f
        /\ blocked'
        /\ \/ cw[w].pc = "ban" /\ cw'[w].pc = "deny"
           \/ cw[w].pc = "failed" /\ cw'[w].pc = "shut"
    BY <1>6, Moves DEF ControlBan, ControlAt, Quarantine, Own
  <2>2. /\ cw'[w].pc = "deny" => Open(f)'
        /\ cw'[w].pc = "shut" => sess'[f].decided
    BY <1>1, <1>3, <2>1 DEF Working, Early, Open
  <2>3. sess'[f].lookup /\ ~sess'[f].done
    BY <1>1 DEF Own
  <2> QED
    BY <1>2, <2>1, <2>2, <2>3 DEF ControlOf, Working, Open, Early
<1> QED
  BY <1>4, <1>5, <1>6

\* The session's flags are set one after the other.
LEMMA FlagsMove ==
  ASSUME NEW w \in ControlWorkers, NEW f \in Flows, f = cw[w].f, Own(w, f),
         Verify(w) \/ SendVerdict(w) \/ Admit(w)
  PROVE  SessionOf(f)' /\ ControlOf(w)'
<1> DEFINE s == sess[f]
<1>1. UNCHANGED <<app, wire, blocked, tripped>>
  BY DEF Verify, SendVerdict, Admit, ControlLocal, environment, guardian
<1>2. Working(cw[w].pc, cw[w].ok, f) /\ cw[w].pc \in {"verify", "verdict", "admit"}
  BY DEF Own, ControlOf, Verify, SendVerdict, Admit, ControlAt
<1>3. ~s.allowed /\ ~s.decided /\ f \notin wire /\ ~s.shut
  BY <1>2 DEF Working, Early, Open, SessionOf, Own
<1>4. CASE Verify(w)
  <2>1. PICK v \in BOOLEAN : sess' = [sess EXCEPT ![f].verified = v]
    BY <1>4 DEF Verify
  <2>2. /\ sess'[f].allowed = s.allowed /\ sess'[f].decided = s.decided
        /\ sess'[f].done = s.done /\ sess'[f].shut = s.shut /\ sess'[f].lookup = s.lookup
        /\ sess'[f].row = s.row /\ sess'[f].handle = s.handle
    BY <2>1 DEF Own, Session
  <2>3. cw'[w].f = f /\ cw'[w].pc = "verdict"
    BY <1>4, Moves DEF Verify, Own
  <2>4. SessionOf(f)'
    BY <1>1, <1>3, <2>2 DEF SessionOf, Own, Taken, NoSession
  <2> QED
    BY <1>3, <2>2, <2>3, <2>4 DEF ControlOf, Working, Open, Own
<1>5. CASE SendVerdict(w)
  <2>1. /\ sess'[f].allowed = s.allowed /\ sess'[f].decided = s.decided
        /\ sess'[f].done = s.done /\ sess'[f].shut = s.shut /\ sess'[f].lookup = s.lookup
        /\ sess'[f].row = s.row /\ sess'[f].handle = s.handle
        /\ sess'[f].verified = s.verified
    BY <1>5, ZenonT(30) DEF SendVerdict, Own, Session
  <2>2. s.verified \in BOOLEAN
    BY DEF Own, Session
  <2>3. \/ Outcome(w, "decide", s.verified) /\ sess' = [sess EXCEPT ![f].told = TRUE]
        \/ Outcome(w, "decide", FALSE)
    BY <1>5 DEF SendVerdict
  <2>4. /\ cw'[w].f = f /\ cw'[w].pc = "decide"
        /\ cw'[w].ok => s.verified /\ sess' = [sess EXCEPT ![f].told = TRUE]
    <3>1. CASE Outcome(w, "decide", s.verified) /\ sess' = [sess EXCEPT ![f].told = TRUE]
      BY <2>2, <3>1, Moves DEF Own
    <3>2. CASE Outcome(w, "decide", FALSE)
      BY <3>2, Moves DEF Own
    <3> QED
      BY <2>3, <3>1, <3>2
  <2>5. cw'[w].ok => sess'[f].verified /\ sess'[f].told
    BY <2>1, <2>4 DEF Own, Session
  <2>6. SessionOf(f)'
    BY <1>1, <1>3, <2>1 DEF SessionOf, Own, Taken, NoSession
  <2> QED
    BY <1>3, <2>1, <2>4, <2>5, <2>6 DEF ControlOf, Working, Open, Own
<1>6. CASE Admit(w)
  <2>1. sess' = [sess EXCEPT ![f].allowed = TRUE]
    BY <1>6 DEF Admit
  <2>2. /\ sess'[f].allowed /\ sess'[f].decided = s.decided
        /\ sess'[f].done = s.done /\ sess'[f].shut = s.shut /\ sess'[f].lookup = s.lookup
        /\ sess'[f].row = s.row /\ sess'[f].handle = s.handle
        /\ sess'[f].verified = s.verified /\ sess'[f].told = s.told
    BY <2>1 DEF Own, Session
  <2>3. cw'[w].f = f /\ cw'[w].pc = "release" /\ cw[w].pc = "admit"
    BY <1>6, Moves DEF Admit, ControlAt, Own
  <2>4. s.verified /\ s.told
    BY <1>2, <2>3 DEF Working
  <2>5. SessionOf(f)'
    BY <1>1, <1>3, <2>2, <2>4 DEF SessionOf, Own, Taken, NoSession
  <2> QED
    BY <1>3, <2>2, <2>3, <2>5 DEF ControlOf, Working, Early, Own
<1> QED
  BY <1>4, <1>5, <1>6

\* The session is decided.
LEMMA DecisionsMove ==
  ASSUME NEW w \in ControlWorkers, NEW f \in Flows, f = cw[w].f, Own(w, f),
         Deny(w) \/ Released(w) \/ Shut(w)
  PROVE  SessionOf(f)' /\ ControlOf(w)'
<1> DEFINE s == sess[f]
<1>1. UNCHANGED <<app, wire, blocked, tripped>>
  BY DEF Deny, Released, Shut, ControlLocal, environment, guardian
<1>2. Working(cw[w].pc, cw[w].ok, f)
  BY DEF Own, ControlOf
<1>3. CASE Deny(w)
  <2>1. PICK v \in BOOLEAN :
          sess' = [sess EXCEPT ![f].drop = v, ![f].held = <<>>, ![f].decided = TRUE]
    BY <1>3 DEF Deny
  <2>2. /\ sess'[f].allowed = s.allowed /\ sess'[f].decided /\ sess'[f].held = <<>>
        /\ sess'[f].done = s.done /\ sess'[f].shut = s.shut /\ sess'[f].lookup = s.lookup
        /\ sess'[f].row = s.row /\ sess'[f].handle = s.handle
        /\ sess'[f].verified = s.verified /\ sess'[f].told = s.told
    BY <2>1 DEF Own, Session
  <2>3. cw'[w].f = f /\ cw'[w].pc = "shut" /\ cw[w].pc = "deny"
    BY <1>3, Moves DEF Deny, ControlAt, Own
  <2>4. ~s.allowed /\ ~s.decided /\ f \notin wire /\ blocked
    BY <1>2, <2>3 DEF Working, Early, Open, SessionOf, Own
  <2>5. SessionOf(f)'
    BY <1>1, <2>2, <2>4 DEF SessionOf, Own, Taken, NoSession
  <2> QED
    BY <1>1, <2>2, <2>3, <2>4, <2>5 DEF ControlOf, Working, Early, Own
<1>4. CASE Released(w)
  <2>1. sess' = [sess EXCEPT ![f].decided = TRUE] /\ s.held = <<>>
    BY <1>4 DEF Released
  <2>2. /\ sess'[f].allowed = s.allowed /\ sess'[f].decided /\ sess'[f].held = <<>>
        /\ sess'[f].done = s.done /\ sess'[f].shut = s.shut /\ sess'[f].lookup = s.lookup
        /\ sess'[f].row = s.row /\ sess'[f].handle = s.handle
        /\ sess'[f].verified = s.verified /\ sess'[f].told = s.told
    BY <2>1 DEF Own, Session
  <2>3. cw'[w].f = f /\ cw'[w].pc = "shut" /\ cw[w].pc = "release"
    BY <1>4, Moves DEF Released, ControlAt, Own
  <2>4. s.allowed
    BY <1>2, <2>3 DEF Working
  <2>5. SessionOf(f)'
    BY <1>1, <2>2, <2>4 DEF SessionOf, Own, Taken, NoSession
  <2> QED
    BY <1>1, <2>2, <2>3, <2>4, <2>5 DEF ControlOf, Working, Early, Own
<1>5. CASE Shut(w)
  <2>1. sess' = [sess EXCEPT ![f].shut = TRUE, ![f].done = TRUE] /\ cw[w].pc = "shut"
    BY <1>5 DEF Shut, ControlAt
  <2>2. /\ sess'[f].allowed = s.allowed /\ sess'[f].decided = s.decided /\ sess'[f].held = s.held
        /\ sess'[f].done /\ sess'[f].shut /\ sess'[f].lookup = s.lookup
        /\ sess'[f].row = s.row /\ sess'[f].handle = s.handle
        /\ sess'[f].verified = s.verified /\ sess'[f].told = s.told
    BY <2>1 DEF Own, Session
  <2>3. cw'[w].pc = "idle"
    BY <1>5 DEF Shut, IdleControl, Own
  <2>4. s.decided /\ (s.allowed \/ blocked)
    BY <1>2, <2>1 DEF Working
  <2>5. SessionOf(f)'
    BY <1>1, <2>2, <2>4 DEF SessionOf, Own, Taken, NoSession
  <2> QED
    BY <2>3, <2>5 DEF ControlOf, Working, Early
<1> QED
  BY <1>3, <1>4, <1>5

\* Held packets are released, or that fails.
LEMMA ReleaseMoves ==
  ASSUME NEW w \in ControlWorkers, NEW f \in Flows, f = cw[w].f, Own(w, f), ReleaseNext(w)
  PROVE  SessionOf(f)' /\ ControlOf(w)'
<1> DEFINE s == sess[f]
<1>1. /\ UNCHANGED blocked
      /\ cw[w].pc = "release"
      /\ \/ /\ sess' = [sess EXCEPT ![f].held = Tail(@)]
            /\ wire' \subseteq wire \cup {f}
            /\ UNCHANGED <<tripped, cw>>
         \/ /\ sess' = [sess EXCEPT ![f].held = <<>>, ![f].decided = TRUE, ![f].allowed = FALSE]
            /\ tripped'
            /\ ControlGoto(w, "failed")
            /\ UNCHANGED <<app, wire>>
  BY DEF ReleaseNext, ControlAt, Sent, guardian
<1>2. s.allowed /\ ~s.decided /\ s.verified /\ s.told
  BY <1>1 DEF Own, ControlOf, Working, SessionOf
<1>3. /\ sess'[f].done = s.done /\ sess'[f].shut = s.shut /\ sess'[f].lookup = s.lookup
      /\ sess'[f].row = s.row /\ sess'[f].handle = s.handle
      /\ sess'[f].verified = s.verified /\ sess'[f].told = s.told
  <2>1. CASE sess' = [sess EXCEPT ![f].held = Tail(@)]
    BY <2>1 DEF Own, Session
  <2>2. CASE sess' = [sess EXCEPT ![f].held = <<>>, ![f].decided = TRUE, ![f].allowed = FALSE]
    BY <2>2 DEF Own, Session
  <2> QED
    BY <1>1, <2>1, <2>2
<1>4. Taken(f)'
  <2>1. sess'[f].lookup
    BY <1>3 DEF Own
  <2> QED
    BY <2>1 DEF Taken, NoSession
<1>5. sess'[f].handle
  BY <1>3 DEF Own, SessionOf, Taken, NoSession
<1>6. CASE sess' = [sess EXCEPT ![f].held = Tail(@)] /\ UNCHANGED <<tripped, cw>>
  <2>1. sess'[f].allowed = s.allowed /\ sess'[f].decided = s.decided
    BY <1>6 DEF Own, Session
  <2>2. SessionOf(f)'
    BY <1>2, <1>3, <1>4, <1>5, <2>1 DEF SessionOf, Own
  <2> QED
    BY <1>1, <1>2, <1>3, <1>6, <2>1, <2>2 DEF ControlOf, Working, Early, Own
<1>7. CASE /\ sess' = [sess EXCEPT ![f].held = <<>>, ![f].decided = TRUE, ![f].allowed = FALSE]
           /\ tripped'
           /\ ControlGoto(w, "failed")
  <2>1. ~sess'[f].allowed /\ sess'[f].decided /\ sess'[f].held = <<>>
    BY <1>7 DEF Own, Session
  <2>2. SessionOf(f)'
    BY <1>2, <1>3, <1>4, <1>5, <2>1 DEF SessionOf, Own
  <2>3. cw'[w].pc = "failed" /\ cw'[w].f = f
    BY <1>7, Moves DEF Own
  <2> QED
    BY <1>3, <1>7, <2>1, <2>2, <2>3 DEF ControlOf, Working, Early, Own
<1> QED
  BY <1>1, <1>6, <1>7

LEMMA TakeKeeps ==
  ASSUME TypeOK, Core, NEW w \in ControlWorkers, TakeControl(w)
  PROVE  Core'
<1>1. /\ UNCHANGED <<app, wire, blocked, guard, refs, tripped, sess, flowq, fw>>
      /\ \A v \in ControlWorkers : v # w => cw'[v] = cw[v]
      /\ cw'[w].pc = "exchange"
  BY Takes
<1>2. PICK h \in Flows : h = Head(ctlq) /\ cw'[w].f = h
  BY Takes
<1>3. ctlq \in Seq(Flows) /\ ctlq # <<>> /\ ctlq' = Tail(ctlq)
  BY Takes
<1>4. /\ 1 \in DOMAIN ctlq /\ ctlq[1] = h
      /\ \A i \in DOMAIN ctlq' : i + 1 \in DOMAIN ctlq /\ i + 1 # 1 /\ ctlq'[i] = ctlq[i + 1]
      /\ \A i, j \in DOMAIN ctlq' : i + 1 = j + 1 => i = j
  BY <1>2, <1>3
<1>5. \A g \in Flows : Open(g)' = Open(g)
  BY <1>1 DEF Open
<1>6. Open(h)
  BY <1>4 DEF Core, Queued
<1>7. \A g \in Flows : SessionOf(g)' /\ CoverOf(g)'
  BY <1>1 DEF Core, SessionOf, CoverOf, Taken
<1>8. \A v \in ControlWorkers : ControlOf(v)'
  <2>1. ControlOf(w)'
    BY <1>1, <1>2, <1>5, <1>6 DEF ControlOf, Working, Open
  <2>2. ASSUME NEW v \in ControlWorkers, v # w
        PROVE  ControlOf(v)'
    <3>1. cw'[v] = cw[v] /\ ControlOf(v)
      BY <1>1, <2>2 DEF Core
    <3> QED
      BY <1>1, <3>1 DEF ControlOf, Working, Open
  <2> QED
    BY <2>1, <2>2
<1>9. \A i \in DOMAIN ctlq' : /\ Open(ctlq'[i])
                              /\ ctlq'[i] # h
                              /\ \A j \in DOMAIN ctlq' : ctlq'[i] = ctlq'[j] => i = j
  BY <1>4 DEF Core, Queued
<1>10. Queued'
  BY <1>1, <1>9 DEF Queued, Open
<1>11. \A v \in ControlWorkers : Alone(v)'
  <2>1. \A v \in ControlWorkers : v # w /\ cw[v].pc # "idle" =>
          cw[v].f # h /\ \A i \in DOMAIN ctlq' : ctlq'[i] # cw[v].f
    BY <1>4 DEF Core, Alone
  <2>2. \A v, u \in ControlWorkers : v # u /\ cw[v].pc # "idle" /\ cw[u].pc # "idle" => cw[v].f # cw[u].f
    BY DEF Core, Alone
  <2> QED
    BY <1>1, <1>2, <1>9, <2>1, <2>2 DEF Alone
<1>12. (\A v \in FlowWorkers : FlowOf(v)') /\ Discovered'
  BY <1>1 DEF Core, FlowOf, Discovered, Taken
<1> QED
  BY <1>7, <1>8, <1>10, <1>11, <1>12 DEF Core

LEMMA ControlKeeps ==
  ASSUME TypeOK, Core, NEW w \in ControlWorkers, ControlThread(w), ~TakeControl(w)
  PROVE  Core'
<1>0. ControlOf(w)
  BY DEF Core
<1>1. PICK f \in Flows : f = cw[w].f
  BY <1>0, ControlFrame
<1>2. /\ UNCHANGED <<guard, refs, flowq, fw, ctlq>>
      /\ cw[w].pc # "idle"
      /\ \A v \in ControlWorkers : v # w => cw'[v] = cw[v]
      /\ cw'[w] = IdleControl \/ cw'[w].f = f
      /\ \A g \in Flows : g # f => app'[g] = app[g]
      /\ wire' \subseteq wire \cup {f}
  BY <1>0, <1>1, ControlFrame
<1>3. (blocked => blocked') /\ (tripped => tripped')
  BY <1>0, <1>1, ControlFrame
<1>4. PICK e \in Session : Worked(sess[f], e) /\ sess' = [sess EXCEPT ![f] = e]
  BY <1>0, <1>1, ControlFrame
<1>5. sess'[f] = e /\ \A g \in Flows : g # f => sess'[g] = sess[g]
  BY <1>4 DEF TypeOK
<1>6. sess[f].lookup /\ ~sess[f].done
  BY <1>0, <1>1, <1>2 DEF ControlOf, Working
<1>7. SessionOf(f)' /\ ControlOf(w)'
  <2>1. Own(w, f)
    BY <1>0, <1>6 DEF Own, Core, SessionOf, TypeOK
  <2> QED
    BY <1>1, <2>1, StagesMove, FlagsMove, DecisionsMove, ReleaseMoves DEF ControlThread
<1>8. \A g \in Flows : SessionOf(g)'
  <2>1. ASSUME NEW g \in Flows, g # f
        PROVE  SessionOf(g)'
    <3>1. sess'[g] = sess[g] /\ app'[g] = app[g] /\ (g \in wire' => g \in wire) /\ SessionOf(g)
      BY <1>2, <1>5, <2>1 DEF Core
    <3> QED
      BY <1>3, <3>1 DEF SessionOf, Taken
  <2> QED
    BY <1>7, <2>1
<1>9. \A g \in Flows : CoverOf(g)'
  <2>1. CoverOf(f)'
    <3>1. Taken(f) /\ CoverOf(f)
      BY <1>6 DEF Core, Taken, NoSession
    <3>2. sess'[f].handle = sess[f].handle
      BY <1>4, <1>5 DEF Worked
    <3> QED
      BY <1>2, <1>6, <3>1, <3>2 DEF CoverOf
  <2>2. ASSUME NEW g \in Flows, g # f
        PROVE  CoverOf(g)'
    BY <1>2, <1>5, <2>2 DEF Core, CoverOf, Taken
  <2> QED
    BY <2>1, <2>2
<1>10. \A v \in ControlWorkers : ControlOf(v)'
  <2>1. ASSUME NEW v \in ControlWorkers, v # w
        PROVE  ControlOf(v)'
    <3>1. cw'[v] = cw[v] /\ ControlOf(v)
      BY <1>2, <2>1 DEF Core
    <3>2. CASE cw[v].pc = "idle"
      BY <3>1, <3>2 DEF ControlOf, Working, Early
    <3>3. CASE cw[v].pc # "idle"
      <4>1. cw[v].f # f /\ cw[v].f \in Flows
        BY <1>1, <1>2, <2>1, <3>1, <3>3 DEF Core, Alone, ControlOf, Working
      <4>2. sess'[cw[v].f] = sess[cw[v].f]
        BY <1>5, <4>1
      <4> QED
        BY <1>3, <3>1, <4>2 DEF ControlOf, Working, Open
    <3> QED
      BY <3>2, <3>3
  <2> QED
    BY <1>7, <2>1
<1>11. Queued' /\ \A v \in ControlWorkers : Alone(v)'
  <2>1. \A i \in DOMAIN ctlq : ctlq[i] # f /\ ctlq[i] \in Flows
    BY <1>1, <1>2 DEF Core, Alone, Queued, Open
  <2>2. Queued'
    BY <1>2, <1>5, <2>1 DEF Core, Queued, Open
  <2>3. \A v \in ControlWorkers : cw'[v].pc # "idle" => cw[v].pc # "idle" /\ cw'[v].f = cw[v].f
    BY <1>1, <1>2 DEF IdleControl
  <2>4. \A v \in ControlWorkers : Alone(v)'
    <3>1. \A v \in ControlWorkers : Alone(v)
      BY DEF Core
    <3> QED
      BY <1>2, <2>3, <3>1 DEF Alone
  <2> QED
    BY <2>2, <2>4
<1>12. \A g \in Flows : (Taken(g) => Taken(g)') /\ (sess[g].done => sess'[g].done)
  <2>1. Taken(f)'
    <3>1. sess'[f].lookup
      BY <1>4, <1>5, <1>6 DEF Worked
    <3> QED
      BY <3>1 DEF Taken, NoSession
  <2> QED
    BY <1>5, <1>6, <2>1 DEF Taken
<1>13. \A v \in FlowWorkers : FlowOf(v)'
  BY <1>2, <1>3, <1>12 DEF Core, FlowOf, Taken
<1>14. Discovered'
  <2>1. \A i \in DOMAIN flowq : flowq[i] \in Flows
    BY DEF TypeOK
  <2> QED
    BY <1>2, <1>12, <2>1 DEF Core, Discovered, Taken
<1> QED
  BY <1>8, <1>9, <1>10, <1>11, <1>13, <1>14 DEF Core

-----------------------------------------------------------------------------
(* The end of the processes.                                                 *)

LEMMA SucceededStays ==
  ASSUME TypeOK, Core, Succeeded, NEW f \in Flows, NEW e,
         Quiet(sess[f], e) \/ Worked(sess[f], e), sess' = [sess EXCEPT ![f] = e]
  PROVE  Succeeded'
<1>1. sess[f].row = "success" /\ SessionOf(f)
  BY DEF Succeeded, Core
<1>2. e.row = "success"
  BY <1>1 DEF Quiet, Worked, SessionOf
<1> QED
  BY <1>2 DEF Succeeded, TypeOK

\* The agent's threads other than the main one.
LEMMA ThreadsEnd ==
  ASSUME TypeOK, Core, EndInv,
         \/ \E w \in FlowWorkers : FlowThread(w)
         \/ \E w \in ControlWorkers : ControlThread(w)
  PROVE  EndInv'
<1>1. UNCHANGED <<main, alive, clean, crashes, guard>> /\ alive
  <2>1. ASSUME NEW w \in FlowWorkers, FlowThread(w)
        PROVE  UNCHANGED <<main, alive, clean, crashes, guard>> /\ alive
    BY <2>1, RecvFrame, FlowFrame DEF Core, Recv, FlowAt, FlowOf
  <2>2. ASSUME NEW w \in ControlWorkers, ControlThread(w), ~TakeControl(w)
        PROVE  UNCHANGED <<main, alive, clean, crashes, guard>> /\ alive
    BY <2>2, ControlFrame DEF Core
  <2>3. ASSUME NEW w \in ControlWorkers, TakeControl(w)
        PROVE  UNCHANGED <<main, alive, clean, crashes, guard>> /\ alive
    BY <2>3, Takes DEF TakeControl, ControlAt
  <2> QED
    BY <2>1, <2>2, <2>3
<1>2. (blocked => blocked') /\ (tripped => tripped') /\ (blocked' => blocked \/ tripped)
  BY RecvFrame, FlowFrame, Takes, ControlFrame DEF Core, Recv, FlowAt, FlowOf
<1>3. Succeeded => Succeeded'
  <2>1. CASE UNCHANGED sess
    BY <2>1 DEF Succeeded
  <2>2. CASE \E f \in Flows, e \in Session : /\ Quiet(sess[f], e) \/ Worked(sess[f], e)
                                             /\ sess' = [sess EXCEPT ![f] = e]
    BY <2>2, SucceededStays
  <2>3. ASSUME NEW w \in FlowWorkers, Recv(w)
        PROVE  \E f \in Flows, e \in Session : Quiet(sess[f], e) /\ sess' = [sess EXCEPT ![f] = e]
    <3>1. fw[w].f \in Flows
      BY <2>3 DEF Core, Recv, FlowAt, FlowOf
    <3> QED
      BY <2>3, <3>1, RecvFrame
  <2>4. ASSUME NEW w \in FlowWorkers, FlowThread(w), ~Recv(w)
        PROVE  \/ UNCHANGED sess
               \/ \E f \in Flows, e \in Session : Quiet(sess[f], e) /\ sess' = [sess EXCEPT ![f] = e]
    BY <2>4, FlowFrame DEF Core
  <2>5. ASSUME NEW w \in ControlWorkers, ControlThread(w), ~TakeControl(w)
        PROVE  \E f \in Flows, e \in Session : Worked(sess[f], e) /\ sess' = [sess EXCEPT ![f] = e]
    BY <2>5, ControlFrame DEF Core
  <2>6. ASSUME NEW w \in ControlWorkers, TakeControl(w)
        PROVE  UNCHANGED sess
    BY <2>6, Takes
  <2> QED
    BY <2>1, <2>2, <2>3, <2>4, <2>5, <2>6
<1> QED
  BY <1>1, <1>2, <1>3 DEF EndInv

LEMMA MainEnds ==
  ASSUME TypeOK, Core, EndInv, MainThread
  PROVE  EndInv'
<1>1. UNCHANGED <<crashes, guard>> /\ alive /\ ~clean /\ guard \notin {"close", "exit"}
  BY MainFrame DEF EndInv
<1>2. (blocked => blocked') /\ (tripped => tripped') /\ (blocked' => blocked \/ tripped)
  BY MainFrame
<1>3. CASE \E f \in Flows : Discover(f)
  <2>1. UNCHANGED <<main, alive, clean, blocked, tripped>> /\ main = "discover"
    BY <1>3 DEF Discover, processes
  <2> QED
    BY <1>1, <2>1 DEF EndInv
<1>4. CASE ~\E f \in Flows : Discover(f)
  <2>0. Succeeded' = Succeeded
    BY <1>4, MainFrame DEF Succeeded
  <2>1. CASE HoldDiscovery \/ MainFails \/ ReleaseDiscovery
    <3>1. /\ UNCHANGED <<alive, clean, blocked>>
          /\ main' \in {"discover", "cleanup", "wait", "banned"}
          /\ main' = "banned" => tripped'
      BY <2>1 DEF HoldDiscovery, MainFails, ReleaseDiscovery, Main, processes, guardian
    <3> QED
      BY <1>1, <1>2, <2>0, <3>1 DEF EndInv
  <2>2. CASE Collect \/ Cleanup
    <3>1. /\ UNCHANGED <<alive, clean, blocked>>
          /\ main' \in {"done", "cleanup", "ban"}
          /\ main' = "done" => Succeeded
          /\ main' = "ban" => tripped'
      BY <2>2 DEF Collect, Cleanup, Main, processes, guardian
    <3> QED
      BY <1>1, <1>2, <2>0, <3>1 DEF EndInv
  <2>3. CASE MainBan
    <3>1. /\ UNCHANGED <<alive, clean, tripped>>
          /\ main' \in {"exit", "wait"}
          /\ blocked'
          /\ tripped
      BY <2>3 DEF MainBan, Quarantine, Main, processes, EndInv
    <3> QED
      BY <1>1, <1>2, <2>0, <3>1 DEF EndInv
  <2>4. CASE Exit
    <3>1. main = "exit" /\ main' = "gone" /\ alive' = FALSE /\ UNCHANGED <<blocked, clean, tripped>>
      BY <2>4 DEF Exit, Main
    <3> QED
      BY <1>1, <2>0, <3>1 DEF EndInv
  <2>5. CASE Done
    <3>1. /\ main = "done" /\ main' = "gone" /\ alive' = FALSE
          /\ UNCHANGED <<blocked, banned, tripped>>
          /\ clean' => ~tripped /\ ~banned
      BY <2>5 DEF Done, Main
    <3> QED
      BY <1>1, <2>0, <3>1 DEF EndInv
  <2> QED
    BY <1>4, <2>1, <2>2, <2>3, <2>4, <2>5 DEF MainThread
<1> QED
  BY <1>3, <1>4

LEMMA GuardianEndsToo ==
  ASSUME TypeOK, EndInv, Guardian \/ CrashAgent \/ CrashGuardian
  PROVE  EndInv'
<1>1. UNCHANGED <<main, tripped, sess, clean>> /\ Succeeded' = Succeeded
  BY DEF Guardian, GuardianEnds, CloseRefs, CrashAgent, CrashGuardian, agent, guardian, Succeeded
<1>2. CASE GuardianEnds
  <2>1. /\ UNCHANGED <<alive, crashes>> /\ ~alive /\ guard' = "close"
        /\ blocked' = (blocked \/ ~clean)
        /\ banned' = (banned \/ ~clean)
    BY <1>2 DEF GuardianEnds, processes
  <2> QED
    BY <1>1, <2>1 DEF EndInv, TypeOK
<1>3. CASE CloseRefs
  BY <1>1, <1>3 DEF CloseRefs, processes, EndInv
<1>4. CASE CrashAgent
  <2>1. crashes = 0 /\ crashes' = 1
    BY <1>4, AgentAssumption DEF CrashAgent, TypeOK
  <2>2. alive /\ alive' = FALSE /\ UNCHANGED <<blocked, banned, guard>>
    BY <1>4 DEF CrashAgent, guardian
  <2> QED
    BY <1>1, <2>1, <2>2 DEF EndInv
<1>5. CASE CrashGuardian
  <2>1. crashes = 0 /\ crashes' = 1
    BY <1>5, AgentAssumption DEF CrashGuardian, TypeOK
  <2>2. guard' = "dead" /\ UNCHANGED <<alive, blocked, banned>>
    BY <1>5 DEF CrashGuardian
  <2> QED
    BY <1>1, <2>1, <2>2 DEF EndInv
<1> QED
  BY <1>2, <1>3, <1>4, <1>5 DEF Guardian

-----------------------------------------------------------------------------
(* The theorems.                                                             *)

AgentInv == TypeOK /\ Core /\ EndInv

LEMMA InitInv ==
  ASSUME Init
  PROVE  AgentInv
<1>1. NoSession \in Session /\ Len(NoSession.held) <= HeldCap
  BY AgentAssumption DEF NoSession, Session
<1>2. IdleFlow \in FlowWorker /\ IdleControl \in ControlWorker
  BY DEF IdleFlow, IdleControl, FlowWorker, ControlWorker
<1>3. TypeOK
  <2>1. /\ sess \in [Flows -> Session]
        /\ \A f \in Flows : Len(sess[f].held) <= HeldCap
    BY <1>1 DEF Init
  <2>2. /\ divq \in [Flows -> Seq({"hello", "shello", "data"})]
        /\ flowq \in Seq(Flows)
        /\ ctlq \in Seq(Flows)
    BY DEF Init
  <2>3. crashes \in 0 .. MaxCrash
    BY AgentAssumption DEF Init
  <2> QED
    BY <1>2, <2>1, <2>2, <2>3 DEF Init, TypeOK
<1>4. \A f \in Flows : ~Taken(f) /\ SessionOf(f) /\ CoverOf(f)
  BY DEF Init, Taken, SessionOf, CoverOf, NoSession
<1>5. \A w \in ControlWorkers : ControlOf(w) /\ Alone(w)
  BY DEF Init, ControlOf, Working, Early, Alone, IdleControl
<1>6. Queued /\ Discovered
  BY DEF Init, Queued, Discovered
<1>7. \A w \in FlowWorkers : FlowOf(w)
  BY DEF Init, FlowOf, IdleFlow
<1>8. EndInv
  BY DEF Init, EndInv
<1> QED
  BY <1>3, <1>4, <1>5, <1>6, <1>7, <1>8 DEF AgentInv, Core

LEMMA Inductive ==
  ASSUME AgentInv, [Next]_vars
  PROVE  AgentInv'
<1> USE DEF AgentInv
<1>1. CASE \E f \in Flows : Environment(f)
  <2>1. EndInv'
    BY <1>1, EnvironmentFrame DEF EndInv, Succeeded
  <2> QED
    BY <1>1, <2>1, EnvironmentType, EnvironmentKeeps
<1>2. CASE MainThread
  BY <1>2, MainType, MainKeeps, MainEnds
<1>3. CASE \E w \in FlowWorkers : FlowThread(w)
  BY <1>3, FlowType, RecvKeeps, FlowKeeps, ThreadsEnd DEF Core
<1>4. CASE \E w \in ControlWorkers : ControlThread(w)
  BY <1>4, ControlType, TakeKeeps, ControlKeeps, ThreadsEnd DEF Core
<1>5. CASE Guardian \/ CrashAgent \/ CrashGuardian
  BY <1>5, EndType, GuardianKeeps, GuardianEndsToo
<1>6. CASE UNCHANGED vars
  <2> USE <1>6 DEF vars, environment, processes, guardian, agent
  <2>1. TypeOK'
    BY DEF TypeOK
  <2>2. Core'
    BY DEF Core, SessionOf, CoverOf, ControlOf, Working, Open, Alone, Queued, FlowOf, Discovered, Taken
  <2>3. EndInv'
    BY DEF EndInv, Succeeded
  <2> QED
    BY <2>1, <2>2, <2>3
<1> QED
  BY <1>1, <1>2, <1>3, <1>4, <1>5, <1>6 DEF Next

\* The inductive invariant holds in every reachable state (tcpra_agent_c.c, guardian.c).
THEOREM Invariance == Spec => []AgentInv
<1>1. Init => AgentInv
  BY InitInv
<1>2. AgentInv /\ [Next]_vars => AgentInv'
  BY Inductive
<1> QED
  BY <1>1, <1>2, PTL DEF Spec

\* The variables have their types; no session holds more than its arena does (arena_append).
THEOREM TypeCorrect == Spec => []TypeOK
<1>1. AgentInv => TypeOK
  BY DEF AgentInv
<1> QED
  BY <1>1, Invariance, PTL

\* Application data leaves only after a verified report of which the server was told, however
\* many flows and workers there are and whichever process is killed (decide, inspect_packet).
THEOREM Attestation == Spec => []DataIsAttested
<1>1. AgentInv => DataIsAttested
  BY DEF AgentInv, Core, SessionOf, DataIsAttested, TypeOK
<1> QED
  BY <1>1, Invariance, PTL

\* A connection that was taken is diverted, admitted, or the endpoint is blocked, in every
\* state that the death of either process leaves (guard_hold, guard_parent).
THEOREM OpenSafety == Spec => []OpenIsSafe
<1>1. AgentInv => OpenIsSafe
  BY OpenFollows DEF AgentInv
<1> QED
  BY <1>1, Invariance, PTL

\* A session that is done is admitted or the endpoint is blocked (decide).
THEOREM DenialBlocks == Spec => []DeniedIsBlocked
<1>1. AgentInv => DeniedIsBlocked
  BY DEF AgentInv, Core, SessionOf, DeniedIsBlocked
<1> QED
  BY <1>1, Invariance, PTL

\* The guardian is told that all is well only if it is (guard_done at the end of run_agent).
THEOREM CleanHonesty == Spec => []CleanIsHonest
<1>1. AgentInv => CleanIsHonest
  BY DEF AgentInv, Core, EndInv, Succeeded, SessionOf, CleanIsHonest
<1> QED
  BY <1>1, Invariance, PTL

-----------------------------------------------------------------------------
(* What a session can count on.                                              *)

\* A session that was submitted and is not done waits for a control worker or has one.
Waiting(f) == \E i \in DOMAIN ctlq : ctlq[i] = f
Served(f) == \E w \in ControlWorkers : cw[w].pc # "idle" /\ cw[w].f = f
SubmittedIsInHand == \A f \in Flows : sess[f].lookup /\ ~sess[f].done => Waiting(f) \/ Served(f)

\* What was decided about a session stands.
DecisionStands ==
  [][\A f \in Flows : sess[f].decided => sess'[f].decided /\ sess'[f].allowed = sess[f].allowed]_vars

\* Only a worker that is done with a session lets go of it.
LEMMA LetsGo ==
  ASSUME TypeOK, NEW w \in ControlWorkers, NEW f \in Flows, f = cw[w].f,
         ControlThread(w), ~TakeControl(w)
  PROVE  \/ cw'[w].pc # "idle" /\ cw'[w].f = f
         \/ sess'[f].done
<1>0. cw \in [ControlWorkers -> ControlWorker] /\ sess \in [Flows -> Session]
  BY DEF TypeOK
<1> DEFINE Stages == {"await", "verify", "verdict", "decide", "ban", "deny", "admit", "release",
                      "failed", "shut"}
<1>1. ASSUME NEW pc \in Stages, NEW ok \in BOOLEAN, ControlGoto(w, pc) \/ Outcome(w, pc, ok)
      PROVE  cw'[w].pc # "idle" /\ cw'[w].f = f
  <2>1. cw'[w].pc = pc /\ cw'[w].f = cw[w].f
    BY <1>0, <1>1, Moves
  <2> QED
    BY <2>1
<1>2. CASE Exchange(w) \/ AwaitServerHello(w) \/ Decide(w) \/ ControlBan(w)
  BY <1>1, <1>2 DEF Exchange, AwaitServerHello, Decide, ControlBan
<1>3. CASE Verify(w) \/ Admit(w) \/ Deny(w) \/ Released(w)
  BY <1>1, <1>3 DEF Verify, Admit, Deny, Released
<1>5. CASE SendVerdict(w)
  <2>1. sess[f].verified \in BOOLEAN
    BY <1>0 DEF Session
  <2>2. Outcome(w, "decide", TRUE) \/ Outcome(w, "decide", sess[f].verified)
        \/ Outcome(w, "decide", FALSE)
    BY <1>5 DEF SendVerdict
  <2> QED
    BY <1>1, <2>1, <2>2
<1>6. CASE ReleaseNext(w)
  <2>1. cw[w].pc = "release" /\ (UNCHANGED cw \/ ControlGoto(w, "failed"))
    BY <1>6 DEF ReleaseNext, ControlAt
  <2> QED
    BY <1>1, <2>1
<1>4. CASE Shut(w)
  BY <1>0, <1>4 DEF Shut, Session
<1> QED
  BY <1>2, <1>3, <1>4, <1>5, <1>6 DEF ControlThread

\* A flow worker submits a session with its ClientHello, and only then.
LEMMA Submits ==
  ASSUME TypeOK, NEW w \in FlowWorkers, fw[w].f \in Flows, FlowThread(w), NEW g \in Flows,
         sess'[g].lookup, ~sess[g].lookup
  PROVE  g = fw[w].f /\ ctlq' = Append(ctlq, g)
<1> DEFINE f == fw[w].f
<1>0. sess \in [Flows -> Session]
  BY DEF TypeOK
<1>1. CASE Recv(w)
  <2>1. CASE FirstHello(f)
    BY <1>0, <2>1 DEF FirstHello
  <2>2. CASE ServerHello(f)
    BY <1>0, <2>2 DEF ServerHello, Session
  <2>3. CASE Later(f, Head(divq[f]))
    BY <1>0, <2>3 DEF Later, Hold, Session
  <2> QED
    BY <1>1, <2>1, <2>2, <2>3 DEF Recv
<1>2. CASE ~Recv(w)
  BY <1>0, <1>2 DEF FlowThread, TakeFlow, RecvEnds, FinishSession, FlowBan, CloseFlow, Session
<1> QED
  BY <1>1, <1>2

LEMMA InHandStep ==
  ASSUME AgentInv, SubmittedIsInHand, [Next]_vars
  PROVE  SubmittedIsInHand'
<1>0. TypeOK /\ Core /\ EndInv
  BY DEF AgentInv
<1>1. ASSUME UNCHANGED <<ctlq, cw>>,
             \A g \in Flows : /\ sess'[g].lookup => sess[g].lookup
                              /\ sess[g].done => sess'[g].done
      PROVE  SubmittedIsInHand'
  BY <1>1 DEF SubmittedIsInHand, Waiting, Served
<1>2. CASE \E f \in Flows : Environment(f)
  BY <1>1, <1>2, EnvironmentFrame
<1>3. CASE MainThread
  <2>1. UNCHANGED <<ctlq, cw>>
    BY <1>0, <1>3, MainFrame
  <2>2. CASE \E f \in Flows : Discover(f)
    <3>1. \A g \in Flows : /\ sess'[g].lookup => sess[g].lookup
                           /\ sess[g].done => sess'[g].done
      BY <1>0, <2>2 DEF Discover, TypeOK, Session
    <3> QED
      BY <1>1, <2>1, <3>1
  <2> QED
    BY <1>0, <1>1, <1>3, <2>1, <2>2, MainFrame
<1>4. ASSUME NEW w \in FlowWorkers, FlowThread(w)
      PROVE  SubmittedIsInHand'
  <2>0. FlowOf(w) /\ (Recv(w) => fw[w].f \in Flows)
    BY <1>0 DEF Core, FlowOf, Recv, FlowAt
  <2>1. cw' = cw
    BY <1>0, <1>4, <2>0, FlowFrame, RecvFrame
  <2>2. ctlq \in Seq(Flows) /\ (ctlq' = ctlq \/ \E f \in Flows : ctlq' = Append(ctlq, f))
    BY <1>0, <1>4, <2>0, FlowFrame, RecvFrame DEF TypeOK
  <2>3. \A g : Waiting(g) => Waiting(g)'
    BY <2>2 DEF Waiting
  <2>4. \A g \in Flows : sess'[g].done = sess[g].done
    <3>1. \A s, t : Quiet(s, t) => t.done = s.done
      BY DEF Quiet
    <3>2. \/ sess' = sess
          \/ \E f \in Flows, e \in Session : Quiet(sess[f], e) /\ sess' = [sess EXCEPT ![f] = e]
      BY <1>0, <1>4, <2>0, FlowFrame, RecvFrame
    <3> QED
      BY <1>0, <3>1, <3>2 DEF TypeOK
  <2>5. ASSUME NEW g \in Flows, sess'[g].lookup, ~sess[g].lookup
        PROVE  Waiting(g)'
    <3>1. ctlq' = Append(ctlq, g)
      <4>1. CASE fw[w].f \in Flows
        BY <1>0, <1>4, <2>5, <4>1, Submits
      <4>2. CASE fw[w].f \notin Flows
        BY <1>0, <1>4, <2>0, <2>5, <4>2, FlowFrame
      <4> QED
        BY <4>1, <4>2
    <3>2. Len(ctlq) + 1 \in DOMAIN ctlq' /\ ctlq'[Len(ctlq) + 1] = g
      BY <2>2, <3>1
    <3> QED
      BY <3>2 DEF Waiting
  <2> QED
    BY <2>1, <2>3, <2>4, <2>5 DEF SubmittedIsInHand, Served
<1>5. ASSUME NEW w \in ControlWorkers, TakeControl(w)
      PROVE  SubmittedIsInHand'
  <2>1. /\ sess' = sess /\ ctlq \in Seq(Flows) /\ ctlq # <<>> /\ ctlq' = Tail(ctlq)
        /\ cw'[w].pc = "exchange" /\ cw'[w].f = Head(ctlq)
        /\ \A v \in ControlWorkers : v # w => cw'[v] = cw[v]
    BY <1>0, <1>5, Takes
  <2>2. cw[w].pc = "idle"
    BY <1>5 DEF TakeControl, ControlAt
  <2>3. \A g : Served(g) => Served(g)'
    BY <2>1, <2>2 DEF Served
  <2>4. ASSUME NEW g, Waiting(g)
        PROVE  Waiting(g)' \/ Served(g)'
    <3>1. PICK i \in DOMAIN ctlq : ctlq[i] = g
      BY <2>4 DEF Waiting
    <3>2. CASE i = 1
      BY <2>1, <3>1, <3>2 DEF Served
    <3>3. CASE i # 1
      <4>1. i - 1 \in DOMAIN ctlq' /\ ctlq'[i - 1] = g
        BY <2>1, <3>1, <3>3
      <4> QED
        BY <4>1 DEF Waiting
    <3> QED
      BY <3>2, <3>3
  <2> QED
    BY <2>1, <2>3, <2>4 DEF SubmittedIsInHand
<1>6. ASSUME NEW w \in ControlWorkers, ControlThread(w), ~TakeControl(w)
      PROVE  SubmittedIsInHand'
  <2>0. PICK f \in Flows : f = cw[w].f
    BY <1>0, <1>6, ControlFrame DEF Core
  <2>1. /\ ctlq' = ctlq
        /\ \A v \in ControlWorkers : v # w => cw'[v] = cw[v]
        /\ \E e \in Session : Worked(sess[f], e) /\ sess' = [sess EXCEPT ![f] = e]
    BY <1>0, <1>6, <2>0, ControlFrame DEF Core
  <2>2. \A g \in Flows : g # f => sess'[g] = sess[g]
    BY <1>0, <2>1 DEF TypeOK
  <2>3. sess'[f].lookup = sess[f].lookup
    BY <1>0, <2>1 DEF TypeOK, Worked
  <2>4. sess'[f].done \/ Served(f)'
    BY <1>0, <1>6, <2>0, LetsGo DEF Served
  <2>5. \A g \in Flows : g # f /\ Served(g) => Served(g)'
    BY <2>0, <2>1 DEF Served
  <2>6. \A g : Waiting(g)' = Waiting(g)
    BY <2>1 DEF Waiting
  <2> QED
    BY <2>2, <2>3, <2>4, <2>5, <2>6 DEF SubmittedIsInHand
<1>7. CASE Guardian \/ CrashAgent \/ CrashGuardian \/ UNCHANGED vars
  <2>1. UNCHANGED <<sess, ctlq, cw>>
    BY <1>7 DEF Guardian, GuardianEnds, CloseRefs, CrashAgent, CrashGuardian, agent, vars
  <2> QED
    BY <1>1, <2>1
<1> QED
  BY <1>2, <1>3, <1>4, <1>5, <1>6, <1>7 DEF Next

LEMMA StandsStep ==
  ASSUME AgentInv, [Next]_vars, NEW g \in Flows, sess[g].decided
  PROVE  sess'[g].decided /\ sess'[g].allowed = sess[g].allowed
<1>0. TypeOK /\ Core /\ EndInv /\ sess \in [Flows -> Session]
  BY DEF AgentInv, TypeOK
<1>1. CASE \E f \in Flows : Environment(f)
  BY <1>1, EnvironmentFrame
<1>2. CASE MainThread
  <2>1. CASE UNCHANGED sess
    BY <2>1
  <2>2. ASSUME NEW f \in Flows, Discover(f)
        PROVE  sess'[g].decided /\ sess'[g].allowed = sess[g].allowed
    BY <1>0, <2>2 DEF Discover, Session
  <2> QED
    BY <1>0, <1>2, <2>1, <2>2, MainFrame
<1>3. ASSUME NEW w \in FlowWorkers, FlowThread(w)
      PROVE  sess'[g].decided /\ sess'[g].allowed = sess[g].allowed
  <2>0. FlowOf(w) /\ (Recv(w) => fw[w].f \in Flows)
    BY <1>0 DEF Core, FlowOf, Recv, FlowAt
  <2>1. \A s, t : Quiet(s, t) => t.decided = s.decided /\ t.allowed = s.allowed
    BY DEF Quiet
  <2> QED
    BY <1>0, <1>3, <2>0, <2>1, FlowFrame, RecvFrame
<1>4. ASSUME NEW w \in ControlWorkers, ControlThread(w)
      PROVE  sess'[g].decided /\ sess'[g].allowed = sess[g].allowed
  <2>0. ControlOf(w)
    BY <1>0 DEF Core
  <2>1. CASE g = cw[w].f /\ ~TakeControl(w)
    <3>1. cw[w].pc # "idle" /\ cw[w].pc \notin Early /\ cw[w].pc # "release"
      BY <1>0, <1>4, <2>0, <2>1, ControlFrame DEF ControlOf, Working, Open
    <3>2. ControlBan(w) \/ Shut(w)
      BY <1>4, <2>1, <3>1
      DEF ControlThread, Exchange, AwaitServerHello, Verify, SendVerdict, Decide, Admit, Deny,
          ReleaseNext, Released, ControlAt, Early
    <3>3. sess[g] \in Session
      BY <1>0
    <3>4. CASE ControlBan(w)
      BY <1>0, <2>1, <3>3, <3>4 DEF ControlBan, Session
    <3>5. CASE Shut(w)
      BY <1>0, <2>1, <3>3, <3>5 DEF Shut, Session
    <3> QED
      BY <3>2, <3>4, <3>5
  <2>2. CASE g # cw[w].f /\ ~TakeControl(w)
    BY <1>0, <1>4, <2>0, <2>2, ControlFrame
  <2>3. CASE TakeControl(w)
    BY <1>0, <2>3, Takes
  <2> QED
    BY <2>1, <2>2, <2>3
<1>5. CASE Guardian \/ CrashAgent \/ CrashGuardian \/ UNCHANGED vars
  BY <1>5 DEF Guardian, GuardianEnds, CloseRefs, CrashAgent, CrashGuardian, agent, vars
<1> QED
  BY <1>1, <1>2, <1>3, <1>4, <1>5 DEF Next

\* A session is never dropped between the flow worker that submits it and the control worker
\* that serves it: SessionIsDecided rests on this and on the workers' timeouts (inspect_packet,
\* queue_push, control_worker).
THEOREM NoSessionIsLost == Spec => []SubmittedIsInHand
<1>1. Init => SubmittedIsInHand
  BY DEF Init, SubmittedIsInHand, NoSession
<1> QED
  BY <1>1, InHandStep, Invariance, PTL DEF Spec

\* A session is decided once: neither its flow worker, nor a worker that denies another session,
\* nor the end of a process changes what was decided (decide, control_worker).
THEOREM DecisionsStand == Spec => DecisionStands
<1>1. AgentInv /\ [Next]_vars =>
        [\A f \in Flows : sess[f].decided => sess'[f].decided /\ sess'[f].allowed = sess[f].allowed]_vars
  BY StandsStep
<1> QED
  BY <1>1, Invariance, PTL DEF Spec, DecisionStands
=============================================================================
