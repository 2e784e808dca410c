------------------------ MODULE ClientGateInv_proofs ------------------------
(***************************************************************************)
(* The safety properties of ClientGate hold for every value of its         *)
(* constants: GateInv is inductive and implies them, for the exit status   *)
(* with CountedIsVerified.  And ClientGate implements Latch.               *)
(***************************************************************************)
EXTENDS ClientGateInv, FiniteSetTheorems, SequenceTheorems, TLAPS

-----------------------------------------------------------------------------
(* Type correctness.                                                         *)

\* A function over the indices of a sequence is a sequence of the same length.
LEMMA SameDomain ==
  ASSUME NEW S, NEW T, NEW q \in Seq(S), NEW g \in [DOMAIN q -> T]
  PROVE  /\ g \in Seq(T)
         /\ Len(g) = Len(q)
         /\ DOMAIN g = DOMAIN q
<1>1. /\ DOMAIN q = 1 .. Len(q)
      /\ Len(q) \in Nat
  BY LenProperties
<1>2. g \in [1 .. Len(q) -> T]
  BY <1>1
<1>3. g \in Seq(T)
  BY <1>1, <1>2, SeqDef
<1>4. DOMAIN g = 1 .. Len(g) /\ Len(g) \in Nat
  BY <1>3, LenProperties
<1> QED
  BY <1>1, <1>2, <1>3, <1>4

-----------------------------------------------------------------------------
(* Types.  The facts below say what an operator shared by several actions    *)
(* does to the part of the state it writes.                                  *)

LEMMA EmitType ==
  ASSUME inq \in [Flows -> Seq(Packet)], NEW f \in Flows, NEW kind, NEW c, NEW n,
         [kind |-> kind, conn |-> c, n |-> n] \in Packet,
         Emit(f, kind, c, n)
  PROVE  inq' \in [Flows -> Seq(Packet)]
<1> DEFINE p == [kind |-> kind, conn |-> c, n |-> n]
<1>1. inq' = [inq EXCEPT ![f] = Append(inq[f], p)]
  BY DEF Emit
<1>2. Append(inq[f], p) \in Seq(Packet)
  BY AppendProperties
<1> HIDE DEF p
<1> QED
  BY <1>1, <1>2

LEMMA ReceiveType ==
  ASSUME inq \in [Flows -> Seq(Packet)], NEW f \in Flows, NEW kind, Receive(f, kind)
  PROVE  /\ inq' \in [Flows -> Seq(Packet)]
         /\ Head(inq[f]) \in Packet
         /\ Head(inq[f]).kind = kind
         /\ Head(inq[f]).conn \in Conns
<1>1. Tail(inq[f]) \in Seq(Packet) /\ Head(inq[f]) \in Packet
  BY HeadTailProperties DEF Receive
<1> QED
  BY <1>1 DEF Receive, Packet

LEMMA SockType ==
  ASSUME TypeOK, NEW f \in Flows
  PROVE  /\ sock[f] \in Socket
         /\ sock[f].id \in 0 .. MaxConn
         /\ sock[f].st # "closed" => sock[f].id \in Conns /\ sock[f].id # 0
         /\ sock[f].st # "closed" =>
              \A st \in {"synsent", "synout", "established", "closing"} :
                [sock[f] EXCEPT !.st = st] \in Socket
<1>1. sock[f] \in Socket
  BY DEF TypeOK
<1>2. CASE sock[f] = NoSocket
  BY <1>1, <1>2, ConstantsAssumption DEF NoSocket
<1>3. CASE sock[f] \in [id : Conns, st : {"synsent", "synout", "established", "closing"}]
  BY <1>1, <1>3, ConstantsAssumption DEF Socket, Conns
<1> QED
  BY <1>1, <1>2, <1>3 DEF Socket

\* What a step that appends to sess or rewrites its elements leaves of the queues.
LEMMA QueuesType ==
  ASSUME TypeOK, sess' \in Seq(Session), DOMAIN sess \subseteq DOMAIN sess',
         UNCHANGED worker
  PROVE  /\ jobs \in Seq(DOMAIN sess')
         /\ decisions \in Seq(DOMAIN sess')
         /\ \A w \in Workers :
              worker'[w].pc \notin {"idle", "exited"} => worker'[w].s \in DOMAIN sess'
<1> QED
  BY SeqMonotonic DEF TypeOK

LEMMA KernelType ==
  ASSUME TypeOK, NEW f \in Flows, Kernel(f)
  PROVE  TypeOK'
<1> USE ConstantsAssumption
<1>0. UNCHANGED <<ctmark, gate, quarantined, control, phase>>
  BY DEF Kernel, Connect, RetransmitSyn, Establish, SendHello, SendData, SendBare, Close, Overrun
<1>1. sock' \in [Flows -> Socket]
  <2>1. CASE Connect(f)
    BY <2>1 DEF TypeOK, Connect, Socket, Conns
  <2>2. CASE Establish(f)
    BY <2>2, SockType DEF TypeOK, Establish
  <2>3. CASE Close(f)
    BY <2>3, SockType DEF TypeOK, Close, Socket
  <2> QED
    BY <2>1, <2>2, <2>3 DEF TypeOK, Kernel, RetransmitSyn, SendHello, SendData, SendBare, Overrun
<1>2. opened' \in 0 .. MaxConn
  BY DEF TypeOK, Kernel, Connect, RetransmitSyn, Establish, SendHello, SendData, SendBare, Close, Overrun
<1>3. inq' \in [Flows -> Seq(Packet)]
  <2>0. inq \in [Flows -> Seq(Packet)]
    BY DEF TypeOK
  <2>1. CASE Connect(f)
    <3>1. opened + 1 \in Conns
      BY <2>1 DEF Connect, TypeOK, Conns
    <3> QED
      BY <2>0, <2>1, <3>1, EmitType DEF Connect, Packet
  <2>2. CASE RetransmitSyn(f)
    BY <2>0, <2>2, SockType, EmitType DEF RetransmitSyn, Packet
  <2>3. CASE \E n \in 1 .. MaxHello : SendHello(f, n)
    BY <2>0, <2>3, SockType, EmitType DEF SendHello, Packet
  <2>4. CASE SendData(f)
    BY <2>0, <2>4, SockType, EmitType DEF SendData, Packet
  <2>5. CASE SendBare(f)
    BY <2>0, <2>5, SockType, EmitType DEF SendBare, Packet
  <2>6. CASE Overrun(f)
    BY <2>0, <2>6, HeadTailProperties DEF Overrun
  <2> QED
    BY <2>0, <2>1, <2>2, <2>3, <2>4, <2>5, <2>6 DEF Kernel, Establish, Close
<1>4. pending' \in SUBSET Flows
  BY DEF TypeOK, Kernel, Connect, RetransmitSyn, Establish, SendHello, SendData, SendBare, Close,
         Overrun, AddPending
<1> QED
  BY <1>0, <1>1, <1>2, <1>3, <1>4 DEF TypeOK, control

LEMMA GateType ==
  ASSUME TypeOK, NEW f \in Flows
  PROVE  /\ gate[f] \in Gate
         /\ FreshGate(NoHello, sock[f].id) \in Gate
         /\ \A ch \in HelloKeys : FreshGate(ch, sock[f].id) \in Gate
         /\ \A st \in {"none", "handshake", "serverhello", "admitted", "denied"} :
              /\ [gate[f] EXCEPT !.state = st, !.held = <<>>] \in Gate
              /\ \A k \in ServerKeys : [gate[f] EXCEPT !.sh = k, !.state = st] \in Gate
         /\ [gate[f] EXCEPT !.held = <<>>] \in Gate
         /\ \A c \in Conns : [gate[f] EXCEPT !.held = Append(gate[f].held, c)] \in Gate
         /\ NoGate \in Gate
         /\ \A i \in DOMAIN gate[f].held : gate[f].held[i] \in Conns
<1>1. gate[f] \in Gate /\ sock[f].id \in 0 .. MaxConn
  BY SockType DEF TypeOK
<1>2. <<>> \in Seq(Conns)
  BY EmptySeq
<1>3. \A c \in Conns : Append(gate[f].held, c) \in Seq(Conns)
  BY <1>1, AppendProperties DEF Gate
<1>4. \A i \in DOMAIN gate[f].held : gate[f].held[i] \in Conns
  BY <1>1, LenProperties, ElementOfSeq DEF Gate
<1>5. /\ NoGate \in Gate
      /\ FreshGate(NoHello, sock[f].id) \in Gate
      /\ \A ch \in HelloKeys : FreshGate(ch, sock[f].id) \in Gate
  BY <1>1, <1>2, ConstantsAssumption DEF Gate, FreshGate, NoGate
<1>6. \A st \in {"none", "handshake", "serverhello", "admitted", "denied"} :
        /\ [gate[f] EXCEPT !.state = st, !.held = <<>>] \in Gate
        /\ \A k \in ServerKeys : [gate[f] EXCEPT !.sh = k, !.state = st] \in Gate
  BY <1>1, <1>2 DEF Gate
<1>7. /\ [gate[f] EXCEPT !.held = <<>>] \in Gate
      /\ \A c \in Conns : [gate[f] EXCEPT !.held = Append(gate[f].held, c)] \in Gate
  BY <1>1, <1>2, <1>3 DEF Gate
<1> QED
  BY <1>1, <1>4, <1>5, <1>6, <1>7

LEMMA HelloType ==
  ASSUME TypeOK, NEW f \in Flows, Receive(f, "hello")
  PROVE  <<Head(inq[f]).conn, Head(inq[f]).n>> \in HelloKeys
<1>1. Head(inq[f]) \in Packet /\ Head(inq[f]).kind = "hello"
  BY ReceiveType DEF TypeOK
<1> QED
  BY <1>1 DEF Packet, HelloKeys

\* What client_observe_hello does to the sessions.
LEMMA ObserveHelloType ==
  ASSUME TypeOK, NEW f \in Flows, NEW ch \in HelloKeys, ObserveHello(f, ch)
  PROVE  /\ sess' \in Seq(Session)
         /\ DOMAIN sess \subseteq DOMAIN sess'
         /\ jobs' \in Seq(DOMAIN sess')
<1>1. CASE UNCHANGED <<sess, jobs>>
  BY <1>1 DEF TypeOK
<1>2. CASE /\ sess' = Append(sess, NewSession(f, ch))
           /\ jobs' = IF Len(jobs) < QueueCap THEN Append(jobs, Len(sess) + 1) ELSE jobs
  <2>1. NewSession(f, ch) \in Session
    BY DEF NewSession, Session
  <2>2. sess \in Seq(Session) /\ jobs \in Seq(DOMAIN sess)
    BY DEF TypeOK
  <2>3. /\ sess' \in Seq(Session)
        /\ Len(sess') = Len(sess) + 1
    BY <1>2, <2>1, <2>2, AppendProperties
  <2>4. /\ DOMAIN sess = 1 .. Len(sess)
        /\ DOMAIN sess' = 1 .. Len(sess')
        /\ Len(sess) \in Nat
    BY <2>2, <2>3, LenProperties
  <2>5. DOMAIN sess \subseteq DOMAIN sess' /\ Len(sess) + 1 \in DOMAIN sess'
    BY <2>3, <2>4
  <2>6. jobs \in Seq(DOMAIN sess')
    BY <2>2, <2>5, SeqMonotonic
  <2>7. Append(jobs, Len(sess) + 1) \in Seq(DOMAIN sess')
    BY <2>5, <2>6, AppendProperties
  <2> QED
    BY <1>2, <2>3, <2>5, <2>6, <2>7
<1> QED
  BY <1>1, <1>2 DEF ObserveHello

LEMMA CallbackType ==
  ASSUME TypeOK, NEW f \in Flows, Callback(f)
  PROVE  TypeOK'
<1> USE ConstantsAssumption
<1>0. /\ inq' \in [Flows -> Seq(Packet)]
      /\ Head(inq[f]) \in Packet
      /\ Head(inq[f]).conn \in Conns
  <2>1. \E kind \in {"syn", "hello", "data", "bare"} : Receive(f, kind)
    BY DEF Callback, DropQuarantined, HandleSyn, HandleHello, HandleData, HandleBare
  <2> QED
    BY <2>1, ReceiveType DEF TypeOK
<1>1. CASE DropQuarantined(f)
  BY <1>0, <1>1 DEF DropQuarantined, TypeOK, control
<1>2. CASE HandleSyn(f)
  <2>1. sock' \in [Flows -> Socket]
    BY <1>2, SockType DEF HandleSyn, TypeOK
  <2>2. gate' \in [Flows -> Gate] /\ quarantined' \in BOOLEAN
    BY <1>2, GateType DEF HandleSyn, TypeOK, Quarantine
  <2> QED
    BY <1>0, <1>2, <2>1, <2>2 DEF HandleSyn, TypeOK, control
<1>3. CASE HandleHello(f)
  <2> DEFINE ch == <<Head(inq[f]).conn, Head(inq[f]).n>>
  <2>1. ch \in HelloKeys
    BY <1>3, HelloType DEF HandleHello
  <2>2. gate' \in [Flows -> Gate] /\ quarantined' \in BOOLEAN
    <3>1. FreshGate(ch, sock[f].id) \in Gate
      BY <2>1, GateType
    <3>2. \/ UNCHANGED gate
          \/ gate' = [gate EXCEPT ![f] = FreshGate(ch, sock[f].id)]
      BY <1>3 DEF HandleHello
    <3> HIDE DEF ch
    <3>3. gate' \in [Flows -> Gate]
      BY <3>1, <3>2 DEF TypeOK
    <3> QED
      BY <1>3, <3>3 DEF HandleHello, TypeOK, Quarantine
  <2>3. \/ UNCHANGED <<sess, jobs>>
        \/ ObserveHello(f, ch)
    BY <1>3 DEF HandleHello
  <2> HIDE DEF ch
  <2>4. /\ sess' \in Seq(Session)
        /\ DOMAIN sess \subseteq DOMAIN sess'
        /\ jobs' \in Seq(DOMAIN sess')
    BY <2>1, <2>3, ObserveHelloType DEF TypeOK
  <2>5. UNCHANGED <<sock, opened, ctmark, pending, decisions, worker, phase>>
    BY <1>3 DEF HandleHello
  <2>6. /\ decisions \in Seq(DOMAIN sess')
        /\ \A w \in Workers :
             worker'[w].pc \notin {"idle", "exited"} => worker'[w].s \in DOMAIN sess'
    BY <2>4, <2>5, QueuesType
  <2> QED
    BY <1>0, <2>2, <2>4, <2>5, <2>6 DEF TypeOK
<1>4. CASE HandleData(f)
  <2>1. ctmark' \in SUBSET Conns
    BY <1>0, <1>4 DEF HandleData, Authorize, TypeOK
  <2>2. gate' \in [Flows -> Gate] /\ quarantined' \in BOOLEAN
    <3> DEFINE g == [gate[f] EXCEPT !.held = Append(gate[f].held, Head(inq[f]).conn)]
    <3>0. g \in Gate
      BY <1>0, GateType
    <3>1. UNCHANGED gate \/ gate' = [gate EXCEPT ![f] = g]
      BY <1>4 DEF HandleData
    <3> HIDE DEF g
    <3>2. gate' \in [Flows -> Gate]
      BY <3>0, <3>1 DEF TypeOK
    <3> QED
      BY <1>4, <3>2 DEF HandleData, Authorize, TypeOK, Quarantine
  <2> QED
    BY <1>0, <1>4, <2>1, <2>2 DEF HandleData, TypeOK, control
<1>5. CASE HandleBare(f)
  <2>1. ctmark' \in SUBSET Conns /\ quarantined' \in BOOLEAN
    BY <1>0, <1>5 DEF HandleBare, Authorize, TypeOK, Quarantine
  <2> QED
    BY <1>0, <1>5, <2>1 DEF HandleBare, TypeOK, control
<1> QED
  BY <1>1, <1>2, <1>3, <1>4, <1>5 DEF Callback

LEMMA SessType ==
  ASSUME TypeOK, NEW s \in DOMAIN sess
  PROVE  /\ sess[s] \in Session
         /\ sess[s].flow \in Flows
         /\ sess[s].ch \in HelloKeys
         /\ s \in 1 .. Len(sess)
<1>1. sess \in Seq(Session)
  BY DEF TypeOK
<1>2. sess[s] \in Session /\ s \in 1 .. Len(sess)
  BY <1>1, LenProperties, ElementOfSeq
<1> QED
  BY <1>2 DEF Session

\* What a step that rewrites one session does.
LEMMA SessUpdateType ==
  ASSUME TypeOK, NEW s \in DOMAIN sess, NEW e \in Session,
         sess' = [sess EXCEPT ![s] = e]
  PROVE  /\ sess' \in Seq(Session)
         /\ DOMAIN sess' = DOMAIN sess
<1>1. sess \in Seq(Session) /\ s \in 1 .. Len(sess)
  BY SessType DEF TypeOK
<1> QED
  BY <1>1, ExceptSeq

LEMMA ApplyDecisionType ==
  ASSUME TypeOK, ApplyDecision
  PROVE  TypeOK'
<1> DEFINE s == Head(decisions)
           f == sess[s].flow
           dom == DOMAIN sess
<1>1. s \in DOMAIN sess /\ Tail(decisions) \in Seq(dom)
  <2>1. decisions \in Seq(dom)
    BY DEF TypeOK
  <2> QED
    BY <2>1, HeadTailProperties DEF ApplyDecision
<1>2. f \in Flows /\ sess[s] \in Session
  BY <1>1, SessType
<1>3. decisions' \in Seq(dom)
  BY <1>1 DEF ApplyDecision
<1>4. \/ Admit(s, f)
      \/ Refuse(s, f)
  BY DEF ApplyDecision
<1>5. /\ pending' \in SUBSET Flows
      /\ UNCHANGED <<sock, opened, inq, jobs, worker, phase>>
  BY DEF ApplyDecision, TypeOK
<1> HIDE DEF s, f, dom
<1>6. \E allow \in BOOLEAN : Decided(s, allow)
  BY <1>4 DEF Admit, Refuse
<1>7. sess' \in Seq(Session) /\ DOMAIN sess' = DOMAIN sess
  <2>1. PICK allow \in BOOLEAN : Decided(s, allow)
    BY <1>6
  <2> DEFINE e == [sess[s] EXCEPT !.applied = TRUE, !.allowed = allow]
  <2>2. e \in Session
    BY <1>2 DEF Session
  <2>3. sess' = [sess EXCEPT ![s] = e]
    BY <2>1 DEF Decided
  <2> HIDE DEF e
  <2> QED
    BY <1>1, <2>2, <2>3, SessUpdateType
<1>8. /\ gate' \in [Flows -> Gate]
      /\ quarantined' \in BOOLEAN
      /\ ctmark' \in SUBSET Conns
  <2>1. CASE Admit(s, f)
    BY <1>2, <2>1, GateType DEF Admit, TypeOK
  <2>2. CASE Refuse(s, f)
    BY <1>2, <2>2, GateType DEF Refuse, Quarantine, TypeOK
  <2> QED
    BY <1>4, <2>1, <2>2
<1> QED
  BY <1>3, <1>5, <1>7, <1>8 DEF TypeOK, dom

LEMMA GateThreadType ==
  ASSUME TypeOK, GateThread
  PROVE  TypeOK'
<1>1. CASE \E f \in Flows : Callback(f)
  BY <1>1, CallbackType
<1>2. ASSUME NEW f \in Flows, NEW k \in ServerKeys, HandleServerHello(f, k)
      PROVE  TypeOK'
  <2>1. gate' \in [Flows -> Gate]
    BY <1>2, GateType DEF HandleServerHello, TypeOK
  <2>2. sess' \in [DOMAIN sess -> Session]
    <3>1. ASSUME NEW s \in DOMAIN sess PROVE [sess[s] EXCEPT !.sh = k] \in Session
      BY <1>2, SessType DEF Session
    <3>2. sess' = [s \in DOMAIN sess |->
                    IF s \in Generation(f, gate[f].ch) /\ sess[s].sh = NoKey
                    THEN [sess[s] EXCEPT !.sh = k] ELSE sess[s]]
      BY <1>2 DEF HandleServerHello
    <3> QED
      BY <3>1, <3>2, SessType
  <2>3. sess' \in Seq(Session) /\ DOMAIN sess' = DOMAIN sess
    BY <2>2, SameDomain DEF TypeOK
  <2> QED
    BY <1>2, <2>1, <2>3 DEF HandleServerHello, TypeOK, world
<1>3. ASSUME NEW f \in Flows, ExpireGate(f) \/ ForgetGate(f)
      PROVE  TypeOK'
  <2>1. gate' \in [Flows -> Gate] /\ quarantined' \in BOOLEAN
    BY <1>3, GateType DEF ExpireGate, ForgetGate, Quarantine, TypeOK
  <2> QED
    BY <1>3, <2>1 DEF ExpireGate, ForgetGate, TypeOK, world, control
<1>4. CASE ApplyDecision
  BY <1>4, ApplyDecisionType
<1>5. CASE Stop \/ Joined
  BY <1>5 DEF Stop, Joined, TypeOK, world, control
<1>6. CASE Exit
  <2>1. gate' \in [Flows -> Gate]
    BY <1>6, GateType DEF Exit
  <2> QED
    BY <1>6, <2>1 DEF Exit, TypeOK, world, control
<1> QED
  BY <1>1, <1>2, <1>3, <1>4, <1>5, <1>6 DEF GateThread

LEMMA GotoType ==
  ASSUME TypeOK, NEW w \in Workers,
         NEW pc \in {"idle", "exchange", "awaithello", "queue", "waitgate", "giveup", "verdict",
                     "denyconnect", "waitdeny", "finish", "count", "exited"},
         Goto(w, pc)
  PROVE  /\ worker' \in [Workers -> WorkerState]
         /\ worker'[w].pc = pc
         /\ worker'[w].s = worker[w].s
         /\ \A v \in Workers \ {w} : worker'[v] = worker[v]
<1>1. worker[w] \in WorkerState
  BY DEF TypeOK
<1> DEFINE e == [worker[w] EXCEPT !.pc = pc]
<1>2. e \in WorkerState /\ e.pc = pc /\ e.s = worker[w].s
  BY <1>1 DEF WorkerState
<1>3. worker' = [worker EXCEPT ![w] = e]
  BY DEF Goto
<1> HIDE DEF e
<1> QED
  BY <1>2, <1>3 DEF TypeOK

\* The two steps that also write another local of the worker.
LEMMA WorkerUpdateType ==
  ASSUME TypeOK, NEW w \in Workers, NEW up \in BOOLEAN,
         \/ worker' = [worker EXCEPT ![w].pc = "awaithello", ![w].full = up]
         \/ worker' = [worker EXCEPT ![w].pc = "finish", ![w].fd = up]
  PROVE  /\ worker' \in [Workers -> WorkerState]
         /\ worker'[w].pc \in {"awaithello", "finish"}
         /\ worker'[w].s = worker[w].s
         /\ \A v \in Workers \ {w} : worker'[v] = worker[v]
<1>1. worker[w] \in WorkerState
  BY DEF TypeOK
<1> DEFINE e == [worker[w] EXCEPT !.pc = "awaithello", !.full = up]
           g == [worker[w] EXCEPT !.pc = "finish", !.fd = up]
<1>2. /\ e \in WorkerState /\ e.pc = "awaithello" /\ e.s = worker[w].s
      /\ g \in WorkerState /\ g.pc = "finish" /\ g.s = worker[w].s
  BY <1>1 DEF WorkerState
<1>3. worker' = [worker EXCEPT ![w] = e] \/ worker' = [worker EXCEPT ![w] = g]
  BY <1>1 DEF WorkerState, TypeOK
<1> HIDE DEF e, g
<1> QED
  BY <1>2, <1>3 DEF TypeOK

LEMMA ControlWorkerType ==
  ASSUME TypeOK, NEW w \in Workers, ControlWorker(w)
  PROVE  TypeOK'
<1> USE ConstantsAssumption
<1> DEFINE dom == DOMAIN sess
           s == worker[w].s
<1>0. UNCHANGED <<sock, opened, inq, ctmark, pending, gate, quarantined, phase>>
  BY DEF ControlWorker, TakeJob, Exchange, AwaitHello, QueueDecision, WaitGate, GiveUp,
         SendVerdict, Finish, Count, ExitWorker, WorkerLocal, world
<1>1. worker[w] \in WorkerState
  BY DEF TypeOK
<1>2. CASE TakeJob(w)
  <2>1. jobs \in Seq(dom)
    BY DEF TypeOK
  <2>2. Head(jobs) \in dom /\ Tail(jobs) \in Seq(dom) /\ Head(jobs) \in Nat
    BY <1>2, <2>1, HeadTailProperties, SessType, SMTT(30) DEF TakeJob
  <2>3. /\ worker' \in [Workers -> WorkerState]
        /\ worker'[w].s \in dom
        /\ \A v \in Workers \ {w} : worker'[v] = worker[v]
    <3>1. PICK up \in BOOLEAN :
            worker' = [worker EXCEPT ![w] = [IdleWorker(up) EXCEPT
                        !.pc = IF up THEN "exchange" ELSE "denyconnect", !.s = Head(jobs)]]
      BY <1>2 DEF TakeJob
    <3> DEFINE e == [IdleWorker(up) EXCEPT
                       !.pc = IF up THEN "exchange" ELSE "denyconnect", !.s = Head(jobs)]
    <3>2. e \in WorkerState /\ e.s = Head(jobs)
      BY <2>2 DEF WorkerState, IdleWorker
    <3>3. worker' = [worker EXCEPT ![w] = e]
      BY <3>1
    <3> HIDE DEF e
    <3> QED
      BY <2>2, <3>2, <3>3 DEF TypeOK
  <2>4. jobs' \in Seq(dom) /\ UNCHANGED <<sess, decisions>>
    BY <1>2, <2>2 DEF TakeJob
  <2> QED
    BY <1>0, <2>3, <2>4 DEF TypeOK
<1>3. CASE ~TakeJob(w)
  <2>1. /\ worker' \in [Workers -> WorkerState]
        /\ worker'[w].pc \notin {"idle", "exited"} =>
             worker[w].pc \notin {"idle", "exited"} /\ worker'[w].s = s
        /\ \A v \in Workers \ {w} : worker'[v] = worker[v]
    <3>1. CASE Exchange(w)
      BY <3>1, WorkerUpdateType, GotoType DEF Exchange, At, TypeOK
    <3>2. CASE AwaitHello(w)
      BY <3>2, GotoType DEF AwaitHello, At
    <3>3. CASE QueueDecision(w)
      BY <3>3, GotoType DEF QueueDecision, At
    <3>4. CASE WaitGate(w)
      BY <3>4, GotoType DEF WaitGate, At
    <3>5. CASE GiveUp(w) \/ Finish(w) \/ ExitWorker(w)
      BY <3>5, GotoType DEF GiveUp, Finish, ExitWorker, At
    <3>6. CASE SendVerdict(w)
      BY <3>6, WorkerUpdateType, GotoType DEF SendVerdict, At
    <3>7. CASE Count(w)
      BY <1>1, <3>7 DEF Count, At, TypeOK, WorkerState, IdleWorker
    <3> QED
      BY <1>3, <3>1, <3>2, <3>3, <3>4, <3>5, <3>6, <3>7 DEF ControlWorker
  <2>2. worker[w].pc \notin {"idle", "exited"} => s \in dom
    BY DEF TypeOK
  <2>3. jobs' = jobs
    BY <1>3 DEF ControlWorker, Exchange, AwaitHello, QueueDecision, WaitGate, GiveUp,
                SendVerdict, Finish, Count, ExitWorker
  <2>4. decisions' \in Seq(dom)
    <3>1. decisions \in Seq(dom)
      BY DEF TypeOK
    <3>2. CASE QueueDecision(w)
      BY <2>2, <3>1, <3>2, AppendProperties DEF QueueDecision, At
    <3> QED
      BY <1>3, <3>1, <3>2 DEF ControlWorker, Exchange, AwaitHello, WaitGate, GiveUp,
                              SendVerdict, Finish, Count, ExitWorker
  <2>5. sess' \in Seq(Session) /\ DOMAIN sess' = dom
    <3>1. CASE UNCHANGED sess
      BY <3>1 DEF TypeOK
    <3>2. CASE ~UNCHANGED sess
      <4>1. s \in dom /\ sess[s] \in Session
        BY <1>3, <2>2, <3>2, SessType
           DEF ControlWorker, Exchange, AwaitHello, QueueDecision, WaitGate, GiveUp,
               SendVerdict, Finish, Count, ExitWorker, At
      <4>2. \E e \in Session : sess' = [sess EXCEPT ![s] = e]
        <5>1. CASE Exchange(w)
          <6>1. PICK k \in ServerKeys \cup {NoKey} :
                  sess' = [sess EXCEPT ![s] = [sess[s] EXCEPT !.att = k, !.mutual = Mutual]]
            BY <3>2, <4>1, <5>1 DEF Exchange
          <6>2. [sess[s] EXCEPT !.att = k, !.mutual = Mutual] \in Session
            BY <4>1 DEF Session
          <6> QED
            BY <6>1, <6>2
        <5>2. CASE AwaitHello(w)
          <6>1. sess' = [sess EXCEPT ![s] = [sess[s] EXCEPT !.verify = (sess[s].att = sess[s].sh)]]
            BY <3>2, <5>2 DEF AwaitHello
          <6>2. [sess[s] EXCEPT !.verify = (sess[s].att = sess[s].sh)] \in Session
            BY <4>1 DEF Session
          <6> QED
            BY <6>1, <6>2
        <5>3. CASE GiveUp(w)
          <6>1. sess' = [sess EXCEPT ![s] = [sess[s] EXCEPT !.allowed = FALSE]]
            BY <5>3 DEF GiveUp
          <6>2. [sess[s] EXCEPT !.allowed = FALSE] \in Session
            BY <4>1 DEF Session
          <6> QED
            BY <6>1, <6>2
        <5>4. CASE SendVerdict(w)
          <6> DEFINE v == IF sess[s].allowed THEN "yes" ELSE "no"
          <6>1. sess' = [sess EXCEPT ![s] = [sess[s] EXCEPT !.verdict = v]]
            BY <3>2, <5>4 DEF SendVerdict
          <6>2. [sess[s] EXCEPT !.verdict = v] \in Session
            BY <4>1 DEF Session
          <6> QED
            BY <6>1, <6>2
        <5>5. CASE Finish(w)
          <6> DEFINE v == sess[s].allowed /\ sess[s].verdict # "unsent"
          <6>1. sess' = [sess EXCEPT ![s] = [sess[s] EXCEPT !.success = v]]
            BY <5>5 DEF Finish
          <6>2. [sess[s] EXCEPT !.success = v] \in Session
            BY <4>1 DEF Session
          <6> QED
            BY <6>1, <6>2
        <5>6. CASE Count(w)
          <6> DEFINE v == sess[s].allowed
          <6>1. sess' = [sess EXCEPT ![s] = [sess[s] EXCEPT !.fin = TRUE, !.counted = v]]
            BY <4>1, <5>6 DEF Count
          <6>2. [sess[s] EXCEPT !.fin = TRUE, !.counted = v] \in Session
            BY <4>1 DEF Session
          <6> QED
            BY <6>1, <6>2
        <5> QED
          BY <1>3, <3>2, <5>1, <5>2, <5>3, <5>4, <5>5, <5>6
             DEF ControlWorker, QueueDecision, WaitGate, ExitWorker
      <4> QED
        BY <4>1, <4>2, SessUpdateType
    <3> QED
      BY <3>1, <3>2
  <2> QED
    BY <1>0, <2>1, <2>2, <2>3, <2>4, <2>5 DEF TypeOK
<1> QED
  BY <1>2, <1>3

LEMMA TypeCorrectInit == Init => TypeOK
<1> SUFFICES ASSUME Init PROVE TypeOK
  OBVIOUS
<1>1. /\ sock \in [Flows -> Socket]
      /\ gate \in [Flows -> Gate]
      /\ inq \in [Flows -> Seq(Packet)]
  BY ConstantsAssumption, EmptySeq DEF Init, NoSocket, Socket, NoGate, Gate
<1>2. worker \in [Workers -> WorkerState]
  BY DEF Init, IdleWorker, WorkerState
<1> QED
  <2>1. sess \in Seq(Session) /\ jobs \in Seq(DOMAIN sess) /\ decisions \in Seq(DOMAIN sess)
    BY EmptySeq DEF Init
  <2>2. \A w \in Workers : worker[w].pc \notin {"idle", "exited"} =>
                            worker[w].s \in DOMAIN sess
    BY DEF Init, IdleWorker
  <2>3. /\ opened \in 0 .. MaxConn
        /\ ctmark \in SUBSET Conns
        /\ pending \in SUBSET Flows
        /\ quarantined \in BOOLEAN
        /\ phase \in {"run", "joining", "draining", "exit"}
    <3>1. opened = 0 /\ ctmark = {} /\ pending = {} /\ quarantined = FALSE /\ phase = "run"
      BY DEF Init
    <3>2. 0 \in 0 .. MaxConn
      BY ConstantsAssumption
    <3> QED
      BY <3>1, <3>2
  <2> QED
    BY <1>1, <1>2, <2>1, <2>2, <2>3 DEF TypeOK

LEMMA TypeCorrectStep ==
  ASSUME TypeOK, [Next]_vars
  PROVE  TypeOK'
<1>1. CASE UNCHANGED vars
  BY <1>1 DEF vars, TypeOK
<1>2. CASE Next
  BY <1>2, KernelType, GateThreadType, ControlWorkerType DEF Next
<1> QED
  BY <1>1, <1>2

\* Every variable keeps its type; in particular a session that a queue or a worker
\* names exists.
THEOREM TypeCorrect == Spec => []TypeOK
<1> QED
  BY TypeCorrectInit, TypeCorrectStep, PTL DEF Spec

-----------------------------------------------------------------------------
(* Sequences, element by element.                                            *)

LEMMA TailFacts ==
  ASSUME NEW S, NEW q \in Seq(S), q # <<>>
  PROVE  /\ 1 \in DOMAIN q
         /\ Head(q) = q[1]
         /\ \A i \in DOMAIN q : i \in Nat /\ 1 <= i
         /\ \A i \in DOMAIN Tail(q) : i + 1 \in DOMAIN q /\ Tail(q)[i] = q[i + 1]
         /\ \A i \in DOMAIN Tail(q) : i \in Nat /\ 1 <= i
<1>1. Len(q) \in Nat \ {0} /\ DOMAIN q = 1 .. Len(q)
  BY EmptySeq, LenProperties
<1>2. Tail(q) \in Seq(S) /\ Len(Tail(q)) = Len(q) - 1
      /\ \A i \in 1 .. Len(Tail(q)) : Tail(q)[i] = q[i + 1]
  BY HeadTailProperties
<1>3. DOMAIN Tail(q) = 1 .. Len(q) - 1
  BY <1>2, LenProperties
<1> QED
  BY <1>1, <1>2, <1>3

LEMMA AppendFacts ==
  ASSUME NEW S, NEW q \in Seq(S), NEW e \in S
  PROVE  /\ \A i \in DOMAIN q : i \in Nat /\ i < Len(q) + 1
         /\ DOMAIN Append(q, e) = DOMAIN q \cup {Len(q) + 1}
         /\ \A i \in DOMAIN q : Append(q, e)[i] = q[i]
         /\ Append(q, e)[Len(q) + 1] = e
         /\ Len(q) \in Nat
<1>1. Append(q, e) \in Seq(S) /\ Len(Append(q, e)) = Len(q) + 1
      /\ \A i \in 1 .. Len(q) : Append(q, e)[i] = q[i]
      /\ Append(q, e)[Len(q) + 1] = e
  BY AppendProperties
<1>2. Len(q) \in Nat /\ DOMAIN q = 1 .. Len(q) /\ DOMAIN Append(q, e) = 1 .. Len(q) + 1
  BY <1>1, LenProperties
<1> QED
  BY <1>1, <1>2

-----------------------------------------------------------------------------
(* What a step does to one flow's socket and queue.                          *)

\* The packets of one flow, seen from the agent: nothing, one more, or one less.
Quiet(g) == inq'[g] = inq[g]
Sent(g) ==
  \E p \in Packet :
    /\ inq'[g] = Append(inq[g], p)
    /\ sock'[g] = sock[g]
    /\ p.conn = sock[g].id
    /\ sock[g].st # "closed"
    /\ p.kind # "syn" => sock[g].st \in {"established", "closing"}
Opened(g) ==
  /\ sock[g].st = "closed"
  /\ opened' = opened + 1
  /\ opened + 1 \in Conns
  /\ sock'[g] = [id |-> opened + 1, st |-> "synsent"]
  /\ inq'[g] = Append(inq[g], [kind |-> "syn", conn |-> opened + 1, n |-> 0])
Taken(g) == inq[g] # <<>> /\ inq'[g] = Tail(inq[g])
Moved(g) ==
  \/ sock'[g] = sock[g]
  \/ sock'[g] = NoSocket
  \/ /\ sock'[g].id = sock[g].id
     /\ \/ sock[g].st = "synout" /\ sock'[g].st = "established"
        \/ sock[g].st = "established" /\ sock'[g].st = "closing"

LEMMA KernelFlow ==
  ASSUME TypeOK, NEW f \in Flows, Kernel(f), NEW g \in Flows
  PROVE  /\ opened' \in {opened, opened + 1}
         /\ \/ Opened(g)
            \/ Sent(g) /\ opened' = opened
            \/ Quiet(g) /\ Moved(g)
            \/ Taken(g) /\ sock'[g] = sock[g] /\ opened' = opened
<1>1. CASE Connect(f)
  <2>1. opened + 1 \in Conns
    BY <1>1, ConstantsAssumption DEF Connect, TypeOK, Conns
  <2>2. CASE g = f
    BY <1>1, <2>1, <2>2 DEF Connect, Emit, TypeOK, Opened
  <2>3. CASE g # f
    BY <1>1, <2>3 DEF Connect, Emit, TypeOK, Quiet, Moved
  <2> QED
    BY <2>2, <2>3
<1>2. CASE RetransmitSyn(f)
  <2>1. [kind |-> "syn", conn |-> sock[f].id, n |-> 0] \in Packet
    BY <1>2, SockType DEF RetransmitSyn, Packet
  <2> QED
    BY <1>2, <2>1 DEF RetransmitSyn, Emit, TypeOK, Sent, Quiet, Moved
<1>3. CASE Establish(f) \/ Close(f)
  <2>1. opened' = opened /\ Quiet(g)
    BY <1>3 DEF Establish, Close, Quiet
  <2>2. CASE g # f
    BY <1>3, <2>1, <2>2 DEF Establish, Close, TypeOK, Moved
  <2>3. CASE g = f
    <3>1. sock[f] \in Socket /\ sock[f].st # "closed"
      BY <1>3, SockType DEF Establish, Close
    <3>2. sock[f] \in [id : Conns, st : {"synsent", "synout", "established", "closing"}]
      BY <3>1 DEF Socket, NoSocket
    <3>3. CASE Establish(f)
      <4>1. sock'[f] = [sock[f] EXCEPT !.st = "established"] /\ sock[f].st = "synout"
        BY <3>3 DEF Establish, TypeOK
      <4>2. sock'[f].id = sock[f].id /\ sock'[f].st = "established"
        BY <4>1, <3>2
      <4> QED
        BY <2>1, <4>1, <4>2, <2>3 DEF Moved
    <3>4. CASE Close(f)
      <4>1. \/ sock'[f] = NoSocket
            \/ sock[f].st = "established" /\ sock'[f] = [sock[f] EXCEPT !.st = "closing"]
        BY <3>4 DEF Close, TypeOK
      <4>2. CASE sock[f].st = "established" /\ sock'[f] = [sock[f] EXCEPT !.st = "closing"]
        <5>1. sock'[f].id = sock[f].id /\ sock'[f].st = "closing"
          BY <4>2, <3>2
        <5> QED
          BY <2>1, <4>2, <5>1, <2>3 DEF Moved
      <4> QED
        BY <2>1, <4>1, <4>2, <2>3 DEF Moved
    <3> QED
      BY <1>3, <2>1, <3>3, <3>4
  <2> QED
    BY <2>1, <2>2, <2>3
<1>4. CASE \E n \in 1 .. MaxHello : SendHello(f, n)
  <2>1. PICK n \in 1 .. MaxHello : SendHello(f, n)
    BY <1>4
  <2>2. [kind |-> "hello", conn |-> sock[f].id, n |-> n] \in Packet
    BY <2>1, SockType DEF SendHello, Packet
  <2> QED
    BY <2>1, <2>2 DEF SendHello, Emit, TypeOK, Sent, Quiet, Moved
<1>5. CASE SendData(f)
  <2>1. [kind |-> "data", conn |-> sock[f].id, n |-> 0] \in Packet
    BY <1>5, SockType DEF SendData, Packet
  <2> QED
    BY <1>5, <2>1 DEF SendData, Emit, TypeOK, Sent, Quiet, Moved
<1>6. CASE SendBare(f)
  <2>1. [kind |-> "bare", conn |-> sock[f].id, n |-> 0] \in Packet
    BY <1>6, SockType DEF SendBare, Packet
  <2> QED
    BY <1>6, <2>1 DEF SendBare, Emit, TypeOK, Sent, Quiet, Moved
<1>7. CASE Overrun(f)
  BY <1>7 DEF Overrun, TypeOK, Taken, Quiet, Moved
<1> QED
  BY <1>1, <1>2, <1>3, <1>4, <1>5, <1>6, <1>7 DEF Kernel

\* The SYN that leaves the host belongs to the socket it moves.
SynLeft(g) ==
  /\ inq[g][1].conn = sock[g].id
  /\ sock[g].st \in {"synsent", "synout"}
  /\ sock'[g].id = sock[g].id
  /\ sock'[g].st = "synout"

LEMMA CallbackFlow ==
  ASSUME TypeOK, NEW f \in Flows, Callback(f), NEW g \in Flows
  PROVE  /\ opened' = opened
         /\ \/ Quiet(g) /\ sock'[g] = sock[g] /\ g # f
            \/ Taken(g) /\ sock'[g] = sock[g]
            \/ Taken(g) /\ SynLeft(g) /\ HandleSyn(g) /\ gate'[g].ch = NoHello
<1>1. inq[f] \in Seq(Packet)
  BY DEF TypeOK
<1>2. CASE HandleSyn(f)
  <2>1. Head(inq[f]) = inq[f][1]
    BY <1>1, <1>2, TailFacts DEF HandleSyn, Receive
  <2>2. gate' = [gate EXCEPT ![f] = FreshGate(NoHello, sock[f].id)] => gate'[f].ch = NoHello
    BY DEF TypeOK, FreshGate
  <2>3. opened' = opened /\ inq' = [inq EXCEPT ![f] = Tail(inq[f])] /\ inq[f] # <<>>
    BY <1>2 DEF HandleSyn, Receive
  <2>4. \/ sock' = sock
        \/ /\ sock' = [sock EXCEPT ![f].st = "synout"]
           /\ Head(inq[f]).conn = sock[f].id
           /\ sock[f].st \in {"synsent", "synout"}
           /\ gate'[f].ch = NoHello
    BY <1>2, <2>2 DEF HandleSyn
  <2>5. CASE g # f
    BY <2>3, <2>4, <2>5 DEF TypeOK, Taken, Quiet
  <2>6. CASE g = f
    <3>1. Taken(f)
      BY <2>3 DEF TypeOK, Taken
    <3>2. sock[f] \in Socket
      BY DEF TypeOK
    <3>3. sock[f].st \in {"synsent", "synout"} =>
            sock[f] \in [id : Conns, st : {"synsent", "synout", "established", "closing"}]
      BY <3>2 DEF Socket, NoSocket
    <3>4. sock' = [sock EXCEPT ![f].st = "synout"] /\ sock[f].st \in {"synsent", "synout"} =>
            sock'[f].id = sock[f].id /\ sock'[f].st = "synout"
      BY <3>3 DEF TypeOK
    <3> QED
      BY <1>2, <2>1, <2>3, <2>4, <2>6, <3>1, <3>4 DEF SynLeft
  <2> QED
    BY <2>5, <2>6
<1> QED
  BY <1>2 DEF Callback, DropQuarantined, HandleHello, HandleData, HandleBare, Receive, TypeOK,
              Taken, Quiet

-----------------------------------------------------------------------------
LEMMA QueueInOrderStep ==
  ASSUME TypeOK, TypeOK', QueueInOrder, Next
  PROVE  QueueInOrder'
<1> SUFFICES ASSUME NEW g \in Flows
             PROVE  FlowInOrder(g)'
  BY DEF QueueInOrder
<1>0. /\ FlowInOrder(g)
      /\ opened \in Nat
      /\ sock[g].id \in Nat
      /\ inq[g] \in Seq(Packet)
      /\ \A i \in DOMAIN inq[g] : inq[g][i].conn \in Nat
  <2>1. inq[g] \in Seq(Packet)
    BY DEF TypeOK
  <2>2. \A i \in DOMAIN inq[g] : inq[g][i] \in Packet
    BY <2>1, LenProperties, ElementOfSeq
  <2>3. \A i \in DOMAIN inq[g] : inq[g][i].conn \in Nat
    BY <2>2, ConstantsAssumption DEF Packet, Conns
  <2>4. opened \in 0 .. MaxConn /\ sock[g].id \in 0 .. MaxConn
    BY SockType DEF TypeOK
  <2> QED
    BY <2>1, <2>3, <2>4, ConstantsAssumption DEF QueueInOrder
<1>1. CASE Opened(g)
  <2> DEFINE p == [kind |-> "syn", conn |-> opened + 1, n |-> 0]
  <2>1. p \in Packet /\ p.conn = opened + 1
    BY <1>1 DEF Opened, Packet
  <2>2. inq'[g] = Append(inq[g], p) /\ opened' = opened + 1
        /\ sock'[g].id = opened + 1 /\ sock'[g].st = "synsent"
    BY <1>1 DEF Opened
  <2> HIDE DEF p
  <2> QED
    BY <1>0, <2>1, <2>2, AppendFacts DEF FlowInOrder
<1>2. CASE Sent(g) /\ opened' = opened
  <2>1. PICK p \in Packet : /\ inq'[g] = Append(inq[g], p)
                            /\ sock'[g] = sock[g]
                            /\ p.conn = sock[g].id
                            /\ sock[g].st # "closed"
    BY <1>2 DEF Sent
  <2> QED
    BY <1>0, <1>2, <2>1, AppendFacts DEF FlowInOrder
<1>3. CASE Quiet(g) /\ Moved(g) /\ opened' \in {opened, opened + 1}
  BY <1>0, <1>3 DEF Quiet, Moved, FlowInOrder, NoSocket
<1>4. CASE Taken(g) /\ sock'[g] = sock[g] /\ opened' = opened
  BY <1>0, <1>4, TailFacts DEF Taken, FlowInOrder
<1>5. CASE Taken(g) /\ SynLeft(g) /\ opened' = opened
  BY <1>0, <1>5, TailFacts, SMTT(30) DEF Taken, SynLeft, FlowInOrder
<1>6. CASE UNCHANGED <<sock, opened, inq>>
  BY <1>0, <1>6 DEF FlowInOrder
<1>7. CASE \E f \in Flows : Kernel(f)
  BY <1>1, <1>2, <1>3, <1>4, <1>7, KernelFlow
<1>8. CASE \E f \in Flows : Callback(f)
  BY <1>3, <1>4, <1>5, <1>8, CallbackFlow DEF Moved
<1>9. CASE GateThread /\ ~(\E f \in Flows : Callback(f))
  BY <1>6, <1>9 DEF GateThread, HandleServerHello, ExpireGate, ForgetGate, ApplyDecision, Stop,
                    Joined, Exit, world
<1>10. CASE \E w \in Workers : ControlWorker(w)
  BY <1>6, <1>10 DEF ControlWorker, TakeJob, Exchange, AwaitHello, QueueDecision, WaitGate,
                     GiveUp, SendVerdict, Finish, Count, ExitWorker, WorkerLocal, world
<1> QED
  BY <1>7, <1>8, <1>9, <1>10 DEF Next

-----------------------------------------------------------------------------
(* What a step does to one gate.                                             *)

Stays(g) == gate'[g] = gate[g] /\ (quarantined => quarantined')
Rearmed(g) ==
  /\ gate'[g] = FreshGate(NoHello, sock[g].id)
  /\ ~quarantined /\ ~quarantined'
  /\ UNCHANGED <<ctmark, sess>>
Armed(g) ==
  /\ gate'[g] = FreshGate(<<Head(inq[g]).conn, Head(inq[g]).n>>, sock[g].id)
  /\ ~quarantined /\ ~quarantined'
  /\ Taken(g)
  /\ Head(inq[g]).kind = "hello"
  /\ sock[g].st = "established"
  /\ UNCHANGED <<sock, opened, ctmark>>
Grown(g) ==
  /\ gate'[g] = [gate[g] EXCEPT !.held = Append(gate[g].held, Head(inq[g]).conn)]
  /\ Undecided(g)
  /\ ~quarantined /\ ~quarantined'
  /\ Taken(g)
  /\ Head(inq[g]).kind = "data"
  /\ UNCHANGED <<sock, opened, ctmark, sess>>
Learned(g) ==
  /\ \E k \in ServerKeys : gate'[g] = [gate[g] EXCEPT !.sh = k, !.state = "serverhello"]
  /\ gate[g].ch # NoHello /\ gate[g].sh = NoKey
  /\ ~quarantined /\ ~quarantined'
  /\ UNCHANGED <<sock, opened, inq, ctmark>>
Denied(g) ==
  /\ gate'[g] = [gate[g] EXCEPT !.state = "denied", !.held = <<>>]
  /\ quarantined'
  /\ UNCHANGED <<sock, opened, inq, ctmark>>
Admitted(g) ==
  /\ gate'[g] = [gate[g] EXCEPT !.state = "admitted", !.held = <<>>]
  /\ decisions # <<>> /\ sess[Head(decisions)].flow = g
  /\ Matches(Head(decisions)) /\ Admissible(Head(decisions))
  /\ Decided(Head(decisions), TRUE)
  /\ ~quarantined /\ ~quarantined'
  /\ UNCHANGED <<sock, opened, inq>>
Forgotten(g) ==
  /\ gate'[g] = NoGate
  /\ gate[g].state \in {"admitted", "denied"}
  /\ UNCHANGED <<sock, opened, inq, ctmark, quarantined, sess>>
Dropped(g) ==
  /\ gate'[g] = [gate[g] EXCEPT !.held = <<>>]
  /\ UNCHANGED <<sock, opened, inq, ctmark, quarantined, sess>>

GateMove(g) ==
  \/ Stays(g) \/ Rearmed(g) \/ Armed(g) \/ Grown(g) \/ Learned(g)
  \/ Denied(g) \/ Admitted(g) \/ Forgotten(g) \/ Dropped(g)

LEMMA CallbackGate ==
  ASSUME TypeOK, NEW f \in Flows, Callback(f), NEW g \in Flows
  PROVE  \/ Stays(g)
         \/ g = f /\ (Rearmed(g) \/ Armed(g) \/ Grown(g))
<1>0. quarantined \in BOOLEAN /\ gate \in [Flows -> Gate] /\ (quarantined => quarantined')
  BY DEF TypeOK, Callback, DropQuarantined, HandleSyn, HandleHello, HandleData, HandleBare, Authorize,
         Quarantine
<1>1. CASE DropQuarantined(f) \/ HandleBare(f)
  BY <1>0, <1>1 DEF DropQuarantined, HandleBare, Authorize, Stays
<1>2. CASE HandleSyn(f)
  <2>1. \/ gate' = gate
        \/ /\ gate' = [gate EXCEPT ![f] = FreshGate(NoHello, sock[f].id)]
           /\ ~quarantined /\ UNCHANGED quarantined
    BY <1>2 DEF HandleSyn
  <2>2. UNCHANGED <<ctmark, sess>>
    BY <1>2 DEF HandleSyn, control
  <2> QED
    BY <1>0, <2>1, <2>2 DEF Stays, Rearmed
<1>3. CASE HandleHello(f)
  <2>1. /\ ~quarantined
        /\ Head(inq[f]).kind = "hello"
        /\ inq[f] # <<>> /\ inq' = [inq EXCEPT ![f] = Tail(inq[f])]
        /\ UNCHANGED <<sock, opened, ctmark>>
    BY <1>3 DEF HandleHello, Receive
  <2>2. Taken(f)
    BY <2>1 DEF Taken, TypeOK
  <2>3. \/ gate' = gate
        \/ /\ gate' = [gate EXCEPT ![f] = FreshGate(<<Head(inq[f]).conn, Head(inq[f]).n>>, sock[f].id)]
           /\ sock[f].st = "established" /\ UNCHANGED quarantined
    BY <1>3 DEF HandleHello
  <2> QED
    BY <1>0, <2>1, <2>2, <2>3 DEF Stays, Armed
<1>4. CASE HandleData(f)
  <2>1. /\ ~quarantined
        /\ Head(inq[f]).kind = "data"
        /\ inq[f] # <<>> /\ inq' = [inq EXCEPT ![f] = Tail(inq[f])]
        /\ UNCHANGED <<sock, opened, sess>>
    BY <1>4 DEF HandleData, Receive, control
  <2>2. Taken(f)
    BY <2>1 DEF Taken, TypeOK
  <2>3. \/ gate' = gate
        \/ /\ gate' = [gate EXCEPT ![f].held = Append(gate[f].held, Head(inq[f]).conn)]
           /\ Undecided(f) /\ UNCHANGED <<quarantined, ctmark>>
    BY <1>4 DEF HandleData
  <2> QED
    BY <1>0, <2>1, <2>2, <2>3 DEF Stays, Grown
<1> QED
  BY <1>1, <1>2, <1>3, <1>4 DEF Callback

LEMMA ApplyGate ==
  ASSUME TypeOK, ApplyDecision, NEW g \in Flows
  PROVE  Stays(g) \/ Denied(g) \/ Admitted(g)
<1> DEFINE s == Head(decisions)
           f == sess[s].flow
<1>1. UNCHANGED <<sock, opened, inq>> /\ decisions # <<>>
  BY DEF ApplyDecision
<1>2. gate \in [Flows -> Gate] /\ quarantined \in BOOLEAN
  BY DEF TypeOK
<1>3. \/ Matches(s) /\ Admissible(s) /\ Admit(s, f)
      \/ Refuse(s, f)
  BY DEF ApplyDecision
<1>4. CASE Matches(s) /\ Admissible(s) /\ Admit(s, f)
  <2>1. /\ gate' = [gate EXCEPT ![f].state = "admitted", ![f].held = <<>>]
        /\ Decided(s, TRUE) /\ UNCHANGED quarantined /\ ~quarantined
    BY <1>4 DEF Admit, Admissible
  <2>2. gate'[g] = IF g = f THEN [gate[g] EXCEPT !.state = "admitted", !.held = <<>>] ELSE gate[g]
    BY <1>2, <2>1
  <2> QED
    BY <1>1, <1>2, <1>4, <2>1, <2>2 DEF Stays, Admitted
<1>5. CASE Refuse(s, f)
  <2>1. /\ \/ gate' = gate
           \/ gate' = [gate EXCEPT ![f].state = "denied", ![f].held = <<>>]
        /\ quarantined' /\ UNCHANGED ctmark
    BY <1>5 DEF Refuse, Quarantine
  <2>2. gate'[g] = gate[g] \/ gate'[g] = [gate[g] EXCEPT !.state = "denied", !.held = <<>>]
    BY <1>2, <2>1
  <2> QED
    BY <1>1, <2>1, <2>2 DEF Stays, Denied
<1> QED
  BY <1>3, <1>4, <1>5

LEMMA GateMoves ==
  ASSUME TypeOK, Next, NEW g \in Flows
  PROVE  GateMove(g)
<1>0. gate \in [Flows -> Gate] /\ quarantined \in BOOLEAN
  BY DEF TypeOK
<1>1. CASE \E f \in Flows : Kernel(f)
  BY <1>1 DEF Kernel, Connect, RetransmitSyn, Establish, SendHello, SendData, SendBare, Close,
              Overrun, Stays, GateMove
<1>2. CASE \E w \in Workers : ControlWorker(w)
  BY <1>2 DEF ControlWorker, TakeJob, Exchange, AwaitHello, QueueDecision, WaitGate, GiveUp,
              SendVerdict, Finish, Count, ExitWorker, WorkerLocal, Stays, GateMove
<1>3. CASE \E f \in Flows : Callback(f)
  BY <1>3, CallbackGate DEF GateMove
<1>4. CASE ApplyDecision
  BY <1>4, ApplyGate DEF GateMove
<1>5. ASSUME NEW f \in Flows, NEW k \in ServerKeys, HandleServerHello(f, k)
      PROVE  GateMove(g)
  <2>1. gate'[g] = IF g = f THEN [gate[g] EXCEPT !.sh = k, !.state = "serverhello"] ELSE gate[g]
    BY <1>0, <1>5 DEF HandleServerHello
  <2> QED
    BY <1>0, <1>5, <2>1 DEF HandleServerHello, world, GateMove, Stays, Learned
<1>6. ASSUME NEW f \in Flows, ExpireGate(f)
      PROVE  GateMove(g)
  <2>1. gate'[g] = IF g = f THEN [gate[g] EXCEPT !.state = "denied", !.held = <<>>] ELSE gate[g]
    BY <1>0, <1>6 DEF ExpireGate
  <2> QED
    BY <1>0, <1>6, <2>1 DEF ExpireGate, Quarantine, world, GateMove, Stays, Denied
<1>7. ASSUME NEW f \in Flows, ForgetGate(f)
      PROVE  GateMove(g)
  BY <1>0, <1>7 DEF ForgetGate, world, control, GateMove, Stays, Forgotten
<1>8. CASE Stop \/ Joined
  BY <1>8 DEF Stop, Joined, GateMove, Stays
<1>9. CASE Exit
  BY <1>9 DEF Exit, world, control, GateMove, Dropped
<1> QED
  BY <1>1, <1>2, <1>3, <1>4, <1>5, <1>6, <1>7, <1>8, <1>9 DEF Next, GateThread

LEMMA NoHelloFact == NoHello \notin HelloKeys
<1> QED
  BY DEF NoHello, HelloKeys, Conns

\* What a step may do to a flow's socket and queue while its gate keeps its hello.
FlowMove(g) ==
  \/ Opened(g)
  \/ Sent(g) /\ opened' = opened
  \/ Quiet(g) /\ Moved(g) /\ opened' \in {opened, opened + 1}
  \/ Taken(g) /\ sock'[g] = sock[g] /\ opened' = opened

LEMMA FlowMoves ==
  ASSUME TypeOK, Next, NEW g \in Flows
  PROVE  FlowMove(g) \/ gate'[g].ch = NoHello
<1>1. CASE \E f \in Flows : Kernel(f)
  BY <1>1, KernelFlow DEF FlowMove
<1>2. CASE \E f \in Flows : Callback(f)
  BY <1>2, CallbackFlow DEF FlowMove, Moved
<1>3. CASE UNCHANGED <<sock, opened, inq>>
  BY <1>3 DEF FlowMove, Quiet, Moved
<1>4. CASE GateThread /\ ~(\E f \in Flows : Callback(f))
  BY <1>3, <1>4 DEF GateThread, HandleServerHello, ExpireGate, ForgetGate, ApplyDecision, Stop,
                    Joined, Exit, world
<1>5. CASE \E w \in Workers : ControlWorker(w)
  BY <1>3, <1>5 DEF ControlWorker, TakeJob, Exchange, AwaitHello, QueueDecision, WaitGate,
                    GiveUp, SendVerdict, Finish, Count, ExitWorker, WorkerLocal, world
<1> QED
  BY <1>1, <1>2, <1>4, <1>5 DEF Next

LEMMA GateIsCurrentStep ==
  ASSUME TypeOK, TypeOK', QueueInOrder, GateIsCurrent, Next
  PROVE  GateIsCurrent'
<1> SUFFICES ASSUME NEW g \in Flows, gate'[g].ch # NoHello
             PROVE  Current(g)'
  BY DEF GateIsCurrent
<1>0. /\ FlowInOrder(g)
      /\ opened \in Nat
      /\ sock[g].id \in Nat
      /\ inq[g] \in Seq(Packet)
      /\ \A i \in DOMAIN inq[g] : inq[g][i].conn \in Nat /\ inq[g][i] \in Packet
      /\ gate[g] \in Gate
      /\ gate[g].cookie \in Nat
  <2>1. inq[g] \in Seq(Packet) /\ gate[g] \in Gate
    BY DEF TypeOK
  <2>2. \A i \in DOMAIN inq[g] : inq[g][i] \in Packet
    BY <2>1, LenProperties, ElementOfSeq
  <2>3. \A i \in DOMAIN inq[g] : inq[g][i].conn \in Nat
    BY <2>2, ConstantsAssumption DEF Packet, Conns
  <2>4. opened \in 0 .. MaxConn /\ sock[g].id \in 0 .. MaxConn
    BY SockType DEF TypeOK
  <2>5. gate[g].cookie \in 0 .. MaxConn
    BY <2>1 DEF Gate
  <2> QED
    BY <2>1, <2>2, <2>3, <2>4, <2>5, ConstantsAssumption DEF QueueInOrder
<1>1. FlowMove(g)
  BY FlowMoves
<1>2. ASSUME gate'[g].ch = gate[g].ch, gate'[g].cookie = gate[g].cookie,
             \A i \in DOMAIN gate'[g].held : gate'[g].held[i] = gate[g].cookie,
             gate'[g].state = gate[g].state \/ gate'[g].state \in {"admitted", "denied", "serverhello"}
      PROVE  Current(g)'
  <2>1. Current(g)
    BY <1>2 DEF GateIsCurrent
  <2> DEFINE c == gate[g].cookie
  <2>2. /\ opened' \in {opened, opened + 1}
        /\ c <= opened'
        /\ sock'[g].st # "closed" => c <= sock'[g].id
        /\ sock'[g].st \in {"synout", "established", "closing"} => c = sock'[g].id
    BY <1>0, <1>1, <2>1 DEF Current, FlowMove, Opened, Sent, Quiet, Moved, Taken, NoSocket
  <2>3. \A i \in DOMAIN inq'[g] :
          /\ c <= inq'[g][i].conn
          /\ inq'[g][i].kind # "syn" => inq'[g][i].conn <= c
    <3>1. CASE Opened(g)
      <4> DEFINE p == [kind |-> "syn", conn |-> opened + 1, n |-> 0]
      <4>1. p \in Packet /\ p.conn = opened + 1 /\ p.kind = "syn"
        BY <3>1 DEF Opened, Packet
      <4>2. inq'[g] = Append(inq[g], p)
        BY <3>1 DEF Opened
      <4> HIDE DEF p
      <4> QED
        BY <1>0, <2>1, <4>1, <4>2, AppendFacts DEF Current
    <3>2. CASE Sent(g)
      BY <1>0, <2>1, <3>2, AppendFacts DEF Current, Sent
    <3>3. CASE Quiet(g)
      BY <2>1, <3>3 DEF Current, Quiet
    <3>4. CASE Taken(g)
      BY <1>0, <2>1, <3>4, TailFacts DEF Current, Taken
    <3> QED
      BY <1>1, <3>1, <3>2, <3>3, <3>4 DEF FlowMove
  <2>4. Live(g)'
    BY <1>2, <2>1 DEF Current, Live
  <2> QED
    BY <1>2, <2>1, <2>2, <2>3, <2>4 DEF Current
<1>3. CASE Armed(g)
  <2>1. /\ gate'[g].ch = <<Head(inq[g]).conn, Head(inq[g]).n>>
        /\ gate'[g].cookie = sock[g].id
        /\ gate'[g].held = <<>>
        /\ gate'[g].state = "handshake"
        /\ inq[g] # <<>> /\ inq'[g] = Tail(inq[g])
        /\ sock[g].st = "established"
        /\ UNCHANGED <<sock, opened>>
    BY <1>3 DEF Armed, FreshGate, Taken
  <2>2. Head(inq[g]).conn = sock[g].id
    BY <1>0, <2>1, TailFacts DEF FlowInOrder
  <2>3. \A i \in DOMAIN inq'[g] : inq'[g][i].conn = sock[g].id
    BY <1>0, <2>1, TailFacts DEF FlowInOrder
  <2> QED
    BY <1>0, <2>1, <2>2, <2>3 DEF Current, FlowInOrder, Live
<1>4. CASE Grown(g)
  <2>1. /\ gate'[g] = [gate[g] EXCEPT !.held = Append(gate[g].held, Head(inq[g]).conn)]
        /\ inq[g] # <<>> /\ Head(inq[g]).kind = "data"
    BY <1>4 DEF Grown, Taken
  <2>2. gate'[g].ch = gate[g].ch /\ gate'[g].cookie = gate[g].cookie
        /\ gate'[g].held = Append(gate[g].held, Head(inq[g]).conn)
        /\ gate'[g].state = gate[g].state
    BY <1>0, <2>1 DEF Gate
  <2>3. Current(g)
    BY <2>2 DEF GateIsCurrent
  <2>4. Head(inq[g]).conn = gate[g].cookie /\ Head(inq[g]).conn \in Conns
    <3>1. Head(inq[g]) = inq[g][1] /\ 1 \in DOMAIN inq[g]
      BY <1>0, <2>1, TailFacts
    <3>2. inq[g][1].conn \in Conns
      BY <1>0, <3>1 DEF Packet
    <3> QED
      BY <1>0, <2>1, <2>3, <3>1, <3>2 DEF Current
  <2>5. gate[g].held \in Seq(Conns)
    BY <1>0 DEF Gate
  <2>6. \A i \in DOMAIN gate'[g].held : gate'[g].held[i] = gate[g].cookie
    BY <2>2, <2>3, <2>4, <2>5, AppendFacts DEF Current
  <2> QED
    BY <1>2, <2>2, <2>6
<1>5. CASE Stays(g)
  <2>1. gate'[g] = gate[g]
    BY <1>5 DEF Stays
  <2>2. Current(g)
    BY <2>1 DEF GateIsCurrent
  <2> QED
    BY <1>2, <2>1, <2>2 DEF Current
<1>6. CASE Learned(g)
  <2>1. gate'[g].ch = gate[g].ch /\ gate'[g].cookie = gate[g].cookie /\ gate'[g].held = gate[g].held
        /\ gate'[g].state = "serverhello"
    BY <1>0, <1>6 DEF Learned, Gate
  <2>2. Current(g)
    BY <2>1 DEF GateIsCurrent
  <2> QED
    BY <1>2, <2>1, <2>2 DEF Current
<1>7. CASE Denied(g) \/ Admitted(g) \/ Dropped(g)
  <2>1. /\ gate'[g].ch = gate[g].ch /\ gate'[g].cookie = gate[g].cookie /\ gate'[g].held = <<>>
        /\ gate'[g].state = gate[g].state \/ gate'[g].state \in {"admitted", "denied"}
    BY <1>0, <1>7 DEF Denied, Admitted, Dropped, Gate
  <2>2. \A i \in DOMAIN gate'[g].held : gate'[g].held[i] = gate[g].cookie
    BY <2>1
  <2>3. gate'[g].state = gate[g].state \/ gate'[g].state \in {"admitted", "denied", "serverhello"}
    BY <2>1
  <2> QED
    BY <1>2, <2>1, <2>2, <2>3
<1>8. CASE Rearmed(g) \/ Forgotten(g)
  BY <1>8 DEF Rearmed, Forgotten, FreshGate, NoGate
<1> QED
  BY <1>3, <1>4, <1>5, <1>6, <1>7, <1>8, GateMoves DEF GateMove

LEMMA HeldIsUndecidedStep ==
  ASSUME TypeOK, HeldIsUndecided, Next
  PROVE  HeldIsUndecided'
<1> SUFFICES ASSUME NEW g \in Flows
             PROVE  (gate[g].held # <<>> => Undecided(g))'
  BY DEF HeldIsUndecided
<1>1. gate[g] \in Gate /\ (gate[g].held # <<>> => Undecided(g))
  BY DEF TypeOK, HeldIsUndecided
<1>2. CASE Stays(g)
  BY <1>1, <1>2 DEF Stays, Undecided
<1>3. CASE Rearmed(g)
  BY <1>1, <1>3 DEF Rearmed, FreshGate, Undecided
<1>4. CASE Armed(g)
  BY <1>1, <1>4 DEF Armed, FreshGate, Undecided
<1>5. CASE Grown(g)
  BY <1>1, <1>5 DEF Grown, Gate, Undecided
<1>6. CASE Learned(g)
  BY <1>1, <1>6 DEF Learned, Gate, Undecided
<1>7. CASE Denied(g)
  BY <1>1, <1>7 DEF Denied, Gate
<1>8. CASE Admitted(g)
  BY <1>1, <1>8 DEF Admitted, Gate
<1>9. CASE Forgotten(g)
  BY <1>1, <1>9 DEF Forgotten, NoGate
<1>10. CASE Dropped(g)
  BY <1>1, <1>10 DEF Dropped, Gate
<1> QED
  BY <1>2, <1>3, <1>4, <1>5, <1>6, <1>7, <1>8, <1>9, <1>10, GateMoves DEF GateMove

LEMMA DeniedIsQuarantinedStep ==
  ASSUME TypeOK, DeniedIsQuarantined, Next
  PROVE  DeniedIsQuarantined'
<1> SUFFICES ASSUME NEW g \in Flows
             PROVE  (gate[g].state = "denied" => quarantined)'
  BY DEF DeniedIsQuarantined
<1>1. gate[g] \in Gate /\ (gate[g].state = "denied" => quarantined)
  BY DEF TypeOK, DeniedIsQuarantined
<1>2. CASE Stays(g)
  BY <1>1, <1>2 DEF Stays, Undecided
<1>3. CASE Rearmed(g)
  BY <1>1, <1>3 DEF Rearmed, FreshGate, Undecided
<1>4. CASE Armed(g)
  BY <1>1, <1>4 DEF Armed, FreshGate, Undecided
<1>5. CASE Grown(g)
  BY <1>1, <1>5 DEF Grown, Gate, Undecided
<1>6. CASE Learned(g)
  BY <1>1, <1>6 DEF Learned, Gate, Undecided
<1>7. CASE Denied(g)
  BY <1>1, <1>7 DEF Denied, Gate
<1>8. CASE Admitted(g)
  BY <1>1, <1>8 DEF Admitted, Gate
<1>9. CASE Forgotten(g)
  BY <1>1, <1>9 DEF Forgotten, NoGate
<1>10. CASE Dropped(g)
  BY <1>1, <1>10 DEF Dropped, Gate
<1> QED
  BY <1>2, <1>3, <1>4, <1>5, <1>6, <1>7, <1>8, <1>9, <1>10, GateMoves DEF GateMove

-----------------------------------------------------------------------------
(* What a worker's step does to the session it works on.                     *)

LEMMA QueueTypes ==
  ASSUME TypeOK
  PROVE  /\ \A i \in DOMAIN jobs : jobs[i] \in DOMAIN sess
         /\ \A i \in DOMAIN decisions : decisions[i] \in DOMAIN sess
         /\ \A w \in Workers : Busy(w) => worker[w].s \in DOMAIN sess
         /\ jobs \in Seq(DOMAIN sess) /\ decisions \in Seq(DOMAIN sess)
         /\ \A s \in DOMAIN sess : sess[s] \in Session
<1> DEFINE dom == DOMAIN sess
<1>1. jobs \in Seq(dom) /\ decisions \in Seq(dom)
  BY DEF TypeOK
<1>2. \A i \in DOMAIN jobs : jobs[i] \in dom
  BY <1>1, LenProperties, ElementOfSeq
<1>3. \A i \in DOMAIN decisions : decisions[i] \in dom
  BY <1>1, LenProperties, ElementOfSeq
<1>4. \A s \in dom : sess[s] \in Session
  BY SessType
<1> QED
  BY <1>1, <1>2, <1>3, <1>4 DEF TypeOK, Busy

\* The fields of session t that worker w's step may write, and what it writes.
SessMove(w, t) ==
  LET old == sess[t]
      new == sess'[t]
  IN  /\ new.flow = old.flow /\ new.ch = old.ch /\ new.sh = old.sh
      /\ new.applied = old.applied
      /\ \/ new.att = old.att /\ new.mutual = old.mutual
         \/ At(w, "exchange") /\ new.mutual = Mutual
      /\ \/ new.verify = old.verify
         \/ /\ At(w, "awaithello")
            /\ old.sh # NoKey
            /\ new.verify = (old.att = old.sh)
      /\ \/ new.allowed = old.allowed
         \/ At(w, "giveup") /\ ~new.allowed
      /\ \/ new.verdict = old.verdict
         \/ At(w, "verdict") /\ new.verdict = IF old.allowed THEN "yes" ELSE "no"
      /\ \/ new.fin = old.fin
         \/ At(w, "count")

LEMMA WorkerSess ==
  ASSUME TypeOK, NEW w \in Workers, ControlWorker(w)
  PROVE  /\ DOMAIN sess' = DOMAIN sess
         /\ \A t \in DOMAIN sess :
              /\ SessMove(w, t)
              /\ t # worker[w].s \/ ~Busy(w) => sess'[t] = sess[t]
<1> DEFINE s == worker[w].s
<1>1. CASE UNCHANGED sess
  BY <1>1 DEF SessMove
<1>2. ASSUME NEW e, sess' = [sess EXCEPT ![s] = e],
             Busy(w), s \in DOMAIN sess,
             sess'[s] = e => SessMove(w, s)
      PROVE  /\ DOMAIN sess' = DOMAIN sess
             /\ \A t \in DOMAIN sess :
                  /\ SessMove(w, t)
                  /\ t # worker[w].s \/ ~Busy(w) => sess'[t] = sess[t]
  <2>1. DOMAIN sess' = DOMAIN sess /\ sess'[s] = e
        /\ \A t \in DOMAIN sess : t # s => sess'[t] = sess[t]
    BY <1>2
  <2>2. \A t \in DOMAIN sess : t # s => SessMove(w, t)
    BY <2>1 DEF SessMove
  <2> QED
    BY <1>2, <2>1, <2>2
<1>3. CASE Exchange(w) /\ ~UNCHANGED sess
  <2>1. Busy(w) /\ s \in DOMAIN sess /\ sess[s] \in Session /\ At(w, "exchange")
    BY <1>3, QueueTypes DEF Exchange, At, Busy
  <2>2. \E e : sess' = [sess EXCEPT ![s] = e] /\ (sess'[s] = e => SessMove(w, s))
    <3>1. PICK k \in ServerKeys \cup {NoKey} :
            sess' = [sess EXCEPT ![s] = [sess[s] EXCEPT !.att = k, !.mutual = Mutual]]
      BY <1>3, <2>1 DEF Exchange
    <3>2. sess'[s] = [sess[s] EXCEPT !.att = k, !.mutual = Mutual] => SessMove(w, s)
      BY <2>1 DEF SessMove, Session
    <3> QED
      BY <3>1, <3>2
  <2> QED
    BY <1>2, <2>1, <2>2
<1>4. CASE AwaitHello(w) /\ ~UNCHANGED sess
  <2>1. Busy(w) /\ s \in DOMAIN sess /\ sess[s] \in Session /\ At(w, "awaithello")
    BY <1>4, QueueTypes DEF AwaitHello, At, Busy
  <2>2. \E e : sess' = [sess EXCEPT ![s] = e] /\ (sess'[s] = e => SessMove(w, s))
    <3>1. /\ sess' = [sess EXCEPT ![s] = [sess[s] EXCEPT !.verify = (sess[s].att = sess[s].sh)]]
          /\ sess[s].sh # NoKey
      BY <1>4, <2>1 DEF AwaitHello
    <3>2. sess'[s] = [sess[s] EXCEPT !.verify = (sess[s].att = sess[s].sh)] => SessMove(w, s)
      BY <2>1, <3>1 DEF SessMove, Session
    <3> QED
      BY <3>1, <3>2
  <2> QED
    BY <1>2, <2>1, <2>2
<1>5. CASE GiveUp(w) /\ ~UNCHANGED sess
  <2>1. Busy(w) /\ s \in DOMAIN sess /\ sess[s] \in Session /\ At(w, "giveup")
    BY <1>5, QueueTypes DEF GiveUp, At, Busy
  <2>2. \E e : sess' = [sess EXCEPT ![s] = e] /\ (sess'[s] = e => SessMove(w, s))
    <3>1. sess' = [sess EXCEPT ![s] = [sess[s] EXCEPT !.allowed = FALSE]]
      BY <1>5, <2>1 DEF GiveUp
    <3>2. sess'[s] = [sess[s] EXCEPT !.allowed = FALSE] => SessMove(w, s)
      BY <2>1 DEF SessMove, Session
    <3> QED
      BY <3>1, <3>2
  <2> QED
    BY <1>2, <2>1, <2>2
<1>6. CASE SendVerdict(w) /\ ~UNCHANGED sess
  <2>1. Busy(w) /\ s \in DOMAIN sess /\ sess[s] \in Session /\ At(w, "verdict")
    BY <1>6, QueueTypes DEF SendVerdict, At, Busy
  <2>2. \E e : sess' = [sess EXCEPT ![s] = e] /\ (sess'[s] = e => SessMove(w, s))
    <3> DEFINE v == IF sess[s].allowed THEN "yes" ELSE "no"
    <3>1. sess' = [sess EXCEPT ![s] = [sess[s] EXCEPT !.verdict = v]]
      BY <1>6, <2>1 DEF SendVerdict
    <3>2. sess'[s] = [sess[s] EXCEPT !.verdict = v] => SessMove(w, s)
      BY <2>1 DEF SessMove, Session
    <3> QED
      BY <3>1, <3>2
  <2> QED
    BY <1>2, <2>1, <2>2
<1>7. CASE Finish(w) /\ ~UNCHANGED sess
  <2>1. Busy(w) /\ s \in DOMAIN sess /\ sess[s] \in Session /\ At(w, "finish")
    BY <1>7, QueueTypes DEF Finish, At, Busy
  <2>2. \E e : sess' = [sess EXCEPT ![s] = e] /\ (sess'[s] = e => SessMove(w, s))
    <3> DEFINE v == sess[s].allowed /\ sess[s].verdict # "unsent"
    <3>1. sess' = [sess EXCEPT ![s] = [sess[s] EXCEPT !.success = v]]
      BY <1>7, <2>1 DEF Finish
    <3>2. sess'[s] = [sess[s] EXCEPT !.success = v] => SessMove(w, s)
      BY <2>1 DEF SessMove, Session
    <3> QED
      BY <3>1, <3>2
  <2> QED
    BY <1>2, <2>1, <2>2
<1>8. CASE Count(w) /\ ~UNCHANGED sess
  <2>1. Busy(w) /\ s \in DOMAIN sess /\ sess[s] \in Session /\ At(w, "count")
    BY <1>8, QueueTypes DEF Count, At, Busy
  <2>2. \E e : sess' = [sess EXCEPT ![s] = e] /\ (sess'[s] = e => SessMove(w, s))
    <3> DEFINE v == sess[s].allowed
    <3>1. sess' = [sess EXCEPT ![s] = [sess[s] EXCEPT !.fin = TRUE, !.counted = v]]
      BY <1>8, <2>1 DEF Count
    <3>2. sess'[s] = [sess[s] EXCEPT !.fin = TRUE, !.counted = v] => SessMove(w, s)
      BY <2>1 DEF SessMove, Session
    <3> QED
      BY <3>1, <3>2
  <2> QED
    BY <1>2, <2>1, <2>2
<1> QED
  BY <1>1, <1>3, <1>4, <1>5, <1>6, <1>7, <1>8
     DEF ControlWorker, TakeJob, QueueDecision, WaitGate, ExitWorker

\* Where a step takes a worker that does not take a job.
Successor(from, to) ==
  \/ from = "exchange" /\ to \in {"awaithello", "queue"}
  \/ from = "awaithello" /\ to = "queue"
  \/ from = "queue" /\ to \in {"waitgate", "giveup"}
  \/ from = "denyconnect" /\ to = "waitdeny"
  \/ from = "waitgate" /\ to \in {"verdict", "giveup"}
  \/ from = "waitdeny" /\ to = "finish"
  \/ from = "giveup" /\ to = "verdict"
  \/ from = "verdict" /\ to = "finish"
  \/ from = "finish" /\ to = "count"
  \/ from = "count" /\ to = "idle"
  \/ from = "idle" /\ to = "exited"

WorkerMove(w) ==
  /\ Successor(worker[w].pc, worker'[w].pc)
  /\ Busy(w)' => worker'[w].s = worker[w].s
  /\ \A v \in Workers \ {w} : worker'[v] = worker[v]
  /\ jobs' = jobs
  /\ \/ decisions' = decisions
     \/ /\ worker[w].pc \in {"queue", "denyconnect"}
        /\ decisions' = Append(decisions, worker[w].s)
  /\ worker[w].pc = "exchange" /\ worker'[w].pc = "awaithello" =>
       sess'[worker[w].s].mutual = Mutual

LEMMA WorkerMoves ==
  ASSUME TypeOK, NEW w \in Workers, ControlWorker(w), ~TakeJob(w)
  PROVE  WorkerMove(w)
<1>0. worker[w] \in WorkerState
  BY DEF TypeOK
<1>1. CASE Exchange(w)
  <2>1. CASE worker' = [worker EXCEPT ![w].pc = "awaithello", ![w].full = TRUE]
    <3>1. /\ worker'[w].pc = "awaithello" /\ worker'[w].s = worker[w].s
          /\ \A v \in Workers \ {w} : worker'[v] = worker[v]
      BY <1>0, <2>1 DEF TypeOK, WorkerState
    <3>2. worker[w].pc = "exchange" /\ jobs' = jobs /\ decisions' = decisions
      BY <1>1 DEF Exchange, At
    <3>3. worker[w].s \in DOMAIN sess
      BY <3>2, QueueTypes DEF Busy
    <3>4. sess'[worker[w].s].mutual = Mutual
      <4>1. PICK k \in ServerKeys \cup {NoKey} :
              sess' = [sess EXCEPT ![worker[w].s] = [sess[worker[w].s] EXCEPT !.att = k, !.mutual = Mutual]]
        <5>1. ~Goto(w, "queue")
          BY <3>1, GotoType
        <5> QED
          BY <1>1, <5>1, ZenonT(30) DEF Exchange
      <4>2. sess[worker[w].s] \in Session
        BY <3>3, QueueTypes
      <4> QED
        BY <3>3, <4>1, <4>2 DEF Session
    <3> QED
      BY <3>1, <3>2, <3>4 DEF WorkerMove, Successor
  <2>2. CASE Goto(w, "queue")
    BY <1>1, <2>2, GotoType DEF Exchange, At, WorkerMove, Successor
  <2> QED
    BY <1>1, <2>1, <2>2 DEF Exchange
<1>2. CASE AwaitHello(w)
  BY <1>2, GotoType DEF AwaitHello, At, WorkerMove, Successor
<1>3. CASE QueueDecision(w)
  BY <1>3, GotoType DEF QueueDecision, At, WorkerMove, Successor
<1>4. CASE WaitGate(w)
  BY <1>4, GotoType DEF WaitGate, At, WorkerMove, Successor
<1>5. CASE GiveUp(w)
  BY <1>5, GotoType DEF GiveUp, At, WorkerMove, Successor
<1>6. CASE SendVerdict(w)
  <2>1. /\ worker'[w].pc = "finish" /\ worker'[w].s = worker[w].s
        /\ \A v \in Workers \ {w} : worker'[v] = worker[v]
    <3>1. CASE Goto(w, "finish")
      BY <3>1, GotoType
    <3>2. CASE \E up \in BOOLEAN : worker' = [worker EXCEPT ![w].pc = "finish", ![w].fd = up]
      BY <1>0, <3>2 DEF TypeOK, WorkerState
    <3> QED
      BY <1>6, <3>1, <3>2 DEF SendVerdict
  <2> QED
    BY <1>6, <2>1 DEF SendVerdict, At, WorkerMove, Successor
<1>7. CASE Finish(w)
  BY <1>7, GotoType DEF Finish, At, WorkerMove, Successor
<1>8. CASE Count(w)
  <2>1. worker'[w].pc = "idle" /\ \A v \in Workers \ {w} : worker'[v] = worker[v]
    BY <1>8 DEF Count, TypeOK, IdleWorker
  <2> QED
    BY <1>8, <2>1 DEF Count, At, WorkerMove, Successor, Busy
<1>9. CASE ExitWorker(w)
  BY <1>9, GotoType DEF ExitWorker, At, WorkerMove, Successor
<1> QED
  BY <1>1, <1>2, <1>3, <1>4, <1>5, <1>6, <1>7, <1>8, <1>9 DEF ControlWorker

-----------------------------------------------------------------------------
(* Sessions and their owners.                                                *)

OwnInv == SessionIsOwned /\ VerifyIsProof /\ WorkIsFresh /\ AllowedIsVerified

LEMMA OwnInvWorker ==
  ASSUME TypeOK, OwnInv, NEW w \in Workers, ControlWorker(w), ~TakeJob(w)
  PROVE  OwnInv'
<1> DEFINE s == worker[w].s
<1>1. /\ WorkerMove(w)
      /\ DOMAIN sess' = DOMAIN sess
      /\ \A t \in DOMAIN sess : SessMove(w, t) /\ (t # s => sess'[t] = sess[t])
  BY WorkerMoves, WorkerSess
<1>2. /\ \A i \in DOMAIN jobs : jobs[i] \in DOMAIN sess
      /\ \A i \in DOMAIN decisions : decisions[i] \in DOMAIN sess
      /\ \A v \in Workers : Busy(v) => worker[v].s \in DOMAIN sess
      /\ decisions \in Seq(DOMAIN sess)
  BY QueueTypes
<1>3. /\ Busy(w)' => Busy(w) /\ worker'[w].s = s
      /\ \A v \in Workers \ {w} : (Busy(v)' <=> Busy(v)) /\ worker'[v] = worker[v]
      /\ Busy(w)' => worker[w].pc # "count"
      /\ jobs' = jobs
  BY <1>1 DEF WorkerMove, Successor, Busy
<1>4. \A v \in Workers \ {w} : Busy(v) /\ Busy(w) => worker[v].s # s
  BY DEF OwnInv, SessionIsOwned
<1>5. Busy(w) => \A i \in DOMAIN jobs : jobs[i] # s
  BY DEF OwnInv, SessionIsOwned
<1>6. ~Busy(w) => \A t \in DOMAIN sess : sess'[t] = sess[t]
  BY WorkerSess
<1>7. \/ decisions' = decisions
      \/ /\ worker[w].pc \in {"queue", "denyconnect"} /\ Busy(w)
         /\ decisions' = Append(decisions, s)
         /\ s \in DOMAIN sess /\ ~sess[s].applied
         /\ \A i \in DOMAIN decisions : decisions[i] # s
  BY <1>1, <1>2 DEF WorkerMove, OwnInv, WorkIsFresh, FreshWorker, Busy
<1>8. /\ \A i \in DOMAIN decisions' :
           \/ i \in DOMAIN decisions /\ decisions'[i] = decisions[i]
           \/ /\ i \notin DOMAIN decisions /\ i = Len(decisions) + 1
              /\ decisions'[i] = s /\ Busy(w) /\ s \in DOMAIN sess /\ ~sess[s].applied
              /\ \A j \in DOMAIN decisions : decisions[j] # s
              /\ worker[w].pc \in {"queue", "denyconnect"}
  BY <1>2, <1>7, AppendFacts
<1>9. SessionIsOwned'
  <2>1. \A i, j \in DOMAIN jobs' : jobs'[i] = jobs'[j] => i = j
    BY <1>3 DEF OwnInv, SessionIsOwned
  <2>2. \A i, j \in DOMAIN decisions' : decisions'[i] = decisions'[j] => i = j
    BY <1>8 DEF OwnInv, SessionIsOwned
  <2>3. \A u, v \in Workers : Busy(u)' /\ Busy(v)' /\ worker'[u].s = worker'[v].s => u = v
    BY <1>3, <1>4 DEF OwnInv, SessionIsOwned
  <2>4. \A i \in DOMAIN jobs' :
          /\ ~sess'[jobs'[i]].fin
          /\ \A v \in Workers : Busy(v)' => worker'[v].s # jobs'[i]
          /\ \A j \in DOMAIN decisions' : decisions'[j] # jobs'[i]
    BY <1>1, <1>2, <1>3, <1>5, <1>6, <1>8 DEF OwnInv, SessionIsOwned
  <2>5. \A v \in Workers : Busy(v)' => ~sess'[worker'[v].s].fin
    BY <1>1, <1>2, <1>3, <1>4, <1>6 DEF OwnInv, SessionIsOwned, SessMove, At
  <2>6. \A i \in DOMAIN decisions' : ~sess'[decisions'[i]].applied
    BY <1>1, <1>2, <1>8 DEF OwnInv, SessionIsOwned, SessMove
  <2> QED
    BY <2>1, <2>2, <2>3, <2>4, <2>5, <2>6 DEF SessionIsOwned
<1>10. VerifyIsProof'
  <2> SUFFICES ASSUME NEW t \in DOMAIN sess, sess'[t].verify
               PROVE  Proves(t, sess[t].flow, sess[t].ch)'
    BY <1>1 DEF VerifyIsProof
  <2>1. CASE t # s \/ ~Busy(w)
    BY <1>1, <1>6, <2>1 DEF OwnInv, VerifyIsProof, Proves
  <2>2. CASE t = s /\ Busy(w)
    <3>1. FreshWorker(w) /\ SessMove(w, t)
      BY <1>1 DEF OwnInv, WorkIsFresh
    <3>2. ~At(w, "exchange")
      BY <2>2, <3>1 DEF FreshWorker, SessMove, Unproved, At
    <3>3. /\ sess'[t].att = sess[t].att /\ sess'[t].mutual = sess[t].mutual
          /\ sess'[t].flow = sess[t].flow /\ sess'[t].ch = sess[t].ch /\ sess'[t].sh = sess[t].sh
      BY <3>1, <3>2 DEF SessMove
    <3>4. CASE sess[t].verify
      BY <3>3, <3>4 DEF OwnInv, VerifyIsProof, Proves
    <3>5. CASE ~sess[t].verify
      BY <2>2, <3>1, <3>3, <3>5 DEF SessMove, FreshWorker, At, Proves
    <3> QED
      BY <3>4, <3>5
  <2> QED
    BY <2>1, <2>2
<1>11. WorkIsFresh'
  <2>1. \A i \in DOMAIN jobs' : Unproved(jobs[i])'
    BY <1>1, <1>2, <1>3, <1>5, <1>6 DEF OwnInv, WorkIsFresh, Unproved
  <2>2. ASSUME NEW v \in Workers \ {w}
        PROVE  FreshWorker(v)'
    <3>1. CASE ~Busy(v)
      BY <1>3, <2>2, <3>1 DEF Busy, FreshWorker
    <3>2. CASE Busy(v)
      <4>1. sess'[worker[v].s] = sess[worker[v].s] /\ worker'[v] = worker[v]
        BY <1>1, <1>2, <1>3, <1>4, <1>6, <2>2, <3>2
      <4>2. (\A i \in DOMAIN decisions : decisions[i] # worker[v].s) =>
              (\A i \in DOMAIN decisions' : decisions'[i] # worker[v].s)
        BY <1>4, <1>8, <2>2, <3>2
      <4>3. FreshWorker(v)
        BY <2>2 DEF OwnInv, WorkIsFresh
      <4> QED
        BY <4>1, <4>2, <4>3 DEF FreshWorker, Unproved, Busy
    <3> QED
      BY <3>1, <3>2
  <2>3. FreshWorker(w)'
    <3>1. CASE ~Busy(w)'
      BY <3>1 DEF Busy, FreshWorker
    <3>2. CASE Busy(w)'
      <4>1. FreshWorker(w) /\ SessMove(w, s) /\ s \in DOMAIN sess /\ worker'[w].s = s
        BY <1>1, <1>2, <1>3, <3>2 DEF OwnInv, WorkIsFresh
      <4>2. worker'[w].pc \in {"exchange", "awaithello"} => Unproved(worker[w].s)'
        BY <1>1, <4>1 DEF FreshWorker, SessMove, WorkerMove, Successor, Unproved, At
      <4>3. worker'[w].pc = "awaithello" => sess'[s].mutual = Mutual
        BY <1>1, <4>1 DEF FreshWorker, SessMove, WorkerMove, Successor, At
      <4>4. worker'[w].pc \in {"exchange", "awaithello", "queue", "denyconnect"} =>
              /\ ~sess'[s].applied
              /\ \A i \in DOMAIN decisions' : decisions'[i] # s
        BY <1>1, <1>8, <4>1, SMTT(30) DEF FreshWorker, SessMove, WorkerMove, Successor, At
      <4>5. worker'[w].pc \notin {"finish", "count"} => sess'[s].verdict = "unsent"
        BY <1>1, <3>2, <4>1 DEF FreshWorker, SessMove, WorkerMove, Successor, At, Busy
      <4> QED
        BY <4>1, <4>2, <4>3, <4>4, <4>5 DEF FreshWorker
    <3> QED
      BY <3>1, <3>2
  <2> QED
    BY <2>1, <2>2, <2>3 DEF WorkIsFresh
<1>12. AllowedIsVerified'
  <2> SUFFICES ASSUME NEW t \in DOMAIN sess
               PROVE  /\ sess'[t].allowed => sess'[t].applied /\ sess'[t].verify
                      /\ sess'[t].verdict = "yes" => sess'[t].allowed
    BY <1>1 DEF AllowedIsVerified
  <2>1. CASE t # s \/ ~Busy(w)
    BY <1>1, <1>6, <2>1 DEF OwnInv, AllowedIsVerified
  <2>2. CASE t = s /\ Busy(w)
    <3>1. FreshWorker(w) /\ SessMove(w, t)
      BY <1>1 DEF OwnInv, WorkIsFresh
    <3> QED
      BY <2>2, <3>1 DEF OwnInv, AllowedIsVerified, FreshWorker, SessMove, Unproved, At
  <2> QED
    BY <2>1, <2>2
<1> QED
  BY <1>9, <1>10, <1>11, <1>12 DEF OwnInv

LEMMA OwnInvTake ==
  ASSUME TypeOK, OwnInv, NEW w \in Workers, TakeJob(w)
  PROVE  OwnInv'
<1> DEFINE s == Head(jobs)
<1>1. /\ worker[w].pc = "idle"
      /\ jobs # <<>> /\ jobs' = Tail(jobs)
      /\ UNCHANGED <<sess, decisions>>
  BY DEF TakeJob, At
<1>2. /\ worker'[w].pc \in {"exchange", "denyconnect"}
      /\ worker'[w].s = s
      /\ \A v \in Workers \ {w} : worker'[v] = worker[v]
  <2>1. PICK up \in BOOLEAN :
          worker' = [worker EXCEPT ![w] = [IdleWorker(up) EXCEPT
                      !.pc = IF up THEN "exchange" ELSE "denyconnect", !.s = s]]
    BY DEF TakeJob
  <2> DEFINE e == [IdleWorker(up) EXCEPT
                     !.pc = IF up THEN "exchange" ELSE "denyconnect", !.s = s]
  <2>2. e.s = s /\ e.pc \in {"exchange", "denyconnect"}
    BY DEF IdleWorker
  <2>3. worker' = [worker EXCEPT ![w] = e]
    BY <2>1
  <2> HIDE DEF e
  <2> QED
    BY <2>2, <2>3 DEF TypeOK
<1>3. /\ 1 \in DOMAIN jobs /\ s = jobs[1]
      /\ \A i \in DOMAIN jobs' : i \in Nat /\ 1 <= i /\ i + 1 \in DOMAIN jobs /\ jobs'[i] = jobs[i + 1]
      /\ \A i \in DOMAIN jobs : i \in Nat /\ 1 <= i
  <2>1. jobs \in Seq(DOMAIN sess)
    BY QueueTypes
  <2> QED
    BY <1>1, <2>1, TailFacts
<1> HIDE DEF s
<1>4. \A i \in DOMAIN jobs' : jobs'[i] # s
  BY <1>3 DEF OwnInv, SessionIsOwned
<1>5. /\ ~Busy(w) /\ Busy(w)'
      /\ \A v \in Workers \ {w} : Busy(v)' <=> Busy(v)
  BY <1>1, <1>2 DEF Busy
<1>6. /\ Unproved(s) /\ ~sess[s].fin
      /\ \A v \in Workers : Busy(v) => worker[v].s # s
      /\ \A j \in DOMAIN decisions : decisions[j] # s
  BY <1>3 DEF OwnInv, SessionIsOwned, WorkIsFresh
<1>7. SessionIsOwned'
  <2>1. \A i, j \in DOMAIN jobs' : jobs'[i] = jobs'[j] => i = j
    <3> SUFFICES ASSUME NEW i \in DOMAIN jobs', NEW j \in DOMAIN jobs', jobs'[i] = jobs'[j]
                 PROVE  i = j
      OBVIOUS
    <3>1. i + 1 = j + 1
      BY <1>3 DEF OwnInv, SessionIsOwned
    <3> QED
      BY <1>3, <3>1
  <2>2. \A u, v \in Workers : Busy(u)' /\ Busy(v)' /\ worker'[u].s = worker'[v].s => u = v
    BY <1>2, <1>5, <1>6 DEF OwnInv, SessionIsOwned
  <2>3. \A i \in DOMAIN jobs' :
          /\ ~sess'[jobs'[i]].fin
          /\ \A v \in Workers : Busy(v)' => worker'[v].s # jobs'[i]
          /\ \A j \in DOMAIN decisions' : decisions'[j] # jobs'[i]
    BY <1>1, <1>2, <1>3, <1>4, <1>5 DEF OwnInv, SessionIsOwned
  <2>4. \A v \in Workers : Busy(v)' => ~sess'[worker'[v].s].fin
    BY <1>1, <1>2, <1>5, <1>6 DEF OwnInv, SessionIsOwned
  <2> QED
    BY <1>1, <2>1, <2>2, <2>3, <2>4 DEF OwnInv, SessionIsOwned
<1>8. WorkIsFresh'
  <2>1. FreshWorker(w)'
    BY <1>1, <1>2, <1>6 DEF FreshWorker, Unproved
  <2>2. \A v \in Workers \ {w} : FreshWorker(v)'
    BY <1>1, <1>2 DEF OwnInv, WorkIsFresh, FreshWorker, Unproved, Busy
  <2>3. \A i \in DOMAIN jobs' : Unproved(jobs[i])'
    BY <1>1, <1>3 DEF OwnInv, WorkIsFresh, Unproved
  <2> QED
    BY <2>1, <2>2, <2>3 DEF WorkIsFresh
<1> QED
  BY <1>1, <1>7, <1>8 DEF OwnInv, VerifyIsProof, Proves, AllowedIsVerified

LEMMA OwnInvApply ==
  ASSUME TypeOK, OwnInv, ApplyDecision
  PROVE  OwnInv'
<1> DEFINE d == Head(decisions)
<1>1. UNCHANGED <<jobs, worker>> /\ decisions # <<>> /\ decisions' = Tail(decisions)
  BY DEF ApplyDecision
<1>2. /\ 1 \in DOMAIN decisions /\ d = decisions[1]
      /\ \A i \in DOMAIN decisions' :
           i \in Nat /\ 1 <= i /\ i + 1 \in DOMAIN decisions /\ decisions'[i] = decisions[i + 1]
      /\ \A i \in DOMAIN decisions : i \in Nat /\ 1 <= i
  <2>1. decisions \in Seq(DOMAIN sess)
    BY QueueTypes
  <2> QED
    BY <1>1, <2>1, TailFacts
<1>3. d \in DOMAIN sess /\ sess[d] \in Session
  BY <1>2, QueueTypes
<1>4. PICK allow \in BOOLEAN : Decided(d, allow) /\ (allow => sess[d].verify)
  BY DEF ApplyDecision, Admit, Refuse, Admissible
<1> HIDE DEF d
<1>5. /\ DOMAIN sess' = DOMAIN sess
      /\ \A t \in DOMAIN sess : t # d => sess'[t] = sess[t]
      /\ sess'[d].applied = TRUE /\ sess'[d].allowed = allow
      /\ sess'[d].flow = sess[d].flow /\ sess'[d].ch = sess[d].ch /\ sess'[d].sh = sess[d].sh
      /\ sess'[d].att = sess[d].att /\ sess'[d].mutual = sess[d].mutual
      /\ sess'[d].verify = sess[d].verify /\ sess'[d].verdict = sess[d].verdict
      /\ sess'[d].fin = sess[d].fin
  BY <1>3, <1>4 DEF Decided, Session
<1>6. /\ ~sess[d].applied
      /\ \A i \in DOMAIN jobs : jobs[i] # d
      /\ \A i \in DOMAIN decisions' : decisions'[i] # d
  BY <1>2 DEF OwnInv, SessionIsOwned
<1>7. /\ \A i \in DOMAIN jobs : jobs[i] \in DOMAIN sess
      /\ \A i \in DOMAIN decisions : decisions[i] \in DOMAIN sess
      /\ \A v \in Workers : Busy(v) => worker[v].s \in DOMAIN sess
  BY QueueTypes
<1>8. SessionIsOwned'
  <2>1. \A i, j \in DOMAIN decisions' : decisions'[i] = decisions'[j] => i = j
    <3> SUFFICES ASSUME NEW i \in DOMAIN decisions', NEW j \in DOMAIN decisions',
                        decisions'[i] = decisions'[j]
                 PROVE  i = j
      OBVIOUS
    <3>1. i + 1 = j + 1
      BY <1>2 DEF OwnInv, SessionIsOwned
    <3> QED
      BY <1>2, <3>1
  <2>2. \A i \in DOMAIN jobs' :
          /\ ~sess'[jobs'[i]].fin
          /\ \A v \in Workers : Busy(v)' => worker'[v].s # jobs'[i]
          /\ \A j \in DOMAIN decisions' : decisions'[j] # jobs'[i]
    BY <1>1, <1>2, <1>5, <1>6, <1>7 DEF OwnInv, SessionIsOwned, Busy
  <2>3. \A v \in Workers : Busy(v)' => ~sess'[worker'[v].s].fin
    BY <1>1, <1>5, <1>7 DEF OwnInv, SessionIsOwned, Busy
  <2>4. \A i \in DOMAIN decisions' : ~sess'[decisions'[i]].applied
    BY <1>2, <1>5, <1>6, <1>7 DEF OwnInv, SessionIsOwned
  <2> QED
    BY <1>1, <2>1, <2>2, <2>3, <2>4 DEF OwnInv, SessionIsOwned, Busy
<1>9. VerifyIsProof'
  BY <1>5 DEF OwnInv, VerifyIsProof, Proves
<1>10. WorkIsFresh'
  <2>1. ASSUME NEW v \in Workers
        PROVE  FreshWorker(v)'
    <3>1. FreshWorker(v)
      BY DEF OwnInv, WorkIsFresh
    <3>2. CASE ~Busy(v)
      BY <1>1, <3>2 DEF Busy, FreshWorker
    <3>3. CASE Busy(v) /\ worker[v].s # d
      BY <1>1, <1>2, <1>5, <1>7, <3>1, <3>3 DEF FreshWorker, Unproved, Busy
    <3>4. CASE Busy(v) /\ worker[v].s = d
      BY <1>1, <1>2, <1>5, <3>1, <3>4 DEF FreshWorker, Unproved, Busy
    <3> QED
      BY <3>2, <3>3, <3>4
  <2>2. \A i \in DOMAIN jobs' : Unproved(jobs[i])'
    BY <1>1, <1>5, <1>6, <1>7 DEF OwnInv, WorkIsFresh, Unproved
  <2> QED
    BY <2>1, <2>2 DEF WorkIsFresh
<1>11. AllowedIsVerified'
  BY <1>4, <1>5, <1>6 DEF OwnInv, AllowedIsVerified
<1> QED
  BY <1>8, <1>9, <1>10, <1>11 DEF OwnInv

LEMMA OwnInvServerHello ==
  ASSUME TypeOK, OwnInv, NEW f \in Flows, NEW k \in ServerKeys, HandleServerHello(f, k)
  PROVE  OwnInv'
<1>1. UNCHANGED <<jobs, decisions, worker>>
  BY DEF HandleServerHello
<1>2. /\ DOMAIN sess' = DOMAIN sess
      /\ \A t \in DOMAIN sess : sess'[t] = sess[t] \/ (sess[t].sh = NoKey /\ sess'[t] = [sess[t] EXCEPT !.sh = k])
  BY DEF HandleServerHello
<1>3. \A t \in DOMAIN sess : sess[t] \in Session
  BY QueueTypes
<1>4. \A t \in DOMAIN sess :
        /\ sess'[t].flow = sess[t].flow /\ sess'[t].ch = sess[t].ch
        /\ sess'[t].sh = sess[t].sh \/ sess[t].sh = NoKey
        /\ sess'[t].att = sess[t].att /\ sess'[t].mutual = sess[t].mutual
        /\ sess'[t].verify = sess[t].verify /\ sess'[t].verdict = sess[t].verdict
        /\ sess'[t].applied = sess[t].applied /\ sess'[t].allowed = sess[t].allowed
        /\ sess'[t].fin = sess[t].fin
  BY <1>2, <1>3 DEF Session
<1>5. /\ \A i \in DOMAIN jobs : jobs[i] \in DOMAIN sess
      /\ \A i \in DOMAIN decisions : decisions[i] \in DOMAIN sess
      /\ \A v \in Workers : Busy(v) => worker[v].s \in DOMAIN sess
  BY QueueTypes
<1>6. SessionIsOwned'
  BY <1>1, <1>4, <1>5 DEF OwnInv, SessionIsOwned, Busy
<1>7. VerifyIsProof'
  BY <1>2, <1>4 DEF OwnInv, VerifyIsProof, Proves
<1>8. WorkIsFresh'
  BY <1>1, <1>4, <1>5 DEF OwnInv, WorkIsFresh, FreshWorker, Unproved, Busy
<1>9. AllowedIsVerified'
  BY <1>2, <1>4 DEF OwnInv, AllowedIsVerified
<1> QED
  BY <1>6, <1>7, <1>8, <1>9 DEF OwnInv

LEMMA OwnInvObserve ==
  ASSUME TypeOK, OwnInv, NEW f \in Flows, NEW ch \in HelloKeys,
         sess' = Append(sess, NewSession(f, ch)),
         jobs' = IF Len(jobs) < QueueCap THEN Append(jobs, Len(sess) + 1) ELSE jobs,
         UNCHANGED <<decisions, worker>>
  PROVE  OwnInv'
<1> DEFINE n == Len(sess) + 1
           e == NewSession(f, ch)
           dom == DOMAIN sess
<1>1. /\ sess \in Seq(Session) /\ jobs \in Seq(dom) /\ e \in Session
      /\ DOMAIN sess = 1 .. Len(sess) /\ Len(sess) \in Nat
  <2>1. sess \in Seq(Session) /\ jobs \in Seq(dom)
    BY DEF TypeOK
  <2> QED
    BY <2>1, LenProperties DEF NewSession, Session
<1>2. /\ DOMAIN sess' = DOMAIN sess \cup {n}
      /\ n \notin DOMAIN sess
      /\ \A t \in DOMAIN sess : sess'[t] = sess[t]
      /\ sess'[n] = e
  BY <1>1, AppendFacts
<1>3. /\ \A i \in DOMAIN jobs : jobs[i] \in DOMAIN sess
      /\ \A i \in DOMAIN decisions : decisions[i] \in DOMAIN sess
      /\ \A v \in Workers : Busy(v) => worker[v].s \in DOMAIN sess
  BY QueueTypes
<1>4. \A i \in DOMAIN jobs' :
        \/ i \in DOMAIN jobs /\ jobs'[i] = jobs[i]
        \/ i = Len(jobs) + 1 /\ i \notin DOMAIN jobs /\ jobs'[i] = n
  <2>1. jobs \in Seq(Nat) /\ n \in Nat
    <3>1. dom \subseteq Nat
      BY <1>1
    <3> QED
      BY <1>1, <3>1, SeqMonotonic
  <2> QED
    BY <2>1, AppendFacts
<1>5. ~e.fin /\ ~e.verify /\ ~e.applied /\ ~e.allowed /\ e.verdict = "unsent"
  BY DEF NewSession
<1> HIDE DEF n, e, dom
<1>6. SessionIsOwned'
  <2>1. \A i, j \in DOMAIN jobs' : jobs'[i] = jobs'[j] => i = j
    BY <1>2, <1>3, <1>4 DEF OwnInv, SessionIsOwned
  <2>2. \A i \in DOMAIN jobs' :
          /\ ~sess'[jobs'[i]].fin
          /\ \A v \in Workers : Busy(v)' => worker'[v].s # jobs'[i]
          /\ \A j \in DOMAIN decisions' : decisions'[j] # jobs'[i]
    BY <1>2, <1>3, <1>4, <1>5 DEF OwnInv, SessionIsOwned, Busy
  <2> QED
    BY <1>2, <1>3, <2>1, <2>2 DEF OwnInv, SessionIsOwned, Busy
<1>7. VerifyIsProof'
  BY <1>2, <1>5 DEF OwnInv, VerifyIsProof, Proves
<1>8. WorkIsFresh'
  BY <1>2, <1>3, <1>4, <1>5 DEF OwnInv, WorkIsFresh, FreshWorker, Unproved, Busy
<1>9. AllowedIsVerified'
  BY <1>2, <1>5 DEF OwnInv, AllowedIsVerified
<1> QED
  BY <1>6, <1>7, <1>8, <1>9 DEF OwnInv

LEMMA OwnInvStep ==
  ASSUME TypeOK, OwnInv, Next
  PROVE  OwnInv'
<1>1. CASE UNCHANGED control
  BY <1>1 DEF control, OwnInv, SessionIsOwned, VerifyIsProof, WorkIsFresh, FreshWorker,
              Unproved, AllowedIsVerified, Proves, Busy
<1>2. CASE \E f \in Flows : Kernel(f)
  BY <1>1, <1>2 DEF Kernel, Connect, RetransmitSyn, Establish, SendHello, SendData, SendBare,
                    Close, Overrun
<1>3. ASSUME NEW f \in Flows, HandleHello(f)
      PROVE  OwnInv'
  <2> DEFINE ch == <<Head(inq[f]).conn, Head(inq[f]).n>>
  <2>1. ch \in HelloKeys
    BY <1>3, HelloType DEF HandleHello
  <2>2. \/ UNCHANGED control
        \/ /\ sess' = Append(sess, NewSession(f, ch))
           /\ jobs' = IF Len(jobs) < QueueCap THEN Append(jobs, Len(sess) + 1) ELSE jobs
           /\ UNCHANGED <<decisions, worker>>
    BY <1>3 DEF HandleHello, ObserveHello, control
  <2> HIDE DEF ch
  <2> QED
    BY <1>1, <2>1, <2>2, OwnInvObserve
<1>4. CASE \E f \in Flows : Callback(f) /\ ~HandleHello(f)
  BY <1>1, <1>4 DEF Callback, DropQuarantined, HandleSyn, HandleData, HandleBare
<1>5. CASE GateThread /\ ~(\E f \in Flows : Callback(f))
  BY <1>1, <1>5, OwnInvApply, OwnInvServerHello
     DEF GateThread, ExpireGate, ForgetGate, Stop, Joined, Exit
<1>6. CASE \E w \in Workers : ControlWorker(w)
  BY <1>6, OwnInvTake, OwnInvWorker
<1> QED
  BY <1>2, <1>3, <1>4, <1>5, <1>6 DEF Next, GateThread

-----------------------------------------------------------------------------
(* Admission and marks.                                                      *)

\* A verified session stays verified, and says the same.
Verified(s, f, ch, k) == s \in DOMAIN sess /\ sess[s].verify /\ sess[s].flow = f
                         /\ sess[s].ch = ch /\ sess[s].sh = k

LEMMA VerifiedStays ==
  ASSUME TypeOK, OwnInv, Next, NEW s, NEW f, NEW ch, NEW k, Verified(s, f, ch, k)
  PROVE  Verified(s, f, ch, k)'
<1>0. s \in DOMAIN sess /\ sess[s].verify /\ sess[s] \in Session
  BY QueueTypes DEF Verified
<1>1. CASE UNCHANGED sess
  BY <1>1 DEF Verified
<1>2. CASE \E g \in Flows : Kernel(g)
  BY <1>1, <1>2 DEF Kernel, Connect, RetransmitSyn, Establish, SendHello, SendData, SendBare,
                    Close, Overrun, control
<1>3. CASE \E g \in Flows, c \in HelloKeys : sess' = Append(sess, NewSession(g, c))
  <2>1. PICK g \in Flows, c \in HelloKeys : sess' = Append(sess, NewSession(g, c))
    BY <1>3
  <2>2. sess \in Seq(Session) /\ NewSession(g, c) \in Session
    BY DEF TypeOK, NewSession, Session
  <2> QED
    BY <1>0, <2>1, <2>2, AppendFacts DEF Verified
<1>4. CASE \E g \in Flows : Callback(g)
  <2>1. PICK g \in Flows : Callback(g)
    BY <1>4
  <2>2. CASE HandleHello(g)
    <3>1. <<Head(inq[g]).conn, Head(inq[g]).n>> \in HelloKeys
      BY <2>2, HelloType DEF HandleHello
    <3> QED
      BY <1>1, <1>3, <2>2, <3>1 DEF HandleHello, ObserveHello
  <2> QED
    BY <1>1, <2>1, <2>2 DEF Callback, DropQuarantined, HandleSyn, HandleData, HandleBare, control
<1>5. CASE ApplyDecision
  <2> DEFINE d == Head(decisions)
  <2>1. d \in DOMAIN sess /\ sess[d] \in Session
    <3>1. decisions \in Seq(DOMAIN sess) /\ decisions # <<>>
      BY <1>5, QueueTypes DEF ApplyDecision
    <3> QED
      BY <3>1, HeadTailProperties, QueueTypes
  <2>2. \E allow \in BOOLEAN : sess' = [sess EXCEPT ![d].applied = TRUE, ![d].allowed = allow]
    BY <1>5 DEF ApplyDecision, Admit, Refuse, Decided
  <2> HIDE DEF d
  <2> QED
    BY <1>0, <2>1, <2>2 DEF Verified, Session
<1>6. ASSUME NEW g \in Flows, NEW x \in ServerKeys, HandleServerHello(g, x)
      PROVE  Verified(s, f, ch, k)'
  <2>1. sess[s].sh # NoKey
    BY <1>0 DEF OwnInv, VerifyIsProof, Proves
  <2>2. s \in DOMAIN sess' /\ sess'[s] = sess[s]
    BY <1>0, <1>6, <2>1 DEF HandleServerHello
  <2> QED
    BY <2>2 DEF Verified
<1>7. CASE GateThread /\ ~(\E g \in Flows : Callback(g))
  BY <1>1, <1>5, <1>6, <1>7 DEF GateThread, ExpireGate, ForgetGate, Stop, Joined, Exit, control
<1>8. ASSUME NEW w \in Workers, ControlWorker(w)
      PROVE  Verified(s, f, ch, k)'
  <2>1. DOMAIN sess' = DOMAIN sess /\ SessMove(w, s)
        /\ (s # worker[w].s \/ ~Busy(w) => sess'[s] = sess[s])
    BY <1>0, <1>8, WorkerSess
  <2>2. sess'[s].verify = sess[s].verify
    BY <1>0, <2>1 DEF SessMove, OwnInv, WorkIsFresh, FreshWorker, Unproved, At
  <2> QED
    BY <1>0, <2>1, <2>2 DEF Verified, SessMove
<1> QED
  BY <1>2, <1>4, <1>7, <1>8 DEF Next

\* A connection is marked by a packet of its own that leaves an open gate, or with
\* the packets a decision releases.
MarkedBy(c, g) ==
  \/ /\ gate[g].state = "admitted" /\ OwnsGate(g)
     /\ inq[g] # <<>> /\ c = Head(inq[g]).conn
  \/ Admitted(g) /\ \E i \in DOMAIN gate[g].held : c = gate[g].held[i]

LEMMA MarkStep ==
  ASSUME TypeOK, Next, NEW c \in ctmark'
  PROVE  c \in ctmark \/ \E g \in Flows : MarkedBy(c, g)
<1>1. CASE UNCHANGED ctmark
  BY <1>1
<1>2. ASSUME NEW f \in Flows, HandleData(f) \/ HandleBare(f)
      PROVE  c \in ctmark \/ \E g \in Flows : MarkedBy(c, g)
  BY <1>2 DEF HandleData, HandleBare, Authorize, MarkedBy, Receive
<1>3. CASE ApplyDecision
  <2> DEFINE s == Head(decisions)
             f == sess[s].flow
  <2>1. \/ Matches(s) /\ Admissible(s) /\ Admit(s, f)
        \/ Refuse(s, f)
    BY <1>3 DEF ApplyDecision
  <2>2. CASE Refuse(s, f)
    BY <1>1, <2>2 DEF Refuse
  <2>3. CASE Matches(s) /\ Admissible(s) /\ Admit(s, f)
    <3>1. f \in Flows
      <4>1. decisions \in Seq(DOMAIN sess) /\ decisions # <<>>
        BY <1>3, QueueTypes DEF ApplyDecision
      <4> QED
        BY <4>1, HeadTailProperties, SessType
    <3>2. gate'[f] = [gate[f] EXCEPT !.state = "admitted", !.held = <<>>]
      BY <2>3, <3>1 DEF Admit, TypeOK
    <3>3. Admitted(f)
      BY <1>3, <2>3, <3>2 DEF ApplyDecision, Admit, Admissible, Admitted
    <3> QED
      BY <2>3, <3>1, <3>3 DEF Admit, MarkedBy
  <2> QED
    BY <2>1, <2>2, <2>3
<1>4. CASE \E f \in Flows : Kernel(f)
  BY <1>1, <1>4 DEF Kernel, Connect, RetransmitSyn, Establish, SendHello, SendData, SendBare,
                    Close, Overrun
<1>5. CASE \E w \in Workers : ControlWorker(w)
  BY <1>1, <1>5 DEF ControlWorker, TakeJob, Exchange, AwaitHello, QueueDecision, WaitGate, GiveUp,
                    SendVerdict, Finish, Count, ExitWorker, WorkerLocal, world
<1>6. CASE GateThread
  BY <1>1, <1>2, <1>3, <1>6
     DEF GateThread, Callback, DropQuarantined, HandleSyn, HandleHello, HandleServerHello,
         ExpireGate, ForgetGate, Stop, Joined, Exit, world
<1> QED
  BY <1>4, <1>5, <1>6 DEF Next

LEMMA AdmittedIsVerifiedStep ==
  ASSUME GateInv, Next
  PROVE  AdmittedIsVerified'
<1>0. TypeOK /\ OwnInv /\ AdmittedIsVerified
  BY DEF GateInv, OwnInv
<1>1. ASSUME NEW g \in Flows, gate'[g].state = "admitted"
      PROVE  \E s : Verified(s, g, gate[g].ch, gate[g].sh)'
  <2>0. gate[g] \in Gate
    BY <1>0 DEF TypeOK
  <2>1. CASE /\ gate[g].state = "admitted"
             /\ gate'[g].ch = gate[g].ch /\ gate'[g].sh = gate[g].sh
    <3>1. PICK s : Verified(s, g, gate[g].ch, gate[g].sh)
      BY <1>0, <2>1 DEF AdmittedIsVerified, Verified
    <3>2. Verified(s, g, gate'[g].ch, gate'[g].sh)
      BY <2>1, <3>1
    <3> QED
      BY <1>0, <3>2, VerifiedStays DEF Verified
  <2>2. CASE Admitted(g)
    <3> DEFINE d == Head(decisions)
    <3>1. gate'[g].ch = gate[g].ch /\ gate'[g].sh = gate[g].sh
      BY <2>0, <2>2 DEF Admitted, Gate
    <3>2. d \in DOMAIN sess
      BY <1>0, <2>2, HeadTailProperties, QueueTypes DEF Admitted
    <3>3. Verified(d, g, gate'[g].ch, gate'[g].sh)
      BY <2>2, <3>1, <3>2 DEF Admitted, Matches, Admissible, Verified
    <3> QED
      BY <1>0, <3>3, VerifiedStays DEF Verified
  <2>3. GateMove(g)
    BY <1>0, GateMoves
  <2>4. CASE Stays(g)
    BY <1>1, <2>1, <2>4 DEF Stays
  <2>5. CASE Rearmed(g) \/ Armed(g) \/ Forgotten(g)
    BY <1>1, <2>5 DEF Rearmed, Armed, Forgotten, FreshGate, NoGate
  <2>6. CASE Grown(g) \/ Dropped(g)
    BY <1>1, <2>0, <2>1, <2>6 DEF Grown, Dropped, Gate
  <2>7. CASE Learned(g) \/ Denied(g)
    BY <1>1, <2>0, <2>7 DEF Learned, Denied, Gate
  <2> QED
    BY <2>2, <2>3, <2>4, <2>5, <2>6, <2>7 DEF GateMove
<1>2. ASSUME NEW c \in ctmark'
      PROVE  \E s : s \in DOMAIN sess' /\ sess'[s].verify /\ sess'[s].ch[1] = c
  <2>1. ASSUME NEW s, NEW f, NEW ch, NEW k, Verified(s, f, ch, k), ch[1] = c
        PROVE  \E t : t \in DOMAIN sess' /\ sess'[t].verify /\ sess'[t].ch[1] = c
    BY <1>0, <2>1, VerifiedStays DEF Verified
  <2>2. CASE c \in ctmark
    <3>1. PICK s \in DOMAIN sess : sess[s].verify /\ sess[s].ch[1] = c
      BY <1>0, <2>2 DEF AdmittedIsVerified
    <3> QED
      BY <2>1, <3>1 DEF Verified
  <2>3. ASSUME NEW g \in Flows, MarkedBy(c, g)
        PROVE  \E t : t \in DOMAIN sess' /\ sess'[t].verify /\ sess'[t].ch[1] = c
    <3>1. CASE Admitted(g) /\ \E i \in DOMAIN gate[g].held : c = gate[g].held[i]
      <4> DEFINE d == Head(decisions)
      <4>1. d \in DOMAIN sess
        BY <1>0, <3>1, HeadTailProperties, QueueTypes DEF Admitted
      <4>2. sess[d].verify /\ sess[d].ch = gate[g].ch /\ gate[g].ch \in HelloKeys
        BY <1>0, <3>1, <4>1, SessType DEF Admitted, Matches, Admissible
      <4>3. Current(g)
        BY <4>2, NoHelloFact DEF GateInv, GateIsCurrent
      <4> QED
        BY <2>1, <3>1, <4>1, <4>2, <4>3 DEF Current, Verified
    <3>2. CASE /\ gate[g].state = "admitted" /\ OwnsGate(g)
               /\ inq[g] # <<>> /\ c = Head(inq[g]).conn
      <4>1. PICK s : Verified(s, g, gate[g].ch, gate[g].sh)
        BY <1>0, <3>2 DEF AdmittedIsVerified, Verified
      <4>2. gate[g].ch \in HelloKeys
        BY <1>0, <4>1, SessType DEF Verified
      <4>3. Current(g)
        BY <4>2, NoHelloFact DEF GateInv, GateIsCurrent
      <4>4. Head(inq[g]) = inq[g][1] /\ 1 \in DOMAIN inq[g]
        <5>1. inq[g] \in Seq(Packet)
          BY <1>0 DEF TypeOK
        <5> QED
          BY <3>2, <5>1, TailFacts
      <4>5. c = sock[g].id
        BY <3>2, <4>4 DEF GateInv, QueueInOrder, FlowInOrder, OwnsGate
      <4>6. gate[g].ch[1] = c
        BY <3>2, <4>3, <4>5 DEF Current, OwnsGate
      <4> QED
        BY <2>1, <4>1, <4>6
    <3> QED
      BY <2>3, <3>1, <3>2 DEF MarkedBy
  <2> QED
    BY <1>0, <2>2, <2>3, MarkStep
<1> QED
  BY <1>1, <1>2 DEF AdmittedIsVerified, Verified

-----------------------------------------------------------------------------
(* The theorems.                                                             *)

LEMMA GateInvInit == Init => GateInv
<1> SUFFICES ASSUME Init PROVE GateInv
  OBVIOUS
<1>1. TypeOK
  BY TypeCorrectInit
<1>2. \A f \in Flows : /\ sock[f] = NoSocket /\ gate[f] = NoGate /\ inq[f] = <<>>
  BY DEF Init
<1>3. opened = 0 /\ sess = <<>> /\ jobs = <<>> /\ decisions = <<>> /\ ctmark = {}
      /\ \A w \in Workers : worker[w].pc = "idle"
  BY DEF Init, IdleWorker
<1>4. QueueInOrder /\ GateIsCurrent
  BY <1>2, <1>3 DEF QueueInOrder, FlowInOrder, GateIsCurrent, NoSocket, NoGate
<1>5. HeldIsUndecided /\ DeniedIsQuarantined
  BY <1>2 DEF HeldIsUndecided, DeniedIsQuarantined, NoGate
<1>6. SessionIsOwned /\ VerifyIsProof /\ WorkIsFresh /\ AllowedIsVerified
  BY <1>3 DEF SessionIsOwned, VerifyIsProof, WorkIsFresh, FreshWorker, AllowedIsVerified, Busy
<1>7. AdmittedIsVerified
  BY <1>2, <1>3 DEF AdmittedIsVerified, NoGate
<1> QED
  BY <1>1, <1>4, <1>5, <1>6, <1>7 DEF GateInv

\* GateInv is inductive, and so holds of every state.
THEOREM Invariance == Spec => []GateInv
<1>1. GateInv /\ [Next]_vars => GateInv'
  <2> SUFFICES ASSUME GateInv, [Next]_vars PROVE GateInv'
    OBVIOUS
  <2>1. CASE UNCHANGED vars
    BY <2>1, SMTT(30) DEF vars, GateInv, TypeOK, QueueInOrder, FlowInOrder, GateIsCurrent, Current, Live,
       HeldIsUndecided, Undecided, DeniedIsQuarantined, SessionIsOwned, VerifyIsProof, Proves,
       WorkIsFresh, FreshWorker, Unproved, AllowedIsVerified, AdmittedIsVerified, Busy
  <2>2. CASE Next
    <3>1. TypeOK /\ TypeOK'
      BY <2>2, TypeCorrectStep DEF GateInv
    <3>2. QueueInOrder'
      BY <2>2, <3>1, QueueInOrderStep DEF GateInv
    <3>3. GateIsCurrent'
      BY <2>2, <3>1, GateIsCurrentStep DEF GateInv
    <3>4. HeldIsUndecided' /\ DeniedIsQuarantined'
      BY <2>2, <3>1, HeldIsUndecidedStep, DeniedIsQuarantinedStep DEF GateInv
    <3>5. OwnInv'
      BY <2>2, <3>1, OwnInvStep DEF GateInv, OwnInv
    <3>6. AdmittedIsVerified'
      BY <2>2, AdmittedIsVerifiedStep
    <3> QED
      BY <3>1, <3>2, <3>3, <3>4, <3>5, <3>6 DEF GateInv, OwnInv
  <2> QED
    BY <2>1, <2>2
<1> QED
  BY <1>1, GateInvInit, PTL DEF Spec

\* An open gate was attested for the handshake it saw (apply_decision_impl).
THEOREM Attested == Spec => []AdmittedIsAttested
<1>1. GateInv => AdmittedIsAttested
  BY DEF GateInv, AdmittedIsVerified, VerifyIsProof, AdmittedIsAttested
<1> QED
  BY <1>1, Invariance, PTL

\* Only connections that were attested themselves bypass the agent, however often
\* a port is used again and however many packets wait in the queue.
THEOREM MarksAttested == Spec => []MarkedIsAttested
<1>1. GateInv => MarkedIsAttested
  <2> SUFFICES ASSUME GateInv, NEW c \in ctmark
               PROVE  \E s \in DOMAIN sess : sess[s].ch[1] = c /\ Proves(s, sess[s].flow, sess[s].ch)
    BY DEF MarkedIsAttested
  <2>1. PICK s \in DOMAIN sess : sess[s].verify /\ sess[s].ch[1] = c
    BY DEF GateInv, AdmittedIsVerified
  <2> QED
    BY <2>1 DEF GateInv, VerifyIsProof
<1> QED
  BY <1>1, Invariance, PTL

\* What a gate holds belongs to the connection it will be decided for.
THEOREM HeldOwned == Spec => []HeldIsOwned
<1>1. GateInv => HeldIsOwned
  <2> SUFFICES ASSUME GateInv, NEW f \in Flows, NEW i \in DOMAIN gate[f].held
               PROVE  /\ Undecided(f)
                      /\ gate[f].ch # NoHello =>
                           gate[f].held[i] = gate[f].cookie /\ gate[f].ch[1] = gate[f].cookie
    BY DEF HeldIsOwned
  <2>1. gate[f].held # <<>>
    OBVIOUS
  <2>2. Undecided(f)
    BY <2>1 DEF GateInv, HeldIsUndecided
  <2>3. gate[f].ch # NoHello => Current(f)
    BY DEF GateInv, GateIsCurrent
  <2> QED
    BY <2>2, <2>3 DEF Current
<1> QED
  BY <1>1, Invariance, PTL

\* A denied gate has quarantined the endpoint.
THEOREM DeniedQuarantined == Spec => []DeniedIsQuarantined
<1>1. GateInv => DeniedIsQuarantined
  BY DEF GateInv
<1> QED
  BY <1>1, Invariance, PTL

\* A session is queued once, taken once and decided once.
THEOREM SessionOwned == Spec => []SessionIsOwned
<1>1. GateInv => SessionIsOwned
  BY DEF GateInv
<1> QED
  BY <1>1, Invariance, PTL

\* The server hears "verified" only of a session that opened its gate.
THEOREM VerdictHonest == Spec => []VerdictIsHonest
<1>1. GateInv => VerdictIsHonest
  BY DEF GateInv, AllowedIsVerified, VerifyIsProof, VerdictIsHonest
<1> QED
  BY <1>1, Invariance, PTL

\* Nothing opens and nothing is marked once the endpoint is quarantined.
THEOREM QuarantineFinal == Spec => QuarantineIsFinal
<1> DEFINE A == quarantined =>
                  /\ ctmark' = ctmark
                  /\ \A f \in Flows : gate'[f].state = "admitted" => gate[f].state = "admitted"
                  /\ quarantined'
<1>1. GateInv /\ [Next]_vars => [A]_vars
  <2> SUFFICES ASSUME GateInv, Next, quarantined
               PROVE  /\ ctmark' = ctmark
                      /\ \A f \in Flows : gate'[f].state = "admitted" => gate[f].state = "admitted"
                      /\ quarantined'
    OBVIOUS
  <2>0. TypeOK
    BY DEF GateInv
  <2>1. quarantined'
    BY <2>0, ZenonT(30) DEF TypeOK, Next, GateThread, ControlWorker, Kernel, Connect, RetransmitSyn, Establish,
       SendHello, SendData, SendBare, Close, Overrun, Callback, DropQuarantined, HandleSyn, HandleHello,
       HandleData, HandleBare, Authorize, Quarantine, HandleServerHello, ExpireGate, ForgetGate,
       ApplyDecision, Admit, Refuse, Stop, Joined, Exit, TakeJob, Exchange, AwaitHello, QueueDecision,
       WaitGate, GiveUp, SendVerdict, Finish, Count, ExitWorker, WorkerLocal
  <2>2. ctmark' = ctmark
    BY <2>0, ZenonT(30) DEF TypeOK, Next, GateThread, ControlWorker, Kernel, Connect, RetransmitSyn, Establish,
       SendHello, SendData, SendBare, Close, Overrun, Callback, DropQuarantined, HandleSyn, HandleHello,
       HandleData, HandleBare, HandleServerHello, ExpireGate, ForgetGate, world,
       ApplyDecision, Admissible, Refuse, Stop, Joined, Exit, TakeJob, Exchange, AwaitHello,
       QueueDecision, WaitGate, GiveUp, SendVerdict, Finish, Count, ExitWorker, WorkerLocal
  <2>3. ASSUME NEW f \in Flows, gate'[f].state = "admitted"
        PROVE  gate[f].state = "admitted"
    <3>1. gate[f] \in Gate
      BY <2>0 DEF TypeOK
    <3>2. Stays(f) \/ Denied(f) \/ Forgotten(f) \/ Dropped(f)
      BY <2>0, GateMoves DEF GateMove, Rearmed, Armed, Grown, Learned, Admitted
    <3>3. CASE Stays(f) \/ Dropped(f)
      BY <2>3, <3>1, <3>3 DEF Stays, Dropped, Gate
    <3>4. CASE Denied(f)
      <4>1. gate'[f].state = "denied"
        BY <3>1, <3>4 DEF Denied, Gate
      <4> QED
        BY <2>3, <4>1
    <3>5. CASE Forgotten(f)
      <4>1. gate'[f].state = "none"
        BY <3>5 DEF Forgotten, NoGate
      <4> QED
        BY <2>3, <4>1
    <3> QED
      BY <3>2, <3>3, <3>4, <3>5
  <2> QED
    BY <2>1, <2>2, <2>3
<1> QED
  BY <1>1, Invariance, PTL DEF Spec, QuarantineIsFinal

-----------------------------------------------------------------------------
(* The exit status.                                                          *)

\* What a step may do to what CountedIsVerified says of a session.
Tallied(old, new) ==
  /\ old.verify => new.verify
  /\ new.verdict = "unsent" => old.verdict = "unsent"
  /\ new.counted => old.counted \/ old.verify
  /\ new.success => old.success \/ old.verdict # "unsent"

LEMMA WorkerTallies ==
  ASSUME TypeOK, OwnInv, NEW w \in Workers, ControlWorker(w), NEW t \in DOMAIN sess
  PROVE  DOMAIN sess' = DOMAIN sess /\ Tallied(sess[t], sess'[t])
<1> DEFINE s == worker[w].s
<1>1. /\ DOMAIN sess' = DOMAIN sess /\ SessMove(w, t) /\ sess[t] \in Session
      /\ t # s \/ ~Busy(w) => sess'[t] = sess[t]
  BY WorkerSess, QueueTypes
<1>2. CASE sess'[t] = sess[t]
  BY <1>1, <1>2 DEF Tallied
<1>3. CASE t = s /\ Busy(w)
  <2>1. sess[t].verify => sess'[t].verify
    BY <1>1, <1>3 DEF SessMove, OwnInv, WorkIsFresh, FreshWorker, Unproved, At
  <2>2. sess'[t].verdict = "unsent" => sess[t].verdict = "unsent"
    BY <1>1 DEF SessMove
  <2>3. /\ sess'[t].counted => sess[t].counted \/ sess[t].verify
        /\ sess'[t].success => sess[t].success \/ sess[t].verdict # "unsent"
    <3>1. CASE Exchange(w)
      <4>1. CASE UNCHANGED sess
        BY <4>1
      <4>2. CASE \E k \in ServerKeys \cup {NoKey} :
                   sess' = [sess EXCEPT ![s].att = k, ![s].mutual = Mutual]
        BY <1>1, <1>3, <4>2 DEF Session
      <4> QED
        BY <3>1, <4>1, <4>2 DEF Exchange
    <3>2. CASE AwaitHello(w)
      BY <1>1, <1>3, <3>2 DEF AwaitHello, Session
    <3>3. CASE GiveUp(w)
      BY <1>1, <1>3, <3>3 DEF GiveUp, Session
    <3>4. CASE SendVerdict(w)
      BY <1>1, <1>3, <3>4 DEF SendVerdict, Session
    <3>5. CASE Finish(w)
      BY <1>1, <1>3, <3>5 DEF Finish, Session
    <3>6. CASE Count(w)
      <4>1. sess'[t] = [sess[t] EXCEPT !.fin = TRUE, !.counted = sess[t].allowed]
        BY <1>3, <3>6 DEF Count
      <4>2. sess'[t].success = sess[t].success /\ sess'[t].counted = sess[t].allowed
        BY <1>1, <4>1 DEF Session
      <4>3. sess[t].allowed => sess[t].verify
        BY DEF OwnInv, AllowedIsVerified
      <4> QED
        BY <4>2, <4>3
    <3>7. CASE UNCHANGED sess
      BY <3>7
    <3> QED
      BY <3>1, <3>2, <3>3, <3>4, <3>5, <3>6, <3>7
         DEF ControlWorker, TakeJob, QueueDecision, WaitGate, ExitWorker
  <2> QED
    BY <1>1, <2>1, <2>2, <2>3 DEF Tallied
<1> QED
  BY <1>1, <1>2, <1>3

LEMMA SessionsTally ==
  ASSUME TypeOK, OwnInv, Next
  PROVE  \/ /\ DOMAIN sess' = DOMAIN sess /\ sess' \in Seq(Session)
            /\ \A t \in DOMAIN sess : Tallied(sess[t], sess'[t])
         \/ /\ Len(sess) < Expected
            /\ \E f \in Flows, ch \in HelloKeys : sess' = Append(sess, NewSession(f, ch))
<1>0. sess' \in Seq(Session)
  BY TypeCorrectStep DEF TypeOK
<1>1. CASE UNCHANGED sess
  BY <1>0, <1>1 DEF Tallied
<1>2. CASE \E g \in Flows : Kernel(g)
  BY <1>1, <1>2 DEF Kernel, Connect, RetransmitSyn, Establish, SendHello, SendData, SendBare,
                    Close, Overrun, control
<1>3. CASE \E g \in Flows : Callback(g)
  <2>1. PICK g \in Flows : Callback(g)
    BY <1>3
  <2>2. CASE HandleHello(g)
    <3>1. <<Head(inq[g]).conn, Head(inq[g]).n>> \in HelloKeys
      BY <2>2, HelloType DEF HandleHello
    <3>2. Len(sess) \in Nat /\ Expected \in Nat
      BY LenProperties, ConstantsAssumption DEF TypeOK
    <3> QED
      BY <1>1, <2>2, <3>1, <3>2 DEF HandleHello, ObserveHello
  <2> QED
    BY <1>1, <2>1, <2>2 DEF Callback, DropQuarantined, HandleSyn, HandleData, HandleBare, control
<1>4. CASE ApplyDecision
  <2> DEFINE d == Head(decisions)
  <2>1. d \in DOMAIN sess /\ \A t \in DOMAIN sess : sess[t] \in Session
    <3>1. decisions \in Seq(DOMAIN sess) /\ decisions # <<>>
      BY <1>4, QueueTypes DEF ApplyDecision
    <3> QED
      BY <3>1, HeadTailProperties, QueueTypes
  <2>2. \E allow \in BOOLEAN : sess' = [sess EXCEPT ![d].applied = TRUE, ![d].allowed = allow]
    BY <1>4 DEF ApplyDecision, Admit, Refuse, Decided
  <2> HIDE DEF d
  <2> QED
    BY <1>0, <2>1, <2>2 DEF Tallied, Session
<1>5. ASSUME NEW g \in Flows, NEW x \in ServerKeys, HandleServerHello(g, x)
      PROVE  DOMAIN sess' = DOMAIN sess /\ \A t \in DOMAIN sess : Tallied(sess[t], sess'[t])
  <2>1. DOMAIN sess' = DOMAIN sess
    BY <1>5 DEF HandleServerHello
  <2>2. ASSUME NEW t \in DOMAIN sess PROVE Tallied(sess[t], sess'[t])
    <3>1. sess'[t] = sess[t] \/ sess'[t] = [sess[t] EXCEPT !.sh = x]
      BY <1>5 DEF HandleServerHello
    <3>2. sess[t] \in Session
      BY QueueTypes
    <3> QED
      BY <3>1, <3>2 DEF Tallied, Session
  <2> QED
    BY <2>1, <2>2
<1>6. CASE GateThread /\ ~(\E g \in Flows : Callback(g))
  BY <1>0, <1>1, <1>4, <1>5, <1>6 DEF GateThread, ExpireGate, ForgetGate, Stop, Joined, Exit, control
<1>7. ASSUME NEW w \in Workers, ControlWorker(w)
      PROVE  DOMAIN sess' = DOMAIN sess /\ \A t \in DOMAIN sess : Tallied(sess[t], sess'[t])
  BY <1>7, WorkerTallies, WorkerSess
<1> QED
  BY <1>0, <1>2, <1>3, <1>6, <1>7 DEF Next

LEMMA CountedStep ==
  ASSUME GateInv, CountedIsVerified, Next
  PROVE  CountedIsVerified'
<1>0. /\ TypeOK /\ OwnInv /\ sess \in Seq(Session) /\ Len(sess) \in Nat /\ Expected \in Nat
      /\ DOMAIN sess = 1 .. Len(sess) /\ \A t \in DOMAIN sess : sess[t] \in Session
  BY LenProperties, ConstantsAssumption, QueueTypes DEF GateInv, OwnInv, TypeOK
<1>1. CASE /\ DOMAIN sess' = DOMAIN sess /\ sess' \in Seq(Session)
           /\ \A t \in DOMAIN sess : Tallied(sess[t], sess'[t])
  <2>1. Len(sess') = Len(sess)
    BY <1>0, <1>1, LenProperties
  <2> QED
    BY <1>1, <2>1 DEF CountedIsVerified, Tallied
<1>2. ASSUME Len(sess) < Expected, NEW f \in Flows, NEW ch \in HelloKeys,
             sess' = Append(sess, NewSession(f, ch))
      PROVE  CountedIsVerified'
  <2> DEFINE new == NewSession(f, ch)
  <2>1. new \in Session /\ ~new.counted /\ ~new.success
    BY DEF NewSession, Session
  <2> HIDE DEF new
  <2>2. /\ Len(sess') = Len(sess) + 1
        /\ \A t \in DOMAIN sess' : (t \in DOMAIN sess /\ sess'[t] = sess[t]) \/ sess'[t] = new
    BY <1>0, <1>2, <2>1 DEF new
  <2>3. Len(sess') <= Expected
    BY <1>0, <1>2, <2>2
  <2> QED
    BY <2>1, <2>2, <2>3 DEF CountedIsVerified
<1> QED
  BY <1>0, <1>1, <1>2, SessionsTally

\* What is counted was verified, however late a decision comes.
LEMMA CountedInvariance == Spec => []CountedIsVerified
<1>1. Init => CountedIsVerified
  <2>1. ASSUME Init PROVE CountedIsVerified
    <3>1. sess = <<>> /\ Expected \in Nat /\ Len(sess) = 0
      BY <2>1, ConstantsAssumption DEF Init
    <3> QED
      BY <3>1 DEF CountedIsVerified
  <2> QED
    BY <2>1
<1>2. GateInv /\ CountedIsVerified /\ [Next]_vars => CountedIsVerified'
  <2>1. UNCHANGED vars /\ CountedIsVerified => CountedIsVerified'
    BY DEF vars, CountedIsVerified
  <2> QED
    BY <2>1, CountedStep
<1> QED
  BY <1>1, <1>2, Invariance, PTL DEF Spec

\* As many members of 1 .. n as there can be are all of them.
LEMMA AllCounted ==
  ASSUME NEW n \in Nat, NEW S \in SUBSET (1 .. n), NEW m \in Nat, n <= m, Cardinality(S) = m
  PROVE  S = 1 .. n /\ n = m
<1>1. IsFiniteSet(1 .. n) /\ Cardinality(1 .. n) = n
  BY FS_Interval
<1>2. Cardinality(S) <= n /\ (Cardinality(S) = n => S = 1 .. n)
  BY <1>1, FS_Subset
<1> QED
  BY <1>1, <1>2

\* A client that exits with success has a verified proof for as many sessions as were
\* expected, and each of them got its verdict: no other session is counted, and none twice.
THEOREM CompleteHonest == Spec => []CompleteIsHonest
<1>1. GateInv /\ CountedIsVerified => CompleteIsHonest
  <2> SUFFICES ASSUME GateInv, CountedIsVerified, Complete
               PROVE  /\ Len(sess) = Expected
                      /\ \A s \in DOMAIN sess :
                           sess[s].verdict # "unsent" /\ Proves(s, sess[s].flow, sess[s].ch)
    BY DEF CompleteIsHonest
  <2>1. Len(sess) \in Nat /\ Expected \in Nat /\ DOMAIN sess = 1 .. Len(sess)
    BY LenProperties, ConstantsAssumption DEF GateInv, TypeOK
  <2> DEFINE F == {s \in DOMAIN sess : sess[s].fin}
             C == {s \in DOMAIN sess : sess[s].counted}
  <2>2. Cardinality(F) = Expected /\ Cardinality(C) = Expected
    BY DEF Complete
  <2>3. F \in SUBSET (1 .. Len(sess)) /\ C \in SUBSET (1 .. Len(sess)) /\ Len(sess) <= Expected
    BY <2>1 DEF CountedIsVerified
  <2>4. F = DOMAIN sess /\ C = DOMAIN sess /\ Len(sess) = Expected
    <3> HIDE DEF F, C
    <3> QED
      BY <2>1, <2>2, <2>3, AllCounted
  <2>5. ASSUME NEW s \in DOMAIN sess
        PROVE  sess[s].verdict # "unsent" /\ Proves(s, sess[s].flow, sess[s].ch)
    <3>1. sess[s].fin /\ sess[s].counted
      BY <2>4
    <3>2. sess[s].success
      BY <3>1 DEF Complete
    <3> QED
      BY <3>1, <3>2 DEF CountedIsVerified, GateInv, VerifyIsProof
  <2> QED
    BY <2>4, <2>5
<1> QED
  BY <1>1, Invariance, CountedInvariance, PTL

-----------------------------------------------------------------------------
(* ClientGate implements Latch.  The step that verifies a report proves;     *)
(* the gate thread's steps arm, teach, open, block and forget latches; all   *)
(* others leave the latches alone, or at most cut the endpoint off.          *)

Latches == [f \in Flows |-> LatchOf(f)]
Proofs == {ProofOf(s) : s \in {t \in DOMAIN sess : sess[t].verify}}

-----------------------------------------------------------------------------
(* The proofs.                                                               *)

\* Only the worker that awaits the ServerHello verifies a session.
LEMMA VerifiedWas ==
  ASSUME TypeOK, OwnInv, Next, NEW s, NEW f, NEW ch, NEW k, Verified(s, f, ch, k)'
  PROVE  Verified(s, f, ch, k) \/ \E w \in Workers : AwaitHello(w)
<1>1. CASE UNCHANGED sess
  BY <1>1 DEF Verified
<1>2. CASE \E g \in Flows : Kernel(g)
  BY <1>1, <1>2 DEF Kernel, Connect, RetransmitSyn, Establish, SendHello, SendData, SendBare,
                    Close, Overrun, control
<1>3. CASE \E g \in Flows, c \in HelloKeys : sess' = Append(sess, NewSession(g, c))
  <2>1. PICK g \in Flows, c \in HelloKeys : sess' = Append(sess, NewSession(g, c))
    BY <1>3
  <2>2. sess \in Seq(Session) /\ NewSession(g, c) \in Session
    BY DEF TypeOK, NewSession, Session
  <2>3. ~NewSession(g, c).verify
    BY DEF NewSession
  <2> QED
    BY <2>1, <2>2, <2>3, AppendFacts DEF Verified
<1>4. CASE \E g \in Flows : Callback(g)
  <2>1. PICK g \in Flows : Callback(g)
    BY <1>4
  <2>2. CASE HandleHello(g)
    <3>1. <<Head(inq[g]).conn, Head(inq[g]).n>> \in HelloKeys
      BY <2>2, HelloType DEF HandleHello
    <3> QED
      BY <1>1, <1>3, <2>2, <3>1 DEF HandleHello, ObserveHello
  <2> QED
    BY <1>1, <2>1, <2>2 DEF Callback, DropQuarantined, HandleSyn, HandleData, HandleBare, control
<1>5. CASE ApplyDecision
  <2> DEFINE d == Head(decisions)
  <2>1. d \in DOMAIN sess /\ sess[d] \in Session
    <3>1. decisions \in Seq(DOMAIN sess) /\ decisions # <<>>
      BY <1>5, QueueTypes DEF ApplyDecision
    <3> QED
      BY <3>1, HeadTailProperties, QueueTypes
  <2>2. \E allow \in BOOLEAN : sess' = [sess EXCEPT ![d].applied = TRUE, ![d].allowed = allow]
    BY <1>5 DEF ApplyDecision, Admit, Refuse, Decided
  <2> HIDE DEF d
  <2> QED
    BY <2>1, <2>2 DEF Verified, Session
<1>6. ASSUME NEW g \in Flows, NEW x \in ServerKeys, HandleServerHello(g, x)
      PROVE  Verified(s, f, ch, k)
  <2>1. s \in DOMAIN sess /\ sess[s] \in Session
    BY <1>6, QueueTypes DEF HandleServerHello, Verified
  <2>2. \/ sess'[s] = sess[s]
        \/ sess[s].sh = NoKey /\ sess'[s] = [sess[s] EXCEPT !.sh = x]
    BY <1>6, <2>1 DEF HandleServerHello
  <2>3. sess[s].verify = sess'[s].verify
    BY <2>1, <2>2 DEF Session
  <2>4. sess[s].verify => sess[s].sh # NoKey
    BY <2>1 DEF OwnInv, VerifyIsProof, Proves
  <2> QED
    BY <2>1, <2>2, <2>3, <2>4 DEF Verified
<1>7. CASE GateThread /\ ~(\E g \in Flows : Callback(g))
  BY <1>1, <1>5, <1>6, <1>7 DEF GateThread, ExpireGate, ForgetGate, Stop, Joined, Exit, control
<1>8. ASSUME NEW w \in Workers, ControlWorker(w), ~AwaitHello(w)
      PROVE  Verified(s, f, ch, k)
  <2>1. DOMAIN sess' = DOMAIN sess /\ SessMove(w, s) /\ s \in DOMAIN sess
    BY <1>8, WorkerSess DEF Verified
  <2>2. sess'[s].verify = sess[s].verify
    <3>1. CASE At(w, "awaithello")
      BY <1>8, <3>1 DEF ControlWorker, TakeJob, Exchange, AwaitHello, QueueDecision, WaitGate, GiveUp,
                        SendVerdict, Finish, Count, ExitWorker, At
    <3> QED
      BY <2>1, <3>1 DEF SessMove
  <2> QED
    BY <2>1, <2>2 DEF Verified, SessMove
<1> QED
  BY <1>2, <1>4, <1>7, <1>8 DEF Next

LEMMA ProofsFact ==
  \A p : p \in Proofs <=> \E s, f, ch, k : p = <<f, ch, k>> /\ Verified(s, f, ch, k)
<1> QED
  BY DEF Proofs, ProofOf, Verified

\* Proofs are never taken back, and only an AwaitHello adds one.
LEMMA ProofsStep ==
  ASSUME TypeOK, OwnInv, Next
  PROVE  /\ Proofs \subseteq Proofs'
         /\ Proofs' = Proofs \/ \E w \in Workers : AwaitHello(w)
<1>1. \A p \in Proofs : p \in Proofs'
  BY VerifiedStays DEF Proofs, ProofOf, Verified
<1>2. (\A p \in Proofs' : p \in Proofs) \/ \E w \in Workers : AwaitHello(w)
  <2> SUFFICES ASSUME NEW s \in DOMAIN sess', sess'[s].verify,
                      ~\E w \in Workers : AwaitHello(w)
               PROVE  s \in DOMAIN sess /\ sess[s].verify /\ ProofOf(s)' = ProofOf(s)
    BY DEF Proofs
  <2>1. PICK f, ch, k : sess'[s].flow = f /\ sess'[s].ch = ch /\ sess'[s].sh = k
    OBVIOUS
  <2>2. Verified(s, f, ch, k)'
    BY <2>1 DEF Verified
  <2>3. Verified(s, f, ch, k)
    BY <2>2, VerifiedWas
  <2> QED
    BY <2>1, <2>3 DEF Verified, ProofOf
<1> QED
  BY <1>1, <1>2

LEMMA ProveStep ==
  ASSUME TypeOK, OwnInv, OwnInv', Next, NEW w \in Workers, AwaitHello(w)
  PROVE  \/ Proofs' = Proofs
         \/ \E p \in Flows \X HelloKeys \X ServerKeys : Proofs' = Proofs \cup {p}
<1> DEFINE s == worker[w].s
<1>1. Busy(w) /\ s \in DOMAIN sess /\ sess[s] \in Session /\ ControlWorker(w)
  BY QueueTypes DEF AwaitHello, At, Busy, ControlWorker
<1>2. /\ DOMAIN sess' = DOMAIN sess
      /\ \A t \in DOMAIN sess : /\ t # s => sess'[t] = sess[t]
                                /\ ProofOf(t)' = ProofOf(t)
  BY <1>1, WorkerSess DEF SessMove, ProofOf
<1>3. ~sess[s].verify
  BY DEF OwnInv, WorkIsFresh, FreshWorker, Unproved, AwaitHello, At
<1>4. CASE ~sess'[s].verify
  BY <1>1, <1>2, <1>3, <1>4 DEF Proofs
<1>5. CASE sess'[s].verify
  <2>1. Proofs' = Proofs \cup {ProofOf(s)}
    BY <1>1, <1>2, <1>5 DEF Proofs
  <2>2. sess[s].sh \in ServerKeys
    <3>1. sess'[s].sh = sess[s].sh
      BY <1>1, WorkerSess DEF SessMove
    <3>2. sess'[s].sh # NoKey
      BY <1>1, <1>2, <1>5 DEF OwnInv, VerifyIsProof, Proves
    <3> QED
      BY <1>1, <3>1, <3>2 DEF Session
  <2>3. ProofOf(s) \in Flows \X HelloKeys \X ServerKeys
    BY <1>1, <2>2, SessType DEF ProofOf
  <2> QED
    BY <2>1, <2>3
<1> QED
  BY <1>4, <1>5

-----------------------------------------------------------------------------
(* The latches.                                                              *)

\* A latch depends only on these three fields of its gate.
SameLatch(g) ==
  gate'[g].state = gate[g].state /\ gate'[g].ch = gate[g].ch /\ gate'[g].sh = gate[g].sh

LEMMA LatchKept ==
  ASSUME NEW g \in Flows,
         \/ SameLatch(g)
         \/ /\ Undecided(g) /\ Undecided(g)'
            /\ gate'[g].ch = gate[g].ch /\ gate'[g].sh = gate[g].sh
  PROVE  LatchOf(g)' = LatchOf(g)
<1> QED
  BY DEF SameLatch, LatchOf, Undecided

LEMMA LatchStates ==
  ASSUME NEW g \in Flows
  PROVE  /\ gate[g].state = "none" => LatchOf(g).st = "none"
         /\ Undecided(g) => LatchOf(g).st = "pending"
         /\ gate[g].state = "admitted" => LatchOf(g).st = "open"
         /\ gate[g].state = "denied" => LatchOf(g).st = "blocked"
         /\ LatchOf(g).hello = gate[g].ch
         /\ LatchOf(g).key = gate[g].sh
<1> QED
  BY DEF LatchOf, Undecided

LEMMA OneLatch ==
  ASSUME NEW f \in Flows, NEW e,
         \A g \in Flows \ {f} : LatchOf(g)' = LatchOf(g),
         LatchOf(f)' = e
  PROVE  Latches' = [Latches EXCEPT ![f] = e]
<1> QED
  BY DEF Latches

LEMMA AllLatches ==
  ASSUME \A g \in Flows : LatchOf(g)' = LatchOf(g)
  PROVE  Latches' = Latches
<1> QED
  BY DEF Latches

LEMMA LatchInitially == Init => L!LatchInit
<1> SUFFICES ASSUME Init PROVE L!LatchInit
  OBVIOUS
<1>1. \A f \in Flows : LatchOf(f) = [st |-> "none", hello |-> NoHello, key |-> NoKey]
  <2> TAKE f \in Flows
  <2>1. gate[f] = NoGate
    BY DEF Init
  <2>2. gate[f].state = "none" /\ gate[f].ch = NoHello /\ gate[f].sh = NoKey
    BY <2>1 DEF NoGate
  <2> QED
    BY <2>2 DEF LatchOf, Undecided
<1>2. {ProofOf(s) : s \in {t \in DOMAIN sess : sess[t].verify}} = {}
  BY DEF Init
<1>3. quarantined = FALSE
  BY DEF Init
<1> QED
  BY <1>1, <1>2, <1>3 DEF L!LatchInit, L!Unarmed

\* A step of the gate that is no step of any latch.
LEMMA StutterOrCut ==
  ASSUME Latches' = Latches, Proofs' = Proofs, quarantined' = quarantined \/ quarantined' = TRUE
  PROVE  L!LatchNext \/ UNCHANGED L!latchVars
<1> QED
  BY DEF L!LatchNext, L!Cut, L!latchVars, Latches, Proofs

LEMMA LatchStep ==
  ASSUME GateInv, GateInv', Next
  PROVE  L!LatchNext \/ UNCHANGED L!latchVars
<1>0. /\ TypeOK /\ OwnInv /\ OwnInv'
      /\ gate \in [Flows -> Gate]
      /\ \A g \in Flows : gate[g] \in Gate
  BY DEF GateInv, OwnInv, TypeOK
<1>b. ~quarantined /\ ~quarantined' => quarantined' = quarantined
  <2>1. quarantined \in BOOLEAN /\ quarantined' \in BOOLEAN
    BY DEF GateInv, TypeOK
  <2> QED
    BY <2>1
<1>a. ASSUME \A w \in Workers : ~AwaitHello(w)
      PROVE  Proofs' = Proofs
  BY <1>0, <1>a, ProofsStep
<1>1. CASE \E w \in Workers : ControlWorker(w)
  <2>1. PICK w \in Workers : ControlWorker(w)
    BY <1>1
  <2>2. gate' = gate /\ quarantined' = quarantined
    BY <2>1 DEF ControlWorker, TakeJob, Exchange, AwaitHello, QueueDecision, WaitGate, GiveUp,
                SendVerdict, Finish, Count, ExitWorker, WorkerLocal
  <2>3. Latches' = Latches
    BY <2>2, LatchKept, AllLatches DEF SameLatch
  <2>4. CASE \E v \in Workers : AwaitHello(v)
    <3>1. \/ Proofs' = Proofs
          \/ \E p \in Flows \X HelloKeys \X ServerKeys : Proofs' = Proofs \cup {p}
      BY <1>0, <2>4, ProveStep
    <3>2. ASSUME NEW p \in Flows \X HelloKeys \X ServerKeys, Proofs' = Proofs \cup {p}
          PROVE  L!LatchNext
      BY <2>2, <2>3, <3>2 DEF L!LatchNext, L!Prove, L!Proof, Latches, Proofs
    <3> QED
      BY <2>2, <2>3, <3>1, <3>2, StutterOrCut
  <2> QED
    BY <1>a, <2>2, <2>3, <2>4, StutterOrCut
<1>2. CASE ~\E w \in Workers : ControlWorker(w)
  <2>0. Proofs' = Proofs
    BY <1>a, <1>2 DEF ControlWorker
  <2>1. quarantined' = quarantined \/ quarantined' = TRUE
    BY <1>2 DEF Next, GateThread, Kernel, Connect, RetransmitSyn, Establish,
       SendHello, SendData, SendBare, Close, Overrun, Callback, DropQuarantined, HandleSyn, HandleHello,
       HandleData, HandleBare, Authorize, Quarantine, HandleServerHello, ExpireGate, ForgetGate,
       ApplyDecision, Admit, Refuse, Stop, Joined, Exit
  <2>2. CASE \A g \in Flows : LatchOf(g)' = LatchOf(g)
    BY <2>0, <2>1, <2>2, AllLatches, StutterOrCut
  <2>3. CASE \E f \in Flows : Kernel(f)
    <3>1. gate' = gate
      BY <2>3 DEF Kernel, Connect, RetransmitSyn, Establish, SendHello, SendData, SendBare, Close, Overrun
    <3> QED
      BY <2>2, <3>1, LatchKept DEF SameLatch
  <2>4. ASSUME NEW f \in Flows, \A g \in Flows \ {f} : gate'[g] = gate[g], GateMove(f),
               ~Admitted(f)
        PROVE  L!LatchNext \/ UNCHANGED L!latchVars
    <3>1. \A g \in Flows \ {f} : LatchOf(g)' = LatchOf(g)
      BY <2>4, LatchKept DEF SameLatch
    <3>2. \A e : LatchOf(f)' = e => Latches' = [Latches EXCEPT ![f] = e]
      BY <3>1, OneLatch
    <3>3. Latches[f] = LatchOf(f)
      BY DEF Latches
    <3>4. gate[f] \in Gate
      BY <1>0
    <3>5. CASE Stays(f) \/ Dropped(f)
      <4>1. SameLatch(f)
        BY <3>4, <3>5 DEF Stays, Dropped, Gate, SameLatch
      <4> QED
        BY <2>2, <3>1, <4>1, LatchKept
    <3>6. CASE Grown(f)
      <4>1. SameLatch(f)
        BY <3>4, <3>6 DEF Grown, Gate, SameLatch
      <4> QED
        BY <2>2, <3>1, <4>1, LatchKept
    <3>7. ASSUME NEW h \in HelloKeys \cup {NoHello}, gate'[f] = FreshGate(h, sock[f].id),
                 ~quarantined, ~quarantined'
          PROVE  L!LatchNext
      <4>1. LatchOf(f)' = [st |-> "pending", hello |-> h, key |-> NoKey]
        <5>1. gate'[f].state = "handshake" /\ gate'[f].ch = h /\ gate'[f].sh = NoKey
          BY <3>7 DEF FreshGate
        <5> QED
          BY <5>1 DEF LatchOf, Undecided
      <4>2. L!Arm(f, h)
        BY <1>b, <2>0, <3>2, <3>7, <4>1 DEF L!Arm, Latches, Proofs
      <4> QED
        BY <3>7, <4>2 DEF L!LatchNext
    <3>8. CASE Rearmed(f)
      BY <3>7, <3>8 DEF Rearmed
    <3>9. CASE Armed(f)
      <4>1. <<Head(inq[f]).conn, Head(inq[f]).n>> \in HelloKeys
        <5>1. Head(inq[f]) \in Packet /\ Head(inq[f]).kind = "hello"
          BY <1>0, <3>9, HeadTailProperties DEF Armed, Taken, TypeOK
        <5> QED
          BY <5>1 DEF Packet, HelloKeys
      <4> QED
        BY <3>7, <3>9, <4>1 DEF Armed
    <3>10. CASE Learned(f)
      <4>1. PICK k \in ServerKeys : gate'[f] = [gate[f] EXCEPT !.sh = k, !.state = "serverhello"]
        BY <3>10 DEF Learned
      <4>2. gate[f].ch # NoHello /\ gate[f].sh = NoKey /\ ~quarantined /\ ~quarantined'
        BY <3>10 DEF Learned
      <4>3. Undecided(f)
        <5>1. gate[f].state # "denied"
          BY <4>2 DEF GateInv, DeniedIsQuarantined
        <5>2. gate[f].state # "none"
          BY <4>2 DEF GateInv, GateIsCurrent, Current, Live
        <5>3. gate[f].state # "admitted"
          BY <4>2 DEF GateInv, AdmittedIsVerified, VerifyIsProof, Proves
        <5> QED
          BY <3>4, <5>1, <5>2, <5>3 DEF Gate, Undecided
      <4>4. LatchOf(f) = [st |-> "pending", hello |-> gate[f].ch, key |-> NoKey]
        BY <4>2, <4>3 DEF LatchOf, Undecided
      <4>5. LatchOf(f)' = [st |-> "pending", hello |-> gate[f].ch, key |-> k]
        <5>1. gate'[f].state = "serverhello" /\ gate'[f].ch = gate[f].ch /\ gate'[f].sh = k
          BY <3>4, <4>1 DEF Gate
        <5> QED
          BY <5>1 DEF LatchOf, Undecided
      <4>6. Latches' = [Latches EXCEPT ![f].key = k]
        BY <3>2, <3>3, <4>4, <4>5 DEF Latches
      <4>7. L!Learn(f, k)
        BY <1>b, <2>0, <4>2, <3>3, <4>4, <4>6 DEF L!Learn, Latches, Proofs
      <4> QED
        BY <4>7 DEF L!LatchNext
    <3>11. CASE Denied(f)
      <4>1. LatchOf(f)' = [LatchOf(f) EXCEPT !.st = "blocked"]
        <5>1. gate'[f].state = "denied" /\ gate'[f].ch = gate[f].ch /\ gate'[f].sh = gate[f].sh
          BY <3>4, <3>11 DEF Denied, Gate
        <5> QED
          BY <5>1 DEF LatchOf, Undecided
      <4>2. Latches' = [Latches EXCEPT ![f].st = "blocked"]
        BY <3>2, <3>3, <4>1
      <4>3. L!Block(f)
        BY <1>0, <2>0, <2>1, <3>11, <4>2 DEF L!Block, Latches, Proofs, Denied
      <4> QED
        BY <4>3 DEF L!LatchNext
    <3>12. CASE Forgotten(f)
      <4>1. LatchOf(f)' = [st |-> "none", hello |-> NoHello, key |-> NoKey]
        <5>1. gate'[f].state = "none" /\ gate'[f].ch = NoHello /\ gate'[f].sh = NoKey
          BY <3>12 DEF Forgotten, NoGate
        <5> QED
          BY <5>1 DEF LatchOf, Undecided
      <4>2. LatchOf(f).st \in {"open", "blocked"}
        BY <3>12, LatchStates DEF Forgotten
      <4>3. L!Forget(f)
        BY <2>0, <3>2, <3>12, <4>1, <4>2 DEF L!Forget, L!Unarmed, Latches, Proofs, Forgotten
      <4> QED
        BY <4>3 DEF L!LatchNext
    <3> QED
      BY <2>4, <3>5, <3>6, <3>8, <3>9, <3>10, <3>11, <3>12 DEF GateMove
  <2>5. ASSUME NEW f \in Flows, \A g \in Flows \ {f} : gate'[g] = gate[g], Admitted(f)
        PROVE  L!LatchNext
    <3> DEFINE d == Head(decisions)
    <3>1. \A g \in Flows \ {f} : LatchOf(g)' = LatchOf(g)
      BY <2>5, LatchKept DEF SameLatch
    <3>2. LatchOf(f)' = [LatchOf(f) EXCEPT !.st = "open"]
      <4>1. gate'[f].state = "admitted" /\ gate'[f].ch = gate[f].ch /\ gate'[f].sh = gate[f].sh
        BY <1>0, <2>5 DEF Admitted, Gate
      <4> QED
        BY <4>1 DEF LatchOf, Undecided
    <3>3. Latches[f] = LatchOf(f)
      BY DEF Latches
    <3>4. Latches' = [Latches EXCEPT ![f].st = "open"]
      BY <3>1, <3>2, <3>3, OneLatch
    <3>5. <<f, gate[f].ch, gate[f].sh>> \in Proofs
      <4>1. d \in DOMAIN sess
        BY <1>0, <2>5, HeadTailProperties, QueueTypes DEF Admitted
      <4> QED
        BY <2>5, <4>1 DEF Admitted, Matches, Admissible, Proofs, ProofOf
    <3>6. LatchOf(f).hello = gate[f].ch /\ LatchOf(f).key = gate[f].sh
      BY LatchStates
    <3>7. L!Open(f)
      BY <1>b, <2>0, <2>5, <3>3, <3>4, <3>5, <3>6 DEF L!Open, Latches, Proofs, Admitted
    <3> QED
      BY <3>7 DEF L!LatchNext
  <2>6. ASSUME NEW f \in Flows, \A g \in Flows \ {f} : gate'[g] = gate[g]
        PROVE  L!LatchNext \/ UNCHANGED L!latchVars
    BY <1>0, <2>4, <2>5, <2>6, GateMoves
  <2>7. CASE \E f \in Flows : Callback(f)
    BY <1>0, <2>6, <2>7 DEF Callback, DropQuarantined, HandleSyn, HandleHello, HandleData, HandleBare
  <2>8. ASSUME NEW f \in Flows, NEW k \in ServerKeys, HandleServerHello(f, k)
        PROVE  L!LatchNext \/ UNCHANGED L!latchVars
    BY <1>0, <2>6, <2>8 DEF HandleServerHello
  <2>9. ASSUME NEW f \in Flows, ExpireGate(f) \/ ForgetGate(f)
        PROVE  L!LatchNext \/ UNCHANGED L!latchVars
    BY <1>0, <2>6, <2>9 DEF ExpireGate, ForgetGate
  <2>10. CASE ApplyDecision
    <3> DEFINE f == sess[Head(decisions)].flow
    <3>1. f \in Flows
      <4>1. decisions \in Seq(DOMAIN sess) /\ decisions # <<>>
        BY <1>0, <2>10, QueueTypes DEF ApplyDecision
      <4> QED
        BY <1>0, <4>1, HeadTailProperties, SessType
    <3>2. \A g \in Flows \ {f} : gate'[g] = gate[g]
      BY <1>0, <2>10 DEF ApplyDecision, Admit, Refuse
    <3> QED
      BY <2>6, <3>1, <3>2
  <2>11. CASE Stop \/ Joined
    BY <2>2, <2>11, LatchKept DEF Stop, Joined, SameLatch
  <2>12. CASE Exit
    <3>1. \A g \in Flows : SameLatch(g)
      BY <1>0, <2>12 DEF Exit, SameLatch, Gate
    <3> QED
      BY <2>2, <3>1, LatchKept
  <2> QED
    BY <1>2, <2>3, <2>7, <2>8, <2>9, <2>10, <2>11, <2>12 DEF Next, GateThread
<1> QED
  BY <1>1, <1>2

\* The agent implements the latch: whatever its threads, queues and tables do, a
\* connection's latch opens only on a proof of the handshake it was armed with,
\* and not after the endpoint was cut off.
THEOREM Refinement == Spec => LatchSpec
<1>1. GateInv /\ UNCHANGED vars => UNCHANGED L!latchVars
  BY DEF vars, L!latchVars, LatchOf, Undecided, ProofOf
<1>2. GateInv /\ GateInv' /\ [Next]_vars => [L!LatchNext]_(L!latchVars)
  BY <1>1, LatchStep
<1> QED
  BY <1>2, LatchInitially, Invariance, PTL DEF Spec, LatchSpec, L!LatchSpec

-----------------------------------------------------------------------------
(* No session is lost.                                                       *)

\* A session that is not finished waits for a worker or has one.
Queued(s) == \E i \in DOMAIN jobs : jobs[i] = s
HasWorker(s) == \E w \in Workers : Busy(w) /\ worker[w].s = s
SessionIsInHand == \A s \in DOMAIN sess : ~sess[s].fin => Queued(s) \/ HasWorker(s)

\* As long as the job queue has room for every expected session, none is turned away.
InHandInv == Len(jobs) <= Len(sess) /\ (Expected <= QueueCap => SessionIsInHand)

\* Steps of the kernel and the gate thread that start no session.
LEMMA InHandFrame ==
  ASSUME TypeOK, TypeOK', InHandInv, UNCHANGED <<jobs, worker>>, DOMAIN sess' = DOMAIN sess,
         \A s \in DOMAIN sess : sess'[s].fin = sess[s].fin
  PROVE  InHandInv'
<1>1. Len(sess') = Len(sess)
  BY LenProperties DEF TypeOK
<1> QED
  BY <1>1 DEF InHandInv, SessionIsInHand, Queued, HasWorker, Busy

\* A session is started with its job.
LEMMA InHandObserve ==
  ASSUME TypeOK, InHandInv, NEW f \in Flows, NEW ch \in HelloKeys, Len(sess) < Expected,
         sess' = Append(sess, NewSession(f, ch)),
         jobs' = IF Len(jobs) < QueueCap THEN Append(jobs, Len(sess) + 1) ELSE jobs,
         UNCHANGED worker
  PROVE  InHandInv'
<1> DEFINE e == NewSession(f, ch)
<1>0. PICK n : n = Len(sess) + 1
  OBVIOUS
<1>1. /\ sess \in Seq(Session) /\ jobs \in Seq(Nat) /\ e \in Session /\ n \in Nat
      /\ Expected \in Nat /\ QueueCap \in Nat
  <2>1. sess \in Seq(Session) /\ e \in Session
    BY DEF TypeOK, NewSession, Session
  <2>2. Len(sess) \in Nat /\ DOMAIN sess = 1 .. Len(sess)
    BY <2>1, LenProperties
  <2>3. jobs \in Seq(DOMAIN sess) /\ DOMAIN sess \subseteq Nat
    BY <2>2, QueueTypes
  <2>4. jobs \in Seq(Nat)
    BY <2>3, SeqMonotonic
  <2> QED
    BY <1>0, <2>1, <2>2, <2>4, ConstantsAssumption
<1>2. /\ DOMAIN sess' = DOMAIN sess \cup {n} /\ Len(sess') = n
      /\ \A s \in DOMAIN sess : sess'[s] = sess[s]
  <2> HIDE DEF e
  <2> QED
    BY <1>0, <1>1, AppendFacts, AppendProperties DEF e
<1>3. /\ Len(jobs) \in Nat
      /\ DOMAIN Append(jobs, n) = DOMAIN jobs \cup {Len(jobs) + 1}
      /\ \A i \in DOMAIN jobs : Append(jobs, n)[i] = jobs[i]
      /\ Append(jobs, n)[Len(jobs) + 1] = n
      /\ Len(Append(jobs, n)) = Len(jobs) + 1
  BY <1>1, AppendFacts, AppendProperties
<1>4. Len(sess) \in Nat /\ Len(jobs) <= Len(sess) /\ Len(jobs') <= Len(sess')
  BY <1>0, <1>1, <1>2, <1>3, LenProperties DEF InHandInv
<1>5. ASSUME Expected <= QueueCap PROVE SessionIsInHand'
  <2>1. jobs' = Append(jobs, n)
    BY <1>0, <1>1, <1>3, <1>4, <1>5
  <2>2. DOMAIN jobs' = DOMAIN jobs \cup {Len(jobs) + 1} /\ jobs'[Len(jobs) + 1] = n
        /\ \A i \in DOMAIN jobs : jobs'[i] = jobs[i]
    BY <1>3, <2>1
  <2>3. \A s : Queued(s) \/ s = n => Queued(s)'
    BY <2>2 DEF Queued
  <2>4. \A s : HasWorker(s) => HasWorker(s)'
    BY DEF HasWorker, Busy
  <2> QED
    BY <1>2, <1>5, <2>3, <2>4 DEF InHandInv, SessionIsInHand
<1> QED
  BY <1>4, <1>5 DEF InHandInv

LEMMA InHandTake ==
  ASSUME TypeOK, InHandInv, NEW w \in Workers, TakeJob(w)
  PROVE  InHandInv'
<1>1. /\ worker[w].pc = "idle" /\ jobs # <<>> /\ jobs' = Tail(jobs) /\ UNCHANGED sess
      /\ jobs \in Seq(DOMAIN sess) /\ Len(sess) \in Nat
  BY QueueTypes, LenProperties DEF TakeJob, At, TypeOK
<1>2. /\ worker'[w].pc \in {"exchange", "denyconnect"} /\ worker'[w].s = Head(jobs)
      /\ \A v \in Workers \ {w} : worker'[v] = worker[v]
  <2>1. PICK up \in BOOLEAN :
          worker' = [worker EXCEPT ![w] = [IdleWorker(up) EXCEPT
                      !.pc = IF up THEN "exchange" ELSE "denyconnect", !.s = Head(jobs)]]
    BY DEF TakeJob
  <2> DEFINE e == [IdleWorker(up) EXCEPT
                     !.pc = IF up THEN "exchange" ELSE "denyconnect", !.s = Head(jobs)]
  <2>2. e.s = Head(jobs) /\ e.pc \in {"exchange", "denyconnect"}
    BY DEF IdleWorker
  <2>3. worker' = [worker EXCEPT ![w] = e]
    BY <2>1
  <2> HIDE DEF e
  <2> QED
    BY <2>2, <2>3 DEF TypeOK
<1>3. /\ Len(jobs) \in Nat /\ Len(jobs') = Len(jobs) - 1 /\ Head(jobs) = jobs[1]
      /\ DOMAIN jobs = 1 .. Len(jobs) /\ DOMAIN jobs' = 1 .. Len(jobs) - 1
      /\ \A i \in 1 .. Len(jobs) - 1 : jobs'[i] = jobs[i + 1]
  <2>1. jobs' \in Seq(DOMAIN sess) /\ Len(jobs') = Len(jobs) - 1
        /\ \A i \in 1 .. Len(jobs') : jobs'[i] = jobs[i + 1]
    BY <1>1, HeadTailProperties
  <2> QED
    BY <1>1, <2>1, LenProperties, TailFacts
<1>4. \A s : s = Head(jobs) => HasWorker(s)'
  BY <1>2 DEF HasWorker, Busy
<1>5. \A s : HasWorker(s) => HasWorker(s)'
  BY <1>1, <1>2 DEF HasWorker, Busy
<1>6. ASSUME NEW s, Queued(s)
      PROVE  Queued(s)' \/ HasWorker(s)'
  <2>1. PICK i \in DOMAIN jobs : jobs[i] = s
    BY <1>6 DEF Queued
  <2>2. CASE i = 1
    BY <1>3, <1>4, <2>1, <2>2
  <2>3. CASE i # 1
    <3>1. i - 1 \in DOMAIN jobs' /\ jobs'[i - 1] = s
      BY <1>3, <2>1, <2>3
    <3> QED
      BY <3>1 DEF Queued
  <2> QED
    BY <2>2, <2>3
<1>7. Len(jobs') <= Len(sess')
  BY <1>1, <1>3 DEF InHandInv
<1>8. SessionIsInHand => SessionIsInHand'
  BY <1>1, <1>5, <1>6 DEF SessionIsInHand
<1> QED
  BY <1>7, <1>8 DEF InHandInv

\* A worker keeps its session until it is finished.
LEMMA InHandWork ==
  ASSUME TypeOK, TypeOK', InHandInv, NEW w \in Workers, ControlWorker(w), ~TakeJob(w)
  PROVE  InHandInv'
<1> DEFINE s == worker[w].s
<1>1. /\ jobs' = jobs
      /\ Busy(w)' => worker'[w].s = s
      /\ \A v \in Workers \ {w} : worker'[v] = worker[v]
      /\ Successor(worker[w].pc, worker'[w].pc)
  BY WorkerMoves DEF WorkerMove
<1>2. /\ DOMAIN sess' = DOMAIN sess
      /\ \A t \in DOMAIN sess : t # s \/ ~Busy(w) => sess'[t] = sess[t]
      /\ \A t \in DOMAIN sess : sess'[t].fin = sess[t].fin \/ At(w, "count")
  BY WorkerSess DEF SessMove
<1>3. Len(sess') = Len(sess) /\ Len(sess) \in Nat /\ Len(jobs') = Len(jobs)
  BY <1>1, <1>2, LenProperties DEF TypeOK
<1>4. \A t : Queued(t)' = Queued(t)
  BY <1>1 DEF Queued
<1>5. CASE Busy(w)'
  <2>1. ASSUME NEW t, HasWorker(t) PROVE HasWorker(t)'
    <3>1. PICK v \in Workers : Busy(v) /\ worker[v].s = t
      BY <2>1 DEF HasWorker
    <3>2. Busy(v)' /\ worker'[v].s = t
      BY <1>1, <1>5, <3>1 DEF Busy
    <3> QED
      BY <3>2 DEF HasWorker
  <2>2. \A t \in DOMAIN sess : sess'[t].fin = sess[t].fin
    BY <1>1, <1>2, <1>5 DEF Successor, At, Busy
  <2> QED
    BY <1>2, <1>3, <1>4, <2>1, <2>2 DEF InHandInv, SessionIsInHand
<1>6. CASE At(w, "idle")
  <2>1. \A t : HasWorker(t) => HasWorker(t)'
    BY <1>1, <1>6 DEF HasWorker, Busy, At
  <2>2. \A t \in DOMAIN sess : sess'[t] = sess[t]
    BY <1>2, <1>6 DEF Busy, At
  <2> QED
    BY <1>2, <1>3, <1>4, <2>1, <2>2 DEF InHandInv, SessionIsInHand
<1>7. CASE At(w, "count")
  <2>1. Count(w) /\ s \in DOMAIN sess /\ sess[s] \in Session
    BY <1>7, QueueTypes
    DEF ControlWorker, Exchange, AwaitHello, QueueDecision, WaitGate, GiveUp, SendVerdict,
        Finish, ExitWorker, At, Busy
  <2>2. sess'[s].fin
    BY <2>1 DEF Count, Session
  <2>3. \A t : t # s /\ HasWorker(t) => HasWorker(t)'
    BY <1>1 DEF HasWorker, Busy
  <2> QED
    BY <1>2, <1>3, <1>4, <2>2, <2>3 DEF InHandInv, SessionIsInHand
<1> QED
  BY <1>1, <1>5, <1>6, <1>7 DEF Successor, Busy, At

LEMMA InHandStep ==
  ASSUME GateInv, GateInv', CountedIsVerified, InHandInv, [Next]_vars
  PROVE  InHandInv'
<1>0. /\ TypeOK /\ TypeOK' /\ Len(sess) \in Nat /\ Expected \in Nat
      /\ \A t \in DOMAIN sess : sess[t] \in Session
  BY LenProperties, QueueTypes, ConstantsAssumption DEF GateInv, TypeOK
<1>1. CASE UNCHANGED control
  BY <1>0, <1>1, InHandFrame DEF control
<1>2. CASE \E f \in Flows : Kernel(f)
  BY <1>1, <1>2 DEF Kernel, Connect, RetransmitSyn, Establish, SendHello, SendData, SendBare,
                    Close, Overrun
<1>3. ASSUME NEW f \in Flows, HandleHello(f)
      PROVE  InHandInv'
  <2> DEFINE ch == <<Head(inq[f]).conn, Head(inq[f]).n>>
  <2>1. ch \in HelloKeys
    BY <1>0, <1>3, HelloType DEF HandleHello
  <2>2. \/ UNCHANGED control
        \/ /\ ~(Len(sess) >= Expected)
           /\ sess' = Append(sess, NewSession(f, ch))
           /\ jobs' = IF Len(jobs) < QueueCap THEN Append(jobs, Len(sess) + 1) ELSE jobs
           /\ UNCHANGED worker
    BY <1>3 DEF HandleHello, ObserveHello, control
  <2> HIDE DEF ch
  <2>3. ~(Len(sess) >= Expected) => Len(sess) < Expected
    BY <1>0
  <2> QED
    BY <1>0, <1>1, <2>1, <2>2, <2>3, InHandObserve
<1>4. CASE \E f \in Flows : Callback(f) /\ ~HandleHello(f)
  BY <1>1, <1>4 DEF Callback, DropQuarantined, HandleSyn, HandleData, HandleBare
<1>5. ASSUME NEW f \in Flows, NEW k \in ServerKeys, HandleServerHello(f, k)
      PROVE  InHandInv'
  <2>1. DOMAIN sess' = DOMAIN sess /\ UNCHANGED <<jobs, worker>>
    BY <1>5 DEF HandleServerHello
  <2>2. ASSUME NEW t \in DOMAIN sess PROVE sess'[t].fin = sess[t].fin
    <3>1. sess'[t] = sess[t] \/ sess'[t] = [sess[t] EXCEPT !.sh = k]
      BY <1>5 DEF HandleServerHello
    <3> QED
      BY <1>0, <3>1 DEF Session
  <2> QED
    BY <1>0, <2>1, <2>2, InHandFrame
<1>6. CASE ApplyDecision
  <2> DEFINE d == Head(decisions)
  <2>1. /\ UNCHANGED <<jobs, worker>>
        /\ \E allow \in BOOLEAN : sess' = [sess EXCEPT ![d].applied = TRUE, ![d].allowed = allow]
    BY <1>6 DEF ApplyDecision, Admit, Refuse, Decided
  <2> HIDE DEF d
  <2>2. DOMAIN sess' = DOMAIN sess /\ \A t \in DOMAIN sess : sess'[t].fin = sess[t].fin
    BY <1>0, <2>1 DEF Session
  <2> QED
    BY <1>0, <2>1, <2>2, InHandFrame
<1>7. CASE GateThread /\ ~(\E f \in Flows : Callback(f))
  BY <1>1, <1>5, <1>6, <1>7 DEF GateThread, ExpireGate, ForgetGate, Stop, Joined, Exit
<1>8. CASE \E w \in Workers : ControlWorker(w)
  BY <1>0, <1>8, InHandTake, InHandWork
<1>9. CASE UNCHANGED vars
  BY <1>1, <1>9 DEF vars, control
<1> QED
  BY <1>2, <1>3, <1>4, <1>7, <1>8, <1>9 DEF Next, GateThread

\* With no more sessions expected than the job queue has room for, a session that was
\* started is queued or in a worker's hands until it is finished: SessionFinishes rests on
\* this and on the workers' timeouts.  With more, client_observe_hello may drop the job and
\* the session stays unfinished (client_observe_hello, control_worker_main, finish_session).
THEOREM NoSessionIsLost == Spec => [](Expected <= QueueCap => SessionIsInHand)
<1>1. Init => InHandInv
  BY DEF Init, InHandInv, SessionIsInHand
<1>2. GateInv /\ GateInv' /\ CountedIsVerified /\ InHandInv /\ [Next]_vars => InHandInv'
  BY InHandStep
<1>3. InHandInv => (Expected <= QueueCap => SessionIsInHand)
  BY DEF InHandInv
<1> QED
  BY <1>1, <1>2, <1>3, Invariance, CountedInvariance, PTL DEF Spec
=============================================================================
