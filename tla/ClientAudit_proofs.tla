-------------------------- MODULE ClientAudit_proofs --------------------------
(***************************************************************************)
(* Theorems about ClientAudit, for every number of four-tuples, of          *)
(* connections, of hellos and of packets, and every capacity of the table   *)
(* and of the log.                                                         *)
(***************************************************************************)
EXTENDS ClientAudit, FiniteSetTheorems, TLAPS

\* What an application's step does to its socket and what it sends.
LEMMA EmitType ==
  ASSUME inq \in [Flows -> Seq(Packet)], NEW f \in Flows, NEW n \in 0 .. MaxHello,
         NEW kind \in {"syn", "data", "hello", "serverhello"}, sock'[f].id \in Conns,
         kind = "hello" => n > 0, Emit(f, kind, n)
  PROVE  inq' \in [Flows -> Seq(Packet)]
<1> DEFINE p == [kind |-> kind, conn |-> sock'[f].id, n |-> n]
<1>1. p \in Packet
  BY DEF Packet
<1>2. inq' = [inq EXCEPT ![f] = Append(@, p)]
  BY DEF Emit
<1> HIDE DEF p
<1>3. Append(inq[f], p) \in Seq(Packet)
  BY <1>1
<1> QED
  BY <1>2, <1>3

LEMMA SocketType ==
  ASSUME NEW s \in Socket, s.st # "closed"
  PROVE  /\ s.id \in Conns /\ s.hn \in 0 .. MaxHello /\ s.answered \in BOOLEAN
         /\ \A st \in {"synsent", "synout", "established", "closing"} :
              [s EXCEPT !.st = st] \in Socket
         /\ \A n \in 0 .. MaxHello : [s EXCEPT !.hn = n] \in Socket
         /\ [s EXCEPT !.answered = TRUE] \in Socket
         /\ \A n : [s EXCEPT !.hn = n].id = s.id
         /\ [s EXCEPT !.answered = TRUE].id = s.id
<1>1. s \in [id : Conns, st : {"synsent", "synout", "established", "closing"},
              hn : 0 .. MaxHello, answered : BOOLEAN]
  BY DEF Socket, NoSocket
<1>2. /\ \A st \in {"synsent", "synout", "established", "closing"} :
           [s EXCEPT !.st = st] \in Socket
      /\ \A n \in 0 .. MaxHello : [s EXCEPT !.hn = n] \in Socket
      /\ [s EXCEPT !.answered = TRUE] \in Socket
  BY <1>1 DEF Socket
<1> QED
  BY <1>1, <1>2

LEMMA ConnectType ==
  ASSUME opened \in 0 .. MaxConn, opened < MaxConn
  PROVE  /\ opened + 1 \in 0 .. MaxConn
         /\ [id |-> opened + 1, st |-> "synsent", hn |-> 0, answered |-> FALSE] \in Socket
         /\ opened + 1 \in Conns
<1>1. MaxConn \in Nat /\ MaxHello \in Nat
  BY AuditAssumption
<1>2. opened + 1 \in Conns
  BY <1>1 DEF Conns
<1>3. 0 \in 0 .. MaxHello
  BY <1>1
<1> QED
  BY <1>1, <1>2, <1>3 DEF Socket

\* Every step of the kernel keeps the types of what it has.
LEMMA KernelType ==
  ASSUME TypeOK, NEW f \in Flows, Kernel(f)
  PROVE  sock' \in [Flows -> Socket] /\ opened' \in 0 .. MaxConn
         /\ inq' \in [Flows -> Seq(Packet)]
<1> USE DEF TypeOK
<1>0. MaxConn \in Nat /\ MaxHello \in Nat /\ 0 \in 0 .. MaxHello
  BY AuditAssumption
<1>1. CASE Connect(f)
  <2> DEFINE s == [id |-> opened + 1, st |-> "synsent", hn |-> 0, answered |-> FALSE]
  <2>1. sock' = [sock EXCEPT ![f] = s] /\ opened' = opened + 1
    BY <1>1 DEF Connect
  <2>2. s \in Socket /\ s.id \in Conns /\ opened + 1 \in 0 .. MaxConn
    BY <1>1, ConnectType DEF Connect
  <2> HIDE DEF s
  <2>3. sock' \in [Flows -> Socket] /\ sock'[f].id \in Conns
    BY <2>1, <2>2
  <2> QED
    BY <1>0, <1>1, <2>1, <2>2, <2>3, EmitType DEF Connect
<1>2. CASE RetransmitSyn(f)
  BY <1>0, <1>2, EmitType, SocketType DEF RetransmitSyn
<1>3. CASE Establish(f)
  BY <1>3, SocketType DEF Establish
<1>4. CASE SendData(f)
  BY <1>0, <1>4, EmitType, SocketType DEF SendData, Open
<1>5. CASE SendServerHello(f)
  <2>1. sock[f] \in Socket /\ sock[f].st # "closed"
    BY <1>5 DEF SendServerHello, Open
  <2>2. sock' = [sock EXCEPT ![f] = [sock[f] EXCEPT !.answered = TRUE]]
    BY <1>5 DEF SendServerHello
  <2>3. sock' \in [Flows -> Socket]
    BY <2>1, <2>2, SocketType
  <2>4. sock'[f].id \in Conns
    BY <2>1, <2>2, SocketType
  <2> QED
    BY <1>0, <1>5, <2>3, <2>4, EmitType DEF SendServerHello
<1>6. CASE Close(f)
  <2>1. sock[f] \in Socket /\ sock[f].st # "closed" /\ NoSocket \in Socket
    BY <1>6 DEF Close, Socket
  <2>2. sock' \in [Flows -> Socket]
    BY <1>6, <2>1, SocketType DEF Close
  <2> QED
    BY <1>6, <2>2 DEF Close
<1>7. ASSUME NEW n \in 1 .. MaxHello, SendHello(f, n)
      PROVE  sock' \in [Flows -> Socket] /\ opened' \in 0 .. MaxConn
             /\ inq' \in [Flows -> Seq(Packet)]
  <2>0. n \in 0 .. MaxHello /\ n > 0
    BY <1>0
  <2>1. sock[f] \in Socket /\ sock[f].st # "closed"
    BY <1>7 DEF SendHello, Open
  <2>2. sock' = [sock EXCEPT ![f] = [sock[f] EXCEPT !.hn = n]]
    BY <1>7 DEF SendHello
  <2>3. sock' \in [Flows -> Socket]
    BY <2>0, <2>1, <2>2, SocketType
  <2>4. sock'[f].id \in Conns
    BY <2>1, <2>2, SocketType
  <2> QED
    BY <2>0, <1>7, <2>3, <2>4, EmitType DEF SendHello
<1> QED
  BY <1>1, <1>2, <1>3, <1>4, <1>5, <1>6, <1>7 DEF Kernel

\* The packet the agent takes, and the queue it leaves.
LEMMA ReceiveType ==
  ASSUME inq \in [Flows -> Seq(Packet)], NEW f \in Flows, inq[f] # <<>>
  PROVE  /\ Head(inq[f]) \in Packet /\ Tail(inq[f]) \in Seq(Packet)
         /\ [inq EXCEPT ![f] = Tail(@)] \in [Flows -> Seq(Packet)]
<1>1. inq[f] \in Seq(Packet)
  OBVIOUS
<1>2. Head(inq[f]) \in Packet /\ Tail(inq[f]) \in Seq(Packet)
  BY <1>1
<1> QED
  BY <1>2

LEMMA DepartType ==
  ASSUME sock \in [Flows -> Socket], NEW f \in Flows, Depart(f)
  PROVE  sock' \in [Flows -> Socket]
BY SocketType DEF Depart

LEMMA FreshGateType ==
  /\ FreshGate(NoHello) \in Gate
  /\ \A ch \in HelloKeys : FreshGate(ch) \in Gate
BY DEF FreshGate, Gate

LEMMA RecordType ==
  ASSUME items \in Seq(Item), Len(items) <= Expected, failed \in BOOLEAN,
         NEW ch \in HelloKeys, NEW sh \in Conns, Record(ch, sh),
         reporter \in {"none", "check", "waiting", "report", "exited"}
  PROVE  /\ items' \in Seq(Item) /\ Len(items') <= Expected /\ Len(items) <= Len(items')
         /\ failed' \in BOOLEAN
         /\ reporter' \in {"none", "check", "waiting", "report", "exited"}
<1> DEFINE it == [ch |-> ch, sh |-> sh]
<1>1. it \in Item
  BY DEF Item
<1>2. Expected \in Nat /\ Len(items) \in Nat
  BY AuditAssumption
<1>3. CASE items' = items /\ failed' = TRUE /\ reporter' = reporter
  BY <1>2, <1>3
<1>4. CASE items' = Append(items, it) /\ Len(items) < Expected /\ Awake /\ failed' = failed
  <2> HIDE DEF it
  <2>1. items' \in Seq(Item) /\ Len(items') = Len(items) + 1
    BY <1>1, <1>4
  <2> QED
    BY <1>2, <1>4, <2>1 DEF Awake
<1> QED
  BY <1>3, <1>4 DEF Record

\* The thread that makes a report has taken something.
ReportDue == reporter = "report" => 0 < consumed
TypeInv == TypeOK /\ ReportDue

LEMMA ReportDueNext ==
  ASSUME TypeInv, [Next]_vars
  PROVE  ReportDue'
<1>0. consumed \in Nat
  BY DEF TypeInv, TypeOK
<1>1. ASSUME NEW f \in Flows, Kernel(f) \/ Overrun(f) PROVE ReportDue'
  BY <1>1 DEF TypeInv, ReportDue, Kernel, Overrun
<1>2. ASSUME NEW f \in Flows, HandleSyn(f) \/ HandleData(f) \/ HandleHello(f) PROVE ReportDue'
  BY <1>2 DEF TypeInv, ReportDue, HandleSyn, HandleData, HandleHello, Log
<1>3. ASSUME NEW f \in Flows, HandleServerHello(f) PROVE ReportDue'
  BY <1>3 DEF TypeInv, ReportDue, HandleServerHello, Record, Awake
<1>4. CASE AuditClose \/ Exit
  BY <1>4 DEF TypeInv, ReportDue, AuditClose, Exit, Awake, log
<1>5. CASE Take
  BY <1>0, <1>5 DEF ReportDue, Take
<1>6. CASE Report
  BY <1>6 DEF ReportDue, Report
<1>7. CASE UNCHANGED vars
  BY <1>7 DEF TypeInv, ReportDue, vars
<1> QED
  BY <1>1, <1>2, <1>3, <1>4, <1>5, <1>6, <1>7 DEF Next, GateThread, Reporter

LEMMA InitType == Init => TypeInv
<1> SUFFICES ASSUME Init PROVE TypeInv
  OBVIOUS
<1>1. MaxConn \in Nat /\ Expected \in Nat /\ 0 \in 0 .. MaxConn
  BY AuditAssumption
<1>2. sock \in [Flows -> Socket] /\ gate \in [Flows -> Gate] /\ inq \in [Flows -> Seq(Packet)]
  BY DEF Init, Socket, Gate, NoGate
<1>3. items \in Seq(Item) /\ Len(items) = 0 /\ rows \in Seq(Row) /\ consumed \in 0 .. Len(items)
  BY DEF Init
<1>4. /\ ctmark \subseteq Conns /\ served \subseteq Conns /\ Len(items) <= Expected
      /\ opened \in 0 .. MaxConn
  BY <1>1, <1>3 DEF Init
<1>6. /\ failed \in BOOLEAN /\ enobufs \in BOOLEAN /\ stop \in BOOLEAN
      /\ reporter \in {"none", "check", "waiting", "report", "exited"}
      /\ phase \in {"run", "closing", "exit"}
  BY DEF Init
<1>7. TypeOK
  BY <1>2, <1>3, <1>4, <1>6 DEF TypeOK
<1>5. ReportDue
  BY DEF Init, ReportDue
<1> QED
  BY <1>7, <1>5 DEF TypeInv

LEMMA NextType == TypeInv /\ [Next]_vars => TypeInv'
<1> SUFFICES ASSUME TypeInv, [Next]_vars PROVE TypeOK'
  BY ReportDueNext DEF TypeInv
<1>0. TypeOK
  BY DEF TypeInv
<1>1. ASSUME NEW f \in Flows, Kernel(f) PROVE TypeOK'
  BY <1>0, <1>1, KernelType DEF TypeOK, Kernel
<1>2. ASSUME NEW f \in Flows, Overrun(f) PROVE TypeOK'
  BY <1>0, <1>2, ReceiveType DEF TypeOK, Overrun
<1>3. ASSUME NEW f \in Flows, HandleSyn(f) PROVE TypeOK'
  <2>1. inq' \in [Flows -> Seq(Packet)] /\ sock' \in [Flows -> Socket]
    BY <1>0, <1>3, ReceiveType, DepartType DEF TypeOK, HandleSyn, Receive
  <2>2. gate' \in [Flows -> Gate] /\ failed' \in BOOLEAN
    BY <1>0, <1>3, FreshGateType DEF TypeOK, HandleSyn
  <2> QED
    BY <1>0, <1>3, <2>1, <2>2 DEF TypeOK, HandleSyn, Receive, Log
<1>4. ASSUME NEW f \in Flows, HandleData(f) PROVE TypeOK'
  <2>1. inq' \in [Flows -> Seq(Packet)] /\ Head(inq[f]).conn \in Conns
    BY <1>0, <1>4, ReceiveType DEF TypeOK, HandleData, Receive, Packet
  <2> QED
    BY <1>0, <1>4, <2>1 DEF TypeOK, HandleData, Receive, Log, Authorize
<1>5. ASSUME NEW f \in Flows, HandleHello(f) PROVE TypeOK'
  <2>1. inq' \in [Flows -> Seq(Packet)] /\ Head(inq[f]) \in Packet
    BY <1>0, <1>5, ReceiveType DEF TypeOK, HandleHello, Receive
  <2>2. ctmark' \subseteq Conns
    BY <1>0, <1>5, <2>1 DEF TypeOK, HandleHello, Authorize, Packet
  <2>3. gate' \in [Flows -> Gate] /\ failed' \in BOOLEAN
    <3> DEFINE ch == <<Head(inq[f]).conn, Head(inq[f]).n>>
    <3>1. FreshGate(ch) \in Gate
      BY <1>0, <1>5, <2>1, FreshGateType DEF HandleHello, Receive, Packet, HelloKeys
    <3> QED
      BY <1>0, <1>5, <3>1 DEF TypeOK, HandleHello
  <2> QED
    BY <1>0, <1>5, <2>1, <2>2, <2>3 DEF TypeOK, HandleHello, Receive, Log
<1>6. ASSUME NEW f \in Flows, HandleServerHello(f) PROVE TypeOK'
  <2>1. inq' \in [Flows -> Seq(Packet)] /\ Head(inq[f]).conn \in Conns
    BY <1>0, <1>6, ReceiveType DEF TypeOK, HandleServerHello, Receive, Packet
  <2>2. gate[f] \in Gate /\ [gate[f] EXCEPT !.seen = TRUE] \in Gate
    BY <1>0 DEF TypeOK, Gate
  <2>3. gate' \in [Flows -> Gate]
    BY <1>0, <1>6, <2>2 DEF TypeOK, HandleServerHello
  <2>4. /\ items' \in Seq(Item) /\ Len(items') <= Expected /\ Len(items) <= Len(items')
        /\ failed' \in BOOLEAN
        /\ reporter' \in {"none", "check", "waiting", "report", "exited"}
    <3>1. Len(items) \in Nat
      BY <1>0 DEF TypeOK
    <3>2. CASE gate[f].ch = NoHello /\ failed' = TRUE /\ UNCHANGED <<gate, items, reporter>>
      BY <1>0, <3>1, <3>2 DEF TypeOK
    <3>3. CASE gate[f].seen /\ UNCHANGED <<gate, failed, items, reporter>>
      BY <1>0, <3>1, <3>3 DEF TypeOK
    <3>4. CASE gate[f].ch # NoHello /\ Record(gate[f].ch, Head(inq[f]).conn)
      <4>1. gate[f].ch \in HelloKeys
        BY <1>0, <2>2, <3>4 DEF Gate
      <4> QED
        BY <1>0, <2>1, <3>4, <4>1, RecordType DEF TypeOK
    <3> QED
      BY <1>0, <1>6, <3>2, <3>3, <3>4 DEF HandleServerHello
  <2>5. consumed' \in 0 .. Len(items')
    <3>1. consumed' = consumed /\ consumed \in 0 .. Len(items) /\ Len(items) \in Nat
          /\ Len(items') \in Nat
      BY <1>0, <1>6, <2>4 DEF TypeOK, HandleServerHello
    <3> QED
      BY <1>0, <2>4, <3>1
  <2>6. /\ opened' = opened /\ ctmark' = ctmark /\ served' = served \cup {Head(inq[f]).conn}
        /\ rows' = rows /\ enobufs' = enobufs /\ stop' = stop /\ phase' = phase /\ sock' = sock
    BY <1>0, <1>6 DEF HandleServerHello, Receive
  <2> QED
    BY <1>0, <2>1, <2>3, <2>4, <2>5, <2>6 DEF TypeOK
<1>7. ASSUME AuditClose PROVE TypeOK'
  BY <1>0, <1>7 DEF TypeOK, AuditClose, Awake, kernel
<1>8. ASSUME Exit PROVE TypeOK'
  BY <1>0, <1>8 DEF TypeOK, Exit, kernel, log
<1>9. ASSUME Take PROVE TypeOK'
  <2>1. consumed' \in 0 .. Len(items)
    BY <1>0, <1>9 DEF TypeOK, Take
  <2> QED
    BY <1>0, <1>9, <2>1 DEF TypeOK, Take, kernel
<1>10. ASSUME Report PROVE TypeOK'
  <2>1. PICK ok \in BOOLEAN :
          /\ rows' = Append(rows, [seq |-> consumed, ch |-> items[consumed].ch,
                                   sh |-> items[consumed].sh, ok |-> ok])
          /\ failed' = (failed \/ ~ok)
    BY <1>0, <1>10 DEF Report
  <2>2. 0 < consumed
    BY <1>0, <1>10 DEF TypeInv, ReportDue, Report
  <2>3. consumed \in DOMAIN items /\ consumed \in Nat
    BY <1>0, <2>2 DEF TypeOK
  <2>4. items[consumed] \in Item
    BY <1>0, <2>3 DEF TypeOK
  <2>5. [seq |-> consumed, ch |-> items[consumed].ch, sh |-> items[consumed].sh, ok |-> ok] \in Row
    BY <1>0, <2>3, <2>4 DEF Row, Item
  <2>6. rows' \in Seq(Row)
    BY <1>0, <2>1, <2>5 DEF TypeOK
  <2> QED
    BY <1>0, <1>10, <2>1, <2>6 DEF TypeOK, Report, kernel
<1>11. CASE UNCHANGED vars
  BY <1>0, <1>11 DEF TypeOK, vars
<1> QED
  BY <1>0, <1>1, <1>2, <1>3, <1>4, <1>5, <1>6, <1>7, <1>8, <1>9, <1>10, <1>11
     DEF Next, GateThread, Reporter

\* The state keeps its type, and the thread that makes a report has taken an item: the item
\* it reads is in the log.
THEOREM TypeInvariance == Spec => []TypeInv
  BY InitType, NextType, PTL DEF Spec

\* Type correctness of the audit.
THEOREM TypeCorrect == Spec => []TypeOK
<1>1. TypeInv => TypeOK
  BY DEF TypeInv
<1> QED
  BY <1>1, TypeInvariance, PTL

-----------------------------------------------------------------------------
(* The packets of a flow come in the order of its connections, and the agent  *)
(* has none of a connection whose SYN it has not seen but SYNs.               *)

NonSyn(p) == p.kind # "syn"
Departed(s) == s.st \in {"synout", "established", "closing"}

\* The connections of queue q are in order, up to the socket's.
Ordered(q, s, o) ==
  /\ \A i, j \in DOMAIN q : i < j => q[i].conn <= q[j].conn
  /\ \A i \in DOMAIN q : q[i].conn <= o /\ (s.id # 0 => q[i].conn <= s.id)
  /\ s.id <= o

\* There is one connection whose data is under way.
Single(q, s) ==
  \A i \in DOMAIN q : NonSyn(q[i]) =>
    /\ \A j \in DOMAIN q : NonSyn(q[j]) => q[j].conn = q[i].conn
    /\ Departed(s) => q[i].conn = s.id

QueueInv(q, s, o) == Ordered(q, s, o) /\ Single(q, s)

\* A gate with a ClientHello is of the connection whose data is under way.
Paired(q, s, g) ==
  g.ch # NoHello =>
    /\ \A i \in DOMAIN q : NonSyn(q[i]) => q[i].conn = g.ch[1]
    /\ Departed(s) => s.id = g.ch[1]

LEMMA AppendFacts ==
  ASSUME NEW q \in Seq(Packet), NEW p \in Packet
  PROVE  /\ Append(q, p) \in Seq(Packet)
         /\ \A i \in DOMAIN q : Append(q, p)[i] = q[i]
         /\ Append(q, p)[Len(q) + 1] = p
         /\ \A i \in DOMAIN Append(q, p) : i \in DOMAIN q \/ i = Len(q) + 1
         /\ \A i \in DOMAIN q : i \in Nat /\ i < Len(q) + 1
         /\ Len(q) + 1 \in Nat
OBVIOUS

LEMMA TailFacts ==
  ASSUME NEW q \in Seq(Packet), q # <<>>
  PROVE  /\ Tail(q) \in Seq(Packet) /\ Head(q) = q[1] /\ 1 \in DOMAIN q
         /\ \A i \in DOMAIN Tail(q) :
              i \in Nat /\ 1 < i + 1 /\ i + 1 \in DOMAIN q /\ Tail(q)[i] = q[i + 1]
OBVIOUS

LEMMA PacketFacts ==
  ASSUME NEW q \in Seq(Packet)
  PROVE  \A i \in DOMAIN q : q[i] \in Packet /\ q[i].conn \in Nat /\ q[i].conn # 0 /\ i \in Nat
<1>1. \A i \in DOMAIN q : q[i] \in Packet /\ i \in Nat
  OBVIOUS
<1>2. Conns \subseteq Nat /\ 0 \notin Conns
  BY AuditAssumption DEF Conns
<1> QED
  BY <1>1, <1>2 DEF Packet

LEMMA SocketFacts ==
  ASSUME NEW s \in Socket
  PROVE  s.id \in Nat /\ (s.st # "closed" <=> s.id # 0) /\ (Departed(s) => s.id # 0)
<1>1. Conns \subseteq Nat /\ 0 \notin Conns
  BY AuditAssumption DEF Conns
<1>2. CASE s = NoSocket
  BY <1>2 DEF NoSocket, Departed
<1>3. CASE s # NoSocket
  <2>1. s.id \in Conns /\ s.st \in {"synsent", "synout", "established", "closing"}
    BY <1>3 DEF Socket
  <2> QED
    BY <1>1, <2>1
<1> QED
  BY <1>2, <1>3

\* A socket of the four-tuple sends a SYN, or data once its SYN has left.
LEMMA AppendKeeps ==
  ASSUME NEW q \in Seq(Packet), NEW p \in Packet, NEW s \in Socket, NEW o \in Nat,
         QueueInv(q, s, o), p.conn = s.id, NonSyn(p) => Departed(s)
  PROVE  QueueInv(Append(q, p), s, o)
<1> DEFINE r == Append(q, p)
<1>1. /\ \A i \in DOMAIN q : r[i] = q[i] /\ i \in Nat /\ i < Len(q) + 1
      /\ r[Len(q) + 1] = p
      /\ \A i \in DOMAIN r : i \in DOMAIN q \/ i = Len(q) + 1
      /\ Len(q) + 1 \in Nat
  BY AppendFacts
<1>2. s.id \in Nat /\ s.id # 0
  BY SocketFacts, AuditAssumption DEF Packet, Conns
<1>3. \A i \in DOMAIN q : q[i].conn \in Nat
  BY PacketFacts
<1> HIDE DEF r
<1>4. Ordered(r, s, o)
  <2>1. \A i, j \in DOMAIN r : i < j => r[i].conn <= r[j].conn
    BY <1>1, <1>2, <1>3 DEF QueueInv, Ordered
  <2>2. \A i \in DOMAIN r : r[i].conn <= o /\ (s.id # 0 => r[i].conn <= s.id)
    BY <1>1, <1>2, <1>3 DEF QueueInv, Ordered
  <2> QED
    BY <2>1, <2>2 DEF QueueInv, Ordered
<1>5. Single(r, s)
  BY <1>1 DEF QueueInv, Single
<1> QED
  BY <1>4, <1>5 DEF QueueInv, r

LEMMA AppendPairs ==
  ASSUME NEW q \in Seq(Packet), NEW p \in Packet, NEW s \in Socket, NEW g \in Gate,
         Paired(q, s, g), p.conn = s.id, NonSyn(p) => Departed(s)
  PROVE  Paired(Append(q, p), s, g)
<1> DEFINE r == Append(q, p)
<1>1. /\ \A i \in DOMAIN q : r[i] = q[i]
      /\ r[Len(q) + 1] = p
      /\ \A i \in DOMAIN r : i \in DOMAIN q \/ i = Len(q) + 1
  BY AppendFacts
<1> HIDE DEF r
<1>2. Paired(r, s, g)
  BY <1>1 DEF Paired
<1> QED
  BY <1>2 DEF r

\* The agent takes a packet, and the SYN it takes lets its connection depart.
LEMMA TailKeeps ==
  ASSUME NEW q \in Seq(Packet), q # <<>>, NEW s \in Socket, NEW t \in Socket, NEW o \in Nat,
         QueueInv(q, s, o), t.id = s.id,
         Departed(t) => Departed(s) \/ Head(q).conn = s.id
  PROVE  QueueInv(Tail(q), t, o)
<1> DEFINE r == Tail(q)
<1>1. /\ Head(q) = q[1] /\ 1 \in DOMAIN q
      /\ \A i \in DOMAIN r : i \in Nat /\ 1 < i + 1 /\ i + 1 \in DOMAIN q /\ r[i] = q[i + 1]
  BY TailFacts
<1>2. \A i \in DOMAIN q : q[i].conn \in Nat /\ i \in Nat
  BY PacketFacts
<1>3. s.id \in Nat
  BY SocketFacts
<1>4. \A i, j \in DOMAIN r : i < j => i + 1 < j + 1
  BY <1>1
<1> HIDE DEF r
<1>5. Ordered(r, t, o)
  BY <1>1, <1>2, <1>4 DEF QueueInv, Ordered
<1>6. Single(r, t)
  <2>1. \A i, j \in DOMAIN r : NonSyn(r[i]) /\ NonSyn(r[j]) => r[j].conn = r[i].conn
    BY <1>1 DEF QueueInv, Single
  <2>2. ASSUME NEW i \in DOMAIN r, NonSyn(r[i]), Departed(t)
        PROVE  r[i].conn = t.id
    <3>1. CASE Departed(s)
      BY <1>1, <2>2, <3>1 DEF QueueInv, Single
    <3>2. CASE Head(q).conn = s.id
      <4>1. q[1].conn <= q[i + 1].conn /\ (s.id # 0 => q[i + 1].conn <= s.id)
        BY <1>1, <2>2 DEF QueueInv, Ordered
      <4>2. q[1].conn # 0 /\ q[i + 1].conn \in Nat /\ q[1].conn \in Nat
        BY <1>1, <2>2, PacketFacts
      <4> QED
        BY <1>1, <1>3, <2>2, <3>2, <4>1, <4>2
    <3> QED
      BY <2>2, <3>1, <3>2
  <2> QED
    BY <2>1, <2>2 DEF Single
<1> QED
  BY <1>5, <1>6 DEF QueueInv, r

LEMMA TailPairs ==
  ASSUME NEW q \in Seq(Packet), q # <<>>, NEW s, NEW g, Paired(q, s, g)
  PROVE  Paired(Tail(q), s, g)
<1> DEFINE r == Tail(q)
<1>1. \A i \in DOMAIN r : i + 1 \in DOMAIN q /\ r[i] = q[i + 1]
  BY TailFacts
<1> HIDE DEF r
<1>2. Paired(r, s, g)
  BY <1>1 DEF Paired
<1> QED
  BY <1>2 DEF r

-----------------------------------------------------------------------------
(* The invariant, and the steps of the kernel.                               *)

Queues == \A f \in Flows : QueueInv(inq[f], sock[f], opened)
Pairs == ~failed => \A f \in Flows : Paired(inq[f], sock[f], gate[f])

\* A gate with a ServerHello has its connection on record.
SeenIsRecorded ==
  ~failed => \A f \in Flows :
    gate[f].seen => gate[f].ch # NoHello /\ gate[f].ch[1] \in RecordedConns

AuditInv == TypeInv /\ Queues /\ Pairs /\ SeenIsRecorded /\ MarkedIsRecorded

LEMMA InitInv == Init => AuditInv
<1> SUFFICES ASSUME Init PROVE AuditInv
  OBVIOUS
<1>1. \A f \in Flows : QueueInv(inq[f], sock[f], opened)
  BY DEF Init, QueueInv, Ordered, Single, NoSocket
<1>2. \A f \in Flows : Paired(inq[f], sock[f], gate[f])
  BY DEF Init, Paired, NoGate
<1> QED
  BY <1>1, <1>2, InitType
     DEF Init, AuditInv, Queues, Pairs, SeenIsRecorded, MarkedIsRecorded, NoGate

\* What a step of the applications does to its own four-tuple.
LEMMA KernelFlow ==
  ASSUME TypeOK, NEW f \in Flows, Kernel(f), QueueInv(inq[f], sock[f], opened)
  PROVE  /\ QueueInv(inq'[f], sock'[f], opened')
         /\ Paired(inq[f], sock[f], gate[f]) => Paired(inq'[f], sock'[f], gate[f])
<1> USE DEF TypeOK
<1>0. /\ sock[f] \in Socket /\ inq[f] \in Seq(Packet) /\ gate[f] \in Gate /\ opened \in Nat
      /\ sock'[f] \in Socket
  BY AuditAssumption, KernelType
<1> DEFINE s == sock[f]
           t == sock'[f]
           q == inq[f]
<1>1. ASSUME NEW kind \in {"syn", "data", "hello", "serverhello"}, NEW n \in 0 .. MaxHello,
             kind = "hello" => n > 0, Emit(f, kind, n), opened' \in Nat, t.id \in Conns,
             QueueInv(q, t, opened'), kind # "syn" => Departed(t)
      PROVE  /\ QueueInv(inq'[f], t, opened')
             /\ Paired(q, t, gate[f]) => Paired(inq'[f], t, gate[f])
  <2> DEFINE p == [kind |-> kind, conn |-> t.id, n |-> n]
  <2>1. p \in Packet
    BY <1>1 DEF Packet
  <2>2. p.conn = t.id /\ (NonSyn(p) => Departed(t))
    BY <1>1 DEF NonSyn
  <2>3. inq'[f] = Append(q, p)
    BY <1>1 DEF Emit
  <2> HIDE DEF p, t, q
  <2>4. QueueInv(Append(q, p), t, opened')
    BY <1>0, <1>1, <2>1, <2>2, AppendKeeps DEF t, q
  <2>5. Paired(q, t, gate[f]) => Paired(Append(q, p), t, gate[f])
    BY <1>0, <2>1, <2>2, AppendPairs DEF t, q
  <2> QED
    BY <2>3, <2>4, <2>5
<1>2. ASSUME t.id = s.id, Departed(t) => Departed(s), opened' = opened
      PROVE  /\ QueueInv(q, t, opened')
             /\ Paired(q, s, gate[f]) => Paired(q, t, gate[f])
  BY <1>2 DEF QueueInv, Ordered, Single, Paired
<1>3. 0 \in 0 .. MaxHello
  BY AuditAssumption
<1>4. CASE Connect(f)
  <2>1. s.id = 0
    BY <1>0, <1>4, SocketFacts DEF Connect
  <2>2. t.id = opened + 1 /\ t.st = "synsent" /\ opened' = opened + 1 /\ opened' \in Nat
        /\ t.id \in Conns
    BY <1>0, <1>4, ConnectType DEF Connect
  <2>3. ~Departed(t)
    BY <2>2 DEF Departed
  <2>4. QueueInv(q, t, opened')
    <3>1. \A i \in DOMAIN q : q[i].conn \in Nat
      BY <1>0, PacketFacts
    <3> HIDE DEF q, t
    <3>2. Ordered(q, t, opened')
      BY <1>0, <2>2, <3>1 DEF QueueInv, Ordered, q
    <3>3. Single(q, t)
      BY <2>3 DEF QueueInv, Single, q
    <3> QED
      BY <3>2, <3>3 DEF QueueInv
  <2>5. Paired(q, s, gate[f]) => Paired(q, t, gate[f])
    BY <2>3 DEF Paired
  <2> QED
    BY <1>1, <1>3, <1>4, <2>2, <2>4, <2>5 DEF Connect
<1>5. CASE RetransmitSyn(f)
  <2>1. t = s /\ opened' = opened /\ t.id \in Conns
    BY <1>0, <1>5, SocketType DEF RetransmitSyn
  <2>2. QueueInv(q, t, opened')
    BY <2>1
  <2> QED
    BY <1>0, <1>1, <1>3, <1>5, <2>1, <2>2 DEF RetransmitSyn
<1>6. CASE Establish(f)
  <2>1. t.id = s.id /\ Departed(s) /\ opened' = opened /\ inq' = inq
    BY <1>0, <1>6 DEF Establish, Departed
  <2> QED
    BY <1>2, <2>1
<1>7. CASE SendData(f)
  <2>1. t = s /\ opened' = opened /\ t.id \in Conns /\ Departed(t)
    BY <1>0, <1>7, SocketType DEF SendData, Open, Departed
  <2>2. QueueInv(q, t, opened')
    BY <2>1
  <2> QED
    BY <1>0, <1>1, <1>3, <1>7, <2>1, <2>2 DEF SendData
<1>8. CASE SendServerHello(f)
  <2>0. s \in Socket /\ s.st # "closed" /\ Departed(s) /\ opened' = opened
    BY <1>0, <1>8 DEF SendServerHello, Open, Departed
  <2>1. t = [s EXCEPT !.answered = TRUE]
    BY <1>8 DEF SendServerHello
  <2>2. t.id = s.id /\ t.id \in Conns
    BY <2>0, <2>1, SocketType
  <2>3. Departed(t)
    BY <2>0, <2>1 DEF Departed, Socket, NoSocket
  <2>4. QueueInv(q, t, opened') /\ (Paired(q, s, gate[f]) => Paired(q, t, gate[f]))
    BY <1>2, <2>0, <2>2
  <2> QED
    BY <1>0, <1>1, <1>3, <1>8, <2>0, <2>2, <2>3, <2>4 DEF SendServerHello
<1>9. CASE Close(f)
  <2>1. CASE s.st = "established"
    <3>1. t = [s EXCEPT !.st = "closing"] /\ opened' = opened /\ inq' = inq
      BY <1>9, <2>1 DEF Close
    <3>2. t.id = s.id /\ Departed(s)
      BY <1>0, <2>1, <3>1 DEF Departed, Socket, NoSocket
    <3> QED
      BY <1>2, <3>1, <3>2
  <2>2. CASE s.st # "established"
    <3>1. t = NoSocket /\ opened' = opened /\ inq' = inq
      BY <1>9, <2>2 DEF Close
    <3>2. ~Departed(t) /\ t.id = 0 /\ t.id <= opened
      BY <1>0, <3>1 DEF Departed, NoSocket
    <3> QED
      BY <3>1, <3>2 DEF QueueInv, Ordered, Single, Paired
  <2> QED
    BY <2>1, <2>2
<1>10. ASSUME NEW n \in 1 .. MaxHello, SendHello(f, n)
       PROVE  /\ QueueInv(inq'[f], t, opened')
              /\ Paired(q, s, gate[f]) => Paired(inq'[f], t, gate[f])
  <2>0. s \in Socket /\ s.st # "closed" /\ Departed(s) /\ opened' = opened
        /\ n \in 0 .. MaxHello /\ n > 0
    BY <1>0, <1>10, AuditAssumption DEF SendHello, Open, Departed
  <2>1. t = [s EXCEPT !.hn = n]
    BY <1>10 DEF SendHello
  <2>2. t.id = s.id /\ t.id \in Conns
    <3>1. s.id \in Conns /\ [s EXCEPT !.hn = n].id = s.id
      BY <2>0, SocketType
    <3> QED
      BY <2>1, <3>1
  <2>3. Departed(t)
    BY <2>0, <2>1 DEF Departed, Socket, NoSocket
  <2>4. QueueInv(q, t, opened') /\ (Paired(q, s, gate[f]) => Paired(q, t, gate[f]))
    BY <1>2, <2>0, <2>2
  <2> QED
    BY <1>0, <1>1, <1>3, <1>10, <2>0, <2>2, <2>3, <2>4 DEF SendHello
<1> QED
  BY <1>4, <1>5, <1>6, <1>7, <1>8, <1>9, <1>10 DEF Kernel

\* The flows are their own.
LEMMA KernelFrame ==
  ASSUME TypeOK, NEW f \in Flows, Kernel(f), NEW g \in Flows, g # f
  PROVE  sock'[g] = sock[g] /\ inq'[g] = inq[g]
<1>1. sock' = sock \/ \E s : sock' = [sock EXCEPT ![f] = s]
  BY DEF Kernel, Connect, RetransmitSyn, Establish, SendData, SendServerHello, Close, SendHello
<1>2. inq' = inq \/ \E q : inq' = [inq EXCEPT ![f] = q]
  BY DEF Kernel, Connect, RetransmitSyn, Establish, SendData, SendServerHello, Close, SendHello,
         Emit
<1> QED
  BY <1>1, <1>2 DEF TypeOK

LEMMA KernelOpened ==
  ASSUME TypeOK, NEW f \in Flows, Kernel(f)
  PROVE  opened \in Nat /\ opened' \in Nat /\ opened <= opened'
BY AuditAssumption, KernelType
   DEF TypeOK, Kernel, Connect, RetransmitSyn, Establish, SendData, SendServerHello, Close,
       SendHello

LEMMA QueueGrows ==
  ASSUME NEW q \in Seq(Packet), NEW s \in Socket, NEW o \in Nat, NEW p \in Nat, o <= p,
         QueueInv(q, s, o)
  PROVE  QueueInv(q, s, p)
BY PacketFacts, SocketFacts DEF QueueInv, Ordered

LEMMA KernelInv ==
  ASSUME AuditInv, NEW f \in Flows, Kernel(f)
  PROVE  Queues' /\ Pairs' /\ SeenIsRecorded' /\ MarkedIsRecorded'
<1>0. TypeOK
  BY DEF AuditInv, TypeInv
<1>1. UNCHANGED <<ctmark, served, gate, items, failed>>
  BY DEF Kernel
<1>2. ASSUME NEW g \in Flows PROVE QueueInv(inq'[g], sock'[g], opened')
  <2>1. CASE g = f
    BY <1>0, <2>1, KernelFlow DEF AuditInv, Queues
  <2>2. CASE g # f
    <3>1. /\ inq'[g] = inq[g] /\ sock'[g] = sock[g] /\ inq[g] \in Seq(Packet)
          /\ sock[g] \in Socket /\ QueueInv(inq[g], sock[g], opened)
      BY <1>0, <2>2, KernelFrame DEF TypeOK, AuditInv, Queues
    <3> QED
      BY <1>0, <3>1, KernelOpened, QueueGrows
  <2> QED
    BY <2>1, <2>2
<1>3. ASSUME ~failed, NEW g \in Flows PROVE Paired(inq'[g], sock'[g], gate[g])
  <2>1. Paired(inq[g], sock[g], gate[g])
    BY <1>3 DEF AuditInv, Pairs
  <2>2. CASE g = f
    BY <1>0, <2>1, <2>2, KernelFlow DEF AuditInv, Queues
  <2>3. CASE g # f
    BY <1>0, <2>1, <2>3, KernelFrame
  <2> QED
    BY <2>2, <2>3
<1>4. Queues'
  BY <1>2 DEF Queues
<1>5. Pairs'
  BY <1>1, <1>3 DEF Pairs
<1>6. SeenIsRecorded' /\ MarkedIsRecorded'
  BY <1>1 DEF AuditInv, SeenIsRecorded, MarkedIsRecorded, RecordedConns
<1> QED
  BY <1>4, <1>5, <1>6

-----------------------------------------------------------------------------
(* The agent's handlers.                                                     *)

\* The agent takes a packet of f, and whatever it does to the socket is a departure.
LEMMA ReceiveInv ==
  ASSUME AuditInv, NEW f \in Flows, inq[f] # <<>>, inq' = [inq EXCEPT ![f] = Tail(@)],
         opened' = opened, sock' = sock \/ Depart(f)
  PROVE  /\ Queues'
         /\ \A g \in Flows : g # f => sock'[g] = sock[g] /\ inq'[g] = inq[g]
         /\ inq'[f] = Tail(inq[f])
<1>0. TypeOK /\ inq[f] \in Seq(Packet) /\ sock[f] \in Socket /\ opened \in Nat
  BY AuditAssumption DEF AuditInv, TypeInv, TypeOK
<1>1. sock' \in [Flows -> Socket]
  BY <1>0, DepartType DEF TypeOK
<1>2. \A g \in Flows : g # f => sock'[g] = sock[g] /\ inq'[g] = inq[g]
  BY <1>0 DEF TypeOK, Depart
<1>3. inq'[f] = Tail(inq[f])
  BY <1>0 DEF TypeOK
<1>4. /\ sock'[f].id = sock[f].id
      /\ Departed(sock'[f]) => Departed(sock[f]) \/ Head(inq[f]).conn = sock[f].id
  <2>1. CASE sock' = sock
    BY <2>1
  <2>2. CASE sock' = [sock EXCEPT ![f].st = "synout"] /\ Head(inq[f]).conn = sock[f].id
             /\ sock[f].st = "synsent"
    <3>1. sock'[f] = [sock[f] EXCEPT !.st = "synout"]
      BY <1>0, <2>2 DEF TypeOK
    <3>2. [sock[f] EXCEPT !.st = "synout"].id = sock[f].id
      BY <1>0, <2>2 DEF Socket, NoSocket
    <3> QED
      BY <2>2, <3>1, <3>2
  <2> QED
    BY <2>1, <2>2 DEF Depart
<1>5. QueueInv(inq'[f], sock'[f], opened)
  BY <1>0, <1>1, <1>3, <1>4, TailKeeps DEF AuditInv, Queues
<1>6. \A g \in Flows : QueueInv(inq'[g], sock'[g], opened')
  BY <1>2, <1>5 DEF AuditInv, Queues
<1> QED
  BY <1>2, <1>3, <1>6 DEF Queues

\* Without a change of gates and sockets, the agent keeps what holds of the others.
LEMMA TakeInv ==
  ASSUME AuditInv, NEW f \in Flows, inq[f] # <<>>, inq' = [inq EXCEPT ![f] = Tail(@)],
         UNCHANGED <<sock, opened>>, failed => failed'
  PROVE  Queues' /\ (gate' = gate => Pairs')
<1>1. Queues' /\ (\A g \in Flows : g # f => inq'[g] = inq[g]) /\ inq'[f] = Tail(inq[f])
  BY ReceiveInv
<1>2. ASSUME ~failed', NEW g \in Flows PROVE Paired(inq'[g], sock[g], gate[g])
  <2>1. Paired(inq[g], sock[g], gate[g]) /\ inq[f] \in Seq(Packet)
    BY <1>2 DEF AuditInv, Pairs, TypeInv, TypeOK
  <2> QED
    BY <1>1, <2>1, TailPairs
<1> QED
  BY <1>1, <1>2 DEF Pairs

\* A packet of a gate with a ClientHello is of the gate's connection.
LEMMA HeadPaired ==
  ASSUME AuditInv, ~failed, NEW f \in Flows, inq[f] # <<>>, Head(inq[f]).kind # "syn",
         gate[f].ch # NoHello
  PROVE  Head(inq[f]).conn = gate[f].ch[1]
<1>1. inq[f] \in Seq(Packet)
  BY DEF AuditInv, TypeInv, TypeOK
<1>2. Head(inq[f]) = inq[f][1] /\ 1 \in DOMAIN inq[f]
  BY <1>1, TailFacts
<1>3. Paired(inq[f], sock[f], gate[f])
  BY DEF AuditInv, Pairs
<1> QED
  BY <1>2, <1>3 DEF Paired, NonSyn

\* What is marked belongs to a gate with a ServerHello.
LEMMA AuthorizeInv ==
  ASSUME AuditInv, NEW f \in Flows, inq[f] # <<>>, Head(inq[f]).kind # "syn", Authorize(f),
         served' = served, items' = items, failed' = failed
  PROVE  MarkedIsRecorded'
<1>1. CASE failed
  BY <1>1 DEF MarkedIsRecorded
<1>2. CASE ~failed /\ gate[f].seen
  <2>1. gate[f].ch # NoHello /\ gate[f].ch[1] \in RecordedConns
    BY <1>2 DEF AuditInv, SeenIsRecorded
  <2>2. Head(inq[f]).conn \in RecordedConns
    BY <1>2, <2>1, HeadPaired
  <2>3. ctmark' = ctmark \cup {Head(inq[f]).conn}
    BY <1>2 DEF Authorize
  <2>4. RecordedConns' = RecordedConns
    BY DEF RecordedConns
  <2> QED
    BY <1>2, <2>2, <2>3, <2>4 DEF AuditInv, MarkedIsRecorded
<1>3. CASE ~gate[f].seen
  BY <1>3 DEF AuditInv, MarkedIsRecorded, Authorize, RecordedConns
<1> QED
  BY <1>1, <1>2, <1>3

LEMMA SynInv ==
  ASSUME AuditInv, NEW f \in Flows, HandleSyn(f)
  PROVE  Queues' /\ Pairs' /\ SeenIsRecorded' /\ MarkedIsRecorded'
<1>0. TypeOK /\ failed \in BOOLEAN
  BY DEF AuditInv, TypeInv, TypeOK
<1>1. /\ Queues'
      /\ \A g \in Flows : g # f => sock'[g] = sock[g] /\ inq'[g] = inq[g]
  BY ReceiveInv DEF HandleSyn, Receive
<1>2. UNCHANGED <<ctmark, served, items>>
  BY DEF HandleSyn, Log
<1>3. CASE failed' = TRUE
  BY <1>1, <1>3 DEF Pairs, SeenIsRecorded, MarkedIsRecorded
<1>4. CASE gate' = [gate EXCEPT ![f] = FreshGate(NoHello)] /\ failed' = failed
  <2>1. /\ gate'[f].ch = NoHello /\ gate'[f].seen = FALSE
        /\ \A g \in Flows : g # f => gate'[g] = gate[g]
    BY <1>0, <1>4 DEF TypeOK, FreshGate
  <2>2. Pairs'
    BY <1>1, <1>4, <2>1 DEF AuditInv, Pairs, Paired
  <2>3. SeenIsRecorded'
    BY <1>2, <1>4, <2>1 DEF AuditInv, SeenIsRecorded, RecordedConns
  <2>4. MarkedIsRecorded'
    BY <1>2, <1>4 DEF AuditInv, MarkedIsRecorded, RecordedConns
  <2> QED
    BY <1>1, <2>2, <2>3, <2>4
<1> QED
  BY <1>3, <1>4 DEF HandleSyn

LEMMA DataInv ==
  ASSUME AuditInv, NEW f \in Flows, HandleData(f)
  PROVE  Queues' /\ Pairs' /\ SeenIsRecorded' /\ MarkedIsRecorded'
<1>1. Queues' /\ Pairs'
  BY TakeInv DEF HandleData, Receive
<1>2. UNCHANGED <<served, gate, items, failed>>
  BY DEF HandleData, Log
<1>3. MarkedIsRecorded'
  BY <1>2, AuthorizeInv DEF HandleData, Receive
<1>4. SeenIsRecorded'
  BY <1>2 DEF AuditInv, SeenIsRecorded, RecordedConns
<1> QED
  BY <1>1, <1>3, <1>4

LEMMA HelloInv ==
  ASSUME AuditInv, NEW f \in Flows, HandleHello(f)
  PROVE  Queues' /\ Pairs' /\ SeenIsRecorded' /\ MarkedIsRecorded'
<1>0. TypeOK /\ failed \in BOOLEAN /\ inq[f] \in Seq(Packet) /\ inq[f] # <<>>
      /\ Head(inq[f]).kind = "hello" /\ sock[f] \in Socket
  BY DEF AuditInv, TypeInv, TypeOK, HandleHello, Receive
<1>1. UNCHANGED <<sock, opened, served, items>> /\ inq' = [inq EXCEPT ![f] = Tail(@)]
  BY DEF HandleHello, Receive, Log
<1>2. CASE Authorize(f) /\ UNCHANGED <<gate, failed>>
  <2>1. Queues' /\ Pairs'
    BY <1>0, <1>1, <1>2, TakeInv
  <2>2. MarkedIsRecorded'
    BY <1>0, <1>1, <1>2, AuthorizeInv
  <2>3. SeenIsRecorded'
    BY <1>1, <1>2 DEF AuditInv, SeenIsRecorded, RecordedConns
  <2> QED
    BY <2>1, <2>2, <2>3
<1>3. CASE failed' = TRUE
  <2>1. Queues'
    BY <1>0, <1>1, <1>3, TakeInv
  <2> QED
    BY <1>3, <2>1 DEF Pairs, SeenIsRecorded, MarkedIsRecorded
<1>4. CASE /\ gate' = [gate EXCEPT ![f] = FreshGate(<<Head(inq[f]).conn, Head(inq[f]).n>>)]
           /\ UNCHANGED <<ctmark, failed>>
  <2>1. /\ gate'[f].ch[1] = Head(inq[f]).conn /\ gate'[f].seen = FALSE
        /\ \A g \in Flows : g # f => gate'[g] = gate[g]
    BY <1>0, <1>4 DEF TypeOK, FreshGate
  <2>2. Queues' /\ (\A g \in Flows : g # f => inq'[g] = inq[g]) /\ inq'[f] = Tail(inq[f])
    BY <1>0, <1>1, ReceiveInv
  <2>3. Paired(inq[f], sock[f], gate'[f])
    <3>1. 1 \in DOMAIN inq[f] /\ Head(inq[f]) = inq[f][1] /\ NonSyn(inq[f][1])
      BY <1>0, TailFacts DEF NonSyn
    <3>2. Single(inq[f], sock[f])
      BY DEF AuditInv, Queues, QueueInv
    <3> QED
      BY <2>1, <3>1, <3>2 DEF Single, Paired
  <2>4. Paired(inq'[f], sock[f], gate'[f])
    BY <1>0, <2>2, <2>3, TailPairs
  <2>5. Pairs'
    BY <1>1, <1>4, <2>1, <2>2, <2>4 DEF AuditInv, Pairs
  <2>6. SeenIsRecorded' /\ MarkedIsRecorded'
    BY <1>1, <1>4, <2>1, ZenonT(30) DEF AuditInv, SeenIsRecorded, MarkedIsRecorded, RecordedConns
  <2> QED
    BY <2>2, <2>5, <2>6
<1> QED
  BY <1>2, <1>3, <1>4 DEF HandleHello

\* What a record puts in the log: the connection's, or a failure.
LEMMA RecordGrows ==
  ASSUME items \in Seq(Item), NEW ch, NEW sh, [ch |-> ch, sh |-> sh] \in Item, Record(ch, sh)
  PROVE  /\ RecordedConns \subseteq RecordedConns'
         /\ failed' = TRUE \/ (sh \in RecordedConns' /\ failed' = failed)
<1> DEFINE it == [ch |-> ch, sh |-> sh]
<1>1. CASE failed' = TRUE /\ items' = items
  <2>1. RecordedConns' = RecordedConns
    BY <1>1 DEF RecordedConns
  <2> QED
    BY <1>1, <2>1
<1>2. CASE items' = Append(items, it) /\ failed' = failed
  <2>0. it.sh = sh
    OBVIOUS
  <2> HIDE DEF it
  <2>1. /\ \A i \in DOMAIN items : i \in DOMAIN items' /\ items'[i] = items[i]
        /\ Len(items) + 1 \in DOMAIN items' /\ items'[Len(items) + 1] = it
    BY <1>2
  <2> QED
    BY <1>2, <2>0, <2>1 DEF RecordedConns
<1> QED
  BY <1>1, <1>2 DEF Record

LEMMA ServerHelloInv ==
  ASSUME AuditInv, NEW f \in Flows, HandleServerHello(f)
  PROVE  Queues' /\ Pairs' /\ SeenIsRecorded' /\ MarkedIsRecorded'
<1>0. TypeOK /\ failed \in BOOLEAN /\ inq[f] \in Seq(Packet) /\ inq[f] # <<>>
      /\ Head(inq[f]).kind = "serverhello"
  BY DEF AuditInv, TypeInv, TypeOK, HandleServerHello, Receive
<1>1. UNCHANGED <<sock, opened, ctmark>> /\ inq' = [inq EXCEPT ![f] = Tail(@)]
      /\ served' = served \cup {Head(inq[f]).conn}
  BY DEF HandleServerHello, Receive
<1>2. CASE gate[f].ch = NoHello /\ failed' = TRUE
  BY <1>0, <1>1, <1>2, TakeInv DEF Pairs, SeenIsRecorded, MarkedIsRecorded
<1>3. CASE gate[f].seen /\ UNCHANGED <<gate, failed, items>>
  <2>1. Queues' /\ Pairs'
    BY <1>0, <1>1, <1>3, TakeInv
  <2>2. SeenIsRecorded' /\ RecordedConns' = RecordedConns
    BY <1>3 DEF AuditInv, SeenIsRecorded, RecordedConns
  <2>3. ~failed => Head(inq[f]).conn \in RecordedConns
    BY <1>0, <1>3, HeadPaired DEF AuditInv, SeenIsRecorded
  <2>4. MarkedIsRecorded'
    BY <1>1, <1>3, <2>2, <2>3 DEF AuditInv, MarkedIsRecorded
  <2> QED
    BY <2>1, <2>2, <2>4
<1>4. CASE /\ gate[f].ch # NoHello
           /\ gate' = [gate EXCEPT ![f].seen = TRUE]
           /\ Record(gate[f].ch, Head(inq[f]).conn)
  <2>1. gate[f].ch \in HelloKeys /\ Head(inq[f]).conn \in Conns
    BY <1>0, <1>4, ReceiveType DEF TypeOK, Gate, Packet
  <2>2. [ch |-> gate[f].ch, sh |-> Head(inq[f]).conn] \in Item
    BY <2>1 DEF Item
  <2>3. /\ RecordedConns \subseteq RecordedConns'
        /\ failed' = TRUE \/ (Head(inq[f]).conn \in RecordedConns' /\ failed' = failed)
    BY <1>0, <1>4, <2>2, RecordGrows DEF TypeOK
  <2>4. Queues' /\ (\A g \in Flows : g # f => inq'[g] = inq[g]) /\ inq'[f] = Tail(inq[f])
    BY <1>0, <1>1, ReceiveInv
  <2>5. CASE failed' = TRUE
    BY <2>4, <2>5 DEF Pairs, SeenIsRecorded, MarkedIsRecorded
  <2>6. CASE ~failed /\ ~failed' /\ Head(inq[f]).conn \in RecordedConns'
    <3>1. gate'[f].ch = gate[f].ch /\ gate'[f].seen = TRUE
          /\ \A g \in Flows : g # f => gate'[g] = gate[g]
      BY <1>0, <1>4 DEF TypeOK, Gate
    <3>2. Head(inq[f]).conn = gate[f].ch[1]
      BY <1>0, <1>4, <2>6, HeadPaired
    <3>3. Paired(inq'[f], sock[f], gate[f])
      BY <1>0, <2>4, <2>6, TailPairs DEF AuditInv, Pairs
    <3>4. Paired(inq'[f], sock[f], gate'[f])
      BY <3>1, <3>3 DEF Paired
    <3>5. Pairs'
      BY <1>1, <2>4, <2>6, <3>1, <3>4 DEF AuditInv, Pairs
    <3>6. SeenIsRecorded'
      BY <1>4, <2>3, <2>6, <3>1, <3>2 DEF AuditInv, SeenIsRecorded
    <3>7. MarkedIsRecorded'
      BY <1>1, <2>3, <2>6 DEF AuditInv, MarkedIsRecorded
    <3> QED
      BY <2>4, <3>5, <3>6, <3>7
  <2> QED
    BY <1>0, <2>3, <2>5, <2>6
<1> QED
  BY <1>2, <1>3, <1>4 DEF HandleServerHello

LEMMA NextInv == AuditInv /\ [Next]_vars => AuditInv'
<1> SUFFICES ASSUME AuditInv, [Next]_vars
             PROVE  Queues' /\ Pairs' /\ SeenIsRecorded' /\ MarkedIsRecorded'
  BY NextType DEF AuditInv
<1>0. TypeOK /\ failed \in BOOLEAN
  BY DEF AuditInv, TypeInv, TypeOK
<1>1. ASSUME NEW f \in Flows, Overrun(f)
      PROVE  Queues' /\ Pairs' /\ SeenIsRecorded' /\ MarkedIsRecorded'
  <2>1. UNCHANGED <<sock, opened, ctmark, served, gate, items, failed>>
        /\ inq[f] # <<>> /\ inq' = [inq EXCEPT ![f] = Tail(@)]
    BY <1>1 DEF Overrun
  <2>2. Queues' /\ Pairs'
    BY <2>1, TakeInv
  <2>3. SeenIsRecorded' /\ MarkedIsRecorded'
    BY <2>1 DEF AuditInv, SeenIsRecorded, MarkedIsRecorded, RecordedConns
  <2> QED
    BY <2>2, <2>3
<1>2. CASE AuditClose \/ Exit \/ Take \/ Report \/ UNCHANGED vars
  <2>1. UNCHANGED <<kernel, gate, items>> /\ (failed => failed')
    BY <1>0, <1>2 DEF AuditClose, Exit, Take, Report, vars, kernel, log
  <2>2. UNCHANGED <<sock, opened, inq, ctmark, served>>
    BY <2>1 DEF kernel
  <2> QED
    BY <2>1, <2>2
       DEF AuditInv, Queues, Pairs, SeenIsRecorded, MarkedIsRecorded, RecordedConns
<1> QED
  BY <1>1, <1>2, KernelInv, SynInv, DataInv, HelloInv, ServerHelloInv
     DEF Next, GateThread, Reporter

\* A gate with a ClientHello is of the connection whose packets are under way, unless the log
\* says that it failed, and what goes past the agent for good is what it has written down.
THEOREM AuditInvariance == Spec => []AuditInv
  BY InitInv, NextInv, PTL DEF Spec

\* The agent lets nothing go that it has not written down: what is marked or has its
\* ServerHello is on record, or the log says that it failed.
THEOREM MarkedRecorded == Spec => []MarkedIsRecorded
<1>1. AuditInv => MarkedIsRecorded
  BY DEF AuditInv
<1> QED
  BY <1>1, AuditInvariance, PTL


-----------------------------------------------------------------------------
(* The exit status.  A connection is on record once, because from its first  *)
(* ServerHello on it sends no new ClientHello, and the one its gate has is   *)
(* the one the server answered.                                              *)

IsOpen(s) == s.st \in {"established", "closing"}

\* A connection's SYNs come before whatever else it sends.
SynsFirst(q, s, g) ==
  /\ \A i, j \in DOMAIN q : i < j /\ NonSyn(q[i]) /\ ~NonSyn(q[j]) => q[i].conn # q[j].conn
  /\ \A i \in DOMAIN q : NonSyn(q[i]) /\ q[i].conn = s.id => IsOpen(s)
  /\ g.ch # NoHello => /\ g.ch[1] = s.id => IsOpen(s)
                       /\ \A i \in DOMAIN q : ~NonSyn(q[i]) => q[i].conn # g.ch[1]

\* What is under way is not older than the gate.
Later(q, s, g, o) ==
  g.ch # NoHello =>
    /\ \A i \in DOMAIN q : g.ch[1] <= q[i].conn
    /\ s.id # 0 => g.ch[1] <= s.id
    /\ g.ch[1] <= o

HelloAt(q, i, k) == q[i].kind = "hello" /\ q[i].conn = k
AnswerAt(q, i, k) == q[i].kind = "serverhello" /\ q[i].conn = k
NoneBetween(q, i, j, k) == \A l \in DOMAIN q : i < l /\ l < j => ~HelloAt(q, l, k)

\* m is the ClientHello of connection k that the agent's gate has when it comes to the
\* j-th packet: the last one before, or the gate's if there is none before.
Current(q, g, k, j, m) ==
  \/ \E i \in DOMAIN q : i < j /\ HelloAt(q, i, k) /\ q[i].n = m /\ NoneBetween(q, i, j, k)
  \/ NoneBetween(q, 0, j, k) /\ g.ch = <<k, m>>

\* A ServerHello answers the last ClientHello of its connection: none that comes after it is
\* another one, and the socket has sent no other.
Answered(q, g) ==
  \A k \in Conns, j, l \in DOMAIN q, m \in 0 .. MaxHello :
    AnswerAt(q, j, k) /\ j < l /\ HelloAt(q, l, k) /\ Current(q, g, k, j, m) => q[l].n = m
Sent(q, s, g) ==
  s.id # 0 =>
    /\ \A j \in DOMAIN q : AnswerAt(q, j, s.id) =>
         s.answered /\ \A m \in 0 .. MaxHello : Current(q, g, s.id, j, m) => s.hn = m
    /\ \A m \in 0 .. MaxHello : Current(q, g, s.id, Len(q) + 1, m) => s.hn = m

\* Connection k has packets or a socket here.
Lives(k, q, s) == s.id = k \/ \E i \in DOMAIN q : q[i].conn = k

\* Connection k is done with: its gate has its ServerHello, and no new ClientHello comes.
Done(k, q, s, g) ==
  Lives(k, q, s) =>
    /\ g.seen /\ g.ch[1] = k
    /\ \A i \in DOMAIN q : HelloAt(q, i, k) => q[i].n = g.ch[2]
    /\ s.id = k => s.answered /\ s.hn = g.ch[2]

-----------------------------------------------------------------------------
(* What an application's step does to a flow.                                *)

Keeps(s, t) ==
  \/ t.id = 0
  \/ /\ t.id = s.id /\ t.hn = s.hn /\ t.answered = s.answered
     /\ IsOpen(s) => IsOpen(t)
Sends(s, t, p, o, n) ==
  /\ p.conn = t.id /\ t.id # 0
  /\ \/ p.kind = "syn" /\ n = o /\ t = s /\ ~IsOpen(s)
     \/ p.kind = "syn" /\ s.id = 0 /\ n = o + 1 /\ t.id = n
     \/ /\ IsOpen(s) /\ IsOpen(t) /\ t.id = s.id /\ n = o
        /\ \/ p.kind = "data" /\ t = s
           \/ /\ p.kind = "hello" /\ t.hn = p.n /\ t.answered = s.answered
              /\ (p.n = s.hn \/ ~s.answered)
           \/ p.kind = "serverhello" /\ t.hn = s.hn /\ t.answered

LEMMA SocketSends ==
  ASSUME NEW s \in Socket, NEW t, NEW n, IsOpen(s)
  PROVE  /\ t = [s EXCEPT !.answered = TRUE] =>
              t.id = s.id /\ t.id \in Conns /\ t.hn = s.hn /\ t.answered /\ IsOpen(t)
         /\ t = [s EXCEPT !.hn = n] =>
              t.id = s.id /\ t.id \in Conns /\ t.hn = n /\ t.answered = s.answered /\ IsOpen(t)
<1>1. s \in [id : Conns, st : {"synsent", "synout", "established", "closing"},
              hn : 0 .. MaxHello, answered : BOOLEAN]
  BY DEF Socket, NoSocket, IsOpen
<1>2. ASSUME t = [s EXCEPT !.answered = TRUE]
      PROVE  t.id = s.id /\ t.id \in Conns /\ t.hn = s.hn /\ t.answered /\ t.st = s.st
  BY <1>1, <1>2
<1>3. ASSUME t = [s EXCEPT !.hn = n]
      PROVE  t.id = s.id /\ t.id \in Conns /\ t.hn = n /\ t.answered = s.answered /\ t.st = s.st
  BY <1>1, <1>3
<1> QED
  BY <1>2, <1>3 DEF IsOpen

LEMMA KernelSteps ==
  ASSUME TypeOK, NEW f \in Flows, Kernel(f)
  PROVE  \/ inq'[f] = inq[f] /\ opened' = opened /\ Keeps(sock[f], sock'[f])
         \/ \E p \in Packet : /\ inq'[f] = Append(inq[f], p)
                              /\ Sends(sock[f], sock'[f], p, opened, opened')
<1> DEFINE s == sock[f]
           t == sock'[f]
           q == inq[f]
<1>0. /\ sock \in [Flows -> Socket] /\ inq \in [Flows -> Seq(Packet)]
      /\ sock[f] \in Socket /\ sock'[f] \in Socket /\ opened \in Nat
  BY AuditAssumption, KernelType DEF TypeOK
<1>1. ASSUME NEW kind \in {"syn", "data", "hello", "serverhello"}, NEW n \in 0 .. MaxHello,
             kind = "hello" => n > 0, Emit(f, kind, n), t.id \in Conns
      PROVE  \E p \in Packet : /\ p.kind = kind /\ p.n = n /\ p.conn = t.id
                               /\ inq'[f] = Append(q, p)
  <2> DEFINE p == [kind |-> kind, conn |-> t.id, n |-> n]
  <2>1. p \in Packet
    BY <1>1 DEF Packet
  <2>2. p.kind = kind /\ p.n = n /\ p.conn = t.id
    OBVIOUS
  <2>3. inq'[f] = Append(q, p)
    BY <1>0, <1>1 DEF Emit
  <2> HIDE DEF p
  <2> QED
    BY <2>1, <2>2, <2>3
<1>2. 0 \in 0 .. MaxHello /\ 0 \notin Conns
  BY AuditAssumption DEF Conns
<1>3. CASE Connect(f)
  <2>1. s.id = 0
    BY <1>0, <1>3, SocketFacts DEF Connect
  <2>2. t.id = opened + 1 /\ opened' = opened + 1 /\ t.id \in Conns
    BY <1>0, <1>3, ConnectType DEF Connect, TypeOK
  <2>3. PICK p \in Packet : p.kind = "syn" /\ p.conn = t.id /\ inq'[f] = Append(q, p)
    BY <1>1, <1>2, <1>3, <2>2 DEF Connect
  <2> QED
    BY <1>2, <2>1, <2>2, <2>3 DEF Sends
<1>4. CASE RetransmitSyn(f)
  <2>1. t = s /\ opened' = opened /\ t.id \in Conns /\ ~IsOpen(s)
    BY <1>0, <1>4, SocketType DEF RetransmitSyn, IsOpen
  <2>2. PICK p \in Packet : p.kind = "syn" /\ p.conn = t.id /\ inq'[f] = Append(q, p)
    BY <1>1, <1>2, <1>4, <2>1 DEF RetransmitSyn
  <2> QED
    BY <1>2, <2>1, <2>2 DEF Sends
<1>5. CASE SendData(f)
  <2>1. t = s /\ opened' = opened /\ t.id \in Conns /\ IsOpen(s)
    BY <1>0, <1>5, SocketType DEF SendData, Open, IsOpen
  <2>2. PICK p \in Packet : p.kind = "data" /\ p.conn = t.id /\ inq'[f] = Append(q, p)
    BY <1>1, <1>2, <1>5, <2>1 DEF SendData
  <2> QED
    BY <1>2, <2>1, <2>2 DEF Sends
<1>6. CASE Establish(f)
  <2>1. t = [s EXCEPT !.st = "established"] /\ s.st = "synout" /\ inq' = inq /\ opened' = opened
    BY <1>0, <1>6 DEF Establish
  <2>2. t.id = s.id /\ t.hn = s.hn /\ t.answered = s.answered /\ ~IsOpen(s)
    BY <1>0, <2>1 DEF Socket, NoSocket, IsOpen
  <2> QED
    BY <2>1, <2>2 DEF Keeps
<1>7. CASE Close(f)
  <2>1. inq' = inq /\ opened' = opened
    BY <1>7 DEF Close
  <2>2. CASE s.st = "established"
    <3>1. t = [s EXCEPT !.st = "closing"]
      BY <1>0, <1>7, <2>2 DEF Close
    <3>2. t.id = s.id /\ t.hn = s.hn /\ t.answered = s.answered /\ IsOpen(t)
      BY <1>0, <2>2, <3>1 DEF Socket, NoSocket, IsOpen
    <3> QED
      BY <2>1, <3>2 DEF Keeps
  <2>3. CASE s.st # "established"
    <3>1. t = NoSocket
      BY <1>0, <1>7, <2>3 DEF Close
    <3> QED
      BY <2>1, <3>1 DEF Keeps, NoSocket
  <2> QED
    BY <2>2, <2>3
<1>8. CASE SendServerHello(f)
  <2>1. t = [s EXCEPT !.answered = TRUE] /\ opened' = opened /\ IsOpen(s) /\ s.st # "closed"
    BY <1>0, <1>8 DEF SendServerHello, Open, IsOpen
  <2>2. t.id = s.id /\ t.id \in Conns /\ t.hn = s.hn /\ t.answered /\ IsOpen(t)
    BY <1>0, <2>1, SocketSends
  <2>3. PICK p \in Packet : p.kind = "serverhello" /\ p.conn = t.id /\ inq'[f] = Append(q, p)
    BY <1>1, <1>2, <1>8, <2>2 DEF SendServerHello
  <2> QED
    BY <1>2, <2>1, <2>2, <2>3 DEF Sends
<1>9. ASSUME NEW n \in 1 .. MaxHello, SendHello(f, n)
      PROVE  \E p \in Packet : /\ inq'[f] = Append(q, p)
                               /\ Sends(s, t, p, opened, opened')
  <2>1. t = [s EXCEPT !.hn = n] /\ opened' = opened /\ IsOpen(s) /\ s.st # "closed"
        /\ (n = s.hn \/ ~s.answered)
    BY <1>0, <1>9 DEF SendHello, Open, IsOpen
  <2>2. t.id = s.id /\ t.id \in Conns /\ t.hn = n /\ t.answered = s.answered /\ IsOpen(t)
    BY <1>0, <2>1, SocketSends
  <2>3. n \in 0 .. MaxHello /\ n > 0
    BY AuditAssumption
  <2>4. PICK p \in Packet : /\ p.kind = "hello" /\ p.n = n /\ p.conn = t.id
                            /\ inq'[f] = Append(q, p)
    BY <1>1, <1>9, <2>2, <2>3 DEF SendHello
  <2> QED
    BY <1>2, <2>1, <2>2, <2>4 DEF Sends
<1> QED
  BY <1>3, <1>4, <1>5, <1>6, <1>7, <1>8, <1>9 DEF Kernel

\* The connections of a queue are those that were opened.
LEMMA QueueFacts ==
  ASSUME NEW q \in Seq(Packet), NEW s \in Socket, NEW o \in Nat, QueueInv(q, s, o)
  PROVE  /\ \A i \in DOMAIN q : /\ i \in Nat /\ 0 < i /\ i <= Len(q) /\ q[i].conn \in Nat
                                /\ q[i].conn # 0 /\ q[i].conn <= o
                                /\ (s.id # 0 => q[i].conn <= s.id)
                                /\ q[i].n \in 0 .. MaxHello
         /\ \A i, j \in DOMAIN q : i < j => q[i].conn <= q[j].conn
         /\ s.id \in Nat /\ s.id <= o
         /\ Len(q) \in Nat
<1>1. \A i \in DOMAIN q : q[i] \in Packet /\ i \in Nat /\ 0 < i /\ i <= Len(q)
  OBVIOUS
<1>2. Len(q) \in Nat
  OBVIOUS
<1> QED
  BY <1>1, <1>2, PacketFacts, SocketFacts DEF QueueInv, Ordered, Packet

LEMMA GateFacts ==
  ASSUME NEW g \in Gate
  PROVE  /\ g.ch # NoHello => /\ g.ch[1] \in Nat /\ g.ch[1] # 0
                              /\ g.ch[2] \in 0 .. MaxHello /\ g.ch = <<g.ch[1], g.ch[2]>>
         /\ \A k \in Conns : \A m : g.ch = <<k, m>> => g.ch # NoHello /\ g.ch[1] = k /\ g.ch[2] = m
<1>1. g.ch \in HelloKeys \cup {NoHello}
  BY DEF Gate
<1>2. \A x \in HelloKeys : x = <<x[1], x[2]>> /\ x[1] \in Conns /\ x[2] \in 1 .. MaxHello
  BY DEF HelloKeys
<1>3. Conns \subseteq Nat /\ 0 \notin Conns /\ 1 .. MaxHello \subseteq 0 .. MaxHello
  BY AuditAssumption DEF Conns
<1>4. \A k \in Conns : \A m : <<k, m>> # NoHello /\ <<k, m>>[1] = k /\ <<k, m>>[2] = m
  BY <1>3 DEF NoHello
<1> QED
  BY <1>1, <1>2, <1>3, <1>4

LEMMA KeepsOrder ==
  ASSUME NEW q \in Seq(Packet), NEW s \in Socket, NEW t \in Socket, NEW g \in Gate,
         NEW o \in Nat, QueueInv(q, s, o),
         SynsFirst(q, s, g), Later(q, s, g, o), Keeps(s, t)
  PROVE  SynsFirst(q, t, g) /\ Later(q, t, g, o)
<1>1. CASE t.id = 0
  BY <1>1, QueueFacts, GateFacts DEF SynsFirst, Later
<1>2. CASE t.id = s.id /\ (IsOpen(s) => IsOpen(t))
  BY <1>2 DEF SynsFirst, Later
<1> QED
  BY <1>1, <1>2 DEF Keeps

LEMMA SendsOrder ==
  ASSUME NEW q \in Seq(Packet), NEW p \in Packet, NEW s \in Socket, NEW t \in Socket,
         NEW g \in Gate, NEW o \in Nat, NEW n \in Nat, QueueInv(q, s, o),
         SynsFirst(q, s, g), Later(q, s, g, o), Sends(s, t, p, o, n)
  PROVE  SynsFirst(Append(q, p), t, g) /\ Later(Append(q, p), t, g, n)
<1> DEFINE r == Append(q, p)
<1>1. /\ \A i \in DOMAIN q : r[i] = q[i] /\ i \in Nat /\ i < Len(q) + 1
      /\ r[Len(q) + 1] = p
      /\ \A i \in DOMAIN r : i \in DOMAIN q \/ i = Len(q) + 1
      /\ Len(q) + 1 \in Nat
  BY AppendFacts
<1>2. /\ \A i \in DOMAIN q : q[i].conn \in Nat /\ q[i].conn # 0 /\ q[i].conn <= o
      /\ s.id \in Nat /\ s.id <= o
  BY QueueFacts
<1>3. g.ch # NoHello => g.ch[1] \in Nat /\ g.ch[1] # 0
  BY GateFacts
<1> HIDE DEF r
<1>4. CASE p.kind = "syn" /\ n = o /\ t = s /\ ~IsOpen(s) /\ p.conn = t.id /\ t.id # 0
  <2>1. ~NonSyn(p) /\ \A i \in DOMAIN q : NonSyn(q[i]) => q[i].conn # p.conn
    BY <1>4 DEF SynsFirst, NonSyn
  <2>2. \A i, j \in DOMAIN r : i < j /\ NonSyn(r[i]) /\ ~NonSyn(r[j]) => r[i].conn # r[j].conn
    BY <1>1, <2>1 DEF SynsFirst
  <2>3. \A i \in DOMAIN r : NonSyn(r[i]) /\ r[i].conn = t.id => IsOpen(t)
    BY <1>1, <1>4, <2>1 DEF SynsFirst
  <2>4. g.ch # NoHello => g.ch[1] # s.id
    BY <1>4 DEF SynsFirst
  <2>5. SynsFirst(r, t, g)
    BY <1>1, <1>4, <2>2, <2>3, <2>4 DEF SynsFirst
  <2>6. Later(r, t, g, n)
    BY <1>1, <1>4 DEF Later
  <2> QED
    BY <2>5, <2>6 DEF r
<1>5. CASE p.kind = "syn" /\ s.id = 0 /\ n = o + 1 /\ t.id = n /\ p.conn = t.id
  <2>1. ~NonSyn(p)
    BY <1>5 DEF NonSyn
  <2>2. \A i \in DOMAIN q : q[i].conn # t.id /\ q[i].conn <= n
    BY <1>2, <1>5
  <2>3. g.ch # NoHello => g.ch[1] # t.id /\ g.ch[1] <= n
    BY <1>3, <1>5 DEF Later
  <2>4. SynsFirst(r, t, g)
    BY <1>1, <1>5, <2>1, <2>2, <2>3 DEF SynsFirst
  <2>5. Later(r, t, g, n)
    BY <1>1, <1>5, <2>3 DEF Later
  <2> QED
    BY <2>4, <2>5 DEF r
<1>6. CASE IsOpen(t) /\ t.id = s.id /\ n = o /\ p.kind # "syn" /\ p.conn = t.id /\ t.id # 0
  <2>1. SynsFirst(r, t, g)
    BY <1>1, <1>6 DEF SynsFirst, NonSyn
  <2>2. Later(r, t, g, n)
    BY <1>1, <1>6 DEF Later
  <2> QED
    BY <2>1, <2>2 DEF r
<1> QED
  BY <1>4, <1>5, <1>6 DEF Sends

\* What is current at a packet does not depend on those after it.
LEMMA AppendCurrent ==
  ASSUME NEW q \in Seq(Packet), NEW p \in Packet, NEW g, NEW k, NEW m
  PROVE  /\ \A j \in 1 .. Len(q) + 1 :
              Current(Append(q, p), g, k, j, m) => Current(q, g, k, j, m)
         /\ Current(Append(q, p), g, k, Len(q) + 2, m) =>
              IF p.kind = "hello" /\ p.conn = k THEN p.n = m
              ELSE Current(q, g, k, Len(q) + 1, m)
<1> DEFINE r == Append(q, p)
<1>1. /\ \A i \in DOMAIN q : i \in DOMAIN r /\ r[i] = q[i] /\ i \in Nat /\ 0 < i /\ i < Len(q) + 1
      /\ r[Len(q) + 1] = p /\ Len(q) + 1 \in DOMAIN r
      /\ \A i \in DOMAIN r : i \in DOMAIN q \/ i = Len(q) + 1
      /\ Len(q) \in Nat
  OBVIOUS
<1> HIDE DEF r
<1>2. \A i \in DOMAIN q : HelloAt(r, i, k) <=> HelloAt(q, i, k)
  BY <1>1 DEF HelloAt
<1>3. \A i, j \in Nat : NoneBetween(r, i, j, k) => NoneBetween(q, i, j, k)
  BY <1>1, <1>2 DEF NoneBetween
<1>4. ASSUME NEW j \in 1 .. Len(q) + 1, Current(r, g, k, j, m)
      PROVE  Current(q, g, k, j, m)
  <2>1. j \in Nat /\ j <= Len(q) + 1
    BY <1>1
  <2>2. CASE NoneBetween(r, 0, j, k) /\ g.ch = <<k, m>>
    BY <1>3, <2>1, <2>2 DEF Current
  <2>3. ASSUME NEW i \in DOMAIN r, i < j, HelloAt(r, i, k), r[i].n = m, NoneBetween(r, i, j, k)
        PROVE  Current(q, g, k, j, m)
    <3>1. i \in DOMAIN q
      BY <1>1, <2>1, <2>3
    <3>2. i \in Nat /\ HelloAt(q, i, k) /\ q[i].n = m
      BY <1>1, <1>2, <2>3, <3>1
    <3>3. NoneBetween(q, i, j, k)
      BY <1>3, <2>1, <2>3, <3>2
    <3> QED
      BY <2>3, <3>1, <3>2, <3>3 DEF Current
  <2> QED
    BY <1>4, <2>2, <2>3 DEF Current
<1>5. ASSUME Current(r, g, k, Len(q) + 2, m)
      PROVE  IF p.kind = "hello" /\ p.conn = k THEN p.n = m ELSE Current(q, g, k, Len(q) + 1, m)
  <2>1. \A i \in Nat : NoneBetween(r, i, Len(q) + 2, k) => NoneBetween(r, i, Len(q) + 1, k)
    BY <1>1 DEF NoneBetween
  <2>2. CASE HelloAt(r, Len(q) + 1, k)
    <3>1. ~NoneBetween(r, 0, Len(q) + 2, k)
      BY <1>1, <2>2 DEF NoneBetween
    <3>2. ASSUME NEW i \in DOMAIN q PROVE ~NoneBetween(r, i, Len(q) + 2, k)
      BY <1>1, <2>2 DEF NoneBetween
    <3>3. r[Len(q) + 1].n = m
      BY <1>1, <1>5, <3>1, <3>2 DEF Current
    <3> QED
      BY <1>1, <2>2, <3>3 DEF HelloAt
  <2>3. CASE ~HelloAt(r, Len(q) + 1, k)
    <3>0. ~(p.kind = "hello" /\ p.conn = k)
      BY <1>1, <2>3 DEF HelloAt
    <3>1. Current(r, g, k, Len(q) + 1, m)
      <4>1. CASE NoneBetween(r, 0, Len(q) + 2, k) /\ g.ch = <<k, m>>
        BY <2>1, <4>1 DEF Current
      <4>2. ASSUME NEW i \in DOMAIN r, i < Len(q) + 2, HelloAt(r, i, k), r[i].n = m,
                   NoneBetween(r, i, Len(q) + 2, k)
            PROVE  Current(r, g, k, Len(q) + 1, m)
        <5>1. i \in DOMAIN q /\ i \in Nat /\ i < Len(q) + 1
          BY <1>1, <2>3, <4>2
        <5> QED
          BY <2>1, <4>2, <5>1 DEF Current
      <4> QED
        BY <1>5, <4>1, <4>2 DEF Current
    <3>2. Len(q) + 1 \in 1 .. Len(q) + 1
      BY <1>1
    <3> QED
      BY <1>4, <3>0, <3>1, <3>2
  <2> QED
    BY <2>2, <2>3
<1> QED
  BY <1>4, <1>5 DEF r

LEMMA KeepsSettled ==
  ASSUME NEW q, NEW s, NEW t, NEW g, Keeps(s, t), Sent(q, s, g)
  PROVE  Sent(q, t, g)
BY DEF Keeps, Sent

LEMMA KeepsDone ==
  ASSUME NEW q, NEW s, NEW t, NEW g, NEW k, k # 0, Keeps(s, t)
  PROVE  /\ Lives(k, q, t) => Lives(k, q, s)
         /\ Done(k, q, s, g) => Done(k, q, t, g)
BY DEF Keeps, Lives, Done

LEMMA SendsSettled ==
  ASSUME NEW q \in Seq(Packet), NEW p \in Packet, NEW s \in Socket, NEW t \in Socket,
         NEW g \in Gate, NEW o \in Nat, NEW n \in Nat, QueueInv(q, s, o), Later(q, s, g, o),
         Answered(q, g), Sent(q, s, g), Sends(s, t, p, o, n)
  PROVE  Answered(Append(q, p), g) /\ Sent(Append(q, p), t, g)
<1> DEFINE r == Append(q, p)
<1>1. /\ \A i \in DOMAIN q : /\ r[i] = q[i] /\ i \in Nat /\ i < Len(q) + 1
                             /\ i \in 1 .. Len(q) + 1
      /\ r[Len(q) + 1] = p /\ Len(q) + 1 \in 1 .. Len(q) + 1
      /\ \A i \in DOMAIN r : i \in DOMAIN q \/ i = Len(q) + 1
      /\ Len(q) + 1 \in Nat
      /\ Len(r) + 1 = Len(q) + 2
  OBVIOUS
<1>2. /\ \A i \in DOMAIN q : q[i].conn # 0 /\ q[i].conn <= o /\ q[i].conn \in Nat
      /\ s.id \in Nat /\ s.id <= o
  BY QueueFacts
<1>3. \A k, m : \A j \in 1 .. Len(q) + 1 : Current(r, g, k, j, m) => Current(q, g, k, j, m)
  BY AppendCurrent
<1>4. \A k, m : Current(r, g, k, Len(r) + 1, m) =>
        IF p.kind = "hello" /\ p.conn = k THEN p.n = m ELSE Current(q, g, k, Len(q) + 1, m)
  BY <1>1, AppendCurrent
<1> HIDE DEF r
<1>5. Answered(r, g)
  <2> SUFFICES ASSUME NEW k \in Conns, NEW j \in DOMAIN r, NEW l \in DOMAIN r,
                      NEW m \in 0 .. MaxHello,
                      AnswerAt(r, j, k), j < l, HelloAt(r, l, k), Current(r, g, k, j, m)
               PROVE  r[l].n = m
    BY DEF Answered
  <2>1. j \in DOMAIN q
    BY <1>1
  <2>2. AnswerAt(q, j, k) /\ Current(q, g, k, j, m)
    BY <1>1, <1>3, <2>1 DEF AnswerAt
  <2>3. CASE l \in DOMAIN q
    <3>1. HelloAt(q, l, k) /\ r[l].n = q[l].n
      BY <1>1, <2>3 DEF HelloAt
    <3> QED
      BY <2>1, <2>2, <2>3, <3>1 DEF Answered
  <2>4. CASE l = Len(q) + 1
    <3>1. p.kind = "hello" /\ p.conn = k /\ r[l].n = p.n
      BY <1>1, <2>4 DEF HelloAt
    <3>2. s.id = k /\ s.id # 0 /\ (p.n = s.hn \/ ~s.answered)
      BY <3>1 DEF Sends
    <3>3. s.answered /\ s.hn = m
      BY <2>1, <2>2, <3>2 DEF Sent
    <3> QED
      BY <3>1, <3>2, <3>3
  <2> QED
    BY <1>1, <2>3, <2>4
<1>6. CASE t.id = s.id /\ p.conn = t.id /\ t.id # 0
  <2>1. \/ p.kind \in {"syn", "data"} /\ t.hn = s.hn /\ t.answered = s.answered
        \/ /\ p.kind = "hello" /\ t.hn = p.n /\ t.answered = s.answered
           /\ (p.n = s.hn \/ ~s.answered)
        \/ p.kind = "serverhello" /\ t.hn = s.hn /\ t.answered
    BY <1>2, <1>6 DEF Sends
  <2>2. ASSUME NEW j \in DOMAIN r, AnswerAt(r, j, t.id)
        PROVE  t.answered /\ \A m \in 0 .. MaxHello : Current(r, g, t.id, j, m) => t.hn = m
    <3>1. CASE j \in DOMAIN q
      <4>1. AnswerAt(q, j, s.id)
        BY <1>1, <1>6, <2>2, <3>1 DEF AnswerAt
      <4>2. s.answered /\ \A m \in 0 .. MaxHello : Current(q, g, s.id, j, m) => s.hn = m
        BY <1>6, <3>1, <4>1 DEF Sent
      <4>3. \A m : Current(r, g, t.id, j, m) => Current(q, g, s.id, j, m)
        BY <1>1, <1>3, <1>6, <3>1
      <4> QED
        BY <2>1, <4>2, <4>3
    <3>2. CASE j = Len(q) + 1
      <4>1. p.kind = "serverhello"
        BY <1>1, <2>2, <3>2 DEF AnswerAt
      <4>2. \A m : Current(r, g, t.id, j, m) => Current(q, g, s.id, Len(q) + 1, m)
        BY <1>1, <1>3, <1>6, <3>2
      <4> QED
        BY <1>6, <2>1, <4>1, <4>2 DEF Sent
    <3> QED
      BY <1>1, <3>1, <3>2
  <2>3. ASSUME NEW m \in 0 .. MaxHello, Current(r, g, t.id, Len(r) + 1, m)
        PROVE  t.hn = m
    <3>1. CASE p.kind = "hello"
      BY <1>4, <1>6, <2>1, <2>3, <3>1
    <3>2. CASE p.kind # "hello"
      <4>1. Current(q, g, s.id, Len(q) + 1, m)
        BY <1>4, <1>6, <2>3, <3>2
      <4> QED
        BY <1>6, <2>1, <3>2, <4>1 DEF Sent
    <3> QED
      BY <3>1, <3>2
  <2> QED
    BY <1>5, <2>2, <2>3 DEF Sent, r
<1>7. CASE p.kind = "syn" /\ s.id = 0 /\ n = o + 1 /\ t.id = n /\ p.conn = t.id
  <2>1. \A i \in DOMAIN q : q[i].conn # t.id
    BY <1>2, <1>7
  <2>2. \A j \in DOMAIN r : ~AnswerAt(r, j, t.id)
    BY <1>1, <1>7, <2>1 DEF AnswerAt
  <2>3. \A i \in DOMAIN q : ~HelloAt(q, i, t.id)
    BY <2>1 DEF HelloAt
  <2>4. \A m : g.ch # <<t.id, m>>
    <3>1. t.id \in Conns
      BY <1>7 DEF Packet
    <3>2. g.ch # NoHello => g.ch[1] # t.id
      BY <1>7, GateFacts DEF Later
    <3> QED
      BY <3>1, <3>2, GateFacts
  <2>5. \A m : ~Current(r, g, t.id, Len(r) + 1, m)
    <3>1. \A m : ~Current(q, g, t.id, Len(q) + 1, m)
      BY <2>3, <2>4 DEF Current
    <3> QED
      BY <1>4, <1>7, <3>1
  <2> QED
    BY <1>5, <2>2, <2>5 DEF Sent, r
<1> QED
  BY <1>6, <1>7 DEF Sends

LEMMA SendsDone ==
  ASSUME NEW q \in Seq(Packet), NEW p \in Packet, NEW s, NEW t, NEW g, NEW o \in Nat, NEW n,
         Sends(s, t, p, o, n), NEW k \in Nat
  PROVE  /\ Lives(k, Append(q, p), t) => Lives(k, q, s) \/ (k = n /\ n = o + 1)
         /\ k <= o /\ Done(k, q, s, g) => Done(k, Append(q, p), t, g)
<1> DEFINE r == Append(q, p)
<1>1. /\ \A i \in DOMAIN q : r[i] = q[i]
      /\ r[Len(q) + 1] = p
      /\ \A i \in DOMAIN r : i \in DOMAIN q \/ i = Len(q) + 1
  OBVIOUS
<1> HIDE DEF r
<1>2. Lives(k, r, t) => Lives(k, q, s) \/ (k = n /\ n = o + 1)
  <2>1. Lives(k, r, t) => t.id = k \/ Lives(k, q, s)
    BY <1>1 DEF Lives, Sends
  <2> QED
    BY <2>1 DEF Sends, Lives
<1>3. ASSUME k <= o, Done(k, q, s, g), Lives(k, r, t)
      PROVE  Done(k, r, t, g)
  <2>1. Lives(k, q, s)
    BY <1>2, <1>3
  <2>2. /\ g.seen /\ g.ch[1] = k
        /\ \A i \in DOMAIN q : HelloAt(q, i, k) => q[i].n = g.ch[2]
        /\ s.id = k => s.answered /\ s.hn = g.ch[2]
    BY <1>3, <2>1 DEF Done
  <2>3. t.id = k => s.id = k
    BY <1>3 DEF Sends
  <2>4. t.id = k => t.answered /\ t.hn = g.ch[2]
    BY <1>3, <2>2 DEF Sends
  <2>5. p.kind = "hello" /\ p.conn = k => p.n = g.ch[2]
    BY <2>2 DEF Sends
  <2>6. \A i \in DOMAIN r : HelloAt(r, i, k) => r[i].n = g.ch[2]
    BY <1>1, <2>2, <2>5 DEF HelloAt
  <2> QED
    BY <2>2, <2>4, <2>6 DEF Done
<1> QED
  BY <1>2, <1>3 DEF Done, r

-----------------------------------------------------------------------------
(* What the agent's step does to a flow: it takes the first packet.          *)

\* The gate's ClientHello stays, goes, or is the one taken.
Turns(q, g, h) ==
  \/ h.ch = g.ch
  \/ h.ch = NoHello
  \/ Head(q).kind = "hello" /\ h.ch = <<Head(q).conn, Head(q).n>>

LEMMA TailOrder ==
  ASSUME NEW q \in Seq(Packet), q # <<>>, NEW s \in Socket, NEW g \in Gate, NEW h,
         NEW o \in Nat, QueueInv(q, s, o), SynsFirst(q, s, g), Later(q, s, g, o), Turns(q, g, h)
  PROVE  SynsFirst(Tail(q), s, h) /\ Later(Tail(q), s, h, o)
<1> DEFINE r == Tail(q)
<1>1. /\ Head(q) = q[1] /\ 1 \in DOMAIN q
      /\ \A i \in DOMAIN r : i \in Nat /\ 1 < i + 1 /\ i + 1 \in DOMAIN q /\ r[i] = q[i + 1]
  BY TailFacts
<1>2. \A i, j \in DOMAIN r : i < j => i + 1 < j + 1
  BY <1>1
<1> HIDE DEF r
<1>3. /\ \A i, j \in DOMAIN r : i < j /\ NonSyn(r[i]) /\ ~NonSyn(r[j]) => r[i].conn # r[j].conn
      /\ \A i \in DOMAIN r : NonSyn(r[i]) /\ r[i].conn = s.id => IsOpen(s)
  BY <1>1, <1>2 DEF SynsFirst
<1>4. CASE h.ch = g.ch
  <2>1. SynsFirst(r, s, h)
    BY <1>1, <1>3, <1>4 DEF SynsFirst
  <2>2. Later(r, s, h, o)
    BY <1>1, <1>4 DEF Later
  <2> QED
    BY <2>1, <2>2 DEF r
<1>5. CASE h.ch = NoHello
  BY <1>3, <1>5 DEF SynsFirst, Later, r
<1>6. CASE Head(q).kind = "hello" /\ h.ch = <<Head(q).conn, Head(q).n>>
  <2>1. h.ch[1] = q[1].conn /\ NonSyn(q[1])
    BY <1>1, <1>6 DEF NonSyn
  <2>2. \A i \in DOMAIN r : ~NonSyn(r[i]) => r[i].conn # h.ch[1]
    BY <1>1, <2>1 DEF SynsFirst
  <2>3. h.ch[1] = s.id => IsOpen(s)
    BY <1>1, <2>1 DEF SynsFirst
  <2>4. SynsFirst(r, s, h)
    BY <1>3, <2>2, <2>3 DEF SynsFirst
  <2>5. Later(r, s, h, o)
    BY <1>1, <2>1 DEF Later, QueueInv, Ordered
  <2> QED
    BY <2>4, <2>5 DEF r
<1> QED
  BY <1>4, <1>5, <1>6 DEF Turns

\* The agent has looked at the packet: its gate has the ClientHello that it was.
Looked(q, g, h) ==
  IF Head(q).kind = "hello" THEN h.ch = <<Head(q).conn, Head(q).n>>
  ELSE h.ch = g.ch \/ h.ch = NoHello

LEMMA TailCurrent ==
  ASSUME NEW q \in Seq(Packet), q # <<>>, NEW g, NEW h, Looked(q, g, h),
         NEW k \in Conns, NEW j \in Nat \ {0}, NEW m, Current(Tail(q), h, k, j, m)
  PROVE  Current(q, g, k, j + 1, m)
<1> DEFINE r == Tail(q)
<1>1. /\ Head(q) = q[1] /\ 1 \in DOMAIN q
      /\ \A i \in DOMAIN r : i \in Nat /\ 1 < i + 1 /\ i + 1 \in DOMAIN q /\ r[i] = q[i + 1]
      /\ \A i \in DOMAIN q : i = 1 \/ \E l \in DOMAIN r : i = l + 1
  <2>1. \A i \in DOMAIN q : i # 1 => i - 1 \in DOMAIN Tail(q) /\ i = (i - 1) + 1
    OBVIOUS
  <2> HIDE DEF r
  <2> QED
    BY <2>1, TailFacts DEF r
<1> HIDE DEF r
<1>2. \A i \in DOMAIN r : HelloAt(q, i + 1, k) <=> HelloAt(r, i, k)
  BY <1>1 DEF HelloAt
<1>3. ASSUME NEW i \in Nat, NoneBetween(r, i, j, k)
      PROVE  NoneBetween(q, i + 1, j + 1, k)
  <2> SUFFICES ASSUME NEW l \in DOMAIN q, i + 1 < l, l < j + 1 PROVE ~HelloAt(q, l, k)
    BY DEF NoneBetween
  <2>1. PICK e \in DOMAIN r : l = e + 1
    BY <1>1
  <2>2. i < e /\ e < j
    BY <1>1, <2>1
  <2> QED
    BY <1>2, <1>3, <2>1, <2>2 DEF NoneBetween
<1>4. ASSUME NEW i \in DOMAIN r, i < j, HelloAt(r, i, k), r[i].n = m, NoneBetween(r, i, j, k)
      PROVE  Current(q, g, k, j + 1, m)
  <2>1. i + 1 \in DOMAIN q /\ i + 1 < j + 1 /\ q[i + 1].n = m /\ HelloAt(q, i + 1, k)
    BY <1>1, <1>2, <1>4
  <2>2. NoneBetween(q, i + 1, j + 1, k)
    BY <1>1, <1>3, <1>4
  <2> QED
    BY <2>1, <2>2 DEF Current
<1>5. CASE NoneBetween(r, 0, j, k) /\ h.ch = <<k, m>>
  <2>1. NoneBetween(q, 1, j + 1, k) /\ 1 < j + 1
    BY <1>3, <1>5
  <2>2. CASE Head(q).kind = "hello"
    <3>1. HelloAt(q, 1, k) /\ q[1].n = m
      BY <1>1, <1>5, <2>2 DEF Looked, HelloAt
    <3> QED
      BY <1>1, <2>1, <3>1 DEF Current
  <2>3. CASE Head(q).kind # "hello"
    <3>1. ~HelloAt(q, 1, k)
      BY <1>1, <2>3 DEF HelloAt
    <3>2. \A i \in DOMAIN q : i = 1 \/ 1 < i
      BY <1>1
    <3>3. NoneBetween(q, 0, j + 1, k)
      BY <2>1, <3>1, <3>2 DEF NoneBetween
    <3>4. <<k, m>> # NoHello
      BY AuditAssumption DEF Conns, NoHello
    <3>5. g.ch = <<k, m>>
      BY <1>5, <2>3, <3>4 DEF Looked
    <3> QED
      BY <3>3, <3>5 DEF Current
  <2> QED
    BY <2>2, <2>3
<1> QED
  BY <1>4, <1>5 DEF Current, r

LEMMA TailSettled ==
  ASSUME NEW q \in Seq(Packet), q # <<>>, NEW s \in Socket, NEW g, NEW h, Looked(q, g, h),
         Answered(q, g), Sent(q, s, g)
  PROVE  Answered(Tail(q), h) /\ Sent(Tail(q), s, h)
<1> DEFINE r == Tail(q)
<1>1. /\ \A i \in DOMAIN r : i \in Nat \ {0} /\ i + 1 \in DOMAIN q /\ r[i] = q[i + 1]
      /\ Len(r) + 1 \in Nat \ {0} /\ (Len(r) + 1) + 1 = Len(q) + 1
  OBVIOUS
<1>2. \A i, j \in DOMAIN r : i < j => i + 1 < j + 1
  BY <1>1
<1>3. \A k \in Conns, m \in 0 .. MaxHello : \A j \in Nat \ {0} :
        Current(r, h, k, j, m) => Current(q, g, k, j + 1, m)
  BY TailCurrent
<1> HIDE DEF r
<1>4. \A i \in DOMAIN r : \A k : /\ AnswerAt(r, i, k) => AnswerAt(q, i + 1, k)
                                 /\ HelloAt(r, i, k) => HelloAt(q, i + 1, k)
  BY <1>1 DEF AnswerAt, HelloAt
<1>5. Answered(r, h)
  <2> SUFFICES ASSUME NEW k \in Conns, NEW j \in DOMAIN r, NEW l \in DOMAIN r,
                      NEW m \in 0 .. MaxHello,
                      AnswerAt(r, j, k), j < l, HelloAt(r, l, k), Current(r, h, k, j, m)
               PROVE  r[l].n = m
    BY DEF Answered
  <2>1. /\ j + 1 \in DOMAIN q /\ l + 1 \in DOMAIN q /\ j + 1 < l + 1
        /\ AnswerAt(q, j + 1, k) /\ HelloAt(q, l + 1, k) /\ Current(q, g, k, j + 1, m)
        /\ r[l].n = q[l + 1].n
    BY <1>1, <1>2, <1>3, <1>4
  <2> QED
    BY <2>1 DEF Answered
<1>6. ASSUME s.id # 0 PROVE s.id \in Conns
  BY <1>6 DEF Socket, NoSocket
<1>7. ASSUME s.id # 0, NEW j \in DOMAIN r, AnswerAt(r, j, s.id)
      PROVE  s.answered /\ \A m \in 0 .. MaxHello : Current(r, h, s.id, j, m) => s.hn = m
  <2>1. j \in Nat \ {0} /\ j + 1 \in DOMAIN q /\ AnswerAt(q, j + 1, s.id)
    BY <1>1, <1>4, <1>7
  <2>2. s.answered /\ \A m \in 0 .. MaxHello : Current(q, g, s.id, j + 1, m) => s.hn = m
    BY <1>7, <2>1 DEF Sent
  <2> QED
    BY <1>3, <1>6, <1>7, <2>1, <2>2
<1>8. ASSUME s.id # 0, NEW m \in 0 .. MaxHello, Current(r, h, s.id, Len(r) + 1, m)
      PROVE  s.hn = m
  <2>1. Current(q, g, s.id, Len(q) + 1, m)
    BY <1>1, <1>3, <1>6, <1>8
  <2> QED
    BY <1>8, <2>1 DEF Sent
<1> QED
  BY <1>5, <1>7, <1>8 DEF Sent, r

LEMMA TailDone ==
  ASSUME NEW q \in Seq(Packet), q # <<>>, NEW s, NEW g, NEW h, NEW k,
         h.ch = g.ch, g.seen => h.seen
  PROVE  /\ Lives(k, Tail(q), s) => Lives(k, q, s)
         /\ Done(k, q, s, g) => Done(k, Tail(q), s, h)
<1> DEFINE r == Tail(q)
<1>1. \A i \in DOMAIN r : i + 1 \in DOMAIN q /\ r[i] = q[i + 1]
  BY TailFacts
<1> HIDE DEF r
<1> QED
  BY <1>1 DEF Lives, Done, HelloAt, r

-----------------------------------------------------------------------------
(* The invariant.                                                            *)

Orders ==
  \A f \in Flows : /\ SynsFirst(inq[f], sock[f], gate[f])
                   /\ Later(inq[f], sock[f], gate[f], opened)

\* A connection is of one four-tuple.
Homes ==
  \A f, g \in Flows, k \in Conns :
    Lives(k, inq[f], sock[f]) /\ Lives(k, inq[g], sock[g]) => f = g

Trusted == ~failed /\ ~enobufs

Settled ==
  Trusted => \A f \in Flows : Answered(inq[f], gate[f]) /\ Sent(inq[f], sock[f], gate[f])

RecordedDone ==
  Trusted => \A k \in RecordedConns :
    /\ k \in Conns /\ k <= opened
    /\ \A f \in Flows : Done(k, inq[f], sock[f], gate[f])

ItemsPaired == ~failed => \A i \in DOMAIN items : items[i].ch[1] = items[i].sh
RecordedOnce ==
  Trusted => \A i, j \in DOMAIN items : items[i].sh = items[j].sh => i = j

LogInv == RecordedDone /\ ItemsPaired /\ RecordedOnce
OnceInv == Orders /\ Homes /\ Settled /\ LogInv

LEMMA InitOnce == Init => OnceInv
<1> SUFFICES ASSUME Init PROVE OnceInv
  OBVIOUS
<1>1. \A f \in Flows : /\ inq[f] = <<>> /\ sock[f] = NoSocket /\ gate[f] = NoGate
  BY DEF Init
<1>2. NoGate.ch = NoHello /\ NoSocket.id = 0 /\ items = <<>> /\ DOMAIN <<>> = {}
  BY DEF Init, NoGate, NoSocket
<1>3. Orders
  BY <1>1, <1>2 DEF Orders, SynsFirst, Later
<1>4. Homes
  <2>1. 0 \notin Conns
    BY AuditAssumption DEF Conns
  <2> QED
    BY <1>1, <1>2, <2>1 DEF Homes, Lives
<1>5. Settled
  BY <1>1, <1>2 DEF Settled, Answered, Sent
<1>6. RecordedConns = {}
  BY <1>2 DEF RecordedConns
<1>7. LogInv
  BY <1>2, <1>6 DEF LogInv, RecordedDone, ItemsPaired, RecordedOnce
<1> QED
  BY <1>3, <1>4, <1>5, <1>7 DEF OnceInv

LEMMA FlowTypes ==
  ASSUME AuditInv, NEW f \in Flows
  PROVE  /\ inq[f] \in Seq(Packet) /\ sock[f] \in Socket /\ gate[f] \in Gate
         /\ opened \in Nat /\ QueueInv(inq[f], sock[f], opened)
BY AuditAssumption DEF AuditInv, TypeInv, TypeOK, Queues

LEMMA KernelOnce ==
  ASSUME AuditInv, OnceInv, NEW f \in Flows, Kernel(f)
  PROVE  OnceInv'
<1>0. /\ TypeOK /\ UNCHANGED <<gate, items, failed, enobufs>>
      /\ opened \in Nat /\ opened' \in Nat /\ opened <= opened'
      /\ sock'[f] \in Socket
  BY KernelOpened, KernelType DEF AuditInv, TypeInv, TypeOK, Kernel
<1>1. \A g \in Flows : g # f => sock'[g] = sock[g] /\ inq'[g] = inq[g]
  BY <1>0, KernelFrame
<1>2. /\ inq[f] \in Seq(Packet) /\ sock[f] \in Socket /\ gate[f] \in Gate
      /\ QueueInv(inq[f], sock[f], opened)
      /\ SynsFirst(inq[f], sock[f], gate[f]) /\ Later(inq[f], sock[f], gate[f], opened)
  BY FlowTypes DEF OnceInv, Orders
<1>3. Conns \subseteq Nat /\ 0 \notin Conns
  BY AuditAssumption DEF Conns
<1>4. \/ inq'[f] = inq[f] /\ opened' = opened /\ Keeps(sock[f], sock'[f])
      \/ \E p \in Packet : /\ inq'[f] = Append(inq[f], p)
                           /\ Sends(sock[f], sock'[f], p, opened, opened')
  BY <1>0, KernelSteps
<1>5. SynsFirst(inq'[f], sock'[f], gate[f]) /\ Later(inq'[f], sock'[f], gate[f], opened')
  BY <1>0, <1>2, <1>4, KeepsOrder, SendsOrder
<1>6. Orders'
  <2> SUFFICES ASSUME NEW g \in Flows
               PROVE  /\ SynsFirst(inq'[g], sock'[g], gate[g])
                      /\ Later(inq'[g], sock'[g], gate[g], opened')
    BY <1>0 DEF Orders
  <2>1. CASE g = f
    BY <1>5, <2>1
  <2>2. CASE g # f
    <3>1. /\ SynsFirst(inq'[g], sock'[g], gate[g])
          /\ Later(inq'[g], sock'[g], gate[g], opened)
      BY <1>1, <2>2 DEF OnceInv, Orders
    <3>2. gate[g].ch # NoHello => gate[g].ch[1] \in Nat
      BY FlowTypes, GateFacts
    <3> QED
      BY <1>0, <3>1, <3>2 DEF Later
  <2> QED
    BY <2>1, <2>2
<1>7. ASSUME NEW k \in Conns, Lives(k, inq'[f], sock'[f])
      PROVE  Lives(k, inq[f], sock[f]) \/ (k = opened' /\ opened' = opened + 1)
  <2>1. k \in Nat /\ k # 0
    BY <1>3
  <2>2. CASE inq'[f] = inq[f] /\ Keeps(sock[f], sock'[f])
    BY <1>7, <2>1, <2>2, KeepsDone
  <2>3. ASSUME NEW p \in Packet, inq'[f] = Append(inq[f], p),
               Sends(sock[f], sock'[f], p, opened, opened')
        PROVE  Lives(k, inq[f], sock[f]) \/ (k = opened' /\ opened' = opened + 1)
    <3>1. Lives(k, Append(inq[f], p), sock'[f])
      BY <1>7, <2>3
    <3> QED
      BY <1>0, <1>2, <2>1, <2>3, <3>1, SendsDone
  <2> QED
    BY <1>4, <2>2, <2>3
<1>8. Homes'
  <2> SUFFICES ASSUME NEW g \in Flows, g # f, NEW k \in Conns,
                      Lives(k, inq'[f], sock'[f]), Lives(k, inq'[g], sock'[g])
               PROVE  FALSE
    <3>1. ASSUME NEW a \in Flows, NEW b \in Flows, NEW k \in Conns,
                 Lives(k, inq'[a], sock'[a]), Lives(k, inq'[b], sock'[b]), a # b
          PROVE  FALSE
      <4>1. CASE a = f
        BY <3>1, <4>1
      <4>2. CASE b = f
        BY <3>1, <4>2
      <4>3. CASE a # f /\ b # f
        BY <1>1, <3>1, <4>3 DEF OnceInv, Homes
      <4> QED
        BY <4>1, <4>2, <4>3
    <3> QED
      BY <3>1 DEF Homes
  <2>1. Lives(k, inq[g], sock[g])
    BY <1>1
  <2>2. CASE Lives(k, inq[f], sock[f])
    BY <2>1, <2>2 DEF OnceInv, Homes
  <2>3. CASE k = opened' /\ opened' = opened + 1
    <3>1. k > opened
      BY <1>0, <2>3
    <3>2. \A i \in DOMAIN inq[g] : inq[g][i].conn <= opened
      BY FlowTypes, QueueFacts
    <3>3. sock[g].id <= opened
      BY FlowTypes, QueueFacts
    <3> QED
      BY <1>0, <1>3, <2>1, <3>1, <3>2, <3>3 DEF Lives
  <2> QED
    BY <1>7, <2>2, <2>3
<1>9. Settled'
  <2> SUFFICES ASSUME Trusted, NEW g \in Flows
               PROVE  Answered(inq'[g], gate[g]) /\ Sent(inq'[g], sock'[g], gate[g])
    BY <1>0 DEF Settled, Trusted
  <2>1. Answered(inq[g], gate[g]) /\ Sent(inq[g], sock[g], gate[g])
    BY DEF OnceInv, Settled
  <2>2. CASE g = f
    <3>1. CASE inq'[f] = inq[f] /\ Keeps(sock[f], sock'[f])
      BY <2>1, <2>2, <3>1, KeepsSettled
    <3>2. ASSUME NEW p \in Packet, inq'[f] = Append(inq[f], p),
                 Sends(sock[f], sock'[f], p, opened, opened')
          PROVE  Answered(inq'[f], gate[f]) /\ Sent(inq'[f], sock'[f], gate[f])
      BY <1>0, <1>2, <2>1, <2>2, <3>2, SendsSettled
    <3> QED
      BY <1>4, <2>2, <3>1, <3>2
  <2>3. CASE g # f
    BY <1>1, <2>1, <2>3
  <2> QED
    BY <2>2, <2>3
<1>10. RecordedConns' = RecordedConns
  BY <1>0 DEF RecordedConns
<1>11. RecordedDone'
  <2> SUFFICES ASSUME Trusted, NEW k \in RecordedConns
               PROVE  /\ k \in Conns /\ k <= opened'
                      /\ \A g \in Flows : Done(k, inq'[g], sock'[g], gate[g])
    BY <1>0, <1>10 DEF RecordedDone, Trusted
  <2>1. /\ k \in Conns /\ k <= opened
        /\ \A g \in Flows : Done(k, inq[g], sock[g], gate[g])
    BY DEF OnceInv, LogInv, RecordedDone
  <2>2. k \in Nat /\ k # 0 /\ k <= opened'
    BY <1>0, <1>3, <2>1
  <2>3. Done(k, inq'[f], sock'[f], gate[f])
    <3>1. CASE inq'[f] = inq[f] /\ Keeps(sock[f], sock'[f])
      BY <2>1, <2>2, <3>1, KeepsDone
    <3>2. ASSUME NEW p \in Packet, inq'[f] = Append(inq[f], p),
                 Sends(sock[f], sock'[f], p, opened, opened')
          PROVE  Done(k, inq'[f], sock'[f], gate[f])
      <4>1. Done(k, Append(inq[f], p), sock'[f], gate[f])
        BY <1>0, <1>2, <2>1, <2>2, <3>2, SendsDone
      <4> QED
        BY <3>2, <4>1
    <3> QED
      BY <1>4, <3>1, <3>2
  <2>4. \A g \in Flows : g # f => Done(k, inq'[g], sock'[g], gate[g])
    BY <1>1, <2>1
  <2> QED
    BY <2>1, <2>2, <2>3, <2>4
<1>12. ItemsPaired' /\ RecordedOnce'
  BY <1>0 DEF OnceInv, LogInv, ItemsPaired, RecordedOnce, Trusted
<1> QED
  BY <1>6, <1>8, <1>9, <1>11, <1>12 DEF OnceInv, LogInv

-----------------------------------------------------------------------------
(* The agent's handlers.                                                     *)

\* A departure leaves what the socket has sent.
Same(s, t) ==
  t.id = s.id /\ t.hn = s.hn /\ t.answered = s.answered /\ (IsOpen(s) => IsOpen(t))

LEMMA TakeSocket ==
  ASSUME AuditInv, NEW f \in Flows, sock' = sock \/ Depart(f)
  PROVE  Same(sock[f], sock'[f])
<1>1. sock[f] \in Socket /\ sock \in [Flows -> Socket]
  BY DEF AuditInv, TypeInv, TypeOK
<1>2. CASE sock' = sock
  BY <1>2 DEF Same
<1>3. CASE sock' = [sock EXCEPT ![f].st = "synout"] /\ sock[f].st = "synsent"
  <2>1. sock'[f] = [sock[f] EXCEPT !.st = "synout"]
    BY <1>1, <1>3
  <2>2. [sock[f] EXCEPT !.st = "synout"].id = sock[f].id
        /\ [sock[f] EXCEPT !.st = "synout"].hn = sock[f].hn
        /\ [sock[f] EXCEPT !.st = "synout"].answered = sock[f].answered
    BY <1>1, <1>3 DEF Socket, NoSocket
  <2> QED
    BY <1>3, <2>1, <2>2 DEF Same, IsOpen
<1> QED
  BY <1>2, <1>3 DEF Depart

LEMMA SameFlow ==
  ASSUME NEW q, NEW s, NEW t, NEW g, NEW o, NEW k, Same(s, t)
  PROVE  /\ SynsFirst(q, s, g) => SynsFirst(q, t, g)
         /\ Later(q, s, g, o) => Later(q, t, g, o)
         /\ Sent(q, s, g) => Sent(q, t, g)
         /\ Lives(k, q, t) => Lives(k, q, s)
         /\ Done(k, q, s, g) => Done(k, q, t, g)
BY DEF Same, SynsFirst, Later, Sent, Lives, Done

\* The agent takes a packet of f, with whatever it does to the gate of f.
LEMMA AgentOnce ==
  ASSUME AuditInv, OnceInv, NEW f \in Flows, inq[f] # <<>>, inq' = [inq EXCEPT ![f] = Tail(@)],
         opened' = opened, sock' = sock \/ Depart(f),
         \A g \in Flows : g # f => gate'[g] = gate[g],
         Turns(inq[f], gate[f], gate'[f]),
         Trusted' => Trusted /\ Looked(inq[f], gate[f], gate'[f])
  PROVE  /\ Orders' /\ Homes' /\ Settled'
         /\ \A g \in Flows, k \in Conns : Lives(k, inq'[g], sock'[g]) => Lives(k, inq[g], sock[g])
         /\ inq'[f] = Tail(inq[f])
         /\ \A g \in Flows : g # f => sock'[g] = sock[g] /\ inq'[g] = inq[g]
<1>1. /\ inq'[f] = Tail(inq[f])
      /\ \A g \in Flows : g # f => sock'[g] = sock[g] /\ inq'[g] = inq[g]
  BY ReceiveInv
<1>2. /\ inq[f] \in Seq(Packet) /\ sock[f] \in Socket /\ gate[f] \in Gate /\ opened \in Nat
      /\ QueueInv(inq[f], sock[f], opened)
  BY FlowTypes
<1>3. Same(sock[f], sock'[f])
  BY TakeSocket
<1>4. Orders'
  <2>1. /\ SynsFirst(Tail(inq[f]), sock[f], gate'[f])
        /\ Later(Tail(inq[f]), sock[f], gate'[f], opened)
    BY <1>2, TailOrder DEF OnceInv, Orders
  <2>2. SynsFirst(inq'[f], sock'[f], gate'[f]) /\ Later(inq'[f], sock'[f], gate'[f], opened)
    BY <1>1, <1>3, <2>1, SameFlow
  <2> QED
    BY <1>1, <2>2 DEF OnceInv, Orders
<1>5. ASSUME NEW g \in Flows, NEW k \in Conns, Lives(k, inq'[g], sock'[g])
      PROVE  Lives(k, inq[g], sock[g])
  <2>1. CASE g = f
    <3>1. Lives(k, Tail(inq[f]), sock[f])
      BY <1>1, <1>3, <1>5, <2>1, SameFlow
    <3> QED
      BY <1>2, <2>1, <3>1, TailDone
  <2>2. CASE g # f
    BY <1>1, <1>5, <2>2
  <2> QED
    BY <2>1, <2>2
<1>6. Homes'
  BY <1>5 DEF OnceInv, Homes
<1>7. ASSUME Trusted', NEW g \in Flows
      PROVE  Answered(inq'[g], gate'[g]) /\ Sent(inq'[g], sock'[g], gate'[g])
  <2>1. Answered(inq[g], gate[g]) /\ Sent(inq[g], sock[g], gate[g])
    BY <1>7 DEF OnceInv, Settled
  <2>2. CASE g = f
    <3>1. Answered(Tail(inq[f]), gate'[f]) /\ Sent(Tail(inq[f]), sock[f], gate'[f])
      BY <1>2, <1>7, <2>1, <2>2, TailSettled
    <3> QED
      BY <1>1, <1>3, <2>2, <3>1, SameFlow
  <2>3. CASE g # f
    BY <1>1, <2>1, <2>3
  <2> QED
    BY <2>2, <2>3
<1>8. Settled'
  BY <1>7 DEF Settled
<1> QED
  BY <1>1, <1>4, <1>5, <1>6, <1>8

\* ... and the log keeps what it has, if it has it and the gate stays.
LEMMA AgentLog ==
  ASSUME AuditInv, OnceInv, NEW f \in Flows, inq[f] # <<>>, inq' = [inq EXCEPT ![f] = Tail(@)],
         opened' = opened, sock' = sock \/ Depart(f), items' = items, failed => failed',
         \A g \in Flows : g # f => gate'[g] = gate[g], Trusted' => Trusted,
         Trusted' => \A k \in RecordedConns :
           Done(k, inq[f], sock[f], gate[f]) => Done(k, Tail(inq[f]), sock[f], gate'[f])
  PROVE  LogInv'
<1>1. /\ inq'[f] = Tail(inq[f])
      /\ \A g \in Flows : g # f => sock'[g] = sock[g] /\ inq'[g] = inq[g]
  BY ReceiveInv
<1>2. Same(sock[f], sock'[f])
  BY TakeSocket
<1>3. RecordedConns' = RecordedConns
  BY DEF RecordedConns
<1>4. ASSUME Trusted', NEW k \in RecordedConns, NEW g \in Flows
      PROVE  Done(k, inq'[g], sock'[g], gate'[g])
  <2>1. Done(k, inq[g], sock[g], gate[g])
    BY <1>4 DEF OnceInv, LogInv, RecordedDone
  <2>2. CASE g = f
    <3>1. Done(k, Tail(inq[f]), sock[f], gate'[f])
      BY <1>4, <2>1, <2>2
    <3> QED
      BY <1>1, <1>2, <2>2, <3>1, SameFlow
  <2>3. CASE g # f
    BY <1>1, <2>1, <2>3
  <2> QED
    BY <2>2, <2>3
<1>5. RecordedDone'
  BY <1>3, <1>4 DEF OnceInv, LogInv, RecordedDone
<1>6. ItemsPaired'
  BY DEF OnceInv, LogInv, ItemsPaired, AuditInv, TypeInv, TypeOK
<1>7. RecordedOnce'
  BY DEF OnceInv, LogInv, RecordedOnce
<1> QED
  BY <1>5, <1>6, <1>7 DEF LogInv

LEMMA OverrunOnce ==
  ASSUME AuditInv, OnceInv, NEW f \in Flows, Overrun(f)
  PROVE  OnceInv'
<1>1. /\ UNCHANGED <<sock, opened, gate, items, failed>> /\ ~Trusted'
      /\ inq[f] # <<>> /\ inq' = [inq EXCEPT ![f] = Tail(@)]
  BY DEF Overrun, Trusted
<1>2. Turns(inq[f], gate[f], gate'[f])
  BY <1>1 DEF Turns
<1>3. Orders' /\ Homes' /\ Settled'
  BY <1>1, <1>2, AgentOnce
<1>4. LogInv'
  BY <1>1, AgentLog
<1> QED
  BY <1>3, <1>4 DEF OnceInv

LEMMA DataOnce ==
  ASSUME AuditInv, OnceInv, NEW f \in Flows, HandleData(f)
  PROVE  OnceInv'
<1>1. /\ UNCHANGED <<sock, opened, gate, items, failed, enobufs>> /\ Head(inq[f]).kind = "data"
      /\ inq[f] # <<>> /\ inq' = [inq EXCEPT ![f] = Tail(@)] /\ inq[f] \in Seq(Packet)
  BY FlowTypes DEF HandleData, Receive, Log
<1>2. Turns(inq[f], gate[f], gate'[f]) /\ Looked(inq[f], gate[f], gate'[f])
  BY <1>1 DEF Turns, Looked
<1>3. Trusted' => Trusted
  BY <1>1 DEF Trusted
<1>4. Orders' /\ Homes' /\ Settled'
  BY <1>1, <1>2, <1>3, AgentOnce
<1>5. \A k : Done(k, inq[f], sock[f], gate[f]) => Done(k, Tail(inq[f]), sock[f], gate'[f])
  BY <1>1, TailDone
<1>6. LogInv'
  BY <1>1, <1>3, <1>5, AgentLog
<1> QED
  BY <1>4, <1>6 DEF OnceInv

\* A connection that is on record sends no SYN any more, and no other has its four-tuple
\* before it is gone.
LEMMA SynOnce ==
  ASSUME AuditInv, OnceInv, NEW f \in Flows, HandleSyn(f)
  PROVE  OnceInv'
<1>1. /\ UNCHANGED <<opened, items, enobufs>> /\ Head(inq[f]).kind = "syn" /\ Depart(f)
      /\ inq[f] # <<>> /\ inq' = [inq EXCEPT ![f] = Tail(@)] /\ inq[f] \in Seq(Packet)
      /\ sock[f] \in Socket /\ gate[f] \in Gate /\ opened \in Nat
      /\ QueueInv(inq[f], sock[f], opened)
  BY FlowTypes DEF HandleSyn, Receive, Log
<1>2. /\ \A g \in Flows : g # f => gate'[g] = gate[g]
      /\ gate'[f].ch = gate[f].ch \/ gate'[f].ch = NoHello
      /\ failed => failed'
  BY DEF HandleSyn, AuditInv, TypeInv, TypeOK, FreshGate
<1>3. Turns(inq[f], gate[f], gate'[f]) /\ Looked(inq[f], gate[f], gate'[f])
  BY <1>1, <1>2 DEF Turns, Looked
<1>4. Trusted' => Trusted
  BY <1>1, <1>2 DEF Trusted
<1>5. Orders' /\ Homes' /\ Settled'
  BY <1>1, <1>2, <1>3, <1>4, AgentOnce
<1>6. ASSUME Trusted', NEW k \in RecordedConns, Done(k, inq[f], sock[f], gate[f])
      PROVE  ~Lives(k, inq[f], sock[f])
  <2> SUFFICES ASSUME Lives(k, inq[f], sock[f]) PROVE FALSE
    OBVIOUS
  <2>1. k \in Conns /\ gate[f].ch[1] = k
    BY <1>4, <1>6 DEF OnceInv, LogInv, RecordedDone, Done
  <2>2. k \in Nat /\ k # 0
    BY <2>1, AuditAssumption DEF Conns
  <2>3. gate[f].ch # NoHello
    BY <2>1, <2>2 DEF NoHello
  <2>4. inq[f][1] = Head(inq[f]) /\ 1 \in DOMAIN inq[f] /\ ~NonSyn(inq[f][1])
    BY <1>1, TailFacts DEF NonSyn
  <2>5. inq[f][1].conn # k /\ k <= inq[f][1].conn
    BY <2>1, <2>3, <2>4 DEF OnceInv, Orders, SynsFirst, Later
  <2>6. inq[f][1].conn <= k
    <3>1. \A i \in DOMAIN inq[f] : inq[f][1].conn <= inq[f][i].conn
      <4>1. \A i \in DOMAIN inq[f] : i = 1 \/ 1 < i
        BY <1>1
      <4> QED
        BY <1>1, <2>4, <4>1, QueueFacts
    <3>2. sock[f].id # 0 => inq[f][1].conn <= sock[f].id
      BY <1>1, <2>4, QueueFacts
    <3> QED
      BY <2>2, <3>1, <3>2 DEF Lives
  <2>7. inq[f][1].conn \in Nat
    BY <1>1, <2>4, PacketFacts
  <2> QED
    BY <2>2, <2>5, <2>6, <2>7
<1>7. Trusted' => \A k \in RecordedConns :
        Done(k, inq[f], sock[f], gate[f]) => Done(k, Tail(inq[f]), sock[f], gate'[f])
  <2>1. \A k : Lives(k, Tail(inq[f]), sock[f]) => Lives(k, inq[f], sock[f])
    BY <1>1, TailDone
  <2> QED
    BY <1>6, <2>1 DEF Done
<1>8. LogInv'
  BY <1>1, <1>2, <1>4, <1>7, AgentLog
<1> QED
  BY <1>5, <1>8 DEF OnceInv

\* A connection that is on record sends no other ClientHello.
LEMMA HelloOnce ==
  ASSUME AuditInv, OnceInv, NEW f \in Flows, HandleHello(f)
  PROVE  OnceInv'
<1> DEFINE c == Head(inq[f]).conn
           n == Head(inq[f]).n
<1>1. /\ UNCHANGED <<sock, opened, items, enobufs>> /\ Head(inq[f]).kind = "hello"
      /\ inq[f] # <<>> /\ inq' = [inq EXCEPT ![f] = Tail(@)] /\ inq[f] \in Seq(Packet)
      /\ gate[f] \in Gate /\ gate \in [Flows -> Gate]
  BY FlowTypes DEF HandleHello, Receive, Log, AuditInv, TypeInv, TypeOK
<1>2. \/ gate[f].ch = <<c, n>> /\ UNCHANGED <<gate, failed>>
      \/ /\ gate[f].ch # <<c, n>> /\ failed' = failed
         /\ gate' = [gate EXCEPT ![f] = FreshGate(<<c, n>>)]
      \/ failed' = TRUE /\ gate' = gate
  BY DEF HandleHello
<1>3. /\ \A g \in Flows : g # f => gate'[g] = gate[g]
      /\ gate'[f].ch = gate[f].ch \/ gate'[f].ch = <<c, n>>
      /\ Trusted' => Trusted /\ gate'[f].ch = <<c, n>>
      /\ failed => failed'
  BY <1>1, <1>2 DEF FreshGate, Trusted
<1>4. /\ Turns(inq[f], gate[f], gate'[f])
      /\ Trusted' => Trusted /\ Looked(inq[f], gate[f], gate'[f])
  BY <1>1, <1>3 DEF Turns, Looked
<1>5. Orders' /\ Homes' /\ Settled'
  BY <1>1, <1>3, <1>4, AgentOnce
<1>6. ASSUME Trusted', NEW k \in RecordedConns, Done(k, inq[f], sock[f], gate[f])
      PROVE  Done(k, Tail(inq[f]), sock[f], gate'[f])
  <2>0. Trusted
    BY <1>3, <1>6
  <2>1. CASE gate' = gate
    BY <1>1, <1>6, <2>1, TailDone
  <2>2. CASE ~Lives(k, inq[f], sock[f])
    <3>1. ~Lives(k, Tail(inq[f]), sock[f])
      BY <1>1, <2>2, TailDone
    <3> QED
      BY <3>1 DEF Done
  <2>3. CASE Lives(k, inq[f], sock[f]) /\ gate[f].ch # <<c, n>>
    <3>1. /\ k \in Conns /\ gate[f].ch[1] = k
          /\ \A i \in DOMAIN inq[f] : HelloAt(inq[f], i, k) => inq[f][i].n = gate[f].ch[2]
      BY <1>6, <2>0, <2>3 DEF OnceInv, LogInv, RecordedDone, Done
    <3>2. gate[f].ch # NoHello
      BY <3>1, AuditAssumption DEF Conns, NoHello
    <3>3. c = k
      BY <1>1, <2>0, <3>1, <3>2, HeadPaired DEF Trusted
    <3>4. Head(inq[f]) = inq[f][1] /\ 1 \in DOMAIN inq[f]
      BY <1>1, TailFacts
    <3>5. n = gate[f].ch[2]
      BY <1>1, <3>1, <3>3, <3>4 DEF HelloAt
    <3>6. gate[f].ch = <<gate[f].ch[1], gate[f].ch[2]>>
      BY <1>1, <3>2, GateFacts
    <3> QED
      BY <2>3, <3>1, <3>3, <3>5, <3>6
  <2>4. failed' # TRUE
    BY <1>6 DEF Trusted
  <2> QED
    BY <1>2, <2>1, <2>2, <2>3, <2>4
<1>7. LogInv'
  BY <1>1, <1>3, <1>6, AgentLog
<1> QED
  BY <1>5, <1>7 DEF OnceInv

\* The ServerHello that puts a connection on record: it was not there, and what the gate has
\* is what the server answered.
LEMMA ServerHelloOnce ==
  ASSUME AuditInv, OnceInv, NEW f \in Flows, HandleServerHello(f)
  PROVE  OnceInv'
<1> DEFINE c == Head(inq[f]).conn
           q == inq[f]
<1>1. /\ UNCHANGED <<sock, opened, enobufs>> /\ Head(inq[f]).kind = "serverhello"
      /\ inq[f] # <<>> /\ inq' = [inq EXCEPT ![f] = Tail(@)] /\ inq[f] \in Seq(Packet)
      /\ sock[f] \in Socket
      /\ gate[f] \in Gate /\ gate \in [Flows -> Gate] /\ items \in Seq(Item)
      /\ c = q[1].conn /\ 1 \in DOMAIN q /\ c \in Conns /\ c <= opened
      /\ AnswerAt(q, 1, c)
  <2>1. /\ UNCHANGED <<sock, opened, enobufs>> /\ Head(inq[f]).kind = "serverhello"
        /\ inq[f] # <<>> /\ inq' = [inq EXCEPT ![f] = Tail(@)]
    BY DEF HandleServerHello, Receive
  <2>2. /\ inq[f] \in Seq(Packet) /\ gate[f] \in Gate /\ gate \in [Flows -> Gate]
        /\ items \in Seq(Item) /\ sock[f] \in Socket /\ opened \in Nat
        /\ QueueInv(q, sock[f], opened)
    BY FlowTypes DEF AuditInv, TypeInv, TypeOK
  <2>3. c = q[1].conn /\ 1 \in DOMAIN q /\ q[1] = Head(q)
    BY <2>1, <2>2, TailFacts
  <2>4. q[1] \in Packet /\ c <= opened
    BY <2>2, <2>3, QueueFacts, PacketFacts
  <2>5. c \in Conns
    BY <2>3, <2>4 DEF Packet
  <2> QED
    BY <2>1, <2>2, <2>3, <2>4, <2>5 DEF AnswerAt
<1>2. \/ gate' = gate /\ items' = items /\ (failed' = TRUE \/ failed' = failed)
      \/ /\ gate[f].ch # NoHello /\ ~gate[f].seen /\ gate' = [gate EXCEPT ![f].seen = TRUE]
         /\ \/ items' = items /\ failed' = TRUE
            \/ items' = Append(items, [ch |-> gate[f].ch, sh |-> c]) /\ failed' = failed
  BY DEF HandleServerHello, Record
<1>3. /\ \A g \in Flows : g # f => gate'[g] = gate[g]
      /\ gate'[f].ch = gate[f].ch /\ (gate[f].seen => gate'[f].seen)
      /\ failed => failed'
      /\ Trusted' => Trusted
  <2>1. [gate[f] EXCEPT !.seen = TRUE].ch = gate[f].ch /\ [gate[f] EXCEPT !.seen = TRUE].seen
    BY <1>1 DEF Gate
  <2>2. failed \in BOOLEAN
    BY DEF AuditInv, TypeInv, TypeOK
  <2>3. gate'[f] = gate[f] \/ gate'[f] = [gate[f] EXCEPT !.seen = TRUE]
    BY <1>1, <1>2
  <2>4. \A g \in Flows : g # f => gate'[g] = gate[g]
    BY <1>1, <1>2
  <2>5. failed => failed'
    BY <1>2, <2>2
  <2> QED
    BY <1>1, <2>1, <2>2, <2>3, <2>4, <2>5 DEF Trusted
<1>4. /\ Turns(inq[f], gate[f], gate'[f])
      /\ Looked(inq[f], gate[f], gate'[f])
  BY <1>1, <1>3 DEF Turns, Looked
<1>5. /\ Orders' /\ Homes' /\ Settled'
      /\ inq'[f] = Tail(q)
      /\ \A g \in Flows : g # f => sock'[g] = sock[g] /\ inq'[g] = inq[g]
  BY <1>1, <1>3, <1>4, AgentOnce
<1>6. \A k : Done(k, q, sock[f], gate[f]) => Done(k, Tail(q), sock[f], gate'[f])
  BY <1>1, <1>3, TailDone
<1>7. CASE items' = items
  <2>1. LogInv'
    BY <1>1, <1>3, <1>6, <1>7, AgentLog
  <2> QED
    BY <1>5, <2>1 DEF OnceInv
<1>8. CASE /\ gate[f].ch # NoHello /\ ~gate[f].seen /\ gate' = [gate EXCEPT ![f].seen = TRUE]
           /\ items' = Append(items, [ch |-> gate[f].ch, sh |-> c]) /\ failed' = failed
  <2> DEFINE it == [ch |-> gate[f].ch, sh |-> c]
  <2>1. it.ch = gate[f].ch /\ it.sh = c
    OBVIOUS
  <2> HIDE DEF it
  <2>2. /\ \A i \in DOMAIN items : items'[i] = items[i] /\ i \in DOMAIN items'
        /\ items'[Len(items) + 1] = it /\ Len(items) + 1 \in DOMAIN items'
        /\ \A i \in DOMAIN items' : i \in DOMAIN items \/ i = Len(items) + 1
    <3>1. items' = Append(items, it)
      BY <1>8 DEF it
    <3> QED
      BY <1>1, <3>1
  <2>3. ~failed => gate[f].ch[1] = c
    BY <1>1, <1>8, HeadPaired
  <2>4. ItemsPaired'
    BY <1>8, <2>1, <2>2, <2>3 DEF OnceInv, LogInv, ItemsPaired
  <2>5. Lives(c, q, sock[f])
    BY <1>1 DEF Lives
  <2>6. Trusted => c \notin RecordedConns
    BY <1>8, <2>5 DEF OnceInv, LogInv, RecordedDone, Done
  <2>7. RecordedOnce'
    <3> SUFFICES ASSUME Trusted, NEW i \in DOMAIN items', NEW j \in DOMAIN items',
                        items'[i].sh = items'[j].sh
                 PROVE  i = j
      BY <1>3 DEF RecordedOnce
    <3>1. \A l \in DOMAIN items : items'[l].sh # c
      BY <2>2, <2>6 DEF RecordedConns
    <3>2. CASE i \in DOMAIN items /\ j \in DOMAIN items
      BY <2>2, <3>2 DEF OnceInv, LogInv, RecordedOnce
    <3>3. CASE i = Len(items) + 1 \/ j = Len(items) + 1
      BY <2>1, <2>2, <3>1, <3>3
    <3> QED
      BY <2>2, <3>2, <3>3
  <2>8. \A k \in RecordedConns' : k \in RecordedConns \/ k = c
    BY <2>1, <2>2 DEF RecordedConns
  <2>9. ASSUME Trusted PROVE Done(c, Tail(q), sock[f], gate'[f])
    <3>0. gate'[f].seen /\ gate[f].ch[1] = c /\ gate'[f].ch = gate[f].ch
      BY <1>1, <1>3, <1>8, <2>3, <2>9 DEF Trusted, Gate
    <3>1. gate[f].ch = <<c, gate[f].ch[2]>> /\ gate[f].ch[2] \in 0 .. MaxHello
      BY <1>1, <1>8, <3>0, GateFacts
    <3>2. NoneBetween(q, 0, 1, c)
      <4>1. \A l \in DOMAIN q : ~(0 < l /\ l < 1)
        BY <1>1
      <4> QED
        BY <4>1 DEF NoneBetween
    <3>3. Current(q, gate[f], c, 1, gate[f].ch[2])
      BY <3>1, <3>2 DEF Current
    <3>4. Answered(q, gate[f]) /\ Sent(q, sock[f], gate[f])
      BY <2>9 DEF OnceInv, Settled
    <3>5. ASSUME NEW i \in DOMAIN Tail(q), HelloAt(Tail(q), i, c)
          PROVE  Tail(q)[i].n = gate[f].ch[2]
      <4>1. i + 1 \in DOMAIN q /\ 1 < i + 1 /\ Tail(q)[i] = q[i + 1]
        BY <1>1, TailFacts
      <4>2. HelloAt(q, i + 1, c)
        BY <3>5, <4>1 DEF HelloAt
      <4> QED
        BY <1>1, <3>1, <3>3, <3>4, <4>1, <4>2 DEF Answered
    <3>6. ASSUME sock[f].id = c
          PROVE  sock[f].answered /\ sock[f].hn = gate[f].ch[2]
      <4>1. c # 0
        BY <1>1, AuditAssumption DEF Conns
      <4> QED
        BY <1>1, <3>1, <3>3, <3>4, <3>6, <4>1 DEF Sent
    <3> QED
      BY <3>0, <3>5, <3>6 DEF Done
  <2>10. \A g \in Flows : g # f => ~Lives(c, inq[g], sock[g])
    BY <1>1, <2>5 DEF OnceInv, Homes
  <2>11. RecordedDone'
    <3> SUFFICES ASSUME Trusted, NEW k \in RecordedConns'
                 PROVE  /\ k \in Conns /\ k <= opened'
                        /\ \A g \in Flows : Done(k, inq'[g], sock'[g], gate'[g])
      BY <1>3 DEF RecordedDone
    <3>1. CASE k \in RecordedConns
      <4>1. /\ k \in Conns /\ k <= opened
            /\ \A g \in Flows : Done(k, inq[g], sock[g], gate[g])
        BY <3>1 DEF OnceInv, LogInv, RecordedDone
      <4>2. Done(k, inq'[f], sock'[f], gate'[f])
        BY <1>1, <1>5, <1>6, <4>1
      <4> QED
        BY <1>1, <1>3, <1>5, <4>1, <4>2
    <3>2. CASE k = c
      <4>1. Done(k, inq'[f], sock'[f], gate'[f])
        BY <1>1, <1>5, <2>9, <3>2
      <4>2. \A g \in Flows : g # f => Done(k, inq'[g], sock'[g], gate'[g])
        BY <1>5, <2>10, <3>2 DEF Done
      <4> QED
        BY <1>1, <3>2, <4>1, <4>2
    <3> QED
      BY <2>8, <3>1, <3>2
  <2> QED
    BY <1>5, <2>4, <2>7, <2>11 DEF OnceInv, LogInv
<1> QED
  BY <1>2, <1>7, <1>8

LEMMA OnceNext == AuditInv /\ OnceInv /\ [Next]_vars => OnceInv'
<1> SUFFICES ASSUME AuditInv, OnceInv, [Next]_vars PROVE OnceInv'
  OBVIOUS
<1>1. CASE AuditClose \/ Exit \/ Take \/ Report \/ UNCHANGED vars
  <2>1. UNCHANGED <<kernel, gate, items, enobufs>> /\ (failed => failed')
    BY <1>1 DEF AuditClose, Exit, Take, Report, vars, kernel, log, AuditInv, TypeInv, TypeOK
  <2>2. UNCHANGED <<sock, opened, inq>> /\ (Trusted' => Trusted)
    BY <2>1 DEF kernel, Trusted
  <2>3. RecordedConns' = RecordedConns
    BY <2>1 DEF RecordedConns
  <2>4. Orders' /\ Homes' /\ Settled'
    BY <2>1, <2>2 DEF OnceInv, Orders, Homes, Settled
  <2>5. LogInv'
    BY <2>1, <2>2, <2>3 DEF OnceInv, LogInv, RecordedDone, ItemsPaired, RecordedOnce
  <2> QED
    BY <2>4, <2>5 DEF OnceInv
<1> QED
  BY <1>1, KernelOnce, OverrunOnce, SynOnce, DataOnce, HelloOnce, ServerHelloOnce
     DEF Next, GateThread, Reporter

-----------------------------------------------------------------------------
(* The records file.                                                         *)

ExactRows ==
  ~failed => \A i \in DOMAIN rows :
    rows[i] = [seq |-> i, ch |-> items[i].ch, sh |-> items[i].sh, ok |-> TRUE]
RowsInv ==
  /\ reporter = "report" => Len(rows) + 1 = consumed
  /\ reporter # "report" => Len(rows) = consumed
  /\ ExactRows
  /\ reporter = "exited" => stop /\ consumed = Len(items)
  /\ stop => phase # "run"

LEMMA RowsNext == TypeInv /\ RowsInv /\ [Next]_vars => RowsInv'
<1> SUFFICES ASSUME TypeInv, RowsInv, [Next]_vars PROVE RowsInv'
  OBVIOUS
<1> USE DEF RowsInv
<1>0. /\ rows \in Seq(Row) /\ items \in Seq(Item) /\ consumed \in Nat /\ consumed <= Len(items)
      /\ Len(rows) \in Nat /\ Len(items) \in Nat /\ failed \in BOOLEAN
      /\ \A i \in DOMAIN rows : i \in Nat /\ 0 < i /\ i <= Len(rows) /\ i \in DOMAIN items
  <2>1. /\ rows \in Seq(Row) /\ items \in Seq(Item) /\ consumed \in 0 .. Len(items)
        /\ failed \in BOOLEAN
    BY DEF TypeInv, TypeOK
  <2>2. Len(rows) \in Nat /\ Len(items) \in Nat
    BY <2>1
  <2>3. consumed \in Nat /\ consumed <= Len(items)
    BY <2>1, <2>2
  <2>4. Len(rows) <= Len(items)
    BY <2>2, <2>3
  <2> QED
    BY <2>1, <2>2, <2>3, <2>4
<1>1. ASSUME UNCHANGED <<consumed, rows, stop, phase>>,
             UNCHANGED <<reporter, items>> \/ (phase = "run" /\ failed' = failed),
             failed => failed',
             UNCHANGED reporter \/ (reporter = "waiting" /\ reporter' = "check"),
             \A i \in DOMAIN items : items'[i] = items[i]
      PROVE  RowsInv'
  <2>1. ExactRows'
    BY <1>0, <1>1 DEF ExactRows
  <2>2. reporter' = "exited" => items' = items
    BY <1>1
  <2> QED
    BY <1>1, <2>1, <2>2
<1>2. ASSUME NEW f \in Flows, Kernel(f) \/ Overrun(f) PROVE RowsInv'
  BY <1>1, <1>2 DEF Kernel, Overrun
<1>3. ASSUME NEW f \in Flows, HandleSyn(f) \/ HandleData(f) \/ HandleHello(f) PROVE RowsInv'
  BY <1>0, <1>1, <1>3 DEF HandleSyn, HandleData, HandleHello, Receive, Log
<1>4. ASSUME NEW f \in Flows, HandleServerHello(f) PROVE RowsInv'
  <2>1. UNCHANGED <<consumed, rows, stop, phase>> /\ phase = "run"
    BY <1>4 DEF HandleServerHello, Receive
  <2>2. \/ UNCHANGED <<reporter, items>> /\ (failed => failed')
        \/ /\ items' = Append(items, [ch |-> gate[f].ch, sh |-> Head(inq[f]).conn])
           /\ Awake /\ failed' = failed
    <3>1. \/ failed' = TRUE /\ UNCHANGED <<items, reporter>>
          \/ UNCHANGED <<failed, items, reporter>>
          \/ Record(gate[f].ch, Head(inq[f]).conn)
      BY <1>4 DEF HandleServerHello
    <3> QED
      BY <3>1 DEF Record
  <2>3. \A i \in DOMAIN items : items'[i] = items[i]
    <3>1. CASE UNCHANGED items
      BY <3>1
    <3>2. CASE items' = Append(items, [ch |-> gate[f].ch, sh |-> Head(inq[f]).conn])
      BY <1>0, <3>2
    <3> QED
      BY <2>2, <3>1, <3>2
  <2>4. UNCHANGED reporter \/ (reporter = "waiting" /\ reporter' = "check")
    BY <2>2 DEF Awake
  <2>5. (failed => failed') /\ (UNCHANGED <<reporter, items>> \/ failed' = failed)
    BY <2>2
  <2> QED
    BY <1>1, <2>1, <2>3, <2>4, <2>5
<1>5. CASE AuditClose
  <2>1. UNCHANGED <<consumed, rows, items, failed>> /\ stop' = TRUE /\ phase' = "closing"
        /\ Awake /\ phase = "run"
    BY <1>5 DEF AuditClose
  <2>2. ExactRows'
    BY <2>1 DEF ExactRows
  <2> QED
    BY <2>1, <2>2 DEF Awake
<1>6. CASE Exit \/ UNCHANGED vars
  <2>1. UNCHANGED <<consumed, rows, items, failed, stop, reporter>>
        /\ (phase' = phase \/ phase' = "exit")
    BY <1>6 DEF Exit, vars, log
  <2>2. ExactRows'
    BY <2>1 DEF ExactRows
  <2> QED
    BY <2>1, <2>2
<1>7. CASE Take
  <2>1. UNCHANGED <<rows, items, failed, stop, phase>> /\ reporter = "check"
    BY <1>7 DEF Take
  <2>2. ExactRows'
    BY <2>1 DEF ExactRows
  <2> QED
    BY <1>0, <1>7, <2>1, <2>2 DEF Take
<1>8. CASE Report
  <2>1. PICK ok \in BOOLEAN :
          /\ rows' = Append(rows, [seq |-> consumed, ch |-> items[consumed].ch,
                                   sh |-> items[consumed].sh, ok |-> ok])
          /\ failed' = (failed \/ ~ok)
    BY <1>8 DEF Report
  <2>2. UNCHANGED <<items, consumed, stop, phase>> /\ reporter = "report" /\ reporter' = "check"
        /\ Len(rows) + 1 = consumed
    BY <1>8 DEF Report
  <2> DEFINE row == [seq |-> consumed, ch |-> items[consumed].ch, sh |-> items[consumed].sh,
                     ok |-> ok]
  <2>3. rows' = Append(rows, row)
    BY <2>1
  <2>4. ~failed' => ~failed /\ row = [seq |-> consumed, ch |-> items[consumed].ch,
                                      sh |-> items[consumed].sh, ok |-> TRUE]
    BY <2>1
  <2> HIDE DEF row
  <2>5. /\ Len(rows') = Len(rows) + 1
        /\ \A i \in DOMAIN rows : rows'[i] = rows[i]
        /\ rows'[Len(rows) + 1] = row
        /\ \A i \in DOMAIN rows' : i \in DOMAIN rows \/ i = Len(rows) + 1
    BY <1>0, <2>3
  <2>6. ExactRows'
    BY <2>2, <2>4, <2>5 DEF ExactRows
  <2> QED
    BY <2>2, <2>5, <2>6
<1> QED
  BY <1>2, <1>3, <1>4, <1>5, <1>6, <1>7, <1>8 DEF Next, GateThread, Reporter

LEMMA InitRows == Init => RowsInv
BY DEF Init, RowsInv, ExactRows

-----------------------------------------------------------------------------
HonestInv == AuditInv /\ OnceInv /\ RowsInv

\* While neither the log nor the queue has failed, a connection on record has the gate of its
\* four-tuple, with its ServerHello, and has nothing else to be recorded for; and the thread
\* that makes the reports has written one row of each item it took but the last.
THEOREM HonestInvariance == Spec => []HonestInv
<1>1. Init => HonestInv
  BY InitInv, InitOnce, InitRows DEF HonestInv
<1>2. HonestInv /\ [Next]_vars => HonestInv'
  BY NextInv, OnceNext, RowsNext DEF HonestInv, AuditInv
<1> QED
  BY <1>1, <1>2, PTL DEF Spec

\* Exit status 0 is a log of all handshakes: as many connections as were expected, each once
\* and with the ClientHello its server answered, and one written report of each in order.
THEOREM CompleteHonest == Spec => []CompleteIsHonest
<1>1. ASSUME HonestInv, phase = "exit", Complete
      PROVE  /\ Cardinality(RecordedConns) = Expected
             /\ \A i \in DOMAIN items : items[i].ch[1] = items[i].sh
             /\ reporter = "exited" =>
                  /\ Len(rows) = Expected
                  /\ \A i \in DOMAIN rows :
                       rows[i] = [seq |-> i, ch |-> items[i].ch, sh |-> items[i].sh, ok |-> TRUE]
  <2>1. Trusted /\ Len(items) = Expected /\ items \in Seq(Item) /\ Expected \in Nat
    BY <1>1, AuditAssumption DEF Complete, Trusted, HonestInv, AuditInv, TypeInv, TypeOK
  <2>2. Cardinality(RecordedConns) = Expected
    <3> DEFINE h == [i \in 1 .. Expected |-> items[i].sh]
    <3>1. DOMAIN items = 1 .. Expected
      BY <2>1
    <3>2. \A i, j \in 1 .. Expected : items[i].sh = items[j].sh => i = j
      BY <1>1, <2>1, <3>1 DEF HonestInv, OnceInv, LogInv, RecordedOnce
    <3>3. \A i \in 1 .. Expected : items[i].sh \in RecordedConns
      BY <3>1 DEF RecordedConns
    <3>4. \A k \in RecordedConns : \E i \in 1 .. Expected : items[i].sh = k
      BY <3>1 DEF RecordedConns
    <3>5. h \in [1 .. Expected -> RecordedConns]
      BY <3>3
    <3>6. h \in Injection(1 .. Expected, RecordedConns)
      BY <3>2, <3>5 DEF Injection, IsInjective
    <3>7. h \in Surjection(1 .. Expected, RecordedConns)
      BY <3>4, <3>5 DEF Surjection
    <3>8. ExistsBijection(1 .. Expected, RecordedConns)
      BY <3>6, <3>7 DEF ExistsBijection, Bijection
    <3>9. IsFiniteSet(1 .. Expected) /\ Cardinality(1 .. Expected) = Expected
      BY <2>1, FS_Interval
    <3> QED
      BY <3>8, <3>9, FS_Bijection
  <2>3. \A i \in DOMAIN items : items[i].ch[1] = items[i].sh
    BY <1>1, <2>1 DEF HonestInv, OnceInv, LogInv, ItemsPaired, Trusted
  <2>4. ASSUME reporter = "exited" PROVE Len(rows) = Expected
    BY <1>1, <2>1, <2>4 DEF HonestInv, RowsInv
  <2>5. \A i \in DOMAIN rows :
          rows[i] = [seq |-> i, ch |-> items[i].ch, sh |-> items[i].sh, ok |-> TRUE]
    BY <1>1, <2>1 DEF HonestInv, RowsInv, ExactRows, Trusted
  <2> QED
    BY <2>2, <2>3, <2>4, <2>5
<1>2. HonestInv => CompleteIsHonest
  BY <1>1 DEF CompleteIsHonest
<1> QED
  BY <1>2, HonestInvariance, PTL

-----------------------------------------------------------------------------
(* No wakeup is lost.                                                        *)

\* The thread that makes reports waits only while there is nothing to do.
WaitsForWork == reporter = "waiting" => consumed = Len(items) /\ ~stop

LEMMA WaitNext == WaitsForWork /\ [Next]_vars => WaitsForWork'
<1> SUFFICES ASSUME WaitsForWork, [Next]_vars PROVE WaitsForWork'
  OBVIOUS
<1> USE DEF WaitsForWork
<1>1. CASE UNCHANGED <<items, consumed, stop, reporter>>
  BY <1>1
<1>2. CASE Awake
  BY <1>2 DEF Awake
<1>3. ASSUME NEW f \in Flows, Kernel(f) \/ Overrun(f) \/ HandleSyn(f) \/ HandleData(f) \/ HandleHello(f)
      PROVE  UNCHANGED <<items, consumed, stop, reporter>>
  BY <1>3 DEF Kernel, Overrun, HandleSyn, HandleData, HandleHello, Receive, Log
<1>4. ASSUME NEW f \in Flows, HandleServerHello(f)
      PROVE  Awake \/ UNCHANGED <<items, consumed, stop, reporter>>
  BY <1>4 DEF HandleServerHello, Receive, Record
<1>5. CASE AuditClose
  BY <1>2, <1>5 DEF AuditClose
<1>6. CASE Exit
  BY <1>6 DEF Exit, log
<1>7. CASE Take \/ Report
  BY <1>7 DEF Take, Report
<1>8. CASE UNCHANGED vars
  BY <1>8 DEF vars
<1> QED
  BY <1>1, <1>2, <1>3, <1>4, <1>5, <1>6, <1>7, <1>8 DEF Next, GateThread, Reporter

\* The thread never sleeps over an item or over the stop: whatever it waits for is signalled
\* under the mutex it looked with (client_audit_record, client_audit_close,
\* audit_report_worker).  What CloseEnds needs of the scheduler is then no more than fairness.
THEOREM NoWakeupIsLost == Spec => []WaitsForWork
<1>1. Init => WaitsForWork
  BY DEF Init, WaitsForWork
<1> QED
  BY <1>1, WaitNext, PTL DEF Spec
=============================================================================
