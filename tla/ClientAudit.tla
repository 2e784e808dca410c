---------------------------- MODULE ClientAudit ----------------------------
(***************************************************************************)
(* The Linux client agent with --audit-only (tcpra_client_agent.c,         *)
(* client_audit.h): it delays nothing and proves nothing to anybody, but   *)
(* writes down every handshake, and has a report made of each by a thread  *)
(* of its own.  Its exit status says whether the log can be relied on.     *)
(*                                                                         *)
(* The gate thread handles the packets of both directions that NFQUEUE     *)
(* hands it, in order; a connection it has marked bypasses it.             *)
(***************************************************************************)
EXTENDS Naturals, Sequences, FiniteSets

CONSTANTS
  Flows,      \* TCP four-tuples of the protected endpoint
  Expected,   \* --expected, which is also the capacity of the log
  TableCap,   \* CLIENT_FLOW_CAPACITY
  MaxConn,    \* bound: connections the applications open
  MaxHello,   \* bound: different ClientHellos of a connection (HelloRetryRequest)
  MaxInq      \* bound: packets of a flow waiting in the kernel's queue

ASSUME AuditAssumption ==
  /\ Expected \in Nat \ {0}
  /\ TableCap \in Nat /\ MaxConn \in Nat /\ MaxHello \in Nat /\ MaxInq \in Nat

VARIABLES
  sock,      \* the socket that owns each four-tuple
  opened,    \* connections opened so far; a connection's cookie is its number
  inq,       \* packets of each flow the kernel has queued for the agent
  ctmark,    \* connections whose packets bypass the agent
  served,    \* connections whose ServerHello the agent let through
  gate,      \* agent->flows
  items,     \* audit.items, audit.count of them, and the observations file
  consumed,  \* audit.consumed
  rows,      \* the records file
  failed,    \* audit.failed
  enobufs,   \* NFQUEUE overran
  stop,      \* audit.stop
  reporter,  \* audit_report_worker
  phase      \* where main() is

kernel == <<sock, opened, inq, ctmark, served>>
log == <<items, consumed, rows, failed, reporter>>
vars == <<sock, opened, inq, ctmark, served, gate, items, consumed, rows, failed, enobufs,
          stop, reporter, phase>>

-----------------------------------------------------------------------------
Conns == 1 .. MaxConn
HelloKeys == Conns \X (1 .. MaxHello)
NoHello == <<0, 0>>

Packet == {p \in [kind : {"syn", "data", "hello", "serverhello"}, conn : Conns,
                   n : 0 .. MaxHello] : p.kind = "hello" => p.n > 0}

\* hn: the ClientHello the socket sent last, answered: whether the server answered with a
\* ServerHello.
NoSocket == [id |-> 0, st |-> "closed", hn |-> 0, answered |-> FALSE]
Socket == [id : Conns, st : {"synsent", "synout", "established", "closing"},
           hn : 0 .. MaxHello, answered : BOOLEAN] \cup {NoSocket}

\* An entry of the table; a gate with a ServerHello has been recorded, or the log has failed.
Gate == [live : BOOLEAN, ch : HelloKeys \cup {NoHello}, seen : BOOLEAN]
NoGate == [live |-> FALSE, ch |-> NoHello, seen |-> FALSE]
FreshGate(ch) == [live |-> TRUE, ch |-> ch, seen |-> FALSE]

Item == [ch : HelloKeys, sh : Conns]
Row == [seq : Nat, ch : HelloKeys, sh : Conns, ok : BOOLEAN]

\* Without --audit-dlog there are no reports and no thread that makes them.
Init ==
  /\ sock = [f \in Flows |-> NoSocket]
  /\ opened = 0
  /\ inq = [f \in Flows |-> <<>>]
  /\ ctmark = {} /\ served = {}
  /\ gate = [f \in Flows |-> NoGate]
  /\ items = <<>> /\ consumed = 0 /\ rows = <<>>
  /\ failed = FALSE /\ enobufs = FALSE /\ stop = FALSE
  /\ reporter \in {"check", "none"}
  /\ phase = "run"

-----------------------------------------------------------------------------
(* The kernel, the applications and the server.  A ClientHello that comes in *)
(* several segments is data to the agent, which looks at single packets.     *)

Emit(f, kind, n) ==
  /\ Len(inq[f]) < MaxInq
  /\ inq' = [inq EXCEPT ![f] = Append(@, [kind |-> kind, conn |-> sock'[f].id, n |-> n])]

Open(f) == sock[f].st \in {"established", "closing"}

Connect(f) ==
  /\ sock[f].st = "closed" /\ opened < MaxConn
  /\ opened' = opened + 1
  /\ sock' = [sock EXCEPT ![f] = [id |-> opened + 1, st |-> "synsent", hn |-> 0,
                                  answered |-> FALSE]]
  /\ Emit(f, "syn", 0)

RetransmitSyn(f) ==
  /\ sock[f].st \in {"synsent", "synout"}
  /\ UNCHANGED <<sock, opened>>
  /\ Emit(f, "syn", 0)

Establish(f) ==
  /\ sock[f].st = "synout"
  /\ sock' = [sock EXCEPT ![f].st = "established"]
  /\ UNCHANGED <<opened, inq>>

\* The first ClientHello, the second after a HelloRetryRequest, or the last one again.
SendHello(f, n) ==
  /\ Open(f) /\ sock[f].id \notin ctmark
  /\ n = sock[f].hn \/ (n = sock[f].hn + 1 /\ ~sock[f].answered)
  /\ sock' = [sock EXCEPT ![f].hn = n]
  /\ UNCHANGED opened
  /\ Emit(f, "hello", n)

SendData(f) ==
  /\ Open(f) /\ sock[f].id \notin ctmark
  /\ UNCHANGED <<sock, opened>>
  /\ Emit(f, "data", 0)

\* The server's answer, and its retransmissions.
SendServerHello(f) ==
  /\ Open(f) /\ sock[f].id \notin ctmark
  /\ sock' = [sock EXCEPT ![f].answered = TRUE]
  /\ UNCHANGED opened
  /\ Emit(f, "serverhello", 0)

Close(f) ==
  /\ sock[f].st # "closed"
  /\ sock' = [sock EXCEPT ![f] = IF @.st = "established" THEN [@ EXCEPT !.st = "closing"]
                                 ELSE NoSocket]
  /\ UNCHANGED <<opened, inq>>

Kernel(f) ==
  /\ phase # "exit"
  /\ \/ Connect(f) \/ RetransmitSyn(f) \/ Establish(f) \/ SendData(f)
     \/ SendServerHello(f) \/ Close(f) \/ \E n \in 1 .. MaxHello : SendHello(f, n)
  /\ UNCHANGED <<ctmark, served, gate, items, consumed, rows, failed, enobufs, stop, reporter,
                 phase>>

\* NFQUEUE overruns its buffer: the packet is gone, and the agent is told.
Overrun(f) ==
  /\ phase = "run" /\ inq[f] # <<>>
  /\ inq' = [inq EXCEPT ![f] = Tail(@)]
  /\ enobufs' = TRUE
  /\ UNCHANGED <<sock, opened, ctmark, served, gate, items, consumed, rows, failed, stop,
                 reporter, phase>>

-----------------------------------------------------------------------------
(* handle_client_packet with audit_only.                                     *)

\* gate_flow_slot returns NULL.  The audit frees no gate.
NoSlot(f) == ~gate[f].live /\ Cardinality({g \in Flows : gate[g].live}) >= TableCap

Receive(f, kind) ==
  /\ phase = "run" /\ inq[f] # <<>> /\ Head(inq[f]).kind = kind
  /\ inq' = [inq EXCEPT ![f] = Tail(@)]
  /\ UNCHANGED <<opened, enobufs, stop, phase>>

Log == UNCHANGED <<items, consumed, rows, reporter>>

\* The kernel looks for a socket in SYN_SENT.  Whatever it finds, the SYN leaves.
Depart(f) ==
  sock' = IF Head(inq[f]).conn = sock[f].id /\ sock[f].st = "synsent"
          THEN [sock EXCEPT ![f].st = "synout"] ELSE sock

\* Mutant: a gate that exists is kept.
HandleSynKeeping(f) ==
  /\ Receive(f, "syn")
  /\ Depart(f)
  /\ gate' = IF gate[f].live THEN gate ELSE [gate EXCEPT ![f] = FreshGate(NoHello)]
  /\ UNCHANGED <<ctmark, served, failed>> /\ Log
HandleSyn(f) ==
  /\ Receive(f, "syn")
  /\ Depart(f)
  /\ IF sock[f].st \notin {"synsent", "synout"} \/ NoSlot(f)
     THEN failed' = TRUE /\ UNCHANGED gate
     ELSE gate' = [gate EXCEPT ![f] = FreshGate(NoHello)] /\ UNCHANGED failed
  /\ UNCHANGED <<ctmark, served>> /\ Log

\* A packet of a gate with a ServerHello carries the mark with it.
Authorize(f) ==
  ctmark' = IF gate[f].seen THEN ctmark \cup {Head(inq[f]).conn} ELSE ctmark

HandleData(f) ==
  /\ Receive(f, "data")
  /\ Authorize(f)
  /\ UNCHANGED <<sock, served, gate, failed>> /\ Log

HandleHello(f) ==
  /\ Receive(f, "hello")
  /\ LET ch == <<Head(inq[f]).conn, Head(inq[f]).n>> IN
       \/ gate[f].ch = ch /\ Authorize(f) /\ UNCHANGED <<gate, failed>>
       \/ /\ gate[f].ch # ch /\ ~NoSlot(f)
          /\ gate' = [gate EXCEPT ![f] = FreshGate(ch)]
          /\ UNCHANGED <<ctmark, failed>>
       \/ gate[f].ch # ch /\ NoSlot(f) /\ failed' = TRUE /\ UNCHANGED <<ctmark, gate>>
  /\ UNCHANGED <<sock, served>> /\ Log

\* client_audit_record, with the mutex held.  The thread is woken if it waits.
Awake == reporter' = IF reporter = "waiting" THEN "check" ELSE reporter
Record(ch, sh) ==
  \/ Len(items) >= Expected /\ failed' = TRUE /\ UNCHANGED <<items, reporter>>
  \/ /\ Len(items) < Expected
     /\ items' = Append(items, [ch |-> ch, sh |-> sh])
     /\ Awake
     /\ UNCHANGED failed

HandleServerHello(f) ==
  /\ Receive(f, "serverhello")
  /\ served' = served \cup {Head(inq[f]).conn}
  /\ \/ gate[f].ch = NoHello /\ failed' = TRUE /\ UNCHANGED <<gate, items, reporter>>
     \/ gate[f].seen /\ UNCHANGED <<gate, failed, items, reporter>>
     \/ /\ gate[f].ch # NoHello /\ ~gate[f].seen
        /\ gate' = [gate EXCEPT ![f].seen = TRUE]
        /\ Record(gate[f].ch, Head(inq[f]).conn)
  /\ UNCHANGED <<sock, ctmark, consumed, rows>>

-----------------------------------------------------------------------------
(* audit_report_worker and client_audit_close.                               *)

\* Mutant: the stop is looked at before what is left.
TakeUnlessStopped ==
  /\ reporter = "check"
  /\ reporter' = IF stop THEN "exited" ELSE IF consumed = Len(items) THEN "waiting" ELSE "report"
  /\ consumed' = IF ~stop /\ consumed < Len(items) THEN consumed + 1 ELSE consumed
  /\ UNCHANGED <<kernel, gate, items, rows, failed, enobufs, stop, phase>>

\* The head of the loop, with the mutex held until it waits, takes an item or ends.
Take ==
  /\ reporter = "check"
  /\ \/ consumed < Len(items) /\ consumed' = consumed + 1 /\ reporter' = "report"
     \/ consumed = Len(items) /\ ~stop /\ reporter' = "waiting" /\ UNCHANGED consumed
     \/ consumed = Len(items) /\ stop /\ reporter' = "exited" /\ UNCHANGED consumed
  /\ UNCHANGED <<kernel, gate, items, rows, failed, enobufs, stop, phase>>

\* The report of the item taken is made and written, or not, and a row says which.
Report ==
  /\ reporter = "report"
  /\ \E ok \in BOOLEAN :
       /\ rows' = Append(rows, [seq |-> consumed, ch |-> items[consumed].ch,
                                sh |-> items[consumed].sh, ok |-> ok])
       /\ failed' = (failed \/ ~ok)
  /\ reporter' = "check"
  /\ UNCHANGED <<kernel, gate, items, consumed, enobufs, stop, phase>>

\* Mutant: the thread is not woken.
CloseSilently ==
  /\ phase = "run" /\ phase' = "closing"
  /\ stop' = TRUE
  /\ UNCHANGED <<kernel, gate, log, enobufs>>
AuditClose ==
  /\ phase = "run" /\ phase' = "closing"
  /\ stop' = TRUE
  /\ Awake
  /\ UNCHANGED <<kernel, gate, items, consumed, rows, failed, enobufs>>

Exit ==
  /\ phase = "closing" /\ reporter \in {"exited", "none"}
  /\ phase' = "exit"
  /\ UNCHANGED <<kernel, gate, log, enobufs, stop>>

\* Exit status 0.
Complete == Len(items) = Expected /\ ~failed /\ ~enobufs

-----------------------------------------------------------------------------
GateThread ==
  \/ \E f \in Flows :
       \/ HandleSyn(f) \/ HandleData(f) \/ HandleHello(f) \/ HandleServerHello(f) \/ Overrun(f)
  \/ AuditClose \/ Exit
Reporter == Take \/ Report

Next == (\E f \in Flows : Kernel(f)) \/ GateThread \/ Reporter

Spec == Init /\ [][Next]_vars

\* The library answers, so reports end; nothing makes the agent stop.
FairSpec == Spec /\ WF_vars(Take) /\ WF_vars(Report) /\ WF_vars(Exit)

-----------------------------------------------------------------------------
TypeOK ==
  /\ sock \in [Flows -> Socket]
  /\ opened \in 0 .. MaxConn
  /\ inq \in [Flows -> Seq(Packet)]
  /\ ctmark \subseteq Conns /\ served \subseteq Conns
  /\ gate \in [Flows -> Gate]
  /\ items \in Seq(Item) /\ Len(items) <= Expected
  /\ consumed \in 0 .. Len(items)
  /\ rows \in Seq(Row)
  /\ failed \in BOOLEAN /\ enobufs \in BOOLEAN /\ stop \in BOOLEAN
  /\ reporter \in {"none", "check", "waiting", "report", "exited"}
  /\ phase \in {"run", "closing", "exit"}

\* A connection that the agent let go, marked or with its ServerHello, is on record, unless
\* the log says that it failed: neither a port used again nor a full table or log hides one.
RecordedConns == {items[i].sh : i \in DOMAIN items}
MarkedIsRecorded == ctmark \cup served \subseteq RecordedConns \/ failed

\* Exit status 0 claims a log of all handshakes: each is recorded once, with the ClientHello
\* and the ServerHello of one connection, and if there are reports there is one of each, made
\* and written, in the order of the log.
CompleteIsHonest ==
  phase = "exit" /\ Complete =>
    /\ Cardinality(RecordedConns) = Expected
    /\ \A i \in DOMAIN items : items[i].ch[1] = items[i].sh
    /\ reporter = "exited" =>
         /\ Len(rows) = Expected
         /\ \A i \in DOMAIN rows :
              rows[i] = [seq |-> i, ch |-> items[i].ch, sh |-> items[i].sh, ok |-> TRUE]

\* An agent that was told to stop writes the reports that are due, and ends.
CloseEnds == phase = "closing" ~> phase = "exit"
=============================================================================
