----------------------------- MODULE ClientGate -----------------------------
(***************************************************************************)
(* The Linux client agent (agents/linux/tcpra_client_agent.c).             *)
(*                                                                         *)
(* One gate thread receives every packet of the protected endpoint from    *)
(* NFQUEUE, keeps one gate per TCP four-tuple and decides what may leave   *)
(* the host; a pool of control workers asks the report server about each   *)
(* ClientHello, verifies the report against the ServerHello the gate saw,  *)
(* and hands a decision back to the gate thread.  A gate that is denied,   *)
(* or any doubt about one, quarantines the whole endpoint.                 *)
(*                                                                         *)
(* Around the agent: the kernel's sockets (cookies), its packet queue, the *)
(* nftables pending set and conntrack mark, and the report server, whose   *)
(* answers are arbitrary.                                                  *)
(***************************************************************************)
EXTENDS Naturals, Sequences, FiniteSets

CONSTANTS
  Flows,        \* TCP four-tuples of the protected endpoint
  ServerKeys,   \* report keys: digests of a ServerHello's key share
  NoKey,        \* no key: nothing seen, or a report that does not verify
  Workers,      \* control workers
  Mutual,       \* --mutual-ra
  Selector,     \* TRUE in mode nfqset, FALSE in mode nira (no nft pending set)
  Expected,     \* --expected: how many sessions the agent will start
  MaxHeld,      \* MAX_HELD_PACKETS, per gate
  TableCap,     \* CLIENT_FLOW_CAPACITY
  QueueCap,     \* CLIENT_JOB_CAPACITY = CLIENT_DECISION_CAPACITY
  PendingCap,   \* size of the nft pending set
  MaxConn,      \* bound: connections the applications open
  MaxHello,     \* bound: different ClientHellos of a connection (HelloRetryRequest)
  MaxInq        \* bound: packets of a flow waiting in the kernel's queue

ASSUME ConstantsAssumption ==
  /\ NoKey \notin ServerKeys
  /\ Mutual \in BOOLEAN
  /\ Selector \in BOOLEAN
  /\ Expected \in Nat
  /\ MaxHeld \in Nat
  /\ TableCap \in Nat
  /\ QueueCap \in Nat
  /\ PendingCap \in Nat
  /\ MaxConn \in Nat
  /\ MaxHello \in Nat
  /\ MaxInq \in Nat

VARIABLES
  sock,         \* the socket that owns each four-tuple: its cookie and TCP state
  opened,       \* connections opened so far; a connection's cookie is its number
  inq,          \* packets of each flow the kernel has queued for the agent
  ctmark,       \* connections whose conntrack entry carries mark 0x544c0001:
                \* their packets leave the host without passing the agent
  pending,      \* the nft pending set
  gate,         \* agent->flows
  quarantined,  \* agent->endpoint_quarantined
  sess,         \* agent->sessions, in order of creation
  jobs,         \* agent->jobs: sessions no worker has taken
  decisions,    \* agent->decisions: sessions the gate thread must decide
  worker,       \* the control workers
  phase         \* where main() is: the poll loop, or a stage of shutdown

world == <<sock, opened, inq, ctmark, pending>>
control == <<sess, jobs, decisions, worker>>
vars == <<sock, opened, inq, ctmark, pending, gate, quarantined,
          sess, jobs, decisions, worker, phase>>

-----------------------------------------------------------------------------
Conns == 1 .. MaxConn
\* tcpra_extract_clienthello_lookup digests the key share, which is fresh in
\* every ClientHello: connection c's n-th ClientHello has key <<c, n>>.
HelloKeys == Conns \X (1 .. MaxHello)
NoHello == <<0, 0>>

Packet == [kind : {"syn", "data", "bare"}, conn : Conns, n : {0}]
          \cup [kind : {"hello"}, conn : Conns, n : 1 .. MaxHello]
NoSocket == [id |-> 0, st |-> "closed"]
Socket == [id : Conns, st : {"synsent", "synout", "established", "closing"}]
          \cup {NoSocket}

Gate == [state  : {"none", "handshake", "serverhello", "admitted", "denied"},
         ch     : HelloKeys \cup {NoHello},
         sh     : ServerKeys \cup {NoKey},
         cookie : 0 .. MaxConn,
         held   : Seq(Conns)]
NoGate == [state |-> "none", ch |-> NoHello, sh |-> NoKey, cookie |-> 0, held |-> <<>>]

\* What of struct client_session the threads share.  "att" is the key that both
\* response_report_key and a report that verifies against it name, else NoKey.
Session == [flow    : Flows,
            ch      : HelloKeys,
            sh      : ServerKeys \cup {NoKey},
            att     : ServerKeys \cup {NoKey},
            verify  : BOOLEAN,
            mutual  : BOOLEAN,
            applied : BOOLEAN,
            allowed : BOOLEAN,
            verdict : {"unsent", "yes", "no"},
            success : BOOLEAN,
            counted : BOOLEAN,
            fin     : BOOLEAN]

NewSession(f, ch) ==
  [flow |-> f, ch |-> ch, sh |-> NoKey, att |-> NoKey, verify |-> FALSE,
   mutual |-> FALSE, applied |-> FALSE, allowed |-> FALSE, verdict |-> "unsent",
   success |-> FALSE, counted |-> FALSE, fin |-> FALSE]

\* A worker: its control connection, and of run_control_job's locals whether the
\* response was full.
WorkerState == [pc   : {"idle", "exchange", "awaithello", "queue", "waitgate", "giveup",
                        "verdict", "denyconnect", "waitdeny", "finish", "count", "exited"},
                s    : Nat,
                fd   : BOOLEAN,
                full : BOOLEAN]
IdleWorker(fd) ==
  [pc |-> "idle", s |-> 0, fd |-> fd, full |-> FALSE]

TypeOK ==
  /\ sock \in [Flows -> Socket]
  /\ opened \in 0 .. MaxConn
  /\ inq \in [Flows -> Seq(Packet)]
  /\ ctmark \in SUBSET Conns
  /\ pending \in SUBSET Flows
  /\ gate \in [Flows -> Gate]
  /\ quarantined \in BOOLEAN
  /\ sess \in Seq(Session)
  /\ jobs \in Seq(DOMAIN sess)
  /\ decisions \in Seq(DOMAIN sess)
  /\ worker \in [Workers -> WorkerState]
  /\ \A w \in Workers :
       worker[w].pc \notin {"idle", "exited"} => worker[w].s \in DOMAIN sess
  /\ phase \in {"run", "joining", "draining", "exit"}

\* Both agents are started before business traffic, and start_workers connects
\* every worker's control socket before the ready file is written.
Init ==
  /\ sock = [f \in Flows |-> NoSocket]
  /\ opened = 0
  /\ inq = [f \in Flows |-> <<>>]
  /\ ctmark = {}
  /\ pending = {}
  /\ gate = [f \in Flows |-> NoGate]
  /\ quarantined = FALSE
  /\ sess = <<>>
  /\ jobs = <<>>
  /\ decisions = <<>>
  /\ worker = [w \in Workers |-> IdleWorker(TRUE)]
  /\ phase = "run"

-----------------------------------------------------------------------------
(* The kernel and the applications.  The rules of install-gate.sh say what   *)
(* becomes of a packet an application emits.                                 *)

Marked(f) == sock[f].id \in ctmark

\* An unmarked packet goes to the queue.  (One the nftables quarantine drops is
\* one the application does not emit.)
Emit(f, kind, c, n) ==
  /\ Len(inq[f]) < MaxInq
  /\ inq' = [inq EXCEPT ![f] = Append(@, [kind |-> kind, conn |-> c, n |-> n])]

\* gate_out adds the four-tuple of a SYN to the pending set, while it has room.
AddPending(f) ==
  pending' = IF Cardinality(pending) < PendingCap
             THEN pending \cup {f} ELSE pending

\* A new connection has a cookie and a conntrack entry of its own, unmarked.
Connect(f) ==
  /\ sock[f].st = "closed"
  /\ opened < MaxConn
  /\ opened' = opened + 1
  /\ sock' = [sock EXCEPT ![f] = [id |-> opened + 1, st |-> "synsent"]]
  /\ AddPending(f)
  /\ Emit(f, "syn", opened + 1, 0)
  /\ UNCHANGED <<ctmark, gate, quarantined, control, phase>>

RetransmitSyn(f) ==
  /\ sock[f].st \in {"synsent", "synout"}
  /\ AddPending(f)
  /\ Emit(f, "syn", sock[f].id, 0)
  /\ UNCHANGED <<sock, opened, ctmark, gate, quarantined, control, phase>>

Establish(f) ==
  /\ sock[f].st = "synout"
  /\ sock' = [sock EXCEPT ![f].st = "established"]
  /\ UNCHANGED <<opened, inq, ctmark, pending, gate, quarantined, control, phase>>

SendHello(f, n) ==
  /\ sock[f].st \in {"established", "closing"}
  /\ ~Marked(f)
  /\ Emit(f, "hello", sock[f].id, n)
  /\ UNCHANGED <<sock, opened, ctmark, pending, gate, quarantined,
                 control, phase>>

\* Application data, or a retransmission of it.
SendData(f) ==
  /\ sock[f].st \in {"established", "closing"}
  /\ ~Marked(f)
  /\ Emit(f, "data", sock[f].id, 0)
  /\ UNCHANGED <<sock, opened, ctmark, pending, gate, quarantined, control,
                 phase>>

\* A segment without payload: an ACK, a FIN.
SendBare(f) ==
  /\ sock[f].st \in {"established", "closing"}
  /\ ~Marked(f)
  /\ Emit(f, "bare", sock[f].id, 0)
  /\ UNCHANGED <<sock, opened, ctmark, pending, gate, quarantined,
                 control, phase>>

Close(f) ==
  /\ sock[f].st # "closed"
  /\ sock' = [sock EXCEPT ![f] = IF @.st = "established" THEN [@ EXCEPT !.st = "closing"]
                                 ELSE NoSocket]
  /\ UNCHANGED <<opened, inq, ctmark, pending, gate, quarantined, control, phase>>

\* NFQUEUE overruns its buffer: the packet is gone.
Overrun(f) ==
  /\ phase = "run"
  /\ inq[f] # <<>>
  /\ inq' = [inq EXCEPT ![f] = Tail(@)]
  /\ UNCHANGED <<sock, opened, ctmark, pending, gate, quarantined,
                 control, phase>>

-----------------------------------------------------------------------------
(* The gate thread: handle_client_packet and nfqueue_callback.               *)

Live(f) == gate[f].state # "none"
Undecided(f) == gate[f].state \in {"handshake", "serverhello"}

\* gate_flow_slot returns NULL: the table holds TableCap other flows.
NoSlot(f) == ~Live(f) /\ Cardinality({g \in Flows : Live(g)}) >= TableCap

\* reset_gate_flow drops what the gate held and starts it over.
FreshGate(ch, cookie) ==
  [state |-> "handshake", ch |-> ch, sh |-> NoKey, cookie |-> cookie, held |-> <<>>]

\* quarantine_endpoint sets the flag; the nft transaction may fail, unnoticed.
Quarantine == quarantined' = TRUE

\* The callback takes the flow's next packet off the queue.
Receive(f, kind) ==
  /\ phase = "run"
  /\ inq[f] # <<>>
  /\ Head(inq[f]).kind = kind
  /\ inq' = [inq EXCEPT ![f] = Tail(@)]

\* A packet of a quarantined endpoint is dropped before anything else.
DropQuarantined(f) ==
  /\ quarantined
  /\ \E kind \in {"syn", "hello", "data", "bare"} : Receive(f, kind)
  /\ UNCHANGED <<sock, opened, ctmark, pending, gate, quarantined,
                 control, phase>>

\* Mutant: a SYN moves an existing gate to the new connection, without a reset.
HandleSynKeepingGate(f) ==
  /\ ~quarantined
  /\ Receive(f, "syn")
  /\ gate' = [gate EXCEPT ![f] = IF @.state = "none" THEN FreshGate(NoHello, sock[f].id)
                                 ELSE [@ EXCEPT !.cookie = sock[f].id]]
  /\ sock' = [sock EXCEPT ![f].st = "synout"]
  /\ UNCHANGED <<opened, ctmark, pending, control, quarantined, phase>>

\* The cookie is read from the socket that owns the four-tuple now, which must
\* be in SYN_SENT; a SYN of a socket that has moved on quarantines the endpoint.
HandleSyn(f) ==
  /\ ~quarantined
  /\ Receive(f, "syn")
  /\ IF sock[f].st \notin {"synsent", "synout"} \/ NoSlot(f)
     THEN Quarantine /\ UNCHANGED <<sock, gate>>
     ELSE /\ gate' = [gate EXCEPT ![f] = FreshGate(NoHello, sock[f].id)]
          /\ sock' = IF Head(inq[f]).conn = sock[f].id
                     THEN [sock EXCEPT ![f].st = "synout"] ELSE sock
          /\ UNCHANGED quarantined
  /\ UNCHANGED <<opened, ctmark, pending, control, phase>>

\* find_generation: the sessions of this flow and ClientHello that still run.
Generation(f, ch) ==
  {s \in DOMAIN sess : sess[s].flow = f /\ sess[s].ch = ch /\ ~sess[s].fin}

\* client_observe_hello: a session for a new ClientHello, unless --expected are
\* started, and a job for it, unless the job queue is full.
ObserveHello(f, ch) ==
  IF Generation(f, ch) # {} \/ Len(sess) >= Expected
  THEN UNCHANGED <<sess, jobs>>
  ELSE /\ sess' = Append(sess, NewSession(f, ch))
       /\ jobs' = IF Len(jobs) < QueueCap THEN Append(jobs, Len(sess) + 1) ELSE jobs

\* A repetition of the ClientHello the gate knows leaves everything as it is.
HandleHello(f) ==
  /\ ~quarantined
  /\ Receive(f, "hello")
  /\ LET p == Head(inq[f])
         ch == <<p.conn, p.n>>
     IN  IF sock[f].st # "established" \/ NoSlot(f)
         THEN Quarantine /\ UNCHANGED <<gate, sess, jobs>>
         ELSE /\ IF Live(f) /\ gate[f].ch = ch /\ gate[f].cookie = sock[f].id
                 THEN UNCHANGED <<gate, sess, jobs>>
                 ELSE /\ gate' = [gate EXCEPT ![f] = FreshGate(ch, sock[f].id)]
                      /\ ObserveHello(f, ch)
              /\ UNCHANGED quarantined
  /\ UNCHANGED <<sock, opened, ctmark, pending, decisions, worker, phase>>

\* A ServerHello of the peer, with any key share.  Only the first after the
\* ClientHello counts; client_observe_server_key hands it to the session, unless
\* the session already has one.
HandleServerHello(f, k) ==
  /\ phase = "run"
  /\ ~quarantined
  /\ ~Marked(f)
  /\ gate[f].ch # NoHello
  /\ gate[f].sh = NoKey
  /\ gate' = [gate EXCEPT ![f].sh = k, ![f].state = "serverhello"]
  /\ sess' = [s \in DOMAIN sess |->
                IF s \in Generation(f, gate[f].ch) /\ sess[s].sh = NoKey
                THEN [sess[s] EXCEPT !.sh = k] ELSE sess[s]]
  /\ UNCHANGED <<world, quarantined, jobs, decisions, worker, phase>>

\* ACTION_AUTHORIZE: the packet leaves with the mark commit_verified puts on
\* its conntrack entry.
OwnsGate(f) == sock[f].st = "established" /\ sock[f].id = gate[f].cookie
Authorize(f) ==
  IF OwnsGate(f)
  THEN ctmark' = ctmark \cup {Head(inq[f]).conn} /\ UNCHANGED quarantined
  ELSE Quarantine /\ UNCHANGED ctmark

\* Payload that is no ClientHello.  Without a gate, or denied, it is dropped.
HandleData(f) ==
  /\ ~quarantined
  /\ Receive(f, "data")
  /\ \/ /\ gate[f].state \in {"none", "denied"}
        /\ UNCHANGED <<ctmark, gate, quarantined>>
     \/ /\ gate[f].state = "admitted"
        /\ Authorize(f)
        /\ UNCHANGED gate
     \/ /\ Undecided(f)
        /\ IF Len(gate[f].held) >= MaxHeld
           THEN Quarantine /\ UNCHANGED gate
           ELSE /\ gate' = [gate EXCEPT ![f].held = Append(@, Head(inq[f]).conn)]
                /\ UNCHANGED quarantined
        /\ UNCHANGED ctmark
  /\ UNCHANGED <<sock, opened, pending, control, phase>>

HandleBare(f) ==
  /\ ~quarantined
  /\ Receive(f, "bare")
  /\ IF gate[f].state = "admitted"
     THEN Authorize(f)
     ELSE UNCHANGED <<ctmark, quarantined>>
  /\ UNCHANGED <<sock, opened, pending, gate, control, phase>>

-----------------------------------------------------------------------------
(* The gate thread: drain_decisions and expire_gate_flows.                   *)

\* What apply_decision requires of the session and of the gate it finds.
\* Mutant of Matches: the decision is for whatever gate the four-tuple has.
MatchesAnyHello(s) == gate[sess[s].flow].ch # NoHello
Matches(s) == gate[sess[s].flow].ch = sess[s].ch
Admissible(s) ==
  LET f == sess[s].flow
  IN  /\ ~quarantined
      /\ sess[s].verify
      /\ Mutual => sess[s].mutual
      /\ gate[f].sh # NoKey
      /\ gate[f].sh = sess[s].sh
      /\ Selector => OwnsGate(f)

Decided(s, allow) ==
  sess' = [sess EXCEPT ![s].applied = TRUE, ![s].allowed = allow]

\* The held packets leave with the mark, and the gate is open.
Admit(s, f) ==
  /\ ctmark' = ctmark \cup {gate[f].held[i] : i \in DOMAIN gate[f].held}
  /\ gate' = [gate EXCEPT ![f].state = "admitted", ![f].held = <<>>]
  /\ Decided(s, TRUE)
  /\ UNCHANGED quarantined

\* The held packets are dropped, and the endpoint is quarantined.
Refuse(s, f) ==
  /\ gate' = IF Matches(s)
             THEN [gate EXCEPT ![f].state = "denied", ![f].held = <<>>] ELSE gate
  /\ Quarantine
  /\ Decided(s, FALSE)
  /\ UNCHANGED ctmark

\* apply_decision; in mode nfqset the flow must also leave the pending set,
\* and deleting it may fail for reasons of netlink's own.
ApplyDecision ==
  /\ phase \in {"run", "draining"}
  /\ decisions # <<>>
  /\ decisions' = Tail(decisions)
  /\ LET s == Head(decisions)
         f == sess[s].flow
     IN  IF Matches(s) /\ Admissible(s)
         THEN \/ ~Selector /\ Admit(s, f) /\ UNCHANGED pending
              \/ /\ Selector /\ f \in pending
                 /\ pending' = pending \ {f}
                 /\ Admit(s, f)
              \/ Selector /\ Refuse(s, f) /\ UNCHANGED pending
         ELSE Refuse(s, f) /\ UNCHANGED pending
  /\ UNCHANGED <<sock, opened, inq, jobs, worker, phase>>

\* Mutants: the deadline denies the gate without quarantining the endpoint, or
\* without dropping what the gate held.
ExpireGateSilently(f) ==
  /\ phase = "run"
  /\ Undecided(f)
  /\ gate' = [gate EXCEPT ![f].state = "denied", ![f].held = <<>>]
  /\ UNCHANGED <<world, quarantined, control, phase>>
ExpireGateHolding(f) ==
  /\ phase = "run"
  /\ Undecided(f)
  /\ gate' = [gate EXCEPT ![f].state = "denied"]
  /\ Quarantine
  /\ UNCHANGED <<world, control, phase>>

\* The deadline of an undecided gate.
ExpireGate(f) ==
  /\ phase = "run"
  /\ Undecided(f)
  /\ gate' = [gate EXCEPT ![f].state = "denied", ![f].held = <<>>]
  /\ Quarantine
  /\ UNCHANGED <<world, control, phase>>

\* A decided gate is forgotten after two minutes.
ForgetGate(f) ==
  /\ phase = "run"
  /\ gate[f].state \in {"admitted", "denied"}
  /\ gate' = [gate EXCEPT ![f] = NoGate]
  /\ UNCHANGED <<world, quarantined, control, phase>>

-----------------------------------------------------------------------------
(* A control worker: run_control_job, cut where it reads or writes what      *)
(* another thread writes.                                                    *)

stopping == phase # "run"
At(w, pc) == worker[w].pc = pc
Goto(w, pc) == worker' = [worker EXCEPT ![w].pc = pc]

WorkerLocal == UNCHANGED <<world, gate, quarantined, phase>>

\* Mutant: the job stays in the queue.
TakeJobTwice(w) ==
  /\ At(w, "idle")
  /\ jobs # <<>>
  /\ worker' = [worker EXCEPT ![w] = [IdleWorker(TRUE) EXCEPT
                  !.pc = "exchange", !.s = Head(jobs)]]
  /\ UNCHANGED <<sess, jobs, decisions>>
  /\ WorkerLocal

\* A worker without a control connection connects; if it cannot, the session is
\* decided without a report.
TakeJob(w) ==
  /\ At(w, "idle")
  /\ jobs # <<>>
  /\ jobs' = Tail(jobs)
  /\ \E up \in IF worker[w].fd THEN {TRUE} ELSE BOOLEAN :
       worker' = [worker EXCEPT ![w] = [IdleWorker(up) EXCEPT
                    !.pc = IF up THEN "exchange" ELSE "denyconnect", !.s = Head(jobs)]]
  /\ UNCHANGED <<sess, decisions>>
  /\ WorkerLocal

\* The request, in mutual mode the early client report, and the response: any
\* failure of the four ends in "full" being FALSE.
Exchange(w) ==
  /\ At(w, "exchange")
  /\ \/ /\ \E k \in ServerKeys \cup {NoKey} :
             sess' = [sess EXCEPT ![worker[w].s].att = k, ![worker[w].s].mutual = Mutual]
        /\ worker' = [worker EXCEPT ![w].pc = "awaithello", ![w].full = TRUE]
     \/ Goto(w, "queue") /\ UNCHANGED sess
  /\ UNCHANGED <<jobs, decisions>>
  /\ WorkerLocal

\* Mutant: the wait has no deadline.
AwaitHelloForever(w) ==
  LET s == worker[w].s
  IN  /\ At(w, "awaithello")
      /\ sess[s].sh # NoKey
      /\ sess' = [sess EXCEPT ![s].verify = (sess[s].att = sess[s].sh)]
      /\ Goto(w, "queue")
      /\ UNCHANGED <<jobs, decisions>>
      /\ WorkerLocal

\* wait_for_server_hello, then the key comparison and tcpra_csv_verify_report.
AwaitHello(w) ==
  LET s == worker[w].s
  IN  /\ At(w, "awaithello")
      /\ \/ /\ sess[s].sh # NoKey
            /\ sess' = [sess EXCEPT ![s].verify = (sess[s].att = sess[s].sh)]
         \/ sess[s].sh = NoKey /\ UNCHANGED sess
      /\ Goto(w, "queue")
      /\ UNCHANGED <<jobs, decisions>>
      /\ WorkerLocal

\* enqueue_decision, on either path; a full queue gives up on the gate.
QueueDecision(w) ==
  /\ \/ /\ At(w, "queue")
        /\ Goto(w, IF Len(decisions) < QueueCap THEN "waitgate" ELSE "giveup")
     \/ At(w, "denyconnect") /\ Goto(w, "waitdeny")
  /\ decisions' = IF Len(decisions) < QueueCap
                  THEN Append(decisions, worker[w].s) ELSE decisions
  /\ UNCHANGED <<sess, jobs>>
  /\ WorkerLocal

\* wait_for_gate: the decision is applied, or CLOCK_REALTIME reaches the
\* deadline, or the agent stops.
WaitGate(w) ==
  /\ \/ /\ At(w, "waitgate")
        /\ Goto(w, IF sess[worker[w].s].applied THEN "verdict" ELSE "giveup")
     \/ At(w, "waitdeny") /\ Goto(w, "finish")
  /\ UNCHANGED <<sess, jobs, decisions>>
  /\ WorkerLocal

\* session->gate_allowed = 0, without the session's mutex.
GiveUp(w) ==
  /\ At(w, "giveup")
  /\ sess' = [sess EXCEPT ![worker[w].s].allowed = FALSE]
  /\ Goto(w, "verdict")
  /\ UNCHANGED <<jobs, decisions>>
  /\ WorkerLocal

\* Mutant: the verdict is the report's, not the gate's.
SendVerdictOfReport(w) ==
  LET s == worker[w].s
  IN  /\ At(w, "verdict")
      /\ worker[w].full
      /\ sess' = [sess EXCEPT ![s].verdict = IF sess[s].verify THEN "yes" ELSE "no"]
      /\ Goto(w, "finish")
      /\ UNCHANGED <<jobs, decisions>>
      /\ WorkerLocal

\* The verdict goes to the server if it sent a full response; whenever that
\* fails the worker reconnects.
SendVerdict(w) ==
  LET s == worker[w].s
  IN  /\ At(w, "verdict")
      /\ \/ /\ worker[w].full
            /\ sess' = [sess EXCEPT ![s].verdict = IF sess[s].allowed THEN "yes" ELSE "no"]
            /\ Goto(w, "finish")
         \/ /\ UNCHANGED sess
            /\ \E up \in BOOLEAN :
                 worker' = [worker EXCEPT ![w].pc = "finish", ![w].fd = up]
      /\ UNCHANGED <<jobs, decisions>>
      /\ WorkerLocal

\* finish_session reads gate_allowed twice, neither time under the session's
\* mutex: for the session's success, and for the counters.
Finish(w) ==
  LET s == worker[w].s
  IN  /\ At(w, "finish")
      /\ sess' = [sess EXCEPT ![s].success = sess[s].allowed /\ sess[s].verdict # "unsent"]
      /\ Goto(w, "count")
      /\ UNCHANGED <<jobs, decisions>>
      /\ WorkerLocal

Count(w) ==
  LET s == worker[w].s
  IN  /\ At(w, "count")
      /\ sess' = [sess EXCEPT ![s].fin = TRUE, ![s].counted = sess[s].allowed]
      /\ worker' = [worker EXCEPT ![w] = IdleWorker(worker[w].fd)]
      /\ UNCHANGED <<jobs, decisions>>
      /\ WorkerLocal

\* The loop's test of stopping; a worker that passed it may still take a job.
ExitWorker(w) ==
  /\ At(w, "idle")
  /\ stopping
  /\ Goto(w, "exited")
  /\ UNCHANGED <<sess, jobs, decisions>>
  /\ WorkerLocal

-----------------------------------------------------------------------------
(* main() after the poll loop: stop_workers, a last drain_decisions, and     *)
(* drop_all_held.                                                            *)

Stop ==
  /\ phase = "run"
  /\ phase' = "joining"
  /\ UNCHANGED <<world, gate, quarantined, control>>

Joined ==
  /\ phase = "joining"
  /\ \A w \in Workers : At(w, "exited")
  /\ phase' = "draining"
  /\ UNCHANGED <<world, gate, quarantined, control>>

Exit ==
  /\ phase = "draining"
  /\ decisions = <<>>
  /\ phase' = "exit"
  /\ gate' = [f \in Flows |-> [gate[f] EXCEPT !.held = <<>>]]
  /\ UNCHANGED <<world, quarantined, control>>

\* Mutant: every session was completed, whatever came of it.
CompleteIfFinished ==
  Cardinality({s \in DOMAIN sess : sess[s].fin}) = Expected

\* The exit status is 0 only if every expected session was completed and verified
\* (and NFQUEUE never overran, which is not recorded here).
Complete ==
  /\ Cardinality({s \in DOMAIN sess : sess[s].fin}) = Expected
  /\ Cardinality({s \in DOMAIN sess : sess[s].counted}) = Expected
  /\ \A s \in DOMAIN sess : sess[s].fin => sess[s].success

-----------------------------------------------------------------------------
Kernel(f) ==
  \/ Connect(f)
  \/ RetransmitSyn(f)
  \/ Establish(f)
  \/ \E n \in 1 .. MaxHello : SendHello(f, n)
  \/ SendData(f)
  \/ SendBare(f)
  \/ Close(f)
  \/ Overrun(f)

Callback(f) ==
  \/ DropQuarantined(f)
  \/ HandleSyn(f)
  \/ HandleHello(f)
  \/ HandleData(f)
  \/ HandleBare(f)

GateThread ==
  \/ \E f \in Flows :
       \/ Callback(f)
       \/ \E k \in ServerKeys : HandleServerHello(f, k)
       \/ ExpireGate(f)
       \/ ForgetGate(f)
  \/ ApplyDecision
  \/ Stop
  \/ Joined
  \/ Exit

ControlWorker(w) ==
  \/ TakeJob(w)
  \/ Exchange(w)
  \/ AwaitHello(w)
  \/ QueueDecision(w)
  \/ WaitGate(w)
  \/ GiveUp(w)
  \/ SendVerdict(w)
  \/ Finish(w)
  \/ Count(w)
  \/ ExitWorker(w)

Next ==
  \/ phase # "exit" /\ \E f \in Flows : Kernel(f)
  \/ GateThread
  \/ \E w \in Workers : ControlWorker(w)

Spec == Init /\ [][Next]_vars

\* The gate thread polls both descriptors and then scans for expired gates, every
\* 100 ms at the latest; every wait of a worker has a deadline, and every send,
\* recv and connect of a control socket has a timeout.
FairSpec ==
  /\ Spec
  /\ \A f \in Flows : WF_vars(Callback(f)) /\ WF_vars(ExpireGate(f))
  /\ WF_vars(ApplyDecision)
  /\ WF_vars(Joined)
  /\ WF_vars(Exit)
  /\ \A w \in Workers : WF_vars(ControlWorker(w))

-----------------------------------------------------------------------------
(* What must hold.                                                           *)

\* Session s proves that flow f's peer is attested for ClientHello ch.
Proves(s, f, ch) ==
  /\ sess[s].flow = f
  /\ sess[s].ch = ch
  /\ sess[s].sh # NoKey
  /\ sess[s].att = sess[s].sh
  /\ Mutual => sess[s].mutual

\* A gate stands open only for the very handshake a verified report names: the
\* ClientHello and the ServerHello the gate saw, not those of an earlier
\* connection with the same four-tuple (apply_decision_impl).
AdmittedIsAttested ==
  \A f \in Flows :
    gate[f].state = "admitted" =>
      \E s \in DOMAIN sess : Proves(s, f, gate[f].ch) /\ sess[s].sh = gate[f].sh

\* No connection gets data out of the host, held, authorised or bypassing the
\* agent by its conntrack mark, unless a report was verified for a ClientHello of
\* that same connection: a port used again inherits nothing from its predecessor.
MarkedIsAttested ==
  \A c \in ctmark :
    \E s \in DOMAIN sess : sess[s].ch[1] = c /\ Proves(s, sess[s].flow, sess[s].ch)

\* Packets are held only by a gate that is still to be decided, and once it has its
\* ClientHello they are packets of the very connection that sent it: what a decision
\* releases belongs to the connection that was decided (finish_held,
\* reset_gate_flow).  A gate that knows only a SYN may hold a straggler of the
\* port's last connection; the next SYN or ClientHello drops it.
HeldIsOwned ==
  \A f \in Flows : \A i \in DOMAIN gate[f].held :
    /\ Undecided(f)
    /\ gate[f].ch # NoHello => gate[f].held[i] = gate[f].cookie /\ gate[f].ch[1] = gate[f].cookie

\* A denied gate has quarantined the endpoint, on every path that denies one.
DeniedIsQuarantined ==
  \A f \in Flows : gate[f].state = "denied" => quarantined

\* Once the endpoint is quarantined no gate opens and no connection is marked,
\* although decisions that were queued before are still applied.
QuarantineIsFinal ==
  [][quarantined =>
       /\ ctmark' = ctmark
       /\ \A f \in Flows : gate'[f].state = "admitted" => gate[f].state = "admitted"
       /\ quarantined']_vars

\* The server is told "verified" only of a session whose decision was applied and
\* opened its gate, although gate_allowed is written by two threads and read
\* without the session's mutex.
VerdictIsHonest ==
  \A s \in DOMAIN sess :
    sess[s].verdict = "yes" =>
      sess[s].applied /\ sess[s].allowed /\ Proves(s, sess[s].flow, sess[s].ch)

\* A session is handled once: it is queued once, taken by one worker, decided once,
\* and what is finished is neither queued nor in any worker's hands.
Busy(w) == worker[w].pc \notin {"idle", "exited"}
SessionIsOwned ==
  /\ \A i, j \in DOMAIN jobs : jobs[i] = jobs[j] => i = j
  /\ \A i, j \in DOMAIN decisions : decisions[i] = decisions[j] => i = j
  /\ \A v, w \in Workers : Busy(v) /\ Busy(w) /\ worker[v].s = worker[w].s => v = w
  /\ \A i \in DOMAIN jobs :
       /\ ~sess[jobs[i]].fin
       /\ \A w \in Workers : Busy(w) => worker[w].s # jobs[i]
       /\ \A j \in DOMAIN decisions : decisions[j] # jobs[i]
  /\ \A w \in Workers : Busy(w) => ~sess[worker[w].s].fin
  /\ \A i \in DOMAIN decisions : ~sess[decisions[i]].applied

\* Exit status 0 claims that every expected session was verified: then the server
\* has a verdict for each, and the gate of each was opened on its own report.
CompleteIsHonest ==
  phase = "exit" /\ Complete =>
    /\ Len(sess) = Expected
    /\ \A s \in DOMAIN sess :
         sess[s].verdict # "unsent" /\ Proves(s, sess[s].flow, sess[s].ch)

\* A held packet gets its verdict: by a decision, by the gate's deadline, by a
\* new connection of the flow, or when the agent stops.
HeldIsResolved ==
  \A f \in Flows : gate[f].held # <<>> ~> gate[f].held = <<>>

\* A session that was started is finished, unless the agent stops before.
SessionFinishes ==
  \A s \in 1 .. Expected :
    s \in DOMAIN sess ~> stopping \/ (s \in DOMAIN sess /\ sess[s].fin)

\* The gate implements the latch.
LatchOf(f) ==
  [st    |-> CASE gate[f].state = "none" -> "none"
               [] Undecided(f) -> "pending"
               [] gate[f].state = "admitted" -> "open"
               [] gate[f].state = "denied" -> "blocked",
   hello |-> gate[f].ch,
   key   |-> gate[f].sh]
ProofOf(s) == <<sess[s].flow, sess[s].ch, sess[s].sh>>
L == INSTANCE Latch WITH
       Hellos <- HelloKeys, Keys <- ServerKeys,
       latch  <- [f \in Flows |-> LatchOf(f)],
       proved <- {ProofOf(s) : s \in {t \in DOMAIN sess : sess[t].verify}},
       cut    <- quarantined
LatchSpec == L!LatchSpec
=============================================================================
