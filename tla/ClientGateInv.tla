--------------------------- MODULE ClientGateInv ---------------------------
(***************************************************************************)
(* The inductive invariant behind the safety properties of ClientGate.     *)
(* Each part says what one of the parties leaves to the others: the kernel *)
(* to the gate thread, the job queue to the workers, and the workers to    *)
(* the gate thread again.                                                  *)
(***************************************************************************)
EXTENDS ClientGate

\* NFQUEUE delivers the packets of a four-tuple in the order of its connections,
\* and those of a socket whose SYN has left the host only from that socket.
FlowInOrder(f) ==
  /\ sock[f].id <= opened
  /\ \A i \in DOMAIN inq[f] :
       /\ inq[f][i].conn <= opened
       /\ sock[f].st # "closed" => inq[f][i].conn <= sock[f].id
       /\ sock[f].st \in {"synout", "established", "closing"} => inq[f][i].conn = sock[f].id
       /\ \A j \in DOMAIN inq[f] : i <= j => inq[f][i].conn <= inq[f][j].conn
QueueInOrder == \A f \in Flows : FlowInOrder(f)

\* A gate that has its ClientHello stands for the connection that sent it: the
\* flow's current one, or its last one until a later SYN or ClientHello is handled.
Current(f) ==
  /\ Live(f)
  /\ gate[f].ch[1] = gate[f].cookie
  /\ gate[f].cookie <= opened
  /\ sock[f].st # "closed" => gate[f].cookie <= sock[f].id
  /\ sock[f].st \in {"synout", "established", "closing"} => gate[f].cookie = sock[f].id
  /\ \A i \in DOMAIN gate[f].held : gate[f].held[i] = gate[f].cookie
  /\ \A i \in DOMAIN inq[f] :
       /\ gate[f].cookie <= inq[f][i].conn
       /\ inq[f][i].kind # "syn" => inq[f][i].conn <= gate[f].cookie
GateIsCurrent == \A f \in Flows : gate[f].ch # NoHello => Current(f)

HeldIsUndecided ==
  \A f \in Flows : gate[f].held # <<>> => Undecided(f)

\* What a verified report says is never unsaid: "verify" stands for the whole proof.
VerifyIsProof ==
  \A s \in DOMAIN sess : sess[s].verify => Proves(s, sess[s].flow, sess[s].ch)

\* A session whose worker still exchanges messages has no part of a proof yet, nor
\* has one that waits in the job queue; it is decided after the worker queued it,
\* and the server hears of it at the end.
Unproved(s) == ~sess[s].verify /\ ~sess[s].applied /\ sess[s].verdict = "unsent"
FreshWorker(w) ==
  /\ worker[w].pc \in {"exchange", "awaithello"} => Unproved(worker[w].s)
  /\ worker[w].pc = "awaithello" => sess[worker[w].s].mutual = Mutual
  /\ worker[w].pc \in {"exchange", "awaithello", "queue", "denyconnect"} =>
       /\ ~sess[worker[w].s].applied
       /\ \A i \in DOMAIN decisions : decisions[i] # worker[w].s
  /\ Busy(w) /\ worker[w].pc \notin {"finish", "count"} =>
       sess[worker[w].s].verdict = "unsent"
WorkIsFresh ==
  /\ \A i \in DOMAIN jobs : Unproved(jobs[i])
  /\ \A w \in Workers : FreshWorker(w)

\* gate_allowed is set only by a decision that was applied to a verified session,
\* and neither the worker nor the gate thread clears it after a verdict "yes".
AllowedIsVerified ==
  \A s \in DOMAIN sess :
    /\ sess[s].allowed => sess[s].applied /\ sess[s].verify
    /\ sess[s].verdict = "yes" => sess[s].allowed

\* Admission and marks rest on a session that stays verified.
AdmittedIsVerified ==
  /\ \A f \in Flows :
       gate[f].state = "admitted" =>
         \E s \in DOMAIN sess : /\ sess[s].verify
                                /\ sess[s].flow = f
                                /\ sess[s].ch = gate[f].ch
                                /\ sess[s].sh = gate[f].sh
  /\ \A c \in ctmark : \E s \in DOMAIN sess : sess[s].verify /\ sess[s].ch[1] = c

\* The inductive invariant.
GateInv ==
  /\ TypeOK
  /\ QueueInOrder
  /\ GateIsCurrent
  /\ HeldIsUndecided
  /\ DeniedIsQuarantined
  /\ SessionIsOwned
  /\ VerifyIsProof
  /\ WorkIsFresh
  /\ AllowedIsVerified
  /\ AdmittedIsVerified

\* What the exit status counts: every session was started within --expected, one that
\* is counted was verified, and one that succeeded has sent its verdict.
CountedIsVerified ==
  /\ Len(sess) <= Expected
  /\ \A s \in DOMAIN sess :
       /\ sess[s].counted => sess[s].verify
       /\ sess[s].success => sess[s].verdict # "unsent"
=============================================================================
