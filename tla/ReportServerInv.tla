-------------------------- MODULE ReportServerInv --------------------------
(***************************************************************************)
(* The inductive invariant behind the safety properties of ReportServer.   *)
(***************************************************************************)
EXTENDS ReportServer

\* An entry goes through its stages in order, and what its report attests is settled
\* when the report is started: nothing the binding depends on changes afterwards.
Staged(e) ==
  /\ e.ch = NoHello => ~e.requested
  /\ e.started => e.sh # 0 /\ e.att = BindingOf(e) /\ (Mutual => e.requested)
  /\ ~e.started => ~e.done /\ e.att = NoBinding
  /\ e.report # NoBinding => e.started /\ e.done /\ e.report = e.att
  /\ e.delivered => e.requested /\ e.report # NoBinding
EntriesAreStaged == \A s \in Slots : cache[s].used => Staged(cache[s])

\* Whatever was recorded was verified.
RecordsAreVerified == \A i \in DOMAIN records : records[i].verified

ServerInv ==
  /\ IndexIsExact
  /\ EntriesAreStaged
  /\ JobOwnsSlot
  /\ ServedOnce
  /\ ResponseIsBound
  /\ HellosAreKept
  /\ RecordsAreVerified

\* With prompt dispatching, what the capture buffers hold of a four-tuple is of the
\* connection that has it now, if one has: a packet finds the cookie of its own socket.
PacketsAreCurrent ==
  \A l \in {"in", "out"} : \A i \in DOMAIN lanes[l] :
    sock[lanes[l][i].flow].id \in {0, lanes[l][i].conn}

\* The cookie read for the ServerHello that is being dispatched is of its connection.
SeenIsCurrent == seen # 0 => lanes["out"] # <<>> /\ Head(lanes["out"]).conn = seen

\* Whatever an entry has is of the connection whose cookie it has.
OfItsSocket(e) ==
  /\ e.ch # NoHello => e.ch[1] = e.cookie
  /\ e.sh # 0 => e.sh = e.cookie
EntriesAreOfOneSocket == \A s \in Slots : OfItsSocket(cache[s])

PairInv == Prompt => PacketsAreCurrent /\ SeenIsCurrent /\ EntriesAreOfOneSocket
=============================================================================
