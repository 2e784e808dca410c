---------------------------- MODULE HelloStash ----------------------------
(***************************************************************************)
(* How the report server's capture (pcap_observer.c) puts ClientHellos      *)
(* together: a record that comes in several TCP segments, and one whose     *)
(* socket is not established yet, wait in a table of a few slots, for ten   *)
(* seconds, until the rest or the ServerHello comes.  ReportServer takes a  *)
(* ClientHello as one packet; here is what makes it one.                    *)
(*                                                                         *)
(* A record is cut into pieces that no segment divides, the first of which  *)
(* holds its header.  The sequence number of a piece is its connection and  *)
(* its place: connections never share numbers, and the header length that   *)
(* packet_view.c adds to them is the same in all segments of one.           *)
(***************************************************************************)
EXTENDS Integers, Sequences, FiniteSets

CONSTANTS
  Flows,      \* four-tuples of the server
  Conns,      \* bound: the connections of each four-tuple, numbered from 1
  Length,     \* pieces of each connection's ClientHello
  Lookalike,  \* the later pieces whose first byte is 22, like a record's
  Slots,      \* TCPRA_CH_STASH_SLOTS
  RecordMax,  \* TCPRA_CH_RECORD_MAX
  TTL,        \* TCPRA_CH_STASH_TTL_NS, in packets
  MaxClock    \* bound: time

ASSUME StashAssumption ==
  /\ Conns \subseteq Flows \X (Nat \ {0})
  /\ Slots \in Nat \ {0} /\ MaxClock \in Nat
  /\ Length \in [Conns -> Nat \ {0}]
  /\ RecordMax \in Nat /\ TTL \in Nat \ {0}
  /\ \A p \in Lookalike : p[1] \in Conns /\ p[2] \in 1 .. Length[p[1]] - 1

VARIABLES
  conn,      \* the latest connection of each four-tuple
  est,       \* whether its socket is established
  stashes,   \* observer->stashes
  clock,     \* tcpra_now_ns
  observed,  \* what lookup_callback was given
  run        \* for the property: what came in order of each connection's hello, from when on,
             \* and which other flows took a slot since
vars == <<conn, est, stashes, clock, observed, run>>

Piece(c, i) == <<c, i>>
Hello(c) == [i \in 1 .. Length[c] |-> Piece(c, i - 1)]
SlotIds == 0 .. Slots - 1

NoSlot == [used |-> FALSE, deferred |-> FALSE, flow |-> CHOOSE f \in Flows : TRUE, end |-> <<>>,
           next |-> <<>>, buf |-> <<>>, needed |-> 0, born |-> 0]
NoRun == [got |-> 0, since |-> 0, others |-> {}]

Init ==
  /\ conn = [f \in Flows |-> 0] /\ est = [f \in Flows |-> FALSE]
  /\ stashes = [i \in SlotIds |-> NoSlot]
  /\ clock = 1 /\ observed = {}
  /\ run = [c \in Conns |-> NoRun]

-----------------------------------------------------------------------------
(* The table, at the time of the packet that is looked at.                   *)

Stale(s) == s.used /\ clock - s.born > TTL

\* ch_find_stash: the slot of the flow, at most one, and the table without what is stale
\* before it.
Found(f) == {i \in SlotIds : stashes[i].used /\ stashes[i].flow = f /\ ~Stale(stashes[i])}
Swept(f) ==
  [i \in SlotIds |-> IF Stale(stashes[i]) /\ \A j \in Found(f) : i < j
                     THEN NoSlot ELSE stashes[i]]

Least(S) == CHOOSE i \in S : \A j \in S : i <= j

ch_clear_stash(f) ==
  [i \in SlotIds |-> IF i \in Found(f) THEN NoSlot ELSE Swept(f)[i]]

\* The slot that is free, else the oldest.
\* Mutant: else the newest.
VictimNewest(t) ==
  LET free == {i \in SlotIds : ~t[i].used} IN
  IF free # {} THEN Least(free)
  ELSE Least({i \in SlotIds : \A j \in SlotIds : t[i].born >= t[j].born})
Victim(t) ==
  LET free == {i \in SlotIds : ~t[i].used} IN
  IF free # {} THEN Least(free)
  ELSE Least({i \in SlotIds : \A j \in SlotIds : t[i].born <= t[j].born})

ch_claim_stash(f, s) ==
  LET t == Swept(f)
      i == IF Found(f) # {} THEN Least(Found(f)) ELSE Victim(t)
  IN [t EXCEPT ![i] = [s EXCEPT !.used = TRUE, !.flow = f, !.born = clock]]

-----------------------------------------------------------------------------
(* capture_packet, client to server: pieces from .. from + n - 1 of the       *)
(* connection's stream, where piece Length[c] is what follows the hello.      *)

Pieces(c, from, n) == [i \in 1 .. n |-> Piece(c, from + i - 1)]

\* tcpra_tls_find_clienthello looks at the header of the record and the lengths in it.
Parses(buf) == Len(buf) > 0 /\ buf[1][2] = 0 /\ Len(buf) = Length[buf[1][1]]

Tell(buf, by) == observed' = observed \cup {[buf |-> buf, by |-> by]}

\* The hello of a connection that came in order, as far as it did: another segment of the
\* flow that looks like the start of a record breaks it off.
Starts(c, from) == from = 0 \/ Piece(c, from) \in Lookalike
Track(c, from, n, claimed) ==
  run' = [d \in Conns |->
    CASE d = c /\ from = 0 ->
           [got |-> IF n < Length[c] THEN n ELSE Length[c], since |-> clock, others |-> {}]
      [] d[1] = c[1] /\ Starts(c, from) /\ ~(d = c /\ from = 0) -> NoRun
      [] d = c /\ ~Starts(c, from) /\ from = run[c].got /\ from + n <= Length[c] ->
           [run[c] EXCEPT !.got = from + n]
      [] d[1] # c[1] /\ claimed /\ run[d].got \in 1 .. Length[d] - 1 -> [run[d] EXCEPT !.others = @ \cup {c[1]}]
      [] run[d].got = Length[d] /\ ~(d = c /\ from = 0) -> NoRun
      [] OTHER -> run[d]]

\* The first record of the segment is the whole ClientHello.
WholeHello(c, n) ==
  /\ n >= Length[c]
  /\ IF est[c[1]]
     THEN /\ Tell(Hello(c), c) /\ stashes' = ch_clear_stash(c[1])
          /\ Track(c, 0, n, FALSE)
     ELSE /\ UNCHANGED observed
          /\ IF Length[c] <= RecordMax
             THEN /\ stashes' = ch_claim_stash(c[1],
                       [NoSlot EXCEPT !.buf = Hello(c), !.needed = Length[c], !.deferred = TRUE,
                                      !.end = Piece(c, n)])
                  /\ Track(c, 0, n, TRUE)
             ELSE stashes' = ch_clear_stash(c[1]) /\ Track(c, 0, n, FALSE)

\* The segment begins with a record, or what looks like one, that goes on after it.
BeginRecord(c, from, n, needed) ==
  IF needed > RecordMax
  THEN stashes' = ch_clear_stash(c[1]) /\ Track(c, from, n, FALSE) /\ UNCHANGED observed
  ELSE /\ stashes' = ch_claim_stash(c[1],
            [NoSlot EXCEPT !.buf = Pieces(c, from, n), !.needed = needed,
                           !.next = Piece(c, from + n)])
       /\ Track(c, from, n, TRUE) /\ UNCHANGED observed

FirstPart(c, n) == n < Length[c] /\ BeginRecord(c, 0, n, Length[c])

\* The two bytes that would be the length of such a record are whatever they are.
LookalikePart(c, from, n) ==
  /\ Piece(c, from) \in Lookalike
  /\ \/ \E needed \in n + 1 .. RecordMax + 1 : BeginRecord(c, from, n, needed)
     \/ stashes' = ch_clear_stash(c[1]) /\ Track(c, from, n, FALSE) /\ UNCHANGED observed

\* Any other segment continues the record if it is the next one and not too much.
\* Mutant: any segment does.
ContinuesAnyhow(s, c, from, n) == Len(s.buf) + n <= s.needed
Continues(s, c, from, n) == s.next = Piece(c, from) /\ Len(s.buf) + n <= s.needed

LaterPart(c, from, n) ==
  /\ ~Starts(c, from)
  /\ Track(c, from, n, FALSE)
  /\ LET hit == {i \in Found(c[1]) : Continues(stashes[i], c, from, n)} IN
       \/ hit = {} /\ stashes' = Swept(c[1]) /\ UNCHANGED observed
       \/ \E i \in hit :
            LET buf == stashes[i].buf \o Pieces(c, from, n)
                s == [stashes[i] EXCEPT !.buf = buf, !.next = Piece(c, from + n)]
                done == Len(buf) = s.needed
            IN IF ~done
               THEN stashes' = [Swept(c[1]) EXCEPT ![i] = s] /\ UNCHANGED observed
               ELSE IF Parses(buf) /\ ~est[c[1]]
               THEN /\ stashes' = [Swept(c[1]) EXCEPT
                                     ![i] = [s EXCEPT !.deferred = TRUE, !.end = s.next]]
                    /\ UNCHANGED observed
               ELSE /\ stashes' = [Swept(c[1]) EXCEPT ![i] = NoSlot]
                    /\ IF Parses(buf) THEN Tell(buf, c) ELSE UNCHANGED observed

\* A segment of this connection of the flow, or a late one of an earlier connection.
Segment(c) ==
  /\ clock < MaxClock /\ c[2] <= conn[c[1]]
  /\ clock' = clock + 1
  /\ \E from \in 0 .. Length[c], n \in 1 .. Length[c] + 1 :
       /\ from + n <= Length[c] + 1
       /\ \/ from = 0 /\ (WholeHello(c, n) \/ FirstPart(c, n))
          \/ LookalikePart(c, from, n)
          \/ LaterPart(c, from, n)
  /\ UNCHANGED <<conn, est>>

\* capture_packet, server to client: a ServerHello that acknowledges the hello and perhaps
\* what follows it.  A hello that waits for its socket is told if it ends there and the
\* socket stays the same meanwhile, and the slot is free in any case.
ServerHello(c) ==
  /\ clock < MaxClock /\ c[2] <= conn[c[1]] /\ est[c[1]]
  /\ clock' = clock + 1
  /\ LET waiting == {i \in Found(c[1]) : stashes[i].deferred} IN
       \/ waiting = {} /\ stashes' = Swept(c[1]) /\ UNCHANGED observed
       \/ \E i \in waiting, ack \in {Length[c], Length[c] + 1}, same \in BOOLEAN :
            /\ stashes' = [Swept(c[1]) EXCEPT ![i] = NoSlot]
            /\ IF stashes[i].end = Piece(c, ack) /\ same THEN Tell(stashes[i].buf, c)
               ELSE UNCHANGED observed
  /\ UNCHANGED <<conn, est, run>>

-----------------------------------------------------------------------------
(* The sockets, and time in which nothing is captured.                       *)

Connect(f) ==
  /\ ~est[f] /\ <<f, conn[f] + 1>> \in Conns
  /\ conn' = [conn EXCEPT ![f] = @ + 1]
  /\ UNCHANGED <<est, stashes, clock, observed, run>>

Establish(f) ==
  /\ ~est[f] /\ conn[f] > 0
  /\ est' = [est EXCEPT ![f] = TRUE]
  /\ UNCHANGED <<conn, stashes, clock, observed, run>>

CloseSocket(f) ==
  /\ est[f] /\ est' = [est EXCEPT ![f] = FALSE]
  /\ UNCHANGED <<conn, stashes, clock, observed, run>>

Quiet ==
  /\ clock + TTL <= MaxClock /\ clock' = clock + TTL
  /\ UNCHANGED <<conn, est, stashes, observed, run>>

Next ==
  \/ \E c \in Conns : Segment(c) \/ ServerHello(c)
  \/ \E f \in Flows : Connect(f) \/ Establish(f) \/ CloseSocket(f)
  \/ Quiet

Spec == Init /\ [][Next]_vars

-----------------------------------------------------------------------------
\* What is told as a ClientHello is one, whole and in order, of the connection whose packet
\* brought it: no piece twice or of another connection, and no ServerHello brings up the
\* hello of an earlier connection.
ObservedIsHello == \A o \in observed : o.buf = Hello(o.by)

\* A ClientHello that came whole, in order and in time, no part of which looks like a record,
\* is told, or waits for its socket: neither another flow nor a full table loses it, unless as
\* many other flows took a slot meanwhile as there are.
Told(c) == [buf |-> Hello(c), by |-> c] \in observed
Waits(c) == \E i \in SlotIds : stashes[i].used /\ stashes[i].deferred /\ stashes[i].buf = Hello(c)
HelloIsKept ==
  [][\A c \in Conns :
       /\ run'[c].got = Length[c] /\ Length[c] <= RecordMax
       /\ run[c].got # Length[c] \/ run[c].since # run'[c].since
       /\ clock - run'[c].since <= TTL
       /\ Cardinality(run'[c].others) < Slots
       => Told(c)' \/ Waits(c)']_vars
=============================================================================
