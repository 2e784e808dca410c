-------------------------- MODULE HelloStash_proofs --------------------------
(***************************************************************************)
(* Theorems about HelloStash, for every set of connections, length of a     *)
(* ClientHello and size of the table.                                      *)
(***************************************************************************)
EXTENDS HelloStash, FiniteSetTheorems, SequenceTheorems, WellFoundedInduction, TLAPS

-----------------------------------------------------------------------------
(* Pieces.                                                                   *)

PieceSet == Conns \X Nat

LEMMA LengthFacts ==
  ASSUME NEW c \in Conns
  PROVE  Length[c] \in Nat /\ Length[c] > 0 /\ c[1] \in Flows
BY StashAssumption

LEMMA PiecesFacts ==
  ASSUME NEW c \in Conns, NEW k \in Nat, NEW m \in Nat
  PROVE  /\ Pieces(c, k, m) \in Seq(PieceSet) /\ Len(Pieces(c, k, m)) = m
         /\ \A i \in 1 .. m : Pieces(c, k, m)[i] = <<c, k + i - 1>>
<1>1. \A i \in 1 .. m : k + i - 1 \in Nat
  OBVIOUS
<1>2. Pieces(c, k, m) \in [1 .. m -> PieceSet]
  BY <1>1 DEF Pieces, Piece, PieceSet
<1>3. Pieces(c, k, m) \in Seq(PieceSet)
  BY <1>2, SeqDef
<1>4. DOMAIN Pieces(c, k, m) = 1 .. m
  BY DEF Pieces
<1>5. /\ DOMAIN Pieces(c, k, m) = 1 .. Len(Pieces(c, k, m))
      /\ Len(Pieces(c, k, m)) \in Nat
  BY <1>3, LenProperties
<1>6. Len(Pieces(c, k, m)) = m
  BY <1>4, <1>5
<1>7. \A i \in 1 .. m : Pieces(c, k, m)[i] = <<c, k + i - 1>>
  BY DEF Pieces, Piece
<1> QED
  BY <1>3, <1>6, <1>7

LEMMA HelloFacts ==
  ASSUME NEW c \in Conns
  PROVE  /\ Hello(c) = Pieces(c, 0, Length[c])
         /\ Hello(c) \in Seq(PieceSet) /\ Len(Hello(c)) = Length[c]
<1>1. Length[c] \in Nat
  BY LengthFacts
<1>2. Hello(c) = Pieces(c, 0, Length[c])
  BY <1>1 DEF Hello, Pieces
<1>3. /\ Pieces(c, 0, Length[c]) \in Seq(PieceSet)
      /\ Len(Pieces(c, 0, Length[c])) = Length[c]
  BY <1>1, PiecesFacts
<1> QED
  BY <1>2, <1>3

\* What continues a part is the part that is longer.
LEMMA PiecesJoin ==
  ASSUME NEW c \in Conns, NEW k \in Nat, NEW m \in Nat, NEW n \in Nat
  PROVE  Pieces(c, k, m) \o Pieces(c, k + m, n) = Pieces(c, k, m + n)
<1> DEFINE p == Pieces(c, k, m)
           q == Pieces(c, k + m, n)
           r == Pieces(c, k, m + n)
<1>1. /\ p \in Seq(PieceSet) /\ Len(p) = m /\ \A i \in 1 .. m : p[i] = <<c, k + i - 1>>
      /\ q \in Seq(PieceSet) /\ Len(q) = n /\ \A i \in 1 .. n : q[i] = <<c, k + m + i - 1>>
      /\ r \in Seq(PieceSet) /\ Len(r) = m + n /\ \A i \in 1 .. m + n : r[i] = <<c, k + i - 1>>
  <2>1. k + m \in Nat /\ m + n \in Nat
    OBVIOUS
  <2> QED
    BY <2>1, PiecesFacts
<1> HIDE DEF p, q, r
<1>2. /\ p \o q \in Seq(PieceSet) /\ Len(p \o q) = m + n
      /\ \A i \in 1 .. m + n : (p \o q)[i] = IF i <= m THEN p[i] ELSE q[i - m]
  BY <1>1, ConcatProperties
<1>3. ASSUME NEW i \in 1 .. m + n PROVE (p \o q)[i] = r[i]
  <2>1. CASE i <= m
    <3>1. i \in 1 .. m
      BY <2>1
    <3>2. (p \o q)[i] = p[i]
      BY <1>2, <2>1
    <3> QED
      BY <1>1, <3>1, <3>2
  <2>2. CASE i > m
    <3>1. i - m \in 1 .. n /\ k + m + (i - m) - 1 = k + i - 1
      BY <2>2
    <3>2. (p \o q)[i] = q[i - m]
      BY <1>2, <2>2
    <3>3. q[i - m] = <<c, k + m + (i - m) - 1>>
      BY <1>1, <3>1
    <3> QED
      BY <1>1, <3>1, <3>2, <3>3
  <2>3. i <= m \/ i > m
    OBVIOUS
  <2> QED
    BY <2>1, <2>2, <2>3
<1>4. p \o q = r
  BY <1>1, <1>2, <1>3, SeqEqual
<1> QED
  BY <1>4 DEF p, q, r

\* A part that looks like the whole of a ClientHello is the one of its connection.
LEMMA ParsedIsHello ==
  ASSUME NEW c \in Conns, NEW k \in Nat, NEW m \in Nat, Parses(Pieces(c, k, m))
  PROVE  Pieces(c, k, m) = Hello(c) /\ k = 0 /\ m = Length[c]
<1>1. Len(Pieces(c, k, m)) = m /\ m > 0
  BY PiecesFacts DEF Parses
<1>2. Pieces(c, k, m)[1] = <<c, k>>
  <2>1. 1 \in 1 .. m /\ k + 1 - 1 = k
    BY <1>1
  <2> QED
    BY <2>1 DEF Pieces, Piece
<1>3. Pieces(c, k, m)[1][2] = 0 /\ Len(Pieces(c, k, m)) = Length[Pieces(c, k, m)[1][1]]
  BY DEF Parses
<1>4. k = 0 /\ m = Length[c]
  BY <1>1, <1>2, <1>3
<1> QED
  BY <1>4, HelloFacts

LEMMA HelloParses ==
  ASSUME NEW c \in Conns
  PROVE  Parses(Hello(c))
<1>1. Length[c] \in Nat /\ Length[c] > 0 /\ 0 \in Nat /\ Len(Hello(c)) = Length[c]
  BY LengthFacts, HelloFacts
<1>2. Hello(c)[1] = <<c, 0>>
  BY <1>1 DEF Hello, Piece
<1> QED
  BY <1>1, <1>2 DEF Parses

-----------------------------------------------------------------------------
(* The table.                                                                *)

Slot == [used : BOOLEAN, deferred : BOOLEAN, flow : Flows \cup {NoSlot.flow},
         end : PieceSet \cup {<<>>}, next : PieceSet \cup {<<>>}, buf : Seq(PieceSet),
         needed : Nat, born : Nat]

TableType == stashes \in [SlotIds -> Slot] /\ clock \in Nat

\* A slot that is used holds a ClientHello that waits for its socket, or the part of one
\* connection's stream that its next piece continues.
HoldsHello(s, c) ==
  /\ s.deferred /\ s.buf = Hello(c) /\ s.needed = Length[c]
  /\ \E k \in Nat : s.end = Piece(c, k)
HoldsPart(s, c) ==
  /\ ~s.deferred
  /\ \E k \in Nat, m \in Nat \ {0} : s.buf = Pieces(c, k, m) /\ s.next = Piece(c, k + m)
WellFormed(s) == s.used => \E c \in Conns : HoldsHello(s, c) \/ HoldsPart(s, c)

SlotsWellFormed == \A i \in SlotIds : WellFormed(stashes[i])

LEMMA NoSlotFacts == NoSlot \in Slot /\ ~NoSlot.used /\ WellFormed(NoSlot)
  BY DEF Slot, NoSlot, WellFormed

\* A flow's packet leaves a slot as it is or frees it, before it is put to use.
LEMMA SweptFacts ==
  ASSUME TableType, NEW f
  PROVE  /\ Swept(f) \in [SlotIds -> Slot] /\ ch_clear_stash(f) \in [SlotIds -> Slot]
         /\ \A i \in SlotIds :
              /\ Swept(f)[i] = stashes[i] \/ (Swept(f)[i] = NoSlot /\ Stale(stashes[i]))
              /\ \/ ch_clear_stash(f)[i] = stashes[i]
                 \/ /\ ch_clear_stash(f)[i] = NoSlot
                    /\ Stale(stashes[i]) \/ i \in Found(f)
BY NoSlotFacts DEF TableType, Swept, ch_clear_stash

\* A slot that a claim takes.
Claimed(s, f, t) == [s EXCEPT !.used = TRUE, !.flow = f, !.born = t]

\* What the table may become when flow f's packet is handled: as swept, with at most one slot
\* put to another use, freed, or claimed.
Put(f, s) == \E i : stashes' = [Swept(f) EXCEPT ![i] = s]

LEMMA PutKeeps ==
  ASSUME TableType, SlotsWellFormed, NEW f, NEW s \in Slot, WellFormed(s), Put(f, s)
  PROVE  stashes' \in [SlotIds -> Slot] /\ SlotsWellFormed'
<1>1. PICK i : stashes' = [Swept(f) EXCEPT ![i] = s]
  BY DEF Put
<1>2. stashes' \in [SlotIds -> Slot]
  BY <1>1, SweptFacts
<1>3. ASSUME NEW j \in SlotIds PROVE WellFormed(stashes'[j])
  <2>1. stashes'[j] = s \/ stashes'[j] = Swept(f)[j]
    BY <1>1, SweptFacts
  <2>2. WellFormed(Swept(f)[j])
    BY SweptFacts, NoSlotFacts DEF SlotsWellFormed
  <2> QED
    BY <2>1, <2>2
<1> QED
  BY <1>2, <1>3 DEF SlotsWellFormed

LEMMA SweptKeeps ==
  ASSUME TableType, SlotsWellFormed, NEW f, stashes' = Swept(f) \/ stashes' = ch_clear_stash(f)
  PROVE  stashes' \in [SlotIds -> Slot] /\ SlotsWellFormed'
<1>1. ASSUME NEW j \in SlotIds PROVE WellFormed(stashes'[j])
  BY SweptFacts, NoSlotFacts DEF SlotsWellFormed
<1> QED
  BY <1>1, SweptFacts DEF SlotsWellFormed

LEMMA ClaimKeeps ==
  ASSUME TableType, SlotsWellFormed, NEW f \in Flows, NEW s \in Slot,
         WellFormed([s EXCEPT !.used = TRUE]), stashes' = ch_claim_stash(f, s)
  PROVE  stashes' \in [SlotIds -> Slot] /\ SlotsWellFormed'
<1> DEFINE r == Claimed(s, f, clock)
<1>1. r \in Slot
  BY DEF Claimed, Slot, TableType
<1>2. WellFormed(r)
  <2>1. /\ r.used /\ r.deferred = s.deferred /\ r.buf = s.buf /\ r.needed = s.needed
        /\ r.end = s.end /\ r.next = s.next
    BY DEF Claimed, Slot
  <2>2. LET u == [s EXCEPT !.used = TRUE] IN
        /\ u.used /\ u.deferred = s.deferred /\ u.buf = s.buf /\ u.needed = s.needed
        /\ u.end = s.end /\ u.next = s.next
    BY DEF Slot
  <2> HIDE DEF r
  <2> QED
    BY <2>1, <2>2 DEF WellFormed, HoldsHello, HoldsPart
<1>3. Put(f, r)
  BY DEF ch_claim_stash, Put, Claimed
<1> QED
  BY <1>1, <1>2, <1>3, PutKeeps

-----------------------------------------------------------------------------
(* What is told.                                                             *)

\* A hello that is told by a packet of its own connection.
LEMMA TellKeeps ==
  ASSUME ObservedIsHello, NEW c \in Conns, UNCHANGED observed \/ Tell(Hello(c), c)
  PROVE  ObservedIsHello'
BY DEF ObservedIsHello, Tell

LEMMA NewSlots ==
  ASSUME NEW c \in Conns
  PROVE  /\ \A n \in Nat :
              LET s == [NoSlot EXCEPT !.buf = Hello(c), !.needed = Length[c], !.deferred = TRUE,
                                      !.end = Piece(c, n)]
              IN s \in Slot /\ WellFormed([s EXCEPT !.used = TRUE])
         /\ \A from \in Nat, n \in Nat \ {0}, needed \in Nat :
              LET s == [NoSlot EXCEPT !.buf = Pieces(c, from, n), !.needed = needed,
                                      !.next = Piece(c, from + n)]
              IN s \in Slot /\ WellFormed([s EXCEPT !.used = TRUE])
<1>1. ASSUME NEW n \in Nat
      PROVE  LET s == [NoSlot EXCEPT !.buf = Hello(c), !.needed = Length[c], !.deferred = TRUE,
                                     !.end = Piece(c, n)]
             IN s \in Slot /\ WellFormed([s EXCEPT !.used = TRUE])
  <2> DEFINE s == [NoSlot EXCEPT !.buf = Hello(c), !.needed = Length[c], !.deferred = TRUE,
                                 !.end = Piece(c, n)]
  <2>1. Hello(c) \in Seq(PieceSet) /\ Length[c] \in Nat /\ Piece(c, n) \in PieceSet
    BY HelloFacts, LengthFacts DEF Piece, PieceSet
  <2>2. s \in Slot
    BY <2>1, NoSlotFacts DEF Slot
  <2>3. HoldsHello([s EXCEPT !.used = TRUE], c)
    BY NoSlotFacts DEF HoldsHello, Slot
  <2> QED
    BY <2>2, <2>3 DEF WellFormed
<1>2. ASSUME NEW from \in Nat, NEW n \in Nat \ {0}, NEW needed \in Nat
      PROVE  LET s == [NoSlot EXCEPT !.buf = Pieces(c, from, n), !.needed = needed,
                                     !.next = Piece(c, from + n)]
             IN s \in Slot /\ WellFormed([s EXCEPT !.used = TRUE])
  <2> DEFINE s == [NoSlot EXCEPT !.buf = Pieces(c, from, n), !.needed = needed,
                                 !.next = Piece(c, from + n)]
  <2>0. from + n \in Nat /\ n \in Nat
    OBVIOUS
  <2>1. Pieces(c, from, n) \in Seq(PieceSet) /\ Piece(c, from + n) \in PieceSet
    BY <2>0, PiecesFacts DEF Piece, PieceSet
  <2>2. s \in Slot
    BY <2>1, NoSlotFacts DEF Slot
  <2>3. ~NoSlot.deferred
    BY DEF NoSlot
  <2>4. HoldsPart([s EXCEPT !.used = TRUE], c)
    BY <2>3, NoSlotFacts DEF HoldsPart, Slot
  <2> QED
    BY <2>2, <2>4 DEF WellFormed
<1> QED
  BY <1>1, <1>2

Kept == stashes' \in [SlotIds -> Slot] /\ SlotsWellFormed' /\ ObservedIsHello'
StashInv == TableType /\ SlotsWellFormed /\ ObservedIsHello

LEMMA WholeHelloKeeps ==
  ASSUME StashInv, NEW c \in Conns, NEW n \in Nat, WholeHello(c, n)
  PROVE  Kept
<1> DEFINE s == [NoSlot EXCEPT !.buf = Hello(c), !.needed = Length[c], !.deferred = TRUE,
                               !.end = Piece(c, n)]
<1>1. ObservedIsHello'
  BY TellKeeps DEF StashInv, WholeHello
<1>2. \/ stashes' = ch_clear_stash(c[1])
      \/ stashes' = ch_claim_stash(c[1], s)
  BY DEF WholeHello
<1>3. s \in Slot /\ WellFormed([s EXCEPT !.used = TRUE]) /\ c[1] \in Flows
  BY NewSlots, LengthFacts
<1> HIDE DEF s
<1> QED
  BY <1>1, <1>2, <1>3, SweptKeeps, ClaimKeeps DEF StashInv, Kept

LEMMA BeginRecordKeeps ==
  ASSUME StashInv, NEW c \in Conns, NEW from \in Nat, NEW n \in Nat \ {0}, NEW needed \in Nat,
         BeginRecord(c, from, n, needed)
  PROVE  Kept
<1> DEFINE s == [NoSlot EXCEPT !.buf = Pieces(c, from, n), !.needed = needed,
                               !.next = Piece(c, from + n)]
<1>1. ObservedIsHello'
  BY TellKeeps DEF StashInv, BeginRecord
<1>2. \/ stashes' = ch_clear_stash(c[1])
      \/ stashes' = ch_claim_stash(c[1], s)
  BY DEF BeginRecord
<1>3. s \in Slot /\ WellFormed([s EXCEPT !.used = TRUE]) /\ c[1] \in Flows
  BY NewSlots, LengthFacts
<1> HIDE DEF s
<1> QED
  BY <1>1, <1>2, <1>3, SweptKeeps, ClaimKeeps DEF StashInv, Kept

\* Buffer buf and n pieces from here on are a part of connection c's stream.
Joined(buf, c, from, n) ==
  \E k \in Nat, m \in Nat \ {0} :
    from = k + m /\ buf \o Pieces(c, from, n) = Pieces(c, k, m + n)

\* What a later segment finds is the part it continues, of its own connection.
LEMMA HitFacts ==
  ASSUME StashInv, NEW c \in Conns, NEW from \in Nat, NEW n \in Nat \ {0},
         NEW i \in Found(c[1]), Continues(stashes[i], c, from, n)
  PROVE  /\ stashes[i] \in Slot /\ i \in SlotIds /\ ~stashes[i].deferred
         /\ Joined(stashes[i].buf, c, from, n)
<1>1. i \in SlotIds /\ stashes[i] \in Slot /\ stashes[i].used /\ WellFormed(stashes[i])
  BY DEF Found, StashInv, TableType, SlotsWellFormed
<1>2. PICK d \in Conns : HoldsHello(stashes[i], d) \/ HoldsPart(stashes[i], d)
  BY <1>1 DEF WellFormed
<1>3. ~HoldsHello(stashes[i], d)
  <2>1. ASSUME HoldsHello(stashes[i], d) PROVE FALSE
    <3>1. Len(stashes[i].buf) = stashes[i].needed /\ stashes[i].needed \in Nat
      BY <2>1, HelloFacts, LengthFacts DEF HoldsHello
    <3> QED
      BY <3>1 DEF Continues
  <2> QED
    BY <2>1
<1>4. PICK k \in Nat, m \in Nat \ {0} :
        stashes[i].buf = Pieces(d, k, m) /\ stashes[i].next = Piece(d, k + m)
  BY <1>2, <1>3 DEF HoldsPart
<1>5. d = c /\ from = k + m
  BY <1>4 DEF Continues, Piece
<1>6. Pieces(c, k, m) \o Pieces(c, k + m, n) = Pieces(c, k, m + n)
  <2>1. n \in Nat /\ m \in Nat
    OBVIOUS
  <2> QED
    BY <2>1, PiecesJoin, ZenonT(30)
<1>7. ~stashes[i].deferred
  BY <1>2, <1>3 DEF HoldsPart
<1>8. stashes[i].buf \o Pieces(c, from, n) = Pieces(c, k, m + n)
  BY <1>4, <1>5, <1>6
<1>9. Joined(stashes[i].buf, c, from, n)
  BY <1>5, <1>8 DEF Joined
<1> QED
  BY <1>1, <1>7, <1>9

LEMMA LaterPartKeeps ==
  ASSUME StashInv, NEW c \in Conns, NEW from \in Nat, NEW n \in Nat \ {0}, LaterPart(c, from, n)
  PROVE  Kept
<1>1. CASE stashes' = Swept(c[1]) /\ UNCHANGED observed
  BY <1>1, SweptKeeps, TellKeeps DEF StashInv, Kept
<1>2. ASSUME NEW i \in Found(c[1]), Continues(stashes[i], c, from, n),
             LET buf == stashes[i].buf \o Pieces(c, from, n)
                 s == [stashes[i] EXCEPT !.buf = buf, !.next = Piece(c, from + n)]
                 done == Len(buf) = s.needed
             IN IF ~done
                THEN stashes' = [Swept(c[1]) EXCEPT ![i] = s] /\ UNCHANGED observed
                ELSE IF Parses(buf) /\ ~est[c[1]]
                THEN /\ stashes' = [Swept(c[1]) EXCEPT
                                      ![i] = [s EXCEPT !.deferred = TRUE, !.end = s.next]]
                     /\ UNCHANGED observed
                ELSE /\ stashes' = [Swept(c[1]) EXCEPT ![i] = NoSlot]
                     /\ IF Parses(buf) THEN Tell(buf, c) ELSE UNCHANGED observed
      PROVE  Kept
  <2> DEFINE buf == stashes[i].buf \o Pieces(c, from, n)
             s == [stashes[i] EXCEPT !.buf = buf, !.next = Piece(c, from + n)]
             r == [s EXCEPT !.deferred = TRUE, !.end = s.next]
  <2>1. stashes[i] \in Slot /\ i \in SlotIds /\ ~stashes[i].deferred
    BY <1>2, HitFacts
  <2>2. PICK k \in Nat, m \in Nat \ {0} : from = k + m /\ buf = Pieces(c, k, m + n)
    <3>1. Joined(stashes[i].buf, c, from, n)
      BY <1>2, HitFacts
    <3> QED
      BY <3>1 DEF Joined
  <2>3. /\ m + n \in Nat \ {0} /\ from + n = k + (m + n) /\ from + n \in Nat
        /\ buf \in Seq(PieceSet) /\ Len(buf) = m + n /\ Piece(c, from + n) \in PieceSet
    <3>1. m + n \in Nat \ {0} /\ from + n = k + (m + n) /\ from + n \in Nat
      BY <2>2
    <3> HIDE DEF buf
    <3> QED
      BY <2>2, <3>1, PiecesFacts DEF Piece, PieceSet
  <2>4. Parses(buf) => buf = Hello(c)
    BY <2>2, <2>3, ParsedIsHello
  <2>5. \/ stashes' = [Swept(c[1]) EXCEPT ![i] = s] /\ UNCHANGED observed
        \/ /\ Len(buf) = s.needed /\ Parses(buf)
           /\ stashes' = [Swept(c[1]) EXCEPT ![i] = r] /\ UNCHANGED observed
        \/ /\ stashes' = [Swept(c[1]) EXCEPT ![i] = NoSlot]
           /\ UNCHANGED observed \/ (Parses(buf) /\ Tell(buf, c))
    BY <1>2
  <2> HIDE DEF buf
  <2>6. /\ s \in Slot /\ s.next = Piece(c, from + n) /\ s.buf = buf /\ ~s.deferred
        /\ s.needed = stashes[i].needed /\ r \in Slot /\ r.deferred /\ r.buf = buf
        /\ r.end = Piece(c, from + n) /\ r.needed = s.needed
    BY <2>1, <2>3 DEF Slot
  <2> HIDE DEF s, r
  <2>7. ObservedIsHello'
    BY <2>4, <2>5, TellKeeps DEF StashInv
  <2>8. CASE stashes' = [Swept(c[1]) EXCEPT ![i] = s]
    <3>1. WellFormed(s)
      BY <2>2, <2>3, <2>6 DEF WellFormed, HoldsPart
    <3> QED
      BY <2>6, <2>7, <2>8, <3>1, PutKeeps DEF Kept, StashInv, Put
  <2>9. CASE stashes' = [Swept(c[1]) EXCEPT ![i] = r] /\ Len(buf) = s.needed /\ Parses(buf)
    <3>1. WellFormed(r)
      <4>1. buf = Hello(c) /\ r.needed = Length[c]
        BY <2>4, <2>6, <2>9, HelloFacts
      <4> QED
        BY <2>3, <2>6, <4>1 DEF WellFormed, HoldsHello
    <3> QED
      BY <2>6, <2>7, <2>9, <3>1, PutKeeps DEF Kept, StashInv, Put
  <2>10. CASE stashes' = [Swept(c[1]) EXCEPT ![i] = NoSlot]
    BY <2>7, <2>10, NoSlotFacts, PutKeeps DEF Kept, StashInv, Put
  <2> QED
    BY <2>5, <2>8, <2>9, <2>10
<1> QED
  BY <1>1, <1>2 DEF LaterPart

LEMMA ServerHelloKeeps ==
  ASSUME StashInv, NEW c \in Conns, ServerHello(c)
  PROVE  Kept
<1>1. CASE stashes' = Swept(c[1]) /\ UNCHANGED observed
  BY <1>1, SweptKeeps, TellKeeps DEF StashInv, Kept
<1>2. ASSUME NEW i \in Found(c[1]), stashes[i].deferred, NEW ack,
             stashes' = [Swept(c[1]) EXCEPT ![i] = NoSlot],
             UNCHANGED observed \/ (stashes[i].end = Piece(c, ack) /\ Tell(stashes[i].buf, c))
      PROVE  Kept
  <2>1. stashes[i].used /\ WellFormed(stashes[i])
    BY DEF Found, StashInv, SlotsWellFormed
  <2>2. PICK d \in Conns, k \in Nat : stashes[i].buf = Hello(d) /\ stashes[i].end = Piece(d, k)
    BY <1>2, <2>1 DEF WellFormed, HoldsHello, HoldsPart
  <2>3. stashes[i].end = Piece(c, ack) => d = c
    BY <2>2 DEF Piece
  <2>4. ObservedIsHello'
    BY <1>2, <2>2, <2>3, TellKeeps DEF StashInv
  <2> QED
    BY <1>2, <2>4, NoSlotFacts, PutKeeps DEF Kept, StashInv, Put
<1> QED
  BY <1>1, <1>2 DEF ServerHello

LEMMA SegmentKeeps ==
  ASSUME StashInv, NEW c \in Conns, Segment(c)
  PROVE  Kept
<1>1. Length[c] \in Nat /\ RecordMax \in Nat
  BY LengthFacts, StashAssumption
<1>2. PICK from \in 0 .. Length[c], n \in 1 .. Length[c] + 1 :
         \/ WholeHello(c, n) \/ (from = 0 /\ FirstPart(c, n))
         \/ LookalikePart(c, from, n)
         \/ LaterPart(c, from, n)
  BY DEF Segment
<1>3. from \in Nat /\ n \in Nat \ {0} /\ n \in Nat
  BY <1>1
<1>4. CASE LookalikePart(c, from, n)
  <2>1. CASE stashes' = ch_clear_stash(c[1]) /\ UNCHANGED observed
    BY <2>1, SweptKeeps, TellKeeps DEF StashInv, Kept
  <2>2. ASSUME NEW needed \in n + 1 .. RecordMax + 1, BeginRecord(c, from, n, needed)
        PROVE  Kept
    <3>1. needed \in Nat
      BY <1>1, <1>3
    <3> QED
      BY <1>3, <2>2, <3>1, BeginRecordKeeps
  <2> QED
    BY <1>4, <2>1, <2>2 DEF LookalikePart
<1>5. CASE from = 0 /\ FirstPart(c, n)
  BY <1>1, <1>3, <1>5, BeginRecordKeeps DEF FirstPart
<1> QED
  BY <1>2, <1>3, <1>4, <1>5, WholeHelloKeeps, LaterPartKeeps

LEMMA StashStep ==
  ASSUME StashInv, [Next]_vars
  PROVE  StashInv'
<1>1. clock \in Nat /\ TTL \in Nat
  BY StashAssumption DEF StashInv, TableType
<1>2. clock' \in Nat
  <2>1. clock' = clock \/ clock' = clock + 1 \/ clock' = clock + TTL
    BY DEF Next, Segment, ServerHello, Connect, Establish, CloseSocket, Quiet, vars
  <2> QED
    BY <1>1, <2>1
<1>3. CASE Kept
  BY <1>2, <1>3 DEF Kept, StashInv, TableType
<1>4. CASE UNCHANGED <<stashes, observed>>
  BY <1>2, <1>4 DEF StashInv, TableType, SlotsWellFormed, ObservedIsHello
<1> QED
  BY <1>3, <1>4, SegmentKeeps, ServerHelloKeeps
     DEF Next, Connect, Establish, CloseSocket, Quiet, vars

\* A slot in use holds a whole ClientHello that waits for its socket, or consecutive pieces of
\* what one connection sends, and knows which comes next (ch_feed).
THEOREM StashInvariance == Spec => []StashInv
<1>1. Init => StashInv
  BY NoSlotFacts DEF Init, StashInv, TableType, SlotsWellFormed, ObservedIsHello
<1> QED
  BY <1>1, StashStep, PTL DEF Spec

\* What the observer tells is a ClientHello, whole, of the connection that brought it.
THEOREM ObservedHello == Spec => []ObservedIsHello
<1>1. StashInv => ObservedIsHello
  BY DEF StashInv
<1> QED
  BY <1>1, StashInvariance, PTL

-----------------------------------------------------------------------------
(* What is kept.                                                             *)

\* Each flow has at most one slot, and a slot is older than the next packet.
FlowsApart ==
  \A i, j \in SlotIds :
    stashes[i].used /\ stashes[j].used /\ stashes[i].flow = stashes[j].flow => i = j
Aged == \A i \in SlotIds : stashes[i].used => stashes[i].born < clock

RunType ==
  /\ run \in [Conns -> [got : Nat, since : Nat, others : SUBSET Flows]]
  /\ \A d \in Conns : IsFiniteSet(run[d].others)

\* The first m pieces of connection d's hello, in a slot taken at time t.
HoldsFirst(s, d, m, t) ==
  /\ s.used /\ s.flow = d[1] /\ ~s.deferred
  /\ s.buf = Pieces(d, 0, m) /\ s.next = Piece(d, m)
  /\ s.needed = Length[d] /\ s.born = t

\* Slot i has what came of connection d's hello, and every slot that was claimed since
\* belongs to a flow that run names.
Awaits(i, d) ==
  /\ HoldsFirst(stashes[i], d, run[d].got, run[d].since)
  /\ \A j \in SlotIds \ {i} :
       stashes[j].used /\ run[d].since <= stashes[j].born
         => stashes[j].flow \in run[d].others

\* A hello of which a part came in time, while there were slots enough.
Due(d) ==
  /\ run[d].got \in 1 .. Length[d] - 1 /\ Length[d] <= RecordMax
  /\ clock - run[d].since <= TTL
  /\ Cardinality(run[d].others) < Slots
DueIsAwaited == \A d \in Conns : Due(d) => \E i \in SlotIds : Awaits(i, d)

KeepInv == StashInv /\ FlowsApart /\ Aged /\ RunType /\ DueIsAwaited

-----------------------------------------------------------------------------
(* The slot that a claim takes.                                              *)

LEMMA LeastFacts ==
  ASSUME NEW S \in SUBSET Nat, S # {}
  PROVE  Least(S) \in S /\ \A j \in S : Least(S) <= j
<1>1. PICK x \in S : \A y \in S : ~(<<y, x>> \in OpToRel(<, Nat))
  BY NatLessThanWellFounded, WFMin
<1>2. \A y \in S : x <= y
  <2> TAKE y \in S
  <2>1. x \in Nat /\ y \in Nat /\ ~(y < x)
    BY <1>1 DEF OpToRel
  <2> QED
    BY <2>1
<1> QED
  BY <1>2 DEF Least

LEMMA SlotIdsFacts ==
  /\ SlotIds \subseteq Nat /\ 0 \in SlotIds
  /\ IsFiniteSet(SlotIds) /\ Cardinality(SlotIds) = Slots
<1>1. Slots \in Nat /\ Slots > 0
  BY StashAssumption
<1>2. SlotIds \subseteq Nat /\ 0 \in SlotIds
  BY <1>1 DEF SlotIds
<1>3. IsFiniteSet(0 .. Slots - 1) /\ Cardinality(0 .. Slots - 1) = Slots
  <2>1. 0 \in Int /\ Slots - 1 \in Int /\ ~(0 > Slots - 1) /\ Slots - 1 - 0 + 1 = Slots
    BY <1>1
  <2> QED
    BY <2>1, FS_Interval
<1> QED
  BY <1>2, <1>3 DEF SlotIds

\* The victim is free, or no slot is older.
LEMMA VictimFacts ==
  ASSUME NEW t \in [SlotIds -> Slot]
  PROVE  /\ Victim(t) \in SlotIds
         /\ \/ ~t[Victim(t)].used
            \/ \A j \in SlotIds : t[j].used /\ t[Victim(t)].born <= t[j].born
<1> DEFINE free == {i \in SlotIds : ~t[i].used}
           oldest == {i \in SlotIds : \A j \in SlotIds : t[i].born <= t[j].born}
<1>1. CASE free # {}
  <2>1. free \in SUBSET Nat
    BY SlotIdsFacts
  <2>2. Least(free) \in free
    BY <1>1, <2>1, LeastFacts
  <2>3. Victim(t) = Least(free)
    BY <1>1 DEF Victim
  <2> QED
    BY <2>2, <2>3
<1>2. CASE free = {}
  <2> DEFINE births == {t[i].born : i \in SlotIds}
  <2>1. births \in SUBSET Nat /\ births # {}
    BY SlotIdsFacts DEF Slot
  <2>2. Least(births) \in births /\ \A b \in births : Least(births) <= b
    <3> HIDE DEF births
    <3> QED
      BY <2>1, LeastFacts
  <2>3. PICK i \in SlotIds : t[i].born = Least(births)
    BY <2>2
  <2>4. i \in oldest
    BY <2>2, <2>3
  <2>5. oldest \in SUBSET Nat
    BY SlotIdsFacts
  <2>6. Least(oldest) \in oldest
    BY <2>4, <2>5, LeastFacts
  <2>7. Victim(t) = Least(oldest)
    BY <1>2 DEF Victim
  <2> QED
    BY <1>2, <2>6, <2>7
<1> QED
  BY <1>1, <1>2

LEMMA ClaimFacts ==
  ASSUME TableType, NEW f, NEW s
  PROVE  \E k \in SlotIds :
           /\ ch_claim_stash(f, s) = [Swept(f) EXCEPT ![k] = Claimed(s, f, clock)]
           /\ \/ k \in Found(f)
              \/ /\ Found(f) = {}
                 /\ \/ ~Swept(f)[k].used
                    \/ \A j \in SlotIds :
                         Swept(f)[j].used /\ Swept(f)[k].born <= Swept(f)[j].born
<1>1. Swept(f) \in [SlotIds -> Slot]
  BY SweptFacts
<1>2. CASE Found(f) # {}
  <2>1. Found(f) \in SUBSET Nat /\ Found(f) \subseteq SlotIds
    BY SlotIdsFacts DEF Found
  <2>2. Least(Found(f)) \in Found(f)
    BY <1>2, <2>1, LeastFacts
  <2> QED
    BY <1>2, <2>1, <2>2 DEF ch_claim_stash, Claimed
<1>3. CASE Found(f) = {}
  BY <1>1, <1>3, VictimFacts DEF ch_claim_stash, Claimed
<1> QED
  BY <1>2, <1>3

\* A flow that is found nowhere has no slot when the table is swept.
LEMMA SweptFlows ==
  ASSUME TableType, NEW f, Found(f) = {}
  PROVE  \A j \in SlotIds : Swept(f)[j].used => stashes[j].flow # f /\ Swept(f)[j] = stashes[j]
<1> SUFFICES ASSUME NEW j \in SlotIds, Swept(f)[j].used
             PROVE  stashes[j].flow # f /\ Swept(f)[j] = stashes[j]
  OBVIOUS
<1>1. Swept(f)[j] = IF Stale(stashes[j]) THEN NoSlot ELSE stashes[j]
  BY DEF Swept
<1>2. ~Stale(stashes[j]) /\ Swept(f)[j] = stashes[j] /\ stashes[j].used
  BY <1>1, NoSlotFacts
<1> QED
  BY <1>2 DEF Found

-----------------------------------------------------------------------------
(* What flow f's packet does to each slot.                                   *)

Lost(j, f) ==
  /\ ~stashes'[j].used
  /\ stashes[j].used => Stale(stashes[j]) \/ stashes[j].flow = f
Reused(j, f) ==
  /\ stashes[j].used /\ stashes[j].flow = f
  /\ stashes'[j].used => stashes'[j].flow = f /\ stashes'[j].born = stashes[j].born
Taken(k, f) ==
  /\ stashes'[k].used /\ stashes'[k].flow = f /\ stashes'[k].born = clock
  /\ \A j \in SlotIds \ {k} : stashes'[j].used => stashes'[j].flow # f
  /\ \/ stashes[k].used => Stale(stashes[k]) \/ stashes[k].flow = f
     \/ \A j \in SlotIds :
          stashes[j].used /\ stashes[j].flow # f /\ stashes[k].born <= stashes[j].born
SlotMove(j, f, claimed) ==
  stashes'[j] = stashes[j] \/ Lost(j, f) \/ Reused(j, f) \/ (claimed /\ Taken(j, f))
Moved(f, claimed) == \A j \in SlotIds : SlotMove(j, f, claimed)

LEMMA SweptMoves ==
  ASSUME TableType, NEW f, NEW claimed \in BOOLEAN,
         stashes' = Swept(f) \/ stashes' = ch_clear_stash(f)
  PROVE  Moved(f, claimed)
<1> SUFFICES ASSUME NEW j \in SlotIds PROVE stashes'[j] = stashes[j] \/ Lost(j, f)
  BY DEF Moved, SlotMove
<1>1. \/ stashes'[j] = stashes[j]
      \/ stashes'[j] = NoSlot /\ (Stale(stashes[j]) \/ j \in Found(f))
  BY SweptFacts
<1>2. j \in Found(f) => stashes[j].flow = f
  BY DEF Found
<1> QED
  BY <1>1, <1>2, NoSlotFacts DEF Lost

LEMMA PutMoves ==
  ASSUME TableType, NEW f, NEW claimed \in BOOLEAN, NEW k \in Found(f), NEW s,
         stashes' = [Swept(f) EXCEPT ![k] = s],
         s.used => s.flow = f /\ s.born = stashes[k].born
  PROVE  Moved(f, claimed)
<1> SUFFICES ASSUME NEW j \in SlotIds
             PROVE  stashes'[j] = stashes[j] \/ Lost(j, f) \/ Reused(j, f)
  BY DEF Moved, SlotMove
<1>1. CASE j = k
  <2>1. stashes[j].used /\ stashes[j].flow = f
    BY <1>1 DEF Found
  <2>2. stashes'[j] = s
    BY <1>1, SweptFacts
  <2> QED
    BY <1>1, <2>1, <2>2 DEF Reused
<1>2. CASE j # k
  <2>1. stashes'[j] = Swept(f)[j]
    BY <1>2, SweptFacts
  <2>2. Swept(f)[j] = stashes[j] \/ (Swept(f)[j] = NoSlot /\ Stale(stashes[j]))
    BY SweptFacts
  <2> QED
    BY <2>1, <2>2, NoSlotFacts DEF Lost
<1> QED
  BY <1>1, <1>2

LEMMA ClaimMoves ==
  ASSUME TableType, FlowsApart, NEW f, NEW s \in Slot, stashes' = ch_claim_stash(f, s)
  PROVE  /\ Moved(f, TRUE)
         /\ \E k \in SlotIds : Taken(k, f) /\ stashes'[k] = Claimed(s, f, clock)
<1>1. PICK k \in SlotIds :
        /\ stashes' = [Swept(f) EXCEPT ![k] = Claimed(s, f, clock)]
        /\ \/ k \in Found(f)
           \/ /\ Found(f) = {}
              /\ \/ ~Swept(f)[k].used
                 \/ \A j \in SlotIds : Swept(f)[j].used /\ Swept(f)[k].born <= Swept(f)[j].born
  BY ClaimFacts
<1>2. /\ stashes'[k] = Claimed(s, f, clock)
      /\ \A j \in SlotIds \ {k} : stashes'[j] = Swept(f)[j]
  BY <1>1, SweptFacts
<1>3. \A j \in SlotIds :
        Swept(f)[j] = stashes[j] \/ (Swept(f)[j] = NoSlot /\ Stale(stashes[j]))
  BY SweptFacts
<1>4. stashes'[k].used /\ stashes'[k].flow = f /\ stashes'[k].born = clock
  BY <1>2 DEF Claimed, Slot
<1>5. ASSUME NEW j \in SlotIds \ {k}, stashes'[j].used
      PROVE  stashes'[j].flow # f
  <2>1. stashes'[j] = stashes[j] /\ Swept(f)[j].used
    BY <1>2, <1>3, <1>5, NoSlotFacts
  <2>2. CASE k \in Found(f)
    BY <1>5, <2>1, <2>2 DEF Found, FlowsApart
  <2>3. CASE Found(f) = {}
    BY <2>1, <2>3, SweptFlows
  <2> QED
    BY <1>1, <2>2, <2>3
<1>6. \/ stashes[k].used => Stale(stashes[k]) \/ stashes[k].flow = f
      \/ \A j \in SlotIds :
           stashes[j].used /\ stashes[j].flow # f /\ stashes[k].born <= stashes[j].born
  <2>1. CASE k \in Found(f)
    BY <2>1 DEF Found
  <2>2. CASE Found(f) = {} /\ ~Swept(f)[k].used
    BY <1>3, <2>2
  <2>3. CASE /\ Found(f) = {}
             /\ \A j \in SlotIds : Swept(f)[j].used /\ Swept(f)[k].born <= Swept(f)[j].born
    <3>1. \A j \in SlotIds : stashes[j].flow # f /\ Swept(f)[j] = stashes[j]
      BY <2>3, SweptFlows
    <3> QED
      BY <2>3, <3>1
  <2> QED
    BY <1>1, <2>1, <2>2, <2>3
<1>7. Taken(k, f)
  BY <1>4, <1>5, <1>6 DEF Taken
<1>8. ASSUME NEW j \in SlotIds PROVE SlotMove(j, f, TRUE)
  <2>1. CASE j = k
    BY <1>7, <2>1 DEF SlotMove
  <2>2. CASE j # k
    BY <1>2, <1>3, <2>2, NoSlotFacts DEF SlotMove, Lost
  <2> QED
    BY <2>1, <2>2
<1> QED
  BY <1>2, <1>7, <1>8 DEF Moved

\* One slot of a flow, and none from the future.
LEMMA ApartStep ==
  ASSUME TableType, FlowsApart, Aged, NEW f, NEW claimed \in BOOLEAN, Moved(f, claimed),
         clock' = clock + 1
  PROVE  FlowsApart' /\ Aged'
<1>0. clock \in Nat /\ \A j \in SlotIds : stashes[j].born \in Nat
  BY DEF TableType, Slot
<1>1. \A j \in SlotIds : stashes'[j].used =>
        \/ stashes[j].used /\ stashes'[j].flow = stashes[j].flow /\ stashes'[j].born = stashes[j].born
        \/ Taken(j, f)
  BY DEF Moved, SlotMove, Lost, Reused
<1>2. FlowsApart'
  <2> SUFFICES ASSUME NEW i \in SlotIds, NEW j \in SlotIds, stashes'[i].used, stashes'[j].used,
                      stashes'[i].flow = stashes'[j].flow, i # j
               PROVE  FALSE
    BY DEF FlowsApart
  <2>1. ~Taken(i, f) /\ ~Taken(j, f)
    BY DEF Taken
  <2> QED
    BY <1>1, <2>1 DEF FlowsApart
<1>3. Aged'
  <2> SUFFICES ASSUME NEW j \in SlotIds, stashes'[j].used PROVE stashes'[j].born < clock'
    BY DEF Aged
  <2>1. CASE stashes[j].used /\ stashes'[j].born = stashes[j].born
    BY <1>0, <2>1 DEF Aged
  <2>2. CASE Taken(j, f)
    BY <1>0, <2>2 DEF Taken
  <2> QED
    BY <1>1, <2>1, <2>2
<1> QED
  BY <1>2, <1>3

\* Another flow's packet leaves the slot of a hello that is due: were it the oldest of a full
\* table, as many other flows as there are slots would have taken one since.
LEMMA OtherKeeps ==
  ASSUME KeepInv, NEW i \in SlotIds, NEW d \in Conns, Awaits(i, d),
         clock - run[d].since <= TTL, NEW f, f # d[1], NEW claimed \in BOOLEAN,
         Moved(f, claimed), run'[d].got = run[d].got, run'[d].since = run[d].since,
         run'[d].others = IF claimed THEN run[d].others \cup {f} ELSE run[d].others,
         IsFiniteSet(run'[d].others), Cardinality(run'[d].others) < Slots
  PROVE  Awaits(i, d)'
<1>0. /\ stashes[i].used /\ stashes[i].flow = d[1] /\ stashes[i].born = run[d].since
      /\ run[d].others \subseteq run'[d].others /\ ~Stale(stashes[i])
  <2>1. stashes[i].used /\ stashes[i].flow = d[1] /\ stashes[i].born = run[d].since
    BY DEF Awaits, HoldsFirst
  <2>2. clock \in Nat /\ run[d].since \in Nat /\ TTL \in Nat
    BY StashAssumption DEF KeepInv, StashInv, TableType, RunType
  <2> QED
    BY <2>1, <2>2 DEF Stale
<1>1. ~Taken(i, f) \/ ~claimed
  <2> SUFFICES ASSUME Taken(i, f), claimed PROVE FALSE
    OBVIOUS
  <2>1. \A j \in SlotIds :
          stashes[j].used /\ stashes[j].flow # f /\ stashes[i].born <= stashes[j].born
    BY <1>0 DEF Taken
  <2> DEFINE g == [j \in SlotIds |-> IF j = i THEN f ELSE stashes[j].flow]
  <2>2. \A j \in SlotIds \ {i} : stashes[j].flow \in run'[d].others
    BY <1>0, <2>1 DEF Awaits
  <2>3. f \in run'[d].others
    OBVIOUS
  <2>4. g \in [SlotIds -> run'[d].others]
    BY <2>2, <2>3
  <2>5. \A x, y \in SlotIds : g[x] = g[y] => x = y
    BY <2>1 DEF KeepInv, FlowsApart
  <2> HIDE DEF g
  <2>6. IsFiniteSet(SlotIds) /\ Cardinality(run'[d].others) < Cardinality(SlotIds)
    BY SlotIdsFacts
  <2>7. \E x, y \in SlotIds : x # y /\ g[x] = g[y]
    BY <2>4, <2>6, FS_PigeonHole
  <2> QED
    BY <2>5, <2>7
<1>2. SlotMove(i, f, claimed)
  BY DEF Moved
<1>3. stashes'[i] = stashes[i]
  BY <1>0, <1>1, <1>2 DEF SlotMove, Lost, Reused
<1>4. ASSUME NEW j \in SlotIds \ {i}, stashes'[j].used, run[d].since <= stashes'[j].born
      PROVE  stashes'[j].flow \in run'[d].others
  <2>1. SlotMove(j, f, claimed)
    BY DEF Moved
  <2>2. CASE stashes'[j] = stashes[j]
    BY <1>0, <1>4, <2>2 DEF Awaits
  <2>3. CASE Reused(j, f)
    BY <1>0, <1>4, <2>3 DEF Awaits, Reused
  <2>4. CASE claimed /\ Taken(j, f)
    BY <2>4 DEF Taken
  <2> QED
    BY <1>4, <2>1, <2>2, <2>3, <2>4 DEF SlotMove, Lost
<1> QED
  BY <1>3, <1>4 DEF Awaits, HoldsFirst

-----------------------------------------------------------------------------
(* What each segment does to the table, and what run makes of it.            *)

Tracked(c, from, n, claimed) == Track(c, from, n, claimed) /\ Moved(c[1], claimed)

LEMMA WholeHelloMoves ==
  ASSUME KeepInv, NEW c \in Conns, NEW n \in Nat, WholeHello(c, n)
  PROVE  /\ \E claimed \in BOOLEAN : Tracked(c, 0, n, claimed)
         /\ Length[c] <= RecordMax => Told(c)' \/ Waits(c)'
<1> DEFINE s == [NoSlot EXCEPT !.buf = Hello(c), !.needed = Length[c], !.deferred = TRUE,
                               !.end = Piece(c, n)]
<1>0. s \in Slot /\ TableType /\ FlowsApart
  BY NewSlots DEF KeepInv, StashInv
<1>1. CASE /\ Tell(Hello(c), c) /\ stashes' = ch_clear_stash(c[1])
           /\ Track(c, 0, n, FALSE)
  <2>1. Told(c)'
    BY <1>1 DEF Tell, Told
  <2>2. Moved(c[1], FALSE)
    BY <1>0, <1>1, SweptMoves
  <2> QED
    BY <1>1, <2>1, <2>2 DEF Tracked
<1>2. CASE stashes' = ch_claim_stash(c[1], s) /\ Track(c, 0, n, TRUE)
  <2>1. s.deferred /\ s.buf = Hello(c)
    BY NoSlotFacts DEF Slot
  <2> HIDE DEF s
  <2>2. PICK k \in SlotIds : stashes'[k] = Claimed(s, c[1], clock)
    BY <1>0, <1>2, ClaimMoves
  <2>3. Moved(c[1], TRUE)
    BY <1>0, <1>2, ClaimMoves
  <2>4. stashes'[k].used /\ stashes'[k].deferred /\ stashes'[k].buf = Hello(c)
    BY <1>0, <2>1, <2>2 DEF Claimed, Slot
  <2>5. Waits(c)'
    BY <2>4 DEF Waits
  <2> QED
    BY <1>2, <2>3, <2>5 DEF Tracked
<1>3. CASE /\ ~(Length[c] <= RecordMax) /\ stashes' = ch_clear_stash(c[1])
           /\ Track(c, 0, n, FALSE)
  <2>1. Moved(c[1], FALSE)
    BY <1>0, <1>3, SweptMoves
  <2> QED
    BY <1>3, <2>1 DEF Tracked
<1> QED
  BY <1>1, <1>2, <1>3 DEF WholeHello

LEMMA BeginRecordMoves ==
  ASSUME KeepInv, NEW c \in Conns, NEW from \in Nat, NEW n \in Nat \ {0}, NEW needed \in Nat,
         BeginRecord(c, from, n, needed)
  PROVE  /\ \E claimed \in BOOLEAN : Tracked(c, from, n, claimed)
         /\ needed <= RecordMax => \E k \in SlotIds :
              /\ Taken(k, c[1]) /\ ~stashes'[k].deferred /\ stashes'[k].needed = needed
              /\ stashes'[k].buf = Pieces(c, from, n) /\ stashes'[k].next = Piece(c, from + n)
              /\ \A j \in SlotIds \ {k} : stashes'[j] = stashes[j] \/ ~stashes'[j].used
<1> DEFINE s == [NoSlot EXCEPT !.buf = Pieces(c, from, n), !.needed = needed,
                               !.next = Piece(c, from + n)]
<1>0. s \in Slot /\ TableType /\ FlowsApart /\ RecordMax \in Nat
  BY NewSlots, StashAssumption DEF KeepInv, StashInv
<1>1. CASE needed > RecordMax
  <2>1. stashes' = ch_clear_stash(c[1]) /\ Track(c, from, n, FALSE)
    BY <1>1 DEF BeginRecord
  <2>2. Moved(c[1], FALSE)
    BY <1>0, <2>1, SweptMoves
  <2>3. ~(needed <= RecordMax)
    BY <1>0, <1>1
  <2> QED
    BY <2>1, <2>2, <2>3 DEF Tracked
<1>2. CASE ~(needed > RecordMax)
  <2>1. stashes' = ch_claim_stash(c[1], s) /\ Track(c, from, n, TRUE)
    BY <1>2 DEF BeginRecord
  <2>2. /\ ~s.deferred /\ s.buf = Pieces(c, from, n) /\ s.next = Piece(c, from + n)
        /\ s.needed = needed
    <3>1. ~NoSlot.deferred
      BY DEF NoSlot
    <3> QED
      BY <3>1, NoSlotFacts DEF Slot
  <2> HIDE DEF s
  <2>3. Moved(c[1], TRUE)
    BY <1>0, <2>1, ClaimMoves
  <2>4. PICK k \in SlotIds : stashes'[k] = Claimed(s, c[1], clock) /\ Taken(k, c[1])
    BY <1>0, <2>1, ClaimMoves
  <2>5. /\ ~stashes'[k].deferred /\ stashes'[k].needed = needed
        /\ stashes'[k].buf = Pieces(c, from, n) /\ stashes'[k].next = Piece(c, from + n)
    BY <1>0, <2>2, <2>4 DEF Claimed, Slot
  <2>6. \A j \in SlotIds \ {k} : stashes'[j] = stashes[j] \/ ~stashes'[j].used
    BY <2>3, <2>4 DEF Taken, Moved, SlotMove, Lost, Reused
  <2> QED
    BY <2>1, <2>3, <2>4, <2>5, <2>6 DEF Tracked
<1> QED
  BY <1>1, <1>2

\* A slot that no step touches.
LEMMA SameKeeps ==
  ASSUME NEW i \in SlotIds, NEW d \in Conns, Awaits(i, d), stashes'[i] = stashes[i],
         \A j \in SlotIds \ {i} : stashes'[j] = stashes[j] \/ ~stashes'[j].used,
         run'[d] = run[d]
  PROVE  Awaits(i, d)'
<1>1. HoldsFirst(stashes[i], d, run[d].got, run[d].since)'
  BY DEF Awaits, HoldsFirst
<1>2. ASSUME NEW j \in SlotIds \ {i}, stashes'[j].used, run'[d].since <= stashes'[j].born
      PROVE  stashes'[j].flow \in run'[d].others
  <2>1. stashes'[j] = stashes[j]
    BY <1>2
  <2> QED
    BY <1>2, <2>1 DEF Awaits
<1> QED
  BY <1>1, <1>2 DEF Awaits

\* The slot of a hello that is in time is the one that its flow's packets find.
LEMMA AwaitedFound ==
  ASSUME KeepInv, NEW i \in SlotIds, NEW d \in Conns, Awaits(i, d),
         clock - run[d].since <= TTL
  PROVE  /\ i \in Found(d[1]) /\ \A j \in Found(d[1]) : j = i
         /\ Swept(d[1])[i] = stashes[i]
<1>1. /\ stashes[i].used /\ stashes[i].flow = d[1] /\ stashes[i].born = run[d].since
  BY DEF Awaits, HoldsFirst
<1>2. clock \in Nat /\ run[d].since \in Nat /\ TTL \in Nat
  BY StashAssumption DEF KeepInv, StashInv, TableType, RunType
<1>3. ~Stale(stashes[i])
  BY <1>1, <1>2 DEF Stale
<1>4. i \in Found(d[1])
  BY <1>1, <1>3 DEF Found
<1>5. \A j \in Found(d[1]) : j = i
  BY <1>1 DEF Found, KeepInv, FlowsApart
<1> QED
  BY <1>3, <1>4, <1>5 DEF Swept

\* A later segment does what it should to the slot that awaits it, and nothing to one that
\* does not.
Continued(c, from, n) == from = run[c].got /\ from + n <= Length[c]

LEMMA LaterPartMoves ==
  ASSUME KeepInv, NEW c \in Conns, NEW from \in Nat, NEW n \in Nat \ {0}, LaterPart(c, from, n)
  PROVE  Tracked(c, from, n, FALSE)
<1>1. TableType /\ StashInv /\ Track(c, from, n, FALSE)
  BY DEF KeepInv, StashInv, LaterPart
<1>2. CASE stashes' = Swept(c[1])
  BY <1>1, <1>2, SweptMoves DEF Tracked
<1>3. ASSUME NEW i \in Found(c[1]), NEW s,
             stashes' = [Swept(c[1]) EXCEPT ![i] = s],
             s.used => s.flow = c[1] /\ s.born = stashes[i].born
      PROVE  Tracked(c, from, n, FALSE)
  BY <1>1, <1>3, PutMoves DEF Tracked
<1>4. ASSUME NEW i \in Found(c[1])
      PROVE  LET s == [stashes[i] EXCEPT !.buf = stashes[i].buf \o Pieces(c, from, n),
                                         !.next = Piece(c, from + n)]
                 r == [s EXCEPT !.deferred = TRUE, !.end = s.next]
             IN /\ s.flow = c[1] /\ s.born = stashes[i].born
                /\ r.flow = c[1] /\ r.born = stashes[i].born
  <2>1. stashes[i] \in Slot /\ stashes[i].flow = c[1]
    BY <1>1 DEF Found, TableType
  <2> QED
    BY <2>1 DEF Slot
<1>5. ~NoSlot.used
  BY NoSlotFacts
<1> QED
  BY <1>2, <1>3, <1>4, <1>5 DEF LaterPart

LEMMA LaterPartContinues ==
  ASSUME KeepInv, NEW c \in Conns, NEW from \in Nat, NEW n \in Nat \ {0}, LaterPart(c, from, n),
         NEW i \in SlotIds, Awaits(i, c), clock - run[c].since <= TTL, Continued(c, from, n)
  PROVE  /\ from + n < Length[c] => HoldsFirst(stashes'[i], c, from + n, run[c].since)
         /\ from + n = Length[c] => Told(c)' \/ Waits(c)'
         /\ \A j \in SlotIds \ {i} : stashes'[j] = stashes[j] \/ ~stashes'[j].used
<1>1. TableType /\ stashes[i] \in Slot /\ from = run[c].got /\ Length[c] \in Nat
  BY LengthFacts DEF KeepInv, StashInv, TableType, Continued
<1>2. /\ i \in Found(c[1]) /\ \A j \in Found(c[1]) : j = i
  BY AwaitedFound
<1>3. /\ stashes[i].used /\ stashes[i].flow = c[1] /\ ~stashes[i].deferred
      /\ stashes[i].buf = Pieces(c, 0, from) /\ stashes[i].next = Piece(c, from)
      /\ stashes[i].needed = Length[c] /\ stashes[i].born = run[c].since
  BY <1>1 DEF Awaits, HoldsFirst
<1> DEFINE buf == stashes[i].buf \o Pieces(c, from, n)
           s == [stashes[i] EXCEPT !.buf = buf, !.next = Piece(c, from + n)]
           r == [s EXCEPT !.deferred = TRUE, !.end = s.next]
<1>4. buf = Pieces(c, 0, from + n) /\ Len(buf) = from + n /\ Len(stashes[i].buf) = from
  <2>1. 0 \in Nat /\ n \in Nat /\ from + n \in Nat /\ 0 + from = from
    OBVIOUS
  <2>2. Pieces(c, 0, from) \o Pieces(c, 0 + from, n) = Pieces(c, 0, from + n)
    BY <2>1, PiecesJoin, ZenonT(30)
  <2>3. Len(Pieces(c, 0, from + n)) = from + n /\ Len(Pieces(c, 0, from)) = from
    BY <2>1, PiecesFacts
  <2> QED
    BY <1>3, <2>1, <2>2, <2>3
<1>5. Continues(stashes[i], c, from, n)
  BY <1>3, <1>4 DEF Continues, Continued
<1>6. IF Len(buf) # s.needed
      THEN stashes' = [Swept(c[1]) EXCEPT ![i] = s]
      ELSE IF Parses(buf) /\ ~est[c[1]]
      THEN stashes' = [Swept(c[1]) EXCEPT ![i] = r]
      ELSE /\ stashes' = [Swept(c[1]) EXCEPT ![i] = NoSlot]
           /\ Parses(buf) => Tell(buf, c)
  BY <1>2, <1>5 DEF LaterPart
<1> HIDE DEF buf
<1>7. /\ s.used /\ s.flow = c[1] /\ ~s.deferred /\ s.buf = buf /\ s.next = Piece(c, from + n)
      /\ s.needed = Length[c] /\ s.born = run[c].since
      /\ r.used /\ r.deferred /\ r.buf = buf
  BY <1>1, <1>3 DEF Slot
<1> HIDE DEF s, r
<1>8. ASSUME from + n < Length[c] PROVE HoldsFirst(stashes'[i], c, from + n, run[c].since)
  <2>1. stashes' = [Swept(c[1]) EXCEPT ![i] = s]
    <3>1. from + n # Length[c]
      BY <1>1, <1>8
    <3> QED
      BY <1>4, <1>6, <1>7, <3>1
  <2>2. stashes'[i] = s
    BY <1>1, <2>1, SweptFacts
  <2> QED
    BY <1>4, <1>7, <2>2 DEF HoldsFirst
<1>9. ASSUME from + n = Length[c] PROVE Told(c)' \/ Waits(c)'
  <2>1. buf = Hello(c) /\ Parses(buf)
    BY <1>4, <1>9, HelloFacts, HelloParses
  <2>2. Len(buf) = s.needed
    BY <1>4, <1>7, <1>9
  <2>3. CASE stashes' = [Swept(c[1]) EXCEPT ![i] = r]
    <3>1. stashes'[i] = r
      BY <1>1, <2>3, SweptFacts
    <3> QED
      BY <1>7, <2>1, <3>1 DEF Waits
  <2>4. CASE Tell(buf, c)
    BY <2>1, <2>4 DEF Tell, Told
  <2> QED
    BY <1>6, <2>1, <2>2, <2>3, <2>4
<1>10. ASSUME NEW j \in SlotIds \ {i} PROVE stashes'[j] = stashes[j] \/ ~stashes'[j].used
  <2>1. stashes'[j] = Swept(c[1])[j]
    BY <1>1, <1>6, SweptFacts
  <2> QED
    BY <1>1, <2>1, SweptFacts, NoSlotFacts
<1> QED
  BY <1>8, <1>9, <1>10

\* One that no segment continues stays: another connection's, or one of another place.
LEMMA LaterPartLeaves ==
  ASSUME KeepInv, NEW c \in Conns, NEW from \in Nat, NEW n \in Nat \ {0}, LaterPart(c, from, n),
         NEW i \in SlotIds, NEW d \in Conns, d[1] = c[1], Awaits(i, d),
         clock - run[d].since <= TTL, ~(d = c /\ Continued(c, from, n))
  PROVE  /\ stashes'[i] = stashes[i]
         /\ \A j \in SlotIds \ {i} : stashes'[j] = stashes[j] \/ ~stashes'[j].used
<1>1. /\ i \in Found(c[1]) /\ \A j \in Found(c[1]) : j = i
      /\ Swept(c[1])[i] = stashes[i]
  BY AwaitedFound
<1>2. ~Continues(stashes[i], c, from, n)
  <2> SUFFICES ASSUME Continues(stashes[i], c, from, n) PROVE FALSE
    OBVIOUS
  <2>1. stashes[i].next = Piece(c, from) /\ Len(stashes[i].buf) + n <= stashes[i].needed
    BY DEF Continues
  <2>2. /\ stashes[i].buf = Pieces(d, 0, run[d].got) /\ stashes[i].next = Piece(d, run[d].got)
        /\ stashes[i].needed = Length[d]
    BY DEF Awaits, HoldsFirst
  <2>3. d = c /\ from = run[c].got
    BY <2>1, <2>2 DEF Piece
  <2>4. Len(Pieces(d, 0, run[d].got)) = run[d].got
    BY <2>3, PiecesFacts
  <2> QED
    BY <2>1, <2>2, <2>3, <2>4 DEF Continued
<1>3. stashes' = Swept(c[1])
  BY <1>1, <1>2 DEF LaterPart
<1> QED
  BY <1>1, <1>3, SweptFacts, NoSlotFacts DEF KeepInv, StashInv

\* A ServerHello looks for a hello that waits.
LEMMA ServerHelloMoves ==
  ASSUME KeepInv, NEW c \in Conns, ServerHello(c)
  PROVE  /\ Moved(c[1], FALSE)
         /\ \A i \in SlotIds, d \in Conns :
              d[1] = c[1] /\ Awaits(i, d) /\ clock - run[d].since <= TTL
                => /\ stashes'[i] = stashes[i]
                   /\ \A j \in SlotIds \ {i} : stashes'[j] = stashes[j] \/ ~stashes'[j].used
<1>1. TableType /\ ~NoSlot.used
  BY NoSlotFacts DEF KeepInv, StashInv
<1>2. \/ stashes' = Swept(c[1])
      \/ \E i \in Found(c[1]) :
           stashes[i].deferred /\ stashes' = [Swept(c[1]) EXCEPT ![i] = NoSlot]
  BY DEF ServerHello
<1>3. Moved(c[1], FALSE)
  BY <1>1, <1>2, SweptMoves, PutMoves
<1>4. ASSUME NEW i \in SlotIds, NEW d \in Conns, d[1] = c[1], Awaits(i, d),
             clock - run[d].since <= TTL
      PROVE  /\ stashes'[i] = stashes[i]
             /\ \A j \in SlotIds \ {i} : stashes'[j] = stashes[j] \/ ~stashes'[j].used
  <2>1. /\ \A j \in Found(c[1]) : j = i
        /\ Swept(c[1])[i] = stashes[i]
    BY <1>4, AwaitedFound
  <2>2. ~stashes[i].deferred
    BY <1>4 DEF Awaits, HoldsFirst
  <2>3. stashes' = Swept(c[1])
    BY <1>2, <2>1, <2>2
  <2> QED
    BY <1>1, <2>1, <2>3, SweptFacts
<1> QED
  BY <1>3, <1>4

\* What run makes of a segment: a hello that begins, one that goes on, and one of another flow
\* that a slot was claimed beside.
Begun(c, n) ==
  run'[c] = [got |-> IF n < Length[c] THEN n ELSE Length[c], since |-> clock, others |-> {}]
Advanced(d, m) ==
  run'[d].got = m /\ run'[d].since = run[d].since /\ run'[d].others = run[d].others
Beside(d, f) ==
  /\ run'[d].got = run[d].got /\ run'[d].since = run[d].since
  /\ run'[d].others = run[d].others \cup {f}
Part(d) == run[d].got \in 1 .. Length[d] - 1

LEMMA TrackFacts ==
  ASSUME KeepInv, NEW c \in Conns, NEW from \in Nat, NEW n \in Nat \ {0}, NEW claimed \in BOOLEAN,
         Track(c, from, n, claimed)
  PROVE  /\ RunType'
         /\ \A d \in Conns :
              /\ d[1] # c[1] => \/ run'[d] = NoRun
                                \/ Part(d) /\ claimed /\ Beside(d, c[1])
                                \/ run'[d] = run[d] /\ ~(claimed /\ Part(d))
              /\ d[1] = c[1] /\ Starts(c, from) /\ ~(d = c /\ from = 0) => run'[d] = NoRun
              /\ d = c /\ from = 0 => Begun(c, n)
              /\ d = c /\ ~Starts(c, from) /\ Continued(c, from, n) => Advanced(d, from + n)
              /\ d[1] = c[1] /\ ~Starts(c, from) /\ ~(d = c /\ Continued(c, from, n)) =>
                   run'[d] = NoRun \/ run'[d] = run[d]
<1> DEFINE new == [got |-> IF n < Length[c] THEN n ELSE Length[c], since |-> clock, others |-> {}]
<1>1. /\ run' \in [Conns -> {run'[d] : d \in Conns}]
      /\ \A d \in Conns : run'[d] =
           CASE d = c /\ from = 0 -> new
             [] d[1] = c[1] /\ Starts(c, from) /\ ~(d = c /\ from = 0) -> NoRun
             [] d = c /\ ~Starts(c, from) /\ from = run[c].got /\ from + n <= Length[c] ->
                  [run[c] EXCEPT !.got = from + n]
             [] d[1] # c[1] /\ claimed /\ run[d].got \in 1 .. Length[d] - 1 ->
                  [run[d] EXCEPT !.others = @ \cup {c[1]}]
             [] run[d].got = Length[d] /\ ~(d = c /\ from = 0) -> NoRun
             [] OTHER -> run[d]
  BY DEF Track
<1>a. \A d \in Conns : Length[d] \in Nat /\ Length[d] > 0
  BY LengthFacts
<1>2. \A d \in Conns :
        /\ d = c /\ from = 0 => run'[d] = new
        /\ d[1] = c[1] /\ Starts(c, from) /\ ~(d = c /\ from = 0) => run'[d] = NoRun
        /\ d = c /\ ~Starts(c, from) /\ from = run[c].got /\ from + n <= Length[c] =>
             run'[d] = [run[c] EXCEPT !.got = from + n]
        /\ d[1] # c[1] /\ claimed /\ run[d].got \in 1 .. Length[d] - 1 =>
             run'[d] = [run[d] EXCEPT !.others = @ \cup {c[1]}]
        /\ \/ d[1] # c[1] /\ ~(claimed /\ run[d].got \in 1 .. Length[d] - 1)
           \/ /\ d[1] = c[1] /\ ~Starts(c, from)
              /\ ~(d = c /\ from = run[c].got /\ from + n <= Length[c])
           => run'[d] = NoRun \/ run'[d] = run[d]
  <2> HIDE DEF new
  <2> TAKE d \in Conns
  <2>1. from = 0 => Starts(c, from)
    BY DEF Starts
  <2>2. ASSUME d = c, from = 0 PROVE run'[d] = new
    BY <1>1, <1>a, <2>1, <2>2
  <2>3. ASSUME d[1] = c[1], Starts(c, from), ~(d = c /\ from = 0) PROVE run'[d] = NoRun
    BY <1>1, <1>a, <2>1, <2>3
  <2>4. ASSUME d = c, ~Starts(c, from), from = run[c].got, from + n <= Length[c]
        PROVE  run'[d] = [run[c] EXCEPT !.got = from + n]
    BY <1>1, <1>a, <2>1, <2>4
  <2>5. ASSUME d[1] # c[1], claimed, run[d].got \in 1 .. Length[d] - 1
        PROVE  run'[d] = [run[d] EXCEPT !.others = @ \cup {c[1]}]
    BY <1>1, <1>a, <2>1, <2>5
  <2>6. ASSUME \/ d[1] # c[1] /\ ~(claimed /\ run[d].got \in 1 .. Length[d] - 1)
               \/ /\ d[1] = c[1] /\ ~Starts(c, from)
                  /\ ~(d = c /\ from = run[c].got /\ from + n <= Length[c])
        PROVE  run'[d] = NoRun \/ run'[d] = run[d]
    BY <1>1, <1>a, <2>1, <2>6
  <2> QED
    BY <2>2, <2>3, <2>4, <2>5, <2>6
<1>3. ASSUME NEW d \in Conns
      PROVE  /\ run'[d] \in [got : Nat, since : Nat, others : SUBSET Flows]
             /\ IsFiniteSet(run'[d].others)
  <2>1. /\ run[d] \in [got : Nat, since : Nat, others : SUBSET Flows]
        /\ IsFiniteSet(run[d].others) /\ c[1] \in Flows
    BY LengthFacts DEF KeepInv, RunType
  <2>2. /\ new \in [got : Nat, since : Nat, others : SUBSET Flows]
        /\ IsFiniteSet(new.others)
    <3>1. clock \in Nat
      BY DEF KeepInv, StashInv, TableType
    <3> QED
      BY <1>a, <3>1, FS_EmptySet
  <2>3. /\ NoRun \in [got : Nat, since : Nat, others : SUBSET Flows]
        /\ IsFiniteSet(NoRun.others)
    BY FS_EmptySet DEF NoRun
  <2> HIDE DEF new
  <2>4. CASE run'[d] = [run[d] EXCEPT !.got = from + n]
    <3>1. from + n \in Nat
      OBVIOUS
    <3> QED
      BY <2>1, <2>4, <3>1
  <2>5. CASE run'[d] = [run[d] EXCEPT !.others = @ \cup {c[1]}]
    <3>1. IsFiniteSet(run[d].others \cup {c[1]})
      BY <2>1, FS_AddElement
    <3> QED
      BY <2>1, <2>5, <3>1
  <2> QED
    BY <1>2, <2>1, <2>2, <2>3, <2>4, <2>5
<1>4. RunType'
  BY <1>1, <1>3 DEF RunType
<1>5. ASSUME NEW d \in Conns
      PROVE  /\ run'[d] = [run[d] EXCEPT !.others = @ \cup {c[1]}] => Beside(d, c[1])
             /\ run'[d] = [run[d] EXCEPT !.got = from + n] => Advanced(d, from + n)
             /\ run'[d] = new /\ d = c => Begun(c, n)
  <2>1. run[d] \in [got : Nat, since : Nat, others : SUBSET Flows]
    BY DEF KeepInv, RunType
  <2>2. ASSUME run'[d] = [run[d] EXCEPT !.others = @ \cup {c[1]}] PROVE Beside(d, c[1])
    BY <2>1, <2>2 DEF Beside
  <2>3. ASSUME run'[d] = [run[d] EXCEPT !.got = from + n] PROVE Advanced(d, from + n)
    BY <2>1, <2>3 DEF Advanced
  <2> QED
    BY <2>2, <2>3 DEF Begun
<1> HIDE DEF new
<1>6. ASSUME NEW d \in Conns, d[1] # c[1]
      PROVE  \/ run'[d] = NoRun
             \/ Part(d) /\ claimed /\ Beside(d, c[1])
             \/ run'[d] = run[d] /\ ~(claimed /\ Part(d))
  <2>1. CASE claimed /\ Part(d)
    BY <1>2, <1>5, <1>6, <2>1 DEF Part
  <2>2. CASE ~(claimed /\ Part(d))
    BY <1>2, <1>6, <2>2 DEF Part
  <2> QED
    BY <2>1, <2>2
<1>7. ASSUME NEW d \in Conns, d = c
      PROVE  /\ from = 0 => Begun(c, n)
             /\ ~Starts(c, from) /\ Continued(c, from, n) => Advanced(d, from + n)
  BY <1>2, <1>5, <1>7 DEF Continued
<1>8. ASSUME NEW d \in Conns, d[1] = c[1]
      PROVE  /\ Starts(c, from) /\ ~(d = c /\ from = 0) => run'[d] = NoRun
             /\ ~Starts(c, from) /\ ~(d = c /\ Continued(c, from, n)) =>
                  run'[d] = NoRun \/ run'[d] = run[d]
  BY <1>2, <1>8 DEF Continued
<1> QED
  BY <1>4, <1>6, <1>7, <1>8

-----------------------------------------------------------------------------
(* The steps.                                                                *)

\* What another flow's packet does to a hello that is due afterwards.
LEMMA OthersDue ==
  ASSUME KeepInv, NEW f \in Flows, NEW claimed \in BOOLEAN, Moved(f, claimed), RunType',
         clock' = clock + 1, NEW d \in Conns, d[1] # f, Due(d)',
         \/ Part(d) /\ claimed /\ Beside(d, f)
         \/ run'[d] = run[d] /\ ~(claimed /\ Part(d))
  PROVE  \E i \in SlotIds : Awaits(i, d)'
<1>1. /\ run[d] \in [got : Nat, since : Nat, others : SUBSET Flows]
      /\ IsFiniteSet(run'[d].others) /\ clock \in Nat /\ TTL \in Nat /\ Slots \in Nat
      /\ IsFiniteSet(run[d].others)
  BY StashAssumption DEF KeepInv, RunType, StashInv, TableType
<1>2. /\ run'[d].got = run[d].got /\ run'[d].since = run[d].since
      /\ run'[d].others = IF claimed THEN run[d].others \cup {f} ELSE run[d].others
  <2>1. run'[d].got \in 1 .. Length[d] - 1
    BY DEF Due
  <2>2. CASE run'[d] = run[d] /\ ~(claimed /\ Part(d))
    BY <2>1, <2>2 DEF Part
  <2>3. CASE claimed /\ Beside(d, f)
    BY <2>3 DEF Beside
  <2> QED
    BY <2>2, <2>3
<1>3. Cardinality(run[d].others) <= Cardinality(run'[d].others)
  BY <1>1, <1>2, FS_Subset
<1>4. Cardinality(run[d].others) \in Nat /\ Cardinality(run'[d].others) \in Nat
  BY <1>1, FS_CardinalityType
<1>5. /\ run'[d].got \in 1 .. Length[d] - 1 /\ Length[d] <= RecordMax
      /\ clock' - run'[d].since <= TTL /\ Cardinality(run'[d].others) < Slots
  BY DEF Due
<1>6. clock - run[d].since <= TTL
  <2>1. run[d].since \in Nat /\ clock' - run[d].since <= TTL
    BY <1>1, <1>2, <1>5
  <2> QED
    BY <1>1, <2>1
<1>7. Cardinality(run[d].others) < Slots
  BY <1>1, <1>3, <1>4, <1>5
<1>8. Due(d)
  BY <1>2, <1>5, <1>6, <1>7 DEF Due
<1>9. PICK i \in SlotIds : Awaits(i, d)
  BY <1>8 DEF KeepInv, DueIsAwaited
<1>10. Awaits(i, d)'
  <2>1. f # d[1]
    OBVIOUS
  <2> QED
    BY <1>1, <1>2, <1>5, <1>6, <1>9, <2>1, OtherKeeps
<1> QED
  BY <1>10

\* A hello that was due is awaited as before, when the clock goes on.
LEMMA SameDue ==
  ASSUME KeepInv, NEW d \in Conns, run'[d] = run[d], Due(d)', clock' \in Nat, clock <= clock'
  PROVE  /\ clock - run[d].since <= TTL
         /\ \E i \in SlotIds : Awaits(i, d)
<1>1. clock \in Nat /\ run[d].since \in Nat /\ TTL \in Nat
  BY StashAssumption DEF KeepInv, RunType, StashInv, TableType
<1>2. /\ run[d].got \in 1 .. Length[d] - 1 /\ Length[d] <= RecordMax
      /\ clock' - run[d].since <= TTL /\ Cardinality(run[d].others) < Slots
  BY DEF Due
<1>3. clock - run[d].since <= TTL
  BY <1>1, <1>2
<1>4. Due(d)
  BY <1>2, <1>3 DEF Due
<1> QED
  BY <1>3, <1>4 DEF KeepInv, DueIsAwaited

\* A segment of d's own flow.
LEMMA FirstPartDue ==
  ASSUME KeepInv, NEW c \in Conns, NEW n \in Nat \ {0}, FirstPart(c, n), Due(c)',
         Begun(c, n)
  PROVE  \E i \in SlotIds : Awaits(i, c)'
<1>1. n < Length[c] /\ BeginRecord(c, 0, n, Length[c]) /\ Length[c] <= RecordMax
  BY DEF FirstPart, Due
<1>2. PICK k \in SlotIds :
        /\ Taken(k, c[1]) /\ ~stashes'[k].deferred /\ stashes'[k].needed = Length[c]
        /\ stashes'[k].buf = Pieces(c, 0, n) /\ stashes'[k].next = Piece(c, 0 + n)
        /\ \A j \in SlotIds \ {k} : stashes'[j] = stashes[j] \/ ~stashes'[j].used
  BY <1>1, LengthFacts, BeginRecordMoves
<1>3. run'[c].got = n /\ run'[c].since = clock /\ 0 + n = n
  BY <1>1 DEF Begun
<1>4. HoldsFirst(stashes[k], c, run[c].got, run[c].since)'
  BY <1>2, <1>3 DEF HoldsFirst, Taken
<1>5. ASSUME NEW j \in SlotIds \ {k}, stashes'[j].used, run'[c].since <= stashes'[j].born
      PROVE  FALSE
  <2>1. stashes'[j] = stashes[j] /\ clock \in Nat /\ stashes[j].born \in Nat
    BY <1>2, <1>5 DEF KeepInv, StashInv, TableType, Slot
  <2>2. stashes[j].born < clock
    BY <1>5, <2>1 DEF KeepInv, Aged
  <2> QED
    BY <1>3, <1>5, <2>1, <2>2
<1> QED
  BY <1>4, <1>5 DEF Awaits

LEMMA LaterPartDue ==
  ASSUME KeepInv, NEW c \in Conns, NEW from \in Nat, NEW n \in Nat \ {0}, LaterPart(c, from, n),
         clock' = clock + 1, NEW d \in Conns, d[1] = c[1], Due(d)'
  PROVE  \E i \in SlotIds : Awaits(i, d)'
<1>0. ~Starts(c, from) /\ Track(c, from, n, FALSE) /\ clock \in Nat
  BY DEF LaterPart, KeepInv, StashInv, TableType
<1>a. /\ d = c /\ Continued(c, from, n) => Advanced(d, from + n)
      /\ ~(d = c /\ Continued(c, from, n)) => run'[d] = NoRun \/ run'[d] = run[d]
  <2>1. PICK claimed \in BOOLEAN : Track(c, from, n, claimed)
    BY <1>0
  <2> QED
    BY <1>0, <2>1, TrackFacts
<1>1. CASE ~(d = c /\ Continued(c, from, n))
  <2>1. run'[d] = run[d] \/ run'[d] = NoRun
    BY <1>1, <1>a
  <2>2. run'[d] # NoRun
    BY DEF Due, NoRun
  <2>3. clock' \in Nat /\ clock <= clock'
    BY <1>0
  <2>4. PICK i \in SlotIds : Awaits(i, d)
    BY <2>1, <2>2, <2>3, SameDue
  <2>5. clock - run[d].since <= TTL
    BY <2>1, <2>2, <2>3, SameDue
  <2>6. /\ stashes'[i] = stashes[i]
        /\ \A j \in SlotIds \ {i} : stashes'[j] = stashes[j] \/ ~stashes'[j].used
    BY <1>1, <2>4, <2>5, LaterPartLeaves
  <2>7. Awaits(i, d)'
    BY <2>1, <2>2, <2>4, <2>6, SameKeeps
  <2> QED
    BY <2>7
<1>2. CASE d = c /\ Continued(c, from, n)
  <2>1. Advanced(c, from + n)
    BY <1>2, <1>a
  <2>2. /\ run[c] \in [got : Nat, since : Nat, others : SUBSET Flows]
        /\ TTL \in Nat /\ Length[c] \in Nat
    BY StashAssumption, LengthFacts DEF KeepInv, RunType
  <2>3. run'[c].got = from + n /\ run'[c].since = run[c].since /\ run'[c].others = run[c].others
    BY <2>1 DEF Advanced
  <2>4. /\ from + n \in 1 .. Length[c] - 1 /\ Length[c] <= RecordMax
        /\ clock' - run[c].since <= TTL /\ Cardinality(run[c].others) < Slots
    BY <1>2, <2>3 DEF Due
  <2>5. clock - run[c].since <= TTL /\ from + n < Length[c] /\ from < Length[c]
    BY <1>0, <2>2, <2>4
  <2>6. from # 0
    BY <1>0 DEF Starts
  <2>7. run[c].got \in 1 .. Length[c] - 1
    BY <1>2, <2>2, <2>5, <2>6 DEF Continued
  <2>8. Due(c)
    BY <2>4, <2>5, <2>7 DEF Due
  <2>9. PICK i \in SlotIds : Awaits(i, c)
    BY <2>8 DEF KeepInv, DueIsAwaited
  <2>10. /\ HoldsFirst(stashes'[i], c, from + n, run[c].since)
         /\ \A j \in SlotIds \ {i} : stashes'[j] = stashes[j] \/ ~stashes'[j].used
    BY <1>2, <2>5, <2>9, LaterPartContinues
  <2>11. ASSUME NEW j \in SlotIds \ {i}, stashes'[j].used, run'[c].since <= stashes'[j].born
         PROVE  stashes'[j].flow \in run'[c].others
    <3>1. stashes'[j] = stashes[j]
      BY <2>10, <2>11
    <3> QED
      BY <2>3, <2>9, <2>11, <3>1 DEF Awaits
  <2>12. HoldsFirst(stashes[i], c, run[c].got, run[c].since)'
    BY <2>3, <2>10 DEF HoldsFirst
  <2>13. Awaits(i, c)'
    BY <2>11, <2>12 DEF Awaits
  <2> QED
    BY <1>2, <2>13
<1> QED
  BY <1>1, <1>2

\* The parameters of a segment.
LEMMA SegmentCases ==
  ASSUME NEW c \in Conns, Segment(c)
  PROVE  \E from \in Nat, n \in Nat \ {0} :
           \/ from = 0 /\ WholeHello(c, n)
           \/ from = 0 /\ FirstPart(c, n)
           \/ LookalikePart(c, from, n)
           \/ LaterPart(c, from, n)
<1>1. Length[c] \in Nat
  BY LengthFacts
<1>2. \A from \in 0 .. Length[c], n \in 1 .. Length[c] + 1 : from \in Nat /\ n \in Nat \ {0}
  BY <1>1
<1> QED
  BY <1>2 DEF Segment

LEMMA LookalikeMoves ==
  ASSUME KeepInv, NEW c \in Conns, NEW from \in Nat, NEW n \in Nat \ {0}, LookalikePart(c, from, n)
  PROVE  /\ from # 0 /\ Starts(c, from)
         /\ \E claimed \in BOOLEAN : Tracked(c, from, n, claimed)
<1>1. from # 0 /\ Starts(c, from)
  BY StashAssumption DEF LookalikePart, Starts, Piece
<1>2. CASE stashes' = ch_clear_stash(c[1]) /\ Track(c, from, n, FALSE)
  <2>1. TableType /\ FALSE \in BOOLEAN
    BY DEF KeepInv, StashInv
  <2>2. Moved(c[1], FALSE)
    BY <1>2, <2>1, SweptMoves
  <2> QED
    BY <1>1, <1>2, <2>2 DEF Tracked
<1>3. ASSUME NEW needed \in n + 1 .. RecordMax + 1, BeginRecord(c, from, n, needed)
      PROVE  \E claimed \in BOOLEAN : Tracked(c, from, n, claimed)
  <2>1. needed \in Nat
    BY StashAssumption
  <2> QED
    BY <1>3, <2>1, BeginRecordMoves
<1> QED
  BY <1>1, <1>2, <1>3 DEF LookalikePart

\* What every segment does.
LEMMA SegmentMoves ==
  ASSUME KeepInv, NEW c \in Conns, Segment(c)
  PROVE  \E from \in Nat, n \in Nat \ {0}, claimed \in BOOLEAN :
           /\ Tracked(c, from, n, claimed)
           /\ \/ from = 0 /\ WholeHello(c, n)
              \/ from = 0 /\ FirstPart(c, n)
              \/ from # 0 /\ Starts(c, from)
              \/ LaterPart(c, from, n)
<1>1. PICK from \in Nat, n \in Nat \ {0} :
        \/ from = 0 /\ WholeHello(c, n)
        \/ from = 0 /\ FirstPart(c, n)
        \/ LookalikePart(c, from, n)
        \/ LaterPart(c, from, n)
  BY SegmentCases
<1>2. CASE from = 0 /\ WholeHello(c, n)
  <2>1. \E claimed \in BOOLEAN : Tracked(c, 0, n, claimed)
    BY <1>2, WholeHelloMoves
  <2> QED
    BY <1>2, <2>1
<1>3. CASE from = 0 /\ FirstPart(c, n)
  <2>1. \E claimed \in BOOLEAN : Tracked(c, 0, n, claimed)
    BY <1>3, LengthFacts, BeginRecordMoves DEF FirstPart
  <2> QED
    BY <1>3, <2>1
<1>4. CASE LookalikePart(c, from, n)
  BY <1>4, LookalikeMoves
<1>5. CASE LaterPart(c, from, n)
  BY <1>5, LaterPartMoves
<1> QED
  BY <1>1, <1>2, <1>3, <1>4, <1>5

LEMMA SegmentDue ==
  ASSUME KeepInv, NEW c \in Conns, Segment(c)
  PROVE  FlowsApart' /\ Aged' /\ RunType' /\ DueIsAwaited'
<1>1. PICK from \in Nat, n \in Nat \ {0}, claimed \in BOOLEAN :
        /\ Tracked(c, from, n, claimed)
        /\ \/ from = 0 /\ WholeHello(c, n)
           \/ from = 0 /\ FirstPart(c, n)
           \/ from # 0 /\ Starts(c, from)
           \/ LaterPart(c, from, n)
  BY SegmentMoves
<1>2. clock' = clock + 1 /\ TableType /\ c[1] \in Flows
  BY LengthFacts DEF Segment, KeepInv, StashInv
<1>3. FlowsApart' /\ Aged'
  BY <1>1, <1>2, ApartStep DEF Tracked, KeepInv
<1>4. RunType'
  BY <1>1, TrackFacts DEF Tracked
<1>5. ASSUME NEW d \in Conns, Due(d)' PROVE \E i \in SlotIds : Awaits(i, d)'
  <2>0. run'[d] # NoRun
    BY <1>5 DEF Due, NoRun
  <2>1. CASE d[1] # c[1]
    <3>1. \/ Part(d) /\ claimed /\ Beside(d, c[1])
          \/ run'[d] = run[d] /\ ~(claimed /\ Part(d))
      BY <1>1, <2>0, <2>1, TrackFacts DEF Tracked
    <3> QED
      BY <1>1, <1>2, <1>4, <1>5, <2>1, <3>1, OthersDue DEF Tracked
  <2>2. CASE d[1] = c[1] /\ LaterPart(c, from, n)
    BY <1>2, <1>5, <2>2, LaterPartDue
  <2>3. CASE d[1] = c[1] /\ ~LaterPart(c, from, n)
    <3>1. Starts(c, from)
      BY <1>1, <2>3 DEF Starts
    <3>2. d = c /\ from = 0
      BY <1>1, <2>0, <2>3, <3>1, TrackFacts DEF Tracked
    <3>3. Begun(c, n)
      BY <1>1, <3>2, TrackFacts DEF Tracked
    <3>4. ~WholeHello(c, n)
      <4>1. Length[c] \in Nat /\ run'[c].got \in 1 .. Length[c] - 1
        BY <1>5, <3>2, LengthFacts DEF Due
      <4>2. n < Length[c]
        BY <3>3, <4>1 DEF Begun
      <4>3. WholeHello(c, n) => n >= Length[c]
        BY DEF WholeHello
      <4> QED
        BY <4>1, <4>2, <4>3
    <3>5. FirstPart(c, n)
      BY <1>1, <2>3, <3>2, <3>4
    <3> QED
      BY <1>5, <3>2, <3>3, <3>5, FirstPartDue
  <2> QED
    BY <2>1, <2>2, <2>3
<1>6. DueIsAwaited'
  BY <1>5 DEF DueIsAwaited
<1> QED
  BY <1>3, <1>4, <1>6

LEMMA ServerHelloDue ==
  ASSUME KeepInv, NEW c \in Conns, ServerHello(c)
  PROVE  FlowsApart' /\ Aged' /\ RunType' /\ DueIsAwaited'
<1>0. clock' = clock + 1 /\ run' = run
  BY DEF ServerHello
<1>1. /\ TableType /\ c[1] \in Flows /\ Moved(c[1], FALSE)
      /\ clock' \in Nat /\ clock <= clock'
  <2>1. TableType /\ clock \in Nat
    BY DEF KeepInv, StashInv, TableType
  <2>2. Moved(c[1], FALSE)
    BY ServerHelloMoves
  <2>3. clock' \in Nat /\ clock <= clock'
    BY <1>0, <2>1
  <2> QED
    BY <2>1, <2>2, <2>3, LengthFacts
<1>2. FlowsApart' /\ Aged'
  BY <1>0, <1>1, ApartStep DEF KeepInv
<1>3. RunType'
  BY <1>0 DEF KeepInv, RunType
<1>4. ASSUME NEW d \in Conns, Due(d)' PROVE \E i \in SlotIds : Awaits(i, d)'
  <2>1. CASE d[1] # c[1]
    BY <1>0, <1>1, <1>3, <1>4, <2>1, OthersDue
  <2>2. CASE d[1] = c[1]
    <3>1. clock - run[d].since <= TTL /\ \E i \in SlotIds : Awaits(i, d)
      BY <1>0, <1>1, <1>4, SameDue
    <3>2. PICK i \in SlotIds : Awaits(i, d)
      BY <3>1
    <3>3. /\ stashes'[i] = stashes[i]
          /\ \A j \in SlotIds \ {i} : stashes'[j] = stashes[j] \/ ~stashes'[j].used
      BY <2>2, <3>1, <3>2, ServerHelloMoves
    <3>4. Awaits(i, d)'
      BY <1>0, <3>2, <3>3, SameKeeps
    <3> QED
      BY <3>4
  <2> QED
    BY <2>1, <2>2
<1> QED
  BY <1>2, <1>3, <1>4 DEF DueIsAwaited

LEMMA QuietDue ==
  ASSUME KeepInv, UNCHANGED <<stashes, run>>, clock' \in Nat, clock <= clock'
  PROVE  FlowsApart' /\ Aged' /\ RunType' /\ DueIsAwaited'
<1>1. FlowsApart' /\ RunType'
  BY DEF KeepInv, FlowsApart, RunType
<1>2. Aged'
  <2> SUFFICES ASSUME NEW j \in SlotIds, stashes[j].used PROVE stashes[j].born < clock'
    BY DEF Aged
  <2>1. stashes[j].born \in Nat /\ clock \in Nat /\ stashes[j].born < clock
    BY DEF KeepInv, StashInv, TableType, Slot, Aged
  <2> QED
    BY <2>1
<1>3. ASSUME NEW d \in Conns, Due(d)' PROVE \E i \in SlotIds : Awaits(i, d)'
  <2>1. PICK i \in SlotIds : Awaits(i, d)
    BY <1>3, SameDue
  <2>2. Awaits(i, d)'
    BY <2>1, SameKeeps
  <2> QED
    BY <2>2
<1> QED
  BY <1>1, <1>2, <1>3 DEF DueIsAwaited

LEMMA KeepStep ==
  ASSUME KeepInv, [Next]_vars
  PROVE  KeepInv'
<1>1. StashInv'
  BY StashStep DEF KeepInv
<1>2. CASE \E c \in Conns : Segment(c) \/ ServerHello(c)
  BY <1>1, <1>2, SegmentDue, ServerHelloDue DEF KeepInv
<1>3. CASE UNCHANGED <<stashes, run>> /\ (clock' = clock \/ clock' = clock + TTL)
  <2>1. clock' \in Nat /\ clock <= clock'
    BY <1>3, StashAssumption DEF KeepInv, StashInv, TableType
  <2> QED
    BY <1>1, <1>3, <2>1, QuietDue DEF KeepInv
<1> QED
  BY <1>2, <1>3 DEF Next, Connect, Establish, CloseSocket, Quiet, vars

LEMMA KeepInit == Init => KeepInv
<1> SUFFICES ASSUME Init PROVE KeepInv
  OBVIOUS
<1>1. StashInv
  BY NoSlotFacts DEF Init, StashInv, TableType, SlotsWellFormed, ObservedIsHello
<1>2. FlowsApart /\ Aged
  BY NoSlotFacts DEF Init, FlowsApart, Aged
<1>3. RunType
  BY FS_EmptySet DEF Init, RunType, NoRun
<1>4. DueIsAwaited
  BY DEF Init, DueIsAwaited, Due, NoRun
<1> QED
  BY <1>1, <1>2, <1>3, <1>4 DEF KeepInv

\* The slot of each ClientHello of which a part came in time, while there are slots enough, is
\* not given away: the observer keeps what it has of it, and waits for the next piece.
THEOREM KeepInvariance == Spec => []KeepInv
  BY KeepInit, KeepStep, PTL DEF Spec

-----------------------------------------------------------------------------
(* A hello is complete by the segment that brings the last of it.            *)

KeptStep(c) ==
  /\ run'[c].got = Length[c] /\ Length[c] <= RecordMax
  /\ run[c].got # Length[c] \/ run[c].since # run'[c].since
  /\ clock - run'[c].since <= TTL
  /\ Cardinality(run'[c].others) < Slots
  => Told(c)' \/ Waits(c)'

LEMMA SegmentKept ==
  ASSUME KeepInv, NEW c \in Conns, Segment(c), NEW d \in Conns,
         run'[d].got = Length[d], Length[d] <= RecordMax,
         run[d].got # Length[d] \/ run[d].since # run'[d].since,
         clock - run'[d].since <= TTL, Cardinality(run'[d].others) < Slots
  PROVE  Told(d)' \/ Waits(d)'
<1>1. PICK from \in Nat, n \in Nat \ {0}, claimed \in BOOLEAN :
        /\ Tracked(c, from, n, claimed)
        /\ \/ from = 0 /\ WholeHello(c, n)
           \/ from = 0 /\ FirstPart(c, n)
           \/ from # 0 /\ Starts(c, from)
           \/ LaterPart(c, from, n)
  BY SegmentMoves
<1>2. /\ Length[d] \in Nat /\ Length[d] > 0 /\ Length[c] \in Nat
      /\ run[d] \in [got : Nat, since : Nat, others : SUBSET Flows]
  BY LengthFacts DEF KeepInv, RunType
<1>3. run'[d] # NoRun /\ run'[d] # run[d]
  BY <1>2 DEF NoRun
<1>4. d[1] = c[1]
  <2> SUFFICES ASSUME d[1] # c[1] PROVE FALSE
    OBVIOUS
  <2>1. Part(d) /\ Beside(d, c[1])
    BY <1>1, <1>3, TrackFacts DEF Tracked
  <2> QED
    BY <1>2, <2>1 DEF Part, Beside
<1>5. CASE from = 0
  <2>1. d = c /\ Starts(c, from)
    BY <1>1, <1>3, <1>4, <1>5, TrackFacts DEF Tracked, Starts
  <2>2. Begun(c, n)
    BY <1>1, <1>5, TrackFacts DEF Tracked
  <2>3. ~(n < Length[c])
    BY <1>2, <2>1, <2>2 DEF Begun
  <2>4. WholeHello(c, n)
    BY <1>1, <1>5, <2>1, <2>3 DEF FirstPart, LaterPart
  <2> QED
    BY <2>1, <2>4, WholeHelloMoves
<1>6. CASE from # 0
  <2>1. ~Starts(c, from) /\ LaterPart(c, from, n)
    BY <1>1, <1>3, <1>4, <1>6, TrackFacts DEF Tracked
  <2>2. d = c /\ Continued(c, from, n)
    BY <1>1, <1>3, <1>4, <2>1, TrackFacts DEF Tracked
  <2>3. Advanced(c, from + n)
    BY <1>1, <2>1, <2>2, TrackFacts DEF Tracked
  <2>4. /\ run'[c].got = from + n /\ run'[c].since = run[c].since
        /\ run'[c].others = run[c].others
    BY <2>3 DEF Advanced
  <2>5. from + n = Length[c] /\ run[c].got \in 1 .. Length[c] - 1
    BY <1>2, <1>6, <2>2, <2>4 DEF Continued
  <2>6. Due(c) /\ clock - run[c].since <= TTL
    BY <2>2, <2>4, <2>5 DEF Due
  <2>7. PICK i \in SlotIds : Awaits(i, c)
    BY <2>6 DEF KeepInv, DueIsAwaited
  <2> QED
    BY <2>1, <2>2, <2>5, <2>6, <2>7, LaterPartContinues
<1> QED
  BY <1>5, <1>6

\* A ClientHello that came whole, in order and in time, is told or waits for its socket, however
\* many flows there are, unless as many of them as there are slots took one meanwhile.
THEOREM HelloKept == Spec => HelloIsKept
<1>1. KeepInv /\ [Next]_vars => [\A c \in Conns : KeptStep(c)]_vars
  <2> SUFFICES ASSUME KeepInv, [Next]_vars, NEW c \in Conns PROVE KeptStep(c) \/ UNCHANGED vars
    OBVIOUS
  <2>1. CASE \E b \in Conns : Segment(b)
    BY <2>1, SegmentKept DEF KeptStep
  <2>2. CASE UNCHANGED run
    BY <2>2 DEF KeptStep
  <2> QED
    BY <2>1, <2>2 DEF Next, ServerHello, Connect, Establish, CloseSocket, Quiet, vars
<1>2. [\A c \in Conns : KeptStep(c)]_vars <=>
        [\A c \in Conns :
           /\ run'[c].got = Length[c] /\ Length[c] <= RecordMax
           /\ run[c].got # Length[c] \/ run[c].since # run'[c].since
           /\ clock - run'[c].since <= TTL
           /\ Cardinality(run'[c].others) < Slots
           => Told(c)' \/ Waits(c)']_vars
  BY DEF KeptStep
<1> QED
  BY <1>1, <1>2, KeepInvariance, PTL DEF Spec, HelloIsKept
=============================================================================
