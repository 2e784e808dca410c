----------------------- MODULE ReportServerInv_proofs -----------------------
(***************************************************************************)
(* ServerInv is an invariant of ReportServer, for every value of its       *)
(* constants, and what follows from it.                                    *)
(***************************************************************************)
EXTENDS ReportServerInv, SequenceTheorems, FiniteSetTheorems, TLAPS

-----------------------------------------------------------------------------
(* Type correctness.                                                         *)

\* TypeOK is inductive with two facts about the environment: an established socket has
\* a cookie, and the packets under way and those dispatched are within the bound.
TypeInv ==
  /\ TypeOK
  /\ \A f \in Flows : sock[f].est => sock[f].id \in Conns
  /\ Captured <= MaxPackets

LEMMA EntryType ==
  ASSUME TypeOK, NEW s \in Slots
  PROVE  /\ cache[s] \in Entry \cup {NoEntry}
         /\ cache[s].used \in BOOLEAN
         /\ cache[s].used => cache[s] \in Entry
         /\ ~cache[s].used => cache[s] = NoEntry
<1>1. cache[s] \in Entry \cup {NoEntry}
  BY DEF TypeOK
<1>2. NoEntry.used = FALSE
  BY DEF NoEntry, NewEntry
<1> QED
  BY <1>1, <1>2 DEF Entry

LEMMA NewEntryType ==
  ASSUME NEW f \in Flows, NEW cookie \in Conns
  PROVE  NewEntry(f, cookie) \in Entry
BY ServerAssumption DEF NewEntry, Entry

\* What a control worker, an arriving hello or the report worker makes of an entry.
LEMMA EntryUpdates ==
  ASSUME NEW e \in Entry
  PROVE  /\ \A f \in Flows, cookie \in Conns, ch \in HelloKeys, at \in 0 .. MaxPackets :
              [e EXCEPT !.flow = f, !.cookie = cookie, !.ch = ch, !.chAt = at] \in Entry
         /\ \A sh \in Conns, at \in 0 .. MaxPackets :
              [e EXCEPT !.sh = sh, !.shAt = at] \in Entry
         /\ \A nonce \in Nonces \cup {NoNonce} : [e EXCEPT !.requested = TRUE, !.nonce = nonce] \in Entry
         /\ [e EXCEPT !.delivered = TRUE] \in Entry
         /\ [e EXCEPT !.done = TRUE] \in Entry
         /\ \A b \in Binding : [e EXCEPT !.report = b, !.done = TRUE] \in Entry
         /\ \A b \in Binding, done \in BOOLEAN :
              [e EXCEPT !.att = b, !.started = TRUE, !.done = done] \in Entry
<1>1. \A f \in Flows, cookie \in Conns, ch \in HelloKeys, at \in 0 .. MaxPackets :
        [e EXCEPT !.flow = f, !.cookie = cookie, !.ch = ch, !.chAt = at] \in Entry
  BY DEF Entry
<1>2. \A sh \in Conns, at \in 0 .. MaxPackets : [e EXCEPT !.sh = sh, !.shAt = at] \in Entry
  BY DEF Entry
<1>3. \A nonce \in Nonces \cup {NoNonce} : [e EXCEPT !.requested = TRUE, !.nonce = nonce] \in Entry
  BY DEF Entry
<1>4. [e EXCEPT !.delivered = TRUE] \in Entry /\ [e EXCEPT !.done = TRUE] \in Entry
  BY DEF Entry
<1>5. \A b \in Binding : [e EXCEPT !.report = b, !.done = TRUE] \in Entry
  BY DEF Entry
<1>6. \A b \in Binding, done \in BOOLEAN :
        [e EXCEPT !.att = b, !.started = TRUE, !.done = done] \in Entry
  BY DEF Entry
<1> QED
  BY <1>1, <1>2, <1>3, <1>4, <1>5, <1>6

LEMMA ScheduledType ==
  ASSUME NEW s \in Slots, NEW e \in Entry, jobs \in Seq(Job)
  PROVE  /\ Due(e) => BindingOf(e) \in Binding
         /\ Scheduled(e) \in Entry
         /\ JobsWith(s, e) \in Seq(Job)
<1>1. Due(e) => BindingOf(e) \in Binding
  BY ServerAssumption DEF Due, BindingOf, Binding, Entry
<1>2. Scheduled(e) \in Entry
  <2>1. ~Room = TRUE \/ ~Room = FALSE
    OBVIOUS
  <2>2. CASE Due(e)
    BY <1>1, <2>1, <2>2, EntryUpdates DEF Scheduled
  <2> QED
    BY <2>2 DEF Scheduled
<1>3. JobsWith(s, e) \in Seq(Job)
  <2>1. CASE Due(e)
    <3>1. [slot |-> s, flow |-> e.flow, att |-> BindingOf(e)] \in Job
      BY <1>1, <2>1 DEF Job, Entry
    <3> QED
      BY <3>1, AppendProperties DEF JobsWith
  <2> QED
    BY <2>1 DEF JobsWith
<1> QED
  BY <1>1, <1>2, <1>3

LEMMA LookupType ==
  ASSUME TypeOK, NEW ch
  PROVE  /\ Lookup(ch) \in Slots \cup {Nil}
         /\ Lookup(ch) # Nil => /\ Lookup(ch) \in Slots
                                /\ cache[Lookup(ch)] \in Entry
                                /\ ch \in HelloKeys
                                /\ cache[Lookup(ch)].ch = ch
                                /\ index[ch] = Lookup(ch)
<1>1. (IF ch \in HelloKeys THEN index[ch] ELSE Nil) \in Slots \cup {Nil}
  BY DEF TypeOK
<1>2. Lookup(ch) \in Slots \cup {Nil}
  BY <1>1 DEF Lookup
<1> QED
  BY <1>1, <1>2, EntryType DEF Lookup

LEMMA ObserveLookupType ==
  ASSUME TypeOK, NEW f \in Flows, NEW ch \in HelloKeys, NEW at \in 0 .. MaxPackets,
         NEW cookie \in Conns, ObserveLookup(f, ch, at, cookie)
  PROVE  /\ cache' \in [Slots -> Entry \cup {NoEntry}]
         /\ index' \in [HelloKeys -> Slots \cup {Nil}]
         /\ stats' \in Stats
<1>0. /\ cache \in [Slots -> Entry \cup {NoEntry}]
      /\ index \in [HelloKeys -> Slots \cup {Nil}]
      /\ stats \in Stats
  BY DEF TypeOK
<1>1. CASE UNCHANGED <<cache, index, stats>>
  BY <1>0, <1>1
<1>2. ASSUME NEW s \in Slots, Place(s, f, ch, at, cookie)
      PROVE  /\ cache' \in [Slots -> Entry \cup {NoEntry}]
             /\ index' \in [HelloKeys -> Slots \cup {Nil}]
             /\ stats' \in Stats
  <2> DEFINE e == IF cache[s].used THEN cache[s] ELSE NewEntry(f, cookie)
             g == [e EXCEPT !.flow = f, !.cookie = cookie, !.ch = ch, !.chAt = at]
  <2>1. e \in Entry
    BY EntryType, NewEntryType
  <2>2. g \in Entry
    BY <2>1, EntryUpdates
  <2>3. \/ /\ cache' = [cache EXCEPT ![s] = g]
           /\ index' = [index EXCEPT ![ch] = s]
           /\ stats' = [stats EXCEPT !.hellos = @ + 1]
        \/ /\ cache' = [cache EXCEPT ![s] = NoEntry]
           /\ UNCHANGED <<index, stats>>
    BY <1>2 DEF Place
  <2> HIDE DEF g, e
  <2>4. [stats EXCEPT !.hellos = @ + 1] \in Stats
    BY <1>0 DEF Stats
  <2> QED
    BY <1>0, <2>2, <2>3, <2>4
<1> QED
  BY <1>1, <1>2 DEF ObserveLookup, FreeSlots, NewestOrphans, Orphans

LEMMA ObserveReportType ==
  ASSUME TypeOK, NEW f \in Flows, NEW sh \in Conns, NEW at \in 0 .. MaxPackets,
         NEW cookie \in Conns, ObserveReport(f, sh, at, cookie)
  PROVE  /\ cache' \in [Slots -> Entry \cup {NoEntry}]
         /\ jobs' \in Seq(Job)
         /\ stats' \in Stats
<1>0. /\ cache \in [Slots -> Entry \cup {NoEntry}]
      /\ jobs \in Seq(Job)
      /\ stats \in Stats
  BY DEF TypeOK
<1>1. [stats EXCEPT !.answers = @ + 1] \in Stats
  BY <1>0 DEF Stats
<1>2. CASE UNCHANGED <<cache, jobs>> /\ stats' \in {stats, [stats EXCEPT !.answers = @ + 1]}
  BY <1>0, <1>2, <1>1
<1>3. ASSUME NEW s \in Slots, NEW e,
             e = [(IF cache[s].used THEN cache[s] ELSE NewEntry(f, cookie))
                    EXCEPT !.sh = sh, !.shAt = at],
             cache' = [cache EXCEPT ![s] = Scheduled(e)],
             jobs' = JobsWith(s, e),
             stats' \in {stats, [stats EXCEPT !.answers = @ + 1]}
      PROVE  /\ cache' \in [Slots -> Entry \cup {NoEntry}]
             /\ jobs' \in Seq(Job)
             /\ stats' \in Stats
  <2>1. (IF cache[s].used THEN cache[s] ELSE NewEntry(f, cookie)) \in Entry
    BY EntryType, NewEntryType
  <2>2. e \in Entry
    BY <1>3, <2>1, EntryUpdates
  <2>3. Scheduled(e) \in Entry /\ JobsWith(s, e) \in Seq(Job)
    BY <1>0, <2>2, ScheduledType
  <2> QED
    BY <1>0, <1>3, <1>1, <2>3
<1> QED
  BY <1>2, <1>3 DEF ObserveReport, FreeSlots, NewestPlaceholders, Placeholders

-----------------------------------------------------------------------------
(* The environment and the observer.                                         *)

LEMMA LanesType ==
  ASSUME TypeInv
  PROVE  /\ lanes \in [{"in", "out"} -> Seq(Packet)]
         /\ \A l \in {"in", "out"} : lanes[l] \in Seq(Packet) /\ Len(lanes[l]) \in Nat
         /\ \A l \in {"in", "out"} : lanes[l] # <<>> => Head(lanes[l]) \in Packet
         /\ clock \in 0 .. MaxPackets
BY LenProperties, HeadTailProperties DEF TypeInv, TypeOK

LEMMA LaneBalance ==
  ASSUME NEW a \in Nat, NEW b \in Nat, NEW n \in Nat, NEW p \in Nat,
         Captured = clock + a + b, clock \in Nat, clock' \in Nat,
         \/ p = a /\ Captured' = clock' + n + b
         \/ p = b /\ Captured' = clock' + a + n
  PROVE  /\ n = p + 1 /\ clock' = clock => Captured' = Captured + 1
         /\ n + 1 = p /\ clock' = clock + 1 => Captured' = Captured
         /\ Captured' \in Nat /\ Captured \in Nat /\ clock' <= Captured'
OBVIOUS

LEMMA LaneChange ==
  ASSUME TypeInv, NEW l \in {"in", "out"}, NEW q \in Seq(Packet),
         lanes' = [lanes EXCEPT ![l] = q], clock' \in Nat
  PROVE  /\ lanes' \in [{"in", "out"} -> Seq(Packet)]
         /\ Len(q) = Len(lanes[l]) + 1 /\ clock' = clock => Captured' = Captured + 1
         /\ Len(q) + 1 = Len(lanes[l]) /\ clock' = clock + 1 => Captured' = Captured
         /\ Captured' \in Nat /\ Captured \in Nat /\ clock' <= Captured'
<1>1. lanes' \in [{"in", "out"} -> Seq(Packet)]
  BY LanesType
<1>2. \A k \in {"in", "out"} : lanes'[k] = IF k = l THEN q ELSE lanes[k]
  BY LanesType
<1>3. /\ Len(q) \in Nat
      /\ \A k \in {"in", "out"} : Len(lanes[k]) \in Nat /\ Len(lanes'[k]) \in Nat
  BY <1>1, LanesType, LenProperties
<1>4. clock \in Nat
  BY LanesType
<1>5. /\ Captured = clock + Len(lanes["in"]) + Len(lanes["out"])
      /\ Captured' = clock' + Len(lanes'["in"]) + Len(lanes'["out"])
  BY DEF Captured
<1>6. /\ Len(lanes["in"]) \in Nat
      /\ Len(lanes["out"]) \in Nat
      /\ Len(lanes[l]) \in Nat
  BY <1>3
<1>7. \/ /\ Len(lanes[l]) = Len(lanes["in"])
         /\ Captured' = clock' + Len(q) + Len(lanes["out"])
      \/ /\ Len(lanes[l]) = Len(lanes["out"])
         /\ Captured' = clock' + Len(lanes["in"]) + Len(q)
  <2>1. CASE l = "in"
    BY <1>2, <1>5, <2>1
  <2>2. CASE l = "out"
    BY <1>2, <1>5, <2>2
  <2> QED
    BY <2>1, <2>2
<1>8. /\ Len(q) = Len(lanes[l]) + 1 /\ clock' = clock => Captured' = Captured + 1
      /\ Len(q) + 1 = Len(lanes[l]) /\ clock' = clock + 1 => Captured' = Captured
      /\ Captured' \in Nat /\ Captured \in Nat /\ clock' <= Captured'
  BY <1>3, <1>4, <1>5, <1>6, <1>7, LaneBalance
<1> QED
  BY <1>1, <1>8

LEMMA NetworkType ==
  ASSUME TypeInv, NEW f \in Flows, Network(f)
  PROVE  TypeInv'
<1> USE ServerAssumption
<1>0. UNCHANGED <<clock, seen, stash, cache, index, jobs, reporter, control, records, stats,
                  phase>>
  BY DEF Network, Connect, Establish, Close, Capture, capture
<1>1. CASE Connect(f) \/ Establish(f) \/ Close(f)
  <2>1. lanes' = lanes
    BY <1>1 DEF Connect, Establish, Close, capture
  <2>2. sock \in [Flows -> [id : Conns \cup {0}, est : BOOLEAN]] /\ sock[f].id \in Conns \cup {0}
    BY DEF TypeInv, TypeOK
  <2>3. CASE Connect(f)
    <3>1. opened + 1 \in Conns /\ opened' = opened + 1
      BY <2>3 DEF Connect, Conns, TypeInv, TypeOK
    <3>2. /\ sock' \in [Flows -> [id : Conns \cup {0}, est : BOOLEAN]]
          /\ opened' \in 0 .. MaxConn
      BY <2>2, <2>3, <3>1 DEF Connect, Conns
    <3>3. \A g \in Flows : sock'[g].est => sock'[g].id \in Conns
      BY <2>2, <2>3, <3>1 DEF Connect, TypeInv
    <3> QED
      BY <1>0, <2>1, <3>2, <3>3 DEF TypeInv, TypeOK, Captured
  <2>4. CASE Establish(f) \/ Close(f)
    <3>1. sock' \in [Flows -> [id : Conns \cup {0}, est : BOOLEAN]] /\ opened' = opened
      <4>1. CASE Establish(f)
        BY <2>2, <4>1 DEF Establish
      <4>2. CASE Close(f)
        BY <2>2, <4>2 DEF Close
      <4> QED
        BY <2>4, <4>1, <4>2
    <3>2. \A g \in Flows : sock[g].est => sock[g].id \in Conns
      BY DEF TypeInv
    <3>3. CASE Establish(f)
      <4>1. sock' = [sock EXCEPT ![f].est = TRUE] /\ sock[f].id \in Conns
        BY <2>2, <3>3 DEF Establish
      <4>2. \A g \in Flows : sock'[g].est => sock'[g].id \in Conns
        BY <2>2, <3>2, <4>1
      <4> QED
        BY <1>0, <2>1, <3>1, <4>2 DEF TypeInv, TypeOK, Captured
    <3>4. CASE Close(f)
      <4>1. \A g \in Flows : sock'[g].est => sock'[g].id \in Conns
        BY <2>2, <3>2, <3>4 DEF Close
      <4> QED
        BY <1>0, <2>1, <3>1, <4>1 DEF TypeInv, TypeOK, Captured
    <3> QED
      BY <2>4, <3>3, <3>4
  <2> QED
    BY <1>1, <2>3, <2>4
<1>2. ASSUME NEW l \in {"in", "out"}, NEW n \in 1 .. MaxHello, Capture(f, l, n)
      PROVE  TypeInv'
  <2>1. UNCHANGED <<sock, opened>>
    BY <1>2 DEF Capture, network
  <2>2. sock[f].id \in Conns
    BY <1>2 DEF Capture, TypeInv, TypeOK
  <2>3. PICK q \in Seq(Packet) : lanes' = [lanes EXCEPT ![l] = q] /\ Len(q) = Len(lanes[l]) + 1
    <3>1. [flow |-> f, conn |-> sock[f].id, n |-> n] \in Packet
      BY <2>2 DEF Packet
    <3>2. lanes[l] \in Seq(Packet)
      BY LanesType
    <3>3. \A p \in Packet : /\ Append(lanes[l], p) \in Seq(Packet)
                            /\ Len(Append(lanes[l], p)) = Len(lanes[l]) + 1
      BY <3>2, AppendProperties
    <3>4. lanes' = [lanes EXCEPT ![l] = Append(lanes[l], [flow |-> f, conn |-> sock[f].id, n |-> n])]
      BY <1>2 DEF Capture
    <3> QED
      BY <3>1, <3>3, <3>4
  <2>4. lanes' \in [{"in", "out"} -> Seq(Packet)] /\ Captured' = Captured + 1
    <3>1. clock' = clock /\ clock' \in Nat
      BY <1>0, LanesType
    <3> QED
      BY <2>3, <3>1, LaneChange
  <2>5. Captured' <= MaxPackets
    <3>1. Captured \in Nat /\ Captured < MaxPackets
      BY <1>2, LanesType DEF Capture, Captured
    <3> QED
      BY <2>4, <3>1
  <2> QED
    BY <1>0, <2>1, <2>2, <2>4, <2>5 DEF TypeInv, TypeOK
<1> QED
  BY <1>1, <1>2 DEF Network

\* A lane loses its head and the clock gains one.
LEMMA DispatchType ==
  ASSUME TypeInv, NEW l \in {"in", "out"}, Dispatch(l)
  PROVE  /\ lanes' \in [{"in", "out"} -> Seq(Packet)]
         /\ clock' = clock + 1
         /\ clock' \in 1 .. MaxPackets
         /\ Captured' <= MaxPackets
         /\ Head(lanes[l]) \in Packet
<1>1. PICK q \in Seq(Packet) : lanes' = [lanes EXCEPT ![l] = q] /\ Len(q) + 1 = Len(lanes[l])
  <2>1. lanes[l] \in Seq(Packet) /\ lanes[l] # <<>> /\ Len(lanes[l]) \in Nat
    BY LanesType DEF Dispatch
  <2>2. Tail(lanes[l]) \in Seq(Packet) /\ Len(Tail(lanes[l])) + 1 = Len(lanes[l])
    BY <2>1, HeadTailProperties
  <2>3. lanes' = [lanes EXCEPT ![l] = Tail(lanes[l])]
    BY DEF Dispatch
  <2> QED
    BY <2>2, <2>3
<1>2. clock' = clock + 1 /\ clock \in Nat /\ Captured \in Nat /\ Captured <= MaxPackets
  BY LanesType DEF Dispatch, TypeInv, Captured
<1>3. /\ lanes' \in [{"in", "out"} -> Seq(Packet)]
      /\ Captured' = Captured
      /\ clock' <= Captured'
  <2>1. clock' \in Nat
    BY <1>2
  <2> QED
    BY <1>1, <1>2, <2>1, LaneChange
<1>5. clock' \in 1 .. MaxPackets
  BY <1>2, <1>3, ServerAssumption
<1> QED
  BY <1>2, <1>3, <1>5, LanesType DEF Dispatch

LEMMA ObserverType ==
  ASSUME TypeInv, Observer
  PROVE  TypeInv'
<1> USE ServerAssumption
<1>0. UNCHANGED <<sock, opened, reporter, control, records, phase>>
  BY DEF Observer, DispatchHello, RecoverHello, DispatchServerHello, ExpireStash, network
<1>a. /\ stash \in [Flows -> Stash \cup {NoStash}]
      /\ \A f \in Flows : [stash EXCEPT ![f] = NoStash] \in [Flows -> Stash \cup {NoStash}]
      /\ cache \in [Slots -> Entry \cup {NoEntry}]
      /\ index \in [HelloKeys -> Slots \cup {Nil}]
      /\ stats \in Stats
      /\ jobs \in Seq(Job)
  BY DEF TypeInv, TypeOK
<1>b. \A f \in Flows : sock[f].est => sock[f].id \in Conns
  BY DEF TypeInv
<1>1. CASE DispatchHello
  <2> DEFINE p == Head(lanes["in"])
  <2>1. /\ lanes' \in [{"in", "out"} -> Seq(Packet)]
        /\ clock' \in 1 .. MaxPackets /\ clock' = clock + 1
        /\ Captured' <= MaxPackets
        /\ p \in Packet
    BY <1>1, DispatchType DEF DispatchHello
  <2>2. p.flow \in Flows /\ <<p.conn, p.n>> \in HelloKeys
    BY <2>1 DEF Packet, HelloKeys
  <2>3. UNCHANGED <<seen, jobs>>
    BY <1>1 DEF DispatchHello
  <2>4. /\ cache' \in [Slots -> Entry \cup {NoEntry}]
        /\ index' \in [HelloKeys -> Slots \cup {Nil}]
        /\ stats' \in Stats
        /\ stash' \in [Flows -> Stash \cup {NoStash}]
    <3>1. CASE /\ sock[p.flow].est
               /\ ObserveLookup(p.flow, <<p.conn, p.n>>, clock + 1, sock[p.flow].id)
               /\ stash' = [stash EXCEPT ![p.flow] = NoStash]
      BY <1>a, <1>b, <2>1, <2>2, <3>1, ObserveLookupType DEF TypeInv
    <3>2. CASE /\ stash' = [stash EXCEPT ![p.flow] = [ch |-> <<p.conn, p.n>>, at |-> clock + 1]]
               /\ UNCHANGED <<cache, index, stats>>
      BY <1>a, <2>1, <2>2, <3>2 DEF Stash
    <3> QED
      BY <1>1, <3>1, <3>2 DEF DispatchHello
  <2> QED
    BY <1>0, <2>1, <2>3, <2>4 DEF TypeInv, TypeOK
<1>2. CASE RecoverHello
  <2> DEFINE p == Head(lanes["out"])
  <2>1. p \in Packet
    BY <1>2, LanesType DEF RecoverHello
  <2>2. p.flow \in Flows /\ <<p.conn, p.n>> \in HelloKeys
    BY <2>1 DEF Packet, HelloKeys
  <2>3. UNCHANGED <<lanes, clock, jobs>> /\ seen' = sock[p.flow].id /\ seen' \in Conns
        /\ stash' = [stash EXCEPT ![p.flow] = NoStash]
    BY <1>2, <1>b, <2>2 DEF RecoverHello
  <2>4. stash[p.flow].ch \in HelloKeys /\ stash[p.flow].at \in 0 .. MaxPackets
    <3>1. stash[p.flow] # NoStash
      BY <1>2 DEF RecoverHello
    <3>2. stash[p.flow] \in Stash
      BY <1>a, <2>2, <3>1
    <3> HIDE DEF p
    <3> QED
      BY <3>2 DEF Stash
  <2>5. /\ cache' \in [Slots -> Entry \cup {NoEntry}]
        /\ index' \in [HelloKeys -> Slots \cup {Nil}]
        /\ stats' \in Stats
    <3>1. CASE ObserveLookup(p.flow, stash[p.flow].ch, stash[p.flow].at, sock[p.flow].id)
      BY <2>2, <2>3, <2>4, <3>1, ObserveLookupType DEF TypeInv
    <3>2. CASE UNCHANGED <<cache, index, stats>>
      BY <1>a, <3>2
    <3> QED
      BY <1>2, <3>1, <3>2 DEF RecoverHello
  <2> QED
    BY <1>0, <1>a, <2>2, <2>3, <2>5 DEF TypeInv, TypeOK, Captured
<1>3. CASE DispatchServerHello
  <2> DEFINE p == Head(lanes["out"])
  <2>1. /\ lanes' \in [{"in", "out"} -> Seq(Packet)]
        /\ clock' \in 1 .. MaxPackets /\ clock' = clock + 1
        /\ Captured' <= MaxPackets
        /\ p \in Packet
    BY <1>3, DispatchType DEF DispatchServerHello
  <2>2. p.flow \in Flows /\ p.conn \in Conns /\ seen \in Conns \cup {0}
    BY <2>1 DEF Packet, TypeInv, TypeOK
  <2>3. UNCHANGED <<stash, index>> /\ seen' = 0
    BY <1>3 DEF DispatchServerHello
  <2>4. /\ cache' \in [Slots -> Entry \cup {NoEntry}]
        /\ jobs' \in Seq(Job)
        /\ stats' \in Stats
    <3>1. CASE UNCHANGED <<cache, jobs, stats>>
      BY <1>a, <3>1
    <3>2. ASSUME NEW cookie \in Conns, ObserveReport(p.flow, p.conn, clock + 1, cookie)
          PROVE  /\ cache' \in [Slots -> Entry \cup {NoEntry}]
                 /\ jobs' \in Seq(Job)
                 /\ stats' \in Stats
      BY <2>1, <2>2, <3>2, ObserveReportType DEF TypeInv
    <3> QED
      BY <1>3, <1>b, <2>2, <3>1, <3>2 DEF DispatchServerHello
  <2> QED
    BY <1>0, <1>a, <2>1, <2>3, <2>4 DEF TypeInv, TypeOK
<1>4. ASSUME NEW f \in Flows, ExpireStash(f)
      PROVE  TypeInv'
  BY <1>0, <1>4, <1>a DEF ExpireStash, TypeInv, TypeOK, Captured
<1> QED
  BY <1>1, <1>2, <1>3, <1>4 DEF Observer

-----------------------------------------------------------------------------
(* The threads of the server.                                                *)

\* Their steps leave the environment and the observer alone.
LEMMA ServerType ==
  ASSUME TypeInv, UNCHANGED <<network, capture>>,
         cache' \in [Slots -> Entry \cup {NoEntry}],
         index' \in [HelloKeys -> Slots \cup {Nil}],
         jobs' \in Seq(Job),
         reporter' \in Job \cup {Idle},
         control' \in [Controls -> Control],
         records' \in Seq(Record),
         stats' \in Stats,
         phase' \in {"run", "stopping", "draining", "exit"}
  PROVE  TypeInv'
<1>1. UNCHANGED <<sock, opened, lanes, clock, seen, stash>>
  BY DEF network, capture
<1> QED
  BY <1>1 DEF TypeInv, TypeOK, Captured

LEMMA ReporterType ==
  ASSUME TypeInv, Reporter
  PROVE  TypeInv'
<1>0. /\ cache \in [Slots -> Entry \cup {NoEntry}]
      /\ index \in [HelloKeys -> Slots \cup {Nil}]
      /\ jobs \in Seq(Job)
      /\ reporter \in Job \cup {Idle}
      /\ control \in [Controls -> Control]
      /\ records \in Seq(Record)
      /\ stats \in Stats
      /\ phase \in {"run", "stopping", "draining", "exit"}
  BY DEF TypeInv, TypeOK
<1>1. UNCHANGED <<network, capture, index, control, records, phase>>
  BY DEF Reporter, TakeReport, FinishReport
<1>2. CASE TakeReport
  <2>1. Head(jobs) \in Job /\ Tail(jobs) \in Seq(Job)
    BY <1>0, <1>2, HeadTailProperties DEF TakeReport
  <2>2. /\ reporter' \in Job
        /\ jobs' \in Seq(Job)
        /\ UNCHANGED <<cache, stats>>
    BY <1>2, <2>1 DEF TakeReport
  <2> QED
    BY <1>0, <1>1, <2>2, ServerType
<1>3. CASE FinishReport
  <2> DEFINE s == reporter.slot
  <2>1. s \in Slots /\ reporter.att \in Binding
    BY <1>0, <1>3 DEF FinishReport, Job
  <2>2. cache' \in [Slots -> Entry \cup {NoEntry}]
    <3>1. CASE UNCHANGED cache
      BY <1>0, <3>1
    <3>2. CASE cache[s].used /\ cache' = [cache EXCEPT ![s].report = reporter.att, ![s].done = TRUE]
      <4>1. [cache[s] EXCEPT !.report = reporter.att, !.done = TRUE] \in Entry
        BY <2>1, <3>2, EntryType, EntryUpdates DEF TypeInv
      <4>2. cache' = [cache EXCEPT ![s] = [cache[s] EXCEPT !.report = reporter.att, !.done = TRUE]]
        BY <1>0, <2>1, <3>2
      <4> QED
        BY <1>0, <4>1, <4>2
    <3>3. CASE cache[s].used /\ cache' = [cache EXCEPT ![s].done = TRUE]
      <4>1. [cache[s] EXCEPT !.done = TRUE] \in Entry
        BY <2>1, <3>3, EntryType, EntryUpdates DEF TypeInv
      <4> QED
        BY <1>0, <3>3, <4>1
    <3> QED
      BY <1>3, <3>1, <3>2, <3>3 DEF FinishReport
  <2>3. stats' \in Stats
    <3>1. [stats EXCEPT !.failed = TRUE] \in Stats
      BY <1>0 DEF Stats
    <3> QED
      BY <1>0, <1>3, <3>1 DEF FinishReport
  <2>4. jobs' = jobs /\ reporter' = Idle
    BY <1>3 DEF FinishReport
  <2> QED
    BY <1>0, <1>1, <2>2, <2>3, <2>4, ServerType
<1> QED
  BY <1>2, <1>3 DEF Reporter

LEMMA ControlTypes ==
  ASSUME TypeOK, NEW c \in Controls
  PROVE  /\ control[c] \in Control
         /\ \A pc \in {"none", "read"} : NewControl(pc) \in Control
         /\ \A ch \in HelloKeys, nonce \in Nonces :
              [NewControl("register") EXCEPT !.ch = ch, !.nonce = nonce] \in Control
         /\ \A pc \in {"client", "wait", "respond", "verdict"} :
              [control[c] EXCEPT !.pc = pc] \in Control
         /\ \A valid \in BOOLEAN : [control[c] EXCEPT !.pc = "wait", !.valid = valid] \in Control
         /\ \A att, report \in Binding \cup {NoBinding} :
              [control[c] EXCEPT !.pc = "respond", !.att = att, !.report = report] \in Control
<1>1. control[c] \in Control
  BY DEF TypeOK
<1>2. \A pc \in {"none", "read"} : NewControl(pc) \in Control
  BY DEF NewControl, Control
<1>3. \A ch \in HelloKeys, nonce \in Nonces :
        [NewControl("register") EXCEPT !.ch = ch, !.nonce = nonce] \in Control
  BY DEF NewControl, Control
<1>4. \A pc \in {"client", "wait", "respond", "verdict"} :
        [control[c] EXCEPT !.pc = pc] \in Control
  BY <1>1 DEF Control
<1>5. \A valid \in BOOLEAN : [control[c] EXCEPT !.pc = "wait", !.valid = valid] \in Control
  BY <1>1 DEF Control
<1>6. \A att, report \in Binding \cup {NoBinding} :
        [control[c] EXCEPT !.pc = "respond", !.att = att, !.report = report] \in Control
  BY <1>1 DEF Control
<1> QED
  BY <1>1, <1>2, <1>3, <1>4, <1>5, <1>6

\* Every control step leaves its worker in a state of its type.
LEMMA ControlWorkerType ==
  ASSUME TypeInv, NEW c \in Controls, ControlWorker(c)
  PROVE  TypeInv'
<1>0. /\ cache \in [Slots -> Entry \cup {NoEntry}]
      /\ index \in [HelloKeys -> Slots \cup {Nil}]
      /\ jobs \in Seq(Job)
      /\ reporter \in Job \cup {Idle}
      /\ control \in [Controls -> Control]
      /\ records \in Seq(Record)
      /\ stats \in Stats
      /\ phase \in {"run", "stopping", "draining", "exit"}
      /\ TypeOK
  BY DEF TypeInv, TypeOK
<1>1. UNCHANGED <<network, capture, reporter, phase>>
  BY DEF ControlWorker, Accept, ReadRequest, Register, ReadClientReport, TakeDelivery, GiveUp,
         Respond, ReadVerdict, Disconnect, ControlLocal
<1>2. ASSUME NEW k \in Control, control' = [control EXCEPT ![c] = k],
             cache' \in [Slots -> Entry \cup {NoEntry}],
             index' \in [HelloKeys -> Slots \cup {Nil}],
             jobs' \in Seq(Job), records' \in Seq(Record), stats' \in Stats
      PROVE  TypeInv'
  <2>1. control' \in [Controls -> Control]
    BY <1>0, <1>2
  <2> QED
    BY <1>0, <1>1, <1>2, <2>1, ServerType
<1>3. \A pc : Goto(c, pc) => control' = [control EXCEPT ![c] = [control[c] EXCEPT !.pc = pc]]
  BY <1>0 DEF Goto
<1>4. Leave(c) => control' = [control EXCEPT ![c] = NewControl("none")]
  BY DEF Leave
<1>5. CASE Accept(c) \/ GiveUp(c) \/ Disconnect(c)
  BY <1>0, <1>2, <1>4, <1>5, ControlTypes DEF Accept, GiveUp, Disconnect
<1>6. CASE ReadRequest(c)
  BY <1>0, <1>2, <1>6, ControlTypes DEF ReadRequest
<1>7. CASE Register(c)
  <2> DEFINE s == Lookup(control[c].ch)
             e == [cache[s] EXCEPT !.requested = TRUE, !.nonce = control[c].nonce]
  <2>1. s \in Slots /\ cache[s] \in Entry
    BY <1>0, <1>7, LookupType DEF Register
  <2>2. control[c].nonce \in Nonces \cup {NoNonce}
    BY <1>0 DEF Control
  <2>3. e \in Entry
    BY <2>1, <2>2, EntryUpdates
  <2>4. /\ cache' = [cache EXCEPT ![s] = Scheduled(e)]
        /\ jobs' = JobsWith(s, e)
        /\ UNCHANGED <<index, records, stats>>
        /\ Leave(c) \/ Goto(c, IF Mutual THEN "client" ELSE "wait")
    BY <1>7 DEF Register
  <2> HIDE DEF e, s
  <2>5. Scheduled(e) \in Entry /\ JobsWith(s, e) \in Seq(Job)
    BY <1>0, <2>1, <2>3, ScheduledType
  <2>6. cache' \in [Slots -> Entry \cup {NoEntry}]
    BY <1>0, <2>4, <2>5
  <2> QED
    BY <1>0, <1>2, <1>3, <1>4, <2>4, <2>5, <2>6, ControlTypes
<1>8. CASE ReadClientReport(c)
  <2>1. PICK valid \in BOOLEAN : control' = [control EXCEPT ![c].pc = "wait", ![c].valid = valid]
    BY <1>8 DEF ReadClientReport
  <2>2. control' = [control EXCEPT ![c] = [control[c] EXCEPT !.pc = "wait", !.valid = valid]]
    BY <1>0, <2>1
  <2> QED
    BY <1>0, <1>2, <1>8, <2>2, ControlTypes DEF ReadClientReport
<1>9. CASE TakeDelivery(c)
  <2> DEFINE s == Lookup(control[c].ch)
  <2>1. s \in Slots /\ cache[s] \in Entry
    BY <1>0, <1>9, LookupType DEF TakeDelivery
  <2>2. [cache[s] EXCEPT !.delivered = TRUE] \in Entry
    BY <2>1, EntryUpdates
  <2>3. cache[s].att \in Binding \cup {NoBinding} /\ cache[s].report \in Binding \cup {NoBinding}
    BY <2>1 DEF Entry
  <2>4. /\ cache' = [cache EXCEPT ![s].delivered = TRUE]
        /\ control' = [control EXCEPT ![c].pc = "respond", ![c].att = cache[s].att,
                                      ![c].report = cache[s].report]
        /\ UNCHANGED <<index, jobs, records, stats>>
    BY <1>9 DEF TakeDelivery
  <2> HIDE DEF s
  <2>5. cache' \in [Slots -> Entry \cup {NoEntry}]
    BY <1>0, <2>1, <2>2, <2>4
  <2>6. control' = [control EXCEPT ![c] =
                      [control[c] EXCEPT !.pc = "respond", !.att = cache[s].att,
                                         !.report = cache[s].report]]
    BY <1>0, <2>4
  <2> QED
    BY <1>0, <1>2, <2>3, <2>4, <2>5, <2>6, ControlTypes
<1>10. CASE Respond(c)
  <2>1. UNCHANGED <<cache, index, jobs, records>>
    BY <1>10 DEF Respond
  <2>2. stats' \in Stats
    <3>1. [stats EXCEPT !.failed = TRUE] \in Stats
      BY <1>0 DEF Stats
    <3>2. \A n \in Counted(c) : [stats EXCEPT !.verified = n] \in Stats
      BY <1>0 DEF Stats, Counted
    <3> QED
      BY <1>0, <1>10, <3>1, <3>2 DEF Respond
  <2>3. Goto(c, "verdict") \/ Leave(c)
    BY <1>10 DEF Respond
  <2> QED
    BY <1>0, <1>2, <1>3, <1>4, <2>1, <2>2, <2>3, ControlTypes
<1>11. CASE ReadVerdict(c)
  <2>1. PICK admitted \in BOOLEAN : RecordVerdict(c, admitted)
    BY <1>11 DEF ReadVerdict
  <2>2. /\ control' = [control EXCEPT ![c] = NewControl(IF stopping THEN "none" ELSE "read")]
        /\ UNCHANGED <<jobs, stats>>
    BY <1>11 DEF ReadVerdict
  <2> DEFINE s == Lookup(control[c].ch)
             r == [ch |-> control[c].ch, admitted |-> admitted,
                   verified |-> Mutual => control[c].valid]
  <2>3. CASE s # Nil /\ records' = Append(records, r)
             /\ index' = [index EXCEPT ![control[c].ch] = Nil]
             /\ cache' = [cache EXCEPT ![s] = NoEntry]
    <3>1. control[c].ch \in HelloKeys /\ s \in Slots
      BY <1>0, <2>3, LookupType
    <3>2. r \in Record
      <4>1. (Mutual => control[c].valid) \in BOOLEAN
        OBVIOUS
      <4> QED
        BY <3>1, <4>1 DEF Record
    <3> HIDE DEF r, s
    <3>3. records' \in Seq(Record)
      BY <1>0, <2>3, <3>2, AppendProperties
    <3>4. cache' \in [Slots -> Entry \cup {NoEntry}] /\ index' \in [HelloKeys -> Slots \cup {Nil}]
      BY <1>0, <2>3
    <3> QED
      BY <1>0, <1>2, <2>2, <3>3, <3>4, ControlTypes
  <2>4. CASE UNCHANGED <<records, index, cache>>
    BY <1>0, <1>2, <2>2, <2>4, ControlTypes
  <2> QED
    BY <2>1, <2>3, <2>4 DEF RecordVerdict
<1> QED
  BY <1>5, <1>6, <1>7, <1>8, <1>9, <1>10, <1>11 DEF ControlWorker

LEMMA MainType ==
  ASSUME TypeInv, Main
  PROVE  TypeInv'
BY DEF Main, Stop, ControlsStopped, Exit, network, capture, TypeInv, TypeOK, Captured

LEMMA InitType == Init => TypeInv
<1> SUFFICES ASSUME Init PROVE TypeInv
  OBVIOUS
<1> USE ServerAssumption DEF Init
<1>1. sock \in [Flows -> [id : Conns \cup {0}, est : BOOLEAN]] /\ \A f \in Flows : ~sock[f].est
  OBVIOUS
<1>2. /\ lanes \in [{"in", "out"} -> Seq(Packet)]
      /\ Len(lanes["in"]) = 0 /\ Len(lanes["out"]) = 0
  BY EmptySeq
<1>3. /\ stash \in [Flows -> Stash \cup {NoStash}]
      /\ cache \in [Slots -> Entry \cup {NoEntry}]
      /\ index \in [HelloKeys -> Slots \cup {Nil}]
  OBVIOUS
<1>4. jobs \in Seq(Job) /\ records \in Seq(Record) /\ reporter \in Job \cup {Idle}
  BY EmptySeq
<1>5. control \in [Controls -> Control]
  BY DEF NewControl, Control
<1>6. stats \in Stats
  BY DEF Stats
<1>7. Captured <= MaxPackets
  BY <1>2 DEF Captured
<1> QED
  BY <1>1, <1>2, <1>3, <1>4, <1>5, <1>6, <1>7 DEF TypeInv, TypeOK

LEMMA NextType == TypeInv /\ [Next]_vars => TypeInv'
<1> SUFFICES ASSUME TypeInv, [Next]_vars PROVE TypeInv'
  OBVIOUS
<1>1. CASE \E f \in Flows : Network(f)
  BY <1>1, NetworkType
<1>2. CASE Observer
  BY <1>2, ObserverType
<1>3. CASE Reporter
  BY <1>3, ReporterType
<1>4. CASE \E c \in Controls : ControlWorker(c)
  BY <1>4, ControlWorkerType
<1>5. CASE Main
  BY <1>5, MainType
<1>6. CASE UNCHANGED vars
  BY <1>6 DEF vars, TypeInv, TypeOK, Captured
<1> QED
  BY <1>1, <1>2, <1>3, <1>4, <1>5, <1>6 DEF Next

\* Every reachable state of the server is well typed: no slot, job or control worker
\* holds anything but an entry, a job or a request in one of the stages the code has.
THEOREM TypeInvariance == Spec => []TypeInv
BY InitType, NextType, PTL DEF Spec

\* Type correctness of the report server.
THEOREM TypeCorrect == Spec => []TypeOK
<1>1. TypeInv => TypeOK
  BY DEF TypeInv
<1> QED
  BY <1>1, TypeInvariance, PTL

-----------------------------------------------------------------------------
(* The index.                                                                *)

LEMMA NoHelloIsNoKey == NoHello \notin HelloKeys
BY ServerAssumption DEF NoHello, HelloKeys, Conns

\* With an exact index, looking a key up finds the one entry that has it.
LEMMA LookupIsExact ==
  ASSUME TypeOK, IndexIsExact, NEW ch
  PROVE  /\ ch \notin HelloKeys => Lookup(ch) = Nil
         /\ ch \in HelloKeys => Lookup(ch) = index[ch]
         /\ \A s \in Slots : Lookup(ch) = s <=>
              ch \in HelloKeys /\ cache[s].used /\ cache[s].ch = ch
<1>1. ch \notin HelloKeys => Lookup(ch) = Nil
  BY DEF Lookup
<1>2. ASSUME ch \in HelloKeys PROVE Lookup(ch) = index[ch]
  <2>1. index[ch] \in Slots \cup {Nil}
    BY <1>2 DEF TypeOK
  <2>2. CASE index[ch] \in Slots
    <3>1. cache[index[ch]].used /\ cache[index[ch]].ch = ch
      BY <1>2, <2>2 DEF IndexIsExact
    <3> QED
      BY <1>2, <3>1 DEF Lookup
  <2>3. CASE index[ch] = Nil
    BY <1>2, <2>3 DEF Lookup
  <2> QED
    BY <2>1, <2>2, <2>3
<1>3. \A s \in Slots : Lookup(ch) = s <=> ch \in HelloKeys /\ cache[s].used /\ cache[s].ch = ch
  BY <1>1, <1>2, ServerAssumption DEF IndexIsExact
<1> QED
  BY <1>1, <1>2, <1>3

LEMMA LookupIsExactNext ==
  (TypeOK /\ IndexIsExact =>
     \A ch : \A s \in Slots : Lookup(ch) = s <=>
       ch \in HelloKeys /\ cache[s].used /\ cache[s].ch = ch)'
<1>1. TypeOK /\ IndexIsExact =>
        \A ch : \A s \in Slots : Lookup(ch) = s <=>
          ch \in HelloKeys /\ cache[s].used /\ cache[s].ch = ch
  BY LookupIsExact
<1> QED
  BY <1>1, PTL

LEMMA KeysAreFinite ==
  IsFiniteSet(HelloKeys)
<1>1. 1 \in Int /\ MaxConn \in Int /\ MaxHello \in Int
  BY ServerAssumption
<1>2. IsFiniteSet(Conns)
  BY <1>1, FS_Interval DEF Conns
<1>3. IsFiniteSet(1 .. MaxHello)
  BY <1>1, FS_Interval
<1> QED
  BY <1>2, <1>3, FS_Product DEF HelloKeys

Keys == {ch \in HelloKeys : index[ch] # Nil}

LEMMA KeysFinite ==
  /\ IsFiniteSet(Keys)
  /\ Cardinality(Keys) \in Nat
<1>1. Keys \in SUBSET HelloKeys
  BY DEF Keys
<1> QED
  BY <1>1, KeysAreFinite, FS_Subset, FS_CardinalityType

\* The index has room for every entry: it holds at most one key per slot, and none for
\* the slot that is about to get one.
LEMMA IndexHasRoom ==
  ASSUME TypeOK, IndexIsExact, NEW s \in Slots, NEW ch \in HelloKeys, index[ch] = Nil,
         cache[s].used => cache[s].ch = NoHello
  PROVE  Insertable(ch, s)
<1> DEFINE T == Slots \ {s}
           g == [k \in Keys |-> index[k]]
<1>1. \A k \in Keys : k \in HelloKeys /\ index[k] \in Slots
  BY DEF Keys, TypeOK
<1>2. \A k \in Keys : cache[index[k]].used /\ cache[index[k]].ch = k
  BY <1>1 DEF IndexIsExact
<1>3. \A k \in Keys : index[k] \in T
  BY <1>1, <1>2, NoHelloIsNoKey
<1>4. g \in Injection(Keys, T)
  <2>1. g \in [Keys -> T]
    BY <1>3
  <2>2. \A a, b \in Keys : g[a] = g[b] => a = b
    BY <1>2
  <2> QED
    BY <2>1, <2>2 DEF Injection, IsInjective
<1>5. /\ IsFiniteSet(T) /\ Cardinality(T) = Cardinality(Slots) - 1
      /\ Cardinality(Slots) \in Nat
  BY FS_RemoveElement, FS_CardinalityType, ServerAssumption
<1>6. Cardinality(Keys) <= Cardinality(T)
  BY <1>4, <1>5, FS_Injection
<1>7. Cardinality(Keys) < IndexCap
  <2> HIDE DEF T
  <2> QED
    BY <1>5, <1>6, KeysFinite, ServerAssumption
<1> QED
  BY <1>7 DEF Insertable, Keys

-----------------------------------------------------------------------------
(* What the observer does to the cache.                                      *)

\* A ClientHello goes to a free slot or to an entry without one, and changes nothing
\* else of that entry.
Adopts(s, g, f, ch) ==
  /\ g \in Entry
  /\ g.ch = ch
  /\ cache[s].used =>
       /\ cache[s].ch = NoHello
       /\ g.flow = cache[s].flow
       /\ g.sh = cache[s].sh
       /\ g.requested = cache[s].requested
       /\ g.nonce = cache[s].nonce
       /\ g.started = cache[s].started
       /\ g.done = cache[s].done
       /\ g.att = cache[s].att
       /\ g.report = cache[s].report
       /\ g.delivered = cache[s].delivered
  /\ ~cache[s].used =>
       /\ ~g.requested /\ ~g.started /\ ~g.done /\ ~g.delivered
       /\ g.att = NoBinding /\ g.report = NoBinding

LEMMA ObserveLookupFact ==
  ASSUME TypeOK, IndexIsExact, NEW f \in Flows, NEW ch \in HelloKeys,
         NEW at \in 0 .. MaxPackets, NEW cookie \in Conns, ObserveLookup(f, ch, at, cookie)
  PROVE  \/ UNCHANGED <<cache, index, stats>>
         \/ \E s \in Slots, g \in Entry :
              /\ Adopts(s, g, f, ch)
              /\ index[ch] = Nil
              /\ cache' = [cache EXCEPT ![s] = g]
              /\ index' = [index EXCEPT ![ch] = s]
              /\ stats' = [stats EXCEPT !.hellos = @ + 1]
<1>1. SUFFICES ASSUME ~UNCHANGED <<cache, index, stats>>
      PROVE  \E s \in Slots, g \in Entry :
              /\ Adopts(s, g, f, ch)
              /\ index[ch] = Nil
              /\ cache' = [cache EXCEPT ![s] = g]
              /\ index' = [index EXCEPT ![ch] = s]
              /\ stats' = [stats EXCEPT !.hellos = @ + 1]
  OBVIOUS
<1>2. Lookup(ch) = Nil /\ index[ch] = Nil
  BY <1>1, LookupIsExact DEF ObserveLookup
<1>3. PICK s \in Slots : /\ s \in NewestOrphans(f, cookie) \/ s \in FreeSlots
                         /\ Place(s, f, ch, at, cookie)
  BY <1>1, <1>2 DEF ObserveLookup, NewestOrphans, Orphans, FreeSlots
<1> DEFINE e == IF cache[s].used THEN cache[s] ELSE NewEntry(f, cookie)
           g == [e EXCEPT !.flow = f, !.cookie = cookie, !.ch = ch, !.chAt = at]
<1>4. cache[s].used => cache[s].flow = f /\ cache[s].ch = NoHello
  BY <1>3 DEF NewestOrphans, Orphans, Mine, FreeSlots
<1>5. Insertable(ch, s)
  BY <1>2, <1>4, IndexHasRoom
<1>6. /\ cache' = [cache EXCEPT ![s] = g]
      /\ index' = [index EXCEPT ![ch] = s]
      /\ stats' = [stats EXCEPT !.hellos = @ + 1]
  BY <1>3, <1>5 DEF Place
<1>7. e \in Entry
  BY EntryType, NewEntryType
<1>8. g \in Entry
  BY <1>7, EntryUpdates
<1>9. /\ g.ch = ch /\ g.flow = f
      /\ g.sh = e.sh /\ g.requested = e.requested /\ g.nonce = e.nonce
      /\ g.started = e.started /\ g.done = e.done /\ g.att = e.att
      /\ g.report = e.report /\ g.delivered = e.delivered
  <2> HIDE DEF e
  <2> QED
    BY <1>7 DEF Entry
<1>10. Adopts(s, g, f, ch)
  <2>1. CASE cache[s].used
    <3>1. e = cache[s]
      BY <2>1
    <3> HIDE DEF g, e
    <3> QED
      BY <1>4, <1>8, <1>9, <2>1, <3>1 DEF Adopts
  <2>2. CASE ~cache[s].used
    <3>1. e = NewEntry(f, cookie)
      BY <2>2
    <3>2. /\ ~e.requested /\ ~e.started /\ ~e.done /\ ~e.delivered
          /\ e.att = NoBinding /\ e.report = NoBinding
      BY <3>1 DEF NewEntry
    <3> HIDE DEF g, e
    <3> QED
      BY <1>8, <1>9, <2>2, <3>2 DEF Adopts
  <2> QED
    BY <2>1, <2>2
<1> HIDE DEF g, e
<1> QED
  BY <1>2, <1>6, <1>8, <1>10

\* A ServerHello goes to a free slot or to an entry without one.
Answers(s, e) ==
  /\ e \in Entry
  /\ e.sh # 0
  /\ cache[s].used =>
       /\ cache[s].sh = 0
       /\ e.ch = cache[s].ch
       /\ e.flow = cache[s].flow
       /\ e.requested = cache[s].requested
       /\ e.nonce = cache[s].nonce
       /\ e.started = cache[s].started
       /\ e.done = cache[s].done
       /\ e.att = cache[s].att
       /\ e.report = cache[s].report
       /\ e.delivered = cache[s].delivered
  /\ ~cache[s].used =>
       /\ e.ch = NoHello
       /\ ~e.requested /\ ~e.started /\ ~e.done /\ ~e.delivered
       /\ e.att = NoBinding /\ e.report = NoBinding

LEMMA ObserveReportFact ==
  ASSUME TypeOK, NEW f \in Flows, NEW sh \in Conns, NEW at \in 0 .. MaxPackets,
         NEW cookie \in Conns, ObserveReport(f, sh, at, cookie)
  PROVE  /\ stats'.hellos = stats.hellos
         /\ \/ UNCHANGED <<cache, jobs>>
            \/ \E s \in Slots, e \in Entry :
                 /\ Answers(s, e)
                 /\ cache' = [cache EXCEPT ![s] = Scheduled(e)]
                 /\ jobs' = JobsWith(s, e)
<1>1. stats'.hellos = stats.hellos
  <2>1. [stats EXCEPT !.answers = @ + 1].hellos = stats.hellos
    BY DEF TypeOK, Stats
  <2> QED
    BY <2>1 DEF ObserveReport
<1>2. ASSUME ~UNCHANGED <<cache, jobs>>
      PROVE  \E s \in Slots, e \in Entry :
                 /\ Answers(s, e)
                 /\ cache' = [cache EXCEPT ![s] = Scheduled(e)]
                 /\ jobs' = JobsWith(s, e)
  <2>1. PICK s \in Slots :
          /\ s \in NewestPlaceholders(f, cookie) \/ s \in FreeSlots
          /\ LET e == [(IF cache[s].used THEN cache[s] ELSE NewEntry(f, cookie))
                          EXCEPT !.sh = sh, !.shAt = at]
             IN  /\ cache' = [cache EXCEPT ![s] = Scheduled(e)]
                 /\ jobs' = JobsWith(s, e)
    BY <1>2 DEF ObserveReport, NewestPlaceholders, Placeholders, FreeSlots
  <2> DEFINE o == IF cache[s].used THEN cache[s] ELSE NewEntry(f, cookie)
             e == [o EXCEPT !.sh = sh, !.shAt = at]
  <2>2. cache' = [cache EXCEPT ![s] = Scheduled(e)] /\ jobs' = JobsWith(s, e)
    BY <2>1
  <2>3. cache[s].used => cache[s].sh = 0
    BY <2>1 DEF NewestPlaceholders, Placeholders, FreeSlots
  <2>4. o \in Entry
    BY EntryType, NewEntryType
  <2>5. e \in Entry
    BY <2>4, EntryUpdates
  <2>6. /\ e.sh = sh /\ e.flow = o.flow
        /\ e.ch = o.ch /\ e.requested = o.requested /\ e.nonce = o.nonce
        /\ e.started = o.started /\ e.done = o.done /\ e.att = o.att
        /\ e.report = o.report /\ e.delivered = o.delivered
    <3> HIDE DEF o
    <3> QED
      BY <2>4 DEF Entry
  <2>7. e.sh # 0
    BY <2>6, ServerAssumption DEF Conns
  <2>8. Answers(s, e)
    <3>1. CASE cache[s].used
      <4>1. o = cache[s]
        BY <3>1
      <4> HIDE DEF e, o
      <4> QED
        BY <2>3, <2>5, <2>6, <2>7, <3>1, <4>1 DEF Answers
    <3>2. CASE ~cache[s].used
      <4>1. o = NewEntry(f, cookie)
        BY <3>2
      <4>2. /\ o.ch = NoHello
            /\ ~o.requested /\ ~o.started /\ ~o.done /\ ~o.delivered
            /\ o.att = NoBinding /\ o.report = NoBinding
        BY <4>1 DEF NewEntry
      <4> HIDE DEF e, o
      <4> QED
        BY <2>5, <2>6, <2>7, <3>2, <4>2 DEF Answers
    <3> QED
      BY <3>1, <3>2
  <2> HIDE DEF e, o
  <2> QED
    BY <2>2, <2>5, <2>8
<1> QED
  BY <1>1, <1>2

-----------------------------------------------------------------------------
(* Scheduling.                                                               *)

\* Scheduling settles what is attested and touches nothing else of an entry.
LEMMA ScheduledFields ==
  ASSUME NEW e \in Entry
  PROVE  /\ Scheduled(e).used = e.used
         /\ Scheduled(e).flow = e.flow
         /\ Scheduled(e).ch = e.ch
         /\ Scheduled(e).sh = e.sh
         /\ Scheduled(e).requested = e.requested
         /\ Scheduled(e).nonce = e.nonce
         /\ Scheduled(e).report = e.report
         /\ Scheduled(e).delivered = e.delivered
         /\ ~Due(e) => Scheduled(e) = e
         /\ Due(e) => /\ Scheduled(e).started
                      /\ Scheduled(e).att = BindingOf(e)
                      /\ Scheduled(e).done = ~Room
<1>1. CASE Due(e)
  <2> DEFINE g == [e EXCEPT !.att = BindingOf(e), !.started = TRUE, !.done = ~Room]
  <2>1. Scheduled(e) = g
    BY <1>1 DEF Scheduled
  <2>2. /\ g.used = e.used /\ g.flow = e.flow /\ g.ch = e.ch /\ g.sh = e.sh
        /\ g.requested = e.requested /\ g.nonce = e.nonce /\ g.report = e.report
        /\ g.delivered = e.delivered
    BY DEF Entry
  <2>3. g.started = TRUE /\ g.att = BindingOf(e) /\ g.done = ~Room
    BY DEF Entry
  <2> HIDE DEF g
  <2> QED
    BY <1>1, <2>1, <2>2, <2>3
<1>2. CASE ~Due(e)
  BY <1>2 DEF Scheduled
<1> QED
  BY <1>1, <1>2

LEMMA ScheduledIsStaged ==
  ASSUME NEW e \in Entry, Staged(e)
  PROVE  Staged(Scheduled(e))
<1>1. CASE ~Due(e)
  BY <1>1, ScheduledFields
<1>2. CASE Due(e)
  <2>1. ~e.started /\ e.sh # 0 /\ (Mutual => e.requested)
    BY <1>2 DEF Due
  <2>2. BindingOf(Scheduled(e)) = BindingOf(e)
    BY ScheduledFields DEF BindingOf
  <2>3. e.report = NoBinding /\ ~e.delivered
    BY <2>1 DEF Staged
  <2> QED
    BY <1>2, <2>1, <2>2, <2>3, ScheduledFields DEF Staged
<1> QED
  BY <1>1, <1>2

\* A job is queued for a slot that has none.
LEMMA ScheduleOwns ==
  ASSUME TypeOK, JobOwnsSlot, NEW s \in Slots, NEW e \in Entry,
         cache' = [cache EXCEPT ![s] = Scheduled(e)], jobs' = JobsWith(s, e),
         reporter' = reporter,
         cache[s].used /\ cache[s].started =>
           e.flow = cache[s].flow /\ e.started /\ e.att = cache[s].att /\ e.done = cache[s].done
  PROVE  JobOwnsSlot'
<1>0. /\ jobs \in Seq(Job)
      /\ reporter \in Job \cup {Idle}
      /\ cache \in [Slots -> Entry \cup {NoEntry}]
      /\ \A i \in DOMAIN jobs : jobs[i] \in Job
  BY DEF TypeOK
<1>1. \A t \in Slots : cache'[t] = IF t = s THEN Scheduled(e) ELSE cache[t]
  BY <1>0
<1>2. ASSUME NEW j \in Job, Owns(j), j.slot = s => ~Due(e)
      PROVE  Owns(j)'
  <2>1. j.slot \in Slots
    BY <1>2 DEF Job
  <2>2. CASE j.slot = s
    <3>1. Scheduled(e) = e
      BY <1>2, <2>2, ScheduledFields
    <3>2. e.used
      BY DEF Entry
    <3> QED
      BY <1>1, <1>2, <2>1, <2>2, <3>1, <3>2 DEF Owns
  <2>3. CASE j.slot # s
    BY <1>1, <1>2, <2>1, <2>3 DEF Owns
  <2> QED
    BY <2>2, <2>3
<1>3. Due(e) => \A j \in Pending : j.slot # s
  BY DEF JobOwnsSlot, Owns, Due
<1>4. \A j \in Pending : j \in Job
  BY <1>0 DEF Pending
<1>5. \A j \in Pending : Owns(j)'
  BY <1>2, <1>3, <1>4 DEF JobOwnsSlot
<1>6. CASE jobs' = jobs
  BY <1>5, <1>6 DEF JobOwnsSlot, Pending
<1>7. CASE Due(e) /\ Room /\ jobs' # jobs
  <2> DEFINE j == [slot |-> s, flow |-> e.flow, att |-> BindingOf(e)]
  <2>1. j \in Job /\ j.slot = s /\ j.flow = e.flow /\ j.att = BindingOf(e)
    BY <1>0, <1>7, ScheduledType DEF Job, Entry
  <2>2. jobs' = Append(jobs, j)
    BY <1>7 DEF JobsWith
  <2> HIDE DEF j
  <2>3. /\ Len(jobs) \in Nat /\ DOMAIN jobs = 1 .. Len(jobs)
        /\ DOMAIN jobs' = 1 .. Len(jobs) + 1
        /\ \A i \in DOMAIN jobs : jobs'[i] = jobs[i]
        /\ jobs'[Len(jobs) + 1] = j
    BY <1>0, <2>1, <2>2, AppendProperties, LenProperties
  <2>4. \A i \in DOMAIN jobs' : i \in DOMAIN jobs \/ i = Len(jobs) + 1
    BY <2>3
  <2>5. Owns(j)'
    <3>1. Scheduled(e).used /\ ~Scheduled(e).done
      BY <1>7, ScheduledFields DEF Entry
    <3> QED
      BY <1>1, <1>7, <2>1, <3>1, ScheduledFields DEF Owns
  <2>6. \A i \in DOMAIN jobs : jobs[i].slot # s
    BY <1>3, <1>7 DEF Pending
  <2>7. reporter.slot # s
    BY <1>3, <1>7, ServerAssumption DEF Pending, Idle
  <2>8. \A k \in Pending' : Owns(k)'
    <3> SUFFICES ASSUME NEW k \in Pending' PROVE Owns(k)'
      OBVIOUS
    <3>1. k \in Pending \/ k = j
      BY <2>3, <2>4 DEF Pending
    <3> QED
      BY <1>5, <2>5, <3>1
  <2>9. \A i, k \in DOMAIN jobs' : jobs'[i].slot = jobs'[k].slot => i = k
    BY <2>1, <2>3, <2>4, <2>6 DEF JobOwnsSlot
  <2>10. \A i \in DOMAIN jobs' : jobs'[i].slot # reporter'.slot
    BY <2>1, <2>3, <2>4, <2>7 DEF JobOwnsSlot
  <2> QED
    BY <2>8, <2>9, <2>10 DEF JobOwnsSlot
<1> QED
  BY <1>6, <1>7 DEF JobsWith

-----------------------------------------------------------------------------
(* Who serves what.                                                          *)

\* ServedOnce and ResponseIsBound, connection by connection.
Responding(c) == At(c, "respond") \/ At(c, "verdict")
Service(c) ==
  Serving(c) =>
    /\ Lookup(control[c].ch) # Nil
    /\ cache[Lookup(control[c].ch)].requested
    /\ cache[Lookup(control[c].ch)].nonce = control[c].nonce
    /\ cache[Lookup(control[c].ch)].delivered <=> Responding(c)
Bound(c) ==
  Responding(c) =>
    /\ control[c].report = control[c].att
    /\ control[c].att.sh = cache[Lookup(control[c].ch)].sh
    /\ Mutual => /\ control[c].att.ch = control[c].ch
                 /\ control[c].att.nonce = control[c].nonce
                 /\ At(c, "verdict") => control[c].valid
OneServes ==
  \A c, d \in Controls : Serving(c) /\ Serving(d) /\ control[c].ch = control[d].ch => c = d

LEMMA ServiceByConnection ==
  /\ ServedOnce <=> OneServes /\ \A c \in Controls : Service(c)
  /\ ResponseIsBound <=> \A c \in Controls : Bound(c)
BY DEF ServedOnce, ResponseIsBound, Service, Bound, OneServes, Responding

LEMMA ServiceByConnectionNext ==
  /\ ServedOnce' <=> OneServes' /\ \A c \in Controls : Service(c)'
  /\ ResponseIsBound' <=> \A c \in Controls : Bound(c)'
BY DEF ServedOnce, ResponseIsBound, Service, Bound, OneServes, Responding

LEMMA ServingStages ==
  \A c : /\ Serving(c) <=> control[c].pc \in {"client", "wait", "respond", "verdict"}
        /\ Responding(c) <=> control[c].pc \in {"respond", "verdict"}
BY DEF Serving, Responding, At

\* The entry a connection serves is left as it is, but for the progress of its report.
Keeps(s) ==
  /\ cache'[s].used
  /\ cache'[s].ch = cache[s].ch
  /\ cache'[s].requested = cache[s].requested
  /\ cache'[s].nonce = cache[s].nonce
  /\ cache'[s].delivered = cache[s].delivered
  /\ cache[s].sh # 0 => cache'[s].sh = cache[s].sh

LEMMA ServiceKept ==
  ASSUME TypeOK, TypeOK', IndexIsExact, IndexIsExact', EntriesAreStaged,
         NEW c \in Controls, control'[c] = control[c], Service(c), Bound(c),
         \A s \in Slots : Lookup(control[c].ch) = s => Keeps(s)
  PROVE  Service(c)' /\ Bound(c)'
<1>0. /\ Serving(c)' <=> Serving(c)
      /\ Responding(c)' <=> Responding(c)
      /\ At(c, "verdict")' <=> At(c, "verdict")
  BY DEF Serving, Responding, At
<1>1. CASE ~Serving(c)
  <2>1. ~Responding(c)
    BY <1>1 DEF Serving, Responding
  <2> QED
    BY <1>0, <1>1, <2>1 DEF Service, Bound
<1>2. CASE Serving(c)
  <2> DEFINE s == Lookup(control[c].ch)
  <2>1. s \in Slots /\ control[c].ch \in HelloKeys /\ cache[s].used /\ cache[s].ch = control[c].ch
    BY <1>2, LookupType, LookupIsExact DEF Service
  <2>2. Keeps(s)
    BY <2>1
  <2>3. Lookup(control[c].ch)' = s
    BY <2>1, <2>2, LookupIsExactNext DEF Keeps
  <2>4. /\ cache[s].requested
        /\ cache[s].nonce = control[c].nonce
        /\ cache[s].delivered <=> Responding(c)
    BY <1>2 DEF Service
  <2>5. Service(c)'
    <3>1. s # Nil
      BY <2>1, ServerAssumption
    <3> HIDE DEF s
    <3> QED
      BY <1>0, <2>2, <2>3, <2>4, <3>1 DEF Service, Keeps
  <2>6. Responding(c) => cache'[s].sh = cache[s].sh
    <3>1. Responding(c) => cache[s].sh # 0
      BY <2>1, <2>4 DEF EntriesAreStaged, Staged
    <3> QED
      BY <2>2, <3>1 DEF Keeps
  <2>7. Bound(c)'
    <3> HIDE DEF s
    <3>1. Responding(c) => control[c].att.sh = cache[s].sh
      BY DEF Bound, s
    <3> QED
      BY <1>0, <2>3, <2>6, <3>1 DEF Bound
  <2> QED
    BY <2>5, <2>7
<1> QED
  BY <1>1, <1>2

\* What the observer and the report worker may do without a connection noticing.
LEMMA AllServiceKept ==
  ASSUME TypeOK, TypeOK', ServerInv, IndexIsExact', control' = control,
         \A s \in Slots : cache[s].used /\ cache[s].ch # NoHello => Keeps(s)
  PROVE  ServedOnce' /\ ResponseIsBound'
<1>1. ASSUME NEW c \in Controls
      PROVE  Service(c)' /\ Bound(c)'
  <2>1. Service(c) /\ Bound(c)
    BY ServiceByConnection DEF ServerInv
  <2>2. \A s \in Slots : Lookup(control[c].ch) = s => Keeps(s)
    BY LookupIsExact, NoHelloIsNoKey DEF ServerInv
  <2> QED
    BY <2>1, <2>2, ServiceKept DEF ServerInv
<1>2. OneServes'
  <2>1. OneServes
    BY ServiceByConnection DEF ServerInv
  <2> QED
    BY <2>1 DEF OneServes, Serving, At
<1> QED
  BY <1>1, <1>2, ServiceByConnectionNext

\* A step of connection c leaves the others alone.
LEMMA ServiceStep ==
  ASSUME TypeOK, TypeOK', ServerInv, IndexIsExact', NEW c \in Controls,
         \A d \in Controls \ {c} : control'[d] = control[d],
         \A d \in Controls \ {c}, s \in Slots :
           Serving(d) /\ Lookup(control[d].ch) = s => Keeps(s),
         Service(c)', Bound(c)',
         \A d \in Controls \ {c} :
           Serving(d) /\ Serving(c)' => control[d].ch # control'[c].ch
  PROVE  ServedOnce' /\ ResponseIsBound'
<1>0. OneServes /\ \A d \in Controls : Service(d) /\ Bound(d)
  BY ServiceByConnection DEF ServerInv
<1>1. ASSUME NEW d \in Controls
      PROVE  Service(d)' /\ Bound(d)'
  <2>1. CASE d = c
    BY <2>1
  <2>2. CASE d # c /\ Serving(d)
    BY <1>0, <2>2, ServiceKept DEF ServerInv
  <2>3. CASE d # c /\ ~Serving(d)
    <3>1. ~Serving(d)' /\ ~Responding(d)'
      BY <2>3 DEF Serving, Responding, At
    <3> QED
      BY <3>1 DEF Service, Bound
  <2> QED
    BY <2>1, <2>2, <2>3
<1>2. OneServes'
  <2> SUFFICES ASSUME NEW a \in Controls, NEW b \in Controls,
                      Serving(a)', Serving(b)', control'[a].ch = control'[b].ch, a # b
               PROVE  FALSE
    BY DEF OneServes
  <2>1. \A d \in Controls \ {c} : Serving(d)' <=> Serving(d)
    BY DEF Serving, At
  <2>2. CASE a # c /\ b # c
    BY <1>0, <2>1, <2>2 DEF OneServes
  <2>3. CASE a = c \/ b = c
    BY <2>1, <2>3
  <2> QED
    BY <2>2, <2>3
<1> QED
  BY <1>1, <1>2, ServiceByConnectionNext

-----------------------------------------------------------------------------
(* The invariant, action by action.                                          *)

\* A step that leaves the cache, the index, the connections, the jobs and the accounts.
LEMMA InvFrame ==
  ASSUME ServerInv, UNCHANGED <<cache, index, jobs, reporter, control, records>>,
         stats'.hellos = stats.hellos
  PROVE  ServerInv'
<1>1. IndexIsExact' /\ EntriesAreStaged' /\ RecordsAreVerified' /\ HellosAreKept'
  BY DEF ServerInv, IndexIsExact, EntriesAreStaged, RecordsAreVerified, HellosAreKept
<1>2. JobOwnsSlot'
  BY DEF ServerInv, JobOwnsSlot, Owns, Pending
<1>3. ServedOnce' /\ ResponseIsBound'
  <2>1. \A c \in Controls : Lookup(control[c].ch)' = Lookup(control[c].ch)
    BY DEF Lookup
  <2>2. OneServes /\ \A c \in Controls : Service(c) /\ Bound(c)
    BY ServiceByConnection DEF ServerInv
  <2>3. ASSUME NEW c \in Controls
        PROVE  Service(c)'
    BY <2>1, <2>2 DEF Service, Serving, Responding, At
  <2>4. ASSUME NEW c \in Controls
        PROVE  Bound(c)'
    BY <2>1, <2>2 DEF Bound, Responding, At
  <2>5. OneServes'
    BY <2>2 DEF OneServes, Serving, At
  <2> QED
    BY <2>3, <2>4, <2>5, ServiceByConnectionNext
<1> QED
  BY <1>1, <1>2, <1>3 DEF ServerInv

LEMMA JobsFrame ==
  ASSUME TypeOK, JobOwnsSlot, UNCHANGED <<jobs, reporter>>,
         \A s \in Slots : cache[s].used /\ cache[s].started =>
           /\ cache'[s].used /\ cache'[s].started
           /\ cache'[s].flow = cache[s].flow
           /\ cache'[s].att = cache[s].att
           /\ cache'[s].done = cache[s].done
  PROVE  JobOwnsSlot'
<1>1. \A j \in Pending : j \in Job
  BY DEF Pending, TypeOK
<1>2. \A j \in Pending : Owns(j)'
  BY <1>1 DEF JobOwnsSlot, Owns, Job
<1> QED
  BY <1>2 DEF JobOwnsSlot, Pending

LEMMA ObserveLookupInv ==
  ASSUME TypeOK, TypeOK', ServerInv, NEW f \in Flows, NEW ch \in HelloKeys,
         NEW at \in 0 .. MaxPackets, NEW cookie \in Conns, ObserveLookup(f, ch, at, cookie),
         UNCHANGED <<jobs, reporter, control, records>>
  PROVE  ServerInv'
<1>0. IndexIsExact /\ EntriesAreStaged /\ JobOwnsSlot /\ HellosAreKept /\ RecordsAreVerified
  BY DEF ServerInv
<1>1. CASE UNCHANGED <<cache, index, stats>>
  BY <1>1, InvFrame
<1>2. ASSUME NEW s \in Slots, NEW g \in Entry, Adopts(s, g, f, ch), index[ch] = Nil,
             cache' = [cache EXCEPT ![s] = g], index' = [index EXCEPT ![ch] = s],
             stats' = [stats EXCEPT !.hellos = @ + 1]
      PROVE  ServerInv'
  <2>0. /\ cache \in [Slots -> Entry \cup {NoEntry}]
        /\ index \in [HelloKeys -> Slots \cup {Nil}]
        /\ stats \in Stats /\ stats.hellos \in Nat
        /\ g.used /\ g.ch = ch
    BY <1>2 DEF TypeOK, Stats, Entry, Adopts
  <2>1. \A t \in Slots : cache'[t] = IF t = s THEN g ELSE cache[t]
    BY <1>2, <2>0
  <2>2. \A k \in HelloKeys : index'[k] = IF k = ch THEN s ELSE index[k]
    BY <1>2, <2>0
  <2>3. cache[s].used => cache[s].ch = NoHello
    BY <1>2 DEF Adopts
  <2>4. \A t \in Slots : ~(cache[t].used /\ cache[t].ch = ch)
    BY <1>0, <1>2, ServerAssumption DEF IndexIsExact
  <2>5. IndexIsExact'
    <3> SUFFICES ASSUME NEW k \in HelloKeys, NEW t \in Slots
                 PROVE  index'[k] = t <=> cache'[t].used /\ cache'[t].ch = k
      BY DEF IndexIsExact
    <3>1. CASE k = ch
      BY <2>0, <2>1, <2>2, <2>4, <3>1
    <3>2. CASE k # ch /\ t # s
      BY <1>0, <2>1, <2>2, <3>2 DEF IndexIsExact
    <3>3. CASE k # ch /\ t = s
      <4>1. index[k] # s
        BY <1>0, <2>3, NoHelloIsNoKey DEF IndexIsExact
      <4> QED
        BY <2>0, <2>1, <2>2, <3>3, <4>1
    <3> QED
      BY <3>1, <3>2, <3>3
  <2>6. EntriesAreStaged'
    <3>1. Staged(g)
      <4>1. CASE cache[s].used
        <5>1. Staged(cache[s]) /\ cache[s].ch = NoHello /\ ~cache[s].requested
          BY <1>0, <2>3, <4>1 DEF EntriesAreStaged, Staged
        <5>2. cache[s].started => ~Mutual /\ BindingOf(g) = BindingOf(cache[s])
          BY <1>2, <4>1, <5>1 DEF Staged, Adopts, BindingOf
        <5> QED
          BY <1>2, <2>0, <4>1, <5>1, <5>2, NoHelloIsNoKey DEF Staged, Adopts
      <4>2. CASE ~cache[s].used
        BY <1>2, <4>2 DEF Staged, Adopts
      <4> QED
        BY <4>1, <4>2
    <3> QED
      BY <1>0, <2>1, <3>1 DEF EntriesAreStaged
  <2>7. JobOwnsSlot'
    <3>1. \A t \in Slots : cache[t].used /\ cache[t].started =>
           /\ cache'[t].used /\ cache'[t].started
           /\ cache'[t].flow = cache[t].flow
           /\ cache'[t].att = cache[t].att
           /\ cache'[t].done = cache[t].done
      BY <1>2, <2>0, <2>1 DEF Adopts
    <3> QED
      BY <1>0, <3>1, JobsFrame
  <2>8. ServedOnce' /\ ResponseIsBound'
    <3>1. \A t \in Slots : cache[t].used /\ cache[t].ch # NoHello => Keeps(t)
      BY <2>1, <2>3 DEF Keeps
    <3> QED
      BY <2>5, <3>1, AllServiceKept
  <2>9. HellosAreKept'
    <3>1. Keys' = Keys \cup {ch} /\ ch \notin Keys
      BY <1>2, <2>2, ServerAssumption DEF Keys
    <3>2. Cardinality(Keys') = Cardinality(Keys) + 1
      BY <3>1, KeysFinite, FS_AddElement
    <3>3. stats'.hellos = stats.hellos + 1
      BY <1>2, <2>0 DEF Stats
    <3>4. Len(records) \in Nat
      BY LenProperties DEF TypeOK
    <3>5. stats.hellos = Len(records) + Cardinality(Keys)
      BY <1>0 DEF HellosAreKept, Keys
    <3>6. stats'.hellos = Len(records') + Cardinality(Keys')
      BY <2>0, <3>2, <3>3, <3>4, <3>5, KeysFinite
    <3> QED
      BY <3>6 DEF HellosAreKept, Keys
  <2>10. RecordsAreVerified'
    BY <1>0 DEF RecordsAreVerified
  <2> QED
    BY <2>5, <2>6, <2>7, <2>8, <2>9, <2>10 DEF ServerInv
<1> QED
  BY <1>0, <1>1, <1>2, ObserveLookupFact

LEMMA ObserveReportInv ==
  ASSUME TypeOK, TypeOK', ServerInv, NEW f \in Flows, NEW sh \in Conns,
         NEW at \in 0 .. MaxPackets, NEW cookie \in Conns, ObserveReport(f, sh, at, cookie),
         UNCHANGED <<index, reporter, control, records>>
  PROVE  ServerInv'
<1>0. /\ IndexIsExact /\ EntriesAreStaged /\ JobOwnsSlot /\ HellosAreKept /\ RecordsAreVerified
      /\ stats'.hellos = stats.hellos
  BY ObserveReportFact DEF ServerInv
<1>1. CASE UNCHANGED <<cache, jobs>>
  BY <1>0, <1>1, InvFrame
<1>2. ASSUME NEW s \in Slots, NEW e \in Entry, Answers(s, e),
             cache' = [cache EXCEPT ![s] = Scheduled(e)], jobs' = JobsWith(s, e)
      PROVE  ServerInv'
  <2>0. cache \in [Slots -> Entry \cup {NoEntry}] /\ e.used
    BY DEF TypeOK, Entry
  <2>1. \A t \in Slots : cache'[t] = IF t = s THEN Scheduled(e) ELSE cache[t]
    BY <1>2, <2>0
  <2>2. cache[s].used => Staged(cache[s]) /\ ~cache[s].started
    BY <1>0, <1>2 DEF EntriesAreStaged, Staged, Answers
  <2>3. cache'[s].used /\ cache'[s].ch = e.ch
    BY <2>0, <2>1, ScheduledFields
  <2>4. ~cache[s].used => e.ch = NoHello
    BY <1>2 DEF Answers
  <2>5. IndexIsExact'
    <3>1. \A k \in HelloKeys, t \in Slots :
            cache'[t].used /\ cache'[t].ch = k <=> cache[t].used /\ cache[t].ch = k
      BY <1>2, <2>1, <2>3, <2>4, NoHelloIsNoKey DEF Answers
    <3> QED
      BY <1>0, <3>1 DEF IndexIsExact
  <2>6. EntriesAreStaged'
    <3>1. Staged(e)
      BY <1>2, <2>2 DEF Staged, Answers
    <3>2. Staged(Scheduled(e))
      BY <3>1, ScheduledIsStaged
    <3> QED
      BY <1>0, <2>1, <3>2 DEF EntriesAreStaged
  <2>7. JobOwnsSlot'
    BY <1>0, <1>2, <2>2, ScheduleOwns
  <2>8. ServedOnce' /\ ResponseIsBound'
    <3>1. \A t \in Slots : cache[t].used /\ cache[t].ch # NoHello => Keeps(t)
      BY <1>2, <2>0, <2>1, ScheduledFields DEF Keeps, Answers
    <3> QED
      BY <2>5, <3>1, AllServiceKept
  <2>9. HellosAreKept' /\ RecordsAreVerified'
    BY <1>0 DEF HellosAreKept, RecordsAreVerified
  <2> QED
    BY <2>5, <2>6, <2>7, <2>8, <2>9 DEF ServerInv
<1> QED
  BY <1>1, <1>2, ObserveReportFact

LEMMA ObserverInv ==
  ASSUME TypeInv, TypeOK', ServerInv, Observer
  PROVE  ServerInv'
<1>0. /\ TypeOK
      /\ \A f \in Flows : sock[f].est => sock[f].id \in Conns
      /\ seen \in Conns \cup {0}
      /\ stash \in [Flows -> Stash \cup {NoStash}]
  BY DEF TypeInv, TypeOK
<1>1. CASE DispatchHello
  <2> DEFINE p == Head(lanes["in"])
  <2>1. p \in Packet /\ clock + 1 \in 0 .. MaxPackets
    BY <1>1, DispatchType DEF DispatchHello
  <2>2. p.flow \in Flows /\ <<p.conn, p.n>> \in HelloKeys
    BY <2>1 DEF Packet, HelloKeys
  <2>3. UNCHANGED <<jobs, reporter, control, records>>
    BY <1>1 DEF DispatchHello
  <2>4. CASE UNCHANGED <<cache, index, stats>>
    BY <2>3, <2>4, InvFrame
  <2>5. CASE /\ sock[p.flow].est
             /\ ObserveLookup(p.flow, <<p.conn, p.n>>, clock + 1, sock[p.flow].id)
    BY <1>0, <2>1, <2>2, <2>3, <2>5, ObserveLookupInv
  <2> QED
    BY <1>1, <2>4, <2>5 DEF DispatchHello
<1>2. CASE RecoverHello
  <2> DEFINE f == Head(lanes["out"]).flow
  <2>1. f \in Flows
    BY <1>2, LanesType DEF RecoverHello, Packet
  <2>2. UNCHANGED <<jobs, reporter, control, records>> /\ sock[f].est /\ stash[f] # NoStash
    BY <1>2 DEF RecoverHello
  <2>3. stash[f].ch \in HelloKeys /\ stash[f].at \in 0 .. MaxPackets
    BY <1>0, <2>1, <2>2 DEF Stash
  <2>4. CASE UNCHANGED <<cache, index, stats>>
    BY <2>2, <2>4, InvFrame
  <2>5. CASE ObserveLookup(f, stash[f].ch, stash[f].at, sock[f].id)
    BY <1>0, <2>1, <2>2, <2>3, <2>5, ObserveLookupInv
  <2> QED
    BY <1>2, <2>4, <2>5 DEF RecoverHello
<1>3. CASE DispatchServerHello
  <2> DEFINE p == Head(lanes["out"])
  <2>1. p \in Packet /\ clock + 1 \in 0 .. MaxPackets
    BY <1>3, DispatchType DEF DispatchServerHello
  <2>2. p.flow \in Flows /\ p.conn \in Conns
    BY <2>1 DEF Packet
  <2>3. UNCHANGED <<index, reporter, control, records>>
    BY <1>3 DEF DispatchServerHello
  <2>4. CASE UNCHANGED <<cache, jobs, stats>>
    BY <2>3, <2>4, InvFrame
  <2>5. ASSUME NEW cookie \in Conns, ObserveReport(p.flow, p.conn, clock + 1, cookie)
        PROVE  ServerInv'
    BY <1>0, <2>1, <2>2, <2>3, <2>5, ObserveReportInv
  <2> QED
    BY <1>0, <1>3, <2>2, <2>4, <2>5 DEF DispatchServerHello
<1>4. ASSUME NEW f \in Flows, ExpireStash(f)
      PROVE  ServerInv'
  BY <1>4, InvFrame DEF ExpireStash
<1> QED
  BY <1>1, <1>2, <1>3, <1>4 DEF Observer

-----------------------------------------------------------------------------
(* The report worker.                                                        *)

LEMMA TakeReportInv ==
  ASSUME TypeOK, TypeOK', ServerInv, TakeReport
  PROVE  ServerInv'
<1>0. /\ IndexIsExact /\ EntriesAreStaged /\ JobOwnsSlot /\ HellosAreKept /\ RecordsAreVerified
      /\ jobs \in Seq(Job) /\ jobs # <<>> /\ Len(jobs) \in Nat
      /\ reporter' = Head(jobs) /\ jobs' = Tail(jobs) /\ reporter = Idle
      /\ UNCHANGED <<cache, index, control, records, stats>>
  BY LenProperties DEF ServerInv, TypeOK, TakeReport
<1>1. IndexIsExact' /\ EntriesAreStaged' /\ HellosAreKept' /\ RecordsAreVerified'
  BY <1>0 DEF IndexIsExact, EntriesAreStaged, HellosAreKept, RecordsAreVerified
<1>2. ServedOnce' /\ ResponseIsBound'
  <2>1. \A s \in Slots : cache[s].used => Keeps(s)
    BY <1>0 DEF Keeps
  <2> QED
    BY <1>0, <1>1, <2>1, AllServiceKept
<1>3. JobOwnsSlot'
  <2>1. /\ DOMAIN jobs = 1 .. Len(jobs)
        /\ 1 \in DOMAIN jobs
        /\ reporter' = jobs[1]
        /\ DOMAIN jobs' = 1 .. Len(jobs) - 1
        /\ \A i \in DOMAIN jobs' : jobs'[i] = jobs[i + 1] /\ i + 1 \in DOMAIN jobs /\ i + 1 # 1
    BY <1>0
  <2> DEFINE q == jobs'
  <2>2. \A j \in Pending' : j \in Pending
    BY <2>1 DEF Pending
  <2>3. \A j \in Pending' : Owns(j)'
    BY <1>0, <2>2 DEF JobOwnsSlot, Owns
  <2>4. \A i, k \in DOMAIN jobs' : jobs'[i].slot = jobs'[k].slot => i = k
    <3> SUFFICES ASSUME NEW i \in DOMAIN jobs', NEW k \in DOMAIN jobs',
                        jobs'[i].slot = jobs'[k].slot
                 PROVE  i = k
      OBVIOUS
    <3>1. i + 1 = k + 1
      BY <1>0, <2>1 DEF JobOwnsSlot
    <3>2. i \in Nat /\ k \in Nat
      BY <1>0, <2>1
    <3> QED
      BY <3>1, <3>2
  <2>5. \A i \in DOMAIN jobs' : jobs'[i].slot # reporter'.slot
    BY <1>0, <2>1 DEF JobOwnsSlot
  <2> QED
    BY <2>3, <2>4, <2>5 DEF JobOwnsSlot
<1> QED
  BY <1>1, <1>2, <1>3 DEF ServerInv

\* The job in hand owns its slot, so its report is stored, or its failure noted.
LEMMA FinishReportInv ==
  ASSUME TypeOK, TypeOK', ServerInv, FinishReport
  PROVE  ServerInv'
<1> DEFINE s == reporter.slot
<1>0. /\ IndexIsExact /\ EntriesAreStaged /\ JobOwnsSlot /\ HellosAreKept /\ RecordsAreVerified
      /\ cache \in [Slots -> Entry \cup {NoEntry}]
      /\ reporter \in Job /\ reporter # Idle /\ reporter' = Idle
      /\ UNCHANGED <<index, jobs, control, records>>
      /\ stats \in Stats
  BY DEF ServerInv, TypeOK, FinishReport
<1>1. s \in Slots /\ reporter.att \in Binding
  BY <1>0 DEF Job
<1>2. Owns(reporter)
  BY <1>0 DEF JobOwnsSlot, Pending
<1>3. /\ cache[s].used /\ cache[s].flow = reporter.flow /\ cache[s].att = reporter.att
      /\ cache[s].started /\ ~cache[s].done /\ cache[s] \in Entry
  BY <1>1, <1>2, EntryType DEF Owns
<1>4. Staged(cache[s])
  BY <1>0, <1>1, <1>3 DEF EntriesAreStaged
<1>5. stats'.hellos = stats.hellos
  <2>1. [stats EXCEPT !.failed = TRUE].hellos = stats.hellos
    BY <1>0 DEF Stats
  <2> QED
    BY <1>3, <2>1 DEF FinishReport
<1>6. \E b \in {cache[s].report, reporter.att} :
        cache' = [cache EXCEPT ![s] = [cache[s] EXCEPT !.report = b, !.done = TRUE]]
  <2>1. CASE cache' = [cache EXCEPT ![s].report = reporter.att, ![s].done = TRUE]
    BY <1>0, <1>1, <2>1
  <2>2. CASE cache' = [cache EXCEPT ![s].done = TRUE]
    <3>1. [cache[s] EXCEPT !.done = TRUE] = [cache[s] EXCEPT !.report = cache[s].report, !.done = TRUE]
      BY <1>3 DEF Entry
    <3>2. cache' = [cache EXCEPT ![s] = [cache[s] EXCEPT !.done = TRUE]]
      BY <1>0, <1>1, <2>2
    <3> QED
      BY <3>1, <3>2
  <2> QED
    BY <1>3, <2>1, <2>2 DEF FinishReport
<1>7. PICK b \in {cache[s].report, reporter.att} :
        cache' = [cache EXCEPT ![s] = [cache[s] EXCEPT !.report = b, !.done = TRUE]]
  BY <1>6
<1> DEFINE g == [cache[s] EXCEPT !.report = b, !.done = TRUE]
<1>8. /\ g.used /\ g.flow = cache[s].flow /\ g.ch = cache[s].ch /\ g.sh = cache[s].sh
      /\ g.requested = cache[s].requested /\ g.nonce = cache[s].nonce
      /\ g.started = cache[s].started /\ g.done /\ g.att = cache[s].att
      /\ g.report = b /\ g.delivered = cache[s].delivered
  BY <1>3 DEF Entry
<1>9. \A t \in Slots : cache'[t] = IF t = s THEN g ELSE cache[t]
  BY <1>0, <1>7
<1> HIDE DEF g
<1>10. IndexIsExact'
  BY <1>0, <1>3, <1>8, <1>9 DEF IndexIsExact
<1>11. EntriesAreStaged'
  <2>1. BindingOf(g) = BindingOf(cache[s])
    BY <1>8 DEF BindingOf
  <2>2. cache[s].report = NoBinding /\ ~cache[s].delivered
    BY <1>3, <1>4 DEF Staged
  <2>3. g.report # NoBinding => g.report = g.att
    BY <1>3, <1>8, <2>2
  <2>4. Staged(g)
    BY <1>3, <1>4, <1>8, <2>1, <2>2, <2>3 DEF Staged
  <2> QED
    BY <1>0, <1>9, <2>4 DEF EntriesAreStaged
<1>12. JobOwnsSlot'
  <2>1. \A i \in DOMAIN jobs : jobs[i].slot # s /\ jobs[i] \in Job /\ Owns(jobs[i])
    BY <1>0 DEF JobOwnsSlot, Pending, TypeOK
  <2>2. \A i \in DOMAIN jobs : Owns(jobs[i])'
    BY <1>0, <1>9, <2>1 DEF Owns, Job
  <2>3. \A j \in Pending' : Owns(j)'
    BY <1>0, <2>2 DEF Pending
  <2>4. Idle.slot = Nil
    BY DEF Idle
  <2>5. \A i \in DOMAIN jobs' : jobs'[i].slot # reporter'.slot
    BY <1>0, <2>1, <2>4, ServerAssumption DEF Job
  <2> QED
    BY <1>0, <2>3, <2>5 DEF JobOwnsSlot
<1>13. ServedOnce' /\ ResponseIsBound'
  <2>1. \A t \in Slots : cache[t].used => Keeps(t)
    BY <1>8, <1>9 DEF Keeps
  <2> QED
    BY <1>0, <1>10, <2>1, AllServiceKept
<1>14. HellosAreKept' /\ RecordsAreVerified'
  BY <1>0, <1>5 DEF HellosAreKept, RecordsAreVerified
<1> QED
  BY <1>10, <1>11, <1>12, <1>13, <1>14 DEF ServerInv

-----------------------------------------------------------------------------
(* The control workers.                                                      *)

\* A control step that moves its own connection only, and starts no service.
LEMMA LocalStepInv ==
  ASSUME TypeOK, TypeOK', ServerInv, NEW c \in Controls, NEW k,
         control' = [control EXCEPT ![c] = k],
         UNCHANGED <<cache, index, jobs, reporter, records>>, stats'.hellos = stats.hellos,
         Service(c)', Bound(c)',
         Serving(c)' => Serving(c) /\ k.ch = control[c].ch
  PROVE  ServerInv'
<1>0. /\ IndexIsExact /\ EntriesAreStaged /\ JobOwnsSlot /\ HellosAreKept /\ RecordsAreVerified
      /\ OneServes
      /\ \A d \in Controls : control'[d] = IF d = c THEN k ELSE control[d]
  BY ServiceByConnection DEF ServerInv, TypeOK
<1>1. IndexIsExact' /\ EntriesAreStaged' /\ HellosAreKept' /\ RecordsAreVerified'
  BY <1>0 DEF IndexIsExact, EntriesAreStaged, HellosAreKept, RecordsAreVerified
<1>2. JobOwnsSlot'
  BY <1>0 DEF JobOwnsSlot, Owns, Pending
<1>3. ServedOnce' /\ ResponseIsBound'
  <2>1. \A d \in Controls \ {c}, s \in Slots :
          Serving(d) /\ Lookup(control[d].ch) = s => Keeps(s)
    <3>1. \A s \in Slots : cache[s].used => Keeps(s)
      BY DEF Keeps
    <3> QED
      BY <1>0, <3>1, LookupIsExact
  <2>2. \A d \in Controls \ {c} :
          Serving(d) /\ Serving(c)' => control[d].ch # control'[c].ch
    BY <1>0 DEF OneServes
  <2> QED
    BY <1>0, <1>1, <2>1, <2>2, ServiceStep
<1> QED
  BY <1>1, <1>2, <1>3 DEF ServerInv

\* A connection that serves nothing afterwards.
LEMMA IdleStepInv ==
  ASSUME TypeOK, TypeOK', ServerInv, NEW c \in Controls, NEW k,
         control' = [control EXCEPT ![c] = k], k.pc \in {"none", "read", "register"},
         UNCHANGED <<cache, index, jobs, reporter, records>>, stats'.hellos = stats.hellos
  PROVE  ServerInv'
<1>1. control'[c] = k
  BY DEF TypeOK
<1>2. ~Serving(c)' /\ ~Responding(c)'
  BY <1>1 DEF Serving, Responding, At
<1> QED
  BY <1>2, LocalStepInv DEF Service, Bound

LEMMA ControlMoves ==
  ASSUME TypeOK, NEW c \in Controls
  PROVE  /\ Leave(c) => control' = [control EXCEPT ![c] = NewControl("none")]
         /\ \A pc : Goto(c, pc) => control' = [control EXCEPT ![c] = [control[c] EXCEPT !.pc = pc]]
         /\ \A pc : NewControl(pc).pc = pc
         /\ \A pc, ch, nonce :
              [NewControl("register") EXCEPT !.ch = ch, !.nonce = nonce].pc = "register"
         /\ \A pc : /\ [control[c] EXCEPT !.pc = pc].pc = pc
                    /\ [control[c] EXCEPT !.pc = pc].ch = control[c].ch
                    /\ [control[c] EXCEPT !.pc = pc].nonce = control[c].nonce
                    /\ [control[c] EXCEPT !.pc = pc].att = control[c].att
                    /\ [control[c] EXCEPT !.pc = pc].report = control[c].report
                    /\ [control[c] EXCEPT !.pc = pc].valid = control[c].valid
<1>1. control[c] \in Control /\ control \in [Controls -> Control]
  BY DEF TypeOK
<1>2. \A pc : Goto(c, pc) => control' = [control EXCEPT ![c] = [control[c] EXCEPT !.pc = pc]]
  BY <1>1 DEF Goto
<1>3. Leave(c) => control' = [control EXCEPT ![c] = NewControl("none")]
  BY DEF Leave
<1>4. \A pc : NewControl(pc).pc = pc
  BY DEF NewControl
<1>5. \A ch, nonce : [NewControl("register") EXCEPT !.ch = ch, !.nonce = nonce].pc = "register"
  BY DEF NewControl
<1>6. \A pc : /\ [control[c] EXCEPT !.pc = pc].pc = pc
                    /\ [control[c] EXCEPT !.pc = pc].ch = control[c].ch
                    /\ [control[c] EXCEPT !.pc = pc].nonce = control[c].nonce
                    /\ [control[c] EXCEPT !.pc = pc].att = control[c].att
                    /\ [control[c] EXCEPT !.pc = pc].report = control[c].report
                    /\ [control[c] EXCEPT !.pc = pc].valid = control[c].valid
  BY <1>1 DEF Control
<1> QED
  BY <1>2, <1>3, <1>4, <1>5, <1>6

LEMMA ReadClientReportInv ==
  ASSUME TypeOK, TypeOK', ServerInv, NEW c \in Controls, ReadClientReport(c)
  PROVE  ServerInv'
<1>1. PICK valid \in BOOLEAN : control' = [control EXCEPT ![c].pc = "wait", ![c].valid = valid]
  BY DEF ReadClientReport
<1> DEFINE k == [control[c] EXCEPT !.pc = "wait", !.valid = valid]
<1>2. control \in [Controls -> Control] /\ control[c] \in Control
  BY DEF TypeOK
<1>3. control' = [control EXCEPT ![c] = k]
  BY <1>1, <1>2
<1>4. k.pc = "wait" /\ k.ch = control[c].ch /\ k.nonce = control[c].nonce
  BY <1>2 DEF Control
<1> HIDE DEF k
<1>5. control'[c] = k
  BY <1>2, <1>3
<1>6. UNCHANGED <<cache, index, jobs, records, stats, reporter>> /\ At(c, "client")
  BY DEF ReadClientReport, ControlLocal
<1>7. Serving(c) /\ ~Responding(c) /\ Serving(c)' /\ ~Responding(c)'
  BY <1>4, <1>5, <1>6 DEF Serving, Responding, At
<1>8. Service(c)'
  <2>1. Service(c)
    BY ServiceByConnection DEF ServerInv
  <2>2. Lookup(control[c].ch)' = Lookup(control[c].ch)
    BY <1>4, <1>5, <1>6 DEF Lookup
  <2> QED
    BY <1>4, <1>5, <1>6, <1>7, <2>1, <2>2 DEF Service
<1>9. Bound(c)'
  BY <1>7 DEF Bound
<1> QED
  BY <1>3, <1>4, <1>6, <1>7, <1>8, <1>9, LocalStepInv

LEMMA RespondInv ==
  ASSUME TypeOK, TypeOK', ServerInv, NEW c \in Controls, Respond(c)
  PROVE  ServerInv'
<1>1. /\ UNCHANGED <<cache, index, jobs, records, reporter>> /\ At(c, "respond")
      /\ stats \in Stats
  BY DEF Respond, ControlLocal, TypeOK
<1>2. stats'.hellos = stats.hellos
  <2>1. /\ [stats EXCEPT !.failed = TRUE].hellos = stats.hellos
        /\ \A n : [stats EXCEPT !.verified = n].hellos = stats.hellos
    BY <1>1 DEF Stats
  <2> QED
    BY <2>1 DEF Respond
<1>3. CASE Leave(c)
  BY <1>1, <1>2, <1>3, ControlMoves, IdleStepInv
<1>4. CASE Goto(c, "verdict") /\ (Mutual => control[c].valid)
  <2> DEFINE k == [control[c] EXCEPT !.pc = "verdict"]
  <2>1. control' = [control EXCEPT ![c] = k]
    BY <1>4, ControlMoves
  <2>2. /\ k.pc = "verdict" /\ k.ch = control[c].ch /\ k.nonce = control[c].nonce
        /\ k.att = control[c].att /\ k.report = control[c].report /\ k.valid = control[c].valid
    BY ControlMoves
  <2> HIDE DEF k
  <2>3. control'[c] = k
    BY <2>1 DEF TypeOK
  <2>4. Serving(c) /\ Responding(c) /\ Serving(c)' /\ Responding(c)'
    BY <1>1, <2>2, <2>3 DEF Serving, Responding, At
  <2>5. Service(c) /\ Bound(c)
    BY ServiceByConnection DEF ServerInv
  <2>6. Lookup(control[c].ch)' = Lookup(control[c].ch)
    BY <1>1, <2>2, <2>3 DEF Lookup
  <2>7. Service(c)'
    BY <1>1, <2>2, <2>3, <2>4, <2>5, <2>6 DEF Service
  <2>8. Bound(c)'
    BY <1>1, <1>4, <2>2, <2>3, <2>4, <2>5, <2>6 DEF Bound
  <2> QED
    BY <1>1, <1>2, <2>1, <2>2, <2>4, <2>7, <2>8, LocalStepInv
<1> QED
  BY <1>3, <1>4 DEF Respond

\* A registration takes an entry nobody has asked for, which no connection serves.
LEMMA RegisterInv ==
  ASSUME TypeOK, TypeOK', ServerInv, NEW c \in Controls, Register(c)
  PROVE  ServerInv'
<1> DEFINE s == Lookup(control[c].ch)
           e == [cache[s] EXCEPT !.requested = TRUE, !.nonce = control[c].nonce]
<1>0. /\ IndexIsExact /\ EntriesAreStaged /\ JobOwnsSlot /\ HellosAreKept /\ RecordsAreVerified
      /\ OneServes /\ \A d \in Controls : Service(d)
      /\ cache \in [Slots -> Entry \cup {NoEntry}]
      /\ control \in [Controls -> Control]
  BY ServiceByConnection DEF ServerInv, TypeOK
<1>1. /\ At(c, "register") /\ ~cache[s].requested
      /\ cache' = [cache EXCEPT ![s] = Scheduled(e)]
      /\ jobs' = JobsWith(s, e)
      /\ UNCHANGED <<index, records, stats, reporter>>
      /\ Leave(c) \/ Goto(c, IF Mutual THEN "client" ELSE "wait")
  BY DEF Register, ControlLocal
<1>2. /\ s \in Slots /\ cache[s] \in Entry /\ cache[s].ch = control[c].ch
      /\ control[c].ch \in HelloKeys /\ control[c].nonce \in Nonces \cup {NoNonce}
  BY <1>0, LookupType DEF Register, Control
<1>3. cache[s].used /\ Staged(cache[s])
  BY <1>0, <1>2, EntryType DEF EntriesAreStaged, Entry
<1>4. e \in Entry
  BY <1>2, EntryUpdates
<1>5. /\ e.used /\ e.ch = cache[s].ch /\ e.sh = cache[s].sh /\ e.flow = cache[s].flow
      /\ e.requested /\ e.nonce = control[c].nonce /\ e.started = cache[s].started
      /\ e.done = cache[s].done /\ e.att = cache[s].att /\ e.report = cache[s].report
      /\ e.delivered = cache[s].delivered
  BY <1>2 DEF Entry
<1> HIDE DEF e, s
<1>6. \A t \in Slots : cache'[t] = IF t = s THEN Scheduled(e) ELSE cache[t]
  BY <1>0, <1>1
<1>7. Scheduled(e).used /\ Scheduled(e).ch = cache[s].ch /\ Scheduled(e).requested
      /\ Scheduled(e).nonce = control[c].nonce /\ ~Scheduled(e).delivered
  BY <1>1, <1>3, <1>4, <1>5, ScheduledFields DEF Staged
<1>8. IndexIsExact'
  BY <1>0, <1>1, <1>3, <1>6, <1>7 DEF IndexIsExact
<1>9. EntriesAreStaged'
  <2>1. cache[s].started => ~Mutual /\ BindingOf(e) = BindingOf(cache[s])
    BY <1>1, <1>3, <1>5 DEF Staged, BindingOf
  <2>2. Staged(e)
    BY <1>1, <1>2, <1>3, <1>5, <2>1, NoHelloIsNoKey DEF Staged
  <2>3. Staged(Scheduled(e))
    BY <1>4, <2>2, ScheduledIsStaged
  <2> QED
    BY <1>0, <1>6, <2>3 DEF EntriesAreStaged
<1>10. JobOwnsSlot'
  BY <1>0, <1>1, <1>2, <1>4, <1>5, ScheduleOwns
<1>11. ServedOnce' /\ ResponseIsBound'
  <2>1. ASSUME NEW d \in Controls, Serving(d)
        PROVE  control[d].ch # control[c].ch /\ Lookup(control[d].ch) # s
    <3>1. Lookup(control[d].ch) # s
      BY <1>0, <1>1, <2>1 DEF Service
    <3> QED
      BY <3>1 DEF s
  <2>2. \A d \in Controls \ {c} : control'[d] = control[d]
    BY <1>0, <1>1, ControlMoves DEF Leave
  <2>3. \A d \in Controls \ {c}, t \in Slots :
          Serving(d) /\ Lookup(control[d].ch) = t => Keeps(t)
    <3>1. \A t \in Slots : cache[t].used /\ t # s => Keeps(t)
      BY <1>6 DEF Keeps
    <3> QED
      BY <1>0, <2>1, <3>1, LookupIsExact
  <2>4. /\ Service(c)' /\ Bound(c)'
        /\ \A d \in Controls \ {c} : Serving(d) /\ Serving(c)' => control[d].ch # control'[c].ch
    <3>1. CASE Leave(c)
      <4>1. control'[c].pc = "none"
        BY <1>0, <3>1 DEF Leave, NewControl
      <4> QED
        BY <4>1 DEF Service, Bound, Serving, Responding, At
    <3>2. CASE Goto(c, IF Mutual THEN "client" ELSE "wait")
      <4> DEFINE pc == IF Mutual THEN "client" ELSE "wait"
      <4>1. control' = [control EXCEPT ![c] = [control[c] EXCEPT !.pc = pc]]
        BY <3>2, ControlMoves
      <4>2. /\ control'[c].pc \in {"client", "wait"}
            /\ control'[c].ch = control[c].ch /\ control'[c].nonce = control[c].nonce
        <5>1. control'[c] = [control[c] EXCEPT !.pc = pc]
          BY <1>0, <4>1
        <5> QED
          BY <5>1, ControlMoves
      <4>3. ~Responding(c)'
        BY <4>2 DEF Responding, At
      <4>4. Lookup(control[c].ch)' = s
        BY <1>2, <1>6, <1>7, <1>8, <4>2, LookupIsExactNext
      <4>5. Service(c)'
        <5>1. s # Nil
          BY <1>2, ServerAssumption
        <5> QED
          BY <1>2, <1>6, <1>7, <4>2, <4>3, <4>4, <5>1 DEF Service
      <4> QED
        BY <2>1, <4>2, <4>3, <4>5 DEF Bound
    <3> QED
      BY <1>1, <3>1, <3>2
  <2> QED
    BY <1>8, <2>2, <2>3, <2>4, ServiceStep
<1>12. HellosAreKept' /\ RecordsAreVerified'
  BY <1>0, <1>1 DEF HellosAreKept, RecordsAreVerified
<1> QED
  BY <1>8, <1>9, <1>10, <1>11, <1>12 DEF ServerInv

\* What is taken is what the entry's report attests, settled when it was started.
LEMMA TakeDeliveryInv ==
  ASSUME TypeOK, TypeOK', ServerInv, NEW c \in Controls, TakeDelivery(c)
  PROVE  ServerInv'
<1> DEFINE s == Lookup(control[c].ch)
           g == [cache[s] EXCEPT !.delivered = TRUE]
           k == [control[c] EXCEPT !.pc = "respond", !.att = cache[s].att,
                                   !.report = cache[s].report]
<1>0. /\ IndexIsExact /\ EntriesAreStaged /\ JobOwnsSlot /\ HellosAreKept /\ RecordsAreVerified
      /\ OneServes /\ \A d \in Controls : Service(d)
      /\ cache \in [Slots -> Entry \cup {NoEntry}]
      /\ control \in [Controls -> Control] /\ control[c] \in Control
  BY ServiceByConnection DEF ServerInv, TypeOK
<1>1. /\ At(c, "wait") /\ cache[s].requested /\ cache[s].report # NoBinding
      /\ cache[s].nonce = control[c].nonce
      /\ UNCHANGED <<index, jobs, records, stats, reporter>>
  BY DEF TakeDelivery, ControlLocal
<1>2. /\ s \in Slots /\ cache[s] \in Entry /\ cache[s].ch = control[c].ch
      /\ control[c].ch \in HelloKeys
  BY <1>0, LookupType DEF TakeDelivery
<1>3. cache' = [cache EXCEPT ![s] = g] /\ control' = [control EXCEPT ![c] = k]
  BY <1>0, <1>2 DEF TakeDelivery
<1>4. cache[s].used /\ Staged(cache[s])
  BY <1>0, <1>2, EntryType DEF EntriesAreStaged, Entry
<1>5. /\ g.used /\ g.ch = cache[s].ch /\ g.sh = cache[s].sh /\ g.flow = cache[s].flow
      /\ g.requested = cache[s].requested /\ g.nonce = cache[s].nonce
      /\ g.started = cache[s].started /\ g.done = cache[s].done /\ g.att = cache[s].att
      /\ g.report = cache[s].report /\ g.delivered
  BY <1>2 DEF Entry
<1>6. /\ k.pc = "respond" /\ k.ch = control[c].ch /\ k.nonce = control[c].nonce
      /\ k.att = cache[s].att /\ k.report = cache[s].report
  BY <1>0 DEF Control
<1> HIDE DEF g, k, s
<1>7. \A t \in Slots : cache'[t] = IF t = s THEN g ELSE cache[t]
  BY <1>0, <1>3
<1>8. \A d \in Controls : control'[d] = IF d = c THEN k ELSE control[d]
  BY <1>0, <1>3
<1>9. IndexIsExact'
  BY <1>0, <1>1, <1>4, <1>5, <1>7 DEF IndexIsExact
<1>10. EntriesAreStaged'
  <2>1. BindingOf(g) = BindingOf(cache[s])
    BY <1>5 DEF BindingOf
  <2>2. Staged(g)
    BY <1>1, <1>4, <1>5, <2>1 DEF Staged
  <2> QED
    BY <1>0, <1>7, <2>2 DEF EntriesAreStaged
<1>11. JobOwnsSlot'
  BY <1>0, <1>1, <1>5, <1>7, JobsFrame
<1>12. ServedOnce' /\ ResponseIsBound'
  <2>0. Serving(c) /\ Serving(c)' /\ Responding(c)' /\ ~At(c, "verdict")'
    BY <1>1, <1>6, <1>8 DEF Serving, Responding, At
  <2>1. \A d \in Controls \ {c} : Serving(d) => control[d].ch # control[c].ch
    BY <1>0, <2>0 DEF OneServes
  <2>2. \A d \in Controls \ {c}, t \in Slots :
          Serving(d) /\ Lookup(control[d].ch) = t => Keeps(t)
    <3>1. \A t \in Slots : cache[t].used /\ t # s => Keeps(t)
      BY <1>7 DEF Keeps
    <3> QED
      BY <1>0, <1>2, <2>1, <3>1, LookupIsExact
  <2>3. Lookup(control[c].ch)' = s
    BY <1>2, <1>4, <1>5, <1>6, <1>7, <1>8, <1>9, LookupIsExactNext
  <2>4. Service(c)'
    <3>1. s # Nil
      BY <1>2, ServerAssumption
    <3> QED
      BY <1>1, <1>2, <1>5, <1>6, <1>7, <1>8, <2>0, <2>3, <3>1, ZenonT(30) DEF Service
  <2>5. Bound(c)'
    <3>1. k.report = k.att /\ k.att = BindingOf(cache[s])
      BY <1>1, <1>4, <1>6 DEF Staged
    <3>2. /\ k.att.sh = cache[s].sh
          /\ Mutual => k.att.ch = k.ch /\ k.att.nonce = k.nonce
      BY <1>1, <1>2, <1>6, <3>1 DEF BindingOf
    <3> QED
      BY <1>2, <1>5, <1>7, <1>8, <2>0, <2>3, <3>1, <3>2 DEF Bound
  <2>6. \A d \in Controls \ {c} : Serving(d) /\ Serving(c)' => control[d].ch # control'[c].ch
    BY <1>6, <1>8, <2>1
  <2> QED
    BY <1>8, <1>9, <2>2, <2>4, <2>5, <2>6, ServiceStep
<1>13. HellosAreKept' /\ RecordsAreVerified'
  BY <1>0, <1>1 DEF HellosAreKept, RecordsAreVerified
<1> QED
  BY <1>9, <1>10, <1>11, <1>12, <1>13 DEF ServerInv

\* The verdict frees an entry whose report is done, so no job is left without its slot,
\* and takes its key out of the index; no other connection served it.
LEMMA ReadVerdictInv ==
  ASSUME TypeOK, TypeOK', ServerInv, NEW c \in Controls, ReadVerdict(c)
  PROVE  ServerInv'
<1> DEFINE s == Lookup(control[c].ch)
           k == NewControl(IF stopping THEN "none" ELSE "read")
<1>0. /\ IndexIsExact /\ EntriesAreStaged /\ JobOwnsSlot /\ HellosAreKept /\ RecordsAreVerified
      /\ OneServes /\ \A d \in Controls : Service(d) /\ Bound(d)
      /\ cache \in [Slots -> Entry \cup {NoEntry}]
      /\ index \in [HelloKeys -> Slots \cup {Nil}]
      /\ control \in [Controls -> Control]
      /\ records \in Seq(Record) /\ Len(records) \in Nat
  BY ServiceByConnection, LenProperties DEF ServerInv, TypeOK
<1>1. At(c, "verdict") /\ UNCHANGED <<jobs, stats, reporter>>
  BY DEF ReadVerdict, ControlLocal
<1>2. control' = [control EXCEPT ![c] = k] /\ k.pc \in {"none", "read"}
  BY ControlMoves DEF ReadVerdict
<1> HIDE DEF k
<1>3. CASE UNCHANGED <<records, index, cache>>
  BY <1>1, <1>2, <1>3, IdleStepInv
<1>4. ASSUME NEW r, s # Nil, cache[s].delivered, records' = Append(records, r), r.verified,
             r \in Record,
             index' = [index EXCEPT ![control[c].ch] = Nil], cache' = [cache EXCEPT ![s] = NoEntry]
      PROVE  ServerInv'
  <2> DEFINE ch == control[c].ch
  <2>1. s \in Slots /\ cache[s] \in Entry /\ cache[s].ch = ch /\ ch \in HelloKeys /\ index[ch] = s
    BY <1>4, LookupType
  <2>2. cache[s].used /\ Staged(cache[s])
    BY <1>0, <2>1, EntryType DEF EntriesAreStaged, Entry
  <2>3. cache[s].started /\ cache[s].done
    BY <1>4, <2>2 DEF Staged
  <2>4. ~NoEntry.used
    BY DEF NoEntry, NewEntry
  <2> HIDE DEF s, ch
  <2>5. \A t \in Slots : cache'[t] = IF t = s THEN NoEntry ELSE cache[t]
    BY <1>0, <1>4
  <2>6. \A q \in HelloKeys : index'[q] = IF q = ch THEN Nil ELSE index[q]
    BY <1>0, <1>4 DEF ch
  <2>7. \A d \in Controls : control'[d] = IF d = c THEN k ELSE control[d]
    BY <1>0, <1>2
  <2>8. IndexIsExact'
    <3> SUFFICES ASSUME NEW q \in HelloKeys, NEW t \in Slots
                 PROVE  index'[q] = t <=> cache'[t].used /\ cache'[t].ch = q
      BY DEF IndexIsExact
    <3>1. CASE q = ch
      BY <1>0, <2>1, <2>4, <2>5, <2>6, <3>1, ServerAssumption DEF IndexIsExact
    <3>2. CASE q # ch
      BY <1>0, <2>1, <2>4, <2>5, <2>6, <3>2 DEF IndexIsExact
    <3> QED
      BY <3>1, <3>2
  <2>9. EntriesAreStaged'
    BY <1>0, <2>4, <2>5 DEF EntriesAreStaged
  <2>10. JobOwnsSlot'
    <3>0. \A j \in Pending : j \in Job
      BY DEF Pending, TypeOK
    <3>1. \A j \in Pending : j.slot # s /\ j.slot \in Slots
      BY <1>0, <2>3, <3>0 DEF JobOwnsSlot, Owns, Job
    <3>2. \A j \in Pending : Owns(j)'
      BY <1>0, <2>5, <3>1 DEF JobOwnsSlot, Owns
    <3> QED
      BY <1>0, <1>1, <3>2 DEF JobOwnsSlot, Pending
  <2>11. ServedOnce' /\ ResponseIsBound'
    <3>0. Serving(c) /\ ~Serving(c)' /\ ~Responding(c)'
      BY <1>1, <1>2, <2>7 DEF Serving, Responding, At
    <3>1. \A d \in Controls \ {c} : Serving(d) => control[d].ch # ch
      BY <1>0, <3>0 DEF OneServes, ch
    <3>2. \A d \in Controls \ {c}, t \in Slots :
            Serving(d) /\ Lookup(control[d].ch) = t => Keeps(t)
      <4>1. \A t \in Slots : cache[t].used /\ t # s => Keeps(t)
        BY <2>5 DEF Keeps
      <4> QED
        BY <1>0, <2>1, <3>1, <4>1, LookupIsExact
    <3>3. Service(c)' /\ Bound(c)'
      BY <3>0 DEF Service, Bound
    <3> QED
      BY <2>7, <2>8, <3>0, <3>2, <3>3, ServiceStep
  <2>12. HellosAreKept'
    <3>1. Keys' = Keys \ {ch} /\ ch \in Keys
      BY <2>1, <2>6, ServerAssumption DEF Keys
    <3>2. Cardinality(Keys') = Cardinality(Keys) - 1
      BY <3>1, KeysFinite, FS_RemoveElement
    <3>3. Len(records') = Len(records) + 1
      BY <1>0, <1>4, AppendProperties
    <3>4. stats.hellos = Len(records) + Cardinality(Keys)
      BY <1>0 DEF HellosAreKept, Keys
    <3>5. stats'.hellos = Len(records') + Cardinality(Keys')
      BY <1>0, <1>1, <3>2, <3>3, <3>4, KeysFinite
    <3> QED
      BY <3>5 DEF HellosAreKept, Keys
  <2>13. RecordsAreVerified'
    <3>1. \A i \in DOMAIN records' : records'[i] = IF i = Len(records) + 1 THEN r ELSE records[i]
      BY <1>0, <1>4, AppendProperties
    <3>2. \A i \in DOMAIN records' : i # Len(records) + 1 => i \in DOMAIN records
      BY <1>0, <1>4, AppendProperties
    <3> QED
      BY <1>0, <1>4, <3>1, <3>2 DEF RecordsAreVerified
  <2> QED
    BY <2>8, <2>9, <2>10, <2>11, <2>12, <2>13 DEF ServerInv
<1>5. PICK admitted \in BOOLEAN : RecordVerdict(c, admitted)
  BY DEF ReadVerdict
<1>6. CASE s # Nil /\ cache[s].delivered /\ Len(records) < Expected
  <2> DEFINE r == [ch |-> control[c].ch, admitted |-> admitted,
                   verified |-> Mutual => control[c].valid]
  <2>1. r.verified
    BY <1>0, <1>1 DEF Bound, Responding
  <2>2. r \in Record
    <3>1. control[c].ch \in HelloKeys
      BY <1>6, LookupType
    <3>2. (Mutual => control[c].valid) \in BOOLEAN
      OBVIOUS
    <3> QED
      BY <3>1, <3>2 DEF Record
  <2>3. /\ records' = Append(records, r)
        /\ index' = [index EXCEPT ![control[c].ch] = Nil]
        /\ cache' = [cache EXCEPT ![s] = NoEntry]
    BY <1>5, <1>6 DEF RecordVerdict
  <2> HIDE DEF r, s
  <2> QED
    BY <1>4, <1>6, <2>1, <2>2, <2>3
<1> QED
  BY <1>3, <1>5, <1>6 DEF RecordVerdict

LEMMA ControlWorkerInv ==
  ASSUME TypeOK, TypeOK', ServerInv, NEW c \in Controls, ControlWorker(c)
  PROVE  ServerInv'
<1>1. CASE Accept(c)
  BY <1>1, ControlMoves, IdleStepInv DEF Accept, ControlLocal
<1>2. CASE ReadRequest(c)
  <2>1. PICK ch \in HelloKeys, nonce \in Nonces :
          control' = [control EXCEPT ![c] = [NewControl("register") EXCEPT
                                               !.ch = ch, !.nonce = nonce]]
    BY <1>2 DEF ReadRequest
  <2> DEFINE k == [NewControl("register") EXCEPT !.ch = ch, !.nonce = nonce]
  <2>2. k.pc = "register"
    BY ControlMoves
  <2>3. UNCHANGED <<cache, index, jobs, records, stats, reporter>>
    BY <1>2 DEF ReadRequest, ControlLocal
  <2> HIDE DEF k
  <2>4. control' = [control EXCEPT ![c] = k]
    BY <2>1 DEF k
  <2> QED
    BY <2>2, <2>3, <2>4, IdleStepInv
<1>3. CASE GiveUp(c)
  BY <1>3, ControlMoves, IdleStepInv DEF GiveUp, ControlLocal
<1>4. CASE Disconnect(c)
  BY <1>4, ControlMoves, IdleStepInv DEF Disconnect, ControlLocal
<1>5. CASE Register(c)
  BY <1>5, RegisterInv
<1>6. CASE ReadClientReport(c)
  BY <1>6, ReadClientReportInv
<1>7. CASE TakeDelivery(c)
  BY <1>7, TakeDeliveryInv
<1>8. CASE Respond(c)
  BY <1>8, RespondInv
<1>9. CASE ReadVerdict(c)
  BY <1>9, ReadVerdictInv
<1> QED
  BY <1>1, <1>2, <1>3, <1>4, <1>5, <1>6, <1>7, <1>8, <1>9 DEF ControlWorker

-----------------------------------------------------------------------------
(* The theorems.                                                             *)

LEMMA InitInv == Init => ServerInv
<1> SUFFICES ASSUME Init PROVE ServerInv
  OBVIOUS
<1>1. /\ \A s \in Slots : cache[s] = NoEntry /\ ~cache[s].used
      /\ \A ch \in HelloKeys : index[ch] = Nil
      /\ \A c \in Controls : control[c].pc = "none"
      /\ jobs = <<>> /\ records = <<>> /\ reporter = Idle /\ stats.hellos = 0
  BY DEF Init, NoEntry, NewEntry, NewControl
<1>2. IndexIsExact
  BY <1>1, ServerAssumption DEF IndexIsExact
<1>3. EntriesAreStaged
  BY <1>1 DEF EntriesAreStaged
<1>4. DOMAIN jobs = {} /\ DOMAIN records = {} /\ Len(records) = 0
  BY <1>1, EmptySeq
<1>5. JobOwnsSlot /\ RecordsAreVerified
  BY <1>1, <1>4 DEF JobOwnsSlot, Pending, RecordsAreVerified
<1>6. ServedOnce /\ ResponseIsBound
  <2>1. \A c \in Controls : ~Serving(c) /\ ~Responding(c)
    BY <1>1 DEF Serving, Responding, At
  <2> QED
    BY <2>1, ServiceByConnection DEF Service, Bound, OneServes
<1>7. HellosAreKept
  <2>1. {ch \in HelloKeys : index[ch] # Nil} = {}
    BY <1>1
  <2> QED
    BY <1>1, <1>4, <2>1, FS_EmptySet DEF HellosAreKept
<1> QED
  BY <1>2, <1>3, <1>5, <1>6, <1>7 DEF ServerInv

LEMMA NextInv == TypeInv /\ TypeInv' /\ ServerInv /\ [Next]_vars => ServerInv'
<1> SUFFICES ASSUME TypeInv, TypeInv', ServerInv, [Next]_vars
             PROVE  ServerInv'
  OBVIOUS
<1>0. TypeOK /\ TypeOK'
  BY DEF TypeInv
<1>1. ASSUME NEW f \in Flows, Network(f) PROVE ServerInv'
  BY <1>1, InvFrame DEF Network, Connect, Establish, Close, Capture
<1>2. CASE Observer
  BY <1>0, <1>2, ObserverInv
<1>3. CASE Reporter
  BY <1>0, <1>3, TakeReportInv, FinishReportInv DEF Reporter
<1>4. ASSUME NEW c \in Controls, ControlWorker(c) PROVE ServerInv'
  BY <1>0, <1>4, ControlWorkerInv
<1>5. CASE Main
  BY <1>5, InvFrame DEF Main, Stop, ControlsStopped, Exit
<1>6. CASE UNCHANGED vars
  BY <1>6, InvFrame DEF vars
<1> QED
  BY <1>1, <1>2, <1>3, <1>4, <1>5, <1>6 DEF Next

\* The index, the stages of the entries, the jobs and the connections agree in every
\* reachable state, for any number of slots, flows, connections and clients.
THEOREM Invariance == Spec => []ServerInv
<1>1. Init => ServerInv
  BY InitInv
<1>2. TypeInv /\ TypeInv' /\ ServerInv /\ [Next]_vars => ServerInv'
  BY NextInv
<1> QED
  BY <1>1, <1>2, TypeInvariance, PTL DEF Spec

\* An observed ClientHello can be looked up, at its own entry, and nothing else can.
THEOREM IndexExact == Spec => []IndexIsExact
<1>1. ServerInv => IndexIsExact
  BY DEF ServerInv
<1> QED
  BY <1>1, Invariance, PTL

\* No slot is freed or given away while a report for it is on its way.
THEOREM JobsOwnSlots == Spec => []JobOwnsSlot
<1>1. ServerInv => JobOwnsSlot
  BY DEF ServerInv
<1> QED
  BY <1>1, Invariance, PTL

\* One connection at a time serves a ClientHello, and it finds its own request there.
THEOREM Served == Spec => []ServedOnce
<1>1. ServerInv => ServedOnce
  BY DEF ServerInv
<1> QED
  BY <1>1, Invariance, PTL

\* The report in a response attests the ServerHello, and in mutual mode the client's
\* ClientHello and nonce, of the entry the response is about.
THEOREM ResponsesAreBound == Spec => []ResponseIsBound
<1>1. ServerInv => ResponseIsBound
  BY DEF ServerInv
<1> QED
  BY <1>1, Invariance, PTL

\* Every ClientHello that was counted is still in the cache or on record.
THEOREM NoHelloIsLost == Spec => []HellosAreKept
<1>1. ServerInv => HellosAreKept
  BY DEF ServerInv
<1> QED
  BY <1>1, Invariance, PTL

\* A server that exits with success has recorded an admitted and verified session for
\* every ClientHello it observed, and has none left in its cache.
THEOREM SuccessIsClean == Spec => []CompleteIsClean
<1>1. TypeInv /\ ServerInv => CompleteIsClean
  <2> SUFFICES ASSUME TypeInv, ServerInv, Complete
               PROVE  /\ \A s \in Slots : cache[s].ch = NoHello
                      /\ \A i \in DOMAIN records : records[i].admitted /\ records[i].verified
    BY DEF CompleteIsClean
  <2>0. TypeOK /\ IndexIsExact /\ RecordsAreVerified /\ HellosAreKept
    BY DEF TypeInv, ServerInv
  <2>1. Cardinality(Keys) = 0
    <3>1. Len(records) \in Nat
      BY <2>0, LenProperties DEF TypeOK
    <3>2. stats.hellos = Len(records) + Cardinality(Keys)
      BY <2>0 DEF HellosAreKept, Keys
    <3>3. stats.hellos = Len(records)
      BY DEF Complete
    <3> QED
      BY <3>1, <3>2, <3>3, KeysFinite
  <2>2. Keys = {}
    BY <2>1, KeysFinite, FS_EmptySet
  <2>3. ASSUME NEW s \in Slots PROVE cache[s].ch = NoHello
    <3>1. CASE cache[s].used
      <4>1. cache[s].ch \in HelloKeys \cup {NoHello}
        BY <2>0, <3>1, EntryType DEF Entry
      <4>2. cache[s].ch \notin HelloKeys
        BY <2>0, <2>2, <3>1, ServerAssumption DEF Keys, IndexIsExact
      <4> QED
        BY <4>1, <4>2
    <3>2. CASE ~cache[s].used
      BY <2>0, <3>2, EntryType DEF NoEntry, NewEntry
    <3> QED
      BY <3>1, <3>2
  <2>4. \A i \in DOMAIN records : records[i].admitted /\ records[i].verified
    BY <2>0 DEF Complete, RecordsAreVerified
  <2> QED
    BY <2>3, <2>4
<1> QED
  BY <1>1, Invariance, TypeInvariance, PTL

-----------------------------------------------------------------------------
(* The entries of requesters that have gone.                                 *)

StaysAbandoned(s) ==
  /\ Abandoned(s)'
  /\ cache'[s].ch = cache[s].ch
  /\ cache'[s].delivered = cache[s].delivered

\* It is enough that a step keeps the entry and that no connection starts to serve it.
LEMMA AbandonedKept ==
  ASSUME TypeOK, TypeOK', ServerInv, ServerInv', NEW s \in Slots, Abandoned(s), Keeps(s),
         \A c \in Controls : Serving(c)' =>
           \/ Serving(c) /\ control'[c].ch = control[c].ch
           \/ control'[c].ch # cache[s].ch
  PROVE  StaysAbandoned(s)
<1>1. IndexIsExact /\ IndexIsExact'
  BY DEF ServerInv
<1>2. ASSUME NEW c \in Controls, Serving(c)', Lookup(control[c].ch)' = s
      PROVE  FALSE
  <2>1. /\ control'[c].ch \in HelloKeys
        /\ control'[c].ch = cache'[s].ch
    BY <1>1, <1>2, LookupIsExactNext
  <2>2. Serving(c) /\ control[c].ch = cache[s].ch /\ control[c].ch \in HelloKeys
    BY <1>2, <2>1 DEF Keeps
  <2>3. Lookup(control[c].ch) = s
    BY <1>1, <2>2, LookupIsExact DEF Abandoned
  <2> QED
    BY <2>2, <2>3 DEF Abandoned
<1> QED
  BY <1>2 DEF Abandoned, StaysAbandoned, Keeps

\* An entry that was asked for has a ClientHello.
LEMMA AbandonedHasHello ==
  ASSUME ServerInv, NEW s \in Slots, Abandoned(s)
  PROVE  cache[s].ch # NoHello
BY DEF ServerInv, EntriesAreStaged, Staged, Abandoned

\* Steps that leave the cache, and start to serve nothing.
LEMMA AbandonedFrame ==
  ASSUME TypeOK, TypeOK', ServerInv, ServerInv', NEW s \in Slots, Abandoned(s),
         UNCHANGED cache,
         \A c \in Controls : Serving(c)' => Serving(c) /\ control'[c].ch = control[c].ch
  PROVE  StaysAbandoned(s)
<1>1. Keeps(s)
  BY DEF Keeps, Abandoned
<1> QED
  BY <1>1, AbandonedKept

LEMMA AbandonedIdle ==
  ASSUME TypeOK, TypeOK', ServerInv, ServerInv', NEW s \in Slots, Abandoned(s),
         UNCHANGED <<cache, control>>
  PROVE  StaysAbandoned(s)
<1>1. \A c \in Controls : Serving(c)' => Serving(c) /\ control'[c].ch = control[c].ch
  BY DEF Serving, At
<1> QED
  BY <1>1, AbandonedFrame

\* The observer takes entries without a ClientHello, or adds a ServerHello.
LEMMA AbandonedObserver ==
  ASSUME TypeInv, TypeOK', ServerInv, ServerInv', NEW s \in Slots, Abandoned(s), Observer
  PROVE  StaysAbandoned(s)
<1>0. /\ TypeOK
      /\ \A f \in Flows : sock[f].est => sock[f].id \in Conns
      /\ seen \in Conns \cup {0}
      /\ stash \in [Flows -> Stash \cup {NoStash}]
      /\ IndexIsExact
      /\ cache \in [Slots -> Entry \cup {NoEntry}]
      /\ UNCHANGED control
  BY DEF TypeInv, TypeOK, ServerInv, Observer, DispatchHello, RecoverHello,
         DispatchServerHello, ExpireStash
<1>1. SUFFICES ASSUME ~UNCHANGED cache
               PROVE  StaysAbandoned(s)
  BY <1>0, AbandonedIdle
<1>2. SUFFICES Keeps(s)
  <2>1. \A c \in Controls : Serving(c)' => Serving(c) /\ control'[c].ch = control[c].ch
    BY <1>0 DEF Serving, At
  <2> QED
    BY <1>0, <1>2, <2>1, AbandonedKept
<1>3. ASSUME NEW f \in Flows, NEW ch \in HelloKeys, NEW at \in 0 .. MaxPackets,
             NEW cookie \in Conns, ObserveLookup(f, ch, at, cookie)
      PROVE  Keeps(s)
  <2>1. PICK t \in Slots, g \in Entry : Adopts(t, g, f, ch) /\ cache' = [cache EXCEPT ![t] = g]
    BY <1>0, <1>1, <1>3, ObserveLookupFact
  <2>2. t # s
    BY <2>1, AbandonedHasHello DEF Adopts, Abandoned
  <2>3. cache'[s] = cache[s]
    BY <1>0, <2>1, <2>2
  <2> QED
    BY <2>3 DEF Keeps, Abandoned
<1>4. ASSUME NEW f \in Flows, NEW sh \in Conns, NEW at \in 0 .. MaxPackets,
             NEW cookie \in Conns, ObserveReport(f, sh, at, cookie)
      PROVE  Keeps(s)
  <2>1. PICK t \in Slots, e \in Entry :
          Answers(t, e) /\ cache' = [cache EXCEPT ![t] = Scheduled(e)]
    BY <1>0, <1>1, <1>4, ObserveReportFact
  <2>2. CASE t # s
    <3>1. cache'[s] = cache[s]
      BY <1>0, <2>1, <2>2
    <3> QED
      BY <3>1 DEF Keeps, Abandoned
  <2>3. CASE t = s
    <3>1. cache'[s] = Scheduled(e) /\ cache[s].used
      BY <1>0, <2>1, <2>3 DEF Abandoned
    <3>2. e.used /\ cache[s].used = TRUE
      BY <2>1, <2>3, <3>1, EntryType, <1>0 DEF Entry
    <3> QED
      BY <2>1, <2>3, <3>1, <3>2, ScheduledFields DEF Answers, Keeps
  <2> QED
    BY <2>2, <2>3
<1>5. CASE DispatchHello
  <2> DEFINE p == Head(lanes["in"])
  <2>1. p \in Packet /\ clock + 1 \in 0 .. MaxPackets
    BY <1>5, DispatchType DEF DispatchHello
  <2>2. p.flow \in Flows /\ <<p.conn, p.n>> \in HelloKeys
    BY <2>1 DEF Packet, HelloKeys
  <2>3. /\ sock[p.flow].est
        /\ ObserveLookup(p.flow, <<p.conn, p.n>>, clock + 1, sock[p.flow].id)
    BY <1>1, <1>5 DEF DispatchHello
  <2> QED
    BY <1>0, <1>3, <2>1, <2>2, <2>3
<1>6. CASE RecoverHello
  <2> DEFINE f == Head(lanes["out"]).flow
  <2>1. f \in Flows
    BY <1>0, <1>6, LanesType DEF RecoverHello, Packet
  <2>2. /\ sock[f].est /\ stash[f] # NoStash
        /\ ObserveLookup(f, stash[f].ch, stash[f].at, sock[f].id)
    BY <1>1, <1>6 DEF RecoverHello
  <2>3. stash[f].ch \in HelloKeys /\ stash[f].at \in 0 .. MaxPackets
    BY <1>0, <2>1, <2>2 DEF Stash
  <2> QED
    BY <1>0, <1>3, <2>1, <2>2, <2>3
<1>7. CASE DispatchServerHello
  <2> DEFINE p == Head(lanes["out"])
  <2>1. p \in Packet /\ clock + 1 \in 0 .. MaxPackets
    BY <1>7, DispatchType DEF DispatchServerHello
  <2>2. p.flow \in Flows /\ p.conn \in Conns
    BY <2>1 DEF Packet
  <2>3. \/ seen # 0 /\ ObserveReport(p.flow, p.conn, clock + 1, seen)
        \/ sock[p.flow].est /\ ObserveReport(p.flow, p.conn, clock + 1, sock[p.flow].id)
    BY <1>1, <1>7 DEF DispatchServerHello
  <2> QED
    BY <1>0, <1>4, <2>1, <2>2, <2>3
<1> QED
  BY <1>1, <1>5, <1>6, <1>7 DEF Observer, ExpireStash

\* The report worker stores the report of an entry whether anybody waits for it or not.
LEMMA AbandonedReporter ==
  ASSUME TypeOK, TypeOK', ServerInv, ServerInv', NEW s \in Slots, Abandoned(s), Reporter
  PROVE  StaysAbandoned(s)
<1>1. UNCHANGED control /\ cache \in [Slots -> Entry \cup {NoEntry}]
  BY DEF Reporter, TakeReport, FinishReport, TypeOK
<1>2. CASE UNCHANGED cache
  BY <1>1, <1>2, AbandonedIdle
<1>3. CASE FinishReport /\ ~UNCHANGED cache
  <2> DEFINE t == reporter.slot
  <2>1. cache[s] \in Entry
    BY EntryType DEF Abandoned
  <2>2. \/ cache' = [cache EXCEPT ![t].report = reporter.att, ![t].done = TRUE]
        \/ cache' = [cache EXCEPT ![t].done = TRUE]
    BY <1>3 DEF FinishReport
  <2>3. Keeps(s)
    <3>1. CASE t # s
      <4>1. cache'[s] = cache[s]
        BY <1>1, <2>2, <3>1
      <4> QED
        BY <4>1 DEF Keeps, Abandoned
    <3>2. CASE t = s
      <4>1. \/ cache'[s] = [cache[s] EXCEPT !.report = reporter.att, !.done = TRUE]
            \/ cache'[s] = [cache[s] EXCEPT !.done = TRUE]
        BY <1>1, <2>2, <3>2
      <4>2. /\ cache'[s].used = cache[s].used
            /\ cache'[s].ch = cache[s].ch
            /\ cache'[s].requested = cache[s].requested
            /\ cache'[s].nonce = cache[s].nonce
            /\ cache'[s].delivered = cache[s].delivered
            /\ cache'[s].sh = cache[s].sh
        BY <2>1, <4>1 DEF Entry
      <4> QED
        BY <4>2 DEF Keeps, Abandoned
    <3> QED
      BY <3>1, <3>2
  <2>4. \A c \in Controls : Serving(c)' => Serving(c) /\ control'[c].ch = control[c].ch
    BY <1>1 DEF Serving, At
  <2> QED
    BY <2>3, <2>4, AbandonedKept
<1> QED
  BY <1>2, <1>3 DEF Reporter, TakeReport

\* A control worker changes the entry it serves or registers for, and no other.
LEMMA AbandonedControl ==
  ASSUME TypeOK, TypeOK', ServerInv, ServerInv', NEW s \in Slots, Abandoned(s),
         NEW c \in Controls, ControlWorker(c)
  PROVE  StaysAbandoned(s)
<1>0. /\ IndexIsExact /\ IndexIsExact'
      /\ cache \in [Slots -> Entry \cup {NoEntry}]
      /\ control \in [Controls -> Control] /\ control[c] \in Control
  BY DEF ServerInv, TypeOK
<1>1. \A d \in Controls \ {c} : control'[d] = control[d]
  BY <1>0 DEF ControlWorker, Accept, ReadRequest, Register, ReadClientReport, TakeDelivery,
         GiveUp, Respond, ReadVerdict, Disconnect, Leave, Goto
<1>2. \A d \in Controls \ {c} : Serving(d)' => Serving(d) /\ control'[d].ch = control[d].ch
  BY <1>1 DEF Serving, At
<1>3. ASSUME UNCHANGED cache, Serving(c)' => Serving(c) /\ control'[c].ch = control[c].ch
      PROVE  StaysAbandoned(s)
  BY <1>2, <1>3, AbandonedFrame
<1>4. ASSUME NEW k, control' = [control EXCEPT ![c] = k], k.pc \in {"none", "read", "register"}
      PROVE  ~Serving(c)'
  BY <1>0, <1>4 DEF Serving, At
<1>5. CASE Accept(c)
  BY <1>3, <1>4, <1>5, ControlMoves DEF Accept
<1>6. CASE ReadRequest(c)
  <2>1. PICK ch \in HelloKeys, nonce \in Nonces :
          control' = [control EXCEPT ![c] = [NewControl("register") EXCEPT
                                               !.ch = ch, !.nonce = nonce]]
    BY <1>6 DEF ReadRequest
  <2> DEFINE k == [NewControl("register") EXCEPT !.ch = ch, !.nonce = nonce]
  <2>2. k.pc = "register"
    BY ControlMoves
  <2> HIDE DEF k
  <2>3. control' = [control EXCEPT ![c] = k]
    BY <2>1 DEF k
  <2>4. ~Serving(c)'
    BY <1>4, <2>2, <2>3
  <2> QED
    BY <1>3, <1>6, <2>4 DEF ReadRequest
<1>7. CASE GiveUp(c) \/ Disconnect(c)
  BY <1>3, <1>4, <1>7, ControlMoves DEF GiveUp, Disconnect
<1>8. CASE ReadClientReport(c)
  <2>1. PICK valid \in BOOLEAN : control' = [control EXCEPT ![c].pc = "wait", ![c].valid = valid]
    BY <1>8 DEF ReadClientReport
  <2>2. control'[c] = [control[c] EXCEPT !.pc = "wait", !.valid = valid]
    BY <1>0, <2>1
  <2>3. control'[c].ch = control[c].ch
    BY <1>0, <2>2 DEF Control
  <2> QED
    BY <1>3, <1>8, <2>3 DEF ReadClientReport, Serving, At
<1>9. CASE Respond(c)
  <2>1. CASE Leave(c)
    BY <1>3, <1>4, <1>9, <2>1, ControlMoves DEF Respond
  <2>2. CASE Goto(c, "verdict")
    <3>1. control'[c] = [control[c] EXCEPT !.pc = "verdict"]
      BY <1>0, <2>2 DEF Goto
    <3>2. control'[c].ch = control[c].ch
      BY <3>1, ControlMoves
    <3> QED
      BY <1>3, <1>9, <3>2 DEF Respond, Serving, At
  <2> QED
    BY <1>9, <2>1, <2>2 DEF Respond
<1>10. ASSUME NEW t \in Slots, t # s, NEW e, cache' = [cache EXCEPT ![t] = e],
              Serving(c)' => control'[c].ch = control[c].ch,
              control[c].ch = cache[t].ch, cache[t].used, cache[t].ch \in HelloKeys
       PROVE  StaysAbandoned(s)
  <2>1. cache'[s] = cache[s]
    BY <1>0, <1>10
  <2>2. Keeps(s)
    BY <2>1 DEF Keeps, Abandoned
  <2>3. control[c].ch # cache[s].ch
    BY <1>0, <1>10 DEF IndexIsExact, Abandoned
  <2>4. \A d \in Controls : Serving(d)' =>
           \/ Serving(d) /\ control'[d].ch = control[d].ch
           \/ control'[d].ch # cache[s].ch
    BY <1>2, <1>10, <2>3
  <2> QED
    BY <2>2, <2>4, AbandonedKept
<1>11. CASE Register(c)
  <2> DEFINE t == Lookup(control[c].ch)
             e == [cache[t] EXCEPT !.requested = TRUE, !.nonce = control[c].nonce]
  <2>1. /\ t \in Slots /\ cache[t].used /\ cache[t].ch = control[c].ch
        /\ control[c].ch \in HelloKeys /\ ~cache[t].requested
        /\ cache' = [cache EXCEPT ![t] = Scheduled(e)]
    BY <1>0, <1>11, LookupType, LookupIsExact DEF Register
  <2>2. t # s
    BY <2>1 DEF Abandoned
  <2>3. Serving(c)' => control'[c].ch = control[c].ch
    <3>1. CASE Leave(c)
      BY <1>4, <3>1, ControlMoves
    <3>2. CASE Goto(c, IF Mutual THEN "client" ELSE "wait")
      <4> DEFINE pc == IF Mutual THEN "client" ELSE "wait"
      <4>1. control'[c] = [control[c] EXCEPT !.pc = pc]
        BY <1>0, <3>2 DEF Goto
      <4> QED
        BY <4>1, ControlMoves
    <3> QED
      BY <1>11, <3>1, <3>2 DEF Register
  <2> HIDE DEF t, e
  <2> QED
    BY <1>10, <2>1, <2>2, <2>3
<1>12. CASE TakeDelivery(c)
  <2> DEFINE t == Lookup(control[c].ch)
             g == [cache[t] EXCEPT !.delivered = TRUE]
  <2>1. /\ t \in Slots /\ cache[t].used /\ cache[t].ch = control[c].ch
        /\ control[c].ch \in HelloKeys
        /\ cache' = [cache EXCEPT ![t] = g]
    BY <1>0, <1>12, LookupType, LookupIsExact DEF TakeDelivery
  <2>2. t # s
    BY <1>12 DEF Abandoned, TakeDelivery, Serving, At
  <2>3. control'[c].ch = control[c].ch
    <3>1. control'[c] = [control[c] EXCEPT !.pc = "respond", !.att = cache[t].att,
                                           !.report = cache[t].report]
      BY <1>0, <1>12 DEF TakeDelivery
    <3> QED
      BY <1>0, <3>1 DEF Control
  <2> HIDE DEF t, g
  <2> QED
    BY <1>10, <2>1, <2>2, <2>3
<1>13. CASE ReadVerdict(c)
  <2> DEFINE t == Lookup(control[c].ch)
  <2>1. At(c, "verdict") /\ ~Serving(c)'
    <3>1. NewControl(IF stopping THEN "none" ELSE "read").pc \in {"none", "read"}
      BY ControlMoves
    <3> QED
      BY <1>4, <1>13, <3>1 DEF ReadVerdict
  <2>2. CASE UNCHANGED cache
    BY <1>3, <2>1, <2>2
  <2>3. CASE t # Nil /\ cache' = [cache EXCEPT ![t] = NoEntry]
    <3>1. /\ t \in Slots /\ cache[t].used /\ cache[t].ch = control[c].ch
          /\ control[c].ch \in HelloKeys
      BY <1>0, <2>3, LookupType, LookupIsExact
    <3>2. t # s
      BY <2>1 DEF Abandoned, Serving
    <3> HIDE DEF t
    <3> QED
      BY <1>10, <2>1, <2>3, <3>1, <3>2
  <2> QED
    BY <1>13, <2>2, <2>3 DEF ReadVerdict, RecordVerdict
<1> QED
  BY <1>5, <1>6, <1>7, <1>8, <1>9, <1>11, <1>12, <1>13 DEF ControlWorker

\* An entry whose requester has gone is never asked for again, delivered or freed:
\* register_request refuses it, and wait_for_report and record_verdict work on the entry
\* of the connection's own request.
THEOREM AbandonedForGood == Spec => AbandonedStays
<1>1. TypeInv /\ TypeInv' /\ ServerInv /\ [Next]_vars =>
        \A s \in Slots : Abandoned(s) =>
          /\ Abandoned(s)'
          /\ cache'[s].ch = cache[s].ch
          /\ cache'[s].delivered = cache[s].delivered
  <2> SUFFICES ASSUME TypeInv, TypeInv', ServerInv, [Next]_vars, NEW s \in Slots, Abandoned(s)
               PROVE  StaysAbandoned(s)
    BY DEF StaysAbandoned
  <2>0. TypeOK /\ TypeOK' /\ ServerInv'
    BY NextInv DEF TypeInv
  <2>1. CASE (\E f \in Flows : Network(f)) \/ Main \/ UNCHANGED vars
    <3>1. UNCHANGED <<cache, control>>
      BY <2>1 DEF Network, Connect, Establish, Close, Capture, Main, Stop, ControlsStopped,
                  Exit, vars
    <3> QED
      BY <2>0, <3>1, AbandonedIdle
  <2>2. CASE Observer
    BY <2>0, <2>2, AbandonedObserver
  <2>3. CASE Reporter
    BY <2>0, <2>3, AbandonedReporter
  <2>4. CASE \E c \in Controls : ControlWorker(c)
    BY <2>0, <2>4, AbandonedControl
  <2> QED
    BY <2>1, <2>2, <2>3, <2>4 DEF Next
<1> QED
  BY <1>1, TypeInvariance, Invariance, PTL DEF AbandonedStays, Spec

-----------------------------------------------------------------------------
(* The pair of an entry, when the capture keeps up with the reuse of ports.  *)

\* A step that leaves the cache, or an entry's ClientHello, ServerHello and cookie.
LEMMA PairFrame ==
  ASSUME EntriesAreOfOneSocket,
         \A s \in Slots : \/ OfItsSocket(cache'[s])
                          \/ /\ cache'[s].ch = cache[s].ch
                             /\ cache'[s].sh = cache[s].sh
                             /\ cache'[s].cookie = cache[s].cookie
  PROVE  EntriesAreOfOneSocket'
BY DEF EntriesAreOfOneSocket, OfItsSocket

LEMMA NoEntryHasPair == OfItsSocket(NoEntry) /\ \A f, k : OfItsSocket(NewEntry(f, k))
BY DEF OfItsSocket, NoEntry, NewEntry

\* A ClientHello of the connection whose cookie is read keeps an entry of one socket.
LEMMA ObserveLookupPair ==
  ASSUME TypeOK, EntriesAreOfOneSocket, NEW f \in Flows, NEW ch \in HelloKeys,
         NEW at \in 0 .. MaxPackets, NEW cookie \in Conns, ch[1] = cookie,
         ObserveLookup(f, ch, at, cookie)
  PROVE  EntriesAreOfOneSocket'
<1>1. CASE UNCHANGED cache
  BY <1>1 DEF EntriesAreOfOneSocket
<1>2. CASE ~UNCHANGED cache
  <2>1. PICK s \in Slots : /\ s \in NewestOrphans(f, cookie) \/ s \in FreeSlots
                           /\ Place(s, f, ch, at, cookie)
    BY <1>2 DEF ObserveLookup, NewestOrphans, Orphans, FreeSlots
  <2> DEFINE e == IF cache[s].used THEN cache[s] ELSE NewEntry(f, cookie)
             g == [e EXCEPT !.flow = f, !.cookie = cookie, !.ch = ch, !.chAt = at]
  <2>2. cache' = [cache EXCEPT ![s] = g] \/ cache' = [cache EXCEPT ![s] = NoEntry]
    BY <2>1 DEF Place
  <2>3. e \in Entry
    BY EntryType, NewEntryType
  <2>4. e.sh # 0 => e.sh = cookie
    <3>1. cache[s].used => cache[s].cookie = cookie
      BY <2>1 DEF NewestOrphans, Orphans, Mine, FreeSlots
    <3>2. NewEntry(f, cookie).sh = 0
      BY DEF NewEntry
    <3>3. OfItsSocket(cache[s])
      BY DEF EntriesAreOfOneSocket
    <3> QED
      BY <3>1, <3>2, <3>3 DEF OfItsSocket
  <2>5. g.ch = ch /\ g.cookie = cookie /\ g.sh = e.sh
    <3> HIDE DEF e
    <3> QED
      BY <2>3 DEF Entry
  <2>6. OfItsSocket(g)
    <3> HIDE DEF g, e
    <3> QED
      BY <2>4, <2>5 DEF OfItsSocket
  <2> HIDE DEF g, e
  <2>7. \A t \in Slots : cache'[t] = cache[t] \/ OfItsSocket(cache'[t])
    <3>1. cache \in [Slots -> Entry \cup {NoEntry}]
      BY DEF TypeOK
    <3> QED
      BY <2>2, <2>6, <3>1, NoEntryHasPair
  <2> QED
    BY <2>7, PairFrame
<1> QED
  BY <1>1, <1>2

\* So does its ServerHello.
LEMMA ObserveReportPair ==
  ASSUME TypeOK, EntriesAreOfOneSocket, NEW f \in Flows, NEW sh \in Conns,
         NEW at \in 0 .. MaxPackets, ObserveReport(f, sh, at, sh)
  PROVE  EntriesAreOfOneSocket'
<1>1. CASE UNCHANGED cache
  BY <1>1 DEF EntriesAreOfOneSocket
<1>2. CASE ~UNCHANGED cache
  <2>1. PICK s \in Slots :
          /\ s \in NewestPlaceholders(f, sh) \/ s \in FreeSlots
          /\ LET e == [(IF cache[s].used THEN cache[s] ELSE NewEntry(f, sh))
                          EXCEPT !.sh = sh, !.shAt = at]
             IN  cache' = [cache EXCEPT ![s] = Scheduled(e)]
    BY <1>2 DEF ObserveReport, NewestPlaceholders, Placeholders, FreeSlots
  <2> DEFINE o == IF cache[s].used THEN cache[s] ELSE NewEntry(f, sh)
             e == [o EXCEPT !.sh = sh, !.shAt = at]
  <2>2. cache' = [cache EXCEPT ![s] = Scheduled(e)]
    BY <2>1
  <2>3. o \in Entry
    BY EntryType, NewEntryType
  <2>4. o.cookie = sh
    <3>1. cache[s].used => cache[s].cookie = sh
      BY <2>1 DEF NewestPlaceholders, Placeholders, Mine, FreeSlots
    <3>2. NewEntry(f, sh).cookie = sh
      BY DEF NewEntry
    <3> QED
      BY <3>1, <3>2
  <2>5. OfItsSocket(o)
    BY NoEntryHasPair DEF EntriesAreOfOneSocket
  <2>6. e \in Entry
    BY <2>3, EntryUpdates
  <2>7. e.ch = o.ch /\ e.cookie = o.cookie /\ e.sh = sh
    <3> HIDE DEF o
    <3> QED
      BY <2>3 DEF Entry
  <2> HIDE DEF e, o
  <2>8. /\ Scheduled(e).ch = e.ch /\ Scheduled(e).sh = e.sh
        /\ Scheduled(e).cookie = e.cookie
    <3>1. Scheduled(e).cookie = e.cookie
      BY <2>6 DEF Scheduled, Entry
    <3> QED
      BY <2>6, <3>1, ScheduledFields
  <2>9. OfItsSocket(Scheduled(e))
    BY <2>4, <2>5, <2>7, <2>8 DEF OfItsSocket
  <2>10. \A t \in Slots : cache'[t] = cache[t] \/ OfItsSocket(cache'[t])
    <3>1. cache \in [Slots -> Entry \cup {NoEntry}]
      BY DEF TypeOK
    <3> QED
      BY <2>2, <2>9, <3>1
  <2> QED
    BY <2>10, PairFrame
<1> QED
  BY <1>1, <1>2

\* A socket that opens, and a packet that is captured: only an empty four-tuple is used
\* again, and a packet is captured on the connection that has the four-tuple.
LEMMA NetworkPair ==
  ASSUME TypeInv, Prompt, PairInv, NEW f \in Flows, Network(f)
  PROVE  PairInv'
<1>0. PacketsAreCurrent /\ SeenIsCurrent /\ EntriesAreOfOneSocket
  BY DEF PairInv
<1>1. UNCHANGED <<cache, seen>>
  BY DEF Network, Connect, Establish, Close, Capture, capture
<1>2. EntriesAreOfOneSocket'
  BY <1>0, <1>1 DEF EntriesAreOfOneSocket
<1>3. sock \in [Flows -> [id : Conns \cup {0}, est : BOOLEAN]]
  BY DEF TypeInv, TypeOK
<1>4. \A l \in {"in", "out"} : lanes[l] \in Seq(Packet) /\ Len(lanes[l]) \in Nat
  BY LanesType
<1>5. lanes \in [{"in", "out"} -> Seq(Packet)]
  BY LanesType
<1>6. \A l \in {"in", "out"}, i \in Nat : i \in DOMAIN lanes[l] => lanes[l][i].flow \in Flows
  <2>1. \A l \in {"in", "out"}, i \in Nat : i \in DOMAIN lanes[l] => lanes[l][i] \in Packet
    BY <1>4
  <2> QED
    BY <2>1 DEF Packet
<1>7. \A l \in {"in", "out"} : DOMAIN lanes[l] \subseteq Nat
  BY <1>4
<1>8. CASE Connect(f) \/ Establish(f) \/ Close(f)
  <2>1. UNCHANGED lanes
    BY <1>8 DEF Connect, Establish, Close, capture
  <2>2. SeenIsCurrent'
    BY <1>0, <1>1, <2>1 DEF SeenIsCurrent
  <2>3. \A g \in Flows \ {f} : sock'[g] = sock[g]
    BY <1>3, <1>8 DEF Connect, Establish, Close
  <2>4. \/ sock'[f].id = 0
        \/ sock'[f].id = sock[f].id
        \/ \A l \in {"in", "out"} : \A i \in DOMAIN lanes[l] : lanes[l][i].flow # f
    <3>1. CASE Connect(f)
      BY <3>1 DEF Connect
    <3>2. CASE Establish(f)
      BY <1>3, <3>2 DEF Establish
    <3>3. CASE Close(f)
      BY <1>3, <3>3 DEF Close
    <3> QED
      BY <1>8, <3>1, <3>2, <3>3
  <2>5. PacketsAreCurrent'
    <3> SUFFICES ASSUME NEW l \in {"in", "out"}, NEW i \in DOMAIN lanes[l]
                 PROVE  sock'[lanes[l][i].flow].id \in {0, lanes[l][i].conn}
      BY <2>1 DEF PacketsAreCurrent
    <3>1. sock[lanes[l][i].flow].id \in {0, lanes[l][i].conn} /\ lanes[l][i].flow \in Flows
      BY <1>0, <1>6, <1>7 DEF PacketsAreCurrent
    <3> QED
      BY <2>3, <2>4, <3>1
  <2> QED
    BY <1>2, <2>2, <2>5 DEF PairInv
<1>9. ASSUME NEW lane \in {"in", "out"}, NEW n \in 1 .. MaxHello, Capture(f, lane, n)
      PROVE  PairInv'
  <2> DEFINE p == [flow |-> f, conn |-> sock[f].id, n |-> n]
  <2>1. /\ lanes' = [lanes EXCEPT ![lane] = Append(lanes[lane], p)]
        /\ UNCHANGED sock
        /\ sock[f].id # 0
    BY <1>9 DEF Capture, network
  <2>2. p \in Packet /\ p.flow = f /\ p.conn = sock[f].id
    BY <1>3, <2>1 DEF Packet
  <2> HIDE DEF p
  <2>3. /\ Append(lanes[lane], p) \in Seq(Packet)
        /\ Append(lanes[lane], p) # <<>>
        /\ Len(Append(lanes[lane], p)) = Len(lanes[lane]) + 1
        /\ \A i \in 1 .. Len(lanes[lane]) + 1 :
             Append(lanes[lane], p)[i] = IF i <= Len(lanes[lane]) THEN lanes[lane][i] ELSE p
    BY <1>4, <2>2, AppendProperties
  <2>4. \A l \in {"in", "out"} :
          lanes'[l] = IF l = lane THEN Append(lanes[lane], p) ELSE lanes[l]
    BY <1>5, <2>1
  <2>5. PacketsAreCurrent'
    <3> SUFFICES ASSUME NEW l \in {"in", "out"}, NEW i \in DOMAIN lanes'[l]
                 PROVE  sock[lanes'[l][i].flow].id \in {0, lanes'[l][i].conn}
      BY <2>1 DEF PacketsAreCurrent
    <3>1. CASE l # lane \/ (i \in DOMAIN lanes[l] /\ lanes'[l][i] = lanes[l][i])
      <4>1. i \in DOMAIN lanes[l] /\ lanes'[l][i] = lanes[l][i]
        BY <2>4, <3>1
      <4> QED
        BY <1>0, <4>1 DEF PacketsAreCurrent
    <3>2. CASE l = lane /\ lanes'[l][i] = p
      BY <2>2, <3>2
    <3>3. l = lane => \/ lanes'[l][i] = p
                      \/ i \in DOMAIN lanes[l] /\ lanes'[l][i] = lanes[l][i]
      <4>1. ASSUME l = lane
            PROVE  i \in 1 .. Len(lanes[lane]) + 1
        <5>1. lanes'[l] = Append(lanes[lane], p)
          BY <2>4, <4>1
        <5>2. DOMAIN Append(lanes[lane], p) = 1 .. Len(Append(lanes[lane], p))
          BY <2>3
        <5> QED
          BY <2>3, <5>1, <5>2
      <4>2. DOMAIN lanes[lane] = 1 .. Len(lanes[lane])
        BY <1>4
      <4>3. ASSUME l = lane, i <= Len(lanes[lane])
            PROVE  i \in DOMAIN lanes[l]
        BY <1>4, <4>1, <4>2, <4>3
      <4> QED
        BY <2>3, <2>4, <4>1, <4>3
    <3> QED
      BY <3>1, <3>2, <3>3
  <2>6. SeenIsCurrent'
    <3> SUFFICES ASSUME seen # 0
                 PROVE  lanes'["out"] # <<>> /\ Head(lanes'["out"]).conn = seen
      BY <1>1 DEF SeenIsCurrent
    <3>1. lanes["out"] # <<>> /\ Head(lanes["out"]).conn = seen
      BY <1>0 DEF SeenIsCurrent
    <3>2. lane = "out" => Head(Append(lanes["out"], p)) = Head(lanes["out"])
      BY <1>4, <2>2, <3>1, HeadTailProperties, AppendProperties
    <3> QED
      BY <2>3, <2>4, <3>1, <3>2
  <2> QED
    BY <1>2, <2>5, <2>6 DEF PairInv
<1> QED
  BY <1>8, <1>9 DEF Network

\* A packet that is dispatched leaves the others as they were.
LEMMA DispatchPair ==
  ASSUME TypeInv, PacketsAreCurrent, NEW l \in {"in", "out"}, Dispatch(l), UNCHANGED sock
  PROVE  /\ PacketsAreCurrent'
         /\ l = "in" => lanes'["out"] = lanes["out"]
         /\ sock[Head(lanes[l]).flow].id \in {0, Head(lanes[l]).conn}
<1>1. lanes \in [{"in", "out"} -> Seq(Packet)] /\ lanes[l] \in Seq(Packet) /\ lanes[l] # <<>>
  BY LanesType DEF Dispatch
<1>2. \A m \in {"in", "out"} : lanes'[m] = IF m = l THEN Tail(lanes[l]) ELSE lanes[m]
  BY <1>1 DEF Dispatch
<1>3. /\ Head(lanes[l]) = lanes[l][1] /\ 1 \in DOMAIN lanes[l]
      /\ \A i \in DOMAIN Tail(lanes[l]) :
           i + 1 \in DOMAIN lanes[l] /\ Tail(lanes[l])[i] = lanes[l][i + 1]
  BY <1>1, HeadTailProperties
<1>4. PacketsAreCurrent'
  <2> SUFFICES ASSUME NEW m \in {"in", "out"}, NEW i \in DOMAIN lanes'[m]
               PROVE  sock[lanes'[m][i].flow].id \in {0, lanes'[m][i].conn}
    BY DEF PacketsAreCurrent
  <2>1. \E k \in DOMAIN lanes[m] : lanes'[m][i] = lanes[m][k]
    BY <1>2, <1>3
  <2> QED
    BY <2>1 DEF PacketsAreCurrent
<1> QED
  BY <1>2, <1>3, <1>4 DEF PacketsAreCurrent

LEMMA ObserverPair ==
  ASSUME TypeInv, Prompt, PairInv, Observer
  PROVE  PairInv'
<1>0. /\ PacketsAreCurrent /\ SeenIsCurrent /\ EntriesAreOfOneSocket
      /\ TypeOK
      /\ \A f \in Flows : sock[f].est => sock[f].id \in Conns
      /\ seen \in Conns \cup {0}
      /\ stash \in [Flows -> Stash \cup {NoStash}]
      /\ 0 \notin Conns
  BY DEF TypeInv, TypeOK, PairInv, Conns
<1>a. UNCHANGED sock
  BY DEF Observer, DispatchHello, RecoverHello, DispatchServerHello, ExpireStash, network
<1>1. CASE DispatchHello
  <2> DEFINE p == Head(lanes["in"])
  <2>1. p \in Packet /\ clock + 1 \in 0 .. MaxPackets
    BY <1>1, DispatchType DEF DispatchHello
  <2>2. p.flow \in Flows /\ <<p.conn, p.n>> \in HelloKeys
    BY <2>1 DEF Packet, HelloKeys
  <2>3. /\ PacketsAreCurrent' /\ lanes'["out"] = lanes["out"]
        /\ sock[p.flow].id \in {0, p.conn}
    BY <1>0, <1>1, <1>a, DispatchPair DEF DispatchHello
  <2>4. SeenIsCurrent'
    BY <1>1 DEF DispatchHello, SeenIsCurrent
  <2>5. CASE UNCHANGED cache
    BY <1>0, <2>3, <2>4, <2>5 DEF EntriesAreOfOneSocket, PairInv
  <2>6. CASE /\ sock[p.flow].est
             /\ ObserveLookup(p.flow, <<p.conn, p.n>>, clock + 1, sock[p.flow].id)
    <3>1. sock[p.flow].id \in Conns /\ sock[p.flow].id = p.conn
      BY <1>0, <2>2, <2>3, <2>6
    <3>2. <<p.conn, p.n>>[1] = sock[p.flow].id
      BY <3>1
    <3>3. EntriesAreOfOneSocket'
      BY <1>0, <2>1, <2>2, <2>6, <3>1, <3>2, ObserveLookupPair
    <3> QED
      BY <2>3, <2>4, <3>3 DEF PairInv
  <2> QED
    BY <1>1, <2>5, <2>6 DEF DispatchHello
<1>2. CASE RecoverHello
  <2> DEFINE p == Head(lanes["out"])
  <2>1. p \in Packet /\ lanes["out"] # <<>> /\ lanes["out"] \in Seq(Packet)
    BY <1>2, LanesType DEF RecoverHello
  <2>2. p.flow \in Flows /\ p.conn \in Conns
    BY <2>1 DEF Packet
  <2>3. /\ UNCHANGED lanes /\ sock[p.flow].est /\ stash[p.flow] # NoStash
        /\ seen' = sock[p.flow].id
    BY <1>2 DEF RecoverHello
  <2>4. sock[p.flow].id \in Conns /\ sock[p.flow].id = p.conn
    <3>1. p = lanes["out"][1] /\ 1 \in DOMAIN lanes["out"]
      BY <2>1, HeadTailProperties
    <3> QED
      BY <1>0, <2>2, <2>3, <3>1 DEF PacketsAreCurrent
  <2>5. PacketsAreCurrent' /\ SeenIsCurrent'
    BY <1>0, <1>a, <2>1, <2>3, <2>4 DEF PacketsAreCurrent, SeenIsCurrent
  <2>6. stash[p.flow].ch \in HelloKeys /\ stash[p.flow].at \in 0 .. MaxPackets
    BY <1>0, <2>2, <2>3 DEF Stash
  <2>7. CASE UNCHANGED cache
    BY <1>0, <2>5, <2>7 DEF EntriesAreOfOneSocket, PairInv
  <2>8. CASE /\ stash[p.flow].ch = <<p.conn, p.n>>
             /\ ObserveLookup(p.flow, stash[p.flow].ch, stash[p.flow].at, sock[p.flow].id)
    <3>1. stash[p.flow].ch[1] = sock[p.flow].id
      BY <2>4, <2>8
    <3>2. EntriesAreOfOneSocket'
      BY <1>0, <2>2, <2>4, <2>6, <2>8, <3>1, ObserveLookupPair
    <3> QED
      BY <2>5, <3>2 DEF PairInv
  <2> QED
    BY <1>2, <2>7, <2>8 DEF RecoverHello
<1>3. CASE DispatchServerHello
  <2> DEFINE p == Head(lanes["out"])
  <2>1. p \in Packet /\ clock + 1 \in 0 .. MaxPackets
    BY <1>3, DispatchType DEF DispatchServerHello
  <2>2. p.flow \in Flows /\ p.conn \in Conns
    BY <2>1 DEF Packet
  <2>3. PacketsAreCurrent' /\ sock[p.flow].id \in {0, p.conn}
    BY <1>0, <1>3, <1>a, DispatchPair DEF DispatchServerHello
  <2>4. SeenIsCurrent'
    BY <1>3 DEF DispatchServerHello, SeenIsCurrent
  <2>5. CASE UNCHANGED cache
    BY <1>0, <2>3, <2>4, <2>5 DEF EntriesAreOfOneSocket, PairInv
  <2>6. CASE ObserveReport(p.flow, p.conn, clock + 1, p.conn)
    <3>1. EntriesAreOfOneSocket'
      BY <1>0, <2>1, <2>2, <2>6, ObserveReportPair
    <3> QED
      BY <2>3, <2>4, <3>1 DEF PairInv
  <2>7. seen # 0 => seen = p.conn
    BY <1>0 DEF SeenIsCurrent
  <2>8. sock[p.flow].est => sock[p.flow].id = p.conn
    BY <1>0, <2>2, <2>3
  <2> QED
    BY <1>3, <2>5, <2>6, <2>7, <2>8 DEF DispatchServerHello
<1>4. ASSUME NEW f \in Flows, ExpireStash(f)
      PROVE  PairInv'
  BY <1>0, <1>4 DEF ExpireStash, network, PairInv, PacketsAreCurrent, SeenIsCurrent,
                    EntriesAreOfOneSocket
<1> QED
  BY <1>1, <1>2, <1>3, <1>4 DEF Observer

\* The workers change no cookie, and neither hello of an entry but by freeing it.
LEMMA WorkerPair ==
  ASSUME TypeInv, PairInv, Reporter \/ (\E c \in Controls : ControlWorker(c)) \/ Main
  PROVE  PairInv'
<1>0. TypeOK /\ cache \in [Slots -> Entry \cup {NoEntry}]
  BY DEF TypeInv, TypeOK
<1>1. UNCHANGED <<network, lanes, seen>>
  BY DEF Reporter, TakeReport, FinishReport, ControlWorker, Accept, ReadRequest, Register,
         ReadClientReport, TakeDelivery, GiveUp, Respond, ReadVerdict, Disconnect,
         ControlLocal, Main, Stop, ControlsStopped, Exit, capture
<1>2. SUFFICES ASSUME EntriesAreOfOneSocket
               PROVE  EntriesAreOfOneSocket'
  BY <1>1 DEF PairInv, PacketsAreCurrent, SeenIsCurrent, network
<1>3. CASE UNCHANGED cache
  BY <1>2, <1>3 DEF EntriesAreOfOneSocket
<1>4. CASE FinishReport
  <2> DEFINE s == reporter.slot
  <2>1. ASSUME NEW b, cache[s].used,
               cache' = [cache EXCEPT ![s].report = b, ![s].done = TRUE]
        PROVE  EntriesAreOfOneSocket'
    <3>1. \A t \in Slots : /\ cache'[t].ch = cache[t].ch /\ cache'[t].sh = cache[t].sh
                           /\ cache'[t].cookie = cache[t].cookie
      <4> SUFFICES ASSUME NEW t \in Slots
                   PROVE  /\ cache'[t].ch = cache[t].ch /\ cache'[t].sh = cache[t].sh
                          /\ cache'[t].cookie = cache[t].cookie
        OBVIOUS
      <4>1. CASE t # s
        BY <1>0, <2>1, <4>1
      <4>2. CASE t = s
        <5>1. cache[s] \in Entry
          BY <1>0, <2>1, <4>2, EntryType
        <5> QED
          BY <1>0, <2>1, <4>2, <5>1 DEF Entry
      <4> QED
        BY <4>1, <4>2
    <3> QED
      BY <1>2, <3>1, PairFrame
  <2>2. ASSUME cache[s].used, cache' = [cache EXCEPT ![s].done = TRUE]
        PROVE  EntriesAreOfOneSocket'
    <3>1. \A t \in Slots : /\ cache'[t].ch = cache[t].ch /\ cache'[t].sh = cache[t].sh
                           /\ cache'[t].cookie = cache[t].cookie
      <4> SUFFICES ASSUME NEW t \in Slots
                   PROVE  /\ cache'[t].ch = cache[t].ch /\ cache'[t].sh = cache[t].sh
                          /\ cache'[t].cookie = cache[t].cookie
        OBVIOUS
      <4>1. CASE t # s
        BY <1>0, <2>2, <4>1
      <4>2. CASE t = s
        <5>1. cache[s] \in Entry
          BY <1>0, <2>2, <4>2, EntryType
        <5> QED
          BY <1>0, <2>2, <4>2, <5>1 DEF Entry
      <4> QED
        BY <4>1, <4>2
    <3> QED
      BY <1>2, <3>1, PairFrame
  <2> QED
    BY <1>3, <1>4, <2>1, <2>2 DEF FinishReport
<1>5. ASSUME NEW c \in Controls, Register(c)
      PROVE  EntriesAreOfOneSocket'
  <2> DEFINE s == Lookup(control[c].ch)
             e == [cache[s] EXCEPT !.requested = TRUE, !.nonce = control[c].nonce]
  <2>1. s \in Slots /\ cache[s] \in Entry /\ cache' = [cache EXCEPT ![s] = Scheduled(e)]
    BY <1>0, <1>5, LookupType DEF Register
  <2>2. control[c].nonce \in Nonces \cup {NoNonce}
    BY <1>0 DEF TypeOK, Control
  <2>3. e \in Entry
    BY <2>1, <2>2, EntryUpdates
  <2>4. e.ch = cache[s].ch /\ e.sh = cache[s].sh /\ e.cookie = cache[s].cookie
    <3> HIDE DEF s
    <3> QED
      BY <2>1 DEF Entry
  <2> HIDE DEF e, s
  <2>5. Scheduled(e).ch = e.ch /\ Scheduled(e).sh = e.sh /\ Scheduled(e).cookie = e.cookie
    <3>1. Scheduled(e).cookie = e.cookie
      BY <2>3 DEF Scheduled, Entry
    <3> QED
      BY <2>3, <3>1, ScheduledFields
  <2> QED
    BY <1>0, <1>2, <2>1, <2>4, <2>5, PairFrame
<1>6. ASSUME NEW c \in Controls, TakeDelivery(c)
      PROVE  EntriesAreOfOneSocket'
  <2> DEFINE s == Lookup(control[c].ch)
             g == [cache[s] EXCEPT !.delivered = TRUE]
  <2>1. s \in Slots /\ cache[s] \in Entry /\ cache' = [cache EXCEPT ![s] = g]
    BY <1>0, <1>6, LookupType DEF TakeDelivery
  <2>2. g.ch = cache[s].ch /\ g.sh = cache[s].sh /\ g.cookie = cache[s].cookie
    <3> HIDE DEF s
    <3> QED
      BY <2>1 DEF Entry
  <2> HIDE DEF g, s
  <2> QED
    BY <1>0, <1>2, <2>1, <2>2, PairFrame
<1>7. ASSUME NEW c \in Controls, ReadVerdict(c)
      PROVE  EntriesAreOfOneSocket'
  <2>1. UNCHANGED cache \/ cache' = [cache EXCEPT ![Lookup(control[c].ch)] = NoEntry]
    BY <1>7 DEF ReadVerdict, RecordVerdict
  <2> QED
    BY <1>0, <1>2, <2>1, NoEntryHasPair, PairFrame
<1> QED
  BY <1>3, <1>4, <1>5, <1>6, <1>7
     DEF Reporter, TakeReport, ControlWorker, Accept, ReadRequest, ReadClientReport, GiveUp,
         Respond, Disconnect, Main, Stop, ControlsStopped, Exit

\* What the capture buffers hold, and what an entry pairs, is of one connection each.
THEOREM PairInvariance == Spec => []PairInv
<1>1. Init => PairInv
  <2> SUFFICES ASSUME Init PROVE PairInv
    OBVIOUS
  <2>1. \A s \in Slots : cache[s] = NoEntry
    BY DEF Init
  <2> QED
    BY <2>1, NoEntryHasPair
       DEF Init, PairInv, PacketsAreCurrent, SeenIsCurrent, EntriesAreOfOneSocket
<1>2. TypeInv /\ PairInv /\ [Next]_vars => PairInv'
  <2> SUFFICES ASSUME TypeInv, PairInv, [Next]_vars, Prompt PROVE PairInv'
    BY DEF PairInv
  <2>1. CASE \E f \in Flows : Network(f)
    BY <2>1, NetworkPair
  <2>2. CASE Observer
    BY <2>2, ObserverPair
  <2>3. CASE Reporter \/ (\E c \in Controls : ControlWorker(c)) \/ Main
    BY <2>3, WorkerPair
  <2>4. CASE UNCHANGED vars
    BY <2>4 DEF vars, PairInv, PacketsAreCurrent, SeenIsCurrent, EntriesAreOfOneSocket
  <2> QED
    BY <2>1, <2>2, <2>3, <2>4 DEF Next
<1> QED
  BY <1>1, <1>2, TypeInvariance, PTL DEF Spec

\* With prompt dispatching, the ClientHello and the ServerHello of an entry, which its
\* report binds to each other, are of one connection: ch_emit and the key callback give
\* observe_lookup_key and observe_report_key the cookie of the packet's own socket.
THEOREM PairsAreOfOneConnection == Spec => []PairIsOfOneConnection
<1>1. PairInv => PairIsOfOneConnection
  BY DEF PairInv, EntriesAreOfOneSocket, OfItsSocket, PairIsOfOneConnection
<1> QED
  BY <1>1, PairInvariance, PTL

-----------------------------------------------------------------------------
(* No report is lost.                                                        *)

\* An entry whose report is started and has not come to its end has its job.
InWork(s) == cache[s].used /\ cache[s].started /\ ~cache[s].done
HasJob(s) == \E j \in Pending : j.slot = s
StartedHasJob == \A s \in Slots : InWork(s) => HasJob(s)

\* A step that starts no report and takes no job.
LEMMA WorkFrame ==
  ASSUME StartedHasJob, UNCHANGED <<jobs, reporter>>, \A s \in Slots : InWork(s)' => InWork(s)
  PROVE  StartedHasJob'
BY DEF StartedHasJob, HasJob, Pending

\* A report is started with its job, or is refused and has come to its end.
LEMMA ScheduleHasJob ==
  ASSUME TypeOK, StartedHasJob, NEW s \in Slots, NEW e \in Entry,
         cache' = [cache EXCEPT ![s] = Scheduled(e)], jobs' = JobsWith(s, e),
         reporter' = reporter, e.started /\ ~e.done => InWork(s)
  PROVE  StartedHasJob'
<1>0. /\ jobs \in Seq(Job)
      /\ \A t \in Slots : cache'[t] = IF t = s THEN Scheduled(e) ELSE cache[t]
  BY DEF TypeOK
<1> DEFINE j == [slot |-> s, flow |-> e.flow, att |-> BindingOf(e)]
<1>1. /\ DOMAIN jobs \subseteq DOMAIN jobs'
      /\ \A i \in DOMAIN jobs : jobs'[i] = jobs[i]
      /\ Due(e) /\ Room => \E i \in DOMAIN jobs' : jobs'[i] = j
  <2>1. CASE Due(e) /\ Room
    <3>1. jobs' = Append(jobs, j)
      BY <2>1 DEF JobsWith
    <3>2. j \in Job
      <4>1. BindingOf(e) \in Binding
        BY <1>0, <2>1, ScheduledType
      <4> QED
        BY <4>1 DEF Job, Entry
    <3> HIDE DEF j
    <3>3. /\ DOMAIN jobs = 1 .. Len(jobs) /\ DOMAIN jobs' = 1 .. Len(jobs) + 1
          /\ Len(jobs) \in Nat /\ \A i \in DOMAIN jobs : jobs'[i] = jobs[i]
          /\ jobs'[Len(jobs) + 1] = j
      BY <1>0, <3>1, <3>2, AppendProperties, LenProperties
    <3> QED
      BY <3>3
  <2>2. CASE ~(Due(e) /\ Room)
    BY <2>2 DEF JobsWith
  <2> QED
    BY <2>1, <2>2
<1>2. \A t \in Slots : HasJob(t) => HasJob(t)'
  BY <1>1 DEF HasJob, Pending
<1>3. InWork(s)' => HasJob(s)'
  <2>1. CASE Due(e) /\ Room
    <3>1. j \in Pending' /\ j.slot = s
      BY <1>1, <2>1 DEF Pending
    <3> QED
      BY <3>1 DEF HasJob
  <2>2. CASE Due(e) /\ ~Room
    BY <1>0, <2>2, ScheduledFields DEF InWork
  <2>3. CASE ~Due(e)
    BY <1>0, <1>2, <2>3, ScheduledFields DEF InWork, StartedHasJob
  <2> QED
    BY <2>1, <2>2, <2>3
<1>4. \A t \in Slots : t # s /\ InWork(t)' => HasJob(t)'
  BY <1>0, <1>2 DEF InWork, StartedHasJob
<1> QED
  BY <1>3, <1>4 DEF StartedHasJob

LEMMA ObserverHasJob ==
  ASSUME TypeInv, ServerInv, StartedHasJob, Observer
  PROVE  StartedHasJob'
<1>0. /\ TypeOK
      /\ \A f \in Flows : sock[f].est => sock[f].id \in Conns
      /\ seen \in Conns \cup {0}
      /\ stash \in [Flows -> Stash \cup {NoStash}]
      /\ IndexIsExact
      /\ cache \in [Slots -> Entry \cup {NoEntry}]
      /\ UNCHANGED reporter
  BY DEF TypeInv, TypeOK, ServerInv, Observer, DispatchHello, RecoverHello,
         DispatchServerHello, ExpireStash
<1>1. ASSUME UNCHANGED <<cache, jobs>>
      PROVE  StartedHasJob'
  BY <1>0, <1>1, WorkFrame DEF InWork
<1>2. ASSUME NEW f \in Flows, NEW ch \in HelloKeys, NEW at \in 0 .. MaxPackets,
             NEW cookie \in Conns, ObserveLookup(f, ch, at, cookie), UNCHANGED jobs
      PROVE  StartedHasJob'
  <2>1. CASE UNCHANGED cache
    BY <1>1, <1>2, <2>1
  <2>2. CASE ~UNCHANGED cache
    <3>1. PICK s \in Slots, g \in Entry : Adopts(s, g, f, ch) /\ cache' = [cache EXCEPT ![s] = g]
      BY <1>0, <1>2, <2>2, ObserveLookupFact
    <3>2. \A t \in Slots : cache'[t] = IF t = s THEN g ELSE cache[t]
      BY <1>0, <3>1
    <3>3. g.started /\ ~g.done => InWork(s)
      BY <3>1 DEF Adopts, InWork
    <3>4. \A t \in Slots : InWork(t)' => InWork(t)
      BY <3>2, <3>3 DEF InWork
    <3> QED
      BY <1>0, <1>2, <3>4, WorkFrame
  <2> QED
    BY <2>1, <2>2
<1>3. ASSUME NEW f \in Flows, NEW sh \in Conns, NEW at \in 0 .. MaxPackets,
             NEW cookie \in Conns, ObserveReport(f, sh, at, cookie)
      PROVE  StartedHasJob'
  <2>1. CASE UNCHANGED <<cache, jobs>>
    BY <1>1, <2>1
  <2>2. CASE ~UNCHANGED <<cache, jobs>>
    <3>1. PICK s \in Slots, e \in Entry :
            Answers(s, e) /\ cache' = [cache EXCEPT ![s] = Scheduled(e)] /\ jobs' = JobsWith(s, e)
      BY <1>0, <1>3, <2>2, ObserveReportFact
    <3>2. e.started /\ ~e.done => InWork(s)
      BY <3>1 DEF Answers, InWork
    <3> QED
      BY <1>0, <3>1, <3>2, ScheduleHasJob
  <2> QED
    BY <2>1, <2>2
<1>4. CASE DispatchHello
  <2> DEFINE p == Head(lanes["in"])
  <2>1. p \in Packet /\ clock + 1 \in 0 .. MaxPackets
    BY <1>4, DispatchType DEF DispatchHello
  <2>2. p.flow \in Flows /\ <<p.conn, p.n>> \in HelloKeys
    BY <2>1 DEF Packet, HelloKeys
  <2>3. /\ UNCHANGED jobs
        /\ \/ UNCHANGED cache
           \/ /\ sock[p.flow].est
              /\ ObserveLookup(p.flow, <<p.conn, p.n>>, clock + 1, sock[p.flow].id)
    BY <1>4 DEF DispatchHello
  <2> QED
    BY <1>0, <1>1, <1>2, <2>1, <2>2, <2>3
<1>5. CASE RecoverHello
  <2> DEFINE f == Head(lanes["out"]).flow
  <2>1. f \in Flows
    BY <1>0, <1>5, LanesType DEF RecoverHello, Packet
  <2>2. /\ UNCHANGED jobs /\ sock[f].est /\ stash[f] # NoStash
        /\ \/ UNCHANGED cache
           \/ ObserveLookup(f, stash[f].ch, stash[f].at, sock[f].id)
    BY <1>5 DEF RecoverHello
  <2>3. stash[f].ch \in HelloKeys /\ stash[f].at \in 0 .. MaxPackets
    BY <1>0, <2>1, <2>2 DEF Stash
  <2> QED
    BY <1>0, <1>1, <1>2, <2>1, <2>2, <2>3
<1>6. CASE DispatchServerHello
  <2> DEFINE p == Head(lanes["out"])
  <2>1. p \in Packet /\ clock + 1 \in 0 .. MaxPackets
    BY <1>6, DispatchType DEF DispatchServerHello
  <2>2. p.flow \in Flows /\ p.conn \in Conns
    BY <2>1 DEF Packet
  <2>3. \/ UNCHANGED <<cache, jobs>>
        \/ seen # 0 /\ ObserveReport(p.flow, p.conn, clock + 1, seen)
        \/ sock[p.flow].est /\ ObserveReport(p.flow, p.conn, clock + 1, sock[p.flow].id)
    BY <1>6 DEF DispatchServerHello
  <2> QED
    BY <1>0, <1>1, <1>3, <2>1, <2>2, <2>3
<1> QED
  BY <1>1, <1>4, <1>5, <1>6 DEF Observer, ExpireStash

\* The job that leaves the queue is in hand; the job in hand owns its slot, so its entry's
\* report has come to its end when the job is finished.
LEMMA ReporterHasJob ==
  ASSUME TypeOK, ServerInv, StartedHasJob, Reporter
  PROVE  StartedHasJob'
<1>0. /\ jobs \in Seq(Job) /\ reporter \in Job \cup {Idle} /\ JobOwnsSlot
      /\ cache \in [Slots -> Entry \cup {NoEntry}]
      /\ \A i \in DOMAIN jobs : jobs[i] \in Job
  BY DEF TypeOK, ServerInv
<1>1. Idle \notin Job
  BY ServerAssumption DEF Idle, Job
<1>2. CASE TakeReport
  <2>1. /\ UNCHANGED cache /\ reporter = Idle
        /\ DOMAIN jobs = 1 .. Len(jobs) /\ Len(jobs) \in Nat
        /\ 1 \in DOMAIN jobs /\ reporter' = jobs[1]
        /\ DOMAIN jobs' = 1 .. Len(jobs) - 1
        /\ \A i \in DOMAIN jobs' : jobs'[i] = jobs[i + 1]
    BY <1>0, <1>2, LenProperties DEF TakeReport
  <2>2. ASSUME NEW j \in Pending PROVE j \in Pending'
    <3>1. PICK i \in DOMAIN jobs : j = jobs[i]
      BY <2>1 DEF Pending
    <3>2. CASE i = 1
      BY <1>0, <1>1, <2>1, <3>1, <3>2 DEF Pending
    <3>3. CASE i # 1
      <4>1. i - 1 \in DOMAIN jobs' /\ jobs'[i - 1] = j
        BY <2>1, <3>1, <3>3
      <4> QED
        BY <4>1 DEF Pending
    <3> QED
      BY <3>2, <3>3
  <2> QED
    BY <2>1, <2>2 DEF StartedHasJob, HasJob, InWork
<1>3. CASE FinishReport
  <2> DEFINE s == reporter.slot
  <2>1. reporter \in Job /\ s \in Slots /\ Owns(reporter) /\ UNCHANGED jobs
    BY <1>0, <1>3 DEF FinishReport, JobOwnsSlot, Pending, Job
  <2>2. /\ cache[s] \in Entry
        /\ \/ cache' = [cache EXCEPT ![s].report = reporter.att, ![s].done = TRUE]
           \/ cache' = [cache EXCEPT ![s].done = TRUE]
    BY <1>3, <2>1, EntryType DEF FinishReport, Owns
  <2>3. cache'[s].done /\ \A t \in Slots : t # s => cache'[t] = cache[t]
    <3>1. /\ \A t \in Slots : t # s => cache'[t] = cache[t]
          /\ \/ cache'[s] = [cache[s] EXCEPT !.report = reporter.att, !.done = TRUE]
             \/ cache'[s] = [cache[s] EXCEPT !.done = TRUE]
      BY <1>0, <2>1, <2>2
    <3> QED
      BY <2>2, <3>1 DEF Entry
  <2>4. \A t \in Slots : t # s /\ HasJob(t) => HasJob(t)'
    BY <1>0, <2>1 DEF HasJob, Pending
  <2> QED
    BY <2>3, <2>4 DEF StartedHasJob, InWork
<1> QED
  BY <1>2, <1>3 DEF Reporter

LEMMA ControlHasJob ==
  ASSUME TypeOK, ServerInv, StartedHasJob, NEW c \in Controls, ControlWorker(c)
  PROVE  StartedHasJob'
<1>0. /\ IndexIsExact /\ UNCHANGED reporter
      /\ cache \in [Slots -> Entry \cup {NoEntry}] /\ control[c] \in Control
  BY DEF ServerInv, TypeOK, ControlWorker, Accept, ReadRequest, Register, ReadClientReport,
         TakeDelivery, GiveUp, Respond, ReadVerdict, Disconnect, ControlLocal
<1> DEFINE s == Lookup(control[c].ch)
<1>1. CASE Register(c)
  <2> DEFINE e == [cache[s] EXCEPT !.requested = TRUE, !.nonce = control[c].nonce]
  <2>1. /\ s \in Slots /\ cache[s] \in Entry /\ cache[s].used
        /\ control[c].nonce \in Nonces \cup {NoNonce}
        /\ cache' = [cache EXCEPT ![s] = Scheduled(e)] /\ jobs' = JobsWith(s, e)
    BY <1>0, <1>1, LookupType, LookupIsExact DEF Register, Control
  <2>2. e \in Entry
    BY <2>1, EntryUpdates
  <2>3. e.started = cache[s].started /\ e.done = cache[s].done
    BY <2>1 DEF Entry
  <2> HIDE DEF e, s
  <2> QED
    BY <1>0, <2>1, <2>2, <2>3, ScheduleHasJob DEF InWork
<1>2. CASE TakeDelivery(c)
  <2>1. /\ s \in Slots /\ cache[s] \in Entry /\ UNCHANGED jobs
        /\ cache' = [cache EXCEPT ![s].delivered = TRUE]
    BY <1>0, <1>2, LookupType DEF TakeDelivery
  <2>2. \A t \in Slots : InWork(t)' => InWork(t)
    <3>1. cache'[s] = [cache[s] EXCEPT !.delivered = TRUE] /\ \A t \in Slots : t # s => cache'[t] = cache[t]
      BY <1>0, <2>1
    <3>2. cache'[s].used = cache[s].used /\ cache'[s].started = cache[s].started /\ cache'[s].done = cache[s].done
      BY <2>1, <3>1 DEF Entry
    <3> QED
      BY <3>1, <3>2 DEF InWork
  <2> QED
    BY <1>0, <2>1, <2>2, WorkFrame
<1>3. CASE ReadVerdict(c)
  <2>1. UNCHANGED jobs /\ (UNCHANGED cache \/ cache' = [cache EXCEPT ![s] = NoEntry])
    BY <1>3 DEF ReadVerdict, RecordVerdict
  <2>2. ~NoEntry.used
    BY DEF NoEntry, NewEntry
  <2>3. \A t \in Slots : InWork(t)' => InWork(t)
    BY <1>0, <2>1, <2>2 DEF InWork
  <2> QED
    BY <1>0, <2>1, <2>3, WorkFrame
<1>4. CASE UNCHANGED <<cache, jobs>>
  BY <1>0, <1>4, WorkFrame DEF InWork
<1> QED
  BY <1>1, <1>2, <1>3, <1>4
  DEF ControlWorker, Accept, ReadRequest, ReadClientReport, GiveUp, Respond, Disconnect

\* A report that is started has its job until it has come to its end: a job the queue
\* refuses ends it at once, and the one in hand cannot find its slot gone.  ReportEnds rests
\* on this and on the report worker alone (schedule_report_locked, report_worker_main).
THEOREM NoReportIsLost == Spec => []StartedHasJob
<1>1. Init => StartedHasJob
  BY DEF Init, StartedHasJob, InWork, NoEntry, NewEntry
<1>2. TypeInv /\ ServerInv /\ StartedHasJob /\ [Next]_vars => StartedHasJob'
  <2> SUFFICES ASSUME TypeInv, ServerInv, StartedHasJob, [Next]_vars
               PROVE  StartedHasJob'
    OBVIOUS
  <2>0. TypeOK
    BY DEF TypeInv
  <2>1. CASE (\E f \in Flows : Network(f)) \/ Main \/ UNCHANGED vars
    <3>1. UNCHANGED <<cache, jobs, reporter>>
      BY <2>1 DEF Network, Connect, Establish, Close, Capture, Main, Stop, ControlsStopped,
                  Exit, vars
    <3> QED
      BY <3>1, WorkFrame DEF InWork
  <2>2. CASE Observer
    BY <2>2, ObserverHasJob
  <2>3. CASE Reporter
    BY <2>0, <2>3, ReporterHasJob
  <2>4. CASE \E c \in Controls : ControlWorker(c)
    BY <2>0, <2>4, ControlHasJob
  <2> QED
    BY <2>1, <2>2, <2>3, <2>4 DEF Next
<1> QED
  BY <1>1, <1>2, Invariance, TypeInvariance, PTL DEF Spec
=============================================================================
