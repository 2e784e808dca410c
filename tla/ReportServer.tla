---------------------------- MODULE ReportServer ----------------------------
(***************************************************************************)
(* The Linux report server (agents/linux/tcpra_server_agent.c) with its    *)
(* packet observer (agents/linux/pcap_observer.c).                         *)
(*                                                                         *)
(* The main thread dispatches captured packets and pairs the ClientHello   *)
(* and the ServerHello of a connection in one entry of a cache, in either  *)
(* order.  A report worker has the hardware sign a report for the entry.   *)
(* Control workers, one per control connection, register the request of a  *)
(* client, wait for the entry's report, send it, and free the entry when   *)
(* the client's verdict is in.                                             *)
(*                                                                         *)
(* Around the server: the sockets of the protected service, the capture    *)
(* buffers, and clients that ask for whatever they like.                   *)
(***************************************************************************)
EXTENDS Naturals, Sequences, FiniteSets

CONSTANTS
  Flows,        \* TCP four-tuples of the protected service
  Slots,        \* slots of the cache
  Nil,          \* no slot, no flow
  Controls,     \* slots for control connections
  Nonces,       \* client nonces
  Mutual,       \* --mutual-ra
  Expected,     \* --expected: how many sessions are recorded
  IndexCap,     \* SERVER_LOOKUP_CAPACITY
  JobCap,       \* SERVER_JOB_CAPACITY
  Prompt,       \* no four-tuple is used again before its packets are dispatched
  MaxConn,      \* bound: connections to the service
  MaxHello,     \* bound: ClientHellos of a connection
  MaxPackets    \* bound: packets captured

ASSUME ServerAssumption ==
  /\ Nil \notin Slots
  /\ Nil \notin Flows
  /\ 0 \notin Nonces
  /\ IsFiniteSet(Slots)
  /\ Mutual \in BOOLEAN
  /\ Prompt \in BOOLEAN
  /\ Expected \in Nat
  /\ IndexCap \in Nat
  /\ Cardinality(Slots) <= IndexCap
  /\ JobCap \in Nat
  /\ MaxConn \in Nat
  /\ MaxHello \in Nat
  /\ MaxPackets \in Nat

VARIABLES
  sock,      \* the socket of each four-tuple: its cookie, and whether it is established
  opened,    \* connections opened so far; a connection's cookie is its number
  lanes,     \* captured packets: "in" has ClientHellos, "out" has ServerHellos
  clock,     \* packets dispatched so far: the time of an observation
  seen,      \* the cookie read for the ServerHello that is being dispatched
  stash,     \* ClientHellos that came before their socket was established
  cache,     \* agent->cache
  index,     \* agent->lookup_index
  jobs,      \* agent->jobs
  reporter,  \* the report worker: the job in hand
  control,   \* the control workers
  records,   \* agent->records
  stats,     \* of agent->counters, those the exit status depends on
  phase      \* the poll loop of main(), or a stage of its shutdown

network == <<sock, opened>>
capture == <<lanes, clock, seen, stash>>
vars == <<sock, opened, lanes, clock, seen, stash, cache, index, jobs, reporter,
          control, records, stats, phase>>

-----------------------------------------------------------------------------
\* The lookup key of a ClientHello and the report key of a ServerHello are digests
\* of fresh key shares: those of connection c are <<c, n>> and c.
Conns == 1 .. MaxConn
HelloKeys == Conns \X (1 .. MaxHello)
NoHello == <<0, 0>>
NoNonce == 0

\* What a report attests: the ServerHello's key, bound in mutual mode to the
\* client's report key, that is, to its ClientHello and its nonce.
Binding == [sh : Conns, ch : HelloKeys \cup {NoHello}, nonce : Nonces \cup {NoNonce}]
NoBinding == [sh |-> 0, ch |-> NoHello, nonce |-> NoNonce]

Packet == [flow : Flows, conn : Conns, n : 1 .. MaxHello]
Stash == [ch : HelloKeys, at : 1 .. MaxPackets]
NoStash == [ch |-> NoHello, at |-> 0]

\* "report" is what the stored report attests: NoBinding until the entry is ready.
Entry == [used      : {TRUE},
          flow      : Flows,
          cookie    : Conns,
          ch        : HelloKeys \cup {NoHello},
          chAt      : 0 .. MaxPackets,
          sh        : Conns \cup {0},
          shAt      : 0 .. MaxPackets,
          requested : BOOLEAN,
          nonce     : Nonces \cup {NoNonce},
          started   : BOOLEAN,
          done      : BOOLEAN,
          att       : Binding \cup {NoBinding},
          report    : Binding \cup {NoBinding},
          delivered : BOOLEAN]
NewEntry(f, cookie) ==
  [used |-> TRUE, flow |-> f, cookie |-> cookie, ch |-> NoHello, chAt |-> 0,
   sh |-> 0, shAt |-> 0, requested |-> FALSE, nonce |-> NoNonce,
   started |-> FALSE, done |-> FALSE, att |-> NoBinding, report |-> NoBinding,
   delivered |-> FALSE]
\* An empty slot or a tombstone: cache_new_slot takes either.
NoEntry == [NewEntry(Nil, 0) EXCEPT !.used = FALSE]

Job == [slot : Slots, flow : Flows, att : Binding]
Idle == [slot |-> Nil, flow |-> Nil, att |-> NoBinding]

\* A control worker: where it is in control_worker_main, its request, whether the
\* client's report is valid, and its snapshot of the entry.
Control == [pc     : {"none", "read", "register", "client", "wait", "respond", "verdict"},
            ch     : HelloKeys \cup {NoHello},
            nonce  : Nonces \cup {NoNonce},
            valid  : BOOLEAN,
            att    : Binding \cup {NoBinding},
            report : Binding \cup {NoBinding}]
NewControl(pc) ==
  [pc |-> pc, ch |-> NoHello, nonce |-> NoNonce, valid |-> FALSE,
   att |-> NoBinding, report |-> NoBinding]

Record == [ch : HelloKeys, admitted : BOOLEAN, verified : BOOLEAN]
Stats == [hellos : Nat, answers : Nat, verified : Nat, failed : BOOLEAN]

TypeOK ==
  /\ sock \in [Flows -> [id : Conns \cup {0}, est : BOOLEAN]]
  /\ opened \in 0 .. MaxConn
  /\ lanes \in [{"in", "out"} -> Seq(Packet)]
  /\ clock \in 0 .. MaxPackets
  /\ seen \in Conns \cup {0}
  /\ stash \in [Flows -> Stash \cup {NoStash}]
  /\ cache \in [Slots -> Entry \cup {NoEntry}]
  /\ index \in [HelloKeys -> Slots \cup {Nil}]
  /\ jobs \in Seq(Job)
  /\ reporter \in Job \cup {Idle}
  /\ control \in [Controls -> Control]
  /\ records \in Seq(Record)
  /\ stats \in Stats
  /\ phase \in {"run", "stopping", "draining", "exit"}

Init ==
  /\ sock = [f \in Flows |-> [id |-> 0, est |-> FALSE]]
  /\ opened = 0
  /\ lanes = [l \in {"in", "out"} |-> <<>>]
  /\ clock = 0
  /\ seen = 0
  /\ stash = [f \in Flows |-> NoStash]
  /\ cache = [s \in Slots |-> NoEntry]
  /\ index = [ch \in HelloKeys |-> Nil]
  /\ jobs = <<>>
  /\ reporter = Idle
  /\ control = [c \in Controls |-> NewControl("none")]
  /\ records = <<>>
  /\ stats = [hellos |-> 0, answers |-> 0, verified |-> 0, failed |-> FALSE]
  /\ phase = "run"

-----------------------------------------------------------------------------
(* The protected service and the capture of its packets.                     *)

Captured == clock + Len(lanes["in"]) + Len(lanes["out"])

\* A connection is accepted; it is established when its third packet is handled.
Connect(f) ==
  /\ sock[f].id = 0
  /\ opened < MaxConn
  /\ Prompt => \A l \in {"in", "out"} : \A i \in DOMAIN lanes[l] : lanes[l][i].flow # f
  /\ opened' = opened + 1
  /\ sock' = [sock EXCEPT ![f] = [id |-> opened + 1, est |-> FALSE]]
  /\ UNCHANGED <<capture, cache, index, jobs, reporter, control, records, stats, phase>>

Establish(f) ==
  /\ sock[f].id # 0
  /\ ~sock[f].est
  /\ sock' = [sock EXCEPT ![f].est = TRUE]
  /\ UNCHANGED <<opened, capture, cache, index, jobs, reporter, control, records, stats,
                 phase>>

Close(f) ==
  /\ sock[f].id # 0
  /\ sock' = [sock EXCEPT ![f] = [id |-> 0, est |-> FALSE]]
  /\ UNCHANGED <<opened, capture, cache, index, jobs, reporter, control, records, stats,
                 phase>>

\* The n-th ClientHello of a connection, or the ServerHello that acknowledges it,
\* passes the network interface, perhaps again.  A packet that is not captured is
\* lost to the observer.
Capture(f, lane, n) ==
  /\ phase = "run"
  /\ sock[f].id # 0
  /\ lane = "out" => sock[f].est
  /\ Captured < MaxPackets
  /\ lanes' = [lanes EXCEPT ![lane] = Append(@, [flow |-> f, conn |-> sock[f].id, n |-> n])]
  /\ UNCHANGED <<network, clock, seen, stash, cache, index, jobs, reporter, control,
                 records, stats, phase>>

-----------------------------------------------------------------------------
(* The cache.                                                                *)

stopping == phase # "run"

\* find_lookup_entry.
Lookup(ch) ==
  LET s == IF ch \in HelloKeys THEN index[ch] ELSE Nil
  IN  IF s # Nil /\ cache[s].used /\ cache[s].ch = ch THEN s ELSE Nil

FreeSlots == {s \in Slots : ~cache[s].used}
\* Mutant: a socket cookie is not compared.
MineByRoute(s, f, cookie) == cache[s].used /\ cache[s].flow = f
Mine(s, f, cookie) == cache[s].used /\ cache[s].flow = f /\ cache[s].cookie = cookie

Orphans(f, cookie) ==
  {s \in Slots : Mine(s, f, cookie) /\ cache[s].ch = NoHello /\ cache[s].sh # 0}
Placeholders(f, cookie) ==
  {s \in Slots : Mine(s, f, cookie) /\ cache[s].ch # NoHello /\ cache[s].sh = 0}
NewestOrphans(f, cookie) ==
  {s \in Orphans(f, cookie) : \A t \in Orphans(f, cookie) : cache[t].shAt <= cache[s].shAt}
NewestPlaceholders(f, cookie) ==
  {s \in Placeholders(f, cookie) :
     \A t \in Placeholders(f, cookie) : cache[t].chAt <= cache[s].chAt}

\* insert_lookup_index would succeed.
Insertable(ch, s) ==
  \/ index[ch] = s
  \/ index[ch] = Nil /\ Cardinality({k \in HelloKeys : index[k] # Nil}) < IndexCap

\* The entry in slot s, new or an orphan, gets its ClientHello.
Place(s, f, ch, at, cookie) ==
  LET e == IF cache[s].used THEN cache[s] ELSE NewEntry(f, cookie)
  IN  IF Insertable(ch, s)
      THEN /\ cache' = [cache EXCEPT ![s] =
                          [e EXCEPT !.flow = f, !.cookie = cookie, !.ch = ch, !.chAt = at]]
           /\ index' = [index EXCEPT ![ch] = s]
           /\ stats' = [stats EXCEPT !.hellos = @ + 1]
      ELSE /\ cache' = [cache EXCEPT ![s] = NoEntry]
           /\ UNCHANGED <<index, stats>>

\* observe_lookup_key.
ObserveLookup(f, ch, at, cookie) ==
  LET orphans == NewestOrphans(f, cookie)
      slots == IF orphans # {} THEN orphans ELSE FreeSlots
  IN  IF Lookup(ch) # Nil \/ slots = {}
      THEN UNCHANGED <<cache, index, stats>>
      ELSE \E s \in slots : Place(s, f, ch, at, cookie)

\* schedule_report_locked: an entry that has all that its report must attest gets its
\* job, or none at all if the job queue refuses it.
\* Mutants: a report is due before the request, or again.
DueBeforeRequest(e) == ~e.started /\ e.sh # 0
DueAgain(e) == e.sh # 0 /\ (Mutual => e.requested)
Due(e) == ~e.started /\ e.sh # 0 /\ (Mutual => e.requested)
Room == Len(jobs) < JobCap /\ ~stopping
BindingOf(e) == IF Mutual THEN [sh |-> e.sh, ch |-> e.ch, nonce |-> e.nonce]
                ELSE [sh |-> e.sh, ch |-> NoHello, nonce |-> NoNonce]
\* Mutant: an entry whose job is refused is left without its end.
ScheduledForEver(e) ==
  IF Due(e) THEN [e EXCEPT !.att = BindingOf(e), !.started = TRUE] ELSE e
Scheduled(e) ==
  IF Due(e) THEN [e EXCEPT !.att = BindingOf(e), !.started = TRUE, !.done = ~Room] ELSE e
JobsWith(s, e) ==
  IF Due(e) /\ Room THEN Append(jobs, [slot |-> s, flow |-> e.flow, att |-> BindingOf(e)])
  ELSE jobs
Refused(e) == Due(e) /\ ~Room

\* observe_report_key, and the counter its caller keeps.
ObserveReport(f, sh, at, cookie) ==
  LET known == {s \in Slots : Mine(s, f, cookie) /\ cache[s].sh = sh}
      placed == NewestPlaceholders(f, cookie)
      slots == IF placed # {} THEN placed ELSE FreeSlots
  IN  \/ /\ known # {}
         /\ stats' = [stats EXCEPT !.answers = @ + 1]
         /\ UNCHANGED <<cache, jobs>>
      \/ /\ known = {} /\ slots = {}
         /\ UNCHANGED <<cache, jobs, stats>>
      \/ /\ known = {}
         /\ \E s \in slots :
              LET e == [(IF cache[s].used THEN cache[s] ELSE NewEntry(f, cookie))
                          EXCEPT !.sh = sh, !.shAt = at]
              IN  /\ cache' = [cache EXCEPT ![s] = Scheduled(e)]
                  /\ jobs' = JobsWith(s, e)
                  /\ stats' = IF Refused(e) THEN stats ELSE [stats EXCEPT !.answers = @ + 1]

-----------------------------------------------------------------------------
(* The capture thread, which is the main thread in its poll loop.            *)

Dispatch(lane) ==
  /\ phase = "run"
  /\ lanes[lane] # <<>>
  /\ lanes' = [lanes EXCEPT ![lane] = Tail(@)]
  /\ clock' = clock + 1

\* capture_packet, client to server: ch_emit if the cookie of an established socket
\* can be read, and ch_feed keeps the ClientHello for later if it cannot.
DispatchHello ==
  /\ Dispatch("in")
  /\ seen = 0
  /\ LET p == Head(lanes["in"])
         f == p.flow
         ch == <<p.conn, p.n>>
     IN  \/ /\ sock[f].est
            /\ ObserveLookup(f, ch, clock + 1, sock[f].id)
            /\ stash' = [stash EXCEPT ![f] = NoStash]
         \/ /\ stash' = [stash EXCEPT ![f] = [ch |-> ch, at |-> clock + 1]]
            /\ UNCHANGED <<cache, index, stats>>
  /\ UNCHANGED <<network, seen, jobs, reporter, control, records, phase>>

\* A stash is given up: by its age, for another flow, or by a record that is no
\* ClientHello.
ExpireStash(f) ==
  /\ phase = "run"
  /\ stash[f] # NoStash
  /\ stash' = [stash EXCEPT ![f] = NoStash]
  /\ UNCHANGED <<network, lanes, clock, seen, cache, index, jobs, reporter, control,
                 records, stats, phase>>

\* capture_packet, server to client, up to the key callback: a ClientHello in the
\* stash is observed if this ServerHello acknowledges it and the socket is still the
\* same, and the stash is empty in any case.
RecoverHello ==
  /\ phase = "run"
  /\ lanes["out"] # <<>>
  /\ seen = 0
  /\ LET p == Head(lanes["out"])
         f == p.flow
     IN  /\ sock[f].est
         /\ stash[f] # NoStash
         /\ seen' = sock[f].id
         /\ \/ /\ stash[f].ch = <<p.conn, p.n>>
               /\ ObserveLookup(f, stash[f].ch, stash[f].at, sock[f].id)
            \/ UNCHANGED <<cache, index, stats>>
         /\ stash' = [stash EXCEPT ![f] = NoStash]
  /\ UNCHANGED <<network, lanes, clock, jobs, reporter, control, records, phase>>

\* The key callback, with the cookie read before.
DispatchServerHello ==
  /\ Dispatch("out")
  /\ seen' = 0
  /\ LET p == Head(lanes["out"])
         f == p.flow
     IN  \/ /\ seen # 0
            /\ ObserveReport(f, p.conn, clock + 1, seen)
         \/ /\ seen = 0
            /\ sock[f].est
            /\ stash[f] = NoStash
            /\ ObserveReport(f, p.conn, clock + 1, sock[f].id)
         \/ /\ seen = 0
            /\ UNCHANGED <<cache, jobs, stats>>
  /\ UNCHANGED <<network, stash, index, reporter, control, records, phase>>

-----------------------------------------------------------------------------
(* The report worker.                                                        *)

TakeReport ==
  /\ reporter = Idle
  /\ jobs # <<>>
  /\ reporter' = Head(jobs)
  /\ jobs' = Tail(jobs)
  /\ UNCHANGED <<network, capture, cache, index, control, records, stats, phase>>

\* The report goes to the slot the job names, if that still has the job's entry.
FinishReport ==
  /\ reporter # Idle
  /\ reporter' = Idle
  /\ LET s == reporter.slot
     IN  IF cache[s].used /\ cache[s].flow = reporter.flow /\ cache[s].att = reporter.att
         THEN \/ /\ cache' = [cache EXCEPT ![s].report = reporter.att, ![s].done = TRUE]
                 /\ UNCHANGED stats
              \/ /\ cache' = [cache EXCEPT ![s].done = TRUE]
                 /\ stats' = [stats EXCEPT !.failed = TRUE]
         ELSE UNCHANGED <<cache, stats>>
  /\ UNCHANGED <<network, capture, index, jobs, control, records, phase>>

-----------------------------------------------------------------------------
(* A control worker: control_worker_main, cut at what it waits for.          *)

At(c, pc) == control[c].pc = pc
Goto(c, pc) == control' = [control EXCEPT ![c].pc = pc]
Leave(c) == control' = [control EXCEPT ![c] = NewControl("none")]
ControlLocal == UNCHANGED <<network, capture, reporter, phase>>

Accept(c) ==
  /\ phase = "run"
  /\ At(c, "none")
  /\ control' = [control EXCEPT ![c] = NewControl("read")]
  /\ UNCHANGED <<cache, index, jobs, records, stats>>
  /\ ControlLocal

\* A request of the server's own kind; any other ends the connection (Disconnect).
ReadRequest(c) ==
  /\ At(c, "read")
  /\ \E ch \in HelloKeys, nonce \in Nonces :
       control' = [control EXCEPT ![c] = [NewControl("register") EXCEPT
                                            !.ch = ch, !.nonce = nonce]]
  /\ UNCHANGED <<cache, index, jobs, records, stats>>
  /\ ControlLocal

\* The cookie of the entry's socket can be read, and is the entry's.
Alive(s) == sock[cache[s].flow].est /\ sock[cache[s].flow].id = cache[s].cookie

\* Mutant: a ClientHello that was asked for can be asked for again.
RegisterAgain(c) ==
  LET s == Lookup(control[c].ch)
      e == [cache[s] EXCEPT !.requested = TRUE, !.nonce = control[c].nonce]
  IN  /\ At(c, "register")
      /\ s # Nil
      /\ Alive(s)
      /\ cache' = [cache EXCEPT ![s] = Scheduled(e)]
      /\ jobs' = JobsWith(s, e)
      /\ IF Refused(e) THEN Leave(c) ELSE Goto(c, IF Mutual THEN "client" ELSE "wait")
      /\ UNCHANGED <<index, records, stats>>
      /\ ControlLocal

\* register_request finds an observed ClientHello that nobody has asked for.
Register(c) ==
  LET s == Lookup(control[c].ch)
      e == [cache[s] EXCEPT !.requested = TRUE, !.nonce = control[c].nonce]
  IN  /\ At(c, "register")
      /\ s # Nil
      /\ ~cache[s].requested
      /\ Alive(s)
      /\ cache' = [cache EXCEPT ![s] = Scheduled(e)]
      /\ jobs' = JobsWith(s, e)
      /\ IF Refused(e) THEN Leave(c) ELSE Goto(c, IF Mutual THEN "client" ELSE "wait")
      /\ UNCHANGED <<index, records, stats>>
      /\ ControlLocal

\* receive_early_client_report.
ReadClientReport(c) ==
  /\ At(c, "client")
  /\ \E valid \in BOOLEAN :
       control' = [control EXCEPT ![c].pc = "wait", ![c].valid = valid]
  /\ UNCHANGED <<cache, index, jobs, records, stats>>
  /\ ControlLocal

\* wait_for_report finds the entry's report, and takes it once.
TakeDelivery(c) ==
  LET s == Lookup(control[c].ch)
  IN  /\ At(c, "wait")
      /\ s # Nil
      /\ cache[s].requested
      /\ cache[s].report # NoBinding
      /\ ~cache[s].delivered
      /\ cache[s].nonce = control[c].nonce
      /\ Alive(s)
      /\ cache' = [cache EXCEPT ![s].delivered = TRUE]
      /\ control' = [control EXCEPT ![c].pc = "respond", ![c].att = cache[s].att,
                                    ![c].report = cache[s].report]
      /\ UNCHANGED <<index, jobs, records, stats>>
      /\ ControlLocal

\* Mutant: only the stop ends the wait.
GiveUpOnStop(c) ==
  /\ At(c, "register") \/ At(c, "wait")
  /\ stopping
  /\ Leave(c)
  /\ UNCHANGED <<cache, index, jobs, records, stats>>
  /\ ControlLocal

\* The loops of register_request and wait_for_report give up: the binding is bad, the
\* report failed, the window of 30 seconds is over, or the server stops.
GiveUp(c) ==
  /\ At(c, "register") \/ At(c, "wait")
  /\ Leave(c)
  /\ UNCHANGED <<cache, index, jobs, records, stats>>
  /\ ControlLocal

\* Workers increment client_reports_verified without a lock: an increment may be lost
\* while another worker is at the same point.
Counted(c) ==
  {stats.verified + 1} \cup
  {n \in {stats.verified} : \E d \in Controls \ {c} : At(d, "respond")}

\* verify_early_client_report in mutual mode, then the response.
Respond(c) ==
  /\ At(c, "respond")
  /\ \/ /\ Mutual
        /\ ~control[c].valid
        /\ stats' = [stats EXCEPT !.failed = TRUE]
        /\ Leave(c)
     \/ /\ Mutual => control[c].valid
        /\ IF Mutual THEN \E n \in Counted(c) : stats' = [stats EXCEPT !.verified = n]
                     ELSE UNCHANGED stats
        /\ Goto(c, "verdict") \/ Leave(c)
  /\ UNCHANGED <<cache, index, jobs, records>>
  /\ ControlLocal

\* Mutant: the slot is freed, its index entry is not.
RecordVerdictKeepingIndex(c, admitted) ==
  LET s == Lookup(control[c].ch)
  IN  /\ IF s # Nil /\ cache[s].delivered /\ Len(records) < Expected
         THEN /\ records' = Append(records, [ch |-> control[c].ch, admitted |-> admitted,
                                             verified |-> Mutual => control[c].valid])
              /\ cache' = [cache EXCEPT ![s] = NoEntry]
         ELSE UNCHANGED <<records, cache>>
      /\ UNCHANGED index

\* record_verdict: the entry is recorded and freed, unless all that were expected are.
RecordVerdict(c, admitted) ==
  LET s == Lookup(control[c].ch)
  IN  IF s # Nil /\ cache[s].delivered /\ Len(records) < Expected
      THEN /\ records' = Append(records, [ch |-> control[c].ch, admitted |-> admitted,
                                          verified |-> Mutual => control[c].valid])
           /\ index' = [index EXCEPT ![control[c].ch] = Nil]
           /\ cache' = [cache EXCEPT ![s] = NoEntry]
      ELSE UNCHANGED <<records, index, cache>>

ReadVerdict(c) ==
  /\ At(c, "verdict")
  /\ \E admitted \in BOOLEAN : RecordVerdict(c, admitted)
  /\ control' = [control EXCEPT ![c] = NewControl(IF stopping THEN "none" ELSE "read")]
  /\ UNCHANGED <<jobs, stats>>
  /\ ControlLocal

\* Mutant: the stop does not shut the connections down.
DisconnectByClient(c) ==
  /\ \E pc \in {"read", "client", "verdict"} : At(c, pc)
  /\ ~stopping
  /\ Leave(c)
  /\ UNCHANGED <<cache, index, jobs, records, stats>>
  /\ ControlLocal

\* The client closes the connection or sends what does not belong there, or the stop
\* shuts the connection down.
Disconnect(c) ==
  /\ \E pc \in {"read", "client", "verdict"} : At(c, pc)
  /\ Leave(c)
  /\ UNCHANGED <<cache, index, jobs, records, stats>>
  /\ ControlLocal

-----------------------------------------------------------------------------
(* main() after the poll loop: stop_control_threads, the report thread, and  *)
(* the exit status.                                                          *)

Stop ==
  /\ phase = "run"
  /\ seen = 0
  /\ phase' = "stopping"
  /\ UNCHANGED <<network, capture, cache, index, jobs, reporter, control, records, stats>>

ControlsStopped ==
  /\ phase = "stopping"
  /\ \A c \in Controls : At(c, "none")
  /\ phase' = "draining"
  /\ UNCHANGED <<network, capture, cache, index, jobs, reporter, control, records, stats>>

\* The report worker leaves when it finds no job.
Exit ==
  /\ phase = "draining"
  /\ jobs = <<>>
  /\ reporter = Idle
  /\ phase' = "exit"
  /\ UNCHANGED <<network, capture, cache, index, jobs, reporter, control, records, stats>>

\* Mutant: ClientHellos that were never asked for do not count.
CompleteIfRecorded ==
  /\ Len(records) = Expected
  /\ \A i \in DOMAIN records : records[i].admitted

\* Exit status 0, if the capture has not lost packets either.
Complete ==
  /\ Len(records) = Expected
  /\ \A i \in DOMAIN records : records[i].admitted
  /\ stats.hellos = Expected
  /\ stats.answers = Expected
  /\ Mutual => stats.verified = Expected
  /\ ~stats.failed

-----------------------------------------------------------------------------
Network(f) ==
  \/ Connect(f)
  \/ Establish(f)
  \/ Close(f)
  \/ \E lane \in {"in", "out"}, n \in 1 .. MaxHello : Capture(f, lane, n)

Observer ==
  \/ DispatchHello
  \/ RecoverHello
  \/ DispatchServerHello
  \/ \E f \in Flows : ExpireStash(f)

Reporter == TakeReport \/ FinishReport

ControlWorker(c) ==
  \/ Accept(c)
  \/ ReadRequest(c)
  \/ Register(c)
  \/ ReadClientReport(c)
  \/ TakeDelivery(c)
  \/ GiveUp(c)
  \/ Respond(c)
  \/ ReadVerdict(c)
  \/ Disconnect(c)

Main == Stop \/ ControlsStopped \/ Exit

Next ==
  \/ phase # "exit" /\ \E f \in Flows : Network(f)
  \/ Observer
  \/ Reporter
  \/ \E c \in Controls : ControlWorker(c)
  \/ Main

Spec == Init /\ [][Next]_vars

\* The report worker waits for nothing but jobs.  The loops of a control worker look at
\* the clock and at "stopping" every 5 ms; a read of a control connection lasts as long
\* as the client likes, until the stop shuts the connection down.
FairSpec ==
  /\ Spec
  /\ WF_vars(Reporter)
  /\ \A c \in Controls :
       /\ WF_vars(Register(c) \/ TakeDelivery(c) \/ GiveUp(c))
       /\ WF_vars(Respond(c))
       /\ WF_vars(stopping /\ Disconnect(c))
  /\ WF_vars(ControlsStopped \/ Exit)

-----------------------------------------------------------------------------
(* What must hold.                                                           *)

\* The index and the cache agree: a ClientHello that is observed can be looked up, at
\* the slot of its own entry, and nothing else can (insert_lookup_index,
\* delete_lookup_index, and every place that frees a slot).
IndexIsExact ==
  \A ch \in HelloKeys, s \in Slots : index[ch] = s <=> cache[s].used /\ cache[s].ch = ch

\* A slot is never given away while a job for it is queued or in hand: the report that
\* comes out is one for the entry that asked for it, which has no other job.
Pending == {jobs[i] : i \in DOMAIN jobs} \cup ({reporter} \ {Idle})
Owns(j) == /\ cache[j.slot].used
           /\ cache[j.slot].flow = j.flow
           /\ cache[j.slot].att = j.att
           /\ cache[j.slot].started
           /\ ~cache[j.slot].done
JobOwnsSlot ==
  /\ \A j \in Pending : Owns(j)
  /\ \A i, k \in DOMAIN jobs : jobs[i].slot = jobs[k].slot => i = k
  /\ \A i \in DOMAIN jobs : jobs[i].slot # reporter.slot

\* Two connections never serve the same ClientHello, whoever asks for it how often: the
\* entry stays with the one that registered first until that one is done.
Serving(c) == \E pc \in {"client", "wait", "respond", "verdict"} : At(c, pc)
ServedOnce ==
  /\ \A c, d \in Controls :
       Serving(c) /\ Serving(d) /\ control[c].ch = control[d].ch => c = d
  /\ \A c \in Controls : Serving(c) =>
       LET s == Lookup(control[c].ch)
       IN  /\ s # Nil
           /\ cache[s].requested
           /\ cache[s].nonce = control[c].nonce
           /\ cache[s].delivered <=> At(c, "respond") \/ At(c, "verdict")

\* What is sent is a report for the key the response names; in mutual mode that key
\* binds the client's own ClientHello and nonce, and the client was verified first.
ResponseIsBound ==
  \A c \in Controls : At(c, "respond") \/ At(c, "verdict") =>
    /\ control[c].report = control[c].att
    /\ control[c].att.sh = cache[Lookup(control[c].ch)].sh
    /\ Mutual => /\ control[c].att.ch = control[c].ch
                 /\ control[c].att.nonce = control[c].nonce
                 /\ At(c, "verdict") => control[c].valid

\* No ClientHello is lost: each that was counted has its entry or its record.
HellosAreKept ==
  stats.hellos = Len(records) + Cardinality({ch \in HelloKeys : index[ch] # Nil})

\* Exit status 0 leaves no observed ClientHello without a verified answer.
CompleteIsClean ==
  phase = "exit" /\ Complete =>
    /\ \A s \in Slots : cache[s].ch = NoHello
    /\ \A i \in DOMAIN records : records[i].admitted /\ records[i].verified

\* The ClientHello and the ServerHello of an entry are of the same connection, provided
\* the capture keeps up with the reuse of ports: the cookie is that of the socket at the
\* time of the dispatch, not of the packet.
PairIsOfOneConnection ==
  Prompt => \A s \in Slots :
    cache[s].ch # NoHello /\ cache[s].sh # 0 => cache[s].ch[1] = cache[s].sh

\* An entry whose requester has gone stays as it is: nobody can ask for it again, no
\* report of it is delivered, and its slot is not freed.
Abandoned(s) ==
  /\ cache[s].used
  /\ cache[s].requested
  /\ \A c \in Controls : Serving(c) => Lookup(control[c].ch) # s
AbandonedStays ==
  [][\A s \in Slots : Abandoned(s) =>
       /\ Abandoned(s)'
       /\ cache'[s].ch = cache[s].ch
       /\ cache'[s].delivered = cache[s].delivered]_vars

\* Every report that is started comes to an end, also when the server is stopped.
ReportEnds ==
  \A s \in Slots : cache[s].started ~> cache[s].done \/ ~cache[s].used

\* A worker never waits for a report, or for a ClientHello, for ever.
WaitEnds ==
  \A c \in Controls : At(c, "register") \/ At(c, "wait")
                        ~> ~(At(c, "register") \/ At(c, "wait"))

\* The stop ends, whatever the clients do.
StopEnds == phase = "stopping" ~> phase = "exit"
=============================================================================
