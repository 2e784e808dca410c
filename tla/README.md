# TLSLatch: specifications, model checking and proofs

TLSLatch binds remote attestation to individual TLS connections. A client host
holds back what its applications send to a protected endpoint until a report of
the server's hardware (a CSV report) is verified whose user data names the very
handshake the client sees: the digest of the key share in the ServerHello, found
through the digest of the key share in the ClientHello. If anything about a
connection is in doubt, the whole endpoint is quarantined.

This directory holds TLA+ modules of the parts of that system that are hard to
test, the TLC configurations that check them on small instances, and proofs
checked by TLAPS. Paths below are relative to the repository; line numbers are
those of the commit the modules were written from, and `PROJECT.json` maps each
definition to its lines.

## 1. Inventory

### The Linux client agent: `agents/linux/tcpra_client_agent.c`

*State.* `flows`, a table of gates keyed by TCP four-tuple (`NONE`, `HANDSHAKE`,
`SERVER_HELLO`, `ADMITTED`, `DENIED`; lookup key of the ClientHello, report key of
the ServerHello, socket cookie, deadline, up to 512 held packets); `sessions`, one
per observed ClientHello up to `--expected`; a job queue and a decision queue of
8192 each; `endpoint_quarantined`; counters.

*Threads and interaction.* The gate thread is the poll loop of `main`: it drains the
decision queue, handles one batch of NFQUEUE packets (`nfqueue_callback`,
`handle_client_packet`) and scans for expired gates. It tells the sessions the
ClientHello and ServerHello keys (`client_observe_hello`,
`client_observe_server_key`). Control workers take sessions from the job queue
(`run_control_job`): request, response, wait for the ServerHello, verify, queue a
decision, wait until the gate thread has applied it, tell the server, finish.

*What is hard.* Decisions travel between threads and may arrive after the four-tuple
was reused, after the gate's deadline, after a quarantine or after the worker gave
up waiting; queues and tables fill; the worker and the gate thread both write
`gate_allowed` and `finish_session` reads it twice without the mutex; a stop may
find work in every queue.

*What makes it correct.* Nothing leaves the host for a connection whose own
handshake was not verified; a quarantine is final; the server and the exit status
are told the truth; held packets and sessions are resolved.

### The kernel around the client: `install-gate.sh`, `linux_safety.h`, `flow_selector_nft.c`, `quarantine-endpoint.sh`

The nftables rules add each SYN's four-tuple to the pending set, send unmarked
packets to NFQUEUE, and let a connection pass whose conntrack entry carries the mark
`0x544c0001`, which is saved when the agent accepts a packet with that mark. Socket
cookies identify the socket that owns a four-tuple now. Quarantine adds the endpoint
to a set that drops its traffic; it outlives the agent until someone recovers it.

### The Linux report server: `agents/linux/tcpra_server_agent.c`, `pcap_observer.c`

*State.* A cache of 8192 entries in an open-addressing table (free, used,
tombstone), each with the ClientHello's lookup key, the ServerHello's report key, the
socket cookie, the report and the stage of its request; an index from lookup keys to
slots; a job queue for the report worker; control connections; completed records;
128 stashes (`pcap_observer.c`) for ClientHellos that arrive in pieces or too early, which
are evicted, oldest first, and expire after ten seconds.

*Operations.* The capture thread pairs ClientHellos and ServerHellos in either order
(`observe_lookup_key`, `observe_report_key`); a report worker generates reports;
control workers register a request, wait for its report, deliver it once, read the
verdict and free the entry (`control_worker_main`); main shuts down.

*What is hard.* Orphans and placeholders of the same four-tuple, jobs whose slot may
be given away, requests that break off with the slot taken, the stop of three kinds
of threads.

*What makes it correct.* The index and the cache agree; a report goes to the request
it was generated for, and once; what the records say was verified was.

### The control protocol: `ra_protocol_early.h`, `wire_io.c`

Request, in mutual mode the client's early report, response with a status and a
report, verdict; fixed-size records over one TCP connection per client worker. Any
failure ends the connection; the client's worker reconnects.

### Client audit: `agents/linux/client_audit.h`

With `--audit-only` the agent delays nothing and proves nothing: it writes down each
handshake (`items`, at most `--expected` of them) and, with `--audit-dlog`, a thread of its
own (`audit_report_worker`) has a report made of each. *What is hard.* The log and the gate
table are bounded and the audit frees no gate; a marked connection bypasses the agent for
good; the thread sleeps on a condition that the gate thread and the stop signal.
*What makes it correct.* No handshake passes unrecorded unless the exit status says so,
and a stop writes what is due.

### The Windows client: `agents/windows`

`tcpra_agent_c.c` discovers connections by their SYN, opens a WinDivert handle for each,
and holds what follows the ClientHello (32 MiB per session); flow workers receive, control
workers attest and decide, each pool with a queue of sessions. `guardian.c` is a
second process with duplicates of the handles: when the agent ends without its clean
message, the guardian quarantines the endpoint before it closes them.

*What is hard.* The latch (`tripped`) is read by many threads without a lock, the
decision, the release of held packets, the blocking of the endpoint and the closing of
handles are steps of different threads and processes, and either process may be killed
between any two.

*What makes it correct.* Application data leaves only after a verified report; at no
moment is a connection neither diverted nor admitted nor blocked.

### The macOS client: `agents/macos`

A network extension (`Provider.swift`) with one `FlowState` per flow, an exchange on a
queue of its own, a five-second deadline, and a Rust library for parsing and
verification. `Host.swift` activates the extension.

### Batch attestation: `batch/linux`, `batch/mutual`, `batch/windows`, `batch/macos`

Attestation after the fact: observers record handshakes, the client sends batches of
them, the server signs one proof per batch and answers a repeated batch with the
recorded answer. The mutual variant adds a challenge and a report of the client.

### Evidence: `csv_attestation.c`, `crypto_bridge.c`, `csv_verify.rs`, `csv_fd_fix.c`

A report's fields are masked with a nonce that is not signed itself; three verifiers, in C
on Linux and Windows and in Rust on macOS, check them in their own ways. On Linux a preloaded
wrapper closes the file that the vendor's library leaks. *What makes it correct.* What
verifies is the trusted chip's, whatever was changed on the way, and what one generates the
others accept.

### Batch proofs: `native_proof.py`, `proof_worker.c`

A batch process on Linux has its reports made and verified by a helper process behind two
pipes, on Windows and macOS by a library in the process. *What is hard.* The helper may
die, hang, or be hit by the terminal's Ctrl+C with its parent; answers must stay in step with
requests; a stop must leave no process behind.

### Others

TLS parsing (`tls_parse.c`), packet parsing (`packet_view.c`), profiling (`profile.c`),
build scripts, and the vendored library.

`PROJECT.json` lists every component with its status, and under "hazards" every place
known to be hard to test, with the properties that cover it.

## 2. Plan

| | module | about | state |
|---|---|---|---|
| 1 | `Latch` | what a client gate promises, abstractly | written |
| 2 | `ClientGate` | the Linux client agent, implementing `Latch` | written, checked, proved |
| 3 | `ReportServer` | capture, cache, index, report worker, control workers, shutdown | written, checked, proved |
| 4 | `WindowsAgent` | discovery, workers, the release against the latch; the guardian after a crash at any point | written, checked, proved |
| 5 | `MacProvider` | framework, exchange and timer against one another | written, checked, proved |
| 6 | `Batch` | one-way and mutual batches: replay, disjoint assignment, lost answers, the final accounts | written, checked, proved |
| 7 | `ClientAudit` | the audit mode: the bounded log and the thread that reports it | written, checked, proved |
| 8 | `HelloStash` | ClientHellos split over segments, or early, in `pcap_observer.c` | written, checked, proved |
| 9 | `Evidence`, `NativeProof` | reports and their three verifiers; a batch process, its helper and its pipes | written, checked, proved |

One run per component, with its safety and its liveness properties together, except where
one instance cannot show everything (2 and 3), and one run for a finding (9).

`Batch` takes a proof as one step that succeeds or fails; `NativeProof` is that step.
`ReportServer` takes a ClientHello as one packet; `HelloStash` is what makes it one.

Considered and left out:

- A composition of `ClientGate` and `ReportServer`. Each end is checked and proved against
  a peer that sends anything at any time, and assumes nothing of it, so the composition
  has no behaviour that either lacks, and no property that would need both: what the client
  concludes rests on the report it verified itself.
- A module of the open-addressing tables. `ReportServer` lets a new entry take any free
  slot, which covers every order of probing; what is left is a textbook algorithm on one
  thread under a mutex.
- A module of the nftables rules after a quarantine. The scripts add elements to two sets and
  flush them; what could go wrong is the kernel's part, or the operator's.

Modules with theorems use no RECURSIVE operator, and take their parameters as CONSTANTS with
a named assumption. Proofs are in modules of their own.

## 3. ClientGate

### The model and the code

| variable | code |
|---|---|
| `sock`, `opened` | the kernel's sockets; a connection's number is its cookie |
| `inq` | NFQUEUE, per four-tuple in order |
| `ctmark`, `pending` | conntrack entries with the mark; the nftables pending set |
| `gate` | `agent->flows` |
| `quarantined` | `agent->endpoint_quarantined` |
| `sess` | `agent->sessions`; `jobs`, `decisions` hold indices into it |
| `worker` | control workers: the point they reached in `run_control_job`, their session, their connection |
| `phase` | the poll loop, then `stop_workers`, the last `drain_decisions`, and the end |

The gate thread is alone in writing `gate`, so each packet, each decision and each
expiry is one action. A control worker is cut where it reads or writes what another
thread writes: `Exchange`, `AwaitHello`, `QueueDecision`, `WaitGate`, `GiveUp`,
`SendVerdict`, `Finish`, `Count`. `GiveUp` is apart from `WaitGate` and `Finish` apart
from `Count` because the code writes or reads `gate_allowed` there outside the
session's mutex; the actions allow each interleaving of those single accesses.

The environment: applications open, retransmit, send, and close in any order; NFQUEUE
loses packets (`Overrun`); the peer answers a ClientHello with any ServerHello; the
report server answers with anything, which `Exchange` reduces to the key that the
response names and that a report verifies against, or none. The nftables
transaction of a quarantine may fail without anybody noticing, as in the code, so
the model relies on the agent's own flag only. Deleting the four-tuple from the
pending set may fail at any time. Deadlines may pass at any time.

A ClientHello's key is the pair of its connection and a number: key shares are fresh,
which is an assumption on the applications' TLS libraries. A new connection has a
conntrack entry of its own without the mark, an assumption on the kernel (a SYN on a
finished entry starts a new one).

### The properties

- `AdmittedIsAttested`: an open gate stands on a verified report for the ClientHello
  and the ServerHello it saw.
- `MarkedIsAttested`: a connection whose packets pass, by mark or by release, had a
  report verified for a ClientHello of its own.
- `HeldIsOwned`: packets are held by undecided gates only, and a gate with a
  ClientHello holds packets of the connection that sent it only. A gate that has seen
  no more than a SYN may hold a straggler of the port's last connection: with three
  packets of the four-tuple queued, a SYN of the closed socket can be handled when the
  port's next socket is already in SYN_SENT, and data of the closed one after it. The
  straggler is dropped when the gate is reset by the next SYN or ClientHello, before
  any decision. This case came up in the proof, which covers it; `gate_flows` queues two
  packets only.
- `DeniedIsQuarantined`: each way of denying a gate quarantines the endpoint. After that
  nothing opens, though decisions go on being applied: `LatchSpec` says so of the gates,
  and `QuarantineIsFinal`, which is proved only, of the marks as well.
- `VerdictIsHonest`: the server hears "verified" of sessions whose gate was opened only,
  whatever the timeouts and the stop do.
- `SessionIsOwned`: a session has one owner and is decided once.
- `CompleteIsHonest`: exit status 0 means each expected session was verified, admitted
  and reported to the server.
- `HeldIsResolved`, `SessionFinishes`: liveness.
- `LatchSpec`: the gate implements `Latch`, with verified sessions as its proofs.
- `GateInv`, `CountedIsVerified` (`ClientGateInv.tla`): the inductive invariants of the proofs;
  they are proved and no run's properties.

### The runs

| run | instance | shows |
|---|---|---|
| `gate_handshake` | 1 connection, 2 server keys, under `FairSpec` | the refinement of `Latch`, and liveness |
| `gate_flows` | 2 connections of one four-tuple, 2 sessions, a packet of each queued | marks, held packets and the exit status when the port is reused |
| `gate_hello` | mutual, 2 flows, 2 connections, 2 ClientHellos each, a table, a queue and a pending set of 1, handshakes and deadlines only | a decision for the first ClientHello never serves the second; honest verdicts; denial always quarantines; sessions have one owner though queues refuse |

*Bounds.* `MaxConn`, `MaxHello` and `MaxInq` bound the environment; the code's
capacities are constants, set small enough to be reached. Two connections are enough
for a reused port, two ClientHellos for a HelloRetryRequest, one place in a queue for
it to be full. In `gate_flows` each connection has one packet in the queue at a time
(`FlowsSpec` in `MCClientGate.tla`), so that packets of the two meet there. `gate_hello` leaves
payload, retransmissions and losses to the other runs (`HelloSpec`): the properties it checks
are about ClientHellos, sessions, workers and queues. It uses the symmetry of the flows. The
proofs below hold for every value of all the bounds, and for any environment.
Deadlock is not checked in any of the runs because the agent exits and the environment's
connections are bounded.

*Fairness.* `FairSpec` asks weak fairness of the gate thread's callbacks, decisions and
expiries: the loop polls with a timeout of 100 ms and scans after each round
(1340-1363). It asks the same of each worker, whose waits have deadlines and whose
sockets have timeouts. It asks nothing of the applications, of the peer, or of a stop.

## 4. ReportServer

### The model and the code

| variable | code |
|---|---|
| `sock`, `opened` | the sockets of the protected service; a connection's number is its cookie |
| `lanes`, `clock`, `seen` | the two capture handles, packets dispatched (the model's time), the cookie `capture_packet` has read |
| `stash` | deferred ClientHellos, one per four-tuple |
| `cache`, `index` | `agent->cache`, `agent->lookup_index` |
| `jobs`, `reporter` | `agent->jobs`, the job in the report worker's hands |
| `control` | control workers: the wait they have reached, their request and their snapshot |
| `records`, `stats` | `agent->records`, the counters the exit status depends on |
| `phase` | the poll loop, `stop_control_threads`, the join of the report thread, the end |

Each action is one critical section of `cache_mutex` with what surrounds it, or the
thread-local work between two. `capture_packet` takes the mutex twice when it recovers a
deferred ClientHello, hence `RecoverHello` and `DispatchServerHello`. A control worker is
cut at each of its waits: the request, `register_request`, the client's report,
`wait_for_report`, the response, the verdict.

Time is the order of dispatches: it decides which of several orphans or placeholders is the
newest. A deferred ClientHello keeps the time at which it was stashed, as in the code; how it is
put together is the subject of `HelloStash`. The 30-second window, the age of a stash and the
deadlines may run out at any time, and reading a socket's cookie may fail at any time. The order
in which the tables are probed is left open: a new entry takes any free slot, and the index is a
map with `IndexCap` places. The unlocked increments of `client_reports_verified` may lose an
update (`Counted`).

The environment: connections come and go, ClientHellos and ServerHellos are captured in
any number, order and combination, each lane in order; clients ask for any ClientHello
with any nonce, send valid or invalid reports and any verdict, and break off anywhere.

`ServerAssumption` has `Cardinality(Slots) <= IndexCap`, true of the code (8192 and 16384).
Without it a failed insertion would free an entry whose job is queued (354-360).

### The properties

- `IndexIsExact`: a ClientHello can be looked up exactly if an entry holds it (proved
  only).
- `JobOwnsSlot`: a slot is never given away while a job for it is queued or in hand,
  so the comparison at 554-556 never fails.
- `ServedOnce`: of all control connections, one at a time serves a ClientHello, and the
  entry is in the state that one has brought it to.
- `ResponseIsBound`: what is sent is the report for the key in the response; in mutual
  mode that key binds this request's ClientHello and nonce.
- `AbandonedStays`: the other side of `ServedOnce`: an entry whose requester went away can
  neither be asked for again nor freed. It follows that broken sessions use up the cache.
- `HellosAreKept`, `CompleteIsClean`: the counters account for every ClientHello, so
  that exit status 0 means that each one observed was answered, verified and admitted.
- `PairIsOfOneConnection`: an entry pairs the ClientHello and the ServerHello of one
  connection, if the capture keeps up with the reuse of ports (`Prompt`). Without that, TLC
  shows a ServerHello of a closed connection that is dispatched when the next connection of
  the four-tuple is established, and is paired with the next one's ClientHello. The client
  compares the report's key with the ServerHello it saw itself (`AdmittedIsAttested`
  of `ClientGate` assumes nothing of the server), so the outcome is a refusal.
- `ServerInv`, `PairInv` (`ReportServerInv.tla`): the inductive invariants of the proofs; they
  are proved and no run's properties.
- `ReportEnds`, `WaitEnds`, `StopEnds`: liveness.

### The runs

| run | instance | shows |
|---|---|---|
| `server_mutual` | mutual, 2 connections with a ClientHello each, 4 packets, 2 nonces, 2 slots, 2 control connections, 1 session expected, prompt capture | pairing, single service, abandoned entries, the binding of responses, the accounts and the exit status |
| `server_live` | one-way, 2 connections with a ClientHello each, 3 packets, 2 slots, a report queue of one place, 1 control connection, any capture delay | job ownership, and liveness under `FairSpec` |

*Bounds.* Two connections of one four-tuple are what pairing and slot reuse need, four packets
their two handshakes; a queue of one place overflows, and the two control connections of
`server_mutual` compete for one ClientHello. Entries of different four-tuples meet only in the size of the cache,
which a second connection of the same one takes up as well. In `server_live` a ClientHello
and a ServerHello each find the cache full (with packets dispatched under the next connection's
cookie, two connections make more than two entries), and a report is refused because
the queue's one place is taken; the mutant of `ReportEnds`, a refused job that leaves its entry without
an end, shows that this case is reached.
`server_mutual` uses the symmetry
of slots, control connections and nonces. Deadlock is not checked because the server
exits.

*Fairness.* `FairSpec` asks weak fairness of the report worker, of the loops of
`register_request` and `wait_for_report` (they wake every 5 ms and look at the clock), of
the sending of a response, and of the steps of the stop. A control connection's reads
are under no fairness before the stop: the server waits for a request or a verdict as
long as the client likes.

## 5. WindowsAgent

### The model and the code

| variable | code |
|---|---|
| `app`, `wire` | the application's connections; the flows whose application data has left the host |
| `divq` | the packets a WinDivert handle has queued |
| `blocked` | the firewall rule of `firewall_helper.c`, and the connections aborted with it |
| `alive`, `crashes` | the agent's process; processes that have died |
| `main` | where `run_agent` is |
| `tripped` | the latch of `guardian_client.c` |
| `sess` | `Session` and its `Row`; `handle` and `shut` are the state of `divert`, `done` is `control_done` |
| `flowq`, `ctlq` | `flow_queue`, `control_queue` |
| `fw`, `cw` | the flow workers and the control workers: where they are, with which session |
| `guard`, `refs`, `banned`, `clean` | `guard_parent`: message loop, closing, end; its duplicates; `banned`, `clean` |

A flow worker takes a session and receives its packets until the handle is shut, waits for
the control worker and finishes the session (`TakeFlow`, `Recv`, `RecvEnds`,
`FinishSession`, `CloseFlow`). Each packet is one action, because `inspect_packet` holds the
session's lock; `Locked` keeps it out while held packets are released one by one. A control
worker goes from the request to the verdict (`Exchange`, `AwaitServerHello`, `Verify`,
`SendVerdict`), reads the latch (`Decide`), and only later takes the lock (`Admit`): between
the two another session may trip the latch and get the endpoint blocked. A session admitted
then still holds its report; its packets meet the firewall, and if any is held the
release loop sees the latch.

`guard_trip` is two steps, the latch and then the command (`Quarantine`), so that other
threads and a crash come between them. A command to the guardian is one step, since
`ipc_lock` admits one at a time and the guardian does nothing else; a quarantine is one step at the
moment it succeeds (before that it is retried every second). If the guardian is dead the agent
quarantines the endpoint itself.

The environment: an application's ClientHello, which is sent again until it has got
through, the peer's ServerHello, and data after that. Packets may be lost when they are
reinjected. The server's answer verifies or does not, and any step of the exchange may
fail or time out. A WinDivert handle diverts until it is shut or its last duplicate
is closed. Data that was reinjected before the endpoint was blocked may leave after it,
so the model does not count on the firewall there.

`MaxCrash` is at most 1: with both processes dead nobody is left to block the endpoint,
and the code makes no attempt to survive that. The connections are those the agent
takes (`--expected`): later ones are not diverted at all, which the agent's README tells the
operator to avoid.

### The properties

- `DataIsAttested`: application data leaves the host for sessions only that were verified
  and whose verdict was sent.
- `OpenIsSafe`: a discovered connection is diverted, or was admitted, or the endpoint is
  blocked, in every state. This is what the order "hold, then let the SYN go",
  "trip, then shut" and "quarantine, then close the duplicates" is for.
- `DeniedIsBlocked`: a session whose control worker is done was admitted, or the endpoint is
  blocked; no path of `decide` leaves out the trip.
- `CleanIsHonest`: the clean message is sent only if everything was verified, told and
  released, and the latch was never tripped.
- `SessionIsDecided`, `EndIsBlocked`: liveness. A submitted session is decided; after the end
  of the agent, by itself or by force, the endpoint gets blocked unless all sessions were
  admitted.

### The runs

| run | instance | shows |
|---|---|---|
| `windows_agent` | 2 flows, 1 flow worker, 1 control worker, one crash, under `FairSpec` | all of the above |

*Bounds.* Two sessions are what the latch needs to come from elsewhere; with one worker of
each kind the second waits in the queue while the first is served. One held packet fills the
arena and is enough for a release that breaks off; queues of one place are full with the
other session. The guardian has room for the discovery handle and both flows. The proofs cover
more workers. No symmetry is used, because of the liveness properties. Deadlock is not
checked because the agent exits.

*Fairness.* Weak fairness of each worker, of the agent's end and of the guardian: a worker's
sockets and its wait for the ServerHello have timeouts, and a quarantine is assumed to
succeed at some retry. Nothing is asked of the applications, of the peer, or of discovery.

## 6. MacProvider

### The model and the code

| variable | code |
|---|---|
| `conn`, `out`, `in`, `wire` | the framework's flows: open, closed, reported; what it does with each direction; the flows whose application data has left the host |
| `late` | flows that are older than five seconds |
| `states`, `st` | `FilterDataProvider.states`, `FlowState` |
| `exch`, `timer` | the two closures that call `finish`: the exchange on a global queue, and the timer of `handleNewFlow` |
| `proved`, `told` | flows for which `verifyFn` accepted the report, and whose server was told so |

The framework's calls hold the flow's condition lock and are one action each
(`HandleNewFlow`, `HandleOutboundData`, `HandleInboundData`, `HandleDataComplete`,
`HandleReport`). The exchange is cut at its waits: the report (`Request`), the binder
(`WaitBinder`), `Verify`, the verdict (`SendVerdict`), each of which the deadline may end.
`finish` is two steps, the decision under the lock (`Decide`) and the resumption without it
(`Resume`), for the exchange and for the timer.

`waitBinder` returns a binder that has come even if the flow is denied already, so the
exchange may go on to tell the server "verified" of a flow that stays closed; the model
has that, and no property forbids it. A record too short to be judged asks for more bytes
and changes nothing. A direction that is allowed is not seen by the filter any more, so its
end is not either, and the entry stays until the framework reports the close.

Assumed of the framework: it calls no data handler for a flow that is closed or paused, it
reports the close at most once, and a pause takes effect when the handler has returned,
before any `resumeFlow` that follows the decision. The last of these is not certain from
this code, since `finish` runs on another thread as soon as the lock is free; `hazards`
names it.

### The properties and the run

- `DataIsAttested`: application data leaves the host for flows only whose report was
  verified, whose verdict was sent, and whose decision is, and stays, yes: a timer that
  fires later, the report of the close or a second thread in `finish` changes nothing.
- `PauseEnds` (liveness): data that is withheld is let go or dropped: the decision misses
  no pause and the pause no decision.

`mac_filter` checks them for two flows and a dictionary with room for one: the second flow
is dropped at once or follows the first. Flows interact in nothing but the dictionary. Deadlock is not
checked because flows end. *Fairness*: the five seconds pass, and the dispatch queues run
their closures, whose waits all end at the deadline. Nothing is asked of the framework.

## 7. Batch

### The model and the code

| variable | code |
|---|---|
| `mutual`, `expected` | which of the two programs; `TCPRA_BATCH_EXPECTED` |
| `sent`, `rows`, `dropped`, `failed` | per host: ServerHellos that passed its interface; `OBS.rows`, pcap's drop counters, `OBS.error` |
| `stop`, `pc`, `error` | per host: `STOP`; where it is in `client` or `server`; `error`, and errors in `BATCHES` |
| `saved`, `record` | `observations.json`, `batches.json` |
| `req`, `asked`, `queue`, `serving`, `answer`, `report` | the client's last request, whose number is `seq`, all its requests, the listener's backlog, and the connection that is served |
| `SEEN`, `assigned`, `proved` | `SEEN`, `ASSIGNED` of each host, and the requests whose report the client accepted |

A manifest stands for its digest, since `binding` hashes all of it. The client's steps are
the request (`ClientAsk`), the challenge in mutual mode, the response, the verification
and the manifest file; the server's are the checks (`ServerReplays`, `ServerTakes`),
the wait for its own observation, the client's report, the report that puts the batch into
`SEEN` and `ASSIGNED`, and the manifest file with the response. Any step of the handler may
raise (`ServerRefuses`), after the assignment too; the answer to that may fail as well, which
ends the server. Any failure ends the client, which never tries again.

`Repeat` is whoever connects from the client's address with a request of the client: the
same one, which the one-way server answers from `SEEN`, or one with another challenge and
number, as from a client that was started again. Both hosts may be stopped or killed
anywhere. At the end `observations.json` is written first, and `batches.json` only if the
observer is well and nothing was dropped.

### The properties and the run

- `AssignedOnce`: no ServerHello is in two batches.
- `ConfirmedIsProved`: what the client counts as confirmed is in a batch that the server
  has observed and recorded and whose report the client accepted.
- `CleanIsComplete`: if both `batches.json` show no error and nothing unassigned, then all
  ServerHellos in either `observations.json` are proved, the server has assigned nothing
  the client has not confirmed, and there are as many as expected. This is the rule of
  `batch/README.md` for reading the results, and needs both files: the client's alone is clean
  when a ServerHello was still in its capture buffer at the end.

`batch` checks them for two ServerHellos and one repeated request, in one-way mode with and
without an expected count and in mutual mode. Two ServerHellos make two batches, or one; the
client's numbers are bounded by them, since each confirmed batch has a new one. ServerHellos are
interchangeable (symmetry). The clients of Windows and macOS are the client half without
`TCPRA_BATCH_EXPECTED`: they wait for no count when they are stopped. Deadlock is not checked
because both ends exit. There is no liveness property: the client goes on for as long as it
observes something new.

## 8. ClientAudit

### The model and the code

| variable | code |
|---|---|
| `sock`, `opened`, `inq`, `ctmark` | as in `ClientGate`; `inq` holds both directions, `ctmark` the connections whose packets bypass the agent |
| `served` | connections whose ServerHello the agent let through |
| `gate` | `agent->flows`; `seen`: it has a ServerHello |
| `items`, `consumed`, `failed`, `stop` | the fields of `ClientAudit`; `items` is also the observations file |
| `rows` | the records file |
| `enobufs` | the counter of NFQUEUE overruns |
| `reporter` | `audit_report_worker`: at the head of its loop, waiting, with an item, gone; `none` without `--audit-dlog` |
| `phase` | the poll loop, `client_audit_close`, the end |

The gate thread handles each packet in one action (`HandleSyn`, `HandleData`, `HandleHello`,
`HandleServerHello`); `client_audit_record` is part of the last and holds the mutex. The thread
holds the mutex from the head of its loop to its wait (`Take`) and not while it makes the report
(`Report`). The audit never frees a gate, so `NoSlot` is final for a table that is full. Here,
unlike in `ClientGate`, packets are never held or dropped; a SYN without a socket, a full table, a
full log, a ServerHello without a ClientHello or a report that cannot be made set `failed`.

The environment is that of `ClientGate`, with the server's packets: a ServerHello may be sent at any
time on an open connection, again and again. A ClientHello in several segments is data to
the agent, as in the code, which looks at single packets. Not modelled: that the rows are written
with an unchecked `fprintf`.

### The properties and the run

- `MarkedIsRecorded`: a connection that was let go is in the log, or the log says it failed:
  a gate left from an earlier connection of the port does not pass for the new one's.
- `CompleteIsHonest`: exit status 0 means as many connections recorded as expected, each once and with
  keys of its own, and, if reports are made, one good row for each in the log's order.
- `CloseEnds` (liveness): an agent told to stop writes the reports that are due and ends.

`client_audit` checks them for two four-tuples, a table of one gate, two connections, two ClientHellos
each, a log of two and one packet queued per four-tuple. A port is used again, or the second
four-tuple finds the table full; a second ClientHello replaces the first on its gate; a
retransmitted ServerHello must not be recorded again. *Fairness*: of `Take`, `Report` and `Exit`, since
the library answers and the stop signals the condition; nothing makes the agent stop.
Deadlock is not checked because the agent exits.

## 9. HelloStash

### The model and the code

| variable | code |
|---|---|
| `conn`, `est` | the latest connection of each four-tuple; whether the kernel's socket table shows it established |
| `stashes` | `observer->stashes`: buffer, length needed, next sequence number, or, `deferred`, the end at which a ServerHello acknowledges |
| `clock` | `tcpra_now_ns`, one per packet |
| `observed` | what `lookup_callback` was given, and by which connection's packet |
| `run` | history: how much of each ClientHello came in order, since when, and which other flows took a slot since |

A record is cut into pieces that no segment divides; a segment is a run of pieces, new or sent
again, of the current connection or late from an earlier one. `Segment` is `capture_packet` for
the client's direction: a whole ClientHello, told or deferred (`WholeHello`); the first part of one
(`FirstPart`); a later part (`LaterPart`); or one that begins with the byte 22 as a record
does (`LookalikePart`), whose length bytes are then any. `ServerHello` is its other direction.
`Swept`, `Victim` and `ch_claim_stash` are the table: the search forgets stale entries on its way
and no further, and a full table gives up its oldest entry.

Assumed, as the code does: connections share no sequence numbers, and the TCP header, whose length
`packet_view.c` adds to the sequence number, is as long in all segments of one connection's
ClientHello. The first segment holds the record's header. Not handled by the code, and so in the
model too: segments out of order are lost, a continuation that looks like a record breaks a
record off, and a last segment that also carries what follows is not taken.

### The properties and the run

- `ObservedIsHello`: what is told is one connection's ClientHello, whole and in order, and told for
  a packet of that connection, though ports are used again and parts of an earlier
  connection come late.
- `HelloIsKept`: a ClientHello whose segments came in order and in time, none looking like a record,
  is told, or waits for its socket. The only way around it is that as many other flows took a slot
  meanwhile as there are slots: a full table evicts the oldest and not another's newest.

`hello_stash` checks them for three four-tuples, the first of which is used twice, a table of two,
ClientHellos of one, two and three pieces, one piece that looks like a record, an age limit of two
packets and time for four. With three flows a table of two overflows; four packets are a
hello in three parts and one of another flow between them, or both hellos of a port. There is no liveness property: nothing obliges a
client to send the rest.

## 10. Evidence and NativeProof

### The model and the code

`Evidence` has no variables. A word is the set of its bits, so that masking with the nonce is the
symmetric difference, and applying it twice is the identity because it is so for sets, not by
decree. `get_report` is what the chip makes; `Signed` what its signature covers, which is the masked
fields and not the nonce; `Damaged` a report with a field changed, the signature lost, or its
unsigned part masked anew. `verify_impl`, `verify_report` and `rust_verify_report` are the three
verifiers with the checks each makes (the Linux one does not look at the curve, only
the Rust one demands text for the user id). `Habits`, `Aborts`, `Owned`, `Leak` and `WrapperOk` are
the wrapper of `csv_fd_fix.c` and what it may meet.

| variable of `NativeProof` | code |
|---|---|
| `setup` | backend, server or client, one-way or mutual, whether the trusted values are readable |
| `pc`, `stop`, `error`, `calls`, `call`, `last` | `batch.py`: where it is, `STOP`, whether it ends with an error, its proofs |
| `worker`, `clean` | the helper process and its exit code |
| `toWorker`, `fromWorker`, `eof` | the two pipes |
| `pagemap` | the helper's open descriptors of `/proc/self/pagemap` |
| `trouble` | history: what happened that is not the ordinary course |

`Constructed`, `Request`, `ReadStatus`, `ReadBody`, `Close` and `Join` are
`NativeProof.__init__`, `__call__` with its two reads, and `close` with its ten seconds and the
kill. `WorkerOpen`, `WorkerStep` and `WorkerEof` are `proof_worker.c`. The library may fail,
leak, make a report for another binding with an error code, or never return (`Hang`); the helper
may die (`Crash`), the process be killed (`Kill`), stopped by a signal of its own (`Signal`) or
by Ctrl+C at a terminal (`Interrupt`). The last goes to the process group, and the helper has no
handler: it dies, and the process reports an error even if nothing else was wrong. No document
promises otherwise, so `StopIsClean` speaks of `Signal` only.

Assumed (`MeasureAssumption`): no two trusted measurements differ by the same word everywhere. They are
hashes, and without this a report could be masked with another nonce to another measurement.
`SelfAssumption`: the chip certifies an SM2 key under a short text, and the trusted values are some
platform's.

### The properties and the runs

- `VerifiedIsGenuine`: a proof that verified is the trusted chip's, for the measurement and the
  binding asked about, with its own nonce; no answer is another request's.
- `GeneratedVerifies`: a report that was generated verifies in all three implementations,
  whatever the library did.
- `StopIsClean`: with nothing but a stop the process ends without an error; when it ends, its
  helper is gone; no descriptor is left open (for the five ways of `Habits`, where it is a matter
  of counting: this clause is no test of the wrapper).
- `StopEnds` (liveness): a process told to stop ends, and the helper of one that was killed too,
  unless the library hangs: `_read` has no time-out, so that a process whose helper hangs waits as
  long as it does, and nothing is claimed of it.
- `GeneratesWhenSound`: an endpoint of the mutual protocol whose library, files and helper are in
  order can generate its proof. It speaks of mutual endpoints only, because only they are told
  to trust their peer's values.

| run | instance | shows |
|---|---|---|
| `native_proof` | trusted values of one's own platform, 2 proofs, all setups, under `FairSpec` | the first four |
| `native_proof_peers` | trusted values of the peer, 1 proof | that `GeneratesWhenSound` does not hold of a mutual endpoint configured as `csv/README.md` says |

*Bounds.* Words of two bits and fields of two words tell a nonce applied from one that is not,
and one word from the other. Three platforms: the own one, one with its key and another
measurement, one with its measurement and another key. Two proofs are what a stale answer needs.
*Fairness*: of the steps of the process and of the helper; not of requests, faults and signals.
Deadlock is not checked because the processes end.

## 11. Proofs

Every safety property that a run checks, invariant or action property, is the statement of a
theorem, and so is the refinement of `Latch`. Eight modules hold the proofs, one for each
component. What a theorem assumes of the constants is the module's named assumption, which TLC
evaluates in that component's runs; only `StopIsClean` of `NativeProof` is stated for a process that
trusts itself (`OwnValues`), as in the run.

`ClientGateInv_proofs.tla` proves `Spec => []TypeOK` and
that `GateInv` is inductive and derives `AdmittedIsAttested`, `MarkedIsAttested`,
`HeldIsOwned`, `DeniedIsQuarantined`, `SessionIsOwned`, `VerdictIsHonest` and
`QuarantineIsFinal`; with `CountedIsVerified` it proves `CompleteIsHonest`, and it proves
`Spec => LatchSpec`. All hold
for every value of the constants that satisfies `ConstantsAssumption`, so for any
number of flows, workers, connections and any capacity.

The argument. None of the safety properties is inductive. That what a gate releases
belongs to the connection it admits needs `QueueInOrder` (the kernel's queue of a
four-tuple is ordered by connection, and a socket whose SYN has left sees only its own
packets in it) and `GateIsCurrent` (a gate with a ClientHello stands for the flow's
current connection, or its last one until a later SYN is handled). That a verdict is
honest needs `WorkIsFresh` (a session is unverified, undecided and unreported until its
worker has got that far, and no decision for it is queued before the worker queues
it) with `AllowedIsVerified`; `SessionIsOwned` is what makes a worker's knowledge of its
session stable under the other workers' steps. `VerifyIsProof` turns the flag
`report_verify` into the keys it stands for, and `AdmittedIsVerified` ties gates and
marks to such a session, which is never unverified again. The exit status compares two
numbers of sessions with `--expected` and knows of no session in particular. `CountedIsVerified`
makes that enough: at most as many sessions are started as are expected, one that is counted as
verified is, and one counted as a success has sent its verdict. So both counts reach
`--expected` only if they count every session there is.

`ReportServerInv_proofs.tla` proves `Spec => []TypeOK` for the server; `TypeInv` adds what
the bounded numbers need (no more packets are dispatched than were captured, an
established socket has a cookie). It proves that `ServerInv` is
inductive and derives `IndexIsExact`, `JobOwnsSlot`, `ServedOnce`, `ResponseIsBound`,
`HellosAreKept` and `CompleteIsClean`, for every value of the constants that satisfies
`ServerAssumption`: any number of slots, four-tuples, connections and control workers,
one-way and mutual, whether the capture keeps up or not.

The argument. `IndexIsExact` makes the index an injection of the observed keys into the
slots, so there are never more keys than slots, and with `Cardinality(Slots) <= IndexCap`
an insertion never fails (`IndexHasRoom`): the branch of `observe_lookup_key` that frees
the slot again is dead, and no queued job loses its entry that way. `EntriesAreStaged`
says that an entry passes its stages in order and that what its report attests is
settled when the report is started: none of the fields it depends on changes later. A
job is queued only when `started` is set, hence once per slot, and a slot is freed only
by a verdict, when its report is done; that is `JobOwnsSlot`. `ServedOnce` gives a control
connection its own entry, so each step is shown to leave alone the entries that other
connections serve (`ServiceStep`); then `ResponseIsBound` follows from the stage of the
entry at the moment of delivery. `HellosAreKept` counts the index's keys: a new key adds one,
a recorded verdict moves one, and at exit status 0 the count of keys is 0, which with
`IndexIsExact` empties the cache (`SuccessIsClean`).

`AbandonedStays` is an action property, shown of one entry against each step. What
an abandoned entry depends on is that every change of an entry by a control worker goes through
`ServedOnce`: the worker works on the entry of its own request, and the abandoned one has no
request left; and that the index leads to an entry from its own keys only (`IndexIsExact`), so the
verdict that frees an entry frees another. `PairIsOfOneConnection` needs `PairInv`, which holds
with `Prompt` only: what the capture buffers hold of a four-tuple is of the connection that
has it now, or none has; the cookie that was read before the mutex was taken is that of the
packet in hand; and an entry's ClientHello and ServerHello are of the connection whose cookie
it has. It holds for entries that are still waiting for one of the two, and so when the other comes.

`MacProvider_proofs.tla` proves `Spec => []TypeOK` and `Spec => []DataIsAttested` for any
number of flows. `ProviderInv` follows the evidence through the threads: a thread that holds
a verified report has told the server so (`Attested`), the timer's thread never holds one,
and the framework is told to pass a flow's data only after the decision was made by a thread
that does. The decision is made once, so no later thread takes it back.

`Batch_proofs.tla` proves `TypeOK`, `AssignedOnce`, `ConfirmedIsProved` and
`CleanIsComplete` for any finite set of ServerHellos and any number of repeated requests.
`TypeOK` is not inductive alone: that the client's number stays within the number of
ServerHellos needs `ClientInv`, by which each batch that was confirmed has confirmed
something new. `ServerInv` says that what the server works on is disjoint from all it has
assigned, from the check up to the assignment; no one else assigns in between, because
connections are served one at a time. `RequestInv` says that whatever reaches the server,
repeated or not, was in a request of the client, so what the server has assigned the client
has asked for; `ClientInv` adds that a client which ends without an error has confirmed all
it asked for. With `RecordInv`, which carries this to the time both files are written, the
two accounts coincide.

`WindowsAgent_proofs.tla` proves `TypeOK`, `DataIsAttested`, `OpenIsSafe`, `DeniedIsBlocked` and
`CleanIsHonest` for any finite number of connections, any number of flow and control workers
and any capacities, if at most one of the two processes is killed (`AgentAssumption`). The
inductive invariant `AgentInv` has three parts besides `TypeOK`. `SessionOf` and `CoverOf` tie
the flags of a session to each other and to the endpoint: it is admitted on a verified report
of which the server was told, its handle diverts until it is done, and the guardian holds a
duplicate of a handle that is still needed unless the guardian has died or ended. `Working` is
what a control worker knows of its session at each step, such as that nothing is decided
yet; `Alone` and `Queued` make it stable, because a session is in the queue once or with one
worker. `EndInv` is about the two processes: each ends only when the endpoint is blocked or
all has succeeded, unless it is killed. One lemma per thread says which variables its steps
change, so that each part of the invariant is shown only against the steps that touch it.

`ClientAudit_proofs.tla` proves `TypeOK`, `MarkedIsRecorded` and `CompleteIsHonest` for any number
of four-tuples, connections, ClientHellos and packets and any capacity of the table and the log.
`QueueInv` says that a four-tuple's
queue is in the order of its connections and that all but SYNs in it are of one connection, which is
the socket's once its SYN has left; `Paired`, that a gate with a ClientHello is of that
connection. So the packet that gets the mark or brings the ServerHello is of the connection that
the gate recorded (`SeenIsRecorded`). The last two hold until the log fails: a SYN that finds no slot
leaves the gates as they were.

That the log has each connection once (`CompleteIsHonest`) is more than the gate's `seen`, because
a SYN or a new ClientHello resets the gate, and then the next ServerHello is recorded. `OnceInv`
says why neither comes for a connection on record. Its SYNs are all before its ClientHello in the
queue (`SynsFirst`), and no connection older than its own has packets there (`Later`). It lives on
one four-tuple (`Homes`). What the server answered is the last ClientHello of its connection
(`Answered`, `Sent`): of all that are queued behind the ServerHello, and of the one the socket sends
next, none differs from the one the gate has when the ServerHello is handled. The gate's one
is defined by what is in front of the ServerHello in the queue (`Current`), which is what makes
the statement inductive: to take a packet moves that definition by one place (`TailCurrent`), and
to send one leaves it alone (`AppendCurrent`). When the ServerHello is handled this becomes `Done`: the
gate of that connection has seen it, and whatever still comes of the connection is known. All
this holds while neither the log nor the queue has failed; an overrun loses packets, and exit
status 0 excludes it. `RowsInv` says that there is a row for each item taken, in order, except the
one in hand, and that the thread ends only when it was told to and has taken them all. The number
of connections follows from a bijection between the log's places and its connections.

`HelloStash_proofs.tla` proves `ObservedIsHello` and `HelloIsKept` for any set of connections, any
lengths of their ClientHellos, any size of the table and any age limit. For the first, `StashInv`
says that a slot in use holds either a whole ClientHello that waits for its socket or consecutive
pieces of one connection's stream, with the sequence number of the piece that comes next; because
connections share no sequence numbers, what continues a slot continues its connection. For the
second, `KeepInv` adds that a flow has one slot at most (`FlowsApart`) and that a ClientHello that
is due, by `run`, has a slot with exactly what came of it, and that every slot claimed since belongs
to a flow that `run` names (`DueIsAwaited`). A claim in a full table takes the oldest slot, so to take
this one it would need a table full of younger ones, and then `run` would name as many flows as there
are slots. The proof found a defect of the model: two cases of `Track`, the history of `run`,
overlapped, and which one `CASE` takes is undetermined; they now exclude each other.

`NativeProof_proofs.tla` proves `TypeOK`, `VerifiedIsGenuine`, `GeneratedVerifies` and, if the
trusted values are the process's own (`OwnValues`), `StopIsClean`, for words of any width,
fields of any length, any platforms and any number of proofs. The signature covers the masked
fields, so a report that verifies has the masked fields of one that a chip made; that its nonce
is the same one follows from the measurement: two nonces that both give the trusted measurement
would make two measurements differ by one word everywhere. `Pipes` keeps requests and answers in
step: while a proof is under way its request is in one pipe or its answer is in the other, and
between proofs both are empty.

Liveness is out of the proof system's reach, but what it rests on is not: that nothing which
somebody waits for is ever lost. Five theorems, one per component with threads, prove that for every
value of the constants. `NoWakeupIsLost`: the audit's thread sleeps only when there is no item and no
stop (under `CloseEnds`). `NoPauseIsForgotten`: a paused macOS flow has its timer still to fire or a
thread about to resume it (under `PauseEnds`). `NoSessionIsLost` of the Windows agent: a session that was
submitted is queued or has its worker until it is done (under `SessionIsDecided`). `NoReportIsLost`:
a report that was started is queued or in hand until it has come to its end, and a job the queue
refuses ends it at once (under `ReportEnds`). `NoSessionIsLost` of the client gate (under
`SessionFinishes`) has the condition `Expected <= QueueCap`: the job queue has 8192 places, `--expected`
may be up to a million, and `client_observe_hello` keeps a session whose job was refused. Only
`NoPauseIsForgotten` (`Tracked`) and the client's `NoSessionIsLost` (`Len(jobs) <= Len(sess)`) need
to be strengthened; the others are inductive with their component's invariant. What fairness adds
is that the party which has the work does its next step. `DecisionsStand` is an
action property of the Windows agent that no run checks by itself: what was decided of a session
is never changed, by no worker and by no kill.

Only model-checked: the liveness properties (`HeldIsResolved`, `SessionFinishes`, `ReportEnds`,
`WaitEnds`, `StopEnds`, `SessionIsDecided`, `EndIsBlocked`, `PauseEnds`, `CloseEnds`), which need
fairness and so ENABLED, beyond the proof system; and `GeneratesWhenSound`, which is violated
(section 13).

## 12. Not modelled

In the client agent: the overrun counter in the exit status (it is in the audit's);
`TCPRA_SELECTOR_CLOSE_CLEANUP`; what an installed nftables quarantine does to marked
connections, and its recovery by the script. In the server: the deferred mode, which no client
uses, the NFQUEUE variant of the ServerHello lane, the probing of its tables, log files. In the
packet observer: libpcap's counters, the filters, IP options. In the Windows client: `--ra
false`, the self test, the metrics, the death of both processes. In the macOS client: the
observe mode and the injected faults. In the batches: encoding, file formats, the limit of 10000
per batch (the server refuses more, which ends the client). In the evidence: SM2 and SM3, and
the structures' layout. Elsewhere: byte-level TLS parsing, profiling, build scripts, the
activation of the macOS extension, the vendored library; the notes in `PROJECT.json` say why.
What is left apart from the items above is parsing, formatting, set-up and measurement.

## 13. Findings

`native_proof_peers`. `csv/README.md:14` says: "For mutual RA/Batch each endpoint configures its
peer's values", and asks for no more than "valid trust values" of a one-way server.
`tcpra_csv_generate_report` verifies every report it makes against the same
configuration (`batch/mutual/csv_attestation.c:228`, `agents/linux/csv_attestation.c:239`) and
refuses it if the key or the measurement differs. A mutual endpoint that does what the README says,
with a peer on another chip or with another measurement, can therefore generate no report; the run's trace is one such endpoint, on Linux. If
both endpoints have the same trusted values, which one chip and one measurement imply, nothing
is refused.
