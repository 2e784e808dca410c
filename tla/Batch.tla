-------------------------------- MODULE Batch --------------------------------
(***************************************************************************)
(* Batch attestation (batch/linux, batch/mutual): both hosts observe the   *)
(* ServerHellos between them, the client asks for a report over a batch of *)
(* what it has observed and not yet confirmed, the server refuses what it  *)
(* has not observed or has assigned already, and at the end each of them   *)
(* writes down what it observed and assigned.                              *)
(*                                                                         *)
(* The server serves one connection after the other: the client's, and     *)
(* those of whoever repeats a request of the client, unchanged or under    *)
(* another challenge and number (a client that tries again or is started   *)
(* again).                                                                 *)
(***************************************************************************)
EXTENDS Naturals, FiniteSets

CONSTANTS
  Ids,        \* ServerHellos, by their hash
  MaxRepeats  \* bound on the repeated requests

ASSUME BatchAssumption == IsFiniteSet(Ids) /\ MaxRepeats \in Nat

Roles == {"client", "server"}
Seqs == 1..Cardinality(Ids)

\* A manifest, which is as good as its digest.
Request == [seq : Seqs, ids : (SUBSET Ids) \ {{}}, challenge : {"own", "again"}]

VARIABLES
  mutual,    \* batch/mutual rather than batch/linux
  expected,  \* TCPRA_BATCH_EXPECTED
  sent,      \* ServerHellos that have passed the interface of each host
  rows,      \* those its observer has recorded
  dropped,   \* those its capture has dropped
  failed,    \* the hosts whose observer has ended with an error
  stop,      \* the hosts that were told to stop
  pc,        \* where client() and server() are
  error,     \* the hosts with an error, or with an error among their batches
  saved,     \* observations.json
  record,    \* batches.json: what is unassigned, and whether there was an error
  req,       \* the client's last request, whose number is its count
  asked,     \* all its requests so far
  repeats,   \* number of repeated requests
  queue,     \* connections with a request that wait to be accepted
  serving,   \* the one that is served
  answer,    \* what the client can read from its connection
  report,    \* the client's report can be read by the server
  SEEN,      \* requests the server has made a report for
  assigned,  \* ASSIGNED of each host
  proved     \* requests for which the client has accepted the report

capture == <<sent, rows, dropped, failed>>
results == <<saved, record>>
setup == <<mutual, expected, stop>>
channel == <<req, asked, repeats, queue, answer, report>>
vars == <<setup, capture, pc, error, results, channel, serving, SEEN, assigned, proved>>

Connection == [peer : {"client", "other"}, request : Request]
NoConnection == [peer |-> "nobody"]
NoRequest == [seq |-> 0]
Plain(k) == [kind |-> k]
Ok(q) == [kind |-> "ok", request |-> q]
Answer == {Plain("none"), Plain("challenge"), Plain("refused")} \cup {Ok(q) : q \in Request}
NoRecord == [written |-> FALSE]
Record == [written : {TRUE}, error : BOOLEAN, unassigned : SUBSET Ids]

ClientPC == {"idle", "challenge", "response", "verify", "close", "save", "ended"}
ServerPC == {"accept", "observe", "report", "generate", "manifest", "close", "save", "ended"}

TypeOK ==
  /\ mutual \in BOOLEAN
  /\ expected \in 0..Cardinality(Ids)
  /\ sent \in [Roles -> SUBSET Ids]
  /\ rows \in [Roles -> SUBSET Ids]
  /\ dropped \in [Roles -> SUBSET Ids]
  /\ failed \subseteq Roles
  /\ stop \subseteq Roles
  /\ pc \in [Roles -> ClientPC \cup ServerPC]
  /\ pc["client"] \in ClientPC
  /\ pc["server"] \in ServerPC
  /\ error \subseteq Roles
  /\ saved \in [Roles -> SUBSET Ids]
  /\ record \in [Roles -> Record \cup {NoRecord}]
  /\ req \in Request \cup {NoRequest}
  /\ asked \subseteq Request
  /\ repeats \in 0..MaxRepeats
  /\ queue \subseteq Connection
  /\ serving \in Connection \cup {NoConnection}
  /\ answer \in Answer
  /\ report \in BOOLEAN
  /\ SEEN \subseteq Request
  /\ assigned \in [Roles -> SUBSET Ids]
  /\ proved \subseteq asked

None == [r \in Roles |-> {}]

\* Only the one-way client on Linux reads TCPRA_BATCH_EXPECTED.
Init ==
  /\ mutual \in BOOLEAN
  /\ expected \in IF mutual THEN {0} ELSE {0, Cardinality(Ids)}
  /\ sent = None /\ rows = None /\ dropped = None /\ failed = {}
  /\ stop = {}
  /\ pc = [r \in Roles |-> IF r = "client" THEN "idle" ELSE "accept"]
  /\ error = {}
  /\ saved = None
  /\ record = [r \in Roles |-> NoRecord]
  /\ req = NoRequest /\ asked = {} /\ repeats = 0 /\ queue = {}
  /\ serving = NoConnection
  /\ answer = Plain("none")
  /\ report = FALSE
  /\ SEEN = {}
  /\ assigned = None
  /\ proved = {}

Goto(r, p) == pc' = [pc EXCEPT ![r] = p]

-----------------------------------------------------------------------------
(* The network, the observers, the signals.                                  *)

ObserverLocal ==
  UNCHANGED <<setup, pc, error, results, channel, serving, SEEN, assigned, proved>>

\* A ServerHello leaves the server and may reach the client.
Pass(r, id) ==
  /\ id \notin sent[r]
  /\ r = "client" => id \in sent["server"]
  /\ sent' = [sent EXCEPT ![r] = @ \cup {id}]
  /\ UNCHANGED <<rows, dropped, failed>>
  /\ ObserverLocal

Pending(r) == IF pc[r] = "ended" \/ r \in failed THEN {}
              ELSE sent[r] \ (rows[r] \cup dropped[r])

Observe(r, id) ==
  /\ id \in Pending(r)
  /\ \/ rows' = [rows EXCEPT ![r] = @ \cup {id}] /\ UNCHANGED dropped
     \/ dropped' = [dropped EXCEPT ![r] = @ \cup {id}] /\ UNCHANGED rows
  /\ UNCHANGED <<sent, failed>>
  /\ ObserverLocal

\* parse raises, or the capture fails: the observer's thread ends.
ObserverFails(r) ==
  /\ Pending(r) # {}
  /\ failed' = failed \cup {r}
  /\ UNCHANGED <<sent, rows, dropped>>
  /\ ObserverLocal

Stop(r) ==
  /\ r \notin stop
  /\ stop' = stop \cup {r}
  /\ UNCHANGED <<mutual, expected, capture, pc, error, results, channel, serving, SEEN, assigned,
                 proved>>

\* A request of the client on another connection, as it was or made anew.
Repeat ==
  /\ repeats < MaxRepeats
  /\ repeats' = repeats + 1
  /\ \E q \in asked, s \in Seqs :
       \E again \in {q, [seq |-> s, ids |-> q.ids, challenge |-> "again"]} :
          queue' = queue \cup {[peer |-> "other", request |-> again]}
  /\ UNCHANGED <<setup, capture, pc, error, results, req, asked, answer, report, serving,
                 SEEN, assigned, proved>>

-----------------------------------------------------------------------------
(* client                                                                    *)

ClientAt(p) == pc["client"] = p
ClientLocal == UNCHANGED <<setup, capture, results, repeats, serving, SEEN>>

Unconfirmed == rows["client"] \ assigned["client"]

\* Any exception ends the client.
ClientFails ==
  /\ Goto("client", "close")
  /\ error' = error \cup {"client"}

\* The next tick, or the next round after STOP.
ClientAsk ==
  /\ ClientAt("idle")
  /\ "client" \notin failed
  /\ Unconfirmed # {}
  /\ req' = [seq |-> req.seq + 1, ids |-> Unconfirmed, challenge |-> "own"]
  /\ asked' = asked \cup {req'}
  /\ queue' = queue \cup {[peer |-> "client", request |-> req']}
  /\ answer' = Plain("none")
  /\ report' = FALSE
  /\ Goto("client", IF mutual THEN "challenge" ELSE "response")
  /\ UNCHANGED <<error, assigned, proved>>
  /\ ClientLocal

\* snapshot raises.
ClientObserverFailed ==
  /\ ClientAt("idle")
  /\ "client" \in failed
  /\ ClientFails
  /\ UNCHANGED <<req, asked, queue, answer, report, assigned, proved>>
  /\ ClientLocal

\* Mutant: what is expected is not waited for.
ClientDrainsRows ==
  /\ ClientAt("idle")
  /\ "client" \in stop \ failed
  /\ Unconfirmed = {}
  /\ Goto("client", "close")
  /\ UNCHANGED <<error, req, asked, queue, answer, report, assigned, proved>>
  /\ ClientLocal

\* The drain after STOP: at least as many rows as expected, or an error after 30 s.
ClientDrains ==
  /\ ClientAt("idle")
  /\ "client" \in stop \ failed
  /\ \/ /\ Cardinality(rows["client"]) >= expected
        /\ Unconfirmed = {}
        /\ Goto("client", "close")
        /\ UNCHANGED error
     \/ /\ Cardinality(rows["client"]) < expected
        /\ ClientFails
  /\ UNCHANGED <<req, asked, queue, answer, report, assigned, proved>>
  /\ ClientLocal

\* Mutual: the challenge binds the client's own report.
ClientReports ==
  /\ ClientAt("challenge")
  /\ answer = Plain("challenge")
  /\ answer' = Plain("none")
  /\ report' = TRUE
  /\ Goto("client", "response")
  /\ UNCHANGED <<error, req, asked, queue, assigned, proved>>
  /\ ClientLocal

\* The response must be to the request.
ClientReads ==
  /\ ClientAt("response")
  /\ answer = Ok(req)
  /\ Goto("client", "verify")
  /\ UNCHANGED <<error, req, asked, queue, answer, report, assigned, proved>>
  /\ ClientLocal

\* No connection, no answer in 10 s, a refusal, or another answer than that.
ClientBreaksOff ==
  /\ pc["client"] \in {"challenge", "response"}
  /\ ClientFails
  /\ UNCHANGED <<req, asked, queue, answer, report, assigned, proved>>
  /\ ClientLocal

\* A report that is verified, and then a manifest that is written, confirm the batch.
ClientVerify ==
  /\ ClientAt("verify")
  /\ \/ /\ proved' = proved \cup {req}
        /\ assigned' = [assigned EXCEPT !["client"] = @ \cup req.ids]
        /\ Goto("client", "idle")
        /\ UNCHANGED error
     \/ /\ proved' \in {proved, proved \cup {req}}
        /\ ClientFails
        /\ UNCHANGED assigned
  /\ UNCHANGED <<req, asked, queue, answer, report>>
  /\ ClientLocal

-----------------------------------------------------------------------------
(* server                                                                    *)

ServerAt(p) == pc["server"] = p
ServerLocal == UNCHANGED <<setup, capture, results, req, asked, repeats, proved>>

\* The client reads nothing once it has closed its connection.
Reply(m) ==
  answer' = IF serving.peer = "client" /\ pc["client"] \in {"challenge", "response"}
            THEN m ELSE answer

\* The handler of every exception: it answers, and if that fails the server ends.
Refuse ==
  /\ error' = error \cup {"server"}
  /\ \/ Reply(Plain("refused")) /\ Goto("server", "accept")
     \/ UNCHANGED answer /\ Goto("server", "close")
  /\ serving' = NoConnection

ServerAccept ==
  /\ ServerAt("accept")
  /\ "server" \notin stop
  /\ serving = NoConnection
  /\ serving' \in queue
  /\ queue' = queue \ {serving'}
  /\ UNCHANGED <<pc, error, answer, report, SEEN, assigned>>
  /\ ServerLocal

Accepted == ServerAt("accept") /\ serving # NoConnection
Known == \E q \in SEEN : q.seq = serving.request.seq

\* A request that was answered before: one-way, the same answer again.
ServerReplays ==
  /\ Accepted
  /\ Known
  /\ ~mutual
  /\ serving.request \in SEEN
  /\ Reply(Ok(serving.request))
  /\ serving' = NoConnection
  /\ UNCHANGED <<pc, error, queue, report, SEEN, assigned>>
  /\ ServerLocal

\* Mutant: only the number is looked at.
ServerTakesAny ==
  /\ Accepted
  /\ ~Known
  /\ Goto("server", "observe")
  /\ UNCHANGED <<error, queue, answer, report, serving, SEEN, assigned>>
  /\ ServerLocal

\* A new number, and nothing that is in another batch.
ServerTakes ==
  /\ Accepted
  /\ ~Known
  /\ assigned["server"] \cap serving.request.ids = {}
  /\ Goto("server", "observe")
  /\ UNCHANGED <<error, queue, answer, report, serving, SEEN, assigned>>
  /\ ServerLocal

\* Mutant: after the wait, the observations are not looked at again.
ServerObservesNot ==
  /\ ServerAt("observe")
  /\ "server" \notin failed
  /\ \/ /\ mutual
        /\ Reply(Plain("challenge"))
        /\ Goto("server", "report")
     \/ /\ ~mutual
        /\ Goto("server", "generate")
        /\ UNCHANGED answer
  /\ UNCHANGED <<error, queue, report, serving, SEEN, assigned>>
  /\ ServerLocal

\* Within 3 s the server must have observed all of it.
ServerObserves ==
  /\ ServerAt("observe")
  /\ "server" \notin failed
  /\ serving.request.ids \subseteq rows["server"]
  /\ \/ /\ mutual
        /\ Reply(Plain("challenge"))
        /\ Goto("server", "report")
     \/ /\ ~mutual
        /\ Goto("server", "generate")
        /\ UNCHANGED answer
  /\ UNCHANGED <<error, queue, report, serving, SEEN, assigned>>
  /\ ServerLocal

\* Mutual: the report over the challenge, from the client or from the other peer.
ServerVerifies ==
  /\ ServerAt("report")
  /\ serving.peer = "client" => report
  /\ Goto("server", "generate")
  /\ UNCHANGED <<error, queue, answer, report, serving, SEEN, assigned>>
  /\ ServerLocal

ServerGenerates ==
  /\ ServerAt("generate")
  /\ SEEN' = SEEN \cup {serving.request}
  /\ assigned' = [assigned EXCEPT !["server"] = @ \cup serving.request.ids]
  /\ Goto("server", "manifest")
  /\ UNCHANGED <<error, queue, answer, report, serving>>
  /\ ServerLocal

ServerResponds ==
  /\ ServerAt("manifest")
  /\ Reply(Ok(serving.request))
  /\ serving' = NoConnection
  /\ Goto("server", "accept")
  /\ UNCHANGED <<error, queue, report, SEEN, assigned>>
  /\ ServerLocal

\* Any step of the handler may raise: a check, the observer, the proof, a file, the socket.
ServerRefuses ==
  /\ serving # NoConnection
  /\ pc["server"] \notin {"close", "save", "ended"}
  /\ Refuse
  /\ UNCHANGED <<queue, report, SEEN, assigned>>
  /\ ServerLocal

ServerStops ==
  /\ ServerAt("accept")
  /\ "server" \in stop
  /\ serving = NoConnection
  /\ Goto("server", "close")
  /\ UNCHANGED <<error, queue, answer, report, serving, SEEN, assigned>>
  /\ ServerLocal

-----------------------------------------------------------------------------
(* The end of either.                                                        *)

EndLocal(r) == UNCHANGED <<setup, capture, channel, serving, SEEN, assigned, proved>>

\* The helper may fail to close. Nothing is written after that unless the observer is well
\* and has dropped nothing.
Save(r) ==
  /\ pc[r] = "close"
  /\ r \notin failed
  /\ error' \in {error, error \cup {r}}
  /\ saved' = [saved EXCEPT ![r] = rows[r]]
  /\ Goto(r, IF dropped[r] = {} THEN "save" ELSE "ended")
  /\ UNCHANGED record
  /\ EndLocal(r)

Write(r) ==
  /\ pc[r] = "save"
  /\ r \notin failed
  /\ record' = [record EXCEPT ![r] = [written |-> TRUE, error |-> r \in error,
                                      unassigned |-> rows[r] \ assigned[r]]]
  /\ Goto(r, "ended")
  /\ UNCHANGED <<error, saved>>
  /\ EndLocal(r)

\* The process is killed, or raises where nothing catches it.
Die(r) ==
  /\ pc[r] # "ended"
  /\ Goto(r, "ended")
  /\ UNCHANGED <<error, results>>
  /\ EndLocal(r)

-----------------------------------------------------------------------------
Environment ==
  \/ \E r \in Roles, id \in Ids : Pass(r, id) \/ Observe(r, id)
  \/ \E r \in Roles : ObserverFails(r) \/ Stop(r)
  \/ Repeat
Client ==
  \/ ClientAsk
  \/ ClientObserverFailed
  \/ ClientDrains
  \/ ClientReports
  \/ ClientReads
  \/ ClientBreaksOff
  \/ ClientVerify
Server ==
  \/ ServerAccept
  \/ ServerReplays
  \/ ServerTakes
  \/ ServerObserves
  \/ ServerVerifies
  \/ ServerGenerates
  \/ ServerResponds
  \/ ServerRefuses
  \/ ServerStops
End == \E r \in Roles : Save(r) \/ Write(r) \/ Die(r)

Next == Environment \/ Client \/ Server \/ End

Spec == Init /\ [][Next]_vars

-----------------------------------------------------------------------------
(* What must hold.                                                           *)

\* No ServerHello is in two batches, whatever is repeated and wherever the server breaks
\* off, and no two batches have the same number (SEEN and ASSIGNED in server).
AssignedOnce ==
  \A p, q \in SEEN : p # q => p.seq # q.seq /\ p.ids \cap q.ids = {}

\* What the client counts as confirmed is in a batch whose report it has accepted, which
\* the server has on record, and every ServerHello of which the server has observed itself.
ConfirmedIsProved ==
  \A id \in assigned["client"] :
    \E q \in proved \cap SEEN : id \in q.ids /\ q.ids \subseteq rows["server"]

Clean(r) == record[r].written /\ ~record[r].error /\ record[r].unassigned = {}
Proved == UNION {q.ids : q \in proved}

\* If both ends are without an error and nothing is left unassigned, then every ServerHello
\* either of them has written down is proved, the server has assigned nothing else, and
\* there are as many as the client was told to expect.
CleanIsComplete ==
  Clean("client") /\ Clean("server") =>
    /\ saved["client"] \cup saved["server"] \subseteq Proved
    /\ assigned["server"] = assigned["client"]
    /\ Cardinality(Proved) >= expected
=============================================================================
