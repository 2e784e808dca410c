---------------------------- MODULE Batch_proofs ----------------------------
(***************************************************************************)
(* Theorems about Batch, for every set of ServerHellos and any number of   *)
(* repeated requests, one-way and mutual.                                  *)
(***************************************************************************)
EXTENDS Batch, FiniteSetTheorems, TLAPS

-----------------------------------------------------------------------------
(* Cardinalities.                                                            *)

LEMMA IdsFinite ==
  ASSUME NEW S \in SUBSET Ids
  PROVE  /\ IsFiniteSet(S)
         /\ Cardinality(S) \in Nat
         /\ Cardinality(Ids) \in Nat
         /\ Cardinality(S) <= Cardinality(Ids)
         /\ \A T \in SUBSET S : Cardinality(T) \in Nat /\ Cardinality(T) <= Cardinality(S)
<1>1. IsFiniteSet(S) /\ Cardinality(S) <= Cardinality(Ids)
  BY FS_Subset, BatchAssumption
<1>2. Cardinality(S) \in Nat /\ Cardinality(Ids) \in Nat
  BY <1>1, FS_CardinalityType, BatchAssumption
<1>3. ASSUME NEW T \in SUBSET S
      PROVE  Cardinality(T) \in Nat /\ Cardinality(T) <= Cardinality(S)
  <2>1. IsFiniteSet(T) /\ Cardinality(T) <= Cardinality(S)
    BY <1>1, FS_Subset
  <2> QED
    BY <2>1, FS_CardinalityType
<1> QED
  BY <1>1, <1>2, <1>3

\* A batch of what is not confirmed yet adds at least one.
LEMMA BatchAdds ==
  ASSUME NEW S \in SUBSET Ids, NEW T \in SUBSET Ids, T # {}, S \cap T = {}
  PROVE  /\ Cardinality(S) + 1 <= Cardinality(S \cup T)
         /\ Cardinality(S) + 1 <= Cardinality(Ids)
<1>1. PICK x \in T : TRUE
  OBVIOUS
<1>2. x \notin S /\ S \cup {x} \in SUBSET (S \cup T) /\ S \cup T \in SUBSET Ids
  BY <1>1
<1>3. Cardinality(S \cup {x}) = Cardinality(S) + 1
  BY <1>2, IdsFinite, FS_AddElement
<1>4. Cardinality(S \cup {x}) <= Cardinality(S \cup T)
  BY <1>2, IdsFinite
<1>5. Cardinality(S \cup T) <= Cardinality(Ids)
  BY <1>2, IdsFinite
<1>6. /\ Cardinality(S) \in Nat
      /\ Cardinality(S \cup T) \in Nat
      /\ Cardinality(Ids) \in Nat
  BY <1>2, IdsFinite
<1> QED
  BY <1>3, <1>4, <1>5, <1>6

-----------------------------------------------------------------------------
(* The inductive invariant.                                                  *)

Exchanging == pc["client"] \in {"challenge", "response", "verify"}
Working == pc["server"] \in {"observe", "report", "generate"}
AskedIds == UNION {q.ids : q \in asked}

\* The client: a batch has nothing that is confirmed, so there are at most as many batches as
\* ServerHellos, and a client without an error has confirmed all it has asked for.
ClientInv ==
  /\ IF Exchanging
     THEN /\ req \in asked
          /\ req.ids \cap assigned["client"] = {}
          /\ req.seq <= Cardinality(assigned["client"]) + 1
          /\ AskedIds \subseteq assigned["client"] \cup req.ids
     ELSE pc["client"] = "idle" =>
          /\ req.seq <= Cardinality(assigned["client"])
          /\ AskedIds \subseteq assigned["client"]
  /\ pc["client"] = "idle" => "client" \notin error
  /\ Exchanging => "client" \notin error
  /\ pc["client"] \in {"close", "save"} /\ "client" \notin error =>
       /\ AskedIds \subseteq assigned["client"]
       /\ Cardinality(assigned["client"]) >= expected

\* The server: what it works on is new until it is recorded, and then it was observed.
ServerInv ==
  /\ \A q \in SEEN : q.ids \subseteq assigned["server"] /\ q.ids \subseteq rows["server"]
  /\ Working => /\ serving # NoConnection
                /\ ~Known
                /\ assigned["server"] \cap serving.request.ids = {}
  /\ pc["server"] \in {"report", "generate"} => serving.request.ids \subseteq rows["server"]
  /\ pc["server"] = "manifest" => serving # NoConnection /\ serving.request \in SEEN

\* Both: what is requested of the server was asked for by the client, and what the client is
\* told was recorded.
RequestInv ==
  /\ \A c \in queue : c.request.ids \subseteq AskedIds
  /\ serving # NoConnection => serving.request.ids \subseteq AskedIds
  /\ assigned["server"] \subseteq AskedIds
  /\ \A q \in Request : answer = Ok(q) => q \in SEEN
  /\ pc["client"] = "verify" => req \in SEEN

\* The accounts at the end.
RecordOf(r) ==
  /\ pc[r] = "save" => saved[r] \subseteq rows[r]
  /\ record[r].written =>
       /\ pc[r] = "ended"
       /\ saved[r] \subseteq assigned[r] \cup record[r].unassigned
       /\ r = "client" /\ ~record[r].error =>
            /\ AskedIds \subseteq assigned["client"]
            /\ Cardinality(assigned["client"]) >= expected

RecordInv == \A r \in Roles : RecordOf(r)

BatchInv ==
  /\ AssignedOnce
  /\ ConfirmedIsProved
  /\ ClientInv
  /\ ServerInv
  /\ RequestInv
  /\ RecordInv

-----------------------------------------------------------------------------
(* What each part leaves alone.                                              *)

LEMMA EnvironmentFrame ==
  ASSUME TypeOK, Environment
  PROVE  /\ UNCHANGED <<mutual, expected, pc, error, saved, record, req, asked, answer, report,
                        serving, SEEN, assigned, proved>>
         /\ \A r \in Roles : rows[r] \subseteq rows'[r]
         /\ \A c \in queue' : c \in queue \/ c.request.ids \subseteq AskedIds
<1>1. CASE \E r \in Roles, id \in Ids : Pass(r, id)
  BY <1>1 DEF Pass, ObserverLocal, setup, results, channel
<1>2. CASE \E r \in Roles, id \in Ids : Observe(r, id)
  BY <1>2 DEF TypeOK, Observe, ObserverLocal, setup, results, channel
<1>3. CASE \E r \in Roles : ObserverFails(r)
  BY <1>3 DEF ObserverFails, ObserverLocal, setup, results, channel
<1>4. CASE \E r \in Roles : Stop(r)
  BY <1>4 DEF Stop, capture, results, channel
<1>5. CASE Repeat
  <2>1. ASSUME NEW c \in queue', c \notin queue
        PROVE  c.request.ids \subseteq AskedIds
    <3>1. PICK q \in asked, s \in Seqs :
            \/ c = [peer |-> "other", request |-> q]
            \/ c = [peer |-> "other",
                    request |-> [seq |-> s, ids |-> q.ids, challenge |-> "again"]]
      BY <1>5, <2>1 DEF Repeat
    <3>2. c.request.ids = q.ids
      BY <3>1
    <3> QED
      BY <3>2 DEF AskedIds
  <2> QED
    BY <1>5, <2>1 DEF Repeat, capture, setup, results
<1> QED
  BY <1>1, <1>2, <1>3, <1>4, <1>5 DEF Environment

LEMMA ClientFrame ==
  ASSUME TypeOK, Client
  PROVE  /\ UNCHANGED <<mutual, expected, stop, sent, rows, dropped, failed, saved, record, repeats,
                        serving, SEEN>>
         /\ pc'["server"] = pc["server"]
         /\ assigned'["server"] = assigned["server"]
         /\ pc["client"] \in {"idle", "challenge", "response", "verify"}
         /\ pc'["client"] # "save"
<1> USE DEF ClientLocal, setup, capture, results, ClientAt, Goto, ClientFails, TypeOK, Roles
<1>1. CASE ClientAsk
  BY <1>1 DEF ClientAsk
<1>2. CASE ClientObserverFailed
  BY <1>2 DEF ClientObserverFailed
<1>3. CASE ClientDrains
  BY <1>3 DEF ClientDrains
<1>4. CASE ClientReports \/ ClientReads \/ ClientBreaksOff
  BY <1>4 DEF ClientReports, ClientReads, ClientBreaksOff
<1>5. CASE ClientVerify
  BY <1>5 DEF ClientVerify
<1> QED
  BY <1>1, <1>2, <1>3, <1>4, <1>5 DEF Client

LEMMA ServerFrame ==
  ASSUME TypeOK, Server
  PROVE  /\ UNCHANGED <<mutual, expected, stop, sent, rows, dropped, failed, saved, record, req, asked,
                        repeats, proved, report>>
         /\ pc'["client"] = pc["client"]
         /\ assigned'["client"] = assigned["client"]
         /\ pc["server"] \in {"accept", "observe", "report", "generate", "manifest"}
         /\ pc'["server"] # "save"
         /\ "client" \in error' <=> "client" \in error
         /\ queue' \subseteq queue
<1> USE DEF ServerLocal, setup, capture, results, ServerAt, Accepted, Goto, TypeOK, Roles
<1>1. CASE ServerAccept
  BY <1>1 DEF ServerAccept
<1>2. CASE ServerReplays \/ ServerTakes \/ ServerStops
  BY <1>2 DEF ServerReplays, ServerTakes, ServerStops
<1>3. CASE ServerObserves \/ ServerVerifies \/ ServerResponds
  BY <1>3 DEF ServerObserves, ServerVerifies, ServerResponds
<1>4. CASE ServerGenerates
  BY <1>4 DEF ServerGenerates
<1>5. CASE ServerRefuses
  BY <1>5 DEF ServerRefuses, Refuse, ServerPC
<1> QED
  BY <1>1, <1>2, <1>3, <1>4, <1>5 DEF Server

LEMMA EndFrame ==
  ASSUME TypeOK, NEW r \in Roles, Save(r) \/ Write(r) \/ Die(r)
  PROVE  /\ UNCHANGED <<mutual, expected, stop, sent, rows, dropped, failed, req, asked, repeats, queue,
                        answer, report, serving, SEEN, assigned, proved>>
         /\ pc'[r] \in {"save", "ended"}
         /\ pc[r] # "ended"
         /\ \A q \in Roles : q # r =>
              /\ pc'[q] = pc[q]
              /\ saved'[q] = saved[q]
              /\ record'[q] = record[q]
              /\ q \in error' <=> q \in error
         /\ error \subseteq error'
<1> USE DEF EndLocal, setup, capture, channel, results, Goto, TypeOK
<1>1. CASE Save(r)
  BY <1>1 DEF Save
<1>2. CASE Write(r)
  BY <1>2 DEF Write
<1>3. CASE Die(r)
  BY <1>3 DEF Die
<1> QED
  BY <1>1, <1>2, <1>3
-----------------------------------------------------------------------------
(* Types.                                                                    *)

LEMMA EnvironmentType ==
  ASSUME TypeOK, Environment
  PROVE  TypeOK'
<1> USE DEF TypeOK
<1>0. UNCHANGED <<mutual, expected, pc, error, saved, record, req, asked, answer, report, serving,
                  SEEN, assigned, proved>>
  BY EnvironmentFrame
<1>1. CASE \E r \in Roles, id \in Ids : Pass(r, id)
  BY <1>0, <1>1 DEF Pass, ObserverLocal, setup, channel
<1>2. CASE \E r \in Roles, id \in Ids : Observe(r, id)
  BY <1>0, <1>2 DEF Observe, ObserverLocal, setup, channel
<1>3. CASE \E r \in Roles : ObserverFails(r)
  BY <1>0, <1>3 DEF ObserverFails, ObserverLocal, setup, channel
<1>4. CASE \E r \in Roles : Stop(r)
  BY <1>0, <1>4 DEF Stop, capture, channel
<1>5. CASE Repeat
  <2>1. queue' \subseteq Connection
    <3>1. PICK q \in asked, s \in Seqs :
            \E again \in {q, [seq |-> s, ids |-> q.ids, challenge |-> "again"]} :
              queue' = queue \cup {[peer |-> "other", request |-> again]}
      BY <1>5 DEF Repeat
    <3>2. q \in Request /\ [seq |-> s, ids |-> q.ids, challenge |-> "again"] \in Request
      BY <3>1 DEF Request
    <3>3. \A again \in Request : [peer |-> "other", request |-> again] \in Connection
      BY DEF Connection
    <3> QED
      BY <3>1, <3>2, <3>3
  <2>2. repeats' \in 0..MaxRepeats
    BY <1>5, BatchAssumption DEF Repeat
  <2> QED
    BY <1>0, <1>5, <2>1, <2>2 DEF Repeat, capture, setup
<1> QED
  BY <1>1, <1>2, <1>3, <1>4, <1>5 DEF Environment

\* The number of a new request is in range because each batch has confirmed something.
LEMMA AskType ==
  ASSUME TypeOK, ClientInv, ClientAsk
  PROVE  req' \in Request
<1>1. Unconfirmed \in SUBSET Ids /\ Unconfirmed # {} /\ assigned["client"] \in SUBSET Ids
  <2>1. rows["client"] \in SUBSET Ids /\ assigned["client"] \in SUBSET Ids
    BY DEF TypeOK, Roles
  <2> QED
    BY <2>1 DEF Unconfirmed, ClientAsk
<1>2. assigned["client"] \cap Unconfirmed = {}
  BY DEF Unconfirmed
<1>3. req.seq \in Nat
  BY DEF TypeOK, Request, Seqs, NoRequest
<1>4. req.seq <= Cardinality(assigned["client"])
  BY DEF ClientInv, ClientAsk, ClientAt, Exchanging
<1>5. Cardinality(assigned["client"]) + 1 <= Cardinality(Ids)
  BY <1>1, <1>2, BatchAdds
<1>6. Cardinality(assigned["client"]) \in Nat /\ Cardinality(Ids) \in Nat
  BY <1>1, IdsFinite
<1>7. req.seq + 1 \in Seqs
  BY <1>3, <1>4, <1>5, <1>6 DEF Seqs
<1> QED
  BY <1>1, <1>7 DEF ClientAsk, Request

LEMMA ClientType ==
  ASSUME TypeOK, ClientInv, Client
  PROVE  TypeOK'
<1>0. /\ UNCHANGED <<mutual, expected, stop, sent, rows, dropped, failed, saved, record, repeats,
                     serving, SEEN>>
      /\ pc'["server"] = pc["server"]
  BY ClientFrame
<1>1. pc' \in [Roles -> ClientPC \cup ServerPC] /\ pc'["client"] \in ClientPC
  BY DEF TypeOK, Roles, Client, ClientAsk, ClientObserverFailed, ClientDrains, ClientReports,
         ClientReads, ClientBreaksOff, ClientVerify, ClientFails, Goto, ClientPC
<1>2. error' \subseteq Roles
  BY DEF TypeOK, Roles, Client, ClientAsk, ClientObserverFailed, ClientDrains, ClientReports,
         ClientReads, ClientBreaksOff, ClientVerify, ClientFails
<1>3. /\ req' \in Request \cup {NoRequest}
      /\ asked' \subseteq Request
      /\ queue' \subseteq Connection
  <2>1. CASE ClientAsk
    <3>1. req' \in Request
      BY <2>1, AskType
    <3>2. asked' \subseteq Request
      BY <2>1, <3>1 DEF TypeOK, ClientAsk
    <3>3. [peer |-> "client", request |-> req'] \in Connection
      BY <3>1 DEF Connection
    <3>4. queue' \subseteq Connection
      BY <2>1, <3>3 DEF TypeOK, ClientAsk
    <3> QED
      BY <3>1, <3>2, <3>4
  <2>2. CASE UNCHANGED <<req, asked, queue>>
    BY <2>2 DEF TypeOK
  <2> QED
    BY <2>1, <2>2 DEF Client, ClientObserverFailed, ClientDrains, ClientReports, ClientReads,
                      ClientBreaksOff, ClientVerify
<1>4. answer' \in Answer /\ report' \in BOOLEAN
  BY DEF TypeOK, Answer, Client, ClientAsk, ClientObserverFailed, ClientDrains, ClientReports,
         ClientReads, ClientBreaksOff, ClientVerify
<1>5. assigned' \in [Roles -> SUBSET Ids] /\ proved' \subseteq asked'
  <2>1. CASE ClientVerify
    <3>1. req \in asked
      BY <2>1 DEF ClientInv, ClientVerify, ClientAt, Exchanging
    <3>2. req.ids \subseteq Ids
      BY <3>1 DEF TypeOK, Request
    <3> QED
      BY <2>1, <3>1, <3>2 DEF ClientVerify, TypeOK, Roles
  <2>2. CASE UNCHANGED <<assigned, proved>> /\ asked \subseteq asked'
    BY <2>2 DEF TypeOK
  <2> QED
    BY <2>1, <2>2 DEF Client, ClientAsk, ClientObserverFailed, ClientDrains, ClientReports,
                      ClientReads, ClientBreaksOff
<1> QED
  BY <1>0, <1>1, <1>2, <1>3, <1>4, <1>5 DEF TypeOK

LEMMA ServerType ==
  ASSUME TypeOK, ServerInv, Server
  PROVE  TypeOK'
<1>0. /\ UNCHANGED <<mutual, expected, stop, sent, rows, dropped, failed, saved, record, req, asked,
                     repeats, proved, report>>
      /\ pc'["client"] = pc["client"]
      /\ queue' \subseteq queue
  BY ServerFrame
<1>1. pc' \in [Roles -> ClientPC \cup ServerPC] /\ pc'["server"] \in ServerPC
  BY DEF TypeOK, Roles, Server, ServerAccept, ServerReplays, ServerTakes, ServerObserves,
         ServerVerifies, ServerGenerates, ServerResponds, ServerRefuses, ServerStops, Refuse, Goto,
         ServerPC
<1>2. error' \subseteq Roles
  BY DEF TypeOK, Roles, Server, ServerAccept, ServerReplays, ServerTakes, ServerObserves,
         ServerVerifies, ServerGenerates, ServerResponds, ServerRefuses, ServerStops, Refuse
<1>3. serving' \in Connection \cup {NoConnection}
  BY DEF TypeOK, Server, ServerAccept, ServerReplays, ServerTakes, ServerObserves,
         ServerVerifies, ServerGenerates, ServerResponds, ServerRefuses, ServerStops, Refuse
<1>4. serving # NoConnection => serving.request \in Request
  BY DEF TypeOK, Connection
<1>5. answer' \in Answer
  BY <1>4 DEF TypeOK, Answer, Server, ServerAccept, ServerReplays, ServerTakes, ServerObserves,
         ServerVerifies, ServerGenerates, ServerResponds, ServerRefuses, ServerStops, Refuse, Reply,
         ServerInv, Accepted, ServerAt
<1>6. SEEN' \subseteq Request /\ assigned' \in [Roles -> SUBSET Ids]
  <2>1. CASE ServerGenerates
    <3>1. serving.request \in Request
      BY <1>4, <2>1 DEF ServerInv, Working, ServerGenerates, ServerAt
    <3>2. serving.request.ids \subseteq Ids
      BY <3>1 DEF Request
    <3> QED
      BY <2>1, <3>1, <3>2 DEF TypeOK, ServerGenerates
  <2>2. CASE UNCHANGED <<SEEN, assigned>>
    BY <2>2 DEF TypeOK
  <2> QED
    BY <2>1, <2>2 DEF Server, ServerAccept, ServerReplays, ServerTakes, ServerObserves,
         ServerVerifies, ServerResponds, ServerRefuses, ServerStops
<1> QED
  BY <1>0, <1>1, <1>2, <1>3, <1>5, <1>6 DEF TypeOK

LEMMA EndType ==
  ASSUME TypeOK, NEW r \in Roles, Save(r) \/ Write(r) \/ Die(r)
  PROVE  TypeOK'
<1>0. UNCHANGED <<mutual, expected, stop, sent, rows, dropped, failed, req, asked, repeats, queue,
                  answer, report, serving, SEEN, assigned, proved>>
  BY EndFrame
<1>1. /\ pc' \in [Roles -> ClientPC \cup ServerPC]
      /\ pc'["client"] \in ClientPC
      /\ pc'["server"] \in ServerPC
  BY DEF TypeOK, Roles, Save, Write, Die, Goto, ClientPC, ServerPC
<1>2. error' \subseteq Roles
  BY DEF TypeOK, Save, Write, Die
<1>3. saved' \in [Roles -> SUBSET Ids]
  BY DEF TypeOK, Save, Write, Die, results
<1>4. record' \in [Roles -> Record \cup {NoRecord}]
  <2>1. CASE Write(r)
    <3>1. [written |-> TRUE, error |-> r \in error, unassigned |-> rows[r] \ assigned[r]] \in Record
      BY DEF TypeOK, Record
    <3> QED
      BY <2>1, <3>1 DEF TypeOK, Write
  <2>2. CASE UNCHANGED record
    BY <2>2 DEF TypeOK
  <2> QED
    BY <2>1, <2>2 DEF Save, Die, results
<1> QED
  BY <1>0, <1>1, <1>2, <1>3, <1>4 DEF TypeOK
-----------------------------------------------------------------------------
(* The server's part: AssignedOnce and ServerInv.                            *)

LEMMA RecordedByGenerate ==
  ASSUME TypeOK, Next, ~ServerGenerates
  PROVE  SEEN' = SEEN /\ assigned'["server"] = assigned["server"]
<1>1. CASE Environment
  BY <1>1, EnvironmentFrame
<1>2. CASE Client
  BY <1>2, ClientFrame
<1>3. CASE Server
  BY <1>3 DEF Server, ServerAccept, ServerReplays, ServerTakes, ServerObserves, ServerVerifies,
              ServerResponds, ServerRefuses, ServerStops
<1>4. CASE End
  BY <1>4, EndFrame DEF End
<1> QED
  BY <1>1, <1>2, <1>3, <1>4 DEF Next

LEMMA RowsGrow ==
  ASSUME TypeOK, Next
  PROVE  \A r \in Roles : rows[r] \subseteq rows'[r]
<1> QED
  BY EnvironmentFrame, ClientFrame, ServerFrame, EndFrame DEF Next, End

LEMMA OnceStep ==
  ASSUME TypeOK, ServerInv, AssignedOnce, Next
  PROVE  AssignedOnce'
<1>1. CASE ServerGenerates
  <2>1. /\ ~Known
        /\ assigned["server"] \cap serving.request.ids = {}
    BY <1>1 DEF ServerGenerates, ServerAt, ServerInv, Working
  <2>2. SEEN' = SEEN \cup {serving.request}
    BY <1>1 DEF ServerGenerates
  <2>3. \A q \in SEEN : q.seq # serving.request.seq /\ q.ids \cap serving.request.ids = {}
    BY <2>1 DEF Known, ServerInv
  <2> QED
    BY <2>2, <2>3 DEF AssignedOnce
<1>2. CASE ~ServerGenerates
  BY <1>2, RecordedByGenerate DEF AssignedOnce
<1> QED
  BY <1>1, <1>2

LEMMA ServerInvStep ==
  ASSUME TypeOK, ServerInv, Next
  PROVE  ServerInv'
<1>0. \A r \in Roles : rows[r] \subseteq rows'[r]
  BY RowsGrow
<1>1. CASE ServerGenerates
  <2>1. /\ SEEN' = SEEN \cup {serving.request}
        /\ assigned'["server"] = assigned["server"] \cup serving.request.ids
        /\ pc'["server"] = "manifest"
        /\ UNCHANGED serving
        /\ UNCHANGED rows
    BY <1>1, ServerFrame DEF ServerGenerates, Goto, TypeOK, Roles, Server
  <2>2. /\ serving.request.ids \subseteq rows["server"]
        /\ serving # NoConnection
    BY <1>1 DEF ServerGenerates, ServerAt, ServerInv, Working
  <2> QED
    BY <2>1, <2>2 DEF ServerInv, Working
<1>2. CASE Server /\ ~ServerGenerates
  <2>1. SEEN' = SEEN /\ assigned'["server"] = assigned["server"] /\ UNCHANGED rows
    BY <1>2, RecordedByGenerate, ServerFrame DEF Next
  <2>2. \A q \in SEEN' : q.ids \subseteq assigned'["server"] /\ q.ids \subseteq rows'["server"]
    BY <2>1 DEF ServerInv
  <2>3. CASE pc'["server"] \in {"accept", "close"}
    BY <2>2, <2>3 DEF ServerInv, Working
  <2>4. CASE ServerTakes
    BY <2>1, <2>2, <2>4
    DEF ServerTakes, Accepted, Goto, TypeOK, Roles, ServerInv, Working, Known
  <2>5. CASE ServerObserves
    BY <2>1, <2>2, <2>5 DEF ServerObserves, ServerAt, Goto, TypeOK, Roles, ServerInv, Working, Known
  <2>6. CASE ServerVerifies
    <3>1. serving.request.ids \subseteq rows["server"]
      BY <2>6 DEF ServerVerifies, ServerAt, ServerInv
    <3> QED
      BY <2>1, <2>2, <2>6, <3>1
      DEF ServerVerifies, ServerAt, Goto, TypeOK, Roles, ServerInv, Working, Known
  <2>7. \/ pc'["server"] \in {"accept", "close"}
        \/ ServerTakes \/ ServerObserves \/ ServerVerifies
    BY <1>2
    DEF Server, ServerAccept, ServerReplays, ServerResponds, ServerRefuses, ServerStops, Refuse, Goto,
        TypeOK, Roles, Accepted, ServerAt
  <2> QED
    BY <2>3, <2>4, <2>5, <2>6, <2>7
<1>3. CASE Environment \/ Client
  <2>1. UNCHANGED <<SEEN, serving>> /\ pc'["server"] = pc["server"]
                                   /\ assigned'["server"] = assigned["server"]
    BY <1>3, EnvironmentFrame, ClientFrame
  <2> QED
    BY <1>0, <2>1 DEF ServerInv, Working, Known, Roles
<1>4. CASE End
  <2>1. UNCHANGED <<SEEN, serving, assigned, rows>>
    BY <1>4, EndFrame DEF End
  <2>2. pc'["server"] = pc["server"] \/ pc'["server"] \in {"save", "ended"}
    <3>1. PICK r \in Roles : Save(r) \/ Write(r) \/ Die(r)
      BY <1>4 DEF End
    <3>2. CASE r = "server"
      BY <3>1, <3>2, EndFrame
    <3>3. CASE r # "server"
      <4>1. "server" \in Roles
        BY DEF Roles
      <4> QED
        BY <3>1, <3>3, <4>1, EndFrame
    <3> QED
      BY <3>2, <3>3
  <2> QED
    BY <2>1, <2>2 DEF ServerInv, Working, Known
<1> QED
  BY <1>1, <1>2, <1>3, <1>4 DEF Next
-----------------------------------------------------------------------------
(* The client's part: ClientInv, RequestInv and ConfirmedIsProved.           *)

LEMMA AskedGrows ==
  ASSUME TypeOK, Next
  PROVE  /\ asked \subseteq asked'
         /\ AskedIds \subseteq AskedIds'
         /\ ~ClientAsk => asked' = asked /\ AskedIds' = AskedIds
<1>1. asked \subseteq asked' /\ (~ClientAsk => asked' = asked)
  <2>1. CASE Client
    BY <2>1 DEF Client, ClientAsk, ClientObserverFailed, ClientDrains, ClientReports, ClientReads,
                ClientBreaksOff, ClientVerify
  <2>2. CASE ~Client
    BY <2>2, EnvironmentFrame, ServerFrame, EndFrame DEF Next, End
  <2> QED
    BY <2>1, <2>2
<1> QED
  BY <1>1 DEF AskedIds

\* Without a step of its own the client's invariant stays as it is, or the client ends.
LEMMA ClientInvKept ==
  ASSUME ClientInv, TypeOK,
         UNCHANGED <<req, asked, expected>>, assigned'["client"] = assigned["client"],
         "client" \in error => "client" \in error',
         \/ pc'["client"] = pc["client"] /\ ("client" \in error' => "client" \in error)
         \/ pc'["client"] \in {"save", "ended"} /\ pc["client"] = "close"
         \/ pc'["client"] = "ended"
  PROVE  ClientInv'
<1>1. AskedIds' = AskedIds
  BY DEF AskedIds
<1> QED
  BY <1>1 DEF ClientInv, Exchanging

LEMMA ClientInvStep ==
  ASSUME TypeOK, ClientInv, Next
  PROVE  ClientInv'
<1>1. CASE Environment
  BY <1>1, EnvironmentFrame, ClientInvKept
<1>2. CASE Server
  BY <1>2, ServerFrame, ClientInvKept
<1>3. CASE End
  <2>1. PICK r \in Roles : Save(r) \/ Write(r) \/ Die(r)
    BY <1>3 DEF End
  <2>2. UNCHANGED <<req, asked, expected, assigned>> /\ error \subseteq error'
    BY <2>1, EndFrame
  <2>3. CASE r = "client"
    <3>1. \/ pc'["client"] \in {"save", "ended"} /\ pc["client"] = "close"
          \/ pc'["client"] = "ended"
      BY <2>1, <2>3 DEF Save, Write, Die, Goto, TypeOK, Roles
    <3> QED
      BY <2>2, <3>1, ClientInvKept
  <2>4. CASE r # "client"
    <3>1. "client" \in Roles
      BY DEF Roles
    <3>2. pc'["client"] = pc["client"] /\ ("client" \in error' => "client" \in error)
      BY <2>1, <2>4, <3>1, EndFrame
    <3> QED
      BY <2>2, <3>2, ClientInvKept
  <2> QED
    BY <2>3, <2>4
<1>4. CASE Client
  <2>1. CASE ClientAsk
    <3>1. /\ pc["client"] = "idle"
          /\ Unconfirmed # {}
          /\ req' = [seq |-> req.seq + 1, ids |-> Unconfirmed, challenge |-> "own"]
          /\ asked' = asked \cup {req'}
          /\ pc'["client"] \in {"challenge", "response"}
          /\ UNCHANGED <<error, assigned>>
      BY <2>1 DEF ClientAsk, ClientAt, Goto, TypeOK, Roles
    <3>2. /\ req.seq <= Cardinality(assigned["client"])
          /\ AskedIds \subseteq assigned["client"]
          /\ "client" \notin error
      BY <3>1 DEF ClientInv, Exchanging
    <3>3. Cardinality(assigned["client"]) \in Nat /\ req.seq \in Nat
      BY IdsFinite DEF TypeOK, Roles, Request, NoRequest, Seqs
    <3>4. req'.ids = Unconfirmed /\ req'.seq = req.seq + 1
      BY <3>1
    <3>5. AskedIds' \subseteq assigned["client"] \cup req'.ids
      BY <3>1, <3>2 DEF AskedIds
    <3>6. req'.seq <= Cardinality(assigned["client"]) + 1
      BY <3>2, <3>3, <3>4
    <3>7. req'.ids \cap assigned["client"] = {}
      BY <3>4 DEF Unconfirmed
    <3> QED
      BY <3>1, <3>2, <3>5, <3>6, <3>7 DEF ClientInv, Exchanging
  <2>2. CASE ClientObserverFailed \/ ClientBreaksOff
    BY <2>2 DEF ClientObserverFailed, ClientBreaksOff, ClientFails, Goto, TypeOK, Roles, ClientInv,
                Exchanging
  <2>3. CASE ClientDrains
    <3>1. CASE pc'["client"] = "close" /\ "client" \in error'
      BY <3>1 DEF ClientInv, Exchanging
    <3>2. CASE /\ Cardinality(rows["client"]) >= expected
               /\ Unconfirmed = {}
               /\ pc'["client"] = "close"
      <4>1. AskedIds' \subseteq assigned'["client"] /\ assigned' = assigned
        BY <2>3, AskedGrows DEF ClientDrains, ClientAt, ClientInv, Exchanging, AskedIds
      <4>2. rows["client"] \in SUBSET assigned["client"] /\ assigned["client"] \in SUBSET Ids
        BY <3>2 DEF Unconfirmed, TypeOK, Roles
      <4>3. /\ Cardinality(rows["client"]) <= Cardinality(assigned["client"])
            /\ Cardinality(rows["client"]) \in Nat
            /\ Cardinality(assigned["client"]) \in Nat
        BY <4>2, IdsFinite
      <4>4. expected' = expected /\ expected \in Nat
        BY <2>3, IdsFinite, ClientFrame DEF Client, TypeOK
      <4>5. Cardinality(assigned["client"]) >= expected
        BY <3>2, <4>3, <4>4
      <4> QED
        BY <3>2, <4>1, <4>4, <4>5 DEF ClientInv, Exchanging
    <3> QED
      BY <2>3, <3>1, <3>2 DEF ClientDrains, ClientFails, Goto, TypeOK, Roles
  <2>4. CASE ClientReports \/ ClientReads
    <3>1. /\ UNCHANGED <<req, asked, assigned, error>>
          /\ pc["client"] \in {"challenge", "response"}
          /\ pc'["client"] \in {"response", "verify"}
      BY <2>4 DEF ClientReports, ClientReads, ClientAt, Goto, TypeOK, Roles
    <3> QED
      BY <3>1 DEF ClientInv, Exchanging, AskedIds
  <2>5. CASE ClientVerify
    <3>1. /\ UNCHANGED <<req, asked>>
          /\ pc["client"] = "verify"
          /\ \/ /\ assigned'["client"] = assigned["client"] \cup req.ids
                /\ pc'["client"] = "idle"
                /\ UNCHANGED error
             \/ pc'["client"] = "close" /\ "client" \in error'
      BY <2>5 DEF ClientVerify, ClientAt, ClientFails, Goto, TypeOK, Roles
    <3>2. /\ req \in asked
          /\ req.ids \cap assigned["client"] = {}
          /\ req.seq <= Cardinality(assigned["client"]) + 1
          /\ AskedIds \subseteq assigned["client"] \cup req.ids
          /\ "client" \notin error
      BY <3>1 DEF ClientInv, Exchanging
    <3>3. CASE pc'["client"] = "close" /\ "client" \in error'
      BY <3>3 DEF ClientInv, Exchanging
    <3>4. CASE /\ assigned'["client"] = assigned["client"] \cup req.ids
               /\ pc'["client"] = "idle"
               /\ UNCHANGED error
      <4>1. /\ assigned["client"] \in SUBSET Ids
            /\ req.ids \in SUBSET Ids
            /\ req.ids # {}
            /\ req.seq \in Nat
        BY <3>2 DEF TypeOK, Roles, Request, Seqs
      <4>2. Cardinality(assigned["client"]) + 1 <= Cardinality(assigned'["client"])
        BY <3>2, <3>4, <4>1, BatchAdds
      <4>3. Cardinality(assigned["client"]) \in Nat /\ Cardinality(assigned'["client"]) \in Nat
        <5>1. assigned["client"] \cup req.ids \in SUBSET Ids
          BY <4>1
        <5> QED
          BY <3>4, <4>1, <5>1, IdsFinite
      <4>4. req.seq <= Cardinality(assigned'["client"])
        BY <3>2, <4>1, <4>2, <4>3
      <4>5. AskedIds' \subseteq assigned'["client"]
        BY <3>1, <3>2, <3>4 DEF AskedIds
      <4> QED
        BY <3>1, <3>2, <3>4, <4>4, <4>5 DEF ClientInv, Exchanging
    <3> QED
      BY <3>1, <3>3, <3>4
  <2> QED
    BY <1>4, <2>1, <2>2, <2>3, <2>4, <2>5 DEF Client
<1> QED
  BY <1>1, <1>2, <1>3, <1>4 DEF Next
LEMMA RequestInvStep ==
  ASSUME TypeOK, ServerInv, ClientInv, RequestInv, Next
  PROVE  RequestInv'
<1>0. AskedIds \subseteq AskedIds'
  BY AskedGrows
<1>1. \A c \in queue' : c.request.ids \subseteq AskedIds'
  <2>1. CASE Environment
    BY <1>0, <2>1, EnvironmentFrame DEF RequestInv
  <2>2. CASE ClientAsk
    <3>1. req' \in asked' /\ queue' = queue \cup {[peer |-> "client", request |-> req']}
      BY <2>2 DEF ClientAsk
    <3>2. req'.ids \subseteq AskedIds'
      BY <3>1 DEF AskedIds
    <3>3. ASSUME NEW c \in queue' PROVE c.request.ids \subseteq AskedIds'
      <4>1. CASE c \in queue
        BY <1>0, <4>1 DEF RequestInv
      <4>2. CASE c = [peer |-> "client", request |-> req']
        BY <3>2, <4>2
      <4> QED
        BY <3>1, <3>3, <4>1, <4>2
    <3> QED
      BY <3>3
  <2>3. CASE (Client /\ ~ClientAsk) \/ Server \/ End
    <3>1. queue' \subseteq queue
      BY <2>3, ServerFrame, EndFrame
      DEF Client, ClientObserverFailed, ClientDrains, ClientReports, ClientReads, ClientBreaksOff,
          ClientVerify, End
    <3> QED
      BY <1>0, <3>1 DEF RequestInv
  <2> QED
    BY <2>1, <2>2, <2>3 DEF Next
<1>2. (serving # NoConnection => serving.request.ids \subseteq AskedIds)'
  <2>1. CASE ServerAccept
    BY <1>0, <2>1 DEF ServerAccept, RequestInv
  <2>2. CASE serving' \in {serving, NoConnection}
    BY <1>0, <2>2 DEF RequestInv
  <2>3. ServerAccept \/ serving' \in {serving, NoConnection}
    BY EnvironmentFrame, ClientFrame, EndFrame
    DEF Next, End, Server, ServerReplays, ServerTakes, ServerObserves, ServerVerifies,
        ServerGenerates, ServerResponds, ServerRefuses, ServerStops, Refuse
  <2> QED
    BY <2>1, <2>2, <2>3
<1>3. assigned'["server"] \subseteq AskedIds'
  <2>1. CASE ServerGenerates
    <3>1. serving # NoConnection
      BY <2>1 DEF ServerGenerates, ServerAt, ServerInv, Working
    <3>2. assigned'["server"] = assigned["server"] \cup serving.request.ids
      BY <2>1 DEF ServerGenerates, TypeOK, Roles
    <3> QED
      BY <1>0, <3>1, <3>2 DEF RequestInv
  <2>2. CASE ~ServerGenerates
    BY <1>0, <2>2, RecordedByGenerate DEF RequestInv
  <2> QED
    BY <2>1, <2>2
<1>4. SEEN \subseteq SEEN'
  BY RecordedByGenerate DEF ServerGenerates
<1>5. \A q \in Request : answer' = Ok(q) => q \in SEEN'
  <2>1. CASE UNCHANGED answer
    BY <1>4, <2>1 DEF RequestInv
  <2>2. CASE \E k : answer' = Plain(k)
    BY <2>2 DEF Plain, Ok
  <2>3. CASE answer' = Ok(serving.request) /\ serving.request \in SEEN
    <3>1. \A q, p : Ok(q) = Ok(p) => q = p
      BY DEF Ok
    <3> QED
      BY <1>4, <2>3, <3>1
  <2>4. \/ UNCHANGED answer
        \/ \E k : answer' = Plain(k)
        \/ answer' = Ok(serving.request) /\ serving.request \in SEEN
    <3>1. CASE Environment \/ End
      BY <3>1, EnvironmentFrame, EndFrame DEF End
    <3>2. CASE Client
      BY <3>2 DEF Client, ClientAsk, ClientObserverFailed, ClientDrains, ClientReports, ClientReads,
                  ClientBreaksOff, ClientVerify
    <3>3. CASE ServerResponds
      BY <3>3 DEF ServerResponds, ServerAt, Reply, ServerInv
    <3>4. CASE Server /\ ~ServerResponds
      BY <3>4
      DEF Server, ServerAccept, ServerReplays, ServerTakes, ServerObserves, ServerVerifies,
          ServerGenerates, ServerRefuses, ServerStops, Refuse, Reply
    <3> QED
      BY <3>1, <3>2, <3>3, <3>4 DEF Next
  <2> QED
    BY <2>1, <2>2, <2>3, <2>4
<1>6. (pc["client"] = "verify" => req \in SEEN)'
  <2>1. CASE ClientReads
    <3>1. answer = Ok(req) /\ req' = req
      BY <2>1 DEF ClientReads
    <3>2. req \in Request
      BY <2>1 DEF ClientReads, ClientAt, ClientInv, Exchanging, TypeOK
    <3> QED
      BY <1>4, <3>1, <3>2 DEF RequestInv
  <2>2. CASE Client /\ ~ClientReads
    BY <2>2
    DEF Client, ClientAsk, ClientObserverFailed, ClientDrains, ClientReports, ClientBreaksOff,
        ClientVerify, ClientFails, Goto, TypeOK, Roles
  <2>3. CASE Environment \/ Server
    BY <1>4, <2>3, EnvironmentFrame, ServerFrame DEF RequestInv
  <2>4. CASE End
    <3>1. PICK r \in Roles : Save(r) \/ Write(r) \/ Die(r)
      BY <2>4 DEF End
    <3>2. "client" \in Roles
      BY DEF Roles
    <3>3. req' = req /\ (pc'["client"] = pc["client"] \/ pc'["client"] \in {"save", "ended"})
      BY <3>1, <3>2, EndFrame
    <3> QED
      BY <1>4, <3>3 DEF RequestInv
  <2> QED
    BY <2>1, <2>2, <2>3, <2>4 DEF Next
<1> QED
  BY <1>1, <1>2, <1>3, <1>5, <1>6 DEF RequestInv

LEMMA ConfirmedStep ==
  ASSUME TypeOK, ServerInv, RequestInv, ConfirmedIsProved, Next
  PROVE  ConfirmedIsProved'
<1>1. SEEN \subseteq SEEN' /\ rows["server"] \subseteq rows'["server"]
  BY RecordedByGenerate, RowsGrow DEF ServerGenerates, Roles
<1>2. proved \subseteq proved'
  BY EnvironmentFrame, ServerFrame, EndFrame
  DEF Next, End, Client, ClientAsk, ClientObserverFailed, ClientDrains, ClientReports, ClientReads,
      ClientBreaksOff, ClientVerify
<1>3. CASE assigned'["client"] = assigned["client"]
  BY <1>1, <1>2, <1>3 DEF ConfirmedIsProved
<1>4. CASE ClientVerify /\ assigned'["client"] # assigned["client"]
  <2>1. /\ assigned'["client"] = assigned["client"] \cup req.ids
        /\ req \in proved'
        /\ pc["client"] = "verify"
    BY <1>4 DEF ClientVerify, ClientAt, TypeOK, Roles
  <2>2. req \in SEEN /\ req.ids \subseteq rows["server"]
    BY <2>1 DEF RequestInv, ServerInv
  <2> QED
    BY <1>1, <1>2, <2>1, <2>2 DEF ConfirmedIsProved
<1>5. assigned'["client"] = assigned["client"] \/ ClientVerify
  BY EnvironmentFrame, ServerFrame, EndFrame
  DEF Next, End, Client, ClientAsk, ClientObserverFailed, ClientDrains, ClientReports, ClientReads,
      ClientBreaksOff
<1> QED
  BY <1>3, <1>4, <1>5

-----------------------------------------------------------------------------
(* The end: RecordInv and CleanIsComplete.                                   *)

LEMMA RecordInvStep ==
  ASSUME TypeOK, ClientInv, RecordInv, Next
  PROVE  RecordInv'
<1> SUFFICES ASSUME NEW q \in Roles
             PROVE  RecordOf(q)'
  BY DEF RecordInv
<1>1. RecordOf(q)
  BY DEF RecordInv
<1>2. rows[q] \subseteq rows'[q]
  BY RowsGrow
<1>3. CASE Environment
  <2>1. UNCHANGED <<pc, saved, record, assigned, expected, asked>>
    BY <1>3, EnvironmentFrame
  <2> QED
    BY <1>1, <1>2, <2>1 DEF RecordOf, AskedIds
<1>4. CASE Client
  <2>1. UNCHANGED <<saved, record, expected, rows>> /\ pc'["client"] # "save"
    BY <1>4, ClientFrame
  <2>2. CASE q = "client"
    <3>1. ~record[q].written
      BY <1>1, <1>4, <2>2, ClientFrame DEF RecordOf
    <3> QED
      BY <2>1, <2>2, <3>1 DEF RecordOf
  <2>3. CASE q = "server"
    <3>1. pc'[q] = pc[q] /\ assigned'[q] = assigned[q]
      BY <1>4, <2>3, ClientFrame
    <3> QED
      BY <1>1, <2>1, <2>3, <3>1 DEF RecordOf
  <2> QED
    BY <2>2, <2>3 DEF Roles
<1>5. CASE Server
  <2>1. UNCHANGED <<saved, record, expected, rows, asked>> /\ pc'["server"] # "save"
    BY <1>5, ServerFrame
  <2>2. CASE q = "server"
    <3>1. ~record[q].written
      BY <1>1, <1>5, <2>2, ServerFrame DEF RecordOf
    <3> QED
      BY <2>1, <2>2, <3>1 DEF RecordOf
  <2>3. CASE q = "client"
    <3>1. pc'[q] = pc[q] /\ assigned'[q] = assigned[q]
      BY <1>5, <2>3, ServerFrame
    <3> QED
      BY <1>1, <2>1, <2>3, <3>1 DEF RecordOf, AskedIds
  <2> QED
    BY <2>2, <2>3 DEF Roles
<1>6. CASE End
  <2>1. PICK r \in Roles : Save(r) \/ Write(r) \/ Die(r)
    BY <1>6 DEF End
  <2>2. UNCHANGED <<asked, expected, assigned, rows>> /\ AskedIds' = AskedIds
    BY <2>1, EndFrame DEF AskedIds
  <2>3. CASE q # r
    <3>1. pc'[q] = pc[q] /\ saved'[q] = saved[q] /\ record'[q] = record[q]
      BY <2>1, <2>3, EndFrame
    <3> QED
      BY <1>1, <2>2, <3>1 DEF RecordOf
  <2>4. CASE q = r /\ Save(r)
    <3>1. saved'[q] = rows[q] /\ record' = record /\ pc[q] = "close"
      BY <2>4 DEF Save, TypeOK
    <3> QED
      BY <1>1, <2>2, <3>1 DEF RecordOf
  <2>5. CASE q = r /\ Write(r)
    <3>1. /\ record'[q].error = (q \in error)
          /\ record'[q].unassigned = rows[q] \ assigned[q]
          /\ pc[q] = "save"
          /\ pc'[q] = "ended"
          /\ saved' = saved
      BY <2>5 DEF Write, Goto, TypeOK
    <3>2. saved[q] \subseteq assigned[q] \cup record'[q].unassigned
      BY <1>1, <3>1 DEF RecordOf
    <3>3. q = "client" /\ ~record'[q].error =>
            /\ AskedIds \subseteq assigned["client"]
            /\ Cardinality(assigned["client"]) >= expected
      BY <3>1 DEF ClientInv
    <3> QED
      BY <2>2, <3>1, <3>2, <3>3 DEF RecordOf
  <2>6. CASE q = r /\ Die(r)
    <3>1. /\ saved' = saved
          /\ record' = record
          /\ pc[q] # "ended"
          /\ pc'[q] = "ended"
      BY <2>6 DEF Die, Goto, results, TypeOK
    <3> QED
      BY <1>1, <3>1 DEF RecordOf
  <2> QED
    BY <2>1, <2>3, <2>4, <2>5, <2>6
<1> QED
  BY <1>3, <1>4, <1>5, <1>6 DEF Next

LEMMA CleanFollows ==
  ASSUME TypeOK, BatchInv
  PROVE  CleanIsComplete
<1> SUFFICES ASSUME Clean("client"), Clean("server")
             PROVE  /\ saved["client"] \cup saved["server"] \subseteq Proved
                    /\ assigned["server"] = assigned["client"]
                    /\ Cardinality(Proved) >= expected
  BY DEF CleanIsComplete
<1>1. /\ saved["client"] \subseteq assigned["client"]
      /\ saved["server"] \subseteq assigned["server"]
      /\ AskedIds \subseteq assigned["client"]
      /\ Cardinality(assigned["client"]) >= expected
  <2>1. "client" \in Roles /\ "server" \in Roles
    BY DEF Roles
  <2> QED
    BY <2>1 DEF BatchInv, RecordInv, RecordOf, Clean
<1>2. assigned["client"] \subseteq assigned["server"] \cap Proved
  BY DEF BatchInv, ConfirmedIsProved, ServerInv, Proved
<1>3. assigned["server"] \subseteq assigned["client"]
  BY <1>1 DEF BatchInv, RequestInv
<1>4. Cardinality(Proved) >= expected
  <2>1. Proved \in SUBSET Ids
    BY DEF Proved, TypeOK, Request
  <2>2. assigned["client"] \in SUBSET Proved
    BY <1>2
  <2>3. /\ Cardinality(assigned["client"]) <= Cardinality(Proved)
        /\ Cardinality(assigned["client"]) \in Nat
        /\ Cardinality(Proved) \in Nat
    BY <2>1, <2>2, IdsFinite
  <2>4. expected \in Nat
    BY IdsFinite DEF TypeOK
  <2> QED
    BY <1>1, <2>3, <2>4
<1> QED
  BY <1>1, <1>2, <1>3, <1>4

-----------------------------------------------------------------------------
(* The theorems.                                                             *)

LEMMA InitType ==
  ASSUME Init
  PROVE  TypeOK
<1>1. Cardinality(Ids) \in Nat
  BY IdsFinite
<1>2. expected \in 0..Cardinality(Ids) /\ repeats \in 0..MaxRepeats
  BY <1>1, BatchAssumption DEF Init
<1>3. /\ pc \in [Roles -> ClientPC \cup ServerPC]
      /\ pc["client"] \in ClientPC
      /\ pc["server"] \in ServerPC
  BY DEF Init, Roles, ClientPC, ServerPC
<1> QED
  BY <1>2, <1>3 DEF Init, TypeOK, None, Answer

LEMMA InitInv ==
  ASSUME Init
  PROVE  BatchInv
<1>1. pc["client"] = "idle" /\ pc["server"] = "accept"
  BY DEF Init, Roles
<1>2. AskedIds = {} /\ assigned["client"] = {} /\ assigned["server"] = {}
  BY DEF Init, AskedIds, None, Roles
<1>3. req.seq <= Cardinality(assigned["client"])
  BY <1>2, FS_EmptySet DEF Init, NoRequest
<1>4. ClientInv
  BY <1>1, <1>2, <1>3 DEF Init, ClientInv, Exchanging
<1>5. ServerInv
  BY <1>1 DEF Init, ServerInv, Working
<1>6. RequestInv
  <2>1. \A q \in Request : answer # Ok(q)
    BY DEF Init, Plain, Ok
  <2> QED
    BY <1>1, <1>2, <2>1 DEF Init, RequestInv
<1>7. RecordInv
  BY DEF Init, RecordInv, RecordOf, Roles, NoRecord
<1>8. AssignedOnce /\ ConfirmedIsProved
  BY <1>2 DEF Init, AssignedOnce, ConfirmedIsProved
<1> QED
  BY <1>4, <1>5, <1>6, <1>7, <1>8 DEF BatchInv

LEMMA Inductive ==
  ASSUME TypeOK, BatchInv, [Next]_vars
  PROVE  TypeOK' /\ BatchInv'
<1>1. CASE Next
  <2>1. TypeOK'
    BY <1>1, EnvironmentType, ClientType, ServerType, EndType DEF Next, End, BatchInv
  <2>2. AssignedOnce' /\ ServerInv'
    BY <1>1, OnceStep, ServerInvStep DEF BatchInv
  <2>3. ClientInv' /\ RequestInv' /\ ConfirmedIsProved'
    BY <1>1, ClientInvStep, RequestInvStep, ConfirmedStep DEF BatchInv
  <2>4. RecordInv'
    BY <1>1, RecordInvStep DEF BatchInv
  <2> QED
    BY <2>1, <2>2, <2>3, <2>4 DEF BatchInv
<1>2. CASE UNCHANGED vars
  <2> USE <1>2 DEF vars, setup, capture, results, channel
  <2>1. TypeOK'
    BY DEF TypeOK
  <2>2. AssignedOnce' /\ ConfirmedIsProved' /\ ServerInv'
    BY DEF BatchInv, AssignedOnce, ConfirmedIsProved, ServerInv, Working, Known
  <2>3. ClientInv' /\ RequestInv' /\ RecordInv'
    BY DEF BatchInv, ClientInv, Exchanging, AskedIds, RequestInv, RecordInv, RecordOf
  <2> QED
    BY <2>1, <2>2, <2>3 DEF BatchInv
<1> QED
  BY <1>1, <1>2

\* The variables have their types; the number of a request stays below the number of
\* ServerHellos because every batch that is confirmed confirms something (seq in client).
THEOREM TypeCorrect == Spec => []TypeOK
<1>1. Init => TypeOK /\ BatchInv
  BY InitType, InitInv
<1>2. TypeOK /\ BatchInv /\ [Next]_vars => (TypeOK /\ BatchInv)'
  BY Inductive
<1> QED
  BY <1>1, <1>2, PTL DEF Spec

\* No ServerHello is ever in two batches of the server and no number is used twice, however
\* often requests are repeated or changed (SEEN and ASSIGNED in server).
THEOREM OnceAssigned == Spec => []AssignedOnce
<1>1. Init => TypeOK /\ BatchInv
  BY InitType, InitInv
<1>2. TypeOK /\ BatchInv /\ [Next]_vars => (TypeOK /\ BatchInv)'
  BY Inductive
<1>3. BatchInv => AssignedOnce
  BY DEF BatchInv
<1> QED
  BY <1>1, <1>2, <1>3, PTL DEF Spec

\* What the client confirms is proved, on the server's record, and observed by the server
\* (client's handling of a response, server's checks before it makes a report).
THEOREM Confirmation == Spec => []ConfirmedIsProved
<1>1. Init => TypeOK /\ BatchInv
  BY InitType, InitInv
<1>2. TypeOK /\ BatchInv /\ [Next]_vars => (TypeOK /\ BatchInv)'
  BY Inductive
<1>3. BatchInv => ConfirmedIsProved
  BY DEF BatchInv
<1> QED
  BY <1>1, <1>2, <1>3, PTL DEF Spec

\* Two accounts without an error and without a ServerHello unassigned are complete: all that
\* either host wrote down is proved, the server assigned nothing else, and it is as many as
\* were expected (the end of client and of server).
THEOREM CleanAccounts == Spec => []CleanIsComplete
<1>1. Init => TypeOK /\ BatchInv
  BY InitType, InitInv
<1>2. TypeOK /\ BatchInv /\ [Next]_vars => (TypeOK /\ BatchInv)'
  BY Inductive
<1>3. TypeOK /\ BatchInv => CleanIsComplete
  BY CleanFollows
<1> QED
  BY <1>1, <1>2, <1>3, PTL DEF Spec
=============================================================================
