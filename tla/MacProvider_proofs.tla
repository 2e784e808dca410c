------------------------- MODULE MacProvider_proofs -------------------------
(***************************************************************************)
(* Theorems about MacProvider, for every set of flows and every capacity.  *)
(***************************************************************************)
EXTENDS MacProvider, FiniteSetTheorems, TLAPS

\* The dictionary: what an insertion below the capacity and a removal leave.
LEMMA StatesGrow ==
  ASSUME states \subseteq Flows, NEW f \in Flows, Cardinality(states) < Capacity
  PROVE  Cardinality(states \cup {f}) <= Capacity
<1>1. IsFiniteSet(states)
  BY FS_Subset, ProviderAssumption
<1>2. Cardinality(states) \in Nat
  BY <1>1, FS_CardinalityType
<1>3. Cardinality(states \cup {f}) \in {Cardinality(states), Cardinality(states) + 1}
  BY <1>1, FS_AddElement
<1> QED
  BY <1>2, <1>3, ProviderAssumption

LEMMA StatesShrink ==
  ASSUME states \subseteq Flows, Cardinality(states) <= Capacity, NEW f
  PROVE  Cardinality(states \ {f}) <= Capacity
<1>1. IsFiniteSet(states)
  BY FS_Subset, ProviderAssumption
<1>2. Cardinality(states) \in Nat
  BY <1>1, FS_CardinalityType
<1>3. Cardinality(states \ {f}) \in {Cardinality(states), Cardinality(states) - 1}
  BY <1>1, FS_RemoveElement
<1> QED
  BY <1>2, <1>3, ProviderAssumption

\* Updates of a flow's state and of a thread.
LEMMA StateUpdate ==
  ASSUME TypeOK, NEW f \in Flows
  PROVE  /\ [st EXCEPT ![f].lookup = TRUE] \in [Flows -> FlowState]
         /\ [st EXCEPT ![f].binder = TRUE] \in [Flows -> FlowState]
         /\ [st EXCEPT ![f].paused = TRUE] \in [Flows -> FlowState]
         /\ \A d \in {"yes", "no"} : [st EXCEPT ![f].decision = d] \in [Flows -> FlowState]
         /\ [st[f] EXCEPT !.inboundDone = TRUE] \in FlowState
         /\ [st[f] EXCEPT !.outboundDone = TRUE] \in FlowState
<1>1. st \in [Flows -> FlowState]
  BY DEF TypeOK
<1>2. /\ [st[f] EXCEPT !.lookup = TRUE] \in FlowState
      /\ [st[f] EXCEPT !.binder = TRUE] \in FlowState
      /\ [st[f] EXCEPT !.paused = TRUE] \in FlowState
      /\ [st[f] EXCEPT !.inboundDone = TRUE] \in FlowState
      /\ [st[f] EXCEPT !.outboundDone = TRUE] \in FlowState
  BY <1>1 DEF FlowState
<1>3. \A d \in {"yes", "no"} : [st[f] EXCEPT !.decision = d] \in FlowState
  BY <1>1 DEF FlowState
<1> QED
  BY <1>1, <1>2, <1>3

LEMMA GotoType ==
  ASSUME exch \in [Flows -> Thread], NEW f \in Flows, NEW pc,
         pc \in {"request", "binder", "verify", "verdict", "resume", "done"},
         exch' = [exch EXCEPT ![f].pc = pc]
  PROVE  exch' \in [Flows -> Thread]
<1>1. [exch[f] EXCEPT !.pc = pc] \in Thread
  BY DEF Thread
<1> QED
  BY <1>1

LEMMA FinishType ==
  ASSUME exch \in [Flows -> Thread], NEW f \in Flows, NEW v \in BOOLEAN, Finish(f, v)
  PROVE  exch' \in [Flows -> Thread]
<1>1. [pc |-> "finish", verified |-> v] \in Thread
  BY DEF Thread
<1> DEFINE e == [pc |-> "finish", verified |-> v]
<1>2. exch' = [exch EXCEPT ![f] = e]
  BY DEF Finish
<1> HIDE DEF e
<1> QED
  BY <1>1, <1>2 DEF e

\* What a call of the framework does to the types.
LEMMA FrameworkType ==
  ASSUME TypeOK, NEW f \in Flows, Framework(f)
  PROVE  TypeOK'
<1>1. CASE Close(f)
  BY <1>1 DEF TypeOK, Close, Direction, threads, server
<1>2. CASE Expire(f)
  BY <1>2 DEF TypeOK, Expire, threads, server
<1>3. CASE SendUnfiltered(f)
  BY <1>3 DEF TypeOK, SendUnfiltered, threads, server
<1>4. CASE HandleNewFlow(f)
  <2>1. Cardinality(states') <= Capacity
    BY <1>4, StatesGrow DEF TypeOK, HandleNewFlow
  <2>2. timer' \in [Flows -> Thread]
    BY <1>4, SMTT(30) DEF TypeOK, HandleNewFlow, Thread
  <2> QED
    BY <1>4, <2>1, <2>2 DEF TypeOK, HandleNewFlow, Direction, server
<1>5. CASE HandleOutboundData(f)
  <2>1. st' \in [Flows -> FlowState] /\ exch' \in [Flows -> Thread]
    <3>0. st \in [Flows -> FlowState] /\ exch \in [Flows -> Thread]
      BY DEF TypeOK
    <3>1. CASE OutboundHello(f)
      BY <3>0, <3>1, StateUpdate, GotoType DEF OutboundHello
    <3>2. CASE OutboundData(f)
      BY <3>0, <3>2, StateUpdate DEF OutboundData
    <3>3. CASE OutboundByDecision(f) \/ OutboundGarbage(f)
      BY <3>0, <3>3 DEF OutboundByDecision, OutboundGarbage
    <3> QED
      BY <1>5, <3>1, <3>2, <3>3 DEF HandleOutboundData
  <2>3. out' \in [Flows -> Direction]
    BY <1>5 DEF TypeOK, HandleOutboundData, OutboundByDecision, OutboundHello, OutboundGarbage,
                OutboundData, ByDecision, Direction
  <2> QED
    BY <1>5, <2>1, <2>3
    DEF TypeOK, HandleOutboundData, OutboundByDecision, OutboundHello, OutboundGarbage,
        OutboundData, OutboundDone, server
<1>6. CASE HandleInboundData(f)
  <2>1. st' \in [Flows -> FlowState]
    <3>1. CASE st' = [st EXCEPT ![f].binder = TRUE]
      BY <3>1, StateUpdate
    <3>2. CASE UNCHANGED st
      BY <3>2 DEF TypeOK
    <3> QED
      BY <1>6, <3>1, <3>2 DEF HandleInboundData
  <2> QED
    BY <1>6, <2>1 DEF TypeOK, HandleInboundData, threads, server
<1>7. CASE HandleDataComplete(f)
  <2>1. PICK s \in FlowState : Complete(f, s)
    BY <1>7, StateUpdate DEF HandleDataComplete
  <2>2. st' \in [Flows -> FlowState]
    BY <2>1 DEF TypeOK, Complete
  <2>3. states' \subseteq Flows /\ Cardinality(states') <= Capacity
    BY <2>1, StatesShrink DEF TypeOK, Complete
  <2> QED
    BY <1>7, <2>2, <2>3 DEF TypeOK, HandleDataComplete, Direction, threads, server
<1>8. CASE HandleReport(f)
  <2>1. st' \in [Flows -> FlowState]
    BY <1>8 DEF TypeOK, HandleReport, FlowState
  <2>2. states' \subseteq Flows /\ Cardinality(states') <= Capacity
    BY <1>8, StatesShrink DEF TypeOK, HandleReport
  <2> QED
    BY <1>8, <2>1, <2>2 DEF TypeOK, HandleReport, threads, server
<1> QED
  BY <1>1, <1>2, <1>3, <1>4, <1>5, <1>6, <1>7, <1>8 DEF Framework

LEMMA DecideType ==
  ASSUME TypeOK, NEW f \in Flows, NEW t, Decide(f, t)
  PROVE  st' \in [Flows -> FlowState]
<1> QED
  BY DEF TypeOK, Decide, FlowState

LEMMA ResumeType ==
  ASSUME TypeOK, NEW f \in Flows, NEW verified, Resume(f, verified)
  PROVE  out' \in [Flows -> Direction]
<1> QED
  BY DEF TypeOK, Resume, Direction

\* What a step of the exchange or of the timer does to the types.
LEMMA ThreadType ==
  ASSUME TypeOK, NEW f \in Flows, Exchange(f) \/ Timer(f)
  PROVE  TypeOK'
<1>1. exch' \in [Flows -> Thread]
  <2>1. exch \in [Flows -> Thread]
    BY DEF TypeOK
  <2>2. \A pc \in {"binder", "verify", "verdict", "resume", "done"} :
          Goto(f, pc) => exch' \in [Flows -> Thread]
    BY <2>1, GotoType DEF Goto
  <2>3. \A v \in BOOLEAN : Finish(f, v) => exch' \in [Flows -> Thread]
    BY <2>1, FinishType
  <2>4. CASE Request(f) \/ WaitBinder(f) \/ Verify(f)
    BY <2>2, <2>3, <2>4 DEF Request, WaitBinder, Verify
  <2>5. CASE SendVerdict(f)
    <3>1. (f \in proved) \in BOOLEAN
      OBVIOUS
    <3> QED
      BY <2>3, <2>5, <3>1 DEF SendVerdict
  <2>6. CASE FinishExchange(f)
    BY <2>2, <2>6 DEF FinishExchange
  <2>7. CASE ResumeByExchange(f)
    BY <2>2, <2>7 DEF ResumeByExchange
  <2>8. CASE Timer(f)
    BY <2>1, <2>8 DEF Timer, FireTimer, ResumeByTimer
  <2> QED
    BY <2>4, <2>5, <2>6, <2>7, <2>8 DEF Exchange
<1>2. CASE Request(f) \/ WaitBinder(f) \/ Verify(f) \/ SendVerdict(f)
  BY <1>1, <1>2 DEF TypeOK, Request, WaitBinder, Verify, SendVerdict, ExchangeLocal, framework,
                    server
<1>3. CASE FinishExchange(f)
  BY <1>1, <1>3, DecideType DEF TypeOK, FinishExchange, framework, server
<1>4. CASE FireTimer(f)
  <2>1. timer' \in [Flows -> Thread]
    BY <1>4, SMTT(30) DEF TypeOK, FireTimer, Thread
  <2> QED
    BY <1>1, <1>4, <2>1, DecideType DEF TypeOK, FireTimer, framework, server
<1>5. CASE ResumeByExchange(f)
  BY <1>1, <1>5, ResumeType DEF TypeOK, ResumeByExchange, Resume, server
<1>6. CASE ResumeByTimer(f)
  <2>1. timer' \in [Flows -> Thread]
    BY <1>6 DEF TypeOK, ResumeByTimer, Thread
  <2> QED
    BY <1>1, <1>6, <2>1, ResumeType DEF TypeOK, ResumeByTimer, Resume, server
<1> QED
  BY <1>2, <1>3, <1>4, <1>5, <1>6 DEF Exchange, Timer

\* Every reachable state of the provider is well typed (Provider.swift).
THEOREM TypeCorrect == Spec => []TypeOK
<1>1. Init => TypeOK
  <2>1. Cardinality({}) = 0
    BY FS_EmptySet
  <2> QED
    BY <2>1, ProviderAssumption
    DEF Init, TypeOK, Direction, FlowState, NewState, Thread, NoThread
<1>2. TypeOK /\ [Next]_vars => TypeOK'
  <2> SUFFICES ASSUME TypeOK, [Next]_vars PROVE TypeOK'
    OBVIOUS
  <2>1. CASE Next
    BY <2>1, FrameworkType, ThreadType DEF Next
  <2>2. CASE UNCHANGED vars
    BY <2>2 DEF TypeOK, vars, framework, threads, server
  <2> QED
    BY <2>1, <2>2
<1> QED
  BY <1>1, <1>2, PTL DEF Spec
-----------------------------------------------------------------------------
(* Safety.  DataIsAttested is not inductive: the framework lets data pass by *)
(* a decision it was given earlier, and the decision is that of a thread     *)
(* that has left the report behind.                                          *)

Attested(f) == f \in proved \cap told
Yes(f) == st[f].decision = "yes"

ProviderInv ==
  \A f \in Flows :
    /\ exch[f].verified => Attested(f)
    /\ exch[f].verified /\ exch[f].pc = "resume" => Yes(f)
    /\ ~timer[f].verified
    /\ Yes(f) => Attested(f)
    /\ out[f] = "allow" => Yes(f)
    /\ f \in wire => Yes(f)

\* A step that adds to the evidence, keeps the decisions that are yes, and gives a thread,
\* a verdict or the wire something new only if it is attested and decided.
LEMMA SafeStep ==
  ASSUME ProviderInv,
         \A g \in Flows :
           /\ Attested(g) => Attested(g)'
           /\ Yes(g) => Yes(g)'
           /\ Yes(g)' => Yes(g) \/ Attested(g)'
           /\ exch'[g].verified => exch[g].verified \/ Attested(g)'
           /\ exch'[g].verified /\ exch'[g].pc = "resume" =>
                Yes(g)' \/ (exch[g].verified /\ exch[g].pc = "resume")
           /\ timer'[g].verified => timer[g].verified
           /\ out'[g] = "allow" => out[g] = "allow" \/ Yes(g)'
           /\ g \in wire' => g \in wire \/ Yes(g)'
  PROVE  ProviderInv'
<1> QED
  BY DEF ProviderInv

LEMMA SameDecision ==
  ASSUME TypeOK, NEW f \in Flows, NEW g \in Flows,
         \/ UNCHANGED st
         \/ st' = [st EXCEPT ![f].lookup = TRUE]
         \/ st' = [st EXCEPT ![f].binder = TRUE]
         \/ st' = [st EXCEPT ![f].paused = TRUE]
         \/ st' = [st EXCEPT ![f] = [st[f] EXCEPT !.inboundDone = TRUE]]
         \/ st' = [st EXCEPT ![f] = [st[f] EXCEPT !.outboundDone = TRUE]]
  PROVE  Yes(g)' = Yes(g)
<1>1. st \in [Flows -> FlowState]
  BY DEF TypeOK
<1>2. CASE g = f
  BY <1>1, <1>2 DEF FlowState, Yes
<1>3. CASE g # f
  BY <1>1, <1>3 DEF Yes
<1> QED
  BY <1>2, <1>3

LEMMA MovedThread ==
  ASSUME NEW t \in [Flows -> Thread], NEW u, NEW f \in Flows, NEW g \in Flows, NEW pc,
         u = [t EXCEPT ![f].pc = pc]
  PROVE  /\ u[g].verified = t[g].verified
         /\ g = f => u[g].pc = pc
         /\ g # f => u[g] = t[g]
<1>1. CASE g = f
  BY <1>1 DEF Thread
<1>2. CASE g # f
  BY <1>2
<1> QED
  BY <1>1, <1>2

LEMMA FrameworkSafe ==
  ASSUME TypeOK, ProviderInv, NEW f \in Flows, Framework(f)
  PROVE  ProviderInv'
<1> SUFFICES ASSUME NEW g \in Flows
             PROVE  /\ Attested(g) => Attested(g)'
                    /\ Yes(g) => Yes(g)'
                    /\ Yes(g)' => Yes(g) \/ Attested(g)'
                    /\ exch'[g].verified => exch[g].verified \/ Attested(g)'
                    /\ exch'[g].verified /\ exch'[g].pc = "resume" =>
                         Yes(g)' \/ (exch[g].verified /\ exch[g].pc = "resume")
                    /\ timer'[g].verified => timer[g].verified
                    /\ out'[g] = "allow" => out[g] = "allow" \/ Yes(g)'
                    /\ g \in wire' => g \in wire \/ Yes(g)'
  BY SafeStep
<1>0. UNCHANGED server
  BY DEF Framework, Close, Expire, SendUnfiltered, HandleNewFlow, HandleOutboundData,
         OutboundByDecision, OutboundHello, OutboundGarbage, OutboundData, OutboundDone,
         HandleInboundData, HandleDataComplete, HandleReport
<1>1. Attested(g) = Attested(g)'
  BY <1>0 DEF Attested, server
<1>2. CASE Close(f) \/ Expire(f)
  BY <1>1, <1>2 DEF Close, Expire, Yes, threads, TypeOK
<1>3. CASE SendUnfiltered(f)
  BY <1>1, <1>3 DEF SendUnfiltered, ProviderInv, Yes, threads
<1>4. CASE HandleNewFlow(f)
  <2>1. timer'[g].verified = timer[g].verified
    <3>1. timer \in [Flows -> Thread]
      BY DEF TypeOK
    <3>2. CASE timer' = [timer EXCEPT ![f].pc = "armed"]
      BY <3>1, <3>2, MovedThread
    <3> QED
      BY <1>4, <3>2 DEF HandleNewFlow
  <2>2. out'[g] = "allow" => out[g] = "allow"
    BY <1>4 DEF HandleNewFlow, TypeOK
  <2> QED
    BY <1>1, <1>4, <2>1, <2>2 DEF HandleNewFlow, Yes
<1>5. CASE HandleOutboundData(f)
  <2>1. Yes(g)' = Yes(g)
    BY <1>5, SameDecision
    DEF HandleOutboundData, OutboundByDecision, OutboundHello, OutboundGarbage, OutboundData
  <2>2. /\ exch'[g].verified = exch[g].verified
        /\ exch'[g].pc = "resume" => exch[g].pc = "resume"
    <3>1. CASE OutboundHello(f)
      BY <3>1, MovedThread DEF OutboundHello, TypeOK
    <3>2. CASE UNCHANGED exch
      BY <3>2
    <3> QED
      BY <1>5, <3>1, <3>2
      DEF HandleOutboundData, OutboundByDecision, OutboundGarbage, OutboundData
  <2>3. out'[g] = "allow" => out[g] = "allow" \/ Yes(g)
    BY <1>5
    DEF HandleOutboundData, OutboundByDecision, OutboundHello, OutboundGarbage, OutboundData,
        ByDecision, Yes, TypeOK
  <2> QED
    BY <1>1, <1>5, <2>1, <2>2, <2>3
    DEF HandleOutboundData, OutboundByDecision, OutboundHello, OutboundGarbage, OutboundData,
        OutboundDone
<1>6. CASE HandleInboundData(f)
  <2>1. Yes(g)' = Yes(g)
    BY <1>6, SameDecision DEF HandleInboundData
  <2> QED
    BY <1>1, <1>6, <2>1 DEF HandleInboundData, threads
<1>7. CASE HandleDataComplete(f)
  <2>1. Yes(g)' = Yes(g)
    BY <1>7, SameDecision DEF HandleDataComplete, Complete
  <2>2. out'[g] = "allow" => out[g] = "allow"
    BY <1>7 DEF HandleDataComplete, TypeOK
  <2> QED
    BY <1>1, <1>7, <2>1, <2>2 DEF HandleDataComplete, threads
<1>8. CASE HandleReport(f)
  BY <1>1, <1>8 DEF HandleReport, Decided, Yes, threads, TypeOK
<1> QED
  BY <1>2, <1>3, <1>4, <1>5, <1>6, <1>7, <1>8 DEF Framework

LEMMA ThreadSafe ==
  ASSUME TypeOK, ProviderInv, NEW f \in Flows, Exchange(f) \/ Timer(f)
  PROVE  ProviderInv'
<1> SUFFICES ASSUME NEW g \in Flows
             PROVE  /\ Attested(g) => Attested(g)'
                    /\ Yes(g) => Yes(g)'
                    /\ Yes(g)' => Yes(g) \/ Attested(g)'
                    /\ exch'[g].verified => exch[g].verified \/ Attested(g)'
                    /\ exch'[g].verified /\ exch'[g].pc = "resume" =>
                         Yes(g)' \/ (exch[g].verified /\ exch[g].pc = "resume")
                    /\ timer'[g].verified => timer[g].verified
                    /\ out'[g] = "allow" => out[g] = "allow" \/ Yes(g)'
                    /\ g \in wire' => g \in wire \/ Yes(g)'
  BY SafeStep
<1>0. exch \in [Flows -> Thread] /\ timer \in [Flows -> Thread] /\ out \in [Flows -> Direction]
  BY DEF TypeOK
<1>1. CASE Request(f) \/ WaitBinder(f) \/ Verify(f) \/ SendVerdict(f)
  <2>0. Attested(g) => Attested(g)'
    <3>1. proved \subseteq proved' /\ told \subseteq told'
      BY <1>1 DEF Request, WaitBinder, Verify, SendVerdict, server
    <3> QED
      BY <3>1 DEF Attested
  <2>1. exch'[g].verified => exch[g].verified \/ Attested(g)'
    <3>1. CASE \E pc \in {"binder", "verify", "verdict"} : Goto(f, pc)
      <4>1. exch'[g].verified = exch[g].verified
        BY <1>0, <3>1, MovedThread DEF Goto
      <4> QED
        BY <2>0, <4>1
    <3>2. CASE Finish(f, FALSE)
      <4>1. exch'[g].verified => exch[g].verified
        BY <1>0, <3>2 DEF Finish
      <4> QED
        BY <2>0, <4>1
    <3>3. CASE SendVerdict(f) /\ told' = told \cup ({f} \cap proved) /\ Finish(f, f \in proved)
      <4>1. exch'[g].verified => exch[g].verified \/ (g = f /\ f \in proved)
        BY <1>0, <3>3 DEF Finish
      <4> QED
        BY <3>3, <4>1 DEF SendVerdict, Attested
    <3> QED
      BY <1>1, <3>1, <3>2, <3>3 DEF Request, WaitBinder, Verify, SendVerdict
  <2>2. exch'[g].pc = "resume" => exch'[g] = exch[g]
    <3>1. CASE \E pc \in {"binder", "verify", "verdict"} : Goto(f, pc)
      BY <1>0, <3>1, MovedThread DEF Goto
    <3>2. CASE \E v : Finish(f, v)
      BY <1>0, <3>2 DEF Finish
    <3> QED
      BY <1>1, <3>1, <3>2 DEF Request, WaitBinder, Verify, SendVerdict
  <2> QED
    BY <1>1, <2>0, <2>1, <2>2
    DEF Request, WaitBinder, Verify, SendVerdict, ExchangeLocal, framework, Yes
<1>2. ASSUME NEW t \in Thread, Decide(f, t)
      PROVE  /\ Yes(g) => Yes(g)'
             /\ Yes(g)' => Yes(g) \/ (g = f /\ t.verified)
             /\ t.verified /\ t.pc = "resume" => Yes(f)'
  <2>1. st \in [Flows -> FlowState]
    BY DEF TypeOK
  <2>2. CASE UNCHANGED st /\ t.pc = "done"
    BY <2>2 DEF Yes
  <2>3. CASE ~Decided(f) /\ st' = [st EXCEPT ![f].decision = IF t.verified THEN "yes" ELSE "no"]
    <3>1. CASE g = f
      BY <2>1, <2>3, <3>1 DEF Decided, FlowState, Yes
    <3>2. CASE g # f
      BY <2>1, <2>3, <3>2 DEF Decided, FlowState, Yes
    <3> QED
      BY <3>1, <3>2
  <2> QED
    BY <1>2, <2>2, <2>3 DEF Decide
<1>3. CASE FinishExchange(f)
  <2>1. PICK pc \in {"resume", "done"} : Decide(f, [exch[f] EXCEPT !.pc = pc]) /\ Goto(f, pc)
    BY <1>3 DEF FinishExchange
  <2> DEFINE t == [exch[f] EXCEPT !.pc = pc]
  <2>2. t \in Thread /\ t.verified = exch[f].verified /\ t.pc = pc
    BY <1>0, <2>1 DEF Thread
  <2> HIDE DEF t
  <2>3. Decide(f, t)
    BY <2>1 DEF t
  <2>4. /\ exch'[g].verified = exch[g].verified
        /\ g = f => exch'[g].pc = pc
        /\ g # f => exch'[g] = exch[g]
    BY <1>0, <2>1, MovedThread DEF Goto
  <2>5. exch[f].verified => Attested(f)
    BY DEF ProviderInv
  <2>6. Attested(g) = Attested(g)'
    BY <1>3 DEF FinishExchange, server, Attested
  <2> QED
    BY <1>2, <1>3, <2>2, <2>3, <2>4, <2>5, <2>6 DEF FinishExchange, framework
<1>4. CASE FireTimer(f)
  <2>1. PICK pc \in {"resume", "done"} : /\ Decide(f, [timer[f] EXCEPT !.pc = pc])
                                          /\ timer' = [timer EXCEPT ![f].pc = pc]
    BY <1>4 DEF FireTimer
  <2> DEFINE t == [timer[f] EXCEPT !.pc = pc]
  <2>2. t \in Thread /\ t.verified = timer[f].verified
    BY <1>0, <2>1 DEF Thread
  <2> HIDE DEF t
  <2>3. Decide(f, t)
    BY <2>1 DEF t
  <2>4. timer'[g].verified = timer[g].verified
    BY <1>0, <2>1, MovedThread
  <2>5. ~timer[f].verified
    BY DEF ProviderInv
  <2>6. Attested(g) = Attested(g)'
    BY <1>4 DEF FireTimer, server, Attested
  <2> QED
    BY <1>2, <1>4, <2>2, <2>3, <2>4, <2>5, <2>6 DEF FireTimer, framework
<1>5. CASE ResumeByExchange(f)
  <2>1. /\ exch'[g].verified = exch[g].verified
        /\ exch'[g].pc = "resume" => exch[g].pc = "resume"
    BY <1>0, <1>5, MovedThread DEF ResumeByExchange, Goto
  <2>2. out'[g] = "allow" => out[g] = "allow" \/ (g = f /\ exch[f].verified)
    BY <1>0, <1>5 DEF ResumeByExchange, Resume
  <2>3. exch[f].verified => Yes(f)
    BY <1>5 DEF ResumeByExchange, ProviderInv
  <2> QED
    BY <1>5, <2>1, <2>2, <2>3 DEF ResumeByExchange, Resume, server, Attested, Yes
<1>6. CASE ResumeByTimer(f)
  <2>1. timer'[g].verified = timer[g].verified
    BY <1>0, <1>6, MovedThread DEF ResumeByTimer
  <2>2. ~timer[f].verified
    BY DEF ProviderInv
  <2>3. out'[g] = "allow" => out[g] = "allow"
    BY <1>0, <1>6, <2>2 DEF ResumeByTimer, Resume
  <2> QED
    BY <1>6, <2>1, <2>3 DEF ResumeByTimer, Resume, server, Attested, Yes
<1> QED
  BY <1>1, <1>3, <1>4, <1>5, <1>6 DEF Exchange, Timer

\* Application data leaves the host for flows only whose report was verified, whose verdict was
\* sent and which were decided to be good, and no later decision changes that
\* (handleOutboundData, exchange, finish, handle).
THEOREM Attestation == Spec => []DataIsAttested
<1>1. Init => ProviderInv
  BY DEF Init, ProviderInv, NoThread, NewState, Yes
<1>2. TypeOK /\ ProviderInv /\ [Next]_vars => ProviderInv'
  <2> SUFFICES ASSUME TypeOK, ProviderInv, [Next]_vars PROVE ProviderInv'
    OBVIOUS
  <2>1. CASE Next
    BY <2>1, FrameworkSafe, ThreadSafe DEF Next
  <2>2. CASE UNCHANGED vars
    BY <2>2 DEF ProviderInv, Attested, Yes, vars, framework, threads, server
  <2> QED
    BY <2>1, <2>2
<1>3. TypeOK /\ ProviderInv => DataIsAttested
  BY DEF TypeOK, ProviderInv, DataIsAttested, Attested, Yes
<1> QED
  BY <1>1, <1>2, <1>3, TypeCorrect, PTL DEF Spec

-----------------------------------------------------------------------------
(* No pause is forgotten.                                                    *)

\* A flow that is paused has its timer still to fire or, once it is decided, a thread that
\* is about to resume it.
PauseIsAnswered ==
  \A f \in Flows : out[f] = "pause" =>
    \/ ~Decided(f) /\ timer[f].pc = "armed"
    \/ Decided(f) /\ (exch[f].pc = "resume" \/ timer[f].pc = "resume")

\* What that rests on: a tracked flow that is not decided has its timer, a decision sees that
\* the flow is paused, and the framework asks about no flow that has closed.
Tracked(f) ==
  /\ f \in states /\ ~Decided(f) => timer[f].pc = "armed"
  /\ out[f] \in {"peek", "pause"} => conn[f] = "open"
  /\ out[f] = "pause" => st[f].paused
PauseInv == PauseIsAnswered /\ \A f \in Flows : Tracked(f)

\* Updates that decide nothing.
LEMMA StillDecided ==
  ASSUME TypeOK, NEW f \in Flows, NEW g \in Flows,
         \/ UNCHANGED st
         \/ st' = [st EXCEPT ![f].lookup = TRUE]
         \/ st' = [st EXCEPT ![f].binder = TRUE]
         \/ st' = [st EXCEPT ![f].paused = TRUE]
         \/ st' = [st EXCEPT ![f] = [st[f] EXCEPT !.inboundDone = TRUE]]
         \/ st' = [st EXCEPT ![f] = [st[f] EXCEPT !.outboundDone = TRUE]]
  PROVE  /\ Decided(g)' = Decided(g)
         /\ st[g].paused => st'[g].paused
         /\ st' = [st EXCEPT ![f].paused = TRUE] => st'[f].paused
<1>1. st \in [Flows -> FlowState]
  BY DEF TypeOK
<1>2. CASE g = f
  BY <1>1, <1>2 DEF FlowState, Decided
<1>3. CASE g # f
  BY <1>1, <1>3 DEF FlowState, Decided
<1> QED
  BY <1>2, <1>3

\* A step that pauses nothing new and decides nothing.
LEMMA QuietStep ==
  ASSUME PauseInv,
         \A g \in Flows :
           /\ Decided(g)' = Decided(g)
           /\ st[g].paused => st'[g].paused
           /\ g \in states' => g \in states \/ timer'[g].pc = "armed"
           /\ timer'[g].pc = timer[g].pc \/ (timer'[g].pc = "armed" /\ out'[g] # "pause")
           /\ out'[g] = "pause" /\ exch[g].pc = "resume" => exch'[g].pc = "resume"
           /\ out'[g] = "pause" => out[g] = "pause"
           /\ out'[g] = "peek" => out[g] = "peek" \/ conn'[g] = "open"
           /\ out'[g] \in {"peek", "pause"} => conn'[g] = conn[g] \/ conn'[g] = "open"
  PROVE  PauseInv'
<1> QED
  BY DEF PauseInv, PauseIsAnswered, Tracked

LEMMA FrameworkAnswers ==
  ASSUME TypeOK, PauseInv, NEW f \in Flows, Framework(f)
  PROVE  PauseInv'
<1>0. /\ exch \in [Flows -> Thread] /\ timer \in [Flows -> Thread] /\ out \in [Flows -> Direction]
      /\ conn \in [Flows -> {"none", "open", "closed", "reported"}]
  BY DEF TypeOK
<1>1. CASE Close(f) \/ Expire(f) \/ SendUnfiltered(f)
  <2>1. UNCHANGED <<st, states, exch, timer>>
    BY <1>1 DEF Close, Expire, SendUnfiltered, threads
  <2>2. \A g \in Flows :
          /\ out'[g] = "pause" => out[g] = "pause"
          /\ out'[g] = "peek" => out[g] = "peek"
          /\ out'[g] \in {"peek", "pause"} => conn'[g] = conn[g]
    BY <1>0, <1>1 DEF Close, Expire, SendUnfiltered
  <2> QED
    BY <2>1, <2>2, QuietStep DEF Decided
<1>2. CASE HandleNewFlow(f)
  <2>1. UNCHANGED <<st, exch>>
    BY <1>2 DEF HandleNewFlow
  <2>2. ASSUME NEW g \in Flows
        PROVE  /\ g \in states' => g \in states \/ timer'[g].pc = "armed"
               /\ timer'[g].pc = timer[g].pc \/ (timer'[g].pc = "armed" /\ out'[g] # "pause")
               /\ out'[g] = "pause" => out[g] = "pause"
               /\ out'[g] = "peek" => out[g] = "peek" \/ conn'[g] = "open"
               /\ out'[g] \in {"peek", "pause"} => conn'[g] = conn[g] \/ conn'[g] = "open"
    <3>1. CASE g = f
      <4>1. timer' = [timer EXCEPT ![f].pc = "armed"] => timer'[f].pc = "armed"
        BY <1>0, MovedThread
      <4> QED
        BY <1>0, <1>2, <3>1, <4>1 DEF HandleNewFlow
    <3>2. CASE g # f
      BY <1>0, <1>2, <3>2 DEF HandleNewFlow
    <3> QED
      BY <3>1, <3>2
  <2> QED
    BY <2>1, <2>2, QuietStep DEF Decided
<1>3. CASE OutboundByDecision(f) \/ OutboundHello(f) \/ OutboundGarbage(f)
  <2>1. out[f] = "peek" /\ UNCHANGED <<conn, states, timer>>
    BY <1>3 DEF OutboundByDecision, OutboundHello, OutboundGarbage, OutboundDone, Outbound
  <2>2. \A g \in Flows : Decided(g)' = Decided(g) /\ (st[g].paused => st'[g].paused)
    BY <1>3, StillDecided DEF OutboundByDecision, OutboundHello, OutboundGarbage
  <2>3. \A g \in Flows : /\ out'[g] = "pause" => out[g] = "pause" /\ g # f
                         /\ out'[g] = "peek" => out[g] = "peek"
    BY <1>0, <1>3, <2>1
    DEF OutboundByDecision, OutboundHello, OutboundGarbage, ByDecision
  <2>4. \A g \in Flows : g # f => exch'[g] = exch[g]
    BY <1>0, <1>3 DEF OutboundByDecision, OutboundHello, OutboundGarbage
  <2> QED
    BY <2>1, <2>2, <2>3, <2>4, QuietStep
<1>4. CASE OutboundData(f)
  <2>1. /\ out[f] = "peek" /\ f \in states /\ ~Decided(f)
        /\ UNCHANGED <<conn, states, timer, exch>>
        /\ st' = [st EXCEPT ![f].paused = TRUE]
    BY <1>4 DEF OutboundData, OutboundDone, Outbound
  <2>2. \A g \in Flows : Decided(g)' = Decided(g) /\ (st[g].paused => st'[g].paused)
    BY <2>1, StillDecided
  <2>3. st'[f].paused
    BY <2>1, StillDecided
  <2>4. \A g \in Flows : g # f => out'[g] = out[g]
    BY <1>0, <1>4 DEF OutboundData
  <2>5. ASSUME NEW g \in Flows, g # f
        PROVE  /\ Tracked(g)'
               /\ out'[g] = "pause" => \/ ~Decided(g)' /\ timer'[g].pc = "armed"
                                       \/ Decided(g)' /\ (exch'[g].pc = "resume" \/ timer'[g].pc = "resume")
    BY <2>1, <2>2, <2>4, <2>5 DEF PauseInv, PauseIsAnswered, Tracked
  <2>6. timer'[f].pc = "armed" /\ ~Decided(f)' /\ conn'[f] = "open"
    BY <2>1, <2>2 DEF PauseInv, Tracked
  <2> QED
    BY <2>3, <2>5, <2>6 DEF PauseInv, PauseIsAnswered, Tracked
<1>5. CASE HandleInboundData(f)
  <2>1. UNCHANGED <<conn, out, states, exch, timer>>
    BY <1>5 DEF HandleInboundData, threads
  <2>2. \A g \in Flows : Decided(g)' = Decided(g) /\ (st[g].paused => st'[g].paused)
    BY <1>5, StillDecided DEF HandleInboundData
  <2> QED
    BY <2>1, <2>2, QuietStep
<1>6. CASE HandleDataComplete(f)
  <2>1. UNCHANGED <<conn, exch, timer>> /\ states' \subseteq states
    BY <1>6 DEF HandleDataComplete, Complete, threads
  <2>2. \A g \in Flows : Decided(g)' = Decided(g) /\ (st[g].paused => st'[g].paused)
    BY <1>6, StillDecided DEF HandleDataComplete, Complete
  <2>3. \A g \in Flows : /\ out'[g] = "pause" => out[g] = "pause"
                         /\ out'[g] = "peek" => out[g] = "peek"
    BY <1>0, <1>6 DEF HandleDataComplete
  <2> QED
    BY <2>1, <2>2, <2>3, QuietStep
<1>7. CASE HandleReport(f)
  <2>1. /\ conn[f] = "closed" /\ UNCHANGED <<out, exch, timer>> /\ states' = states \ {f}
        /\ \A g \in Flows : g # f => conn'[g] = conn[g]
    BY <1>0, <1>7 DEF HandleReport, threads
  <2>2. \A g \in Flows : g # f => st'[g] = st[g]
    BY <1>7 DEF HandleReport, TypeOK
  <2>3. out[f] \notin {"peek", "pause"}
    BY <2>1 DEF PauseInv, Tracked
  <2> QED
    BY <2>1, <2>2, <2>3 DEF PauseInv, PauseIsAnswered, Tracked, Decided
<1> QED
  BY <1>1, <1>2, <1>3, <1>4, <1>5, <1>6, <1>7 DEF Framework, HandleOutboundData

\* Both threads decide under the lock that covers the pause, and resume after it.
LEMMA ThreadAnswers ==
  ASSUME TypeOK, PauseInv, NEW f \in Flows, Exchange(f) \/ Timer(f)
  PROVE  PauseInv'
<1>0. /\ exch \in [Flows -> Thread] /\ timer \in [Flows -> Thread] /\ out \in [Flows -> Direction]
      /\ st \in [Flows -> FlowState]
  BY DEF TypeOK
<1>1. CASE Request(f) \/ WaitBinder(f) \/ Verify(f) \/ SendVerdict(f)
  <2>1. UNCHANGED <<conn, out, states, st, timer>>
    BY <1>1 DEF Request, WaitBinder, Verify, SendVerdict, ExchangeLocal, framework
  <2>2. \A g \in Flows : exch[g].pc = "resume" => exch'[g] = exch[g]
    <3>1. exch[f].pc # "resume"
      BY <1>1 DEF Request, WaitBinder, Verify, SendVerdict
    <3>2. \A g \in Flows : g # f => exch'[g] = exch[g]
      BY <1>0, <1>1 DEF Request, WaitBinder, Verify, SendVerdict, Goto, Finish
    <3> QED
      BY <3>1, <3>2
  <2> QED
    BY <2>1, <2>2, QuietStep DEF Decided
<1>2. ASSUME NEW t \in Thread, Decide(f, t)
      PROVE  /\ Decided(f)'
             /\ ~Decided(f) /\ st[f].paused => t.pc = "resume"
             /\ st'[f].paused = st[f].paused
             /\ \A g \in Flows : g # f => st'[g] = st[g]
  <2>1. CASE Decided(f) /\ UNCHANGED st
    BY <2>1 DEF Decided
  <2>2. CASE /\ ~Decided(f)
             /\ st' = [st EXCEPT ![f].decision = IF t.verified THEN "yes" ELSE "no"]
             /\ t.pc = IF st[f].paused THEN "resume" ELSE "done"
    BY <1>0, <2>2 DEF Decided, FlowState
  <2> QED
    BY <1>2, <2>1, <2>2 DEF Decide
<1>3. CASE FinishExchange(f)
  <2>1. PICK pc \in {"resume", "done"} : Decide(f, [exch[f] EXCEPT !.pc = pc]) /\ Goto(f, pc)
    BY <1>3 DEF FinishExchange
  <2> DEFINE t == [exch[f] EXCEPT !.pc = pc]
  <2>2. t \in Thread /\ t.pc = pc
    BY <1>0, <2>1 DEF Thread
  <2> HIDE DEF t
  <2>3. Decide(f, t)
    BY <2>1 DEF t
  <2>4. exch'[f].pc = pc /\ \A g \in Flows : g # f => exch'[g] = exch[g]
    BY <1>0, <2>1, MovedThread DEF Goto
  <2>5. exch[f].pc = "finish" /\ UNCHANGED <<conn, out, states, timer>>
    BY <1>3 DEF FinishExchange, framework
  <2>6. /\ Decided(f)'
        /\ ~Decided(f) /\ st[f].paused => pc = "resume"
        /\ st'[f].paused = st[f].paused
        /\ \A g \in Flows : g # f => st'[g] = st[g]
    BY <1>2, <2>2, <2>3
  <2> QED
    BY <2>4, <2>5, <2>6 DEF PauseInv, PauseIsAnswered, Tracked, Decided
<1>4. CASE FireTimer(f)
  <2>1. PICK pc \in {"resume", "done"} : /\ Decide(f, [timer[f] EXCEPT !.pc = pc])
                                          /\ timer' = [timer EXCEPT ![f].pc = pc]
    BY <1>4 DEF FireTimer
  <2> DEFINE t == [timer[f] EXCEPT !.pc = pc]
  <2>2. t \in Thread /\ t.pc = pc
    BY <1>0, <2>1 DEF Thread
  <2> HIDE DEF t
  <2>3. Decide(f, t)
    BY <2>1 DEF t
  <2>4. timer'[f].pc = pc /\ \A g \in Flows : g # f => timer'[g] = timer[g]
    BY <1>0, <2>1, MovedThread
  <2>5. timer[f].pc = "armed" /\ UNCHANGED <<conn, out, states, exch>>
    BY <1>4 DEF FireTimer, framework
  <2>6. /\ Decided(f)'
        /\ ~Decided(f) /\ st[f].paused => pc = "resume"
        /\ st'[f].paused = st[f].paused
        /\ \A g \in Flows : g # f => st'[g] = st[g]
    BY <1>2, <2>2, <2>3
  <2> QED
    BY <2>4, <2>5, <2>6 DEF PauseInv, PauseIsAnswered, Tracked, Decided
<1>5. CASE ResumeByExchange(f) \/ ResumeByTimer(f)
  <2>1. /\ out'[f] # "pause" /\ (out'[f] = "peek" => out[f] = "peek")
        /\ \A g \in Flows : g # f => out'[g] = out[g]
        /\ UNCHANGED <<conn, states, st>>
    BY <1>0, <1>5 DEF ResumeByExchange, ResumeByTimer, Resume
  <2>2. \A g \in Flows : g # f => exch'[g] = exch[g] /\ timer'[g] = timer[g]
    BY <1>0, <1>5 DEF ResumeByExchange, ResumeByTimer, Goto
  <2>3. timer[f].pc = "armed" => timer'[f].pc = "armed"
    BY <1>5 DEF ResumeByExchange, ResumeByTimer
  <2> QED
    BY <2>1, <2>2, <2>3 DEF PauseInv, PauseIsAnswered, Tracked, Decided
<1> QED
  BY <1>1, <1>3, <1>4, <1>5 DEF Exchange, Timer

\* Neither the exchange nor the timer can miss a pause, whichever decides and whenever the
\* application's data comes: PauseEnds needs no more of the dispatch queues than that they
\* run (handleOutboundData, finish).
THEOREM NoPauseIsForgotten == Spec => []PauseIsAnswered
<1>1. Init => PauseInv
  BY DEF Init, PauseInv, PauseIsAnswered, Tracked
<1>2. TypeOK /\ PauseInv /\ [Next]_vars => PauseInv'
  <2> SUFFICES ASSUME TypeOK, PauseInv, [Next]_vars PROVE PauseInv'
    OBVIOUS
  <2>1. CASE Next
    BY <2>1, FrameworkAnswers, ThreadAnswers DEF Next
  <2>2. CASE UNCHANGED vars
    BY <2>2 DEF PauseInv, PauseIsAnswered, Tracked, Decided, vars, framework, threads
  <2> QED
    BY <2>1, <2>2
<1>3. PauseInv => PauseIsAnswered
  BY DEF PauseInv
<1> QED
  BY <1>1, <1>2, <1>3, TypeCorrect, PTL DEF Spec
=============================================================================
