------------------------------- MODULE Latch -------------------------------
(***************************************************************************)
(* What the client gate promises, whatever threads and queues it is built  *)
(* from.  Every connection to the protected endpoint has a latch.  It is   *)
(* armed by the connection's ClientHello, learns one server key from the   *)
(* ServerHello, and opens only on a proof that names exactly this          *)
(* ClientHello and this server key.  The first latch that blocks cuts the  *)
(* endpoint off, and after that no latch is armed and none opens.          *)
(***************************************************************************)
CONSTANTS Flows, Hellos, Keys, NoHello, NoKey

VARIABLES
  latch,   \* the latch of each flow
  proved,  \* the proofs verified so far: triples of flow, hello and server key
  cut      \* the endpoint is cut off

latchVars == <<latch, proved, cut>>

LatchState == [st    : {"none", "pending", "open", "blocked"},
               hello : Hellos \cup {NoHello},
               key   : Keys \cup {NoKey}]
Unarmed == [st |-> "none", hello |-> NoHello, key |-> NoKey]
Proof == Flows \X Hellos \X Keys

LatchInit ==
  /\ latch = [f \in Flows |-> Unarmed]
  /\ proved = {}
  /\ cut = FALSE

Arm(f, h) ==
  /\ ~cut
  /\ latch' = [latch EXCEPT ![f] = [st |-> "pending", hello |-> h, key |-> NoKey]]
  /\ UNCHANGED <<proved, cut>>

Learn(f, k) ==
  /\ ~cut
  /\ latch[f].st = "pending"
  /\ latch[f].hello # NoHello
  /\ latch[f].key = NoKey
  /\ latch' = [latch EXCEPT ![f].key = k]
  /\ UNCHANGED <<proved, cut>>

Prove(p) ==
  /\ proved' = proved \cup {p}
  /\ UNCHANGED <<latch, cut>>

Open(f) ==
  /\ ~cut
  /\ <<f, latch[f].hello, latch[f].key>> \in proved
  /\ latch' = [latch EXCEPT ![f].st = "open"]
  /\ UNCHANGED <<proved, cut>>

Block(f) ==
  /\ cut' = TRUE
  /\ latch' = [latch EXCEPT ![f].st = "blocked"]
  /\ UNCHANGED proved

Cut ==
  /\ cut' = TRUE
  /\ UNCHANGED <<latch, proved>>

Forget(f) ==
  /\ latch[f].st \in {"open", "blocked"}
  /\ latch' = [latch EXCEPT ![f] = Unarmed]
  /\ UNCHANGED <<proved, cut>>

LatchNext ==
  \/ \E f \in Flows :
       \/ \E h \in Hellos \cup {NoHello} : Arm(f, h)
       \/ \E k \in Keys : Learn(f, k)
       \/ Open(f)
       \/ Block(f)
       \/ Forget(f)
  \/ \E p \in Proof : Prove(p)
  \/ Cut

LatchSpec == LatchInit /\ [][LatchNext]_latchVars
=============================================================================
