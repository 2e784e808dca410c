---------------------------- MODULE MCClientGate ----------------------------
(***************************************************************************)
(* ClientGate for TLC.  A second connection of a flow, a second ClientHello *)
(* and a second flow multiply the states, so the runs that have them        *)
(* restrict what the applications send.                                    *)
(***************************************************************************)
EXTENDS ClientGateInv, TLC

FlowSymmetry == Permutations(Flows)

\* Connections one after the other: each has one packet in the queue at a time.
OneEach(q) == \A i, j \in DOMAIN q : q[i].conn = q[j].conn => i = j

FlowsNext ==
  \/ phase # "exit" /\ \E f \in Flows : Kernel(f) /\ OneEach(inq'[f])
  \/ GateThread
  \/ \E w \in Workers : ControlWorker(w)

FlowsSpec == Init /\ [][FlowsNext]_vars

\* Handshakes of several flows: no retransmissions, payload or losses.
Handshake(f) ==
  \/ Connect(f)
  \/ Establish(f)
  \/ \E n \in 1 .. MaxHello : sock[f].st = "established" /\ SendHello(f, n)

HelloNext ==
  \/ phase # "exit" /\ \E f \in Flows : Handshake(f)
  \/ \E f \in Flows : Callback(f) \/ ExpireGate(f)
  \/ \E f \in Flows, k \in ServerKeys : HandleServerHello(f, k)
  \/ ApplyDecision
  \/ Stop
  \/ Joined
  \/ Exit
  \/ \E w \in Workers : ControlWorker(w)

HelloSpec == Init /\ [][HelloNext]_vars
=============================================================================
