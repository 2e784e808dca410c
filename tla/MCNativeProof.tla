--------------------------- MODULE MCNativeProof ---------------------------
(***************************************************************************)
(* NativeProof for TLC: words of two bits, fields of two words, and three   *)
(* platforms, one of which shares the first one's key and runs something    *)
(* else.                                                                   *)
(***************************************************************************)
EXTENDS NativeProof

MCBits == {0, 1}
MCSm2 == {0, 1}
MCLong == {{1}}
MCText == {{}, {0}}
MCNonces == {{}, {0}}
MCBindings == {<<{}, {1}>>, <<{0}, {0, 1}>>}

Own == [key |-> <<{0}, {}>>, measure |-> <<{1}, {}>>, curve |-> {0, 1}, uidLength |-> {0},
        uid |-> {0}]
Changed == [Own EXCEPT !.measure = <<{}, {}>>]
Peer == [key |-> <<{1}, {}>>, measure |-> <<{1}, {}>>, curve |-> {0, 1}, uidLength |-> {0},
         uid |-> {0}]

MCPlatforms == {Own, Changed, Peer}
OwnAnchors == [key |-> Own.key, measure |-> Own.measure]
PeerAnchors == [key |-> Peer.key, measure |-> Peer.measure]
=============================================================================
