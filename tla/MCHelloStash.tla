---------------------------- MODULE MCHelloStash ----------------------------
(***************************************************************************)
(* HelloStash for TLC: three flows, the first of which is used twice, a     *)
(* table of two slots, a hello of one piece, of two, of three, and one that *)
(* is too long for a slot and has a piece that looks like a record.         *)
(***************************************************************************)
EXTENDS HelloStash

MCConns == {<<1, 1>>, <<1, 2>>, <<2, 1>>, <<3, 1>>}
MCLength == [c \in Conns |-> CASE c = <<1, 1>> -> 3 [] c = <<1, 2>> -> 2
                               [] c = <<2, 1>> -> 2 [] OTHER -> 1]
MCLookalike == {<<<<1, 1>>, 2>>}
=============================================================================
