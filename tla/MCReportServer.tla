--------------------------- MODULE MCReportServer ---------------------------
(***************************************************************************)
(* ReportServer for TLC.                                                   *)
(***************************************************************************)
EXTENDS ReportServerInv, TLC

ServerSymmetry ==
  Permutations(Slots) \cup Permutations(Controls) \cup Permutations(Nonces)
=============================================================================
