--------------------------- MODULE MCWindowsAgent ---------------------------
(***************************************************************************)
(* WindowsAgent for TLC.                                                   *)
(***************************************************************************)
EXTENDS WindowsAgent
=============================================================================
