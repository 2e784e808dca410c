--------------------------- MODULE MCMacProvider ---------------------------
(***************************************************************************)
(* MacProvider for TLC.                                                    *)
(***************************************************************************)
EXTENDS MacProvider
=============================================================================
