--------------------------- MODULE MCClientAudit ---------------------------
(***************************************************************************)
(* ClientAudit for TLC.                                                    *)
(***************************************************************************)
EXTENDS ClientAudit
=============================================================================
