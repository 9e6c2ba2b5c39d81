--------------------------- MODULE MCTenantSessions ---------------------------
(***************************************************************************)
(* Instances of TenantSessions for TLC.                                    *)
(***************************************************************************)
EXTENDS TenantSessions, TLC
=============================================================================
