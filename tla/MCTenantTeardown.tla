--------------------------- MODULE MCTenantTeardown ---------------------------
(***************************************************************************)
(* Instances of TenantTeardown for TLC.                                    *)
(***************************************************************************)
EXTENDS TenantTeardown

MCLBId == 1..2
MCFipId == 1..2
=============================================================================
