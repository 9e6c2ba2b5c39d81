---------------------------- MODULE MCListenerSync ----------------------------
(***************************************************************************)
(* An instance of ListenerSync for TLC.                                    *)
(***************************************************************************)
EXTENDS ListenerSync, TLC
=============================================================================
