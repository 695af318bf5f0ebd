---------------------------- MODULE MCFallbackRouter ----------------------------
(***************************************************************************)
(* Instances of FallbackRouter for TLC.                                    *)
(***************************************************************************)
EXTENDS FallbackRouter, TLC

CONSTANTS t1

OneThread == {t1}
================================================================================
