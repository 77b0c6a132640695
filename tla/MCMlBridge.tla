----------------------------- MODULE MCMlBridge -----------------------------
(* Instances of MlBridge.                                                    *)
EXTENDS MlBridge
=============================================================================
