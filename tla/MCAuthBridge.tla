----------------------------- MODULE MCAuthBridge -----------------------------
(* Instances of AuthBridge for TLC. *)
EXTENDS AuthBridge

CONSTANTS t1, t2, t3
ThreeThreads == {t1, t2, t3}

==============================================================================
