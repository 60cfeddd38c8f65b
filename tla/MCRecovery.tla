------------------------------ MODULE MCRecovery ------------------------------
(* Recovery on small instances for TLC: a fix that works, and one that     *)
(* does not.                                                               *)
EXTENDS Recovery

Versions == {{}, {"overflows"}}
=============================================================================
