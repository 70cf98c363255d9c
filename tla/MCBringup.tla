----------------------------- MODULE MCBringup -----------------------------
(* Bringup for TLC: every bound is a number given in the configurations.    *)
EXTENDS Bringup

=============================================================================
