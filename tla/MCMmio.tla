------------------------------- MODULE MCMmio -------------------------------
(* Mmio with the number of contexts the device has.                          *)
EXTENDS Mmio, TLC
=============================================================================
