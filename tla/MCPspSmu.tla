------------------------------ MODULE MCPspSmu ------------------------------
(* PspSmu with a few DPM levels.                                           *)
EXTENDS PspSmu, TLC
=============================================================================
