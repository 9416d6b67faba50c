------------------------------- MODULE MCMert -------------------------------
(* Mert with two callers, two entries of rt_cfg and pieces of two bytes.     *)
EXTENDS Mert, TLC

\* A null address, no size, less than a piece, a whole number of pieces, and a rest.
MCBuffers == {<<0, 3>>, <<1, 0>>, <<1, 1>>, <<1, 4>>, <<1, 5>>}
=============================================================================
