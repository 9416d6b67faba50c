----------------------------- MODULE MCXdnaNpu -----------------------------
(* XdnaNpu with a few contexts and ids of a few values.                    *)
EXTENDS XdnaNpu, TLC
=============================================================================
