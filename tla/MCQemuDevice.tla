---------------------------- MODULE MCQemuDevice ----------------------------
(* QemuDevice with a management channel and two contexts.                    *)
EXTENDS QemuDevice, TLC
=============================================================================
