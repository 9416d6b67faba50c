----------------------------- MODULE ReplyFifo -----------------------------
(***************************************************************************)
(* What the firmware-to-host half of a mailbox channel promises its user:  *)
(* replies queued by the device reach the driver one at a time, whole, in  *)
(* the order in which they were queued, and none twice.  The memory behind *)
(* it (ring, head and tail registers, tombstones) is not visible here;     *)
(* I2xRing implements it.                                                  *)
(***************************************************************************)
EXTENDS Sequences

CONSTANTS Reply,    \* the replies a device may queue
          NoReply   \* value of rcvd before anything was received

VARIABLES queue,    \* replies queued and not yet received, oldest first
          rcvd      \* the reply received last

vars == <<queue, rcvd>>

Init == queue = <<>> /\ rcvd = NoReply

Queue(m) ==
    /\ queue' = Append(queue, m)
    /\ UNCHANGED rcvd

Receive ==
    /\ queue # <<>>
    /\ rcvd' = Head(queue)
    /\ queue' = Tail(queue)

Next == (\E m \in Reply : Queue(m)) \/ Receive

Spec == Init /\ [][Next]_vars
=============================================================================
