---------------------------- MODULE RequestFifo ----------------------------
(***************************************************************************)
(* What the host-to-firmware half of a mailbox channel promises: requests  *)
(* reach the handler one at a time, whole, in the order in which they were *)
(* posted and none twice, and a request posted for one user of the channel *)
(* never reaches the handler on behalf of the next.  Registers, ring and   *)
(* tombstones are not visible here; X2iRing implements it.                 *)
(***************************************************************************)
EXTENDS Sequences

CONSTANTS Request(_),   \* the requests a user may post
          NoRequest     \* value of got before anything was handled

VARIABLES user,    \* flips when the channel is set up again
          queue,   \* requests posted and not yet handled, oldest first
          got      \* the request handled last

vars == <<user, queue, got>>

Init == user = FALSE /\ queue = <<>> /\ got = NoRequest

\* The channel is set up for its next user.
Open == user' = ~user /\ queue' = <<>> /\ UNCHANGED got

\* The channel is torn down with whatever is posted on it.
Close == queue' = <<>> /\ UNCHANGED <<user, got>>

Post(m) == queue' = Append(queue, m) /\ UNCHANGED <<user, got>>

\* The handler may tear the channel down itself.
Handle(closes) ==
    /\ queue # <<>>
    /\ got' = Head(queue)
    /\ queue' = IF closes THEN <<>> ELSE Tail(queue)
    /\ UNCHANGED user

Next ==
    \/ Open \/ Close
    \/ \E m \in Request(user) : Post(m)
    \/ \E closes \in BOOLEAN : Handle(closes)

Spec == Init /\ [][Next]_vars
=============================================================================
