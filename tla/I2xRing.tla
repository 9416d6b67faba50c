------------------------------ MODULE I2xRing ------------------------------
(***************************************************************************)
(* The firmware-to-host (i2x) ring of one mailbox channel: xdna_mbox_send  *)
(* in src/xdna_mailbox.c is the producer, the receive path of the driver   *)
(* (mbox_recv in tests/test_boot.c) the consumer.                          *)
(*                                                                         *)
(* A request of the driver is one MMIO write (of the x2i tail); QEMU runs  *)
(* the whole handler under its lock, so the reply is produced in the same  *)
(* step.  The receive path is a sequence of MMIO accesses; a request sent  *)
(* from another vCPU may fall between any two of them.                     *)
(*                                                                         *)
(* Offsets and sizes are counted in 32-bit words.  Every response of       *)
(* resp_size_for() is a whole number of words.                             *)
(***************************************************************************)
EXTENDS Integers, Sequences

CONSTANTS RingSize,      \* i2x_size
          PayloadSizes,  \* payload sizes of the replies
          MaxPkg,        \* size of the largest reply, header included
          InFlight,      \* unanswered requests the driver allows itself
          Ids,           \* message ids
          TOMBSTONE,     \* XDNA_MBOX_TOMBSTONE
          Blank          \* a word nothing was written to (zeroed at boot)

\* sizeof(XdnaMsgHeader): total_size, sz_ver, id, opcode.
HdrWords == 4

\* The last word of the ring is kept for a tombstone.
usable == RingSize - 1

\* Word k of the frame that carries message id with a payload of len words.
\* Word 0 is hdr.total_size.
Cell(id, len, k) == [id |-> id, len |-> len, k |-> k]
Cells == [id : Ids, len : PayloadSizes, k : 0 .. (MaxPkg - 1)]

ASSUME SizesAssumption ==
    /\ RingSize \in Nat \ {0} /\ MaxPkg \in Nat /\ InFlight \in Nat \ {0}
    /\ PayloadSizes \subseteq Nat \ {0}
    /\ \A len \in PayloadSizes : HdrWords + len <= MaxPkg
    /\ TOMBSTONE \notin Cells /\ Blank \notin Cells /\ TOMBSTONE # Blank

VARIABLES
    i2x_head, i2x_tail,  \* the channel's registers
    intr,                \* its interrupt status register
    sram,                \* the words of the ring
    irq_pending,         \* MSI-X raised and not yet taken by the guest
    rx,                  \* receive path: next access to make
    msg,                 \* receive path: the frame being read
    rcvd,                \* the frame the driver accepted last
    outstanding,         \* requests of the driver without an answer
    \* History, not read by the code:
    unread,              \* frames queued and not consumed, oldest first
    mark,                \* where the last tombstone that took effect lies
    lost                 \* replies xdna_mbox_send() refused for want of room

regs   == <<i2x_head, i2x_tail, intr, sram>>
driver == <<irq_pending, rx, msg, rcvd, outstanding>>
ghosts == <<unread, mark, lost>>
vars   == <<regs, driver, ghosts>>

NoMsg == [id |-> Blank, len |-> 0, whole |-> TRUE]

Frame == [off : 0 .. usable, id : Ids, len : PayloadSizes]
End(f) == f.off + HdrWords + f.len

\* Channel as xdna_fw_boot() or handle_create_context() leaves it.
Init ==
    /\ i2x_head = 0 /\ i2x_tail = 0 /\ intr = 0
    /\ sram = [w \in 0 .. (RingSize - 1) |-> Blank]
    /\ irq_pending = FALSE /\ rx = "idle" /\ msg = NoMsg /\ rcvd = NoMsg
    /\ outstanding = 0
    /\ unread = <<>> /\ mark = 0 /\ lost = 0
-----------------------------------------------------------------------------
(* Device: xdna_mbox_send()                                                *)

\* The frame is larger than the whole ring.
TooLarge(pkg) == pkg > usable

\* Variant: the word kept for the tombstone is forgotten.
WrapsPastEnd(pkg) == i2x_tail >= i2x_head /\ i2x_tail + pkg > RingSize

\* The frame does not fit behind tail: go back to the start of the ring.
Wraps(pkg) == i2x_tail >= i2x_head /\ i2x_tail + pkg > usable

SendTail(pkg) == IF Wraps(pkg) THEN 0 ELSE i2x_tail

\* Variants: the test uses tail from before the wrap; it refuses head = tail.
RingFullStaleTail(pkg) == i2x_tail < i2x_head /\ i2x_tail + pkg >= i2x_head
RingFullNonStrict(pkg) ==
    SendTail(pkg) <= i2x_head /\ SendTail(pkg) + pkg >= i2x_head

\* There is no room before head for the frame.
RingFull(pkg) == SendTail(pkg) < i2x_head /\ SendTail(pkg) + pkg >= i2x_head

\* Words of the ring after the tombstone, then the frame, were written.
WithTombstone(pkg) ==
    IF Wraps(pkg) THEN [sram EXCEPT ![i2x_tail] = TOMBSTONE] ELSE sram

WithFrame(id, len) ==
    LET t == SendTail(HdrWords + len) IN
    [w \in 0 .. (RingSize - 1) |->
        IF w \in t .. (t + HdrWords + len - 1)
        THEN Cell(id, len, w - t)
        ELSE WithTombstone(HdrWords + len)[w]]

\* Variant: the header is not counted.
NewTailSansHeader(pkg) == SendTail(pkg) + pkg - HdrWords

NewTail(pkg) == SendTail(pkg) + pkg

\* Variant: no interrupt.
RaiseIrqNot == intr' = 1 /\ UNCHANGED irq_pending

\* raise_irq, with intr set first.
RaiseIrq == intr' = 1 /\ irq_pending' = TRUE

SendReply(id, len) ==
    LET pkg == HdrWords + len IN
    /\ ~TooLarge(pkg) /\ ~RingFull(pkg)
    /\ sram' = WithFrame(id, len)
    /\ i2x_tail' = NewTail(pkg)
    /\ RaiseIrq
    /\ unread' = Append(unread, [off |-> SendTail(pkg), id |-> id, len |-> len])
    /\ mark' = IF Wraps(pkg) THEN i2x_tail ELSE mark
    /\ UNCHANGED <<i2x_head, lost>>

\* Too large or no room: the tombstone may be in place already, the reply is gone
\* (mert_reply() ignores the result of xdna_mbox_send()).
DropReply(len) ==
    LET pkg == HdrWords + len IN
    /\ TooLarge(pkg) \/ RingFull(pkg)
    /\ sram' = IF TooLarge(pkg) THEN sram ELSE WithTombstone(pkg)
    /\ lost' = lost + 1
    /\ UNCHANGED <<i2x_head, i2x_tail, intr, irq_pending, unread, mark>>

\* The driver posts a request under an id none of its unread replies has;
\* the handler answers it before the MMIO write returns.
Request(id, len) ==
    /\ outstanding < InFlight
    /\ \A i \in 1 .. Len(unread) : unread[i].id # id
    /\ outstanding' = outstanding + 1
    /\ SendReply(id, len) \/ DropReply(len)
    /\ UNCHANGED <<rx, msg, rcvd>>
-----------------------------------------------------------------------------
(* Driver: receive path                                                    *)

RxGoto(from, to) == rx = from /\ rx' = to

\* The interrupt handler schedules the receive work.
RxWake ==
    /\ irq_pending
    /\ RxGoto("idle", "ack")
    /\ irq_pending' = FALSE
    /\ UNCHANGED <<regs, msg, rcvd, outstanding, ghosts>>

\* mailbox_irq_acknowledge().
RxAck ==
    /\ RxGoto("ack", "tail")
    /\ intr' = 0
    /\ UNCHANGED <<i2x_head, i2x_tail, sram, irq_pending, msg, rcvd, outstanding, ghosts>>

\* Compare the tail register with the driver's own copy of head.
RxTail ==
    /\ RxGoto("tail", IF i2x_head = i2x_tail THEN "recheck" ELSE "peek")
    /\ UNCHANGED <<regs, irq_pending, msg, rcvd, outstanding, ghosts>>

\* Look at the next word.  (head is never rb_size: see TypeOK.)
RxPeek ==
    /\ RxGoto("peek", IF sram[i2x_head] = TOMBSTONE THEN "rewind" ELSE "header")
    /\ UNCHANGED <<regs, irq_pending, msg, rcvd, outstanding, ghosts>>

\* Variant: the driver's copy of head is not reset.
RxRewindNot == RxGoto("rewind", "tail") /\ UNCHANGED <<regs, irq_pending, msg, rcvd, outstanding, ghosts>>

\* A tombstone: continue at the start of the ring.
RxRewind ==
    /\ RxGoto("rewind", "tail")
    /\ i2x_head' = 0
    /\ UNCHANGED <<i2x_tail, intr, sram, irq_pending, msg, rcvd, outstanding, ghosts>>

RxHeader ==
    /\ RxGoto("header", "payload")
    /\ msg' = [id |-> sram[i2x_head].id, len |-> sram[i2x_head].len,
               whole |-> \A k \in 0 .. (HdrWords - 1) :
                             sram[i2x_head + k] =
                                 Cell(sram[i2x_head].id, sram[i2x_head].len, k)]
    /\ UNCHANGED <<regs, irq_pending, rcvd, outstanding, ghosts>>

RxPayload ==
    /\ RxGoto("payload", "advance")
    /\ msg' = [msg EXCEPT !.whole =
                 @ /\ \A k \in HdrWords .. (HdrWords + msg.len - 1) :
                          sram[i2x_head + k] = Cell(msg.id, msg.len, k)]
    /\ UNCHANGED <<regs, irq_pending, rcvd, outstanding, ghosts>>

\* Publish the new head and complete the request.
RxAdvance ==
    /\ RxGoto("advance", "tail")
    /\ i2x_head' = i2x_head + HdrWords + msg.len
    /\ rcvd' = msg
    /\ outstanding' = outstanding - 1
    /\ unread' = Tail(unread)
    /\ UNCHANGED <<i2x_tail, intr, sram, irq_pending, msg, mark, lost>>

\* Look at the interrupt status once more before leaving.
RxRecheck ==
    /\ RxGoto("recheck", IF intr = 1 THEN "ack" ELSE "idle")
    /\ UNCHANGED <<regs, irq_pending, msg, rcvd, outstanding, ghosts>>

Receive ==
    \/ RxWake \/ RxAck \/ RxTail \/ RxPeek \/ RxRewind
    \/ RxHeader \/ RxPayload \/ RxAdvance \/ RxRecheck

Next == (\E id \in Ids, len \in PayloadSizes : Request(id, len)) \/ Receive

Spec == Init /\ [][Next]_vars

\* The receive work, once scheduled, runs; nothing makes the driver send.
FairSpec == Spec /\ WF_vars(Receive)
-----------------------------------------------------------------------------
(* Properties                                                              *)

RxSteps == {"idle", "ack", "tail", "peek", "rewind", "header", "payload",
            "advance", "recheck"}

Msgs == [id : Ids \cup {Blank}, len : PayloadSizes \cup {0}, whole : BOOLEAN]

\* Both registers stay below the word kept for the tombstone, and every word
\* of the ring is part of a frame, a tombstone or untouched.
TypeOK ==
    /\ i2x_head \in 0 .. usable /\ i2x_tail \in 0 .. usable
    /\ intr \in {0, 1}
    /\ sram \in [0 .. (RingSize - 1) -> Cells \cup {TOMBSTONE, Blank}]
    /\ irq_pending \in BOOLEAN /\ rx \in RxSteps
    /\ msg \in Msgs /\ rcvd \in Msgs
    /\ outstanding \in 0 .. InFlight
    /\ unread \in Seq(Frame) /\ mark \in 0 .. usable /\ lost \in Nat

\* xdna_mbox_send() never writes over a reply the driver has not consumed:
\* every unread frame is still in the ring, word for word.
UnreadIntact ==
    \A i \in 1 .. Len(unread) :
        \A k \in 0 .. (HdrWords + unread[i].len - 1) :
            sram[unread[i].off + k] = Cell(unread[i].id, unread[i].len, k)

\* The "ring full" branch of xdna_mbox_send() is never taken: each request of
\* the driver is answered.
NoReplyLost == lost = 0

\* A reply in the ring is noticed: when the receive work is idle, or about to
\* leave without having seen it, an interrupt is on its way or the status
\* register still says so.
NoLostWakeup ==
    unread # <<>> => \/ irq_pending
                     \/ rx \notin {"idle", "recheck"}
                     \/ rx = "recheck" /\ intr = 1

\* Between the wrap of tail and the wrap of head the free words lie in the
\* middle of the ring, and the consumer leaves its end at mark.
Wrapped == i2x_tail < i2x_head

\* Where the frame after unread[k] starts, or will start.
After(k) == IF k < Len(unread) THEN unread[k + 1].off ELSE i2x_tail

\* The consumer starts at the oldest frame, directly or over the tombstone, and
\* each frame leads to the next one in the same way.
Chained ==
    /\ unread = <<>> => i2x_head = i2x_tail
    /\ unread # <<>> => \/ unread[1].off = i2x_head
                        \/ Wrapped /\ i2x_head = mark /\ unread[1].off = 0
    /\ \A k \in 1 .. Len(unread) :
          \/ After(k) = End(unread[k])
          \/ Wrapped /\ End(unread[k]) = mark /\ After(k) = 0

\* No unread frame reaches into the words the producer will write next.
Placed ==
    /\ \A k \in 1 .. Len(unread) :
          \/ i2x_head <= unread[k].off /\ ~Wrapped /\ End(unread[k]) <= i2x_tail
          \/ i2x_head <= unread[k].off /\ Wrapped /\ End(unread[k]) <= mark
          \/ Wrapped /\ End(unread[k]) <= i2x_tail
    /\ Wrapped => /\ unread # <<>> /\ i2x_tail > 0
                  /\ sram[mark] = TOMBSTONE
                  /\ i2x_head <= mark /\ mark + MaxPkg > usable

\* A later frame lies behind an earlier one, or once around the ring.
Ordered ==
    \A j \in 1 .. Len(unread) : \A i \in 1 .. (j - 1) :
        \/ End(unread[i]) <= unread[j].off
        \/ Wrapped /\ i2x_head <= unread[i].off /\ End(unread[j]) <= i2x_tail

\* Words from the start of frame f to tail, along the ring.
Dist(f) == IF f.off < i2x_tail THEN i2x_tail - f.off
                               ELSE (mark - f.off) + i2x_tail

\* The words in use are those of the unread frames.
Compact ==
    \A k \in 1 .. Len(unread) :
        Dist(unread[k]) <= ((Len(unread) - k) + 1) * MaxPkg

\* Each step of the receive path runs in a state that suits it, and what it has
\* read so far is the oldest unread frame.
RxInStep ==
    /\ rx \in {"peek", "rewind", "header", "payload", "advance"} => unread # <<>>
    /\ rx = "rewind" => Wrapped /\ i2x_head = mark
    /\ rx \in {"header", "payload", "advance"} => unread[1].off = i2x_head
    /\ rx \in {"payload", "advance"} =>
           msg = [id |-> unread[1].id, len |-> unread[1].len, whole |-> TRUE]

\* The ring has room for n replies of the largest size.
Room(n) == n * MaxPkg <= usable

\* Together with TypeOK and UnreadIntact, what makes the ring work: the producer
\* and the consumer, each with its own idea of head and tail, agree on where the
\* frames are although either may have wrapped before the other.
RingInv ==
    /\ Chained /\ Placed /\ Ordered /\ Compact /\ RxInStep
    /\ outstanding = Len(unread) + lost

\* What the driver is to make of a frame; the replies it is still to receive.
Whole(f) == [id |-> f.id, len |-> f.len, whole |-> TRUE]
Queued(q) == [i \in 1 .. Len(q) |-> Whole(q[i])]

\* The ring delivers replies whole, once, in order (see ReplyFifo).
Fifo == INSTANCE ReplyFifo
            WITH Reply   <- [id : Ids, len : PayloadSizes, whole : {TRUE}],
                 NoReply <- NoMsg,
                 queue   <- Queued(unread),
                 rcvd    <- rcvd

DeliversInOrder == Fifo!Spec

\* Every reply queued leaves the ring eventually; by DeliversInOrder it does
\* so by being received.
EventuallyReceived ==
    \A id \in Ids :
        LET Unread == \E i \in 1 .. Len(unread) : unread[i].id = id
        IN  Unread ~> ~Unread
=============================================================================
