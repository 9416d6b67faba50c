------------------------------ MODULE X2iRing ------------------------------
(***************************************************************************)
(* The host-to-firmware (x2i) ring of one mailbox channel: the driver's    *)
(* write path (mbox_send_recv in tests/test_boot.c) is the producer and    *)
(* xdna_mbox_process in src/xdna_mailbox.c the consumer.                   *)
(*                                                                         *)
(* The driver writes words into SRAM one access at a time and publishes    *)
(* them by writing the tail register.  That write runs the whole loop of   *)
(* xdna_mbox_process under QEMU's lock: no other access comes in between,  *)
(* and one iteration of the loop is one step here.  Meanwhile the channel  *)
(* may be torn down (its context destroyed, the firmware released) and set *)
(* up again for another user between any two accesses of the driver.       *)
(*                                                                         *)
(* Offsets and sizes are counted in 32-bit words; sizes that are not a     *)
(* multiple of 4 bytes are left out.                                       *)
(***************************************************************************)
EXTENDS Integers, Sequences

CONSTANTS RingSize,      \* x2i_size
          PayloadSizes,  \* payload sizes of the requests
          MaxPkg,        \* size of the largest request, header included
          InFlight,      \* unanswered requests the driver allows itself
          MaxPerKick,    \* MBOX_MAX_MSG_PER_KICK
          Ids,           \* message ids
          TOMBSTONE,     \* XDNA_MBOX_TOMBSTONE
          Blank          \* a word nothing was written to (zeroed at set-up)

\* sizeof(XdnaMsgHeader).
HdrWords == 4

\* The last word of the ring is kept for a tombstone.
usable == RingSize - 1

\* Word k of a frame; own tells the users of the channel apart.
Frames == [own : BOOLEAN, id : Ids, len : PayloadSizes]
Cell(f, k) == [frame |-> f, k |-> k]
Cells == [frame : Frames, k : 0 .. (MaxPkg - 1)]

ASSUME SizesAssumption ==
    /\ RingSize \in Nat \ {0} /\ MaxPkg \in Nat
    /\ InFlight \in Nat \ {0} /\ MaxPerKick \in Nat
    /\ PayloadSizes \subseteq Nat
    /\ \A len \in PayloadSizes : HdrWords + len <= MaxPkg
    /\ TOMBSTONE \notin Cells /\ Blank \notin Cells /\ TOMBSTONE # Blank

VARIABLES
    active,              \* the channel is set up
    x2i_head, x2i_tail,  \* its registers
    sram,                \* the words of the ring
    dev,                 \* is xdna_mbox_process() running?
    guard,               \* its loop counter
    tx,                  \* write path: next access to make
    tail,                \* write path: where the next frame goes
    cur,                 \* write path: frame to write, and head as it was read
    \* History, not read by the code:
    own,                 \* flips with the user of the channel
    posted,              \* frames written and not handled, oldest first
    fresh,               \* how many of them wait for the tail register
    handled,             \* the last frame handled, and whether one was due
    refused,             \* "x2i ring full" in the driver
    kicked, stuck        \* last write of tail: requests published; was it cut short?

chan   == <<active, x2i_head, x2i_tail, sram>>
loop   == <<dev, guard>>
driver == <<tx, tail, cur>>
ghosts == <<own, posted, fresh, handled, refused, kicked, stuck>>
vars   == <<chan, loop, driver, ghosts>>

Words == 0 .. (RingSize - 1)
Pkg(f) == HdrWords + f.len
NoMsg == [frame |-> Blank, whole |-> TRUE, due |-> TRUE]
NoCur == [frame |-> Blank, head |-> 0]

Init ==
    /\ active = FALSE /\ x2i_head = 0 /\ x2i_tail = 0 /\ sram = [w \in Words |-> Blank]
    /\ dev = "idle" /\ guard = 0
    /\ tx = "idle" /\ tail = 0 /\ cur = NoCur
    /\ own = FALSE /\ posted = <<>> /\ fresh = 0
    /\ handled = NoMsg /\ refused = FALSE /\ kicked = 0 /\ stuck = FALSE
-----------------------------------------------------------------------------
(* The life of a channel                                                   *)

\* Variant: the channel is reused as it is.
SetUpAsIs == active' = TRUE /\ UNCHANGED <<x2i_head, x2i_tail, sram>>

\* xdna_mbox_channel_reset(), active = true, and the ring zeroed.
SetUp ==
    /\ active' = TRUE
    /\ x2i_head' = 0 /\ x2i_tail' = 0
    /\ sram' = [w \in Words |-> Blank]

\* xdna_fw_boot() or handle_create_context().  The user before, if any, has
\* crashed or let go; the new one starts with what it was told.
Activate ==
    /\ dev = "idle"
    /\ SetUp
    /\ tx' = "idle" /\ tail' = 0 /\ cur' = NoCur
    /\ own' = ~own /\ posted' = <<>> /\ fresh' = 0
    /\ UNCHANGED <<loop, handled, refused, kicked, stuck>>

\* xdna_mbox_channel_reset(): all fields are zero; the ring keeps its words.
ChannelReset == active' = FALSE /\ x2i_head' = 0 /\ x2i_tail' = 0

\* The context is destroyed by a message on the management channel, or the
\* firmware is released.  The driver's write path may be anywhere.
Deactivate ==
    /\ dev = "idle" /\ active
    /\ ChannelReset
    /\ posted' = <<>> /\ fresh' = 0
    /\ UNCHANGED <<sram, loop, driver, own, handled, refused, kicked, stuck>>
-----------------------------------------------------------------------------
(* Driver: write path                                                      *)

TxGoto(from, to) == dev = "idle" /\ tx \in from /\ tx' = to

\* Variant: the word kept for the tombstone is forgotten.
WrapsPastEnd(f, head) == tail >= head /\ tail + Pkg(f) > RingSize

\* The frame does not fit behind tail: go back to the start of the ring.
Wraps(f, head) == tail >= head /\ tail + Pkg(f) > usable

\* Variant: head = tail is refused too.
FullNonStrict(f, at, head) == at <= head /\ at + Pkg(f) >= head

\* There is no room before head for the frame.
Full(f, at, head) == at < head /\ at + Pkg(f) >= head

\* Read the head register and choose a place.  A driver that does not wait may
\* write more frames before it publishes them.
TxStart(f) ==
    /\ Len(posted) < InFlight
    /\ \A i \in 1 .. Len(posted) : posted[i].frame.id # f.id
    /\ TxGoto({"idle", "written"}, IF Wraps(f, x2i_head) THEN "tombstone" ELSE "place")
    /\ cur' = [frame |-> f, head |-> x2i_head]
    /\ UNCHANGED <<chan, loop, tail, ghosts>>

TxTombstone ==
    /\ TxGoto({"tombstone"}, "place0")
    /\ sram' = [sram EXCEPT ![tail] = TOMBSTONE]
    /\ UNCHANGED <<active, x2i_head, x2i_tail, loop, tail, cur, ghosts>>

\* The frame goes to the word at, or "ring full".
TxPlace(from, at) ==
    /\ TxGoto({from}, IF Full(cur.frame, at, cur.head) THEN "idle" ELSE "header")
    /\ tail' = IF Full(cur.frame, at, cur.head) THEN tail ELSE at
    /\ refused' = (refused \/ Full(cur.frame, at, cur.head))
    /\ UNCHANGED <<chan, loop, cur, own, posted, fresh, handled, kicked, stuck>>

\* Words from .. to of the frame are written at tail.
WithWords(from, to) ==
    [w \in Words |-> IF w \in (tail + from) .. (tail + to) THEN Cell(cur.frame, w - tail)
                                                           ELSE sram[w]]

TxHeader ==
    /\ TxGoto({"header"}, "payload")
    /\ sram' = WithWords(0, HdrWords - 1)
    /\ UNCHANGED <<active, x2i_head, x2i_tail, loop, tail, cur, ghosts>>

EndOfFrame == tail + Pkg(cur.frame)

\* The payload, if any.  With tail local to the driver, nothing is published.
TxPayload ==
    /\ TxGoto({"payload"}, "written")
    /\ sram' = WithWords(HdrWords, Pkg(cur.frame) - 1)
    /\ tail' = EndOfFrame
    /\ posted' = IF active THEN Append(posted, [off |-> tail, frame |-> cur.frame]) ELSE posted
    /\ fresh' = IF active THEN fresh + 1 ELSE fresh
    /\ UNCHANGED <<active, x2i_head, x2i_tail, loop, cur, own, handled, refused, kicked, stuck>>

\* Write the tail register: xdna_mbox_reg_write(), which calls
\* xdna_mbox_process().  The tail is stored even if the channel is not set up.
TxKick ==
    /\ TxGoto({"written"}, "idle")
    /\ x2i_tail' = tail
    /\ dev' = IF active THEN "run" ELSE "idle"
    /\ guard' = 0 /\ fresh' = 0
    /\ kicked' = Len(posted) /\ stuck' = FALSE
    /\ UNCHANGED <<active, x2i_head, sram, tail, cur, own, posted, handled, refused>>
-----------------------------------------------------------------------------
(* Device: the loop of xdna_mbox_process()                                 *)

\* Variant: one iteration less.
GuardHitEarly == guard + 1 >= MaxPerKick

GuardHit == guard + 1 > MaxPerKick

\* An iteration that gets past the guard.
Iterate ==
    /\ dev = "run" /\ x2i_head # x2i_tail /\ ~GuardHit
    /\ guard' = guard + 1

Return == dev' = "idle" /\ guard' = 0

ProcDone ==
    /\ dev = "run" /\ x2i_head = x2i_tail
    /\ Return
    /\ UNCHANGED <<chan, driver, ghosts>>

ProcGuard ==
    /\ dev = "run" /\ x2i_head # x2i_tail /\ GuardHit
    /\ Return
    /\ stuck' = TRUE
    /\ UNCHANGED <<chan, driver, own, posted, fresh, handled, refused, kicked>>

\* Variant: the tombstone is stepped over.
RewindBySkip == x2i_head' = x2i_head + 1

Rewind == x2i_head' = 0

\* The end of the ring, or a tombstone.
AtEnd == IF x2i_head >= RingSize THEN TRUE ELSE sram[x2i_head] = TOMBSTONE

ProcRewind ==
    /\ Iterate
    /\ AtEnd
    /\ Rewind
    /\ UNCHANGED <<active, x2i_tail, sram, dev, driver, ghosts>>

\* The word at head is the size of a frame that lies within the ring.
GoodFrame ==
    /\ ~AtEnd
    /\ sram[x2i_head] \in Cells
    /\ sram[x2i_head].k = 0 /\ sram[x2i_head].frame.len # 0
    /\ Pkg(sram[x2i_head].frame) <= RingSize - x2i_head

\* A bad size: head stays where it is.
ProcReject ==
    /\ dev = "run" /\ x2i_head # x2i_tail /\ ~GuardHit
    /\ ~AtEnd /\ ~GoodFrame
    /\ Return
    /\ UNCHANGED <<chan, driver, ghosts>>

\* A frame is copied out, head advances, xdna_mert_handle() runs.  The message
\* may be the one that destroys the channel's own context: then the channel
\* is reset under the loop.
ProcHandle(destroys) ==
    LET f == sram[x2i_head].frame IN
    /\ Iterate
    /\ GoodFrame
    /\ IF destroys
       THEN ChannelReset /\ posted' = <<>>
       ELSE /\ x2i_head' = x2i_head + Pkg(f)
            /\ posted' = IF posted = <<>> THEN posted ELSE Tail(posted)
            /\ UNCHANGED <<active, x2i_tail>>
    /\ handled' = [frame |-> f, due |-> posted # <<>>,
                   whole |-> \A k \in 0 .. (Pkg(f) - 1) : sram[x2i_head + k] = Cell(f, k)]
    /\ UNCHANGED <<sram, dev, driver, own, fresh, refused, kicked, stuck>>

Process ==
    \/ ProcDone \/ ProcGuard \/ ProcRewind \/ ProcReject
    \/ \E destroys \in BOOLEAN : ProcHandle(destroys)

Send ==
    \/ \E id \in Ids, len \in PayloadSizes : TxStart([own |-> own, id |-> id, len |-> len])
    \/ TxTombstone \/ TxPlace("place", tail) \/ TxPlace("place0", 0)
    \/ TxHeader \/ TxPayload \/ TxKick

Next == Activate \/ Deactivate \/ Send \/ Process

Spec == Init /\ [][Next]_vars

\* A write of the tail register returns: the loop runs on.
FairSpec == Spec /\ WF_vars(Process)
-----------------------------------------------------------------------------
(* Properties                                                              *)

Msgs == [frame : Frames \cup {Blank}, whole : BOOLEAN, due : BOOLEAN]

\* The registers and the driver's tail stay below the word kept for the
\* tombstone; the loop counter stays within its bound.
TypeOK ==
    /\ active \in BOOLEAN /\ x2i_head \in 0 .. usable /\ x2i_tail \in 0 .. usable
    /\ sram \in [Words -> Cells \cup {TOMBSTONE, Blank}]
    /\ dev \in {"idle", "run"} /\ guard \in 0 .. MaxPerKick
    /\ tx \in {"idle", "tombstone", "place", "place0", "header", "payload", "written"}
    /\ tail \in 0 .. usable
    /\ cur \in [frame : Frames \cup {Blank}, head : 0 .. usable]
    /\ own \in BOOLEAN /\ posted \in Seq([off : 0 .. usable, frame : Frames])
    /\ fresh \in 0 .. InFlight
    /\ handled \in Msgs /\ refused \in BOOLEAN
    /\ kicked \in 0 .. InFlight /\ stuck \in BOOLEAN

\* When the write of the tail register returns, every request published was
\* handled, unless the bound on the loop cut it short; apart from that, only an
\* empty request stops the loop, and then it is the first left.
Drained ==
    dev = "idle" /\ Len(posted) > fresh => stuck \/ posted[1].frame.len = 0

\* The driver is never told that the ring is full: a frame of at most MaxPkg words
\* has room, wherever head and tail are.
NeverRefused == ~refused

\* The bound on the loop of xdna_mbox_process() counts a tombstone as it counts a
\* request: with MaxPerKick requests and a tombstone among them, one is left
\* behind.  With fewer requests a write of the tail register is never cut short,
\* wherever they lie.
CutShortOnlyBeyond == stuck => kicked >= MaxPerKick

\* What the handler is given, and is still to be given.
AsHandled(f) == [frame |-> f, whole |-> TRUE, due |-> TRUE]
Queued == [i \in 1 .. Len(posted) |-> AsHandled(posted[i].frame)]
RequestsOf(user) ==
    {AsHandled(f) : f \in [own : {user}, id : Ids, len : PayloadSizes]}

Fifo == INSTANCE RequestFifo
            WITH Request <- RequestsOf, NoRequest <- NoMsg,
                 user <- own, queue <- Queued, got <- handled

\* Whatever xdna_mert_handle() is given is the oldest request posted, whole, and
\* posted by the user the channel was set up for: none is handled twice, none is
\* passed over, and none is left over from the channel's earlier life (see
\* RequestFifo).
HandlesInOrder == Fifo!Spec

\* The request id was published, and no empty one is in its way.
Published(id, clear) ==
    \E i \in 1 .. (Len(posted) - fresh) :
        /\ posted[i].frame.id = id
        /\ clear => \A j \in 1 .. i : posted[j].frame.len # 0

\* A request that was published by a write of the tail register is handled, or its
\* channel is torn down, if fewer than MaxPerKick requests waited at that write and
\* none up to this one is empty.  Without these conditions it may be left behind
\* with nobody to look at it: at MaxPerKick requests and a tombstone the loop of
\* xdna_mbox_process() ends one short, and an empty request is never passed.
EventuallyHandled ==
    \A id \in Ids :
        (Published(id, TRUE) /\ kicked < MaxPerKick) ~> ~Published(id, FALSE)
=============================================================================
