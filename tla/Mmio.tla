-------------------------------- MODULE Mmio --------------------------------
(***************************************************************************)
(* All mailbox channels of the device at once, over the real layout of the *)
(* SRAM and MBOX BARs.  The firmware chooses where a channel's registers   *)
(* and rings are and tells the driver, as device addresses; the driver     *)
(* subtracts the aperture's base and uses what it gets as BAR offsets,     *)
(* which the device decodes again.  Nothing but this arithmetic keeps the  *)
(* channels apart.                                                         *)
(*                                                                         *)
(* A message on its way through a ring is the matter of X2iRing and        *)
(* I2xRing.  Here a driver waits for the reply to one request before the   *)
(* next, a position in a ring is 0 or 1, in turn, and SRAM is a row of     *)
(* pages that know who wrote to them last.                                 *)
(***************************************************************************)
EXTENDS Integers, FiniteSets

CONSTANTS NumCtx,   \* XDNA_NPU1_HWCTX_LIMIT: 6
          Busy,     \* channels on which the driver makes requests; bounds the model
          Nothing   \* no driver, no address

ASSUME NumCtxAssumption == NumCtx \in Nat \ {0} /\ Busy \subseteq 0 .. NumCtx

MPNPU_APERTURE1_BASE == \h3080000
MPNPU_APERTURE2_BASE == \h30C0000
XDNA_BAR_SRAM_SIZE == \h40000

XDNA_SRAM_FW_ALIVE_OFF == \h30BF000 - MPNPU_APERTURE1_BASE
XDNA_SRAM_MGMT_INFO_OFF == \h30A0000 - MPNPU_APERTURE1_BASE
XDNA_SRAM_MGMT_X2I_OFF == \h21000
XDNA_SRAM_MGMT_I2X_OFF == \h22000
XDNA_SRAM_MGMT_RB_SIZE == \h1000

\* Variant: the rings start one context later, and the last covers FW_ALIVE.
BaseOneLater == \h28000

XDNA_SRAM_CTX_RB_BASE == \h24000
XDNA_SRAM_CTX_RB_SIZE == \h2000

\* Variant: room for four rings of a context instead of two.
StrideOfFourRings == 4 * XDNA_SRAM_CTX_RB_SIZE

XDNA_SRAM_CTX_RB_STRIDE == 2 * XDNA_SRAM_CTX_RB_SIZE

\* Variant: room for four registers of the five.
StrideOfFourRegisters == \h10

XDNA_MBOX_CHAN_STRIDE == \h20

X2I_HEAD_OFF == 0
X2I_TAIL_OFF == 4
I2X_HEAD_OFF == 8

\* Variant: after the other four.
IntrOffLast == \h14

INTR_OFF == 12
I2X_TAIL_OFF == 16

CHAN_BASE(idx) == idx * XDNA_MBOX_CHAN_STRIDE

XDNA_MAX_CHANNELS == 1 + NumCtx
Chans == 0 .. (XDNA_MAX_CHANNELS - 1)
Slots == 0 .. (NumCtx - 1)

\* SRAM in pages of 4 KiB.
PageSize == \h1000
Pages == 0 .. (XDNA_BAR_SRAM_SIZE \div PageSize - 1)
PagesOf(off, len) == (off \div PageSize) .. ((off + len - 1) \div PageSize)

VARIABLES
    chan,       \* npu->chan[]
    ctx,        \* slots of the context table in use
    fw_alive,
    sram,       \* what a page of SRAM holds: <<>> for zeros
    vec,        \* MSI-X vectors raised and not served
    drv,        \* the driver's end of a channel, by the slot it belongs to
    told        \* the channel described by the reply to CREATE_CONTEXT under way

vars == <<chan, ctx, fw_alive, sram, vec, drv, told>>

\* xdna_mbox_channel_reset().
NoChannel(idx) ==
    [active |-> FALSE, index |-> idx,
     x2i_head |-> 0, x2i_tail |-> 0, i2x_head |-> 0, i2x_tail |-> 0, intr |-> 0,
     x2i_buf |-> 0, x2i_size |-> 0, i2x_buf |-> 0, i2x_size |-> 0]

mbox_reset == [idx \in Chans |-> NoChannel(idx)]

Init ==
    /\ chan = mbox_reset /\ ctx = {} /\ fw_alive = FALSE
    /\ sram = [p \in Pages |-> <<>>]
    /\ vec = {}
    /\ drv = [idx \in Chans |-> Nothing] /\ told = Nothing

\* xdna_npu_reset(), with the machine and its driver.
Reset ==
    /\ chan' = mbox_reset /\ ctx' = {} /\ fw_alive' = FALSE
    /\ sram' = [p \in Pages |-> <<>>]
    /\ vec' = {}
    /\ drv' = [idx \in Chans |-> Nothing] /\ told' = Nothing
-----------------------------------------------------------------------------
(* Channels as the firmware sets them up, and as it describes them         *)

\* The pages of an area of SRAM come to hold something.
Fill(mem, off, len, what) == [p \in Pages |-> IF p \in PagesOf(off, len) THEN what ELSE mem[p]]

\* A channel with its rings, x2i first.
NewChannel(idx, x2i, i2x, size) ==
    [NoChannel(idx) EXCEPT !.active = TRUE, !.x2i_buf = x2i, !.x2i_size = size,
                           !.i2x_buf = i2x, !.i2x_size = size]

sram_dev_addr(off) == MPNPU_APERTURE1_BASE + off

mbox_dev_addr(off) == MPNPU_APERTURE2_BASE + off

\* Registers and rings of a channel as device addresses: the management channel's
\* in the structure FW_ALIVE points to, a context's in the reply that creates it.
Told(ch) ==
    LET base == CHAN_BASE(ch.index) IN
    [x2i_head |-> mbox_dev_addr(base + X2I_HEAD_OFF),
     x2i_tail |-> mbox_dev_addr(base + X2I_TAIL_OFF),
     i2x_head |-> mbox_dev_addr(base + I2X_HEAD_OFF),
     i2x_tail |-> mbox_dev_addr(base + I2X_TAIL_OFF),
     x2i_buf |-> sram_dev_addr(ch.x2i_buf), x2i_size |-> ch.x2i_size,
     i2x_buf |-> sram_dev_addr(ch.i2x_buf), i2x_size |-> ch.i2x_size,
     msi |-> ch.index]

Mgmt == NewChannel(0, XDNA_SRAM_MGMT_X2I_OFF, XDNA_SRAM_MGMT_I2X_OFF, XDNA_SRAM_MGMT_RB_SIZE)

\* The driver before is gone, with all its ends.
NewDriver == drv' = [idx \in Chans |-> Nothing] /\ told' = Nothing

\* xdna_fw_boot(): the management channel, its description, and FW_ALIVE.  A boot
\* over running firmware leaves contexts and their channels as they are.
FwBoot ==
    LET x2i   == Fill(sram, Mgmt.x2i_buf, Mgmt.x2i_size, <<>>)
        rings == Fill(x2i, Mgmt.i2x_buf, Mgmt.i2x_size, <<>>)
        info  == Fill(rings, XDNA_SRAM_MGMT_INFO_OFF, 64, <<"info">>)
    IN
    /\ fw_alive' = TRUE
    /\ chan' = [chan EXCEPT ![0] = Mgmt]
    /\ sram' = Fill(info, XDNA_SRAM_FW_ALIVE_OFF, 4,
                    <<"alive", sram_dev_addr(XDNA_SRAM_MGMT_INFO_OFF)>>)
    /\ NewDriver
    /\ UNCHANGED <<ctx, vec>>

\* xdna_fw_shutdown(), when the driver has let go of its channels.
FwShutdown ==
    /\ fw_alive' = FALSE /\ ctx' = {}
    /\ chan' = mbox_reset
    /\ sram' = Fill(sram, XDNA_SRAM_FW_ALIVE_OFF, 4, <<>>)
    /\ NewDriver
    /\ UNCHANGED vec

FreeSlots == Slots \ ctx

\* The first free slot.
FirstFree == CHOOSE s \in FreeSlots : \A t \in FreeSlots : s <= t

\* handle_create_context(): channel and rings of a slot.
CtxChannel(slot) ==
    LET rb_base == XDNA_SRAM_CTX_RB_BASE + slot * XDNA_SRAM_CTX_RB_STRIDE
    IN  NewChannel(slot + 1, rb_base, rb_base + XDNA_SRAM_CTX_RB_SIZE, XDNA_SRAM_CTX_RB_SIZE)
-----------------------------------------------------------------------------
(* Access to the registers: xdna_mbox_reg_read(), xdna_mbox_reg_write()    *)

\* chan_from_off().
chan_idx(off) == off \div XDNA_MBOX_CHAN_STRIDE
chan_reg(off) == off % XDNA_MBOX_CHAN_STRIDE

RegRead(C, off) ==
    LET ch == C[chan_idx(off)] IN
    IF chan_idx(off) >= XDNA_MAX_CHANNELS THEN 0
    ELSE CASE chan_reg(off) = X2I_HEAD_OFF -> ch.x2i_head
           [] chan_reg(off) = X2I_TAIL_OFF -> ch.x2i_tail
           [] chan_reg(off) = I2X_HEAD_OFF -> ch.i2x_head
           [] chan_reg(off) = INTR_OFF     -> ch.intr
           [] chan_reg(off) = I2X_TAIL_OFF -> ch.i2x_tail
           [] OTHER -> 0

\* The registers of the device itself cannot be written.
RegWrite(C, off, val) ==
    LET idx == chan_idx(off) IN
    IF idx >= XDNA_MAX_CHANNELS THEN C
    ELSE CASE chan_reg(off) = X2I_TAIL_OFF -> [C EXCEPT ![idx].x2i_tail = val]
           [] chan_reg(off) = I2X_HEAD_OFF -> [C EXCEPT ![idx].i2x_head = val]
           [] chan_reg(off) = INTR_OFF     -> [C EXCEPT ![idx].intr = val]
           [] OTHER -> C

\* xdna_npu_mmio_write_buf() on SRAM.
SramWrite(mem, off, len, what) ==
    IF off + len > XDNA_BAR_SRAM_SIZE THEN mem ELSE Fill(mem, off, len, what)

SramRead(mem, off, len) ==
    IF off + len > XDNA_BAR_SRAM_SIZE THEN <<>> ELSE mem[off \div PageSize]

Other(place) == 1 - place

\* xdna_mbox_send() on channel idx.
Sent(C, idx) == [C EXCEPT ![idx].i2x_tail = Other(@), ![idx].intr = 1]
SentSram(C, mem, idx) == Fill(mem, C[idx].i2x_buf, C[idx].i2x_size, <<"i2x", idx>>)

\* xdna_mbox_process() finds a message on channel idx.
Finds(C, mem, idx) ==
    /\ idx < XDNA_MAX_CHANNELS
    /\ C[idx].active /\ C[idx].x2i_head # C[idx].x2i_tail
    /\ mem[C[idx].x2i_buf \div PageSize] # <<>>

\* The message is consumed and answered.
Consumed(C, idx) == [C EXCEPT ![idx].x2i_head = C[idx].x2i_tail]
-----------------------------------------------------------------------------
(* Driver                                                                  *)

\* ChannRes: BAR offsets; the interrupt register follows that of the i2x head.
Drv(t) ==
    [x2i_head_reg |-> t.x2i_head - MPNPU_APERTURE2_BASE,
     x2i_tail_reg |-> t.x2i_tail - MPNPU_APERTURE2_BASE,
     i2x_head_reg |-> t.i2x_head - MPNPU_APERTURE2_BASE,
     i2x_tail_reg |-> t.i2x_tail - MPNPU_APERTURE2_BASE,
     intr_reg     |-> t.i2x_head - MPNPU_APERTURE2_BASE + 4,
     x2i_start |-> t.x2i_buf - MPNPU_APERTURE1_BASE, x2i_size |-> t.x2i_size,
     i2x_start |-> t.i2x_buf - MPNPU_APERTURE1_BASE, i2x_size |-> t.i2x_size,
     msix_id |-> t.msi,
     x2i_tail |-> 0, i2x_head |-> 0, waiting |-> FALSE, got |-> <<>>]

Up(k) == drv[k] # Nothing

\* drv_get_mgmt_chann_info(): the structure is read where FW_ALIVE points to, and
\* FW_ALIVE cleared.
GetMgmtInfo ==
    LET alive == SramRead(sram, XDNA_SRAM_FW_ALIVE_OFF, 4) IN
    /\ ~Up(0) /\ alive # <<>>
    /\ SramRead(sram, alive[2] - MPNPU_APERTURE1_BASE, 64) = <<"info">>
    /\ drv' = [drv EXCEPT ![0] = Drv(Told(Mgmt))]
    /\ sram' = SramWrite(sram, XDNA_SRAM_FW_ALIVE_OFF, 4, <<>>)
    /\ UNCHANGED <<chan, ctx, fw_alive, vec, told>>

\* The driver of channel k writes a request to its ring, and then the tail register.
Posted(k) == RegWrite(chan, drv[k].x2i_tail_reg, Other(drv[k].x2i_tail))
PostedSram(k) == SramWrite(sram, drv[k].x2i_start, drv[k].x2i_size, <<"x2i", k>>)
Waits(k) == [drv EXCEPT ![k].x2i_tail = Other(@), ![k].waiting = TRUE]

CanPost(k) == Up(k) /\ ~drv[k].waiting /\ fw_alive

\* A request that changes no channel.
Ask(k) ==
    LET idx == chan_idx(drv[k].x2i_tail_reg)
        C   == Posted(k)
        mem == PostedSram(k)
    IN
    /\ CanPost(k)
    /\ IF Finds(C, mem, idx)
       THEN /\ chan' = Sent(Consumed(C, idx), idx)
            /\ sram' = SentSram(C, mem, idx)
            /\ vec' = vec \cup {C[idx].index}
       ELSE chan' = C /\ sram' = mem /\ UNCHANGED vec
    /\ drv' = Waits(k)
    /\ UNCHANGED <<ctx, fw_alive, told>>

\* CREATE_CONTEXT on the management channel; refused when all slots are in use.
Create ==
    LET C   == Consumed(Posted(0), 0)
        mem == PostedSram(0)
        new == CtxChannel(FirstFree)
    IN
    /\ CanPost(0) /\ Finds(Posted(0), mem, 0)
    /\ IF FreeSlots = {}
       THEN /\ chan' = Sent(C, 0) /\ sram' = SentSram(C, mem, 0)
            /\ UNCHANGED <<ctx, told>>
       ELSE /\ ctx' = ctx \cup {FirstFree}
            /\ chan' = Sent([C EXCEPT ![new.index] = new], 0)
            /\ sram' = SentSram(C, Fill(mem, new.x2i_buf, XDNA_SRAM_CTX_RB_STRIDE, <<>>), 0)
            /\ told' = Told(new)
    /\ vec' = vec \cup {C[0].index}
    /\ drv' = Waits(0)
    /\ UNCHANGED fw_alive

\* DESTROY_CONTEXT on the management channel, by a driver that has let go of the
\* context's channel, whether it waits for a reply there or not.
Destroy(slot) ==
    LET C   == Consumed(Posted(0), 0)
        mem == PostedSram(0)
    IN
    /\ CanPost(0) /\ Finds(Posted(0), mem, 0) /\ Up(slot + 1)
    /\ ctx' = ctx \ {slot}
    /\ chan' = Sent([C EXCEPT ![slot + 1] = NoChannel(slot + 1)], 0)
    /\ sram' = SentSram(C, mem, 0)
    /\ vec' = vec \cup {C[0].index}
    /\ drv' = [Waits(0) EXCEPT ![slot + 1] = Nothing]
    /\ UNCHANGED <<fw_alive, told>>

\* mbox_recv(), on the vector the driver was told: it acknowledges, and looks for a
\* reply, which it may not find.  The reply to CREATE_CONTEXT opens a channel.
Receive(k) ==
    LET d     == drv[k]
        acked == RegWrite(chan, d.intr_reg, 0)
        tail  == RegRead(acked, d.i2x_tail_reg)
        found == d.i2x_head # tail
    IN
    /\ Up(k) /\ d.msix_id \in vec
    /\ vec' = vec \ {d.msix_id}
    /\ chan' = IF found THEN RegWrite(acked, d.i2x_head_reg, tail) ELSE acked
    /\ LET mine == [drv EXCEPT ![k].i2x_head = tail, ![k].waiting = d.waiting /\ ~found,
                               ![k].got = IF found THEN SramRead(sram, d.i2x_start, 4) ELSE @]
           open == k = 0 /\ found /\ told # Nothing
       IN  /\ drv' = IF open THEN [mine EXCEPT ![told.msi] = Drv(told)] ELSE mine
           /\ told' = IF open THEN Nothing ELSE told
    /\ UNCHANGED <<ctx, fw_alive, sram>>

Next ==
    \/ Reset \/ FwBoot \/ FwShutdown \/ GetMgmtInfo \/ Create
    \/ \E slot \in Slots : Destroy(slot)
    \/ \E k \in Busy : Ask(k)
    \/ \E k \in Chans : Receive(k)

Spec == Init /\ [][Next]_vars
-----------------------------------------------------------------------------
(* Properties                                                              *)

Within(off, len) == off >= 0 /\ len >= 0 /\ off + len <= XDNA_BAR_SRAM_SIZE

\* The device only ever uses areas inside its SRAM, and vectors it has.
TypeOK ==
    /\ \A idx \in Chans :
          /\ chan[idx].active \in BOOLEAN /\ chan[idx].index = idx
          /\ Within(chan[idx].x2i_buf, chan[idx].x2i_size)
          /\ Within(chan[idx].i2x_buf, chan[idx].i2x_size)
          /\ \A reg \in {"x2i_head", "x2i_tail", "i2x_head", "i2x_tail", "intr"} :
                chan[idx][reg] \in 0 .. 1
    /\ ctx \subseteq Slots /\ fw_alive \in BOOLEAN /\ vec \subseteq Chans

\* However many channels are in use: what a driver reads and writes at the addresses
\* it was told are the registers of its own channel, which hold what it put
\* there, and a channel that is not open has seen none of it.
RoutedHome ==
    /\ \A k \in Chans : Up(k) =>
          LET d == drv[k] IN
          /\ chan[k].active
          /\ chan[k].x2i_tail = d.x2i_tail /\ chan[k].i2x_head = d.i2x_head
          /\ RegRead(chan, d.x2i_head_reg) = chan[k].x2i_head
          /\ RegRead(chan, d.i2x_tail_reg) = chan[k].i2x_tail
    /\ \A idx \in Chans : ~chan[idx].active => chan[idx] = NoChannel(idx)

\* No two channels share a page, and none touches the description of the
\* management channel or FW_ALIVE: a ring holds what its own two ends wrote, also
\* when firmware is booted while contexts are in use, and a driver is given replies
\* of its own channel only.
RingsApart ==
    /\ \A idx \in Chans : chan[idx].active =>
          /\ \A p \in PagesOf(chan[idx].x2i_buf, chan[idx].x2i_size) :
                sram[p] \in {<<>>, <<"x2i", idx>>}
          /\ \A p \in PagesOf(chan[idx].i2x_buf, chan[idx].i2x_size) :
                sram[p] \in {<<>>, <<"i2x", idx>>}
    /\ fw_alive => SramRead(sram, XDNA_SRAM_MGMT_INFO_OFF, 64) = <<"info">>
    /\ \A k \in Chans : Up(k) => drv[k].got \in {<<>>, <<"i2x", k>>}

\* A driver that waits has its answer at hand: in the ring, with the interrupt
\* register of its channel set and the vector it was told raised.  Once it has
\* taken the interrupt, the register is clear.
AnswerAtHand ==
    \A k \in Chans : Up(k) =>
        LET d == drv[k] IN
        /\ d.waiting => chan[k].i2x_tail # d.i2x_head /\ d.msix_id \in vec
        /\ (chan[k].intr = 1) = d.waiting
=============================================================================
