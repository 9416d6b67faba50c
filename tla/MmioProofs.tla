----------------------------- MODULE MmioProofs -----------------------------
(***************************************************************************)
(* Proofs about Mmio for every number of contexts whose rings the layout   *)
(* has room for.  First the layout: where the rings and registers of a     *)
(* channel are.  Then a channel and the driver's end of it are looked at   *)
(* as a pair of values, on which a request and its reply act.              *)
(***************************************************************************)
EXTENDS Mmio, TLAPS

\* The rings of all contexts end before FW_ALIVE.
LayoutFits ==
    XDNA_SRAM_CTX_RB_BASE + NumCtx * XDNA_SRAM_CTX_RB_STRIDE <= XDNA_SRAM_FW_ALIVE_OFF

\* Where the rings of a channel are, in bytes and in pages.
X2iBuf(k) == IF k = 0 THEN XDNA_SRAM_MGMT_X2I_OFF
             ELSE XDNA_SRAM_CTX_RB_BASE + (k - 1) * XDNA_SRAM_CTX_RB_STRIDE
I2xBuf(k) == IF k = 0 THEN XDNA_SRAM_MGMT_I2X_OFF ELSE X2iBuf(k) + XDNA_SRAM_CTX_RB_SIZE
RingSize(k) == IF k = 0 THEN XDNA_SRAM_MGMT_RB_SIZE ELSE XDNA_SRAM_CTX_RB_SIZE

X2iPages(k) == IF k = 0 THEN {33} ELSE (32 + 4 * k) .. (33 + 4 * k)
I2xPages(k) == IF k = 0 THEN {34} ELSE (34 + 4 * k) .. (35 + 4 * k)
InfoPage == 32
AlivePage == 63

(* The inductive invariant                                                 *)

ChanRecs == [active : BOOLEAN, index : Chans,
             x2i_head : 0 .. 1, x2i_tail : 0 .. 1, i2x_head : 0 .. 1, i2x_tail : 0 .. 1,
             intr : 0 .. 1, x2i_buf : Nat, x2i_size : Nat, i2x_buf : Nat, i2x_size : Nat]

DrvRecs == [x2i_head_reg : Nat, x2i_tail_reg : Nat, i2x_head_reg : Nat, i2x_tail_reg : Nat,
            intr_reg : Nat, x2i_start : Nat, x2i_size : Nat, i2x_start : Nat, i2x_size : Nat,
            msix_id : Chans, x2i_tail : 0 .. 1, i2x_head : 0 .. 1, waiting : BOOLEAN,
            got : {<<>>} \cup {<<"i2x", k>> : k \in Chans}]

\* What the driver of channel k was told is where channel k is.
AtHome(k, d) ==
    /\ d.x2i_head_reg = CHAN_BASE(k) + X2I_HEAD_OFF
    /\ d.x2i_tail_reg = CHAN_BASE(k) + X2I_TAIL_OFF
    /\ d.i2x_head_reg = CHAN_BASE(k) + I2X_HEAD_OFF
    /\ d.i2x_tail_reg = CHAN_BASE(k) + I2X_TAIL_OFF
    /\ d.intr_reg = CHAN_BASE(k) + INTR_OFF
    /\ d.x2i_start = X2iBuf(k) /\ d.i2x_start = I2xBuf(k)
    /\ d.x2i_size = RingSize(k) /\ d.i2x_size = RingSize(k)
    /\ d.msix_id = k

\* Channel k is off, or set up on its own rings with nothing unhandled.
ChanOK(k, c) ==
    /\ c \in ChanRecs /\ c.index = k
    /\ IF c.active
       THEN /\ c.x2i_buf = X2iBuf(k) /\ c.i2x_buf = I2xBuf(k)
            /\ c.x2i_size = RingSize(k) /\ c.i2x_size = RingSize(k)
            /\ c.x2i_head = c.x2i_tail
       ELSE c = NoChannel(k)

\* The driver's end d of channel k is in step with the device's end c.
InStep(k, c, d, raised) ==
    /\ d \in DrvRecs /\ AtHome(k, d) /\ d.got \in {<<>>, <<"i2x", k>>}
    /\ c.active /\ c.x2i_tail = d.x2i_tail /\ c.i2x_head = d.i2x_head
    /\ IF d.waiting THEN c.i2x_tail # d.i2x_head /\ c.intr = 1 /\ raised
       ELSE c.i2x_tail = d.i2x_head /\ c.intr = 0

Types ==
    /\ chan \in [Chans -> ChanRecs] /\ drv \in [Chans -> DrvRecs \cup {Nothing}]
    /\ ctx \subseteq Slots /\ vec \subseteq Chans
Ends ==
    \A k \in Chans : /\ ChanOK(k, chan[k])
                     /\ Up(k) => InStep(k, chan[k], drv[k], k \in vec)

\* Channels are there only while the firmware is, and only those of contexts.
Owned ==
    /\ fw_alive \in BOOLEAN
    /\ \A k \in Chans : chan[k].active => fw_alive
    /\ \A s \in Slots : chan[s + 1].active => s \in ctx

\* A context just created is as it was described, and its reply still waits.
ToldInv ==
    told # Nothing =>
        \E s \in Slots : /\ told = Told(CtxChannel(s)) /\ chan[s + 1] = CtxChannel(s)
                         /\ ~Up(s + 1) /\ (Up(0) => drv[0].waiting)

\* Rings hold what their ends wrote.
SramInv ==
    /\ \A k \in Chans : chan[k].active =>
          /\ \A p \in X2iPages(k) : sram[p] \in {<<>>, <<"x2i", k>>}
          /\ \A p \in I2xPages(k) : sram[p] \in {<<>>, <<"i2x", k>>}
    /\ fw_alive => sram[InfoPage] = <<"info">>
    /\ sram[AlivePage] # <<>> => ~Up(0) /\ chan[0] = Mgmt /\ told = Nothing

IInv == Types /\ Ends /\ Owned /\ ToldInv /\ SramInv
-----------------------------------------------------------------------------
(* The layout                                                              *)

\* The layout has room for six contexts, and no more.
LEMMA AtMostSix ==
    ASSUME LayoutFits
    PROVE  NumCtx \in 1 .. 6
BY NumCtxAssumption DEF LayoutFits, XDNA_SRAM_CTX_RB_BASE, XDNA_SRAM_CTX_RB_STRIDE,
                        XDNA_SRAM_CTX_RB_SIZE, XDNA_SRAM_FW_ALIVE_OFF, MPNPU_APERTURE1_BASE

\* Channels and slots.
LEMMA ChanFacts ==
    ASSUME LayoutFits
    PROVE  /\ Chans = 0 .. NumCtx /\ XDNA_MAX_CHANNELS = NumCtx + 1 /\ 0 \in Chans
           /\ \A k \in Chans : k \in 0 .. 6
           /\ \A s \in Slots : s \in 0 .. 5 /\ s + 1 \in Chans /\ s + 1 # 0
           /\ \A k \in Chans : k # 0 => k - 1 \in Slots /\ (k - 1) + 1 = k
BY AtMostSix DEF Chans, Slots, XDNA_MAX_CHANNELS

\* The rings of a channel in numbers.
LEMMA BufFacts ==
    ASSUME NEW k \in 0 .. 6
    PROVE  /\ X2iBuf(k) = IF k = 0 THEN 135168 ELSE 131072 + 16384 * k
           /\ I2xBuf(k) = IF k = 0 THEN 139264 ELSE 139264 + 16384 * k
           /\ RingSize(k) = IF k = 0 THEN 4096 ELSE 8192
           /\ X2iBuf(k) \in Nat /\ I2xBuf(k) \in Nat /\ RingSize(k) \in Nat
           /\ Within(X2iBuf(k), RingSize(k)) /\ Within(I2xBuf(k), RingSize(k))
BY DEF X2iBuf, I2xBuf, RingSize, Within, XDNA_SRAM_MGMT_X2I_OFF, XDNA_SRAM_MGMT_I2X_OFF,
       XDNA_SRAM_MGMT_RB_SIZE, XDNA_SRAM_CTX_RB_BASE, XDNA_SRAM_CTX_RB_SIZE,
       XDNA_SRAM_CTX_RB_STRIDE, XDNA_BAR_SRAM_SIZE

\* The pages of the rings, of both rings of a context together, and of the two words
\* by which the firmware makes itself known.
LEMMA PagesFacts ==
    ASSUME NEW k \in 0 .. 6
    PROVE  /\ PagesOf(X2iBuf(k), RingSize(k)) = X2iPages(k)
           /\ PagesOf(I2xBuf(k), RingSize(k)) = I2xPages(k)
           /\ k # 0 => /\ PagesOf(X2iBuf(k), XDNA_SRAM_CTX_RB_STRIDE) = (32 + 4 * k) .. (35 + 4 * k)
                       /\ X2iPages(k) \subseteq (32 + 4 * k) .. (35 + 4 * k)
                       /\ I2xPages(k) \subseteq (32 + 4 * k) .. (35 + 4 * k)
           /\ X2iBuf(k) \div PageSize \in X2iPages(k)
           /\ I2xBuf(k) \div PageSize \in I2xPages(k)
<1>1. CASE k = 0
  BY <1>1, BufFacts DEF PagesOf, PageSize, X2iPages, I2xPages
<1>2. CASE k # 0
  <2>1. /\ X2iBuf(k) = 131072 + 16384 * k /\ I2xBuf(k) = 139264 + 16384 * k
        /\ RingSize(k) = 8192 /\ XDNA_SRAM_CTX_RB_STRIDE = 16384
    BY <1>2, BufFacts DEF XDNA_SRAM_CTX_RB_STRIDE, XDNA_SRAM_CTX_RB_SIZE
  <2>2. /\ (131072 + 16384 * k) \div 4096 = 32 + 4 * k
        /\ (139264 + 16384 * k) \div 4096 = 34 + 4 * k
        /\ ((131072 + 16384 * k) + 8192 - 1) \div 4096 = 33 + 4 * k
        /\ ((139264 + 16384 * k) + 8192 - 1) \div 4096 = 35 + 4 * k
        /\ ((131072 + 16384 * k) + 16384 - 1) \div 4096 = 35 + 4 * k
    OBVIOUS
  <2> QED BY <1>2, <2>1, <2>2 DEF PagesOf, PageSize, X2iPages, I2xPages
<1> QED BY <1>1, <1>2

\* No two rings share a page, and none holds the description or FW_ALIVE.
LEMMA PagesApart ==
    ASSUME NEW k \in 0 .. 6
    PROVE  /\ X2iPages(k) \subseteq Pages /\ I2xPages(k) \subseteq Pages
           /\ X2iPages(k) \cap I2xPages(k) = {}
           /\ InfoPage \notin X2iPages(k) \cup I2xPages(k)
           /\ AlivePage \notin X2iPages(k) \cup I2xPages(k)
           /\ \A j \in 0 .. 6 : j # k => (X2iPages(k) \cup I2xPages(k))
                                            \cap (X2iPages(j) \cup I2xPages(j)) = {}
<1>1. Pages = 0 .. 63
  BY DEF Pages, XDNA_BAR_SRAM_SIZE, PageSize
<1>2. /\ X2iPages(k) \subseteq Pages /\ I2xPages(k) \subseteq Pages
      /\ X2iPages(k) \cap I2xPages(k) = {}
  BY <1>1 DEF X2iPages, I2xPages
<1>3. /\ InfoPage \notin X2iPages(k) \cup I2xPages(k)
      /\ AlivePage \notin X2iPages(k) \cup I2xPages(k)
  BY DEF X2iPages, I2xPages, InfoPage, AlivePage
<1>4. ASSUME NEW j \in 0 .. 6, j # k, NEW p, p \in X2iPages(k) \cup I2xPages(k),
             p \in X2iPages(j) \cup I2xPages(j)
      PROVE  FALSE
  BY <1>4 DEF X2iPages, I2xPages
<1> QED BY <1>2, <1>3, <1>4

\* The words by which the firmware makes itself known.
LEMMA WordFacts ==
    /\ InfoPage \in Pages /\ AlivePage \in Pages /\ InfoPage # AlivePage
    /\ PagesOf(XDNA_SRAM_MGMT_INFO_OFF, 64) = {InfoPage}
    /\ PagesOf(XDNA_SRAM_FW_ALIVE_OFF, 4) = {AlivePage}
    /\ XDNA_SRAM_MGMT_INFO_OFF \div PageSize = InfoPage
    /\ XDNA_SRAM_FW_ALIVE_OFF \div PageSize = AlivePage
    /\ ~(XDNA_SRAM_MGMT_INFO_OFF + 64 > XDNA_BAR_SRAM_SIZE)
    /\ ~(XDNA_SRAM_FW_ALIVE_OFF + 4 > XDNA_BAR_SRAM_SIZE)
BY DEF PagesOf, PageSize, Pages, XDNA_BAR_SRAM_SIZE, InfoPage, AlivePage,
       XDNA_SRAM_MGMT_INFO_OFF, XDNA_SRAM_FW_ALIVE_OFF, MPNPU_APERTURE1_BASE

\* The registers of a channel are decoded as its own.
LEMMA Decoded ==
    ASSUME NEW k \in Nat
    PROVE  /\ CHAN_BASE(k) \in Nat
           /\ \A r \in {X2I_HEAD_OFF, X2I_TAIL_OFF, I2X_HEAD_OFF, INTR_OFF, I2X_TAIL_OFF} :
                 /\ r \in Nat /\ CHAN_BASE(k) + r \in Nat
                 /\ chan_idx(CHAN_BASE(k) + r) = k /\ chan_reg(CHAN_BASE(k) + r) = r
           /\ X2I_HEAD_OFF = 0 /\ X2I_TAIL_OFF = 4 /\ I2X_HEAD_OFF = 8
           /\ INTR_OFF = 12 /\ I2X_TAIL_OFF = 16
<1>1. \A r \in {0, 4, 8, 12, 16} : (k * 32 + r) \div 32 = k /\ (k * 32 + r) % 32 = r
  OBVIOUS
<1>2. k * 32 \in Nat
  OBVIOUS
<1> QED BY <1>1, <1>2 DEF CHAN_BASE, XDNA_MBOX_CHAN_STRIDE, chan_idx, chan_reg, X2I_HEAD_OFF,
                   X2I_TAIL_OFF, I2X_HEAD_OFF, INTR_OFF, I2X_TAIL_OFF
-----------------------------------------------------------------------------
(* Registers, rings and the driver's view of them                          *)

\* A channel just set up.
Fresh(k, c) ==
    /\ c.active /\ c.index = k /\ c.x2i_head = 0 /\ c.x2i_tail = 0
    /\ c.i2x_head = 0 /\ c.i2x_tail = 0 /\ c.intr = 0
    /\ c.x2i_buf = X2iBuf(k) /\ c.x2i_size = RingSize(k)
    /\ c.i2x_buf = I2xBuf(k) /\ c.i2x_size = RingSize(k)

\* A new channel is set up on its own rings.
LEMMA NewChannelFacts ==
    ASSUME NEW k \in 0 .. 6, k \in Chans
    PROVE  /\ NoChannel(k) \in ChanRecs /\ ~NoChannel(k).active /\ NoChannel(k).index = k
           /\ ChanOK(k, NoChannel(k))
           /\ NewChannel(k, X2iBuf(k), I2xBuf(k), RingSize(k)) \in ChanRecs
           /\ Fresh(k, NewChannel(k, X2iBuf(k), I2xBuf(k), RingSize(k)))
           /\ ChanOK(k, NewChannel(k, X2iBuf(k), I2xBuf(k), RingSize(k)))
<1> DEFINE x == X2iBuf(k)
           y == I2xBuf(k)
           z == RingSize(k)
           c == NewChannel(k, x, y, z)
<1>1. x \in Nat /\ y \in Nat /\ z \in Nat
  BY BufFacts
<1>2. NoChannel(k) \in ChanRecs /\ ~NoChannel(k).active /\ NoChannel(k).index = k
  BY DEF NoChannel, ChanRecs
<1>3. ChanOK(k, NoChannel(k))
  BY <1>2 DEF ChanOK
<1> HIDE DEF x, y, z
<1>4. /\ c.active /\ c.index = k /\ c.x2i_buf = x /\ c.i2x_buf = y
      /\ c.x2i_size = z /\ c.i2x_size = z /\ c.x2i_head = 0 /\ c.x2i_tail = 0
      /\ c.i2x_head = 0 /\ c.i2x_tail = 0 /\ c.intr = 0
  BY DEF NewChannel, NoChannel
<1>5. c \in ChanRecs
  BY <1>1, <1>2 DEF NewChannel, ChanRecs
<1> HIDE DEF c
<1>7. ChanOK(k, c)
  BY <1>4, <1>5 DEF ChanOK, x, y, z
<1>8. Fresh(k, c)
  BY <1>4 DEF Fresh, x, y, z
<1> QED BY <1>2, <1>3, <1>5, <1>7, <1>8 DEF c, x, y, z

\* The management channel and those of contexts are such channels.
LEMMA ChannelsNamed ==
    /\ Mgmt = NewChannel(0, X2iBuf(0), I2xBuf(0), RingSize(0))
    /\ \A s \in 0 .. 5 :
          CtxChannel(s) = NewChannel(s + 1, X2iBuf(s + 1), I2xBuf(s + 1), RingSize(s + 1))
<1>1. Mgmt = NewChannel(0, X2iBuf(0), I2xBuf(0), RingSize(0))
  BY DEF Mgmt, X2iBuf, I2xBuf, RingSize
<1>2. ASSUME NEW s \in 0 .. 5
      PROVE  CtxChannel(s) = NewChannel(s + 1, X2iBuf(s + 1), I2xBuf(s + 1), RingSize(s + 1))
  <2>1. s + 1 # 0 /\ (s + 1) - 1 = s
    OBVIOUS
  <2> QED BY <2>1 DEF CtxChannel, X2iBuf, I2xBuf, RingSize
<1> QED BY <1>1, <1>2

\* What a driver makes of the description of a new channel.
LEMMA DrvFacts ==
    ASSUME NEW k \in 0 .. 6, k \in Chans, NEW raised,
           NEW c, c = NewChannel(k, X2iBuf(k), I2xBuf(k), RingSize(k))
    PROVE  InStep(k, c, Drv(Told(c)), raised) /\ Told(c).msi = k /\ Drv(Told(c)) \in DrvRecs
<1>1. Fresh(k, c)
  BY NewChannelFacts
<1>2. /\ CHAN_BASE(k) \in Nat /\ X2I_HEAD_OFF = 0 /\ X2I_TAIL_OFF = 4 /\ I2X_HEAD_OFF = 8
      /\ INTR_OFF = 12 /\ I2X_TAIL_OFF = 16
  <2>1. k \in Nat
    OBVIOUS
  <2> QED BY <2>1, Decoded
<1>3. X2iBuf(k) \in Nat /\ I2xBuf(k) \in Nat /\ RingSize(k) \in Nat
  BY BufFacts
<1> DEFINE b == CHAN_BASE(k)
           x == X2iBuf(k)
           y == I2xBuf(k)
           z == RingSize(k)
           t == Told(c)
           d == Drv(t)
<1> HIDE DEF b, x, y, z
<1>4. t = [x2i_head |-> MPNPU_APERTURE2_BASE + (b + 0), x2i_tail |-> MPNPU_APERTURE2_BASE + (b + 4),
           i2x_head |-> MPNPU_APERTURE2_BASE + (b + 8), i2x_tail |-> MPNPU_APERTURE2_BASE + (b + 16),
           x2i_buf |-> MPNPU_APERTURE1_BASE + x, x2i_size |-> z,
           i2x_buf |-> MPNPU_APERTURE1_BASE + y, i2x_size |-> z, msi |-> k]
  BY <1>1, <1>2 DEF Fresh, Told, mbox_dev_addr, sram_dev_addr, b, x, y, z
<1>5. /\ b \in Nat /\ x \in Nat /\ y \in Nat /\ z \in Nat
      /\ MPNPU_APERTURE1_BASE \in Nat /\ MPNPU_APERTURE2_BASE \in Nat
  BY <1>2, <1>3 DEF b, x, y, z, MPNPU_APERTURE1_BASE, MPNPU_APERTURE2_BASE
<1> HIDE DEF t
<1>6. /\ t.x2i_head - MPNPU_APERTURE2_BASE = b /\ t.x2i_tail - MPNPU_APERTURE2_BASE = b + 4
      /\ t.i2x_head - MPNPU_APERTURE2_BASE = b + 8 /\ t.i2x_tail - MPNPU_APERTURE2_BASE = b + 16
      /\ t.i2x_head - MPNPU_APERTURE2_BASE + 4 = b + 12
      /\ t.x2i_buf - MPNPU_APERTURE1_BASE = x /\ t.i2x_buf - MPNPU_APERTURE1_BASE = y
      /\ t.x2i_size = z /\ t.i2x_size = z /\ t.msi = k
  BY <1>4, <1>5
<1>7. d = [x2i_head_reg |-> b, x2i_tail_reg |-> b + 4, i2x_head_reg |-> b + 8,
           i2x_tail_reg |-> b + 16, intr_reg |-> b + 12, x2i_start |-> x, x2i_size |-> z,
           i2x_start |-> y, i2x_size |-> z, msix_id |-> k,
           x2i_tail |-> 0, i2x_head |-> 0, waiting |-> FALSE, got |-> <<>>]
  BY <1>6 DEF Drv
<1> HIDE DEF d
<1>8. d \in DrvRecs
  <2>1. b + 4 \in Nat /\ b + 8 \in Nat /\ b + 16 \in Nat /\ b + 12 \in Nat
    BY <1>5
  <2> QED BY <1>5, <1>7, <2>1 DEF DrvRecs
<1>9. AtHome(k, d)
  <2>1. b + 0 = b
    BY <1>5
  <2> QED BY <1>2, <1>7, <2>1 DEF AtHome, b, x, y, z
<1>10. InStep(k, c, d, raised)
  BY <1>1, <1>7, <1>8, <1>9 DEF Fresh, InStep
<1> QED BY <1>6, <1>8, <1>10 DEF d, t

\* A register of channel k is written.
SetX2iTail(C, k, v) == [C EXCEPT ![k].x2i_tail = v]
SetI2xHead(C, k, v) == [C EXCEPT ![k].i2x_head = v]
SetIntr(C, k, v) == [C EXCEPT ![k].intr = v]

\* A driver reads and writes the registers of its own channel.
LEMMA Routed ==
    ASSUME LayoutFits, NEW k \in Chans, NEW d, AtHome(k, d), NEW C, NEW v
    PROVE  /\ RegRead(C, d.x2i_head_reg) = C[k].x2i_head
           /\ RegRead(C, d.i2x_tail_reg) = C[k].i2x_tail
           /\ RegWrite(C, d.x2i_tail_reg, v) = SetX2iTail(C, k, v)
           /\ RegWrite(C, d.i2x_head_reg, v) = SetI2xHead(C, k, v)
           /\ RegWrite(C, d.intr_reg, v) = SetIntr(C, k, v)
           /\ chan_idx(d.x2i_tail_reg) = k /\ k < XDNA_MAX_CHANNELS
<1>1. k \in Nat /\ k < XDNA_MAX_CHANNELS /\ ~(k >= XDNA_MAX_CHANNELS)
  BY ChanFacts, AtMostSix
<1>2. /\ \A r \in {X2I_HEAD_OFF, X2I_TAIL_OFF, I2X_HEAD_OFF, INTR_OFF, I2X_TAIL_OFF} :
             chan_idx(CHAN_BASE(k) + r) = k /\ chan_reg(CHAN_BASE(k) + r) = r
      /\ X2I_HEAD_OFF = 0 /\ X2I_TAIL_OFF = 4 /\ I2X_HEAD_OFF = 8
      /\ INTR_OFF = 12 /\ I2X_TAIL_OFF = 16
  BY <1>1, Decoded
<1>3. /\ chan_idx(d.x2i_head_reg) = k /\ chan_reg(d.x2i_head_reg) = X2I_HEAD_OFF
      /\ chan_idx(d.x2i_tail_reg) = k /\ chan_reg(d.x2i_tail_reg) = X2I_TAIL_OFF
      /\ chan_idx(d.i2x_head_reg) = k /\ chan_reg(d.i2x_head_reg) = I2X_HEAD_OFF
      /\ chan_idx(d.i2x_tail_reg) = k /\ chan_reg(d.i2x_tail_reg) = I2X_TAIL_OFF
      /\ chan_idx(d.intr_reg) = k /\ chan_reg(d.intr_reg) = INTR_OFF
  BY <1>2 DEF AtHome
<1>4. RegRead(C, d.x2i_head_reg) = C[k].x2i_head /\ RegRead(C, d.i2x_tail_reg) = C[k].i2x_tail
  BY <1>1, <1>2, <1>3 DEF RegRead
<1>5. RegWrite(C, d.x2i_tail_reg, v) = SetX2iTail(C, k, v)
  BY <1>1, <1>2, <1>3 DEF RegWrite, SetX2iTail, SetI2xHead, SetIntr
<1>6. RegWrite(C, d.i2x_head_reg, v) = SetI2xHead(C, k, v)
  BY <1>1, <1>2, <1>3 DEF RegWrite, SetX2iTail, SetI2xHead, SetIntr
<1>7. RegWrite(C, d.intr_reg, v) = SetIntr(C, k, v)
  BY <1>1, <1>2, <1>3 DEF RegWrite, SetX2iTail, SetI2xHead, SetIntr
<1> QED BY <1>1, <1>3, <1>4, <1>5, <1>6, <1>7

\* A word of memory after an area was filled.
LEMMA FillFacts ==
    ASSUME NEW mem, NEW off, NEW len, NEW what, NEW p \in Pages
    PROVE  Fill(mem, off, len, what)[p] = IF p \in PagesOf(off, len) THEN what ELSE mem[p]
BY DEF Fill

\* The device has taken the request of channel c and answered it: then it is c2.
Answered(c, c2, at) ==
    /\ c2 \in ChanRecs /\ c2.active = c.active /\ c2.index = c.index
    /\ c2.x2i_buf = c.x2i_buf /\ c2.x2i_size = c.x2i_size
    /\ c2.i2x_buf = c.i2x_buf /\ c2.i2x_size = c.i2x_size
    /\ c2.x2i_head = at /\ c2.x2i_tail = at /\ c2.i2x_head = c.i2x_head
    /\ c2.i2x_tail = Other(c.i2x_tail) /\ c2.intr = 1

\* The driver d has posted a request and waits: then it is d2.
Asked(d, d2) ==
    /\ d2 \in DrvRecs /\ d2.x2i_tail = Other(d.x2i_tail) /\ d2.waiting
    /\ d2.i2x_head = d.i2x_head /\ d2.got = d.got
    /\ d2.x2i_head_reg = d.x2i_head_reg /\ d2.x2i_tail_reg = d.x2i_tail_reg
    /\ d2.i2x_head_reg = d.i2x_head_reg /\ d2.i2x_tail_reg = d.i2x_tail_reg
    /\ d2.intr_reg = d.intr_reg /\ d2.msix_id = d.msix_id
    /\ d2.x2i_start = d.x2i_start /\ d2.x2i_size = d.x2i_size
    /\ d2.i2x_start = d.i2x_start /\ d2.i2x_size = d.i2x_size

\* The two ends are in step again, with an answer that waits.
LEMMA AnswerKeeps ==
    ASSUME NEW k, NEW c, NEW d, NEW c2, NEW d2, NEW raised, NEW raised2, raised2 = TRUE,
           ChanOK(k, c), InStep(k, c, d, raised), ~d.waiting,
           Answered(c, c2, Other(d.x2i_tail)), Asked(d, d2)
    PROVE  ChanOK(k, c2) /\ InStep(k, c2, d2, raised2)
<1>1. /\ c.active /\ c.index = k /\ c.x2i_buf = X2iBuf(k) /\ c.i2x_buf = I2xBuf(k)
      /\ c.x2i_size = RingSize(k) /\ c.i2x_size = RingSize(k)
      /\ d.i2x_head \in 0 .. 1 /\ c.i2x_tail = d.i2x_head /\ c.i2x_head = d.i2x_head
      /\ AtHome(k, d) /\ d.got \in {<<>>, <<"i2x", k>>}
  BY DEF ChanOK, InStep, DrvRecs
<1>2. ChanOK(k, c2)
  BY <1>1 DEF ChanOK, Answered
<1>3. AtHome(k, d2)
  BY <1>1 DEF AtHome, Asked
<1>4. Other(d.i2x_head) # d.i2x_head
  BY <1>1 DEF Other
<1>5. /\ d2.waiting /\ d2 \in DrvRecs /\ d2.got \in {<<>>, <<"i2x", k>>} /\ c2.active
      /\ c2.x2i_tail = d2.x2i_tail /\ c2.i2x_head = d2.i2x_head
      /\ c2.i2x_tail # d2.i2x_head /\ c2.intr = 1
  BY <1>1, <1>4 DEF Answered, Asked
<1> QED BY <1>2, <1>3, <1>5 DEF InStep

\* A request taken, on channel k of C.
LEMMA TakenFacts ==
    ASSUME NEW C \in [Chans -> ChanRecs], NEW k \in Chans, NEW v \in 0 .. 1
    PROVE  LET P == SetX2iTail(C, k, v)
               Q == Consumed(P, k)
           IN  /\ P \in [Chans -> ChanRecs] /\ P[k].x2i_tail = v
               /\ P[k].active = C[k].active /\ P[k].x2i_head = C[k].x2i_head
               /\ P[k].x2i_buf = C[k].x2i_buf /\ P[k].index = C[k].index
               /\ P[k].i2x_buf = C[k].i2x_buf /\ P[k].i2x_size = C[k].i2x_size
               /\ Q \in [Chans -> ChanRecs] /\ Q[k].x2i_head = v /\ Q[k].x2i_tail = v
               /\ Q[k].active = C[k].active /\ Q[k].index = C[k].index
               /\ Q[k].x2i_buf = C[k].x2i_buf /\ Q[k].x2i_size = C[k].x2i_size
               /\ Q[k].i2x_buf = C[k].i2x_buf /\ Q[k].i2x_size = C[k].i2x_size
               /\ Q[k].i2x_head = C[k].i2x_head /\ Q[k].i2x_tail = C[k].i2x_tail
               /\ Q[k].intr = C[k].intr
               /\ \A j \in Chans : j # k => P[j] = C[j] /\ Q[j] = C[j]
<1> DEFINE P == SetX2iTail(C, k, v)
           Q == Consumed(P, k)
<1>1. C[k] \in ChanRecs
  OBVIOUS
<1>2. /\ P \in [Chans -> ChanRecs] /\ P[k].x2i_tail = v
      /\ P[k].active = C[k].active /\ P[k].x2i_head = C[k].x2i_head
      /\ P[k].x2i_buf = C[k].x2i_buf /\ P[k].index = C[k].index
      /\ P[k].x2i_size = C[k].x2i_size /\ P[k].intr = C[k].intr
      /\ P[k].i2x_head = C[k].i2x_head /\ P[k].i2x_tail = C[k].i2x_tail
      /\ P[k].i2x_buf = C[k].i2x_buf /\ P[k].i2x_size = C[k].i2x_size
      /\ \A j \in Chans : j # k => P[j] = C[j]
  BY <1>1 DEF ChanRecs, SetX2iTail
<1> HIDE DEF P
<1>3. P[k] \in ChanRecs
  BY <1>2
<1>4. /\ Q \in [Chans -> ChanRecs] /\ Q[k].x2i_head = v /\ Q[k].x2i_tail = v
      /\ Q[k].active = P[k].active /\ Q[k].index = P[k].index
      /\ Q[k].x2i_buf = P[k].x2i_buf /\ Q[k].x2i_size = P[k].x2i_size
      /\ Q[k].i2x_buf = P[k].i2x_buf /\ Q[k].i2x_size = P[k].i2x_size
      /\ Q[k].i2x_head = P[k].i2x_head /\ Q[k].i2x_tail = P[k].i2x_tail
      /\ Q[k].intr = P[k].intr
      /\ \A j \in Chans : j # k => Q[j] = P[j]
  BY <1>2, <1>3 DEF ChanRecs, Consumed
<1> HIDE DEF Q
<1> QED BY <1>2, <1>4 DEF P, Q

\* A reply sent on channel k of C.
LEMMA SentFacts ==
    ASSUME NEW C \in [Chans -> ChanRecs], NEW k \in Chans
    PROVE  LET R == Sent(C, k)
           IN  /\ R \in [Chans -> ChanRecs]
               /\ R[k].active = C[k].active /\ R[k].index = C[k].index
               /\ R[k].x2i_buf = C[k].x2i_buf /\ R[k].x2i_size = C[k].x2i_size
               /\ R[k].i2x_buf = C[k].i2x_buf /\ R[k].i2x_size = C[k].i2x_size
               /\ R[k].x2i_head = C[k].x2i_head /\ R[k].x2i_tail = C[k].x2i_tail
               /\ R[k].i2x_head = C[k].i2x_head /\ R[k].i2x_tail = Other(C[k].i2x_tail)
               /\ R[k].intr = 1
               /\ \A j \in Chans : j # k => R[j] = C[j]
<1>1. C[k] \in ChanRecs /\ C[k].i2x_tail \in 0 .. 1
  BY DEF ChanRecs
<1>2. Other(C[k].i2x_tail) \in 0 .. 1
  BY <1>1 DEF Other
<1> DEFINE v == Other(C[k].i2x_tail)
           P == [C EXCEPT ![k].i2x_tail = v]
           R == [P EXCEPT ![k].intr = 1]
<1>3. Sent(C, k) = R
  BY DEF Sent
<1> HIDE DEF v
<1>4. /\ P \in [Chans -> ChanRecs]
      /\ P[k].active = C[k].active /\ P[k].index = C[k].index
      /\ P[k].x2i_buf = C[k].x2i_buf /\ P[k].x2i_size = C[k].x2i_size
      /\ P[k].i2x_buf = C[k].i2x_buf /\ P[k].i2x_size = C[k].i2x_size
      /\ P[k].x2i_head = C[k].x2i_head /\ P[k].x2i_tail = C[k].x2i_tail
      /\ P[k].i2x_head = C[k].i2x_head /\ P[k].i2x_tail = v
      /\ \A j \in Chans : j # k => P[j] = C[j]
  BY <1>1, <1>2 DEF ChanRecs, v
<1> HIDE DEF P
<1>5. P[k] \in ChanRecs
  BY <1>4
<1>6. /\ R \in [Chans -> ChanRecs]
      /\ R[k].active = P[k].active /\ R[k].index = P[k].index
      /\ R[k].x2i_buf = P[k].x2i_buf /\ R[k].x2i_size = P[k].x2i_size
      /\ R[k].i2x_buf = P[k].i2x_buf /\ R[k].i2x_size = P[k].i2x_size
      /\ R[k].x2i_head = P[k].x2i_head /\ R[k].x2i_tail = P[k].x2i_tail
      /\ R[k].i2x_head = P[k].i2x_head /\ R[k].i2x_tail = P[k].i2x_tail
      /\ R[k].intr = 1
      /\ \A j \in Chans : j # k => R[j] = P[j]
  BY <1>4, <1>5 DEF ChanRecs
<1> HIDE DEF R
<1> QED BY <1>3, <1>4, <1>6 DEF v

\* A driver that posts a request, in channel k of D.
LEMMA AskedFacts ==
    ASSUME NEW D \in [Chans -> DrvRecs \cup {Nothing}], NEW k \in Chans, D[k] \in DrvRecs
    PROVE  LET W == [D EXCEPT ![k].x2i_tail = Other(@), ![k].waiting = TRUE]
           IN  /\ W \in [Chans -> DrvRecs \cup {Nothing}] /\ Asked(D[k], W[k])
               /\ \A j \in Chans : j # k => W[j] = D[j]
<1>1. D[k].x2i_tail \in 0 .. 1
  BY DEF DrvRecs
<1>2. Other(D[k].x2i_tail) \in 0 .. 1
  BY <1>1 DEF Other
<1> DEFINE v == Other(D[k].x2i_tail)
           P == [D EXCEPT ![k].x2i_tail = v]
           W == [P EXCEPT ![k].waiting = TRUE]
<1>3. [D EXCEPT ![k].x2i_tail = Other(@), ![k].waiting = TRUE] = W
  OBVIOUS
<1> HIDE DEF v
<1>4. P[k] = [D[k] EXCEPT !.x2i_tail = v] /\ \A j \in Chans : j # k => P[j] = D[j]
  OBVIOUS
<1>5. /\ P[k] \in DrvRecs /\ P[k].x2i_tail = v
      /\ P[k].i2x_head = D[k].i2x_head /\ P[k].got = D[k].got
      /\ P[k].x2i_head_reg = D[k].x2i_head_reg /\ P[k].x2i_tail_reg = D[k].x2i_tail_reg
      /\ P[k].i2x_head_reg = D[k].i2x_head_reg /\ P[k].i2x_tail_reg = D[k].i2x_tail_reg
      /\ P[k].intr_reg = D[k].intr_reg /\ P[k].msix_id = D[k].msix_id
      /\ P[k].x2i_start = D[k].x2i_start /\ P[k].x2i_size = D[k].x2i_size
      /\ P[k].i2x_start = D[k].i2x_start /\ P[k].i2x_size = D[k].i2x_size
  BY <1>2, <1>4 DEF DrvRecs, v
<1>6. P \in [Chans -> DrvRecs \cup {Nothing}]
  BY <1>5
<1> HIDE DEF P
<1>7. W[k] = [P[k] EXCEPT !.waiting = TRUE] /\ \A j \in Chans : j # k => W[j] = P[j]
  BY <1>6
<1>9. P[k] \in DrvRecs => W \in [Chans -> DrvRecs \cup {Nothing}]
  BY <1>6 DEF DrvRecs
<1> HIDE DEF W
<1>8. /\ W[k].x2i_tail = P[k].x2i_tail /\ W[k].waiting = TRUE
      /\ W[k].i2x_head = P[k].i2x_head /\ W[k].got = P[k].got
      /\ W[k].x2i_head_reg = P[k].x2i_head_reg /\ W[k].x2i_tail_reg = P[k].x2i_tail_reg
      /\ W[k].i2x_head_reg = P[k].i2x_head_reg /\ W[k].i2x_tail_reg = P[k].i2x_tail_reg
      /\ W[k].intr_reg = P[k].intr_reg /\ W[k].msix_id = P[k].msix_id
      /\ W[k].x2i_start = P[k].x2i_start /\ W[k].x2i_size = P[k].x2i_size
      /\ W[k].i2x_start = P[k].i2x_start /\ W[k].i2x_size = P[k].i2x_size
      /\ W[k] \in DrvRecs
  BY <1>5, <1>7 DEF DrvRecs
<1>10. Asked(D[k], W[k])
  BY <1>5, <1>8 DEF Asked, v
<1>11. \A j \in Chans : j # k => W[j] = D[j]
  BY <1>4, <1>7
<1> QED BY <1>3, <1>5, <1>9, <1>10, <1>11

\* What the invariant says of channel k.
LEMMA EndFacts ==
    ASSUME IInv, LayoutFits, NEW k \in Chans
    PROVE  /\ k \in 0 .. 6 /\ chan[k] \in ChanRecs /\ ChanOK(k, chan[k])
           /\ Up(k) => InStep(k, chan[k], drv[k], k \in vec) /\ drv[k] \in DrvRecs
           /\ chan \in [Chans -> ChanRecs] /\ drv \in [Chans -> DrvRecs \cup {Nothing}]
<1>1. k \in 0 .. 6
  BY ChanFacts
<1>2. ChanOK(k, chan[k]) /\ (Up(k) => InStep(k, chan[k], drv[k], k \in vec))
  BY DEF IInv, Ends
<1> QED BY <1>1, <1>2 DEF IInv, Types, InStep

\* The driver of channel k posts a request: the device finds it, and whatever else it
\* does, its reply leaves the two ends in step.
LEMMA Exchange ==
    ASSUME IInv, LayoutFits, NEW k \in Chans, CanPost(k)
    PROVE  /\ chan_idx(drv[k].x2i_tail_reg) = k
           /\ Finds(Posted(k), PostedSram(k), k)
           /\ \A p \in Pages :
                 PostedSram(k)[p] = IF p \in X2iPages(k) THEN <<"x2i", k>> ELSE sram[p]
           /\ Posted(k)[k].index = k
           /\ Posted(k)[k].i2x_buf = I2xBuf(k) /\ Posted(k)[k].i2x_size = RingSize(k)
           /\ LET Q == Consumed(Posted(k), k)
              IN  /\ Q \in [Chans -> ChanRecs] /\ Q[k].index = k
                  /\ Q[k].i2x_buf = I2xBuf(k) /\ Q[k].i2x_size = RingSize(k)
                  /\ \A j \in Chans : j # k => Q[j] = chan[j]
                  /\ \A R \in [Chans -> ChanRecs] : R[k] = Q[k] =>
                        /\ ChanOK(k, Sent(R, k)[k]) /\ Sent(R, k)[k].active
                        /\ InStep(k, Sent(R, k)[k], Waits(k)[k], TRUE)
           /\ Waits(k) \in [Chans -> DrvRecs \cup {Nothing}] /\ Waits(k)[k].waiting
           /\ \A j \in Chans : j # k => Waits(k)[j] = drv[j]
<1> DEFINE c == chan[k]
           d == drv[k]
           v == Other(d.x2i_tail)
           P == SetX2iTail(chan, k, v)
           Q == Consumed(P, k)
           W == Waits(k)
<1>1. /\ k \in 0 .. 6 /\ c \in ChanRecs /\ ChanOK(k, c)
      /\ InStep(k, c, d, k \in vec) /\ d \in DrvRecs /\ ~d.waiting
      /\ chan \in [Chans -> ChanRecs] /\ drv \in [Chans -> DrvRecs \cup {Nothing}]
  BY EndFacts DEF CanPost
<1>2. /\ c.active /\ AtHome(k, d) /\ c.x2i_tail = d.x2i_tail /\ d.x2i_tail \in 0 .. 1
      /\ c.x2i_head = c.x2i_tail /\ c.x2i_buf = X2iBuf(k) /\ c.i2x_buf = I2xBuf(k)
      /\ c.i2x_size = RingSize(k) /\ c.index = k
      /\ d.x2i_start = X2iBuf(k) /\ d.x2i_size = RingSize(k)
  BY <1>1 DEF InStep, ChanOK, DrvRecs, AtHome
<1>3. v \in 0 .. 1 /\ v # d.x2i_tail
  BY <1>2 DEF Other
<1>4. Posted(k) = P /\ chan_idx(d.x2i_tail_reg) = k /\ k < XDNA_MAX_CHANNELS
  BY <1>2, Routed DEF Posted
<1>5. \A p \in Pages : PostedSram(k)[p] = IF p \in X2iPages(k) THEN <<"x2i", k>> ELSE sram[p]
  <2>1. ~(X2iBuf(k) + RingSize(k) > XDNA_BAR_SRAM_SIZE)
    BY <1>1, BufFacts DEF Within, XDNA_BAR_SRAM_SIZE
  <2>2. PagesOf(X2iBuf(k), RingSize(k)) = X2iPages(k)
    BY <1>1, PagesFacts
  <2>3. PostedSram(k) = Fill(sram, X2iBuf(k), RingSize(k), <<"x2i", k>>)
    BY <1>2, <2>1 DEF PostedSram, SramWrite
  <2> QED BY <2>2, <2>3, FillFacts
<1> HIDE DEF v
<1>6. /\ P \in [Chans -> ChanRecs] /\ P[k].x2i_tail = v /\ P[k].active = c.active
      /\ P[k].x2i_head = c.x2i_head /\ P[k].x2i_buf = c.x2i_buf /\ P[k].index = c.index
      /\ P[k].i2x_buf = c.i2x_buf /\ P[k].i2x_size = c.i2x_size
      /\ Q \in [Chans -> ChanRecs] /\ Q[k].x2i_head = v /\ Q[k].x2i_tail = v
      /\ Q[k].active = c.active /\ Q[k].index = c.index
      /\ Q[k].x2i_buf = c.x2i_buf /\ Q[k].x2i_size = c.x2i_size
      /\ Q[k].i2x_buf = c.i2x_buf /\ Q[k].i2x_size = c.i2x_size
      /\ Q[k].i2x_head = c.i2x_head /\ Q[k].i2x_tail = c.i2x_tail
      /\ Q[k].intr = c.intr
      /\ \A j \in Chans : j # k => Q[j] = chan[j]
  BY <1>1, <1>3, TakenFacts
<1> HIDE DEF P, Q
<1>7. Finds(P, PostedSram(k), k)
  <2>1. X2iBuf(k) \div PageSize \in X2iPages(k) /\ X2iPages(k) \subseteq Pages
    BY <1>1, PagesFacts, PagesApart
  <2>2. PostedSram(k)[X2iBuf(k) \div PageSize] = <<"x2i", k>>
    BY <1>5, <2>1
  <2>3. <<"x2i", k>> # <<>>
    OBVIOUS
  <2> QED BY <1>2, <1>3, <1>4, <1>6, <2>2, <2>3 DEF Finds
<1>8. /\ W \in [Chans -> DrvRecs \cup {Nothing}] /\ Asked(d, W[k])
      /\ \A j \in Chans : j # k => W[j] = drv[j]
  BY <1>1, AskedFacts DEF Waits
<1> HIDE DEF W
<1>9. W[k].waiting
  BY <1>8 DEF Asked
<1>10. ASSUME NEW R \in [Chans -> ChanRecs], R[k] = Q[k]
       PROVE  /\ ChanOK(k, Sent(R, k)[k]) /\ Sent(R, k)[k].active
              /\ InStep(k, Sent(R, k)[k], W[k], TRUE)
  <2> DEFINE e == Sent(R, k)[k]
  <2>1. /\ e \in ChanRecs
        /\ e.active = R[k].active /\ e.index = R[k].index
        /\ e.x2i_buf = R[k].x2i_buf /\ e.x2i_size = R[k].x2i_size
        /\ e.i2x_buf = R[k].i2x_buf /\ e.i2x_size = R[k].i2x_size
        /\ e.x2i_head = R[k].x2i_head /\ e.x2i_tail = R[k].x2i_tail
        /\ e.i2x_head = R[k].i2x_head /\ e.i2x_tail = Other(R[k].i2x_tail)
        /\ e.intr = 1
    BY SentFacts
  <2> HIDE DEF e
  <2>2. Answered(c, e, Other(d.x2i_tail))
    BY <1>6, <1>10, <2>1 DEF Answered, v
  <2>3. ChanOK(k, e) /\ InStep(k, e, W[k], TRUE)
    BY <1>1, <1>8, <2>2, AnswerKeeps
  <2>4. e.active
    BY <1>2, <2>2 DEF Answered
  <2> QED BY <2>3, <2>4 DEF e
<1>11. Consumed(Posted(k), k) = Q
  BY <1>4 DEF Q
<1> QED BY <1>2, <1>4, <1>5, <1>6, <1>7, <1>8, <1>9, <1>10, <1>11 DEF W

\* The first free slot is a free slot.
LEMMA FirstFreeIsFree ==
    ASSUME LayoutFits, FreeSlots # {}
    PROVE  FirstFree \in FreeSlots
<1>1. FreeSlots \subseteq 0 .. 5
  BY ChanFacts DEF FreeSlots
<1>2. \E s \in FreeSlots : \A t \in FreeSlots : s <= t
  <2>1. CASE 0 \in FreeSlots
    BY <1>1, <2>1
  <2>2. CASE 0 \notin FreeSlots /\ 1 \in FreeSlots
    BY <1>1, <2>2
  <2>3. CASE 0 \notin FreeSlots /\ 1 \notin FreeSlots /\ 2 \in FreeSlots
    BY <1>1, <2>3
  <2>4. CASE 0 \notin FreeSlots /\ 1 \notin FreeSlots /\ 2 \notin FreeSlots /\ 3 \in FreeSlots
    BY <1>1, <2>4
  <2>5. CASE /\ 0 \notin FreeSlots /\ 1 \notin FreeSlots /\ 2 \notin FreeSlots
             /\ 3 \notin FreeSlots /\ 4 \in FreeSlots
    BY <1>1, <2>5
  <2>6. CASE /\ 0 \notin FreeSlots /\ 1 \notin FreeSlots /\ 2 \notin FreeSlots
             /\ 3 \notin FreeSlots /\ 4 \notin FreeSlots
    <3>1. \A t \in FreeSlots : t = 5
      BY <1>1, <2>6
    <3> QED BY <3>1
  <2> QED BY <2>1, <2>2, <2>3, <2>4, <2>5, <2>6
<1> QED BY <1>2 DEF FirstFree

\* Another vector does not put a channel out of step.
LEMMA StillInStep ==
    ASSUME NEW k, NEW c, NEW d, NEW r1, NEW r2, InStep(k, c, d, r1), d.waiting /\ r1 => r2
    PROVE  InStep(k, c, d, r2)
BY DEF InStep

\* The rings of a channel keep to themselves when its pages and its state do.
LEMMA RingsKept ==
    ASSUME IInv, NEW k \in Chans, NEW mem, chan[k].active,
           \A p \in X2iPages(k) \cup I2xPages(k) : mem[p] = sram[p]
    PROVE  /\ \A p \in X2iPages(k) : mem[p] \in {<<>>, <<"x2i", k>>}
           /\ \A p \in I2xPages(k) : mem[p] \in {<<>>, <<"i2x", k>>}
BY DEF IInv, SramInv

\* A reply on channel k of R, where R is what became of the channels otherwise.
LEMMA Replied ==
    ASSUME IInv, LayoutFits, NEW k \in Chans, CanPost(k),
           NEW R \in [Chans -> ChanRecs], R[k] = Consumed(Posted(k), k)[k],
           chan' = Sent(R, k), vec' = vec \cup {k}, drv'[k] = Waits(k)[k]
    PROVE  /\ chan' \in [Chans -> ChanRecs] /\ vec' \subseteq Chans /\ k \in vec'
           /\ ChanOK(k, chan'[k]) /\ InStep(k, chan'[k], drv'[k], k \in vec')
           /\ chan'[k].active /\ drv'[k].waiting
           /\ \A j \in Chans : j # k => chan'[j] = R[j]
<1>1. /\ ChanOK(k, Sent(R, k)[k]) /\ Sent(R, k)[k].active
      /\ InStep(k, Sent(R, k)[k], Waits(k)[k], TRUE) /\ Waits(k)[k].waiting
  BY Exchange
<1>2. Sent(R, k) \in [Chans -> ChanRecs] /\ \A j \in Chans : j # k => Sent(R, k)[j] = R[j]
  BY SentFacts
<1>3. vec' \subseteq Chans /\ k \in vec'
  BY DEF IInv, Types
<1>4. InStep(k, chan'[k], drv'[k], k \in vec')
  BY <1>1, <1>3, StillInStep
<1> QED BY <1>1, <1>2, <1>3, <1>4

\* The memory after an exchange on channel k: its own rings, or as mem has it.
LEMMA ExchangeMemory ==
    ASSUME IInv, LayoutFits, NEW k \in Chans, CanPost(k), NEW mem,
           \A p \in X2iPages(k) : mem[p] = <<"x2i", k>>
    PROVE  LET new == Fill(mem, I2xBuf(k), RingSize(k), <<"i2x", k>>)
           IN  /\ \A p \in X2iPages(k) : new[p] = <<"x2i", k>>
               /\ \A p \in I2xPages(k) : new[p] = <<"i2x", k>>
               /\ \A p \in Pages \ I2xPages(k) : new[p] = mem[p]
<1>1. k \in 0 .. 6
  BY ChanFacts
<1>2. /\ PagesOf(I2xBuf(k), RingSize(k)) = I2xPages(k)
      /\ X2iPages(k) \subseteq Pages /\ I2xPages(k) \subseteq Pages
      /\ X2iPages(k) \cap I2xPages(k) = {}
  BY <1>1, PagesFacts, PagesApart
<1> QED BY <1>2, FillFacts
-----------------------------------------------------------------------------
(* Steps                                                                   *)

\* An exchange on channel k that changes nothing else keeps the invariant.
LEMMA ExchangeInv ==
    ASSUME IInv, LayoutFits, NEW k \in Chans, CanPost(k),
           chan' = Sent(Consumed(Posted(k), k), k), vec' = vec \cup {k},
           sram' = Fill(PostedSram(k), I2xBuf(k), RingSize(k), <<"i2x", k>>),
           drv' = Waits(k), ctx' = ctx, fw_alive' = fw_alive, told' = told
    PROVE  IInv'
<1> DEFINE Q == Consumed(Posted(k), k)
<1>1. CanPost(k) /\ fw_alive /\ Up(k) /\ ~drv[k].waiting
  BY DEF CanPost
<1>2. /\ \A p \in Pages : PostedSram(k)[p] = IF p \in X2iPages(k) THEN <<"x2i", k>> ELSE sram[p]
      /\ Q \in [Chans -> ChanRecs] /\ \A j \in Chans : j # k => Q[j] = chan[j]
      /\ Waits(k) \in [Chans -> DrvRecs \cup {Nothing}]
      /\ \A j \in Chans : j # k => Waits(k)[j] = drv[j]
  BY <1>1, Exchange
<1>3. /\ chan' = Sent(Q, k) /\ vec' = vec \cup {k}
      /\ sram' = Fill(PostedSram(k), I2xBuf(k), RingSize(k), <<"i2x", k>>)
      /\ drv' = Waits(k) /\ ctx' = ctx /\ fw_alive' = fw_alive /\ told' = told
  OBVIOUS
<1> HIDE DEF Q
<1>4. /\ chan' \in [Chans -> ChanRecs] /\ vec' \subseteq Chans /\ k \in vec'
      /\ ChanOK(k, chan'[k]) /\ InStep(k, chan'[k], drv'[k], k \in vec')
      /\ chan'[k].active /\ drv'[k].waiting
      /\ \A j \in Chans : j # k => chan'[j] = chan[j]
  BY <1>1, <1>2, <1>3, Replied DEF Q
<1>5. \A j \in Chans : j # k => drv'[j] = drv[j]
  BY <1>2, <1>3
<1>6. k \in 0 .. 6 /\ chan[k].active /\ 0 \in Chans
  BY <1>1, EndFacts, ChanFacts DEF InStep
<1>7. Types'
  BY <1>2, <1>3, <1>4 DEF IInv, Types
<1>8. Ends'
  <2> SUFFICES ASSUME NEW j \in Chans
               PROVE  ChanOK(j, chan'[j]) /\ (Up(j)' => InStep(j, chan'[j], drv'[j], j \in vec'))
    BY DEF Ends
  <2>1. CASE j = k
    BY <1>4, <2>1
  <2>2. CASE j # k
    <3>1. ChanOK(j, chan[j]) /\ (Up(j) => InStep(j, chan[j], drv[j], j \in vec))
      BY EndFacts
    <3>2. j \in vec => j \in vec'
      BY <1>3
    <3>3. Up(j) => InStep(j, chan[j], drv[j], j \in vec')
      BY <3>1, <3>2, StillInStep
    <3> QED BY <1>4, <1>5, <2>2, <3>1, <3>3 DEF Up
  <2> QED BY <2>1, <2>2
<1>9. Owned'
  <2>1. \A j \in Chans : chan'[j].active => chan[j].active
    BY <1>4, <1>6
  <2>2. \A s \in Slots : s + 1 \in Chans
    BY ChanFacts
  <2> QED BY <1>1, <1>3, <2>1, <2>2 DEF IInv, Owned
<1>10. ToldInv'
  <2> SUFFICES ASSUME told # Nothing
               PROVE  \E s \in Slots : /\ told = Told(CtxChannel(s)) /\ chan'[s + 1] = CtxChannel(s)
                                       /\ ~Up(s + 1)' /\ (Up(0)' => drv'[0].waiting)
    BY <1>3 DEF ToldInv
  <2>1. PICK s \in Slots : /\ told = Told(CtxChannel(s)) /\ chan[s + 1] = CtxChannel(s)
                           /\ ~Up(s + 1) /\ (Up(0) => drv[0].waiting)
    BY DEF IInv, ToldInv
  <2>2. s + 1 \in Chans /\ s + 1 # k /\ k # 0
    BY <1>1, <2>1, ChanFacts
  <2> QED BY <1>4, <1>5, <1>6, <2>1, <2>2 DEF Up
<1>11. SramInv'
  <2>1. /\ \A p \in X2iPages(k) : sram'[p] = <<"x2i", k>>
        /\ \A p \in I2xPages(k) : sram'[p] = <<"i2x", k>>
        /\ \A p \in Pages \ (X2iPages(k) \cup I2xPages(k)) : sram'[p] = sram[p]
    <3>1. X2iPages(k) \subseteq Pages
      BY <1>6, PagesApart
    <3>2. \A p \in X2iPages(k) : PostedSram(k)[p] = <<"x2i", k>>
      BY <1>2, <3>1
    <3>3. /\ \A p \in X2iPages(k) : sram'[p] = <<"x2i", k>>
          /\ \A p \in I2xPages(k) : sram'[p] = <<"i2x", k>>
          /\ \A p \in Pages \ I2xPages(k) : sram'[p] = PostedSram(k)[p]
      BY <1>1, <3>2, ExchangeMemory
    <3> QED BY <1>2, <3>3
  <2>2. ASSUME NEW j \in Chans, chan'[j].active
        PROVE  /\ \A p \in X2iPages(j) : sram'[p] \in {<<>>, <<"x2i", j>>}
               /\ \A p \in I2xPages(j) : sram'[p] \in {<<>>, <<"i2x", j>>}
    <3>1. CASE j = k
      BY <2>1, <3>1
    <3>2. CASE j # k
      <4>1. j \in 0 .. 6 /\ chan[j].active
        BY <1>4, <2>2, <3>2, ChanFacts
      <4>2. /\ X2iPages(j) \cup I2xPages(j) \subseteq Pages
            /\ (X2iPages(j) \cup I2xPages(j)) \cap (X2iPages(k) \cup I2xPages(k)) = {}
        BY <1>6, <3>2, <4>1, PagesApart
      <4>3. \A p \in X2iPages(j) \cup I2xPages(j) : sram'[p] = sram[p]
        BY <2>1, <4>2
      <4> QED BY <4>1, <4>3, RingsKept
    <3> QED BY <3>1, <3>2
  <2>3. sram'[InfoPage] = sram[InfoPage] /\ sram'[AlivePage] = sram[AlivePage]
    BY <1>6, <2>1, PagesApart, WordFacts
  <2>4. sram[AlivePage] # <<>> => ~Up(0)' /\ chan'[0] = Mgmt /\ told' = Nothing
    <3>1. sram[AlivePage] # <<>> => ~Up(0) /\ chan[0] = Mgmt /\ told = Nothing
      BY DEF IInv, SramInv
    <3> QED BY <1>1, <1>3, <1>4, <1>5, <1>6, <3>1 DEF Up
  <2>5. fw_alive' => sram'[InfoPage] = <<"info">>
    BY <1>3, <2>3 DEF IInv, SramInv
  <2> QED BY <2>2, <2>3, <2>4, <2>5 DEF SramInv
<1> QED BY <1>7, <1>8, <1>9, <1>10, <1>11 DEF IInv

\* A request that changes no channel.
LEMMA AskInv ==
    ASSUME IInv, LayoutFits, NEW k \in Chans, Ask(k)
    PROVE  IInv'
<1>1. CanPost(k)
  BY DEF Ask
<1>2. /\ chan_idx(drv[k].x2i_tail_reg) = k /\ Finds(Posted(k), PostedSram(k), k)
      /\ Posted(k)[k].index = k
      /\ Posted(k)[k].i2x_buf = I2xBuf(k) /\ Posted(k)[k].i2x_size = RingSize(k)
  BY <1>1, Exchange
<1>3. /\ chan' = Sent(Consumed(Posted(k), k), k) /\ vec' = vec \cup {k}
      /\ sram' = Fill(PostedSram(k), I2xBuf(k), RingSize(k), <<"i2x", k>>)
      /\ drv' = Waits(k) /\ ctx' = ctx /\ fw_alive' = fw_alive /\ told' = told
  BY <1>2 DEF Ask, SentSram
<1> QED BY <1>1, <1>3, ExchangeInv

\* A context is created, or refused.
LEMMA CreateInv ==
    ASSUME IInv, LayoutFits, Create
    PROVE  IInv'
<1> DEFINE Q == Consumed(Posted(0), 0)
           mem == PostedSram(0)
<1>1. 0 \in Chans /\ CanPost(0) /\ fw_alive /\ Up(0) /\ ~drv[0].waiting
  BY ChanFacts DEF Create, CanPost
<1>2. /\ \A p \in Pages : mem[p] = IF p \in X2iPages(0) THEN <<"x2i", 0>> ELSE sram[p]
      /\ Q \in [Chans -> ChanRecs] /\ Q[0].index = 0
      /\ Q[0].i2x_buf = I2xBuf(0) /\ Q[0].i2x_size = RingSize(0)
      /\ \A j \in Chans : j # 0 => Q[j] = chan[j]
      /\ Waits(0) \in [Chans -> DrvRecs \cup {Nothing}]
      /\ \A j \in Chans : j # 0 => Waits(0)[j] = drv[j]
  BY <1>1, Exchange
<1>3. drv' = Waits(0) /\ fw_alive' = fw_alive /\ vec' = vec \cup {0}
  BY <1>2 DEF Create
<1>4. CASE FreeSlots = {}
  <2>1. /\ chan' = Sent(Q, 0) /\ ctx' = ctx /\ told' = told
        /\ sram' = Fill(mem, I2xBuf(0), RingSize(0), <<"i2x", 0>>)
    BY <1>2, <1>4 DEF Create, SentSram
  <2> QED BY <1>1, <1>3, <2>1, ExchangeInv
<1>5. CASE FreeSlots # {}
  <2>0. PICK n : n = FirstFree
    OBVIOUS
  <2> DEFINE new == CtxChannel(n)
             R == [Q EXCEPT ![n + 1] = new]
  <2>1. n \in Slots /\ n \notin ctx /\ n \in 0 .. 5 /\ n + 1 \in Chans /\ n + 1 # 0 /\ n + 1 \in 0 .. 6
    BY <1>5, <2>0, FirstFreeIsFree, ChanFacts DEF FreeSlots
  <2>2. new = NewChannel(n + 1, X2iBuf(n + 1), I2xBuf(n + 1), RingSize(n + 1))
    BY <2>1, ChannelsNamed
  <2>3. /\ new \in ChanRecs /\ Fresh(n + 1, new) /\ ChanOK(n + 1, new)
    BY <2>1, <2>2, NewChannelFacts
  <2>4. new.index = n + 1 /\ new.x2i_buf = X2iBuf(n + 1) /\ new.active
    BY <2>3 DEF Fresh
  <2> DEFINE clean == Fill(mem, X2iBuf(n + 1), XDNA_SRAM_CTX_RB_STRIDE, <<>>)
  <2>5. /\ ctx' = ctx \cup {n} /\ chan' = Sent(R, 0) /\ told' = Told(new)
        /\ sram' = Fill(clean, I2xBuf(0), RingSize(0), <<"i2x", 0>>)
    BY <1>2, <1>5, <2>0, <2>4 DEF Create, SentSram
  <2> HIDE DEF new, mem, Q, clean
  <2>6. R \in [Chans -> ChanRecs] /\ R[0] = Q[0] /\ R[n + 1] = new
        /\ \A j \in Chans : j # n + 1 => R[j] = Q[j]
    BY <1>1, <1>2, <2>1, <2>3
  <2> HIDE DEF R
  <2>7. /\ chan' \in [Chans -> ChanRecs] /\ vec' \subseteq Chans /\ 0 \in vec'
        /\ ChanOK(0, chan'[0]) /\ InStep(0, chan'[0], drv'[0], 0 \in vec')
        /\ chan'[0].active /\ drv'[0].waiting
        /\ \A j \in Chans : j # 0 => chan'[j] = R[j]
    BY <1>1, <1>3, <2>5, <2>6, Replied DEF Q
  <2>8. /\ chan'[n + 1] = new
        /\ \A j \in Chans : j # 0 /\ j # n + 1 => chan'[j] = chan[j]
        /\ \A j \in Chans : j # 0 => drv'[j] = drv[j]
    BY <1>2, <1>3, <2>1, <2>6, <2>7
  <2>9. ~chan[n + 1].active
    BY <2>1 DEF IInv, Owned
  <2>10. ~Up(n + 1) /\ ~Up(n + 1)'
    <3>1. ~Up(n + 1)
      BY <2>1, <2>9, EndFacts DEF InStep
    <3> QED BY <2>1, <2>8, <3>1 DEF Up
  <2>11. Types'
    BY <1>2, <1>3, <2>1, <2>5, <2>7 DEF IInv, Types
  <2>12. Ends'
    <3> SUFFICES ASSUME NEW j \in Chans
                 PROVE  ChanOK(j, chan'[j]) /\ (Up(j)' => InStep(j, chan'[j], drv'[j], j \in vec'))
      BY DEF Ends
    <3>1. CASE j = 0
      BY <2>7, <3>1
    <3>2. CASE j = n + 1
      BY <2>3, <2>8, <2>10, <3>2
    <3>3. CASE j # 0 /\ j # n + 1
      <4>1. ChanOK(j, chan[j]) /\ (Up(j) => InStep(j, chan[j], drv[j], j \in vec))
        BY EndFacts
      <4>2. j \in vec => j \in vec'
        BY <1>3
      <4>3. Up(j) => InStep(j, chan[j], drv[j], j \in vec')
        BY <4>1, <4>2, StillInStep
      <4> QED BY <2>8, <3>3, <4>1, <4>3 DEF Up
    <3> QED BY <3>1, <3>2, <3>3
  <2>13. Owned'
    <3>1. \A s \in Slots : s + 1 \in Chans /\ s + 1 # 0 /\ (s + 1 = n + 1 => s = n)
      BY <2>1, ChanFacts
    <3>2. \A s \in Slots : chan'[s + 1].active => s \in ctx'
      BY <2>5, <2>8, <3>1 DEF IInv, Owned
    <3> QED BY <1>1, <1>3, <3>2 DEF IInv, Owned
  <2>14. ToldInv'
    BY <2>1, <2>5, <2>7, <2>8, <2>10 DEF ToldInv, new
  <2>15. SramInv'
    <3> DEFINE mine == (32 + 4 * (n + 1)) .. (35 + 4 * (n + 1))
    <3>1. /\ X2iPages(0) \subseteq Pages /\ I2xPages(0) \subseteq Pages
          /\ X2iPages(n + 1) \subseteq Pages /\ I2xPages(n + 1) \subseteq Pages
          /\ (X2iPages(0) \cup I2xPages(0)) \cap mine = {}
          /\ X2iPages(n + 1) \subseteq mine /\ I2xPages(n + 1) \subseteq mine
          /\ InfoPage \notin mine /\ AlivePage \notin mine
          /\ PagesOf(X2iBuf(n + 1), XDNA_SRAM_CTX_RB_STRIDE) = mine
      <4>1. /\ X2iPages(n + 1) \subseteq mine /\ I2xPages(n + 1) \subseteq mine
            /\ PagesOf(X2iBuf(n + 1), XDNA_SRAM_CTX_RB_STRIDE) = mine
        BY <2>1, PagesFacts
      <4>2. /\ X2iPages(0) \subseteq Pages /\ I2xPages(0) \subseteq Pages
            /\ X2iPages(n + 1) \subseteq Pages /\ I2xPages(n + 1) \subseteq Pages
        BY <2>1, PagesApart
      <4>3. /\ (X2iPages(0) \cup I2xPages(0)) \cap mine = {}
            /\ InfoPage \notin mine /\ AlivePage \notin mine
        BY <2>1 DEF X2iPages, I2xPages, InfoPage, AlivePage
      <4> QED BY <4>1, <4>2, <4>3
    <3>2. ASSUME NEW j \in Chans, j # 0, j # n + 1
          PROVE  /\ X2iPages(j) \cup I2xPages(j) \subseteq Pages
                 /\ (X2iPages(j) \cup I2xPages(j)) \cap (X2iPages(0) \cup I2xPages(0)) = {}
                 /\ (X2iPages(j) \cup I2xPages(j)) \cap mine = {}
      <4>1. j \in 0 .. 6
        BY ChanFacts
      <4> QED BY <2>1, <3>2, <4>1, PagesApart DEF X2iPages, I2xPages
    <3> HIDE DEF mine
    <3>3. \A p \in Pages : clean[p] = IF p \in mine THEN <<>> ELSE mem[p]
      BY <3>1, FillFacts DEF clean
    <3>4. \A p \in X2iPages(0) : clean[p] = <<"x2i", 0>>
      BY <1>2, <3>1, <3>3
    <3>5. /\ \A p \in X2iPages(0) : sram'[p] = <<"x2i", 0>>
          /\ \A p \in I2xPages(0) : sram'[p] = <<"i2x", 0>>
          /\ \A p \in Pages \ I2xPages(0) : sram'[p] = clean[p]
      BY <1>1, <2>5, <3>4, ExchangeMemory
    <3>6. /\ \A p \in Pages \cap mine : sram'[p] = <<>>
          /\ \A p \in Pages : p \notin mine /\ p \notin X2iPages(0) /\ p \notin I2xPages(0)
                => sram'[p] = sram[p]
      BY <1>2, <3>1, <3>3, <3>5
    <3>7. ASSUME NEW j \in Chans, chan'[j].active
          PROVE  /\ \A p \in X2iPages(j) : sram'[p] \in {<<>>, <<"x2i", j>>}
                 /\ \A p \in I2xPages(j) : sram'[p] \in {<<>>, <<"i2x", j>>}
      <4>1. CASE j = 0
        BY <3>5, <4>1
      <4>2. CASE j = n + 1
        BY <3>1, <3>6, <4>2
      <4>3. CASE j # 0 /\ j # n + 1
        <5>1. \A p \in X2iPages(j) \cup I2xPages(j) : sram'[p] = sram[p]
          BY <3>2, <3>6, <4>3
        <5>2. chan[j].active
          BY <2>8, <3>7, <4>3
        <5> QED BY <5>1, <5>2, RingsKept
      <4> QED BY <4>1, <4>2, <4>3
    <3>8. sram'[InfoPage] = sram[InfoPage] /\ sram'[AlivePage] = sram[AlivePage]
      <4>1. InfoPage \notin X2iPages(0) \cup I2xPages(0) /\ AlivePage \notin X2iPages(0) \cup I2xPages(0)
        BY PagesApart
      <4> QED BY <3>1, <3>6, <4>1, WordFacts
    <3>9. sram'[AlivePage] = <<>>
      BY <1>1, <3>8 DEF IInv, SramInv
    <3>10. sram'[InfoPage] = <<"info">>
      BY <1>1, <3>8 DEF IInv, SramInv
    <3> QED BY <3>7, <3>9, <3>10 DEF SramInv
  <2> QED BY <2>11, <2>12, <2>13, <2>14, <2>15 DEF IInv
<1> QED BY <1>4, <1>5

\* A context is destroyed.
LEMMA DestroyInv ==
    ASSUME IInv, LayoutFits, NEW slot \in Slots, Destroy(slot)
    PROVE  IInv'
<1> DEFINE Q == Consumed(Posted(0), 0)
           mem == PostedSram(0)
           R == [Q EXCEPT ![slot + 1] = NoChannel(slot + 1)]
<1>1. 0 \in Chans /\ CanPost(0) /\ fw_alive /\ Up(0) /\ ~drv[0].waiting
  BY ChanFacts DEF Destroy, CanPost
<1>2. /\ \A p \in Pages : mem[p] = IF p \in X2iPages(0) THEN <<"x2i", 0>> ELSE sram[p]
      /\ Q \in [Chans -> ChanRecs] /\ Q[0].index = 0
      /\ Q[0].i2x_buf = I2xBuf(0) /\ Q[0].i2x_size = RingSize(0)
      /\ \A j \in Chans : j # 0 => Q[j] = chan[j]
      /\ Waits(0) \in [Chans -> DrvRecs \cup {Nothing}]
      /\ \A j \in Chans : j # 0 => Waits(0)[j] = drv[j]
  BY <1>1, Exchange
<1>3. slot + 1 \in Chans /\ slot + 1 # 0 /\ slot + 1 \in 0 .. 6
  BY ChanFacts
<1>4. /\ NoChannel(slot + 1) \in ChanRecs /\ ~NoChannel(slot + 1).active
      /\ ChanOK(slot + 1, NoChannel(slot + 1))
  BY <1>3, NewChannelFacts
<1>5. /\ ctx' = ctx \ {slot} /\ chan' = Sent(R, 0) /\ vec' = vec \cup {0}
      /\ sram' = Fill(mem, I2xBuf(0), RingSize(0), <<"i2x", 0>>)
      /\ drv' = [Waits(0) EXCEPT ![slot + 1] = Nothing]
      /\ fw_alive' = fw_alive /\ told' = told
  BY <1>2 DEF Destroy, SentSram
<1> HIDE DEF mem, Q
<1>6. /\ R \in [Chans -> ChanRecs] /\ R[0] = Q[0] /\ R[slot + 1] = NoChannel(slot + 1)
      /\ \A j \in Chans : j # slot + 1 => R[j] = Q[j]
  BY <1>1, <1>2, <1>3, <1>4
<1> HIDE DEF R
<1>7. /\ drv' \in [Chans -> DrvRecs \cup {Nothing}]
      /\ drv'[0] = Waits(0)[0] /\ drv'[slot + 1] = Nothing
      /\ \A j \in Chans : j # 0 /\ j # slot + 1 => drv'[j] = drv[j]
  BY <1>1, <1>2, <1>3, <1>5
<1>8. /\ chan' \in [Chans -> ChanRecs] /\ vec' \subseteq Chans /\ 0 \in vec'
      /\ ChanOK(0, chan'[0]) /\ InStep(0, chan'[0], drv'[0], 0 \in vec')
      /\ chan'[0].active /\ drv'[0].waiting
      /\ \A j \in Chans : j # 0 => chan'[j] = R[j]
  BY <1>1, <1>5, <1>6, <1>7, Replied DEF Q
<1>9. /\ chan'[slot + 1] = NoChannel(slot + 1)
      /\ \A j \in Chans : j # 0 /\ j # slot + 1 => chan'[j] = chan[j]
  BY <1>2, <1>3, <1>6, <1>8
<1>10. Types'
  BY <1>5, <1>7, <1>8 DEF IInv, Types
<1>11. Ends'
  <2> SUFFICES ASSUME NEW j \in Chans
               PROVE  ChanOK(j, chan'[j]) /\ (Up(j)' => InStep(j, chan'[j], drv'[j], j \in vec'))
    BY DEF Ends
  <2>1. CASE j = 0
    BY <1>8, <2>1
  <2>2. CASE j = slot + 1
    BY <1>4, <1>7, <1>9, <2>2 DEF Up
  <2>3. CASE j # 0 /\ j # slot + 1
    <3>1. ChanOK(j, chan[j]) /\ (Up(j) => InStep(j, chan[j], drv[j], j \in vec))
      BY EndFacts
    <3>2. j \in vec => j \in vec'
      BY <1>5
    <3>3. Up(j) => InStep(j, chan[j], drv[j], j \in vec')
      BY <3>1, <3>2, StillInStep
    <3> QED BY <1>7, <1>9, <2>3, <3>1, <3>3 DEF Up
  <2> QED BY <2>1, <2>2, <2>3
<1>12. Owned'
  <2>1. \A s \in Slots : s + 1 \in Chans /\ s + 1 # 0 /\ (s = slot => s + 1 = slot + 1)
                         /\ (s + 1 = slot + 1 => s = slot)
    BY ChanFacts
  <2>2. \A s \in Slots : chan'[s + 1].active => s \in ctx'
    BY <1>4, <1>5, <1>9, <2>1 DEF IInv, Owned
  <2> QED BY <1>1, <1>5, <2>2 DEF IInv, Owned
<1>13. ToldInv'
  BY <1>1, <1>5 DEF IInv, ToldInv
<1>14. SramInv'
  <2>1. X2iPages(0) \subseteq Pages /\ I2xPages(0) \subseteq Pages
    BY PagesApart
  <2>2. \A p \in X2iPages(0) : mem[p] = <<"x2i", 0>>
    BY <1>2, <2>1
  <2>3. /\ \A p \in X2iPages(0) : sram'[p] = <<"x2i", 0>>
        /\ \A p \in I2xPages(0) : sram'[p] = <<"i2x", 0>>
        /\ \A p \in Pages \ I2xPages(0) : sram'[p] = mem[p]
    BY <1>1, <1>5, <2>2, ExchangeMemory
  <2>4. \A p \in Pages : p \notin X2iPages(0) /\ p \notin I2xPages(0) => sram'[p] = sram[p]
    BY <1>2, <2>3
  <2>5. ASSUME NEW j \in Chans, chan'[j].active
        PROVE  /\ \A p \in X2iPages(j) : sram'[p] \in {<<>>, <<"x2i", j>>}
               /\ \A p \in I2xPages(j) : sram'[p] \in {<<>>, <<"i2x", j>>}
    <3>1. CASE j = 0
      BY <2>3, <3>1
    <3>2. CASE j # 0
      <4>1. chan[j].active /\ j \in 0 .. 6
        BY <1>4, <1>9, <2>5, <3>2, ChanFacts
      <4>2. /\ X2iPages(j) \cup I2xPages(j) \subseteq Pages
            /\ (X2iPages(j) \cup I2xPages(j)) \cap (X2iPages(0) \cup I2xPages(0)) = {}
        BY <3>2, <4>1, PagesApart
      <4>3. \A p \in X2iPages(j) \cup I2xPages(j) : sram'[p] = sram[p]
        BY <2>4, <4>2
      <4> QED BY <4>1, <4>3, RingsKept
    <3> QED BY <3>1, <3>2
  <2>6. sram'[InfoPage] = sram[InfoPage] /\ sram'[AlivePage] = sram[AlivePage]
    BY <2>4, PagesApart, WordFacts
  <2>7. sram'[AlivePage] = <<>> /\ sram'[InfoPage] = <<"info">>
    BY <1>1, <2>6 DEF IInv, SramInv
  <2> QED BY <2>5, <2>7 DEF SramInv
<1> QED BY <1>10, <1>11, <1>12, <1>13, <1>14 DEF IInv

\* The channels of a machine just reset.
LEMMA CleanChannels ==
    ASSUME LayoutFits
    PROVE  /\ mbox_reset \in [Chans -> ChanRecs]
           /\ \A k \in Chans : ~mbox_reset[k].active /\ ChanOK(k, mbox_reset[k])
           /\ \A s \in Slots : s + 1 \in Chans
<1>1. \A k \in Chans : /\ mbox_reset[k] = NoChannel(k) /\ mbox_reset[k] \in ChanRecs
                       /\ ~mbox_reset[k].active /\ ChanOK(k, mbox_reset[k])
  <2> SUFFICES ASSUME NEW k \in Chans
               PROVE  /\ mbox_reset[k] = NoChannel(k) /\ mbox_reset[k] \in ChanRecs
                      /\ ~mbox_reset[k].active /\ ChanOK(k, mbox_reset[k])
    OBVIOUS
  <2>1. k \in 0 .. 6
    BY ChanFacts
  <2>2. mbox_reset[k] = NoChannel(k)
    BY DEF mbox_reset
  <2> QED BY <2>1, <2>2, NewChannelFacts
<1>2. mbox_reset \in [Chans -> ChanRecs]
  BY <1>1 DEF mbox_reset
<1> QED BY <1>1, <1>2, ChanFacts

\* Initial states.
LEMMA InitInv ==
    ASSUME LayoutFits, Init
    PROVE  IInv
<1>1. Types /\ ToldInv
  BY CleanChannels DEF Init, Types, ToldInv
<1>2. Ends /\ Owned
  BY CleanChannels DEF Init, Ends, Owned, Up
<1>3. SramInv
  BY CleanChannels, WordFacts DEF Init, SramInv
<1> QED BY <1>1, <1>2, <1>3 DEF IInv

\* A reset of the machine, or a shutdown of the firmware.
LEMMA CleanInv ==
    ASSUME LayoutFits, Reset \/ (IInv /\ FwShutdown)
    PROVE  IInv'
<1>1. /\ chan' = mbox_reset /\ drv' = [k \in Chans |-> Nothing] /\ told' = Nothing
      /\ ctx' \subseteq Slots /\ vec' \subseteq Chans /\ fw_alive' = FALSE
  BY DEF Reset, FwShutdown, NewDriver, IInv, Types
<1>2. sram'[AlivePage] = <<>>
  <2>1. CASE Reset
    BY <2>1, WordFacts DEF Reset
  <2>2. CASE FwShutdown
    BY <2>2, WordFacts, FillFacts DEF FwShutdown
  <2> QED BY <2>1, <2>2
<1>3. Types' /\ ToldInv'
  BY <1>1, CleanChannels DEF Types, ToldInv
<1>4. Ends' /\ Owned'
  BY <1>1, CleanChannels DEF Ends, Owned, Up
<1>5. SramInv'
  BY <1>1, <1>2, CleanChannels DEF SramInv
<1> QED BY <1>3, <1>4, <1>5 DEF IInv

\* The firmware boots.  Channels of contexts may be in use by then; the pages that are
\* written are not theirs.
LEMMA FwBootInv ==
    ASSUME IInv, LayoutFits, FwBoot
    PROVE  IInv'
<1>1. 0 \in Chans
  BY ChanFacts
<1>2. Mgmt \in ChanRecs /\ Fresh(0, Mgmt) /\ ChanOK(0, Mgmt)
  BY <1>1, ChannelsNamed, NewChannelFacts
<1>3. /\ fw_alive' = TRUE /\ ctx' = ctx /\ vec' = vec
      /\ drv' = [k \in Chans |-> Nothing] /\ told' = Nothing
      /\ chan' = [chan EXCEPT ![0] = Mgmt]
  BY DEF FwBoot, NewDriver
<1>4. /\ chan' \in [Chans -> ChanRecs] /\ chan'[0] = Mgmt
      /\ \A k \in Chans : k # 0 => chan'[k] = chan[k]
  BY <1>1, <1>2, <1>3 DEF IInv, Types
<1>5. Types'
  BY <1>3, <1>4 DEF IInv, Types
<1>6. Ends'
  <2>1. \A k \in Chans : ~Up(k)'
    BY <1>3 DEF Up
  <2>2. \A k \in Chans : ChanOK(k, chan'[k])
    BY <1>2, <1>4 DEF IInv, Ends
  <2> QED BY <2>1, <2>2 DEF Ends
<1>7. Owned'
  <2>1. \A s \in Slots : s + 1 \in Chans /\ s + 1 # 0
    BY ChanFacts DEF Slots
  <2> QED BY <1>3, <1>4, <2>1 DEF IInv, Owned
<1>8. ToldInv'
  BY <1>3 DEF ToldInv
<1>9. SramInv'
  <2> DEFINE x2i == Fill(sram, X2iBuf(0), RingSize(0), <<>>)
             rings == Fill(x2i, I2xBuf(0), RingSize(0), <<>>)
             info == Fill(rings, XDNA_SRAM_MGMT_INFO_OFF, 64, <<"info">>)
  <2>1. \E a : sram' = Fill(info, XDNA_SRAM_FW_ALIVE_OFF, 4, a)
    BY <1>2 DEF FwBoot, Fresh
  <2>2. PICK a : sram' = Fill(info, XDNA_SRAM_FW_ALIVE_OFF, 4, a)
    BY <2>1
  <2>3. /\ PagesOf(X2iBuf(0), RingSize(0)) = X2iPages(0)
        /\ PagesOf(I2xBuf(0), RingSize(0)) = I2xPages(0)
        /\ X2iPages(0) \subseteq Pages /\ I2xPages(0) \subseteq Pages
        /\ InfoPage \notin X2iPages(0) \cup I2xPages(0)
        /\ AlivePage \notin X2iPages(0) \cup I2xPages(0)
    BY PagesFacts, PagesApart
  <2>4. \A p \in Pages : x2i[p] = IF p \in X2iPages(0) THEN <<>> ELSE sram[p]
    BY <2>3, FillFacts
  <2> HIDE DEF x2i
  <2>5. \A p \in Pages : rings[p] = IF p \in I2xPages(0) THEN <<>> ELSE x2i[p]
    BY <2>3, FillFacts
  <2> HIDE DEF rings
  <2>6. \A p \in Pages : info[p] = IF p = InfoPage THEN <<"info">> ELSE rings[p]
    BY WordFacts, FillFacts
  <2> HIDE DEF info
  <2>7. \A p \in Pages : sram'[p] = IF p = AlivePage THEN a ELSE info[p]
    BY <2>2, WordFacts, FillFacts
  <2>8. \A p \in X2iPages(0) \cup I2xPages(0) : sram'[p] = <<>>
    BY <2>3, <2>4, <2>5, <2>6, <2>7
  <2>9. sram'[InfoPage] = <<"info">>
    BY <2>6, <2>7, WordFacts
  <2>10. ASSUME NEW k \in Chans, k # 0, NEW p \in X2iPages(k) \cup I2xPages(k)
         PROVE  sram'[p] = sram[p]
    <3>1. /\ p \in Pages /\ p # InfoPage /\ p # AlivePage
          /\ p \notin X2iPages(0) /\ p \notin I2xPages(0)
      <4>1. k \in 0 .. 6 /\ 0 \in 0 .. 6 /\ k # 0
        BY <2>10, ChanFacts
      <4>2. /\ X2iPages(k) \subseteq Pages /\ I2xPages(k) \subseteq Pages
            /\ InfoPage \notin X2iPages(k) \cup I2xPages(k)
            /\ AlivePage \notin X2iPages(k) \cup I2xPages(k)
            /\ (X2iPages(k) \cup I2xPages(k)) \cap (X2iPages(0) \cup I2xPages(0)) = {}
        BY <4>1, PagesApart
      <4> QED BY ONLY <4>2, p \in X2iPages(k) \cup I2xPages(k)
    <3> QED BY <2>4, <2>5, <2>6, <2>7, <3>1
  <2>11. ~Up(0)'
    BY <1>1, <1>3 DEF Up
  <2>12. ASSUME NEW k \in Chans, chan'[k].active
         PROVE  /\ \A p \in X2iPages(k) : sram'[p] \in {<<>>, <<"x2i", k>>}
                /\ \A p \in I2xPages(k) : sram'[p] \in {<<>>, <<"i2x", k>>}
    <3>1. CASE k = 0
      BY <2>8, <3>1
    <3>2. CASE k # 0
      BY <1>4, <2>10, <2>12, <3>2 DEF IInv, SramInv
    <3> QED BY <3>1, <3>2
  <2> QED BY <1>3, <1>4, <2>9, <2>11, <2>12 DEF SramInv
<1> QED BY <1>5, <1>6, <1>7, <1>8, <1>9 DEF IInv

\* The driver finds the management channel.
LEMMA GetMgmtInfoInv ==
    ASSUME IInv, LayoutFits, GetMgmtInfo
    PROVE  IInv'
<1>1. 0 \in Chans /\ 0 \in 0 .. 6 /\ ~Up(0)
  BY ChanFacts DEF GetMgmtInfo
<1>2. sram[AlivePage] # <<>>
  BY WordFacts DEF GetMgmtInfo, SramRead
<1>3. chan[0] = Mgmt /\ told = Nothing
  BY <1>2 DEF IInv, SramInv
<1>4. /\ drv' = [drv EXCEPT ![0] = Drv(Told(Mgmt))]
      /\ chan' = chan /\ ctx' = ctx /\ fw_alive' = fw_alive /\ vec' = vec /\ told' = told
      /\ sram' = Fill(sram, XDNA_SRAM_FW_ALIVE_OFF, 4, <<>>)
  BY WordFacts DEF GetMgmtInfo, SramWrite
<1>5. InStep(0, chan[0], Drv(Told(Mgmt)), 0 \in vec) /\ Drv(Told(Mgmt)) \in DrvRecs
  BY <1>1, <1>3, ChannelsNamed, DrvFacts
<1>6. /\ drv' \in [Chans -> DrvRecs \cup {Nothing}] /\ drv'[0] = Drv(Told(Mgmt))
      /\ \A k \in Chans : k # 0 => drv'[k] = drv[k]
  BY <1>1, <1>4, <1>5 DEF IInv, Types
<1>7. \A p \in Pages : sram'[p] = IF p = AlivePage THEN <<>> ELSE sram[p]
  BY <1>4, WordFacts, FillFacts
<1>8. Types'
  BY <1>4, <1>6 DEF IInv, Types
<1>9. Ends'
  BY <1>4, <1>5, <1>6 DEF IInv, Ends, Up
<1>10. Owned'
  BY <1>4 DEF IInv, Owned
<1>11. ToldInv'
  BY <1>3, <1>4 DEF ToldInv
<1>12. SramInv'
  <2>1. ASSUME NEW k \in Chans, chan'[k].active
        PROVE  /\ \A p \in X2iPages(k) : sram'[p] \in {<<>>, <<"x2i", k>>}
               /\ \A p \in I2xPages(k) : sram'[p] \in {<<>>, <<"i2x", k>>}
    <3>1. k \in 0 .. 6
      BY ChanFacts
    <3>2. \A p \in X2iPages(k) \cup I2xPages(k) : sram'[p] = sram[p]
      BY <1>7, <3>1, PagesApart
    <3> QED BY <1>4, <2>1, <3>2, RingsKept
  <2>2. sram'[AlivePage] = <<>> /\ sram'[InfoPage] = sram[InfoPage]
    BY <1>7, WordFacts
  <2> QED BY <1>4, <2>1, <2>2 DEF IInv, SramInv
<1> QED BY <1>8, <1>9, <1>10, <1>11, <1>12 DEF IInv

\* The driver d has acknowledged an interrupt and taken what there was, up to v.
Acked(D, k, v, g) == [D EXCEPT ![k].i2x_head = v, ![k].waiting = FALSE, ![k].got = g]

\* The driver's acknowledgment touches nothing else of a channel.
SameRing(c, e) ==
    /\ e.active = c.active /\ e.index = c.index
    /\ e.x2i_head = c.x2i_head /\ e.x2i_tail = c.x2i_tail /\ e.i2x_tail = c.i2x_tail
    /\ e.x2i_buf = c.x2i_buf /\ e.x2i_size = c.x2i_size
    /\ e.i2x_buf = c.i2x_buf /\ e.i2x_size = c.i2x_size

\* The channel after that: in any case its i2x head is v and its interrupt register clear.
LEMMA AckedChannel ==
    ASSUME NEW C \in [Chans -> ChanRecs], NEW k \in Chans, NEW v \in 0 .. 1
    PROVE  LET P == SetIntr(C, k, 0)
               S == SetI2xHead(P, k, v)
           IN  /\ P \in [Chans -> ChanRecs] /\ S \in [Chans -> ChanRecs]
               /\ \A j \in Chans : j # k => P[j] = C[j] /\ S[j] = C[j]
               /\ P[k].intr = 0 /\ S[k].intr = 0 /\ S[k].i2x_head = v
               /\ P[k].i2x_head = C[k].i2x_head
               /\ SameRing(C[k], P[k]) /\ SameRing(C[k], S[k])
<1> DEFINE P == SetIntr(C, k, 0)
           S == SetI2xHead(P, k, v)
<1>1. C[k] \in ChanRecs
  OBVIOUS
<1>2. /\ P \in [Chans -> ChanRecs] /\ P[k].intr = 0 /\ P[k].i2x_head = C[k].i2x_head
      /\ P[k].active = C[k].active /\ P[k].index = C[k].index
      /\ P[k].x2i_head = C[k].x2i_head /\ P[k].x2i_tail = C[k].x2i_tail
      /\ P[k].i2x_tail = C[k].i2x_tail
      /\ P[k].x2i_buf = C[k].x2i_buf /\ P[k].x2i_size = C[k].x2i_size
      /\ P[k].i2x_buf = C[k].i2x_buf /\ P[k].i2x_size = C[k].i2x_size
      /\ \A j \in Chans : j # k => P[j] = C[j]
  BY <1>1 DEF ChanRecs, SetIntr
<1> HIDE DEF P
<1>3. P[k] \in ChanRecs
  BY <1>2
<1>4. /\ S \in [Chans -> ChanRecs] /\ S[k].intr = P[k].intr /\ S[k].i2x_head = v
      /\ S[k].active = P[k].active /\ S[k].index = P[k].index
      /\ S[k].x2i_head = P[k].x2i_head /\ S[k].x2i_tail = P[k].x2i_tail
      /\ S[k].i2x_tail = P[k].i2x_tail
      /\ S[k].x2i_buf = P[k].x2i_buf /\ S[k].x2i_size = P[k].x2i_size
      /\ S[k].i2x_buf = P[k].i2x_buf /\ S[k].i2x_size = P[k].i2x_size
      /\ \A j \in Chans : j # k => S[j] = P[j]
  BY <1>2, <1>3 DEF ChanRecs, SetI2xHead
<1> HIDE DEF S
<1>5. SameRing(C[k], P[k]) /\ SameRing(C[k], S[k])
  BY <1>2, <1>4 DEF SameRing
<1> QED BY <1>2, <1>4, <1>5 DEF P, S

\* Nor of the driver's end of it.
SameEnd(d, m) ==
    /\ m.x2i_tail = d.x2i_tail
    /\ m.x2i_head_reg = d.x2i_head_reg /\ m.x2i_tail_reg = d.x2i_tail_reg
    /\ m.i2x_head_reg = d.i2x_head_reg /\ m.i2x_tail_reg = d.i2x_tail_reg
    /\ m.intr_reg = d.intr_reg /\ m.msix_id = d.msix_id
    /\ m.x2i_start = d.x2i_start /\ m.x2i_size = d.x2i_size
    /\ m.i2x_start = d.i2x_start /\ m.i2x_size = d.i2x_size

\* What a driver can have found in the ring of channel k.
RepliesOn(k) == {<<>>, <<"i2x", k>>}

\* The driver after that.
LEMMA AckedDriver ==
    ASSUME NEW D \in [Chans -> DrvRecs \cup {Nothing}], NEW k \in Chans, D[k] \in DrvRecs,
           NEW v \in 0 .. 1, NEW g \in RepliesOn(k)
    PROVE  LET M == Acked(D, k, v, g)
           IN  /\ M \in [Chans -> DrvRecs \cup {Nothing}] /\ M[k] \in DrvRecs
               /\ \A j \in Chans : j # k => M[j] = D[j]
               /\ M[k].i2x_head = v /\ M[k].waiting = FALSE /\ M[k].got = g
               /\ SameEnd(D[k], M[k])
<1> DEFINE M == Acked(D, k, v, g)
           m == [[[D[k] EXCEPT !.i2x_head = v] EXCEPT !.waiting = FALSE] EXCEPT !.got = g]
<1>1. M[k] = m /\ M = [D EXCEPT ![k] = m]
  BY DEF Acked
<1>2. m \in DrvRecs
  <2>1. [D[k] EXCEPT !.i2x_head = v] \in DrvRecs
    BY DEF DrvRecs
  <2>2. [[D[k] EXCEPT !.i2x_head = v] EXCEPT !.waiting = FALSE] \in DrvRecs
    BY <2>1 DEF DrvRecs
  <2>3. g \in {<<>>} \cup {<<"i2x", j>> : j \in Chans}
    BY DEF RepliesOn
  <2> QED BY <2>2, <2>3 DEF DrvRecs
<1>3. m.i2x_head = v /\ m.waiting = FALSE /\ m.got = g /\ SameEnd(D[k], m)
  BY DEF DrvRecs, SameEnd
<1> HIDE DEF m
<1>4. M \in [Chans -> DrvRecs \cup {Nothing}] /\ \A j \in Chans : j # k => M[j] = D[j]
  BY <1>1, <1>2
<1> HIDE DEF M
<1> QED BY <1>1, <1>2, <1>3, <1>4 DEF M

\* What a driver does with an interrupt on channel k: it has waited just when it finds
\* a reply, and then waits no more.
LEMMA Taken ==
    ASSUME IInv, LayoutFits, NEW k \in Chans, Receive(k)
    PROVE  \E M \in [Chans -> DrvRecs \cup {Nothing}] :
              /\ chan' \in [Chans -> ChanRecs] /\ ChanOK(k, chan'[k])
              /\ \A j \in Chans : j # k => chan'[j] = chan[j] /\ M[j] = drv[j]
              /\ chan'[k].active /\ ~M[k].waiting
              /\ \A raised \in BOOLEAN : InStep(k, chan'[k], M[k], raised)
              /\ vec' = vec \ {k}
              /\ k = 0 /\ drv[0].waiting /\ told # Nothing =>
                    drv' = [M EXCEPT ![told.msi] = Drv(told)] /\ told' = Nothing
              /\ ~(k = 0 /\ drv[0].waiting /\ told # Nothing) => drv' = M /\ told' = told
<1> DEFINE c == chan[k]
           d == drv[k]
           v == c.i2x_tail
           P == SetIntr(chan, k, 0)
           S == SetI2xHead(P, k, v)
           found == d.i2x_head # v
           g == IF found THEN SramRead(sram, d.i2x_start, 4) ELSE d.got
           w == d.waiting /\ ~found
           M == Acked(drv, k, v, g)
<1>1. /\ k \in 0 .. 6 /\ c \in ChanRecs /\ ChanOK(k, c) /\ Up(k)
      /\ InStep(k, c, d, k \in vec) /\ d \in DrvRecs
      /\ chan \in [Chans -> ChanRecs] /\ drv \in [Chans -> DrvRecs \cup {Nothing}]
  BY EndFacts DEF Receive
<1>2. /\ AtHome(k, d) /\ c.active /\ v \in 0 .. 1 /\ d.msix_id = k
      /\ d.i2x_start = I2xBuf(k) /\ d.got \in {<<>>, <<"i2x", k>>}
      /\ c.i2x_head = d.i2x_head /\ c.x2i_tail = d.x2i_tail
  BY <1>1 DEF InStep, AtHome, ChanRecs
<1>3. d.waiting \in BOOLEAN /\ (d.waiting <=> found) /\ w = FALSE
  BY <1>1 DEF InStep, DrvRecs
<1>4. RegWrite(chan, d.intr_reg, 0) = P /\ RegRead(P, d.i2x_tail_reg) = P[k].i2x_tail
      /\ RegWrite(P, d.i2x_head_reg, v) = S
  BY <1>2, Routed
<1> HIDE DEF v
<1>5. /\ P \in [Chans -> ChanRecs] /\ S \in [Chans -> ChanRecs]
      /\ \A j \in Chans : j # k => P[j] = chan[j] /\ S[j] = chan[j]
      /\ P[k].intr = 0 /\ S[k].intr = 0 /\ S[k].i2x_head = v
      /\ P[k].i2x_head = c.i2x_head
      /\ SameRing(c, P[k]) /\ SameRing(c, S[k])
  <2>1. chan \in [Chans -> ChanRecs] /\ v \in 0 .. 1
    BY <1>1, <1>2
  <2> QED BY <2>1, AckedChannel
<1>6. g \in RepliesOn(k)
  <2>1. /\ PageSize = 4096 /\ XDNA_BAR_SRAM_SIZE = 262144
        /\ I2xBuf(k) \in Nat /\ ~(I2xBuf(k) + 4 > 262144)
    BY <1>1, BufFacts DEF PageSize, XDNA_BAR_SRAM_SIZE
  <2>2. SramRead(sram, I2xBuf(k), 4) = sram[I2xBuf(k) \div PageSize]
    BY <2>1 DEF SramRead
  <2>3. I2xBuf(k) \div PageSize \in I2xPages(k)
    BY <1>1, PagesFacts
  <2>4. \A p \in I2xPages(k) : sram[p] \in {<<>>, <<"i2x", k>>}
    BY <1>2 DEF IInv, SramInv
  <2>5. sram[I2xBuf(k) \div PageSize] \in {<<>>, <<"i2x", k>>}
    BY ONLY <2>3, <2>4
  <2> QED BY <1>2, <2>2, <2>5 DEF RepliesOn
<1>7. /\ vec' = vec \ {k} /\ chan' = IF found THEN S ELSE P
      /\ LET open == k = 0 /\ found /\ told # Nothing
         IN  /\ drv' = IF open THEN [M EXCEPT ![told.msi] = Drv(told)] ELSE M
             /\ told' = IF open THEN Nothing ELSE told
  <2>1. P[k].i2x_tail = v
    BY <1>5 DEF v, SameRing
  <2> HIDE DEF P
  <2>2. [drv EXCEPT ![k].i2x_head = v, ![k].waiting = w,
                    ![k].got = IF found THEN SramRead(sram, d.i2x_start, 4) ELSE @] = M
    BY <1>1, <1>3 DEF Acked, DrvRecs
  <2>3. d.msix_id = k
    BY <1>2
  <2>4. /\ RegWrite(chan, d.intr_reg, 0) = P /\ RegRead(P, d.i2x_tail_reg) = v
        /\ RegWrite(P, d.i2x_head_reg, v) = S
    BY <1>4, <2>1
  <2> HIDE DEF S, M, w
  <2> QED BY <2>2, <2>3, <2>4, ZenonT(60) DEF Receive, v, w
<1> HIDE DEF P, S, g, w, M
<1>8. /\ M \in [Chans -> DrvRecs \cup {Nothing}] /\ M[k] \in DrvRecs
      /\ \A j \in Chans : j # k => M[j] = drv[j]
      /\ M[k].i2x_head = v /\ M[k].waiting = FALSE /\ M[k].got = g
      /\ SameEnd(d, M[k])
  <2>1. drv \in [Chans -> DrvRecs \cup {Nothing}] /\ d \in DrvRecs /\ v \in 0 .. 1
    BY <1>1, <1>2
  <2> QED BY <1>6, <2>1, AckedDriver DEF M
<1> DEFINE e == chan'[k]
<1>9. /\ chan' \in [Chans -> ChanRecs] /\ \A j \in Chans : j # k => chan'[j] = chan[j]
      /\ e.intr = 0 /\ e.i2x_head = v /\ e.i2x_tail = v
      /\ e.active = c.active /\ e.index = c.index
      /\ e.x2i_head = c.x2i_head /\ e.x2i_tail = c.x2i_tail
      /\ e.x2i_buf = c.x2i_buf /\ e.x2i_size = c.x2i_size
      /\ e.i2x_buf = c.i2x_buf /\ e.i2x_size = c.i2x_size
  <2>1. CASE found
    BY <1>5, <1>7, <2>1 DEF v, SameRing
  <2>2. CASE ~found
    BY <1>2, <1>5, <1>7, <2>2 DEF v, SameRing
  <2> QED BY <2>1, <2>2
<1>10. e \in ChanRecs
  BY <1>9
<1> HIDE DEF e
<1>11. ChanOK(k, e)
  BY <1>1, <1>2, <1>9, <1>10 DEF ChanOK
<1>12. AtHome(k, M[k])
  BY <1>2, <1>8 DEF AtHome, SameEnd
<1>13. \A raised \in BOOLEAN : InStep(k, e, M[k], raised)
  BY <1>2, <1>3, <1>6, <1>8, <1>9, <1>12 DEF InStep, RepliesOn, SameRing, SameEnd
<1>14. /\ k = 0 /\ drv[0].waiting /\ told # Nothing =>
             drv' = [M EXCEPT ![told.msi] = Drv(told)] /\ told' = Nothing
       /\ ~(k = 0 /\ drv[0].waiting /\ told # Nothing) => drv' = M /\ told' = told
  BY <1>3, <1>7
<1>15. e.active /\ ~M[k].waiting
  BY <1>2, <1>3, <1>8, <1>9
<1> QED BY <1>7, <1>8, <1>9, <1>11, <1>13, <1>14, <1>15 DEF e

\* A driver takes an interrupt; the reply to CREATE_CONTEXT opens a channel.
LEMMA ReceiveInv ==
    ASSUME IInv, LayoutFits, NEW k \in Chans, Receive(k)
    PROVE  IInv'
<1> DEFINE open == k = 0 /\ drv[0].waiting /\ told # Nothing
<1>1. PICK M \in [Chans -> DrvRecs \cup {Nothing}] :
         /\ chan' \in [Chans -> ChanRecs] /\ ChanOK(k, chan'[k])
         /\ \A j \in Chans : j # k => chan'[j] = chan[j] /\ M[j] = drv[j]
         /\ chan'[k].active /\ ~M[k].waiting
         /\ \A raised \in BOOLEAN : InStep(k, chan'[k], M[k], raised)
         /\ vec' = vec \ {k}
         /\ open => drv' = [M EXCEPT ![told.msi] = Drv(told)] /\ told' = Nothing
         /\ ~open => drv' = M /\ told' = told
  BY Taken
<1>2. /\ Up(k) /\ 0 \in Chans /\ k \in 0 .. 6 /\ chan[k].active
      /\ ctx' = ctx /\ fw_alive' = fw_alive /\ sram' = sram
  BY EndFacts, ChanFacts DEF Receive, InStep
<1> HIDE DEF open
<1>3. \A j \in Chans : j # k => chan'[j] = chan[j] /\ M[j] = drv[j]
  BY <1>1
<1>4. ASSUME NEW j \in Chans
      PROVE  /\ ChanOK(j, chan'[j])
             /\ M[j] # Nothing => InStep(j, chan'[j], M[j], j \in vec')
  <2>1. CASE j = k
    <3>1. InStep(k, chan'[k], M[k], FALSE)
      BY <1>1
    <3>2. InStep(k, chan'[k], M[k], k \in vec')
      BY <3>1, StillInStep
    <3> QED BY <1>1, <2>1, <3>2
  <2>2. CASE j # k
    <3>1. ChanOK(j, chan[j]) /\ (Up(j) => InStep(j, chan[j], drv[j], j \in vec))
      BY EndFacts
    <3>2. j \in vec => j \in vec'
      BY <1>1, <2>2
    <3>3. Up(j) => InStep(j, chan[j], drv[j], j \in vec')
      BY <3>1, <3>2, StillInStep
    <3> QED BY <1>3, <2>2, <3>1, <3>3 DEF Up
  <2> QED BY <2>1, <2>2
<1>5. Owned'
  <2>1. \A j \in Chans : chan'[j].active => chan[j].active
    BY <1>2, <1>3
  <2> QED BY <1>2, <2>1, ChanFacts DEF IInv, Owned
<1>6. vec' \subseteq Chans /\ ctx' \subseteq Slots
  BY <1>1, <1>2 DEF IInv, Types
<1>7. /\ \A j \in Chans : chan'[j].active =>
            /\ \A p \in X2iPages(j) : sram'[p] \in {<<>>, <<"x2i", j>>}
            /\ \A p \in I2xPages(j) : sram'[p] \in {<<>>, <<"i2x", j>>}
      /\ fw_alive' => sram'[InfoPage] = <<"info">>
  <2>1. \A j \in Chans : chan'[j].active => chan[j].active
    BY <1>2, <1>3
  <2> QED BY <1>2, <2>1 DEF IInv, SramInv
<1>8. CASE open
  <2>1. PICK s \in Slots : /\ told = Told(CtxChannel(s)) /\ chan[s + 1] = CtxChannel(s)
                           /\ ~Up(s + 1)
    BY <1>8 DEF open, IInv, ToldInv
  <2>2. s \in 0 .. 5 /\ s + 1 \in Chans /\ s + 1 \in 0 .. 6 /\ s + 1 # k
    BY <1>2, <2>1, ChanFacts
  <2>3. CtxChannel(s) = NewChannel(s + 1, X2iBuf(s + 1), I2xBuf(s + 1), RingSize(s + 1))
    BY <2>2, ChannelsNamed
  <2>4. /\ InStep(s + 1, chan[s + 1], Drv(told), s + 1 \in vec') /\ told.msi = s + 1
        /\ Drv(told) \in DrvRecs
    BY <2>1, <2>2, <2>3, DrvFacts
  <2>5. drv' = [M EXCEPT ![s + 1] = Drv(told)] /\ told' = Nothing
    BY <1>1, <1>8, <2>4
  <2>6. /\ drv' \in [Chans -> DrvRecs \cup {Nothing}] /\ drv'[s + 1] = Drv(told)
        /\ \A j \in Chans : j # s + 1 => drv'[j] = M[j]
    BY <2>2, <2>4, <2>5
  <2>7. Types'
    BY <1>1, <1>6, <2>6 DEF Types
  <2>8. Ends'
    <3> SUFFICES ASSUME NEW j \in Chans
                 PROVE  ChanOK(j, chan'[j]) /\ (Up(j)' => InStep(j, chan'[j], drv'[j], j \in vec'))
      BY DEF Ends
    <3>1. CASE j = s + 1
      BY <1>3, <1>4, <2>2, <2>4, <2>6, <3>1
    <3>2. CASE j # s + 1
      BY <1>4, <2>6, <3>2 DEF Up
    <3> QED BY <3>1, <3>2
  <2>9. ToldInv'
    BY <2>5 DEF ToldInv
  <2>10. SramInv'
    <3>1. sram'[AlivePage] = <<>>
      BY <1>2, <1>8 DEF open, IInv, SramInv
    <3> QED BY <1>7, <3>1 DEF SramInv
  <2> QED BY <1>5, <2>7, <2>8, <2>9, <2>10 DEF IInv
<1>9. CASE ~open
  <2>1. drv' = M /\ told' = told
    BY <1>1, <1>9
  <2>2. Types'
    BY <1>1, <1>6, <2>1 DEF Types
  <2>3. Ends'
    BY <1>4, <2>1 DEF Ends, Up
  <2>4. ToldInv'
    <3> SUFFICES ASSUME told # Nothing
                 PROVE  \E s \in Slots : /\ told = Told(CtxChannel(s)) /\ chan'[s + 1] = CtxChannel(s)
                                         /\ ~Up(s + 1)' /\ (Up(0)' => drv'[0].waiting)
      BY <2>1 DEF ToldInv
    <3>1. PICK s \in Slots : /\ told = Told(CtxChannel(s)) /\ chan[s + 1] = CtxChannel(s)
                             /\ ~Up(s + 1) /\ (Up(0) => drv[0].waiting)
      BY DEF IInv, ToldInv
    <3>2. k # 0
      BY <1>2, <1>9, <3>1 DEF open
    <3>3. s + 1 \in Chans /\ s + 1 # k
      BY <1>2, <3>1, ChanFacts
    <3> QED BY <1>2, <1>3, <2>1, <3>1, <3>2, <3>3 DEF Up
  <2>5. SramInv'
    <3>1. sram[AlivePage] # <<>> => ~Up(0) /\ chan[0] = Mgmt /\ told = Nothing
      BY DEF IInv, SramInv
    <3>2. sram'[AlivePage] # <<>> => ~Up(0)' /\ chan'[0] = Mgmt /\ told' = Nothing
      BY <1>2, <1>3, <2>1, <3>1 DEF Up
    <3> QED BY <1>7, <3>2 DEF SramInv
  <2> QED BY <1>5, <2>2, <2>3, <2>4, <2>5 DEF IInv
<1> QED BY <1>8, <1>9

\* Every step keeps the invariant.
LEMMA NextInv ==
    ASSUME IInv, LayoutFits, [Next]_vars
    PROVE  IInv'
<1>1. CASE Next
  <2>1. Busy \subseteq Chans
    BY NumCtxAssumption, ChanFacts
  <2> QED BY <1>1, <2>1, CleanInv, FwBootInv, GetMgmtInfoInv, CreateInv, DestroyInv, AskInv, ReceiveInv
          DEF Next
<1>2. CASE UNCHANGED vars
  BY <1>2 DEF vars, IInv, Types, Ends, Up, Owned, ToldInv, SramInv
<1> QED BY <1>1, <1>2

\* The invariant holds throughout.
LEMMA Invariance ==
    ASSUME LayoutFits
    PROVE  Spec => []IInv
<1>1. Init => IInv
  BY InitInv
<1>2. IInv /\ [Next]_vars => IInv'
  BY NextInv
<1> QED BY <1>1, <1>2, PTL DEF Spec
-----------------------------------------------------------------------------
(* The results                                                             *)

\* What the invariant says in the terms of Mmio.
LEMMA Consequences ==
    ASSUME IInv, LayoutFits
    PROVE  TypeOK /\ RoutedHome /\ RingsApart /\ AnswerAtHand
<1>1. TypeOK
  <2>1. ASSUME NEW k \in Chans
        PROVE  /\ chan[k].active \in BOOLEAN /\ chan[k].index = k
               /\ Within(chan[k].x2i_buf, chan[k].x2i_size)
               /\ Within(chan[k].i2x_buf, chan[k].i2x_size)
               /\ \A reg \in {"x2i_head", "x2i_tail", "i2x_head", "i2x_tail", "intr"} :
                     chan[k][reg] \in 0 .. 1
    <3>1. k \in 0 .. 6 /\ chan[k] \in ChanRecs /\ ChanOK(k, chan[k])
      BY EndFacts
    <3>2. chan[k].active \in BOOLEAN /\ chan[k].index = k
      BY <3>1 DEF ChanOK, ChanRecs
    <3>3. \A reg \in {"x2i_head", "x2i_tail", "i2x_head", "i2x_tail", "intr"} :
             chan[k][reg] \in 0 .. 1
      BY <3>1 DEF ChanRecs
    <3>4. CASE chan[k].active
      <4>1. Within(X2iBuf(k), RingSize(k)) /\ Within(I2xBuf(k), RingSize(k))
        BY <3>1, BufFacts
      <4>2. /\ chan[k].x2i_buf = X2iBuf(k) /\ chan[k].x2i_size = RingSize(k)
            /\ chan[k].i2x_buf = I2xBuf(k) /\ chan[k].i2x_size = RingSize(k)
        BY <3>1, <3>4 DEF ChanOK
      <4> QED BY <3>2, <3>3, <4>1, <4>2
    <3>5. CASE ~chan[k].active
      <4>1. chan[k] = NoChannel(k)
        BY <3>1, <3>5 DEF ChanOK
      <4>2. /\ chan[k].x2i_buf = 0 /\ chan[k].x2i_size = 0
            /\ chan[k].i2x_buf = 0 /\ chan[k].i2x_size = 0
        BY <4>1 DEF NoChannel
      <4>3. Within(0, 0)
        BY DEF Within, XDNA_BAR_SRAM_SIZE
      <4> QED BY <3>2, <3>3, <4>2, <4>3
    <3> QED BY <3>4, <3>5
  <2>2. ctx \subseteq Slots /\ fw_alive \in BOOLEAN /\ vec \subseteq Chans
    BY DEF IInv, Types, Owned
  <2> QED BY <2>1, <2>2 DEF TypeOK
<1>2. RoutedHome
  <2>1. ASSUME NEW k \in Chans, Up(k)
        PROVE  /\ chan[k].active
               /\ chan[k].x2i_tail = drv[k].x2i_tail /\ chan[k].i2x_head = drv[k].i2x_head
               /\ RegRead(chan, drv[k].x2i_head_reg) = chan[k].x2i_head
               /\ RegRead(chan, drv[k].i2x_tail_reg) = chan[k].i2x_tail
    <3>1. InStep(k, chan[k], drv[k], k \in vec)
      BY <2>1, EndFacts
    <3>2. AtHome(k, drv[k])
      BY <3>1 DEF InStep
    <3>3. /\ RegRead(chan, drv[k].x2i_head_reg) = chan[k].x2i_head
          /\ RegRead(chan, drv[k].i2x_tail_reg) = chan[k].i2x_tail
      BY <3>2, Routed
    <3> QED BY <3>1, <3>3 DEF InStep
  <2>2. \A k \in Chans : ~chan[k].active => chan[k] = NoChannel(k)
    BY EndFacts DEF ChanOK
  <2> QED BY <2>1, <2>2 DEF RoutedHome
<1>3. RingsApart
  <2>1. ASSUME NEW k \in Chans, chan[k].active
        PROVE  /\ \A p \in PagesOf(chan[k].x2i_buf, chan[k].x2i_size) :
                     sram[p] \in {<<>>, <<"x2i", k>>}
               /\ \A p \in PagesOf(chan[k].i2x_buf, chan[k].i2x_size) :
                     sram[p] \in {<<>>, <<"i2x", k>>}
    <3>1. /\ k \in 0 .. 6 /\ chan[k].x2i_buf = X2iBuf(k) /\ chan[k].x2i_size = RingSize(k)
          /\ chan[k].i2x_buf = I2xBuf(k) /\ chan[k].i2x_size = RingSize(k)
      BY <2>1, EndFacts DEF ChanOK
    <3>2. /\ PagesOf(chan[k].x2i_buf, chan[k].x2i_size) = X2iPages(k)
          /\ PagesOf(chan[k].i2x_buf, chan[k].i2x_size) = I2xPages(k)
      BY <3>1, PagesFacts
    <3> QED BY <2>1, <3>2 DEF IInv, SramInv
  <2>2. fw_alive => SramRead(sram, XDNA_SRAM_MGMT_INFO_OFF, 64) = <<"info">>
    BY WordFacts DEF IInv, SramInv, SramRead
  <2>3. \A k \in Chans : Up(k) => drv[k].got \in {<<>>, <<"i2x", k>>}
    BY EndFacts DEF InStep
  <2> QED BY <2>1, <2>2, <2>3 DEF RingsApart
<1>4. AnswerAtHand
  <2>1. ASSUME NEW k \in Chans, Up(k)
        PROVE  /\ drv[k].waiting => chan[k].i2x_tail # drv[k].i2x_head /\ drv[k].msix_id \in vec
               /\ (chan[k].intr = 1) = drv[k].waiting
    <3>1. InStep(k, chan[k], drv[k], k \in vec) /\ drv[k] \in DrvRecs
      BY <2>1, EndFacts
    <3>2. drv[k].waiting \in BOOLEAN /\ drv[k].msix_id = k
      BY <3>1 DEF DrvRecs, InStep, AtHome
    <3>3. CASE drv[k].waiting
      <4>1. chan[k].i2x_tail # drv[k].i2x_head /\ chan[k].intr = 1 /\ k \in vec
        BY <3>1, <3>3 DEF InStep
      <4> QED BY <3>2, <3>3, <4>1
    <3>4. CASE ~drv[k].waiting
      <4>1. chan[k].intr # 1
        BY <3>1, <3>4 DEF InStep
      <4> QED BY <3>2, <3>4, <4>1
    <3> QED BY <3>3, <3>4
  <2> QED BY <2>1 DEF AnswerAtHand
<1> QED BY <1>1, <1>2, <1>3, <1>4

\* For every number of contexts the layout has room for, the areas of all channels
\* are inside SRAM and the vectors are those of channels.
THEOREM LayoutTyped ==
    ASSUME LayoutFits
    PROVE  Spec => []TypeOK
<1>1. IInv => TypeOK
  BY Consequences
<1> QED BY <1>1, Invariance, PTL

\* A driver's register accesses, at the addresses it was told, are decoded to its own
\* channel (chan_from_off()), and a channel that is not open has seen none.
THEOREM AccessesRouted ==
    ASSUME LayoutFits
    PROVE  Spec => []RoutedHome
<1>1. IInv => RoutedHome
  BY Consequences
<1> QED BY <1>1, Invariance, PTL

\* Rings, the description of the management channel and FW_ALIVE share no page: a ring
\* holds what its own ends wrote, and a driver gets its own replies only.
THEOREM RingsKeptApart ==
    ASSUME LayoutFits
    PROVE  Spec => []RingsApart
<1>1. IInv => RingsApart
  BY Consequences
<1> QED BY <1>1, Invariance, PTL

\* A driver that waits has its reply in the ring, its interrupt register set and its
\* vector raised; one that does not wait has its interrupt register clear.
THEOREM AnswersAtHand ==
    ASSUME LayoutFits
    PROVE  Spec => []AnswerAtHand
<1>1. IInv => AnswerAtHand
  BY Consequences
<1> QED BY <1>1, Invariance, PTL
=============================================================================
