--------------------------- MODULE I2xRingProofs ---------------------------
(***************************************************************************)
(* Proofs about I2xRing for rings, replies and drivers of every size.      *)
(***************************************************************************)
EXTENDS I2xRing, SequenceTheorems, TLAPS

IInv == TypeOK /\ UnreadIntact /\ RingInv
-----------------------------------------------------------------------------
(* Arithmetic and sequences                                                *)

\* One more reply of the largest size takes MaxPkg more words.
LEMMA TimesSucc ==
    ASSUME NEW n \in Nat
    PROVE  n * MaxPkg \in Nat /\ (n + 1) * MaxPkg = (n * MaxPkg) + MaxPkg
BY SMT, SizesAssumption

\* More replies do not take less room.
LEMMA TimesMono ==
    ASSUME NEW m \in Nat, NEW n \in Nat, m <= n
    PROVE  m * MaxPkg <= n * MaxPkg
<1>1. n = m + (n - m) /\ n - m \in Nat
  BY SMT
<1>2. n * MaxPkg = (m * MaxPkg) + ((n - m) * MaxPkg)
  BY SMT, <1>1, SizesAssumption
<1>3. (n - m) * MaxPkg \in Nat /\ m * MaxPkg \in Nat
  BY SMT, <1>1, SizesAssumption
<1> QED BY SMT, <1>2, <1>3

\* A queue behind which a frame is appended.
LEMMA AppendFacts ==
    ASSUME NEW q \in Seq(Frame), NEW f \in Frame
    PROVE  /\ Append(q, f) \in Seq(Frame) /\ Append(q, f) # <<>>
           /\ Len(q) \in Nat /\ Len(Append(q, f)) = Len(q) + 1
           /\ \A i \in 1 .. Len(q) : Append(q, f)[i] = q[i]
           /\ Append(q, f)[Len(q) + 1] = f
           /\ q = <<>> <=> Len(q) = 0
<1>1. Len(q) \in Nat /\ (q = <<>> <=> Len(q) = 0)
  BY EmptySeq, LenProperties
<1> QED BY <1>1, AppendProperties

\* A queue whose oldest frame is taken away.
LEMMA TailFacts ==
    ASSUME NEW q \in Seq(Frame), q # <<>>
    PROVE  /\ Tail(q) \in Seq(Frame)
           /\ Len(q) \in Nat \ {0} /\ Len(Tail(q)) = Len(q) - 1
           /\ \A i \in 1 .. (Len(q) - 1) : Tail(q)[i] = q[i + 1]
           /\ Tail(q) = <<>> <=> Len(q) = 1
           /\ q[1] \in Frame
<1>1. Len(q) \in Nat \ {0}
  BY EmptySeq
<1>2. /\ Tail(q) \in Seq(Frame) /\ Len(Tail(q)) = Len(q) - 1
      /\ \A i \in 1 .. Len(Tail(q)) : Tail(q)[i] = q[i + 1]
  BY HeadTailProperties
<1>3. Tail(q) = <<>> <=> Len(Tail(q)) = 0
  BY <1>2, EmptySeq
<1>4. q[1] \in Frame
  BY <1>1, ElementOfSeq
<1> QED BY <1>1, <1>2, <1>3, <1>4

\* The fields of a frame.
LEMMA FrameFacts ==
    ASSUME NEW f \in Frame
    PROVE  /\ f.off \in Nat /\ f.off <= usable /\ f.id \in Ids
           /\ f.len \in PayloadSizes /\ f.len \in Nat \ {0}
           /\ End(f) = f.off + 4 + f.len /\ End(f) \in Nat
           /\ f.off < End(f)
           /\ HdrWords + f.len <= MaxPkg
<1>1. f.off \in 0 .. usable /\ f.id \in Ids /\ f.len \in PayloadSizes
  BY DEF Frame
<1>2. f.len \in Nat \ {0} /\ 4 + f.len <= MaxPkg
  BY <1>1, SizesAssumption DEF HdrWords
<1> QED BY <1>1, <1>2, SizesAssumption DEF End, HdrWords, usable

\* The words of a frame.
LEMMA FrameWord ==
    ASSUME NEW f \in Frame, NEW j \in 0 .. (HdrWords + f.len - 1)
    PROVE  f.off + j \in f.off .. (End(f) - 1)
<1>1. /\ f.off \in Nat /\ f.len \in Nat /\ End(f) = f.off + 4 + f.len
  BY FrameFacts
<1>2. j \in Nat /\ j < 4 + f.len
  BY <1>1 DEF HdrWords
<1> QED BY ONLY <1>1, <1>2
-----------------------------------------------------------------------------
(* What the invariant says of a single state                               *)

\* The numbers of a state.
LEMMA StateFacts ==
    ASSUME IInv
    PROVE  /\ i2x_head \in Nat /\ i2x_head <= usable
           /\ i2x_tail \in Nat /\ i2x_tail <= usable
           /\ mark \in Nat /\ mark <= usable
           /\ usable \in Nat /\ RingSize = usable + 1 /\ MaxPkg \in Nat
           /\ unread \in Seq(Frame) /\ Len(unread) \in Nat
           /\ (unread = <<>> <=> Len(unread) = 0)
           /\ \A k \in 1 .. Len(unread) : unread[k] \in Frame
           /\ lost \in Nat /\ outstanding \in Nat /\ InFlight \in Nat
<1>1. unread \in Seq(Frame)
  BY DEF IInv, TypeOK
<1>2. Len(unread) \in Nat /\ (unread = <<>> <=> Len(unread) = 0)
  BY <1>1, EmptySeq, LenProperties
<1>3. \A k \in 1 .. Len(unread) : unread[k] \in Frame
  BY <1>1, ElementOfSeq
<1>4. usable \in Nat /\ RingSize = usable + 1 /\ MaxPkg \in Nat /\ InFlight \in Nat
  BY SizesAssumption DEF usable
<1> QED BY <1>1, <1>2, <1>3, <1>4 DEF IInv, TypeOK

\* The oldest frame lies ahead of the consumer, and the words from head to tail
\* are bounded by the number of unread frames.
LEMMA OldestFacts ==
    ASSUME IInv, unread # <<>>
    PROVE  /\ unread[1] \in Frame
           /\ ~Wrapped => /\ unread[1].off = i2x_head
                          /\ i2x_tail - i2x_head <= Len(unread) * MaxPkg
           /\ Wrapped => (mark - i2x_head) + i2x_tail <= Len(unread) * MaxPkg
           /\ i2x_head # i2x_tail
<1>1. Len(unread) \in Nat \ {0} /\ 1 \in 1 .. Len(unread) /\ unread[1] \in Frame
  BY StateFacts
<1>2. Dist(unread[1]) <= Len(unread) * MaxPkg
  <2>1. Dist(unread[1]) <= ((Len(unread) - 1) + 1) * MaxPkg
    BY <1>1 DEF IInv, RingInv, Compact
  <2>2. (Len(unread) - 1) + 1 = Len(unread)
    BY <1>1
  <2> QED BY <2>1, <2>2
<1>3. /\ unread[1].off = i2x_head \/ (Wrapped /\ i2x_head = mark /\ unread[1].off = 0)
      /\ \/ i2x_head <= unread[1].off /\ ~Wrapped /\ End(unread[1]) <= i2x_tail
         \/ i2x_head <= unread[1].off /\ Wrapped /\ End(unread[1]) <= mark
         \/ Wrapped /\ End(unread[1]) <= i2x_tail
      /\ Wrapped => i2x_tail > 0 /\ i2x_head <= mark
  BY <1>1 DEF IInv, RingInv, Chained, Placed
<1>4. /\ unread[1].off \in Nat /\ End(unread[1]) \in Nat
      /\ unread[1].off < End(unread[1])
  BY <1>1, FrameFacts
<1>5. Wrapped <=> i2x_tail < i2x_head
  BY DEF Wrapped
<1>6. Dist(unread[1]) = IF unread[1].off < i2x_tail
                         THEN i2x_tail - unread[1].off
                         ELSE (mark - unread[1].off) + i2x_tail
  BY DEF Dist
<1>7. Len(unread) * MaxPkg \in Nat
  BY <1>1, TimesSucc
<1>8. /\ i2x_head \in Nat /\ i2x_tail \in Nat /\ mark \in Nat
  BY StateFacts
<1> QED BY ONLY <1>1, <1>2, <1>3, <1>4, <1>5, <1>6, <1>7, <1>8

\* A driver that may still send has left room for one more reply.
LEMMA RoomFacts ==
    ASSUME IInv, outstanding < InFlight
    PROVE  /\ Len(unread) * MaxPkg \in Nat
           /\ \A n \in Nat : /\ n * MaxPkg \in Nat
                               /\ n >= InFlight =>
                                    (Len(unread) * MaxPkg) + MaxPkg <= n * MaxPkg
<1> USE StateFacts
<1>1. Len(unread) + 1 <= InFlight
  BY DEF IInv, RingInv
<1>2. Len(unread) * MaxPkg \in Nat
      /\ (Len(unread) + 1) * MaxPkg = (Len(unread) * MaxPkg) + MaxPkg
  BY TimesSucc
<1>3. ASSUME NEW n \in Nat, n >= InFlight
      PROVE  (Len(unread) + 1) * MaxPkg <= n * MaxPkg
  <2>1. Len(unread) + 1 \in Nat /\ Len(unread) + 1 <= n
    BY <1>1, <1>3
  <2> QED BY <2>1, TimesMono
<1> QED BY <1>2, <1>3, TimesSucc
-----------------------------------------------------------------------------
(* xdna_mbox_send()                                                        *)

\* Where a reply goes: inside the ring, in front of head when tail is or gets
\* behind it.
LEMMA SendFacts ==
    ASSUME IInv, Room(InFlight), outstanding < InFlight,
           NEW len \in PayloadSizes, NEW pkg, pkg = HdrWords + len,
           ~TooLarge(pkg), ~RingFull(pkg)
    PROVE  /\ pkg \in Nat /\ pkg > 0 /\ pkg <= MaxPkg /\ len \in Nat /\ pkg = 4 + len
           /\ SendTail(pkg) \in Nat /\ SendTail(pkg) + pkg <= usable
           /\ Wraps(pkg) => /\ SendTail(pkg) = 0 /\ i2x_tail + pkg > usable
                            /\ i2x_head <= i2x_tail /\ pkg < i2x_head
           /\ ~Wraps(pkg) => /\ SendTail(pkg) = i2x_tail
                             /\ i2x_tail < i2x_head => i2x_tail + pkg < i2x_head
<1>1. pkg \in Nat /\ pkg > 0 /\ pkg <= MaxPkg /\ len \in Nat /\ pkg = 4 + len
  <2>1. len \in Nat /\ HdrWords + len <= MaxPkg
    BY SizesAssumption
  <2> QED BY <2>1 DEF HdrWords
<1>2. pkg <= usable
  BY <1>1, StateFacts DEF TooLarge
<1>3. i2x_head \in Nat /\ i2x_tail \in Nat /\ i2x_head <= usable /\ usable \in Nat
  BY StateFacts
<1>4. SendTail(pkg) = IF Wraps(pkg) THEN 0 ELSE i2x_tail
  BY DEF SendTail
<1>5. Wraps(pkg) <=> i2x_tail >= i2x_head /\ i2x_tail + pkg > usable
  BY DEF Wraps
<1>6. ~(SendTail(pkg) < i2x_head /\ SendTail(pkg) + pkg >= i2x_head)
  BY DEF RingFull
<1>7. ASSUME Wraps(pkg) PROVE i2x_head > 0
  <2>1. CASE unread = <<>>
    <3>1. i2x_head = i2x_tail
      BY <2>1 DEF IInv, RingInv, Chained
    <3> QED BY ONLY <3>1, <1>7, <1>5, <1>3, <1>1, <1>2
  <2>2. CASE unread # <<>>
    <3>1. ~Wrapped
      BY <1>7, <1>5, <1>3 DEF Wrapped
    <3>2. i2x_tail - i2x_head <= Len(unread) * MaxPkg
      BY <3>1, <2>2, OldestFacts
    <3>3. /\ Len(unread) * MaxPkg \in Nat /\ InFlight * MaxPkg \in Nat
          /\ (Len(unread) * MaxPkg) + MaxPkg <= InFlight * MaxPkg
      BY RoomFacts, SizesAssumption
    <3>4. InFlight * MaxPkg <= usable
      BY DEF Room
    <3>5. MaxPkg \in Nat
      BY SizesAssumption
    <3> QED BY ONLY <3>2, <3>3, <3>4, <3>5, <1>7, <1>5, <1>3, <1>1
  <2> QED BY <2>1, <2>2
<1> QED BY ONLY <1>1, <1>2, <1>3, <1>4, <1>5, <1>6, <1>7

\* No word of an unread frame is written.
LEMMA SendDisjoint ==
    ASSUME IInv, Room(InFlight), outstanding < InFlight,
           NEW len \in PayloadSizes, NEW pkg, pkg = HdrWords + len,
           ~TooLarge(pkg), ~RingFull(pkg),
           NEW k \in 1 .. Len(unread),
           NEW w \in unread[k].off .. (End(unread[k]) - 1)
    PROVE  /\ w \in 0 .. (RingSize - 1)
           /\ w \notin SendTail(pkg) .. (SendTail(pkg) + pkg - 1)
           /\ Wraps(pkg) => w # i2x_tail
<1>1. /\ \/ i2x_head <= unread[k].off /\ ~Wrapped /\ End(unread[k]) <= i2x_tail
         \/ i2x_head <= unread[k].off /\ Wrapped /\ End(unread[k]) <= mark
         \/ Wrapped /\ End(unread[k]) <= i2x_tail
      /\ Wrapped => i2x_head <= mark
  BY DEF IInv, RingInv, Placed
<1>2. Wrapped <=> i2x_tail < i2x_head
  BY DEF Wrapped
<1>3. unread[k].off \in Nat /\ End(unread[k]) \in Nat
  <2>1. unread[k] \in Frame
    BY StateFacts
  <2> QED BY <2>1, FrameFacts
<1>4. /\ i2x_head \in Nat /\ i2x_tail \in Nat /\ i2x_tail <= usable /\ usable \in Nat
      /\ mark \in Nat /\ mark <= usable /\ RingSize = usable + 1
  BY StateFacts
<1>5. /\ pkg \in Nat /\ SendTail(pkg) \in Nat
      /\ Wraps(pkg) => /\ SendTail(pkg) = 0
                       /\ i2x_head <= i2x_tail /\ pkg < i2x_head
      /\ ~Wraps(pkg) => /\ SendTail(pkg) = i2x_tail
                        /\ i2x_tail < i2x_head => i2x_tail + pkg < i2x_head
  BY SendFacts
<1>6. w \in Int /\ unread[k].off <= w /\ w < End(unread[k])
  BY <1>3
<1> QED BY ONLY SMTT(30), <1>1, <1>2, <1>3, <1>4, <1>5, <1>6

\* A reply that is queued keeps the invariant.
LEMMA SendStep ==
    ASSUME IInv, Room(InFlight), outstanding < InFlight,
           NEW id \in Ids, NEW len \in PayloadSizes,
           SendReply(id, len), outstanding' = outstanding + 1,
           UNCHANGED <<rx, msg, rcvd>>
    PROVE  IInv'
<1> DEFINE pkg == HdrWords + len
           t == SendTail(pkg)
           n == Len(unread)
           new == [off |-> t, id |-> id, len |-> len]
<1>1. ~TooLarge(pkg) /\ ~RingFull(pkg)
  BY DEF SendReply
<1>2. /\ sram' = WithFrame(id, len) /\ i2x_tail' = t + pkg /\ i2x_head' = i2x_head
      /\ unread' = Append(unread, new) /\ intr' = 1 /\ irq_pending' = TRUE
      /\ mark' = IF Wraps(pkg) THEN i2x_tail ELSE mark
      /\ lost' = lost /\ rx' = rx /\ msg' = msg /\ rcvd' = rcvd
  BY DEF SendReply, NewTail, RaiseIrq
<1>3. /\ pkg \in Nat /\ pkg > 0 /\ pkg <= MaxPkg /\ len \in Nat /\ pkg = 4 + len
      /\ t \in Nat /\ t + pkg <= usable
      /\ Wraps(pkg) => /\ t = 0 /\ i2x_tail + pkg > usable
                       /\ i2x_head <= i2x_tail /\ pkg < i2x_head
      /\ ~Wraps(pkg) => /\ t = i2x_tail
                        /\ i2x_tail < i2x_head => i2x_tail + pkg < i2x_head
  BY <1>1, SendFacts
<1> HIDE DEF pkg, t
<1>4. /\ i2x_head \in Nat /\ i2x_head <= usable /\ i2x_tail \in Nat
      /\ i2x_tail <= usable /\ mark \in Nat /\ mark <= usable
      /\ usable \in Nat /\ RingSize = usable + 1 /\ MaxPkg \in Nat
      /\ unread \in Seq(Frame) /\ n \in Nat /\ (unread = <<>> <=> n = 0)
  BY StateFacts
<1>5. new \in Frame
  BY <1>3, <1>4 DEF Frame
<1>6. /\ unread' \in Seq(Frame) /\ unread' # <<>> /\ Len(unread') = n + 1
      /\ \A k \in 1 .. n : unread'[k] = unread[k]
      /\ unread'[n + 1] = new
  BY <1>2, <1>4, <1>5, AppendFacts
<1>7. End(new) = t + pkg
  BY <1>3, <1>4 DEF End, HdrWords
<1>8. Wrapped <=> i2x_tail < i2x_head
  BY DEF Wrapped
<1>9. Wrapped' <=> t + pkg < i2x_head
  BY <1>2 DEF Wrapped
<1>10. \A k \in 1 .. n : /\ unread[k].off \in Nat /\ End(unread[k]) \in Nat
                          /\ unread[k].off < End(unread[k])
  BY StateFacts, FrameFacts
<1>11. TypeOK'
  <2>1. i2x_head' \in 0 .. usable /\ i2x_tail' \in 0 .. usable /\ mark' \in 0 .. usable
    BY <1>2, <1>3, <1>4
  <2>2. sram' \in [0 .. (RingSize - 1) -> Cells \cup {TOMBSTONE, Blank}]
    <3>1. WithTombstone(pkg) \in [0 .. (RingSize - 1) -> Cells \cup {TOMBSTONE, Blank}]
      BY <1>4 DEF IInv, TypeOK, WithTombstone
    <3>2. ASSUME NEW w \in t .. (t + HdrWords + len - 1)
          PROVE  Cell(id, len, w - t) \in Cells
      <4>1. w - t \in 0 .. (MaxPkg - 1)
        BY <1>3, <1>4 DEF HdrWords, pkg
      <4> QED BY <4>1 DEF Cell, Cells
    <3>3. sram' = [w \in 0 .. (RingSize - 1) |->
                     IF w \in t .. (t + HdrWords + len - 1)
                     THEN Cell(id, len, w - t) ELSE WithTombstone(pkg)[w]]
      BY <1>2 DEF WithFrame, t, pkg
    <3> HIDE DEF Cell
    <3> QED BY <3>1, <3>2, <3>3
  <2>3. outstanding' \in 0 .. InFlight
    BY StateFacts
  <2> QED BY <2>1, <2>2, <2>3, <1>2, <1>6 DEF IInv, TypeOK, Msgs
<1>12. ASSUME NEW w \in 0 .. (RingSize - 1)
       PROVE  /\ w \in t .. (t + pkg - 1) => sram'[w] = Cell(id, len, w - t)
              /\ w \notin t .. (t + pkg - 1) =>
                   sram'[w] = IF Wraps(pkg) /\ w = i2x_tail THEN TOMBSTONE ELSE sram[w]
  <2>1. WithTombstone(pkg)[w] =
            IF Wraps(pkg) /\ w = i2x_tail THEN TOMBSTONE ELSE sram[w]
    BY DEF WithTombstone, IInv, TypeOK
  <2>2. sram' = [v \in 0 .. (RingSize - 1) |->
                   IF v \in t .. (t + HdrWords + len - 1)
                   THEN Cell(id, len, v - t) ELSE WithTombstone(pkg)[v]]
    BY <1>2 DEF WithFrame, t, pkg
  <2>3. t + HdrWords + len - 1 = t + pkg - 1
    BY <1>3 DEF HdrWords
  <2> QED BY <2>1, <2>2, <2>3
<1>13. UnreadIntact'
  <2> SUFFICES ASSUME NEW k \in 1 .. Len(unread'),
                      NEW j \in 0 .. (HdrWords + unread'[k].len - 1)
               PROVE  sram'[unread'[k].off + j] =
                        Cell(unread'[k].id, unread'[k].len, j)
    BY DEF UnreadIntact
  <2>1. CASE k = n + 1
    <3>1. unread'[k].off = t /\ unread'[k].id = id /\ unread'[k].len = len
      BY <2>1, <1>6
    <3>2. /\ t + j \in 0 .. (RingSize - 1) /\ t + j \in t .. (t + pkg - 1)
          /\ (t + j) - t = j
      BY <3>1, <1>3, <1>4 DEF HdrWords
    <3> QED BY <3>1, <3>2, <1>12
  <2>2. CASE k \in 1 .. n
    <3>1. unread'[k] = unread[k] /\ unread[k] \in Frame
      BY <2>2, <1>6, StateFacts
    <3>2. unread[k].off + j \in unread[k].off .. (End(unread[k]) - 1)
      BY <3>1, FrameWord
    <3>3. /\ unread[k].off + j \in 0 .. (RingSize - 1)
          /\ unread[k].off + j \notin t .. (t + pkg - 1)
          /\ Wraps(pkg) => unread[k].off + j # i2x_tail
      BY <3>2, <2>2, <1>1, SendDisjoint DEF t, pkg
    <3>4. sram[unread[k].off + j] = Cell(unread[k].id, unread[k].len, j)
      BY <2>2, <3>1 DEF IInv, UnreadIntact
    <3>5. sram'[unread[k].off + j] = sram[unread[k].off + j]
      BY <3>3, <1>12
    <3> QED BY <3>1, <3>4, <3>5
  <2> QED BY <2>1, <2>2, <1>4, <1>6
<1>14. ASSUME NEW k \in 1 .. n
       PROVE  /\ unread'[k] = unread[k] /\ unread[k].off \in Nat
              /\ End(unread[k]) \in Nat /\ unread[k].off < End(unread[k])
              /\ \/ i2x_head <= unread[k].off /\ ~Wrapped /\ End(unread[k]) <= i2x_tail
                 \/ i2x_head <= unread[k].off /\ Wrapped /\ End(unread[k]) <= mark
                 \/ Wrapped /\ End(unread[k]) <= i2x_tail
  BY <1>6, <1>10 DEF IInv, RingInv, Placed
<1>15. /\ Wrapped => /\ unread # <<>> /\ i2x_tail > 0 /\ sram[mark] = TOMBSTONE
                     /\ i2x_head <= mark /\ mark + MaxPkg > usable
  BY DEF IInv, RingInv, Placed
<1>16. Chained'
  <2>1. unread'[1].off = i2x_head' \/ (Wrapped' /\ i2x_head' = mark' /\ unread'[1].off = 0)
    <3>1. CASE n = 0
      <4>1. unread'[1] = new /\ i2x_head = i2x_tail
        BY <3>1, <1>4, <1>6 DEF IInv, RingInv, Chained
      <4>2. unread'[1].off = t
        BY <4>1
      <4> QED BY ONLY <4>1, <4>2, <1>2, <1>3, <1>4, <1>9
    <3>2. CASE n # 0
      <4>1. 1 \in 1 .. n
        BY <3>2, <1>4
      <4>2. unread[1].off = i2x_head \/ (Wrapped /\ i2x_head = mark /\ unread[1].off = 0)
        BY <3>2, <1>4 DEF IInv, RingInv, Chained
      <4> QED BY ONLY <4>1, <4>2, <1>14, <1>2, <1>3, <1>4, <1>8, <1>9
    <3> QED BY <3>1, <3>2
  <2>2. ASSUME NEW k \in 1 .. Len(unread')
        PROVE  \/ After(k)' = End(unread'[k])
               \/ Wrapped' /\ End(unread'[k]) = mark' /\ After(k)' = 0
    <3>1. After(k)' = IF k < n + 1 THEN unread'[k + 1].off ELSE t + pkg
      BY <1>2, <1>6 DEF After
    <3>2. CASE k = n + 1
      BY <3>1, <3>2, <1>6, <1>7, <1>4
    <3>3. CASE k \in 1 .. n
      <4>1. \/ After(k) = End(unread[k])
            \/ Wrapped /\ End(unread[k]) = mark /\ After(k) = 0
        BY <3>3 DEF IInv, RingInv, Chained
      <4>2. After(k) = IF k < n THEN unread[k + 1].off ELSE i2x_tail
        BY DEF After
      <4>3. unread'[k + 1].off = IF k < n THEN unread[k + 1].off ELSE t
        BY <3>3, <1>4, <1>6
      <4> QED BY ONLY <4>1, <4>2, <4>3, <3>1, <3>3, <1>14, <1>15, <1>2, <1>3, <1>4,
                      <1>8, <1>9
    <3> QED BY <3>2, <3>3, <1>4, <1>6
  <2> QED BY <2>1, <2>2, <1>6 DEF Chained
<1>17. Placed'
  <2>1. ASSUME NEW k \in 1 .. Len(unread')
        PROVE  \/ i2x_head' <= unread'[k].off /\ ~Wrapped' /\ End(unread'[k]) <= i2x_tail'
               \/ i2x_head' <= unread'[k].off /\ Wrapped' /\ End(unread'[k]) <= mark'
               \/ Wrapped' /\ End(unread'[k]) <= i2x_tail'
    <3>1. CASE k = n + 1
      <4>1. unread'[k].off = t /\ End(unread'[k]) = t + pkg
        BY <3>1, <1>6, <1>7
      <4> QED BY ONLY <4>1, <1>2, <1>3, <1>4, <1>9
    <3>2. CASE k \in 1 .. n
      <4>1. /\ unread'[k] = unread[k] /\ unread[k].off \in Nat
            /\ End(unread[k]) \in Nat /\ unread[k].off < End(unread[k])
            /\ \/ i2x_head <= unread[k].off /\ ~Wrapped /\ End(unread[k]) <= i2x_tail
               \/ i2x_head <= unread[k].off /\ Wrapped /\ End(unread[k]) <= mark
               \/ Wrapped /\ End(unread[k]) <= i2x_tail
        BY <3>2, <1>14
      <4>2. End(unread'[k]) = End(unread[k])
        BY <4>1
      <4> QED BY ONLY SMTT(30), <4>1, <4>2, <1>2, <1>3, <1>4, <1>8, <1>9, <1>15
    <3> QED BY <3>1, <3>2, <1>4, <1>6
  <2>2. ASSUME Wrapped'
        PROVE  /\ i2x_tail' > 0 /\ i2x_head' <= mark' /\ mark' + MaxPkg > usable
               /\ sram'[mark'] = TOMBSTONE
    <3>1. i2x_tail' > 0 /\ i2x_head' <= mark' /\ mark' + MaxPkg > usable
      BY ONLY <2>2, <1>2, <1>3, <1>4, <1>8, <1>9, <1>15
    <3>2. mark' \in 0 .. (RingSize - 1) /\ mark' \notin t .. (t + pkg - 1)
      BY ONLY <3>1, <2>2, <1>2, <1>3, <1>4, <1>9
    <3>3. sram'[mark'] = IF Wraps(pkg) /\ mark' = i2x_tail THEN TOMBSTONE ELSE sram[mark']
      BY <3>2, <1>12
    <3>4. ~Wraps(pkg) => Wrapped
      BY ONLY <2>2, <1>3, <1>4, <1>8, <1>9
    <3> QED BY <3>1, <3>3, <3>4, <1>2, <1>15
  <2> QED BY <2>1, <2>2, <1>6 DEF Placed, usable
<1>18. Compact'
  <2> SUFFICES ASSUME NEW k \in 1 .. Len(unread')
               PROVE  Dist(unread[k])' <= ((Len(unread') - k) + 1) * MaxPkg
    BY DEF Compact
  <2>1. Dist(unread[k])' = IF unread'[k].off < i2x_tail' THEN i2x_tail' - unread'[k].off
                            ELSE (mark' - unread'[k].off) + i2x_tail'
    BY DEF Dist
  <2>2. CASE k = n + 1
    <3>1. unread'[k].off = t /\ (Len(unread') - k) + 1 = 1
      BY <2>2, <1>6, <1>4
    <3>2. ((Len(unread') - k) + 1) * MaxPkg = MaxPkg
      BY <3>1, <1>4
    <3> QED BY ONLY <2>1, <3>1, <3>2, <1>2, <1>3, <1>4
  <2>3. CASE k \in 1 .. n
    <3>1. Dist(unread[k]) <= ((n - k) + 1) * MaxPkg
      BY <2>3 DEF IInv, RingInv, Compact
    <3>2. Dist(unread[k]) = IF unread[k].off < i2x_tail THEN i2x_tail - unread[k].off
                            ELSE (mark - unread[k].off) + i2x_tail
      BY DEF Dist
    <3>3. (Len(unread') - k) + 1 = ((n - k) + 1) + 1 /\ (n - k) + 1 \in Nat
      BY <2>3, <1>4, <1>6
    <3>4. /\ ((n - k) + 1) * MaxPkg \in Nat
          /\ ((Len(unread') - k) + 1) * MaxPkg = (((n - k) + 1) * MaxPkg) + MaxPkg
      BY <3>3, TimesSucc
    <3>5. Dist(unread[k])' <= Dist(unread[k]) + pkg
      <4>1. /\ unread'[k] = unread[k] /\ unread[k].off \in Nat
            /\ End(unread[k]) \in Nat /\ unread[k].off < End(unread[k])
            /\ \/ i2x_head <= unread[k].off /\ ~Wrapped /\ End(unread[k]) <= i2x_tail
               \/ i2x_head <= unread[k].off /\ Wrapped /\ End(unread[k]) <= mark
               \/ Wrapped /\ End(unread[k]) <= i2x_tail
        BY <2>3, <1>14
      <4>2. CASE Wraps(pkg)
        BY ONLY <4>1, <4>2, <2>1, <3>2, <1>2, <1>3, <1>4, <1>8
      <4>3. CASE ~Wraps(pkg)
        BY ONLY SMTT(30), <4>1, <4>3, <2>1, <3>2, <1>2, <1>3, <1>4, <1>8
      <4> QED BY ONLY <4>2, <4>3
    <3>6. Dist(unread[k]) \in Int /\ Dist(unread[k])' \in Int
      <4>1. unread'[k] = unread[k] /\ unread[k].off \in Nat
        BY <2>3, <1>14
      <4> QED BY ONLY SMTT(30), <4>1, <2>1, <3>2, <1>2, <1>3, <1>4
    <3> QED BY ONLY <3>1, <3>4, <3>5, <3>6, <1>3, <1>4
  <2> QED BY <2>2, <2>3, <1>4, <1>6
<1>19. Ordered'
  <2> SUFFICES ASSUME NEW j \in 1 .. Len(unread'), NEW i \in 1 .. (j - 1)
               PROVE  \/ End(unread'[i]) <= unread'[j].off
                      \/ /\ Wrapped' /\ i2x_head' <= unread'[i].off
                         /\ End(unread'[j]) <= i2x_tail'
    BY DEF Ordered
  <2>1. i \in 1 .. n
    BY <1>4, <1>6
  <2>2. /\ unread'[i] = unread[i] /\ unread[i].off \in Nat
        /\ End(unread[i]) \in Nat /\ unread[i].off < End(unread[i])
        /\ \/ i2x_head <= unread[i].off /\ ~Wrapped /\ End(unread[i]) <= i2x_tail
           \/ i2x_head <= unread[i].off /\ Wrapped /\ End(unread[i]) <= mark
           \/ Wrapped /\ End(unread[i]) <= i2x_tail
    BY <2>1, <1>14
  <2>3. End(unread'[i]) = End(unread[i]) /\ unread'[i].off = unread[i].off
    BY <2>2
  <2>4. CASE j = n + 1
    <3>1. unread'[j].off = t /\ End(unread'[j]) = t + pkg
      BY <2>4, <1>6, <1>7
    <3> QED BY ONLY <3>1, <2>2, <2>3, <1>2, <1>3, <1>4, <1>8, <1>9
  <2>5. CASE j \in 1 .. n
    <3>1. /\ unread'[j].off = unread[j].off /\ End(unread'[j]) = End(unread[j])
          /\ unread[j].off \in Nat /\ End(unread[j]) \in Nat
      BY <2>5, <1>14
    <3>2. \/ End(unread[i]) <= unread[j].off
          \/ Wrapped /\ i2x_head <= unread[i].off /\ End(unread[j]) <= i2x_tail
      BY <2>5 DEF IInv, RingInv, Ordered
    <3> QED BY ONLY SMTT(30), <3>1, <3>2, <2>2, <2>3, <1>2, <1>3, <1>4, <1>8, <1>9
  <2> QED BY <2>4, <2>5, <1>4, <1>6
<1>20. RxInStep'
  <2>1. unread # <<>> => unread'[1] = unread[1]
    BY <1>4, <1>6
  <2>2. ASSUME rx = "rewind" PROVE Wrapped' /\ i2x_head' = mark'
    <3>1. Wrapped /\ i2x_head = mark
      BY <2>2 DEF IInv, RingInv, RxInStep
    <3> QED BY ONLY <3>1, <1>2, <1>3, <1>4, <1>8, <1>9
  <2> QED BY <2>1, <2>2, <1>2, <1>6 DEF IInv, RingInv, RxInStep
<1>21. outstanding' = Len(unread') + lost'
  BY <1>2, <1>4, <1>6, StateFacts DEF IInv, RingInv
<1> QED BY <1>11, <1>13, <1>16, <1>17, <1>18, <1>19, <1>20, <1>21 DEF IInv, RingInv

\* A reply that is refused keeps the invariant: the tombstone it may leave is at
\* tail, behind every frame.
LEMMA DropStep ==
    ASSUME IInv, outstanding < InFlight,
           NEW len \in PayloadSizes,
           DropReply(len), outstanding' = outstanding + 1,
           UNCHANGED <<rx, msg, rcvd>>
    PROVE  IInv'
<1> DEFINE pkg == HdrWords + len
<1>1. /\ sram' = sram \/ (Wraps(pkg) /\ sram' = [sram EXCEPT ![i2x_tail] = TOMBSTONE])
      /\ lost' = lost + 1
      /\ UNCHANGED <<i2x_head, i2x_tail, intr, irq_pending, unread, mark>>
  BY DEF DropReply, WithTombstone
<1>2. Wraps(pkg) => ~Wrapped
  BY StateFacts DEF Wraps, Wrapped
<1> HIDE DEF pkg
<1>3. TypeOK'
  <2>1. sram' \in [0 .. (RingSize - 1) -> Cells \cup {TOMBSTONE, Blank}]
    BY <1>1 DEF IInv, TypeOK
  <2>2. outstanding' \in 0 .. InFlight /\ lost' \in Nat
    BY <1>1, StateFacts
  <2> QED BY <2>1, <2>2, <1>1 DEF IInv, TypeOK
<1>4. UnreadIntact'
  <2> SUFFICES ASSUME NEW k \in 1 .. Len(unread),
                      NEW j \in 0 .. (HdrWords + unread[k].len - 1)
               PROVE  sram'[unread[k].off + j] = Cell(unread[k].id, unread[k].len, j)
    BY <1>1 DEF UnreadIntact
  <2>1. sram[unread[k].off + j] = Cell(unread[k].id, unread[k].len, j)
    BY DEF IInv, UnreadIntact
  <2>2. CASE Wraps(pkg)
    <3>1. unread[k] \in Frame
      BY StateFacts
    <3>2. unread[k].off + j \in unread[k].off .. (End(unread[k]) - 1)
      BY <3>1, FrameWord
    <3>3. End(unread[k]) <= i2x_tail
      BY <2>2, <1>2 DEF IInv, RingInv, Placed
    <3>4. /\ unread[k].off \in Nat /\ End(unread[k]) \in Nat /\ i2x_tail \in Nat
          /\ i2x_tail <= usable /\ RingSize = usable + 1 /\ usable \in Nat
      BY <3>1, FrameFacts, StateFacts
    <3> DEFINE w == unread[k].off + j
    <3>5. w # i2x_tail /\ w \in 0 .. (RingSize - 1)
      BY ONLY <3>2, <3>3, <3>4
    <3>6. sram'[w] = sram[w]
      BY <3>5, <1>1 DEF IInv, TypeOK
    <3> QED BY <3>6, <2>1
  <2>3. CASE ~Wraps(pkg)
    BY <2>1, <2>3, <1>1
  <2> QED BY <2>2, <2>3
<1>5. Chained' /\ Ordered' /\ Compact'
  BY <1>1 DEF IInv, RingInv, Chained, Ordered, Compact, After, Wrapped, Dist
<1>6. Placed'
  BY <1>1, <1>2 DEF IInv, RingInv, Placed, Wrapped
<1>7. RxInStep'
  BY <1>1 DEF IInv, RingInv, RxInStep, Wrapped
<1>8. outstanding' = Len(unread') + lost'
  BY <1>1, StateFacts DEF IInv, RingInv
<1> QED BY <1>3, <1>4, <1>5, <1>6, <1>7, <1>8 DEF IInv, RingInv
-----------------------------------------------------------------------------
(* The receive path                                                        *)

\* Steps that leave the ring alone.
LEMMA SameRing ==
    ASSUME IInv,
           UNCHANGED <<i2x_head, i2x_tail, sram, outstanding, unread, mark, lost>>
    PROVE  /\ UnreadIntact' /\ Chained' /\ Placed' /\ Ordered' /\ Compact'
           /\ outstanding' = Len(unread') + lost'
BY DEF IInv, RingInv, UnreadIntact, Chained, Placed, Ordered, Compact, After, Wrapped, Dist

\* At a word that is no tombstone, the oldest frame starts.
LEMMA PeekFacts ==
    ASSUME IInv, unread # <<>>
    PROVE  IF sram[i2x_head] = TOMBSTONE
           THEN Wrapped /\ i2x_head = mark
           ELSE unread[1].off = i2x_head
<1>1. \/ unread[1].off = i2x_head
      \/ Wrapped /\ i2x_head = mark /\ sram[mark] = TOMBSTONE
  BY DEF IInv, RingInv, Chained, Placed
<1>2. ASSUME unread[1].off = i2x_head PROVE sram[i2x_head] # TOMBSTONE
  <2>1. 1 \in 1 .. Len(unread) /\ unread[1] \in Frame
    BY StateFacts
  <2>2. /\ unread[1].len \in Nat /\ unread[1].len \in PayloadSizes
        /\ unread[1].id \in Ids /\ unread[1].off \in Nat
        /\ HdrWords + unread[1].len <= MaxPkg
    BY <2>1, FrameFacts
  <2>3. 0 \in 0 .. (HdrWords + unread[1].len - 1)
    BY <2>2 DEF HdrWords
  <2>4. sram[unread[1].off + 0] = Cell(unread[1].id, unread[1].len, 0)
    BY <2>1, <2>3 DEF IInv, UnreadIntact
  <2>5. unread[1].off + 0 = i2x_head
    BY <1>2, <2>2
  <2>6. 0 \in 0 .. (MaxPkg - 1)
    BY <2>2, SizesAssumption DEF HdrWords
  <2>7. Cell(unread[1].id, unread[1].len, 0) \in Cells
    BY <2>2, <2>6 DEF Cell, Cells
  <2> QED BY <2>4, <2>5, <2>7, SizesAssumption
<1> QED BY <1>1, <1>2

\* Reading the header and the payload of the oldest frame gives that frame, whole.
LEMMA ReadFacts ==
    ASSUME IInv, unread # <<>>, unread[1].off = i2x_head
    PROVE  /\ sram[i2x_head] = Cell(unread[1].id, unread[1].len, 0)
           /\ \A j \in 0 .. (HdrWords + unread[1].len - 1) :
                 sram[i2x_head + j] = Cell(unread[1].id, unread[1].len, j)
           /\ unread[1].id \in Ids /\ unread[1].len \in PayloadSizes
           /\ unread[1].len \in Nat
<1>1. 1 \in 1 .. Len(unread) /\ unread[1] \in Frame
  BY StateFacts
<1>2. \A j \in 0 .. (HdrWords + unread[1].len - 1) :
          sram[i2x_head + j] = Cell(unread[1].id, unread[1].len, j)
  BY <1>1 DEF IInv, UnreadIntact
<1>3. unread[1].id \in Ids /\ unread[1].len \in PayloadSizes /\ unread[1].len \in Nat
  BY <1>1, FrameFacts
<1>4. 0 \in 0 .. (HdrWords + unread[1].len - 1) /\ i2x_head + 0 = i2x_head
  <2>1. i2x_head \in Nat
    BY StateFacts
  <2> QED BY ONLY <2>1, <1>3 DEF HdrWords
<1> QED BY <1>2, <1>3, <1>4

\* The steps of the receive path before it publishes a new head.
LEMMA ReadStep ==
    ASSUME IInv,
           RxWake \/ RxAck \/ RxTail \/ RxPeek \/ RxHeader \/ RxPayload \/ RxRecheck
    PROVE  IInv'
<1>1. UNCHANGED <<i2x_head, i2x_tail, sram, rcvd, outstanding, unread, mark, lost>>
  BY DEF RxWake, RxAck, RxTail, RxPeek, RxHeader, RxPayload, RxRecheck, regs, ghosts
<1>2. Wrapped' <=> Wrapped
  BY <1>1 DEF Wrapped
<1>3. TypeOK' /\ RxInStep'
  <2>1. CASE RxWake \/ RxAck \/ RxRecheck
    <3>1. /\ rx' \in {"ack", "tail", "idle"} /\ msg' = msg
          /\ intr' \in {0, 1} /\ irq_pending' \in BOOLEAN
      BY <2>1 DEF RxWake, RxAck, RxRecheck, RxGoto, regs, IInv, TypeOK
    <3>2. RxInStep'
      BY <3>1 DEF RxInStep
    <3> QED BY <3>1, <3>2, <1>1 DEF IInv, TypeOK, RxSteps
  <2>2. CASE RxTail
    <3>1. /\ rx' = (IF i2x_head = i2x_tail THEN "recheck" ELSE "peek")
          /\ UNCHANGED <<msg, intr, irq_pending>>
      BY <2>2 DEF RxTail, RxGoto, regs
    <3>2. i2x_head # i2x_tail => unread # <<>>
      BY DEF IInv, RingInv, Chained
    <3>3. RxInStep'
      BY <3>1, <3>2, <1>1 DEF RxInStep
    <3> QED BY <3>1, <3>3, <1>1 DEF IInv, TypeOK, RxSteps
  <2>3. CASE RxPeek
    <3>1. /\ rx = "peek" /\ rx' = (IF sram[i2x_head] = TOMBSTONE THEN "rewind" ELSE "header")
          /\ UNCHANGED <<msg, intr, irq_pending>>
      BY <2>3 DEF RxPeek, RxGoto, regs
    <3>2. unread # <<>>
      BY <3>1 DEF IInv, RingInv, RxInStep
    <3>3. RxInStep'
      BY <3>1, <3>2, <1>1, <1>2, PeekFacts DEF RxInStep
    <3> QED BY <3>1, <3>3, <1>1 DEF IInv, TypeOK, RxSteps
  <2>4. CASE RxHeader
    <3>1. /\ rx = "header" /\ rx' = "payload" /\ UNCHANGED <<intr, irq_pending>>
          /\ msg' = [id |-> sram[i2x_head].id, len |-> sram[i2x_head].len,
                     whole |-> \A j \in 0 .. (HdrWords - 1) :
                                 sram[i2x_head + j] =
                                   Cell(sram[i2x_head].id, sram[i2x_head].len, j)]
      BY <2>4 DEF RxHeader, RxGoto, regs
    <3>2. unread # <<>> /\ unread[1].off = i2x_head
      BY <3>1 DEF IInv, RingInv, RxInStep
    <3>3. sram[i2x_head].id = unread[1].id /\ sram[i2x_head].len = unread[1].len
      BY <3>2, ReadFacts DEF Cell
    <3>4. \A j \in 0 .. (HdrWords - 1) : j \in 0 .. (HdrWords + unread[1].len - 1)
      BY <3>2, ReadFacts DEF HdrWords
    <3>5. \A j \in 0 .. (HdrWords - 1) :
             sram[i2x_head + j] = Cell(sram[i2x_head].id, sram[i2x_head].len, j)
      BY <3>2, <3>3, <3>4, ReadFacts
    <3>6. msg' = [id |-> unread[1].id, len |-> unread[1].len, whole |-> TRUE]
      BY <3>1, <3>3, <3>5
    <3>7. RxInStep'
      BY <3>1, <3>2, <3>6, <1>1 DEF RxInStep
    <3>8. msg' \in Msgs
      BY <3>2, <3>6, ReadFacts DEF Msgs
    <3> QED BY <3>1, <3>7, <3>8, <1>1 DEF IInv, TypeOK, RxSteps
  <2>5. CASE RxPayload
    <3>1. /\ rx = "payload" /\ rx' = "advance" /\ UNCHANGED <<intr, irq_pending>>
          /\ msg' = [msg EXCEPT !.whole =
                      @ /\ \A j \in HdrWords .. (HdrWords + msg.len - 1) :
                              sram[i2x_head + j] = Cell(msg.id, msg.len, j)]
      BY <2>5 DEF RxPayload, RxGoto, regs
    <3>2. /\ unread # <<>> /\ unread[1].off = i2x_head
          /\ msg = [id |-> unread[1].id, len |-> unread[1].len, whole |-> TRUE]
      BY <3>1 DEF IInv, RingInv, RxInStep
    <3>3. \A j \in HdrWords .. (HdrWords + unread[1].len - 1) :
             j \in 0 .. (HdrWords + unread[1].len - 1)
      BY <3>2, ReadFacts DEF HdrWords
    <3>4. \A j \in HdrWords .. (HdrWords + msg.len - 1) :
             sram[i2x_head + j] = Cell(msg.id, msg.len, j)
      BY <3>2, <3>3, ReadFacts
    <3>5. msg' = msg
      BY <3>1, <3>2, <3>4
    <3>6. RxInStep'
      BY <3>1, <3>2, <3>5, <1>1 DEF RxInStep
    <3> QED BY <3>1, <3>5, <3>6, <1>1 DEF IInv, TypeOK, RxSteps
  <2> QED BY <2>1, <2>2, <2>3, <2>4, <2>5
<1> QED BY <1>1, <1>3, SameRing DEF IInv, RingInv

\* Following the tombstone: head joins tail on the same side of the ring.
LEMMA RewindStep ==
    ASSUME IInv, RxRewind
    PROVE  IInv'
<1>1. /\ rx = "rewind" /\ rx' = "tail" /\ i2x_head' = 0
      /\ UNCHANGED <<i2x_tail, intr, sram, irq_pending, msg, rcvd, outstanding,
                     unread, mark, lost>>
  BY DEF RxRewind, RxGoto, ghosts
<1>2. unread # <<>> /\ Wrapped /\ i2x_head = mark
  BY <1>1 DEF IInv, RingInv, RxInStep
<1>3. /\ i2x_head \in Nat /\ i2x_tail \in Nat /\ usable \in Nat /\ mark \in Nat
      /\ Len(unread) \in Nat \ {0}
  BY <1>2, StateFacts
<1>4. i2x_tail < i2x_head /\ ~Wrapped'
  BY <1>1, <1>2, <1>3 DEF Wrapped
<1>5. ASSUME NEW k \in 1 .. Len(unread)
      PROVE  /\ unread[k].off \in Nat /\ End(unread[k]) \in Nat
             /\ unread[k].off < End(unread[k]) /\ End(unread[k]) <= i2x_tail
  <2>1. unread[k] \in Frame
    BY StateFacts
  <2>2. /\ unread[k].off \in Nat /\ End(unread[k]) \in Nat
        /\ unread[k].off < End(unread[k])
    BY <2>1, FrameFacts
  <2>3. \/ i2x_head <= unread[k].off /\ End(unread[k]) <= mark
        \/ End(unread[k]) <= i2x_tail
    BY <1>2 DEF IInv, RingInv, Placed
  <2> QED BY ONLY <2>2, <2>3, <1>2, <1>3
<1>6. TypeOK'
  BY <1>1, <1>3 DEF IInv, TypeOK, RxSteps
<1>7. UnreadIntact'
  BY <1>1 DEF IInv, UnreadIntact
<1>8. Chained'
  <2>1. unread[1].off = 0
    <3>1. 1 \in 1 .. Len(unread)
      BY <1>3
    <3>2. unread[1].off = i2x_head \/ unread[1].off = 0
      BY <1>2 DEF IInv, RingInv, Chained
    <3>3. /\ unread[1].off \in Nat /\ End(unread[1]) \in Nat
          /\ unread[1].off < End(unread[1]) /\ End(unread[1]) <= i2x_tail
      BY <3>1, <1>5
    <3> QED BY ONLY <3>2, <3>3, <1>3, <1>4
  <2>2. ASSUME NEW k \in 1 .. Len(unread) PROVE After(k) = End(unread[k])
    <3>1. \/ After(k) = End(unread[k])
          \/ End(unread[k]) = mark
      BY DEF IInv, RingInv, Chained
    <3> QED BY <3>1, <1>2, <1>3, <1>4, <1>5
  <2>3. \A k \in 1 .. Len(unread) : After(k)' = After(k)
    BY <1>1 DEF After
  <2> QED BY <2>1, <2>2, <2>3, <1>1, <1>2 DEF Chained
<1>9. Placed'
  <2>1. \A k \in 1 .. Len(unread) : 0 <= unread[k].off /\ End(unread[k]) <= i2x_tail
    BY <1>5
  <2> QED BY <2>1, <1>1, <1>4 DEF Placed
<1>10. Ordered'
  <2> SUFFICES ASSUME NEW j \in 1 .. Len(unread), NEW i \in 1 .. (j - 1)
               PROVE  End(unread[i]) <= unread[j].off
    BY <1>1 DEF Ordered
  <2>1. \/ End(unread[i]) <= unread[j].off
        \/ i2x_head <= unread[i].off
    BY DEF IInv, RingInv, Ordered
  <2>2. i \in 1 .. Len(unread)
    BY <1>3
  <2> QED BY <2>1, <2>2, <1>3, <1>4, <1>5
<1>11. Compact'
  BY <1>1 DEF IInv, RingInv, Compact, Dist
<1>12. RxInStep' /\ outstanding' = Len(unread') + lost'
  BY <1>1 DEF IInv, RingInv, RxInStep
<1> QED BY <1>6, <1>7, <1>8, <1>9, <1>10, <1>11, <1>12 DEF IInv, RingInv

\* Consuming the oldest frame: head moves to where the next one starts, or to the
\* tombstone that leads there.
LEMMA AdvanceStep ==
    ASSUME IInv, RxAdvance
    PROVE  IInv'
<1> DEFINE n == Len(unread)
           f == unread[1]
<1>1. /\ rx = "advance" /\ rx' = "tail" /\ i2x_head' = i2x_head + HdrWords + msg.len
      /\ rcvd' = msg /\ outstanding' = outstanding - 1 /\ unread' = Tail(unread)
      /\ UNCHANGED <<i2x_tail, intr, sram, irq_pending, msg, mark, lost>>
  BY DEF RxAdvance, RxGoto
<1>2. /\ unread # <<>> /\ f.off = i2x_head
      /\ msg = [id |-> f.id, len |-> f.len, whole |-> TRUE]
  BY <1>1 DEF IInv, RingInv, RxInStep
<1>3. /\ unread \in Seq(Frame) /\ f \in Frame /\ n \in Nat \ {0}
      /\ i2x_head \in Nat /\ i2x_tail \in Nat /\ i2x_tail <= usable
      /\ usable \in Nat /\ mark \in Nat /\ mark <= usable
  BY <1>2, StateFacts
<1>4. /\ Tail(unread) \in Seq(Frame) /\ Len(Tail(unread)) = n - 1
      /\ \A i \in 1 .. (n - 1) : Tail(unread)[i] = unread[i + 1]
      /\ Tail(unread) = <<>> <=> n = 1
  BY <1>2, <1>3, TailFacts
<1>5. /\ f.off \in Nat /\ End(f) \in Nat /\ f.off < End(f)
      /\ End(f) = f.off + 4 + f.len /\ f.len \in Nat
  BY <1>3, FrameFacts
<1>6. i2x_head' = End(f)
  BY <1>1, <1>2, <1>3, <1>5 DEF HdrWords
<1>7. ASSUME NEW k \in 1 .. n
      PROVE  /\ unread[k].off \in Nat /\ End(unread[k]) \in Nat
             /\ unread[k].off < End(unread[k])
             /\ \/ i2x_head <= unread[k].off /\ ~Wrapped /\ End(unread[k]) <= i2x_tail
                \/ i2x_head <= unread[k].off /\ Wrapped /\ End(unread[k]) <= mark
                \/ Wrapped /\ End(unread[k]) <= i2x_tail
             /\ \/ After(k) = End(unread[k])
                \/ Wrapped /\ End(unread[k]) = mark /\ After(k) = 0
  <2>1. unread[k] \in Frame
    BY StateFacts
  <2> QED BY <2>1, FrameFacts DEF IInv, RingInv, Placed, Chained
<1>8. Wrapped => /\ i2x_tail > 0 /\ i2x_head <= mark /\ sram[mark] = TOMBSTONE
                 /\ mark + MaxPkg > usable
  BY DEF IInv, RingInv, Placed
<1>9. Wrapped <=> i2x_tail < i2x_head
  BY DEF Wrapped
<1>10. 1 \in 1 .. n
  BY <1>3
<1>11. /\ IF Wrapped THEN End(f) <= mark ELSE End(f) <= i2x_tail
       /\ After(1) = End(f) \/ (Wrapped /\ End(f) = mark /\ After(1) = 0)
  <2>1. /\ \/ i2x_head <= f.off /\ ~Wrapped /\ End(f) <= i2x_tail
           \/ i2x_head <= f.off /\ Wrapped /\ End(f) <= mark
           \/ Wrapped /\ End(f) <= i2x_tail
        /\ \/ After(1) = End(f)
           \/ Wrapped /\ End(f) = mark /\ After(1) = 0
    BY <1>7, <1>10
  <2>2. /\ f.off = i2x_head /\ f.off < End(f) /\ f.off \in Nat /\ End(f) \in Nat
        /\ i2x_head \in Nat /\ i2x_tail \in Nat /\ mark \in Nat
    BY <1>2, <1>3, <1>5
  <2> QED BY ONLY <2>1, <2>2, <1>9
<1>12. Wrapped' <=> Wrapped
  <2>1. Wrapped' <=> i2x_tail < End(f)
    BY <1>1, <1>6 DEF Wrapped
  <2> QED BY ONLY <2>1, <1>2, <1>3, <1>5, <1>9, <1>11
<1>13. n = 1 => ~Wrapped /\ End(f) = i2x_tail
  <2>1. n = 1 => After(1) = i2x_tail
    BY <1>3 DEF After
  <2> QED BY ONLY <2>1, <1>2, <1>3, <1>5, <1>8, <1>9, <1>11
<1>14. n # 1 => After(1) = unread[1 + 1].off
  <2>1. n \in Nat \ {0}
    BY <1>3
  <2>2. n # 1 => 1 < n
    BY ONLY <2>1
  <2> QED BY <2>2 DEF After
<1>15. \A k \in 1 .. (n - 1) : /\ unread'[k] = unread[k + 1] /\ k + 1 \in 1 .. n
                                /\ After(k)' = After(k + 1)
  <2> SUFFICES ASSUME NEW k \in 1 .. (n - 1)
               PROVE  /\ unread'[k] = unread[k + 1] /\ k + 1 \in 1 .. n
                      /\ After(k)' = After(k + 1)
    OBVIOUS
  <2>1. unread'[k] = unread[k + 1] /\ k + 1 \in 1 .. n
    BY <1>1, <1>3, <1>4
  <2>2. After(k)' = IF k < n - 1 THEN unread'[k + 1].off ELSE i2x_tail
    BY <1>1, <1>4 DEF After
  <2>3. After(k + 1) = IF k + 1 < n THEN unread[(k + 1) + 1].off ELSE i2x_tail
    BY DEF After
  <2>4. k < n - 1 => unread'[k + 1] = unread[(k + 1) + 1]
    BY <1>1, <1>3, <1>4
  <2>5. k < n - 1 <=> k + 1 < n
    BY <1>3
  <2> QED BY <2>1, <2>2, <2>3, <2>4, <2>5
<1>16. Len(unread') = n - 1
  BY <1>1, <1>4
<1>17. TypeOK'
  <2>1. i2x_head' \in 0 .. usable
    BY ONLY <1>3, <1>5, <1>6, <1>11
  <2>2. outstanding' \in 0 .. InFlight
    BY <1>1, <1>3, StateFacts DEF IInv, RingInv, TypeOK
  <2> QED BY <2>1, <2>2, <1>1, <1>4 DEF IInv, TypeOK, RxSteps
<1>18. UnreadIntact'
  <2> SUFFICES ASSUME NEW k \in 1 .. (n - 1),
                      NEW j \in 0 .. (HdrWords + unread'[k].len - 1)
               PROVE  sram'[unread'[k].off + j] = Cell(unread'[k].id, unread'[k].len, j)
    BY <1>16 DEF UnreadIntact
  <2>1. unread'[k] = unread[k + 1] /\ k + 1 \in 1 .. n
    BY <1>15
  <2> QED BY <2>1, <1>1 DEF IInv, UnreadIntact
<1>19. Chained'
  <2>1. unread' = <<>> => i2x_head' = i2x_tail'
    BY <1>1, <1>4, <1>6, <1>13
  <2>2. ASSUME unread' # <<>>
        PROVE  \/ unread'[1].off = i2x_head'
               \/ Wrapped' /\ i2x_head' = mark' /\ unread'[1].off = 0
    <3>1. n # 1 /\ 1 \in 1 .. (n - 1)
      BY <2>2, <1>1, <1>3, <1>4
    <3>2. unread'[1].off = After(1)
      <4>1. unread'[1] = unread[1 + 1]
        BY <3>1, <1>15
      <4> QED BY <4>1, <3>1, <1>14
    <3> QED BY <3>2, <1>1, <1>6, <1>11, <1>12
  <2>3. ASSUME NEW k \in 1 .. (n - 1)
        PROVE  \/ After(k)' = End(unread'[k])
               \/ Wrapped' /\ End(unread'[k]) = mark' /\ After(k)' = 0
    <3>1. unread'[k] = unread[k + 1] /\ k + 1 \in 1 .. n /\ After(k)' = After(k + 1)
      BY <1>15
    <3>2. \/ After(k + 1) = End(unread[k + 1])
          \/ Wrapped /\ End(unread[k + 1]) = mark /\ After(k + 1) = 0
      BY <3>1, <1>7
    <3> QED BY <3>1, <3>2, <1>1, <1>12
  <2> QED BY <2>1, <2>2, <2>3, <1>16 DEF Chained
<1>20. \A k \in 1 .. (n - 1) : i2x_head <= unread[k + 1].off => End(f) <= unread[k + 1].off
  <2> SUFFICES ASSUME NEW k \in 1 .. (n - 1), i2x_head <= unread[k + 1].off
               PROVE  End(f) <= unread[k + 1].off
    OBVIOUS
  <2>1. k + 1 \in 1 .. n /\ 1 \in 1 .. ((k + 1) - 1)
    BY <1>3
  <2>2. \/ End(f) <= unread[k + 1].off
        \/ Wrapped /\ End(unread[k + 1]) <= i2x_tail
    BY <2>1 DEF IInv, RingInv, Ordered
  <2>3. /\ unread[k + 1].off \in Nat /\ End(unread[k + 1]) \in Nat
        /\ unread[k + 1].off < End(unread[k + 1])
    BY <2>1, <1>7
  <2>4. i2x_head <= unread[k + 1].off
    OBVIOUS
  <2> QED BY ONLY <2>2, <2>3, <2>4, <1>3, <1>9
<1>21. Placed'
  <2>1. ASSUME NEW k \in 1 .. (n - 1)
        PROVE  \/ End(f) <= unread[k + 1].off /\ ~Wrapped /\ End(unread[k + 1]) <= i2x_tail
               \/ End(f) <= unread[k + 1].off /\ Wrapped /\ End(unread[k + 1]) <= mark
               \/ Wrapped /\ End(unread[k + 1]) <= i2x_tail
    BY <1>7, <1>15, <1>20
  <2>2. Wrapped => unread' # <<>> /\ i2x_head' <= mark'
    BY <1>1, <1>4, <1>6, <1>11, <1>13
  <2> QED BY <2>1, <2>2, <1>1, <1>6, <1>8, <1>12, <1>15, <1>16 DEF Placed
<1>22. Compact'
  <2> SUFFICES ASSUME NEW k \in 1 .. (n - 1)
               PROVE  Dist(unread[k])' <= (((n - 1) - k) + 1) * MaxPkg
    BY <1>16 DEF Compact
  <2>1. unread'[k] = unread[k + 1] /\ k + 1 \in 1 .. n
    BY <1>15
  <2>2. Dist(unread[k + 1]) <= ((n - (k + 1)) + 1) * MaxPkg
    BY <2>1 DEF IInv, RingInv, Compact
  <2>3. Dist(unread[k])' = Dist(unread[k + 1])
    BY <2>1, <1>1 DEF Dist
  <2>4. ((n - 1) - k) + 1 = (n - (k + 1)) + 1
    BY <1>3
  <2> QED BY <2>2, <2>3, <2>4
<1>23. Ordered'
  <2> SUFFICES ASSUME NEW j \in 1 .. (n - 1), NEW i \in 1 .. (j - 1)
               PROVE  \/ End(unread'[i]) <= unread'[j].off
                      \/ /\ Wrapped' /\ i2x_head' <= unread'[i].off
                         /\ End(unread'[j]) <= i2x_tail'
    BY <1>16 DEF Ordered
  <2>1. i \in 1 .. (n - 1) /\ j + 1 \in 1 .. n /\ i + 1 \in 1 .. ((j + 1) - 1)
    BY <1>3
  <2>2. unread'[i] = unread[i + 1] /\ unread'[j] = unread[j + 1]
    BY <2>1, <1>15
  <2>3. \/ End(unread[i + 1]) <= unread[j + 1].off
        \/ /\ Wrapped /\ i2x_head <= unread[i + 1].off
           /\ End(unread[j + 1]) <= i2x_tail
    BY <2>1 DEF IInv, RingInv, Ordered
  <2> QED BY <2>1, <2>2, <2>3, <1>1, <1>6, <1>12, <1>20
<1>24. RxInStep'
  BY <1>1 DEF RxInStep
<1>25. outstanding' = Len(unread') + lost'
  BY <1>1, <1>3, <1>16, StateFacts DEF IInv, RingInv
<1> QED BY <1>17, <1>18, <1>19, <1>21, <1>22, <1>23, <1>24, <1>25 DEF IInv, RingInv
-----------------------------------------------------------------------------
(* The theorems                                                            *)

\* The invariant holds of the ring as it is set up.
LEMMA InitInv == Init => IInv
<1> SUFFICES ASSUME Init PROVE IInv
  OBVIOUS
<1>1. unread = <<>> /\ unread \in Seq(Frame) /\ Len(unread) = 0
  BY EmptySeq DEF Init
<1>2. usable \in Nat /\ 0 \in 0 .. usable /\ InFlight \in Nat
  BY SizesAssumption DEF usable
<1>3. TypeOK
  <2>1. sram \in [0 .. (RingSize - 1) -> Cells \cup {TOMBSTONE, Blank}]
    BY DEF Init
  <2>2. NoMsg \in Msgs
    BY DEF NoMsg, Msgs
  <2>3. 0 \in 0 .. usable /\ 0 \in 0 .. InFlight /\ 0 \in Nat
    BY ONLY <1>2
  <2>4. irq_pending \in BOOLEAN /\ intr \in {0, 1} /\ rx \in RxSteps
    BY DEF Init, RxSteps
  <2> QED BY <2>1, <2>2, <2>3, <2>4, <1>1 DEF Init, TypeOK
<1>4. UnreadIntact
  BY <1>1 DEF UnreadIntact
<1>5. Chained /\ Placed /\ Ordered /\ Compact
  BY <1>1 DEF Init, Chained, Placed, Ordered, Compact, Wrapped
<1>6. RxInStep
  BY DEF Init, RxInStep
<1> QED BY <1>1, <1>3, <1>4, <1>5, <1>6 DEF IInv, RingInv, Init

\* Every step keeps the invariant.
LEMMA NextInv ==
    ASSUME Room(InFlight), IInv, [Next]_vars
    PROVE  IInv'
<1>1. CASE UNCHANGED vars
  <2>1. UNCHANGED <<i2x_head, i2x_tail, intr, sram, irq_pending, rx, msg, rcvd,
                    outstanding, unread, mark, lost>>
    BY <1>1 DEF vars, regs, driver, ghosts
  <2>2. TypeOK'
    BY <2>1 DEF IInv, TypeOK
  <2>3. RxInStep'
    BY <2>1 DEF IInv, RingInv, RxInStep, Wrapped
  <2> QED BY <2>1, <2>2, <2>3, SameRing DEF IInv, RingInv
<1>2. ASSUME NEW id \in Ids, NEW len \in PayloadSizes, Request(id, len)
      PROVE  IInv'
  <2>1. /\ outstanding < InFlight /\ outstanding' = outstanding + 1
        /\ UNCHANGED <<rx, msg, rcvd>>
    BY <1>2 DEF Request
  <2>2. CASE SendReply(id, len)
    BY <2>1, <2>2, SendStep
  <2>3. CASE DropReply(len)
    BY <2>1, <2>3, DropStep
  <2> QED BY <1>2, <2>2, <2>3 DEF Request
<1>3. CASE RxRewind
  BY <1>3, RewindStep
<1>4. CASE RxAdvance
  BY <1>4, AdvanceStep
<1>5. CASE RxWake \/ RxAck \/ RxTail \/ RxPeek \/ RxHeader \/ RxPayload \/ RxRecheck
  BY <1>5, ReadStep
<1> QED BY <1>1, <1>2, <1>3, <1>4, <1>5 DEF Next, Receive

\* The invariant holds in every state.
LEMMA Invariance ==
    ASSUME Room(InFlight)
    PROVE  Spec => []IInv
BY InitInv, NextInv, PTL DEF Spec

\* With room for every reply the driver can be waiting for, xdna_mbox_send() keeps
\* both registers inside the ring, whatever the sizes of ring and replies.
THEOREM RingTyped ==
    ASSUME Room(InFlight)
    PROVE  Spec => []TypeOK
<1>1. IInv => TypeOK
  BY DEF IInv
<1> QED BY <1>1, Invariance, PTL

\* With room for every reply the driver can be waiting for, no reply is written
\* over an unread one, although the check for a full ring is void at head = 0.
THEOREM RepliesIntact ==
    ASSUME Room(InFlight)
    PROVE  Spec => []UnreadIntact
<1>1. IInv => UnreadIntact
  BY DEF IInv
<1> QED BY <1>1, Invariance, PTL

\* Producer and consumer agree on where the frames are.
THEOREM RingConsistent ==
    ASSUME Room(InFlight)
    PROVE  Spec => []RingInv
<1>1. IInv => RingInv
  BY DEF IInv
<1> QED BY <1>1, Invariance, PTL

\* A reply in the ring always has an interrupt, or a receive step that will see
\* it, on its way: xdna_mbox_send() raises the interrupt after moving tail, and the
\* receive path acknowledges before it reads tail.
THEOREM WakeupKept ==
    ASSUME Room(InFlight)
    PROVE  Spec => []NoLostWakeup
<1>1. Init => NoLostWakeup
  BY DEF Init, NoLostWakeup
<1>2. ASSUME IInv, NoLostWakeup, [Next]_vars
      PROVE  NoLostWakeup'
  <2>1. CASE UNCHANGED vars
    BY <1>2, <2>1 DEF NoLostWakeup, vars, regs, driver, ghosts
  <2>2. ASSUME NEW id \in Ids, NEW len \in PayloadSizes, Request(id, len)
        PROVE  NoLostWakeup'
    <3>1. CASE SendReply(id, len)
      BY <3>1 DEF SendReply, RaiseIrq, NoLostWakeup
    <3>2. CASE DropReply(len)
      BY <1>2, <2>2, <3>2 DEF Request, DropReply, NoLostWakeup
    <3> QED BY <2>2, <3>1, <3>2 DEF Request
  <2>3. CASE RxTail
    <3>1. unread # <<>> => i2x_head # i2x_tail
      BY <1>2, OldestFacts
    <3> QED BY <2>3, <3>1 DEF RxTail, RxGoto, NoLostWakeup, ghosts
  <2>4. CASE RxRecheck
    BY <1>2, <2>4 DEF RxRecheck, RxGoto, NoLostWakeup, ghosts
  <2>5. CASE RxWake \/ RxAck \/ RxPeek \/ RxRewind \/ RxHeader \/ RxPayload \/ RxAdvance
    BY <2>5 DEF RxWake, RxAck, RxPeek, RxRewind, RxHeader, RxPayload, RxAdvance, RxGoto,
                NoLostWakeup
  <2> QED BY <1>2, <2>1, <2>2, <2>3, <2>4, <2>5 DEF Next, Receive
<1> QED BY <1>1, <1>2, Invariance, PTL DEF Spec

\* With room for one reply more than the driver can be waiting for, none is
\* refused: the wasted words behind the tombstone never add up.
THEOREM RepliesKept ==
    ASSUME Room(InFlight + 1)
    PROVE  Spec => []NoReplyLost
<1>1. Room(InFlight)
  <2>1. /\ InFlight * MaxPkg \in Nat /\ MaxPkg \in Nat /\ usable \in Int
        /\ (InFlight + 1) * MaxPkg = (InFlight * MaxPkg) + MaxPkg
    BY TimesSucc, SizesAssumption DEF usable
  <2> QED BY <2>1 DEF Room
<1>2. ASSUME IInv, outstanding < InFlight, NEW len \in PayloadSizes
      PROVE  ~TooLarge(HdrWords + len) /\ ~RingFull(HdrWords + len)
  <2> DEFINE pkg == HdrWords + len
  <2>1. pkg \in Nat /\ pkg > 0 /\ pkg <= MaxPkg /\ MaxPkg \in Nat
    <3>1. len \in Nat /\ HdrWords + len <= MaxPkg /\ MaxPkg \in Nat
      BY SizesAssumption
    <3> QED BY <3>1 DEF HdrWords
  <2> HIDE DEF pkg
  <2>2. /\ Len(unread) * MaxPkg \in Nat
        /\ ((Len(unread) * MaxPkg) + MaxPkg) + MaxPkg <= usable
    <3>1. /\ Len(unread) * MaxPkg \in Nat /\ InFlight * MaxPkg \in Nat
          /\ (Len(unread) * MaxPkg) + MaxPkg <= InFlight * MaxPkg
      BY <1>2, RoomFacts, SizesAssumption
    <3>2. (InFlight + 1) * MaxPkg = (InFlight * MaxPkg) + MaxPkg
      BY TimesSucc, SizesAssumption
    <3>3. (InFlight + 1) * MaxPkg <= usable
      BY DEF Room
    <3>4. usable \in Nat /\ MaxPkg \in Nat
      BY SizesAssumption DEF usable
    <3> QED BY ONLY <3>1, <3>2, <3>3, <3>4
  <2>3. /\ i2x_head \in Nat /\ i2x_tail \in Nat /\ mark \in Nat /\ usable \in Nat
    BY <1>2, StateFacts
  <2>4. Wrapped <=> i2x_tail < i2x_head
    BY DEF Wrapped
  <2>5. /\ ~Wrapped => i2x_tail - i2x_head <= Len(unread) * MaxPkg
        /\ Wrapped => /\ (mark - i2x_head) + i2x_tail <= Len(unread) * MaxPkg
                      /\ mark + MaxPkg > usable
    <3>1. CASE unread = <<>>
      <4>1. i2x_head = i2x_tail
        BY <1>2, <3>1 DEF IInv, RingInv, Chained
      <4> QED BY ONLY <4>1, <2>2, <2>3, <2>4
    <3>2. CASE unread # <<>>
      BY <1>2, <3>2, OldestFacts DEF IInv, RingInv, Placed
    <3> QED BY <3>1, <3>2
  <2>6. Wraps(pkg) <=> i2x_tail >= i2x_head /\ i2x_tail + pkg > usable
    BY DEF Wraps
  <2>7. SendTail(pkg) = IF Wraps(pkg) THEN 0 ELSE i2x_tail
    BY DEF SendTail
  <2>8. ~(SendTail(pkg) < i2x_head /\ SendTail(pkg) + pkg >= i2x_head)
    BY ONLY <2>1, <2>2, <2>3, <2>4, <2>5, <2>6, <2>7
  <2>9. pkg <= usable
    BY ONLY <2>1, <2>2, <2>3
  <2> QED BY <2>1, <2>3, <2>8, <2>9 DEF TooLarge, RingFull, pkg
<1>3. ASSUME IInv, NoReplyLost, [Next]_vars
      PROVE  NoReplyLost'
  <2>1. CASE UNCHANGED vars
    BY <1>3, <2>1 DEF NoReplyLost, vars, ghosts
  <2>2. ASSUME NEW id \in Ids, NEW len \in PayloadSizes, Request(id, len)
        PROVE  NoReplyLost'
    <3>1. ~DropReply(len)
      BY <1>2, <1>3, <2>2 DEF Request, DropReply
    <3>2. SendReply(id, len)
      BY <2>2, <3>1 DEF Request
    <3> QED BY <1>3, <3>2 DEF SendReply, NoReplyLost
  <2>3. CASE Receive
    BY <1>3, <2>3 DEF Receive, RxWake, RxAck, RxTail, RxPeek, RxRewind, RxHeader,
                      RxPayload, RxAdvance, RxRecheck, ghosts, NoReplyLost
  <2> QED BY <1>3, <2>1, <2>2, <2>3 DEF Next
<1>4. Init => NoReplyLost
  BY DEF Init, NoReplyLost
<1> QED BY <1>1, <1>3, <1>4, Invariance, PTL DEF Spec

Reply == [id : Ids, len : PayloadSizes, whole : {TRUE}]

\* The replies of a queue of frames, one for one.
LEMMA QueuedFacts ==
    ASSUME NEW q \in Seq(Frame)
    PROVE  /\ Queued(q) \in Seq(Reply) /\ Len(Queued(q)) = Len(q)
           /\ \A i \in 1 .. Len(q) : Queued(q)[i] = Whole(q[i])
<1>1. Len(q) \in Nat
  BY LenProperties
<1>2. \A i \in 1 .. Len(q) : Whole(q[i]) \in Reply
  <2> SUFFICES ASSUME NEW i \in 1 .. Len(q) PROVE Whole(q[i]) \in Reply
    OBVIOUS
  <2>1. q[i] \in Frame
    BY ElementOfSeq
  <2> QED BY <2>1, FrameFacts DEF Whole, Reply
<1> HIDE DEF Whole
<1>3. Queued(q) \in Seq(Reply)
  BY <1>1, <1>2 DEF Queued
<1>4. Len(Queued(q)) = Len(q)
  BY <1>1 DEF Queued
<1> QED BY <1>3, <1>4 DEF Queued

\* Appending a frame appends its reply.
LEMMA QueuedAppend ==
    ASSUME NEW q \in Seq(Frame), NEW f \in Frame
    PROVE  Queued(Append(q, f)) = Append(Queued(q), Whole(f)) /\ Whole(f) \in Reply
<1>1. Whole(f) \in Reply
  BY FrameFacts DEF Whole, Reply
<1>2. /\ Append(q, f) \in Seq(Frame) /\ Len(Append(q, f)) = Len(q) + 1
      /\ Len(q) \in Nat
      /\ \A i \in 1 .. Len(q) : Append(q, f)[i] = q[i]
      /\ Append(q, f)[Len(q) + 1] = f
  BY AppendFacts
<1>3. /\ Queued(Append(q, f)) \in Seq(Reply)
      /\ Len(Queued(Append(q, f))) = Len(q) + 1
      /\ \A i \in 1 .. (Len(q) + 1) : Queued(Append(q, f))[i] = Whole(Append(q, f)[i])
  BY <1>2, QueuedFacts
<1>4. /\ Queued(q) \in Seq(Reply) /\ Len(Queued(q)) = Len(q)
      /\ \A i \in 1 .. Len(q) : Queued(q)[i] = Whole(q[i])
  BY QueuedFacts
<1>5. /\ Append(Queued(q), Whole(f)) \in Seq(Reply)
      /\ Len(Append(Queued(q), Whole(f))) = Len(q) + 1
      /\ \A i \in 1 .. Len(q) : Append(Queued(q), Whole(f))[i] = Queued(q)[i]
      /\ Append(Queued(q), Whole(f))[Len(q) + 1] = Whole(f)
  BY <1>1, <1>4, AppendProperties
<1>6. ASSUME NEW i \in 1 .. (Len(q) + 1)
      PROVE  Queued(Append(q, f))[i] = Append(Queued(q), Whole(f))[i]
  <2>1. CASE i \in 1 .. Len(q)
    BY <2>1, <1>2, <1>3, <1>4, <1>5
  <2>2. CASE i = Len(q) + 1
    BY <2>2, <1>2, <1>3, <1>5
  <2>3. Len(q) \in Nat
    BY <1>2
  <2>4. i \in 1 .. Len(q) \/ i = Len(q) + 1
    BY ONLY <2>3, i \in 1 .. (Len(q) + 1)
  <2> QED BY <2>1, <2>2, <2>4
<1> QED BY <1>1, <1>3, <1>5, <1>6, SeqEqual

\* Taking the oldest frame takes the oldest reply.
LEMMA QueuedTail ==
    ASSUME NEW q \in Seq(Frame), q # <<>>
    PROVE  /\ Queued(q) # <<>> /\ Head(Queued(q)) = Whole(q[1])
           /\ Queued(Tail(q)) = Tail(Queued(q))
<1>1. /\ Tail(q) \in Seq(Frame) /\ Len(q) \in Nat \ {0} /\ Len(Tail(q)) = Len(q) - 1
      /\ \A i \in 1 .. (Len(q) - 1) : Tail(q)[i] = q[i + 1]
  BY TailFacts
<1>2. /\ Queued(q) \in Seq(Reply) /\ Len(Queued(q)) = Len(q)
      /\ \A i \in 1 .. Len(q) : Queued(q)[i] = Whole(q[i])
  BY QueuedFacts
<1>3. /\ Queued(Tail(q)) \in Seq(Reply) /\ Len(Queued(Tail(q))) = Len(q) - 1
      /\ \A i \in 1 .. (Len(q) - 1) : Queued(Tail(q))[i] = Whole(Tail(q)[i])
  BY <1>1, QueuedFacts
<1>4. Queued(q) # <<>>
  BY <1>1, <1>2, EmptySeq
<1>5. /\ Tail(Queued(q)) \in Seq(Reply) /\ Len(Tail(Queued(q))) = Len(q) - 1
      /\ \A i \in 1 .. (Len(q) - 1) : Tail(Queued(q))[i] = Queued(q)[i + 1]
  BY <1>2, <1>4, HeadTailProperties
<1>6. \A i \in 1 .. (Len(q) - 1) : Queued(Tail(q))[i] = Tail(Queued(q))[i]
  <2> SUFFICES ASSUME NEW i \in 1 .. (Len(q) - 1)
               PROVE  Queued(Tail(q))[i] = Tail(Queued(q))[i]
    OBVIOUS
  <2>1. i + 1 \in 1 .. Len(q)
    BY <1>1
  <2> QED BY <2>1, <1>1, <1>2, <1>3, <1>5
<1>7. Head(Queued(q)) = Whole(q[1])
  <2>1. 1 \in 1 .. Len(q)
    BY <1>1
  <2>2. Head(Queued(q)) = Queued(q)[1]
    BY <1>2, <1>4
  <2> QED BY <2>1, <2>2, <1>2
<1> QED BY SMTT(30), <1>3, <1>4, <1>5, <1>6, <1>7, SeqEqual

\* The ring implements the queue: every reply queued is received once, whole, in
\* order (xdna_mbox_send() and the receive path against ReplyFifo).
THEOREM RingImplementsFifo ==
    ASSUME Room(InFlight)
    PROVE  Spec => DeliversInOrder
<1>1. Init => Fifo!Init
  <2> SUFFICES ASSUME Init PROVE Queued(unread) = <<>> /\ rcvd = NoMsg
    BY DEF Fifo!Init
  <2>1. unread \in Seq(Frame) /\ Len(unread) = 0
    BY EmptySeq DEF Init
  <2>2. Queued(unread) \in Seq(Reply) /\ Len(Queued(unread)) = 0
    BY <2>1, QueuedFacts
  <2> QED BY <2>2, EmptySeq DEF Init
<1>2. ASSUME IInv, [Next]_vars
      PROVE  [Fifo!Next]_(Fifo!vars)
  <2>1. ASSUME UNCHANGED <<unread, rcvd>> PROVE UNCHANGED Fifo!vars
    BY <2>1 DEF Fifo!vars, Queued
  <2>2. ASSUME NEW id \in Ids, NEW len \in PayloadSizes, SendReply(id, len),
               UNCHANGED rcvd, outstanding < InFlight
        PROVE  Fifo!Next
    <3> DEFINE new == [off |-> SendTail(HdrWords + len), id |-> id, len |-> len]
    <3>1. unread' = Append(unread, new) /\ ~TooLarge(HdrWords + len) /\ ~RingFull(HdrWords + len)
      BY <2>2 DEF SendReply
    <3>2. new \in Frame
      <4>1. SendTail(HdrWords + len) \in Nat /\ SendTail(HdrWords + len) <= usable
        <5>1. /\ HdrWords + len \in Nat /\ SendTail(HdrWords + len) \in Nat
              /\ SendTail(HdrWords + len) + (HdrWords + len) <= usable
          BY <1>2, <2>2, <3>1, SendFacts
        <5>2. usable \in Nat
          BY <1>2, StateFacts
        <5> QED BY ONLY <5>1, <5>2
      <4>2. usable \in Nat
        BY <1>2, StateFacts
      <4> QED BY <4>1, <4>2 DEF Frame
    <3>3. unread \in Seq(Frame)
      BY <1>2, StateFacts
    <3>4. Queued(unread)' = Queued(unread')
      BY DEF Queued
    <3> HIDE DEF new
    <3>5. Queued(unread') = Append(Queued(unread), Whole(new)) /\ Whole(new) \in Reply
      BY <3>1, <3>2, <3>3, QueuedAppend
    <3> QED BY <2>2, <3>4, <3>5 DEF Fifo!Next, Fifo!Queue, Reply
  <2>3. ASSUME RxAdvance PROVE Fifo!Receive
    <3>1. rx = "advance" /\ rcvd' = msg /\ unread' = Tail(unread)
      BY <2>3 DEF RxAdvance, RxGoto
    <3>2. unread # <<>> /\ msg = Whole(unread[1]) /\ unread \in Seq(Frame)
      BY <1>2, <3>1, StateFacts DEF IInv, RingInv, RxInStep, Whole
    <3>3. Queued(unread)' = Queued(unread')
      BY DEF Queued
    <3>4. /\ Queued(unread) # <<>> /\ Head(Queued(unread)) = Whole(unread[1])
          /\ Queued(Tail(unread)) = Tail(Queued(unread))
      BY <3>2, QueuedTail
    <3> QED BY <3>1, <3>2, <3>3, <3>4 DEF Fifo!Receive
  <2>4. CASE UNCHANGED vars
    BY <2>1, <2>4 DEF vars, driver, ghosts
  <2>5. ASSUME NEW id \in Ids, NEW len \in PayloadSizes, Request(id, len)
        PROVE  [Fifo!Next]_(Fifo!vars)
    <3>1. CASE SendReply(id, len)
      BY <2>2, <2>5, <3>1 DEF Request
    <3>2. CASE DropReply(len)
      BY <2>1, <2>5, <3>2 DEF Request, DropReply
    <3> QED BY <2>5, <3>1, <3>2 DEF Request
  <2>6. CASE RxAdvance
    BY <2>3, <2>6 DEF Fifo!Next
  <2>7. CASE RxWake \/ RxAck \/ RxTail \/ RxPeek \/ RxRewind \/ RxHeader \/ RxPayload \/ RxRecheck
    BY <2>1, <2>7 DEF RxWake, RxAck, RxTail, RxPeek, RxRewind, RxHeader, RxPayload,
                      RxRecheck, ghosts
  <2> QED BY <1>2, <2>4, <2>5, <2>6, <2>7 DEF Next, Receive
<1> QED BY <1>1, <1>2, Invariance, PTL DEF Spec, DeliversInOrder, Fifo!Spec
=============================================================================
