--------------------------- MODULE X2iRingProofs ---------------------------
(***************************************************************************)
(* Proofs about X2iRing for rings, requests and loop bounds of every size. *)
(* A ring is looked at as a value: p the frames posted, h and t where the  *)
(* consumer and the producer are, m where the tombstone in effect lies, s  *)
(* the words.  What the steps of either side do to a ring is said of such  *)
(* values, and used for the states of X2iRing afterwards.                  *)
(***************************************************************************)
EXTENDS X2iRing, SequenceTheorems, TLAPS

Places == 0 .. usable
Posts == [off : Places, frame : Frames]

End(e) == e.off + Pkg(e.frame)

\* Between the wrap of t and the wrap of h, h is above t.  The consumer gets from x
\* to y directly, or over the tombstone.
Leads(h, t, m, x, y) == x = y \/ (t < h /\ x = m /\ y = 0)

\* Where frame k starts; the one after the last will start at t.
At(p, t, k) == IF k <= Len(p) THEN p[k].off ELSE t

Chained(p, h, t, m) ==
    /\ Leads(h, t, m, h, At(p, t, 1))
    /\ \A k \in 1 .. Len(p) : Leads(h, t, m, End(p[k]), At(p, t, k + 1))

\* A frame lies ahead of the consumer, or before t once the consumer has wrapped.
Upper(e, h, t, m) == h <= e.off /\ End(e) <= (IF t < h THEN m ELSE t)
Lower(e, h, t) == t < h /\ End(e) <= t
Placed(p, h, t, m) == \A k \in 1 .. Len(p) : Upper(p[k], h, t, m) \/ Lower(p[k], h, t)

\* The tombstone is there, and was put where not much room was left.
Marked(h, t, m, s) == t < h => s[m] = TOMBSTONE /\ h <= m /\ m + MaxPkg > usable

\* A later frame lies behind an earlier one, or once around the ring.
Ordered(p, h, t) ==
    \A j \in 1 .. Len(p) : \A i \in 1 .. (j - 1) :
        End(p[i]) <= p[j].off \/ (h <= p[i].off /\ Lower(p[j], h, t))

\* Words from the start of a frame to t along the ring: those of frames.
Dist(e, t, m) == IF e.off < t THEN t - e.off ELSE (m - e.off) + t
Compact(p, t, m) ==
    \A k \in 1 .. Len(p) : Dist(p[k], t, m) <= ((Len(p) - k) + 1) * MaxPkg

\* Every frame is in the ring, word for word.
Intact(p, s) ==
    \A i \in 1 .. Len(p) : \A k \in 0 .. (Pkg(p[i].frame) - 1) :
        s[p[i].off + k] = Cell(p[i].frame, k)

Ring(p, h, t, m, s) ==
    /\ Chained(p, h, t, m) /\ Placed(p, h, t, m) /\ Marked(h, t, m, s)
    /\ Ordered(p, h, t) /\ Compact(p, t, m) /\ Intact(p, s)

\* The ring has room for n frames of the largest size.
Room(n) == n * MaxPkg <= usable

(* The inductive invariant                                                 *)

RingInv ==
    /\ active => \E m \in Places : Ring(posted, x2i_head, tail, m, sram)
    /\ ~active => posted = <<>> /\ x2i_head = 0
    /\ fresh <= Len(posted) /\ Len(posted) <= InFlight

\* The driver waits for its write of the tail register.  Each iteration so far took
\* a frame, but for the one that met the tombstone.
LoopInv ==
    dev = "run" =>
        /\ tx = "idle" /\ fresh = 0
        /\ active => /\ x2i_tail = tail
                     /\ guard + Len(posted) <= kicked + 1
                     /\ tail < x2i_head => guard + Len(posted) <= kicked
        /\ ~active => x2i_tail = 0

\* The write path has chosen a place that is free.
TxInv ==
    LET pkg == Pkg(cur.frame) IN
    /\ tx \in {"tombstone", "place", "place0", "header", "payload"} =>
          /\ cur.frame \in Frames /\ cur.frame.own = own /\ Len(posted) < InFlight
          /\ active => cur.head = x2i_head
    /\ tx \in {"tombstone", "place0"} =>
          /\ tail >= cur.head /\ tail + pkg > usable
          /\ ~Full(cur.frame, 0, cur.head)
          /\ active => cur.head > 0
    /\ tx = "place" => ~Wraps(cur.frame, cur.head) /\ ~Full(cur.frame, tail, cur.head)
    /\ tx = "place0" => sram[tail] = TOMBSTONE
    /\ tx \in {"header", "payload"} =>
          /\ tail + pkg <= usable
          /\ active /\ tail < x2i_head => tail + pkg < x2i_head
    /\ tx = "payload" => \A k \in 0 .. (HdrWords - 1) : sram[tail + k] = Cell(cur.frame, k)
    /\ active /\ tail < x2i_head /\ tail = 0 => tx \in {"header", "payload"}

\* TypeOK in parts: the provers treat Booleans, numbers and functions apart.
Flags == active \in BOOLEAN /\ own \in BOOLEAN /\ refused \in BOOLEAN /\ stuck \in BOOLEAN
Numbers ==
    /\ x2i_head \in Places /\ x2i_tail \in Places /\ tail \in Places
    /\ guard \in 0 .. MaxPerKick /\ fresh \in 0 .. InFlight /\ kicked \in 0 .. InFlight
Modes ==
    /\ dev \in {"idle", "run"}
    /\ tx \in {"idle", "tombstone", "place", "place0", "header", "payload", "written"}
Memory ==
    /\ sram \in [Words -> Cells \cup {TOMBSTONE, Blank}] /\ posted \in Seq(Posts)
    /\ cur \in [frame : Frames \cup {Blank}, head : Places]

IInv ==
    /\ Flags /\ Numbers /\ Modes /\ Memory /\ handled \in Msgs
    /\ RingInv /\ LoopInv /\ TxInv
    /\ Drained /\ NeverRefused /\ CutShortOnlyBeyond
-----------------------------------------------------------------------------
(* Arithmetic and sequences                                                *)

\* One more frame of the largest size takes MaxPkg more words.
LEMMA TimesSucc ==
    ASSUME NEW n \in Nat
    PROVE  n * MaxPkg \in Nat /\ (n + 1) * MaxPkg = (n * MaxPkg) + MaxPkg
BY SMT, SizesAssumption

\* Fewer frames do not take more room.
LEMMA RoomFor ==
    ASSUME NEW n \in Nat, n < InFlight, Room(InFlight + 1)
    PROVE  (n * MaxPkg) + MaxPkg + MaxPkg <= usable /\ n * MaxPkg \in Nat
<1>1. InFlight = n + (InFlight - n) /\ InFlight - n \in Nat \ {0} /\ InFlight \in Nat
  BY SizesAssumption
<1>2. PICK d \in Nat : InFlight = (n + 1) + d
  <2>1. (InFlight - n) - 1 \in Nat /\ InFlight = (n + 1) + ((InFlight - n) - 1)
    BY <1>1
  <2> QED BY <2>1
<1>3. MaxPkg \in Nat /\ usable \in Int
  BY SizesAssumption DEF usable
<1>4. (InFlight + 1) * MaxPkg = (n * MaxPkg) + MaxPkg + MaxPkg + (d * MaxPkg)
  BY SMT, <1>2, <1>3
<1>5. n * MaxPkg \in Nat /\ d * MaxPkg \in Nat
  BY SMT, <1>3
<1>6. (InFlight + 1) * MaxPkg <= usable
  BY DEF Room
<1> QED BY ONLY <1>3, <1>4, <1>5, <1>6

\* The size of a payload, and of a frame.
LEMMA LenFacts ==
    ASSUME NEW len \in PayloadSizes
    PROVE  len \in Nat /\ 4 + len <= MaxPkg /\ MaxPkg \in Nat
<1>1. /\ PayloadSizes \subseteq Nat /\ MaxPkg \in Nat
      /\ \A l \in PayloadSizes : HdrWords + l <= MaxPkg
  BY SizesAssumption
<1> QED BY <1>1 DEF HdrWords

\* A frame.
LEMMA FrameFacts ==
    ASSUME NEW f \in Frames
    PROVE  /\ f.len \in PayloadSizes /\ f.len \in Nat /\ Pkg(f) = 4 + f.len
           /\ Pkg(f) \in Nat /\ Pkg(f) >= 4 /\ Pkg(f) <= MaxPkg /\ MaxPkg \in Nat
<1>1. f.len \in PayloadSizes
  BY DEF Frames
<1>2. f.len \in Nat /\ 4 + f.len <= MaxPkg /\ MaxPkg \in Nat
  BY <1>1, LenFacts
<1> QED BY <1>1, <1>2 DEF Pkg, HdrWords

\* A frame and its place.
LEMMA PostFacts ==
    ASSUME NEW e \in Posts
    PROVE  /\ e.off \in Nat /\ e.off <= usable /\ e.frame \in Frames
           /\ e.frame.len \in PayloadSizes /\ e.frame.len \in Nat
           /\ Pkg(e.frame) = 4 + e.frame.len /\ Pkg(e.frame) \in Nat
           /\ Pkg(e.frame) >= 4 /\ Pkg(e.frame) <= MaxPkg
           /\ End(e) = e.off + Pkg(e.frame) /\ End(e) \in Nat /\ e.off < End(e)
<1>1. e.off \in 0 .. usable /\ e.frame \in Frames
  BY DEF Posts, Places
<1>2. /\ e.frame.len \in PayloadSizes /\ e.frame.len \in Nat
      /\ Pkg(e.frame) = 4 + e.frame.len /\ Pkg(e.frame) \in Nat
      /\ Pkg(e.frame) >= 4 /\ Pkg(e.frame) <= MaxPkg
  BY <1>1, FrameFacts
<1>3. usable \in Int
  BY SizesAssumption DEF usable
<1> QED BY <1>1, <1>2, <1>3 DEF End

\* The numbers of a ring.
LEMMA PlaceFacts ==
    ASSUME NEW x \in Places
    PROVE  /\ x \in Nat /\ x <= usable /\ x \in Words /\ usable \in Nat
           /\ RingSize = usable + 1 /\ MaxPkg \in Nat
BY SizesAssumption DEF Places, Words, usable

\* The frames of a ring.
LEMMA PostsFacts ==
    ASSUME NEW p \in Seq(Posts)
    PROVE  /\ Len(p) \in Nat /\ (p = <<>> <=> Len(p) = 0)
           /\ \A k \in 1 .. Len(p) : p[k] \in Posts
<1>1. Len(p) \in Nat /\ (p = <<>> <=> Len(p) = 0)
  BY EmptySeq, LenProperties
<1>2. \A k \in 1 .. Len(p) : p[k] \in Posts
  BY ElementOfSeq
<1> QED BY <1>1, <1>2

\* A queue behind which a frame is put.
LEMMA AppendFacts ==
    ASSUME NEW p \in Seq(Posts), NEW e \in Posts
    PROVE  /\ Append(p, e) \in Seq(Posts)
           /\ Len(p) \in Nat /\ Len(Append(p, e)) = Len(p) + 1
           /\ \A i \in 1 .. Len(p) : Append(p, e)[i] = p[i]
           /\ Append(p, e)[Len(p) + 1] = e
BY PostsFacts, AppendProperties

\* A queue that loses its oldest frame.
LEMMA TailFacts ==
    ASSUME NEW p \in Seq(Posts), p # <<>>
    PROVE  /\ Tail(p) \in Seq(Posts) /\ p[1] \in Posts /\ Head(p) = p[1]
           /\ Len(p) \in Nat \ {0} /\ Len(Tail(p)) \in Nat /\ Len(p) = Len(Tail(p)) + 1
           /\ \A i \in 1 .. Len(Tail(p)) : Tail(p)[i] = p[i + 1]
<1>1. Len(p) \in Nat \ {0} /\ p[1] \in Posts
  BY EmptySeq, ElementOfSeq
<1>2. /\ Tail(p) \in Seq(Posts) /\ Len(Tail(p)) = Len(p) - 1
      /\ \A i \in 1 .. Len(Tail(p)) : Tail(p)[i] = p[i + 1]
  BY HeadTailProperties
<1>3. Head(p) = p[1]
  OBVIOUS
<1> QED BY <1>1, <1>2, <1>3, LenProperties
-----------------------------------------------------------------------------
(* What the steps of producer and consumer do to a ring                    *)

\* A ring with no frame in it.
LEMMA RingEmpty ==
    ASSUME NEW h \in Places, NEW m, NEW s
    PROVE  Ring(<<>>, h, h, m, s)
<1>1. Len(<<>>) = 0 /\ 1 .. Len(<<>>) = {} /\ ~(h < h) /\ ~(1 <= 0)
  BY PlaceFacts
<1> QED BY <1>1 DEF Ring, Chained, Leads, At, Placed, Marked, Ordered, Compact, Intact

\* Where a frame of a ring lies.
LEMMA RingPlace ==
    ASSUME NEW p \in Seq(Posts), NEW h \in Places, NEW t \in Places, NEW m \in Places, NEW s,
           Ring(p, h, t, m, s), NEW k \in 1 .. Len(p)
    PROVE  /\ p[k] \in Posts
           /\ t >= h => h <= p[k].off /\ End(p[k]) <= t
           /\ t < h => \/ h <= p[k].off /\ End(p[k]) <= m
                       \/ End(p[k]) <= t
           /\ End(p[k]) <= usable
<1>1. p[k] \in Posts
  BY PostsFacts
<1>2. Upper(p[k], h, t, m) \/ Lower(p[k], h, t)
  BY DEF Ring, Placed
<1>3. /\ h \in Nat /\ t \in Nat /\ m \in Nat /\ t <= usable /\ m <= usable /\ usable \in Nat
      /\ End(p[k]) \in Nat
  BY <1>1, PlaceFacts, PostFacts
<1>4. t >= h => h <= p[k].off /\ End(p[k]) <= t
  BY <1>2, <1>3 DEF Upper, Lower
<1>5. t < h => (h <= p[k].off /\ End(p[k]) <= m) \/ End(p[k]) <= t
  BY <1>2, <1>3 DEF Upper, Lower
<1>6. End(p[k]) <= usable
  BY <1>3, <1>4, <1>5
<1> QED BY <1>1, <1>4, <1>5, <1>6

\* Words outside the frames, and other than the tombstone, may be written.
LEMMA RingWrite ==
    ASSUME NEW p \in Seq(Posts), NEW h \in Places, NEW t \in Places, NEW m \in Places,
           NEW s, NEW u, Ring(p, h, t, m, s),
           \A w \in Words : u[w] = s[w] \/ (t <= w /\ (t < h => w < h))
    PROVE  Ring(p, h, t, m, u)
<1>1. Intact(p, u)
  <2>1. SUFFICES ASSUME NEW i \in 1 .. Len(p), NEW k \in 0 .. (Pkg(p[i].frame) - 1)
                 PROVE  u[p[i].off + k] = Cell(p[i].frame, k)
    BY DEF Intact
  <2> DEFINE w == p[i].off + k
  <2>2. /\ p[i] \in Posts /\ End(p[i]) <= usable
        /\ t >= h => End(p[i]) <= t
        /\ t < h => h <= p[i].off \/ End(p[i]) <= t
    BY RingPlace
  <2>3. /\ p[i].off \in Nat /\ Pkg(p[i].frame) \in Nat /\ End(p[i]) = p[i].off + Pkg(p[i].frame)
        /\ h \in Nat /\ t \in Nat /\ usable \in Nat /\ RingSize = usable + 1
    BY <2>2, PostFacts, PlaceFacts
  <2>4. w \in Words /\ p[i].off <= w /\ w < End(p[i])
    BY <2>2, <2>3 DEF Words
  <2>5. ~(t <= w /\ (t < h => w < h))
    BY <2>2, <2>3, <2>4
  <2>6. u[w] = s[w]
    BY <2>4, <2>5
  <2>7. s[w] = Cell(p[i].frame, k)
    BY DEF Ring, Intact
  <2> QED BY <2>6, <2>7
<1>2. Marked(h, t, m, u)
  <2>1. ASSUME t < h PROVE u[m] = s[m]
    <3>1. h <= m /\ m \in Words /\ h \in Nat /\ m \in Nat
      BY <2>1, PlaceFacts DEF Ring, Marked
    <3> QED BY <2>1, <3>1
  <2> QED BY <2>1 DEF Ring, Marked
<1> QED BY <1>1, <1>2 DEF Ring

\* The producer wraps, and leaves a tombstone where it was.
LEMMA RingWrap ==
    ASSUME NEW p \in Seq(Posts), NEW h \in Places, NEW t \in Places, NEW m \in Places, NEW s,
           Ring(p, h, t, m, s), h > 0, t >= h, t + MaxPkg > usable, s[t] = TOMBSTONE
    PROVE  Ring(p, h, 0, t, s)
<1>1. h \in Nat /\ t \in Nat /\ ~(t < h) /\ 0 < h /\ Len(p) \in Nat
  BY PlaceFacts, PostsFacts
<1>2. ASSUME NEW k \in 1 .. Len(p)
      PROVE  /\ p[k] \in Posts /\ h <= p[k].off /\ End(p[k]) <= t /\ p[k].off < End(p[k])
             /\ p[k].off \in Nat /\ End(p[k]) \in Nat
  BY RingPlace, PostFacts
<1>3. Chained(p, h, 0, t)
  <2>1. ASSUME NEW k \in 1 .. (Len(p) + 1), NEW x, Leads(h, t, m, x, At(p, t, k))
        PROVE  Leads(h, 0, t, x, At(p, 0, k))
    <3>1. x = At(p, t, k)
      BY <1>1, <2>1 DEF Leads
    <3>2. CASE k <= Len(p)
      BY <3>1, <3>2 DEF Leads, At
    <3>3. CASE ~(k <= Len(p))
      BY <1>1, <3>1, <3>3 DEF Leads, At
    <3> QED BY <3>2, <3>3
  <2>2. 1 \in 1 .. (Len(p) + 1) /\ \A k \in 1 .. Len(p) : k + 1 \in 1 .. (Len(p) + 1)
    BY <1>1
  <2> QED BY <2>1, <2>2 DEF Ring, Chained
<1>4. Placed(p, h, 0, t)
  BY <1>1, <1>2 DEF Placed, Upper
<1>5. Marked(h, 0, t, s)
  BY DEF Marked
<1>6. Ordered(p, h, 0)
  <2>1. ASSUME NEW j \in 1 .. Len(p), NEW i \in 1 .. (j - 1) PROVE End(p[i]) <= p[j].off
    BY <1>1 DEF Ring, Ordered, Lower
  <2> QED BY <2>1 DEF Ordered
<1>7. Compact(p, 0, t)
  <2>1. ASSUME NEW k \in 1 .. Len(p) PROVE Dist(p[k], 0, t) = Dist(p[k], t, m)
    BY <1>1, <1>2 DEF Dist
  <2> QED BY <2>1 DEF Ring, Compact
<1> QED BY <1>3, <1>4, <1>5, <1>6, <1>7 DEF Ring

\* A frame that is in the ring behind t is posted.
LEMMA RingAppend ==
    ASSUME NEW p \in Seq(Posts), NEW h \in Places, NEW t \in Places, NEW m \in Places, NEW s,
           Ring(p, h, t, m, s), NEW f \in Frames,
           t + Pkg(f) <= usable, t < h => t + Pkg(f) < h,
           \A k \in 0 .. (Pkg(f) - 1) : s[t + k] = Cell(f, k)
    PROVE  Ring(Append(p, [off |-> t, frame |-> f]), h, t + Pkg(f), m, s)
<1> DEFINE e == [off |-> t, frame |-> f]
           a == Append(p, e)
           n == Len(p) + 1
           u == t + Pkg(f)
<1>1. /\ h \in Nat /\ t \in Nat /\ m \in Nat /\ usable \in Nat /\ MaxPkg \in Nat
      /\ Pkg(f) \in Nat /\ Pkg(f) >= 4 /\ Pkg(f) <= MaxPkg
  BY PlaceFacts, FrameFacts
<1>2. e \in Posts /\ e.off = t /\ e.frame = f /\ End(e) = u /\ u \in Nat /\ t < u
  BY <1>1 DEF Posts, End
<1>3. u < h <=> t < h
  BY <1>1, <1>2
<1>4. /\ Len(p) \in Nat /\ Len(a) = n /\ a[n] = e
      /\ \A i \in 1 .. Len(p) : a[i] = p[i]
  BY <1>2, AppendFacts
<1>5. /\ n \in 1 .. n /\ \A i \in 1 .. n : i \in 1 .. Len(p) \/ i = n
      /\ \A i \in 1 .. Len(p) : i \in 1 .. n
  <2>1. Len(p) \in Nat
    BY <1>4
  <2> QED BY ONLY <2>1
<1>6. ASSUME NEW k \in 1 .. Len(p)
      PROVE  /\ p[k] \in Posts /\ p[k].off \in Nat /\ End(p[k]) \in Nat
             /\ p[k].off < End(p[k])
             /\ ~(t < h) => h <= p[k].off /\ End(p[k]) <= t
             /\ t < h => (h <= p[k].off /\ End(p[k]) <= m) \/ End(p[k]) <= t
  <2>1. /\ p[k] \in Posts
        /\ t >= h => h <= p[k].off /\ End(p[k]) <= t
        /\ t < h => (h <= p[k].off /\ End(p[k]) <= m) \/ End(p[k]) <= t
    BY RingPlace
  <2>2. p[k].off \in Nat /\ End(p[k]) \in Nat /\ p[k].off < End(p[k])
    BY <2>1, PostFacts
  <2>3. ~(t < h) => t >= h
    BY <1>1
  <2> QED BY ONLY <2>1, <2>2, <2>3
<1> HIDE DEF e, a, n, u
<1>7. Chained(a, h, u, m)
  <2>1. \A x, y : Leads(h, u, m, x, y) <=> Leads(h, t, m, x, y)
    BY <1>3 DEF Leads
  <2>2. ASSUME NEW k \in 1 .. n PROVE At(a, u, k) = At(p, t, k)
    <3>1. CASE k \in 1 .. Len(p)
      BY <1>4, <1>5, <3>1 DEF At
    <3>2. CASE k = n
      <4>1. n <= Len(a) /\ ~(n <= Len(p))
        BY <1>4 DEF n
      <4> QED BY <1>2, <1>4, <3>2, <4>1 DEF At
    <3> QED BY <1>5, <3>1, <3>2
  <2>3. Leads(h, u, m, h, At(a, u, 1))
    <3>1. 1 \in 1 .. n
      BY <1>4 DEF n
    <3> QED BY <2>1, <2>2, <3>1 DEF Ring, Chained
  <2>4. ASSUME NEW k \in 1 .. n PROVE Leads(h, u, m, End(a[k]), At(a, u, k + 1))
    <3>1. CASE k \in 1 .. Len(p)
      <4>1. k + 1 \in 1 .. n
        BY <1>4, <3>1 DEF n
      <4>2. Leads(h, t, m, End(p[k]), At(p, t, k + 1))
        BY <3>1 DEF Ring, Chained
      <4> QED BY <1>4, <2>1, <2>2, <3>1, <4>1, <4>2
    <3>2. CASE k = n
      <4>1. ~(n + 1 <= Len(a))
        BY <1>4 DEF n
      <4>2. At(a, u, n + 1) = u
        BY <4>1 DEF At
      <4> QED BY <1>2, <1>4, <3>2, <4>2 DEF Leads
    <3> QED BY <1>5, <3>1, <3>2
  <2> QED BY <1>4, <2>3, <2>4 DEF Chained
<1>8. Placed(a, h, u, m)
  <2>1. ASSUME NEW k \in 1 .. Len(p) PROVE Upper(p[k], h, u, m) \/ Lower(p[k], h, u)
    BY <1>1, <1>2, <1>3, <1>6 DEF Upper, Lower
  <2>2. Upper(e, h, u, m) \/ Lower(e, h, u)
    BY <1>1, <1>2, <1>3 DEF Upper, Lower
  <2> QED BY <1>4, <1>5, <2>1, <2>2 DEF Placed
<1>9. Marked(h, u, m, s)
  BY <1>3 DEF Ring, Marked
<1>10. Ordered(a, h, u)
  <2>1. ASSUME NEW j \in 1 .. n, NEW i \in 1 .. (j - 1)
        PROVE  End(a[i]) <= a[j].off \/ (h <= a[i].off /\ Lower(a[j], h, u))
    <3>1. i \in 1 .. Len(p) /\ a[i] = p[i]
      BY <1>4, <1>5 DEF n
    <3>2. CASE j \in 1 .. Len(p)
      <4>1. End(p[i]) <= p[j].off \/ (h <= p[i].off /\ Lower(p[j], h, t))
        BY <3>2 DEF Ring, Ordered
      <4>2. Lower(p[j], h, t) => Lower(p[j], h, u)
        BY <1>1, <1>2, <1>3, <1>6, <3>2 DEF Lower
      <4> QED BY <1>4, <3>1, <3>2, <4>1, <4>2
    <3>3. CASE j = n
      <4>1. a[j] = e /\ e.off = t
        BY <1>2, <1>4, <3>3
      <4>2. t < h => Lower(e, h, u)
        BY <1>1, <1>2, <1>3 DEF Lower
      <4>3. End(p[i]) <= t \/ (h <= p[i].off /\ Lower(e, h, u))
        BY <1>6, <3>1, <4>2
      <4> QED BY <3>1, <4>1, <4>3
    <3> QED BY <1>5, <3>2, <3>3
  <2> QED BY <1>4, <2>1 DEF Ordered
<1>11. Compact(a, u, m)
  <2>1. ASSUME NEW k \in 1 .. Len(p) PROVE Dist(p[k], u, m) <= ((n - k) + 1) * MaxPkg
    <3> DEFINE b == (Len(p) - k) + 1
    <3>1. b \in Nat /\ (n - k) + 1 = b + 1
      BY <1>4 DEF n
    <3> HIDE DEF b
    <3>2. (b + 1) * MaxPkg = (b * MaxPkg) + MaxPkg /\ b * MaxPkg \in Nat
      BY <3>1, TimesSucc
    <3>3. Dist(p[k], t, m) <= b * MaxPkg
      BY DEF Ring, Compact, b
    <3>4. Dist(p[k], t, m) \in Int /\ Dist(p[k], u, m) = Dist(p[k], t, m) + Pkg(f)
      <4>1. CASE p[k].off < t
        BY <1>1, <1>2, <1>6, <4>1 DEF Dist, u
      <4>2. CASE ~(p[k].off < t)
        <5>1. t < h /\ h <= p[k].off
          BY <1>1, <1>6, <4>2
        <5>2. ~(p[k].off < u)
          BY <1>1, <1>2, <1>3, <1>6, <5>1
        <5> QED BY <1>1, <1>2, <1>6, <4>2, <5>2 DEF Dist, u
      <4> QED BY <4>1, <4>2
    <3> QED BY <1>1, <3>1, <3>2, <3>3, <3>4
  <2>2. Dist(e, u, m) <= ((n - n) + 1) * MaxPkg
    <3>1. Dist(e, u, m) = Pkg(f)
      BY <1>1, <1>2 DEF Dist, u
    <3>2. ((n - n) + 1) * MaxPkg = MaxPkg
      BY <1>1, <1>4 DEF n
    <3> QED BY <1>1, <3>1, <3>2
  <2> QED BY <1>4, <1>5, <2>1, <2>2 DEF Compact
<1>12. Intact(a, s)
  <2>1. ASSUME NEW k \in 0 .. (Pkg(e.frame) - 1) PROVE s[e.off + k] = Cell(e.frame, k)
    BY <1>2
  <2>2. ASSUME NEW i \in 1 .. Len(p), NEW k \in 0 .. (Pkg(p[i].frame) - 1)
        PROVE  s[p[i].off + k] = Cell(p[i].frame, k)
    BY DEF Ring, Intact
  <2> QED BY <1>4, <1>5, <2>1, <2>2 DEF Intact
<1>13. Ring(a, h, u, m, s)
  BY <1>7, <1>8, <1>9, <1>10, <1>11, <1>12 DEF Ring
<1> QED BY <1>13 DEF a, e, u

\* The oldest frame is where the consumer is, or the tombstone is.
LEMMA RingFirst ==
    ASSUME NEW p \in Seq(Posts), NEW h \in Places, NEW t \in Places, NEW m \in Places, NEW s,
           Ring(p, h, t, m, s)
    PROVE  /\ p # <<>> => /\ p[1] \in Posts
                          /\ \/ p[1].off = h /\ s[h] = Cell(p[1].frame, 0)
                             \/ p[1].off = 0 /\ t < h /\ h = m /\ s[h] = TOMBSTONE
           /\ p = <<>> => h = t \/ (t < h /\ h = m /\ t = 0)
<1>1. Len(p) \in Nat /\ (p = <<>> <=> Len(p) = 0)
  BY PostsFacts
<1>2. ASSUME p # <<>>
      PROVE  /\ p[1] \in Posts
             /\ \/ p[1].off = h /\ s[h] = Cell(p[1].frame, 0)
                \/ p[1].off = 0 /\ t < h /\ h = m /\ s[h] = TOMBSTONE
  <2>1. 1 \in 1 .. Len(p) /\ 1 <= Len(p)
    BY <1>1, <1>2
  <2>2. p[1] \in Posts
    BY <2>1, PostsFacts
  <2>3. p[1].off = h \/ (t < h /\ h = m /\ p[1].off = 0)
    BY <2>1 DEF Ring, Chained, Leads, At
  <2>4. s[p[1].off] = Cell(p[1].frame, 0)
    <3>1. 0 \in 0 .. (Pkg(p[1].frame) - 1) /\ p[1].off + 0 = p[1].off
      BY <2>2, PostFacts
    <3>2. s[p[1].off + 0] = Cell(p[1].frame, 0)
      BY <2>1, <3>1 DEF Ring, Intact
    <3> QED BY <3>1, <3>2
  <2> QED BY <2>2, <2>3, <2>4 DEF Ring, Marked
<1>3. ASSUME p = <<>> PROVE h = t \/ (t < h /\ h = m /\ t = 0)
  <2>1. ~(1 <= Len(p))
    BY <1>1, <1>3
  <2> QED BY <2>1 DEF Ring, Chained, Leads, At
<1> QED BY <1>2, <1>3

\* The consumer takes the oldest frame.
LEMMA RingConsume ==
    ASSUME NEW p \in Seq(Posts), NEW h \in Places, NEW t \in Places, NEW m \in Places, NEW s,
           Ring(p, h, t, m, s), p # <<>>, p[1].off = h
    PROVE  /\ Ring(Tail(p), End(p[1]), t, m, s)
           /\ End(p[1]) \in Places /\ (t < End(p[1]) <=> t < h)
<1> DEFINE q == Tail(p)
           g == End(p[1])
<1>1. /\ q \in Seq(Posts) /\ p[1] \in Posts /\ Len(q) \in Nat /\ Len(p) = Len(q) + 1
      /\ \A i \in 1 .. Len(q) : q[i] = p[i + 1]
  BY TailFacts
<1>2. /\ h \in Nat /\ t \in Nat /\ m \in Nat /\ usable \in Nat /\ t <= usable /\ m <= usable
  BY PlaceFacts
<1>3. /\ 1 \in 1 .. Len(p)
      /\ \A i \in 1 .. Len(q) : i + 1 \in 1 .. Len(p) /\ 1 \in 1 .. ((i + 1) - 1)
  BY <1>1
<1>4. g \in Nat /\ h < g
  BY <1>1, PostFacts
<1>5. ASSUME NEW k \in 1 .. Len(p)
      PROVE  /\ p[k] \in Posts /\ p[k].off \in Nat /\ End(p[k]) \in Nat
             /\ p[k].off < End(p[k])
             /\ ~(t < h) => h <= p[k].off /\ End(p[k]) <= t
             /\ t < h => (h <= p[k].off /\ End(p[k]) <= m) \/ End(p[k]) <= t
  <2>1. /\ p[k] \in Posts
        /\ t >= h => h <= p[k].off /\ End(p[k]) <= t
        /\ t < h => (h <= p[k].off /\ End(p[k]) <= m) \/ End(p[k]) <= t
    BY RingPlace
  <2>2. p[k].off \in Nat /\ End(p[k]) \in Nat /\ p[k].off < End(p[k])
    BY <2>1, PostFacts
  <2>3. ~(t < h) => t >= h
    BY <1>2
  <2> QED BY ONLY <2>1, <2>2, <2>3
<1> HIDE DEF q, g
<1>6. /\ ~(t < h) => g <= t
      /\ t < h => g <= m
      /\ t < g <=> t < h
  <2>1. p[1].off = h /\ End(p[1]) = g
    BY DEF g
  <2> QED BY <1>2, <1>3, <1>4, <1>5, <2>1
\* The frames that remain.
<1>7. ASSUME NEW i \in 1 .. Len(q)
      PROVE  /\ Upper(q[i], g, t, m) \/ Lower(q[i], g, t)
             /\ h <= q[i].off => g <= q[i].off
             /\ q[i] = p[i + 1] /\ i + 1 \in 1 .. Len(p)
  <2>1. q[i] = p[i + 1] /\ i + 1 \in 1 .. Len(p) /\ 1 \in 1 .. ((i + 1) - 1)
    BY <1>1, <1>3
  <2>2. g <= q[i].off \/ Lower(q[i], h, t)
    <3>1. End(p[1]) <= p[i + 1].off \/ (h <= p[1].off /\ Lower(p[i + 1], h, t))
      BY <2>1 DEF Ring, Ordered
    <3> QED BY <2>1, <3>1 DEF g
  <2>3. /\ q[i].off \in Nat /\ End(q[i]) \in Nat /\ q[i].off < End(q[i])
        /\ ~(t < h) => h <= q[i].off /\ End(q[i]) <= t
        /\ t < h => (h <= q[i].off /\ End(q[i]) <= m) \/ End(q[i]) <= t
    BY <1>5, <2>1
  <2>4. Upper(q[i], g, t, m) \/ Lower(q[i], g, t)
    BY <1>2, <1>4, <1>6, <2>2, <2>3 DEF Upper, Lower
  <2>5. h <= q[i].off => g <= q[i].off
    BY <1>2, <1>4, <2>2, <2>3 DEF Lower
  <2> QED BY <2>1, <2>4, <2>5
<1>8. Chained(q, g, t, m)
  <2>1. \A x, y : Leads(g, t, m, x, y) <=> Leads(h, t, m, x, y)
    BY <1>6 DEF Leads
  <2>2. ASSUME NEW k \in 1 .. (Len(q) + 1) PROVE At(q, t, k) = At(p, t, k + 1)
    <3>1. k <= Len(q) <=> k + 1 <= Len(p)
      BY <1>1
    <3>2. k <= Len(q) => q[k] = p[k + 1]
      BY <1>1
    <3> QED BY <3>1, <3>2 DEF At
  <2>3. Leads(g, t, m, g, At(q, t, 1))
    <3>1. 1 \in 1 .. (Len(q) + 1) /\ 1 + 1 = 2
      BY <1>1
    <3>2. Leads(h, t, m, End(p[1]), At(p, t, 1 + 1))
      BY <1>3 DEF Ring, Chained
    <3>3. At(q, t, 1) = At(p, t, 1 + 1)
      BY <2>2, <3>1
    <3> QED BY <2>1, <3>2, <3>3 DEF g
  <2>4. ASSUME NEW k \in 1 .. Len(q) PROVE Leads(g, t, m, End(q[k]), At(q, t, k + 1))
    <3>1. k + 1 \in 1 .. (Len(q) + 1)
      BY <1>1
    <3>2. Leads(h, t, m, End(p[k + 1]), At(p, t, (k + 1) + 1))
      BY <1>7 DEF Ring, Chained
    <3>3. At(q, t, k + 1) = At(p, t, (k + 1) + 1) /\ q[k] = p[k + 1]
      BY <1>7, <2>2, <3>1
    <3> QED BY <2>1, <3>2, <3>3
  <2> QED BY <2>3, <2>4 DEF Chained
<1>9. Placed(q, g, t, m)
  BY <1>7 DEF Placed
<1>10. Marked(g, t, m, s)
  BY <1>6 DEF Ring, Marked
<1>11. Ordered(q, g, t)
  <2>1. ASSUME NEW j \in 1 .. Len(q), NEW i \in 1 .. (j - 1)
        PROVE  End(q[i]) <= q[j].off \/ (g <= q[i].off /\ Lower(q[j], g, t))
    <3>1. i \in 1 .. Len(q) /\ i + 1 \in 1 .. ((j + 1) - 1)
      BY <1>1
    <3>2. End(p[i + 1]) <= p[j + 1].off \/ (h <= p[i + 1].off /\ Lower(p[j + 1], h, t))
      BY <1>7, <3>1 DEF Ring, Ordered
    <3>3. Lower(q[j], h, t) => Lower(q[j], g, t)
      BY <1>6 DEF Lower
    <3> QED BY <1>7, <3>1, <3>2, <3>3
  <2> QED BY <2>1 DEF Ordered
<1>12. Compact(q, t, m)
  <2>1. ASSUME NEW k \in 1 .. Len(q) PROVE Dist(q[k], t, m) <= ((Len(q) - k) + 1) * MaxPkg
    <3>1. (Len(p) - (k + 1)) + 1 = (Len(q) - k) + 1
      BY <1>1
    <3>2. Dist(p[k + 1], t, m) <= ((Len(p) - (k + 1)) + 1) * MaxPkg
      BY <1>7 DEF Ring, Compact
    <3> QED BY <1>7, <3>1, <3>2
  <2> QED BY <2>1 DEF Compact
<1>13. Intact(q, s)
  BY <1>7 DEF Ring, Intact
<1>14. Ring(q, g, t, m, s)
  BY <1>8, <1>9, <1>10, <1>11, <1>12, <1>13 DEF Ring
<1>15. g \in Places
  BY <1>2, <1>4, <1>6 DEF Places
<1> QED BY <1>6, <1>14, <1>15 DEF q, g

\* The consumer meets the tombstone and wraps.
LEMMA RingRewind ==
    ASSUME NEW p \in Seq(Posts), NEW h \in Places, NEW t \in Places, NEW m \in Places, NEW s,
           Ring(p, h, t, m, s), p # <<>>, t < h, h = m
    PROVE  Ring(p, 0, t, m, s)
<1>1. h \in Nat /\ t \in Nat /\ m \in Nat /\ ~(t < 0) /\ Len(p) \in Nat /\ 1 \in 1 .. Len(p)
      /\ 1 <= Len(p)
  BY PlaceFacts, PostsFacts
<1>2. ASSUME NEW k \in 1 .. Len(p)
      PROVE  /\ p[k].off \in Nat /\ End(p[k]) \in Nat /\ p[k].off < End(p[k])
             /\ End(p[k]) <= t /\ ~(h <= p[k].off)
  <2>1. p[k] \in Posts /\ ((h <= p[k].off /\ End(p[k]) <= m) \/ End(p[k]) <= t)
    BY RingPlace
  <2>2. p[k].off \in Nat /\ End(p[k]) \in Nat /\ p[k].off < End(p[k])
    BY <2>1, PostFacts
  <2> QED BY <1>1, <2>1, <2>2
<1>3. Chained(p, 0, t, m)
  <2>1. At(p, t, 1) = 0
    <3>1. At(p, t, 1) = p[1].off
      BY <1>1 DEF At
    <3>2. h = At(p, t, 1) \/ At(p, t, 1) = 0
      BY DEF Ring, Chained, Leads
    <3>3. h # p[1].off
      BY <1>1, <1>2
    <3> QED BY <3>1, <3>2, <3>3
  <2>2. ASSUME NEW k \in 1 .. Len(p) PROVE End(p[k]) = At(p, t, k + 1)
    <3>1. End(p[k]) # m
      BY <1>1, <1>2
    <3> QED BY <3>1 DEF Ring, Chained, Leads
  <2> QED BY <2>1, <2>2 DEF Chained, Leads
<1>4. Placed(p, 0, t, m)
  BY <1>1, <1>2 DEF Placed, Upper
<1>5. Marked(0, t, m, s)
  BY <1>1 DEF Marked
<1>6. Ordered(p, 0, t)
  <2>1. ASSUME NEW j \in 1 .. Len(p), NEW i \in 1 .. (j - 1) PROVE End(p[i]) <= p[j].off
    <3>1. i \in 1 .. Len(p)
      BY <1>1
    <3> QED BY <1>2, <3>1 DEF Ring, Ordered
  <2> QED BY <2>1 DEF Ordered
<1> QED BY <1>3, <1>4, <1>5, <1>6 DEF Ring

\* The words in use are bounded by the frames posted.
LEMMA RingUsed ==
    ASSUME NEW p \in Seq(Posts), NEW h \in Places, NEW t \in Places, NEW m \in Places, NEW s,
           Ring(p, h, t, m, s)
    PROVE  /\ t >= h => t - h <= Len(p) * MaxPkg
           /\ t < h => (m - h) + t <= Len(p) * MaxPkg /\ m >= h
<1>1. /\ h \in Nat /\ t \in Nat /\ m \in Nat /\ Len(p) \in Nat
      /\ (p = <<>> <=> Len(p) = 0) /\ MaxPkg \in Nat
  BY PlaceFacts, PostsFacts
<1>2. t < h => m >= h
  BY DEF Ring, Marked
<1>3. CASE p = <<>>
  <2>1. h = t \/ (t < h /\ h = m /\ t = 0)
    BY <1>3, RingFirst
  <2>2. Len(p) * MaxPkg = 0
    BY <1>1, <1>3
  <2> QED BY <1>1, <1>2, <2>1, <2>2
<1>4. CASE p # <<>>
  <2>1. 1 \in 1 .. Len(p) /\ (Len(p) - 1) + 1 = Len(p)
    BY <1>1, <1>4
  <2>2. Dist(p[1], t, m) <= Len(p) * MaxPkg
    BY <2>1 DEF Ring, Compact
  <2>3. p[1] \in Posts /\ (p[1].off = h \/ (p[1].off = 0 /\ t < h /\ h = m))
    BY <1>4, RingFirst
  <2>4. /\ t >= h => h <= p[1].off /\ End(p[1]) <= t
        /\ t < h => (h <= p[1].off /\ End(p[1]) <= m) \/ End(p[1]) <= t
    BY <2>1, RingPlace
  <2>5. p[1].off \in Nat /\ End(p[1]) \in Nat /\ p[1].off < End(p[1])
    BY <2>3, PostFacts
  <2>6. t >= h => Dist(p[1], t, m) = t - h
    BY <1>1, <2>3, <2>4, <2>5 DEF Dist
  <2>7. t < h => Dist(p[1], t, m) = (m - h) + t
    BY <1>1, <2>3, <2>4, <2>5 DEF Dist
  <2> QED BY <1>1, <1>2, <2>2, <2>6, <2>7
<1> QED BY <1>3, <1>4

\* A ring with room for one frame more than the driver allows itself has a free place
\* for the next: behind t, at the start of the ring, or between t and h.
LEMMA RingRoom ==
    ASSUME NEW p \in Seq(Posts), NEW h \in Places, NEW t \in Places, NEW m \in Places, NEW s,
           Ring(p, h, t, m, s), Len(p) < InFlight, Room(InFlight + 1), NEW f \in Frames
    PROVE  /\ t < h => t + Pkg(f) < h
           /\ t >= h /\ t + Pkg(f) > usable => Pkg(f) < h
<1>1. /\ h \in Nat /\ t \in Nat /\ m \in Nat /\ usable \in Nat /\ MaxPkg \in Nat
      /\ Pkg(f) \in Nat /\ Pkg(f) <= MaxPkg /\ Len(p) \in Nat
  BY PlaceFacts, FrameFacts, PostsFacts
<1> DEFINE x == Len(p) * MaxPkg
<1>2. x + MaxPkg + MaxPkg <= usable /\ x \in Nat
  BY <1>1, RoomFor
<1>3. /\ t >= h => t - h <= x
      /\ t < h => (m - h) + t <= x /\ m >= h
  BY RingUsed
<1>4. t < h => m + MaxPkg > usable
  BY DEF Ring, Marked
<1> HIDE DEF x
<1> QED BY <1>1, <1>2, <1>3, <1>4
-----------------------------------------------------------------------------
(* What the invariant says of a state                                      *)

\* The invariant says more than TypeOK.
LEMMA InvTyped == IInv => TypeOK
<1> SUFFICES ASSUME IInv PROVE TypeOK
  OBVIOUS
<1>1. Flags /\ Modes /\ handled \in Msgs
  BY DEF IInv
<1>2. /\ x2i_head \in 0 .. usable /\ x2i_tail \in 0 .. usable /\ tail \in 0 .. usable
      /\ guard \in 0 .. MaxPerKick /\ fresh \in 0 .. InFlight /\ kicked \in 0 .. InFlight
  BY DEF IInv, Numbers, Places
<1>3. /\ sram \in [Words -> Cells \cup {TOMBSTONE, Blank}]
      /\ posted \in Seq([off : 0 .. usable, frame : Frames])
      /\ cur \in [frame : Frames \cup {Blank}, head : 0 .. usable]
  BY DEF IInv, Memory, Posts, Places
<1> QED BY <1>1, <1>2, <1>3 DEF TypeOK, Flags, Modes

\* The numbers of a state.
LEMMA StateFacts ==
    ASSUME IInv
    PROVE  /\ x2i_head \in Places /\ x2i_head \in Nat /\ x2i_tail \in Places
           /\ tail \in Places /\ tail \in Nat /\ tail \in Words /\ tail <= usable
           /\ usable \in Nat /\ RingSize = usable + 1
           /\ guard \in Nat /\ fresh \in Nat /\ kicked \in Nat /\ InFlight \in Nat
           /\ fresh <= Len(posted) /\ Len(posted) <= InFlight
           /\ posted \in Seq(Posts) /\ Len(posted) \in Nat
           /\ (posted = <<>> <=> Len(posted) = 0)
           /\ sram \in [Words -> Cells \cup {TOMBSTONE, Blank}]
<1>1. /\ x2i_head \in Places /\ x2i_tail \in Places /\ tail \in Places
      /\ guard \in Nat /\ fresh \in Nat /\ kicked \in Nat /\ InFlight \in Nat
  BY SizesAssumption DEF IInv, Numbers
<1>2. /\ x2i_head \in Nat /\ tail \in Nat /\ tail \in Words /\ tail <= usable
      /\ usable \in Nat /\ RingSize = usable + 1
  BY <1>1, PlaceFacts
<1>3. posted \in Seq(Posts) /\ sram \in [Words -> Cells \cup {TOMBSTONE, Blank}]
  BY DEF IInv, Memory
<1>4. Len(posted) \in Nat /\ (posted = <<>> <=> Len(posted) = 0)
  BY <1>3, PostsFacts
<1>5. fresh <= Len(posted) /\ Len(posted) <= InFlight
  BY DEF IInv, RingInv
<1> QED BY <1>1, <1>2, <1>3, <1>4, <1>5

\* The frame being written.
LEMMA CurFacts ==
    ASSUME IInv, tx \in {"tombstone", "place", "place0", "header", "payload"}
    PROVE  /\ cur.frame \in Frames /\ cur.head \in Places /\ cur.head \in Nat
           /\ cur.frame.own = own /\ Len(posted) < InFlight
           /\ active => cur.head = x2i_head
           /\ Pkg(cur.frame) \in Nat /\ Pkg(cur.frame) >= 4 /\ Pkg(cur.frame) <= MaxPkg
           /\ MaxPkg \in Nat
<1>1. /\ cur.frame \in Frames /\ cur.frame.own = own /\ Len(posted) < InFlight
      /\ active => cur.head = x2i_head
  BY DEF IInv, TxInv
<1>2. cur.head \in Places
  BY DEF IInv, Memory
<1> QED BY <1>1, <1>2, FrameFacts, PlaceFacts

\* A word of a frame is not a tombstone.
LEMMA CellFacts ==
    ASSUME NEW f \in Frames, NEW k \in 0 .. (Pkg(f) - 1)
    PROVE  /\ Cell(f, k) \in Cells /\ Cell(f, k) # TOMBSTONE
           /\ Cell(f, k).frame = f /\ Cell(f, k).k = k
<1>1. Pkg(f) \in Nat /\ Pkg(f) <= MaxPkg /\ MaxPkg \in Nat
  BY FrameFacts
<1>2. k \in 0 .. (MaxPkg - 1)
  BY <1>1
<1>3. Cell(f, k) \in Cells /\ Cell(f, k).frame = f /\ Cell(f, k).k = k
  BY <1>2 DEF Cell, Cells
<1>4. TOMBSTONE \notin Cells
  BY SizesAssumption
<1> QED BY <1>3, <1>4

\* While the loop has something to look at, the channel is set up, and the loop looks
\* at the oldest frame or at the tombstone before it.
LEMMA LoopFacts ==
    ASSUME IInv, dev = "run", x2i_head # x2i_tail
    PROVE  /\ active /\ posted # <<>> /\ tx = "idle" /\ fresh = 0 /\ x2i_tail = tail
           /\ guard + Len(posted) <= kicked + 1
           /\ tail < x2i_head => guard + Len(posted) <= kicked
           /\ posted[1] \in Posts /\ ~(x2i_head >= RingSize)
           /\ \E m \in Places :
                /\ Ring(posted, x2i_head, tail, m, sram)
                /\ \/ /\ posted[1].off = x2i_head
                      /\ sram[x2i_head] = Cell(posted[1].frame, 0) /\ ~AtEnd
                   \/ tail < x2i_head /\ x2i_head = m /\ AtEnd
<1>1. /\ tx = "idle" /\ fresh = 0
      /\ active => /\ x2i_tail = tail
                   /\ guard + Len(posted) <= kicked + 1
                   /\ tail < x2i_head => guard + Len(posted) <= kicked
      /\ ~active => x2i_tail = 0
  BY DEF IInv, LoopInv
<1>2. active
  BY <1>1 DEF IInv, RingInv
<1>3. PICK m \in Places : Ring(posted, x2i_head, tail, m, sram)
  BY <1>2 DEF IInv, RingInv
<1>4. /\ x2i_head \in Places /\ tail \in Places /\ posted \in Seq(Posts)
      /\ x2i_head \in Nat /\ x2i_head <= usable /\ usable \in Nat /\ RingSize = usable + 1
  BY StateFacts, PlaceFacts
<1>5. posted # <<>>
  <2>1. posted = <<>> => x2i_head = tail \/ (tail < x2i_head /\ tail = 0)
    BY ZenonT(40), <1>3, <1>4, RingFirst
  <2>2. ~(tail < x2i_head /\ tail = 0)
    BY <1>1, <1>2 DEF IInv, TxInv
  <2> QED BY <1>1, <1>2, <2>1, <2>2
<1>6. /\ posted[1] \in Posts
      /\ \/ posted[1].off = x2i_head /\ sram[x2i_head] = Cell(posted[1].frame, 0)
         \/ tail < x2i_head /\ x2i_head = m /\ sram[x2i_head] = TOMBSTONE
  BY <1>3, <1>4, <1>5, RingFirst
<1>7. ~(x2i_head >= RingSize)
  BY <1>4
<1>8. Cell(posted[1].frame, 0) # TOMBSTONE
  <2>1. posted[1].frame \in Frames /\ Pkg(posted[1].frame) \in Nat /\ Pkg(posted[1].frame) >= 4
    BY <1>6, PostFacts
  <2>2. 0 \in 0 .. (Pkg(posted[1].frame) - 1)
    BY <2>1
  <2> QED BY <2>1, <2>2, CellFacts
<1>9. \/ /\ posted[1].off = x2i_head
         /\ sram[x2i_head] = Cell(posted[1].frame, 0) /\ ~AtEnd
      \/ tail < x2i_head /\ x2i_head = m /\ AtEnd
  BY <1>6, <1>7, <1>8 DEF AtEnd
<1> QED BY <1>1, <1>2, <1>3, <1>5, <1>6, <1>7, <1>9
-----------------------------------------------------------------------------
(* Each step keeps the invariant                                           *)

\* The channel is set up for its next user.
LEMMA ActivateKeeps ==
    ASSUME IInv, Activate
    PROVE  IInv'
<1>1. /\ dev = "idle" /\ dev' = dev /\ guard' = guard
      /\ active' = TRUE /\ x2i_head' = 0 /\ x2i_tail' = 0
      /\ sram' = [w \in Words |-> Blank]
      /\ tx' = "idle" /\ tail' = 0 /\ cur' = NoCur
      /\ own' = ~own /\ posted' = <<>> /\ fresh' = 0
      /\ handled' = handled /\ refused' = refused /\ kicked' = kicked /\ stuck' = stuck
  BY DEF Activate, SetUp, loop
<1>2. 0 \in Places /\ 0 \in 0 .. InFlight
  <2>1. usable \in Nat /\ InFlight \in Nat
    BY StateFacts
  <2> QED BY <2>1 DEF Places
<1>3. Flags'
  BY Zenon, <1>1 DEF IInv, Flags
<1>4. Numbers' /\ Modes'
  BY <1>1, <1>2 DEF IInv, Numbers, Modes
<1>5. Memory'
  <2>1. <<>> \in Seq(Posts)
    BY EmptySeq
  <2> QED BY <1>1, <1>2, <2>1 DEF Memory, NoCur
<1>6. RingInv'
  <2>1. Ring(<<>>, 0, 0, 0, sram')
    BY <1>2, RingEmpty
  <2>2. Len(<<>>) = 0 /\ 0 <= InFlight
    BY <1>2
  <2> QED BY <1>1, <1>2, <2>1, <2>2 DEF RingInv
<1>7. LoopInv' /\ TxInv'
  BY <1>1 DEF LoopInv, TxInv
<1>8. Drained'
  BY <1>1 DEF Drained
<1>9. NeverRefused' /\ CutShortOnlyBeyond' /\ handled' \in Msgs
  BY <1>1 DEF IInv, NeverRefused, CutShortOnlyBeyond
<1> QED BY <1>3, <1>4, <1>5, <1>6, <1>7, <1>8, <1>9 DEF IInv

\* The channel is torn down; the driver may be anywhere in its write path.
LEMMA DeactivateKeeps ==
    ASSUME IInv, Deactivate
    PROVE  IInv'
<1>1. /\ dev = "idle" /\ dev' = dev /\ guard' = guard
      /\ active' = FALSE /\ x2i_head' = 0 /\ x2i_tail' = 0
      /\ sram' = sram /\ tx' = tx /\ tail' = tail /\ cur' = cur
      /\ own' = own /\ posted' = <<>> /\ fresh' = 0
      /\ handled' = handled /\ refused' = refused /\ kicked' = kicked /\ stuck' = stuck
  BY DEF Deactivate, ChannelReset, loop, driver
<1>2. 0 \in Places /\ 0 \in 0 .. InFlight /\ 0 < InFlight /\ Len(<<>>) = 0
  <2>1. usable \in Nat /\ InFlight \in Nat \ {0}
    BY StateFacts, SizesAssumption
  <2> QED BY <2>1 DEF Places
<1>3. Flags'
  BY Zenon, <1>1 DEF IInv, Flags
<1>4. Numbers' /\ Modes'
  BY <1>1, <1>2 DEF IInv, Numbers, Modes
<1>5. Memory'
  BY <1>1, EmptySeq DEF IInv, Memory
<1>6. RingInv'
  BY <1>1, <1>2 DEF RingInv
<1>7. LoopInv'
  BY <1>1 DEF LoopInv
<1>8. TxInv'
  BY <1>1, <1>2 DEF IInv, TxInv, Full, Wraps
<1>9. Drained'
  BY <1>1 DEF Drained
<1>10. NeverRefused' /\ CutShortOnlyBeyond' /\ handled' \in Msgs
  BY <1>1 DEF IInv, NeverRefused, CutShortOnlyBeyond
<1> QED BY <1>3, <1>4, <1>5, <1>6, <1>7, <1>8, <1>9, <1>10 DEF IInv

\* The driver reads head and finds a place for the next frame.
LEMMA TxStartKeeps ==
    ASSUME IInv, Room(InFlight + 1), NEW f \in Frames, f.own = own, TxStart(f)
    PROVE  IInv'
<1>1. /\ Len(posted) < InFlight /\ dev = "idle" /\ tx \in {"idle", "written"}
      /\ tx' = IF Wraps(f, x2i_head) THEN "tombstone" ELSE "place"
      /\ cur' = [frame |-> f, head |-> x2i_head]
      /\ active' = active /\ x2i_head' = x2i_head /\ x2i_tail' = x2i_tail /\ sram' = sram
      /\ dev' = dev /\ guard' = guard /\ tail' = tail
      /\ own' = own /\ posted' = posted /\ fresh' = fresh /\ handled' = handled
      /\ refused' = refused /\ kicked' = kicked /\ stuck' = stuck
  BY DEF TxStart, TxGoto, chan, loop, ghosts
<1>2. /\ x2i_head \in Places /\ x2i_head \in Nat /\ tail \in Places /\ tail \in Nat
      /\ posted \in Seq(Posts) /\ usable \in Nat
  BY StateFacts
<1>3. Pkg(f) \in Nat /\ Pkg(f) >= 4
  BY FrameFacts
<1>4. CASE active
  <2>1. PICK m \in Places : Ring(posted, x2i_head, tail, m, sram)
    BY <1>4 DEF IInv, RingInv
  <2>2. /\ tail < x2i_head => tail + Pkg(f) < x2i_head
        /\ tail >= x2i_head /\ tail + Pkg(f) > usable => Pkg(f) < x2i_head
    BY <1>1, <1>2, <2>1, RingRoom
  <2>3. Wraps(f, x2i_head) => /\ tail >= x2i_head /\ tail + Pkg(f) > usable
                              /\ ~Full(f, 0, x2i_head) /\ x2i_head > 0
    BY <1>2, <1>3, <2>2 DEF Wraps, Full
  <2>4. ~Full(f, tail, x2i_head)
    BY <1>2, <1>3, <2>2 DEF Full
  <2> QED
    <3>1. TxInv'
      BY <1>1, <2>3, <2>4 DEF IInv, TxInv, Wraps, Full
    <3>2. Flags' /\ Numbers' /\ Modes' /\ Memory' /\ handled' \in Msgs
      BY <1>1, <1>2 DEF IInv, Flags, Numbers, Modes, Memory
    <3>3. RingInv' /\ LoopInv' /\ Drained' /\ NeverRefused' /\ CutShortOnlyBeyond'
      BY <1>1 DEF IInv, RingInv, LoopInv, Drained, NeverRefused, CutShortOnlyBeyond
    <3> QED BY <3>1, <3>2, <3>3 DEF IInv
<1>5. CASE ~active
  <2>1. x2i_head = 0
    BY <1>5 DEF IInv, RingInv
  <2>2. /\ Wraps(f, x2i_head) => tail >= x2i_head /\ tail + Pkg(f) > usable
        /\ ~Full(f, 0, x2i_head) /\ ~Full(f, tail, x2i_head)
    BY <1>2, <1>3, <2>1 DEF Wraps, Full
  <2>3. TxInv'
    BY <1>1, <1>5, <2>2 DEF IInv, TxInv, Wraps, Full
  <2>4. Flags' /\ Numbers' /\ Modes' /\ Memory' /\ handled' \in Msgs
    BY <1>1, <1>2 DEF IInv, Flags, Numbers, Modes, Memory
  <2>5. RingInv' /\ LoopInv' /\ Drained' /\ NeverRefused' /\ CutShortOnlyBeyond'
    BY <1>1 DEF IInv, RingInv, LoopInv, Drained, NeverRefused, CutShortOnlyBeyond
  <2> QED BY <2>3, <2>4, <2>5 DEF IInv
<1> QED BY <1>4, <1>5

\* A tombstone is put at tail.
LEMMA TxTombstoneKeeps ==
    ASSUME IInv, TxTombstone
    PROVE  IInv'
<1>1. /\ dev = "idle" /\ tx = "tombstone" /\ tx' = "place0"
      /\ sram' = [sram EXCEPT ![tail] = TOMBSTONE]
      /\ active' = active /\ x2i_head' = x2i_head /\ x2i_tail' = x2i_tail
      /\ dev' = dev /\ guard' = guard /\ tail' = tail /\ cur' = cur
      /\ own' = own /\ posted' = posted /\ fresh' = fresh /\ handled' = handled
      /\ refused' = refused /\ kicked' = kicked /\ stuck' = stuck
  BY DEF TxTombstone, TxGoto, loop, ghosts
<1>2. /\ x2i_head \in Places /\ x2i_head \in Nat
      /\ tail \in Places /\ tail \in Nat /\ tail \in Words /\ posted \in Seq(Posts)
      /\ sram \in [Words -> Cells \cup {TOMBSTONE, Blank}]
  BY StateFacts
<1>3. cur.head \in Nat /\ (active => cur.head = x2i_head) /\ tail >= cur.head
  BY <1>1, CurFacts DEF IInv, TxInv
<1>4. /\ sram' \in [Words -> Cells \cup {TOMBSTONE, Blank}] /\ sram'[tail] = TOMBSTONE
      /\ \A w \in Words : w # tail => sram'[w] = sram[w]
  BY <1>1, <1>2
<1>5. ASSUME active PROVE \E m \in Places : Ring(posted, x2i_head, tail, m, sram')
  <2>1. PICK m \in Places : Ring(posted, x2i_head, tail, m, sram)
    BY <1>5 DEF IInv, RingInv
  <2>2. \A w \in Words :
           sram'[w] = sram[w] \/ (tail <= w /\ (tail < x2i_head => w < x2i_head))
    <3>1. tail <= tail /\ ~(tail < x2i_head)
      BY <1>2, <1>3, <1>5
    <3> QED BY <1>4, <3>1
  <2>3. Ring(posted, x2i_head, tail, m, sram')
    BY <1>2, <2>1, <2>2, RingWrite
  <2> QED BY <2>3
<1>6. RingInv'
  BY <1>1, <1>5 DEF IInv, RingInv
<1>7. TxInv'
  BY <1>1, <1>4 DEF IInv, TxInv, Wraps, Full
<1>8. Flags' /\ Numbers' /\ Modes' /\ Memory' /\ handled' \in Msgs
  BY <1>1, <1>4 DEF IInv, Flags, Numbers, Modes, Memory
<1>9. LoopInv' /\ Drained' /\ NeverRefused' /\ CutShortOnlyBeyond'
  BY <1>1 DEF IInv, LoopInv, Drained, NeverRefused, CutShortOnlyBeyond
<1> QED BY <1>6, <1>7, <1>8, <1>9 DEF IInv

\* The frame goes to a place that is free: behind tail, or at the start of the ring.
LEMMA TxPlaceKeeps ==
    ASSUME IInv, Room(InFlight + 1), TxPlace("place", tail) \/ TxPlace("place0", 0)
    PROVE  IInv'
<1>1. PICK at : \/ at = tail /\ TxPlace("place", at)
                \/ at = 0 /\ TxPlace("place0", at)
  OBVIOUS
<1>2. /\ dev = "idle" /\ tx \in {"place", "place0"}
      /\ tx = "place" => at = tail
      /\ tx = "place0" => at = 0
      /\ tx' = IF Full(cur.frame, at, cur.head) THEN "idle" ELSE "header"
      /\ tail' = IF Full(cur.frame, at, cur.head) THEN tail ELSE at
      /\ refused' = (refused \/ Full(cur.frame, at, cur.head))
      /\ active' = active /\ x2i_head' = x2i_head /\ x2i_tail' = x2i_tail /\ sram' = sram
      /\ dev' = dev /\ guard' = guard /\ cur' = cur
      /\ own' = own /\ posted' = posted /\ fresh' = fresh /\ handled' = handled
      /\ kicked' = kicked /\ stuck' = stuck
  BY <1>1 DEF TxPlace, TxGoto, chan, loop
<1>3. ~Full(cur.frame, at, cur.head)
  BY <1>2 DEF IInv, TxInv
<1>4. tx' = "header" /\ tail' = at
  BY <1>2, <1>3
<1>5. refused' = FALSE
  BY Zenon, <1>2, <1>3 DEF IInv, NeverRefused
<1>6. /\ x2i_head \in Places /\ x2i_head \in Nat /\ tail \in Places /\ tail \in Nat
      /\ posted \in Seq(Posts) /\ usable \in Nat /\ Len(posted) \in Nat
  BY StateFacts
<1>7. /\ cur.frame \in Frames /\ cur.head \in Places /\ cur.head \in Nat
      /\ cur.frame.own = own /\ Len(posted) < InFlight
      /\ active => cur.head = x2i_head
      /\ Pkg(cur.frame) \in Nat /\ Pkg(cur.frame) >= 4 /\ Pkg(cur.frame) <= MaxPkg
      /\ MaxPkg \in Nat /\ cur.head <= usable
  BY <1>2, CurFacts, PlaceFacts
<1>8. 0 \in Places
  BY <1>6 DEF Places
<1>9. MaxPkg <= usable
  <2>1. /\ (Len(posted) * MaxPkg) + MaxPkg + MaxPkg <= usable
        /\ Len(posted) * MaxPkg \in Nat
    BY <1>6, <1>7, RoomFor
  <2> QED BY <1>6, <1>7, <2>1
<1>10. CASE tx = "place"
  <2>1. at = tail /\ ~Wraps(cur.frame, cur.head)
    BY <1>2, <1>10 DEF IInv, TxInv
  <2>2. /\ tail + Pkg(cur.frame) <= usable
        /\ active /\ tail < x2i_head => tail + Pkg(cur.frame) < x2i_head
    BY <1>3, <1>6, <1>7, <2>1 DEF Wraps, Full
  <2>3. TxInv'
    BY <1>2, <1>4, <1>7, <2>1, <2>2 DEF TxInv
  <2>4. RingInv'
    BY <1>2, <1>4, <2>1 DEF IInv, RingInv
  <2>5. Flags'
    BY Zenon, <1>2, <1>5 DEF IInv, Flags
  <2>6. Numbers' /\ Modes' /\ Memory' /\ handled' \in Msgs
    BY <1>2, <1>4, <2>1 DEF IInv, Numbers, Modes, Memory
  <2>7. LoopInv' /\ Drained' /\ NeverRefused' /\ CutShortOnlyBeyond'
    BY <1>2, <1>5 DEF IInv, LoopInv, Drained, NeverRefused, CutShortOnlyBeyond
  <2> QED BY <2>3, <2>4, <2>5, <2>6, <2>7 DEF IInv
<1>11. CASE tx = "place0"
  <2>1. /\ at = 0 /\ tail >= cur.head /\ tail + Pkg(cur.frame) > usable
        /\ active => cur.head > 0
        /\ sram[tail] = TOMBSTONE
    BY <1>2, <1>11 DEF IInv, TxInv
  <2>2. /\ 0 + Pkg(cur.frame) <= usable
        /\ active /\ 0 < x2i_head => 0 + Pkg(cur.frame) < x2i_head
    BY <1>3, <1>6, <1>7, <1>9, <2>1 DEF Full
  <2>3. TxInv'
    BY <1>2, <1>4, <1>7, <2>1, <2>2 DEF TxInv
  <2>4. ASSUME active PROVE \E m \in Places : Ring(posted, x2i_head, 0, m, sram)
    <3>1. PICK m \in Places : Ring(posted, x2i_head, tail, m, sram)
      BY <2>4 DEF IInv, RingInv
    <3>2. x2i_head > 0 /\ tail >= x2i_head /\ tail + MaxPkg > usable
      BY <1>6, <1>7, <2>1, <2>4
    <3>3. Ring(posted, x2i_head, 0, tail, sram)
      BY <1>6, <2>1, <3>1, <3>2, RingWrap
    <3> QED BY <1>6, <3>3
  <2>5. RingInv'
    BY <1>2, <1>4, <2>1, <2>4 DEF IInv, RingInv
  <2>6. Flags'
    BY Zenon, <1>2, <1>5 DEF IInv, Flags
  <2>7. Numbers' /\ Modes' /\ Memory' /\ handled' \in Msgs
    BY <1>2, <1>4, <1>8, <2>1 DEF IInv, Numbers, Modes, Memory
  <2>8. LoopInv' /\ Drained' /\ NeverRefused' /\ CutShortOnlyBeyond'
    BY <1>2, <1>5 DEF IInv, LoopInv, Drained, NeverRefused, CutShortOnlyBeyond
  <2> QED BY <2>3, <2>5, <2>6, <2>7, <2>8 DEF IInv
<1> QED BY <1>2, <1>10, <1>11

\* Words of the frame are written where it is free, and nowhere else.
LEMMA WithWordsFacts ==
    ASSUME IInv, tx \in {"header", "payload"}, NEW from \in Nat, NEW to \in Int,
           to < Pkg(cur.frame)
    PROVE  /\ WithWords(from, to) \in [Words -> Cells \cup {TOMBSTONE, Blank}]
           /\ \A k \in 0 .. (Pkg(cur.frame) - 1) :
                 /\ tail + k \in Words
                 /\ WithWords(from, to)[tail + k] =
                       IF k \in from .. to THEN Cell(cur.frame, k) ELSE sram[tail + k]
           /\ active => \E m \in Places :
                 /\ Ring(posted, x2i_head, tail, m, sram)
                 /\ Ring(posted, x2i_head, tail, m, WithWords(from, to))
<1> DEFINE f == cur.frame
           u == WithWords(from, to)
<1>1. /\ x2i_head \in Places /\ x2i_head \in Nat /\ tail \in Places /\ tail \in Nat
      /\ posted \in Seq(Posts) /\ usable \in Nat /\ RingSize = usable + 1
      /\ sram \in [Words -> Cells \cup {TOMBSTONE, Blank}]
  BY StateFacts
<1>2. f \in Frames /\ Pkg(f) \in Nat
  BY CurFacts
<1>3. /\ tail + Pkg(f) <= usable
      /\ active /\ tail < x2i_head => tail + Pkg(f) < x2i_head
  BY DEF IInv, TxInv
<1>4. ASSUME NEW w \in Words
      PROVE  /\ w \in (tail + from) .. (tail + to) =>
                   /\ w - tail \in 0 .. (Pkg(f) - 1) /\ w - tail \in from .. to
                   /\ tail <= w /\ w < tail + Pkg(f)
             /\ w - tail \in from .. to => w \in (tail + from) .. (tail + to)
  <2>1. w \in Int /\ to \in Int /\ from \in Nat /\ to < Pkg(f)
    BY DEF Words
  <2> HIDE DEF f
  <2> QED BY ONLY <1>1, <1>2, <2>1
<1>5. \A w \in Words :
         u[w] = IF w \in (tail + from) .. (tail + to) THEN Cell(f, w - tail) ELSE sram[w]
  BY DEF WithWords
<1>6. u \in [Words -> Cells \cup {TOMBSTONE, Blank}]
  <2>1. ASSUME NEW w \in Words
        PROVE  (IF w \in (tail + from) .. (tail + to) THEN Cell(f, w - tail) ELSE sram[w])
                  \in Cells \cup {TOMBSTONE, Blank}
    <3>1. CASE w \in (tail + from) .. (tail + to)
      <4>1. Cell(f, w - tail) \in Cells
        BY <1>2, <1>4, <3>1, CellFacts
      <4> QED BY <3>1, <4>1
    <3>2. CASE ~(w \in (tail + from) .. (tail + to))
      BY <1>1, <3>2
    <3> QED BY <3>1, <3>2
  <2> QED BY <2>1 DEF WithWords
<1>7. ASSUME NEW k \in 0 .. (Pkg(f) - 1)
      PROVE  /\ tail + k \in Words
             /\ u[tail + k] = IF k \in from .. to THEN Cell(f, k) ELSE sram[tail + k]
  <2>1. tail + k \in Words /\ (tail + k) - tail = k
    BY <1>1, <1>2, <1>3 DEF Words
  <2>2. tail + k \in (tail + from) .. (tail + to) <=> k \in from .. to
    BY <1>4, <2>1
  <2> QED BY <1>5, <2>1, <2>2
<1>8. ASSUME active
      PROVE  \E m \in Places : /\ Ring(posted, x2i_head, tail, m, sram)
                               /\ Ring(posted, x2i_head, tail, m, u)
  <2>1. PICK m \in Places : Ring(posted, x2i_head, tail, m, sram)
    BY <1>8 DEF IInv, RingInv
  <2>2. ASSUME NEW w \in Words
        PROVE  u[w] = sram[w] \/ (tail <= w /\ (tail < x2i_head => w < x2i_head))
    <3>1. CASE w \in (tail + from) .. (tail + to)
      <4>1. tail <= w /\ w < tail + Pkg(f) /\ w \in Int
        BY <1>4, <3>1 DEF Words
      <4> QED BY <1>1, <1>2, <1>3, <1>8, <4>1
    <3>2. CASE ~(w \in (tail + from) .. (tail + to))
      BY <1>5, <3>2
    <3> QED BY <3>1, <3>2
  <2> HIDE DEF u
  <2>3. Ring(posted, x2i_head, tail, m, u)
    BY <1>1, <2>1, <2>2, RingWrite
  <2> QED BY <2>1, <2>3
<1> QED BY <1>6, <1>7, <1>8

\* The header is written.
LEMMA TxHeaderKeeps ==
    ASSUME IInv, TxHeader
    PROVE  IInv'
<1>1. /\ dev = "idle" /\ tx = "header" /\ tx' = "payload"
      /\ sram' = WithWords(0, HdrWords - 1)
      /\ active' = active /\ x2i_head' = x2i_head /\ x2i_tail' = x2i_tail
      /\ dev' = dev /\ guard' = guard /\ tail' = tail /\ cur' = cur
      /\ own' = own /\ posted' = posted /\ fresh' = fresh /\ handled' = handled
      /\ refused' = refused /\ kicked' = kicked /\ stuck' = stuck
  BY DEF TxHeader, TxGoto, loop, ghosts
<1>2. Pkg(cur.frame) \in Nat /\ Pkg(cur.frame) >= 4 /\ HdrWords = 4
  BY <1>1, CurFacts DEF HdrWords
<1>3. 0 \in Nat /\ HdrWords - 1 \in Int /\ HdrWords - 1 < Pkg(cur.frame)
  BY <1>2
<1>4. /\ sram' \in [Words -> Cells \cup {TOMBSTONE, Blank}]
      /\ \A k \in 0 .. (Pkg(cur.frame) - 1) :
            sram'[tail + k] = IF k \in 0 .. (HdrWords - 1) THEN Cell(cur.frame, k) ELSE sram[tail + k]
      /\ active => \E m \in Places : Ring(posted, x2i_head, tail, m, sram')
  BY <1>1, <1>3, WithWordsFacts
<1>5. \A k \in 0 .. (HdrWords - 1) : sram'[tail + k] = Cell(cur.frame, k)
  <2>1. \A k \in 0 .. (HdrWords - 1) : k \in 0 .. (Pkg(cur.frame) - 1)
    BY <1>2
  <2> QED BY <1>4, <2>1
<1>6. RingInv'
  BY <1>1, <1>4 DEF IInv, RingInv
<1>7. TxInv'
  BY <1>1, <1>5 DEF IInv, TxInv
<1>8. Flags' /\ Numbers' /\ Modes' /\ Memory' /\ handled' \in Msgs
  BY <1>1, <1>4 DEF IInv, Flags, Numbers, Modes, Memory
<1>9. LoopInv' /\ Drained' /\ NeverRefused' /\ CutShortOnlyBeyond'
  BY <1>1 DEF IInv, LoopInv, Drained, NeverRefused, CutShortOnlyBeyond
<1> QED BY <1>6, <1>7, <1>8, <1>9 DEF IInv

\* The payload is written, which makes the frame whole.
LEMMA TxPayloadKeeps ==
    ASSUME IInv, TxPayload
    PROVE  IInv'
<1> DEFINE f == cur.frame
           e == [off |-> tail, frame |-> f]
<1>1. /\ dev = "idle" /\ tx = "payload" /\ tx' = "written"
      /\ sram' = WithWords(HdrWords, Pkg(f) - 1) /\ tail' = tail + Pkg(f)
      /\ posted' = IF active THEN Append(posted, e) ELSE posted
      /\ fresh' = IF active THEN fresh + 1 ELSE fresh
      /\ active' = active /\ x2i_head' = x2i_head /\ x2i_tail' = x2i_tail
      /\ dev' = dev /\ guard' = guard /\ cur' = cur
      /\ own' = own /\ handled' = handled
      /\ refused' = refused /\ kicked' = kicked /\ stuck' = stuck
  BY DEF TxPayload, TxGoto, EndOfFrame, loop
<1>2. /\ f \in Frames /\ Pkg(f) \in Nat /\ Pkg(f) >= 4 /\ HdrWords = 4
      /\ Len(posted) < InFlight
  BY <1>1, CurFacts DEF HdrWords
<1>3. HdrWords \in Nat /\ Pkg(f) - 1 \in Int /\ Pkg(f) - 1 < Pkg(f)
  BY <1>2
<1>4. /\ sram' \in [Words -> Cells \cup {TOMBSTONE, Blank}]
      /\ \A k \in 0 .. (Pkg(f) - 1) :
            sram'[tail + k] = IF k \in HdrWords .. (Pkg(f) - 1) THEN Cell(f, k) ELSE sram[tail + k]
      /\ active => \E m \in Places : Ring(posted, x2i_head, tail, m, sram')
  BY <1>1, <1>3, WithWordsFacts
<1>5. ASSUME NEW k \in 0 .. (Pkg(f) - 1) PROVE sram'[tail + k] = Cell(f, k)
  <2>1. \A i \in 0 .. (HdrWords - 1) : sram[tail + i] = Cell(f, i)
    BY <1>1 DEF IInv, TxInv
  <2>2. k \in HdrWords .. (Pkg(f) - 1) \/ k \in 0 .. (HdrWords - 1)
    BY <1>2
  <2> QED BY <1>4, <2>1, <2>2
<1>6. /\ tail + Pkg(f) <= usable
      /\ active /\ tail < x2i_head => tail + Pkg(f) < x2i_head
  BY <1>1 DEF IInv, TxInv
<1>7. /\ x2i_head \in Places /\ x2i_head \in Nat /\ tail \in Places /\ tail \in Nat
      /\ posted \in Seq(Posts) /\ usable \in Nat /\ Len(posted) \in Nat
      /\ fresh \in Nat /\ fresh <= Len(posted) /\ InFlight \in Nat
  BY StateFacts
<1>8. tail' \in Places /\ tail' > 0
  BY <1>1, <1>2, <1>6, <1>7 DEF Places
<1>9. Flags' /\ Modes' /\ handled' \in Msgs
  BY <1>1 DEF IInv, Flags, Modes
<1>10. LoopInv' /\ NeverRefused' /\ CutShortOnlyBeyond'
  BY <1>1 DEF IInv, LoopInv, NeverRefused, CutShortOnlyBeyond
<1>11. TxInv'
  BY <1>1, <1>8 DEF TxInv
<1> HIDE DEF f
<1>12. CASE active
  <2>1. PICK m \in Places : Ring(posted, x2i_head, tail, m, sram')
    BY <1>4, <1>12
  <2>2. Ring(Append(posted, e), x2i_head, tail + Pkg(f), m, sram')
    BY <1>2, <1>5, <1>6, <1>7, <1>12, <2>1, RingAppend
  <2>3. e \in Posts
    BY <1>2, <1>7 DEF Posts
  <2>4. /\ posted' \in Seq(Posts) /\ Len(posted') = Len(posted) + 1
        /\ \A i \in 1 .. Len(posted) : posted'[i] = posted[i]
    BY <1>1, <1>7, <1>12, <2>3, AppendFacts
  <2>5. fresh' = fresh + 1
    BY <1>1, <1>12
  <2>6. RingInv'
    <3>1. fresh' <= Len(posted') /\ Len(posted') <= InFlight
      BY <1>2, <1>7, <2>4, <2>5
    <3> QED BY <1>1, <1>12, <2>1, <2>2, <3>1 DEF RingInv
  <2>7. Numbers'
    <3>1. fresh' \in 0 .. InFlight
      BY <1>2, <1>7, <2>5
    <3> QED BY <1>1, <1>8, <3>1 DEF IInv, Numbers
  <2>8. Memory'
    BY <1>1, <1>4, <2>4 DEF IInv, Memory
  <2>9. Drained'
    <3>1. SUFFICES ASSUME Len(posted') > fresh' PROVE stuck \/ posted'[1].frame.len = 0
      BY <1>1 DEF Drained
    <3>2. Len(posted) > fresh /\ 1 \in 1 .. Len(posted)
      BY <1>7, <2>4, <2>5, <3>1
    <3>3. stuck \/ posted[1].frame.len = 0
      BY <1>1, <3>2 DEF IInv, Drained
    <3> QED BY <2>4, <3>2, <3>3
  <2> QED BY <1>9, <1>10, <1>11, <2>6, <2>7, <2>8, <2>9 DEF IInv
<1>13. CASE ~active
  <2>1. posted' = posted /\ fresh' = fresh
    BY <1>1, <1>13
  <2>2. RingInv'
    BY <1>1, <1>13, <2>1 DEF IInv, RingInv
  <2>3. Numbers' /\ Memory' /\ Drained'
    BY <1>1, <1>4, <1>8, <2>1 DEF IInv, Numbers, Memory, Drained
  <2> QED BY <1>9, <1>10, <1>11, <2>2, <2>3 DEF IInv
<1> QED BY <1>12, <1>13

\* The tail register is written: the loop starts with what was posted.
LEMMA TxKickKeeps ==
    ASSUME IInv, TxKick
    PROVE  IInv'
<1>1. /\ dev = "idle" /\ tx = "written" /\ tx' = "idle" /\ x2i_tail' = tail
      /\ dev' = IF active THEN "run" ELSE "idle"
      /\ guard' = 0 /\ fresh' = 0 /\ kicked' = Len(posted) /\ stuck' = FALSE
      /\ active' = active /\ x2i_head' = x2i_head /\ sram' = sram
      /\ tail' = tail /\ cur' = cur
      /\ own' = own /\ posted' = posted /\ handled' = handled /\ refused' = refused
  BY DEF TxKick, TxGoto
<1>2. /\ x2i_head \in Nat /\ tail \in Places /\ tail \in Nat
      /\ Len(posted) \in Nat /\ Len(posted) <= InFlight /\ InFlight \in Nat
      /\ (posted = <<>> <=> Len(posted) = 0)
  BY StateFacts
<1>3. MaxPerKick \in Nat
  BY SizesAssumption
<1>4. Flags'
  BY Zenon, <1>1 DEF IInv, Flags
<1>5. Numbers'
  <2>1. 0 \in 0 .. MaxPerKick /\ 0 \in 0 .. InFlight /\ Len(posted) \in 0 .. InFlight
    BY <1>2, <1>3
  <2> QED BY <1>1, <1>2, <2>1 DEF IInv, Numbers
<1>6. Modes' /\ Memory' /\ handled' \in Msgs
  BY <1>1 DEF IInv, Modes, Memory
<1>7. RingInv'
  BY <1>1, <1>2 DEF IInv, RingInv
<1>8. ~active => posted = <<>>
  BY DEF IInv, RingInv
<1>9. LoopInv'
  <2>1. 0 + Len(posted) <= Len(posted) + 1 /\ 0 + Len(posted) <= Len(posted)
    BY <1>2
  <2> QED BY <1>1, <2>1 DEF LoopInv
<1>10. TxInv'
  BY <1>1 DEF IInv, TxInv
<1>11. Drained'
  BY <1>1, <1>2, <1>8 DEF Drained
<1>12. NeverRefused' /\ CutShortOnlyBeyond'
  BY <1>1 DEF IInv, NeverRefused, CutShortOnlyBeyond
<1> QED BY <1>4, <1>5, <1>6, <1>7, <1>9, <1>10, <1>11, <1>12 DEF IInv

\* The loop has caught up with the tail register.
LEMMA ProcDoneKeeps ==
    ASSUME IInv, ProcDone
    PROVE  IInv'
<1>1. /\ dev = "run" /\ x2i_head = x2i_tail /\ dev' = "idle" /\ guard' = 0
      /\ active' = active /\ x2i_head' = x2i_head /\ x2i_tail' = x2i_tail /\ sram' = sram
      /\ tx' = tx /\ tail' = tail /\ cur' = cur
      /\ own' = own /\ posted' = posted /\ fresh' = fresh /\ handled' = handled
      /\ refused' = refused /\ kicked' = kicked /\ stuck' = stuck
  BY DEF ProcDone, Return, chan, driver, ghosts
<1>2. /\ x2i_head \in Places /\ x2i_head \in Nat /\ tail \in Places /\ tail \in Nat
      /\ posted \in Seq(Posts) /\ Len(posted) \in Nat /\ (posted = <<>> <=> Len(posted) = 0)
      /\ fresh \in Nat
  BY StateFacts
<1>3. posted = <<>>
  <2>1. ~active => posted = <<>>
    BY DEF IInv, RingInv
  <2>2. ASSUME active, posted # <<>> PROVE FALSE
    <3>1. x2i_head = tail
      BY <1>1, <2>2 DEF IInv, LoopInv
    <3>2. PICK m \in Places : Ring(posted, x2i_head, tail, m, sram)
      BY <2>2 DEF IInv, RingInv
    <3>3. 1 \in 1 .. Len(posted) /\ tail >= x2i_head
      BY <1>2, <2>2, <3>1
    <3>4. posted[1] \in Posts /\ x2i_head <= posted[1].off /\ End(posted[1]) <= tail
      BY <1>2, <3>2, <3>3, RingPlace
    <3>5. posted[1].off \in Nat /\ End(posted[1]) \in Nat /\ posted[1].off < End(posted[1])
      BY <3>4, PostFacts
    <3> QED BY <1>2, <3>1, <3>4, <3>5
  <2> QED BY <2>1, <2>2
<1>4. MaxPerKick \in Nat
  BY SizesAssumption
<1>5. Flags' /\ Modes' /\ Memory' /\ handled' \in Msgs
  BY <1>1 DEF IInv, Flags, Modes, Memory
<1>6. Numbers'
  BY <1>1, <1>4 DEF IInv, Numbers
<1>7. RingInv' /\ TxInv' /\ LoopInv'
  BY <1>1 DEF IInv, RingInv, TxInv, LoopInv, Full, Wraps
<1>8. Drained'
  BY <1>1, <1>2, <1>3 DEF Drained
<1>9. NeverRefused' /\ CutShortOnlyBeyond'
  BY <1>1 DEF IInv, NeverRefused, CutShortOnlyBeyond
<1> QED BY <1>5, <1>6, <1>7, <1>8, <1>9 DEF IInv

\* The bound on the loop is met: as many requests were published.
LEMMA ProcGuardKeeps ==
    ASSUME IInv, ProcGuard
    PROVE  IInv'
<1>1. /\ dev = "run" /\ x2i_head # x2i_tail /\ guard + 1 > MaxPerKick
      /\ dev' = "idle" /\ guard' = 0 /\ stuck' = TRUE
      /\ active' = active /\ x2i_head' = x2i_head /\ x2i_tail' = x2i_tail /\ sram' = sram
      /\ tx' = tx /\ tail' = tail /\ cur' = cur
      /\ own' = own /\ posted' = posted /\ fresh' = fresh /\ handled' = handled
      /\ refused' = refused /\ kicked' = kicked
  BY DEF ProcGuard, GuardHit, Return, chan, driver
<1>2. MaxPerKick \in Nat
  BY SizesAssumption
<1>3. kicked >= MaxPerKick
  <2>1. /\ guard \in Nat /\ kicked \in Nat /\ Len(posted) \in Nat
        /\ (posted = <<>> <=> Len(posted) = 0)
    BY StateFacts
  <2>2. posted # <<>> /\ guard + Len(posted) <= kicked + 1
    BY <1>1, LoopFacts
  <2> QED BY <1>1, <1>2, <2>1, <2>2
<1>4. Flags'
  BY Zenon, <1>1 DEF IInv, Flags
<1>5. Modes' /\ Memory' /\ handled' \in Msgs
  BY <1>1 DEF IInv, Modes, Memory
<1>6. Numbers'
  BY <1>1, <1>2 DEF IInv, Numbers
<1>7. RingInv' /\ TxInv' /\ LoopInv'
  BY <1>1 DEF IInv, RingInv, TxInv, LoopInv, Full, Wraps
<1>8. Drained' /\ NeverRefused' /\ CutShortOnlyBeyond'
  BY <1>1, <1>3 DEF IInv, Drained, NeverRefused, CutShortOnlyBeyond
<1> QED BY <1>4, <1>5, <1>6, <1>7, <1>8 DEF IInv

\* The loop meets the tombstone and goes on at the start of the ring.
LEMMA ProcRewindKeeps ==
    ASSUME IInv, ProcRewind
    PROVE  IInv'
<1>1. /\ dev = "run" /\ x2i_head # x2i_tail /\ ~(guard + 1 > MaxPerKick)
      /\ guard' = guard + 1 /\ AtEnd /\ x2i_head' = 0
      /\ active' = active /\ x2i_tail' = x2i_tail /\ sram' = sram /\ dev' = dev
      /\ tx' = tx /\ tail' = tail /\ cur' = cur
      /\ own' = own /\ posted' = posted /\ fresh' = fresh /\ handled' = handled
      /\ refused' = refused /\ kicked' = kicked /\ stuck' = stuck
  BY DEF ProcRewind, Iterate, GuardHit, Rewind, driver, ghosts
<1>2. /\ x2i_head \in Places /\ tail \in Places /\ tail \in Nat /\ usable \in Nat
      /\ posted \in Seq(Posts) /\ Len(posted) \in Nat
      /\ guard \in Nat /\ kicked \in Nat
  BY StateFacts
<1>3. /\ active /\ posted # <<>> /\ tx = "idle" /\ fresh = 0 /\ x2i_tail = tail
      /\ tail < x2i_head => guard + Len(posted) <= kicked
  BY <1>1, LoopFacts
<1>4. PICK m \in Places :
         Ring(posted, x2i_head, tail, m, sram) /\ tail < x2i_head /\ x2i_head = m
  BY <1>1, LoopFacts
<1>5. Ring(posted, 0, tail, m, sram)
  BY <1>2, <1>3, <1>4, RingRewind
<1>6. 0 \in Places /\ ~(tail < 0)
  BY <1>2 DEF Places
<1>7. MaxPerKick \in Nat
  BY SizesAssumption
<1>8. Flags' /\ Modes' /\ Memory' /\ handled' \in Msgs
  BY <1>1 DEF IInv, Flags, Modes, Memory
<1>9. Numbers'
  <2>1. guard + 1 \in 0 .. MaxPerKick
    BY <1>1, <1>2, <1>7
  <2> QED BY <1>1, <1>6, <2>1 DEF IInv, Numbers
<1>10. RingInv'
  BY <1>1, <1>3, <1>5 DEF IInv, RingInv
<1>11. LoopInv'
  <2>1. (guard + 1) + Len(posted) <= kicked + 1
    BY <1>2, <1>3, <1>4
  <2> QED BY <1>1, <1>3, <1>6, <2>1 DEF LoopInv
<1>12. TxInv'
  BY <1>1, <1>3, <1>6 DEF TxInv
<1>13. Drained' /\ NeverRefused' /\ CutShortOnlyBeyond'
  BY <1>1 DEF IInv, Drained, NeverRefused, CutShortOnlyBeyond
<1> QED BY <1>8, <1>9, <1>10, <1>11, <1>12, <1>13 DEF IInv

\* Away from the tombstone, the frame at head is the oldest one posted; all that can be
\* wrong with it is that it is empty.
LEMMA HandleFacts ==
    ASSUME IInv, dev = "run", x2i_head # x2i_tail, ~AtEnd
    PROVE  /\ posted # <<>> /\ posted[1] \in Posts /\ posted[1].off = x2i_head
           /\ sram[x2i_head].frame = posted[1].frame
           /\ GoodFrame <=> posted[1].frame.len # 0
           /\ \A k \in 0 .. (Pkg(posted[1].frame) - 1) :
                 sram[x2i_head + k] = Cell(posted[1].frame, k)
<1>1. PICK m \in Places :
         /\ Ring(posted, x2i_head, tail, m, sram) /\ posted[1].off = x2i_head
         /\ sram[x2i_head] = Cell(posted[1].frame, 0)
  BY LoopFacts
<1>2. posted # <<>> /\ posted[1] \in Posts
  BY LoopFacts
<1>3. /\ x2i_head \in Places /\ x2i_head \in Nat /\ tail \in Places
      /\ posted \in Seq(Posts) /\ Len(posted) \in Nat /\ (posted = <<>> <=> Len(posted) = 0)
      /\ usable \in Nat /\ RingSize = usable + 1
  BY StateFacts
<1>4. 1 \in 1 .. Len(posted)
  BY <1>2, <1>3
<1>5. End(posted[1]) <= usable
  BY <1>1, <1>3, <1>4, RingPlace
<1>6. /\ posted[1].frame \in Frames /\ posted[1].frame.len \in Nat
      /\ Pkg(posted[1].frame) \in Nat /\ Pkg(posted[1].frame) >= 4
      /\ End(posted[1]) = posted[1].off + Pkg(posted[1].frame)
  BY <1>2, PostFacts
<1>7. 0 \in 0 .. (Pkg(posted[1].frame) - 1)
  BY <1>6
<1>8. /\ sram[x2i_head] \in Cells /\ sram[x2i_head].frame = posted[1].frame
      /\ sram[x2i_head].k = 0
  BY <1>1, <1>6, <1>7, CellFacts
<1>9. Pkg(posted[1].frame) <= RingSize - x2i_head
  BY <1>1, <1>3, <1>5, <1>6
<1>10. GoodFrame <=> posted[1].frame.len # 0
  BY <1>8, <1>9 DEF GoodFrame
<1>11. \A k \in 0 .. (Pkg(posted[1].frame) - 1) :
          sram[x2i_head + k] = Cell(posted[1].frame, k)
  BY <1>1, <1>4 DEF Ring, Intact
<1> QED BY <1>1, <1>2, <1>8, <1>10, <1>11

\* An empty request stops the loop.
LEMMA ProcRejectKeeps ==
    ASSUME IInv, ProcReject
    PROVE  IInv'
<1>1. /\ dev = "run" /\ x2i_head # x2i_tail /\ ~AtEnd /\ ~GoodFrame
      /\ dev' = "idle" /\ guard' = 0
      /\ active' = active /\ x2i_head' = x2i_head /\ x2i_tail' = x2i_tail /\ sram' = sram
      /\ tx' = tx /\ tail' = tail /\ cur' = cur
      /\ own' = own /\ posted' = posted /\ fresh' = fresh /\ handled' = handled
      /\ refused' = refused /\ kicked' = kicked /\ stuck' = stuck
  BY DEF ProcReject, Return, chan, driver, ghosts
<1>2. posted[1].frame.len = 0
  BY <1>1, HandleFacts
<1>3. MaxPerKick \in Nat
  BY SizesAssumption
<1>4. Flags' /\ Modes' /\ Memory' /\ handled' \in Msgs
  BY <1>1 DEF IInv, Flags, Modes, Memory
<1>5. Numbers'
  BY <1>1, <1>3 DEF IInv, Numbers
<1>6. RingInv' /\ TxInv' /\ LoopInv'
  BY <1>1 DEF IInv, RingInv, TxInv, LoopInv, Full, Wraps
<1>7. Drained' /\ NeverRefused' /\ CutShortOnlyBeyond'
  BY <1>1, <1>2 DEF IInv, Drained, NeverRefused, CutShortOnlyBeyond
<1> QED BY <1>4, <1>5, <1>6, <1>7 DEF IInv

\* What a step of the loop that handles a request does.
LEMMA HandleStep ==
    ASSUME IInv, NEW destroys \in BOOLEAN, ProcHandle(destroys)
    PROVE  /\ dev = "run" /\ x2i_head # x2i_tail /\ ~(guard + 1 > MaxPerKick)
           /\ guard' = guard + 1 /\ ~AtEnd /\ GoodFrame
           /\ posted # <<>> /\ posted[1] \in Posts /\ posted[1].off = x2i_head
           /\ handled' = AsHandled(posted[1].frame)
           /\ destroys => /\ active' = FALSE /\ x2i_head' = 0 /\ x2i_tail' = 0
                          /\ posted' = <<>>
           /\ ~destroys => /\ active' = active /\ x2i_head' = End(posted[1])
                           /\ x2i_tail' = x2i_tail /\ posted' = Tail(posted)
           /\ sram' = sram /\ dev' = dev /\ tx' = tx /\ tail' = tail /\ cur' = cur
           /\ own' = own /\ fresh' = fresh
           /\ refused' = refused /\ kicked' = kicked /\ stuck' = stuck
<1> DEFINE f == sram[x2i_head].frame
<1>1. /\ dev = "run" /\ x2i_head # x2i_tail /\ ~(guard + 1 > MaxPerKick)
      /\ guard' = guard + 1 /\ GoodFrame
      /\ IF destroys
         THEN ChannelReset /\ posted' = <<>>
         ELSE /\ x2i_head' = x2i_head + Pkg(f)
              /\ posted' = IF posted = <<>> THEN posted ELSE Tail(posted)
              /\ UNCHANGED <<active, x2i_tail>>
      /\ handled' = [frame |-> f, due |-> posted # <<>>,
                     whole |-> \A k \in 0 .. (Pkg(f) - 1) : sram[x2i_head + k] = Cell(f, k)]
      /\ sram' = sram /\ dev' = dev /\ tx' = tx /\ tail' = tail /\ cur' = cur
      /\ own' = own /\ fresh' = fresh
      /\ refused' = refused /\ kicked' = kicked /\ stuck' = stuck
  BY DEF ProcHandle, Iterate, GuardHit, driver
<1>2. ~AtEnd
  BY <1>1 DEF GoodFrame
<1>3. /\ posted # <<>> /\ posted[1] \in Posts /\ posted[1].off = x2i_head
      /\ f = posted[1].frame
      /\ \A k \in 0 .. (Pkg(f) - 1) : sram[x2i_head + k] = Cell(f, k)
  BY <1>1, <1>2, HandleFacts
<1> HIDE DEF f
<1>4. handled' = AsHandled(posted[1].frame)
  BY <1>1, <1>3 DEF AsHandled
<1>5. destroys => active' = FALSE /\ x2i_head' = 0 /\ x2i_tail' = 0 /\ posted' = <<>>
  BY <1>1 DEF ChannelReset
<1>6. ~destroys => /\ active' = active /\ x2i_head' = End(posted[1])
                   /\ x2i_tail' = x2i_tail /\ posted' = Tail(posted)
  BY <1>1, <1>3 DEF End
<1> QED BY <1>1, <1>2, <1>3, <1>4, <1>5, <1>6

\* A request is handled; its handler may tear the channel down.
LEMMA ProcHandleKeeps ==
    ASSUME IInv, NEW destroys \in BOOLEAN, ProcHandle(destroys)
    PROVE  IInv'
<1>1. /\ dev = "run" /\ x2i_head # x2i_tail /\ ~(guard + 1 > MaxPerKick)
      /\ guard' = guard + 1 /\ ~AtEnd
      /\ posted # <<>> /\ posted[1] \in Posts /\ posted[1].off = x2i_head
      /\ handled' = AsHandled(posted[1].frame)
      /\ sram' = sram /\ dev' = dev /\ tx' = tx /\ tail' = tail /\ cur' = cur
      /\ own' = own /\ fresh' = fresh
      /\ refused' = refused /\ kicked' = kicked /\ stuck' = stuck
  BY HandleStep
<1>2. /\ active /\ tx = "idle" /\ fresh = 0 /\ x2i_tail = tail
      /\ guard + Len(posted) <= kicked + 1
      /\ tail < x2i_head => guard + Len(posted) <= kicked
  BY <1>1, LoopFacts
<1>3. /\ x2i_head \in Places /\ x2i_head \in Nat /\ tail \in Places /\ tail \in Nat
      /\ posted \in Seq(Posts) /\ Len(posted) \in Nat /\ Len(posted) <= InFlight
      /\ guard \in Nat /\ kicked \in Nat /\ usable \in Nat /\ InFlight \in Nat
  BY StateFacts
<1>4. MaxPerKick \in Nat /\ guard + 1 \in 0 .. MaxPerKick
  BY <1>1, <1>3, SizesAssumption
<1>5. handled' \in Msgs
  <2>1. posted[1].frame \in Frames
    BY <1>1, PostFacts
  <2> QED BY <1>1, <2>1 DEF Msgs, AsHandled
<1>6. Modes' /\ NeverRefused' /\ CutShortOnlyBeyond' /\ Drained'
  BY <1>1 DEF IInv, Modes, NeverRefused, CutShortOnlyBeyond, Drained
<1>7. CASE destroys
  <2>1. active' = FALSE /\ x2i_head' = 0 /\ x2i_tail' = 0 /\ posted' = <<>>
    BY <1>7, HandleStep
  <2>2. Flags'
    BY Zenon, <1>1, <2>1 DEF IInv, Flags
  <2>3. Numbers'
    <3>1. 0 \in Places
      BY <1>3 DEF Places
    <3> QED BY <1>1, <1>4, <2>1, <3>1 DEF IInv, Numbers
  <2>4. Memory'
    BY <1>1, <2>1, EmptySeq DEF IInv, Memory
  <2>5. RingInv' /\ LoopInv' /\ TxInv'
    <3>1. Len(<<>>) = 0 /\ 0 <= InFlight
      BY <1>3
    <3> QED BY <1>1, <1>2, <2>1, <3>1 DEF RingInv, LoopInv, TxInv
  <2> QED BY <1>5, <1>6, <2>2, <2>3, <2>4, <2>5 DEF IInv
<1>8. CASE ~destroys
  <2>1. /\ active' = active /\ x2i_head' = End(posted[1]) /\ x2i_tail' = x2i_tail
        /\ posted' = Tail(posted)
    BY <1>8, HandleStep
  <2>2. PICK m \in Places : Ring(posted, x2i_head, tail, m, sram)
    BY <1>2 DEF IInv, RingInv
  <2>3. /\ Ring(Tail(posted), End(posted[1]), tail, m, sram)
        /\ End(posted[1]) \in Places /\ (tail < End(posted[1]) <=> tail < x2i_head)
    BY <1>1, <1>3, <2>2, RingConsume
  <2>4. /\ Tail(posted) \in Seq(Posts) /\ Len(Tail(posted)) \in Nat
        /\ Len(posted) = Len(Tail(posted)) + 1
    BY <1>1, <1>3, TailFacts
  <2>5. Flags' /\ Memory'
    BY <1>1, <2>1, <2>4 DEF IInv, Flags, Memory
  <2>6. Numbers'
    BY <1>1, <1>4, <2>1, <2>3 DEF IInv, Numbers
  <2>7. RingInv'
    <3>1. 0 <= Len(Tail(posted)) /\ Len(Tail(posted)) <= InFlight
      BY <1>3, <2>4
    <3> QED BY <1>1, <1>2, <2>1, <2>3, <3>1 DEF RingInv
  <2>8. LoopInv'
    <3>1. /\ (guard + 1) + Len(Tail(posted)) <= kicked + 1
          /\ tail < x2i_head => (guard + 1) + Len(Tail(posted)) <= kicked
      BY <1>2, <1>3, <2>4
    <3> QED BY <1>1, <1>2, <2>1, <2>3, <3>1 DEF LoopInv
  <2>9. TxInv'
    <3>1. ~(active /\ tail < x2i_head /\ tail = 0)
      BY <1>2 DEF IInv, TxInv
    <3> QED BY <1>1, <1>2, <2>1, <2>3, <3>1 DEF TxInv
  <2> QED BY <1>5, <1>6, <2>5, <2>6, <2>7, <2>8, <2>9 DEF IInv
<1> QED BY <1>7, <1>8

-----------------------------------------------------------------------------
(* Theorems                                                                *)

\* The invariant holds before the channel is first set up.
LEMMA InitInv == Init => IInv
<1> SUFFICES ASSUME Init PROVE IInv
  OBVIOUS
<1>1. 0 \in Places /\ 0 \in 0 .. MaxPerKick /\ 0 \in 0 .. InFlight
  BY SizesAssumption DEF Places, usable
<1>2. <<>> \in Seq(Posts) /\ Len(<<>>) = 0
  BY EmptySeq
<1>3. Flags
  BY DEF Init, Flags
<1>4. Numbers /\ Modes
  BY <1>1 DEF Init, Numbers, Modes
<1>5. Memory /\ handled \in Msgs
  BY <1>1, <1>2 DEF Init, Memory, NoCur, Msgs, NoMsg
<1>6. RingInv
  BY <1>1, <1>2 DEF Init, RingInv
<1>7. LoopInv /\ TxInv
  BY DEF Init, LoopInv, TxInv
<1>8. Drained /\ NeverRefused /\ CutShortOnlyBeyond
  BY <1>2 DEF Init, Drained, NeverRefused, CutShortOnlyBeyond
<1> QED BY <1>3, <1>4, <1>5, <1>6, <1>7, <1>8 DEF IInv

\* Every step keeps the invariant.
LEMMA NextInv ==
    ASSUME IInv, Room(InFlight + 1), [Next]_vars
    PROVE  IInv'
<1>1. CASE UNCHANGED vars
  <2>1. /\ active' = active /\ x2i_head' = x2i_head /\ x2i_tail' = x2i_tail /\ sram' = sram
        /\ dev' = dev /\ guard' = guard /\ tx' = tx /\ tail' = tail /\ cur' = cur
        /\ own' = own /\ posted' = posted /\ fresh' = fresh /\ handled' = handled
        /\ refused' = refused /\ kicked' = kicked /\ stuck' = stuck
    BY <1>1 DEF vars, chan, loop, driver, ghosts
  <2>2. Flags' /\ Numbers' /\ Modes' /\ Memory' /\ handled' \in Msgs
    BY <2>1 DEF IInv, Flags, Numbers, Modes, Memory
  <2>3. RingInv' /\ LoopInv' /\ TxInv'
    BY <2>1 DEF IInv, RingInv, LoopInv, TxInv, Full, Wraps
  <2>4. Drained' /\ NeverRefused' /\ CutShortOnlyBeyond'
    BY <2>1 DEF IInv, Drained, NeverRefused, CutShortOnlyBeyond
  <2> QED BY <2>2, <2>3, <2>4 DEF IInv
<1>2. ASSUME NEW id \in Ids, NEW len \in PayloadSizes,
             TxStart([own |-> own, id |-> id, len |-> len])
      PROVE  IInv'
  <2> DEFINE f == [own |-> own, id |-> id, len |-> len]
  <2>1. own \in BOOLEAN
    BY DEF IInv, Flags
  <2>2. f \in Frames /\ f.own = own
    BY <2>1 DEF Frames
  <2>3. TxStart(f)
    BY <1>2
  <2> HIDE DEF f
  <2> QED BY <2>2, <2>3, TxStartKeeps
<1>3. CASE Send
  BY <1>2, <1>3, TxTombstoneKeeps, TxPlaceKeeps, TxHeaderKeeps, TxPayloadKeeps, TxKickKeeps
     DEF Send
<1>4. CASE Process
  BY <1>4, ProcDoneKeeps, ProcGuardKeeps, ProcRewindKeeps, ProcRejectKeeps, ProcHandleKeeps
     DEF Process
<1> QED BY <1>1, <1>3, <1>4, ActivateKeeps, DeactivateKeeps DEF Next

\* A ring with room for one request of the largest size more than the driver leaves
\* unanswered keeps the invariant.
LEMMA InvHolds ==
    ASSUME Room(InFlight + 1)
    PROVE  Spec => []IInv
BY InitInv, NextInv, PTL DEF Spec

\* Registers, ring words and counters stay in their ranges: head and tail never
\* reach the word kept for the tombstone, and the loop counter of
\* xdna_mbox_process() stays within MBOX_MAX_MSG_PER_KICK.
THEOREM RequestsTyped ==
    ASSUME Room(InFlight + 1)
    PROVE  Spec => []TypeOK
BY InvHolds, InvTyped, PTL

\* When a write of the tail register returns, nothing published waits, unless the
\* bound on the loop or an empty request stopped xdna_mbox_process().
THEOREM LoopDrains ==
    ASSUME Room(InFlight + 1)
    PROVE  Spec => []Drained
<1>1. IInv => Drained
  BY DEF IInv
<1> QED BY <1>1, InvHolds, PTL

\* The write path never finds the ring full, whatever the sizes of the requests and
\* wherever the channel was torn down under it.
THEOREM NoRequestRefused ==
    ASSUME Room(InFlight + 1)
    PROVE  Spec => []NeverRefused
<1>1. IInv => NeverRefused
  BY DEF IInv
<1> QED BY <1>1, InvHolds, PTL

\* With fewer than MBOX_MAX_MSG_PER_KICK requests published, the iteration that the
\* tombstone costs never leaves one behind: xdna_mbox_process() is cut short only by
\* that many.
THEOREM LoopBoundSuffices ==
    ASSUME Room(InFlight + 1)
    PROVE  Spec => []CutShortOnlyBeyond
<1>1. IInv => CutShortOnlyBeyond
  BY DEF IInv
<1> QED BY <1>1, InvHolds, PTL
-----------------------------------------------------------------------------
(* The ring implements the queue of requests                               *)

\* The requests a queue of frames stands for.
QueueOf(p) == [i \in 1 .. Len(p) |-> AsHandled(p[i].frame)]

\* One request for each frame.
LEMMA QueueFacts ==
    ASSUME NEW p \in Seq(Posts)
    PROVE  /\ QueueOf(p) \in Seq(Msgs) /\ Len(QueueOf(p)) = Len(p)
           /\ \A i \in 1 .. Len(p) : QueueOf(p)[i] = AsHandled(p[i].frame)
<1>1. Len(p) \in Nat
  BY PostsFacts
<1>2. \A i \in 1 .. Len(p) : AsHandled(p[i].frame) \in Msgs
  <2> SUFFICES ASSUME NEW i \in 1 .. Len(p) PROVE AsHandled(p[i].frame) \in Msgs
    OBVIOUS
  <2>1. p[i].frame \in Frames
    BY PostsFacts, PostFacts
  <2> QED BY <2>1 DEF AsHandled, Msgs
<1> HIDE DEF AsHandled
<1>3. QueueOf(p) \in Seq(Msgs)
  BY <1>1, <1>2 DEF QueueOf
<1>4. Len(QueueOf(p)) = Len(p)
  BY <1>1 DEF QueueOf
<1> QED BY <1>3, <1>4 DEF QueueOf

\* A frame posted is a request posted.
LEMMA QueueAppend ==
    ASSUME NEW p \in Seq(Posts), NEW e \in Posts
    PROVE  QueueOf(Append(p, e)) = Append(QueueOf(p), AsHandled(e.frame))
<1> DEFINE a == Append(p, e)
           r == AsHandled(e.frame)
<1>1. r \in Msgs
  <2>1. e.frame \in Frames
    BY PostFacts
  <2> QED BY <2>1 DEF AsHandled, Msgs
<1>2. /\ a \in Seq(Posts) /\ Len(p) \in Nat /\ Len(a) = Len(p) + 1
      /\ \A i \in 1 .. Len(p) : a[i] = p[i]
      /\ a[Len(p) + 1] = e
  BY AppendFacts
<1> HIDE DEF a
<1>3. /\ QueueOf(a) \in Seq(Msgs) /\ Len(QueueOf(a)) = Len(p) + 1
      /\ \A i \in 1 .. (Len(p) + 1) : QueueOf(a)[i] = AsHandled(a[i].frame)
  BY <1>2, QueueFacts
<1>4. /\ QueueOf(p) \in Seq(Msgs) /\ Len(QueueOf(p)) = Len(p)
      /\ \A i \in 1 .. Len(p) : QueueOf(p)[i] = AsHandled(p[i].frame)
  BY QueueFacts
<1>5. r = AsHandled(e.frame)
  OBVIOUS
<1> HIDE DEF r
<1>6. /\ Append(QueueOf(p), r) \in Seq(Msgs) /\ Len(Append(QueueOf(p), r)) = Len(p) + 1
      /\ \A i \in 1 .. Len(p) : Append(QueueOf(p), r)[i] = QueueOf(p)[i]
      /\ Append(QueueOf(p), r)[Len(p) + 1] = r
  BY <1>1, <1>4, AppendProperties
<1>7. ASSUME NEW i \in 1 .. (Len(p) + 1) PROVE QueueOf(a)[i] = Append(QueueOf(p), r)[i]
  <2>1. Len(p) \in Nat
    BY <1>2
  <2>2. i \in 1 .. Len(p) \/ i = Len(p) + 1
    BY ONLY <2>1, i \in 1 .. (Len(p) + 1)
  <2>3. CASE i \in 1 .. Len(p)
    BY <1>2, <1>3, <1>4, <1>6, <2>3
  <2>4. CASE i = Len(p) + 1
    BY <1>2, <1>3, <1>5, <1>6, <2>4
  <2> QED BY <2>2, <2>3, <2>4
<1>8. QueueOf(a) = Append(QueueOf(p), r)
  BY <1>3, <1>6, <1>7, SeqEqual
<1> QED BY <1>5, <1>8 DEF a

\* The oldest frame is the oldest request.
LEMMA QueueTail ==
    ASSUME NEW p \in Seq(Posts), p # <<>>
    PROVE  /\ QueueOf(p) # <<>> /\ Head(QueueOf(p)) = AsHandled(p[1].frame)
           /\ QueueOf(Tail(p)) = Tail(QueueOf(p))
<1>1. /\ Tail(p) \in Seq(Posts) /\ Len(p) \in Nat \ {0} /\ Len(Tail(p)) = Len(p) - 1
      /\ \A i \in 1 .. (Len(p) - 1) : Tail(p)[i] = p[i + 1]
  BY TailFacts
<1>2. /\ QueueOf(p) \in Seq(Msgs) /\ Len(QueueOf(p)) = Len(p)
      /\ \A i \in 1 .. Len(p) : QueueOf(p)[i] = AsHandled(p[i].frame)
  BY QueueFacts
<1>3. /\ QueueOf(Tail(p)) \in Seq(Msgs) /\ Len(QueueOf(Tail(p))) = Len(p) - 1
      /\ \A i \in 1 .. (Len(p) - 1) : QueueOf(Tail(p))[i] = AsHandled(Tail(p)[i].frame)
  BY <1>1, QueueFacts
<1>4. QueueOf(p) # <<>>
  BY <1>1, <1>2, EmptySeq
<1>5. /\ Tail(QueueOf(p)) \in Seq(Msgs) /\ Len(Tail(QueueOf(p))) = Len(p) - 1
      /\ \A i \in 1 .. (Len(p) - 1) : Tail(QueueOf(p))[i] = QueueOf(p)[i + 1]
  BY <1>2, <1>4, HeadTailProperties
<1>6. ASSUME NEW i \in 1 .. (Len(p) - 1) PROVE QueueOf(Tail(p))[i] = Tail(QueueOf(p))[i]
  <2>1. i + 1 \in 1 .. Len(p)
    BY <1>1
  <2> QED BY <2>1, <1>1, <1>2, <1>3, <1>5
<1>7. Head(QueueOf(p)) = AsHandled(p[1].frame)
  <2>1. 1 \in 1 .. Len(p)
    BY <1>1
  <2>2. Head(QueueOf(p)) = QueueOf(p)[1]
    BY <1>2, <1>4
  <2> QED BY <2>1, <2>2, <1>2
<1> QED BY SMTT(30), <1>3, <1>4, <1>5, <1>6, <1>7, SeqEqual

\* No frames, no requests.
LEMMA QueueEmpty == QueueOf(<<>>) = <<>>
<1>1. <<>> \in Seq(Posts) /\ Len(<<>>) = 0
  BY EmptySeq
<1>2. QueueOf(<<>>) \in Seq(Msgs) /\ Len(QueueOf(<<>>)) = 0
  BY <1>1, QueueFacts
<1> QED BY <1>2, EmptySeq

\* The ring implements the queue: xdna_mert_handle() is given every request posted at
\* most once, whole, in order, and only by the user the channel is set up for (the
\* write path and xdna_mbox_process() against RequestFifo).
THEOREM RingImplementsRequests ==
    ASSUME Room(InFlight + 1)
    PROVE  Spec => HandlesInOrder
<1>1. Queued = QueueOf(posted) /\ Queued' = QueueOf(posted')
  BY DEF Queued, QueueOf
<1>2. Init => Fifo!Init
  BY <1>1, QueueEmpty DEF Init, Fifo!Init
<1>3. ASSUME IInv, [Next]_vars
      PROVE  [Fifo!Next]_(Fifo!vars)
  <2>1. ASSUME UNCHANGED <<own, posted, handled>> PROVE UNCHANGED Fifo!vars
    BY <1>1, <2>1 DEF Fifo!vars
  <2>2. ASSUME Activate PROVE Fifo!Open
    <3>1. own' = ~own /\ posted' = <<>> /\ handled' = handled
      BY <2>2 DEF Activate
    <3> QED BY <1>1, <3>1, QueueEmpty DEF Fifo!Open
  <2>3. ASSUME Deactivate PROVE Fifo!Close
    <3>1. own' = own /\ posted' = <<>> /\ handled' = handled
      BY <2>3 DEF Deactivate
    <3> QED BY <1>1, <3>1, QueueEmpty DEF Fifo!Close
  <2>4. ASSUME TxPayload PROVE [Fifo!Next]_(Fifo!vars)
    <3> DEFINE e == [off |-> tail, frame |-> cur.frame]
    <3>1. /\ tx = "payload" /\ own' = own /\ handled' = handled
          /\ posted' = IF active THEN Append(posted, e) ELSE posted
      BY <2>4 DEF TxPayload, TxGoto
    <3>2. CASE ~active
      BY <2>1, <3>1, <3>2
    <3>3. CASE active
      <4>1. cur.frame \in Frames /\ cur.frame.own = own
        BY <1>3, <3>1, CurFacts
      <4>2. posted \in Seq(Posts) /\ tail \in Places
        BY <1>3, StateFacts
      <4>3. e \in Posts /\ e.frame = cur.frame
        BY <4>1, <4>2 DEF Posts
      <4> HIDE DEF e
      <4>4. Queued' = Append(Queued, AsHandled(cur.frame))
        BY <1>1, <3>1, <3>3, <4>2, <4>3, QueueAppend
      <4>5. AsHandled(cur.frame) \in RequestsOf(own)
        <5>1. cur.frame \in [own : {own}, id : Ids, len : PayloadSizes]
          BY <4>1 DEF Frames
        <5> QED BY <5>1 DEF RequestsOf
      <4>6. Fifo!Post(AsHandled(cur.frame))
        BY <3>1, <4>4 DEF Fifo!Post
      <4> QED BY <4>5, <4>6 DEF Fifo!Next
    <3> QED BY <3>2, <3>3
  <2>5. ASSUME NEW destroys \in BOOLEAN, ProcHandle(destroys) PROVE Fifo!Handle(destroys)
    <3>1. /\ posted # <<>> /\ handled' = AsHandled(posted[1].frame) /\ own' = own
          /\ destroys => posted' = <<>>
          /\ ~destroys => posted' = Tail(posted)
      BY <1>3, <2>5, HandleStep
    <3>2. posted \in Seq(Posts)
      BY <1>3, StateFacts
    <3>3. /\ QueueOf(posted) # <<>> /\ Head(QueueOf(posted)) = AsHandled(posted[1].frame)
          /\ QueueOf(Tail(posted)) = Tail(QueueOf(posted))
      BY <3>1, <3>2, QueueTail
    <3>4. Queued' = IF destroys THEN <<>> ELSE Tail(Queued)
      BY <1>1, <3>1, <3>3, QueueEmpty
    <3> QED BY <1>1, <3>1, <3>3, <3>4 DEF Fifo!Handle
  <2>6. CASE UNCHANGED vars
    BY <2>1, <2>6 DEF vars, ghosts
  <2>7. ASSUME NEW f, TxStart(f) PROVE UNCHANGED Fifo!vars
    BY <2>1, <2>7 DEF TxStart, ghosts
  <2>8. CASE TxTombstone \/ TxPlace("place", tail) \/ TxPlace("place0", 0) \/ TxHeader \/ TxKick
    BY <2>1, <2>8 DEF TxTombstone, TxPlace, TxHeader, TxKick, ghosts
  <2>9. CASE ProcDone \/ ProcGuard \/ ProcRewind \/ ProcReject
    BY <2>1, <2>9 DEF ProcDone, ProcGuard, ProcRewind, ProcReject, ghosts
  <2>10. CASE Send
    BY <2>4, <2>7, <2>8, <2>10 DEF Send
  <2>11. CASE Process
    BY <2>5, <2>9, <2>11 DEF Process, Fifo!Next
  <2> QED BY <1>3, <2>2, <2>3, <2>6, <2>10, <2>11 DEF Next, Fifo!Next
<1> QED BY <1>2, <1>3, InvHolds, PTL DEF Spec, HandlesInOrder, Fifo!Spec
=============================================================================
