-------------------------- MODULE QemuDeviceProofs --------------------------
(***************************************************************************)
(* Proofs about QemuDevice for every number of vectors and channels.       *)
(***************************************************************************)
EXTENDS QemuDevice, TLAPS

\* What each stage of realize has set up, and what the guest sees of it: the
\* vectors are used as long as the capability is there, and only a realized
\* device has a driver, which keeps MSI-X enabled.
Staged ==
    /\ stage = "none" => npu = 0 /\ sram = 0 /\ ~emu /\ ~cap /\ ~msix_initialized
    /\ stage # "none" => npu = 1 /\ sram = 1 /\ emu
    /\ stage = "core" => ~cap /\ ~msix_initialized
    /\ stage \in {"msix", "realized"} => cap /\ msix_initialized
    /\ cap => \A v \in Vec : used[v]
    /\ stage # "realized" => line = 0 /\ ~driver
    /\ line = 1 => polled
    /\ driver => enabled

IInv == TypeOK /\ Staged /\ NoticeKept
-----------------------------------------------------------------------------
\* A channel's index is a vector.
LEMMA ChannelsHaveVectors == Chan \subseteq Vec
BY VecAssumption DEF Chan, Vec

\* No vector is in the empty set of vectors.
LEMMA NoVecTyped == NoVec \in [Vec -> BOOLEAN] /\ \A v \in Vec : ~NoVec[v]
BY DEF NoVec

\* The parts of TypeOK: counters, flags, and a bit per vector.
Counts == stage \in Stages /\ npu \in 0 .. 1 /\ sram \in 0 .. 1 /\ line \in 0 .. 1

Flags ==
    /\ emu \in BOOLEAN /\ msix_initialized \in BOOLEAN /\ cap \in BOOLEAN
    /\ enabled \in BOOLEAN /\ polled \in BOOLEAN /\ driver \in BOOLEAN

Bits ==
    /\ used \in [Vec -> BOOLEAN] /\ masked \in [Vec -> BOOLEAN] /\ pba \in [Vec -> BOOLEAN]
    /\ unread \in [Vec -> BOOLEAN] /\ handler \in [Vec -> BOOLEAN]
    /\ irq \in [Vec -> BOOLEAN] /\ work \in [Vec -> BOOLEAN]

\* TypeOK is its parts.
LEMMA TypeParts == TypeOK <=> Counts /\ Flags /\ Bits
BY Zenon DEF TypeOK, Counts, Flags, Bits

\* The same in the next state.
LEMMA TypePartsNext == Counts' /\ Flags' /\ Bits' => TypeOK'
BY Zenon DEF TypeOK, Counts, Flags, Bits

\* The invariant holds before the device is realized.
LEMMA InitInv == Init => IInv
<1> SUFFICES ASSUME Init PROVE IInv
  OBVIOUS
<1>1. TypeOK
  <2>1. Counts
    BY DEF Init, Counts, Stages
  <2>2. Flags
    BY Zenon DEF Init, Flags
  <2>3. Bits
    BY NoVecTyped DEF Init, Bits
  <2> QED BY <2>1, <2>2, <2>3, TypeParts
<1>2. Staged /\ NoticeKept
  BY DEF Init, Staged, NoticeKept
<1> QED BY <1>1, <1>2 DEF IInv

\* realize, with every way it fails.
LEMMA RealizeStep ==
    ASSUME IInv, Realize
    PROVE  IInv'
<1> USE DEF IInv, Unseen, guest
<1>1. NoticeKept'
  <2>1. ~driver
    BY DEF Realize, RealizeNew, RealizeNoCore, RealizeMsix, RealizeNoMsix, RealizePcie,
           RealizeNoPcie, Staged
  <2>2. driver' = driver
    BY DEF Realize, RealizeNew, RealizeNoCore, RealizeMsix, RealizeNoMsix, RealizePcie,
           RealizeNoPcie
  <2> QED BY <2>1, <2>2 DEF NoticeKept
<1>t. Counts /\ Flags /\ Bits
  BY TypeParts
<1>2. CASE RealizeNew
  <2>1. Counts'
    BY <1>2, <1>t DEF RealizeNew, msix, Counts, Stages, Staged
  <2>2. Flags'
    BY <1>2, <1>t, Zenon DEF RealizeNew, msix, Flags
  <2>3. Bits'
    BY <1>2, <1>t, NoVecTyped DEF RealizeNew, msix, Bits
  <2>4. Staged'
    BY <1>2, <1>t, NoVecTyped DEF RealizeNew, msix, Counts, Stages, Staged
  <2> QED BY <1>1, <2>1, <2>2, <2>3, <2>4, TypePartsNext
<1>3. CASE RealizeNoCore
  <2>1. Counts'
    BY <1>3, <1>t DEF RealizeNoCore, NewFails, msix, Counts, Stages, Staged
  <2>2. Flags'
    BY <1>3, <1>t, Zenon DEF RealizeNoCore, NewFails, msix, Flags
  <2>3. Bits'
    BY <1>3, <1>t, NoVecTyped DEF RealizeNoCore, NewFails, msix, Bits
  <2>4. Staged'
    BY <1>3, <1>t, NoVecTyped DEF RealizeNoCore, NewFails, msix, Counts, Stages, Staged
  <2> QED BY <1>1, <2>1, <2>2, <2>3, <2>4, TypePartsNext
<1>4. CASE RealizeMsix
  <2>1. Counts'
    BY <1>4, <1>t DEF RealizeMsix, VectorsUsed, msix_init, core, Counts, Stages, Staged
  <2>2. Flags'
    BY <1>4, <1>t, Zenon DEF RealizeMsix, VectorsUsed, msix_init, core, Flags
  <2>3. Bits'
    BY <1>4, <1>t, NoVecTyped DEF RealizeMsix, VectorsUsed, msix_init, core, Bits
  <2>4. Staged'
    BY <1>4, <1>t, NoVecTyped DEF RealizeMsix, VectorsUsed, msix_init, core, Counts, Stages, Staged
  <2> QED BY <1>1, <2>1, <2>2, <2>3, <2>4, TypePartsNext
<1>5. CASE RealizePcie
  <2>1. Counts'
    BY <1>5, <1>t DEF RealizePcie, core, msix, Counts, Stages, Staged
  <2>2. Flags'
    BY <1>5, <1>t, Zenon DEF RealizePcie, core, msix, Flags
  <2>3. Bits'
    BY <1>5, <1>t, NoVecTyped DEF RealizePcie, core, msix, Bits
  <2>4. Staged'
    BY <1>5, <1>t, NoVecTyped DEF RealizePcie, core, msix, Counts, Stages, Staged
  <2> QED BY <1>1, <2>1, <2>2, <2>3, <2>4, TypePartsNext
<1>6. CASE RealizeNoPcie
  <2>1. Counts'
    BY <1>6, <1>t DEF RealizeNoPcie, FreeCore, msix_uninit, Counts, Stages, Staged
  <2>2. Flags'
    BY <1>6, <1>t, Zenon DEF RealizeNoPcie, FreeCore, msix_uninit, Flags
  <2>3. Bits'
    BY <1>6, <1>t, NoVecTyped DEF RealizeNoPcie, FreeCore, msix_uninit, Bits
  <2>4. Staged'
    BY <1>6, <1>t, NoVecTyped DEF RealizeNoPcie, FreeCore, msix_uninit, Counts, Stages, Staged
  <2> QED BY <1>1, <2>1, <2>2, <2>3, <2>4, TypePartsNext
<1>7. ASSUME NEW present \in BOOLEAN, RealizeNoMsix(present) PROVE IInv'
  <2>1. Counts'
    BY <1>7, <1>t DEF RealizeNoMsix, UndoMsix, FreeCore, msix_uninit, msix, Counts, Stages, Staged
  <2>2. Flags'
    BY <1>7, <1>t, Zenon DEF RealizeNoMsix, UndoMsix, FreeCore, msix_uninit, msix, Flags
  <2>3. Bits'
    BY <1>7, <1>t, NoVecTyped DEF RealizeNoMsix, UndoMsix, FreeCore, msix_uninit, msix, Bits
  <2>4. Staged'
    BY <1>7, <1>t, NoVecTyped DEF RealizeNoMsix, UndoMsix, FreeCore, msix_uninit, msix, Counts, Stages, Staged
  <2> QED BY <1>1, <2>1, <2>2, <2>3, <2>4, TypePartsNext
<1> QED BY <1>2, <1>3, <1>4, <1>5, <1>6, <1>7 DEF Realize

\* Reset and exit.
LEMMA LeaveStep ==
    ASSUME IInv, ResetHold \/ Exit
    PROVE  IInv'
<1> USE NoVecTyped DEF IInv, GuestForgets, LowerLine
<1>1. NoticeKept'
  BY DEF ResetHold, Exit, NoticeKept
<1>t. Counts /\ Flags /\ Bits
  BY TypeParts
<1>2. CASE ResetHold
  <2>1. Counts'
    BY <1>2, <1>t DEF ResetHold, msix_reset, msix, core, Counts, Stages, Staged
  <2>2. Flags'
    BY <1>2, <1>t, Zenon DEF ResetHold, msix_reset, msix, core, Flags
  <2>3. Bits'
    BY <1>2, <1>t, NoVecTyped DEF ResetHold, msix_reset, msix, core, Bits
  <2>4. Staged'
    BY <1>2, <1>t, NoVecTyped DEF ResetHold, msix_reset, msix, core, Counts, Stages, Staged
  <2> QED BY <1>1, <2>1, <2>2, <2>3, <2>4, TypePartsNext
<1>3. CASE Exit
  <2>1. Counts'
    BY <1>3, <1>t DEF Exit, FreeCore, msix_uninit, msix, Counts, Stages, Staged
  <2>2. Flags'
    BY <1>3, <1>t, Zenon DEF Exit, FreeCore, msix_uninit, msix, Flags
  <2>3. Bits'
    BY <1>3, <1>t, NoVecTyped DEF Exit, FreeCore, msix_uninit, msix, Bits
  <2>4. Staged'
    BY <1>3, <1>t, NoVecTyped DEF Exit, FreeCore, msix_uninit, msix, Counts, Stages, Staged
  <2> QED BY <1>1, <2>1, <2>2, <2>3, <2>4, TypePartsNext
<1> QED BY <1>2, <1>3

\* xdna_host_raise_irq(): with MSI-X on, the vector is used, and the notice of a
\* reply is an interrupt or a pending bit; without, nobody waits for one.
LEMMA ReplyStep ==
    ASSUME IInv, NEW v \in Chan, Reply(v)
    PROVE  IInv'
<1> USE DEF IInv
<1>1. v \in Vec /\ ~(v >= NumVec)
  BY ChannelsHaveVectors, VecAssumption DEF Vec
<1>2. used[v]
  BY <1>1 DEF Reply, Staged
<1>3. CASE enabled
  <2>1. /\ line' = line /\ polled' = polled
        /\ \/ masked[v] /\ pba' = [pba EXCEPT ![v] = TRUE] /\ irq' = irq
           \/ ~masked[v] /\ irq' = [irq EXCEPT ![v] = TRUE] /\ pba' = pba
        /\ unread' = [unread EXCEPT ![v] = TRUE]
        /\ UNCHANGED <<stage, core, msix_initialized, cap, enabled, used, masked,
                       driver, handler, work>>
    <3>1. polled \in BOOLEAN
      BY DEF TypeOK
    <3>2. polled' = polled
      BY <1>3, <3>1, Zenon DEF Reply, RaiseIrq
    <3> QED BY <1>1, <1>2, <1>3, <3>2, Zenon DEF Reply, RaiseIrq, msix_notify
  <2>2. TypeOK'
    <3>1. Counts' /\ Bits'
      BY <2>1, <1>1, TypeParts DEF Counts, Bits, core
    <3>2. Flags'
      BY <2>1, TypeParts, Zenon DEF Flags, core
    <3> QED BY <3>1, <3>2, TypePartsNext
  <2>3. Staged'
    BY <2>1 DEF Staged, core
  <2>4. NoticeKept'
    BY <2>1, <1>1, ChannelsHaveVectors DEF NoticeKept, TypeOK
  <2> QED BY <2>2, <2>3, <2>4
<1>4. CASE ~enabled
  <2>1. /\ line' = 1 /\ polled' = TRUE /\ UNCHANGED <<pba, irq>>
        /\ unread' = [unread EXCEPT ![v] = TRUE]
        /\ UNCHANGED <<stage, core, msix_initialized, cap, enabled, used, masked,
                       driver, handler, work>>
    <3>1. polled' = TRUE
      BY <1>4, Zenon DEF Reply, RaiseIrq
    <3> QED BY <1>1, <1>4, <3>1, Zenon DEF Reply, RaiseIrq
  <2>2. ~driver
    BY <1>4 DEF Staged
  <2>3. TypeOK'
    BY <2>1, <1>1 DEF TypeOK, core
  <2>4. Staged' /\ NoticeKept'
    BY <2>1, <2>2 DEF Reply, Staged, NoticeKept, core
  <2> QED BY <2>3, <2>4
<1> QED BY <1>3, <1>4

\* What the guest does with its driver and its channels.
LEMMA GuestStep ==
    ASSUME IInv, NEW v \in Chan,
           \/ Poll(v) \/ RequestIrq(v) \/ Mask(v) \/ Unmask(v) \/ Isr(v) \/ RxWork(v)
           \/ FreeIrq(v)
    PROVE  IInv'
<1> USE DEF IInv
<1>1. v \in Vec
  BY ChannelsHaveVectors
<1>2. CASE Poll(v)
  BY <1>1, <1>2, ChannelsHaveVectors DEF Poll, core, msix, guest, TypeOK, Staged, NoticeKept
<1>3. CASE RequestIrq(v)
  BY <1>1, <1>3, ChannelsHaveVectors DEF RequestIrq, Deliver, core, TypeOK, Staged, NoticeKept
<1>4. CASE Mask(v)
  BY <1>1, <1>4, ChannelsHaveVectors DEF Mask, core, guest, TypeOK, Staged, NoticeKept
<1>5. CASE Unmask(v)
  BY <1>1, <1>5, ChannelsHaveVectors DEF Unmask, Deliver, core, TypeOK, Staged, NoticeKept
<1>6. CASE Isr(v)
  BY <1>1, <1>6, ChannelsHaveVectors DEF Isr, core, msix, TypeOK, Staged, NoticeKept
<1>7. CASE RxWork(v)
  BY <1>1, <1>7, ChannelsHaveVectors DEF RxWork, core, msix, TypeOK, Staged, NoticeKept
<1>8. CASE FreeIrq(v)
  BY <1>1, <1>8, ChannelsHaveVectors DEF FreeIrq, core, TypeOK, Staged, NoticeKept
<1> QED BY <1>2, <1>3, <1>4, <1>5, <1>6, <1>7, <1>8

\* The driver is probed or removed.
LEMMA DriverStep ==
    ASSUME IInv, Probe \/ Remove
    PROVE  IInv'
<1> USE NoVecTyped, ChannelsHaveVectors DEF IInv
<1>1. CASE Probe
  BY <1>1 DEF Probe, core, TypeOK, Staged, NoticeKept
<1>2. CASE Remove
  <2>1. Counts' /\ Bits'
    BY <1>2, TypeParts DEF Remove, GuestForgets, core, Counts, Bits
  <2>2. Flags'
    BY <1>2, TypeParts, Zenon DEF Remove, GuestForgets, core, Flags
  <2>3. Staged' /\ NoticeKept'
    BY <1>2 DEF Remove, GuestForgets, core, Staged, NoticeKept
  <2> QED BY <2>1, <2>2, <2>3, TypePartsNext
<1> QED BY <1>1, <1>2

\* Every step keeps the invariant.
LEMMA NextInv == IInv /\ [Next]_vars => IInv'
<1> SUFFICES ASSUME IInv, [Next]_vars PROVE IInv'
  OBVIOUS
<1>1. CASE UNCHANGED vars
  BY <1>1 DEF IInv, vars, core, msix, guest, TypeOK, Staged, NoticeKept
<1>2. CASE Next
  BY <1>2, RealizeStep, LeaveStep, DriverStep, ReplyStep, GuestStep DEF Next
<1> QED BY <1>1, <1>2

\* The invariant holds in every state.
LEMMA DeviceInv == Spec => []IInv
BY InitInv, NextInv, PTL DEF Spec
-----------------------------------------------------------------------------
\* On no path through realize, reset and exit is there a second core, or one that is
\* freed twice; every vector keeps its bits.
THEOREM DeviceTyped == Spec => []TypeOK
BY DeviceInv, PTL DEF IInv

\* A failure of realize, at whichever step, and exit leave nothing behind, and a
\* realized device has all it needs; INTx is high only for a guest without MSI-X.
THEOREM RealizedOrNothing == Spec => []AllOrNothing
<1>1. IInv => AllOrNothing
  BY DEF IInv, TypeOK, Stages, Staged, AllOrNothing
<1> QED BY <1>1, DeviceInv, PTL

\* No reply goes unnoticed by a driver, however its vectors are masked, unmasked,
\* freed and requested while replies come.
THEOREM NoticesKept == Spec => []NoticeKept
BY DeviceInv, PTL DEF IInv
=============================================================================
