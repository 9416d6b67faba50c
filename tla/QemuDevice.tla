----------------------------- MODULE QemuDevice -----------------------------
(***************************************************************************)
(* The PCI wrapper: how QEMU brings the device up, resets it and takes it  *)
(* away, and how a reply in a mailbox channel becomes an interrupt of the  *)
(* guest.  Every step of realize that can fail does so in the model.       *)
(*                                                                         *)
(* QEMU's MSI-X is external: a table of vectors, each used or not and      *)
(* masked or not, with a pending bit.  The guest has a driver, which       *)
(* enables MSI-X and lets its core mask and unmask vectors at will, or it  *)
(* has none and polls.  All callbacks run under QEMU's lock.               *)
(***************************************************************************)
EXTENDS Integers, FiniteSets

CONSTANTS NumVec,   \* XDNA_MSIX_VECTORS: 8
          NumChan   \* XDNA_MAX_CHANNELS: 7

ASSUME VecAssumption == NumVec \in Nat /\ NumChan \in 1 .. NumVec

Vec  == 0 .. (NumVec - 1)
Chan == 0 .. (NumChan - 1)     \* a channel's index is its vector

VARIABLES
    stage,             \* how far realize has got; "none": not begun, failed, or exited
    npu, sram,         \* blocks of the core on the heap
    emu,               \* is s->emu set?
    msix_initialized,
    cap,               \* msix_present()
    enabled,           \* msix_enabled()
    used, masked, pba, \* the vectors
    line,              \* level of INTx
    unread,            \* replies wait in the ring of a channel
    driver,            \* does the guest have one?
    handler,           \* vectors it has requested
    irq,               \* interrupts delivered and not yet taken
    work,              \* receive work queued by the handler of a vector
    polled             \* history: a reply came while MSI-X was off, since reset

core  == <<npu, sram, emu>>
msix  == <<cap, enabled, used, masked, pba>>
guest == <<driver, handler, irq, work>>
vars  == <<stage, core, msix_initialized, msix, line, unread, guest, polled>>

NoVec == [v \in Vec |-> FALSE]

Init ==
    /\ stage = "none"
    /\ npu = 0 /\ sram = 0 /\ emu = FALSE
    /\ msix_initialized = FALSE
    /\ cap = FALSE /\ enabled = FALSE /\ used = NoVec /\ masked = NoVec /\ pba = NoVec
    /\ line = 0 /\ unread = NoVec
    /\ driver = FALSE /\ handler = NoVec /\ irq = NoVec /\ work = NoVec
    /\ polled = FALSE
-----------------------------------------------------------------------------
(* MSI-X of QEMU                                                           *)

\* msix_init() adds the capability, with all vectors masked; msix_vector_use().
msix_init(use) ==
    /\ cap' = TRUE /\ enabled' = FALSE
    /\ used' = use /\ masked' = [v \in Vec |-> TRUE] /\ pba' = NoVec

\* msix_uninit().
msix_uninit ==
    /\ cap' = FALSE /\ enabled' = FALSE
    /\ used' = NoVec /\ masked' = NoVec /\ pba' = NoVec

\* msix_reset() disables it and masks all vectors; the used ones stay used.
msix_reset ==
    /\ enabled' = FALSE /\ masked' = [v \in Vec |-> TRUE] /\ pba' = NoVec
    /\ UNCHANGED <<cap, used>>

\* msix_notify().
msix_notify(v) ==
    IF ~used[v] THEN UNCHANGED <<pba, irq>>
    ELSE IF masked[v] THEN pba' = [pba EXCEPT ![v] = TRUE] /\ UNCHANGED irq
    ELSE irq' = [irq EXCEPT ![v] = TRUE] /\ UNCHANGED pba
-----------------------------------------------------------------------------
(* xdna_npu_realize()                                                      *)

\* The guest sees nothing of the device before it is realized.
Unseen == UNCHANGED <<line, unread, guest, polled>>

\* xdna_npu_new(): two allocations, of which either can fail.
RealizeNew ==
    /\ stage = "none" /\ stage' = "core"
    /\ npu' = npu + 1 /\ sram' = sram + 1 /\ emu' = TRUE
    /\ UNCHANGED <<msix_initialized, msix>> /\ Unseen

\* Variant: the first block is not given back.
NewFailsLeaks == npu' \in {npu, npu + 1}

\* The first allocation fails; or the second, and the first block is given back.
NewFails == npu' = npu \/ npu' = (npu + 1) - 1

RealizeNoCore ==
    /\ stage = "none"
    /\ NewFails /\ emu' = FALSE
    /\ UNCHANGED <<stage, sram, msix_initialized, msix>> /\ Unseen

\* xdna_npu_free() of s->emu, which becomes NULL.
FreeCore ==
    /\ npu' = (IF emu THEN npu - 1 ELSE npu) /\ sram' = (IF emu THEN sram - 1 ELSE sram)
    /\ emu' = FALSE

\* Variant: vectors are used from 1 on.
VectorsUsedFromOne == [v \in Vec |-> v > 0]

VectorsUsed == [v \in Vec |-> TRUE]

\* The BARs are registered, msix_init() succeeds and all vectors are used.
RealizeMsix ==
    /\ stage = "core" /\ stage' = "msix"
    /\ msix_init(VectorsUsed)
    /\ msix_initialized' = TRUE
    /\ UNCHANGED core /\ Unseen

\* Variant: the capability is left behind.
UndoMsixNot(present) == IF present THEN msix_init(NoVec) ELSE UNCHANGED msix

\* What msix_init() leaves when it fails, once msix_present() has been asked.
UndoMsix(present) == IF present THEN msix_uninit ELSE UNCHANGED msix

\* msix_init() fails, before or after it added the capability.
RealizeNoMsix(present) ==
    /\ stage = "core" /\ stage' = "none"
    /\ UndoMsix(present)
    /\ FreeCore
    /\ UNCHANGED msix_initialized /\ Unseen

\* pcie_endpoint_cap_init() and the ATS, PASID and PRI capabilities.
RealizePcie ==
    /\ stage = "msix" /\ stage' = "realized"
    /\ UNCHANGED <<core, msix_initialized, msix>> /\ Unseen

\* pcie_endpoint_cap_init() fails.
RealizeNoPcie ==
    /\ stage = "msix" /\ stage' = "none"
    /\ msix_uninit /\ msix_initialized' = FALSE
    /\ FreeCore
    /\ Unseen

Realize ==
    \/ RealizeNew \/ RealizeNoCore \/ RealizeMsix \/ RealizePcie \/ RealizeNoPcie
    \/ \E present \in BOOLEAN : RealizeNoMsix(present)
-----------------------------------------------------------------------------
(* Reset and exit                                                          *)

\* The guest starts again, or the device is gone from it.
GuestForgets ==
    /\ driver' = FALSE /\ handler' = NoVec /\ irq' = NoVec /\ work' = NoVec
    /\ unread' = NoVec

LowerLine == line' = 0

\* xdna_npu_reset_hold(), and xdna_npu_reset() with it, as the machine is reset.
ResetHold ==
    /\ stage = "realized"
    /\ IF msix_initialized THEN msix_reset ELSE UNCHANGED msix
    /\ LowerLine
    /\ GuestForgets
    /\ polled' = FALSE
    /\ UNCHANGED <<stage, core, msix_initialized>>

\* xdna_npu_exit(), after QEMU has taken the BARs away.
Exit ==
    /\ stage = "realized" /\ stage' = "none"
    /\ IF msix_initialized THEN msix_uninit ELSE UNCHANGED msix
    /\ msix_initialized' = FALSE
    /\ LowerLine
    /\ FreeCore
    /\ GuestForgets
    /\ polled' = FALSE
-----------------------------------------------------------------------------
(* Replies                                                                 *)

\* xdna_host_raise_irq(), and that MSI-X was off when it was called.
RaiseIrq(v) ==
    /\ polled' = (polled \/ ~enabled)
    /\ IF v >= NumVec THEN UNCHANGED <<line, pba, irq>>
       ELSE IF enabled THEN msix_notify(v) /\ UNCHANGED line
       ELSE line' = 1 /\ UNCHANGED <<pba, irq>>

\* The guest posts a request to a channel, by a driver that has a handler for it or
\* by one that polls; xdna_mbox_send() answers.
Reply(v) ==
    /\ stage = "realized"
    /\ driver => handler[v]
    /\ unread' = [unread EXCEPT ![v] = TRUE]
    /\ RaiseIrq(v)
    /\ UNCHANGED <<stage, core, msix_initialized, cap, enabled, used, masked,
                   driver, handler, work>>

\* A guest without a driver finds the reply in the ring.
Poll(v) ==
    /\ stage = "realized" /\ ~driver /\ unread[v]
    /\ unread' = [unread EXCEPT ![v] = FALSE]
    /\ UNCHANGED <<stage, core, msix_initialized, msix, line, guest, polled>>
-----------------------------------------------------------------------------
(* Guest                                                                   *)

\* amdxdna is probed: MSI-X is enabled with all vectors masked; the boot of the
\* firmware empties the channels.
Probe ==
    /\ stage = "realized" /\ ~driver /\ cap
    /\ driver' = TRUE /\ enabled' = TRUE
    /\ masked' = [v \in Vec |-> TRUE]
    /\ unread' = NoVec
    /\ UNCHANGED <<stage, core, msix_initialized, cap, used, pba, line,
                   handler, irq, work, polled>>

\* The pending bit of a vector is delivered as the vector is unmasked.
Deliver(v) ==
    /\ masked' = [masked EXCEPT ![v] = FALSE]
    /\ irq' = [irq EXCEPT ![v] = @ \/ pba[v]]
    /\ pba' = [pba EXCEPT ![v] = FALSE]

\* A mailbox channel is created: request_irq() for its vector.
RequestIrq(v) ==
    /\ driver /\ ~handler[v]
    /\ handler' = [handler EXCEPT ![v] = TRUE]
    /\ Deliver(v)
    /\ UNCHANGED <<stage, core, msix_initialized, cap, enabled, used, line, unread,
                   driver, work, polled>>

\* The guest masks a vector it uses, to move it to another CPU, and unmasks it.
Mask(v) ==
    /\ driver /\ handler[v] /\ ~masked[v]
    /\ masked' = [masked EXCEPT ![v] = TRUE]
    /\ UNCHANGED <<stage, core, msix_initialized, cap, enabled, used, pba, line, unread,
                   guest, polled>>

Unmask(v) ==
    /\ driver /\ handler[v] /\ masked[v]
    /\ Deliver(v)
    /\ UNCHANGED <<stage, core, msix_initialized, cap, enabled, used, line, unread,
                   driver, handler, work, polled>>

\* mailbox_irq_handler() queues the receive work, which empties the ring.
Isr(v) ==
    /\ irq[v] /\ handler[v]
    /\ irq' = [irq EXCEPT ![v] = FALSE]
    /\ work' = [work EXCEPT ![v] = TRUE]
    /\ UNCHANGED <<stage, core, msix_initialized, msix, line, unread, driver, handler,
                   polled>>

RxWork(v) ==
    /\ work[v]
    /\ work' = [work EXCEPT ![v] = FALSE]
    /\ unread' = [unread EXCEPT ![v] = FALSE]
    /\ UNCHANGED <<stage, core, msix_initialized, msix, line, driver, handler, irq, polled>>

\* The channel is destroyed: its handler is freed and its work cancelled.
FreeIrq(v) ==
    /\ driver /\ handler[v]
    /\ handler' = [handler EXCEPT ![v] = FALSE]
    /\ masked' = [masked EXCEPT ![v] = TRUE]
    /\ irq' = [irq EXCEPT ![v] = FALSE] /\ work' = [work EXCEPT ![v] = FALSE]
    /\ unread' = [unread EXCEPT ![v] = FALSE]
    /\ UNCHANGED <<stage, core, msix_initialized, cap, enabled, used, pba, line, driver, polled>>

\* The driver is removed: its vectors are freed and MSI-X is disabled.
Remove ==
    /\ driver
    /\ enabled' = FALSE /\ masked' = [v \in Vec |-> TRUE]
    /\ GuestForgets
    /\ UNCHANGED <<stage, core, msix_initialized, cap, used, pba, line, polled>>

Next ==
    \/ Realize \/ ResetHold \/ Exit \/ Probe \/ Remove
    \/ \E v \in Chan : \/ Reply(v) \/ Poll(v) \/ RequestIrq(v) \/ Mask(v) \/ Unmask(v)
                       \/ Isr(v) \/ RxWork(v) \/ FreeIrq(v)

Spec == Init /\ [][Next]_vars

\* A vector does not stay masked, and the guest serves its interrupts; a guest that
\* polls does so again.
FairSpec ==
    /\ Spec
    /\ \A v \in Chan : WF_vars(Unmask(v)) /\ WF_vars(Isr(v)) /\ WF_vars(RxWork(v))
                         /\ WF_vars(Poll(v))
-----------------------------------------------------------------------------
(* Properties                                                              *)

Stages == {"none", "core", "msix", "realized"}

\* There is never more than one core, and none is freed twice, on whichever path.
TypeOK ==
    /\ stage \in Stages
    /\ npu \in 0 .. 1 /\ sram \in 0 .. 1 /\ emu \in BOOLEAN
    /\ msix_initialized \in BOOLEAN /\ cap \in BOOLEAN /\ enabled \in BOOLEAN
    /\ line \in 0 .. 1 /\ polled \in BOOLEAN /\ driver \in BOOLEAN
    /\ \A f \in {used, masked, pba, unread, handler, irq, work} : f \in [Vec -> BOOLEAN]

\* After every failure of realize and after exit nothing is left: no block on the
\* heap, no capability, no level on INTx; a device that is realized, whatever
\* resets it went through, has its core and its MSI-X, in agreement with the two
\* fields that say so, and INTx high only for a reply that came without MSI-X since.
AllOrNothing ==
    /\ stage = "none" =>
         /\ npu = 0 /\ sram = 0 /\ ~emu
         /\ ~cap /\ ~msix_initialized /\ line = 0
    /\ stage = "realized" =>
         /\ npu = 1 /\ sram = 1 /\ emu /\ cap /\ msix_initialized
         /\ line = 1 => polled

\* While a driver is there, a reply it has not read leaves a trace it will follow:
\* an interrupt, receive work, or the pending bit of a vector that is masked.
NoticeKept ==
    \A v \in Chan :
        driver /\ unread[v] => irq[v] \/ work[v] \/ (pba[v] /\ masked[v])

\* Every reply is read, or given up with the driver or the machine.
Noticed == \A v \in Chan : unread[v] ~> ~unread[v]
=============================================================================
