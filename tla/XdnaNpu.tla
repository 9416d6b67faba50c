------------------------------ MODULE XdnaNpu ------------------------------
(***************************************************************************)
(* The control plane of the device: PSP, SMU power, firmware boot and      *)
(* shutdown, and the management firmware (MERT) with its contexts and the  *)
(* mailbox channels it opens for them.  A kick of PSP or SMU and a message *)
(* are each one MMIO write, handled to the end under QEMU's lock.          *)
(*                                                                         *)
(* A message is what its handler makes of it: how it travels is the        *)
(* matter of I2xRing.  Of the driver, the module keeps what it learnt from *)
(* the replies.                                                            *)
(***************************************************************************)
EXTENDS Integers, FiniteSets

CONSTANTS NumCtx,     \* XDNA_NPU1_HWCTX_LIMIT
          IdMod,      \* context ids are uint32_t: 2^32
          NoHeap,     \* heap_addr = heap_size = 0
          MgmtChans,  \* channels the driver sends management requests on
          Restarts    \* may a driver boot firmware it has not released?

Slots == 0 .. (NumCtx - 1)
Chans == 0 .. NumCtx
CtxIds == 0 .. (IdMod - 1)

ASSUME LimitsAssumption ==
    /\ NumCtx \in Nat \ {0} /\ IdMod \in Nat /\ IdMod > 1
    /\ NoHeap \notin CtxIds /\ MgmtChans \subseteq Chans /\ Restarts \in BOOLEAN

VARIABLES
    power_on, psp_state,
    fw_alive, fw_suspended, async_registered,
    alive_word,       \* is the SRAM word at FW_ALIVE_OFF set?
    active,           \* chan[i].active
    ctx,              \* the context table
    next_ctx_id,
    active_contexts,  \* stats.active_contexts
    reply,            \* newest reply in a mailbox; ERROR stands for every other status
    \* Not part of the device:
    drv,              \* contexts the driver holds, with their channels
    created           \* contexts created since reset, up to IdMod

psp  == <<power_on, psp_state>>
fw   == <<fw_alive, fw_suspended, async_registered, alive_word>>
mert == <<active, ctx, next_ctx_id, active_contexts>>
vars == <<psp, fw, mert, reply, drv, created>>

NoCtx == [valid |-> FALSE, id |-> 0, chan |-> 0, heap |-> NoHeap]

Valid == {s \in Slots : ctx[s].valid}

\* xdna_npu_new() and xdna_npu_reset(): everything is zero.
Init ==
    /\ power_on = FALSE /\ psp_state = "COLD"
    /\ fw_alive = FALSE /\ fw_suspended = FALSE /\ async_registered = FALSE
    /\ alive_word = FALSE
    /\ active = [c \in Chans |-> FALSE]
    /\ ctx = [s \in Slots |-> NoCtx]
    /\ next_ctx_id = 1 /\ active_contexts = 0
    /\ reply = "none" /\ drv = {} /\ created = 0

\* xdna_npu_reset(), by reset_hold() of the QEMU device.
Reset ==
    /\ power_on' = FALSE /\ psp_state' = "COLD"
    /\ fw_alive' = FALSE /\ fw_suspended' = FALSE /\ async_registered' = FALSE
    /\ alive_word' = FALSE
    /\ active' = [c \in Chans |-> FALSE]
    /\ ctx' = [s \in Slots |-> NoCtx]
    /\ next_ctx_id' = 1 /\ active_contexts' = 0
    /\ reply' = "none" /\ drv' = {} /\ created' = 0
-----------------------------------------------------------------------------
(* SMU and PSP                                                             *)

\* xdna_smu_kick(), power commands: nothing else is told.
SmuPower(on) ==
    /\ power_on' = on
    /\ UNCHANGED <<psp_state, fw, mert, reply, drv, created>>

\* PSP_CMD_VALIDATE when the image can be read; otherwise nothing changes.
PspValidate ==
    /\ psp_state' = "VALIDATED"
    /\ UNCHANGED <<power_on, fw, mert, reply, drv, created>>

\* xdna_fw_boot(): channel 0 anew; contexts and their channels as they are.
FwBoot ==
    /\ active' = [active EXCEPT ![0] = TRUE]
    /\ alive_word' = TRUE /\ fw_alive' = TRUE /\ fw_suspended' = FALSE
    /\ UNCHANGED <<async_registered, ctx, next_ctx_id, active_contexts>>

\* PSP_CMD_START.  Refused unless VALIDATED.  The driver that starts firmware
\* holds no contexts; it finds channel 0 empty.
PspStart ==
    /\ psp_state = "VALIDATED"
    /\ Restarts \/ ~fw_alive
    /\ psp_state' = "RUNNING"
    /\ FwBoot
    /\ reply' = "none" /\ drv' = {}
    /\ UNCHANGED <<power_on, created>>

\* Variants: the count is kept; the contexts are kept.
FwShutdownKeepsCount ==
    /\ ctx' = [s \in Slots |-> [ctx[s] EXCEPT !.valid = FALSE]]
    /\ async_registered' = FALSE
    /\ active' = [c \in Chans |-> FALSE]
    /\ alive_word' = FALSE /\ fw_alive' = FALSE
    /\ UNCHANGED <<fw_suspended, next_ctx_id, active_contexts>>
FwShutdownKeepsContexts ==
    /\ async_registered' = FALSE
    /\ active' = [c \in Chans |-> FALSE]
    /\ alive_word' = FALSE /\ fw_alive' = FALSE
    /\ UNCHANGED <<fw_suspended, ctx, next_ctx_id, active_contexts>>

\* xdna_fw_shutdown(), with xdna_mbox_reset(); next_ctx_id goes on.
FwShutdown ==
    /\ ctx' = [s \in Slots |-> [ctx[s] EXCEPT !.valid = FALSE]]
    /\ active_contexts' = 0 /\ async_registered' = FALSE
    /\ active' = [c \in Chans |-> FALSE]
    /\ alive_word' = FALSE /\ fw_alive' = FALSE
    /\ UNCHANGED <<fw_suspended, next_ctx_id>>

\* PSP_CMD_RELEASE_TMR, accepted in every state.
PspReleaseTmr ==
    /\ FwShutdown
    /\ psp_state' = "COLD"
    /\ reply' = "none" /\ drv' = {}
    /\ UNCHANGED <<power_on, created>>

\* The driver clears FW_ALIVE once it has read what it points to.
ClearAlive ==
    /\ alive_word
    /\ alive_word' = FALSE
    /\ UNCHANGED <<psp, fw_alive, fw_suspended, async_registered, mert, reply, drv, created>>
-----------------------------------------------------------------------------
(* MERT                                                                    *)

\* xdna_mbox_process() and xdna_mert_handle() look at a message on channel c.
Accepts(c) == active[c] /\ fw_alive

\* mert_reply(): xdna_mbox_send() refuses a channel that is not active.
Answer(c, status) == reply' = IF active'[c] THEN status ELSE reply

\* Variant: the old heap stays.
NewContextKeepsHeap(s) ==
    [valid |-> TRUE, id |-> next_ctx_id, chan |-> s + 1, heap |-> ctx[s].heap]

\* The table entry of a new context in slot s.
NewContext(s) ==
    [valid |-> TRUE, id |-> next_ctx_id, chan |-> s + 1, heap |-> NoHeap]

\* Variant: ids are slot numbers.
NextIdOfSlot == 1 + Cardinality(Valid)

\* next_ctx_id++.
NextId == (next_ctx_id + 1) % IdMod

\* handle_create_context() with a free slot s, the first one.
CreateContext(c) ==
    /\ Accepts(c)
    /\ \E s \in Slots :
         /\ ~ctx[s].valid /\ \A r \in Slots : r < s => ctx[r].valid
         /\ active' = [active EXCEPT ![s + 1] = TRUE]
         /\ ctx' = [ctx EXCEPT ![s] = NewContext(s)]
         /\ next_ctx_id' = NextId
         /\ active_contexts' = active_contexts + 1
         /\ Answer(c, "SUCCESS")
         /\ drv' = IF active'[c] THEN drv \cup {<<next_ctx_id, s + 1>>} ELSE drv
         /\ created' = IF created < IdMod THEN created + 1 ELSE created
    /\ UNCHANGED <<psp, fw>>

\* Variant: the table is taken for full one context early.
TableFullEarly == Cardinality(Valid) >= NumCtx - 1

TableFull == Valid = Slots

\* handle_create_context() without a free slot.
CreateNoAvail(c) ==
    /\ Accepts(c)
    /\ TableFull
    /\ UNCHANGED <<psp, fw, mert, drv, created>>
    /\ Answer(c, "NOAVAIL")

\* ctx_by_id(): the first valid context of that id.
IsCtx(s, id) ==
    /\ ctx[s].valid /\ ctx[s].id = id
    /\ \A r \in Slots : r < s => ~(ctx[r].valid /\ ctx[r].id = id)

\* Variant: the channel stays active.
DestroyedKeepsChannel(s) == active

\* xdna_mbox_channel_reset() of the context in slot s.
Destroyed(s) == [active EXCEPT ![ctx[s].chan] = FALSE]

\* handle_destroy_context() with a known id.
DestroyContext(c, id) ==
    /\ Accepts(c)
    /\ \E s \in Slots :
         /\ IsCtx(s, id)
         /\ active' = Destroyed(s)
         /\ ctx' = [ctx EXCEPT ![s].valid = FALSE]
         /\ active_contexts' = IF active_contexts > 0 THEN active_contexts - 1
                                                      ELSE active_contexts
         /\ Answer(c, "SUCCESS")
         /\ drv' = IF active'[c] THEN {p \in drv : p[1] # id} ELSE drv
    /\ UNCHANGED <<psp, fw, next_ctx_id, created>>

\* MSG_OP_MAP_HOST_BUFFER and MSG_OP_ADD_HOST_BUFFER with a known id.  A heap is
\* named after the context it was allocated for.
MapHostBuffer(c, id) ==
    /\ Accepts(c)
    /\ \E s \in Slots :
         /\ IsCtx(s, id)
         /\ ctx' = [ctx EXCEPT ![s].heap = id]
    /\ UNCHANGED <<psp, fw, active, next_ctx_id, active_contexts, drv, created>>
    /\ Answer(c, "SUCCESS")

\* DESTROY and MAP of an id no context has.
UnknownContext(c, id) ==
    /\ Accepts(c)
    /\ \A s \in Valid : ctx[s].id # id
    /\ UNCHANGED <<psp, fw, mert, drv, created>>
    /\ Answer(c, "ERROR")

\* MSG_OP_SUSPEND, MSG_OP_RESUME.
SuspendResume(c, on) ==
    /\ Accepts(c)
    /\ fw_suspended' = on
    /\ UNCHANGED <<psp, fw_alive, async_registered, alive_word, mert, drv, created>>
    /\ Answer(c, "SUCCESS")

\* MSG_OP_REGISTER_ASYNC_EVENT_MSG: no answer now.
RegisterAsync(c) ==
    /\ Accepts(c)
    /\ async_registered' = TRUE
    /\ UNCHANGED <<psp, fw_alive, fw_suspended, alive_word, mert, reply, drv, created>>

\* Messages that leave all this alone: queries, runtime configuration and PASID,
\* requests too short or with a bad number of columns, and the opcodes that are
\* unknown or not implemented.
OtherRequest(c, status) ==
    /\ Accepts(c)
    /\ UNCHANGED <<psp, fw, mert, drv, created>>
    /\ Answer(c, status)

Message ==
    \/ \E c \in MgmtChans :
         \/ CreateContext(c) \/ CreateNoAvail(c) \/ RegisterAsync(c)
         \/ \E id \in CtxIds :
              DestroyContext(c, id) \/ MapHostBuffer(c, id) \/ UnknownContext(c, id)
         \/ \E on \in BOOLEAN : SuspendResume(c, on)
    \/ \E c \in Chans, status \in {"SUCCESS", "ERROR"} : OtherRequest(c, status)

Next ==
    \/ Reset \/ PspValidate \/ PspStart \/ PspReleaseTmr \/ ClearAlive
    \/ \E on \in BOOLEAN : SmuPower(on)
    \/ Message

Spec == Init /\ [][Next]_vars
-----------------------------------------------------------------------------
(* Properties                                                              *)

Statuses == {"none", "SUCCESS", "NOAVAIL", "ERROR"}
Contexts == [valid : BOOLEAN, id : CtxIds, chan : Chans, heap : CtxIds \cup {NoHeap}]

\* The fields of the device keep their range; in particular active_contexts
\* never exceeds the limit.
TypeOK ==
    /\ power_on \in BOOLEAN /\ psp_state \in {"COLD", "VALIDATED", "RUNNING"}
    /\ fw_alive \in BOOLEAN /\ fw_suspended \in BOOLEAN
    /\ async_registered \in BOOLEAN /\ alive_word \in BOOLEAN
    /\ active \in [Chans -> BOOLEAN] /\ ctx \in [Slots -> Contexts]
    /\ next_ctx_id \in CtxIds /\ active_contexts \in 0 .. NumCtx
    /\ reply \in Statuses /\ drv \subseteq (CtxIds \X Chans) /\ created \in 0 .. IdMod

\* Whatever PSP commands, messages and resets came in which order: a channel
\* is active exactly while firmware runs and, but for channel 0, its context
\* exists; so the branch "firmware not alive" of xdna_mert_handle() is dead.
\* Firmware runs in RUNNING, not in COLD, and a driver that sees FW_ALIVE set
\* finds a management channel that works.
Coherent ==
    /\ active[0] <=> fw_alive
    /\ \A s \in Slots : /\ active[s + 1] <=> ctx[s].valid
                        /\ ctx[s].valid => fw_alive /\ ctx[s].chan = s + 1
    /\ psp_state = "RUNNING" => fw_alive
    /\ psp_state = "COLD" => ~fw_alive
    /\ alive_word => fw_alive

\* stats.active_contexts, kept by increments, decrements and a reset, is the
\* number of contexts.
CountMatches == active_contexts = Cardinality(Valid)

\* Until uint32_t overflows, no two contexts since reset have the same id and
\* none has id 0, across firmware shutdowns too: a late request for a context
\* that is gone never reaches another one.
IdsFresh ==
    created < IdMod =>
        /\ created < IdMod - 1 => next_ctx_id = created + 1
        /\ \A s \in Slots : ctx[s].valid => ctx[s].id \in 1 .. created
        /\ \A r, s \in Valid : ctx[r].id = ctx[s].id => r = s

\* A context never starts with the heap of the one that had its slot before.
HeapOwned == \A s \in Valid : ctx[s].heap \in {NoHeap, ctx[s].id}

\* The driver and the firmware agree on the contexts that exist and on their
\* channels.
DriverAgrees ==
    created < IdMod => drv = {<<ctx[s].id, ctx[s].chan>> : s \in Valid}

\* The firmware refuses a context for want of a slot only to a driver that
\* holds as many as the hardware supports.
NoAvailOnlyWhenFull ==
    created < IdMod /\ reply = "NOAVAIL" => Cardinality(drv) = NumCtx
=============================================================================
