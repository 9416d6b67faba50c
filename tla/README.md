# A verification project for the XDNA1 NPU emulator

TLA+ models of `libxdna`, the core of the emulator (`src/`), of the PCI device around
it (`qemu/hw/misc/xdna_npu.c`) and of the driver that talks to it as the repository
knows it (`tests/test_boot.c` reproduces the protocol code of the stock `amdxdna`
driver, `docs/01-donanim-arayuzu.md` describes the rest), TLC runs on small instances,
and TLAPS proofs for all sizes.

Paths below are relative to the repository.

## 1. Inventory

The device is a library called from the MMIO handlers of a QEMU PCI device. It has
no threads: QEMU's lock makes one register access, with everything the handler
does, atomic. Concurrency comes from outside: driver threads on several vCPUs whose
accesses interleave, interrupts on their way to them, drivers that die and are loaded
again without a reset, and resets.

| Component | State | Operations | Correct if |
| --- | --- | --- | --- |
| Mailbox i2x, `xdna_mailbox.c` | `i2x_head`, `i2x_tail`, `intr`, ring in SRAM | `xdna_mbox_send`; driver: receive path | replies arrive whole, once, in order, none overwritten or unnoticed |
| Mailbox x2i, `xdna_mailbox.c` | `x2i_head`, `x2i_tail`, `active`, ring in SRAM | write of the tail register, `xdna_mbox_process`; driver: write path; set-up and reset of a channel | each published request is handled once, in order, before the write returns; nothing survives a set-up |
| MERT, `xdna_mert.c` | contexts, `next_ctx_id`, `active_contexts`, `fw_suspended`, async registration, `rt_cfg`, `mgmt_pasid` | one handler per opcode | table, channels, counter and the driver's view agree; ids are unique; six contexts can be had; every call is answered once, with a reply the driver can read |
| Firmware, `xdna_fw.c` | `fw_alive`, FW_ALIVE word, channel 0, its description in SRAM | `xdna_fw_boot`, `xdna_fw_shutdown` | FW_ALIVE, PSP state and channel 0 agree |
| PSP, `xdna_psp.c` | `psp_state`, SCRATCH2/3/4/9 | VALIDATE, VALIDATE_CERT, START, RELEASE_TMR | the registers with two uses never mislead the driver; START only after VALIDATE |
| SMU, `xdna_smu.c` | `power_on`, clocks, `dpm_level`, SCRATCH5/6/7 | power, clock and DPM commands | the caller reads its own answer; the level is one of the table |
| Device body, `xdna_device.c` | everything above | reset, routing of accesses | reset leaves nothing behind; an access reaches the channel it is meant for |
| Layout, `xdna_regs.h`, `xdna_internal.h` | | addresses of registers, rings and FW_ALIVE | areas are disjoint and inside their BAR |
| QEMU wrapper, `qemu/hw/misc/xdna_npu.c` | BARs, MSI-X, INTx level | realize, exit, reset, interrupt delivery, DMA | no leak or double free on error paths; no interrupt is lost |
| Tests, scripts | | | |

Interactions: a write of an `x2i_tail` register calls `xdna_mbox_process`, which calls
`xdna_mert_handle` per frame, which calls `xdna_mbox_send` on the same channel,
which raises an interrupt through a callback of the wrapper; create and destroy set up
and reset channels; PSP calls firmware boot and shutdown, which reset channels and the
context table; PSP and MERT read and write guest memory through callbacks that may fail.

What is hard: the two sides of a ring wrap at different times and each computes "full"
and "empty" from a register the other one owns; a reply may be queued between any two
accesses of the receive path; a channel is reset by a handler that was called from
the loop over that very channel; registers with two meanings (CMD/STATUS, ARG0/RESP,
ARG/OUT) in the hands of a driver that may die between two accesses; state spread
over four files (contexts, channels, counter, PSP state, FW_ALIVE) that must stay in
step through every order of commands; error replies built apart from the others; DMA
that fails half way; addresses that are computed, told and decoded in three places;
realize that fails half way; vectors that are masked when a reply comes; counters at
their limits. `PROJECT.json` lists each hazard at its line with the properties that
watch it.

## 2. Modules

| Module | Models | Extended by |
| --- | --- | --- |
| `ReplyFifo` | what the i2x half of a channel promises | |
| `I2xRing` | `xdna_mbox_send` and the receive path, word by word; implements `ReplyFifo` | `MCI2xRing`, `I2xRingProofs` |
| `RequestFifo` | what the x2i half of a channel promises | |
| `X2iRing` | the write path, the tail register, the loop of `xdna_mbox_process`, the life of a channel; implements `RequestFifo` | `MCX2iRing`, `X2iRingProofs` |
| `XdnaNpu` | the control plane: PSP, power, boot, shutdown, MERT with contexts and channels | `MCXdnaNpu`, `XdnaNpuProofs` |
| `PspSmu` | boot and stop of the device access by access, every PSP and SMU command; implements `XdnaNpu` without messages | `MCPspSmu`, `PspSmuProofs` |
| `Mert` | every opcode of `xdna_mert_handle` and the calls of the driver, over the queues the two rings implement | `MCMert`, `MertProofs` |
| `Mmio` | all channels at once over the real layout of SRAM and registers | `MCMmio`, `MmioProofs` |
| `QemuDevice` | realize, exit and reset of the PCI device, MSI-X and INTx | `MCQemuDevice`, `QemuDeviceProofs` |

Definitions whose comment starts with *Variant* are plausible mistakes in the code. No
specification uses them: `PROJECT.json` names, for each property, the definition that
a variant replaces to break it.

The modules meet in the abstract specifications: the rings implement the two queues,
`Mert` is written over these queues, `PspSmu` implements the part of `XdnaNpu` that has
registers of its own, and `Mmio` shows that what each ring module assumes of its ring
(nobody else writes to it, its registers are its own) holds of the layout.

### I2xRing

Offsets are in words; a frame is four words of header and a payload. `sram` holds the
words of the ring: `Cell(id, len, k)` is word `k` of a frame, so that a torn or
overwritten frame is visible. `Request` is one write of the x2i tail register with the
reply it produces (`SendReply`), or the refusal (`DropReply`: `mert_reply` ignores the
result, and the tombstone may have been written already). The receive path is one
action per access: acknowledge, read tail, peek, rewind over a tombstone, read header,
read payload, write head, look at INTR again. `mbox_recv` of the test takes one reply
and returns; the loop around it and the last look at INTR are those of the driver, as
`docs/01-donanim-arayuzu.md` section 7 has it. The driver bounds its unanswered
requests by `InFlight`. `unread`, `mark` and `lost` are history.

### X2iRing

The driver writes a frame in separate accesses (tombstone, header, payload) and then the
tail register. That access runs the loop, one iteration per step, and nothing else may
happen until it returns (`dev = "run"`). `Activate` is `xdna_fw_boot` (channel 0) or
`handle_create_context`; `Deactivate` is a destroy through another channel or
RELEASE_TMR; a handled message may also be the DESTROY_CONTEXT of the channel's own
context (`ProcHandle(TRUE)`). `own` flips with each set-up, so a frame of an earlier
user is recognised. With `InFlight = 1` the write path is `mbox_send_recv` exactly; with
more, the driver writes several frames before it publishes them. `handled` is what the
handler was given last, and whether it was whole and due: the mapping to `RequestFifo`
turns it into the request at the head of the queue, or into nothing that module allows.

### XdnaNpu

One action per PSP or SMU command that changes state and per kind of message. Commands
that fail change nothing. A message is handled if its channel is active and the
firmware alive (`Accepts`); its answer is lost if the handler reset the channel it came
on (`Answer`). `drv` is what the driver learnt from the answers, `created` counts
contexts since reset up to `IdMod`. `MgmtChans` and `Restarts` describe the driver:
the stock one sends management requests on channel 0 and releases the firmware before
it boots it again. The code checks neither. All statuses but SUCCESS and NOAVAIL are
`ERROR`.

### PspSmu

`psp_exec` and `smu_exec` access by access, in the sequences of `drv_hw_start` and of a
stop (RELEASE_TMR, POWER_OFF). A certificate may be validated before the start, a
command PSP does not know be tried while the device is up, and a change of the DPM level
or of a clock overlap with the stop. An image is read, cannot be read, or has no size
(`FetchResults`). `Crash` kills the driver between any two accesses. ARG1 and ARG2,
which only the two validations read, are written with ARG0. The refinement mapping to
`XdnaNpu` fixes an empty context table and makes channel 0 active with the firmware.

### Mert

Threads of the driver, one call at a time each, post requests to a queue; the firmware
takes them one by one; the driver's receive work completes the call a reply belongs to.
Opcodes the switch treats alike are one request, and a request whose payload is looked
at may be too short. A reply is its size, the place of the status, the status and a
value; sizes and places are those of `resp_size_for` and `status_off` on error paths and
of the reply structures otherwise, and `DriverStruct` is what the driver compares them
with. QUERY_COL_STATUS is a loop with one step per DMA, any of which may fail with a
part of the piece written. Requests about contexts are reduced to their outcomes (see
`XdnaNpu`). Firmware may be booted at any time, as in the code: a boot over running
firmware empties the channel, so that the calls of the driver before are gone, and
leaves `async_registered`, configuration and PASID as they are. `wanted`, `wanted_pasid`
and the field `due` of a request are history: what the callers asked for, in the order
in which they asked, less the requests that were lost with the channel; so is `left`, which
tells a registration that a boot left behind from one somebody waits for.

### Mmio

The constants are the real ones. The firmware sets channels up and describes them to the
driver as device addresses (`Told`); the driver turns these into BAR offsets (`Drv`) and
uses them for every access; the device decodes them (`chan_idx`, `chan_reg`) and serves
all channels from one function. A message in a ring is not spelt out: one request at a
time is under way on a channel, head and tail take two values in turn, and a page of
4 KiB of SRAM knows who wrote to it last. An access of SRAM beyond its end is dropped, as
in the code. `vec` holds interrupts that may still be on their way when a channel is
destroyed and created again. A boot may come at any time: over running firmware, the ends of
the earlier driver are dropped, while its contexts, their channels and their interrupts
stay. (A driver that was replaced makes no more accesses.)

### QemuDevice

Realize is one action per step that can fail, with its clean-up; `npu` and `sram` count
the blocks on the heap. QEMU's MSI-X is external: a table of vectors with mask and pending
bits. The guest enables MSI-X with its driver, requests and frees vectors with its
channels, and masks and unmasks them at will; without a driver it polls. `polled` is
history.

## 3. Runs

| Run | Shows | Bounds |
| --- | --- | --- |
| `i2x_capacity` | type invariant, unread replies intact, `RingInv`, nothing lost, no lost wake-up | ring 22 words, frames of 5 and 7, 2 in flight: (2 + 1) * 7 = 21 words usable |
| `i2x_lossy` | replies may be refused, those queued are delivered in order (`ReplyFifo`), and each is received | ring 13, frames of 5 and 6, 2 in flight: 2 * 6 = 12; no symmetry |
| `i2x_overrun` | **violation**, finding 1 | ring 16, 3 in flight: 18 > 15 |
| `x2i_batch` | implements `RequestFifo`; drained, never refused, cut short only at the bound | ring 20, frames of 4 (empty, they jam the channel) and 6, 2 in flight, 2 iterations: fewer than two frames and a tombstone |
| `x2i_live` | published requests are handled, if fewer than the bound and not behind an empty one | ring 21, frames of 5, 3 in flight, 3 iterations: three frames and a tombstone are cut short, two are not; no symmetry |
| `npu_orderly` | heaps, the driver's view, NOAVAIL only when full | 2 contexts, 6 ids, channel 0, no restarts |
| `npu_anychannel` | coherence, counter, ids for any driver | 2 contexts, 3 ids, requests on every channel, restarts |
| `npu_restart` | **violation**, finding 2 | restarts |
| `psp_smu` | boots fail for two causes only, up means running, no power only under orphaned firmware, SMU answers, implements the control plane | levels below, at and above the maximum |
| `mert_session` | replies readable, configuration as wanted, column dumps exact, one answer per call, every call returns | 2 callers, 2 configurations, pieces of 2 bytes, dumps of 0 to 5 bytes; boots at any time |
| `qemu_device` | realize is all or nothing, no notice lost, every reply read | 3 channels, 4 vectors |
| `mmio_layout` | accesses reach their own channel, rings are apart, answers are at hand | all 7 channels, 3 of them with traffic; boots at any time |

Why the bounds are enough. Rings: frames of two sizes that do not divide the ring make
every offset, both wraps, tombstones at different words, and head and tail in either
order; two or three frames in flight are the cases "empty", "one", "several on both sides
of the wrap"; the proofs then remove the bounds for `I2xRing`. Contexts: two slots give
full, half full and empty tables, reuse of a slot, and destroy out of order; ids of a
few values make them overflow. Calls: two callers are a request that overtakes, or is
overtaken by, another; dumps of less than a piece, of whole pieces and of a rest are all
there are, and DMA fails in each. Layout: nothing is scaled down; the channels with
traffic are the management channel and the last two contexts, which are each other's
neighbours and FW_ALIVE's; a ring without traffic must stay empty, so that it shows what others write to it. Vectors: those of
different channels do not influence one another, so that three are more than enough.
`EventuallyHandled` has two conditions, because the code breaks the claim without them:
with as many requests as the bound and a tombstone, or behind an empty request, a
request may be left in the ring with no write of the tail register to come. `x2i_live`
reaches the first case (without the condition TLC refutes the property at its
constants); empty requests are in `x2i_batch`, where `Drained` says that one is always
the first request left. Both sizes and three requests are too much for one run.
Deadlock is checked everywhere but in `i2x_lossy`, where a driver whose answers were
refused really waits for ever.

Fairness. `I2xRing`, `X2iRing` and `Mert` assume weak fairness of the receive work (once
scheduled by the interrupt, a kernel worker runs) and of the loop of
`xdna_mbox_process` with its handlers (an MMIO write returns). `QemuDevice` assumes that a
vector the guest masked is unmasked, that interrupts are served, and that a guest that
polls polls again. Nothing makes a driver send, or firmware boot.

## 4. Findings

1. *Overrun of the i2x ring* (`xdna_mailbox.c:211`). After tail wraps to 0 while head is 0
   the test for a full ring is void, and unread replies are overwritten. It needs more
   unread replies than the ring holds; `RepliesIntact` proves that it cannot happen
   otherwise, and `RepliesKept` that one more frame of room also rules out refusals.
2. *Contexts outlive a restart* (`xdna_fw.c:26`). START over running firmware keeps the
   contexts of the earlier driver: their slots are lost to the new one.

Not findings, but worth knowing: a driver that dies between writing CMD and the
notification leaves PSP not ready until a reset, and it is the only way to get there
(`FailsOnlyFor`); POWER_OFF leaves running firmware as it is, which then answers without
power, but only where a driver died (`UnpoweredOnlyIfLeft`); a request without payload
jams its channel until it is set up again (`Drained`); of 256 frames with a tombstone
among them the last is left to the next write of the tail register, of fewer none
(`CutShortOnlyBeyond`, `EventuallyHandled`); runtime configuration and PASID survive
RELEASE_TMR and boots (`ConfigAsWanted`); a registration for events is never answered, only
dropped with the firmware, but a boot over running firmware leaves `async_registered` set with
nobody waiting, which the code never reads (`AnsweredOnce`); an opcode neither side has a
structure for is answered with the status alone, and `xdna_mert.c:249-252` accepts that a
driver that expects more sees -EINVAL (`RepliesReadable` has it as `OTHER`); INTx, once raised for a guest without
MSI-X, stays high until reset or exit (`AllOrNothing`); after 2^32 - 1 contexts the next
id is 0, and ids in use may come again (`IdsFresh` holds up to there).

## 5. Proofs

`I2xRingProofs`, for every ring size, set of reply sizes, number of ids and `InFlight`:

- assuming `Room(InFlight)` (InFlight frames of the largest size fit in the ring less
  one word): `RingTyped`, `RepliesIntact`, `RingConsistent`, `WakeupKept`, and
  `RingImplementsFifo` (the ring implements `ReplyFifo`);
- assuming `Room(InFlight + 1)`: `RepliesKept`.

`UnreadIntact` is not inductive: one must know where the frames lie. The inductive
invariant is `TypeOK /\ UnreadIntact /\ RingInv`. `Chained` says that each frame starts
where the one before ends, or at 0 after a tombstone at `mark`; `Placed` and `Ordered`
that frames lie between head and tail along the ring and do not overlap; `Compact`
bounds the words from a frame to tail by the frames in between, which is what turns
the bound on requests in flight into room before head; `RxInStep` ties the local state
of the receive path to the oldest frame. A send has two cases (fits behind tail;
wraps), a consume two (advance; rewind). `RingInv` is also checked by TLC.

`XdnaNpuProofs`, for every number of contexts and width of the ids: `DeviceTyped`,
`DeviceCoherent`, `CountExact`, `IdsNeverReused`, `HeapsOwned`, for any driver; and for
an orderly one (requests on channel 0, no boot over running firmware)
`DriverInAgreement` and `LimitReached`. The inductive invariant is
`TypeOK /\ Coherent /\ CountMatches /\ IdsFresh`: the counter stays in range only because
it is the cardinality of the table, destroy resets the right channel only because slot
and channel correspond, and the driver's set loses exactly the destroyed context only
because ids are unique.

`X2iRingProofs`, for every ring size, set of request sizes, `InFlight` and bound of the
loop, assuming `Room(InFlight + 1)`: `RequestsTyped`, `LoopDrains`, `NoRequestRefused`,
`LoopBoundSuffices`, and `RingImplementsRequests` (the ring implements `RequestFifo`). The
rings are the mirror image of i2x, but here the driver writes a frame in several steps
and the device may reset the channel under its own loop, so the ring is treated as a
value: `Ring(p, h, t, m, s)` relates frames, head, tail, tombstone and words, lemmas say
what placing, writing, publishing and consuming do to it, and the state's part of the
invariant (`RingInv`) is that some tombstone makes the state such a ring. `TxInv` says which
words of the frame being written are there; `LoopInv` that each iteration took a frame but
for one at the tombstone, which is why fewer than `MaxPerKick` requests never meet the bound. `NeverRefused` needs the room for one frame more than
are in flight: the frame about to be written must not close the gap that tells full from
empty.

`PspSmuProofs`, for every largest DPM level and every set of levels and frequencies:
`BootTyped`, `BootFailsOnlyFor`, `BootedMeansRunning`, `PowerWhereOwned`, `SmuReadsItsAnswer`,
and `BootImplementsControlPlane` (boot and stop, access by access, implement `XdnaNpu`
without messages). `PspInStep` and `SmuInStep` say what the registers with two uses hold at
each step of the driver; `Progress` how far the device has come for each job of the
driver, so that a boot can only fail where the image could not be read or an earlier
driver died in the middle of a PSP command. In the refinement every access is a stutter but the
two notify writes, the clearing of FW_ALIVE and the reset; a driver's crash changes
nothing the control plane sees.

`MertProofs`, for every number of callers, size of `rt_cfg`, and buffer and piece of a column
dump: `MertTyped`, `AnswersReadable`, `ConfigurationKept`, `DumpsExact`,
`CallsAnsweredOnce`. What a caller wants lies ahead of what the firmware has, so the
invariant speaks of the requests still queued: `Settled` says that once they are all
handled the configuration is the one wanted, and that each queued read finds on its
turn what it is due; `Seen` expresses "the last write before request n" without
recursion. `Owned` and `Followed` tie requests and replies to calls one to one, but for the
registration for events, which the firmware keeps (`Held`: it was not left by an earlier
driver). `DumpInv` says that the bytes written
so far are the first `done` of the buffer.

`QemuDeviceProofs`, for every number of vectors and channels: `DeviceTyped`,
`RealizedOrNothing`, `NoticesKept`. `Staged` says what each stage of realize has set up;
`NoticeKept` is inductive only with it: a reply on a vector that is not used, or to a driver
without MSI-X, would leave no trace.

`MmioProofs`, for every number of contexts with `LayoutFits` (the rings of all contexts end
before FW_ALIVE; `AtMostSix` shows that six, the number in the source, is the most there
can be): `LayoutTyped`, `AccessesRouted`, `RingsKeptApart`, `AnswersAtHand`. The lemmas on the
layout are about constants alone: rings have pages of their own (`PagesApart`), a register's
offset is decoded to its channel and register (`Decoded`), and a driver that subtracts the
aperture from what it was told is `AtHome` (`DrvFacts`). The inductive invariant has each
driver `InStep` with its channel, channels only of living firmware and existing contexts
(`Owned`), a context just described untouched until its reply is read (`ToldInv`), and
FW_ALIVE set only while nobody has taken the management channel, as it was set up
(`SramInv`). A boot over running firmware keeps the rings of the contexts because the pages it
writes are none of theirs. `AnswerAtHand` alone is not inductive: a create must not clear the ring of a
context in use, and the reply that opens a channel must find it as described.

Assumptions on constants, evaluated by TLC in every run of the module: `SizesAssumption`
(both rings), `LimitsAssumption`, `LevelsAssumption`, `MertAssumption` and `NoReqAssumption` (the value
for "no request" is not a request), `VecAssumption`, `NumCtxAssumption`. `Room` and
`LayoutFits` are hypotheses of the theorems that need them. The inductive invariants were
model-checked on the instances of the runs before they were proved.

Every invariant the passing runs check is a theorem, and so are the three refinements.
Only model-checked: liveness (`EventuallyReceived`, `EventuallyHandled`, `EveryCallReturns`,
`Noticed`), which needs fairness and ENABLED and is out of the prover's reach.

## 6. Not modelled

- Contents of replies (versions, tile layout, telemetry): data that no state depends on.
- Accesses that are not 4 bytes wide, registers of the REG BAR other than those of PSP and
  SMU (PWAITMODE, whose bit 0 follows `fw_alive`; unknown ones, which read as 0), payloads of a size that is not a multiple of 4.
- Counters of `XdnaStats` other than `active_contexts`: they only go up, and nothing in the device
  reads them.
- BAR and DMA callbacks of the wrapper: they pass their arguments on; what they return is
  a choice in `PspSmu` and `Mert`.
- Tests as such, the XRT probe, the guest image, build and CI scripts: they have no state
  or protocol of their own.

MMIO copies of a header or payload are one step, although a guest makes several accesses:
by `RepliesIntact` nothing changes the words in between.

## 7. Plan

Done: 1 `ReplyFifo` and `I2xRing` with proofs; 2 `XdnaNpu` with proofs; 3 `X2iRing`, and its
refinement of `RequestFifo`; 4 `PspSmu`, with every command; 5 `Mert`; 6 `QemuDevice`;
7 `Mmio`.

Proved since: 8 `Mert`; 9 `PspSmu` and its refinement of the control plane; 10
`QemuDevice`; 11 `X2iRing` and its refinement of `RequestFifo`; 12 `Mmio` and its layout.

Next:

13. The steps of the liveness arguments that are not temporal, as lemmas: which action is
    enabled while a reply, a request or a notice waits (without ENABLED: its guard holds),
    and the measure that it decreases.
14. Action properties worth stating of the proved modules, such as: a step of one channel
    leaves the words and registers of the others alone (`Mmio`).
