------------------------------- MODULE PspSmu -------------------------------
(***************************************************************************)
(* How the driver boots the device: the PSP and SMU command registers of   *)
(* the REG BAR, one access at a time, and the boot and stop sequences made *)
(* of them.  CMD shares a register with STATUS, ARG0 with RESP, and ARG    *)
(* of SMU with OUT.                                                        *)
(*                                                                         *)
(* The driver runs one PSP and one SMU command at a time; a change of the  *)
(* DPM level or of a clock may overlap with stopping the firmware.  The    *)
(* driver may know commands the device does not; it may die between any    *)
(* two accesses, and another one start without a reset.                    *)
(***************************************************************************)
EXTENDS Integers

CONSTANTS MaxDpm,   \* XDNA_NPU1_MAX_DPM_LEVEL
          Levels    \* levels and frequencies asked for; some above MaxDpm

ASSUME LevelsAssumption == MaxDpm \in Nat /\ Levels \subseteq Nat

VARIABLES
    scratch2,         \* PSP CMD, and STATUS
    scratch3,         \* PSP ARG0, and RESP; ARG1 and ARG2 are written with it
    scratch5,         \* SMU CMD
    scratch6,         \* SMU RESP
    scratch7,         \* SMU ARG, and OUT
    psp_state, power_on, dpm_level, npuclk, hclk,
    fw_alive,
    alive_word,       \* is the SRAM word at FW_ALIVE_OFF set?
    job,              \* what the driver is about, the call it is to make next
    p, s,             \* next access of psp_exec() and of smu_exec()
    call,             \* the SMU command in hand
    \* History, not read by the code:
    fetch_failed,     \* an image could not be read since the driver started
    abandoned,        \* a driver died with a command in CMD, since reset
    orphaned          \* the firmware that runs is that of a driver that died

pspregs == <<scratch2, scratch3>>
smuregs == <<scratch5, scratch6, scratch7>>
psp     == <<psp_state, fw_alive, alive_word>>
clocks  == <<npuclk, hclk>>
smu     == <<power_on, dpm_level, clocks>>
ghosts  == <<fetch_failed, abandoned, orphaned>>
vars    == <<pspregs, smuregs, psp, smu, job, p, s, call, ghosts>>

NoCall == [cmd |-> "none", arg |-> 0]

\* xdna_npu_new(), xdna_npu_reset(): PSP is ready for a command.
Init ==
    /\ scratch2 = "READY" /\ scratch3 = "0"
    /\ scratch5 = "none" /\ scratch6 = 0 /\ scratch7 = 0
    /\ psp_state = "COLD" /\ fw_alive = FALSE /\ alive_word = FALSE
    /\ power_on = FALSE /\ dpm_level = 0 /\ npuclk = 0 /\ hclk = 0
    /\ job = "down" /\ p = "idle" /\ s = "idle" /\ call = NoCall
    /\ fetch_failed = FALSE /\ abandoned = FALSE /\ orphaned = FALSE

\* xdna_npu_reset() with the machine, hence the driver, reset too.
Reset ==
    /\ scratch2' = "READY" /\ scratch3' = "0"
    /\ scratch5' = "none" /\ scratch6' = 0 /\ scratch7' = 0
    /\ psp_state' = "COLD" /\ fw_alive' = FALSE /\ alive_word' = FALSE
    /\ power_on' = FALSE /\ dpm_level' = 0 /\ npuclk' = 0 /\ hclk' = 0
    /\ job' = "down" /\ p' = "idle" /\ s' = "idle" /\ call' = NoCall
    /\ fetch_failed' = FALSE /\ abandoned' = FALSE /\ orphaned' = FALSE
-----------------------------------------------------------------------------
(* PSP                                                                     *)

\* Variant: STATUS is not written.
PspCompleteNoStatus(resp) == scratch3' = resp /\ UNCHANGED scratch2

\* psp_complete().
PspComplete(resp) == scratch3' = resp /\ scratch2' = "READY"

\* psp_fetch_image(): the image is read by DMA, cannot be read, or has no size.
FetchResults == {"0", "CANCEL", "BAD_STATE"}
FetchImage(resp) ==
    /\ fetch_failed' = (fetch_failed \/ resp # "0")
    /\ PspComplete(resp)

\* PSP_CMD_VALIDATE.
Validate(resp) ==
    /\ scratch2 = "VALIDATE"
    /\ psp_state' = IF resp = "0" THEN "VALIDATED" ELSE psp_state
    /\ FetchImage(resp)
    /\ UNCHANGED <<fw_alive, alive_word, orphaned>>

\* PSP_CMD_VALIDATE_CERT: the image is read, and that is all.
ValidateCert(resp) ==
    /\ scratch2 = "VALIDATE_CERT"
    /\ FetchImage(resp)
    /\ UNCHANGED <<psp, orphaned>>

\* PSP_CMD_START and xdna_fw_boot(); refused unless VALIDATED.
Start ==
    /\ scratch2 = "START"
    /\ IF psp_state = "VALIDATED"
       THEN /\ psp_state' = "RUNNING" /\ fw_alive' = TRUE /\ alive_word' = TRUE
            /\ PspComplete("0")
            /\ orphaned' = FALSE
       ELSE UNCHANGED <<psp, orphaned>> /\ PspComplete("BAD_STATE")
    /\ UNCHANGED fetch_failed

\* Variants: the PSP stays in its state; the firmware goes on.
StateAfterReleaseKept == psp_state
AliveAfterReleaseKept == fw_alive

StateAfterRelease == "COLD"
AliveAfterRelease == FALSE

\* PSP_CMD_RELEASE_TMR and xdna_fw_shutdown().
ReleaseTmr ==
    /\ scratch2 = "RELEASE_TMR"
    /\ psp_state' = StateAfterRelease /\ fw_alive' = AliveAfterRelease /\ alive_word' = FALSE
    /\ PspComplete("0")
    /\ orphaned' = FALSE
    /\ UNCHANGED fetch_failed

\* A command PSP does not know.
PspUnknown ==
    /\ scratch2 = "OTHER"
    /\ PspComplete("BAD_STATE")
    /\ UNCHANGED <<psp, fetch_failed, orphaned>>

\* xdna_psp_kick().
PspKick ==
    \/ \E resp \in FetchResults : Validate(resp) \/ ValidateCert(resp)
    \/ Start \/ ReleaseTmr \/ PspUnknown
-----------------------------------------------------------------------------
(* SMU                                                                     *)

SmuComplete(resp, out) == scratch6' = resp /\ scratch7' = out

\* Variant: SMU answers, but leaves the power off.
PowerOnNot == SmuComplete(1, 0) /\ UNCHANGED smu

PowerOn == power_on' = TRUE /\ SmuComplete(1, 0) /\ UNCHANGED <<dpm_level, clocks>>

PowerOff == power_on' = FALSE /\ SmuComplete(1, 0) /\ UNCHANGED <<dpm_level, clocks>>

\* AIE_SMU_SET_MPNPUCLK_FREQ and AIE_SMU_SET_HCLK_FREQ take every frequency.
SetNpuClk == npuclk' = scratch7 /\ SmuComplete(1, scratch7) /\ UNCHANGED <<power_on, dpm_level, hclk>>

SetHClk == hclk' = scratch7 /\ SmuComplete(1, scratch7) /\ UNCHANGED <<power_on, dpm_level, npuclk>>

\* Variants: no check of the level; the level is not reported back.
SetDpmUnchecked ==
    dpm_level' = scratch7 /\ SmuComplete(1, scratch7) /\ UNCHANGED <<power_on, clocks>>
SetDpmNoOut ==
    IF scratch7 > MaxDpm
    THEN SmuComplete(2, 0) /\ UNCHANGED smu
    ELSE dpm_level' = scratch7 /\ SmuComplete(1, 0) /\ UNCHANGED <<power_on, clocks>>

\* AIE_SMU_SET_SOFT_DPMLEVEL, AIE_SMU_SET_HARD_DPMLEVEL.
SetDpm ==
    IF scratch7 > MaxDpm
    THEN SmuComplete(2, 0) /\ UNCHANGED smu
    ELSE dpm_level' = scratch7 /\ SmuComplete(1, scratch7) /\ UNCHANGED <<power_on, clocks>>

\* xdna_smu_kick().
SmuKick ==
    \/ scratch5 = "POWER_ON" /\ PowerOn
    \/ scratch5 = "POWER_OFF" /\ PowerOff
    \/ scratch5 = "SET_NPUCLK" /\ SetNpuClk
    \/ scratch5 = "SET_HCLK" /\ SetHClk
    \/ scratch5 = "SET_DPM" /\ SetDpm
    \/ scratch5 = "OTHER" /\ SmuComplete(2, 0) /\ UNCHANGED smu
-----------------------------------------------------------------------------
(* Driver                                                                  *)

\* What follows a call that succeeded: drv_hw_start(), then up; or stopping.
After(j) == CASE j = "power_off" -> "power_on" [] j = "power_on" -> "validate"
              [] j = "validate" -> "start"     [] j = "start" -> "alive"
              [] j = "alive" -> "up"           [] j = "release" -> "stop"
              [] j = "stop" -> "down"          [] j = "cert" -> "start"

PspCmd == CASE job = "validate" -> "VALIDATE" [] job = "start" -> "START"
            [] job = "release" -> "RELEASE_TMR" [] job = "cert" -> "VALIDATE_CERT"
            [] job = "other" -> "OTHER"
PspArg == CASE job \in {"validate", "cert"} -> "IMAGE" [] job = "start" -> "COPY_FW"
            [] job \in {"release", "other"} -> "0"

\* The driver's next job, by itself or by its user; one that has a certificate
\* validates it before the start.
Turn(from, to) ==
    /\ job = from /\ p = "idle" /\ job' = to
    /\ UNCHANGED <<pspregs, smuregs, psp, smu, p, s, call, ghosts>>

\* drv_get_mgmt_chann_info(): FW_ALIVE must be set, and is cleared.
ReadAlive ==
    /\ job = "alive"
    /\ job' = IF alive_word THEN After(job) ELSE "failed"
    /\ alive_word' = FALSE
    /\ UNCHANGED <<pspregs, smuregs, psp_state, fw_alive, smu, p, s, call, ghosts>>

\* psp_exec(): is PSP ready?
PspPoll ==
    /\ job \in {"validate", "cert", "start", "release", "other"} /\ p = "idle"
    /\ IF scratch2 = "READY" THEN p' = "cmd" /\ UNCHANGED job
                             ELSE job' = "failed" /\ UNCHANGED p
    /\ UNCHANGED <<pspregs, smuregs, psp, smu, s, call, ghosts>>

PspWriteCmd ==
    /\ p = "cmd" /\ p' = "args"
    /\ scratch2' = PspCmd
    /\ UNCHANGED <<scratch3, smuregs, psp, smu, job, s, call, ghosts>>

PspWriteArgs ==
    /\ p = "args" /\ p' = "notify"
    /\ scratch3' = PspArg
    /\ UNCHANGED <<scratch2, smuregs, psp, smu, job, s, call, ghosts>>

PspNotify ==
    /\ p = "notify" /\ p' = "wait"
    /\ PspKick
    /\ UNCHANGED <<smuregs, smu, job, s, call, abandoned>>

PspPollAgain ==
    /\ p = "wait"
    /\ IF scratch2 = "READY" THEN p' = "resp" /\ UNCHANGED job
                             ELSE p' = "idle" /\ job' = "failed"
    /\ UNCHANGED <<pspregs, smuregs, psp, smu, s, call, ghosts>>

\* A refusal of a command that belongs to no sequence has no consequence.
PspReadResp ==
    /\ p = "resp" /\ p' = "idle"
    /\ job' = CASE job = "other" -> "up"
                [] job # "other" /\ scratch3 = "0" -> After(job)
                [] OTHER -> "failed"
    /\ UNCHANGED <<pspregs, smuregs, psp, smu, s, call, ghosts>>

\* Calls by the user of a driver that is up.
UserCalls == [cmd : {"SET_DPM", "SET_NPUCLK", "SET_HCLK", "OTHER"}, arg : Levels]

\* smu_exec() is called, for a job or by the user.
SmuCall(c) ==
    /\ s = "idle" /\ s' = "clear"
    /\ \/ job \in {"power_off", "stop"} /\ c = [cmd |-> "POWER_OFF", arg |-> 0]
       \/ job = "power_on" /\ c = [cmd |-> "POWER_ON", arg |-> 0]
       \/ job = "up" /\ c \in UserCalls
    /\ call' = c
    /\ UNCHANGED <<pspregs, smuregs, psp, smu, job, p, ghosts>>

SmuClear ==
    /\ s = "clear" /\ s' = "arg"
    /\ scratch6' = 0
    /\ UNCHANGED <<pspregs, scratch5, scratch7, psp, smu, job, p, call, ghosts>>

SmuWriteArg ==
    /\ s = "arg" /\ s' = "cmd"
    /\ scratch7' = call.arg
    /\ UNCHANGED <<pspregs, scratch5, scratch6, psp, smu, job, p, call, ghosts>>

SmuWriteCmd ==
    /\ s = "cmd" /\ s' = "notify"
    /\ scratch5' = call.cmd
    /\ UNCHANGED <<pspregs, scratch6, scratch7, psp, smu, job, p, call, ghosts>>

SmuNotify ==
    /\ s = "notify" /\ s' = "wait"
    /\ SmuKick
    /\ UNCHANGED <<pspregs, scratch5, psp, job, p, call, ghosts>>

\* RESP is to be non-zero.  Then OUT is read and the call is over; a call by the
\* user that fails has no consequence.
SmuReadResp ==
    /\ s = "wait" /\ s' = IF scratch6 = 0 THEN "idle" ELSE "out"
    /\ job' = IF scratch6 = 0 THEN "failed" ELSE job
    /\ UNCHANGED <<pspregs, smuregs, psp, smu, p, call, ghosts>>

SmuReadOut ==
    /\ s = "out" /\ s' = "idle"
    /\ job' = CASE call \in UserCalls -> job
                [] call \notin UserCalls /\ scratch6 = 1 -> After(job)
                [] OTHER -> "failed"
    /\ UNCHANGED <<pspregs, smuregs, psp, smu, p, call, ghosts>>

\* The driver dies, or gives up; the next one knows nothing.  What it leaves in
\* CMD can only be seen as STATUS.
Crash ==
    /\ job # "down"
    /\ job' = "down" /\ p' = "idle" /\ s' = "idle" /\ call' = NoCall
    /\ fetch_failed' = FALSE
    /\ abandoned' = (abandoned \/ p \in {"args", "notify"})
    /\ orphaned' = (orphaned \/ fw_alive)
    /\ UNCHANGED <<pspregs, smuregs, psp, smu>>

Calls == [cmd : {"POWER_ON", "POWER_OFF"}, arg : {0}] \cup UserCalls

Next ==
    \/ Reset \/ Crash \/ ReadAlive
    \/ Turn("down", "power_off") \/ Turn("start", "cert")
    \/ Turn("up", "release") \/ Turn("up", "other")
    \/ PspPoll \/ PspWriteCmd \/ PspWriteArgs \/ PspNotify \/ PspPollAgain \/ PspReadResp
    \/ (\E c \in Calls : SmuCall(c))
    \/ SmuClear \/ SmuWriteArg \/ SmuWriteCmd \/ SmuNotify \/ SmuReadResp \/ SmuReadOut

Spec == Init /\ [][Next]_vars
-----------------------------------------------------------------------------
(* Properties                                                              *)

Jobs == {"down", "power_off", "power_on", "validate", "start", "alive", "up", "release",
         "stop", "failed", "cert", "other"}

\* The registers hold what fits their two uses; the DPM level in force is one the
\* hardware has, whatever was asked for.
TypeOK ==
    /\ scratch2 \in {"READY", "VALIDATE", "VALIDATE_CERT", "START", "RELEASE_TMR", "OTHER"}
    /\ scratch3 \in {"0", "IMAGE", "COPY_FW", "CANCEL", "BAD_STATE"}
    /\ scratch5 \in {c.cmd : c \in Calls \cup {NoCall}}
    /\ scratch6 \in 0 .. 2 /\ scratch7 \in Nat
    /\ psp_state \in {"COLD", "VALIDATED", "RUNNING"}
    /\ power_on \in BOOLEAN /\ dpm_level \in 0 .. MaxDpm
    /\ npuclk \in Levels \cup {0} /\ hclk \in Levels \cup {0}
    /\ fw_alive \in BOOLEAN /\ alive_word \in BOOLEAN
    /\ job \in Jobs /\ call \in Calls \cup {NoCall}
    /\ p \in {"idle", "cmd", "args", "notify", "wait", "resp"}
    /\ s \in {"idle", "clear", "arg", "cmd", "notify", "wait", "out"}
    /\ fetch_failed \in BOOLEAN /\ abandoned \in BOOLEAN /\ orphaned \in BOOLEAN

\* Although CMD overwrites STATUS, a boot or stop sequence fails only if the image
\* cannot be read or an earlier driver died in the middle of a PSP command;
\* wherever else it died, and whatever it left running, the next one succeeds.
FailsOnlyFor == job = "failed" => fetch_failed \/ abandoned

\* A driver that went through its boot sequence has a device that is powered
\* and runs firmware, although a change of the DPM level may be under way.
UpMeansRunning == job = "up" => power_on /\ psp_state = "RUNNING" /\ fw_alive

\* Firmware runs without power only where a driver died and the next one has taken
\* the power away: never by a driver that stops its own.
UnpoweredOnlyIfLeft == fw_alive /\ ~power_on => orphaned

\* smu_exec() reads its own answer, whatever else happens meanwhile: OUT, in the
\* register of ARG, is the level or frequency in force after the call, the power is
\* as it was asked for, and an error goes with a level that does not exist or a
\* command that does not.
SmuAnswered ==
    LET done == scratch6 = 1
        level == [SET_DPM |-> dpm_level, SET_NPUCLK |-> npuclk, SET_HCLK |-> hclk]
    IN  s = "out" =>
          IF call.cmd \in {"POWER_ON", "POWER_OFF"} THEN done /\ power_on = (call.cmd = "POWER_ON")
          ELSE IF call.cmd = "OTHER" \/ (call.cmd = "SET_DPM" /\ call.arg > MaxDpm) THEN ~done
          ELSE done /\ scratch7 = call.arg /\ level[call.cmd] = call.arg

\* Register accesses, crashes and all, these are steps of the control plane as
\* XdnaNpu has it (without messages): each kick is one of its PSP or SMU actions,
\* and every other access changes nothing.
Control == INSTANCE XdnaNpu
             WITH NumCtx <- 1, IdMod <- 2, NoHeap <- 2, MgmtChans <- {0}, Restarts <- TRUE,
                  fw_suspended <- FALSE, async_registered <- FALSE,
                  active <- [c \in {0, 1} |-> c = 0 /\ fw_alive],
                  ctx <- [i \in {0} |-> [valid |-> FALSE, id |-> 0, chan |-> 0, heap |-> 2]],
                  next_ctx_id <- 1, active_contexts <- 0, reply <- "none",
                  drv <- {}, created <- 0

ImplementsControlPlane == Control!Spec
=============================================================================
