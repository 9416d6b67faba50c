---------------------------- MODULE PspSmuProofs ----------------------------
(***************************************************************************)
(* Proofs about PspSmu for every largest DPM level and every set of levels *)
(* and frequencies asked for.                                              *)
(***************************************************************************)
EXTENDS PspSmu, TLAPS

PspJobs == {"validate", "cert", "start", "release", "other"}

\* CMD holds the command being written and is READY otherwise, unless a driver
\* that died left its own there.
PspInStep ==
    /\ p # "idle" => job \in PspJobs
    /\ p \in {"args", "notify"} => scratch2 = PspCmd
    /\ p \in {"cmd", "wait", "resp"} => scratch2 = "READY"
    /\ p = "idle" => scratch2 = "READY" \/ abandoned

\* How far the device has come when the driver is about a job, and what PSP has
\* answered to a command whose answer is still to be read.
Answered == p \in {"wait", "resp"}
Progress ==
    /\ psp_state = "RUNNING" => fw_alive
    /\ job \in {"down", "power_off", "power_on"} /\ fw_alive => orphaned
    /\ job \in {"validate", "cert", "start", "alive", "up", "other", "release"} => power_on
    /\ job \in {"validate", "cert"} /\ Answered => scratch3 = "0" \/ fetch_failed
    /\ job = "validate" /\ Answered /\ scratch3 = "0" => psp_state = "VALIDATED"
    /\ job = "cert" => psp_state = "VALIDATED"
    /\ job = "start" /\ ~Answered => psp_state = "VALIDATED"
    /\ job = "start" /\ Answered => scratch3 = "0" /\ psp_state = "RUNNING" /\ alive_word
    /\ job = "alive" => psp_state = "RUNNING" /\ alive_word
    /\ job \in {"up", "other"} => psp_state = "RUNNING"
    /\ job = "release" /\ Answered => scratch3 = "0" /\ ~fw_alive
    /\ job = "stop" => ~fw_alive

\* The answer to the SMU command in hand.
SmuReply ==
    LET done == scratch6 = 1 IN
    CASE call.cmd = "POWER_ON"   -> done /\ power_on
      [] call.cmd = "POWER_OFF"  -> done /\ ~power_on
      [] call.cmd = "SET_DPM"    -> IF call.arg > MaxDpm THEN scratch6 = 2
                                    ELSE done /\ scratch7 = call.arg /\ dpm_level = call.arg
      [] call.cmd = "SET_NPUCLK" -> done /\ scratch7 = call.arg /\ npuclk = call.arg
      [] call.cmd = "SET_HCLK"   -> done /\ scratch7 = call.arg /\ hclk = call.arg
      [] OTHER                   -> scratch6 = 2

\* Power commands belong to their job; a call by the user is over before the next
\* boot begins.  ARG and CMD hold what was written, until the answer is there.
SmuInStep ==
    /\ s # "idle" =>
         \/ job \in {"power_off", "stop"} /\ call.cmd = "POWER_OFF"
         \/ job = "power_on" /\ call.cmd = "POWER_ON"
         \/ job \in {"up", "release", "other", "stop", "failed"} /\ call \in UserCalls
    /\ s # "idle" => call \in Calls
    /\ s \in {"cmd", "notify"} => scratch7 = call.arg
    /\ s = "notify" => scratch5 = call.cmd
    /\ s \in {"wait", "out"} => SmuReply

IInv == TypeOK /\ PspInStep /\ Progress /\ SmuInStep /\ FailsOnlyFor /\ UnpoweredOnlyIfLeft
-----------------------------------------------------------------------------
(* Types                                                                   *)

Registers ==
    /\ scratch2 \in {"READY", "VALIDATE", "VALIDATE_CERT", "START", "RELEASE_TMR", "OTHER"}
    /\ scratch3 \in {"0", "IMAGE", "COPY_FW", "CANCEL", "BAD_STATE"}
    /\ scratch5 \in {"none", "POWER_ON", "POWER_OFF", "SET_DPM", "SET_NPUCLK", "SET_HCLK", "OTHER"}
    /\ scratch6 \in 0 .. 2 /\ scratch7 \in Nat
    /\ psp_state \in {"COLD", "VALIDATED", "RUNNING"}
    /\ dpm_level \in 0 .. MaxDpm
    /\ npuclk \in Levels \cup {0} /\ hclk \in Levels \cup {0}

Driver ==
    /\ job \in Jobs /\ call \in Calls \cup {NoCall}
    /\ p \in {"idle", "cmd", "args", "notify", "wait", "resp"}
    /\ s \in {"idle", "clear", "arg", "cmd", "notify", "wait", "out"}

Flags ==
    /\ power_on \in BOOLEAN /\ fw_alive \in BOOLEAN /\ alive_word \in BOOLEAN
    /\ fetch_failed \in BOOLEAN /\ abandoned \in BOOLEAN /\ orphaned \in BOOLEAN

\* The command words the SMU register may hold.
LEMMA Commands ==
    {c.cmd : c \in Calls \cup {NoCall}}
      \subseteq {"none", "POWER_ON", "POWER_OFF", "SET_DPM", "SET_NPUCLK", "SET_HCLK", "OTHER"}
BY DEF Calls, UserCalls, NoCall

\* TypeOK gives its parts ...
LEMMA TypeParts == TypeOK => Registers /\ Driver /\ Flags
BY Commands DEF TypeOK, Registers, Driver, Flags

\* ... and the parts give TypeOK back.
LEMMA TypePartsNext ==
    ASSUME Registers', Driver', Flags', scratch5' \in {c.cmd : c \in Calls \cup {NoCall}}
    PROVE  TypeOK'
BY DEF TypeOK, Registers, Driver, Flags

\* Every argument of an SMU command is a number.
LEMMA CallArg == ASSUME NEW c \in Calls PROVE c.arg \in Nat
<1>1. CASE c \in [cmd : {"POWER_ON", "POWER_OFF"}, arg : {0}]
  BY <1>1
<1>2. CASE c \in UserCalls
  <2>1. c.arg \in Levels
    BY <1>2 DEF UserCalls
  <2> QED BY <2>1, LevelsAssumption
<1> QED BY <1>1, <1>2 DEF Calls

\* What is known of the answer of SMU when it is there.
LEMMA SmuReplied ==
    ASSUME IInv, s \in {"wait", "out"}
    PROVE  /\ scratch6 \in {1, 2}
           /\ call \notin UserCalls =>
                /\ scratch6 = 1
                /\ \/ job \in {"power_off", "stop"} /\ ~power_on
                   \/ job = "power_on" /\ power_on
           /\ call \in UserCalls => job \in {"up", "release", "other", "stop", "failed"}
<1>1. SmuReply /\ call \in Calls
  BY DEF IInv, SmuInStep
<1>2. call.cmd \in {"POWER_ON", "POWER_OFF", "SET_DPM", "SET_NPUCLK", "SET_HCLK", "OTHER"}
  BY <1>1 DEF Calls, UserCalls
<1>3. scratch6 \in {1, 2}
  BY <1>1 DEF SmuReply
<1>4. ASSUME call \notin UserCalls
      PROVE  /\ scratch6 = 1
             /\ \/ job \in {"power_off", "stop"} /\ ~power_on
                \/ job = "power_on" /\ power_on
  BY <1>1, <1>4 DEF IInv, SmuInStep, SmuReply
<1>5. ASSUME call \in UserCalls
      PROVE  job \in {"up", "release", "other", "stop", "failed"}
  <2>1. call.cmd \notin {"POWER_ON", "POWER_OFF"}
    BY <1>5 DEF UserCalls
  <2> QED BY <2>1, <1>5 DEF IInv, SmuInStep
<1> QED BY <1>3, <1>4, <1>5

\* psp_exec(), but for the notification.
LEMMA PspAccess ==
    ASSUME IInv, PspPoll \/ PspWriteCmd \/ PspWriteArgs \/ PspPollAgain \/ PspReadResp
    PROVE  IInv'
<1> USE TypeParts DEF IInv
<1>1. CASE PspPoll
  <2>1. Registers' /\ Driver'
    BY <1>1 DEF PspPoll, pspregs, smuregs, psp, smu, clocks, ghosts, Registers, Driver,
        Jobs
  <2>2. Flags'
    BY <1>1, Zenon DEF PspPoll, pspregs, smuregs, psp, smu, clocks, ghosts, Flags
  <2>3. scratch5' \in {c.cmd : c \in Calls \cup {NoCall}}
    BY <1>1 DEF PspPoll, pspregs, smuregs, psp, smu, clocks, ghosts, TypeOK
  <2>4. PspInStep'
    BY <1>1 DEF PspPoll, pspregs, smuregs, psp, smu, clocks, ghosts, PspInStep, PspJobs,
        PspCmd, Driver, Registers
  <2>5. Progress'
    BY <1>1 DEF PspPoll, pspregs, smuregs, psp, smu, clocks, ghosts, PspInStep, PspJobs,
        Progress, Answered, Driver, Registers
  <2>6. SmuInStep'
    BY <1>1 DEF PspPoll, pspregs, smuregs, psp, smu, clocks, ghosts, SmuInStep, SmuReply,
        PspInStep, PspJobs, Progress
  <2>7. FailsOnlyFor' /\ UnpoweredOnlyIfLeft'
    BY <1>1 DEF PspPoll, pspregs, smuregs, psp, smu, clocks, ghosts, FailsOnlyFor,
        UnpoweredOnlyIfLeft, PspInStep, PspJobs, Progress, Answered
  <2> QED BY <2>1, <2>2, <2>3, <2>4, <2>5, <2>6, <2>7, TypePartsNext DEF IInv
<1>2. CASE PspWriteCmd
  <2>1. Registers' /\ Driver'
    BY <1>2 DEF PspWriteCmd, pspregs, smuregs, psp, smu, clocks, ghosts, Registers, Driver,
        Jobs, PspCmd, PspInStep, PspJobs
  <2>2. Flags'
    BY <1>2, Zenon DEF PspWriteCmd, pspregs, smuregs, psp, smu, clocks, ghosts, Flags
  <2>3. scratch5' \in {c.cmd : c \in Calls \cup {NoCall}}
    BY <1>2 DEF PspWriteCmd, pspregs, smuregs, psp, smu, clocks, ghosts, TypeOK
  <2>4. PspInStep'
    BY <1>2 DEF PspWriteCmd, pspregs, smuregs, psp, smu, clocks, ghosts, PspInStep,
        PspJobs, PspCmd, Driver, Registers
  <2>5. Progress'
    BY <1>2 DEF PspWriteCmd, pspregs, smuregs, psp, smu, clocks, ghosts, PspInStep,
        PspJobs, Progress, Answered, Driver, Registers
  <2>6. SmuInStep'
    BY <1>2 DEF PspWriteCmd, pspregs, smuregs, psp, smu, clocks, ghosts, SmuInStep,
        SmuReply, PspInStep, PspJobs, Progress
  <2>7. FailsOnlyFor' /\ UnpoweredOnlyIfLeft'
    BY <1>2 DEF PspWriteCmd, pspregs, smuregs, psp, smu, clocks, ghosts, FailsOnlyFor,
        UnpoweredOnlyIfLeft, PspInStep, PspJobs, Progress, Answered
  <2> QED BY <2>1, <2>2, <2>3, <2>4, <2>5, <2>6, <2>7, TypePartsNext DEF IInv
<1>3. CASE PspWriteArgs
  <2>1. Registers' /\ Driver'
    BY <1>3 DEF PspWriteArgs, pspregs, smuregs, psp, smu, clocks, ghosts, Registers,
        Driver, Jobs, PspArg, PspInStep, PspJobs
  <2>2. Flags'
    BY <1>3, Zenon DEF PspWriteArgs, pspregs, smuregs, psp, smu, clocks, ghosts, Flags
  <2>3. scratch5' \in {c.cmd : c \in Calls \cup {NoCall}}
    BY <1>3 DEF PspWriteArgs, pspregs, smuregs, psp, smu, clocks, ghosts, TypeOK
  <2>4. PspInStep'
    BY <1>3 DEF PspWriteArgs, pspregs, smuregs, psp, smu, clocks, ghosts, PspInStep,
        PspJobs, PspCmd, Driver, Registers
  <2>5. Progress'
    BY <1>3 DEF PspWriteArgs, pspregs, smuregs, psp, smu, clocks, ghosts, PspInStep,
        PspJobs, Progress, Answered, Driver, Registers
  <2>6. SmuInStep'
    BY <1>3 DEF PspWriteArgs, pspregs, smuregs, psp, smu, clocks, ghosts, SmuInStep,
        SmuReply, PspInStep, PspJobs, Progress
  <2>7. FailsOnlyFor' /\ UnpoweredOnlyIfLeft'
    BY <1>3 DEF PspWriteArgs, pspregs, smuregs, psp, smu, clocks, ghosts, FailsOnlyFor,
        UnpoweredOnlyIfLeft, PspInStep, PspJobs, Progress, Answered
  <2> QED BY <2>1, <2>2, <2>3, <2>4, <2>5, <2>6, <2>7, TypePartsNext DEF IInv
<1>4. CASE PspPollAgain
  <2>1. Registers' /\ Driver'
    BY <1>4 DEF PspPollAgain, pspregs, smuregs, psp, smu, clocks, ghosts, Registers,
        Driver, Jobs
  <2>2. Flags'
    BY <1>4, Zenon DEF PspPollAgain, pspregs, smuregs, psp, smu, clocks, ghosts, Flags
  <2>3. scratch5' \in {c.cmd : c \in Calls \cup {NoCall}}
    BY <1>4 DEF PspPollAgain, pspregs, smuregs, psp, smu, clocks, ghosts, TypeOK
  <2>4. PspInStep'
    BY <1>4 DEF PspPollAgain, pspregs, smuregs, psp, smu, clocks, ghosts, PspInStep,
        PspJobs, PspCmd, Driver, Registers
  <2>5. Progress'
    BY <1>4 DEF PspPollAgain, pspregs, smuregs, psp, smu, clocks, ghosts, PspInStep,
        PspJobs, Progress, Answered, Driver, Registers
  <2>6. SmuInStep'
    BY <1>4 DEF PspPollAgain, pspregs, smuregs, psp, smu, clocks, ghosts, SmuInStep,
        SmuReply, PspInStep, PspJobs, Progress
  <2>7. FailsOnlyFor' /\ UnpoweredOnlyIfLeft'
    BY <1>4 DEF PspPollAgain, pspregs, smuregs, psp, smu, clocks, ghosts, FailsOnlyFor,
        UnpoweredOnlyIfLeft, PspInStep, PspJobs, Progress, Answered
  <2> QED BY <2>1, <2>2, <2>3, <2>4, <2>5, <2>6, <2>7, TypePartsNext DEF IInv
<1>5. CASE PspReadResp
  <2>1. Registers' /\ Driver'
    BY <1>5 DEF PspReadResp, pspregs, smuregs, psp, smu, clocks, ghosts, Registers, Driver,
        Jobs, After, PspInStep, PspJobs
  <2>2. Flags'
    BY <1>5, Zenon DEF PspReadResp, pspregs, smuregs, psp, smu, clocks, ghosts, Flags
  <2>3. scratch5' \in {c.cmd : c \in Calls \cup {NoCall}}
    BY <1>5 DEF PspReadResp, pspregs, smuregs, psp, smu, clocks, ghosts, TypeOK
  <2>4. PspInStep'
    BY <1>5 DEF PspReadResp, pspregs, smuregs, psp, smu, clocks, ghosts, PspInStep,
        PspJobs, PspCmd, Driver, Registers
  <2>5. Progress'
    BY <1>5 DEF PspReadResp, pspregs, smuregs, psp, smu, clocks, ghosts, PspInStep,
        PspJobs, Progress, Answered, Driver, Registers, After
  <2>6. SmuInStep'
    BY <1>5 DEF PspReadResp, pspregs, smuregs, psp, smu, clocks, ghosts, SmuInStep,
        SmuReply, PspInStep, PspJobs, Progress, After
  <2>7. FailsOnlyFor' /\ UnpoweredOnlyIfLeft'
    BY <1>5 DEF PspReadResp, pspregs, smuregs, psp, smu, clocks, ghosts, FailsOnlyFor,
        UnpoweredOnlyIfLeft, PspInStep, PspJobs, Progress, Answered, After
  <2> QED BY <2>1, <2>2, <2>3, <2>4, <2>5, <2>6, <2>7, TypePartsNext DEF IInv
<1> QED BY <1>1, <1>2, <1>3, <1>4, <1>5

\* smu_exec(), but for the notification.
LEMMA SmuAccess ==
    ASSUME IInv, SmuClear \/ SmuWriteArg \/ SmuWriteCmd \/ SmuReadResp \/ SmuReadOut
    PROVE  IInv'
<1> USE TypeParts DEF IInv
<1>1. CASE SmuClear
  <2>1. Registers' /\ Driver'
    BY <1>1 DEF SmuClear, pspregs, smuregs, psp, smu, clocks, ghosts, Registers, Driver,
        Jobs
  <2>2. Flags'
    BY <1>1, Zenon DEF SmuClear, pspregs, smuregs, psp, smu, clocks, ghosts, Flags
  <2>3. scratch5' \in {c.cmd : c \in Calls \cup {NoCall}}
    BY <1>1 DEF SmuClear, pspregs, smuregs, psp, smu, clocks, ghosts, TypeOK
  <2>4. PspInStep'
    BY <1>1 DEF SmuClear, pspregs, smuregs, psp, smu, clocks, ghosts, PspInStep, PspJobs,
        PspCmd, Driver, Registers
  <2>5. Progress'
    BY <1>1 DEF SmuClear, pspregs, smuregs, psp, smu, clocks, ghosts, PspInStep, PspJobs,
        Progress, Answered, Driver, Registers
  <2>6. SmuInStep'
    BY <1>1 DEF SmuClear, pspregs, smuregs, psp, smu, clocks, ghosts, SmuInStep, SmuReply,
        PspInStep, PspJobs, Progress
  <2>7. FailsOnlyFor' /\ UnpoweredOnlyIfLeft'
    BY <1>1 DEF SmuClear, pspregs, smuregs, psp, smu, clocks, ghosts, FailsOnlyFor,
        UnpoweredOnlyIfLeft, PspInStep, PspJobs, Progress, Answered
  <2> QED BY <2>1, <2>2, <2>3, <2>4, <2>5, <2>6, <2>7, TypePartsNext DEF IInv
<1>2. CASE SmuWriteArg
  <2>0. call.arg \in Nat
    <3>1. call \in Calls
      BY <1>2 DEF SmuWriteArg, SmuInStep
    <3> QED BY <3>1, CallArg
  <2>1. Registers' /\ Driver'
    BY <1>2, <2>0 DEF SmuWriteArg, pspregs, smuregs, psp, smu, clocks, ghosts, Registers,
        Driver, Jobs
  <2>2. Flags'
    BY <1>2, Zenon DEF SmuWriteArg, pspregs, smuregs, psp, smu, clocks, ghosts, Flags
  <2>3. scratch5' \in {c.cmd : c \in Calls \cup {NoCall}}
    BY <1>2 DEF SmuWriteArg, pspregs, smuregs, psp, smu, clocks, ghosts, TypeOK
  <2>4. PspInStep'
    BY <1>2 DEF SmuWriteArg, pspregs, smuregs, psp, smu, clocks, ghosts, PspInStep,
        PspJobs, PspCmd, Driver, Registers
  <2>5. Progress'
    BY <1>2 DEF SmuWriteArg, pspregs, smuregs, psp, smu, clocks, ghosts, PspInStep,
        PspJobs, Progress, Answered, Driver, Registers
  <2>6. SmuInStep'
    BY <1>2 DEF SmuWriteArg, pspregs, smuregs, psp, smu, clocks, ghosts, SmuInStep,
        SmuReply, PspInStep, PspJobs, Progress
  <2>7. FailsOnlyFor' /\ UnpoweredOnlyIfLeft'
    BY <1>2 DEF SmuWriteArg, pspregs, smuregs, psp, smu, clocks, ghosts, FailsOnlyFor,
        UnpoweredOnlyIfLeft, PspInStep, PspJobs, Progress, Answered
  <2> QED BY <2>1, <2>2, <2>3, <2>4, <2>5, <2>6, <2>7, TypePartsNext DEF IInv
<1>3. CASE SmuWriteCmd
  <2>1. Registers' /\ Driver'
    BY <1>3 DEF SmuWriteCmd, pspregs, smuregs, psp, smu, clocks, ghosts, Registers, Driver,
        Jobs, SmuInStep, Calls, UserCalls
  <2>2. Flags'
    BY <1>3, Zenon DEF SmuWriteCmd, pspregs, smuregs, psp, smu, clocks, ghosts, Flags
  <2>3. scratch5' \in {c.cmd : c \in Calls \cup {NoCall}}
    BY <1>3 DEF SmuWriteCmd, pspregs, smuregs, psp, smu, clocks, ghosts, TypeOK
  <2>4. PspInStep'
    BY <1>3 DEF SmuWriteCmd, pspregs, smuregs, psp, smu, clocks, ghosts, PspInStep,
        PspJobs, PspCmd, Driver, Registers
  <2>5. Progress'
    BY <1>3 DEF SmuWriteCmd, pspregs, smuregs, psp, smu, clocks, ghosts, PspInStep,
        PspJobs, Progress, Answered, Driver, Registers
  <2>6. SmuInStep'
    BY <1>3 DEF SmuWriteCmd, pspregs, smuregs, psp, smu, clocks, ghosts, SmuInStep,
        SmuReply, PspInStep, PspJobs, Progress
  <2>7. FailsOnlyFor' /\ UnpoweredOnlyIfLeft'
    BY <1>3 DEF SmuWriteCmd, pspregs, smuregs, psp, smu, clocks, ghosts, FailsOnlyFor,
        UnpoweredOnlyIfLeft, PspInStep, PspJobs, Progress, Answered
  <2> QED BY <2>1, <2>2, <2>3, <2>4, <2>5, <2>6, <2>7, TypePartsNext DEF IInv
<1>4. CASE SmuReadResp
  <2>0. scratch6 # 0 /\ job' = job
    BY <1>4, SmuReplied DEF SmuReadResp
  <2>1. Registers' /\ Driver'
    BY <1>4, <2>0 DEF SmuReadResp, pspregs, smuregs, psp, smu, clocks, ghosts, Registers,
        Driver, Jobs
  <2>2. Flags'
    BY <1>4, Zenon DEF SmuReadResp, pspregs, smuregs, psp, smu, clocks, ghosts, Flags
  <2>3. scratch5' \in {c.cmd : c \in Calls \cup {NoCall}}
    BY <1>4 DEF SmuReadResp, pspregs, smuregs, psp, smu, clocks, ghosts, TypeOK
  <2>4. PspInStep'
    BY <1>4, <2>0 DEF SmuReadResp, pspregs, smuregs, psp, smu, clocks, ghosts, PspInStep,
        PspJobs, PspCmd, Driver, Registers
  <2>5. Progress'
    BY <1>4, <2>0 DEF SmuReadResp, pspregs, smuregs, psp, smu, clocks, ghosts, PspInStep,
        PspJobs, Progress, Answered, Driver, Registers
  <2>6. SmuInStep'
    BY <1>4, <2>0 DEF SmuReadResp, pspregs, smuregs, psp, smu, clocks, ghosts, SmuInStep,
        SmuReply, PspInStep, PspJobs, Progress
  <2>7. FailsOnlyFor' /\ UnpoweredOnlyIfLeft'
    BY <1>4, <2>0 DEF SmuReadResp, pspregs, smuregs, psp, smu, clocks, ghosts,
        FailsOnlyFor, UnpoweredOnlyIfLeft, PspInStep, PspJobs, Progress, Answered
  <2> QED BY <2>1, <2>2, <2>3, <2>4, <2>5, <2>6, <2>7, TypePartsNext DEF IInv
<1>5. CASE SmuReadOut
  <2>0. \/ job' = job
        \/ job = "power_off" /\ job' = "power_on"
        \/ job = "power_on" /\ job' = "validate" /\ power_on
        \/ job = "stop" /\ job' = "down"
    BY <1>5, SmuReplied DEF SmuReadOut, After
  <2>1. Registers' /\ Driver'
    BY <1>5, <2>0 DEF SmuReadOut, pspregs, smuregs, psp, smu, clocks, ghosts, Registers,
        Driver, Jobs
  <2>2. Flags'
    BY <1>5, Zenon DEF SmuReadOut, pspregs, smuregs, psp, smu, clocks, ghosts, Flags
  <2>3. scratch5' \in {c.cmd : c \in Calls \cup {NoCall}}
    BY <1>5 DEF SmuReadOut, pspregs, smuregs, psp, smu, clocks, ghosts, TypeOK
  <2>4. PspInStep'
    BY <1>5, <2>0 DEF SmuReadOut, pspregs, smuregs, psp, smu, clocks, ghosts, PspInStep,
        PspJobs, PspCmd, Driver, Registers
  <2>5. Progress'
    BY <1>5, <2>0 DEF SmuReadOut, pspregs, smuregs, psp, smu, clocks, ghosts, PspInStep,
        PspJobs, Progress, Answered, Driver, Registers
  <2>6. SmuInStep'
    BY <1>5, <2>0 DEF SmuReadOut, pspregs, smuregs, psp, smu, clocks, ghosts, SmuInStep,
        SmuReply, PspInStep, PspJobs, Progress
  <2>7. FailsOnlyFor' /\ UnpoweredOnlyIfLeft'
    BY <1>5, <2>0 DEF SmuReadOut, pspregs, smuregs, psp, smu, clocks, ghosts, FailsOnlyFor,
        UnpoweredOnlyIfLeft, PspInStep, PspJobs, Progress, Answered
  <2> QED BY <2>1, <2>2, <2>3, <2>4, <2>5, <2>6, <2>7, TypePartsNext DEF IInv
<1> QED BY <1>1, <1>2, <1>3, <1>4, <1>5

\* The firmware is found alive, the driver dies, the machine is reset.
LEMMA LifeStep ==
    ASSUME IInv, ReadAlive \/ Crash \/ Reset
    PROVE  IInv'
<1> USE TypeParts DEF IInv
<1>1. CASE ReadAlive
  <2>1. Registers' /\ Driver'
    BY <1>1 DEF ReadAlive, pspregs, smuregs, psp, smu, clocks, ghosts, Registers, Driver,
        Jobs, After
  <2>2. Flags'
    BY <1>1, Zenon DEF ReadAlive, pspregs, smuregs, psp, smu, clocks, ghosts, Flags
  <2>3. scratch5' \in {c.cmd : c \in Calls \cup {NoCall}}
    BY <1>1 DEF ReadAlive, pspregs, smuregs, psp, smu, clocks, ghosts, TypeOK
  <2>4. PspInStep'
    BY <1>1 DEF ReadAlive, pspregs, smuregs, psp, smu, clocks, ghosts, PspInStep, PspJobs,
        PspCmd, Driver, Registers
  <2>5. Progress'
    BY <1>1 DEF ReadAlive, pspregs, smuregs, psp, smu, clocks, ghosts, PspInStep, PspJobs,
        Progress, Answered, Driver, Registers, After
  <2>6. SmuInStep'
    BY <1>1 DEF ReadAlive, pspregs, smuregs, psp, smu, clocks, ghosts, SmuInStep, SmuReply,
        PspInStep, PspJobs, Progress, After
  <2>7. FailsOnlyFor' /\ UnpoweredOnlyIfLeft'
    BY <1>1 DEF ReadAlive, pspregs, smuregs, psp, smu, clocks, ghosts, FailsOnlyFor,
        UnpoweredOnlyIfLeft, PspInStep, PspJobs, Progress, Answered, After
  <2> QED BY <2>1, <2>2, <2>3, <2>4, <2>5, <2>6, <2>7, TypePartsNext DEF IInv
<1>2. CASE Crash
  <2>1. Registers' /\ Driver'
    BY <1>2 DEF Crash, pspregs, smuregs, psp, smu, clocks, ghosts, Registers, Driver, Jobs
  <2>2. Flags'
    BY <1>2, Zenon DEF Crash, pspregs, smuregs, psp, smu, clocks, ghosts, Flags
  <2>3. scratch5' \in {c.cmd : c \in Calls \cup {NoCall}}
    BY <1>2 DEF Crash, pspregs, smuregs, psp, smu, clocks, ghosts, TypeOK
  <2>4. PspInStep'
    BY <1>2 DEF Crash, pspregs, smuregs, psp, smu, clocks, ghosts, PspInStep, PspJobs,
        PspCmd, Driver, Registers
  <2>5. Progress'
    BY <1>2 DEF Crash, pspregs, smuregs, psp, smu, clocks, ghosts, PspInStep, PspJobs,
        Progress, Answered, Driver, Registers
  <2>6. SmuInStep'
    BY <1>2 DEF Crash, pspregs, smuregs, psp, smu, clocks, ghosts, SmuInStep, SmuReply,
        PspInStep, PspJobs, Progress
  <2>7. FailsOnlyFor' /\ UnpoweredOnlyIfLeft'
    BY <1>2 DEF Crash, pspregs, smuregs, psp, smu, clocks, ghosts, FailsOnlyFor,
        UnpoweredOnlyIfLeft, PspInStep, PspJobs, Progress, Answered
  <2> QED BY <2>1, <2>2, <2>3, <2>4, <2>5, <2>6, <2>7, TypePartsNext DEF IInv
<1>3. CASE Reset
  <2>1. Registers' /\ Driver'
    BY <1>3, LevelsAssumption DEF Reset, pspregs, smuregs, psp, smu, clocks, ghosts,
        Registers, Driver, Jobs
  <2>2. Flags'
    BY <1>3, Zenon DEF Reset, pspregs, smuregs, psp, smu, clocks, ghosts, Flags
  <2>3. scratch5' \in {c.cmd : c \in Calls \cup {NoCall}}
    <3>1. scratch5' = NoCall.cmd
      BY <1>3 DEF Reset, NoCall
    <3> QED BY <3>1
  <2>4. PspInStep'
    BY <1>3 DEF Reset, pspregs, smuregs, psp, smu, clocks, ghosts, PspInStep, PspJobs,
        PspCmd, Driver, Registers
  <2>5. Progress'
    BY <1>3 DEF Reset, pspregs, smuregs, psp, smu, clocks, ghosts, PspInStep, PspJobs,
        Progress, Answered, Driver, Registers
  <2>6. SmuInStep'
    BY <1>3 DEF Reset, pspregs, smuregs, psp, smu, clocks, ghosts, SmuInStep, SmuReply,
        PspInStep, PspJobs, Progress
  <2>7. FailsOnlyFor' /\ UnpoweredOnlyIfLeft'
    BY <1>3 DEF Reset, pspregs, smuregs, psp, smu, clocks, ghosts, FailsOnlyFor,
        UnpoweredOnlyIfLeft, PspInStep, PspJobs, Progress, Answered
  <2> QED BY <2>1, <2>2, <2>3, <2>4, <2>5, <2>6, <2>7, TypePartsNext DEF IInv
<1> QED BY <1>1, <1>2, <1>3

\* A notification of PSP: one command, answered before the write returns.
LEMMA PspNotifyStep ==
    ASSUME IInv, PspNotify
    PROVE  IInv'
<1> USE TypeParts DEF IInv
<1>0. /\ p = "notify" /\ p' = "wait"
      /\ job \in PspJobs /\ scratch2 = PspCmd /\ scratch2' = "READY"
      /\ UNCHANGED <<smuregs, smu, job, s, call, abandoned>>
  BY DEF PspNotify, PspKick, Validate, ValidateCert, Start, ReleaseTmr, PspUnknown,
         FetchImage, PspComplete, PspInStep
<1>a. /\ scratch5' \in {c.cmd : c \in Calls \cup {NoCall}}
      /\ PspInStep' /\ SmuInStep' /\ Driver'
  <2>1. scratch5' \in {c.cmd : c \in Calls \cup {NoCall}}
    BY <1>0 DEF TypeOK, smuregs
  <2>2. PspInStep' /\ Driver'
    BY <1>0 DEF PspInStep, PspJobs, Driver
  <2>3. SmuInStep'
    BY <1>0 DEF SmuInStep, SmuReply, smuregs, smu, clocks
  <2> QED BY <2>1, <2>2, <2>3
<1>1. ASSUME NEW resp \in FetchResults, Validate(resp) PROVE IInv'
  <2>0. job = "validate"
    BY <1>0, <1>1 DEF Validate, FetchImage, PspComplete, PspJobs, PspCmd
  <2>1. Registers'
    BY <1>0, <1>1 DEF Validate, FetchImage, PspComplete, smuregs, smu, clocks, psp,
        FetchResults, Registers
  <2>2. Flags'
    BY <1>0, <1>1, Zenon DEF Validate, FetchImage, PspComplete, smuregs, smu, clocks, psp,
        Flags
  <2>3. Progress' /\ FailsOnlyFor' /\ UnpoweredOnlyIfLeft'
    BY <1>0, <2>0, <1>1 DEF Validate, FetchImage, PspComplete, smuregs, smu, clocks, psp,
        Progress, Answered, FailsOnlyFor, UnpoweredOnlyIfLeft
  <2> QED BY <1>a, <2>1, <2>2, <2>3, TypePartsNext
<1>2. ASSUME NEW resp \in FetchResults, ValidateCert(resp) PROVE IInv'
  <2>0. job = "cert"
    BY <1>0, <1>2 DEF ValidateCert, FetchImage, PspComplete, PspJobs, PspCmd
  <2>1. Registers'
    BY <1>0, <1>2 DEF ValidateCert, FetchImage, PspComplete, smuregs, smu, clocks, psp,
        FetchResults, Registers
  <2>2. Flags'
    BY <1>0, <1>2, Zenon DEF ValidateCert, FetchImage, PspComplete, smuregs, smu, clocks,
        psp, Flags
  <2>3. Progress' /\ FailsOnlyFor' /\ UnpoweredOnlyIfLeft'
    BY <1>0, <2>0, <1>2 DEF ValidateCert, FetchImage, PspComplete, smuregs, smu, clocks,
        psp, Progress, Answered, FailsOnlyFor, UnpoweredOnlyIfLeft
  <2> QED BY <1>a, <2>1, <2>2, <2>3, TypePartsNext
<1>3. CASE Start
  <2>0. job = "start"
    BY <1>0, <1>3 DEF Start, PspComplete, PspJobs, PspCmd
  <2>1. Registers'
    BY <1>0, <1>3 DEF Start, PspComplete, smuregs, smu, clocks, psp, FetchResults,
        Registers
  <2>2. Flags'
    BY <1>0, <1>3, Zenon DEF Start, PspComplete, smuregs, smu, clocks, psp, Flags
  <2>3. Progress' /\ FailsOnlyFor' /\ UnpoweredOnlyIfLeft'
    BY <1>0, <2>0, <1>3 DEF Start, PspComplete, smuregs, smu, clocks, psp, Progress,
        Answered, FailsOnlyFor, UnpoweredOnlyIfLeft
  <2> QED BY <1>a, <2>1, <2>2, <2>3, TypePartsNext
<1>4. CASE ReleaseTmr
  <2>0. job = "release"
    BY <1>0, <1>4 DEF ReleaseTmr, StateAfterRelease, AliveAfterRelease, PspComplete, PspJobs, PspCmd
  <2>1. Registers'
    BY <1>0, <1>4 DEF ReleaseTmr, StateAfterRelease, AliveAfterRelease, PspComplete,
        smuregs, smu, clocks, psp, FetchResults, Registers
  <2>2. Flags'
    BY <1>0, <1>4, Zenon DEF ReleaseTmr, StateAfterRelease, AliveAfterRelease, PspComplete,
        smuregs, smu, clocks, psp, Flags
  <2>3. Progress' /\ FailsOnlyFor' /\ UnpoweredOnlyIfLeft'
    BY <1>0, <2>0, <1>4 DEF ReleaseTmr, StateAfterRelease, AliveAfterRelease, PspComplete,
        smuregs, smu, clocks, psp, Progress, Answered, FailsOnlyFor, UnpoweredOnlyIfLeft
  <2> QED BY <1>a, <2>1, <2>2, <2>3, TypePartsNext
<1>5. CASE PspUnknown
  <2>0. job = "other"
    BY <1>0, <1>5 DEF PspUnknown, PspComplete, PspJobs, PspCmd
  <2>1. Registers'
    BY <1>0, <1>5 DEF PspUnknown, PspComplete, smuregs, smu, clocks, psp, FetchResults,
        Registers
  <2>2. Flags'
    BY <1>0, <1>5, Zenon DEF PspUnknown, PspComplete, smuregs, smu, clocks, psp, Flags
  <2>3. Progress' /\ FailsOnlyFor' /\ UnpoweredOnlyIfLeft'
    BY <1>0, <2>0, <1>5 DEF PspUnknown, PspComplete, smuregs, smu, clocks, psp, Progress,
        Answered, FailsOnlyFor, UnpoweredOnlyIfLeft
  <2> QED BY <1>a, <2>1, <2>2, <2>3, TypePartsNext
<1> QED BY <1>1, <1>2, <1>3, <1>4, <1>5 DEF PspNotify, PspKick

\* A notification of SMU: the command that was written, with its argument.
LEMMA SmuNotifyStep ==
    ASSUME IInv, SmuNotify
    PROVE  IInv'
<1> USE TypeParts DEF IInv
<1>0. /\ s = "notify" /\ s' = "wait" /\ call \in Calls
      /\ scratch5 = call.cmd /\ scratch7 = call.arg /\ call.arg \in Nat
      /\ UNCHANGED <<pspregs, scratch5, psp, job, p, call, ghosts>>
  BY CallArg DEF SmuNotify, SmuInStep
<1>a. /\ scratch5' \in {c.cmd : c \in Calls \cup {NoCall}}
      /\ PspInStep' /\ Driver' /\ FailsOnlyFor'
  <2>1. scratch5' \in {c.cmd : c \in Calls \cup {NoCall}}
    BY <1>0 DEF TypeOK
  <2>2. PspInStep' /\ Driver' /\ FailsOnlyFor'
    BY <1>0 DEF PspInStep, PspJobs, PspCmd, Driver, FailsOnlyFor, pspregs, ghosts
  <2> QED BY <2>1, <2>2
<1>b. /\ call.cmd = "POWER_OFF" => job \in {"power_off", "stop"}
      /\ call.cmd = "POWER_ON" => job = "power_on"
      /\ call.cmd \notin {"POWER_ON", "POWER_OFF"} => call \in UserCalls
  BY <1>0 DEF SmuInStep, Calls, UserCalls
<1>1. CASE scratch5 = "POWER_ON" /\ PowerOn
  <2>1. Registers'
    BY <1>0, <1>b, LevelsAssumption, <1>1 DEF PowerOn, SmuComplete, smu, clocks, Registers,
        pspregs, psp, UserCalls
  <2>2. Flags'
    BY <1>0, <1>1, Zenon DEF PowerOn, SmuComplete, smu, clocks, Flags, psp, ghosts
  <2>3. Progress' /\ UnpoweredOnlyIfLeft'
    BY <1>0, <1>b, <1>1 DEF PowerOn, SmuComplete, smu, clocks, pspregs, psp, ghosts,
        Progress, Answered, UnpoweredOnlyIfLeft
  <2>4. SmuInStep'
    BY <1>0, <1>1 DEF PowerOn, SmuComplete, smu, clocks, SmuInStep, SmuReply
  <2> QED BY <1>a, <2>1, <2>2, <2>3, <2>4, TypePartsNext
<1>2. CASE scratch5 = "POWER_OFF" /\ PowerOff
  <2>1. Registers'
    BY <1>0, <1>b, LevelsAssumption, <1>2 DEF PowerOff, SmuComplete, smu, clocks,
        Registers, pspregs, psp, UserCalls
  <2>2. Flags'
    BY <1>0, <1>2, Zenon DEF PowerOff, SmuComplete, smu, clocks, Flags, psp, ghosts
  <2>3. Progress' /\ UnpoweredOnlyIfLeft'
    BY <1>0, <1>b, <1>2 DEF PowerOff, SmuComplete, smu, clocks, pspregs, psp, ghosts,
        Progress, Answered, UnpoweredOnlyIfLeft
  <2>4. SmuInStep'
    BY <1>0, <1>2 DEF PowerOff, SmuComplete, smu, clocks, SmuInStep, SmuReply
  <2> QED BY <1>a, <2>1, <2>2, <2>3, <2>4, TypePartsNext
<1>3. CASE scratch5 = "SET_NPUCLK" /\ SetNpuClk
  <2>1. Registers'
    BY <1>0, <1>b, LevelsAssumption, <1>3 DEF SetNpuClk, SmuComplete, smu, clocks,
        Registers, pspregs, psp, UserCalls
  <2>2. Flags'
    BY <1>0, <1>3, Zenon DEF SetNpuClk, SmuComplete, smu, clocks, Flags, psp, ghosts
  <2>3. Progress' /\ UnpoweredOnlyIfLeft'
    BY <1>0, <1>b, <1>3 DEF SetNpuClk, SmuComplete, smu, clocks, pspregs, psp, ghosts,
        Progress, Answered, UnpoweredOnlyIfLeft
  <2>4. SmuInStep'
    BY <1>0, <1>3 DEF SetNpuClk, SmuComplete, smu, clocks, SmuInStep, SmuReply
  <2> QED BY <1>a, <2>1, <2>2, <2>3, <2>4, TypePartsNext
<1>4. CASE scratch5 = "SET_HCLK" /\ SetHClk
  <2>1. Registers'
    BY <1>0, <1>b, LevelsAssumption, <1>4 DEF SetHClk, SmuComplete, smu, clocks, Registers,
        pspregs, psp, UserCalls
  <2>2. Flags'
    BY <1>0, <1>4, Zenon DEF SetHClk, SmuComplete, smu, clocks, Flags, psp, ghosts
  <2>3. Progress' /\ UnpoweredOnlyIfLeft'
    BY <1>0, <1>b, <1>4 DEF SetHClk, SmuComplete, smu, clocks, pspregs, psp, ghosts,
        Progress, Answered, UnpoweredOnlyIfLeft
  <2>4. SmuInStep'
    BY <1>0, <1>4 DEF SetHClk, SmuComplete, smu, clocks, SmuInStep, SmuReply
  <2> QED BY <1>a, <2>1, <2>2, <2>3, <2>4, TypePartsNext
<1>5. CASE scratch5 = "SET_DPM" /\ SetDpm
  <2>1. Registers'
    BY <1>0, <1>b, LevelsAssumption, <1>5 DEF SetDpm, SmuComplete, smu, clocks, Registers,
        pspregs, psp, UserCalls
  <2>2. Flags'
    BY <1>0, <1>5, Zenon DEF SetDpm, SmuComplete, smu, clocks, Flags, psp, ghosts
  <2>3. Progress' /\ UnpoweredOnlyIfLeft'
    BY <1>0, <1>b, <1>5 DEF SetDpm, SmuComplete, smu, clocks, pspregs, psp, ghosts,
        Progress, Answered, UnpoweredOnlyIfLeft
  <2>4. SmuInStep'
    BY <1>0, <1>5 DEF SetDpm, SmuComplete, smu, clocks, SmuInStep, SmuReply
  <2> QED BY <1>a, <2>1, <2>2, <2>3, <2>4, TypePartsNext
<1>6. CASE scratch5 = "OTHER" /\ SmuComplete(2, 0) /\ UNCHANGED smu
  <2>1. Registers'
    BY <1>0, <1>b, LevelsAssumption, <1>6 DEF SmuComplete, smu, clocks, Registers, pspregs,
        psp, UserCalls
  <2>2. Flags'
    BY <1>0, <1>6, Zenon DEF SmuComplete, smu, clocks, Flags, psp, ghosts
  <2>3. Progress' /\ UnpoweredOnlyIfLeft'
    BY <1>0, <1>b, <1>6 DEF SmuComplete, smu, clocks, pspregs, psp, ghosts, Progress,
        Answered, UnpoweredOnlyIfLeft
  <2>4. SmuInStep'
    BY <1>0, <1>6 DEF SmuComplete, smu, clocks, SmuInStep, SmuReply
  <2> QED BY <1>a, <2>1, <2>2, <2>3, <2>4, TypePartsNext
<1> QED BY <1>1, <1>2, <1>3, <1>4, <1>5, <1>6 DEF SmuNotify, SmuKick

\* The driver turns to its next job, or calls SMU.
LEMMA TurnStep ==
    ASSUME IInv,
           \/ Turn("down", "power_off") \/ Turn("start", "cert")
           \/ Turn("up", "release") \/ Turn("up", "other")
    PROVE  IInv'
<1> USE TypeParts DEF IInv
<1>0. /\ p = "idle"
      /\ \/ job = "down" /\ job' = "power_off"
         \/ job = "start" /\ job' = "cert"
         \/ job = "up" /\ job' \in {"release", "other"}
      /\ UNCHANGED <<pspregs, smuregs, psp, smu, p, s, call, ghosts>>
  BY DEF Turn
<1>1. Registers' /\ Driver'
  BY <1>0 DEF pspregs, smuregs, psp, smu, clocks, Registers, Driver, Jobs
<1>2. Flags'
  BY <1>0, Zenon DEF psp, smu, ghosts, Flags
<1>3. scratch5' \in {c.cmd : c \in Calls \cup {NoCall}}
  BY <1>0 DEF smuregs, TypeOK
<1>4. PspInStep' /\ SmuInStep'
  BY <1>0 DEF pspregs, smuregs, smu, clocks, ghosts, PspInStep, SmuInStep, SmuReply
<1>5. Progress' /\ FailsOnlyFor' /\ UnpoweredOnlyIfLeft'
  BY <1>0 DEF pspregs, psp, smu, ghosts, Progress, Answered, FailsOnlyFor, UnpoweredOnlyIfLeft
<1> QED BY <1>1, <1>2, <1>3, <1>4, <1>5, TypePartsNext

\* The driver begins an SMU command.
LEMMA SmuCallStep ==
    ASSUME IInv, NEW c \in Calls, SmuCall(c)
    PROVE  IInv'
<1> USE TypeParts DEF IInv
<1>0. /\ s = "idle" /\ s' = "clear" /\ call' = c
      /\ UNCHANGED <<pspregs, smuregs, psp, smu, job, p, ghosts>>
  BY DEF SmuCall
<1>1. Registers' /\ Driver'
  BY <1>0 DEF pspregs, smuregs, psp, smu, clocks, Registers, Driver
<1>2. Flags'
  BY <1>0, Zenon DEF psp, smu, ghosts, Flags
<1>3. scratch5' \in {d.cmd : d \in Calls \cup {NoCall}}
  BY <1>0 DEF smuregs, TypeOK
<1>4. PspInStep'
  BY <1>0 DEF pspregs, ghosts, PspInStep, PspCmd
<1>5. SmuInStep'
  BY <1>0 DEF SmuCall, SmuInStep
<1>6. Progress' /\ FailsOnlyFor' /\ UnpoweredOnlyIfLeft'
  BY <1>0 DEF pspregs, psp, smu, ghosts, Progress, Answered, FailsOnlyFor, UnpoweredOnlyIfLeft
<1> QED BY <1>1, <1>2, <1>3, <1>4, <1>5, <1>6, TypePartsNext

\* The invariant holds at power-up.
LEMMA InitInv == Init => IInv
<1> SUFFICES ASSUME Init PROVE IInv
  OBVIOUS
<1>1. Registers /\ Driver
  BY LevelsAssumption DEF Init, Registers, Driver, Jobs
<1>2. Flags
  BY Zenon DEF Init, Flags
<1>3. scratch5 \in {c.cmd : c \in Calls \cup {NoCall}}
  <2>1. scratch5 = NoCall.cmd
    BY DEF Init, NoCall
  <2> QED BY <2>1
<1>4. TypeOK
  BY <1>1, <1>2, <1>3 DEF Registers, Driver, Flags, TypeOK
<1>5. PspInStep /\ Progress /\ SmuInStep /\ FailsOnlyFor /\ UnpoweredOnlyIfLeft
  BY DEF Init, PspInStep, Progress, Answered, SmuInStep, FailsOnlyFor, UnpoweredOnlyIfLeft
<1> QED BY <1>4, <1>5 DEF IInv

\* Every step keeps the invariant.
LEMMA NextInv == IInv /\ [Next]_vars => IInv'
<1> SUFFICES ASSUME IInv, [Next]_vars PROVE IInv'
  OBVIOUS
<1>1. CASE UNCHANGED vars
  <2>1. TypeOK'
    BY <1>1 DEF IInv, vars, pspregs, smuregs, psp, smu, clocks, ghosts, TypeOK
  <2>2. PspInStep' /\ Progress' /\ FailsOnlyFor' /\ UnpoweredOnlyIfLeft'
    BY ZenonT(60), <1>1 DEF IInv, vars, pspregs, psp, smu, ghosts, PspInStep, PspCmd, Progress, Answered,
                FailsOnlyFor, UnpoweredOnlyIfLeft
  <2>3. SmuInStep'
    BY <1>1 DEF IInv, vars, smuregs, smu, clocks, SmuInStep, SmuReply
  <2> QED BY <2>1, <2>2, <2>3 DEF IInv
<1>2. CASE Next
  BY <1>2, PspAccess, SmuAccess, LifeStep, PspNotifyStep, SmuNotifyStep, TurnStep, SmuCallStep
     DEF Next
<1> QED BY <1>1, <1>2

\* The invariant holds in every state.
LEMMA BootInv == Spec => []IInv
BY InitInv, NextInv, PTL DEF Spec
-----------------------------------------------------------------------------
\* The registers hold what fits their two uses, and the DPM level in force is one
\* the hardware has.
THEOREM BootTyped == Spec => []TypeOK
BY BootInv, PTL DEF IInv

\* Whatever drivers died where: a boot or stop sequence fails only for an image that
\* cannot be read or a PSP command that was left half written.
THEOREM BootFailsOnlyFor == Spec => []FailsOnlyFor
BY BootInv, PTL DEF IInv

\* A driver that is up has a device that is powered and runs firmware.
THEOREM BootedMeansRunning == Spec => []UpMeansRunning
<1>1. IInv => UpMeansRunning
  BY DEF IInv, Progress, UpMeansRunning
<1> QED BY <1>1, BootInv, PTL

\* Firmware runs without power only where a driver died and the next one has taken
\* the power away.
THEOREM PowerWhereOwned == Spec => []UnpoweredOnlyIfLeft
BY BootInv, PTL DEF IInv

\* Every SMU call reads its own answer, although ARG and OUT are one register.
THEOREM SmuReadsItsAnswer == Spec => []SmuAnswered
<1>1. IInv => SmuAnswered
  <2> SUFFICES ASSUME IInv, s = "out" PROVE SmuAnswered
    BY DEF SmuAnswered
  <2>1. SmuReply /\ call \in Calls
    BY DEF IInv, SmuInStep
  <2>2. power_on \in BOOLEAN
    BY DEF IInv, TypeOK
  <2>3. CASE call.cmd = "POWER_ON"
    BY <2>1, <2>2, <2>3 DEF SmuReply, SmuAnswered
  <2>4. CASE call.cmd = "POWER_OFF"
    BY <2>1, <2>2, <2>4 DEF SmuReply, SmuAnswered
  <2>5. CASE call.cmd = "SET_DPM"
    BY <2>1, <2>5 DEF SmuReply, SmuAnswered
  <2>6. CASE call.cmd = "SET_NPUCLK"
    BY <2>1, <2>6 DEF SmuReply, SmuAnswered
  <2>7. CASE call.cmd = "SET_HCLK"
    BY <2>1, <2>7 DEF SmuReply, SmuAnswered
  <2>8. CASE call.cmd = "OTHER"
    BY <2>1, <2>8 DEF SmuReply, SmuAnswered
  <2> QED BY <2>1, <2>3, <2>4, <2>5, <2>6, <2>7, <2>8 DEF Calls, UserCalls
<1> QED BY <1>1, BootInv, PTL
-----------------------------------------------------------------------------
(* The control plane                                                       *)

\* The part of the state the control plane sees.
seen == <<power_on, psp>>

\* A step that XdnaNpu cannot see is a stutter of it.
LEMMA SeenUnchanged == UNCHANGED seen => UNCHANGED Control!vars
BY DEF seen, psp, Control!vars, Control!psp, Control!fw, Control!mert

\* Everything the mapping fixes.
LEMMA Fixed ==
    /\ Control!Slots = {0} /\ Control!Chans = {0, 1}
    /\ [i \in Control!Slots |-> Control!NoCtx]
         = [i \in {0} |-> [valid |-> FALSE, id |-> 0, chan |-> 0, heap |-> 2]]
<1>1. Control!Slots = {0} /\ Control!Chans = {0, 1}
  BY DEF Control!Slots, Control!Chans
<1> QED BY <1>1 DEF Control!NoCtx

\* The initial states map to initial states of XdnaNpu.
LEMMA ControlInit == Init => Control!Init
<1> SUFFICES ASSUME Init PROVE Control!Init
  OBVIOUS
<1>1. [c \in {0, 1} |-> c = 0 /\ fw_alive] = [c \in Control!Chans |-> FALSE]
  BY Fixed DEF Init
<1>2. /\ power_on = FALSE /\ psp_state = "COLD" /\ fw_alive = FALSE /\ alive_word = FALSE
  BY Zenon DEF Init
<1> QED BY <1>1, <1>2, Fixed, Zenon DEF Control!Init

\* Reset, the two power commands, and the three PSP commands that change state.
LEMMA ControlReset == Reset => Control!Reset
<1> SUFFICES ASSUME Reset PROVE Control!Reset
  OBVIOUS
<1>1. [c \in {0, 1} |-> c = 0 /\ fw_alive'] = [c \in Control!Chans |-> FALSE]
  BY Fixed DEF Reset
<1>2. /\ power_on' = FALSE /\ psp_state' = "COLD" /\ fw_alive' = FALSE /\ alive_word' = FALSE
  BY Zenon DEF Reset
<1> QED BY <1>1, <1>2, Fixed, Zenon DEF Control!Reset

\* A power command is SmuPower.
LEMMA ControlPower ==
    ASSUME NEW on \in BOOLEAN, power_on' = on, UNCHANGED psp
    PROVE  Control!SmuPower(on)
BY DEF psp, Control!SmuPower, Control!fw, Control!mert

\* A firmware image accepted is PspValidate.
LEMMA ControlValidate ==
    ASSUME psp_state' = "VALIDATED", UNCHANGED <<power_on, fw_alive, alive_word>>
    PROVE  Control!PspValidate
BY DEF Control!PspValidate, Control!fw, Control!mert

\* The firmware boots: PspStart.
LEMMA ControlStart ==
    ASSUME psp_state = "VALIDATED", psp_state' = "RUNNING", fw_alive' = TRUE,
           alive_word' = TRUE, UNCHANGED power_on
    PROVE  Control!PspStart
<1>1. [c \in {0, 1} |-> c = 0 /\ fw_alive']
        = [[c \in {0, 1} |-> c = 0 /\ fw_alive] EXCEPT ![0] = TRUE]
  OBVIOUS
<1>2. Control!FwBoot
  BY <1>1, Zenon DEF Control!FwBoot
<1> QED BY <1>2, Zenon DEF Control!PspStart

\* The firmware is released: PspReleaseTmr.
LEMMA ControlRelease ==
    ASSUME psp_state' = "COLD", fw_alive' = FALSE, alive_word' = FALSE, UNCHANGED power_on
    PROVE  Control!PspReleaseTmr
<1> DEFINE table == [i \in {0} |-> [valid |-> FALSE, id |-> 0, chan |-> 0, heap |-> 2]]
<1>1. [c \in {0, 1} |-> c = 0 /\ fw_alive'] = [c \in Control!Chans |-> FALSE]
  BY Fixed
<1>2. table = [i \in Control!Slots |-> [table[i] EXCEPT !.valid = FALSE]]
  BY Fixed
<1>3. Control!FwShutdown
  BY <1>1, <1>2, Zenon DEF Control!FwShutdown
<1> QED BY <1>3, Zenon DEF Control!PspReleaseTmr

\* Every step maps to a step of XdnaNpu, or a stutter.
LEMMA ControlNext == IInv /\ [Next]_vars => [Control!Next]_(Control!vars)
<1> SUFFICES ASSUME IInv, [Next]_vars PROVE [Control!Next]_(Control!vars)
  OBVIOUS
<1>1. CASE UNCHANGED seen
  BY <1>1, SeenUnchanged
<1>2. CASE Reset
  BY <1>2, ControlReset DEF Control!Next
<1>3. ASSUME PspNotify PROVE [Control!Next]_(Control!vars)
  <2>0. UNCHANGED power_on
    BY <1>3 DEF PspNotify, smu
  <2>1. ASSUME NEW resp \in FetchResults, Validate(resp)
        PROVE  Control!PspValidate \/ UNCHANGED seen
    BY <2>0, <2>1, ControlValidate DEF Validate, seen, psp
  <2>2. ASSUME NEW resp \in FetchResults, ValidateCert(resp) PROVE UNCHANGED seen
    BY <2>0, <2>2 DEF ValidateCert, seen, psp
  <2>3. ASSUME Start PROVE Control!PspStart \/ UNCHANGED seen
    <3>1. CASE psp_state = "VALIDATED"
      <4>1. psp_state' = "RUNNING" /\ fw_alive' = TRUE /\ alive_word' = TRUE
        BY <2>3, <3>1, Zenon DEF Start
      <4> QED BY <2>0, <3>1, <4>1, ControlStart
    <3>2. CASE psp_state # "VALIDATED"
      BY <2>0, <2>3, <3>2 DEF Start, seen, psp
    <3> QED BY <3>1, <3>2
  <2>4. ASSUME ReleaseTmr PROVE Control!PspReleaseTmr
    <3>1. psp_state' = "COLD" /\ fw_alive' = FALSE /\ alive_word' = FALSE
      BY <2>4, Zenon DEF ReleaseTmr, StateAfterRelease, AliveAfterRelease
    <3> QED BY <2>0, <3>1, ControlRelease
  <2>5. ASSUME PspUnknown PROVE UNCHANGED seen
    BY <2>0, <2>5 DEF PspUnknown, seen, psp
  <2>6. Control!PspValidate \/ Control!PspStart \/ Control!PspReleaseTmr \/ UNCHANGED seen
    BY <1>3, <2>1, <2>2, <2>3, <2>4, <2>5 DEF PspNotify, PspKick
  <2> QED BY <2>6, SeenUnchanged DEF Control!Next
<1>4. ASSUME SmuNotify PROVE [Control!Next]_(Control!vars)
  <2>0. UNCHANGED psp
    BY <1>4 DEF SmuNotify
  <2>1. CASE PowerOn
    <3>1. Control!SmuPower(TRUE)
      BY <2>0, <2>1, ControlPower DEF PowerOn
    <3> QED BY <3>1 DEF Control!Next
  <2>2. CASE PowerOff
    <3>1. Control!SmuPower(FALSE)
      BY <2>0, <2>2, ControlPower DEF PowerOff
    <3> QED BY <3>1 DEF Control!Next
  <2>3. ASSUME SetNpuClk \/ SetHClk \/ SetDpm \/ UNCHANGED smu PROVE UNCHANGED seen
    BY <2>0, <2>3 DEF SetNpuClk, SetHClk, SetDpm, smu, seen
  <2> QED BY <1>4, <2>1, <2>2, <2>3, SeenUnchanged DEF SmuNotify, SmuKick
<1>5. ASSUME ReadAlive PROVE [Control!Next]_(Control!vars)
  <2>1. alive_word' = FALSE /\ UNCHANGED <<power_on, psp_state, fw_alive>>
    BY <1>5, Zenon DEF ReadAlive, smu
  <2>2. CASE alive_word
    <3>1. Control!ClearAlive
      BY <2>1, <2>2, Zenon DEF Control!ClearAlive, Control!psp, Control!mert
    <3> QED BY <3>1 DEF Control!Next
  <2>3. CASE ~alive_word
    <3>1. alive_word = FALSE
      BY <2>3 DEF IInv, TypeOK
    <3> QED BY <2>1, <3>1, SeenUnchanged, Zenon DEF seen, psp
  <2> QED BY <2>2, <2>3
<1>6. ASSUME \/ Crash \/ PspPoll \/ PspWriteCmd \/ PspWriteArgs \/ PspPollAgain \/ PspReadResp
             \/ SmuClear \/ SmuWriteArg \/ SmuWriteCmd \/ SmuReadResp \/ SmuReadOut
      PROVE  UNCHANGED seen
  BY <1>6 DEF Crash, PspPoll, PspWriteCmd, PspWriteArgs, PspPollAgain, PspReadResp,
              SmuClear, SmuWriteArg, SmuWriteCmd, SmuReadResp, SmuReadOut, smu, seen
<1>7. ASSUME \/ (\E from, to \in Jobs : Turn(from, to))
             \/ (\E c \in Calls : SmuCall(c))
             \/ UNCHANGED vars
      PROVE  UNCHANGED seen
  BY <1>7 DEF Turn, SmuCall, vars, smu, seen
<1>8. \/ Reset \/ PspNotify \/ SmuNotify \/ ReadAlive \/ UNCHANGED seen
  <2>1. {"down", "power_off", "start", "cert", "up", "release", "other"} \subseteq Jobs
    BY DEF Jobs
  <2> QED BY <2>1, <1>6, <1>7 DEF Next
<1> QED BY <1>1, <1>2, <1>3, <1>4, <1>5, <1>8

\* Register by register, with drivers dying in between, booting and stopping the
\* device are steps of the control plane of XdnaNpu, or no steps of it at all.
THEOREM BootImplementsControlPlane == Spec => ImplementsControlPlane
BY BootInv, ControlInit, ControlNext, PTL DEF Spec, ImplementsControlPlane, Control!Spec
=============================================================================
