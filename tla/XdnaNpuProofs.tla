--------------------------- MODULE XdnaNpuProofs ---------------------------
(***************************************************************************)
(* Proofs about XdnaNpu for every number of contexts and every width of    *)
(* the context id.                                                         *)
(***************************************************************************)
EXTENDS XdnaNpu, FiniteSetTheorems, TLAPS

IInv == TypeOK /\ Coherent /\ CountMatches /\ IdsFresh
-----------------------------------------------------------------------------
\* uint32_t arithmetic.
LEMMA IdArithmetic ==
    /\ NextId \in CtxIds \/ next_ctx_id \notin CtxIds
    /\ next_ctx_id \in CtxIds /\ next_ctx_id + 1 < IdMod => NextId = next_ctx_id + 1
BY SMT, LimitsAssumption DEF NextId, CtxIds

\* Slots and channels.
LEMMA SlotFacts ==
    /\ IsFiniteSet(Slots) /\ Cardinality(Slots) = NumCtx
    /\ 0 \in Chans /\ \A s \in Slots : s + 1 \in Chans /\ s + 1 # 0
    /\ \A r, s \in Slots : r + 1 = s + 1 => r = s
    /\ \A c \in Chans : c # 0 => \E s \in Slots : c = s + 1
<1>1. IsFiniteSet(Slots) /\ Cardinality(Slots) = NumCtx
  <2>1. 0 \in Int /\ NumCtx - 1 \in Int /\ ~(0 > NumCtx - 1) /\ (NumCtx - 1) - 0 + 1 = NumCtx
    BY LimitsAssumption
  <2> QED BY <2>1, FS_Interval DEF Slots
<1>2. /\ 0 \in Chans /\ \A s \in Slots : s + 1 \in Chans /\ s + 1 # 0
      /\ \A r, s \in Slots : r + 1 = s + 1 => r = s
  BY LimitsAssumption DEF Slots, Chans
<1>3. ASSUME NEW c \in Chans, c # 0 PROVE \E s \in Slots : c = s + 1
  <2>1. c - 1 \in Slots /\ c = (c - 1) + 1
    BY <1>3, LimitsAssumption DEF Slots, Chans
  <2> QED BY <2>1
<1> QED BY <1>1, <1>2, <1>3

\* The number of contexts is within the limit.
LEMMA CountFacts ==
    /\ IsFiniteSet(Valid) /\ Cardinality(Valid) \in 0 .. NumCtx
    /\ Cardinality(Valid) = NumCtx => Valid = Slots
<1>1. Valid \subseteq Slots
  BY DEF Valid
<1>2. /\ IsFiniteSet(Valid) /\ Cardinality(Valid) <= NumCtx
      /\ (Cardinality(Valid) = NumCtx => Valid = Slots)
  BY <1>1, SlotFacts, FS_Subset
<1>3. Cardinality(Valid) \in Nat
  BY <1>2, FS_CardinalityType
<1> QED BY <1>2, <1>3, LimitsAssumption

\* Steps that leave the table, the channels and the life of the firmware alone.
LEMMA QuietStep ==
    ASSUME IInv, TypeOK',
           UNCHANGED <<fw_alive, active, ctx, next_ctx_id, active_contexts, created>>,
           psp_state' = psp_state \/ psp_state' = "VALIDATED",
           alive_word' = alive_word \/ alive_word' = FALSE
    PROVE  IInv'
<1>1. Valid' = Valid
  BY DEF Valid
<1>2. Coherent'
  BY DEF IInv, Coherent
<1>3. CountMatches' /\ IdsFresh'
  BY <1>1 DEF IInv, CountMatches, IdsFresh
<1> QED BY <1>2, <1>3 DEF IInv

\* xdna_npu_reset() and the state after xdna_npu_new().
LEMMA ResetStep ==
    ASSUME Reset
    PROVE  IInv'
<1>1. /\ \A c \in Chans : active'[c] = FALSE
      /\ \A s \in Slots : ctx'[s].valid = FALSE
      /\ fw_alive' = FALSE /\ alive_word' = FALSE /\ psp_state' = "COLD"
      /\ active_contexts' = 0 /\ created' = 0 /\ next_ctx_id' = 1
  BY DEF Reset, NoCtx
<1>2. Valid' = {}
  BY <1>1 DEF Valid
<1>3. TypeOK'
  <2>1. NoCtx \in Contexts
    BY LimitsAssumption DEF NoCtx, Contexts, CtxIds, Chans
  <2>2. 0 \in 0 .. NumCtx /\ 1 \in CtxIds /\ 0 \in 0 .. IdMod
    BY LimitsAssumption DEF CtxIds
  <2> QED BY <2>1, <2>2 DEF Reset, TypeOK, Statuses
<1>4. Coherent'
  BY <1>1, SlotFacts DEF Coherent
<1>5. CountMatches'
  BY <1>1, <1>2, FS_EmptySet DEF CountMatches
<1>6. IdsFresh'
  BY <1>1, <1>2 DEF IdsFresh
<1> QED BY <1>3, <1>4, <1>5, <1>6 DEF IInv

\* The invariant holds of a device just reset.
LEMMA InitInv == Init => IInv
<1> SUFFICES ASSUME Init PROVE IInv
  OBVIOUS
<1>1. /\ \A c \in Chans : active[c] = FALSE
      /\ \A s \in Slots : ctx[s].valid = FALSE
      /\ fw_alive = FALSE /\ alive_word = FALSE /\ psp_state = "COLD"
      /\ active_contexts = 0 /\ created = 0 /\ next_ctx_id = 1
  BY DEF Init, NoCtx
<1>2. Valid = {}
  BY <1>1 DEF Valid
<1>3. TypeOK
  <2>1. NoCtx \in Contexts
    BY LimitsAssumption DEF NoCtx, Contexts, CtxIds, Chans
  <2>2. 0 \in 0 .. NumCtx /\ 1 \in CtxIds /\ 0 \in 0 .. IdMod
    BY LimitsAssumption DEF CtxIds
  <2> QED BY <2>1, <2>2 DEF Init, TypeOK, Statuses
<1>4. Coherent
  BY <1>1, SlotFacts DEF Coherent
<1>5. CountMatches
  BY <1>1, <1>2, FS_EmptySet DEF CountMatches
<1>6. IdsFresh
  BY <1>1, <1>2 DEF IdsFresh
<1> QED BY <1>3, <1>4, <1>5, <1>6 DEF IInv

\* xdna_fw_boot(), firmware running or not.
LEMMA StartStep ==
    ASSUME IInv, PspStart
    PROVE  IInv'
<1>1. /\ active' = [active EXCEPT ![0] = TRUE] /\ alive_word' = TRUE
      /\ fw_alive' = TRUE /\ fw_suspended' = FALSE /\ psp_state' = "RUNNING"
      /\ reply' = "none" /\ drv' = {}
      /\ UNCHANGED <<power_on, async_registered, ctx, next_ctx_id, active_contexts, created>>
  BY DEF PspStart, FwBoot
<1>2. Valid' = Valid
  BY <1>1 DEF Valid
<1>3. TypeOK'
  BY <1>1, SlotFacts DEF IInv, TypeOK, Statuses
<1>4. Coherent'
  <2>1. active'[0] = TRUE /\ \A s \in Slots : active'[s + 1] = active[s + 1]
    BY <1>1, SlotFacts DEF IInv, TypeOK
  <2> QED BY <2>1, <1>1 DEF IInv, Coherent
<1>5. CountMatches' /\ IdsFresh'
  BY <1>1, <1>2 DEF IInv, CountMatches, IdsFresh
<1> QED BY <1>3, <1>4, <1>5 DEF IInv

\* xdna_fw_shutdown().
LEMMA ReleaseStep ==
    ASSUME IInv, PspReleaseTmr
    PROVE  IInv'
<1>1. /\ ctx' = [s \in Slots |-> [ctx[s] EXCEPT !.valid = FALSE]]
      /\ active' = [c \in Chans |-> FALSE] /\ active_contexts' = 0
      /\ alive_word' = FALSE /\ fw_alive' = FALSE /\ psp_state' = "COLD"
      /\ async_registered' = FALSE /\ reply' = "none" /\ drv' = {}
      /\ UNCHANGED <<power_on, fw_suspended, next_ctx_id, created>>
  BY DEF PspReleaseTmr, FwShutdown
<1>2. /\ \A c \in Chans : active'[c] = FALSE
      /\ \A s \in Slots : ctx'[s].valid = FALSE
  BY <1>1 DEF IInv, TypeOK, Contexts
<1>3. Valid' = {}
  BY <1>2 DEF Valid
<1>4. TypeOK'
  <2>1. \A s \in Slots : [ctx[s] EXCEPT !.valid = FALSE] \in Contexts
    BY DEF IInv, TypeOK, Contexts
  <2>2. ctx' \in [Slots -> Contexts] /\ active' \in [Chans -> BOOLEAN]
    BY <1>1, <2>1
  <2>3. 0 \in 0 .. NumCtx
    BY LimitsAssumption
  <2> QED BY <1>1, <2>2, <2>3 DEF IInv, TypeOK, Statuses
<1>5. Coherent'
  BY <1>1, <1>2, SlotFacts DEF Coherent
<1>6. CountMatches'
  BY <1>1, <1>3, FS_EmptySet DEF CountMatches
<1>7. IdsFresh'
  BY <1>1, <1>2, <1>3 DEF IInv, IdsFresh
<1> QED BY <1>4, <1>5, <1>6, <1>7 DEF IInv

\* handle_create_context(): the first free slot, and the channel behind it.
LEMMA CreateStep ==
    ASSUME IInv, NEW c \in Chans, CreateContext(c)
    PROVE  IInv'
<1>1. PICK s \in Slots :
        /\ ~ctx[s].valid
        /\ active' = [active EXCEPT ![s + 1] = TRUE]
        /\ ctx' = [ctx EXCEPT ![s] = NewContext(s)]
        /\ next_ctx_id' = NextId /\ active_contexts' = active_contexts + 1
        /\ Answer(c, "SUCCESS")
        /\ drv' = IF active'[c] THEN drv \cup {<<next_ctx_id, s + 1>>} ELSE drv
        /\ created' = IF created < IdMod THEN created + 1 ELSE created
  BY DEF CreateContext
<1>2. fw_alive /\ UNCHANGED <<power_on, psp_state, fw_alive, fw_suspended,
                              async_registered, alive_word>>
  BY DEF CreateContext, Accepts, psp, fw
<1>3. /\ ctx'[s] = NewContext(s) /\ \A r \in Slots : r # s => ctx'[r] = ctx[r]
      /\ ctx' \in [Slots -> Contexts]
  <2>1. NewContext(s) \in Contexts
    BY SlotFacts DEF NewContext, Contexts, IInv, TypeOK
  <2> QED BY <1>1, <2>1 DEF IInv, TypeOK
<1>4. /\ ctx'[s].valid = TRUE /\ ctx'[s].id = next_ctx_id /\ ctx'[s].chan = s + 1
  BY <1>3 DEF NewContext
<1>5. Valid' = Valid \cup {s} /\ s \notin Valid
  BY <1>1, <1>3, <1>4 DEF Valid
<1>6. Cardinality(Valid') = Cardinality(Valid) + 1
  BY <1>5, CountFacts, FS_AddElement
<1>7. CountMatches'
  BY <1>1, <1>6 DEF IInv, CountMatches
<1>8. TypeOK'
  <2>1. active_contexts' \in 0 .. NumCtx
    <3>1. Cardinality(Valid') \in 0 .. NumCtx
      <4>1. IsFiniteSet(Valid') /\ Cardinality(Valid') <= NumCtx
        <5>1. Valid' \subseteq Slots
          BY <1>5 DEF Valid
        <5> QED BY <5>1, SlotFacts, FS_Subset
      <4>2. Cardinality(Valid') \in Nat
        BY <4>1, FS_CardinalityType
      <4> QED BY <4>1, <4>2, LimitsAssumption
    <3> QED BY <3>1, <1>7 DEF CountMatches
  <2>2. next_ctx_id' \in CtxIds
    BY <1>1, IdArithmetic DEF IInv, TypeOK
  <2>3. created' \in 0 .. IdMod
    BY <1>1, LimitsAssumption DEF IInv, TypeOK
  <2>4. active' \in [Chans -> BOOLEAN]
    BY <1>1 DEF IInv, TypeOK
  <2>5. drv' \subseteq (CtxIds \X Chans)
    BY <1>1, SlotFacts DEF IInv, TypeOK
  <2>6. reply' \in Statuses
    BY <1>1 DEF Answer, Statuses, IInv, TypeOK
  <2> QED BY <2>1, <2>2, <2>3, <2>4, <2>5, <2>6, <1>2, <1>3 DEF IInv, TypeOK
<1>9. Coherent'
  <2>1. /\ active'[0] = active[0] /\ active'[s + 1] = TRUE
        /\ \A r \in Slots : r # s => active'[r + 1] = active[r + 1]
    BY <1>1, SlotFacts DEF IInv, TypeOK
  <2>2. active'[0] <=> fw_alive'
    BY <2>1, <1>2 DEF IInv, Coherent
  <2>3. ASSUME NEW r \in Slots
        PROVE  /\ active'[r + 1] <=> ctx'[r].valid
               /\ ctx'[r].valid => fw_alive' /\ ctx'[r].chan = r + 1
    <3>1. CASE r = s
      BY <3>1, <2>1, <1>2, <1>4
    <3>2. CASE r # s
      BY <3>2, <2>1, <1>2, <1>3 DEF IInv, Coherent
    <3> QED BY <3>1, <3>2
  <2> QED BY <2>2, <2>3, <1>2 DEF IInv, Coherent
<1>10. IdsFresh'
  <2> SUFFICES ASSUME created' < IdMod PROVE
        /\ created' < IdMod - 1 => next_ctx_id' = created' + 1
        /\ \A r \in Slots : ctx'[r].valid => ctx'[r].id \in 1 .. created'
        /\ \A q, r \in Valid' : ctx'[q].id = ctx'[r].id => q = r
    BY DEF IdsFresh
  <2>1. created \in Nat /\ IdMod \in Nat /\ next_ctx_id \in CtxIds
    BY LimitsAssumption DEF IInv, TypeOK
  <2>2. created < IdMod - 1 /\ created' = created + 1
    <3>1. created < IdMod => created' = created + 1
      BY <1>1
    <3>2. ~(created < IdMod) => created' = created
      BY <1>1
    <3> QED BY <3>1, <3>2, <2>1
  <2>3. /\ next_ctx_id = created + 1
        /\ \A r \in Slots : ctx[r].valid => ctx[r].id \in 1 .. created
        /\ \A q, r \in Valid : ctx[q].id = ctx[r].id => q = r
    BY <2>1, <2>2 DEF IInv, IdsFresh
  <2>4. created' < IdMod - 1 => next_ctx_id' = created' + 1
    BY <1>1, <2>1, <2>2, <2>3, IdArithmetic
  <2>5. \A r \in Slots : ctx'[r].valid => ctx'[r].id \in 1 .. created'
    <3> SUFFICES ASSUME NEW r \in Slots, ctx'[r].valid
                 PROVE  ctx'[r].id \in 1 .. created'
      OBVIOUS
    <3>1. CASE r = s
      BY <3>1, <1>4, <2>1, <2>2, <2>3
    <3>2. CASE r # s
      <4>1. ctx[r].id \in 1 .. created /\ ctx'[r].id = ctx[r].id
        BY <3>2, <1>3, <2>3
      <4> QED BY <4>1, <2>1, <2>2
    <3> QED BY <3>1, <3>2
  <2>6. \A r \in Valid : r # s /\ ctx'[r].id = ctx[r].id /\ ctx[r].id # next_ctx_id
    <3> SUFFICES ASSUME NEW r \in Valid
                 PROVE  r # s /\ ctx'[r].id = ctx[r].id /\ ctx[r].id # next_ctx_id
      OBVIOUS
    <3>1. r \in Slots /\ r # s /\ ctx[r].valid
      BY <1>5 DEF Valid
    <3>2. ctx[r].id \in 1 .. created /\ ctx'[r] = ctx[r]
      BY <3>1, <1>3, <2>3
    <3> QED BY <3>1, <3>2, <2>1, <2>3
  <2>7. \A q, r \in Valid' : ctx'[q].id = ctx'[r].id => q = r
    BY <1>4, <1>5, <2>3, <2>6
  <2> QED BY <2>4, <2>5, <2>7
<1> QED BY <1>7, <1>8, <1>9, <1>10 DEF IInv

\* handle_destroy_context(), on whatever channel it arrives.
LEMMA DestroyStep ==
    ASSUME IInv, NEW c \in Chans, NEW id \in CtxIds, DestroyContext(c, id)
    PROVE  IInv'
<1>1. PICK s \in Slots :
        /\ IsCtx(s, id) /\ active' = Destroyed(s)
        /\ ctx' = [ctx EXCEPT ![s].valid = FALSE]
        /\ active_contexts' = IF active_contexts > 0 THEN active_contexts - 1
                                                     ELSE active_contexts
        /\ Answer(c, "SUCCESS")
        /\ drv' = IF active'[c] THEN {p \in drv : p[1] # id} ELSE drv
  BY DEF DestroyContext
<1>2. UNCHANGED <<power_on, psp_state, fw_alive, fw_suspended, async_registered,
                  alive_word, next_ctx_id, created>>
  BY DEF DestroyContext, psp, fw
<1>3. ctx[s].valid /\ ctx[s].chan = s + 1
  BY <1>1 DEF IsCtx, IInv, Coherent
<1>4. /\ ctx' \in [Slots -> Contexts] /\ ctx'[s].valid = FALSE
      /\ \A r \in Slots : r # s => ctx'[r] = ctx[r]
  BY <1>1 DEF IInv, TypeOK, Contexts
<1>5. Valid' = Valid \ {s} /\ s \in Valid
  BY <1>3, <1>4 DEF Valid
<1>6. Cardinality(Valid') = Cardinality(Valid) - 1 /\ Cardinality(Valid) \in 0 .. NumCtx
      /\ Cardinality(Valid) # 0
  BY <1>5, CountFacts, FS_RemoveElement, FS_EmptySet
<1>7. active_contexts' = Cardinality(Valid') /\ active_contexts' \in 0 .. NumCtx
  BY <1>1, <1>6, LimitsAssumption DEF IInv, CountMatches
<1>8. TypeOK'
  <2>1. active' \in [Chans -> BOOLEAN]
    BY <1>1 DEF Destroyed, IInv, TypeOK
  <2>2. drv' \subseteq (CtxIds \X Chans) /\ reply' \in Statuses
    BY <1>1 DEF Answer, Statuses, IInv, TypeOK
  <2> QED BY <2>1, <2>2, <1>2, <1>4, <1>7 DEF IInv, TypeOK
<1>9. Coherent'
  <2>1. /\ active'[0] = active[0] /\ active'[s + 1] = FALSE
        /\ \A r \in Slots : r # s => active'[r + 1] = active[r + 1]
    BY <1>1, <1>3, SlotFacts DEF Destroyed, IInv, TypeOK
  <2>2. active'[0] <=> fw_alive'
    BY <2>1, <1>2 DEF IInv, Coherent
  <2>3. ASSUME NEW r \in Slots
        PROVE  /\ active'[r + 1] <=> ctx'[r].valid
               /\ ctx'[r].valid => fw_alive' /\ ctx'[r].chan = r + 1
    <3>1. CASE r = s
      BY <3>1, <2>1, <1>4
    <3>2. CASE r # s
      BY <3>2, <2>1, <1>2, <1>4 DEF IInv, Coherent
    <3> QED BY <3>1, <3>2
  <2> QED BY <2>2, <2>3, <1>2 DEF IInv, Coherent
<1>10. IdsFresh'
  <2>1. \A r \in Slots : ctx'[r].valid => ctx[r].valid /\ ctx'[r] = ctx[r]
    BY <1>4
  <2>2. \A r \in Valid' : r \in Valid /\ ctx'[r] = ctx[r]
    BY <1>4, <1>5 DEF Valid
  <2> QED BY <2>1, <2>2, <1>2 DEF IInv, IdsFresh
<1> QED BY <1>7, <1>8, <1>9, <1>10 DEF IInv, CountMatches

\* MSG_OP_MAP_HOST_BUFFER.
LEMMA MapStep ==
    ASSUME IInv, NEW c \in Chans, NEW id \in CtxIds, MapHostBuffer(c, id)
    PROVE  /\ IInv' /\ Valid' = Valid
           /\ \A r \in Slots : ctx'[r].id = ctx[r].id /\ ctx'[r].chan = ctx[r].chan
<1>1. PICK s \in Slots : ctx' = [ctx EXCEPT ![s].heap = id]
  BY DEF MapHostBuffer
<1>2. /\ UNCHANGED <<power_on, psp_state, fw_alive, fw_suspended, async_registered,
                     alive_word, active, next_ctx_id, active_contexts, drv, created>>
      /\ Answer(c, "SUCCESS")
  BY DEF MapHostBuffer, psp, fw
<1>3. /\ ctx' \in [Slots -> Contexts]
      /\ \A r \in Slots : /\ ctx'[r].id = ctx[r].id /\ ctx'[r].chan = ctx[r].chan
                           /\ ctx'[r].valid = ctx[r].valid
  BY <1>1 DEF IInv, TypeOK, Contexts
<1>4. Valid' = Valid
  BY <1>3 DEF Valid
<1>5. TypeOK'
  BY <1>2, <1>3 DEF IInv, TypeOK, Answer, Statuses
<1>6. Coherent'
  BY <1>2, <1>3 DEF IInv, Coherent
<1>7. CountMatches'
  BY <1>2, <1>4 DEF IInv, CountMatches
<1>8. IdsFresh'
  <2>1. \A r \in Valid : ctx'[r].id = ctx[r].id
    BY <1>3 DEF Valid
  <2> QED BY <2>1, <1>2, <1>3, <1>4 DEF IInv, IdsFresh
<1> QED BY <1>3, <1>4, <1>5, <1>6, <1>7, <1>8 DEF IInv

\* The commands and messages that leave contexts and channels alone.
QuietNext ==
    \/ PspValidate \/ ClearAlive \/ (\E on \in BOOLEAN : SmuPower(on))
    \/ \E c \in Chans :
         \/ CreateNoAvail(c) \/ RegisterAsync(c)
         \/ \E id \in CtxIds : UnknownContext(c, id)
         \/ \E on \in BOOLEAN : SuspendResume(c, on)
         \/ \E status \in {"SUCCESS", "ERROR"} : OtherRequest(c, status)

\* What the steps that leave contexts and channels alone do.
LEMMA QuietFacts ==
    ASSUME TypeOK, QuietNext
    PROVE  /\ TypeOK'
           /\ UNCHANGED <<fw_alive, active, ctx, next_ctx_id, active_contexts, drv, created>>
           /\ psp_state' = psp_state \/ psp_state' = "VALIDATED"
           /\ alive_word' = alive_word \/ alive_word' = FALSE
           /\ reply' = "NOAVAIL" => reply = "NOAVAIL" \/ TableFull
<1> DEFINE Goal == /\ TypeOK'
                   /\ UNCHANGED <<fw_alive, active, ctx, next_ctx_id, active_contexts, drv,
                                  created>>
                   /\ psp_state' = psp_state \/ psp_state' = "VALIDATED"
                   /\ alive_word' = alive_word \/ alive_word' = FALSE
                   /\ reply' = "NOAVAIL" => reply = "NOAVAIL" \/ TableFull
<1>1. ASSUME PspValidate PROVE Goal
  BY <1>1 DEF PspValidate, TypeOK, fw, mert
<1>2. ASSUME ClearAlive PROVE Goal
  BY <1>2 DEF ClearAlive, TypeOK, psp, mert
<1>3. ASSUME NEW on \in BOOLEAN, SmuPower(on) PROVE Goal
  BY <1>3 DEF SmuPower, TypeOK, fw, mert
<1>4. ASSUME NEW c \in Chans, CreateNoAvail(c) PROVE Goal
  BY <1>4 DEF CreateNoAvail, Answer, Statuses, TypeOK, psp, fw, mert
<1>5. ASSUME NEW c \in Chans, RegisterAsync(c) PROVE Goal
  BY <1>5 DEF RegisterAsync, TypeOK, psp, mert
<1>6. ASSUME NEW c \in Chans, NEW id \in CtxIds, UnknownContext(c, id) PROVE Goal
  BY <1>6 DEF UnknownContext, Answer, Statuses, TypeOK, psp, fw, mert
<1>7. ASSUME NEW c \in Chans, NEW on \in BOOLEAN, SuspendResume(c, on) PROVE Goal
  BY <1>7 DEF SuspendResume, Answer, Statuses, TypeOK, psp, mert
<1>8. ASSUME NEW c \in Chans, NEW status \in {"SUCCESS", "ERROR"},
             OtherRequest(c, status)
      PROVE  Goal
  BY <1>8 DEF OtherRequest, Answer, Statuses, TypeOK, psp, fw, mert
<1> QED BY <1>1, <1>2, <1>3, <1>4, <1>5, <1>6, <1>7, <1>8 DEF QuietNext

\* Every step is one of those the lemmas are about.
LEMMA NextCases ==
    ASSUME Next
    PROVE  \/ Reset \/ PspStart \/ PspReleaseTmr \/ QuietNext
           \/ \E c \in MgmtChans : /\ c \in Chans
                                   /\ \/ CreateContext(c)
                                      \/ \E id \in CtxIds : \/ DestroyContext(c, id)
                                                            \/ MapHostBuffer(c, id)
BY LimitsAssumption DEF Next, Message, QuietNext

\* Every step keeps the invariant.
LEMMA NextInv ==
    ASSUME IInv, [Next]_vars
    PROVE  IInv'
<1>1. CASE UNCHANGED vars
  <2>1. UNCHANGED <<fw_alive, active, ctx, next_ctx_id, active_contexts, created,
                    psp_state, alive_word, power_on, fw_suspended, async_registered,
                    reply, drv>>
    BY <1>1 DEF vars, psp, fw, mert
  <2>2. TypeOK'
    BY <2>1 DEF IInv, TypeOK
  <2> QED BY <2>1, <2>2, QuietStep
<1>2. CASE Next
  <2>1. CASE QuietNext
    BY <2>1, QuietFacts, QuietStep DEF IInv
  <2>2. ASSUME NEW c \in Chans, NEW id \in CtxIds, MapHostBuffer(c, id) PROVE IInv'
    BY <2>2, MapStep
  <2>3. ASSUME NEW c \in Chans, NEW id \in CtxIds, DestroyContext(c, id) PROVE IInv'
    BY <2>3, DestroyStep
  <2>4. ASSUME NEW c \in Chans, CreateContext(c) PROVE IInv'
    BY <2>4, CreateStep
  <2> QED BY <1>2, NextCases, ResetStep, StartStep, ReleaseStep, <2>1, <2>2, <2>3, <2>4
<1> QED BY <1>1, <1>2

\* The invariant holds in every state.
LEMMA Invariance == Spec => []IInv
<1>1. IInv /\ [Next]_vars => IInv'
  BY NextInv
<1> QED BY <1>1, InitInv, PTL DEF Spec

\* Every field of the device keeps its range, for every number of contexts and
\* every width of the ids: stats.active_contexts stays within the hardware limit.
THEOREM DeviceTyped == Spec => []TypeOK
<1>1. IInv => TypeOK
  BY DEF IInv
<1> QED BY <1>1, Invariance, PTL

\* Mailbox channels, context table, PSP state and FW_ALIVE agree, although PSP
\* commands, requests on any channel and resets come in any order.
THEOREM DeviceCoherent == Spec => []Coherent
<1>1. IInv => Coherent
  BY DEF IInv
<1> QED BY <1>1, Invariance, PTL

\* stats.active_contexts does not drift from the context table.
THEOREM CountExact == Spec => []CountMatches
<1>1. IInv => CountMatches
  BY DEF IInv
<1> QED BY <1>1, Invariance, PTL

\* next_ctx_id gives each context since reset an id of its own, never 0, until it
\* overflows.
THEOREM IdsNeverReused == Spec => []IdsFresh
<1>1. IInv => IdsFresh
  BY DEF IInv
<1> QED BY <1>1, Invariance, PTL
-----------------------------------------------------------------------------
\* Whichever slot a context gets, it has no heap but one mapped for it.
THEOREM HeapsOwned == Spec => []HeapOwned
<1>1. Init => HeapOwned
  BY DEF Init, HeapOwned, Valid, NoCtx
<1>2. ASSUME IInv, HeapOwned, [Next]_vars PROVE HeapOwned'
  <2> DEFINE Kept == \A r \in Slots : ctx'[r].valid => ctx[r].valid /\ ctx'[r] = ctx[r]
  <2>1. ASSUME Kept PROVE HeapOwned'
    BY <2>1, <1>2 DEF HeapOwned, Valid
  <2>2. CASE UNCHANGED ctx
    BY <2>2, <2>1
  <2>3. CASE Reset
    BY <2>3 DEF Reset, NoCtx, HeapOwned, Valid
  <2>4. CASE PspReleaseTmr
    <3>1. \A r \in Slots : ctx'[r].valid = FALSE
      BY <2>4, <1>2 DEF PspReleaseTmr, FwShutdown, IInv, TypeOK, Contexts
    <3> QED BY <3>1, <2>1
  <2>5. ASSUME NEW c \in Chans, CreateContext(c) PROVE HeapOwned'
    <3>1. PICK s \in Slots : ctx' = [ctx EXCEPT ![s] = NewContext(s)]
      BY <2>5 DEF CreateContext
    <3>2. ctx'[s].heap = NoHeap /\ \A r \in Slots : r # s => ctx'[r] = ctx[r]
      BY <3>1, <1>2 DEF IInv, TypeOK, NewContext
    <3> QED BY <3>2, <1>2 DEF HeapOwned, Valid
  <2>6. ASSUME NEW c \in Chans, NEW id \in CtxIds, DestroyContext(c, id) PROVE HeapOwned'
    <3>1. PICK s \in Slots : ctx' = [ctx EXCEPT ![s].valid = FALSE]
      BY <2>6 DEF DestroyContext
    <3>2. ctx'[s].valid = FALSE /\ \A r \in Slots : r # s => ctx'[r] = ctx[r]
      BY <3>1, <1>2 DEF IInv, TypeOK, Contexts
    <3> QED BY <3>2, <2>1
  <2>7. ASSUME NEW c \in Chans, NEW id \in CtxIds, MapHostBuffer(c, id) PROVE HeapOwned'
    <3>1. PICK s \in Slots : ctx[s].id = id /\ ctx' = [ctx EXCEPT ![s].heap = id]
      BY <2>7 DEF MapHostBuffer, IsCtx
    <3>2. /\ ctx'[s].heap = ctx'[s].id
          /\ \A r \in Slots : r # s => ctx'[r] = ctx[r]
      BY <3>1, <1>2 DEF IInv, TypeOK, Contexts
    <3> QED BY <3>2, <1>2 DEF HeapOwned, Valid
  <2>8. CASE Next
    <3>1. CASE QuietNext
      BY <3>1, <1>2, <2>2, QuietFacts DEF IInv
    <3>2. CASE PspStart
      BY <3>2, <2>2 DEF PspStart, FwBoot
    <3> QED BY <2>8, NextCases, <3>1, <3>2, <2>3, <2>4, <2>5, <2>6, <2>7
  <2>9. CASE UNCHANGED vars
    BY <2>9, <2>2 DEF vars, mert
  <2> QED BY <1>2, <2>8, <2>9
<1> QED BY <1>1, <1>2, Invariance, PTL DEF Spec
-----------------------------------------------------------------------------
(* A driver that sends management requests on channel 0 and releases the   *)
(* firmware before it boots it again.                                      *)

Orderly == MgmtChans = {0} /\ ~Restarts

\* The contexts the firmware knows, as the driver names them.
Pairs == {<<ctx[s].id, ctx[s].chan>> : s \in Valid}

\* At first neither side knows of a context.
LEMMA AgreeInit == Init => DriverAgrees
<1> SUFFICES ASSUME Init PROVE DriverAgrees
  OBVIOUS
<1>1. Valid = {} /\ drv = {}
  BY DEF Init, Valid, NoCtx
<1> QED BY <1>1 DEF DriverAgrees

\* Steps that leave the contexts alone keep the agreement.
LEMMA AgreeUnchanged ==
    ASSUME DriverAgrees, Valid' = Valid, UNCHANGED <<drv, created>>,
           \A s \in Slots : ctx'[s].id = ctx[s].id /\ ctx'[s].chan = ctx[s].chan
    PROVE  DriverAgrees'
<1>1. \A s \in Valid : ctx'[s].id = ctx[s].id /\ ctx'[s].chan = ctx[s].chan
  BY DEF Valid
<1>2. Pairs' = Pairs
  BY <1>1 DEF Pairs
<1> QED BY <1>2 DEF DriverAgrees, Pairs

\* An orderly driver that creates a context learns what it got.
LEMMA AgreeCreate ==
    ASSUME Orderly, IInv, DriverAgrees, CreateContext(0)
    PROVE  DriverAgrees' /\ reply' = "SUCCESS"
<1>1. PICK s \in Slots :
        /\ ~ctx[s].valid
        /\ active' = [active EXCEPT ![s + 1] = TRUE]
        /\ ctx' = [ctx EXCEPT ![s] = NewContext(s)]
        /\ Answer(0, "SUCCESS")
        /\ drv' = IF active'[0] THEN drv \cup {<<next_ctx_id, s + 1>>} ELSE drv
        /\ created' = IF created < IdMod THEN created + 1 ELSE created
  BY DEF CreateContext
<1>2. active'[0] = TRUE
  BY <1>1, SlotFacts DEF CreateContext, Accepts, IInv, TypeOK
<1>3. drv' = drv \cup {<<next_ctx_id, s + 1>>} /\ reply' = "SUCCESS"
  BY <1>1, <1>2 DEF Answer
<1>4. /\ ctx'[s] = NewContext(s) /\ \A r \in Slots : r # s => ctx'[r] = ctx[r]
  BY <1>1 DEF IInv, TypeOK
<1>5. ctx'[s].valid = TRUE /\ ctx'[s].id = next_ctx_id /\ ctx'[s].chan = s + 1
  BY <1>4 DEF NewContext
<1>6. Valid' = Valid \cup {s} /\ s \notin Valid
  BY <1>1, <1>4, <1>5 DEF Valid
<1>7. \A r \in Valid : ctx'[r] = ctx[r]
  BY <1>4, <1>6 DEF Valid
<1>8. Pairs' = Pairs \cup {<<next_ctx_id, s + 1>>}
  BY <1>5, <1>6, <1>7 DEF Pairs
<1>9. created' < IdMod => created < IdMod
  <2>1. created < IdMod => created' = created + 1
    BY <1>1
  <2>2. ~(created < IdMod) => created' = created
    BY <1>1
  <2> QED BY <2>1, <2>2
<1> QED BY <1>3, <1>8, <1>9 DEF DriverAgrees, Pairs

\* An orderly driver destroys the context that it means.
LEMMA AgreeDestroy ==
    ASSUME Orderly, IInv, DriverAgrees, NEW id \in CtxIds, DestroyContext(0, id)
    PROVE  DriverAgrees' /\ reply' = "SUCCESS"
<1>1. PICK s \in Slots :
        /\ IsCtx(s, id) /\ active' = Destroyed(s)
        /\ ctx' = [ctx EXCEPT ![s].valid = FALSE]
        /\ Answer(0, "SUCCESS")
        /\ drv' = IF active'[0] THEN {p \in drv : p[1] # id} ELSE drv
  BY DEF DestroyContext
<1>2. ctx[s].valid /\ ctx[s].id = id /\ ctx[s].chan = s + 1
  BY <1>1 DEF IsCtx, IInv, Coherent
<1>3. active'[0] = TRUE
  BY <1>1, <1>2, SlotFacts DEF Destroyed, DestroyContext, Accepts, IInv, TypeOK
<1>4. drv' = {p \in drv : p[1] # id} /\ reply' = "SUCCESS"
  BY <1>1, <1>3 DEF Answer
<1>5. /\ ctx'[s].valid = FALSE /\ \A r \in Slots : r # s => ctx'[r] = ctx[r]
  BY <1>1 DEF IInv, TypeOK, Contexts
<1>6. Valid' = Valid \ {s} /\ s \in Valid
  BY <1>2, <1>5 DEF Valid
<1>7. \A r \in Valid' : ctx'[r] = ctx[r]
  BY <1>5, <1>6 DEF Valid
<1>8. created' = created
  BY DEF DestroyContext
<1>9. ASSUME created < IdMod PROVE drv' = Pairs'
  <2>1. \A r \in Valid : ctx[r].id = id <=> r = s
    BY <1>2, <1>6, <1>9 DEF IInv, IdsFresh
  <2>2. drv = Pairs
    BY <1>9 DEF DriverAgrees, Pairs
  <2>3. Pairs' = {<<ctx[r].id, ctx[r].chan>> : r \in Valid \ {s}}
    BY <1>6, <1>7 DEF Pairs
  <2>4. {p \in Pairs : p[1] # id} = {<<ctx[r].id, ctx[r].chan>> : r \in Valid \ {s}}
    BY <2>1 DEF Pairs
  <2> QED BY <2>2, <2>3, <2>4, <1>4
<1> QED BY <1>4, <1>8, <1>9 DEF DriverAgrees, Pairs

\* With a full table the driver holds one context per slot.
LEMMA FullMeansAll ==
    ASSUME IInv, DriverAgrees, TableFull, created < IdMod
    PROVE  Cardinality(drv) = NumCtx
<1> DEFINE f == [s \in Slots |-> <<ctx[s].id, ctx[s].chan>>]
<1>1. drv = {<<ctx[s].id, ctx[s].chan>> : s \in Slots}
  BY DEF DriverAgrees, TableFull
<1>2. \A r, s \in Slots : ctx[r].id = ctx[s].id => r = s
  BY DEF IInv, IdsFresh, TableFull
<1>3. f \in [Slots -> drv]
  BY <1>1
<1>4. \A r, s \in Slots : f[r] = f[s] => r = s
  BY <1>2
<1>5. \A p \in drv : \E s \in Slots : f[s] = p
  BY <1>1
<1>6. f \in Bijection(Slots, drv)
  BY <1>3, <1>4, <1>5 DEF Bijection, Injection, Surjection, IsInjective
<1>7. ExistsBijection(Slots, drv)
  BY <1>6 DEF ExistsBijection
<1> QED BY <1>7, SlotFacts, FS_Bijection

\* Every step keeps the agreement.
LEMMA AgreeStep ==
    ASSUME Orderly, IInv, DriverAgrees, NoAvailOnlyWhenFull, [Next]_vars
    PROVE  DriverAgrees' /\ NoAvailOnlyWhenFull'
<1>1. CASE UNCHANGED vars
  <2>1. UNCHANGED <<ctx, drv, created, reply>>
    BY <1>1 DEF vars, mert
  <2> QED BY <2>1 DEF DriverAgrees, NoAvailOnlyWhenFull, Valid
<1>2. CASE QuietNext
  <2>1. /\ UNCHANGED <<ctx, drv, created>>
        /\ reply' = "NOAVAIL" => reply = "NOAVAIL" \/ TableFull
    BY <1>2, QuietFacts DEF IInv
  <2>2. DriverAgrees'
    BY <2>1 DEF DriverAgrees, Valid
  <2>3. NoAvailOnlyWhenFull'
    BY <2>1, FullMeansAll DEF NoAvailOnlyWhenFull
  <2> QED BY <2>2, <2>3
<1>3. CASE Reset
  <2>1. drv' = {} /\ reply' = "none" /\ \A s \in Slots : ctx'[s].valid = FALSE
    BY <1>3 DEF Reset, NoCtx
  <2> QED BY <2>1 DEF DriverAgrees, NoAvailOnlyWhenFull, Valid
<1>4. CASE PspReleaseTmr
  <2>1. drv' = {} /\ reply' = "none" /\ \A s \in Slots : ctx'[s].valid = FALSE
    BY <1>4 DEF PspReleaseTmr, FwShutdown, IInv, TypeOK, Contexts
  <2> QED BY <2>1 DEF DriverAgrees, NoAvailOnlyWhenFull, Valid
<1>5. CASE PspStart
  <2>1. drv' = {} /\ reply' = "none" /\ ctx' = ctx /\ ~fw_alive
    BY <1>5 DEF PspStart, FwBoot, Orderly
  <2>2. Valid' = {}
    BY <2>1 DEF Valid, IInv, Coherent
  <2> QED BY <2>1, <2>2 DEF DriverAgrees, NoAvailOnlyWhenFull
<1>6. ASSUME CreateContext(0) PROVE DriverAgrees' /\ NoAvailOnlyWhenFull'
  BY <1>6, AgreeCreate DEF NoAvailOnlyWhenFull
<1>7. ASSUME NEW id \in CtxIds, DestroyContext(0, id)
      PROVE  DriverAgrees' /\ NoAvailOnlyWhenFull'
  BY <1>7, AgreeDestroy DEF NoAvailOnlyWhenFull
<1>8. ASSUME NEW id \in CtxIds, MapHostBuffer(0, id)
      PROVE  DriverAgrees' /\ NoAvailOnlyWhenFull'
  <2>1. /\ Valid' = Valid
        /\ \A s \in Slots : ctx'[s].id = ctx[s].id /\ ctx'[s].chan = ctx[s].chan
    BY <1>8, SlotFacts, MapStep
  <2>2. /\ UNCHANGED <<drv, created>>
        /\ reply' = "SUCCESS" \/ reply' = reply
    BY <1>8 DEF MapHostBuffer, Answer
  <2>3. DriverAgrees'
    BY <2>1, <2>2, AgreeUnchanged
  <2> QED BY <2>2, <2>3 DEF NoAvailOnlyWhenFull
<1>9. CASE Next
  <2>1. \A c \in MgmtChans : c = 0
    BY DEF Orderly
  <2> QED BY <1>9, <2>1, NextCases, <1>2, <1>3, <1>4, <1>5, <1>6, <1>7, <1>8
<1> QED BY <1>1, <1>9

\* The agreement holds in every state.
LEMMA Agreement ==
    ASSUME Orderly
    PROVE  Spec => [](DriverAgrees /\ NoAvailOnlyWhenFull)
<1>1. Init => DriverAgrees /\ NoAvailOnlyWhenFull
  BY AgreeInit DEF Init, NoAvailOnlyWhenFull
<1>2. IInv /\ DriverAgrees /\ NoAvailOnlyWhenFull /\ [Next]_vars
        => DriverAgrees' /\ NoAvailOnlyWhenFull'
  BY AgreeStep
<1> QED BY <1>1, <1>2, Invariance, PTL DEF Spec

\* An orderly driver and the firmware never disagree on which contexts exist and
\* on which channel each has, until ids overflow: what the driver keeps from the
\* replies of create and destroy is the table of handle_create_context().
THEOREM DriverInAgreement ==
    ASSUME Orderly
    PROVE  Spec => []DriverAgrees
BY Agreement, PTL

\* XDNA_NPU1_HWCTX_LIMIT contexts can be had: when handle_create_context() answers
\* NOAVAIL to an orderly driver, the driver holds that many.
THEOREM LimitReached ==
    ASSUME Orderly
    PROVE  Spec => []NoAvailOnlyWhenFull
BY Agreement, PTL
=============================================================================
