-------------------------------- MODULE Mert --------------------------------
(***************************************************************************)
(* The management channel in use: what xdna_mert_handle() makes of each    *)
(* opcode, and what the callers in the driver make of its answers.         *)
(* Contexts are the matter of XdnaNpu; of the requests about them, this    *)
(* module keeps the outcomes.  Between driver and firmware lie the two     *)
(* queues that X2iRing and I2xRing implement (RequestFifo, ReplyFifo).     *)
(*                                                                         *)
(* Opcodes the switch treats alike are one member of Ops.  Sizes and       *)
(* offsets within a reply are counted in 32-bit words.  A handler runs     *)
(* under QEMU's lock: while a request is in hand, nothing else moves.      *)
(***************************************************************************)
EXTENDS Integers, Sequences, FiniteSets

CONSTANTS Callers,   \* threads of the driver, one call at a time each
          NumCfg,    \* entries of rt_cfg: 64
          Values,    \* values of a runtime configuration; 0 is one of them
          Pasids,    \* PASIDs; 0 is one of them
          Chunk,     \* bytes written by one DMA of the column dump: 256
          Buffers,   \* <<address, size>> of the buffers for column dumps
          HasDma,    \* does the host provide dma_write?
          NoReq      \* no request

ASSUME MertAssumption ==
    /\ NumCfg \in Nat \ {0} /\ Chunk \in Nat \ {0} /\ HasDma \in BOOLEAN
    /\ Values \subseteq Nat /\ Pasids \subseteq Nat /\ 0 \in Values /\ 0 \in Pasids
    /\ Buffers \subseteq Nat \X Nat

\* Opcodes by the name of their request; EXEC, CHAIN_EXEC, MAP_HOST_BUFFER and OTHER
\* stand for several.
Queries == {"PROTOCOL_VERSION", "FIRMWARE_VERSION", "AIE_VERSION", "AIE_TILE_INFO",
            "TELEMETRY"}
NotImplemented == {"EXEC", "CHAIN_EXEC"}
Unknown == {"APP_HEALTH", "DEV_REVISION", "OTHER"}
ContextOps == {"CREATE_CONTEXT", "DESTROY_CONTEXT", "MAP_HOST_BUFFER"}

\* Requests whose payload is looked at, and hence may be too short.
WithPayload == ContextOps \cup {"SET_RUNTIME_CONFIG", "GET_RUNTIME_CONFIG",
                 "ASSIGN_MGMT_PASID", "REGISTER_ASYNC", "COL_STATUS"}
Ops == Queries \cup NotImplemented \cup Unknown \cup WithPayload
         \cup {"SUSPEND", "RESUME", "SELF_TEST"}

\* A request is too short, or has arguments: two numbers suffice.
ArgsOf(op) ==
    CASE op = "SET_RUNTIME_CONFIG" -> (0 .. NumCfg) \X Values
      [] op = "GET_RUNTIME_CONFIG" -> (0 .. NumCfg) \X {0}
      [] op = "ASSIGN_MGMT_PASID"  -> Pasids \X {0}
      [] op = "COL_STATUS"         -> Buffers
      [] OTHER                     -> {<<0, 0>>}

\* A request of a caller: due is what a well-formed one is to be answered with.
Requests == [by : Callers, op : Ops, ok : BOOLEAN, args : Nat \X Nat, due : Values]

ASSUME NoReqAssumption == NoReq \notin Requests

VARIABLES
    fw_alive, fw_suspended, async_registered,
    rt_cfg, mgmt_pasid,
    requests, replies,  \* the two queues of the management channel
    hand,               \* the request being handled
    done,               \* column dump: bytes written so far
    wrote,              \* addresses DMA has written for the request in hand
    call,               \* the request a caller waits for
    \* History, not read by the code:
    left,               \* the registration was left by an earlier driver
    \* What the callers asked for last, in the order in which they asked:
    wanted, wanted_pasid

fw     == <<fw_alive, fw_suspended, async_registered, left>>
config == <<rt_cfg, mgmt_pasid>>
loop   == <<hand, done, wrote>>
ghosts == <<wanted, wanted_pasid>>
vars   == <<fw, config, requests, replies, loop, call, ghosts>>

Types == 0 .. (NumCfg - 1)
Zeros == [t \in Types |-> 0]

Init ==
    /\ fw_alive = FALSE /\ fw_suspended = FALSE /\ async_registered = FALSE /\ left = FALSE
    /\ rt_cfg = Zeros /\ mgmt_pasid = 0
    /\ requests = <<>> /\ replies = <<>>
    /\ hand = NoReq /\ done = 0 /\ wrote = {}
    /\ call = [c \in Callers |-> NoReq]
    /\ wanted = Zeros /\ wanted_pasid = 0
-----------------------------------------------------------------------------
(* Firmware comes and goes                                                 *)

\* The queues are emptied, and the calls that waited are gone: their driver gives
\* them up, or there is a new driver.
ChannelReset ==
    /\ requests' = <<>> /\ replies' = <<>>
    /\ call' = [c \in Callers |-> NoReq]

\* Requests the firmware has not handled are lost with the channel, so that what the
\* callers wanted is what it got to.
WantedIsSet == wanted' = rt_cfg /\ wanted_pasid' = mgmt_pasid

\* xdna_npu_reset().
Reset ==
    /\ hand = NoReq
    /\ fw_alive' = FALSE /\ fw_suspended' = FALSE /\ async_registered' = FALSE
    /\ rt_cfg' = Zeros /\ mgmt_pasid' = 0
    /\ ChannelReset
    /\ wanted' = Zeros /\ wanted_pasid' = 0 /\ left' = FALSE
    /\ UNCHANGED loop

\* xdna_fw_boot(), also over running firmware, where it leaves async_registered as
\* the driver before had it.
FwBoot ==
    /\ hand = NoReq
    /\ fw_alive' = TRUE /\ fw_suspended' = FALSE
    /\ ChannelReset /\ WantedIsSet
    /\ left' = async_registered
    /\ UNCHANGED <<async_registered, config, loop>>

\* Variant: the configuration goes too.
ShutdownForgets ==
    /\ fw_alive' = FALSE /\ async_registered' = FALSE
    /\ rt_cfg' = Zeros /\ mgmt_pasid' = 0 /\ UNCHANGED fw_suspended

\* The configuration, the PASID and fw_suspended stay.
Shutdown ==
    /\ fw_alive' = FALSE /\ async_registered' = FALSE
    /\ UNCHANGED <<fw_suspended, config>>

\* xdna_fw_shutdown().
FwShutdown ==
    /\ hand = NoReq
    /\ Shutdown
    /\ ChannelReset /\ WantedIsSet
    /\ left' = FALSE
    /\ UNCHANGED loop
-----------------------------------------------------------------------------
(* Callers                                                                 *)

\* A well-formed request will be answered with what was wanted when it was made.
Due(op, ok, args) ==
    IF op = "GET_RUNTIME_CONFIG" /\ ok /\ args[1] \in Types THEN wanted[args[1]] ELSE 0

Request(c, op, ok, args) ==
    [by |-> c, op |-> op, ok |-> ok, args |-> args, due |-> Due(op, ok, args)]

\* A caller posts a request.
Call(c, op, ok, args) ==
    LET r == Request(c, op, ok, args) IN
    /\ hand = NoReq /\ fw_alive
    /\ call[c] = NoReq
    /\ call' = [call EXCEPT ![c] = r]
    /\ requests' = Append(requests, r)
    /\ wanted' = IF op = "SET_RUNTIME_CONFIG" /\ ok /\ args[1] \in Types
                 THEN [wanted EXCEPT ![args[1]] = args[2]] ELSE wanted
    /\ wanted_pasid' = IF op = "ASSIGN_MGMT_PASID" /\ ok THEN args[1] ELSE wanted_pasid
    /\ UNCHANGED <<fw, config, replies, loop>>

\* xdna_msg_cb(): the oldest reply completes the call it belongs to.
Return ==
    /\ hand = NoReq /\ replies # <<>>
    /\ replies' = Tail(replies)
    /\ call' = [call EXCEPT ![Head(replies).req.by] = NoReq]
    /\ UNCHANGED <<fw, config, requests, loop, ghosts>>
-----------------------------------------------------------------------------
(* Replies                                                                 *)

\* Variant: a status on its own is the answer to most requests.
resp_size_for_status(op) == IF op = "TELEMETRY" THEN 4 ELSE 1

\* Size of the reply to an opcode, whatever its status.
resp_size_for(op) ==
    CASE op = "PROTOCOL_VERSION"   -> 3  [] op = "FIRMWARE_VERSION" -> 5
      [] op = "AIE_VERSION"        -> 2  [] op = "AIE_TILE_INFO"    -> 12
      [] op = "COL_STATUS"         -> 2  [] op = "TELEMETRY"        -> 4
      [] op = "GET_RUNTIME_CONFIG" -> 3  [] op = "CREATE_CONTEXT"   -> 19
      [] op = "REGISTER_ASYNC"     -> 2  [] op = "APP_HEALTH"       -> 9
      [] op = "DEV_REVISION"       -> 3  [] op = "CHAIN_EXEC"       -> 3
      [] OTHER                     -> 1

\* Where the status is: last in the reply to GET_TELEMETRY, else first.
status_off(op) == IF op = "TELEMETRY" THEN 3 ELSE 0

\* The structures the handlers fill in themselves.
RespStruct(op) ==
    CASE op = "PROTOCOL_VERSION"   -> [size |-> 3,  at |-> 0]
      [] op = "FIRMWARE_VERSION"   -> [size |-> 5,  at |-> 0]
      [] op = "AIE_VERSION"        -> [size |-> 2,  at |-> 0]
      [] op = "AIE_TILE_INFO"      -> [size |-> 12, at |-> 0]
      [] op = "TELEMETRY"          -> [size |-> 4,  at |-> 3]
      [] op = "COL_STATUS"         -> [size |-> 2,  at |-> 0]
      [] op = "GET_RUNTIME_CONFIG" -> [size |-> 3,  at |-> 0]
      [] op = "CREATE_CONTEXT"     -> [size |-> 19, at |-> 0]

\* mert_reply_status(): a reply of zeros but for the status.
ReplyStatus(r, status) ==
    [req |-> r, size |-> resp_size_for(r.op), at |-> status_off(r.op),
     status |-> status, value |-> 0, wrote |-> {}]

\* mert_reply() with a structure.
ReplyStruct(r, status, value) ==
    [req |-> r, size |-> RespStruct(r.op).size, at |-> RespStruct(r.op).at,
     status |-> status, value |-> value, wrote |-> {}]
-----------------------------------------------------------------------------
(* xdna_mert_handle()                                                      *)

\* xdna_mbox_process() hands the oldest request over.
Take ==
    /\ hand = NoReq /\ requests # <<>>
    /\ hand' = Head(requests)
    /\ requests' = Tail(requests)
    /\ UNCHANGED <<fw, config, replies, done, wrote, call, ghosts>>

\* The handler returns: with an answer, or without one.
Answered(rep) ==
    /\ replies' = Append(replies, rep)
    /\ hand' = NoReq /\ done' = 0 /\ wrote' = {}
    /\ UNCHANGED <<requests, call, ghosts>>
Unanswered ==
    /\ hand' = NoReq
    /\ UNCHANGED <<requests, replies, done, wrote, call, ghosts>>

Handles(ops) == hand # NoReq /\ hand.op \in ops
WellFormed(ops) == Handles(ops) /\ hand.ok

TooShort ==
    /\ Handles(WithPayload) /\ ~hand.ok
    /\ Answered(ReplyStatus(hand, "INVALID_INPUT_BUFFER"))
    /\ UNCHANGED <<fw, config>>

Query ==
    /\ Handles(Queries)
    /\ Answered(ReplyStruct(hand, "SUCCESS", 0))
    /\ UNCHANGED <<fw, config>>

TypeOutOfRange(t) == t >= NumCfg

SetRuntimeConfig ==
    LET t == hand.args[1] IN
    /\ WellFormed({"SET_RUNTIME_CONFIG"})
    /\ Answered(ReplyStatus(hand, IF TypeOutOfRange(t) THEN "INVALID_PARAM" ELSE "SUCCESS"))
    /\ rt_cfg' = IF TypeOutOfRange(t) THEN rt_cfg ELSE [rt_cfg EXCEPT ![t] = hand.args[2]]
    /\ UNCHANGED <<fw, mgmt_pasid>>

GetRuntimeConfig ==
    LET t == hand.args[1] IN
    /\ WellFormed({"GET_RUNTIME_CONFIG"})
    /\ Answered(IF TypeOutOfRange(t) THEN ReplyStruct(hand, "INVALID_PARAM", 0)
                                     ELSE ReplyStruct(hand, "SUCCESS", rt_cfg[t]))
    /\ UNCHANGED <<fw, config>>

AssignMgmtPasid ==
    /\ WellFormed({"ASSIGN_MGMT_PASID"})
    /\ Answered(ReplyStatus(hand, "SUCCESS"))
    /\ mgmt_pasid' = hand.args[1]
    /\ UNCHANGED <<fw, rt_cfg>>

\* SUSPEND, RESUME and INVOKE_SELF_TEST; a suspended firmware goes on answering.
Suspend ==
    /\ Handles({"SUSPEND", "RESUME", "SELF_TEST"})
    /\ Answered(ReplyStatus(hand, "SUCCESS"))
    /\ fw_suspended' = CASE hand.op = "SUSPEND" -> TRUE [] hand.op = "RESUME" -> FALSE
                         [] OTHER -> fw_suspended
    /\ UNCHANGED <<fw_alive, async_registered, left, config>>

\* What handle_create_context(), handle_destroy_context() and MAP_HOST_BUFFER may
\* come to (see XdnaNpu).
Context ==
    /\ WellFormed(ContextOps)
    /\ \/ /\ hand.op = "CREATE_CONTEXT"
          /\ Answered(ReplyStruct(hand, "SUCCESS", 0))
       \/ /\ hand.op # "CREATE_CONTEXT"
          /\ Answered(ReplyStatus(hand, "SUCCESS"))
       \/ Answered(ReplyStatus(hand, "MGMT_ERT_INVALID_PARAM"))
       \/ /\ hand.op = "CREATE_CONTEXT"
          /\ Answered(ReplyStatus(hand, "MGMT_ERT_NOAVAIL"))
    /\ UNCHANGED <<fw, config>>

\* Variant: the registration is acknowledged at once.
AsyncOutcomeAtOnce == Answered(ReplyStatus(hand, "SUCCESS"))

AsyncOutcome == Unanswered

\* REGISTER_ASYNC_EVENT_MSG is to be answered when there is an event; there are none.
RegisterAsync ==
    /\ WellFormed({"REGISTER_ASYNC"})
    /\ AsyncOutcome
    /\ async_registered' = TRUE /\ left' = FALSE
    /\ UNCHANGED <<fw_alive, fw_suspended, config>>

Refuse ==
    /\ Handles(NotImplemented \cup Unknown)
    /\ Answered(ReplyStatus(hand, IF hand.op \in Unknown THEN "INVALID_COMMAND"
                                                         ELSE "INVALID_OPERATION"))
    /\ UNCHANGED <<fw, config>>
-----------------------------------------------------------------------------
(* QUERY_COL_STATUS: a dump of zeros, written by DMA piece by piece        *)

addr == hand.args[1]
size == hand.args[2]

ColStatusRefused ==
    /\ WellFormed({"COL_STATUS"})
    /\ addr = 0 \/ size = 0 \/ ~HasDma
    /\ Answered(ReplyStruct(hand, IF addr = 0 \/ size = 0 THEN "INVALID_PARAM"
                                                          ELSE "AIE_DMA_ERROR", 0))
    /\ UNCHANGED <<fw, config>>

Dumping == WellFormed({"COL_STATUS"}) /\ addr # 0 /\ size # 0 /\ HasDma

\* Variants: the last piece is written in full; the loop does not advance.
PieceInFull == Chunk
PieceNone == 0

\* n: the rest, but not more than the buffer of zeros holds.
Piece == IF size - done > Chunk THEN Chunk ELSE size - done

\* dma_write() writes the next piece.
DumpPiece ==
    /\ Dumping /\ done < size
    /\ done' = done + Piece
    /\ wrote' = wrote \cup ((addr + done) .. (addr + done + Piece - 1))
    /\ UNCHANGED <<fw, config, requests, replies, hand, call, ghosts>>

\* The answer, with the bytes written on the way to it.
ReplyDump(status, bytes, written) ==
    [ReplyStruct(hand, status, bytes) EXCEPT !.wrote = written]

\* Variant: the piece that failed is counted.
ReportedWithFailed == done + Piece

Reported == done

\* dma_write() fails, with a part of the piece written.
DumpFails(part) ==
    /\ Dumping /\ done < size
    /\ part < Piece
    /\ Answered(ReplyDump("AIE_DMA_ERROR", Reported,
                          wrote \cup ((addr + done) .. (addr + done + part - 1))))
    /\ UNCHANGED <<fw, config>>

DumpDone ==
    /\ Dumping /\ done >= size
    /\ Answered(ReplyDump("SUCCESS", done, wrote))
    /\ UNCHANGED <<fw, config>>

Handle ==
    \/ Take \/ TooShort \/ Query \/ SetRuntimeConfig \/ GetRuntimeConfig \/ AssignMgmtPasid
    \/ Suspend \/ Context \/ RegisterAsync \/ Refuse
    \/ ColStatusRefused \/ DumpPiece \/ DumpDone
    \/ \E part \in 0 .. (Chunk - 1) : DumpFails(part)

Next ==
    \/ Reset \/ FwBoot \/ FwShutdown
    \/ \E c \in Callers, op \in Ops : \E args \in ArgsOf(op) : Call(c, op, TRUE, args)
    \/ \E c \in Callers, op \in WithPayload : Call(c, op, FALSE, <<0, 0>>)
    \/ Return \/ Handle

Spec == Init /\ [][Next]_vars

\* A write of the tail register returns, and the receive work runs; no caller has
\* to call, and the firmware need not come up.
FairSpec == Spec /\ WF_vars(Handle) /\ WF_vars(Return)
-----------------------------------------------------------------------------
(* Properties                                                              *)

Statuses == {"SUCCESS", "INVALID_INPUT_BUFFER", "INVALID_PARAM", "INVALID_COMMAND",
             "INVALID_OPERATION", "AIE_DMA_ERROR", "MGMT_ERT_INVALID_PARAM",
             "MGMT_ERT_NOAVAIL"}
Replies == [req : Requests, size : Nat, at : Nat, status : Statuses, value : Nat,
            wrote : SUBSET Nat]

\* Every field keeps its range; the column dump never passes the end of its buffer.
TypeOK ==
    /\ fw_alive \in BOOLEAN /\ fw_suspended \in BOOLEAN /\ async_registered \in BOOLEAN
    /\ left \in BOOLEAN
    /\ rt_cfg \in [Types -> Values] /\ mgmt_pasid \in Pasids
    /\ requests \in Seq(Requests) /\ hand \in Requests \cup {NoReq}
    /\ \A i \in 1 .. Len(replies) :
          /\ replies[i].req \in Requests /\ replies[i].status \in Statuses
          /\ replies[i].wrote \subseteq Nat
    /\ done \in Nat /\ (hand = NoReq \/ done <= size)
    /\ call \in [Callers -> Requests \cup {NoReq}]
    /\ wanted \in [Types -> Values] /\ wanted_pasid \in Pasids

\* The reply structures of the driver: what it compares a reply's size with, and
\* where it looks for the status.
DriverStruct(op) ==
    [size |-> CASE op \in {"AIE_VERSION", "COL_STATUS", "REGISTER_ASYNC"} -> 2
                [] op \in {"PROTOCOL_VERSION", "GET_RUNTIME_CONFIG", "DEV_REVISION",
                           "CHAIN_EXEC"} -> 3
                [] op = "TELEMETRY" -> 4      [] op = "FIRMWARE_VERSION" -> 5
                [] op = "APP_HEALTH" -> 9     [] op = "AIE_TILE_INFO" -> 12
                [] op = "CREATE_CONTEXT" -> 19
                [] OTHER -> 1,
     at   |-> IF op = "TELEMETRY" THEN 3 ELSE 0]

\* Each answer, on every error path too, has the one size the driver takes for its
\* opcode, and the status where the driver reads it: a caller sees the
\* firmware's own verdict and not -EINVAL.  The claim is about the opcodes the driver
\* has a structure for; for others (OTHER) the code answers with the status alone,
\* and a driver that expects more gets -EINVAL, which the code accepts.
RepliesReadable ==
    \A i \in 1 .. Len(replies) :
        LET rep == replies[i] IN DriverStruct(rep.req.op) = [size |-> rep.size, at |-> rep.at]

\* A configuration that was read is the one that was asked for last before, by any
\* caller, since the device was reset: also across releases of the firmware and
\* boots, over running firmware too.  When no request waits, so is the PASID.
ConfigAsWanted ==
    /\ \A i \in 1 .. Len(replies) :
          LET rep == replies[i] IN
          rep.req.op = "GET_RUNTIME_CONFIG" /\ rep.req.ok /\ rep.req.args[1] \in Types =>
              rep.status = "SUCCESS" /\ rep.value = rep.req.due
    /\ requests = <<>> /\ hand = NoReq => rt_cfg = wanted /\ mgmt_pasid = wanted_pasid

\* Wherever the DMA of a column dump fails: what the answer reports was written,
\* nothing outside the buffer was, and success means all of it.
DumpExact ==
    \A i \in 1 .. Len(replies) :
        LET rep == replies[i]
            start == rep.req.args[1]
            length == rep.req.args[2]
        IN  rep.req.op = "COL_STATUS" /\ rep.req.ok =>
              /\ start .. (start + rep.value - 1) \subseteq rep.wrote
              /\ rep.wrote \subseteq start .. (start + length - 1)
              /\ rep.status = "SUCCESS" <=> rep.value = length /\ length # 0 /\ start # 0

\* Where the request of caller c is.
Posted(c) == {i \in 1 .. Len(requests) : requests[i].by = c}
Answers(c) == {i \in 1 .. Len(replies) : replies[i].req.by = c}
InHand(c) == hand # NoReq /\ hand.by = c

Async(r) == r # NoReq /\ r.op = "REGISTER_ASYNC" /\ r.ok

\* A call is in one place: it waits, is being handled, or is answered, once; only
\* a registration for events stays with the firmware, which knows of one as long as
\* there is such a call.  That async_registered is set although nobody waits comes
\* of a boot over running firmware alone, and ends with the next registration,
\* release or reset.
AnsweredOnce ==
    /\ \A c \in Callers :
          LET places == Cardinality(Posted(c)) + Cardinality(Answers(c))
                          + (IF InHand(c) THEN 1 ELSE 0)
          IN  CASE call[c] = NoReq -> places = 0
                [] Async(call[c])  ->
                     places = 1 \/ (places = 0 /\ async_registered /\ ~left)
                [] OTHER           -> places = 1
    /\ async_registered /\ ~left => \E c \in Callers : Async(call[c])

\* Every call comes back, if only because the firmware is released, but for a
\* registration for events.
EveryCallReturns ==
    \A c \in Callers : (call[c] # NoReq /\ ~Async(call[c])) ~> call[c] = NoReq
=============================================================================
