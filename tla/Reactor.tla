------------------------------ MODULE Reactor ------------------------------
(***************************************************************************)
(* The long-running reactor of one session                                 *)
(* (evorule-reactor/src/{reactor,state,stable_detector}.rs): a single task *)
(* that receives facts on an unbounded command channel, runs the queued    *)
(* instructions through execute_transition one at a time, and emits a fact *)
(* for everything it does.  Its environment sends commands, payload        *)
(* updates and I/O responses, sets the interrupt and cancel-all flags,     *)
(* lets time pass, closes the channel, and may crash the process, after    *)
(* which a new reactor is mounted on the recovered chain.                  *)
(*                                                                         *)
(* execute_transition is the constant operator Transition: the results the *)
(* rules may give for an instruction, a payload and the set of io_types    *)
(* that have a non-null entry under __io_results__.                        *)
(***************************************************************************)
EXTENDS Facts, FiniteSets, Functions

CONSTANTS IoType,             \* io_types the rules may request
          KnownIoTypes,       \* known_io_types
          Transition(_, _, _),\* execute_transition
          Injectable(_),      \* payloads whose __io_results__ can take a result
          MaxRounds,          \* max_rounds
          MaxQueueLen,        \* max_queue_len, 0 switches the limit off
          WalFailThreshold,   \* WAL_FAIL_TERMINATE_THRESHOLD
          WalOutcomes,        \* outcomes of a WAL write: TRUE, FALSE or either
          Budget              \* bound on the events of the environment

Events == {"command", "update", "response", "interrupt", "cancel", "close", "restart"}

(* What execute_transition returns: the State, IoRequired, Ignored and      *)
(* Halted variants of TransitionResult, or an error.  A State prepends      *)
(* `push` to the queue and nulls the results in `consume`.                  *)
Result == [kind : {"State", "IoRequired", "Ignored", "Halted", "Err"},
           data : Data, push : Seq(Instruction), consume : SUBSET IoType,
           io_type : IoType]

ASSUME ReactorAssumption ==
    /\ KnownIoTypes \subseteq IoType
    /\ \A i \in Instruction, d \in Data, S \in SUBSET IoType :
          /\ Transition(i, d, S) # {}
          /\ Transition(i, d, S) \subseteq Result
    /\ \A d \in Data : Injectable(d) \in BOOLEAN
    /\ MaxRounds \in Nat \ {0}
    /\ MaxQueueLen \in Nat
    /\ WalFailThreshold \in Nat \ {0}
    /\ WalOutcomes \subseteq BOOLEAN /\ WalOutcomes # {}
    /\ Budget \in [Events -> Nat]

VARIABLES
    chan,              \* the command channel, oldest fact first
    open,              \* some sender of the command channel is alive
    interrupt,         \* interrupt_flag
    cancel_all,        \* cancel_all_flag
    pc,                \* where the main loop is
    drained_any,       \* a fact was received in this iteration's drain
    steps,             \* instructions executed since the last Stable
    sweep,             \* requests the cancel or timeout loop has still to remove
    finished,          \* ReactorStateSnapshot.finished
    data,              \* payload without __io_results__
    io_results,        \* __io_results__: the request whose result it holds, 0 if null
    queue,             \* the instruction queue
    causes,            \* instruction_causes
    version,           \* ReactorState.version
    io_recovery,       \* ReactorState.io_recovery
    pending_io_count,  \* ReactorState.pending_io_count
    pending_requests,  \* pending_requests with pending_io_types: id -> io_type
    pending_io_instructions, \* id -> the suspended instruction and its cause
    expired,           \* pending requests older than the error timeout
    next_request,      \* id of the next IoRequest
    log,               \* the audit chain
    wal_fail_count,    \* consecutive failed WAL writes, saturated
    budget             \* events the environment may still cause

chain   == <<log, wal_fail_count, interrupt>>
pending == <<pending_io_count, pending_requests, pending_io_instructions>>
work    == <<queue, causes>>
payload == <<data, version>>
results == <<io_results, io_recovery>>
inputs  == <<chan, open, cancel_all, budget>>
control == <<pc, drained_any, steps, sweep, finished>>
clock   == <<expired, next_request>>

vars == <<chain, pending, work, payload, results, inputs, control, clock>>

Ended == pc \in {"finished", "failed"}

-----------------------------------------------------------------------------
(* emit_fact over FactsLog::append.  A failed WAL write leaves the chain    *)
(* alone; from the threshold on, every further failure raises the interrupt *)
(* flag.  A chain state is the record of the three variables in `chain`.    *)

Saturate(n) == IF n > WalFailThreshold THEN WalFailThreshold ELSE n

(* Mutant: the escalation fires once, at the threshold only. *)
AppendToEscalatingOnce(b, f, ok) ==
    [log   |-> IF ok THEN LogAppend(b.log, f) ELSE b.log,
     fails |-> IF ok THEN 0 ELSE Saturate(b.fails + 1),
     irq   |-> b.irq \/ (~ok /\ b.fails + 1 = WalFailThreshold)]

AppendTo(b, f, ok) ==
    [log   |-> IF ok THEN LogAppend(b.log, f) ELSE b.log,
     fails |-> IF ok THEN 0 ELSE Saturate(b.fails + 1),
     irq   |-> b.irq \/ (~ok /\ b.fails + 1 >= WalFailThreshold)]

Chain(irq) == [log |-> log, fails |-> wal_fail_count, irq |-> irq]

SetChain(b) ==
    /\ log' = b.log
    /\ wal_fail_count' = b.fails
    /\ interrupt' = b.irq

Emit(f) == \E ok \in WalOutcomes : SetChain(AppendTo(Chain(interrupt), f, ok))

(* Two facts, one after the other, with irq the flag before the first. *)
EmitBoth(f, g, irq) ==
    \E ok1, ok2 \in WalOutcomes :
        SetChain(AppendTo(AppendTo(Chain(irq), f, ok1), g, ok2))

-----------------------------------------------------------------------------
(* ReactorState: the queue with its causes, and the pending I/O requests. *)

is_stable == queue = <<>> /\ pending_io_count = 0

bump_version == version' = version + 1

push_back(item, c) ==
    /\ queue' = Append(queue, item)
    /\ causes' = Append(causes, c)

(* Mutant: the resumed instruction queues up behind the others. *)
push_front_behind(item, c) == push_back(item, c)

(* Mutant: the two queues are extended at different ends. *)
push_front_skewed(item, c) ==
    /\ queue' = <<item>> \o queue
    /\ causes' = Append(causes, c)

push_front(item, c) ==
    /\ queue' = <<item>> \o queue
    /\ causes' = <<c>> \o causes

(* Mutant: the cause queue is forgotten. *)
clear_queue_only == queue' = <<>> /\ UNCHANGED causes

clear_queue == queue' = <<>> /\ causes' = <<>>

(* pop_instruction: the head, its cause (FactId(0) if the cause queue is    *)
(* empty) and what is left of both queues.                                  *)
PoppedCause == IF causes = <<>> THEN 0 ELSE Head(causes)
RestQueue   == Tail(queue)
RestCauses  == IF causes = <<>> THEN <<>> ELSE Tail(causes)

(* update_queue_with_causes(new_queue, c), on the queue left by the pop: a  *)
(* pushed instruction inherits c, an old one keeps its cause or, where the  *)
(* cause queue is too short, takes c.                                       *)
RebuiltCauses(new_len, c) ==
    LET new_count == IF new_len > Len(RestQueue) THEN new_len - Len(RestQueue) ELSE 0
    IN  [i \in 1 .. new_len |->
           IF i > new_count /\ i - new_count <= Len(RestCauses)
           THEN RestCauses[i - new_count] ELSE c]

register_io_request(r, t) ==
    /\ pending_requests' = [x \in DOMAIN pending_requests \cup {r} |->
                              IF x = r THEN t ELSE pending_requests[x]]
    /\ pending_io_count' = IF r \in DOMAIN pending_requests
                           THEN pending_io_count ELSE pending_io_count + 1

save_io_instruction(r, item, c) ==
    pending_io_instructions' =
        [x \in DOMAIN pending_io_instructions \cup {r} |->
           IF x = r THEN [item |-> item, cause |-> c] ELSE pending_io_instructions[x]]

(* complete_io_request(r) when r is pending, and the timer it stops. *)
complete_io_request(r) ==
    /\ pending_requests' = Restrict(pending_requests, DOMAIN pending_requests \ {r})
    /\ pending_io_count' = IF pending_io_count = 0 THEN 0 ELSE pending_io_count - 1
    /\ expired' = expired \ {r}

take_io_instruction(r) ==
    pending_io_instructions' =
        Restrict(pending_io_instructions, DOMAIN pending_io_instructions \ {r})

(* Mutant: the suspended instruction is left behind. *)
force_remove_leaking(r) ==
    /\ complete_io_request(r)
    /\ UNCHANGED pending_io_instructions

force_remove_io_request(r) ==
    \/ /\ r \in DOMAIN pending_requests
       /\ complete_io_request(r)
       /\ take_io_instruction(r)
    \/ r \notin DOMAIN pending_requests /\ UNCHANGED <<pending, expired>>

(* clear_io_recovery: __io_results__ and the flag go together. *)
NoResults == [t \in IoType |-> 0]

clear_io_recovery == io_results' = NoResults /\ io_recovery' = FALSE

-----------------------------------------------------------------------------
Init ==
    /\ chan = <<>> /\ open = TRUE /\ cancel_all = FALSE /\ budget = Budget
    /\ pc = "head" /\ drained_any = FALSE /\ steps = 0 /\ sweep = {}
    /\ finished = FALSE
    /\ data = InitData /\ version = 0
    /\ io_results = NoResults /\ io_recovery = FALSE
    /\ queue = <<>> /\ causes = <<>>
    /\ pending_io_count = 0 /\ pending_requests = <<>>
    /\ pending_io_instructions = <<>>
    /\ expired = {} /\ next_request = 1
    /\ log = EmptyLog /\ wal_fail_count = 0 /\ interrupt = FALSE

-----------------------------------------------------------------------------
(* The environment. *)

reactor == <<chain, pending, work, payload, results, control, clock>>

Spend(e) == budget[e] > 0 /\ budget' = [budget EXCEPT ![e] = @ - 1]

Send(e, f) ==
    /\ ~Ended /\ open
    /\ Spend(e)
    /\ chan' = Append(chan, f)
    /\ UNCHANGED <<reactor, open, cancel_all>>

(* Commands are numbered in the order they are sent. *)
SendCommand ==
    \E i \in Instruction :
        Send("command", CommandFact(Budget["command"] - budget["command"] + 1, i))

SendPayloadUpdate == \E u \in Update : Send("update", PayloadUpdateFact(u))

(* Any request ever issued may be answered, also twice and also late. *)
SendIoResponse ==
    \E r \in 1 .. next_request - 1, ok \in BOOLEAN : Send("response", IoResponseFact(r, ok))

Interrupt ==
    /\ ~Ended /\ Spend("interrupt")
    /\ interrupt' = TRUE
    /\ UNCHANGED <<log, wal_fail_count, pending, work, payload, results, chan, open,
                   cancel_all, control, clock>>

CancelAll ==
    /\ ~Ended /\ Spend("cancel")
    /\ cancel_all' = TRUE
    /\ UNCHANGED <<reactor, chan, open>>

CloseChannel ==
    /\ open /\ Spend("close")
    /\ open' = FALSE
    /\ UNCHANGED <<reactor, chan, cancel_all>>

(* Time passes: every pending request exceeds the error timeout. *)
Tick ==
    /\ ~Ended
    /\ expired # DOMAIN pending_requests
    /\ expired' = DOMAIN pending_requests
    /\ UNCHANGED <<chain, pending, work, payload, results, inputs, control, next_request>>

(* Mutant: a reactor mounted on a recovered chain starts from scratch. *)
SeedNothing == InitData

(* The payload run() starts from. *)
SeedPayload == IF log.version > 0 THEN log.data ELSE InitData

(* The process crashes and a reactor is mounted on the recovered chain.     *)
(* run() seeds payload, queue and version when the chain has a version; it  *)
(* seeds no causes.  What was in memory only is gone.                       *)
Restart ==
    /\ Spend("restart")
    /\ chan' = <<>> /\ open' = TRUE /\ interrupt' = FALSE /\ cancel_all' = FALSE
    /\ pc' = "head" /\ drained_any' = FALSE /\ steps' = 0 /\ sweep' = {}
    /\ finished' = FALSE
    /\ data'    = SeedPayload
    /\ queue'   = IF log.version > 0 THEN log.queue ELSE <<>>
    /\ version' = IF log.version > 0 THEN log.version ELSE 0
    /\ causes' = <<>>
    /\ io_results' = NoResults /\ io_recovery' = FALSE
    /\ pending_io_count' = 0 /\ pending_requests' = <<>>
    /\ pending_io_instructions' = <<>>
    /\ expired' = {} /\ wal_fail_count' = 0
    /\ UNCHANGED <<log, next_request>>

-----------------------------------------------------------------------------
(* The head of the main loop: interrupt, cancel-all, drain. *)

HeadInterrupt ==
    /\ pc = "head" /\ interrupt
    /\ EmitBoth(ErrorFact, StableFact(version), FALSE)
    /\ steps' = 0
    /\ UNCHANGED <<pending, work, payload, results, inputs, clock,
                   pc, drained_any, sweep, finished>>

HeadCancel ==
    /\ pc = "head" /\ ~interrupt /\ cancel_all
    /\ cancel_all' = FALSE
    /\ sweep' = DOMAIN pending_requests
    /\ pc' = "sweep"
    /\ UNCHANGED <<chain, pending, work, payload, results, chan, open, budget, clock,
                   drained_any, steps, finished>>

HeadDrain ==
    /\ pc = "head" /\ ~interrupt /\ ~cancel_all
    /\ pc' = "drain" /\ drained_any' = FALSE
    /\ UNCHANGED <<chain, pending, work, payload, results, inputs, clock,
                   steps, sweep, finished>>

(* One request of the cancel-all or of the timeout loop. *)
SweepRequest ==
    /\ pc = "sweep"
    /\ \E r \in sweep :
        /\ Emit(ErrorFact)
        /\ force_remove_io_request(r)
        /\ sweep' = sweep \ {r}
    /\ UNCHANGED <<work, payload, results, inputs, next_request,
                   pc, drained_any, steps, finished>>

SweepDone ==
    /\ pc = "sweep" /\ sweep = {}
    /\ pc' = "head"
    /\ UNCHANGED <<chain, pending, work, payload, results, inputs, clock,
                   drained_any, steps, sweep, finished>>

-----------------------------------------------------------------------------
(* emit_fact and handle_fact on the oldest fact of the channel.  `next` is  *)
(* where the main loop goes on when handle_fact returns Ok.                 *)

HandleCommand(f, next) ==
    /\ f.type = "Command"
    /\ Emit(f)
    /\ push_back([instr |-> f.instr, from |-> f.id], f.id)
    /\ pc' = next
    /\ UNCHANGED <<pending, payload, results, clock>>

HandleUpdate(f, next) ==
    /\ f.type = "PayloadUpdate"
    /\ UpdatePayload(f.update, data) # Rejected
    /\ Emit(f)
    /\ data' = UpdatePayload(f.update, data)
    /\ bump_version
    /\ pc' = next
    /\ UNCHANGED <<pending, work, results, clock>>

(* The error of update_payload leaves run() through `?`. *)
HandleRejectedUpdate(f) ==
    /\ f.type = "PayloadUpdate"
    /\ UpdatePayload(f.update, data) = Rejected
    /\ Emit(f)
    /\ pc' = "failed"
    /\ UNCHANGED <<pending, work, payload, results, clock>>

HandleStaleResponse(f, next) ==
    /\ f.type = "IoResponse"
    /\ f.request \notin DOMAIN pending_requests
    /\ EmitBoth(f, ErrorFact, interrupt)
    /\ pc' = next
    /\ UNCHANGED <<pending, work, payload, results, clock>>

HandleEmptyResponse(f, next) ==
    /\ f.type = "IoResponse" /\ ~f.ok
    /\ f.request \in DOMAIN pending_requests
    /\ Emit(f)
    /\ complete_io_request(f.request)
    /\ take_io_instruction(f.request)
    /\ bump_version
    /\ pc' = next
    /\ UNCHANGED <<work, data, results, next_request>>

(* The error of inject_io_result leaves run() through `?`, and the state    *)
(* with the suspended instruction in it is dropped.                         *)
HandleRefusedResult(f) ==
    /\ f.type = "IoResponse" /\ f.ok
    /\ f.request \in DOMAIN pending_requests
    /\ ~Injectable(data)
    /\ Emit(f)
    /\ complete_io_request(f.request)
    /\ take_io_instruction(f.request)
    /\ pc' = "failed"
    /\ UNCHANGED <<work, payload, results, next_request>>

HandleResult(f, next) ==
    /\ f.type = "IoResponse" /\ f.ok
    /\ f.request \in DOMAIN pending_requests
    /\ Injectable(data)
    /\ Emit(f)
    /\ io_results' = [io_results EXCEPT ![pending_requests[f.request]] = f.request]
    /\ complete_io_request(f.request)
    /\ take_io_instruction(f.request)
    /\ IF f.request \in DOMAIN pending_io_instructions
       THEN LET saved == pending_io_instructions[f.request]
            IN  push_front(saved.item, saved.cause) /\ io_recovery' = TRUE
       ELSE UNCHANGED <<work, io_recovery>>
    /\ bump_version
    /\ pc' = next
    /\ UNCHANGED <<data, next_request>>

(* The last arm of handle_fact is for facts a reactor produces itself;      *)
(* nobody in the repository sends one to a command channel.                 *)
Receive(next) ==
    /\ chan # <<>>
    /\ chan' = Tail(chan)
    /\ \/ HandleCommand(Head(chan), next)
       \/ HandleUpdate(Head(chan), next)
       \/ HandleRejectedUpdate(Head(chan))
       \/ HandleStaleResponse(Head(chan), next)
       \/ HandleEmptyResponse(Head(chan), next)
       \/ HandleRefusedResult(Head(chan))
       \/ HandleResult(Head(chan), next)
    /\ UNCHANGED <<open, cancel_all, budget, steps, sweep, finished>>

-----------------------------------------------------------------------------
(* Drain, stable detection and the blocking wait. *)

DrainFact ==
    /\ pc = "drain"
    /\ Receive("drain")
    /\ drained_any' = TRUE

AtDrainEnd == pc = "drain" /\ chan = <<>> /\ open

Stop ==
    /\ chan = <<>> /\ ~open
    /\ pc' = "finished" /\ finished' = TRUE
    /\ UNCHANGED <<chain, pending, work, payload, results, inputs, clock,
                   drained_any, steps, sweep>>

DrainClosed == pc = "drain" /\ Stop

DrainStable ==
    /\ AtDrainEnd /\ is_stable /\ steps > 0
    /\ Emit(StableFact(version))
    /\ steps' = 0
    /\ pc' = "head"
    /\ UNCHANGED <<pending, work, payload, results, inputs, clock,
                   drained_any, sweep, finished>>

(* Mutant: the wait does not look at the queue. *)
MustAwaitBlindly == ~drained_any

MustAwait == (queue = <<>> \/ pending_io_count > 0) /\ ~drained_any

DrainDone ==
    /\ AtDrainEnd /\ ~(is_stable /\ steps > 0)
    /\ pc' = IF MustAwait THEN "await" ELSE "exec"
    /\ UNCHANGED <<chain, pending, work, payload, results, inputs, clock,
                   drained_any, steps, sweep, finished>>

AwaitFact ==
    /\ pc = "await"
    /\ Receive("exec")
    /\ UNCHANGED drained_any

AwaitClosed == pc = "await" /\ Stop

(* Mutant: no request is ever found to have timed out. *)
TimedOutNever == {}

(* The requests check_io_timeouts removes. *)
TimedOut == expired

(* recv() timed out: check_io_timeouts, then back to the head. *)
AwaitTimeout ==
    /\ pc = "await" /\ chan = <<>> /\ open
    /\ sweep' = TimedOut
    /\ pc' = "sweep"
    /\ UNCHANGED <<chain, pending, work, payload, results, inputs, clock,
                   drained_any, steps, finished>>

-----------------------------------------------------------------------------
(* The execution loop. *)

(* `while pending_io_count == 0` ends, or the queue is empty. *)
ExecDone ==
    /\ pc = "exec"
    /\ pending_io_count > 0 \/ (steps < MaxRounds /\ queue = <<>>)
    /\ pc' = "head"
    /\ UNCHANGED <<chain, pending, work, payload, results, inputs, clock,
                   drained_any, steps, sweep, finished>>

ExecMaxRounds ==
    /\ pc = "exec" /\ pending_io_count = 0
    /\ steps >= MaxRounds
    /\ EmitBoth(ErrorFact, StableFact(version), interrupt)
    /\ clear_queue
    /\ steps' = 0
    /\ pc' = "head"
    /\ UNCHANGED <<pending, payload, results, inputs, clock, drained_any, sweep, finished>>

(* An instruction is popped and execute_transition gives res. *)
CanExec == pc = "exec" /\ pending_io_count = 0 /\ steps < MaxRounds /\ queue # <<>>

Outcomes == Transition(Head(queue).instr, data, {t \in IoType : io_results[t] # 0})

Pushed(res) ==
    [i \in 1 .. Len(res.push) |-> [instr |-> res.push[i], from |-> Head(queue).from]]

NewQueue(res) == Pushed(res) \o RestQueue

Overflows(q) == MaxQueueLen > 0 /\ Len(q) >= MaxQueueLen

Consumed(res) == [t \in IoType |-> IF t \in res.consume THEN 0 ELSE io_results[t]]

ExecState(res) ==
    /\ res.kind = "State" /\ ~Overflows(NewQueue(res))
    /\ data' = res.data
    /\ queue' = NewQueue(res)
    /\ causes' = RebuiltCauses(Len(NewQueue(res)), PoppedCause)
    /\ IF io_recovery THEN clear_io_recovery
                      ELSE io_results' = Consumed(res) /\ UNCHANGED io_recovery
    /\ bump_version
    /\ EmitBoth(TransitionFact(PoppedCause, res.data, NewQueue(res)), TraceFact, interrupt)
    /\ steps' = steps + 1
    /\ UNCHANGED <<pc, pending, clock>>

(* The hard limit on the queue: the new payload stays, nothing of it is     *)
(* emitted and io_recovery is not cleared.                                  *)
ExecOverflow(res) ==
    /\ res.kind = "State" /\ Overflows(NewQueue(res))
    /\ data' = res.data
    /\ io_results' = Consumed(res)
    /\ clear_queue
    /\ EmitBoth(ErrorFact, StableFact(version), interrupt)
    /\ steps' = 0
    /\ pc' = "head"
    /\ UNCHANGED <<version, io_recovery, pending, clock>>

(* The instruction is dropped: Ignored, Halted, an unknown io_type or Err. *)
Drop ==
    /\ queue' = RestQueue /\ causes' = RestCauses
    /\ steps' = steps + 1
    /\ pc' = "head"
    /\ UNCHANGED <<payload, results, pending, clock>>

ExecIgnored(res) ==
    /\ res.kind = "Ignored"
    /\ EmitBoth(ErrorFact, TraceFact, interrupt)
    /\ Drop

ExecHalted(res) ==
    /\ res.kind = "Halted"
    /\ Emit(ViolationFact(PoppedCause))
    /\ Drop

ExecUnknownIo(res) ==
    /\ res.kind = "IoRequired" /\ res.io_type \notin KnownIoTypes
    /\ Emit(ErrorFact)
    /\ Drop

ExecErr(res) ==
    /\ res.kind = "Err"
    /\ Emit(ErrorFact)
    /\ Drop

(* Mutant: the instruction stays on the queue as well. *)
ExecIoRequiredPeeking(res) ==
    /\ res.kind = "IoRequired" /\ res.io_type \in KnownIoTypes
    /\ register_io_request(next_request, res.io_type)
    /\ save_io_instruction(next_request, Head(queue), PoppedCause)
    /\ next_request' = next_request + 1
    /\ Emit(IoRequestFact(next_request, PoppedCause))
    /\ steps' = steps + 1
    /\ pc' = "head"
    /\ UNCHANGED <<work, payload, results, expired>>

(* The request is registered and the instruction kept for its answer. *)
ExecIoRequired(res) ==
    /\ res.kind = "IoRequired" /\ res.io_type \in KnownIoTypes
    /\ register_io_request(next_request, res.io_type)
    /\ save_io_instruction(next_request, Head(queue), PoppedCause)
    /\ next_request' = next_request + 1
    /\ Emit(IoRequestFact(next_request, PoppedCause))
    /\ queue' = RestQueue /\ causes' = RestCauses
    /\ steps' = steps + 1
    /\ pc' = "head"
    /\ UNCHANGED <<payload, results, expired>>

ExecInstruction ==
    /\ CanExec
    /\ \E res \in Outcomes :
        \/ ExecState(res)
        \/ ExecOverflow(res)
        \/ ExecIgnored(res)
        \/ ExecHalted(res)
        \/ ExecUnknownIo(res)
        \/ ExecErr(res)
        \/ ExecIoRequired(res)
    /\ UNCHANGED <<inputs, drained_any, sweep, finished>>

-----------------------------------------------------------------------------
ReactorStep ==
    \/ HeadInterrupt \/ HeadCancel \/ HeadDrain
    \/ SweepRequest \/ SweepDone
    \/ DrainFact \/ DrainClosed \/ DrainStable \/ DrainDone
    \/ AwaitFact \/ AwaitClosed \/ AwaitTimeout
    \/ ExecDone \/ ExecMaxRounds \/ ExecInstruction

Environment ==
    \/ SendCommand \/ SendPayloadUpdate \/ SendIoResponse
    \/ Interrupt \/ CancelAll \/ CloseChannel \/ Tick \/ Restart

Next == ReactorStep \/ Environment

Spec == Init /\ [][Next]_vars

(* The runtime keeps polling the reactor task, and time passes. *)
FairSpec == Spec /\ WF_vars(ReactorStep) /\ WF_vars(Tick)

-----------------------------------------------------------------------------
(***************************************************************************)
(* Properties.                                                             *)
(***************************************************************************)

(* m maps some of the requests issued so far into S. *)
OfRequests(m, S) == DOMAIN m \subseteq 1 .. next_request - 1 /\ m \in [DOMAIN m -> S]

(* Every variable of the reactor, its channel and its chain has its type. *)
TypeOK ==
    /\ chan \in Seq(Fact) /\ open \in BOOLEAN
    /\ interrupt \in BOOLEAN /\ cancel_all \in BOOLEAN
    /\ pc \in {"head", "sweep", "drain", "await", "exec", "finished", "failed"}
    /\ drained_any \in BOOLEAN /\ steps \in Nat /\ finished \in BOOLEAN
    /\ data \in Data /\ version \in Nat
    /\ io_results \in [IoType -> Nat] /\ io_recovery \in BOOLEAN
    /\ queue \in Seq(Item) /\ causes \in Seq(Nat)
    /\ next_request \in Nat \ {0}
    /\ pending_io_count \in Nat
    /\ OfRequests(pending_requests, IoType)
    /\ OfRequests(pending_io_instructions, [item : Item, cause : Nat])
    /\ expired \subseteq 1 .. next_request - 1
    /\ sweep \subseteq 1 .. next_request - 1
    /\ log \in Log
    /\ wal_fail_count \in 0 .. WalFailThreshold
    /\ budget \in [Events -> Nat] /\ \A e \in Events : budget[e] <= Budget[e]

(* The bookkeeping of pending I/O stays coherent through responses,         *)
(* duplicates, timeouts and cancellation: the counter the loop blocks on is *)
(* the number of registered requests, every one of them has its suspended   *)
(* instruction and no other instruction is kept, and at most one request is *)
(* pending (the assumption under which clear_io_result drops every result). *)
PendingConsistent ==
    /\ pending_io_count = Cardinality(DOMAIN pending_requests)
    /\ DOMAIN pending_io_instructions = DOMAIN pending_requests
    /\ \A r, s \in DOMAIN pending_requests : r = s
    /\ expired \subseteq DOMAIN pending_requests
    /\ sweep \subseteq DOMAIN pending_requests
    /\ pc # "sweep" => sweep = {}

(* ReactorState's invariant on instruction_causes, and what it is for: the  *)
(* cause recorded for an instruction, on the queue or suspended on an I/O   *)
(* request, is the Command it descends from.                                *)
CausesTrackOrigin ==
    /\ Len(causes) = Len(queue)
    /\ \A i \in 1 .. Len(queue) : causes[i] = queue[i].from
    /\ \A r \in DOMAIN pending_io_instructions :
          pending_io_instructions[r].cause = pending_io_instructions[r].item.from

(* Structural invariants 2 and 4 (invariants.rs): io_recovery is set        *)
(* exactly when a non-null I/O result sits in the payload.                  *)
RecoveryMatchesResult == io_recovery <=> \E t \in IoType : io_results[t] # 0

(* From the third failed write in a row on, and until a write succeeds, the *)
(* reactor stands interrupted: the flag its own handling of the interrupt   *)
(* resets is raised again by the failing writes of that handling.           *)
ExhaustionKeepsFlag == wal_fail_count = WalFailThreshold => interrupt

(* Positions of the transitions the chain attributes to command c. *)
TransitionsOf(c) ==
    {k \in DOMAIN log.facts : /\ log.facts[k].type = "StateTransition"
                              /\ log.facts[k].cause = c}

(* An instruction no rule expands into others. *)
Leaf(i) == \A d \in Data, S \in SUBSET IoType :
             \A res \in Transition(i, d, S) : res.push = <<>>

(* Suspension and resumption never run an instruction twice: however often  *)
(* its I/O is answered, late, twice or after a cancel, the chain holds at   *)
(* most one transition for a command that expands into no others.           *)
LeafAppliedOnce ==
    \A k \in DOMAIN log.facts :
        LET f == log.facts[k]
        IN  f.type = "Command" /\ Leaf(f.instr) => Cardinality(TransitionsOf(f.id)) <= 1

(* Commands are executed one after the other: a command's transitions,      *)
(* those of everything it pushed and those after an I/O suspension          *)
(* included, all come before the first transition of a later command.       *)
SerialExecution ==
    \A j, k \in DOMAIN log.facts :
        /\ j < k
        /\ log.facts[j].type = "StateTransition"
        /\ log.facts[k].type = "StateTransition"
        => log.facts[j].cause <= log.facts[k].cause

(* The payload the rules run on is the payload the chain materialises, and  *)
(* the reactor's version never runs ahead of the chain's.                   *)
LogMirrorsPayload == log.data = data /\ version <= log.version

(* No payload change escapes the chain: a step that changes the payload     *)
(* advances the reactor's version and the chain's.                          *)
ChangesAreVersioned ==
    [][data' # data => version' = version + 1 /\ log'.version = log.version + 1]_vars

(* Work always comes to rest: whatever the rules push, and with responses   *)
(* lost, late or duplicated and requests cancelled, the reactor is          *)
(* infinitely often idle, with an empty queue, no pending I/O and the burst *)
(* closed by a Stable fact.                                                 *)
ComesToRest == []<>((is_stable /\ steps = 0) \/ Ended)

(* Every I/O request ends, answered, cancelled or timed out. *)
RequestsEnd ==
    \A r \in 1 .. Budget["command"] + 1 :
        (r \in DOMAIN pending_requests) ~> (r \notin DOMAIN pending_requests)

-----------------------------------------------------------------------------
(***************************************************************************)
(* What the documentation and the comments say of the reactor.  The runs   *)
(* of README.md's "Disagreements" show where the code does otherwise.      *)
(***************************************************************************)

(* Appending g is what the step did last to the chain. *)
Emits(type) ==
    /\ Len(log'.facts) > Len(log.facts)
    /\ log'.facts[Len(log'.facts)].type = type

(* "reactor_version == log_version": between two iterations of the main     *)
(* loop the reactor and its chain agree on the version.                     *)
VersionsAgree == pc = "head" => version = log.version

(* Stable is emitted only with an empty queue and no pending I/O. *)
StableMeansQuiescent == [][Emits("Stable") => is_stable']_vars

(* An interrupt takes effect after the current instruction: once one has    *)
(* been executed, no further one is started while the flag is set.          *)
InterruptStops == [][interrupt /\ steps > 0 => steps' <= steps]_vars

(* A chain whose writes keep failing ends the session. *)
WalFailureTerminates == wal_fail_count = WalFailThreshold ~> Ended

(* The read-only API reports that the reactor is gone, however it ended. *)
EndIsReported == Ended => finished

(* A rejected instruction is not pushed back: once the chain records the    *)
(* violation of a command, its instruction never stands on the queue again. *)
RejectedStaysRejected ==
    \A k \in DOMAIN log.facts :
        log.facts[k].type = "Violation"
        => \A i \in DOMAIN queue : Leaf(queue[i].instr) => queue[i].from # log.facts[k].cause

(* The command that issued request r, on the chain. *)
IssuedBy(r, c) == \E k \in DOMAIN log.facts : log.facts[k] = IoRequestFact(r, c)

(* An I/O result leaves no residue for later instructions: the transition   *)
(* that removes a result from the payload is attributed to the command      *)
(* whose IoRequest the result answers.                                      *)
ResultGoesToRequester ==
    [][\A t \in IoType :
         io_results[t] # 0 /\ io_results'[t] = 0 /\ version' > version
         => IssuedBy(io_results[t], PoppedCause)]_vars

(* "max rounds exceeded" is reported only when more than max_rounds         *)
(* instructions were there to execute.                                      *)
ExceededMeansMore == [][ExecMaxRounds => queue # <<>>]_vars
=============================================================================
