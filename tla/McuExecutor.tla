---------------------------- MODULE McuExecutor ----------------------------
(***************************************************************************)
(* The synchronous executor of the microcontroller runtime                 *)
(* (evorule-mcu/src/exec.rs) on a flash log: run submits an instruction,   *)
(* resume_io answers an I/O request, each drains the queue before it       *)
(* returns.  The board's main loop calls them in any order; power may fail *)
(* at any time, after which the log is opened again under a new executor.  *)
(*                                                                         *)
(* One thread does everything: a step computes the next fact into `out`,   *)
(* then the log takes it (Write), refuses it (WriteFails: the call returns *)
(* the error at once) or loses power over it.  execute_transition is the   *)
(* constant operator Transition, as in Reactor.                            *)
(***************************************************************************)
EXTENDS FlashWal, Facts, FiniteSets

CONSTANTS IoType, Transition(_, _, _),
          AnswerId,      \* ids the board calls resume_io with
          MaxQueueLen,   \* max_queue_len, 0 switches the limit off
          MaxSteps,      \* max_steps_per_run, 0 switches the limit off
          Budget         \* bound on the events of the environment

Events == {"run", "resume", "cut"}

(* What execute_transition returns. *)
Result == [kind : {"State", "Ignored", "Halted", "Err", "IoRequired"}, data : Data,
           push : Seq(Instruction), consume : SUBSET IoType, io_type : IoType]

ASSUME McuAssumption ==
    /\ {MaxQueueLen, MaxSteps} \cup AnswerId \subseteq Nat
    /\ \A i \in Instruction, d \in Data, S \in SUBSET IoType :
          Transition(i, d, S) \subseteq Result
    /\ Budget \in [Events -> Nat]

VARIABLES
    pc,            \* what is done once the fact in `out` has landed
    out,           \* the fact append_fact is called with
    data,          \* payload without __io_results__
    io_results,    \* the io_types that have a result under __io_results__
    queue,         \* the instructions, each with its cause in `from`
    version,
    next_fact_id,
    pendings,      \* the suspended requests
    io_recovery,
    steps,         \* of this call
    popped,        \* the instruction taken off the queue
    booted,        \* lines the log held when the executor was created
    budget

memory == <<data, io_results, queue, version, pendings, io_recovery>>
call   == <<steps, popped>>
vars   == <<wal, pc, out, memory, next_fact_id, call, booted, budget>>

NoFact == [type |-> "none"]
NoItem == [instr |-> NoFact, from |-> 0]

with_wal_store ==
    /\ pc = "idle" /\ out = NoFact
    /\ data = InitData /\ io_results = {} /\ queue = <<>>
    /\ version = 0 /\ next_fact_id = 0
    /\ pendings = <<>> /\ io_recovery = FALSE
    /\ steps = 0 /\ popped = NoItem

Init ==
    /\ with_wal_store
    /\ written = <<>> /\ medium = Blank
    /\ lines = <<>> /\ tail_hash = genesis
    /\ active_page = 0 /\ write_offset = 0 /\ polluted = FALSE
    /\ booted = 0 /\ budget = Budget

Spend(e) == budget[e] > 0 /\ budget' = [budget EXCEPT ![e] = @ - 1]

(* next_id and append_fact: every fact has an id of its own, the one in     *)
(* next_fact_id; what the call does next is in `then`.                      *)
Emit(fact, then) ==
    /\ out' = [id |-> next_fact_id + 1, body |-> fact]
    /\ next_fact_id' = next_fact_id + 1
    /\ pc' = then
    /\ UNCHANGED <<wal, booted>>

-----------------------------------------------------------------------------
(* append_fact *)

Writing == out # NoFact

Write ==
    /\ Writing
    /\ Landed(Record(version, out))
    /\ out' = NoFact
    /\ UNCHANGED <<pc, memory, next_fact_id, call, booted, budget>>

(* The error is handed up by the ? of every caller. *)
WriteFails ==
    /\ Writing
    /\ NotLanded(Record(version, out))
    /\ out' = NoFact /\ pc' = "idle" /\ popped' = NoItem /\ steps' = 0
    /\ UNCHANGED <<memory, next_fact_id, booted, budget>>

-----------------------------------------------------------------------------
(* run and resume_io. *)

Ready(p) == pc = p /\ ~Writing

run ==
    /\ Ready("idle") /\ Spend("run")
    /\ \E i \in Instruction : Emit(CommandFact(next_fact_id + 1, i), "submit")
    /\ UNCHANGED <<memory, call>>

FactAt(k) == written[lines[k]].fact

LastFact == FactAt(Len(lines))

Submit ==
    /\ Ready("submit")
    /\ queue' = Append(queue, [instr |-> LastFact.body.instr, from |-> LastFact.id])
    /\ pc' = "drain"
    /\ UNCHANGED <<wal, out, data, io_results, version, pendings, io_recovery,
                   next_fact_id, call, booted, budget>>

(* The board answers a request it was given, or one it was not: one that    *)
(* was answered before, one from before a restart, whose id may be issued   *)
(* once more later, or one nobody ever made.                                *)
resume_io ==
    /\ Ready("idle") /\ Spend("resume")
    /\ \E r \in AnswerId, ok \in BOOLEAN : Emit(IoResponseFact(r, ok), "answer")
    /\ UNCHANGED <<memory, call>>

Answered(r) == {k \in DOMAIN pendings : pendings[k].request_id = r}

AnswerUnknown ==
    /\ Ready("answer") /\ Answered(LastFact.body.request) = {}
    /\ Emit(ErrorFact, "drain")
    /\ UNCHANGED <<memory, call, budget>>

AnswerKnown ==
    /\ Ready("answer")
    /\ \E k \in Answered(LastFact.body.request) :
          /\ pendings' = RemoveAt(pendings, k)
          /\ version' = version + 1
          /\ \/ /\ ~LastFact.body.ok
                /\ UNCHANGED <<io_results, queue, io_recovery>>
             \/ /\ LastFact.body.ok
                /\ io_results' = io_results \cup {pendings[k].io_type}
                /\ queue' = <<pendings[k].item>> \o queue
                /\ io_recovery' = TRUE
    /\ pc' = "drain"
    /\ UNCHANGED <<wal, out, data, next_fact_id, call, booted, budget>>

-----------------------------------------------------------------------------
(* drain *)

Foremost == Head(queue)

AtLimit == MaxSteps > 0 /\ steps >= MaxSteps

DrainLimit ==
    /\ Ready("drain") /\ queue # <<>> /\ AtLimit
    /\ queue' = Tail(queue)
    /\ Emit(ErrorFact, "clear")
    /\ UNCHANGED <<data, io_results, version, pendings, io_recovery, call, budget>>

(* The queue is given up: after the limit of a run and after an overflow. *)
Clear ==
    /\ Ready("clear")
    /\ queue' = <<>>
    /\ Emit(StableFact(version), "return")
    /\ UNCHANGED <<data, io_results, version, pendings, io_recovery, call, budget>>

CanStep == Ready("drain") /\ queue # <<>> /\ ~AtLimit

(* A call of execute_transition on the instruction at the head. *)
Outcomes(kind) ==
    {res \in Transition(Foremost.instr, data, io_results) : res.kind = kind}

Step ==
    /\ steps' = steps + 1
    /\ popped' = Foremost

(* New instructions take the cause of the one that pushed them. *)
Rebuilt(res) ==
    [k \in DOMAIN res.push |-> [instr |-> res.push[k], from |-> Foremost.from]] \o Tail(queue)

Overflows(q) == MaxQueueLen > 0 /\ Len(q) >= MaxQueueLen

DrainOverflow ==
    /\ CanStep /\ Step
    /\ \E res \in Outcomes("State") :
        /\ Overflows(Rebuilt(res))
        /\ data' = res.data /\ io_results' = io_results \ res.consume
        /\ queue' = Rebuilt(res)
        /\ Emit(ErrorFact, "clear")
        /\ UNCHANGED <<version, pendings, io_recovery, budget>>

DrainState ==
    /\ CanStep /\ Step
    /\ \E res \in Outcomes("State") :
        /\ ~Overflows(Rebuilt(res))
        /\ data' = res.data
        /\ io_results' = IF io_recovery THEN {} ELSE io_results \ res.consume
        /\ io_recovery' = FALSE
        /\ queue' = Rebuilt(res)
        /\ Emit(TransitionFact(Foremost.from, res.data, queue'), "bump")
        /\ UNCHANGED <<version, pendings, budget>>

(* The version is that of the state before the transition until it landed. *)
Bump ==
    /\ Ready("bump")
    /\ version' = version + 1
    /\ Emit(TraceFact, "drain")
    /\ UNCHANGED <<data, io_results, queue, pendings, io_recovery, call, budget>>

(* The instruction is off the queue and leaves a fact behind. *)
Drop(fact, then) ==
    /\ Step
    /\ queue' = Tail(queue)
    /\ Emit(fact, then)
    /\ UNCHANGED <<data, io_results, version, pendings, io_recovery, budget>>

DrainIgnored == CanStep /\ Outcomes("Ignored") # {} /\ Drop(ErrorFact, "trace")

Trace ==
    /\ Ready("trace")
    /\ Emit(TraceFact, "drain")
    /\ UNCHANGED <<memory, call, budget>>

DrainHalted ==
    CanStep /\ Outcomes("Halted") # {} /\ Drop(ViolationFact(Foremost.from), "drain")

DrainErr == CanStep /\ Outcomes("Err") # {} /\ Drop(ErrorFact, "drain")

DrainIo ==
    /\ CanStep /\ Outcomes("IoRequired") # {}
    /\ Drop(IoRequestFact(next_fact_id + 1, Foremost.from), "pause")

(* Mutant: a new request takes the place of the one before. *)
PauseOverwrites(p) == pendings' = <<p>>

register(p) == pendings' = Append(pendings, p)

(* The call returns IoPaused, whatever is left on the queue. *)
Pause ==
    /\ Ready("pause")
    /\ \E res \in Transition(popped.instr, data, io_results) :
          /\ res.kind = "IoRequired"
          /\ register([request_id |-> LastFact.id, io_type |-> res.io_type, item |-> popped])
    /\ pc' = "idle" /\ steps' = 0 /\ popped' = NoItem
    /\ UNCHANGED <<wal, out, data, io_results, queue, version, io_recovery,
                   next_fact_id, booted, budget>>

DrainStable ==
    /\ Ready("drain") /\ queue = <<>> /\ steps > 0
    /\ Emit(StableFact(version), "return")
    /\ UNCHANGED <<memory, call, budget>>

Return ==
    /\ Ready("return") \/ (Ready("drain") /\ queue = <<>> /\ steps = 0)
    /\ pc' = "idle" /\ steps' = 0 /\ popped' = NoItem
    /\ UNCHANGED <<wal, out, memory, next_fact_id, booted, budget>>

-----------------------------------------------------------------------------
(* Power. *)

PowerFails ==
    /\ pc # "off" /\ Spend("cut")
    /\ IF Writing THEN CutShort(Record(version, out)) ELSE UNCHANGED <<written, medium>>
    /\ StoreLost
    /\ pc' = "off" /\ out' = NoFact
    /\ data' = InitData /\ io_results' = {} /\ queue' = <<>> /\ version' = 0
    /\ next_fact_id' = 0 /\ pendings' = <<>> /\ io_recovery' = FALSE
    /\ steps' = 0 /\ popped' = NoItem
    /\ UNCHANGED booted

(* FlashWalStore::open and a new executor: nothing is replayed. *)
Boot ==
    /\ pc = "off"
    /\ open
    /\ pc' = "idle"
    /\ booted' = Len(lines')
    /\ UNCHANGED <<out, memory, next_fact_id, call, budget>>

ExecStep ==
    \/ Write \/ WriteFails
    \/ Submit \/ AnswerUnknown \/ AnswerKnown
    \/ DrainLimit \/ Clear \/ DrainOverflow \/ DrainState \/ Bump
    \/ DrainIgnored \/ Trace \/ DrainHalted \/ DrainErr \/ DrainIo \/ Pause
    \/ DrainStable \/ Return

Next == run \/ resume_io \/ ExecStep \/ PowerFails \/ Boot

Spec == Init /\ [][Next]_vars

-----------------------------------------------------------------------------
(* What the runtime promises. *)

(* The complete lines of the ring are an append-only chain: neither power   *)
(* failing in the middle of a line, nor a page change, nor a full ring      *)
(* takes a record back or puts one in front of another.                     *)
LedgerFacts ==
    LET rows == Committed(medium) IN [k \in DOMAIN rows |-> written[rows[k]].fact.body]

Ledger == INSTANCE AuditChain WITH chain <- LedgerFacts, Fact <- Fact
LedgerSurvives == Ledger!Spec

(* After power has failed at any byte, open finds a ring it accepts.        *)
AlwaysOpens == pc = "off" => CanOpen(medium)

(* What the store believes is what the ring holds, and the chain runs       *)
(* through restarts and given-up pages: every record is chained to the one  *)
(* before it, and the next one finds free cells to go to.                   *)
StoreMatchesMedium ==
    pc # "off" =>
        /\ lines = Committed(medium)
        /\ \A k \in DOMAIN lines :
              written[lines[k]].prev_hash = IF k = 1 THEN genesis ELSE lines[k - 1]
        /\ tail_hash = IF lines = <<>> THEN genesis ELSE Last(lines)
        /\ Writing => LET rec == Record(version, out) IN Refuses(rec) \/ CanProgram(rec)

SinceBoot(type) ==
    {k \in booted + 1 .. Len(lines) : FactAt(k).body.type = type}

AnsweredLater(k) ==
    \E j \in SinceBoot("IoResponse") : j > k /\ FactAt(j).body.request = FactAt(k).id

(* Between two calls, the requests the executor waits for are the ones the  *)
(* ledger shows as asked since the executor was created and not answered    *)
(* after that, whichever call failed half-way: an answer that came before   *)
(* its request (a late one, from before a restart, whose id is issued anew  *)
(* afterwards) settles nothing.                                             *)
UnansweredArePending ==
    Ready("idle") =>
        {pendings[k].request_id : k \in DOMAIN pendings} =
            {FactAt(k).id : k \in {n \in SinceBoot("IoRequest") : ~AnsweredLater(n)}}

-----------------------------------------------------------------------------
(* What the documentation says and the code does not do. *)

(* exec.rs, append_fact: the log first, the memory after it.  A transition  *)
(* changes the payload before its fact is written: when the write fails,    *)
(* and when the queue overflows, the payload is one no ledger tells of.     *)
PayloadIsRecorded ==
    Ready("idle") =>
        data = IF SinceBoot("StateTransition") = {} THEN InitData
               ELSE FactAt(Max(SinceBoot("StateTransition"))).body.data

(* exec.rs, drain: Stable is for an empty queue and no pending request.  A  *)
(* run submitted while a request waits ends with a Stable all the same.     *)
StableIsQuiet == [][Write /\ out.body.type = "Stable" => pendings = <<>>]_vars

(* The ledger has the native format, whose verifier asks for growing ids    *)
(* (verify_chain.rs); an executor created on a recovered ring counts from 1.*)
FactIdsIncrease ==
    \A j, k \in DOMAIN lines : j < k => FactAt(j).id < FactAt(k).id

(* exec.rs: the lines are those of the reactor, byte by byte.  FactsLog     *)
(* advances its version on every IoResponse, the executor on known ones.    *)
VersionsMatchNative ==
    \A k \in booted + 1 .. Len(lines) :
        written[lines[k]].version_before =
            Cardinality({j \in booted + 1 .. k - 1 : Advances(FactAt(j).body)})
=============================================================================
