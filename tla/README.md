# A TLA+ verification of evorule

evorule runs *rules* over a JSON payload: instructions arrive as commands, a small trusted
core (the TCB) evaluates the rules on them, a long-running *reactor* per session drives the
evaluation and performs I/O through the outside, and every step is written to a hash-linked
*audit chain*.  This directory holds TLA+ models of the parts that carry that promise, the TLC
runs that check them on small instances and TLAPS proofs of the properties that matter most.

Paths below are relative to the repository's root (`src/` in `PROJECT.json`).

## 1. Inventory

| Part | State | Operations | Talks to | What is hard |
|---|---|---|---|---|
| **TCB domain evaluation** `evorule-tcb/src/domain.rs` | none | `evaluate_domain_outcome`: eight domains, outcome Sat / Unsat / Missing or an error | called by the executor | absent fields under negation; order of evaluation in `all` |
| **TCB executor and transition** `executor.rs`, `transition.rs` | `__exec__` (instruction, payload, queue), budget | `execute_transition`, five meta instructions | called by the reactor | constraints before effects; shared budget; discarded half-results |
| **Reactor** `evorule-reactor/src/reactor.rs`, `state.rs` | payload, queue with causes, version, pending I/O, recovery flag | the main loop: drain, interrupt, cancel, timeout, execute, await | command channel in, event broadcast out, facts log, flags set by other tasks | responses that are late, doubled or never come; limits; restart |
| **Facts log and WAL** `facts_log.rs`, `wal.rs`, `evorule-audit-chain` | history, materialised state, last hash; shards on disk | append, recover, compact, rotate, read_from, rewind | written by the reactor, read by auditor, sessions, tools | writes that fail, are torn or run into each other, crash, rotation, compaction |
| **Session manager** `evorule-governance/src/session.rs` | sharded table, count, id counter, recycle list, files | create, fork, fork from archive, close, three reapers | owns reactors and logs | threads racing on count and table; ids across restarts over a directory that may be unreadable |
| **Auditor, anchors, time machine** `auditor.rs`, `anchor.rs`, `time_machine.rs` | audit entries and their last hash, anchors, anchor log | `audit_new`, seal, persist, reload, export, import, verify, rewind | read the facts log | three looks at a log that goes on; positions in a history that is compacted; seals that were not persisted |
| **Verifiers** `evorule-cli/src/commands/*`, `evid-verify-core` | the sentinel's baseline | verify-chain, verify-anchors, scan-wal-dir, the evidence verifier, truncate-partial-line | files of a running or dead process | several readers of one format; two scans with anything in between |
| **Shared facts log** `shared_facts_log.rs` | history, index of sources, metadata file, anchors, rollups | append, seal, record use, roll up, reset, recover | written by sessions, read by the permission gate | sealing outside the lock; log and index in two files |
| **Permission gate** `permission/*` | entries and default policy as facts of the shared log; route policy | store, submit, review, remove, set default, check | asked by the subscriber | a check takes the lock three times |
| **I/O subscriber and circuit breaker** `io_subscriber.rs`, `circuit_breaker.rs` | breaker, id counter, the request in hand | receive, skip, check, gate, dispatch, retry, answer | broadcast in, command channel out, permission gate, handlers | lost broadcasts, retries against timeouts, handlers that do not return |
| **Rule validation** `rule_validation.rs` | none | static validation | before rules are loaded into the executor | two lists of what is allowed, one here and one in the executor |
| **Microcontroller runtime** `evorule-mcu/src/{exec,wal,wal_flash}.rs` | flash pages, RAM copy, queue, pending requests | run, resume, drain, boot | main loop of the board, flash | power failing after any byte; a full ring; answers from before a restart |

How they interact: a client sends a `Command` into a session's channel.  The reactor appends it
to the facts log (WAL first), queues its instruction, runs `execute_transition` on it, and
appends a `StateTransition`.  If the rules ask for I/O it appends an `IoRequest`, registers it,
suspends the instruction and waits; the event broadcast carries the request to the
`IoSubscriber`, which asks breaker and gate, dispatches it and sends an `IoResponse` back; the
reactor puts the result under `__io_results__` and the instruction back at the front of the
queue.  Timeouts, cancellation and interruption can end the wait instead.  The session manager
creates, forks, closes and reaps sessions and finds the next free id in the WAL directory after
a restart.  A session's auditor folds the chain a second time and seals it with anchors; the
command line tools and the evidence verifier fold it a third and a fourth time from the files.
Facts meant for all sessions go to the shared log, which also holds the permissions that the gate
rebuilds, for every request, at the version the log has at that moment.  The microcontroller
runtime is a synchronous relative of the reactor over a log in flash.

`PROJECT.json` lists the hazards of the code, each at its line, with the properties that
watch it.

## 2. Modules

| Module | Models | State and actions |
|---|---|---|
| `Facts` | `evorule-audit-chain/src/fact.rs`, `apply_fact_to_state` of `facts_log.rs` | the facts as the reactor uses them and what appending one does to version, payload and queue |
| `Reactor` | `reactor.rs`, `state.rs`, `stable_detector.rs` | one variable per field of `ReactorState`, `pc` for the place in the main loop; one action per branch of the loop and of `handle_fact`, and the environment (send, respond, tick, interrupt, cancel, close, crash and restart) |
| `AuditChain` | – | the abstract promise: an append-only chain |
| `FactsLog` | `facts_log.rs`, `wal.rs`, `rewind_payload` and the archive replay of `session.rs`, `time_machine.rs`, `truncate_partial_line.rs` | memory and shards; append with every way to fail, rotate, compact, crash, recover, repair; the three ways to rewind |
| `Auditor` | `auditor.rs`, `anchor.rs` | the auditor beside the log: `audit_new` in three steps, sealing, the anchor log, export and import |
| `Verifiers` | `verify_chain.rs`, `verify_anchors.rs`, `scan_wal_dir.rs`, `evid-verify-core` | the verifiers as operators on what they are given, the sentinel as an action |
| `SharedFactsLog` | `shared_facts_log.rs` | ledger, index, metadata file, anchors; append is two steps (record, then seal), all else one |
| `Permission` | `permission/{entry,table,condition,gate,route_policy}.rs` | the table at a version, evaluation, and a check in its three steps |
| `SessionManager` | `session.rs` | the table and one program counter per thread; each lock or atomic access is a step; `wal_dir` is a variable, so that both deployments are one module; a restart lists any part of the WAL directory, since a directory or an entry that cannot be read is passed over with a warning. Which parent a fork names changes nothing the manager looks at, and is left out |
| `CircuitBreaker`, `IoSubscriber` | `circuit_breaker.rs`, `io_subscriber.rs` | the subscriber's task between a lossy broadcast and the command channel; a dispatch returns or does not |
| `Domain`, `DomainGrowth` | `domain.rs` | the evaluation as a recursive function; a machine that adds fields to the payload |
| `Transition` | `transition.rs`, `executor.rs` | one call of `execute_transition`; recursion into branches is a stack |
| `RuleValidation` | `rule_validation.rs` | the static validation of the same rules; a field may be missing or have another type (`Null`) |
| `FlashWal` | `evorule-mcu/src/{wal,wal_flash}.rs` | the ring of pages cell by cell; open, append, erase, each cut by a power failure at any byte |
| `McuExecutor` | `evorule-mcu/src/exec.rs` | run, resume with any id (`AnswerId`), drain step by step, boot |
| `MC*` | – | the instances TLC checks |
| `ReactorProofs`, `SessionProofs`, `TransitionProofs`, `DomainProofs`, `IoSubscriberProofs`, `PermissionProofs`, `McuProofs`, `LogProofs` | – | theorems and proofs, see section 4 |

`Reactor` and `McuExecutor` take `execute_transition` as a constant operator `Transition`;
`Transition` takes domain evaluation as a constant operator `Evaluate`, which `MCTransition`
instantiates with `Domain`.  `Auditor` extends `FactsLog` and `Verifiers` extends `Auditor`: log,
auditor and verifiers run beside each other.  `Permission` extends `SharedFactsLog`, so that a
check runs beside appends, failures, crashes and rollups of the ledger it reads.  `McuExecutor`
extends `FlashWal`, `RuleValidation` extends `Transition`.  `FactsLog` and, under power
failure, the ring of `McuExecutor` are shown to implement `AuditChain`.

### Abstractions

* *Data.*  In `Reactor` the payload is one of a few values plus the results under
  `__io_results__`, and an instruction is a name whose rules are given by `Transition`; each
  item on the queue carries, as a ghost, the command it descends from.  In `Transition` a
  payload is a function from fields to values; paths of one segment only.  In `FactsLog` a fact
  has an id and a kind, a payload is the list of facts that shaped it, sizes count records, and
  hashes have no collisions.  In `SharedFactsLog` a fact also carries, as a ghost, the session
  that appended it.  In `Permission` a pattern is the set of what it matches and a condition the
  set of callers it holds for, or broken.  In `FlashWal` a line is a number and a byte of it a
  cell; lines have two, three or six bytes.  In `RuleValidation` a rule is a record that may lack
  fields.
* *Steps.*  `FactsLog` holds its write lock for a whole operation, so an operation is one
  action.  In the reactor the task is single, and other tasks reach it through the channel and
  two flags; the loops that remove several requests with an `await` in between are a step per
  request.  In the session manager every atomic operation and every critical section is a step.
  The auditor's operations exclude each other but not the log, so `audit_new` is one step for
  each look at the log; the gate's check likewise.  On the microcontroller one thread does
  everything, and power may fail in every write.
* *Time.*  A pending request may be past its timeout after any `Tick`; the subscriber's clock
  is a small integer.
* *Lines of the WAL* in `FactsLog` have a form.  A `BufWriter` of 8 KiB is between the log and the
  file, so what a failed write leaves depends on the length of the line (`wal.rs`:1028): of a
  shorter one the rest stays in the buffer and the next write completes it (`torn`), or only
  its newline is missing (`bare`); a longer one is written past the buffer, its rest is nowhere
  (`cut`), and the next record runs into it (`garbled`).  `Faults` says which of these happen.
  `truncate-partial-line` is taken to be used as its documentation says, on a log recovery has refused.
* *Crashes* of the log are between its operations: whatever part of an append has reached the disk
  when the process dies is what a failed write followed by a crash leaves, in the instances that have
  write faults; `log_durable` is without them.
* *WAL failures* in `Reactor` are a choice of each append; the failure counter is saturated at
  its threshold, which is all the code compares it with.
* *Left out everywhere*: logging, metrics, texts, the 80 percent warnings, snapshots for
  read-only queries (except `finished`).

## 3. Runs

Every run is `tlc -config <run>.cfg <module>`; the largest take two to three minutes.

| Run | Module | Shows |
|---|---|---|
| `reactor` | MCReactor | two commands, responses and duplicates, a cancel, timeouts, the round limit: `PendingConsistent`, `CausesTrackOrigin`, `LeafAppliedOnce`, `SerialExecution`; under fairness `ComesToRest`, `RequestsEnd` |
| `reactor_faults` | MCReactor | all kinds of instructions, failing writes, both limits, a rejected update, a result the payload cannot take, closing: `ExhaustionKeepsFlag` |
| `reactor_chain` | MCReactor | interrupt, and restart on the chain: `LogMirrorsPayload`, `ChangesAreVersioned` |
| `log_durable` | MCFactsLog | `Durable` (implements `AuditChain`), `RecoveryRestores`, `ReadsAreComplete`, `RewindFaithful` (session, time machine and archive) |
| `auditor` | MCVerifiers | log, auditor, anchors and verifiers together: `WriteAhead`, `AuditFollowsChain`, `SealsBind`, `VerifiersAgree`, `SentinelIsRight` |
| `shared_log` | MCPermission | ledger and gate: `IndexFollowsLedger`, `AnchorsBind`, `EntriesAreFrozen`, `GrantsAreGrounded` |
| `sessions` | MCSessionManager | two threads, with and without a WAL directory, failed creations, restart on a directory listed wholly, in part or not at all: `CountIsExact`, `LimitHolds`, `LogsAreKept` |
| `io` | MCIoSubscriber | with and without a gate, a lossy broadcast, retries, a reactor that gives up: `AnsweredOnce`, `NoneForgotten`, `BurstsTrip`, `EvidenceFirst`; under fairness, as long as handlers return, `AnswersArrive` |
| `domains` | MCDomain | `VerdictsRestOnData` over all domains of depth two |
| `transition` | MCTransition | `ConstraintsComeFirst`, `WorkIsBounded`, `ValidationAgrees` |
| `flash` | MCMcu | power failing at every byte: `AlwaysOpens`, `StoreMatchesMedium`, `UnansweredArePending`, `LedgerSurvives` (implements `AuditChain`) |
| `says_replay` | MCPermission | expected to fail, see section 5 |

Beside them, `transition_more` (`TypeOK`, `QueueIsKept`, `AttributionIsComplete`) is an instance
of the same size as `transition` for further properties of its module, not listed as a run.

**Bounds.** The environment of the reactor has a budget per kind of event (`Budget`). Two
commands are enough for everything that is about order, attribution and cross-talk between
commands, two responses for a duplicate or a stale answer; `MaxRounds` 3 or 4 and `MaxQueueLen`
2 are reached by the self-pushing instruction and by `ioseq`. `reactor` is without a restart or
a queue limit, because these are where section 5 finds the code to disagree with the property;
`reactor_chain` has the restart and the interrupt, and no queue limit. `ResultGoesToRequester`
is not among its properties: a resumed instruction that leaves the loop other than by a transition, and
the round limit, which clears the queue and leaves the results under `__io_results__`
(`reactor.rs`:623-638), let a later command find the answer to an earlier one (section 5); section 4
says for which rules this cannot happen. Two commands are also what makes `CausesTrackOrigin` tell one
cause from another; `reactor_faults` has one command and every kind of failure. `log_durable` appends four
facts into shards of two, so rotations, a crash in between and a compaction with facts on both
sides all happen; it is the log of a session that is no fork on a disk that works
(`HealthySpec`), since forks and failed writes are where section 5 finds disagreements. They are
part of `auditor`, whose log takes every step of `FactsLog`. `auditor` starts from one of four scenarios, each with what its question needs:
`FailingLog` (four facts, two failed writes of any form, a crash, a rotation and two scans of the sentinel),
`Anchoring` (three facts, a failed write, a crash, two audits, two seals beside the automatic ones, one
lost or torn anchor), `Documents` (export, import and reload, with a failed write and a seal) and
`Compacting` (export, import and reload over a compaction and a crash, with automatic seals). `shared_log` starts
from one of four budgets: `Anchoring` (three plain facts of two callers, a failed write, a crash,
two changes of the anchor interval, two seals, a rollup), `Gating` (three writes of
permissions during one check), `Faults` (two, with a failed write and a crash) and `Rollups` (two,
with a rollup); the routes are varied only where calls are checked. Two threads suffice for the
races of the session manager, since a race is between two accesses; the proofs cover any number.
`MaxIds` 2 in `sessions` bounds creations, enough for a log to be left by one run of the process and
met by the next; the run uses the symmetry of the threads and a view
that tells states apart by whether a clone is held, not by who holds it or which logs wait to be
recycled (`ManagerView`). The subscriber's
run has three facts in a broadcast of two, threshold and window 2 and a clock up to 4, so that
denials lie inside, at and outside one window. `domains` takes two fields, integers 0..1, null, a
string and an empty array. `transition` has budget 5, depth 2, three rules and integers -1..1, so
that every limit is reached and passed, and puts every malformed rule alone and beside every
other, with a field missing and with one of another type. `flash`
has four pages of five cells for lines of two and three, so that lines share pages
and leave rests, and one line that fits no page; two runs, one answer and two power failures fill
the ring. The answer is for the id a first command's request gets, or for one that is issued only
after it (`MCAnswerId`).

**Deadlock** is checked in the reactor's runs without a closing channel and in the session
runs.  It is switched off where the system may stop: a closed or failed reactor, a log, a ledger, a board or a
subscriber at the end of its budget, a finished transition, a full payload.

**Fairness.**  `Reactor!FairSpec` assumes weak fairness of the reactor's own step (a tokio task
that is ready is polled) and of the passing of time; it assumes nothing of clients, handlers or
responses.  `IoSubscriber!FairSpec` assumes weak fairness of the steps the subscriber takes
by itself (`OwnStep`: receiving, checking, the end of a back-off) and of the reactor's receiving.  It
does not assume that a dispatch ends: `io_subscriber.rs`:510 awaits the handler without a timeout, and
one that never returns holds up everything behind it.  `AnswersArrive` has that as its
hypothesis (`HandlersReturn`).  Neither specification assumes strong fairness.

**Mutants.**  Each property of a passing run has a definition changed the way a plausible bug
would change it (named after the change, right before the definition it replaces), under which
TLC finds the property violated.

## 4. Theorems

All theorems hold for every value of the constants under the named assumptions of the modules
(`ReactorAssumption`, `FactsLogAssumption`, ...: well-formed budgets, rules and limits, nothing
that narrows what the code meets).  Where a theorem has a hypothesis of its own, it excludes
a case in which section 5 shows the code to break the property or the invariant it rests on; the
one exception is that no line of the ring is empty.

| Theorem | States | Hypothesis |
|---|---|---|
| `TypeCorrect` | `TypeOK` of `Reactor` | |
| `PendingIsConsistent` | `PendingConsistent` | |
| `CausesAreOrigins` | `CausesTrackOrigin` | no restart |
| `ExhaustedMeansInterrupted` | `ExhaustionKeepsFlag` | |
| `ChainMirrorsPayload` | `LogMirrorsPayload` | writes succeed, no queue limit |
| `PayloadChangesAreVersioned` | `ChangesAreVersioned` | writes succeed, no queue limit |
| `CommandsAreSerial` | `SerialExecution` | no restart |
| `LeavesAreAppliedOnce` | `LeafAppliedOnce` | no restart |
| `TwoPathRulesGetTheirAnswers` | `ResultGoesToRequester` | writes succeed, no queue limit, rules in the two-path idiom; the round limit does not fall between an answer and its use |
| `SessionTypes`, `CountExact`, `LimitIsKept` | `TypeOK`, `CountIsExact`, `LimitHolds` | |
| `LogsAreNeverReopened` | `LogsAreKept` | |
| `ConstraintsPrecede`, `WorkBound` | `ConstraintsComeFirst`, `WorkIsBounded` | |
| `ValidatorKnowsTheForms` | `ValidationAgrees` | |
| `VerdictsAreAboutData` | `VerdictsRestOnData` | |
| `SubscriberTypeOK`, `SubscriberForgetsNone` | `TypeOK`, `NoneForgotten` of `IoSubscriber` | |
| `SubscriberAnswersOnce`, `BreakerStopsBursts` | `AnsweredOnce`, `BurstsTrip` | |
| `SubscriberLeavesEvidence` | `EvidenceFirst` | |
| `IndexIsSound`, `AnchorsAreSound` | `IndexFollowsLedger`, `AnchorsBind`, of the ledger alone | |
| `LedgerIsSoundUnderGate` | both, with the gate beside it | |
| `EntriesAreOfTheVersion`, `GrantsHaveGrounds` | `EntriesAreFrozen`, `GrantsAreGrounded` | |
| `WaitsForWhatTheLedgerAsks` | `UnansweredArePending` | |
| `RingOpensAfterPowerFailure`, `StoreIsTheRing` | `AlwaysOpens`, `StoreMatchesMedium` | no line is empty |
| `LedgerIsDurable` | `LedgerSurvives` (the refinement of `AuditChain`) | no line is empty |
| `ChainIsDurable`, `RecoveryIsExact` | `Durable` (the refinement of `AuditChain`), `RecoveryRestores` | a disk that works, no fork |
| `RewindIsFaithful`, `ReadsMissNothing` | `RewindFaithful`, `ReadsAreComplete` | a disk that works, no fork |
| `WritesComeFirst`, `WritesComeFirstBeside` | `WriteAhead` and `NothingIsSpoilt`, of the log alone and with the auditor beside it | `Buffered` |
| `AuditIsTheChain`, `AnchorsAreBound`, `ScansAreRight` | `AuditFollowsChain`, `SealsBind`, `SentinelIsRight` | `Buffered` |
| `VerifiersAlwaysAgree` | `VerifiersAgree` | `Buffered` |

`Buffered` is about the ways in which writes fail: they may fail, be torn or be done and reported as
failed, but lines are shorter than the writer's 8 KiB, no write stops right before a newline, and the
next shard can be opened.  The `auditor` run checks the same properties with lines that are cut and
newlines that are missing as well; there `WriteAhead` exempts exactly the facts whose lines were run
together, which do not exist under `Buffered`.

The invariants, and why each is needed:

* `ReactorProofs`.  *Pending I/O*: types with the three conjuncts of `PendingConsistent`; that at
  most one request is registered is what makes it inductive, since a request is issued only when
  the counter is zero, which has to mean that nothing is registered.  *Failed writes*: every
  append either counts a failure, and raises the flag at the threshold, or resets the count
  (`ChainStep`).  *Chain and payload*: `Mirror` says that the state replayed from the chain is the
  reactor's and that its version is not behind; each step is `Still`, `Counted` or `Advanced`.  A
  failed write or an overflowing queue leaves a payload the chain does not have (section 5), so
  both are excluded; the restart is not.  *Serial execution*: `OneAtATime` follows a command from
  the channel to the chain: those in the channel are younger than all on the chain
  (`ChannelInOrder`); the queue is in the order of the commands, behind what waits for I/O, and
  both behind the transitions of the chain (`InCommandOrder`); and a command that expands into no
  others is in one place, queued, suspended or applied (`LeafInOnePlace`).  *Answers*: `Asked`
  says that a suspended instruction is kept under the cause the chain records for its request,
  `Answered` that an answer in the payload belongs to a request of the command at the head of the
  queue, that nothing is pending then, and that without `io_recovery` no answer is there.  An
  instruction that fails after its answer, an overflow and the round limit leave an answer behind
  for whoever comes next (section 5); the lemma `AnswersGoToRequesters` is about behaviours without
  these steps, and `Resumes` shows, from the form of the rules, that only the round limit is left of
  them: the instruction that is resumed has asked for
  the one answer that is there, so it transitions and `clear_io_recovery` takes the answer away.
  The restart is allowed: what it loses is lost together.
* `SessionProofs`.  `CountIsExact` alone is not inductive: one has to know that the sessions two
  threads have removed are disjoint and not in the table (`Removed`), that ids are fresh
  (`Fresh`: below the counter, different between threads, and without a file unless the directory
  was listed in part and an earlier run left it), and that the count
  never exceeds the limit (`Bounded`), which is what `LimitHolds` follows from.
* `TransitionProofs`.  What the first pass has established: the payload is untouched, the stack
  holds the one enforce rule under way, and all rules before it are clear; the second pass starts
  when all are.  `Paid` says that instructions executed and budget left add up to the limit.
  `Evaluate` is arbitrary.  *Validation*: `FormInv` says what the
  executor has seen of the form of the rules: while a rule is under way, either it is still the one
  instruction to be executed or it was well-formed and all that is left of it is deeper
  (`Under`), so an error of form at depth 0 is one the validator looks at; the second pass leaves
  only well-formed rules behind (`Before`), no more than allowed (`Fits`), so a call that
  converges had no others (`Passed`).
* `DomainProofs`.  Evaluation is a recursive function of depth and domain that ends at
  `MaxDomainDepth`, so both that the function exists and what it returns are shown level by
  level from the deepest one up.  `VerdictsStay` is the induction: a domain that asks for
  presence nowhere keeps a verdict when fields are added; a comparison because it reads fields that
  are there, a conjunction because its first outcome other than Sat decides it.
* `IoSubscriberProofs`.  `InOrder`: what is answered, in hand and still in the broadcast follows
  the order of the ids, so none comes twice.  `OpenAreRequests`: what the reactor waits for was
  broadcast.  `BreakerIdle`: a tripped breaker counts nothing, and none is tripped while a
  request is in hand.  `CountsRecent`: the breaker's list is the end of the sequence of all
  denials, and one it has forgotten without a trip since is out of the window of the last.  `TripIsSignalled`,
  `SignalsCounted` and `SignalsAnswered` put a signal beside every trip.
* `PermissionProofs`.  `LedgerInv`: the index, in memory and in the metadata file, attributes only facts of the
  ledger, each to the session that appended it last (`Follows`), a WAL that verifies holds the ledger and at most one
  fact more, left by a failed append and unknown to both (`WalFollows`), and every anchor stands over a prefix of the
  ledger (`AnchorsOver`), although sealing reads the head in a later critical section.
  `DecidedInv` says of a decision what it rested on, as a statement about the prefix up to its
  version, which no append, crash or rollup changes as long as the call can be replayed.
  `PermissionAssumption`: an entry has one of the two effects, which `entry.rs` enforces by type.
* `McuProofs`.  `Numbered`: the ids since the last boot are below the next one;
  `OnePerRequest`: a request is registered once; `Balanced`: in the middle of a call, the
  list and the ledger differ by exactly the request or answer that has landed and that the
  executor has yet to act on.  A request is open in the ledger when no later line answers it (`Open`): an
  answer may be there first, since ids start at 1 after each boot and `resume_io` takes any.
  Power may fail at every byte;
  a boot starts the comparison again.  *The ring*: `RingOK` says of the medium
  that a cell is free or a byte of a line that was written (`CellsOK`); that a page is filled from
  its first cell on, every byte behind the earlier bytes of its line and a line behind the
  newline of another (`PagesOK`); that pages are begun one after the other (`NoHoles`); and that the
  complete lines are one chain (`Chained`).  `StoreOK` says of the store in memory that its lines
  and its tail are those of the medium, that it stands where the ring ends, and that it knows when
  the last line there is cut.  With power off only `RingOK` is left; opening is shown to accept it and to
  restore `StoreOK`.  What the medium holds is the recursive function `Committed` over its cells:
  two media that agree up to a cell give the same lines up to there, so bytes written behind the end, a
  cut line or a freshly erased page change what is read only from that cell on.  A line
  without bytes would leave no trace on the medium, so `LinesHaveBytes` is asked for; the
  code's lines end in a newline.
* `LogProofs`.  `LogInv`: the lines of the shards, in order, are those of a chain of facts from
  genesis (`LinesOf`); state, version and tail in memory are what folding that chain gives
  (`StateOf`); the writer is on the last shard with nothing buffered.  Recovery then reads back
  the same chain, a crash or a rotation changes none of it, and appending is the step of
  `AuditChain`.  `KeptInv` adds that the history in memory is the chain from a point of compaction
  on, with the version before each fact (`HistoryInv`), and that the payloads the session went
  through are those of the chain's prefixes (`PastInv`).  Versions never decrease along the chain
  (`VersionsGrow`), so the prefix a rewind folds is determined by the version asked for.
  The second half of the module lets writes fail, be torn or be done and reported as failed, and
  allows forks.  `DiskInv`: shards are torn at their end at most, and of all records on disk and
  in the buffer each was formed over a chain of earlier ones with smaller ids, which is what a
  line written late, after its failure was reported, still satisfies; the tail in memory goes
  over records that are stored.  `MemoryInv`: as long as what is stored is one chain, the tail in
  memory is a beginning of it and the history its end.  `AuditInv`: entries of an auditor not led
  astray, and those of the document it wrote, are a beginning of the chain with the hashes
  before each fact.  `AnchorInv`: anchors, and the whole lines of the anchor log, go on from one
  another and seal prefixes of the chain.  `SentinelInv`: the baseline is length and hash of a
  beginning of the log.  A shard that cannot be opened leaves a gap behind which memory goes on
  (`says_log`), and a line that is run into another is one no reader finds, so `Buffered` excludes
  both.  The subscriber's responses and the anchors of forks have ids from counters of their own and
  break the order that `verify-chain` alone asks for (`says_audit`, `FactIdsIncrease`); `VerifiersAgree`
  compares its verdict on the ids only on logs without them, and the hashes on all.

`LeastNatural` and `GreatestBelow`, derived from the well-foundedness of the naturals, are the
induction that the proofs over chains and folds of any length use (that the recursive functions behind
`FlattenSeq`, `FoldLeft`, `Committed` and domain evaluation exist, and what they return on a longer
sequence, another cell or another level).  `LogInv`,
`KeptInv` and the other invariants were checked with TLC on the instances of their runs first.

Only model-checked:

* `ComesToRest`, `RequestsEnd` and `AnswersArrive`, liveness under fairness;
* `QueueIsKept` and `AttributionIsComplete` (`SortSeq` is opaque to the prover);
* the log, its auditor and its verifiers beyond `Buffered`: with lines that are cut or lack their
  newline (`auditor`) and with shards that cannot be opened (`says_log`).

## 5. Disagreements

Each line below is a property that states what a comment, a document or a test of the
repository says, in an instance (`says_*.cfg`) in which TLC's counterexample is a run of the
code's own steps.  `says_replay` is a run of `PROJECT.json`, with the quotation there; the others
are kept as instances beside it.  An instance with several properties shows them one at a time:
TLC stops at the first it finds, and the next appears when that one is taken out of the
configuration.  The properties are defined at the end of their modules unless they are also
properties of a passing run, in which case the instance adds what breaks them.

| Instance, module | Property | Said | Done |
|---|---|---|---|
| `says_replay` MCPermission | `VerdictsReplay` | a change of permissions never affects a call already decided | the default policy is read at `<=` the version, so the next fact is part of it |
| `says_ledger` MCPermission | `RollupsDoNotDecide` | a verdict can be replayed | rolled-up facts vanish from the table, refusals too |
| | `ScopesAreKept` | an entry has a scope | nothing compares it with the tenant of the call |
| `says_ledger` MCPermission | `ProvenanceIsTrue` | recovery does not invent a source | with the metadata behind the log, ids are given out again, and the new source is reported for the old fact |
| | `ResetIsClean` | reset goes back to the initial state | the anchors stay |
| | `AnchorsKeepUp` | an anchor every `interval` records | the count starts again at a restart, and an interval configured later waits for the next record |
| | `MetadataStands` | metadata match the last anchor if nothing follows it | recording what a session used at its start changes them without a record |
| `says_restart` MCReactor | `CausesTrackOrigin` | queue and causes always have the same length | a restart seeds the queue only |
| | `RejectedStaysRejected` | a rejected instruction does not return to the queue | it does after a restart |
| `says_overflow` MCReactor | `RecoveryMatchesResult` | `io_recovery` is set exactly when a result is there | not after a queue overflow |
| | `LogMirrorsPayload` | the latest StateTransition determines the state | an overflowing transition is not written |
| `says_interrupt` MCReactor | `InterruptStops` | the reactor leaves after the current instruction | it drains the queue first |
| | `StableMeansQuiescent` | Stable: empty queue, no pending I/O | an interrupt emits it unconditionally |
| | `VersionsAgree` | reactor and chain agree on the version | a stale response advances the chain only |
| | `ResultGoesToRequester` | results leave no residue for later instructions | they do when the resumed instruction fails, and when the round limit cuts it off |
| `says_limits` MCReactor | `WalFailureTerminates` | repeated WAL failures terminate the session | the loop goes on |
| `says_limits` MCReactor | `EndIsReported` | the handle reports an ended reactor | not when it ended with an error |
| | `ExceededMeansMore` | "exceeded: n > max" | reported at n = max, even with an empty queue |
| `says_log` MCFactsLog | `RecoveryRestores` | recover rebuilds everything | the base state of a fork is not in the WAL |
| | `RewindFaithful` | rewinding returns the payload of that version | not on a fork, nor once a line whose write failed is on disk |
| | `SameRewind` | session and time machine have "the same source and semantics" | the time machine counts versions from 0, on forks too |
| | `ReadsFromCompactionPoint` | reads before the point are refused | reads at the point are silently incomplete |
| | `ShardsAreBounded` | a shard is rotated at its size | not the shard found at a restart |
| `says_log` MCFactsLog | `WriteAhead` | rotation does not affect replay | a failed open leaves a gap readers stop at |
| | `NothingIsSpoilt` | write-ahead: what memory counts is on disk | a line of 8 KiB or more that is cut, or one without its newline, has the next record run into it, which memory then counts |
| | `NoDivergence` | a failed write does not fork memory and disk | the buffered line is written later |
| | `RefusalHasWayOut` | the repair tool is the way out | only for the first shard |
| `says_audit` MCVerifiers | `SameLastHash` | the auditor's last hash is the log's | not when it begins after a compaction |
| | `AuditVerifies` | a failed import says so and leaves the audit sound | it keeps entries with the hash reset, and the next audit links to nothing |
| | `AppendsAreGreen` | a log that only grew scans green | not one that had no record at the first scan |
| | `FactIdsIncrease` | the ids of a log increase | the subscriber's ids begin at an offset and the anchor of a fork has 1 000 000 000, the reactor counts from 1: `verify-chain` refuses such logs, the other verifiers accept them |
| `says_audit` MCVerifiers | `RangesGoForward` | an anchor covers a range of facts | restored anchors meet an auditor that begins empty, and the next range ends before it begins |
| | `VersionIsAudited` | the audited version is the one its entries reach | it is read from the log after the entries, when the log has gone on |
| | `RestoredAnchorsVerify` | anchors are restored as a chain | not after one that was not persisted |
| `says_io` MCIoSubscriber | `IdsAreApart` | the subscriber's ids are apart | up to 10000 facts (scaled to 2 in the instance) |
| | `UngatedDispatches` | without a gate, I/O is dispatched | it is refused |
| `says_or` MCDomain | `OrHoldsWithEither` | `or` is `not(all([not a, not b]))` | with a missing left side it is false, whatever the right |
| `says_rules` MCTransition | `DirectRulesMatch` | a direct rule matches its instruction | it never does |
| | `SameNestingLimit` | the validator's nesting limit is the executor's | it allows one level more |
| | `OperationsAreKnown` | an unknown operation is an error of the validation | not inside a branch |
| | `TypesAreChecked` | rules that pass the validation have the form the executor needs | an operation or io_type that is no string, and instructions that are no array, pass |
| `says_mcu` MCMcu | `PayloadIsRecorded` | the log first, memory after it | a transition whose record fails has changed the payload |
| | `StableIsQuiet` | Stable: empty queue, nothing pending | a run beside a waiting request ends with one |
| | `FactIdsIncrease` | the format is the native one, ids increase | they begin at 1 after each boot |
| | `VersionsMatchNative` | lines as the reactor writes them | the native log counts every response, the board known ones only |

## 6. Not modelled, and why

* *JSON values and paths* (`value.rs`, `path.rs`, `descend_to_write_slot`, `diff` of the time
  machine): pure functions on trees; a payload here is a function from fields to values. Reading
  and writing paths against each other is in the plan.
* *Encodings*: JSON lines, hashing, signing, the parsing of `evid-verify-core`, `pack.rs`. Hashes
  are taken to be free of collisions and signatures to be unforgeable.
* `pure.rs`: compiled as dead code, only Kani harnesses call it; it repeats branches of the
  main loop. `ffi.rs` is a C interface around the handle, `channel_local.rs` is not wired to any
  driver.
* The security analysis of `rule_validation.rs` only warns; warnings decide nothing.
* `alloc_tlsf.rs` is memory layout. Metrics and clocks are read by nobody inside the system
  (where time matters it is a variable). Benchmarks, discipline gates and build scripts have no
  state of the running system.

## 7. Plan

1. Proofs: the log, its auditor and its verifiers beyond `Buffered`, where the properties hold up
   to the gap or the garbled line.
2. Reading and writing paths (`resolve_path`, `descend_to_write_slot`) against each other.
3. `IoSubscriber` composed with `Reactor` over one broadcast and one channel, with `Permission` as
   its gate.
