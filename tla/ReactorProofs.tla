--------------------------- MODULE ReactorProofs ---------------------------
(***************************************************************************)
(* Proofs about the reactor for every instruction set, rule set and bound. *)
(***************************************************************************)
EXTENDS Reactor, FiniteSetTheorems, TLAPS

(* Appending a fact to a chain gives a chain (apply_fact_to_state). *)
LEMMA LogAppendType ==
    ASSUME NEW L \in Log, NEW f \in Fact
    PROVE  LogAppend(L, f) \in Log
<1>1. /\ L.facts \in Seq(Fact) /\ L.data \in Data /\ L.queue \in Seq(Item)
      /\ L.version \in Nat /\ L.last_stable \in Nat
  BY DEF Log
<1>2. Append(L.facts, f) \in Seq(Fact)
  BY <1>1
<1>3. f.type = "StateTransition" => f.data \in Data /\ f.queue \in Seq(Item)
  BY DEF Fact
<1>4. f.type = "PayloadUpdate" => PatchSnapshot(f.update, L.data) \in Data
  <2>1. f.type = "PayloadUpdate" => f.update \in Update
    BY DEF Fact
  <2>2. QED
    BY <1>1, <2>1, FactsAssumption DEF PatchSnapshot
<1>5. QED
  BY <1>1, <1>2, <1>3, <1>4 DEF LogAppend, Log

(* The states of the chain as a record. *)
ChainState == [log : Log, fails : 0 .. WalFailThreshold, irq : BOOLEAN]

(* A write to the chain, successful or not, gives a chain state. *)
LEMMA AppendToType ==
    ASSUME NEW b \in ChainState, NEW f \in Fact, NEW ok \in BOOLEAN
    PROVE  AppendTo(b, f, ok) \in ChainState
<1>1. LogAppend(b.log, f) \in Log
  BY LogAppendType DEF ChainState
<1>2. Saturate(b.fails + 1) \in 0 .. WalFailThreshold
  BY ReactorAssumption DEF ChainState, Saturate
<1>3. QED
  BY <1>1, <1>2, ReactorAssumption DEF AppendTo, ChainState

LEMMA ChainType ==
    ASSUME TypeOK, NEW irq \in BOOLEAN
    PROVE  Chain(irq) \in ChainState
BY DEF TypeOK, Chain, ChainState

(* emit_fact keeps the type of the chain and its escalation state. *)
LEMMA EmitType ==
    ASSUME TypeOK, NEW f \in Fact, Emit(f)
    PROVE  log' \in Log /\ wal_fail_count' \in 0 .. WalFailThreshold /\ interrupt' \in BOOLEAN
<1>1. PICK ok \in WalOutcomes : SetChain(AppendTo(Chain(interrupt), f, ok))
  BY DEF Emit
<1>2. ok \in BOOLEAN
  BY ReactorAssumption
<1>3. AppendTo(Chain(interrupt), f, ok) \in ChainState
  BY <1>2, ChainType, AppendToType DEF TypeOK
<1>4. QED
  BY <1>1, <1>3 DEF SetChain, ChainState

LEMMA EmitBothType ==
    ASSUME TypeOK, NEW f \in Fact, NEW g \in Fact, NEW irq \in BOOLEAN,
           EmitBoth(f, g, irq)
    PROVE  log' \in Log /\ wal_fail_count' \in 0 .. WalFailThreshold /\ interrupt' \in BOOLEAN
<1>1. PICK ok1 \in WalOutcomes, ok2 \in WalOutcomes :
        SetChain(AppendTo(AppendTo(Chain(irq), f, ok1), g, ok2))
  BY DEF EmitBoth
<1>2. ok1 \in BOOLEAN /\ ok2 \in BOOLEAN
  BY ReactorAssumption
<1>3. AppendTo(Chain(irq), f, ok1) \in ChainState
  BY <1>2, ChainType, AppendToType
<1>4. AppendTo(AppendTo(Chain(irq), f, ok1), g, ok2) \in ChainState
  BY <1>2, <1>3, AppendToType
<1>5. QED
  BY <1>1, <1>4 DEF SetChain, ChainState

-----------------------------------------------------------------------------
(* The facts the reactor and its environment build are facts. *)
LEMMA FactsAreFacts ==
    /\ ErrorFact \in Fact /\ TraceFact \in Fact
    /\ \A v \in Nat : StableFact(v) \in Fact /\ ViolationFact(v) \in Fact
    /\ \A r, c \in Nat : IoRequestFact(r, c) \in Fact
    /\ \A r \in Nat, ok \in BOOLEAN : IoResponseFact(r, ok) \in Fact
    /\ \A id \in Nat, i \in Instruction : CommandFact(id, i) \in Fact
    /\ \A u \in Update : PayloadUpdateFact(u) \in Fact
    /\ \A c \in Nat, d \in Data, q \in Seq(Item) : TransitionFact(c, d, q) \in Fact
BY DEF ErrorFact, TraceFact, StableFact, ViolationFact, IoRequestFact, IoResponseFact,
       CommandFact, PayloadUpdateFact, TransitionFact, Fact

(* An event of the environment is paid for. *)
LEMMA SpendType ==
    ASSUME TypeOK, NEW e \in Events, Spend(e)
    PROVE  budget' \in [Events -> Nat] /\ \A x \in Events : budget'[x] <= Budget[x]
<1>1. /\ budget \in [Events -> Nat] /\ budget[e] > 0
      /\ budget' = [budget EXCEPT ![e] = budget[e] - 1]
      /\ \A x \in Events : budget[x] <= Budget[x]
  BY DEF TypeOK, Spend
<1>2. budget[e] - 1 \in Nat
  BY <1>1
<1>3. budget' \in [Events -> Nat]
  BY <1>1, <1>2
<1>4. ASSUME NEW x \in Events PROVE budget'[x] <= Budget[x]
  <2>1. budget'[x] \in {budget[x], budget[x] - 1} /\ budget[x] \in Nat /\ Budget[x] \in Nat
    BY <1>1, ReactorAssumption
  <2>2. QED
    BY <1>1, <2>1
<1>5. QED
  BY <1>3, <1>4

(* Sending a fact changes the channel and the budget only. *)
LEMMA SendType ==
    ASSUME TypeOK, NEW e \in Events, NEW f \in Fact, Send(e, f)
    PROVE  TypeOK'
<1>1. chan' \in Seq(Fact)
  BY DEF TypeOK, Send
<1>2. budget' \in [Events -> Nat] /\ \A x \in Events : budget'[x] <= Budget[x]
  BY SpendType DEF Send
<1>3. QED
  BY <1>1, <1>2 DEF TypeOK, Send, reactor, chain, pending, work, payload, results,
                    control, clock, OfRequests

(* Every step of the environment keeps the types. *)
LEMMA EnvironmentType ==
    ASSUME TypeOK, Environment
    PROVE  TypeOK'
<1> USE DEF Events
<1>1. CASE SendCommand
  <2>1. PICK i \in Instruction :
          Send("command", CommandFact(Budget["command"] - budget["command"] + 1, i))
    BY <1>1 DEF SendCommand
  <2>a. Budget \in [Events -> Nat]
    BY ReactorAssumption
  <2>b. budget \in [Events -> Nat] /\ budget["command"] <= Budget["command"]
    BY DEF TypeOK
  <2>2. Budget["command"] - budget["command"] + 1 \in Nat
    BY <2>a, <2>b
  <2>3. QED
    BY <2>1, <2>2, FactsAreFacts, SendType
<1>2. CASE SendPayloadUpdate
  BY <1>2, FactsAreFacts, SendType DEF SendPayloadUpdate
<1>3. CASE SendIoResponse
  <2>1. PICK r \in 1 .. next_request - 1, ok \in BOOLEAN :
          Send("response", IoResponseFact(r, ok))
    BY <1>3 DEF SendIoResponse
  <2>2. r \in Nat
    BY DEF TypeOK
  <2>3. QED
    BY <2>1, <2>2, FactsAreFacts, SendType
<1>4. CASE Interrupt
  BY ZenonT(60), <1>4, SpendType DEF Interrupt, TypeOK, pending, work, payload, results, control,
                         clock, OfRequests
<1>5. CASE CancelAll
  BY ZenonT(60), <1>5, SpendType DEF CancelAll, TypeOK, reactor, chain, pending, work, payload,
                         results, control, clock, OfRequests
<1>6. CASE CloseChannel
  BY ZenonT(60), <1>6, SpendType DEF CloseChannel, TypeOK, reactor, chain, pending, work, payload,
                         results, control, clock, OfRequests
<1>7. CASE Tick
  BY ZenonT(60), <1>7 DEF Tick, TypeOK, chain, pending, work, payload, results, inputs, control,
              OfRequests
<1>8. CASE Restart
  <2>1. SeedPayload \in Data
    BY FactsAssumption DEF SeedPayload, TypeOK, Log
  <2>2. queue' \in Seq(Item) /\ version' \in Nat
    BY <1>8 DEF Restart, TypeOK, Log
  <2>3. OfRequests(<<>>, IoType) /\ OfRequests(<<>>, [item : Item, cause : Nat])
    BY DEF OfRequests
  <2>4. budget' \in [Events -> Nat] /\ \A x \in Events : budget'[x] <= Budget[x]
    BY <1>8, SpendType DEF Restart
  <2>5. io_results' \in [IoType -> Nat] /\ wal_fail_count' \in 0 .. WalFailThreshold
    BY <1>8, ReactorAssumption DEF Restart, NoResults
  <2>6. /\ OfRequests(pending_requests, IoType)'
        /\ OfRequests(pending_io_instructions, [item : Item, cause : Nat])'
    BY <1>8, <2>3 DEF Restart, OfRequests
  <2>7. chan' \in Seq(Fact) /\ causes' \in Seq(Nat)
    BY <1>8 DEF Restart
  <2>8. log' \in Log /\ next_request' \in Nat \ {0} /\ data' \in Data
    BY <1>8, <2>1 DEF Restart, TypeOK
  <2>9. QED
    BY <1>8, <2>2, <2>4, <2>5, <2>6, <2>7, <2>8 DEF Restart, TypeOK
<1>9. QED
  BY <1>1, <1>2, <1>3, <1>4, <1>5, <1>6, <1>7, <1>8 DEF Environment

-----------------------------------------------------------------------------
(* A map from requests stays one when entries are removed. *)
LEMMA RestrictType ==
    ASSUME NEW m, NEW S, OfRequests(m, S), NEW D \in SUBSET (DOMAIN m)
    PROVE  OfRequests(Restrict(m, D), S) /\ DOMAIN Restrict(m, D) = D
BY DEF OfRequests, Restrict

(* complete_io_request and take_io_instruction keep the types of the I/O    *)
(* bookkeeping.                                                             *)
LEMMA CompleteType ==
    ASSUME TypeOK, NEW r, complete_io_request(r), UNCHANGED next_request
    PROVE  /\ OfRequests(pending_requests, IoType)'
           /\ pending_io_count' \in Nat
           /\ expired' \subseteq 1 .. next_request' - 1
<1>1. OfRequests(Restrict(pending_requests, DOMAIN pending_requests \ {r}), IoType)
  BY RestrictType DEF TypeOK
<1>2. OfRequests(pending_requests, IoType)'
  BY <1>1 DEF complete_io_request, OfRequests
<1>3. pending_io_count \in Nat /\ expired \subseteq 1 .. next_request - 1
  BY DEF TypeOK
<1>4. pending_io_count' \in Nat
  BY <1>3 DEF complete_io_request
<1>5. expired' \subseteq 1 .. next_request' - 1
  BY <1>3 DEF complete_io_request
<1>6. QED
  BY <1>2, <1>4, <1>5

LEMMA TakeType ==
    ASSUME TypeOK, NEW r, take_io_instruction(r), UNCHANGED next_request
    PROVE  OfRequests(pending_io_instructions, [item : Item, cause : Nat])'
<1>1. OfRequests(Restrict(pending_io_instructions, DOMAIN pending_io_instructions \ {r}),
                 [item : Item, cause : Nat])
  BY RestrictType DEF TypeOK
<1>2. QED
  BY <1>1 DEF take_io_instruction, OfRequests

(* The two queues keep their types under every operation on them. *)
LEMMA PushType ==
    ASSUME TypeOK, NEW item \in Item, NEW c \in Nat,
           push_back(item, c) \/ push_front(item, c)
    PROVE  queue' \in Seq(Item) /\ causes' \in Seq(Nat)
<1>1. queue \in Seq(Item) /\ causes \in Seq(Nat)
  BY DEF TypeOK
<1>2. CASE push_back(item, c)
  BY <1>1, <1>2 DEF push_back
<1>3. CASE push_front(item, c)
  <2>1. <<item>> \in Seq(Item) /\ <<c>> \in Seq(Nat)
    OBVIOUS
  <2>2. QED
    BY <1>1, <1>3, <2>1 DEF push_front
<1>4. QED
  BY <1>2, <1>3

LEMMA PopType ==
    ASSUME TypeOK, queue # <<>>
    PROVE  /\ Head(queue) \in Item
           /\ PoppedCause \in Nat
           /\ RestQueue \in Seq(Item) /\ Len(RestQueue) = Len(queue) - 1
           /\ RestCauses \in Seq(Nat)
BY DEF TypeOK, PoppedCause, RestQueue, RestCauses

LEMMA RebuiltType ==
    ASSUME TypeOK, queue # <<>>, NEW n \in Nat, NEW c \in Nat
    PROVE  RebuiltCauses(n, c) \in Seq(Nat) /\ Len(RebuiltCauses(n, c)) = n
<1>1. RestCauses \in Seq(Nat) /\ RestQueue \in Seq(Item)
  BY PopType
<1> DEFINE k == IF n > Len(RestQueue) THEN n - Len(RestQueue) ELSE 0
           g == [i \in 1 .. n |-> IF i > k /\ i - k <= Len(RestCauses)
                                   THEN RestCauses[i - k] ELSE c]
<1>2. k \in Nat
  BY <1>1
<1>3. \A i \in 1 .. n : (IF i > k /\ i - k <= Len(RestCauses)
                         THEN RestCauses[i - k] ELSE c) \in Nat
  <2> HIDE DEF k
  <2> QED BY <1>1, <1>2
<1>4. g \in [1 .. n -> Nat]
  <2> HIDE DEF k
  <2> QED BY <1>3
<1>5. g \in Seq(Nat) /\ Len(g) = n
  <2> HIDE DEF g
  <2> QED BY <1>4
<1>6. RebuiltCauses(n, c) = g
  BY DEF RebuiltCauses
<1>7. QED
  BY <1>5, <1>6

(* What execute_transition returns is a result, and the queue it leaves is  *)
(* a queue of instructions of the same commands.                            *)
LEMMA OutcomeType ==
    ASSUME TypeOK, queue # <<>>, NEW res \in Outcomes
    PROVE  res \in Result /\ NewQueue(res) \in Seq(Item)
<1>1. Head(queue) \in Item /\ RestQueue \in Seq(Item)
  BY PopType
<1>2. Head(queue).instr \in Instruction /\ Head(queue).from \in Nat
  BY <1>1 DEF Item
<1>3. data \in Data /\ {t \in IoType : io_results[t] # 0} \in SUBSET IoType
  BY DEF TypeOK
<1>4. res \in Result
  BY <1>2, <1>3, ReactorAssumption DEF Outcomes
<1>5. res.push \in Seq(Instruction)
  BY <1>4 DEF Result
<1>6. Pushed(res) \in Seq(Item)
  <2>1. Pushed(res) \in [1 .. Len(res.push) -> Item]
    BY <1>2, <1>5 DEF Pushed, Item
  <2>2. Len(res.push) \in Nat
    BY <1>5
  <2>3. QED
    BY <2>1, <2>2
<1>7. QED
  BY <1>1, <1>4, <1>6 DEF NewQueue

-----------------------------------------------------------------------------
(* Receiving a fact keeps the types; drained_any is the caller's. *)
LEMMA ReceiveType ==
    ASSUME TypeOK, NEW next \in {"drain", "exec"}, Receive(next), drained_any' \in BOOLEAN
    PROVE  TypeOK'
<1> DEFINE f == Head(chan)
<1>1. f \in Fact /\ chan' \in Seq(Fact)
  BY DEF Receive, TypeOK
<1>2. /\ open' \in BOOLEAN /\ cancel_all' \in BOOLEAN /\ steps' \in Nat
      /\ finished' \in BOOLEAN
      /\ budget' \in [Events -> Nat] /\ \A e \in Events : budget'[e] <= Budget[e]
      /\ sweep' = sweep
  BY DEF Receive, TypeOK
<1> HIDE DEF f
<1>3. CASE HandleCommand(f, next)
  <2>1. f.instr \in Instruction /\ f.id \in Nat
    BY <1>1, <1>3 DEF HandleCommand, Fact
  <2>2. queue' \in Seq(Item) /\ causes' \in Seq(Nat)
    BY <1>3, <2>1, PushType DEF HandleCommand, Item
  <2>3. /\ log' \in Log /\ wal_fail_count' \in 0 .. WalFailThreshold
        /\ interrupt' \in BOOLEAN
    BY <1>1, <1>3, EmitType DEF HandleCommand
  <2>4. QED
    BY <1>1, <1>2, <1>3, <2>2, <2>3
       DEF HandleCommand, TypeOK, pending, payload, results, clock, OfRequests
<1>4. CASE HandleUpdate(f, next)
  <2>1. f.update \in Update
    BY <1>1, <1>4 DEF HandleUpdate, Fact
  <2>2. data' \in Data /\ version' \in Nat
    BY <1>4, <2>1, FactsAssumption DEF HandleUpdate, bump_version, TypeOK
  <2>3. /\ log' \in Log /\ wal_fail_count' \in 0 .. WalFailThreshold
        /\ interrupt' \in BOOLEAN
    BY <1>1, <1>4, EmitType DEF HandleUpdate
  <2>4. QED
    BY <1>1, <1>2, <1>4, <2>2, <2>3
       DEF HandleUpdate, TypeOK, pending, work, results, clock, OfRequests
<1>5. CASE HandleRejectedUpdate(f)
  <2>1. /\ log' \in Log /\ wal_fail_count' \in 0 .. WalFailThreshold
        /\ interrupt' \in BOOLEAN
    BY <1>1, <1>5, EmitType DEF HandleRejectedUpdate
  <2>2. QED
    BY <1>1, <1>2, <1>5, <2>1
       DEF HandleRejectedUpdate, TypeOK, pending, work, payload, results, clock, OfRequests
<1>6. CASE HandleStaleResponse(f, next)
  <2>1. /\ log' \in Log /\ wal_fail_count' \in 0 .. WalFailThreshold
        /\ interrupt' \in BOOLEAN
    BY SMTT(30), <1>1, <1>6, EmitBothType, FactsAreFacts DEF HandleStaleResponse, TypeOK
  <2>2. QED
    BY <1>1, <1>2, <1>6, <2>1
       DEF HandleStaleResponse, TypeOK, pending, work, payload, results, clock, OfRequests
<1>7. CASE HandleEmptyResponse(f, next)
  <2>1. /\ log' \in Log /\ wal_fail_count' \in 0 .. WalFailThreshold
        /\ interrupt' \in BOOLEAN
    BY <1>1, <1>7, EmitType DEF HandleEmptyResponse
  <2>2. /\ OfRequests(pending_requests, IoType)' /\ pending_io_count' \in Nat
        /\ expired' \subseteq 1 .. next_request' - 1
    BY <1>7, CompleteType DEF HandleEmptyResponse
  <2>3. OfRequests(pending_io_instructions, [item : Item, cause : Nat])'
    BY <1>7, TakeType DEF HandleEmptyResponse
  <2>4. QED
    BY <1>1, <1>2, <1>7, <2>1, <2>2, <2>3
       DEF HandleEmptyResponse, TypeOK, work, results, bump_version
<1>8. CASE HandleResult(f, next)
  <2>1. /\ log' \in Log /\ wal_fail_count' \in 0 .. WalFailThreshold
        /\ interrupt' \in BOOLEAN
    BY <1>1, <1>8, EmitType DEF HandleResult
  <2>2. /\ OfRequests(pending_requests, IoType)' /\ pending_io_count' \in Nat
        /\ expired' \subseteq 1 .. next_request' - 1
    BY <1>8, CompleteType DEF HandleResult
  <2>3. OfRequests(pending_io_instructions, [item : Item, cause : Nat])'
    BY <1>8, TakeType DEF HandleResult
  <2>4. io_results' \in [IoType -> Nat]
    <3>1. f.request \in Nat
      BY <1>1, <1>8 DEF HandleResult, Fact
    <3>2. QED
      BY <1>8, <3>1 DEF HandleResult, TypeOK
  <2>5. queue' \in Seq(Item) /\ causes' \in Seq(Nat) /\ io_recovery' \in BOOLEAN
    <3>1. CASE f.request \in DOMAIN pending_io_instructions
      <4>1. pending_io_instructions[f.request] \in [item : Item, cause : Nat]
        BY <3>1 DEF TypeOK, OfRequests
      <4>2. QED
        BY <1>8, <3>1, <4>1, PushType DEF HandleResult
    <3>2. CASE f.request \notin DOMAIN pending_io_instructions
      BY <1>8, <3>2 DEF HandleResult, TypeOK, work
    <3>3. QED
      BY <3>1, <3>2
  <2>6. version' \in Nat /\ data' \in Data /\ pc' = next
        /\ sweep' \subseteq 1 .. next_request' - 1 /\ next_request' \in Nat \ {0}
    BY <1>2, <1>8 DEF HandleResult, bump_version, TypeOK
  <2>7. QED
    BY <1>1, <1>2, <2>1, <2>2, <2>3, <2>4, <2>5, <2>6 DEF TypeOK
<1>9. CASE HandleRefusedResult(f)
  <2>1. /\ log' \in Log /\ wal_fail_count' \in 0 .. WalFailThreshold
        /\ interrupt' \in BOOLEAN
    BY <1>1, <1>9, EmitType DEF HandleRefusedResult
  <2>2. /\ OfRequests(pending_requests, IoType)' /\ pending_io_count' \in Nat
        /\ expired' \subseteq 1 .. next_request' - 1
    BY <1>9, CompleteType DEF HandleRefusedResult
  <2>3. OfRequests(pending_io_instructions, [item : Item, cause : Nat])'
    BY <1>9, TakeType DEF HandleRefusedResult
  <2>4. QED
    BY <1>1, <1>2, <1>9, <2>1, <2>2, <2>3
       DEF HandleRefusedResult, TypeOK, work, payload, results
<1>10. QED
  BY <1>3, <1>4, <1>5, <1>6, <1>7, <1>8, <1>9 DEF Receive, f

(* Executing an instruction keeps the types, whatever the rules return. *)
LEMMA ExecInstructionType ==
    ASSUME TypeOK, ExecInstruction
    PROVE  TypeOK'
<1>1. queue # <<>> /\ CanExec
  BY DEF ExecInstruction, CanExec
<1>2. PICK res \in Outcomes :
        \/ ExecState(res) \/ ExecOverflow(res) \/ ExecIgnored(res) \/ ExecHalted(res)
        \/ ExecUnknownIo(res) \/ ExecErr(res) \/ ExecIoRequired(res)
  BY DEF ExecInstruction
<1>3. res \in Result /\ NewQueue(res) \in Seq(Item)
  BY <1>1, OutcomeType
<1>4. /\ PoppedCause \in Nat /\ RestQueue \in Seq(Item) /\ RestCauses \in Seq(Nat)
      /\ Head(queue) \in Item
  BY <1>1, PopType
<1>5. /\ chan' \in Seq(Fact) /\ open' \in BOOLEAN /\ cancel_all' \in BOOLEAN
      /\ budget' \in [Events -> Nat] /\ \A e \in Events : budget'[e] <= Budget[e]
      /\ drained_any' \in BOOLEAN /\ sweep' = sweep /\ finished' \in BOOLEAN
  BY DEF ExecInstruction, inputs, TypeOK
<1>6. res.data \in Data /\ res.io_type \in IoType
  BY <1>3 DEF Result
<1>7. Consumed(res) \in [IoType -> Nat]
  BY DEF Consumed, TypeOK
<1>8. CASE ExecState(res)
  <2>1. TransitionFact(PoppedCause, res.data, NewQueue(res)) \in Fact /\ TraceFact \in Fact
    BY <1>3, <1>4, <1>6, FactsAreFacts
  <2>2. /\ log' \in Log /\ wal_fail_count' \in 0 .. WalFailThreshold
        /\ interrupt' \in BOOLEAN
    BY <1>8, <2>1, EmitBothType DEF ExecState, TypeOK
  <2>3. causes' \in Seq(Nat)
    BY <1>1, <1>3, <1>4, <1>8, RebuiltType DEF ExecState
  <2>4. io_results' \in [IoType -> Nat] /\ io_recovery' \in BOOLEAN
    <3>1. NoResults \in [IoType -> Nat]
      BY DEF NoResults
    <3>2. io_recovery \in BOOLEAN
      BY DEF TypeOK
    <3>3. CASE io_recovery
      BY <1>8, <3>1, <3>3 DEF ExecState, clear_io_recovery
    <3>4. CASE ~io_recovery
      BY <1>7, <1>8, <3>2, <3>4 DEF ExecState
    <3>5. QED
      BY <3>3, <3>4
  <2>5. data' \in Data /\ version' \in Nat /\ steps' \in Nat /\ queue' \in Seq(Item)
    BY <1>3, <1>6, <1>8 DEF ExecState, bump_version, TypeOK
  <2>6. /\ pc' = "exec" /\ next_request' \in Nat \ {0}
        /\ pending_io_count' \in Nat
        /\ OfRequests(pending_requests, IoType)'
        /\ OfRequests(pending_io_instructions, [item : Item, cause : Nat])'
        /\ expired' \subseteq 1 .. next_request' - 1
        /\ sweep' \subseteq 1 .. next_request' - 1
    BY <1>1, <1>5, <1>8 DEF CanExec, ExecState, TypeOK, pending, clock, OfRequests
  <2>7. QED
    BY <1>5, <2>2, <2>3, <2>4, <2>5, <2>6 DEF TypeOK
<1>9. CASE ExecOverflow(res)
  <2>1. /\ log' \in Log /\ wal_fail_count' \in 0 .. WalFailThreshold
        /\ interrupt' \in BOOLEAN
    BY <1>9, EmitBothType, FactsAreFacts DEF ExecOverflow, TypeOK
  <2>2. queue' \in Seq(Item) /\ causes' \in Seq(Nat)
    BY <1>9 DEF ExecOverflow, clear_queue
  <2>3. QED
    BY <1>5, <1>6, <1>7, <1>9, <2>1, <2>2
       DEF ExecOverflow, TypeOK, pending, clock, OfRequests
<1>10. ASSUME Drop, log' \in Log, wal_fail_count' \in 0 .. WalFailThreshold,
              interrupt' \in BOOLEAN
       PROVE  TypeOK'
  <2>1. /\ pc' = "head" /\ steps' \in Nat /\ data' \in Data /\ version' \in Nat
        /\ io_results' \in [IoType -> Nat] /\ io_recovery' \in BOOLEAN
    BY <1>10 DEF Drop, TypeOK, payload, results
  <2>2. /\ next_request' \in Nat \ {0} /\ pending_io_count' \in Nat
        /\ OfRequests(pending_requests, IoType)'
        /\ OfRequests(pending_io_instructions, [item : Item, cause : Nat])'
        /\ expired' \subseteq 1 .. next_request' - 1
        /\ sweep' \subseteq 1 .. next_request' - 1
    BY <1>5, <1>10 DEF Drop, TypeOK, pending, clock, OfRequests
  <2>3. queue' \in Seq(Item) /\ causes' \in Seq(Nat)
    BY <1>4, <1>10 DEF Drop
  <2>4. QED
    BY <1>5, <1>10, <2>1, <2>2, <2>3 DEF TypeOK
<1>11. CASE ExecIgnored(res)
  BY ZenonT(60), <1>10, <1>11, EmitBothType, FactsAreFacts DEF ExecIgnored, TypeOK
<1>12. CASE ExecHalted(res)
  BY <1>4, <1>10, <1>12, EmitType, FactsAreFacts DEF ExecHalted
<1>13. CASE ExecUnknownIo(res)
  BY <1>10, <1>13, EmitType, FactsAreFacts DEF ExecUnknownIo
<1>14. CASE ExecErr(res)
  BY <1>10, <1>14, EmitType, FactsAreFacts DEF ExecErr
<1>15. CASE ExecIoRequired(res)
  <2>1. next_request \in Nat \ {0} /\ next_request' = next_request + 1
    BY <1>15 DEF ExecIoRequired, TypeOK
  <2>2. /\ log' \in Log /\ wal_fail_count' \in 0 .. WalFailThreshold
        /\ interrupt' \in BOOLEAN
    BY <1>4, <1>15, <2>1, EmitType, FactsAreFacts DEF ExecIoRequired
  <2>3. OfRequests(pending_requests, IoType)' /\ pending_io_count' \in Nat
    BY SMTT(30), <1>6, <1>15, <2>1 DEF ExecIoRequired, register_io_request, OfRequests, TypeOK
  <2>4. OfRequests(pending_io_instructions, [item : Item, cause : Nat])'
    <3>1. [item |-> Head(queue), cause |-> PoppedCause] \in [item : Item, cause : Nat]
      BY <1>4
    <3>2. OfRequests(pending_io_instructions, [item : Item, cause : Nat])
      BY DEF TypeOK
    <3>3. pending_io_instructions' \in [DOMAIN pending_io_instructions \cup {next_request}
                                         -> [item : Item, cause : Nat]]
      BY <1>15, <3>1, <3>2 DEF ExecIoRequired, save_io_instruction, OfRequests
    <3>4. QED
      BY <2>1, <3>2, <3>3 DEF OfRequests
  <2>5. /\ expired' \subseteq 1 .. next_request' - 1 /\ sweep' \subseteq 1 .. next_request' - 1
        /\ next_request' \in Nat \ {0}
    BY <1>5, <1>15, <2>1 DEF ExecIoRequired, TypeOK
  <2>6. /\ queue' \in Seq(Item) /\ causes' \in Seq(Nat) /\ steps' \in Nat /\ pc' = "head"
        /\ data' \in Data /\ version' \in Nat
        /\ io_results' \in [IoType -> Nat] /\ io_recovery' \in BOOLEAN
    BY <1>4, <1>15 DEF ExecIoRequired, TypeOK, payload, results
  <2>7. QED
    BY <1>5, <2>2, <2>3, <2>4, <2>5, <2>6 DEF TypeOK
<1>16. QED
  BY <1>2, <1>8, <1>9, <1>11, <1>12, <1>13, <1>14, <1>15

(* Every step of the reactor's task keeps the types. *)
LEMMA ReactorStepType ==
    ASSUME TypeOK, ReactorStep
    PROVE  TypeOK'
<1>1. CASE HeadInterrupt
  <2>1. /\ log' \in Log /\ wal_fail_count' \in 0 .. WalFailThreshold
        /\ interrupt' \in BOOLEAN
    BY <1>1, EmitBothType, FactsAreFacts DEF HeadInterrupt, TypeOK
  <2>2. QED
    BY <1>1, <2>1 DEF HeadInterrupt, TypeOK, pending, work, payload, results, inputs,
                      clock, OfRequests
<1>2. CASE HeadCancel
  BY <1>2 DEF HeadCancel, TypeOK, chain, pending, work, payload, results, clock, OfRequests
<1>3. CASE HeadDrain
  BY <1>3 DEF HeadDrain, TypeOK, chain, pending, work, payload, results, inputs, clock,
              OfRequests
<1>4. CASE SweepRequest
  <2>1. PICK r \in sweep : Emit(ErrorFact) /\ force_remove_io_request(r) /\ sweep' = sweep \ {r}
    BY <1>4 DEF SweepRequest
  <2>2. /\ log' \in Log /\ wal_fail_count' \in 0 .. WalFailThreshold
        /\ interrupt' \in BOOLEAN
    BY <2>1, EmitType, FactsAreFacts
  <2>3. next_request' = next_request
    BY <1>4 DEF SweepRequest
  <2>4. /\ OfRequests(pending_requests, IoType)' /\ pending_io_count' \in Nat
        /\ expired' \subseteq 1 .. next_request' - 1
        /\ OfRequests(pending_io_instructions, [item : Item, cause : Nat])'
    <3>1. CASE complete_io_request(r) /\ take_io_instruction(r)
      BY <2>3, <3>1, CompleteType, TakeType
    <3>2. CASE UNCHANGED <<pending, expired>>
      BY <2>3, <3>2 DEF TypeOK, pending, OfRequests
    <3>3. QED
      BY <2>1, <3>1, <3>2 DEF force_remove_io_request
  <2>5. QED
    BY <1>4, <2>1, <2>2, <2>3, <2>4
       DEF SweepRequest, TypeOK, work, payload, results, inputs
<1>5. CASE SweepDone
  BY <1>5 DEF SweepDone, TypeOK, chain, pending, work, payload, results, inputs, clock,
              OfRequests
<1>6. CASE DrainFact
  BY <1>6, ReceiveType DEF DrainFact
<1>7. CASE Stop
  BY <1>7 DEF Stop, TypeOK, chain, pending, work, payload, results, inputs, clock,
              OfRequests
<1>8. CASE DrainStable
  <2>1. /\ log' \in Log /\ wal_fail_count' \in 0 .. WalFailThreshold
        /\ interrupt' \in BOOLEAN
    BY <1>8, EmitType, FactsAreFacts DEF DrainStable, TypeOK
  <2>2. QED
    BY <1>8, <2>1 DEF DrainStable, TypeOK, pending, work, payload, results, inputs,
                      clock, OfRequests
<1>9. CASE DrainDone
  BY <1>9 DEF DrainDone, TypeOK, chain, pending, work, payload, results, inputs, clock,
              OfRequests
<1>10. CASE AwaitFact
  BY <1>10, ReceiveType DEF AwaitFact, TypeOK
<1>11. CASE AwaitTimeout
  BY <1>11 DEF AwaitTimeout, TimedOut, TypeOK, chain, pending, work, payload, results,
               inputs, clock, OfRequests
<1>12. CASE ExecDone
  BY <1>12 DEF ExecDone, TypeOK, chain, pending, work, payload, results, inputs, clock,
               OfRequests
<1>13. CASE ExecMaxRounds
  <2>1. /\ log' \in Log /\ wal_fail_count' \in 0 .. WalFailThreshold
        /\ interrupt' \in BOOLEAN
    BY <1>13, EmitBothType, FactsAreFacts DEF ExecMaxRounds, TypeOK
  <2>2. queue' \in Seq(Item) /\ causes' \in Seq(Nat)
    BY <1>13 DEF ExecMaxRounds, clear_queue
  <2>3. QED
    BY <1>13, <2>1, <2>2 DEF ExecMaxRounds, TypeOK, pending, payload, results, inputs,
                             clock, OfRequests
<1>14. CASE ExecInstruction
  BY <1>14, ExecInstructionType
<1>15. QED
  BY <1>1, <1>2, <1>3, <1>4, <1>5, <1>6, <1>7, <1>8, <1>9, <1>10, <1>11, <1>12, <1>13,
     <1>14 DEF ReactorStep, DrainClosed, AwaitClosed

LEMMA InitType == Init => TypeOK
<1> SUFFICES ASSUME Init PROVE TypeOK
  OBVIOUS
<1>1. EmptyLog \in Log
  BY FactsAssumption DEF EmptyLog, Log
<1>2. OfRequests(pending_requests, IoType)
  BY DEF Init, OfRequests
<1>3. OfRequests(pending_io_instructions, [item : Item, cause : Nat])
  BY DEF Init, OfRequests
<1>4. budget \in [Events -> Nat] /\ \A e \in Events : budget[e] <= Budget[e]
  BY ReactorAssumption DEF Init
<1>5. QED
  <2>1. io_results \in [IoType -> Nat] /\ wal_fail_count \in 0 .. WalFailThreshold
    BY ReactorAssumption DEF Init, NoResults
  <2>2. chan \in Seq(Fact) /\ queue \in Seq(Item) /\ causes \in Seq(Nat)
    BY DEF Init
  <2>3. data \in Data
    BY FactsAssumption DEF Init
  <2>4. /\ open \in BOOLEAN /\ interrupt \in BOOLEAN /\ cancel_all \in BOOLEAN
        /\ drained_any \in BOOLEAN /\ finished \in BOOLEAN /\ io_recovery \in BOOLEAN
    BY Zenon DEF Init
  <2>5. /\ pc = "head" /\ steps \in Nat /\ version \in Nat /\ next_request \in Nat \ {0}
        /\ pending_io_count \in Nat /\ expired = {} /\ sweep = {} /\ log \in Log
    BY <1>1 DEF Init
  <2>6. QED
    BY <1>2, <1>3, <1>4, <2>1, <2>2, <2>3, <2>4, <2>5 DEF TypeOK

(* Every reachable state of the reactor is well typed, for every            *)
(* instruction set, every rule set and every bound.                         *)
THEOREM TypeCorrect == Spec => []TypeOK
<1>1. TypeOK /\ [Next]_vars => TypeOK'
  <2> SUFFICES ASSUME TypeOK, [Next]_vars PROVE TypeOK'
    OBVIOUS
  <2>1. CASE ReactorStep
    BY <2>1, ReactorStepType
  <2>2. CASE Environment
    BY <2>2, EnvironmentType
  <2>3. CASE UNCHANGED vars
    BY <2>3 DEF vars, TypeOK, chain, pending, work, payload, results, inputs, control,
                clock, OfRequests
  <2>4. QED
    BY <2>1, <2>2, <2>3 DEF Next
<1>2. QED
  BY <1>1, InitType, PTL DEF Spec

-----------------------------------------------------------------------------
(* The set of pending requests is finite. *)
LEMMA PendingFinite ==
    ASSUME TypeOK
    PROVE  IsFiniteSet(DOMAIN pending_requests)
<1>1. IsFiniteSet(1 .. next_request - 1)
  BY FS_Interval DEF TypeOK
<1>2. QED
  BY <1>1, FS_Subset DEF TypeOK, OfRequests

(* Ending the pending request leaves none: at most one was pending. *)
LEMMA CompletePending ==
    ASSUME TypeOK, PendingConsistent, NEW r \in DOMAIN pending_requests,
           complete_io_request(r), take_io_instruction(r)
    PROVE  /\ DOMAIN pending_requests' = {} /\ DOMAIN pending_io_instructions' = {}
           /\ pending_io_count' = 0 /\ expired' = {}
           /\ sweep \subseteq {r}
<1>1. DOMAIN pending_requests = {r} /\ DOMAIN pending_io_instructions = {r}
  BY DEF PendingConsistent
<1>2. pending_io_count = 1
  BY <1>1, FS_Singleton DEF PendingConsistent
<1>3. QED
  BY <1>1, <1>2 DEF PendingConsistent, complete_io_request, take_io_instruction, Restrict

(* With no request pending and nothing to sweep the bookkeeping is coherent. *)
LEMMA NothingPending ==
    ASSUME DOMAIN pending_requests' = {}, DOMAIN pending_io_instructions' = {},
           pending_io_count' = 0, expired' = {}, sweep' = {}
    PROVE  PendingConsistent'
BY FS_EmptySet DEF PendingConsistent

LEMMA PendingStep ==
    ASSUME TypeOK, PendingConsistent, [Next]_vars
    PROVE  PendingConsistent'
<1> DEFINE Same == UNCHANGED <<pending, expired>>
<1>1. ASSUME Same, sweep' \subseteq DOMAIN pending_requests, pc' # "sweep" => sweep' = {}
      PROVE  PendingConsistent'
  BY <1>1 DEF PendingConsistent, pending
<1>2. ASSUME NEW next \in {"drain", "exec"}, Receive(next), pc # "sweep"
      PROVE  PendingConsistent'
  <2> DEFINE f == Head(chan)
  <2>1. sweep' = {} /\ sweep = {}
    BY <1>2 DEF Receive, PendingConsistent
  <2>2. CASE HandleCommand(f, next) \/ HandleUpdate(f, next) \/ HandleRejectedUpdate(f)
             \/ HandleStaleResponse(f, next)
    <3>1. Same
      BY <2>2 DEF HandleCommand, HandleUpdate, HandleRejectedUpdate, HandleStaleResponse,
                  clock
    <3>2. QED
      BY <1>1, <2>1, <3>1
  <2>3. CASE HandleEmptyResponse(f, next) \/ HandleRefusedResult(f) \/ HandleResult(f, next)
    <3>1. /\ f.request \in DOMAIN pending_requests
          /\ complete_io_request(f.request) /\ take_io_instruction(f.request)
      BY <2>3 DEF HandleEmptyResponse, HandleRefusedResult, HandleResult
    <3>2. QED
      BY <2>1, <3>1, CompletePending, NothingPending
  <2>4. QED
    BY <1>2, <2>2, <2>3 DEF Receive
<1>3. CASE SweepRequest
  <2>1. PICK r \in sweep : force_remove_io_request(r) /\ sweep' = sweep \ {r}
    BY <1>3 DEF SweepRequest
  <2>2. r \in DOMAIN pending_requests
    BY DEF PendingConsistent
  <2>3. complete_io_request(r) /\ take_io_instruction(r)
    BY <2>1, <2>2 DEF force_remove_io_request
  <2>4. QED
    BY <2>1, <2>2, <2>3, CompletePending, NothingPending
<1>4. CASE ExecInstruction
  <2>1. PICK res \in Outcomes :
          \/ ExecState(res) \/ ExecOverflow(res) \/ ExecIgnored(res) \/ ExecHalted(res)
          \/ ExecUnknownIo(res) \/ ExecErr(res) \/ ExecIoRequired(res)
    BY <1>4 DEF ExecInstruction
  <2>2. sweep' = {} /\ sweep = {}
    BY <1>4 DEF ExecInstruction, CanExec, PendingConsistent
  <2>3. CASE ~ExecIoRequired(res)
    <3>1. Same
      BY <2>1, <2>3 DEF ExecState, ExecOverflow, ExecIgnored, ExecHalted, ExecUnknownIo,
                        ExecErr, Drop, clock
    <3>2. QED
      BY <1>1, <2>2, <3>1
  <2>4. CASE ExecIoRequired(res)
    <3>1. DOMAIN pending_requests = {}
      <4>1. pending_io_count = 0
        BY <1>4 DEF ExecInstruction, CanExec
      <4>2. QED
        BY <4>1, PendingFinite, FS_EmptySet DEF PendingConsistent
    <3>2. /\ DOMAIN pending_requests' = {next_request}
          /\ DOMAIN pending_io_instructions' = {next_request}
          /\ pending_io_count' = 1
      <4>1. pending_io_count = 0 /\ DOMAIN pending_io_instructions = {}
        BY <1>4, <3>1 DEF ExecInstruction, CanExec, PendingConsistent
      <4>2. DOMAIN pending_requests' = {next_request} /\ pending_io_count' = 1
        BY <2>4, <3>1, <4>1 DEF ExecIoRequired, register_io_request
      <4>3. DOMAIN pending_io_instructions' = {next_request}
        BY <2>4, <4>1 DEF ExecIoRequired, save_io_instruction
      <4>4. QED
        BY <4>2, <4>3
    <3>3. expired' = {}
      BY <2>4, <3>1 DEF ExecIoRequired, PendingConsistent
    <3>4. QED
      BY <2>2, <3>2, <3>3, FS_Singleton DEF PendingConsistent
  <2>5. QED
    BY <2>3, <2>4
<1>5. CASE Restart
  BY <1>5, NothingPending DEF Restart
<1>6. CASE Tick
  BY <1>6 DEF Tick, PendingConsistent, pending, control
<1>7. CASE HeadCancel \/ AwaitTimeout
  <2>1. Same /\ pc' = "sweep" /\ sweep' \subseteq DOMAIN pending_requests
    BY <1>7 DEF HeadCancel, AwaitTimeout, TimedOut, clock, PendingConsistent
  <2>2. QED
    BY <1>1, <2>1
<1>8. CASE DrainFact
  BY <1>2, <1>8 DEF DrainFact
<1>9. CASE AwaitFact
  BY <1>2, <1>9 DEF AwaitFact
<1>10. CASE \/ HeadInterrupt \/ HeadDrain \/ SweepDone \/ DrainClosed \/ DrainStable
            \/ DrainDone \/ AwaitClosed \/ ExecDone \/ ExecMaxRounds
  <2>1. Same /\ sweep' = sweep /\ sweep' = {}
    BY <1>10 DEF HeadInterrupt, HeadDrain, SweepDone, DrainClosed, DrainStable, DrainDone,
                 AwaitClosed, Stop, AtDrainEnd, ExecDone, ExecMaxRounds, clock,
                 PendingConsistent
  <2>2. QED
    BY <1>1, <2>1
<1>11. CASE \/ SendCommand \/ SendPayloadUpdate \/ SendIoResponse \/ Interrupt
            \/ CancelAll \/ CloseChannel \/ UNCHANGED vars
  <2>1. Same /\ sweep' = sweep /\ pc' = pc
    BY <1>11 DEF SendCommand, SendPayloadUpdate, SendIoResponse, Send, Interrupt, CancelAll,
                 CloseChannel, vars, reactor, clock, control
  <2>2. QED
    BY <1>1, <2>1 DEF PendingConsistent
<1>12. QED
  BY <1>3, <1>4, <1>5, <1>6, <1>7, <1>8, <1>9, <1>10, <1>11
     DEF Next, ReactorStep, Environment

(* The counter the main loop blocks on is the number of registered          *)
(* requests, and at most one request is ever pending, whatever the order of *)
(* responses, duplicates, cancellations, timeouts, write failures and       *)
(* restarts (register, complete and force_remove_io_request).               *)
THEOREM PendingIsConsistent == Spec => []PendingConsistent
<1>1. Init => PendingConsistent
  BY FS_EmptySet DEF Init, PendingConsistent
<1>2. TypeOK /\ PendingConsistent /\ [Next]_vars => PendingConsistent'
  BY PendingStep
<1>3. QED
  BY <1>1, <1>2, TypeCorrect, PTL DEF Spec

-----------------------------------------------------------------------------
(* The part of CausesTrackOrigin about two queues of equal length. *)
Aligned(q, c) == Len(c) = Len(q) /\ \A i \in 1 .. Len(q) : c[i] = q[i].from

(* Popping the head keeps the queues aligned and yields the head's origin. *)
LEMMA PopAligned ==
    ASSUME TypeOK, CausesTrackOrigin, queue # <<>>
    PROVE  Aligned(RestQueue, RestCauses) /\ PoppedCause = Head(queue).from
<1>1. queue \in Seq(Item) /\ causes \in Seq(Nat) /\ Len(causes) = Len(queue)
  BY DEF TypeOK, CausesTrackOrigin
<1>2. Len(queue) > 0 /\ causes # <<>>
  BY <1>1
<1>3. \A i \in 1 .. Len(queue) : causes[i] = queue[i].from
  BY DEF CausesTrackOrigin
<1>4. RestQueue = Tail(queue) /\ RestCauses = Tail(causes) /\ PoppedCause = Head(causes)
  BY <1>2 DEF RestQueue, RestCauses, PoppedCause
<1>5. PoppedCause = Head(queue).from
  BY <1>1, <1>2, <1>3, <1>4
<1>6. Len(RestQueue) = Len(queue) - 1 /\ Len(RestCauses) = Len(queue) - 1
  BY <1>1, <1>2, <1>4
<1>7. ASSUME NEW i \in 1 .. Len(RestQueue) PROVE RestCauses[i] = RestQueue[i].from
  <2>1. RestCauses[i] = causes[i + 1] /\ RestQueue[i] = queue[i + 1]
    BY <1>1, <1>2, <1>4, <1>6
  <2>2. i + 1 \in 1 .. Len(queue)
    BY <1>1, <1>6
  <2>3. QED
    BY <1>3, <2>1, <2>2
<1>8. QED
  BY <1>5, <1>6, <1>7 DEF Aligned

(* update_queue_with_causes: what an instruction pushes inherits its cause, *)
(* what was queued keeps its own.                                           *)
LEMMA RebuiltAligned ==
    ASSUME TypeOK, CausesTrackOrigin, queue # <<>>, NEW res \in Outcomes
    PROVE  Aligned(NewQueue(res), RebuiltCauses(Len(NewQueue(res)), PoppedCause))
<1> DEFINE n == Len(NewQueue(res))
           k == Len(res.push)
           c == RebuiltCauses(n, PoppedCause)
<1>1. res.push \in Seq(Instruction) /\ NewQueue(res) \in Seq(Item)
  BY OutcomeType DEF Result
<1>2. /\ RestQueue \in Seq(Item) /\ RestCauses \in Seq(Nat) /\ PoppedCause \in Nat
      /\ Head(queue) \in Item
  BY PopType
<1>3. Len(RestCauses) = Len(RestQueue) /\ PoppedCause = Head(queue).from
      /\ \A i \in 1 .. Len(RestQueue) : RestCauses[i] = RestQueue[i].from
  BY PopAligned DEF Aligned
<1>4. Pushed(res) \in Seq(Item) /\ Len(Pushed(res)) = k
      /\ \A i \in 1 .. k : Pushed(res)[i].from = Head(queue).from
  <2>1. k \in Nat
    BY <1>1
  <2>2. Pushed(res) \in [1 .. k -> Item]
    BY <1>1, <1>2 DEF Pushed, Item
  <2>3. \A i \in 1 .. k : Pushed(res)[i].from = Head(queue).from
    BY DEF Pushed
  <2>4. QED
    BY <2>1, <2>2, <2>3
<1>5. n = k + Len(RestQueue) /\ n \in Nat /\ k \in Nat
  <2>1. k \in Nat /\ Len(RestQueue) \in Nat
    BY <1>1, <1>2
  <2>2. Len(Pushed(res) \o RestQueue) = Len(Pushed(res)) + Len(RestQueue)
    BY SMTT(30), <1>2, <1>4
  <2>3. n = k + Len(RestQueue)
    BY <1>4, <2>2 DEF NewQueue
  <2>4. QED
    BY <2>1, <2>3
<1>6. \A i \in 1 .. n : NewQueue(res)[i] = IF i <= k THEN Pushed(res)[i] ELSE RestQueue[i - k]
  BY <1>2, <1>4, <1>5 DEF NewQueue
<1>7. c = [i \in 1 .. n |-> IF i > k /\ i - k <= Len(RestCauses)
                             THEN RestCauses[i - k] ELSE PoppedCause]
  <2>1. (IF n > Len(RestQueue) THEN n - Len(RestQueue) ELSE 0) = k
    BY <1>2, <1>5
  <2>2. QED
    BY <2>1 DEF RebuiltCauses
<1>8. Len(c) = n
  <2> HIDE DEF n
  <2> QED BY <1>2, <1>5, RebuiltType
<1>9. ASSUME NEW i \in 1 .. n PROVE c[i] = NewQueue(res)[i].from
  <2>1. CASE i <= k
    BY <1>3, <1>4, <1>5, <1>6, <1>7, <2>1
  <2>2. CASE i > k
    <3>1. i - k \in 1 .. Len(RestQueue)
      BY <1>2, <1>5, <2>2
    <3>2. c[i] = RestCauses[i - k] /\ NewQueue(res)[i] = RestQueue[i - k]
      BY <1>3, <1>5, <1>6, <1>7, <2>2, <3>1
    <3>3. QED
      BY <1>3, <3>1, <3>2
  <2>3. QED
    BY <1>5, <2>1, <2>2
<1>10. QED
  BY <1>8, <1>9 DEF Aligned

(* What a step must do to keep the causes. *)
LEMMA CausesFromParts ==
    ASSUME Aligned(queue', causes'),
           \A r \in DOMAIN pending_io_instructions' :
               pending_io_instructions'[r].cause = pending_io_instructions'[r].item.from
    PROVE  CausesTrackOrigin'
BY DEF Aligned, CausesTrackOrigin

LEMMA CausesStep ==
    ASSUME TypeOK, PendingConsistent, CausesTrackOrigin, budget["restart"] = 0, [Next]_vars
    PROVE  CausesTrackOrigin' /\ budget'["restart"] = 0
<1> DEFINE Saved(p) == \A r \in DOMAIN p : p[r].cause = p[r].item.from
<1>0. Aligned(queue, causes) /\ Saved(pending_io_instructions)
  BY DEF CausesTrackOrigin, Aligned
<1>1. ASSUME NEW e \in Events, Spend(e)
      PROVE  e # "restart" /\ budget'["restart"] = 0
  BY <1>1 DEF Spend, TypeOK, Events
<1>2. ASSUME UNCHANGED <<work, pending_io_instructions>> PROVE CausesTrackOrigin'
  BY <1>2 DEF work, CausesTrackOrigin
<1>3. ASSUME NEW next, Receive(next) PROVE CausesTrackOrigin' /\ UNCHANGED budget
  <2> DEFINE f == Head(chan)
  <2>1. UNCHANGED budget
    BY <1>3 DEF Receive
  <2>2. CASE HandleCommand(f, next)
    <3>1. queue \in Seq(Item) /\ causes \in Seq(Nat)
      BY DEF TypeOK
    <3>2. queue' = Append(queue, [instr |-> f.instr, from |-> f.id]) /\ causes' = Append(causes, f.id)
      BY <2>2 DEF HandleCommand, push_back
    <3>3. Aligned(queue', causes')
      BY <1>0, <3>1, <3>2 DEF Aligned
    <3>4. UNCHANGED pending_io_instructions
      BY <2>2 DEF HandleCommand, pending
    <3>5. QED
      BY <1>0, <2>1, <3>3, <3>4, CausesFromParts
  <2>3. CASE HandleUpdate(f, next) \/ HandleRejectedUpdate(f) \/ HandleStaleResponse(f, next)
    <3>1. UNCHANGED <<work, pending_io_instructions>>
      BY <2>3 DEF HandleUpdate, HandleRejectedUpdate, HandleStaleResponse, pending
    <3>2. QED
      BY <1>2, <2>1, <3>1
  <2>4. CASE HandleEmptyResponse(f, next) \/ HandleRefusedResult(f) \/ HandleResult(f, next)
    <3>1. DOMAIN pending_io_instructions' = {}
      BY <2>4, CompletePending DEF HandleEmptyResponse, HandleRefusedResult, HandleResult
    <3>2. CASE HandleEmptyResponse(f, next) \/ HandleRefusedResult(f)
      BY <1>0, <2>1, <3>1, <3>2, CausesFromParts
         DEF HandleEmptyResponse, HandleRefusedResult, work
    <3>3. CASE HandleResult(f, next)
      <4>1. f.request \in DOMAIN pending_io_instructions
        BY <3>3 DEF HandleResult, PendingConsistent
      <4> DEFINE saved == pending_io_instructions[f.request]
      <4>2. saved.item \in Item /\ saved.cause \in Nat /\ saved.cause = saved.item.from
        BY <1>0, <4>1 DEF TypeOK, OfRequests
      <4>3. queue' = <<saved.item>> \o queue /\ causes' = <<saved.cause>> \o causes
        BY <3>3, <4>1 DEF HandleResult, push_front
      <4>4. queue \in Seq(Item) /\ causes \in Seq(Nat)
        BY DEF TypeOK
      <4> HIDE DEF saved
      <4>5. Aligned(queue', causes')
        <5>1. Len(queue') = Len(queue) + 1 /\ Len(causes') = Len(causes) + 1
          BY <4>2, <4>3, <4>4
        <5>2. \A i \in 1 .. Len(queue') :
                /\ queue'[i] = IF i = 1 THEN saved.item ELSE queue[i - 1]
                /\ causes'[i] = IF i = 1 THEN saved.cause ELSE causes[i - 1]
          BY <1>0, <4>2, <4>3, <4>4, <5>1 DEF Aligned
        <5>3. ASSUME NEW i \in 1 .. Len(queue'), i # 1
              PROVE  causes[i - 1] = queue[i - 1].from
          <6>1. Len(queue) \in Nat
            BY <4>4
          <6>2. i - 1 \in 1 .. Len(queue)
            BY <5>1, <5>3, <6>1
          <6>3. Aligned(queue, causes)
            BY <1>0
          <6>4. QED
            BY <6>2, <6>3 DEF Aligned
        <5>4. ASSUME NEW i \in 1 .. Len(queue')
              PROVE  causes'[i] = queue'[i].from
          <6>1. CASE i = 1
            BY <4>2, <5>2, <6>1
          <6>2. CASE i # 1
            BY <5>2, <5>3, <6>2
          <6>3. QED
            BY <6>1, <6>2
        <5>5. Len(causes') = Len(queue')
          BY <1>0, <5>1 DEF Aligned
        <5>6. QED
          BY <5>4, <5>5 DEF Aligned
      <4>6. QED
        BY <2>1, <3>1, <4>5, CausesFromParts
    <3>4. QED
      BY <2>4, <3>2, <3>3
  <2>5. QED
    BY <1>3, <2>2, <2>3, <2>4 DEF Receive
<1>4. CASE ExecInstruction
  <2>1. UNCHANGED budget /\ queue # <<>>
    BY <1>4 DEF ExecInstruction, CanExec, inputs
  <2>2. PICK res \in Outcomes :
          \/ ExecState(res) \/ ExecOverflow(res) \/ ExecIgnored(res) \/ ExecHalted(res)
          \/ ExecUnknownIo(res) \/ ExecErr(res) \/ ExecIoRequired(res)
    BY <1>4 DEF ExecInstruction
  <2>3. CASE ExecState(res)
    BY <1>0, <2>1, <2>3, RebuiltAligned, CausesFromParts DEF ExecState, pending
  <2>4. CASE ExecOverflow(res)
    BY <1>0, <2>1, <2>4, CausesFromParts DEF ExecOverflow, clear_queue, pending, Aligned
  <2>5. CASE ExecIgnored(res) \/ ExecHalted(res) \/ ExecUnknownIo(res) \/ ExecErr(res)
    <3>1. Drop
      BY <2>5 DEF ExecIgnored, ExecHalted, ExecUnknownIo, ExecErr
    <3>2. QED
      BY <1>0, <2>1, <3>1, PopAligned, CausesFromParts DEF Drop, pending
  <2>6. CASE ExecIoRequired(res)
    <3>1. Aligned(queue', causes')
      BY <2>1, <2>6, PopAligned DEF ExecIoRequired
    <3>2. Saved(pending_io_instructions')
      BY <1>0, <2>1, <2>6, PopAligned DEF ExecIoRequired, save_io_instruction
    <3>3. QED
      BY <2>1, <3>1, <3>2, CausesFromParts
  <2>7. QED
    BY <2>2, <2>3, <2>4, <2>5, <2>6
<1>5. CASE SweepRequest
  <2>1. PICK r \in sweep : force_remove_io_request(r)
    BY <1>5 DEF SweepRequest
  <2>2. r \in DOMAIN pending_requests
    BY DEF PendingConsistent
  <2>3. DOMAIN pending_io_instructions' = {}
    BY <2>1, <2>2, CompletePending DEF force_remove_io_request
  <2>4. UNCHANGED <<work, budget>>
    BY <1>5 DEF SweepRequest, inputs
  <2>5. QED
    BY <1>0, <2>3, <2>4, CausesFromParts DEF work
<1>6. CASE ExecMaxRounds
  BY <1>0, <1>6, CausesFromParts DEF ExecMaxRounds, clear_queue, pending, inputs, Aligned
<1>7. CASE DrainFact \/ AwaitFact
  BY <1>3, <1>7 DEF DrainFact, AwaitFact
<1>8. CASE \/ HeadInterrupt \/ HeadCancel \/ HeadDrain \/ SweepDone \/ DrainClosed
           \/ DrainStable \/ DrainDone \/ AwaitClosed \/ AwaitTimeout \/ ExecDone
           \/ Tick \/ UNCHANGED vars
  <2>1. UNCHANGED <<work, pending_io_instructions, budget>>
    BY <1>8 DEF HeadInterrupt, HeadCancel, HeadDrain, SweepDone, DrainClosed, DrainStable,
                DrainDone, AwaitClosed, AwaitTimeout, Stop, ExecDone, Tick, vars, pending,
                inputs
  <2>2. QED
    BY <1>2, <2>1
<1>9. CASE SendCommand \/ SendPayloadUpdate \/ SendIoResponse
  <2>1. PICK e \in {"command", "update", "response"} : \E f : Send(e, f)
    BY <1>9 DEF SendCommand, SendPayloadUpdate, SendIoResponse
  <2>2. UNCHANGED <<work, pending_io_instructions>> /\ Spend(e) /\ e \in Events
    BY <2>1 DEF Send, reactor, pending, Events
  <2>3. QED
    BY <1>1, <1>2, <2>2
<1>10. CASE Interrupt \/ CancelAll \/ CloseChannel
  <2>1. UNCHANGED <<work, pending_io_instructions>>
    BY <1>10 DEF Interrupt, CancelAll, CloseChannel, reactor, pending
  <2>2. Spend("interrupt") \/ Spend("cancel") \/ Spend("close")
    BY <1>10 DEF Interrupt, CancelAll, CloseChannel
  <2>3. QED
    BY <1>1, <1>2, <2>1, <2>2 DEF Events
<1>11. CASE Restart
  BY <1>1, <1>11 DEF Restart, Events
<1>12. QED
  BY <1>4, <1>5, <1>6, <1>7, <1>8, <1>9, <1>10, <1>11 DEF Next, ReactorStep, Environment

(* In a session that is never restarted every queued or suspended           *)
(* instruction carries the Command it descends from as its cause, through   *)
(* every push, suspension, resumption, drop and overflow                    *)
(* (instruction_causes and update_queue_with_causes).                       *)
THEOREM CausesAreOrigins ==
    ASSUME Budget["restart"] = 0
    PROVE  Spec => []CausesTrackOrigin
<1>1. Init => CausesTrackOrigin /\ budget["restart"] = 0
  BY DEF Init, CausesTrackOrigin
<1>2. TypeOK /\ PendingConsistent /\ (CausesTrackOrigin /\ budget["restart"] = 0) /\ [Next]_vars
      => (CausesTrackOrigin /\ budget["restart"] = 0)'
  BY CausesStep
<1>3. QED
  BY <1>1, <1>2, TypeCorrect, PendingIsConsistent, PTL DEF Spec

-----------------------------------------------------------------------------
(* The escalation of emit_fact, in one write: whatever the state before it, *)
(* a write leaves the failures exhausted only with the flag raised.         *)
LEMMA WriteEscalates ==
    ASSUME NEW b \in ChainState, NEW f \in Fact, NEW ok \in BOOLEAN,
           AppendTo(b, f, ok).fails = WalFailThreshold
    PROVE  AppendTo(b, f, ok).irq
<1>1. b.fails \in 0 .. WalFailThreshold /\ WalFailThreshold \in Nat \ {0}
  BY ReactorAssumption DEF ChainState
<1>2. AppendTo(b, f, ok).fails = IF ok THEN 0 ELSE Saturate(b.fails + 1)
  BY DEF AppendTo
<1>3. ~ok
  BY <1>1, <1>2
<1>4. b.fails + 1 >= WalFailThreshold
  BY <1>1, <1>2, <1>3 DEF Saturate
<1>5. QED
  BY <1>3, <1>4 DEF AppendTo

LEMMA EmitEscalates ==
    ASSUME TypeOK, NEW f \in Fact, Emit(f)
    PROVE  ExhaustionKeepsFlag'
<1>1. PICK ok \in WalOutcomes : SetChain(AppendTo(Chain(interrupt), f, ok))
  BY DEF Emit
<1>2. ok \in BOOLEAN /\ Chain(interrupt) \in ChainState
  BY ReactorAssumption, ChainType DEF TypeOK
<1>3. QED
  BY <1>1, <1>2, WriteEscalates DEF SetChain, ExhaustionKeepsFlag

LEMMA EmitBothEscalates ==
    ASSUME TypeOK, NEW f \in Fact, NEW g \in Fact, NEW irq \in BOOLEAN,
           EmitBoth(f, g, irq)
    PROVE  ExhaustionKeepsFlag'
<1>1. PICK ok1 \in WalOutcomes, ok2 \in WalOutcomes :
        SetChain(AppendTo(AppendTo(Chain(irq), f, ok1), g, ok2))
  BY DEF EmitBoth
<1>2. ok1 \in BOOLEAN /\ ok2 \in BOOLEAN /\ Chain(irq) \in ChainState
  BY ReactorAssumption, ChainType
<1>3. AppendTo(Chain(irq), f, ok1) \in ChainState
  BY <1>2, AppendToType
<1>4. QED
  BY <1>1, <1>2, <1>3, WriteEscalates DEF SetChain, ExhaustionKeepsFlag

(* How a step of the reactor touches the chain: not at all, or with one or  *)
(* two facts written one after the other, the flag lowered first when it is *)
(* the interrupt that is handled.                                           *)
ChainStep ==
    \/ UNCHANGED chain
    \/ \E f \in Fact : Emit(f)
    \/ \E f, g \in Fact, irq \in BOOLEAN : EmitBoth(f, g, irq)

LEMMA ReceiveOnChain ==
    ASSUME TypeOK, NEW next, Receive(next)
    PROVE  ChainStep
<1> DEFINE f == Head(chan)
<1>1. f \in Fact /\ ErrorFact \in Fact /\ interrupt \in BOOLEAN
  BY FactsAreFacts DEF Receive, TypeOK
<1>2. Emit(f) \/ EmitBoth(f, ErrorFact, interrupt)
  BY DEF Receive, HandleCommand, HandleUpdate, HandleRejectedUpdate, HandleStaleResponse,
         HandleEmptyResponse, HandleRefusedResult, HandleResult
<1>3. QED
  BY <1>1, <1>2 DEF ChainStep

LEMMA ExecOnChain ==
    ASSUME TypeOK, ExecInstruction
    PROVE  ChainStep
<1>1. queue # <<>>
  BY DEF ExecInstruction, CanExec
<1>2. PICK res \in Outcomes :
        \/ ExecState(res) \/ ExecOverflow(res) \/ ExecIgnored(res) \/ ExecHalted(res)
        \/ ExecUnknownIo(res) \/ ExecErr(res) \/ ExecIoRequired(res)
  BY DEF ExecInstruction
<1>3. /\ PoppedCause \in Nat /\ res.data \in Data /\ NewQueue(res) \in Seq(Item)
      /\ version \in Nat /\ next_request \in Nat /\ interrupt \in BOOLEAN
  BY <1>1, PopType, OutcomeType DEF TypeOK, Result
<1>4. /\ TransitionFact(PoppedCause, res.data, NewQueue(res)) \in Fact
      /\ ErrorFact \in Fact /\ TraceFact \in Fact /\ StableFact(version) \in Fact
      /\ ViolationFact(PoppedCause) \in Fact /\ IoRequestFact(next_request, PoppedCause) \in Fact
  BY <1>3, FactsAreFacts
<1>5. CASE ExecState(res) \/ ExecOverflow(res) \/ ExecIgnored(res)
  BY <1>3, <1>4, <1>5 DEF ExecState, ExecOverflow, ExecIgnored, ChainStep
<1>6. CASE ExecHalted(res) \/ ExecUnknownIo(res) \/ ExecErr(res) \/ ExecIoRequired(res)
  BY <1>4, <1>6 DEF ExecHalted, ExecUnknownIo, ExecErr, ExecIoRequired, ChainStep
<1>7. QED
  BY <1>2, <1>5, <1>6

LEMMA ReactorOnChain ==
    ASSUME TypeOK, ReactorStep
    PROVE  ChainStep
<1>1. version \in Nat /\ interrupt \in BOOLEAN /\ ErrorFact \in Fact /\ StableFact(version) \in Fact
  BY FactsAreFacts DEF TypeOK
<1>2. CASE HeadInterrupt \/ ExecMaxRounds \/ DrainStable \/ SweepRequest
  BY <1>1, <1>2 DEF HeadInterrupt, ExecMaxRounds, DrainStable, SweepRequest, ChainStep
<1>3. CASE DrainFact \/ AwaitFact
  BY <1>3, ReceiveOnChain DEF DrainFact, AwaitFact
<1>4. CASE ExecInstruction
  BY <1>4, ExecOnChain
<1>5. CASE \/ HeadCancel \/ HeadDrain \/ SweepDone \/ DrainClosed \/ DrainDone
           \/ AwaitClosed \/ AwaitTimeout \/ ExecDone
  BY <1>5 DEF HeadCancel, HeadDrain, SweepDone, DrainClosed, DrainDone, AwaitClosed,
              AwaitTimeout, ExecDone, Stop, ChainStep
<1>6. QED
  BY <1>2, <1>3, <1>4, <1>5 DEF ReactorStep

LEMMA ExhaustionStep ==
    ASSUME TypeOK, ExhaustionKeepsFlag, [Next]_vars
    PROVE  ExhaustionKeepsFlag'
<1>1. CASE UNCHANGED chain
  BY <1>1 DEF chain, ExhaustionKeepsFlag
<1>2. CASE ReactorStep
  BY <1>1, <1>2, ReactorOnChain, EmitEscalates, EmitBothEscalates DEF ChainStep
<1>3. CASE Interrupt
  BY <1>3 DEF Interrupt, ExhaustionKeepsFlag
<1>4. CASE Restart
  BY <1>4, ReactorAssumption DEF Restart, ExhaustionKeepsFlag
<1>5. CASE \/ SendCommand \/ SendPayloadUpdate \/ SendIoResponse \/ CancelAll
           \/ CloseChannel \/ Tick \/ UNCHANGED vars
  <2>1. UNCHANGED chain
    BY <1>5 DEF SendCommand, SendPayloadUpdate, SendIoResponse, Send, CancelAll,
                CloseChannel, Tick, reactor, vars
  <2>2. QED
    BY <1>1, <2>1
<1>6. QED
  BY <1>2, <1>3, <1>4, <1>5 DEF Next, Environment

(* However the writes fail, from the threshold on the session stands        *)
(* interrupted: handling the interrupt lowers the flag and writes two       *)
(* facts, and unless one of them succeeds the second raises it again        *)
(* (emit_fact and the interrupt branch of run).                             *)
THEOREM ExhaustedMeansInterrupted == Spec => []ExhaustionKeepsFlag
<1>1. Init => ExhaustionKeepsFlag
  BY ReactorAssumption DEF Init, ExhaustionKeepsFlag
<1>2. TypeOK /\ ExhaustionKeepsFlag /\ [Next]_vars => ExhaustionKeepsFlag'
  BY ExhaustionStep
<1>3. QED
  BY <1>1, <1>2, TypeCorrect, PTL DEF Spec

-----------------------------------------------------------------------------
(* What the payload and the chain say of each other, with what a restart    *)
(* needs: a chain that counts nothing holds the payload of a new session.   *)
Mirror ==
    /\ LogMirrorsPayload
    /\ log.version = 0 => log.data = InitData

(* No payload change without a version, on either side. *)
Versioned == data' # data => version' = version + 1 /\ log'.version = log.version + 1

(* The facts that leave the materialised payload and the version alone. *)
Quiet(f) == f.type \notin {"StateTransition", "IoResponse", "PayloadUpdate"}

LEMMA QuietAppend ==
    ASSUME NEW L, NEW f, Quiet(f)
    PROVE  LogAppend(L, f).data = L.data /\ LogAppend(L, f).version = L.version
BY DEF Quiet, LogAppend, Advances

LEMMA QuietFacts ==
    /\ Quiet(ErrorFact) /\ Quiet(TraceFact)
    /\ \A v \in Nat : Quiet(StableFact(v)) /\ Quiet(ViolationFact(v))
    /\ \A r, c \in Nat : Quiet(IoRequestFact(r, c))
BY DEF Quiet, ErrorFact, TraceFact, StableFact, ViolationFact, IoRequestFact

(* With a healthy WAL every fact reaches the chain. *)
LEMMA HealthyEmit ==
    ASSUME WalOutcomes = {TRUE}, NEW f, Emit(f)
    PROVE  log' = LogAppend(log, f)
BY DEF Emit, SetChain, AppendTo, Chain

LEMMA HealthyEmitBoth ==
    ASSUME WalOutcomes = {TRUE}, NEW f, NEW g, NEW irq, EmitBoth(f, g, irq)
    PROVE  log' = LogAppend(LogAppend(log, f), g)
BY DEF EmitBoth, SetChain, AppendTo, Chain

(* The three ways a step moves payload, version and chain. *)
Still == UNCHANGED <<data, version>> /\ log'.data = log.data /\ log'.version = log.version

Counted == UNCHANGED <<data, version>> /\ log'.data = log.data /\ log'.version = log.version + 1

Advanced == version' = version + 1 /\ log'.data = data' /\ log'.version = log.version + 1

LEMMA MirrorKept ==
    ASSUME TypeOK, Mirror, Still \/ Counted \/ Advanced
    PROVE  Mirror' /\ Versioned
<1>1. version \in Nat /\ log.version \in Nat
  BY DEF TypeOK, Log
<1>2. log.data = data /\ version <= log.version /\ (log.version = 0 => log.data = InitData)
  BY DEF Mirror, LogMirrorsPayload
<1>3. CASE Still
  BY <1>1, <1>2, <1>3 DEF Still, Mirror, LogMirrorsPayload, Versioned
<1>4. CASE Counted
  BY <1>1, <1>2, <1>4 DEF Counted, Mirror, LogMirrorsPayload, Versioned
<1>5. CASE Advanced
  BY <1>1, <1>2, <1>5 DEF Advanced, Mirror, LogMirrorsPayload, Versioned
<1>6. QED
  BY <1>3, <1>4, <1>5

LEMMA ReceiveMirrors ==
    ASSUME TypeOK, Mirror, WalOutcomes = {TRUE}, NEW next, Receive(next)
    PROVE  Still \/ Counted \/ Advanced
<1> DEFINE f == Head(chan)
<1>1. f \in Fact /\ log.data = data
  BY DEF Receive, TypeOK, Mirror, LogMirrorsPayload
<1>2. CASE HandleCommand(f, next)
  <2>1. log' = LogAppend(log, f) /\ Quiet(f)
    BY <1>2, HealthyEmit DEF HandleCommand, Quiet
  <2>2. QED
    BY <1>2, <2>1, QuietAppend DEF HandleCommand, payload, Still
<1>3. CASE HandleUpdate(f, next)
  <2>1. log' = LogAppend(log, f)
    BY <1>3, HealthyEmit DEF HandleUpdate
  <2>2. /\ f.type = "PayloadUpdate" /\ data' = UpdatePayload(f.update, data)
        /\ UpdatePayload(f.update, data) # Rejected /\ version' = version + 1
    BY <1>3 DEF HandleUpdate, bump_version
  <2>3. QED
    BY <1>1, <2>1, <2>2 DEF LogAppend, Advances, PatchSnapshot, Advanced
<1>4. CASE HandleRejectedUpdate(f)
  <2>1. log' = LogAppend(log, f)
    BY <1>4, HealthyEmit DEF HandleRejectedUpdate
  <2>2. /\ f.type = "PayloadUpdate" /\ UpdatePayload(f.update, data) = Rejected
        /\ UNCHANGED <<data, version>>
    BY <1>4 DEF HandleRejectedUpdate, payload
  <2>3. QED
    BY <1>1, <2>1, <2>2 DEF LogAppend, Advances, PatchSnapshot, Counted
<1>5. CASE HandleStaleResponse(f, next)
  <2>1. log' = LogAppend(LogAppend(log, f), ErrorFact)
    BY <1>5, HealthyEmitBoth DEF HandleStaleResponse
  <2>2. log'.data = LogAppend(log, f).data /\ log'.version = LogAppend(log, f).version
    BY <2>1, QuietAppend, QuietFacts
  <2>3. f.type = "IoResponse" /\ UNCHANGED <<data, version>>
    BY <1>5 DEF HandleStaleResponse, payload
  <2>4. QED
    BY <1>1, <2>2, <2>3 DEF LogAppend, Advances, Counted
<1>6. CASE HandleEmptyResponse(f, next) \/ HandleResult(f, next)
  <2>1. log' = LogAppend(log, f)
    BY <1>6, HealthyEmit DEF HandleEmptyResponse, HandleResult
  <2>2. f.type = "IoResponse" /\ data' = data /\ version' = version + 1
    BY <1>6 DEF HandleEmptyResponse, HandleResult, bump_version
  <2>3. QED
    BY <1>1, <2>1, <2>2 DEF LogAppend, Advances, Advanced
<1>7. CASE HandleRefusedResult(f)
  <2>1. log' = LogAppend(log, f)
    BY <1>7, HealthyEmit DEF HandleRefusedResult
  <2>2. f.type = "IoResponse" /\ UNCHANGED <<data, version>>
    BY <1>7 DEF HandleRefusedResult, payload
  <2>3. QED
    BY <1>1, <2>1, <2>2 DEF LogAppend, Advances, Counted
<1>8. QED
  BY <1>2, <1>3, <1>4, <1>5, <1>6, <1>7 DEF Receive

LEMMA ExecMirrors ==
    ASSUME TypeOK, WalOutcomes = {TRUE}, MaxQueueLen = 0, ExecInstruction
    PROVE  Still \/ Advanced
<1>1. queue # <<>>
  BY DEF ExecInstruction, CanExec
<1>2. PICK res \in Outcomes :
        \/ ExecState(res) \/ ExecOverflow(res) \/ ExecIgnored(res) \/ ExecHalted(res)
        \/ ExecUnknownIo(res) \/ ExecErr(res) \/ ExecIoRequired(res)
  BY DEF ExecInstruction
<1>3. PoppedCause \in Nat /\ next_request \in Nat
  BY <1>1, PopType DEF TypeOK
<1>4. CASE ExecState(res)
  <2> DEFINE f == TransitionFact(PoppedCause, res.data, NewQueue(res))
  <2>1. log' = LogAppend(LogAppend(log, f), TraceFact)
    BY <1>4, HealthyEmitBoth DEF ExecState
  <2>2. log'.data = LogAppend(log, f).data /\ log'.version = LogAppend(log, f).version
    BY <2>1, QuietAppend, QuietFacts
  <2>3. f.type = "StateTransition" /\ f.data = res.data
    BY DEF TransitionFact
  <2>4. data' = res.data /\ version' = version + 1
    BY <1>4 DEF ExecState, bump_version
  <2> HIDE DEF f
  <2>5. QED
    BY <2>2, <2>3, <2>4 DEF LogAppend, Advances, Advanced
<1>5. CASE ExecIgnored(res)
  <2>1. log' = LogAppend(LogAppend(log, ErrorFact), TraceFact)
    BY <1>5, HealthyEmitBoth DEF ExecIgnored
  <2>2. QED
    BY <1>5, <2>1, QuietAppend, QuietFacts DEF ExecIgnored, Drop, payload, Still
<1>6. CASE ExecHalted(res)
  <2>1. log' = LogAppend(log, ViolationFact(PoppedCause))
    BY <1>6, HealthyEmit DEF ExecHalted
  <2>2. QED
    BY <1>3, <1>6, <2>1, QuietAppend, QuietFacts DEF ExecHalted, Drop, payload, Still
<1>7. CASE ExecUnknownIo(res) \/ ExecErr(res)
  <2>1. log' = LogAppend(log, ErrorFact) /\ Drop
    BY <1>7, HealthyEmit DEF ExecUnknownIo, ExecErr
  <2>2. QED
    BY <2>1, QuietAppend, QuietFacts DEF Drop, payload, Still
<1>8. CASE ExecIoRequired(res)
  <2>1. log' = LogAppend(log, IoRequestFact(next_request, PoppedCause))
    BY <1>8, HealthyEmit DEF ExecIoRequired
  <2>2. QED
    BY <1>3, <1>8, <2>1, QuietAppend, QuietFacts DEF ExecIoRequired, payload, Still
<1>9. ~ExecOverflow(res)
  BY DEF ExecOverflow, Overflows
<1>10. QED
  BY <1>2, <1>4, <1>5, <1>6, <1>7, <1>8, <1>9

LEMMA MirrorStep ==
    ASSUME TypeOK, Mirror, WalOutcomes = {TRUE}, MaxQueueLen = 0, [Next]_vars
    PROVE  Mirror' /\ Versioned
<1>1. version \in Nat
  BY DEF TypeOK
<1>2. CASE HeadInterrupt \/ ExecMaxRounds
  <2>1. log' = LogAppend(LogAppend(log, ErrorFact), StableFact(version))
    BY <1>2, HealthyEmitBoth DEF HeadInterrupt, ExecMaxRounds
  <2>2. Still
    BY <1>1, <1>2, <2>1, QuietAppend, QuietFacts, ZenonT(60)
      DEF HeadInterrupt, ExecMaxRounds, payload, Still
  <2>3. QED
    BY <2>2, MirrorKept
<1>3. CASE SweepRequest
  <2>1. log' = LogAppend(log, ErrorFact)
    BY <1>3, HealthyEmit DEF SweepRequest
  <2>2. Still
    BY <1>3, <2>1, QuietAppend, QuietFacts DEF SweepRequest, payload, Still
  <2>3. QED
    BY <2>2, MirrorKept
<1>4. CASE DrainStable
  <2>1. log' = LogAppend(log, StableFact(version))
    BY <1>4, HealthyEmit DEF DrainStable
  <2>2. Still
    BY <1>1, <1>4, <2>1, QuietAppend, QuietFacts DEF DrainStable, payload, Still
  <2>3. QED
    BY <2>2, MirrorKept
<1>5. CASE DrainFact \/ AwaitFact
  BY <1>5, ReceiveMirrors, MirrorKept DEF DrainFact, AwaitFact
<1>6. CASE ExecInstruction
  BY <1>6, ExecMirrors, MirrorKept
<1>7. CASE Restart
  <2>1. log' = log /\ log.version \in Nat /\ log.data = data
    BY <1>7 DEF Restart, TypeOK, Log, Mirror, LogMirrorsPayload
  <2>2. data' = data
    BY <1>7, <2>1 DEF Restart, SeedPayload, Mirror
  <2>3. version' <= log.version
    BY <1>7, <2>1 DEF Restart
  <2>4. QED
    BY <2>1, <2>2, <2>3 DEF Mirror, LogMirrorsPayload, Versioned
<1>8. CASE \/ HeadCancel \/ HeadDrain \/ SweepDone \/ DrainClosed \/ DrainDone \/ AwaitClosed
           \/ AwaitTimeout \/ ExecDone \/ SendCommand \/ SendPayloadUpdate \/ SendIoResponse
           \/ Interrupt \/ CancelAll \/ CloseChannel \/ Tick \/ UNCHANGED vars
  <2>1. UNCHANGED <<data, version, log>>
    BY <1>8 DEF HeadCancel, HeadDrain, SweepDone, DrainClosed, DrainDone, AwaitClosed,
                AwaitTimeout, ExecDone, Stop, SendCommand, SendPayloadUpdate, SendIoResponse,
                Send, Interrupt, CancelAll, CloseChannel, Tick, reactor, vars, chain, payload
  <2>2. QED
    BY <2>1, MirrorKept DEF Still
<1>9. QED
  BY <1>2, <1>3, <1>4, <1>5, <1>6, <1>7, <1>8 DEF Next, ReactorStep, Environment

LEMMA MirrorHolds ==
    ASSUME WalOutcomes = {TRUE}, MaxQueueLen = 0
    PROVE  Spec => []Mirror
<1>1. Init => Mirror
  BY DEF Init, Mirror, LogMirrorsPayload, EmptyLog
<1>2. TypeOK /\ Mirror /\ [Next]_vars => Mirror'
  BY MirrorStep
<1>3. QED
  BY <1>1, <1>2, TypeCorrect, PTL DEF Spec

(* While the writes succeed and the queue has no limit, the payload the     *)
(* rules run on is the one the chain materialises, through rejected         *)
(* updates, stale responses, interrupts and restarts (apply_fact_to_state   *)
(* against update_payload and the State branch of run).                     *)
THEOREM ChainMirrorsPayload ==
    ASSUME WalOutcomes = {TRUE}, MaxQueueLen = 0
    PROVE  Spec => []LogMirrorsPayload
<1>1. Mirror => LogMirrorsPayload
  BY DEF Mirror
<1>2. QED
  BY <1>1, MirrorHolds, PTL

(* Under the same conditions no step changes the payload without advancing  *)
(* the reactor's version and the chain's, each by one.                      *)
THEOREM PayloadChangesAreVersioned ==
    ASSUME WalOutcomes = {TRUE}, MaxQueueLen = 0
    PROVE  Spec => ChangesAreVersioned
<1>1. TypeOK /\ Mirror /\ [Next]_vars => [Versioned]_vars
  BY MirrorStep
<1>2. QED
  BY <1>1, TypeCorrect, MirrorHolds, PTL DEF Spec, ChangesAreVersioned, Versioned

-----------------------------------------------------------------------------
(* Positions of the transitions and of the commands in a history. *)
Trans(h) == {k \in DOMAIN h : h[k].type = "StateTransition"}
Cmds(h)  == {k \in DOMAIN h : h[k].type = "Command"}

(* The commands sent so far. *)
Sent == Budget["command"] - budget["command"]

(* Instructions are executed in the order of their commands: the queue is   *)
(* in that order, what waits for I/O comes before what is queued, and the   *)
(* transitions of the chain come before both.                               *)
InCommandOrder ==
    /\ \A i, j \in 1 .. Len(queue) : i <= j => queue[i].from <= queue[j].from
    /\ \A r \in DOMAIN pending_io_instructions, i \in 1 .. Len(queue) :
          pending_io_instructions[r].item.from <= queue[i].from
    /\ \A k \in Trans(log.facts), i \in 1 .. Len(queue) :
          log.facts[k].cause <= queue[i].from
    /\ \A k \in Trans(log.facts), r \in DOMAIN pending_io_instructions :
          log.facts[k].cause <= pending_io_instructions[r].item.from
    /\ \A j, k \in Trans(log.facts) : j < k => log.facts[j].cause <= log.facts[k].cause

(* The commands the reactor has taken from the channel. *)
Taken(c) ==
    \/ \E i \in 1 .. Len(queue) : queue[i].from = c
    \/ \E r \in DOMAIN pending_io_instructions : pending_io_instructions[r].item.from = c
    \/ \E k \in Trans(log.facts) : log.facts[k].cause = c
    \/ \E k \in Cmds(log.facts) : log.facts[k].id = c

(* Commands travel in the order they are sent, each once. *)
ChannelInOrder ==
    /\ \A c \in Nat : Taken(c) => c <= Sent
    /\ \A i \in 1 .. Len(chan) : chan[i].type = "Command" => chan[i].id <= Sent
    /\ \A i, j \in 1 .. Len(chan) :
          chan[i].type = "Command" /\ chan[j].type = "Command" /\ i < j
          => chan[i].id < chan[j].id
    /\ \A c \in Nat, i \in 1 .. Len(chan) :
          Taken(c) /\ chan[i].type = "Command" => c < chan[i].id

(* A command of the chain that expands into no others is in one place: once *)
(* on the queue, or suspended, or applied.                                  *)
OnChain(f) == \E k \in DOMAIN log.facts : log.facts[k] = f

OnePlace(f) ==
    /\ \A i, j \in 1 .. Len(queue) : queue[i].from = f.id /\ queue[j].from = f.id => i = j
    /\ \A i \in 1 .. Len(queue) : queue[i].from = f.id =>
          /\ queue[i].instr = f.instr
          /\ \A r \in DOMAIN pending_io_instructions :
                pending_io_instructions[r].item.from # f.id
          /\ \A t \in Trans(log.facts) : log.facts[t].cause # f.id
    /\ \A r \in DOMAIN pending_io_instructions :
          pending_io_instructions[r].item.from = f.id =>
          /\ pending_io_instructions[r].item.instr = f.instr
          /\ \A t \in Trans(log.facts) : log.facts[t].cause # f.id
    /\ \A s, t \in Trans(log.facts) :
          log.facts[s].cause = f.id /\ log.facts[t].cause = f.id => s = t

LeafInOnePlace ==
    \A f \in Fact : f.type = "Command" /\ Leaf(f.instr) /\ OnChain(f) => OnePlace(f)

(* A step in which the queue and the suspended instructions only lose       *)
(* elements at the front, the channel too, and the chain gains no command   *)
(* and no transition.                                                       *)
Shorter(p, q) ==
    \E d \in Nat : \A i \in 1 .. Len(p) : i + d \in 1 .. Len(q) /\ p[i] = q[i + d]

PlainGrowth(h, g) == \A k \in Trans(g) \cup Cmds(g) : k \in DOMAIN h /\ g[k] = h[k]

(* The history gains f, and perhaps facts of other kinds. *)
GrowthBy(h, g, f) ==
    \A k \in Trans(g) \cup Cmds(g) :
        (k \in DOMAIN h /\ g[k] = h[k]) \/ (k = Len(h) + 1 /\ g[k] = f)

Plain(f) == f.type \notin {"StateTransition", "Command"}

LEMMA PlainFacts ==
    /\ Plain(ErrorFact) /\ Plain(TraceFact)
    /\ \A v \in Nat : Plain(StableFact(v)) /\ Plain(ViolationFact(v))
    /\ \A r, c \in Nat : Plain(IoRequestFact(r, c))
BY DEF Plain, ErrorFact, TraceFact, StableFact, ViolationFact, IoRequestFact

LEMMA AppendGrows ==
    ASSUME NEW h \in Seq(Fact), NEW f \in Fact
    PROVE  /\ GrowthBy(h, Append(h, f), f)
           /\ Plain(f) => PlainGrowth(h, Append(h, f))
<1>1. DOMAIN Append(h, f) = 1 .. Len(h) + 1 /\ DOMAIN h = 1 .. Len(h)
  OBVIOUS
<1>2. \A k \in 1 .. Len(h) + 1 : IF k = Len(h) + 1 THEN Append(h, f)[k] = f
                                 ELSE k \in 1 .. Len(h) /\ Append(h, f)[k] = h[k]
  OBVIOUS
<1>3. QED
  BY <1>1, <1>2 DEF GrowthBy, PlainGrowth, Plain, Trans, Cmds

(* What emit_fact leaves on the chain. *)
LEMMA EmitHistory ==
    ASSUME TypeOK, NEW f \in Fact, Emit(f)
    PROVE  log'.facts = log.facts \/ log'.facts = Append(log.facts, f)
BY DEF Emit, SetChain, AppendTo, Chain, LogAppend

LEMMA EmitBothHistory ==
    ASSUME TypeOK, NEW f \in Fact, NEW g \in Fact, NEW irq, EmitBoth(f, g, irq)
    PROVE  \E h : /\ h = log.facts \/ h = Append(log.facts, f)
                  /\ log'.facts = h \/ log'.facts = Append(h, g)
<1>1. PICK ok1 \in WalOutcomes, ok2 \in WalOutcomes :
        SetChain(AppendTo(AppendTo(Chain(irq), f, ok1), g, ok2))
  BY DEF EmitBoth
<1> DEFINE b == AppendTo(Chain(irq), f, ok1)
<1>2. b.log.facts = log.facts \/ b.log.facts = Append(log.facts, f)
  BY DEF AppendTo, Chain, LogAppend
<1>3. log' = AppendTo(b, g, ok2).log
  BY <1>1 DEF SetChain
<1> HIDE DEF b
<1>4. log'.facts = b.log.facts \/ log'.facts = Append(b.log.facts, g)
  BY <1>3 DEF AppendTo, LogAppend
<1>5. QED
  BY <1>2, <1>4

LEMMA PlainSame ==
    ASSUME NEW h
    PROVE  PlainGrowth(h, h) /\ \A f : GrowthBy(h, h, f)
BY DEF PlainGrowth, GrowthBy, Trans, Cmds

LEMMA PlainEmit ==
    ASSUME TypeOK, NEW f \in Fact, Plain(f), Emit(f)
    PROVE  PlainGrowth(log.facts, log'.facts)
<1>1. log.facts \in Seq(Fact)
  BY DEF TypeOK, Log
<1>2. QED
  BY <1>1, EmitHistory, AppendGrows, PlainSame

LEMMA PlainEmitBoth ==
    ASSUME TypeOK, NEW f \in Fact, NEW g \in Fact, NEW irq, EmitBoth(f, g, irq), Plain(g)
    PROVE  /\ GrowthBy(log.facts, log'.facts, f)
           /\ Plain(f) => PlainGrowth(log.facts, log'.facts)
<1>1. log.facts \in Seq(Fact)
  BY DEF TypeOK, Log
<1>2. PICK h : /\ h = log.facts \/ h = Append(log.facts, f)
               /\ log'.facts = h \/ log'.facts = Append(h, g)
  BY EmitBothHistory
<1>3. h \in Seq(Fact)
  BY <1>1, <1>2
<1>4. /\ GrowthBy(log.facts, h, f)
      /\ Plain(f) => PlainGrowth(log.facts, h)
  BY <1>1, <1>2, AppendGrows, PlainSame
<1>5. PlainGrowth(h, log'.facts)
  BY <1>2, <1>3, AppendGrows, PlainSame
<1>6. GrowthBy(log.facts, log'.facts, f)
  BY <1>4, <1>5 DEF GrowthBy, PlainGrowth, Trans, Cmds
<1>7. ASSUME Plain(f) PROVE PlainGrowth(log.facts, log'.facts)
  BY <1>4, <1>5, <1>7 DEF PlainGrowth, Trans, Cmds
<1>8. QED
  BY <1>6, <1>7

(* The numbers the invariants compare are numbers. *)
LEMMA NumberTypes ==
    ASSUME TypeOK
    PROVE  /\ queue \in Seq(Item) /\ \A i \in 1 .. Len(queue) : queue[i] \in Item /\ queue[i].from \in Nat
           /\ \A r \in DOMAIN pending_io_instructions :
                 /\ pending_io_instructions[r].item \in Item
                 /\ pending_io_instructions[r].item.from \in Nat
           /\ log.facts \in Seq(Fact)
           /\ \A k \in Trans(log.facts) : log.facts[k].cause \in Nat /\ k \in 1 .. Len(log.facts)
           /\ \A k \in Cmds(log.facts) : log.facts[k].id \in Nat /\ k \in 1 .. Len(log.facts)
           /\ chan \in Seq(Fact)
           /\ \A i \in 1 .. Len(chan) : chan[i].type = "Command" => chan[i].id \in Nat
           /\ Sent \in Nat
<1>1. queue \in Seq(Item) /\ \A i \in 1 .. Len(queue) : queue[i] \in Item /\ queue[i].from \in Nat
  <2>1. queue \in Seq(Item)
    BY DEF TypeOK
  <2>2. \A i \in 1 .. Len(queue) : queue[i] \in Item
    BY <2>1
  <2>3. \A x \in Item : x.from \in Nat
    BY DEF Item
  <2>4. QED
    BY <2>1, <2>2, <2>3
<1>2. \A r \in DOMAIN pending_io_instructions :
         /\ pending_io_instructions[r].item \in Item
         /\ pending_io_instructions[r].item.from \in Nat
  BY DEF TypeOK, OfRequests, Item
<1>3. log.facts \in Seq(Fact)
  BY DEF TypeOK, Log
<1>4. \A k \in DOMAIN log.facts : log.facts[k] \in Fact /\ k \in 1 .. Len(log.facts)
  BY <1>3
<1>5. \A f \in Fact : /\ f.type = "StateTransition" => f.cause \in Nat
                      /\ f.type = "Command" => f.id \in Nat
  BY DEF Fact
<1>6. chan \in Seq(Fact) /\ \A i \in 1 .. Len(chan) : chan[i] \in Fact
  BY DEF TypeOK
<1>7. Sent \in Nat
  <2>1. /\ budget["command"] \in Nat /\ Budget["command"] \in Nat
        /\ budget["command"] <= Budget["command"]
    BY ReactorAssumption DEF TypeOK, Events
  <2>2. QED
    BY <2>1 DEF Sent
<1>8. QED
  BY <1>1, <1>2, <1>3, <1>4, <1>5, <1>6, <1>7 DEF Trans, Cmds

(* The three parts of the invariant. *)
OneAtATime == InCommandOrder /\ ChannelInOrder /\ LeafInOnePlace

(* The channel may lose its oldest facts while the reactor takes nothing    *)
(* that it did not hold already.                                            *)
LEMMA ChannelKeeps ==
    ASSUME ChannelInOrder, Shorter(chan', chan), chan' \in Seq(Fact), Sent' = Sent,
           \A c : Taken(c)' => Taken(c)
    PROVE  ChannelInOrder'
<1>1. PICK e \in Nat : \A i \in 1 .. Len(chan') :
         i + e \in 1 .. Len(chan) /\ chan'[i] = chan[i + e]
  BY DEF Shorter
<1>2. Len(chan') \in Nat
  OBVIOUS
<1>3. \A c \in Nat : Taken(c)' => c <= Sent'
  BY DEF ChannelInOrder
<1>4. \A i \in 1 .. Len(chan') : chan'[i].type = "Command" => chan'[i].id <= Sent'
  BY <1>1 DEF ChannelInOrder
<1>5. ASSUME NEW i \in 1 .. Len(chan'), NEW j \in 1 .. Len(chan'),
             chan'[i].type = "Command", chan'[j].type = "Command", i < j
      PROVE  chan'[i].id < chan'[j].id
  <2>1. i + e < j + e
    BY <1>2, <1>5
  <2>2. QED
    BY <1>1, <1>5, <2>1 DEF ChannelInOrder
<1>6. \A c \in Nat, i \in 1 .. Len(chan') :
         Taken(c)' /\ chan'[i].type = "Command" => c < chan'[i].id
  BY <1>1 DEF ChannelInOrder
<1>7. QED
  BY <1>3, <1>4, <1>5, <1>6 DEF ChannelInOrder

(* Losing instructions and messages keeps the order. *)
LEMMA ShrinkKeeps ==
    ASSUME TypeOK, OneAtATime,
           Shorter(queue', queue), Shorter(chan', chan),
           \A r \in DOMAIN pending_io_instructions' :
               /\ r \in DOMAIN pending_io_instructions
               /\ pending_io_instructions'[r] = pending_io_instructions[r],
           PlainGrowth(log.facts, log'.facts),
           Sent' = Sent,
           queue' \in Seq(Item), chan' \in Seq(Fact)
    PROVE  OneAtATime'
<1>1. PICK d \in Nat : \A i \in 1 .. Len(queue') :
         i + d \in 1 .. Len(queue) /\ queue'[i] = queue[i + d]
  BY DEF Shorter
<1>3. /\ \A k \in Trans(log'.facts) : k \in Trans(log.facts) /\ log'.facts[k] = log.facts[k]
      /\ \A k \in Cmds(log'.facts) : k \in Cmds(log.facts) /\ log'.facts[k] = log.facts[k]
  BY DEF PlainGrowth, Trans, Cmds
<1>4. \A c : Taken(c)' => Taken(c)
  BY <1>1, <1>3, ZenonT(60) DEF Taken
<1>5. Len(queue') \in Nat
  OBVIOUS
<1>6. InCommandOrder'
  <2>1. ASSUME NEW i \in 1 .. Len(queue'), NEW j \in 1 .. Len(queue'), i <= j
        PROVE  queue'[i].from <= queue'[j].from
    <3>1. i + d <= j + d
      BY <1>5, <2>1
    <3>2. QED
      BY <1>1, <3>1 DEF OneAtATime, InCommandOrder
  <2>2. \A r \in DOMAIN pending_io_instructions', i \in 1 .. Len(queue') :
           pending_io_instructions'[r].item.from <= queue'[i].from
    BY <1>1 DEF OneAtATime, InCommandOrder
  <2>3. \A k \in Trans(log'.facts), i \in 1 .. Len(queue') :
           log'.facts[k].cause <= queue'[i].from
    BY <1>1, <1>3 DEF OneAtATime, InCommandOrder
  <2>4. /\ \A k \in Trans(log'.facts), r \in DOMAIN pending_io_instructions' :
              log'.facts[k].cause <= pending_io_instructions'[r].item.from
        /\ \A j, k \in Trans(log'.facts) : j < k => log'.facts[j].cause <= log'.facts[k].cause
    BY <1>3 DEF OneAtATime, InCommandOrder
  <2>5. QED
    BY <2>1, <2>2, <2>3, <2>4 DEF InCommandOrder
<1>7. ChannelInOrder'
  BY <1>4, ChannelKeeps DEF OneAtATime
<1>8. LeafInOnePlace'
  <2> SUFFICES ASSUME NEW f \in Fact, f.type = "Command", Leaf(f.instr), OnChain(f)'
               PROVE  OnePlace(f)'
    BY DEF LeafInOnePlace
  <2>1. OnChain(f)
    BY <1>3 DEF OnChain, Cmds
  <2>2. OnePlace(f)
    BY <2>1 DEF OneAtATime, LeafInOnePlace
  <2>3. ASSUME NEW i \in 1 .. Len(queue'), NEW j \in 1 .. Len(queue'),
               queue'[i].from = f.id, queue'[j].from = f.id
        PROVE  i = j
    <3>1. i + d = j + d
      BY <1>1, <2>2, <2>3 DEF OnePlace
    <3>2. QED
      BY <1>5, <3>1
  <2>4. ASSUME NEW i \in 1 .. Len(queue'), queue'[i].from = f.id
        PROVE  /\ queue'[i].instr = f.instr
               /\ \A r \in DOMAIN pending_io_instructions' :
                     pending_io_instructions'[r].item.from # f.id
               /\ \A t \in Trans(log'.facts) : log'.facts[t].cause # f.id
    BY <1>1, <1>3, <2>2, <2>4, SMTT(60) DEF OnePlace
  <2>5. ASSUME NEW r \in DOMAIN pending_io_instructions',
               pending_io_instructions'[r].item.from = f.id
        PROVE  /\ pending_io_instructions'[r].item.instr = f.instr
               /\ \A t \in Trans(log'.facts) : log'.facts[t].cause # f.id
    BY <1>3, <2>2, <2>5 DEF OnePlace
  <2>6. \A s, t \in Trans(log'.facts) :
           log'.facts[s].cause = f.id /\ log'.facts[t].cause = f.id => s = t
    BY <1>3, <2>2 DEF OnePlace
  <2>7. QED
    BY <2>3, <2>4, <2>5, <2>6 DEF OnePlace
<1>9. QED
  BY <1>6, <1>7, <1>8 DEF OneAtATime

(* Sending: a new command is numbered above all others. *)
LEMMA SendKeeps ==
    ASSUME TypeOK, OneAtATime, SendCommand \/ SendPayloadUpdate \/ SendIoResponse
    PROVE  OneAtATime'
<1>1. /\ Sent \in Nat /\ chan \in Seq(Fact)
      /\ \A i \in 1 .. Len(chan) : chan[i].type = "Command" => chan[i].id \in Nat
  BY NumberTypes
<1>2. UNCHANGED <<queue, pending_io_instructions, log>>
  BY DEF SendCommand, SendPayloadUpdate, SendIoResponse, Send, reactor, work, pending, chain
<1>3. PICK f \in Fact : /\ chan' = Append(chan, f)
                        /\ \/ f.type = "Command" /\ f.id = Sent + 1 /\ Sent' = Sent + 1
                           \/ f.type # "Command" /\ Sent' = Sent
  <2>1. budget \in [Events -> Nat] /\ Budget \in [Events -> Nat]
        /\ "command" \in Events /\ "update" \in Events /\ "response" \in Events
    BY ReactorAssumption DEF TypeOK, Events
  <2>2. CASE SendCommand
    <3>1. PICK i \in Instruction : Send("command", CommandFact(Sent + 1, i))
      BY <2>2 DEF SendCommand, Sent
    <3>2. CommandFact(Sent + 1, i) \in Fact
      <4>1. Sent + 1 \in Nat
        BY <1>1
      <4>2. QED
        BY <4>1, FactsAreFacts
    <3>3. Sent' = Sent + 1
      BY <2>1, <3>1 DEF Send, Spend, Sent
    <3>4. QED
      BY <3>1, <3>2, <3>3 DEF Send, CommandFact
  <2>3. CASE SendPayloadUpdate
    <3>1. PICK u \in Update : Send("update", PayloadUpdateFact(u))
      BY <2>3 DEF SendPayloadUpdate
    <3>2. PayloadUpdateFact(u) \in Fact
      BY FactsAreFacts
    <3>3. Sent' = Sent
      BY <2>1, <3>1 DEF Send, Spend, Sent
    <3>4. QED
      BY <3>1, <3>2, <3>3 DEF Send, PayloadUpdateFact
  <2>4. CASE SendIoResponse
    <3>1. PICK r \in 1 .. next_request - 1, ok \in BOOLEAN : Send("response", IoResponseFact(r, ok))
      BY <2>4 DEF SendIoResponse
    <3>2. IoResponseFact(r, ok) \in Fact
      BY FactsAreFacts DEF TypeOK
    <3>3. Sent' = Sent
      BY <2>1, <3>1 DEF Send, Spend, Sent
    <3>4. QED
      BY <3>1, <3>2, <3>3 DEF Send, IoResponseFact
  <2>5. QED
    BY <2>2, <2>3, <2>4
<1>4. InCommandOrder' /\ LeafInOnePlace'
  BY <1>2 DEF OneAtATime, InCommandOrder, LeafInOnePlace, OnChain, OnePlace, Trans
<1>5. \A c : Taken(c)' <=> Taken(c)
  BY <1>2 DEF Taken
<1>6. Len(chan') = Len(chan) + 1 /\ Len(chan) \in Nat
      /\ \A i \in 1 .. Len(chan') : IF i = Len(chan') THEN chan'[i] = f
                                    ELSE i \in 1 .. Len(chan) /\ chan'[i] = chan[i]
  BY <1>1, <1>3
<1>7. ChannelInOrder'
  <2>1. \A c \in Nat : Taken(c)' => c <= Sent'
    BY <1>1, <1>3, <1>5 DEF OneAtATime, ChannelInOrder
  <2>2. ASSUME NEW i \in 1 .. Len(chan'), chan'[i].type = "Command"
        PROVE  chan'[i].id <= Sent'
    <3>1. CASE i = Len(chan')
      BY <1>1, <1>3, <1>6, <2>2, <3>1
    <3>2. CASE i # Len(chan')
      <4>1. chan[i].id <= Sent /\ chan[i].id \in Nat /\ chan'[i] = chan[i]
        BY <1>1, <1>6, <2>2, <3>2 DEF OneAtATime, ChannelInOrder
      <4>2. QED
        BY <1>1, <1>3, <4>1
    <3>3. QED
      BY <3>1, <3>2
  <2>3. ASSUME NEW i \in 1 .. Len(chan'), NEW j \in 1 .. Len(chan'),
               chan'[i].type = "Command", chan'[j].type = "Command", i < j
        PROVE  chan'[i].id < chan'[j].id
    <3>1. i # Len(chan') /\ i \in 1 .. Len(chan) /\ chan'[i] = chan[i]
      BY <1>6, <2>3
    <3>2. chan[i].id <= Sent /\ chan[i].id \in Nat
      BY <1>1, <2>3, <3>1 DEF OneAtATime, ChannelInOrder
    <3>3. CASE j = Len(chan')
      BY <1>1, <1>3, <1>6, <2>3, <3>1, <3>2, <3>3
    <3>4. CASE j # Len(chan')
      BY <1>6, <2>3, <3>1, <3>4 DEF OneAtATime, ChannelInOrder
    <3>5. QED
      BY <3>3, <3>4
  <2>4. ASSUME NEW c \in Nat, NEW i \in 1 .. Len(chan'), Taken(c), chan'[i].type = "Command"
        PROVE  c < chan'[i].id
    <3>1. c <= Sent
      BY <2>4 DEF OneAtATime, ChannelInOrder
    <3>2. CASE i = Len(chan')
      BY <1>1, <1>3, <1>6, <2>4, <3>1, <3>2
    <3>3. CASE i # Len(chan')
      BY <1>6, <2>4, <3>3 DEF OneAtATime, ChannelInOrder
    <3>4. QED
      BY <3>2, <3>3
  <2>5. QED
    BY <1>5, <2>1, <2>2, <2>3, <2>4 DEF ChannelInOrder
<1>8. QED
  BY <1>4, <1>7 DEF OneAtATime

(* The command at the head of the channel goes to the back of the queue. *)
LEMMA CommandKeeps ==
    ASSUME TypeOK, OneAtATime, chan # <<>>, chan' = Tail(chan), Sent' = Sent,
           NEW next, HandleCommand(Head(chan), next)
    PROVE  OneAtATime'
<1> DEFINE f == Head(chan)
           item == [instr |-> f.instr, from |-> f.id]
<1>1. /\ queue \in Seq(Item) /\ \A i \in 1 .. Len(queue) : queue[i].from \in Nat
      /\ \A r \in DOMAIN pending_io_instructions : pending_io_instructions[r].item.from \in Nat
      /\ log.facts \in Seq(Fact) /\ \A k \in Trans(log.facts) : log.facts[k].cause \in Nat
      /\ \A k \in Cmds(log.facts) : log.facts[k].id \in Nat
      /\ chan \in Seq(Fact) /\ Sent \in Nat
      /\ \A i \in 1 .. Len(chan) : chan[i].type = "Command" => chan[i].id \in Nat
  BY NumberTypes
<1>2. f \in Fact /\ f.type = "Command" /\ f = chan[1] /\ 1 \in 1 .. Len(chan)
  BY <1>1 DEF HandleCommand
<1>3. f.id \in Nat /\ f.instr \in Instruction
  BY <1>2 DEF Fact
<1>4. queue' = Append(queue, item) /\ UNCHANGED pending_io_instructions
  BY DEF HandleCommand, push_back, pending
<1>5. GrowthBy(log.facts, log'.facts, f)
  BY <1>1, <1>2, EmitHistory, AppendGrows, PlainSame DEF HandleCommand
<1>6. item.from = f.id /\ item.instr = f.instr /\ item \in Item
  BY <1>3 DEF Item
<1> HIDE DEF item, f
<1>7. Len(queue') = Len(queue) + 1 /\ Len(queue) \in Nat
      /\ \A i \in 1 .. Len(queue') : IF i = Len(queue') THEN queue'[i] = item
                                     ELSE i \in 1 .. Len(queue) /\ queue'[i] = queue[i]
  BY <1>1, <1>4, <1>6
<1>8. \A k \in Trans(log'.facts) : k \in Trans(log.facts) /\ log'.facts[k] = log.facts[k]
  BY <1>2, <1>5 DEF GrowthBy, Trans
<1>9. \A k \in Cmds(log'.facts) :
        (k \in Cmds(log.facts) /\ log'.facts[k] = log.facts[k]) \/ log'.facts[k] = f
  BY <1>5 DEF GrowthBy, Cmds
<1>10. \A c \in Nat : Taken(c) => c < f.id
  BY <1>2 DEF OneAtATime, ChannelInOrder
<1>11. /\ \A i \in 1 .. Len(queue) : queue[i].from < f.id
       /\ \A r \in DOMAIN pending_io_instructions : pending_io_instructions[r].item.from < f.id
       /\ \A k \in Trans(log.facts) : log.facts[k].cause < f.id
       /\ \A k \in Cmds(log.facts) : log.facts[k].id < f.id
  BY <1>1, <1>10 DEF Taken
<1>12. \A c : Taken(c)' => Taken(c) \/ c = f.id
  BY <1>4, <1>6, <1>7, <1>8, <1>9 DEF Taken
<1>13. InCommandOrder'
  <2>1. ASSUME NEW i \in 1 .. Len(queue'), NEW j \in 1 .. Len(queue'), i <= j
        PROVE  queue'[i].from <= queue'[j].from
    <3>1. CASE j = Len(queue')
      <4>1. queue'[j].from = f.id
        BY <1>6, <1>7, <3>1
      <4>2. queue'[i].from = f.id \/ (queue'[i].from < f.id /\ queue'[i].from \in Nat)
        BY <1>1, <1>6, <1>7, <1>11
      <4>3. QED
        BY <1>3, <4>1, <4>2
    <3>2. CASE j # Len(queue')
      BY <1>7, <2>1, <3>2 DEF OneAtATime, InCommandOrder
    <3>3. QED
      BY <3>1, <3>2
  <2>2. ASSUME NEW r \in DOMAIN pending_io_instructions, NEW i \in 1 .. Len(queue')
        PROVE  pending_io_instructions[r].item.from <= queue'[i].from
    BY <1>1, <1>3, <1>6, <1>7, <1>11, SMTT(60) DEF OneAtATime, InCommandOrder
  <2>3. ASSUME NEW k \in Trans(log'.facts), NEW i \in 1 .. Len(queue')
        PROVE  log'.facts[k].cause <= queue'[i].from
    <3>1. /\ k \in Trans(log.facts) /\ log'.facts[k].cause = log.facts[k].cause
          /\ log.facts[k].cause \in Nat /\ log.facts[k].cause < f.id
      BY <1>1, <1>8, <1>11
    <3>2. CASE i = Len(queue')
      BY <1>3, <1>6, <1>7, <3>1, <3>2
    <3>3. CASE i # Len(queue')
      BY <1>7, <3>1, <3>3 DEF OneAtATime, InCommandOrder
    <3>4. QED
      BY <3>2, <3>3
  <2>4. /\ \A k \in Trans(log'.facts), r \in DOMAIN pending_io_instructions :
              log'.facts[k].cause <= pending_io_instructions[r].item.from
        /\ \A j, k \in Trans(log'.facts) : j < k => log'.facts[j].cause <= log'.facts[k].cause
    BY <1>8 DEF OneAtATime, InCommandOrder
  <2>5. QED
    BY <1>4, <2>1, <2>2, <2>3, <2>4 DEF InCommandOrder
<1>14. ChannelInOrder'
  <2>1. Len(chan') \in Nat /\ \A i \in 1 .. Len(chan') :
          i + 1 \in 1 .. Len(chan) /\ chan'[i] = chan[i + 1] /\ 1 < i + 1
    BY <1>1
  <2>2. \A c \in Nat : Taken(c)' => c <= Sent'
    BY <1>2, <1>12 DEF OneAtATime, ChannelInOrder
  <2>3. \A i \in 1 .. Len(chan') : chan'[i].type = "Command" => chan'[i].id <= Sent'
    BY <2>1 DEF OneAtATime, ChannelInOrder
  <2>4. ASSUME NEW i \in 1 .. Len(chan'), NEW j \in 1 .. Len(chan'),
               chan'[i].type = "Command", chan'[j].type = "Command", i < j
        PROVE  chan'[i].id < chan'[j].id
    <3>1. i + 1 < j + 1
      BY <2>1, <2>4
    <3>2. QED
      BY <2>1, <2>4, <3>1 DEF OneAtATime, ChannelInOrder
  <2>5. ASSUME NEW c \in Nat, NEW i \in 1 .. Len(chan'), Taken(c)', chan'[i].type = "Command"
        PROVE  c < chan'[i].id
    <3>1. CASE Taken(c)
      BY <2>1, <2>5, <3>1 DEF OneAtATime, ChannelInOrder
    <3>2. CASE c = f.id
      BY <1>2, <2>1, <2>5, <3>2 DEF OneAtATime, ChannelInOrder
    <3>3. QED
      BY <1>12, <2>5, <3>1, <3>2
  <2>6. QED
    BY <2>2, <2>3, <2>4, <2>5 DEF ChannelInOrder
<1>15. LeafInOnePlace'
  <2> SUFFICES ASSUME NEW g \in Fact, g.type = "Command", Leaf(g.instr), OnChain(g)'
               PROVE  OnePlace(g)'
    BY DEF LeafInOnePlace
  <2>1. CASE g = f
    <3>1. \A i \in 1 .. Len(queue') : queue'[i].from = g.id => i = Len(queue') /\ queue'[i] = item
      BY <1>1, <1>3, <1>7, <1>11, <2>1, SMTT(60)
    <3>2. \A r \in DOMAIN pending_io_instructions : pending_io_instructions[r].item.from # g.id
      BY <1>1, <1>3, <1>11, <2>1
    <3>3. \A t \in Trans(log'.facts) : log'.facts[t].cause # g.id
      BY <1>1, <1>3, <1>8, <1>11, <2>1
    <3>4. QED
      BY <1>4, <1>6, <2>1, <3>1, <3>2, <3>3 DEF OnePlace
  <2>2. CASE g # f
    <3>1. PICK k \in Cmds(log.facts) : log.facts[k] = g
      BY <1>9, <2>2 DEF OnChain, Cmds
    <3>2. OnChain(g) /\ g.id < f.id /\ g.id \in Nat
      BY <1>1, <1>11, <3>1 DEF OnChain, Cmds
    <3>3. OnePlace(g)
      BY <3>2 DEF OneAtATime, LeafInOnePlace
    <3>4. \A i \in 1 .. Len(queue') : queue'[i].from = g.id =>
             i \in 1 .. Len(queue) /\ queue'[i] = queue[i]
      BY <1>3, <1>6, <1>7, <3>2
    <3>5. QED
      BY <1>4, <1>8, <3>3, <3>4 DEF OnePlace
  <2>3. QED
    BY <2>1, <2>2
<1>16. QED
  BY <1>13, <1>14, <1>15 DEF OneAtATime

(* The answered instruction goes back to the front of the queue. *)
LEMMA ResultKeeps ==
    ASSUME TypeOK, OneAtATime, NEW r \in DOMAIN pending_io_instructions,
           queue' = <<pending_io_instructions[r].item>> \o queue,
           DOMAIN pending_io_instructions' = {},
           PlainGrowth(log.facts, log'.facts),
           Shorter(chan', chan), chan' \in Seq(Fact), Sent' = Sent
    PROVE  OneAtATime'
<1> DEFINE item == pending_io_instructions[r].item
<1>1. queue \in Seq(Item) /\ item \in Item
  BY NumberTypes
<1>2. queue' = <<item>> \o queue
  OBVIOUS
<1>3. InCommandOrder /\ LeafInOnePlace
  BY DEF OneAtATime
<1>4. /\ \A i \in 1 .. Len(queue) : item.from <= queue[i].from
      /\ \A k \in Trans(log.facts) : log.facts[k].cause <= item.from
      /\ item.from \in Nat
  BY <1>1, <1>3 DEF InCommandOrder, Item
<1>5. \A k \in Trans(log'.facts) : k \in Trans(log.facts) /\ log'.facts[k] = log.facts[k]
  BY DEF PlainGrowth, Trans, Cmds
<1>6. \A k \in Cmds(log'.facts) : k \in Cmds(log.facts) /\ log'.facts[k] = log.facts[k]
  BY DEF PlainGrowth, Trans, Cmds
<1>7. \A f : OnePlace(f) =>
         /\ \A i \in 1 .. Len(queue) : queue[i].from = f.id => item.from # f.id
         /\ item.from = f.id => item.instr = f.instr
                                /\ \A t \in Trans(log.facts) : log.facts[t].cause # f.id
  BY DEF OnePlace
<1>8. \E s \in DOMAIN pending_io_instructions : pending_io_instructions[s].item.from = item.from
  OBVIOUS
<1> HIDE DEF item
<1>9. Len(queue') = Len(queue) + 1 /\ Len(queue) \in Nat
      /\ \A i \in 1 .. Len(queue') : IF i = 1 THEN queue'[i] = item
                                     ELSE i - 1 \in 1 .. Len(queue) /\ queue'[i] = queue[i - 1]
  BY <1>1, <1>2
<1>10. \A c : Taken(c)' => Taken(c)
  <2> SUFFICES ASSUME NEW c, Taken(c)' PROVE Taken(c)
    OBVIOUS
  <2>1. CASE \E i \in 1 .. Len(queue') : queue'[i].from = c
    <3>1. PICK i \in 1 .. Len(queue') : queue'[i].from = c
      BY <2>1
    <3>2. CASE i = 1
      BY <1>8, <1>9, <3>1, <3>2 DEF Taken
    <3>3. CASE i # 1
      BY <1>9, <3>1, <3>3, Zenon DEF Taken
    <3> QED BY <3>2, <3>3
  <2>2. CASE \E k \in Trans(log'.facts) : log'.facts[k].cause = c
    BY <1>5, <2>2, Zenon DEF Taken
  <2>3. CASE \E k \in Cmds(log'.facts) : log'.facts[k].id = c
    BY <1>6, <2>3, Zenon DEF Taken
  <2> QED BY <2>1, <2>2, <2>3, Zenon DEF Taken
<1>11. InCommandOrder'
  <2>1. ASSUME NEW i \in 1 .. Len(queue'), NEW j \in 1 .. Len(queue'), i <= j
        PROVE  queue'[i].from <= queue'[j].from
    <3>1. CASE i = 1
      BY <1>4, <1>9, <3>1
    <3>2. CASE i # 1
      <4>1. j # 1 /\ i - 1 <= j - 1
        BY <1>9, <2>1, <3>2
      <4>2. QED
        BY <1>3, <1>9, <3>2, <4>1 DEF InCommandOrder
    <3>3. QED
      BY <3>1, <3>2
  <2>2. ASSUME NEW k \in Trans(log'.facts), NEW i \in 1 .. Len(queue')
        PROVE  log'.facts[k].cause <= queue'[i].from
    BY <1>3, <1>4, <1>5, <1>9 DEF InCommandOrder
  <2>3. \A j, k \in Trans(log'.facts) : j < k => log'.facts[j].cause <= log'.facts[k].cause
    BY <1>3, <1>5 DEF InCommandOrder
  <2>4. QED
    BY <2>1, <2>2, <2>3 DEF InCommandOrder
<1>12. ChannelInOrder'
  BY <1>10, ChannelKeeps DEF OneAtATime
<1>13. LeafInOnePlace'
  <2> SUFFICES ASSUME NEW f \in Fact, f.type = "Command", Leaf(f.instr), OnChain(f)'
               PROVE  OnePlace(f)'
    BY DEF LeafInOnePlace
  <2>1. OnChain(f)
    BY <1>6 DEF OnChain, Cmds
  <2>2. OnePlace(f)
    BY <1>3, <2>1 DEF LeafInOnePlace
  <2>3. ASSUME NEW i \in 1 .. Len(queue'), NEW j \in 1 .. Len(queue'),
               queue'[i].from = f.id, queue'[j].from = f.id
        PROVE  i = j
    <3>1. CASE i = 1 /\ j = 1
      BY <3>1
    <3>2. CASE i # 1 /\ j # 1
      <4>1. /\ i - 1 \in 1 .. Len(queue) /\ queue[i - 1].from = f.id
            /\ j - 1 \in 1 .. Len(queue) /\ queue[j - 1].from = f.id
        BY <1>9, <2>3, <3>2
      <4>2. i - 1 = j - 1
        BY <2>2, <4>1 DEF OnePlace
      <4>3. QED
        BY <1>9, <4>2
    <3>3. CASE (i = 1 /\ j # 1) \/ (i # 1 /\ j = 1)
      BY <1>7, <1>9, <2>2, <2>3, <3>3, ZenonT(60)
    <3>4. QED
      BY <3>1, <3>2, <3>3
  <2>4. ASSUME NEW i \in 1 .. Len(queue'), queue'[i].from = f.id
        PROVE  /\ queue'[i].instr = f.instr
               /\ \A t \in Trans(log'.facts) : log'.facts[t].cause # f.id
    <3>1. CASE i = 1
      BY <1>5, <1>7, <1>9, <2>2, <2>4, <3>1
    <3>2. CASE i # 1
      <4>1. i - 1 \in 1 .. Len(queue) /\ queue'[i] = queue[i - 1]
        BY <1>9, <3>2
      <4>2. /\ queue[i - 1].instr = f.instr
            /\ \A t \in Trans(log.facts) : log.facts[t].cause # f.id
        BY <2>2, <2>4, <4>1 DEF OnePlace
      <4>3. QED
        BY <1>5, <4>1, <4>2
    <3>3. QED
      BY <3>1, <3>2
  <2>5. \A s, t \in Trans(log'.facts) :
           log'.facts[s].cause = f.id /\ log'.facts[t].cause = f.id => s = t
    BY <1>5, <2>2 DEF OnePlace
  <2>6. QED
    BY <2>3, <2>4, <2>5 DEF OnePlace
<1>14. QED
  BY <1>11, <1>12, <1>13 DEF OneAtATime

(* The head of the queue is suspended on a request. *)
LEMMA SuspendKeeps ==
    ASSUME TypeOK, OneAtATime, queue # <<>>, queue' = Tail(queue),
           \A r \in DOMAIN pending_io_instructions' : pending_io_instructions'[r].item = Head(queue),
           PlainGrowth(log.facts, log'.facts), UNCHANGED chan, Sent' = Sent
    PROVE  OneAtATime'
<1>1. /\ queue \in Seq(Item) /\ Len(queue) > 0 /\ Head(queue) = queue[1] /\ 1 \in 1 .. Len(queue)
      /\ chan \in Seq(Fact)
  BY NumberTypes
<1>2. \A r \in DOMAIN pending_io_instructions' : pending_io_instructions'[r].item = queue[1]
  BY <1>1
<1>3. InCommandOrder /\ LeafInOnePlace
  BY DEF OneAtATime
<1>4. Len(queue') \in Nat /\ \A i \in 1 .. Len(queue') :
        i + 1 \in 1 .. Len(queue) /\ queue'[i] = queue[i + 1] /\ 1 <= i + 1 /\ i + 1 # 1
  BY <1>1
<1>5. \A k \in Trans(log'.facts) : k \in Trans(log.facts) /\ log'.facts[k] = log.facts[k]
  BY DEF PlainGrowth, Trans, Cmds
<1>6. \A k \in Cmds(log'.facts) : k \in Cmds(log.facts) /\ log'.facts[k] = log.facts[k]
  BY DEF PlainGrowth, Trans, Cmds
<1>7. \A c : Taken(c)' => Taken(c)
  BY <1>1, <1>2, <1>4, <1>5, <1>6, SMTT(60) DEF Taken
<1>8. InCommandOrder'
  <2>1. ASSUME NEW i \in 1 .. Len(queue'), NEW j \in 1 .. Len(queue'), i <= j
        PROVE  queue'[i].from <= queue'[j].from
    <3>1. i + 1 <= j + 1
      BY <1>4, <2>1
    <3>2. QED
      BY <1>3, <1>4, <3>1 DEF InCommandOrder
  <2>2. \A r \in DOMAIN pending_io_instructions', i \in 1 .. Len(queue') :
           pending_io_instructions'[r].item.from <= queue'[i].from
    BY <1>1, <1>2, <1>3, <1>4 DEF InCommandOrder
  <2>3. \A k \in Trans(log'.facts), i \in 1 .. Len(queue') :
           log'.facts[k].cause <= queue'[i].from
    BY <1>3, <1>4, <1>5 DEF InCommandOrder
  <2>4. /\ \A k \in Trans(log'.facts), r \in DOMAIN pending_io_instructions' :
              log'.facts[k].cause <= pending_io_instructions'[r].item.from
        /\ \A j, k \in Trans(log'.facts) : j < k => log'.facts[j].cause <= log'.facts[k].cause
    BY <1>1, <1>2, <1>3, <1>5 DEF InCommandOrder
  <2>5. QED
    BY <2>1, <2>2, <2>3, <2>4 DEF InCommandOrder
<1>9. ChannelInOrder'
  <2>1. Shorter(chan', chan)
    <3>1. \A i \in 1 .. Len(chan') : i + 0 \in 1 .. Len(chan) /\ chan'[i] = chan[i + 0]
      BY <1>1
    <3>2. QED
      BY <3>1 DEF Shorter
  <2>2. QED
    BY <1>1, <1>7, <2>1, ChannelKeeps DEF OneAtATime
<1>10. LeafInOnePlace'
  <2> SUFFICES ASSUME NEW f \in Fact, f.type = "Command", Leaf(f.instr), OnChain(f)'
               PROVE  OnePlace(f)'
    BY DEF LeafInOnePlace
  <2>1. OnChain(f)
    BY <1>6 DEF OnChain, Cmds
  <2>2. OnePlace(f)
    BY <1>3, <2>1 DEF LeafInOnePlace
  <2>3. ASSUME NEW i \in 1 .. Len(queue'), NEW j \in 1 .. Len(queue'),
               queue'[i].from = f.id, queue'[j].from = f.id
        PROVE  i = j
    <3>1. i + 1 = j + 1
      BY <1>4, <2>2, <2>3 DEF OnePlace
    <3>2. QED
      BY <1>4, <3>1
  <2>4. ASSUME NEW i \in 1 .. Len(queue'), queue'[i].from = f.id
        PROVE  /\ queue'[i].instr = f.instr
               /\ queue[1].from # f.id
               /\ \A t \in Trans(log'.facts) : log'.facts[t].cause # f.id
    BY <1>1, <1>4, <1>5, <2>2, <2>4, ZenonT(60) DEF OnePlace
  <2>5. queue[1].from = f.id =>
           /\ queue[1].instr = f.instr
           /\ \A t \in Trans(log'.facts) : log'.facts[t].cause # f.id
    BY <1>1, <1>5, <2>2 DEF OnePlace
  <2>6. \A s, t \in Trans(log'.facts) :
           log'.facts[s].cause = f.id /\ log'.facts[t].cause = f.id => s = t
    BY <1>5, <2>2 DEF OnePlace
  <2>7. QED
    BY <1>2, <2>3, <2>4, <2>5, <2>6 DEF OnePlace
<1>11. QED
  BY <1>8, <1>9, <1>10 DEF OneAtATime

(* The queue a transition leaves: what it pushed, of the same command, and  *)
(* the queue behind the instruction.                                        *)
LEMMA NewQueueParts ==
    ASSUME TypeOK, queue # <<>>, NEW res \in Outcomes
    PROVE  LET k == Len(res.push)
           IN  /\ k \in Nat /\ Len(NewQueue(res)) \in Nat
               /\ \A i \in 1 .. Len(NewQueue(res)) :
                     IF i <= k THEN NewQueue(res)[i].from = queue[1].from
                     ELSE /\ i - k + 1 \in 2 .. Len(queue)
                          /\ NewQueue(res)[i] = queue[i - k + 1]
<1> DEFINE k == Len(res.push)
<1>1. res.push \in Seq(Instruction) /\ NewQueue(res) \in Seq(Item)
  BY OutcomeType DEF Result
<1>2. RestQueue \in Seq(Item) /\ Len(RestQueue) = Len(queue) - 1 /\ Head(queue) \in Item
      /\ queue \in Seq(Item)
  BY PopType DEF TypeOK
<1>3. k \in Nat /\ Head(queue) = queue[1]
      /\ \A j \in 1 .. Len(RestQueue) : RestQueue[j] = queue[j + 1] /\ j + 1 \in 2 .. Len(queue)
  BY <1>1, <1>2 DEF RestQueue
<1>4. Pushed(res) \in [1 .. k -> Item]
  BY <1>1, <1>2 DEF Pushed, Item
<1>5. Pushed(res) \in Seq(Item) /\ Len(Pushed(res)) = k
  BY <1>3, <1>4
<1>6. \A i \in 1 .. k : Pushed(res)[i].from = queue[1].from
  BY <1>3 DEF Pushed
<1>7. Len(Pushed(res) \o RestQueue) = k + Len(RestQueue)
  BY SMTT(30), <1>2, <1>5
<1>8. ASSUME NEW i \in 1 .. Len(NewQueue(res))
      PROVE  IF i <= k THEN NewQueue(res)[i].from = queue[1].from
             ELSE /\ i - k + 1 \in 2 .. Len(queue)
                  /\ NewQueue(res)[i] = queue[i - k + 1]
  <2>1. i \in 1 .. k + Len(RestQueue)
    BY <1>7 DEF NewQueue
  <2>2. NewQueue(res)[i] = IF i <= k THEN Pushed(res)[i] ELSE RestQueue[i - k]
    BY <1>2, <1>5, <2>1, SMTT(60) DEF NewQueue
  <2>3. CASE i <= k
    BY <1>3, <1>6, <2>1, <2>2, <2>3
  <2>4. CASE i > k
    <3>1. i - k \in 1 .. Len(RestQueue) /\ ~(i <= k)
      BY <1>2, <1>3, <2>1, <2>4
    <3>2. /\ RestQueue[i - k] = queue[(i - k) + 1]
          /\ (i - k) + 1 \in 2 .. Len(queue)
      BY <1>3, <3>1
    <3>3. NewQueue(res)[i] = RestQueue[i - k]
      BY <2>2, <3>1
    <3>4. QED
      BY <3>1, <3>2, <3>3
  <2>5. i <= k \/ i > k
    BY <1>3, <2>1
  <2> HIDE DEF k
  <2>6. QED
    BY <2>3, <2>4, <2>5
<1>9. Len(NewQueue(res)) \in Nat
  BY <1>1
<1>10. QED
  BY <1>3, <1>8, <1>9

(* The head of the queue is executed: its transition joins the chain and    *)
(* what it pushed goes to the front of the queue.                           *)
LEMMA TransitionKeeps ==
    ASSUME TypeOK, OneAtATime, CausesTrackOrigin, queue # <<>>,
           DOMAIN pending_io_instructions = {}, UNCHANGED <<pending_io_instructions, chan>>,
           NEW res \in Outcomes, queue' = NewQueue(res),
           GrowthBy(log.facts, log'.facts, TransitionFact(PoppedCause, res.data, NewQueue(res))),
           Sent' = Sent
    PROVE  OneAtATime'
<1> DEFINE k == Len(res.push)
           c == queue[1].from
           n == Len(log.facts) + 1
<1>1. /\ queue \in Seq(Item) /\ Len(queue) > 0 /\ Head(queue) = queue[1] /\ 1 \in 1 .. Len(queue)
      /\ chan \in Seq(Fact) /\ log.facts \in Seq(Fact) /\ c \in Nat
      /\ \A t \in Trans(log.facts) : t \in 1 .. Len(log.facts)
  BY NumberTypes
<1>2. PoppedCause = c
  BY <1>1, PopAligned
<1>3. InCommandOrder /\ LeafInOnePlace
  BY DEF OneAtATime
<1>4. k \in Nat /\ Len(queue') \in Nat
      /\ \A i \in 1 .. Len(queue') :
            IF i <= k THEN queue'[i].from = c
            ELSE i - k + 1 \in 2 .. Len(queue) /\ queue'[i] = queue[i - k + 1]
  BY NewQueueParts
<1>5. \A t \in Trans(log'.facts) :
         \/ t \in Trans(log.facts) /\ log'.facts[t] = log.facts[t]
         \/ t = n /\ log'.facts[t].cause = c
  BY <1>2 DEF GrowthBy, Trans, TransitionFact
<1>6. \A t \in Cmds(log'.facts) : t \in Cmds(log.facts) /\ log'.facts[t] = log.facts[t]
  BY DEF GrowthBy, Cmds, TransitionFact
<1>7. /\ \A i \in 1 .. Len(queue) : c <= queue[i].from
      /\ \A t \in Trans(log.facts) : log.facts[t].cause <= c
  BY <1>1, <1>3 DEF InCommandOrder
<1>8. \A x : Leaf(x) /\ queue[1].instr = x => k = 0
  <2>1. {t \in IoType : io_results[t] # 0} \in SUBSET IoType /\ data \in Data
    BY DEF TypeOK
  <2>2. res \in Transition(queue[1].instr, data, {t \in IoType : io_results[t] # 0})
    BY <1>1 DEF Outcomes
  <2>3. QED
    BY <2>1, <2>2 DEF Leaf
<1> HIDE DEF k, c
<1>9. \A x : Taken(x)' => Taken(x)
  <2>1. Taken(c)
    BY <1>1 DEF Taken, c
  <2>2. ASSUME NEW i \in 1 .. Len(queue') PROVE \E j \in 1 .. Len(queue) : queue'[i].from = queue[j].from
    <3>1. CASE i <= k
      BY <1>1, <1>4, <3>1 DEF c
    <3>2. CASE ~(i <= k)
      <4>1. i - k + 1 \in 1 .. Len(queue)
        BY <1>4, <3>2
      <4>2. QED
        BY <1>4, <3>2, <4>1
    <3>3. QED
      BY <3>1, <3>2
  <2>3. QED
    BY <1>5, <1>6, <2>1, <2>2 DEF Taken
<1>10. InCommandOrder'
  <2>1. ASSUME NEW i \in 1 .. Len(queue'), NEW j \in 1 .. Len(queue'), i <= j
        PROVE  queue'[i].from <= queue'[j].from
    <3>1. CASE j <= k
      <4>1. i <= k
        BY <1>4, <2>1, <3>1
      <4>2. QED
        BY <1>1, <1>4, <3>1, <4>1
    <3>2. CASE i <= k /\ ~(j <= k)
      <4>1. j - k + 1 \in 1 .. Len(queue) /\ queue'[j] = queue[j - k + 1] /\ queue'[i].from = c
        BY <1>4, <3>2
      <4>2. QED
        BY <1>7, <4>1
    <3>3. CASE ~(i <= k) /\ ~(j <= k)
      <4>1. /\ i - k + 1 \in 1 .. Len(queue) /\ queue'[i] = queue[i - k + 1]
            /\ j - k + 1 \in 1 .. Len(queue) /\ queue'[j] = queue[j - k + 1]
            /\ i - k + 1 <= j - k + 1
        BY <1>4, <2>1, <3>3
      <4>2. QED
        BY <1>3, <4>1 DEF InCommandOrder
    <3>4. QED
      BY <3>1, <3>2, <3>3
  <2>2. ASSUME NEW i \in 1 .. Len(queue') PROVE c <= queue'[i].from
    <3>1. CASE i <= k
      BY <1>1, <1>4, <3>1
    <3>2. CASE ~(i <= k)
      <4>1. i - k + 1 \in 1 .. Len(queue)
        BY <1>4, <3>2
      <4>2. QED
        BY <1>4, <1>7, <3>2, <4>1
    <3>3. QED
      BY <3>1, <3>2
  <2>3. ASSUME NEW t \in Trans(log'.facts) PROVE log'.facts[t].cause <= c /\ log'.facts[t].cause \in Nat
    BY <1>1, <1>5, <1>7, NumberTypes
  <2>4. ASSUME NEW t \in Trans(log'.facts), NEW i \in 1 .. Len(queue')
        PROVE  log'.facts[t].cause <= queue'[i].from
    <3>1. queue'[i].from \in Nat
      <4>1. \E j \in 1 .. Len(queue) : queue'[i].from = queue[j].from
        <5>1. CASE i <= k
          BY <1>1, <1>4, <5>1 DEF c
        <5>2. CASE ~(i <= k)
          <6>1. i - k + 1 \in 1 .. Len(queue)
            BY <1>4, <5>2
          <6>2. QED
            BY <1>4, <5>2, <6>1
        <5>3. QED
          BY <5>1, <5>2
      <4>2. QED
        BY <4>1, NumberTypes
    <3>2. QED
      BY <1>1, <2>2, <2>3, <3>1
  <2>5. ASSUME NEW s \in Trans(log'.facts), NEW t \in Trans(log'.facts), s < t
        PROVE  log'.facts[s].cause <= log'.facts[t].cause
    <3>1. CASE t = n /\ log'.facts[t].cause = c
      BY <2>3, <3>1
    <3>2. CASE t \in Trans(log.facts) /\ log'.facts[t] = log.facts[t]
      <4>1. s # n
        BY <1>1, <2>5, <3>2
      <4>2. QED
        BY <1>3, <1>5, <2>5, <3>2, <4>1 DEF InCommandOrder
    <3>3. QED
      BY <1>5, <3>1, <3>2
  <2>6. QED
    BY <2>1, <2>4, <2>5 DEF InCommandOrder
<1>11. ChannelInOrder'
  <2>1. Shorter(chan', chan)
    <3>1. \A i \in 1 .. Len(chan') : i + 0 \in 1 .. Len(chan) /\ chan'[i] = chan[i + 0]
      BY <1>1
    <3>2. QED
      BY <3>1 DEF Shorter
  <2>2. QED
    BY <1>1, <1>9, <2>1, ChannelKeeps DEF OneAtATime
<1>12. LeafInOnePlace'
  <2> SUFFICES ASSUME NEW f \in Fact, f.type = "Command", Leaf(f.instr), OnChain(f)'
               PROVE  OnePlace(f)'
    BY DEF LeafInOnePlace
  <2>1. OnChain(f)
    BY <1>6 DEF OnChain, Cmds
  <2>2. OnePlace(f)
    BY <1>3, <2>1 DEF LeafInOnePlace
  <2>3. CASE f.id = c
    <3>1. /\ queue[1].instr = f.instr
          /\ \A t \in Trans(log.facts) : log.facts[t].cause # f.id
          /\ \A i \in 1 .. Len(queue) : queue[i].from = f.id => i = 1
      BY <1>1, <2>2, <2>3 DEF OnePlace, c
    <3>2. k = 0
      BY <1>8, <3>1
    <3>3. ASSUME NEW i \in 1 .. Len(queue') PROVE queue'[i].from # f.id
      <4>1. i - 0 + 1 \in 2 .. Len(queue) /\ queue'[i] = queue[i - 0 + 1]
        BY <1>4, <3>2
      <4>2. i - 0 + 1 \in 1 .. Len(queue) /\ i - 0 + 1 # 1
        BY <1>1, <4>1
      <4>3. QED
        BY <3>1, <4>1, <4>2
    <3>4. \A s, t \in Trans(log'.facts) :
             log'.facts[s].cause = f.id /\ log'.facts[t].cause = f.id => s = t
      BY <1>5, <3>1
    <3>5. QED
      BY <3>3, <3>4 DEF OnePlace
  <2>4. CASE f.id # c
    <3>1. \A t \in Trans(log'.facts) : log'.facts[t].cause = f.id =>
             t \in Trans(log.facts) /\ log.facts[t].cause = f.id
      BY <1>5, <2>4
    <3>2. ASSUME NEW i \in 1 .. Len(queue'), queue'[i].from = f.id
          PROVE  i - k + 1 \in 1 .. Len(queue) /\ queue'[i] = queue[i - k + 1]
      <4>1. ~(i <= k)
        BY <1>4, <2>4, <3>2
      <4>2. QED
        BY <1>4, <4>1
    <3>3. ASSUME NEW i \in 1 .. Len(queue'), NEW j \in 1 .. Len(queue'),
                 queue'[i].from = f.id, queue'[j].from = f.id
          PROVE  i = j
      <4>1. /\ i - k + 1 \in 1 .. Len(queue) /\ queue[i - k + 1].from = f.id
            /\ j - k + 1 \in 1 .. Len(queue) /\ queue[j - k + 1].from = f.id
        BY <3>2, <3>3
      <4>2. i - k + 1 = j - k + 1
        BY <2>2, <4>1 DEF OnePlace
      <4>3. QED
        BY <1>4, <4>2
    <3>4. ASSUME NEW i \in 1 .. Len(queue'), queue'[i].from = f.id
          PROVE  /\ queue'[i].instr = f.instr
                 /\ \A t \in Trans(log'.facts) : log'.facts[t].cause # f.id
      <4>1. i - k + 1 \in 1 .. Len(queue) /\ queue'[i] = queue[i - k + 1]
        BY <3>2, <3>4
      <4>2. /\ queue[i - k + 1].instr = f.instr
            /\ \A t \in Trans(log.facts) : log.facts[t].cause # f.id
        BY <2>2, <3>4, <4>1 DEF OnePlace
      <4>3. QED
        BY <3>1, <4>1, <4>2
    <3>5. \A s, t \in Trans(log'.facts) :
             log'.facts[s].cause = f.id /\ log'.facts[t].cause = f.id => s = t
      BY <2>2, <3>1 DEF OnePlace
    <3>6. QED
      BY <3>3, <3>4, <3>5 DEF OnePlace
  <2>5. QED
    BY <2>3, <2>4
<1>13. QED
  BY <1>10, <1>11, <1>12 DEF OneAtATime

LEMMA ShorterFacts ==
    ASSUME NEW S, NEW q \in Seq(S)
    PROVE  /\ Shorter(q, q) /\ Shorter(<<>>, q)
           /\ q # <<>> => Shorter(Tail(q), q)
<1>1. \A i \in 1 .. Len(q) : i + 0 \in 1 .. Len(q) /\ q[i] = q[i + 0]
  OBVIOUS
<1>2. \A i \in 1 .. Len(<<>>) : i + 0 \in 1 .. Len(q) /\ <<>>[i] = q[i + 0]
  OBVIOUS
<1>3. q # <<>> => \A i \in 1 .. Len(Tail(q)) : i + 1 \in 1 .. Len(q) /\ Tail(q)[i] = q[i + 1]
  OBVIOUS
<1>4. QED
  BY <1>1, <1>2, <1>3 DEF Shorter

(* A step that leaves queue, suspended instructions and channel alone. *)
LEMMA IdleKeeps ==
    ASSUME TypeOK, OneAtATime, UNCHANGED <<queue, pending_io_instructions, chan>>,
           PlainGrowth(log.facts, log'.facts), Sent' = Sent
    PROVE  OneAtATime'
<1>1. queue \in Seq(Item) /\ chan \in Seq(Fact)
  BY DEF TypeOK
<1>2. Shorter(queue', queue) /\ Shorter(chan', chan)
  BY <1>1, ShorterFacts
<1>3. queue' \in Seq(Item) /\ chan' \in Seq(Fact)
  BY <1>1
<1>4. \A r \in DOMAIN pending_io_instructions' :
         /\ r \in DOMAIN pending_io_instructions
         /\ pending_io_instructions'[r] = pending_io_instructions[r]
  OBVIOUS
<1>5. QED
  BY <1>2, <1>3, <1>4, ShrinkKeeps

LEMMA ReceiveKeeps ==
    ASSUME TypeOK, OneAtATime, PendingConsistent, NEW next, Receive(next)
    PROVE  OneAtATime'
<1> DEFINE f == Head(chan)
<1>1. /\ chan \in Seq(Fact) /\ chan # <<>> /\ chan' = Tail(chan) /\ f \in Fact
      /\ queue \in Seq(Item)
  BY DEF Receive, TypeOK
<1>2. Sent' = Sent
  BY DEF Receive, Sent
<1>3. Shorter(chan', chan) /\ chan' \in Seq(Fact) /\ Shorter(queue, queue)
  BY <1>1, ShorterFacts
<1>4. CASE HandleCommand(f, next)
  BY <1>1, <1>2, <1>4, CommandKeeps
<1>5. CASE HandleUpdate(f, next) \/ HandleRejectedUpdate(f) \/ HandleStaleResponse(f, next)
  <2>1. UNCHANGED <<queue, pending_io_instructions>>
    BY <1>5 DEF HandleUpdate, HandleRejectedUpdate, HandleStaleResponse, work, pending
  <2>2. Plain(f) /\ (Emit(f) \/ EmitBoth(f, ErrorFact, interrupt))
    BY <1>5 DEF HandleUpdate, HandleRejectedUpdate, HandleStaleResponse, Plain
  <2>3. PlainGrowth(log.facts, log'.facts)
    BY <1>1, <2>2, PlainEmit, PlainEmitBoth, PlainFacts, FactsAreFacts
  <2>4. queue' \in Seq(Item) /\ Shorter(queue', queue)
    BY <1>1, <1>3, <2>1
  <2>5. \A r \in DOMAIN pending_io_instructions' :
           /\ r \in DOMAIN pending_io_instructions
           /\ pending_io_instructions'[r] = pending_io_instructions[r]
    BY <2>1
  <2>6. QED
    BY <1>2, <1>3, <2>3, <2>4, <2>5, ShrinkKeeps
<1>6. CASE HandleEmptyResponse(f, next) \/ HandleRefusedResult(f) \/ HandleResult(f, next)
  <2>1. DOMAIN pending_io_instructions' = {} /\ f.request \in DOMAIN pending_io_instructions
    BY <1>6, CompletePending
       DEF HandleEmptyResponse, HandleRefusedResult, HandleResult, PendingConsistent
  <2>2. Plain(f) /\ Emit(f)
    BY <1>6 DEF HandleEmptyResponse, HandleRefusedResult, HandleResult, Plain
  <2>3. PlainGrowth(log.facts, log'.facts)
    BY <1>1, <2>2, PlainEmit
  <2>4. CASE HandleEmptyResponse(f, next) \/ HandleRefusedResult(f)
    <3>1. queue' \in Seq(Item) /\ Shorter(queue', queue)
      BY <1>1, <1>3, <2>4 DEF HandleEmptyResponse, HandleRefusedResult, work
    <3>2. QED
      BY <1>2, <1>3, <2>1, <2>3, <3>1, ShrinkKeeps
  <2>5. CASE HandleResult(f, next)
    <3>1. queue' = <<pending_io_instructions[f.request].item>> \o queue
      BY <2>1, <2>5 DEF HandleResult, push_front
    <3>2. QED
      BY <1>2, <1>3, <2>1, <2>3, <3>1, ResultKeeps
  <2>6. QED
    BY <1>6, <2>4, <2>5
<1>7. QED
  BY <1>4, <1>5, <1>6 DEF Receive

LEMMA ExecKeeps ==
    ASSUME TypeOK, TypeOK', OneAtATime, PendingConsistent, CausesTrackOrigin, ExecInstruction
    PROVE  OneAtATime'
<1>1. queue # <<>> /\ queue \in Seq(Item) /\ chan \in Seq(Fact) /\ pending_io_count = 0
  BY DEF ExecInstruction, CanExec, TypeOK
<1>2. PICK res \in Outcomes :
        \/ ExecState(res) \/ ExecOverflow(res) \/ ExecIgnored(res) \/ ExecHalted(res)
        \/ ExecUnknownIo(res) \/ ExecErr(res) \/ ExecIoRequired(res)
  BY DEF ExecInstruction
<1>3. Sent' = Sent /\ UNCHANGED chan
  BY DEF ExecInstruction, inputs, Sent
<1>4. DOMAIN pending_io_instructions = {}
  BY <1>1, PendingFinite, FS_EmptySet DEF PendingConsistent
<1>5. /\ PoppedCause \in Nat /\ res.data \in Data /\ NewQueue(res) \in Seq(Item)
      /\ version \in Nat /\ next_request \in Nat
  BY <1>1, PopType, OutcomeType DEF TypeOK, Result
<1>6. Shorter(chan', chan) /\ chan' \in Seq(Fact) /\ queue' \in Seq(Item)
  BY <1>1, <1>3, ShorterFacts DEF TypeOK
<1>7. CASE ExecState(res)
  <2> DEFINE f == TransitionFact(PoppedCause, res.data, NewQueue(res))
  <2>1. f \in Fact
    BY <1>5, FactsAreFacts
  <2>2. GrowthBy(log.facts, log'.facts, f)
    BY <1>7, <2>1, PlainEmitBoth, PlainFacts, FactsAreFacts DEF ExecState
  <2>3. queue' = NewQueue(res) /\ UNCHANGED pending_io_instructions
    BY <1>7 DEF ExecState, pending
  <2>4. QED
    BY <1>1, <1>3, <1>4, <2>2, <2>3, TransitionKeeps
<1>8. CASE ExecOverflow(res)
  <2>1. PlainGrowth(log.facts, log'.facts)
    BY <1>5, <1>8, PlainEmitBoth, PlainFacts, FactsAreFacts DEF ExecOverflow
  <2>2. Shorter(queue', queue) /\ DOMAIN pending_io_instructions' = {}
    BY <1>1, <1>4, <1>8, ShorterFacts DEF ExecOverflow, clear_queue, pending
  <2>3. QED
    BY <1>3, <1>6, <2>1, <2>2, ShrinkKeeps
<1>9. CASE ExecIgnored(res) \/ ExecHalted(res) \/ ExecUnknownIo(res) \/ ExecErr(res)
  <2>1. PlainGrowth(log.facts, log'.facts)
    <3>1. CASE ExecIgnored(res)
      BY <3>1, PlainEmitBoth, PlainFacts, FactsAreFacts DEF ExecIgnored
    <3>2. CASE ExecHalted(res)
      BY <1>5, <3>2, PlainEmit, PlainFacts, FactsAreFacts DEF ExecHalted
    <3>3. CASE ExecUnknownIo(res) \/ ExecErr(res)
      BY <3>3, PlainEmit, PlainFacts, FactsAreFacts DEF ExecUnknownIo, ExecErr
    <3>4. QED
      BY <1>9, <3>1, <3>2, <3>3
  <2>2. Drop
    BY <1>9 DEF ExecIgnored, ExecHalted, ExecUnknownIo, ExecErr
  <2>3. Shorter(queue', queue) /\ DOMAIN pending_io_instructions' = {}
    BY <1>1, <1>4, <2>2, ShorterFacts DEF Drop, RestQueue, pending
  <2>4. QED
    BY <1>3, <1>6, <2>1, <2>3, ShrinkKeeps
<1>10. CASE ExecIoRequired(res)
  <2>1. PlainGrowth(log.facts, log'.facts)
    BY <1>5, <1>10, PlainEmit, PlainFacts, FactsAreFacts DEF ExecIoRequired
  <2>2. queue' = Tail(queue)
    BY <1>10 DEF ExecIoRequired, RestQueue
  <2>3. \A r \in DOMAIN pending_io_instructions' : pending_io_instructions'[r].item = Head(queue)
    BY <1>4, <1>10 DEF ExecIoRequired, save_io_instruction
  <2>4. QED
    BY <1>1, <1>3, <2>1, <2>2, <2>3, SuspendKeeps
<1>11. QED
  BY <1>2, <1>7, <1>8, <1>9, <1>10

LEMMA OneAtATimeStep ==
    ASSUME TypeOK, TypeOK', PendingConsistent, CausesTrackOrigin, budget["restart"] = 0,
           OneAtATime, [Next]_vars
    PROVE  OneAtATime'
<1>1. /\ version \in Nat /\ queue \in Seq(Item) /\ chan \in Seq(Fact)
      /\ queue' \in Seq(Item) /\ chan' \in Seq(Fact)
  BY DEF TypeOK
<1>2. ASSUME NEW e \in Events, Spend(e), e # "command" PROVE Sent' = Sent
  BY <1>2 DEF Spend, Sent, TypeOK, Events
<1>3. CASE HeadInterrupt \/ DrainStable
  <2>1. PlainGrowth(log.facts, log'.facts)
    BY <1>1, <1>3, PlainEmit, PlainEmitBoth, PlainFacts, FactsAreFacts
       DEF HeadInterrupt, DrainStable
  <2>2. UNCHANGED <<queue, pending_io_instructions, chan, budget>>
    BY <1>3 DEF HeadInterrupt, DrainStable, work, pending, inputs
  <2>3. QED
    BY <2>1, <2>2, IdleKeeps DEF Sent
<1>4. CASE ExecMaxRounds
  <2>1. PlainGrowth(log.facts, log'.facts)
    BY <1>1, <1>4, PlainEmitBoth, PlainFacts, FactsAreFacts DEF ExecMaxRounds
  <2>2. Shorter(queue', queue) /\ Shorter(chan', chan)
    BY <1>1, <1>4, ShorterFacts DEF ExecMaxRounds, clear_queue, inputs
  <2>3. UNCHANGED <<pending_io_instructions, budget>>
    BY <1>4 DEF ExecMaxRounds, pending, inputs
  <2>4. QED
    BY <1>1, <2>1, <2>2, <2>3, ShrinkKeeps DEF Sent
<1>5. CASE SweepRequest
  <2>1. PICK r \in sweep : force_remove_io_request(r)
    BY <1>5 DEF SweepRequest
  <2>2. r \in DOMAIN pending_requests
    BY DEF PendingConsistent
  <2>3. DOMAIN pending_io_instructions' = {}
    BY <2>1, <2>2, CompletePending DEF force_remove_io_request
  <2>4. PlainGrowth(log.facts, log'.facts)
    BY <1>5, PlainEmit, PlainFacts, FactsAreFacts DEF SweepRequest
  <2>5. UNCHANGED <<queue, chan, budget>>
    BY <1>5 DEF SweepRequest, work, inputs
  <2>6. Shorter(queue', queue) /\ Shorter(chan', chan)
    BY <1>1, <2>5, ShorterFacts
  <2>7. QED
    BY <1>1, <2>3, <2>4, <2>5, <2>6, ShrinkKeeps DEF Sent
<1>6. CASE DrainFact \/ AwaitFact
  BY <1>6, ReceiveKeeps DEF DrainFact, AwaitFact
<1>7. CASE ExecInstruction
  BY <1>7, ExecKeeps
<1>8. CASE SendCommand \/ SendPayloadUpdate \/ SendIoResponse
  BY <1>8, SendKeeps
<1>9. CASE \/ HeadCancel \/ HeadDrain \/ SweepDone \/ DrainClosed \/ DrainDone \/ AwaitClosed
           \/ AwaitTimeout \/ ExecDone \/ Tick \/ UNCHANGED vars
  <2>1. UNCHANGED <<queue, pending_io_instructions, chan, budget, log>>
    BY <1>9 DEF HeadCancel, HeadDrain, SweepDone, DrainClosed, DrainDone, AwaitClosed,
                AwaitTimeout, ExecDone, Stop, Tick, vars, chain, work, pending, inputs
  <2>2. QED
    BY <2>1, IdleKeeps, PlainSame DEF Sent
<1>10. CASE Interrupt \/ CancelAll \/ CloseChannel
  <2>1. UNCHANGED <<queue, pending_io_instructions, chan, log>>
    BY <1>10 DEF Interrupt, CancelAll, CloseChannel, reactor, chain, work, pending
  <2>2. Sent' = Sent
    BY <1>2, <1>10 DEF Interrupt, CancelAll, CloseChannel, Events
  <2>3. QED
    BY <2>1, <2>2, IdleKeeps, PlainSame
<1>11. CASE Restart
  BY <1>11 DEF Restart, Spend
<1>12. QED
  BY <1>3, <1>4, <1>5, <1>6, <1>7, <1>8, <1>9, <1>10, <1>11 DEF Next, ReactorStep, Environment

LEMMA OneAtATimeHolds ==
    ASSUME Budget["restart"] = 0
    PROVE  Spec => []OneAtATime
<1>1. Init => OneAtATime /\ budget["restart"] = 0 /\ CausesTrackOrigin
  <2> SUFFICES ASSUME Init PROVE OneAtATime /\ budget["restart"] = 0 /\ CausesTrackOrigin
    OBVIOUS
  <2>1. /\ queue = <<>> /\ causes = <<>> /\ chan = <<>> /\ budget = Budget
        /\ log.facts = <<>> /\ DOMAIN pending_io_instructions = {}
    BY DEF Init, EmptyLog
  <2>2. Trans(log.facts) = {} /\ Cmds(log.facts) = {}
    BY <2>1 DEF Trans, Cmds
  <2>3. InCommandOrder /\ LeafInOnePlace
    BY <2>1, <2>2 DEF InCommandOrder, LeafInOnePlace, OnChain
  <2>4. ChannelInOrder
    BY <2>1, <2>2 DEF ChannelInOrder, Taken
  <2>5. QED
    BY <2>1, <2>3, <2>4 DEF OneAtATime, CausesTrackOrigin
<1>2. /\ TypeOK /\ TypeOK' /\ PendingConsistent
      /\ CausesTrackOrigin /\ budget["restart"] = 0 /\ OneAtATime /\ [Next]_vars
      => OneAtATime'
  BY OneAtATimeStep
<1>3. TypeOK /\ PendingConsistent /\ CausesTrackOrigin /\ budget["restart"] = 0 /\ [Next]_vars
      => CausesTrackOrigin' /\ (budget["restart"] = 0)'
  BY CausesStep
<1>4. QED
  BY <1>1, <1>2, <1>3, TypeCorrect, PendingIsConsistent, PTL DEF Spec

(* In a session that is never restarted, commands are executed one after    *)
(* the other whatever the WAL, the queue limit, the responses and the       *)
(* cancellations do: all the transitions of a command, those of the         *)
(* instructions it pushed and those after an I/O suspension included, stand *)
(* on the chain before the first one of a later command.                    *)
THEOREM CommandsAreSerial ==
    ASSUME Budget["restart"] = 0
    PROVE  Spec => []SerialExecution
<1>1. TypeOK /\ OneAtATime => SerialExecution
  BY DEF OneAtATime, InCommandOrder, SerialExecution, Trans
<1>2. QED
  BY <1>1, OneAtATimeHolds, TypeCorrect, PTL

(* Under the same condition a command that expands into no others has at    *)
(* most one transition on the chain: suspension on I/O, late and duplicate  *)
(* answers, timeouts and cancellations never apply it twice.                *)
THEOREM LeavesAreAppliedOnce ==
    ASSUME Budget["restart"] = 0
    PROVE  Spec => []LeafAppliedOnce
<1>1. ASSUME TypeOK, OneAtATime PROVE LeafAppliedOnce
  <2> SUFFICES ASSUME NEW k \in DOMAIN log.facts,
                      log.facts[k].type = "Command", Leaf(log.facts[k].instr)
               PROVE  Cardinality(TransitionsOf(log.facts[k].id)) <= 1
    BY DEF LeafAppliedOnce
  <2> DEFINE f == log.facts[k]
             T == TransitionsOf(f.id)
  <2>1. f \in Fact /\ OnChain(f)
    BY <1>1 DEF TypeOK, Log, OnChain
  <2>2. OnePlace(f)
    BY <1>1, <2>1 DEF OneAtATime, LeafInOnePlace
  <2>3. \A s, t \in T : s = t
    BY <2>2 DEF OnePlace, TransitionsOf, Trans
  <2>4. CASE T = {}
    BY <2>4, FS_EmptySet
  <2>5. CASE T # {}
    <3>1. PICK t \in T : TRUE
      BY <2>5
    <3>2. T = {t}
      BY <2>3, <3>1
    <3>3. Cardinality({t}) = 1
      BY FS_Singleton
    <3> HIDE DEF T
    <3>4. QED
      BY <3>2, <3>3 DEF T
  <2>6. QED
    BY <2>4, <2>5
<1>2. QED
  BY <1>1, OneAtATimeHolds, TypeCorrect, PTL

-----------------------------------------------------------------------------
(* The next instruction executed with an answer in the payload uses it up.  *)
UsesAnswer == io_recovery /\ (ExecMaxRounds \/ ExecInstruction) => ~io_recovery'

AnswersAreUsed == [][UsesAnswer]_vars

(* A suspended instruction stands under the cause that the chain records    *)
(* for its request, and an answer in the payload is that of a request of    *)
(* the instruction that is executed next.                                   *)
Asked ==
    \A r \in DOMAIN pending_io_instructions : IssuedBy(r, pending_io_instructions[r].cause)

Answered ==
    /\ io_recovery => /\ DOMAIN pending_io_instructions = {}
                      /\ causes # <<>>
                      /\ \A t \in IoType : io_results[t] # 0 => IssuedBy(io_results[t], Head(causes))
    /\ ~io_recovery => \A t \in IoType : io_results[t] = 0

Answers == Asked /\ Answered

(* The chain is never rewritten. *)
Grows(h, g) == \A k \in DOMAIN h : k \in DOMAIN g /\ g[k] = h[k]

LEMMA ChainGrows ==
    ASSUME TypeOK, [Next]_vars
    PROVE  Grows(log.facts, log'.facts)
<1>1. log.facts \in Seq(Fact)
  BY DEF TypeOK, Log
<1>2. ASSUME NEW h \in Seq(Fact), NEW f \in Fact PROVE Grows(h, Append(h, f)) /\ Grows(h, h)
  BY <1>2 DEF Grows
<1>3. CASE \E f \in Fact : Emit(f)
  BY <1>1, <1>2, <1>3, EmitHistory
<1>4. CASE \E f, g \in Fact, irq \in BOOLEAN : EmitBoth(f, g, irq)
  <2>1. PICK f \in Fact, g \in Fact, irq \in BOOLEAN : EmitBoth(f, g, irq)
    BY <1>4
  <2>2. PICK h : /\ h = log.facts \/ h = Append(log.facts, f)
                 /\ log'.facts = h \/ log'.facts = Append(h, g)
    BY <2>1, EmitBothHistory
  <2>3. h \in Seq(Fact)
    <3>1. Append(log.facts, f) \in Seq(Fact)
      BY <1>1
    <3>2. QED
      BY <1>1, <2>2, <3>1
  <2>4. Grows(log.facts, h) /\ Grows(h, log'.facts)
    BY <1>1, <1>2, <2>2, <2>3
  <2>5. QED
    BY <2>4 DEF Grows
<1>5. CASE log' = log
  BY <1>5 DEF Grows
<1>6. CASE ReactorStep
  BY <1>3, <1>4, <1>5, <1>6, ReactorOnChain DEF ChainStep, chain
<1>7. CASE Environment \/ UNCHANGED vars
  <2>1. log' = log
    BY <1>7 DEF Environment, SendCommand, SendPayloadUpdate, SendIoResponse, Send, Interrupt,
                CancelAll, CloseChannel, Tick, Restart, reactor, vars, chain
  <2>2. QED
    BY <1>5, <2>1
<1>8. QED
  BY <1>6, <1>7 DEF Next

LEMMA IssuedStays ==
    ASSUME TypeOK, [Next]_vars, NEW r, NEW c, IssuedBy(r, c)
    PROVE  IssuedBy(r, c)'
BY ChainGrows DEF IssuedBy, Grows

(* Steps that leave the answers alone, and the suspended instructions or    *)
(* some of them.                                                            *)
LEMMA AnswersKept ==
    ASSUME TypeOK, Answers, [Next]_vars,
           UNCHANGED <<io_results, io_recovery>>,
           \A r \in DOMAIN pending_io_instructions' :
               /\ r \in DOMAIN pending_io_instructions
               /\ pending_io_instructions'[r] = pending_io_instructions[r],
           io_recovery => causes' # <<>> /\ Head(causes') = Head(causes)
    PROVE  Answers'
<1>1. Asked'
  BY IssuedStays DEF Answers, Asked
<1>2. CASE io_recovery
  <2>1. DOMAIN pending_io_instructions' = {}
    BY <1>2 DEF Answers, Answered
  <2>2. ASSUME NEW t \in IoType, io_results'[t] # 0
        PROVE  IssuedBy(io_results[t], Head(causes))'
    BY <1>2, <2>2, IssuedStays DEF Answers, Answered
  <2>3. QED
    BY <1>1, <1>2, <2>1, <2>2 DEF Answers, Answered
<1>3. CASE ~io_recovery
  BY <1>1, <1>3 DEF Answers, Answered
<1>4. QED
  BY <1>2, <1>3

(* An answer is handed to the instruction that waits for it: nothing else   *)
(* is in __io_results__ while a request is pending.                         *)
LEMMA ResultAnswers ==
    ASSUME TypeOK, PendingConsistent, Answers, [Next]_vars,
           NEW f \in Fact, NEW next, HandleResult(f, next)
    PROVE  Answers'
<1> DEFINE r == f.request
           saved == pending_io_instructions[r]
<1>1. r \in DOMAIN pending_requests /\ r \in DOMAIN pending_io_instructions
  BY DEF HandleResult, PendingConsistent
<1>2. /\ io_recovery' = TRUE /\ causes' = <<saved.cause>> \o causes
      /\ io_results' = [io_results EXCEPT ![pending_requests[r]] = r]
      /\ complete_io_request(r) /\ take_io_instruction(r)
  BY <1>1 DEF HandleResult, push_front
<1>3. DOMAIN pending_io_instructions' = {}
  BY <1>1, <1>2, CompletePending
<1>4. causes \in Seq(Nat) /\ saved.cause \in Nat
  <2>1. saved \in [item : Item, cause : Nat]
    BY <1>1 DEF TypeOK, OfRequests
  <2>2. QED
    BY <2>1 DEF TypeOK
<1>5. causes' # <<>> /\ Head(causes') = saved.cause
  <2> HIDE DEF saved
  <2> QED BY <1>2, <1>4
<1>6. ~io_recovery /\ \A t \in IoType : io_results[t] = 0
  BY <1>1 DEF Answers, Answered
<1>7. \A t \in IoType : io_results'[t] # 0 => io_results'[t] = r
  BY <1>2, <1>6 DEF TypeOK
<1>8. \E k \in DOMAIN log'.facts : log'.facts[k] = IoRequestFact(r, saved.cause)
  <2>1. PICK k \in DOMAIN log.facts : log.facts[k] = IoRequestFact(r, saved.cause)
    BY <1>1 DEF Answers, Asked, IssuedBy
  <2>2. QED
    BY <2>1, ChainGrows DEF Grows
<1>9. ASSUME NEW t \in IoType, io_results'[t] # 0
      PROVE  IssuedBy(io_results[t], Head(causes))'
  <2> HIDE DEF saved, r
  <2> QED BY <1>5, <1>7, <1>8, <1>9 DEF IssuedBy
<1>10. QED
  BY <1>2, <1>3, <1>5, <1>9 DEF Answers, Asked, Answered

LEMMA ReceiveAnswers ==
    ASSUME TypeOK, PendingConsistent, Answers, [Next]_vars, NEW next, Receive(next)
    PROVE  Answers'
<1> DEFINE f == Head(chan)
<1>1. f \in Fact
  BY DEF Receive, TypeOK
<1>2. CASE HandleCommand(f, next)
  <2>1. /\ causes' = Append(causes, f.id)
        /\ UNCHANGED <<io_results, io_recovery, pending_io_instructions>>
    BY <1>2 DEF HandleCommand, push_back, results, pending
  <2>2. causes \in Seq(Nat) /\ f.id \in Nat
    BY <1>1, <1>2 DEF HandleCommand, Fact, TypeOK
  <2>3. io_recovery => causes # <<>>
    BY DEF Answers, Answered
  <2>4. io_recovery => causes' # <<>> /\ Head(causes') = Head(causes)
    BY <2>1, <2>2, <2>3
  <2>5. QED
    BY <2>1, <2>4, AnswersKept
<1>3. CASE HandleUpdate(f, next) \/ HandleRejectedUpdate(f) \/ HandleStaleResponse(f, next)
  <2>1. UNCHANGED <<causes, io_results, io_recovery, pending_io_instructions>>
    BY <1>3 DEF HandleUpdate, HandleRejectedUpdate, HandleStaleResponse, work, results, pending
  <2>2. QED
    BY <2>1, AnswersKept DEF Answers, Answered
<1>4. CASE HandleEmptyResponse(f, next) \/ HandleRefusedResult(f)
  <2>1. UNCHANGED <<causes, io_results, io_recovery>>
    BY <1>4 DEF HandleEmptyResponse, HandleRefusedResult, work, results
  <2>2. DOMAIN pending_io_instructions' = {}
    BY <1>4, CompletePending DEF HandleEmptyResponse, HandleRefusedResult
  <2>3. QED
    BY <2>1, <2>2, AnswersKept DEF Answers, Answered
<1>5. CASE HandleResult(f, next)
  BY <1>1, <1>5, ResultAnswers
<1>6. QED
  BY <1>2, <1>3, <1>4, <1>5 DEF Receive

(* A request goes on the chain under the cause its instruction is kept with. *)
LEMMA RequestAnswers ==
    ASSUME TypeOK, Answers, WalOutcomes = {TRUE}, ~io_recovery, [Next]_vars, queue # <<>>,
           NEW res \in Outcomes, ExecIoRequired(res)
    PROVE  Answers'
<1> DEFINE f == IoRequestFact(next_request, PoppedCause)
<1>1. /\ log' = LogAppend(log, f)
      /\ UNCHANGED <<io_results, io_recovery>>
      /\ pending_io_instructions' =
           [x \in DOMAIN pending_io_instructions \cup {next_request} |->
              IF x = next_request THEN [item |-> Head(queue), cause |-> PoppedCause]
              ELSE pending_io_instructions[x]]
  BY HealthyEmit DEF ExecIoRequired, save_io_instruction, results
<1>2. f \in Fact /\ log.facts \in Seq(Fact)
  <2>1. PoppedCause \in Nat /\ next_request \in Nat
    BY PopType DEF TypeOK
  <2>2. QED
    BY <2>1, FactsAreFacts DEF TypeOK, Log
<1>3. log'.facts = Append(log.facts, f)
  BY <1>1 DEF LogAppend
<1>4. Len(log.facts) + 1 \in DOMAIN log'.facts /\ log'.facts[Len(log.facts) + 1] = f
  <2> HIDE DEF f
  <2> QED BY <1>2, <1>3
<1>5. ASSUME NEW r \in DOMAIN pending_io_instructions'
      PROVE  \E k \in DOMAIN log'.facts :
                log'.facts[k] = IoRequestFact(r, pending_io_instructions'[r].cause)
  <2>1. CASE r = next_request
    BY <1>1, <1>4, <2>1
  <2>2. CASE r # next_request
    <3>1. r \in DOMAIN pending_io_instructions
          /\ pending_io_instructions'[r] = pending_io_instructions[r]
      BY <1>1, <1>5, <2>2
    <3>2. PICK k \in DOMAIN log.facts :
            log.facts[k] = IoRequestFact(r, pending_io_instructions[r].cause)
      BY <3>1 DEF Answers, Asked, IssuedBy
    <3>3. k \in DOMAIN log'.facts /\ log'.facts[k] = log.facts[k]
      BY <3>2, ChainGrows DEF Grows
    <3>4. QED
      BY <3>1, <3>2, <3>3
  <2>3. QED
    BY <2>1, <2>2
<1>6. Asked'
  BY <1>5 DEF Asked, IssuedBy
<1>7. QED
  BY <1>1, <1>6 DEF Answers, Answered

LEMMA ExecAnswers ==
    ASSUME TypeOK, Answers, WalOutcomes = {TRUE}, [Next]_vars, UsesAnswer, ExecInstruction
    PROVE  Answers'
<1>1. queue # <<>>
  BY DEF ExecInstruction, CanExec
<1>2. PICK res \in Outcomes :
        \/ ExecState(res) \/ ExecOverflow(res) \/ ExecIgnored(res) \/ ExecHalted(res)
        \/ ExecUnknownIo(res) \/ ExecErr(res) \/ ExecIoRequired(res)
  BY DEF ExecInstruction
<1>3. io_recovery => ~io_recovery'
  BY DEF UsesAnswer
<1>4. CASE ExecState(res) \/ ExecOverflow(res)
  <2>1. UNCHANGED pending_io_instructions
    BY <1>4 DEF ExecState, ExecOverflow, pending
  <2>2. Asked'
    BY <2>1, IssuedStays DEF Answers, Asked
  <2>3. CASE io_recovery
    <3>1. io_results' = NoResults /\ ~io_recovery'
      BY <1>3, <1>4, <2>3 DEF ExecState, ExecOverflow, clear_io_recovery
    <3>2. QED
      BY <2>2, <3>1 DEF Answers, Answered, NoResults
  <2>4. CASE ~io_recovery
    <3>1. io_results' = Consumed(res) /\ ~io_recovery'
      BY <1>4, <2>4 DEF ExecState, ExecOverflow
    <3>2. \A t \in IoType : io_results'[t] = 0
      BY <2>4, <3>1 DEF Consumed, Answers, Answered
    <3>3. QED
      BY <2>2, <3>1, <3>2 DEF Answers, Answered
  <2>5. QED
    BY <2>3, <2>4
<1>5. CASE ExecIgnored(res) \/ ExecHalted(res) \/ ExecUnknownIo(res) \/ ExecErr(res)
  <2>1. UNCHANGED <<io_results, io_recovery, pending_io_instructions>>
    BY <1>5 DEF ExecIgnored, ExecHalted, ExecUnknownIo, ExecErr, Drop, results, pending
  <2>2. ~io_recovery
    BY <1>3, <2>1
  <2>3. QED
    BY <2>1, <2>2, AnswersKept
<1>6. CASE ExecIoRequired(res)
  <2>1. ~io_recovery
    BY <1>3, <1>6 DEF ExecIoRequired, results
  <2>2. QED
    BY <1>1, <1>6, <2>1, RequestAnswers
<1>7. QED
  BY <1>2, <1>4, <1>5, <1>6

LEMMA AnswersStep ==
    ASSUME TypeOK, PendingConsistent, Answers, WalOutcomes = {TRUE}, [Next]_vars,
           [UsesAnswer]_vars
    PROVE  Answers'
<1>1. CASE ExecMaxRounds
  <2>1. UNCHANGED <<io_results, io_recovery, pending_io_instructions>>
    BY <1>1 DEF ExecMaxRounds, results, pending
  <2>2. CASE UsesAnswer
    <3>1. ~io_recovery
      BY <1>1, <2>1, <2>2 DEF UsesAnswer
    <3>2. QED
      BY <2>1, <3>1, AnswersKept
  <2>3. CASE UNCHANGED vars
    BY <2>3, AnswersKept DEF vars, work, results, pending, Answers, Answered
  <2>4. QED
    BY <2>2, <2>3
<1>2. CASE SweepRequest
  <2>1. PICK r \in sweep : force_remove_io_request(r)
    BY <1>2 DEF SweepRequest
  <2>2. r \in DOMAIN pending_requests
    BY DEF PendingConsistent
  <2>3. DOMAIN pending_io_instructions' = {}
    BY <2>1, <2>2, CompletePending DEF force_remove_io_request
  <2>4. UNCHANGED <<causes, io_results, io_recovery>>
    BY <1>2 DEF SweepRequest, work, results
  <2>5. QED
    BY <2>3, <2>4, AnswersKept DEF Answers, Answered
<1>3. CASE DrainFact \/ AwaitFact
  BY <1>3, ReceiveAnswers DEF DrainFact, AwaitFact
<1>4. CASE Restart
  <2>1. io_results' = NoResults /\ ~io_recovery' /\ DOMAIN pending_io_instructions' = {}
    BY <1>4 DEF Restart
  <2>2. QED
    BY <2>1 DEF Answers, Asked, Answered, NoResults
<1>5. CASE \/ HeadInterrupt \/ HeadCancel \/ HeadDrain \/ SweepDone \/ DrainClosed
           \/ DrainStable \/ DrainDone \/ AwaitClosed \/ AwaitTimeout \/ ExecDone
           \/ SendCommand \/ SendPayloadUpdate \/ SendIoResponse \/ Interrupt
           \/ CancelAll \/ CloseChannel \/ Tick \/ UNCHANGED vars
  <2>1. UNCHANGED <<causes, io_results, io_recovery, pending_io_instructions>>
    BY <1>5 DEF HeadInterrupt, HeadCancel, HeadDrain, SweepDone, DrainClosed, DrainStable,
                DrainDone, AwaitClosed, AwaitTimeout, ExecDone, Stop, SendCommand,
                SendPayloadUpdate, SendIoResponse, Send, Interrupt, CancelAll, CloseChannel,
                Tick, reactor, vars, work, results, pending
  <2>2. QED
    BY <2>1, AnswersKept DEF Answers, Answered
<1>6. CASE ExecInstruction
  <2>1. CASE UsesAnswer
    BY <1>6, <2>1, ExecAnswers
  <2>2. CASE UNCHANGED vars
    BY <1>5, <2>2
  <2>3. QED
    BY <2>1, <2>2
<1>7. QED
  BY <1>1, <1>2, <1>3, <1>4, <1>5, <1>6 DEF Next, ReactorStep, Environment

(* On a log that takes every write, and as long as each answer is used up   *)
(* by the first instruction executed after it, an I/O result is used up by  *)
(* the command that asked for it: the transition that removes a result from *)
(* the payload is attributed to the command whose IoRequest it answers,     *)
(* through late and duplicated answers, timeouts, cancels and restarts      *)
(* (take_io_instruction, push_front with its cause, clear_io_recovery).     *)
LEMMA AnswersGoToRequesters ==
    ASSUME WalOutcomes = {TRUE}
    PROVE  Spec /\ AnswersAreUsed => ResultGoesToRequester
<1> DEFINE Goes == \A t \in IoType :
                      io_results[t] # 0 /\ io_results'[t] = 0 /\ version' > version
                      => IssuedBy(io_results[t], PoppedCause)
<1>1. Init => Answers
  BY DEF Init, Answers, Asked, Answered, NoResults
<1>2. TypeOK /\ PendingConsistent /\ Answers /\ [Next]_vars /\ [UsesAnswer]_vars => Answers'
  BY AnswersStep
<1>3. Answers => [Goes]_vars
  BY DEF Answers, Answered, PoppedCause
<1>4. QED
  BY <1>1, <1>2, <1>3, TypeCorrect, PendingIsConsistent, PTL
     DEF Spec, AnswersAreUsed, ResultGoesToRequester

-----------------------------------------------------------------------------
(* Rules written in the two-path idiom: an instruction that may ask for an  *)
(* io_type transitions when the result of that type, and no other, is there. *)
AskingFor(i, t) ==
    /\ t \in KnownIoTypes
    /\ \E d \in Data, S \in SUBSET IoType :
          \E res \in Transition(i, d, S) : res.kind = "IoRequired" /\ res.io_type = t

TwoPathRules ==
    \A i \in Instruction, d \in Data, t \in IoType :
        AskingFor(i, t) => \A res \in Transition(i, d, {t}) : res.kind = "State"

(* The round limit is not reached between an answer and its use. *)
RoundsLeft == ExecMaxRounds => ~io_recovery

RoundsSuffice == [][RoundsLeft]_vars

(* Whoever waits for an answer has asked for it, and while an answer is in  *)
(* the payload it is the only one and the next instruction the one that     *)
(* asked for it.                                                            *)
Waiting ==
    \A r \in DOMAIN pending_io_instructions :
        AskingFor(pending_io_instructions[r].item.instr, pending_requests[r])

Ready ==
    io_recovery =>
        /\ queue # <<>>
        /\ \E t \in IoType : /\ AskingFor(Head(queue).instr, t)
                             /\ {u \in IoType : io_results[u] # 0} = {t}

Resumes == Waiting /\ Ready

LEMMA ResumesKept ==
    ASSUME Resumes,
           UNCHANGED <<io_results, io_recovery>>,
           \A r \in DOMAIN pending_io_instructions' :
               /\ r \in DOMAIN pending_io_instructions
               /\ pending_io_instructions'[r] = pending_io_instructions[r]
               /\ pending_requests'[r] = pending_requests[r],
           io_recovery => queue' # <<>> /\ Head(queue') = Head(queue)
    PROVE  Resumes'
<1>1. Waiting'
  BY DEF Resumes, Waiting, AskingFor
<1>2. Ready'
  BY DEF Resumes, Ready, AskingFor
<1>3. QED
  BY <1>1, <1>2 DEF Resumes

(* A resumed instruction transitions, and its transition uses the answer. *)
LEMMA ResumedUses ==
    ASSUME TypeOK, Resumes, MaxQueueLen = 0, TwoPathRules, io_recovery, ExecInstruction
    PROVE  ~io_recovery'
<1>1. PICK t \in IoType : /\ queue # <<>>
                          /\ AskingFor(Head(queue).instr, t)
                          /\ {u \in IoType : io_results[u] # 0} = {t}
  BY DEF Resumes, Ready
<1>2. Head(queue).instr \in Instruction /\ data \in Data
  BY <1>1, PopType DEF TypeOK, Item
<1>3. \A res \in Outcomes : res.kind = "State"
  BY <1>1, <1>2 DEF Outcomes, TwoPathRules
<1>4. PICK res \in Outcomes : ExecState(res) \/ ExecOverflow(res)
  BY <1>3 DEF ExecInstruction, ExecIgnored, ExecHalted, ExecUnknownIo, ExecErr, ExecIoRequired
<1>5. ~ExecOverflow(res)
  BY DEF ExecOverflow, Overflows
<1>6. QED
  BY <1>4, <1>5 DEF ExecState, clear_io_recovery

LEMMA ResultResumes ==
    ASSUME TypeOK, PendingConsistent, Answers, Resumes,
           NEW f \in Fact, NEW next, HandleResult(f, next)
    PROVE  Resumes'
<1> DEFINE r == f.request
           saved == pending_io_instructions[r]
           t == pending_requests[r]
<1>1. r \in DOMAIN pending_requests /\ r \in DOMAIN pending_io_instructions
  BY DEF HandleResult, PendingConsistent
<1>2. /\ io_recovery' = TRUE /\ queue' = <<saved.item>> \o queue
      /\ io_results' = [io_results EXCEPT ![t] = r]
      /\ complete_io_request(r) /\ take_io_instruction(r)
  BY <1>1 DEF HandleResult, push_front
<1>3. DOMAIN pending_io_instructions' = {}
  BY <1>1, <1>2, CompletePending
<1>4. queue \in Seq(Item) /\ saved.item \in Item /\ t \in IoType /\ r # 0
  <2>1. saved \in [item : Item, cause : Nat] /\ t \in IoType /\ r \in 1 .. next_request - 1
    BY <1>1 DEF TypeOK, OfRequests
  <2>2. queue \in Seq(Item) /\ next_request \in Nat
    BY DEF TypeOK
  <2>3. QED
    BY <2>1, <2>2
<1>5. queue' # <<>> /\ Head(queue') = saved.item
  <2> HIDE DEF saved
  <2> QED BY <1>2, <1>4
<1>6. \A u \in IoType : io_results[u] = 0
  BY <1>1 DEF Answers, Answered
<1>7. {u \in IoType : io_results'[u] # 0} = {t}
  <2> HIDE DEF t, r
  <2> QED BY <1>2, <1>4, <1>6 DEF TypeOK
<1>8. AskingFor(saved.item.instr, t)
  BY <1>1 DEF Resumes, Waiting
<1>9. AskingFor(Head(queue').instr, t)
  BY <1>5, <1>8
<1>10. Ready'
  <2> HIDE DEF t, saved
  <2> QED BY <1>4, <1>5, <1>7, <1>9 DEF Ready, AskingFor
<1>11. QED
  BY <1>3, <1>10 DEF Resumes, Waiting

LEMMA ReceiveResumes ==
    ASSUME TypeOK, PendingConsistent, Answers, Resumes, NEW next, Receive(next)
    PROVE  Resumes'
<1> DEFINE f == Head(chan)
<1>1. f \in Fact
  BY DEF Receive, TypeOK
<1>2. CASE HandleCommand(f, next)
  <2> DEFINE item == [instr |-> f.instr, from |-> f.id]
  <2>1. /\ queue' = Append(queue, item)
        /\ UNCHANGED <<io_results, io_recovery, pending_io_instructions, pending_requests>>
    BY <1>2 DEF HandleCommand, push_back, results, pending
  <2>2. queue \in Seq(Item) /\ item \in Item
    BY <1>1, <1>2 DEF HandleCommand, Fact, Item, TypeOK
  <2>3. io_recovery => queue # <<>>
    BY DEF Resumes, Ready
  <2>4. io_recovery => queue' # <<>> /\ Head(queue') = Head(queue)
    <3> HIDE DEF item
    <3> QED BY <2>1, <2>2, <2>3
  <2>5. QED
    BY <2>1, <2>4, ResumesKept
<1>3. CASE HandleUpdate(f, next) \/ HandleRejectedUpdate(f) \/ HandleStaleResponse(f, next)
  <2>1. UNCHANGED <<queue, io_results, io_recovery, pending_io_instructions, pending_requests>>
    BY <1>3 DEF HandleUpdate, HandleRejectedUpdate, HandleStaleResponse, work, results, pending
  <2>2. QED
    BY <2>1, ResumesKept DEF Resumes, Ready
<1>4. CASE HandleEmptyResponse(f, next) \/ HandleRefusedResult(f)
  <2>1. UNCHANGED <<queue, io_results, io_recovery>>
    BY <1>4 DEF HandleEmptyResponse, HandleRefusedResult, work, results
  <2>2. DOMAIN pending_io_instructions' = {}
    BY <1>4, CompletePending DEF HandleEmptyResponse, HandleRefusedResult
  <2>3. QED
    BY <2>1, <2>2, ResumesKept DEF Resumes, Ready
<1>5. CASE HandleResult(f, next)
  BY <1>1, <1>5, ResultResumes
<1>6. QED
  BY <1>2, <1>3, <1>4, <1>5 DEF Receive

LEMMA ExecResumes ==
    ASSUME TypeOK, PendingConsistent, Resumes, io_recovery => ~io_recovery', ExecInstruction
    PROVE  Resumes'
<1>1. queue # <<>> /\ pending_io_count = 0
  BY DEF ExecInstruction, CanExec
<1>2. PICK res \in Outcomes :
        \/ ExecState(res) \/ ExecOverflow(res) \/ ExecIgnored(res) \/ ExecHalted(res)
        \/ ExecUnknownIo(res) \/ ExecErr(res) \/ ExecIoRequired(res)
  BY DEF ExecInstruction
<1>3. CASE \/ ExecState(res) \/ ExecOverflow(res) \/ ExecIgnored(res) \/ ExecHalted(res)
           \/ ExecUnknownIo(res) \/ ExecErr(res)
  <2>1. UNCHANGED <<pending_io_instructions, pending_requests>> /\ ~io_recovery'
    BY <1>3 DEF ExecState, ExecOverflow, ExecIgnored, ExecHalted, ExecUnknownIo, ExecErr, Drop,
                pending, results, clear_io_recovery
  <2>2. QED
    BY <2>1 DEF Resumes, Waiting, Ready, AskingFor
<1>4. CASE ExecIoRequired(res)
  <2>1. /\ pending_requests' = [x \in DOMAIN pending_requests \cup {next_request} |->
                                  IF x = next_request THEN res.io_type ELSE pending_requests[x]]
        /\ pending_io_instructions' =
             [x \in DOMAIN pending_io_instructions \cup {next_request} |->
                IF x = next_request THEN [item |-> Head(queue), cause |-> PoppedCause]
                ELSE pending_io_instructions[x]]
        /\ ~io_recovery'
        /\ res.kind = "IoRequired" /\ res.io_type \in KnownIoTypes
    BY <1>4 DEF ExecIoRequired, register_io_request, save_io_instruction, results
  <2>2. Head(queue).instr \in Instruction /\ data \in Data
    BY <1>1, PopType DEF TypeOK, Item
  <2>3. AskingFor(Head(queue).instr, res.io_type)
    <3>1. {u \in IoType : io_results[u] # 0} \in SUBSET IoType
      OBVIOUS
    <3>2. QED
      BY <2>1, <2>2, <3>1 DEF AskingFor, Outcomes
  <2>4. ASSUME NEW r \in DOMAIN pending_io_instructions'
        PROVE  AskingFor(pending_io_instructions'[r].item.instr, pending_requests'[r])
    <3>1. CASE r = next_request
      BY <2>1, <2>3, <3>1
    <3>2. CASE r # next_request
      <4>1. r \in DOMAIN pending_io_instructions /\ r \in DOMAIN pending_requests
        BY <2>1, <2>4, <3>2 DEF PendingConsistent
      <4>2. /\ pending_io_instructions'[r] = pending_io_instructions[r]
            /\ pending_requests'[r] = pending_requests[r]
        BY <2>1, <3>2, <4>1
      <4>3. QED
        BY <4>1, <4>2 DEF Resumes, Waiting
    <3>3. QED
      BY <3>1, <3>2
  <2>5. Waiting'
    BY <2>4 DEF Waiting, AskingFor
  <2>6. QED
    BY <2>1, <2>5 DEF Resumes, Ready
<1>5. QED
  BY <1>2, <1>3, <1>4

LEMMA ResumesStep ==
    ASSUME TypeOK, PendingConsistent, Answers, Resumes, MaxQueueLen = 0, TwoPathRules,
           [Next]_vars, [RoundsLeft]_vars
    PROVE  Resumes' /\ [UsesAnswer]_vars
<1>1. CASE UNCHANGED vars
  <2>1. UNCHANGED <<queue, io_results, io_recovery, pending_io_instructions, pending_requests>>
    BY <1>1 DEF vars, work, results, pending
  <2>2. QED
    BY <1>1, <2>1, ResumesKept DEF Resumes, Ready
<1>2. CASE Next /\ RoundsLeft
  <2>1. UsesAnswer
    BY <1>2, ResumedUses DEF RoundsLeft, UsesAnswer
  <2>2. CASE ExecInstruction
    BY <2>1, <2>2, ExecResumes DEF UsesAnswer
  <2>3. CASE ExecMaxRounds
    <3>1. ~io_recovery
      BY <1>2, <2>3 DEF RoundsLeft
    <3>2. UNCHANGED <<io_results, io_recovery, pending_io_instructions, pending_requests>>
      BY <2>3 DEF ExecMaxRounds, results, pending
    <3>3. QED
      BY <2>1, <3>1, <3>2, ResumesKept
  <2>4. CASE SweepRequest
    <3>1. PICK r \in sweep : force_remove_io_request(r)
      BY <2>4 DEF SweepRequest
    <3>2. r \in DOMAIN pending_requests
      BY DEF PendingConsistent
    <3>3. DOMAIN pending_io_instructions' = {}
      BY <3>1, <3>2, CompletePending DEF force_remove_io_request
    <3>4. UNCHANGED <<queue, io_results, io_recovery>>
      BY <2>4 DEF SweepRequest, work, results
    <3>5. QED
      BY <2>1, <3>3, <3>4, ResumesKept DEF Resumes, Ready
  <2>5. CASE DrainFact \/ AwaitFact
    BY <2>1, <2>5, ReceiveResumes DEF DrainFact, AwaitFact
  <2>6. CASE Restart
    <3>1. ~io_recovery' /\ DOMAIN pending_io_instructions' = {}
      BY <2>6 DEF Restart
    <3>2. QED
      BY <2>1, <3>1 DEF Resumes, Waiting, Ready
  <2>7. CASE \/ HeadInterrupt \/ HeadCancel \/ HeadDrain \/ SweepDone \/ DrainClosed
             \/ DrainStable \/ DrainDone \/ AwaitClosed \/ AwaitTimeout \/ ExecDone
             \/ SendCommand \/ SendPayloadUpdate \/ SendIoResponse \/ Interrupt
             \/ CancelAll \/ CloseChannel \/ Tick
    <3>1. UNCHANGED <<queue, io_results, io_recovery, pending_io_instructions, pending_requests>>
      BY <2>7 DEF HeadInterrupt, HeadCancel, HeadDrain, SweepDone, DrainClosed, DrainStable,
                  DrainDone, AwaitClosed, AwaitTimeout, ExecDone, Stop, SendCommand,
                  SendPayloadUpdate, SendIoResponse, Send, Interrupt, CancelAll, CloseChannel,
                  Tick, reactor, work, results, pending
    <3>2. QED
      BY <2>1, <3>1, ResumesKept DEF Resumes, Ready
  <2>8. QED
    BY <1>2, <2>2, <2>3, <2>4, <2>5, <2>6, <2>7 DEF Next, ReactorStep, Environment
<1>3. QED
  BY <1>1, <1>2

(* For rules in the two-path idiom, without a queue limit and on a log that *)
(* takes every write, only the round limit can part an answer from the      *)
(* command that asked for it: as long as it does not fall between an answer *)
(* and its use, every I/O result goes to its requester (the State branch of *)
(* run, handle_fact on IoResponse).                                         *)
THEOREM TwoPathRulesGetTheirAnswers ==
    ASSUME WalOutcomes = {TRUE}, MaxQueueLen = 0, TwoPathRules
    PROVE  Spec /\ RoundsSuffice => ResultGoesToRequester
<1>1. Init => Answers /\ Resumes
  BY DEF Init, Answers, Asked, Answered, NoResults, Resumes, Waiting, Ready
<1>2. /\ TypeOK /\ PendingConsistent /\ Answers /\ Resumes
      /\ [Next]_vars /\ [RoundsLeft]_vars
      => Answers' /\ Resumes' /\ [UsesAnswer]_vars
  BY ResumesStep, AnswersStep
<1>3. QED
  BY <1>1, <1>2, TypeCorrect, PendingIsConsistent, AnswersGoToRequesters, PTL
     DEF Spec, RoundsSuffice, AnswersAreUsed
=============================================================================
