----------------------------- MODULE Transition -----------------------------
(***************************************************************************)
(* One call of execute_transition (evorule-tcb/src/transition.rs and       *)
(* executor.rs): the rules of core_eval are run on an instruction, a       *)
(* payload and a queue, the enforce rules of the list first, the others    *)
(* after them, all on one budget.  The recursion into the branches is the  *)
(* stack of instructions still to be executed.                             *)
(*                                                                         *)
(* A payload is a function from its fields to values; paths of more than   *)
(* one segment are left out.  An operand [from, of] is a literal, a        *)
(* reference to a parameter of the instruction or to a field, or the       *)
(* instruction itself.                                                     *)
(***************************************************************************)
EXTENDS Integers, SequencesExt

CONSTANTS Field,
          MinInt, MaxInt,        \* i64
          Null, Text, Hollow,    \* JSON null, a string, an empty array
          Evaluate(_, _),        \* evaluate_domain_outcome: see Domain
          MaxTransformRules,     \* MAX_TRANSFORM_RULES
          MaxBranchDepth,        \* MAX_BRANCH_DEPTH
          MaxMetaInstructions,   \* MAX_TOTAL_META_INSTRUCTIONS
          Meta,                  \* the meta instructions the rules are made of
          Inputs                 \* the calls: [rules, instruction, payload, queue]

Integer == MinInt .. MaxInt
Value == Integer \cup {Null, Text, Hollow}

ASSUME TransitionAssumption ==
    /\ MinInt \in Int /\ MaxInt \in Int /\ MinInt <= 0 /\ 0 <= MaxInt
    /\ {Null, Text, Hollow} \cap Int = {}
    /\ {MaxTransformRules, MaxBranchDepth, MaxMetaInstructions} \subseteq Nat
    /\ \A c \in Inputs : c.rules \in Seq(Meta)
    /\ \A m \in Meta : m.type = "branch" => m.on_true \in Seq(Meta) /\ m.on_false \in Seq(Meta)

VARIABLES
    call,      \* the input
    pass,      \* "enforce", then "transform"
    index,     \* the rule of this pass that is next, or under way
    busy,      \* a rule is under way
    stack,     \* its instructions still to be executed, with their depth
    payload,   \* __exec__.payload
    queue,     \* __exec__.queue
    budget,
    done,      \* meta instructions executed
    hit,       \* hit_out of the rule under way
    hits,      \* the rules done, with their hit, in the order they were done
    result     \* of the call

exec  == <<payload, queue>>
rule  == <<pass, index, busy, hits>>
work  == <<budget, done>>
vars  == <<call, rule, stack, exec, work, hit, result>>

NoResult == [kind |-> "none"]
Err      == [kind |-> "Err"]

Init ==
    /\ call \in Inputs
    /\ pass = "enforce" /\ index = 1 /\ busy = FALSE /\ stack = <<>>
    /\ payload = call.payload /\ queue = call.queue
    /\ budget = MaxMetaInstructions /\ done = 0
    /\ hit = FALSE /\ hits = <<>>
    /\ result = IF Len(call.rules) > MaxTransformRules THEN Err ELSE NoResult

Running == result = NoResult

(* What a domain is evaluated on. *)
StateWith(p) == [type |-> call.instruction.type, payload |-> p]

-----------------------------------------------------------------------------
(* The rules of the list. *)

(* Mutant: the rules are run in the order of the list, in one pass. *)
InThisPassByPosition(r) == pass = "transform"

(* The enforce rules are run in the first pass and in that only. *)
InThisPass(r) == (r.type = "enforce") <=> (pass = "enforce")

SkipRule ==
    /\ Running /\ ~busy /\ index <= Len(call.rules) /\ ~InThisPass(call.rules[index])
    /\ index' = index + 1
    /\ UNCHANGED <<call, pass, busy, hits, stack, exec, work, hit, result>>

StartRule ==
    /\ Running /\ ~busy /\ index <= Len(call.rules) /\ InThisPass(call.rules[index])
    /\ busy' = TRUE /\ hit' = FALSE
    /\ stack' = <<[instr |-> call.rules[index], depth |-> 0]>>
    /\ UNCHANGED <<call, pass, index, hits, exec, work, result>>

EndRule ==
    /\ Running /\ busy /\ stack = <<>>
    /\ busy' = FALSE
    /\ hits' = Append(hits, [index |-> index, hit |-> hit])
    /\ index' = index + 1
    /\ UNCHANGED <<call, pass, stack, exec, work, hit, result>>

EndPass ==
    /\ Running /\ ~busy /\ index > Len(call.rules) /\ pass = "enforce"
    /\ pass' = "transform" /\ index' = 1
    /\ UNCHANGED <<call, busy, hits, stack, exec, work, hit, result>>

-----------------------------------------------------------------------------
(* Operands. *)

Params == call.instruction.params

CanResolve(o, p) ==
    \/ o.from \in {"lit", "self"}
    \/ o.from = "param" /\ o.of \in DOMAIN Params
    \/ o.from = "field" /\ o.of \in DOMAIN p

resolve_path_or_literal(o, p) ==
    CASE o.from = "lit"   -> o.of
      [] o.from = "param" -> Params[o.of]
      [] o.from = "field" -> p[o.of]
      [] o.from = "self"  -> <<call.instruction>>

-----------------------------------------------------------------------------
(* One meta instruction: each step takes it off the stack and one unit off  *)
(* the budget.                                                              *)

Instr == Head(stack).instr
Depth == Head(stack).depth

(* Mutant: every rule has a budget of its own. *)
SpendPerRule == budget' = IF Depth = 0 THEN MaxMetaInstructions - 1 ELSE budget - 1

Spend == budget' = budget - 1

(* Parameters without which an instruction fails; they are fields of its    *)
(* record.                                                                  *)
Required ==
    [set |-> {"attr", "operation", "value"}, push |-> {"instructions"}, branch |-> {"domain"},
     io_request |-> {"io_type"}, enforce |-> {"domain"}]
Supplied(m) == Required[m.type] \subseteq DOMAIN m

(* Of these an operation and an io_type must be strings and the pushed      *)
(* instructions an array; null stands for a value of any other type.        *)
Typed ==
    [set |-> {"operation"}, push |-> {"instructions"}, branch |-> {},
     io_request |-> {"io_type"}, enforce |-> {}]
HasParams(m) == Supplied(m) /\ \A p \in Typed[m.type] : m[p] # Null

Executes(type) ==
    /\ Running /\ stack # <<>> /\ budget > 0
    /\ Instr.type = type
    /\ Spend /\ done' = done + 1

(* The hit of a rule is that of its top instruction. *)
Hits(b) == hit' = IF Depth = 0 THEN b ELSE hit

Fails == result' = Err /\ UNCHANGED <<call, rule, stack, exec, hit>>

OutOfBudget ==
    /\ Running /\ stack # <<>> /\ budget = 0
    /\ result' = Err
    /\ UNCHANGED <<call, rule, stack, exec, work, hit>>

(* A missing field, like null, is zero. *)
Current(f) == IF f \notin DOMAIN payload \/ payload[f] = Null THEN 0 ELSE payload[f]

Sum(operation, a, b) == IF operation = "add" THEN a + b ELSE a - b

CanApply(operation, a, b) ==
    \/ operation = "set"
    \/ /\ operation \in {"add", "sub"} /\ a \in Integer /\ b \in Integer
       /\ Sum(operation, a, b) \in Integer

apply_set_operation(operation, a, b) ==
    IF operation = "set" THEN b ELSE Sum(operation, a, b)

ExecSet ==
    /\ Executes("set")
    /\ LET target  == resolve_path_or_literal(Instr.attr, payload)
           operand == resolve_path_or_literal(Instr.value, payload)
       IN  IF /\ HasParams(Instr)
              /\ CanResolve(Instr.attr, payload) /\ target \in Field
              /\ CanResolve(Instr.value, payload)
              /\ CanApply(Instr.operation, Current(target), operand)
           THEN /\ payload' = [f \in DOMAIN payload \cup {target} |->
                                 IF f = target
                                 THEN apply_set_operation(Instr.operation, Current(target), operand)
                                 ELSE payload[f]]
                /\ stack' = Tail(stack)
                /\ Hits(TRUE)
                /\ UNCHANGED <<call, rule, queue, result>>
           ELSE Fails

(* In front of the queue; a reference to a list is flattened. *)
Pushed(instrs) == FlattenSeq(instrs) \o queue

ExecPush ==
    /\ Executes("push")
    /\ IF /\ HasParams(Instr)
          /\ \A i \in DOMAIN Instr.instructions : CanResolve(Instr.instructions[i], payload)
       THEN /\ queue' = Pushed([i \in DOMAIN Instr.instructions |->
                                  resolve_path_or_literal(Instr.instructions[i], payload)])
            /\ stack' = Tail(stack)
            /\ Hits(TRUE)
            /\ UNCHANGED <<call, rule, payload, result>>
       ELSE Fails

(* Of a branch or an enforce rule. *)
Verdict(m, p) ==
    IF HasParams(m) /\ CanResolve(m.domain, p)
    THEN Evaluate(resolve_path_or_literal(m.domain, p), StateWith(p))
    ELSE "Err"

ExecBranch ==
    /\ Executes("branch")
    /\ LET verdict == Verdict(Instr, payload)
           chosen  == IF verdict = "Sat" THEN Instr.on_true ELSE Instr.on_false
       IN  IF Depth < MaxBranchDepth /\ verdict # "Err"
           THEN /\ stack' = [i \in DOMAIN chosen |-> [instr |-> chosen[i], depth |-> Depth + 1]]
                            \o Tail(stack)
                /\ Hits(chosen # <<>>)
                /\ UNCHANGED <<call, rule, exec, result>>
           ELSE Fails

(* A signal: what the rules have done so far is discarded. *)
Signals(r) ==
    /\ result' = r
    /\ Hits(TRUE)
    /\ UNCHANGED <<call, rule, stack, exec>>

(* A parameter that is not optional must resolve. *)
ExecIoRequest ==
    /\ Executes("io_request")
    /\ IF HasParams(Instr) /\ \A p \in Instr.params : p.optional \/ CanResolve(p.value, payload)
       THEN Signals([kind |-> "IoRequired", io_type |-> Instr.io_type])
       ELSE Fails

ExecEnforce ==
    /\ Executes("enforce")
    /\ LET verdict == Verdict(Instr, payload)
       IN  CASE verdict = "Sat" /\ Instr.reason ->
                  Signals([kind |-> "Halted", rule_index |-> index])
             [] verdict \in {"Unsat", "Missing"} ->
                  /\ stack' = Tail(stack)
                  /\ UNCHANGED <<call, rule, exec, hit, result>>
             [] OTHER -> Fails

ExecUnknown == Executes("unknown") /\ Fails

-----------------------------------------------------------------------------
(* The end. *)

(* A rule counts as one for the instruction when it names the instruction's *)
(* type, or when its domain is anything but "instruction" and "all"; a rule *)
(* without a domain of its own does not count.                              *)
Matches(r) ==
    /\ r.type \in {"branch", "enforce"} /\ HasParams(r) /\ r.domain.from = "lit"
    /\ IF r.domain.of.type = "instruction"
       THEN r.domain.of.instruction_type = call.instruction.type
       ELSE r.domain.of.type # "all"

(* The hits of both passes in the order of the rules. *)
RuleHits == SortSeq(hits, LAMBDA g, h : g.index < h.index)

Finish ==
    /\ Running /\ ~busy /\ index > Len(call.rules) /\ pass = "transform"
    /\ result' =
         IF /\ \A i \in DOMAIN call.rules : ~Matches(call.rules[i])
            /\ payload = call.payload /\ queue = call.queue
         THEN [kind |-> "Ignored", rule_hits |-> RuleHits]
         ELSE [kind |-> "State", payload |-> payload, queue |-> queue, rule_hits |-> RuleHits]
    /\ UNCHANGED <<call, rule, stack, exec, work, hit>>

Next ==
    \/ SkipRule \/ StartRule \/ EndRule \/ EndPass
    \/ OutOfBudget \/ ExecSet \/ ExecPush \/ ExecBranch \/ ExecIoRequest
    \/ ExecEnforce \/ ExecUnknown
    \/ Finish

Spec == Init /\ [][Next]_vars

-----------------------------------------------------------------------------
(***************************************************************************)
(* Properties.                                                             *)
(***************************************************************************)

(* A fault in the arithmetic leaves no value outside i64 in the payload,    *)
(* and what the machine keeps has its type.                                 *)
TypeOK ==
    /\ call \in Inputs
    /\ pass \in {"enforce", "transform"} /\ index \in 1 .. Len(call.rules) + 1
    /\ busy \in BOOLEAN /\ hit \in BOOLEAN
    /\ DOMAIN payload \subseteq Field /\ \A f \in DOMAIN payload : payload[f] \in Value
    /\ budget \in 0 .. MaxMetaInstructions /\ done \in Nat

Converged == result.kind \in {"State", "Ignored"}

(* Constraints come first: a transition that changes the state, asks for    *)
(* I/O or is ignored violates none of the enforce rules of the list, each   *)
(* judged on the input; no order of the rules and no earlier request for    *)
(* I/O keeps one from being judged.  And the violation reported is the      *)
(* first in the list.                                                       *)
ConstraintsComeFirst ==
    LET judged == CASE Converged \/ result.kind = "IoRequired" -> Len(call.rules)
                    [] result.kind = "Halted"                  -> result.rule_index - 1
                    [] OTHER                                   -> 0
    IN  \A i \in 1 .. judged :
            call.rules[i].type = "enforce" => Verdict(call.rules[i], call.payload) # "Sat"

(* The queue that was there is kept, behind what was pushed: the reactor    *)
(* derives the causes of the queue's instructions from that.                *)
QueueIsKept == IsSuffix(call.queue, queue)

(* All the rules of the list together execute no more instructions than the *)
(* budget, and no deeper than the limit.                                    *)
WorkIsBounded ==
    /\ done <= MaxMetaInstructions
    /\ \A i \in DOMAIN stack : stack[i].depth <= MaxBranchDepth

(* The attribution of a converged transition has one entry for every rule,  *)
(* in the order of the list.                                                *)
AttributionIsComplete ==
    Converged => /\ Len(result.rule_hits) = Len(call.rules)
                 /\ \A i \in DOMAIN call.rules : result.rule_hits[i].index = i

-----------------------------------------------------------------------------
(***************************************************************************)
(* What the comments and the tests say of a transition.                    *)
(***************************************************************************)

(* A direct rule of the instruction's type is a match: with it, an          *)
(* instruction without effect is not ignored.                               *)
DirectRulesMatch ==
    result.kind = "Ignored" =>
        \A i \in DOMAIN call.rules :
            call.rules[i].type = "set" => call.instruction.type # "set"
=============================================================================
