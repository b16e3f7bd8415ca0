-------------------------- MODULE TransitionProofs --------------------------
(***************************************************************************)
(* Proofs about execute_transition, for every list of rules, every domain  *)
(* evaluation and every value of the limits: the work of a call is         *)
(* bounded, the enforce rules of the list come before everything else, and *)
(* the validation of rules agrees with their execution.                    *)
(***************************************************************************)
EXTENDS RuleValidation, TLAPS

Frame == [instr : Meta, depth : 0 .. MaxBranchDepth]

(* The part of the state that the control of the two passes rests on. *)
ControlTypes ==
    /\ call \in Inputs
    /\ pass \in {"enforce", "transform"}
    /\ index \in 1 .. Len(call.rules) + 1
    /\ busy \in BOOLEAN
    /\ stack \in Seq(Frame)
    /\ busy => index <= Len(call.rules)
    /\ ~busy => stack = <<>>

(* Every meta instruction executed was paid for out of the one budget. *)
Paid ==
    /\ budget \in 0 .. MaxMetaInstructions
    /\ done \in Nat
    /\ done + budget = MaxMetaInstructions

(* An enforce rule of the list that the input does not violate. *)
Clear(i) ==
    call.rules[i].type = "enforce" => Verdict(call.rules[i], call.payload) # "Sat"

(* The first pass has not touched the payload, executes the enforce rule    *)
(* that is under way and nothing else, and has found clear the rules before *)
(* it; the second pass begins when all of them are.                         *)
FirstPass ==
    /\ Running /\ pass = "enforce" =>
         /\ payload = call.payload
         /\ \A i \in 1 .. index - 1 : Clear(i)
         /\ busy => /\ call.rules[index].type = "enforce"
                    /\ \/ stack = <<[instr |-> call.rules[index], depth |-> 0]>>
                       \/ stack = <<>> /\ Clear(index)
    /\ pass = "transform" => \A i \in 1 .. Len(call.rules) : Clear(i)

IInv == ControlTypes /\ Paid /\ FirstPass /\ ConstraintsComeFirst

-----------------------------------------------------------------------------
(* The frames a branch pushes are frames. *)
LEMMA PushedFrames ==
    ASSUME NEW list \in Seq(Meta), NEW d \in 0 .. MaxBranchDepth, NEW rest \in Seq(Frame)
    PROVE  [i \in DOMAIN list |-> [instr |-> list[i], depth |-> d]] \o rest \in Seq(Frame)
<1> DEFINE fs == [i \in DOMAIN list |-> [instr |-> list[i], depth |-> d]]
<1>1. DOMAIN fs = 1 .. Len(list) /\ Len(list) \in Nat
  OBVIOUS
<1>2. \A i \in 1 .. Len(list) : fs[i] \in Frame
  BY DEF Frame
<1>3. fs \in Seq(Frame)
  BY <1>1, <1>2
<1> QED BY <1>3

(* What a step that executes a meta instruction does to the stack. *)
LEMMA ExecutesFrame ==
    ASSUME ControlTypes, stack # <<>>
    PROVE  /\ busy /\ Instr \in Meta /\ Depth \in 0 .. MaxBranchDepth
           /\ Tail(stack) \in Seq(Frame)
           /\ index \in 1 .. Len(call.rules)
<1>1. busy /\ index \in 1 .. Len(call.rules)
  BY TransitionAssumption DEF ControlTypes
<1>2. Head(stack) \in Frame /\ Tail(stack) \in Seq(Frame)
  BY DEF ControlTypes
<1> QED BY <1>1, <1>2 DEF Frame, Instr, Depth

(* The initial states satisfy the invariant. *)
LEMMA InitIInv == Init => IInv
<1> SUFFICES ASSUME Init PROVE IInv
  OBVIOUS
<1> USE TransitionAssumption
<1>1. ControlTypes
  <2>1. call.rules \in Seq(Meta) /\ Len(call.rules) \in Nat
    BY DEF Init
  <2>2. 1 \in 1 .. Len(call.rules) + 1 /\ <<>> \in Seq(Frame)
    BY <2>1
  <2> QED BY <2>2 DEF Init, ControlTypes
<1>2. Paid
  BY DEF Init, Paid
<1>3. FirstPass
  BY DEF Init, FirstPass
<1>4. result.kind \in {"none", "Err"}
  BY DEF Init, NoResult, Err
<1>5. ConstraintsComeFirst
  BY <1>4 DEF ConstraintsComeFirst, Converged
<1> QED BY <1>1, <1>2, <1>3, <1>5 DEF IInv

-----------------------------------------------------------------------------
(* Whether a rule is clear depends on the input only. *)
LEMMA ClearIsKept ==
    ASSUME call' = call, NEW i
    PROVE  Clear(i)' <=> Clear(i)
BY DEF Clear, Verdict, CanResolve, resolve_path_or_literal, Params, StateWith

(* What a result says of the enforce rules, in terms of Clear. *)
JudgedUpTo(r, n) ==
    CASE r.kind \in {"State", "Ignored", "IoRequired"} -> Len(call.rules)
      [] r.kind = "Halted" -> n
      [] OTHER -> 0

LEMMA FirstMeansClear ==
    ConstraintsComeFirst <=> \A i \in 1 .. JudgedUpTo(result, result.rule_index - 1) : Clear(i)
BY DEF ConstraintsComeFirst, Converged, JudgedUpTo, Clear

(* A step that leaves the input alone and reports nothing about the enforce *)
(* rules, or that reports with all of them clear, keeps the constraints     *)
(* first.                                                                   *)
LEMMA FirstIsKept ==
    ASSUME call' = call,
           ConstraintsComeFirst,
           \/ result' = result
           \/ result'.kind = "Err"
           \/ /\ result'.kind \in {"State", "Ignored", "IoRequired", "Halted"}
              /\ \A i \in 1 .. JudgedUpTo(result', result'.rule_index - 1) : Clear(i)
    PROVE  ConstraintsComeFirst'
<1>1. \A i : Clear(i)' <=> Clear(i)
  BY ClearIsKept
<1>2. (\A i \in 1 .. JudgedUpTo(result, result.rule_index - 1) : Clear(i))'
      <=> \A i \in 1 .. JudgedUpTo(result', result'.rule_index - 1) : Clear(i)
  BY <1>1 DEF JudgedUpTo
<1>3. \A i \in 1 .. JudgedUpTo(result', result'.rule_index - 1) : Clear(i)
  <2>1. CASE result' = result
    BY <2>1, FirstMeansClear
  <2>2. CASE result'.kind = "Err"
    BY <2>2 DEF JudgedUpTo
  <2>3. CASE \A i \in 1 .. JudgedUpTo(result', result'.rule_index - 1) : Clear(i)
    BY <2>3
  <2> QED BY <2>1, <2>2, <2>3
<1>4. ConstraintsComeFirst' <=>
          (\A i \in 1 .. JudgedUpTo(result, result.rule_index - 1) : Clear(i))'
  BY FirstMeansClear, PTL
<1> QED BY <1>2, <1>3, <1>4

-----------------------------------------------------------------------------
(* A step that executes a meta instruction pays for it. *)
LEMMA ExecutesPays ==
    ASSUME Paid, NEW t, Executes(t)
    PROVE  Paid'
BY TransitionAssumption DEF Paid, Executes, Spend

(* A failure ends the call: nothing but the result changes. *)
LEMMA FailureKeeps ==
    ASSUME ControlTypes, FirstPass, ConstraintsComeFirst,
           result' = Err, UNCHANGED <<call, rule, stack>>
    PROVE  ControlTypes' /\ FirstPass' /\ ConstraintsComeFirst'
<1> USE DEF rule
<1>1. ControlTypes'
  BY DEF ControlTypes
<1>2. ~Running'
  BY DEF Running, Err, NoResult
<1>3. FirstPass'
  BY <1>2, ClearIsKept DEF FirstPass
<1>4. ConstraintsComeFirst'
  BY FirstIsKept DEF Err
<1> QED BY <1>1, <1>3, <1>4

(* An instruction that is not an enforce is executed in the second pass. *)
LEMMA OthersComeSecond ==
    ASSUME ControlTypes, FirstPass, Running, stack # <<>>, Instr.type # "enforce"
    PROVE  pass = "transform" /\ \A i \in 1 .. Len(call.rules) : Clear(i)
<1>1. busy
  BY DEF ControlTypes
<1>2. pass # "enforce"
  <2> SUFFICES ASSUME pass = "enforce" PROVE FALSE
    OBVIOUS
  <2>1. stack = <<[instr |-> call.rules[index], depth |-> 0]>> /\ call.rules[index].type = "enforce"
    BY <1>1 DEF FirstPass
  <2>2. Instr = call.rules[index]
    BY <2>1 DEF Instr
  <2> QED BY <2>1, <2>2
<1>3. pass = "transform"
  BY <1>2 DEF ControlTypes
<1> QED BY <1>3 DEF FirstPass

(* A step of the second pass that goes on with the rule under way. *)
LEMMA SecondPassGoesOn ==
    ASSUME ControlTypes, FirstPass, ConstraintsComeFirst,
           pass = "transform", stack # <<>>, stack' \in Seq(Frame),
           UNCHANGED <<call, rule, result>>
    PROVE  ControlTypes' /\ FirstPass' /\ ConstraintsComeFirst'
<1> USE DEF rule
<1>1. ControlTypes'
  BY DEF ControlTypes
<1>2. FirstPass'
  BY ClearIsKept DEF FirstPass
<1>3. ConstraintsComeFirst'
  BY FirstIsKept
<1> QED BY <1>1, <1>2, <1>3

(* A signal ends the call with all the rules before it clear. *)
LEMMA SignalKeeps ==
    ASSUME ControlTypes, FirstPass, ConstraintsComeFirst, NEW r, Signals(r),
           \/ r.kind = "IoRequired" /\ \A i \in 1 .. Len(call.rules) : Clear(i)
           \/ /\ r.kind = "Halted" /\ r.rule_index = index
              /\ \A i \in 1 .. index - 1 : Clear(i)
    PROVE  ControlTypes' /\ FirstPass' /\ ConstraintsComeFirst'
<1> USE DEF rule, Signals
<1>1. ControlTypes'
  BY DEF ControlTypes
<1>2. ~Running'
  BY DEF Running, NoResult
<1>3. FirstPass'
  BY <1>2, ClearIsKept DEF FirstPass
<1>4. ConstraintsComeFirst'
  BY FirstIsKept DEF JudgedUpTo
<1> QED BY <1>1, <1>3, <1>4

-----------------------------------------------------------------------------
(* Every step keeps the invariant. *)
LEMMA NextIInv == IInv /\ [Next]_vars => IInv'
<1> SUFFICES ASSUME IInv, [Next]_vars PROVE IInv'
  OBVIOUS
<1> USE DEF IInv
<1>0. call.rules \in Seq(Meta) /\ Len(call.rules) \in Nat
  BY TransitionAssumption DEF ControlTypes
<1>1. CASE SkipRule
  <2> USE <1>1 DEF SkipRule, exec, work
  <2>1. ControlTypes'
    BY <1>0 DEF ControlTypes
  <2>2. Paid'
    BY DEF Paid
  <2>3. FirstPass'
    <3>1. CASE pass = "enforce"
      <4>1. Clear(index)
        BY <3>1 DEF InThisPass, Clear
      <4>2. \A i \in 1 .. index' - 1 : Clear(i)
        BY <3>1, <4>1 DEF FirstPass, ControlTypes
      <4> QED BY <3>1, <4>2, ClearIsKept DEF FirstPass
    <3>2. CASE pass = "transform"
      BY <3>2, ClearIsKept DEF FirstPass
    <3> QED BY <3>1, <3>2 DEF ControlTypes
  <2>4. ConstraintsComeFirst'
    BY FirstIsKept
  <2> QED BY <2>1, <2>2, <2>3, <2>4
<1>2. CASE StartRule
  <2> USE <1>2 DEF StartRule, exec, work
  <2>1. ControlTypes'
    <3>1. index \in 1 .. Len(call.rules)
      BY <1>0 DEF ControlTypes
    <3>2. [instr |-> call.rules[index], depth |-> 0] \in Frame
      BY <1>0, <3>1, TransitionAssumption DEF Frame
    <3>3. stack' \in Seq(Frame)
      BY <3>2
    <3> QED BY <3>1, <3>3 DEF ControlTypes
  <2>2. Paid'
    BY DEF Paid
  <2>3. FirstPass'
    <3>1. CASE pass = "enforce"
      BY <3>1, ClearIsKept DEF FirstPass, InThisPass, Running
    <3>2. CASE pass = "transform"
      BY <3>2, ClearIsKept DEF FirstPass
    <3> QED BY <3>1, <3>2 DEF ControlTypes
  <2>4. ConstraintsComeFirst'
    BY FirstIsKept
  <2> QED BY <2>1, <2>2, <2>3, <2>4
<1>3. CASE EndRule
  <2> USE <1>3 DEF EndRule, exec, work
  <2>1. ControlTypes'
    <3>1. index \in 1 .. Len(call.rules) /\ index' = index + 1
      BY DEF ControlTypes
    <3>2. index' \in 1 .. Len(call.rules) + 1
      BY <1>0, <3>1
    <3>3. stack' = <<>> /\ busy' = FALSE
      OBVIOUS
    <3> QED BY <3>2, <3>3 DEF ControlTypes
  <2>2. Paid'
    BY DEF Paid
  <2>3. FirstPass'
    <3>1. CASE pass = "enforce"
      <4>1. Clear(index)
        BY <3>1 DEF FirstPass
      <4>2. \A i \in 1 .. index' - 1 : Clear(i)
        BY <3>1, <4>1 DEF FirstPass, ControlTypes
      <4> QED BY <3>1, <4>2, ClearIsKept DEF FirstPass
    <3>2. CASE pass = "transform"
      BY <3>2, ClearIsKept DEF FirstPass
    <3> QED BY <3>1, <3>2 DEF ControlTypes
  <2>4. ConstraintsComeFirst'
    BY FirstIsKept
  <2> QED BY <2>1, <2>2, <2>3, <2>4
<1>4. CASE EndPass
  <2> USE <1>4 DEF EndPass, exec, work
  <2>1. ControlTypes'
    BY <1>0 DEF ControlTypes
  <2>2. Paid'
    BY DEF Paid
  <2>3. FirstPass'
    <3>1. \A i \in 1 .. Len(call.rules) : Clear(i)
      BY <1>0 DEF FirstPass, ControlTypes
    <3> QED BY <3>1, ClearIsKept DEF FirstPass
  <2>4. ConstraintsComeFirst'
    BY FirstIsKept
  <2> QED BY <2>1, <2>2, <2>3, <2>4
<1>5. CASE OutOfBudget
  <2> USE <1>5 DEF OutOfBudget, work
  <2>1. Paid'
    BY DEF Paid
  <2> QED BY <2>1, FailureKeeps
<1>6. CASE ExecSet
  <2>1. Paid'
    BY <1>6, ExecutesPays DEF ExecSet
  <2>2. pass = "transform" /\ Tail(stack) \in Seq(Frame) /\ stack # <<>>
    BY <1>6, OthersComeSecond, ExecutesFrame DEF ExecSet, Executes
  <2>3. \/ Fails
        \/ stack' = Tail(stack) /\ UNCHANGED <<call, rule, result>>
    BY <1>6 DEF ExecSet
  <2> QED BY <2>1, <2>2, <2>3, FailureKeeps, SecondPassGoesOn DEF Fails
<1>7. CASE ExecPush
  <2>1. Paid'
    BY <1>7, ExecutesPays DEF ExecPush
  <2>2. pass = "transform" /\ Tail(stack) \in Seq(Frame) /\ stack # <<>>
    BY <1>7, OthersComeSecond, ExecutesFrame DEF ExecPush, Executes
  <2>3. \/ Fails
        \/ stack' = Tail(stack) /\ UNCHANGED <<call, rule, result>>
    BY <1>7 DEF ExecPush
  <2> QED BY <2>1, <2>2, <2>3, FailureKeeps, SecondPassGoesOn DEF Fails
<1>8. CASE ExecBranch
  <2>1. Paid'
    BY <1>8, ExecutesPays DEF ExecBranch
  <2>2. /\ pass = "transform" /\ Tail(stack) \in Seq(Frame) /\ stack # <<>>
        /\ Instr \in Meta /\ Instr.type = "branch" /\ Depth \in 0 .. MaxBranchDepth
    BY <1>8, OthersComeSecond, ExecutesFrame DEF ExecBranch, Executes
  <2>3. CASE Fails
    BY <2>1, <2>3, FailureKeeps DEF Fails
  <2>4. CASE ~Fails
    <3> DEFINE chosen == IF Verdict(Instr, payload) = "Sat"
                         THEN Instr.on_true ELSE Instr.on_false
    <3>1. /\ Depth < MaxBranchDepth
          /\ stack' = [i \in DOMAIN chosen |-> [instr |-> chosen[i], depth |-> Depth + 1]]
                      \o Tail(stack)
          /\ UNCHANGED <<call, rule, result>>
      BY <1>8, <2>4 DEF ExecBranch
    <3>2. chosen \in Seq(Meta)
      BY <2>2, TransitionAssumption
    <3>3. Depth + 1 \in 0 .. MaxBranchDepth
      BY <2>2, <3>1, TransitionAssumption
    <3> HIDE DEF chosen
    <3>4. stack' \in Seq(Frame)
      BY <2>2, <3>1, <3>2, <3>3, PushedFrames
    <3> QED BY <2>1, <2>2, <3>1, <3>4, SecondPassGoesOn
  <2> QED BY <2>3, <2>4
<1>9. CASE ExecIoRequest
  <2>1. Paid'
    BY <1>9, ExecutesPays DEF ExecIoRequest
  <2>2. \A i \in 1 .. Len(call.rules) : Clear(i)
    BY <1>9, OthersComeSecond DEF ExecIoRequest, Executes
  <2>3. CASE Fails
    BY <2>1, <2>3, FailureKeeps DEF Fails
  <2>4. CASE Signals([kind |-> "IoRequired", io_type |-> Instr.io_type])
    BY <2>1, <2>2, <2>4, SignalKeeps
  <2> QED BY <1>9, <2>3, <2>4 DEF ExecIoRequest
<1>10. CASE ExecEnforce
  <2>1. Paid'
    BY <1>10, ExecutesPays DEF ExecEnforce
  <2>2. /\ busy /\ Running /\ stack # <<>> /\ Tail(stack) \in Seq(Frame)
        /\ index \in 1 .. Len(call.rules)
    BY <1>10, ExecutesFrame DEF ExecEnforce, Executes
  <2>3. CASE Fails
    BY <2>1, <2>3, FailureKeeps DEF Fails
  <2>4. CASE Signals([kind |-> "Halted", rule_index |-> index])
    <3>1. \A i \in 1 .. index - 1 : Clear(i)
      BY <1>0, <2>2 DEF FirstPass, ControlTypes
    <3> QED BY <2>1, <2>4, <3>1, SignalKeeps
  <2>5. CASE /\ Verdict(Instr, payload) \in {"Unsat", "Missing"}
             /\ stack' = Tail(stack)
             /\ UNCHANGED <<call, rule, exec, hit, result>>
    <3>1. CASE pass = "transform"
      BY <2>1, <2>2, <2>5, <3>1, SecondPassGoesOn
    <3>2. CASE pass = "enforce"
      <4>1. /\ stack = <<[instr |-> call.rules[index], depth |-> 0]>>
            /\ payload = call.payload
        BY <2>2, <3>2 DEF FirstPass
      <4>2. Instr = call.rules[index] /\ stack' = <<>>
        BY <2>5, <4>1 DEF Instr
      <4>3. Clear(index)
        BY <2>5, <4>1, <4>2 DEF Clear
      <4>4. FirstPass'
        BY <2>2, <2>5, <3>2, <4>2, <4>3, ClearIsKept DEF FirstPass, Running, rule, exec
      <4>5. ControlTypes'
        BY <2>2, <2>5 DEF ControlTypes, rule
      <4>6. ConstraintsComeFirst'
        BY <2>5, FirstIsKept
      <4> QED BY <2>1, <4>4, <4>5, <4>6
    <3> QED BY <3>1, <3>2 DEF ControlTypes
  <2> QED BY <1>10, <2>3, <2>4, <2>5 DEF ExecEnforce
<1>11. CASE ExecUnknown
  <2>1. Paid'
    BY <1>11, ExecutesPays DEF ExecUnknown
  <2> QED BY <1>11, <2>1, FailureKeeps DEF ExecUnknown, Fails
<1>12. CASE Finish
  <2> USE <1>12 DEF Finish, work
  <2>1. ControlTypes'
    BY DEF ControlTypes, rule
  <2>2. Paid'
    BY DEF Paid
  <2>3. result'.kind \in {"Ignored", "State"}
    OBVIOUS
  <2>4. \A i \in 1 .. Len(call.rules) : Clear(i)
    BY DEF FirstPass
  <2>5. FirstPass'
    BY <2>4, ClearIsKept DEF FirstPass, rule
  <2>6. ConstraintsComeFirst'
    BY <2>3, <2>4, FirstIsKept DEF JudgedUpTo
  <2> QED BY <2>1, <2>2, <2>5, <2>6
<1>13. CASE UNCHANGED vars
  <2> USE <1>13 DEF vars, rule, exec, work
  <2>1. ControlTypes' /\ Paid'
    BY DEF ControlTypes, Paid
  <2>2. FirstPass'
    BY ClearIsKept DEF FirstPass, Running
  <2>3. ConstraintsComeFirst'
    BY FirstIsKept
  <2> QED BY <2>1, <2>2, <2>3
<1> QED BY <1>1, <1>2, <1>3, <1>4, <1>5, <1>6, <1>7, <1>8, <1>9, <1>10,
           <1>11, <1>12, <1>13 DEF Next

-----------------------------------------------------------------------------
(* A transition that changes the state, asks for I/O or is ignored violates *)
(* no enforce rule of the list, and the violation reported is the first:    *)
(* the two passes of execute_transition, whatever the rules, the domains    *)
(* and the limits are.                                                      *)
THEOREM ConstraintsPrecede == Spec => []ConstraintsComeFirst
<1>1. IInv => ConstraintsComeFirst
  BY DEF IInv
<1> QED BY <1>1, InitIInv, NextIInv, PTL DEF Spec

(* The rules of one call execute at most MAX_TOTAL_META_INSTRUCTIONS meta   *)
(* instructions together, at most MAX_BRANCH_DEPTH deep.                    *)
THEOREM WorkBound == Spec => []WorkIsBounded
<1>1. IInv => WorkIsBounded
  <2> SUFFICES ASSUME IInv PROVE WorkIsBounded
    OBVIOUS
  <2>1. done <= MaxMetaInstructions
    BY TransitionAssumption DEF IInv, Paid
  <2>2. \A i \in DOMAIN stack : stack[i] \in Frame
    BY DEF IInv, ControlTypes
  <2>3. \A i \in DOMAIN stack : stack[i].depth <= MaxBranchDepth
    BY <2>2, TransitionAssumption DEF Frame
  <2> QED BY <2>1, <2>3 DEF WorkIsBounded
<1> QED BY <1>1, InitIInv, NextIInv, PTL DEF Spec
-----------------------------------------------------------------------------
(* What the executor demands of the form of a rule. *)
WellFormed(r) ==
    \/ r.type = "enforce"
    \/ /\ check_type_valid(r) /\ HasParams(r)
       /\ r.type = "set" => r.operation \in VALID_OPERATIONS

(* While a rule is under way, either the rule itself is the one instruction *)
(* to be executed, or it has been executed and all that is left of it is    *)
(* deeper.                                                                  *)
Under ==
    busy => \/ stack = <<[instr |-> call.rules[index], depth |-> 0]>>
            \/ /\ \A i \in DOMAIN stack : stack[i].depth > 0
               /\ WellFormed(call.rules[index])

(* The second pass leaves only well-formed rules behind. *)
Before ==
    Running /\ pass = "transform" => \A i \in 1 .. index - 1 : WellFormed(call.rules[i])

(* A call that did not fail has no more rules than allowed, and one that    *)
(* converged has only well-formed ones.                                     *)
Fits == result # Err => Len(call.rules) <= MaxTransformRules
Passed == Converged => \A i \in DOMAIN call.rules : WellFormed(call.rules[i])

FormInv == Under /\ Before /\ Fits /\ Passed
-----------------------------------------------------------------------------
(* The validator and the executor ask for the same parameters. *)
LEMMA SameRequired ==
    ASSUME NEW r, check_type_valid(r)
    PROVE  REQUIRED[r.type] = Required[r.type]
BY DEF check_type_valid, VALID_TRANSFORM_TYPES, REQUIRED, Required

(* The instruction to be executed is the rule under way, or all of the      *)
(* stack is deeper than a rule.                                             *)
LEMMA TopIsRule ==
    ASSUME ControlTypes, Under, stack # <<>>
    PROVE  \/ stack = <<[instr |-> call.rules[index], depth |-> 0]>> /\ Instr = call.rules[index]
           \/ /\ \A i \in DOMAIN stack : stack[i].depth > 0
              /\ WellFormed(call.rules[index]) /\ Depth > 0
<1>1. busy
  BY DEF ControlTypes
<1>2. CASE stack = <<[instr |-> call.rules[index], depth |-> 0]>>
  BY <1>2 DEF Instr
<1>3. CASE (\A i \in DOMAIN stack : stack[i].depth > 0) /\ WellFormed(call.rules[index])
  <2>1. 1 \in DOMAIN stack /\ Head(stack) = stack[1]
    BY DEF ControlTypes
  <2> QED BY <1>3, <2>1 DEF Depth
<1> QED BY <1>1, <1>2, <1>3 DEF Under

(* A well-formed instruction is executed: what it leaves on the stack is    *)
(* deeper than a rule, or was below it.                                     *)
LEMMA ExecutedKeepsForm ==
    ASSUME ControlTypes, FormInv, stack # <<>>, WellFormed(Instr),
           \A i \in DOMAIN stack' :
               \/ stack'[i].depth > 0
               \/ \E j \in DOMAIN Tail(stack) : stack'[i] = Tail(stack)[j],
           UNCHANGED <<call, rule, result>>
    PROVE  FormInv'
<1> USE DEF rule
<1>1. Before' /\ Fits' /\ Passed'
  <2>1. \A r : WellFormed(r)' <=> WellFormed(r)
    BY DEF WellFormed, check_type_valid, HasParams, Supplied
  <2> QED BY <2>1 DEF FormInv, Before, Fits, Passed, Running, Converged
<1>2. WellFormed(call.rules[index])
  BY TopIsRule DEF FormInv
<1>3. \A j \in DOMAIN Tail(stack) : Tail(stack)[j].depth > 0
  <2>1. CASE stack = <<[instr |-> call.rules[index], depth |-> 0]>>
    BY <2>1
  <2>2. CASE \A i \in DOMAIN stack : stack[i].depth > 0
    <3> SUFFICES ASSUME NEW j \in DOMAIN Tail(stack) PROVE Tail(stack)[j].depth > 0
      OBVIOUS
    <3>1. j + 1 \in DOMAIN stack /\ Tail(stack)[j] = stack[j + 1]
      BY DEF ControlTypes
    <3> QED BY <2>2, <3>1
  <2> QED BY <2>1, <2>2, TopIsRule DEF FormInv
<1>4. \A i \in DOMAIN stack' : stack'[i].depth > 0
  BY <1>3
<1>5. Under'
  BY <1>2, <1>4 DEF Under, WellFormed, check_type_valid, HasParams, Supplied
<1> QED BY <1>1, <1>5 DEF FormInv

(* A call that ends without converging keeps the rule it ended in.          *)
LEMMA EndingKeepsForm ==
    ASSUME FormInv, Running, result'.kind \in {"Err", "IoRequired", "Halted"},
           UNCHANGED <<call, rule, stack>>
    PROVE  FormInv'
<1> USE DEF rule
<1>1. ~Running' /\ ~Converged'
  BY DEF Running, NoResult, Converged
<1>2. Before' /\ Passed'
  BY <1>1 DEF Before, Passed
<1>3. result # Err
  BY DEF Running, NoResult, Err
<1>4. Fits'
  BY <1>3 DEF FormInv, Fits
<1>5. Under'
  BY DEF FormInv, Under, WellFormed, check_type_valid, HasParams, Supplied
<1> QED BY <1>2, <1>4, <1>5 DEF FormInv

LEMMA InitFormInv == Init => FormInv
<1> SUFFICES ASSUME Init PROVE FormInv
  OBVIOUS
<1>0. call.rules \in Seq(Meta) /\ Len(call.rules) \in Nat
  BY TransitionAssumption DEF Init
<1>1. Under /\ Before
  BY DEF Init, Under, Before
<1>2. Fits
  BY <1>0, TransitionAssumption DEF Init, Fits
<1>3. Passed
  BY DEF Init, Passed, Converged, NoResult, Err
<1> QED BY <1>1, <1>2, <1>3 DEF FormInv

(* Every step keeps what is known of the form of the rules. *)
LEMMA NextFormInv == IInv /\ FormInv /\ [Next]_vars => FormInv'
<1> SUFFICES ASSUME ControlTypes, FormInv, [Next]_vars PROVE FormInv'
  BY DEF IInv
<1>0. call.rules \in Seq(Meta) /\ Len(call.rules) \in Nat /\ index \in Nat
  BY TransitionAssumption DEF ControlTypes
<1>a. \A r : WellFormed(r)' <=> WellFormed(r)
  BY DEF WellFormed, check_type_valid, HasParams, Supplied
<1>1. CASE SkipRule
  <2> USE <1>1 DEF SkipRule
  <2>1. Under' /\ Fits' /\ Passed'
    BY <1>a DEF FormInv, Under, Fits, Passed, Converged
  <2>2. ASSUME pass = "transform"
        PROVE  \A i \in 1 .. index' - 1 : WellFormed(call.rules[i])
    <3>1. WellFormed(call.rules[index])
      BY <2>2 DEF InThisPass, WellFormed
    <3> QED BY <1>0, <2>2, <3>1 DEF FormInv, Before
  <2>3. Before'
    BY <1>a, <2>2 DEF Before
  <2> QED BY <2>1, <2>3 DEF FormInv
<1>2. CASE StartRule
  <2> USE <1>2 DEF StartRule
  <2>1. Under'
    BY DEF Under
  <2>2. Before' /\ Fits' /\ Passed'
    BY <1>a DEF FormInv, Before, Fits, Passed, Running, Converged
  <2> QED BY <2>1, <2>2 DEF FormInv
<1>3. CASE EndRule
  <2> USE <1>3 DEF EndRule
  <2>1. Under' /\ Fits' /\ Passed'
    BY <1>a DEF FormInv, Under, Fits, Passed, Converged
  <2>2. WellFormed(call.rules[index])
    BY DEF FormInv, Under
  <2>3. ASSUME pass = "transform"
        PROVE  \A i \in 1 .. index' - 1 : WellFormed(call.rules[i])
    BY <1>0, <2>2, <2>3 DEF FormInv, Before
  <2>4. Before'
    BY <1>a, <2>3 DEF Before
  <2> QED BY <2>1, <2>4 DEF FormInv
<1>4. CASE EndPass
  <2> USE <1>4 DEF EndPass
  <2>1. Under' /\ Fits' /\ Passed'
    BY <1>a DEF FormInv, Under, Fits, Passed, Converged
  <2>2. Before'
    BY DEF Before
  <2> QED BY <2>1, <2>2 DEF FormInv
<1>5. CASE OutOfBudget
  BY <1>5, EndingKeepsForm DEF OutOfBudget, Err
<1>6. CASE ExecSet
  <2>1. stack # <<>> /\ Running /\ Instr.type = "set"
    BY <1>6 DEF ExecSet, Executes
  <2>2. CASE Fails
    BY <2>1, <2>2, EndingKeepsForm DEF Fails, Err
  <2>3. CASE ~Fails
    <3>1. /\ HasParams(Instr) /\ Instr.operation \in VALID_OPERATIONS
          /\ stack' = Tail(stack) /\ UNCHANGED <<call, rule, result>>
      BY <1>6, <2>3 DEF ExecSet, CanApply, VALID_OPERATIONS
    <3>2. WellFormed(Instr)
      BY <2>1, <3>1 DEF WellFormed, check_type_valid, VALID_TRANSFORM_TYPES
    <3> QED BY <2>1, <3>1, <3>2, ExecutedKeepsForm
  <2> QED BY <2>2, <2>3
<1>7. CASE ExecPush
  <2>1. stack # <<>> /\ Running /\ Instr.type = "push"
    BY <1>7 DEF ExecPush, Executes
  <2>2. CASE Fails
    BY <2>1, <2>2, EndingKeepsForm DEF Fails, Err
  <2>3. CASE ~Fails
    <3>1. HasParams(Instr) /\ stack' = Tail(stack) /\ UNCHANGED <<call, rule, result>>
      BY <1>7, <2>3 DEF ExecPush
    <3>2. WellFormed(Instr)
      BY <2>1, <3>1 DEF WellFormed, check_type_valid, VALID_TRANSFORM_TYPES
    <3> QED BY <2>1, <3>1, <3>2, ExecutedKeepsForm
  <2> QED BY <2>2, <2>3
<1>8. CASE ExecBranch
  <2>1. /\ stack # <<>> /\ Running /\ Instr.type = "branch"
        /\ Instr \in Meta /\ Depth \in Nat /\ Tail(stack) \in Seq(Frame)
    <3>1. stack # <<>> /\ Running /\ Instr.type = "branch"
      BY <1>8 DEF ExecBranch, Executes
    <3> QED BY <3>1, ExecutesFrame, TransitionAssumption
  <2>2. CASE Fails
    BY <2>1, <2>2, EndingKeepsForm DEF Fails, Err
  <2>3. CASE ~Fails
    <3> DEFINE chosen == IF Verdict(Instr, payload) = "Sat"
                         THEN Instr.on_true ELSE Instr.on_false
               pushed == [i \in DOMAIN chosen |-> [instr |-> chosen[i], depth |-> Depth + 1]]
    <3>1. /\ Verdict(Instr, payload) # "Err"
          /\ stack' = pushed \o Tail(stack)
          /\ UNCHANGED <<call, rule, result>>
      BY <1>8, <2>3 DEF ExecBranch
    <3>2. HasParams(Instr)
      BY <3>1 DEF Verdict
    <3>3. WellFormed(Instr)
      BY <2>1, <3>2 DEF WellFormed, check_type_valid, VALID_TRANSFORM_TYPES
    <3>4. chosen \in Seq(Meta)
      BY <2>1, TransitionAssumption
    <3> HIDE DEF chosen
    <3>5. /\ pushed \in Seq([instr : Meta, depth : Nat])
          /\ \A i \in DOMAIN pushed : pushed[i].depth > 0
      <4>1. DOMAIN pushed = 1 .. Len(chosen) /\ Len(chosen) \in Nat
        BY <3>4
      <4>2. \A i \in 1 .. Len(chosen) :
              pushed[i] \in [instr : Meta, depth : Nat] /\ pushed[i].depth > 0
        BY <2>1, <3>4
      <4> QED BY <4>1, <4>2
    <3> HIDE DEF pushed
    <3>6. ASSUME NEW i \in DOMAIN stack'
          PROVE  \/ stack'[i].depth > 0
                 \/ \E j \in DOMAIN Tail(stack) : stack'[i] = Tail(stack)[j]
      <4>1. CASE i <= Len(pushed)
        BY <2>1, <3>1, <3>5, <3>6, <4>1
      <4>2. CASE i > Len(pushed)
        <5>1. i - Len(pushed) \in DOMAIN Tail(stack) /\ stack'[i] = Tail(stack)[i - Len(pushed)]
          BY <2>1, <3>1, <3>5, <3>6, <4>2
        <5> QED BY <5>1
      <4> QED BY <2>1, <3>1, <3>5, <3>6, <4>1, <4>2
    <3> QED BY <2>1, <3>1, <3>3, <3>6, ExecutedKeepsForm
  <2> QED BY <2>2, <2>3
<1>9. CASE ExecIoRequest
  <2>1. Running
    BY <1>9 DEF ExecIoRequest, Executes
  <2>2. CASE Fails
    BY <2>1, <2>2, EndingKeepsForm DEF Fails, Err
  <2>3. CASE Signals([kind |-> "IoRequired", io_type |-> Instr.io_type])
    BY <2>1, <2>3, EndingKeepsForm DEF Signals
  <2> QED BY <1>9, <2>2, <2>3 DEF ExecIoRequest
<1>10. CASE ExecEnforce
  <2>1. stack # <<>> /\ Running /\ Instr.type = "enforce"
    BY <1>10 DEF ExecEnforce, Executes
  <2>2. CASE Fails
    BY <2>1, <2>2, EndingKeepsForm DEF Fails, Err
  <2>3. CASE Signals([kind |-> "Halted", rule_index |-> index])
    BY <2>1, <2>3, EndingKeepsForm DEF Signals
  <2>4. CASE stack' = Tail(stack) /\ UNCHANGED <<call, rule, exec, hit, result>>
    BY <2>1, <2>4, ExecutedKeepsForm DEF WellFormed
  <2> QED BY <1>10, <2>2, <2>3, <2>4 DEF ExecEnforce
<1>11. CASE ExecUnknown
  BY <1>11, EndingKeepsForm DEF ExecUnknown, Executes, Fails, Err
<1>12. CASE Finish
  <2> USE <1>12 DEF Finish, rule
  <2>1. Under'
    BY <1>a DEF FormInv, Under
  <2>2. result'.kind \in {"Ignored", "State"} /\ ~Running' /\ result # Err
    BY DEF Running, NoResult, Err
  <2>3. Before' /\ Fits'
    BY <2>2 DEF FormInv, Before, Fits
  <2>4. \A i \in DOMAIN call.rules : WellFormed(call.rules[i])
    BY <1>0 DEF FormInv, Before
  <2>5. Passed'
    BY <1>a, <2>4 DEF Passed
  <2> QED BY <2>1, <2>3, <2>5 DEF FormInv
<1>13. CASE UNCHANGED vars
  BY <1>a, <1>13 DEF vars, rule, FormInv, Under, Before, Fits, Passed, Running, Converged
<1> QED BY <1>1, <1>2, <1>3, <1>4, <1>5, <1>6, <1>7, <1>8, <1>9, <1>10,
           <1>11, <1>12, <1>13 DEF Next

(* The validator knows what the executor demands: rules that pass           *)
(* validate_rules never fail in execute_transition by the length of the     *)
(* list, an unknown type, a missing parameter or an unknown operation, and  *)
(* rules that converge on any input were refused for none of these, apart   *)
(* from constraints and oversized requests.  The executor demands more of   *)
(* the types of parameters, which validate_rules does not look at.          *)
THEOREM ValidatorKnowsTheForms == Spec => []ValidationAgrees
<1>1. ASSUME IInv, FormInv PROVE ValidationAgrees
  <2> USE <1>1 DEF IInv
  <2>0. call.rules \in Seq(Meta) /\ Len(call.rules) \in Nat
    BY TransitionAssumption DEF ControlTypes
  <2>1. ASSUME validate_rules(call.rules), ListIsAtFault PROVE FALSE
    <3>1. /\ Len(call.rules) <= MaxTransformRules
          /\ \A i \in DOMAIN call.rules :
               check_type_valid(call.rules[i]) /\ check_params_complete(call.rules[i])
      BY <2>1 DEF validate_rules, perform_static_validation, check_transform_count
    <3>2. /\ stack # <<>> /\ Depth = 0
          /\ \/ Instr.type = "unknown"
             \/ ~Supplied(Instr)
             \/ Instr.type = "set" /\ Instr.operation \notin VALID_OPERATIONS \cup {Null}
      BY <2>0, <2>1, <3>1, TransitionAssumption DEF ListIsAtFault
    <3>3. Instr = call.rules[index] /\ index \in DOMAIN call.rules
      BY <2>0, <3>2, TopIsRule, ExecutesFrame DEF FormInv
    <3>4. check_type_valid(Instr) /\ check_params_complete(Instr)
      BY <3>1, <3>3
    <3>5. Instr.type # "unknown"
      BY <3>4 DEF check_type_valid, VALID_TRANSFORM_TYPES
    <3>6. Supplied(Instr)
      BY <3>4, SameRequired DEF check_params_complete, Supplied
    <3>7. Instr.type = "set" => Instr.operation \in VALID_OPERATIONS \cup {Null}
      BY <3>4 DEF check_params_complete
    <3> QED BY <3>2, <3>5, <3>6, <3>7
  <2>2. ASSUME Converged PROVE check_transform_count(call.rules)
    <3>1. result # Err
      BY <2>2 DEF Converged, Err
    <3> QED BY <3>1 DEF FormInv, Fits, check_transform_count
  <2>3. ASSUME Converged, NEW i \in DOMAIN call.rules
        PROVE  \/ Stricter(call.rules[i])
               \/ check_type_valid(call.rules[i]) /\ check_params_complete(call.rules[i])
    <3>1. WellFormed(call.rules[i])
      BY <2>3 DEF FormInv, Passed
    <3>2. CASE call.rules[i].type = "enforce"
      BY <3>2 DEF Stricter
    <3>3. CASE /\ check_type_valid(call.rules[i]) /\ HasParams(call.rules[i])
               /\ call.rules[i].type = "set" => call.rules[i].operation \in VALID_OPERATIONS
      BY <3>3, SameRequired DEF HasParams, Supplied, check_params_complete, Stricter
    <3> QED BY <3>1, <3>2, <3>3 DEF WellFormed
  <2> QED BY <2>1, <2>2, <2>3 DEF ValidationAgrees
<1> QED BY <1>1, InitIInv, NextIInv, InitFormInv, NextFormInv, PTL DEF Spec
=============================================================================
