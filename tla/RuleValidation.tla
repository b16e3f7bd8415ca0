--------------------------- MODULE RuleValidation ---------------------------
(***************************************************************************)
(* The validation of rules before they are loaded                          *)
(* (evorule-governance/src/rule_validation.rs), beside the execution of    *)
(* the same rules.  Only errors decide whether a list passes; the warnings *)
(* of the security analysis are left out.  A rule whose type is missing    *)
(* and one whose type is not listed are both of type "unknown"; an I/O     *)
(* request says whether its parameters are oversized.                      *)
(***************************************************************************)
EXTENDS Transition

VALID_TRANSFORM_TYPES == {"branch", "set", "push", "io_request"}
VALID_OPERATIONS == {"set", "add", "sub"}

(* BRANCH_REQUIRED, SET_REQUIRED, PUSH_REQUIRED and IO_REQUEST_REQUIRED. *)
REQUIRED ==
    [branch |-> {"domain"}, set |-> {"attr", "operation", "value"},
     push |-> {"instructions"}, io_request |-> {"io_type"}]

check_transform_count(rules) == Len(rules) <= MaxTransformRules

check_type_valid(r) == r.type \in VALID_TRANSFORM_TYPES

(* Mutant: an operation that is not known is a warning only. *)
ParamsPresent(r) ==
    check_type_valid(r) =>
        /\ REQUIRED[r.type] \subseteq DOMAIN r
        /\ r.type = "io_request" => ~r.oversized

(* A parameter that is there may be of any type; only an operation that is  *)
(* a string is compared with the known ones.                                *)
check_params_complete(r) ==
    check_type_valid(r) =>
        /\ REQUIRED[r.type] \subseteq DOMAIN r
        /\ r.type = "set" => r.operation \in VALID_OPERATIONS \cup {Null}
        /\ r.type = "io_request" => ~r.oversized

(* The branches within a branch are counted; nothing else of what is        *)
(* within one is looked at.                                                 *)
check_branch_nested[r \in Meta, depth \in Nat] ==
    /\ depth <= MaxBranchDepth
    /\ \A child \in ToSet(r.on_true) \cup ToSet(r.on_false) :
         child.type = "branch" => check_branch_nested[child, depth + 1]

perform_static_validation(rules) ==
    /\ check_transform_count(rules)
    /\ rules # <<>>
    /\ \A i \in DOMAIN rules :
         /\ check_type_valid(rules[i])
         /\ check_params_complete(rules[i])
         /\ rules[i].type = "branch" => check_branch_nested[rules[i], 0]

(* ValidationResult.passed: warnings do not block. *)
validate_rules(rules) == perform_static_validation(rules)

-----------------------------------------------------------------------------
(***************************************************************************)
(* Properties.                                                             *)
(***************************************************************************)

(* The list is too long, or the instruction that failed is a rule of the    *)
(* list that is of no known type, lacks a parameter or names an operation   *)
(* that does not exist.                                                     *)
ListIsAtFault ==
    /\ result = Err
    /\ \/ Len(call.rules) > MaxTransformRules
       \/ /\ stack # <<>> /\ Depth = 0
          /\ \/ Instr.type = "unknown"
             \/ ~Supplied(Instr)
             \/ Instr.type = "set" /\ Instr.operation \notin VALID_OPERATIONS \cup {Null}

(* What the validator refuses though the executor runs it. *)
Stricter(r) ==
    \/ r.type = "enforce"
    \/ r.type = "io_request" /\ r.oversized

(* The validator knows the executor's limit, types, parameters and          *)
(* operations: a list that passes never fails in the executor by its        *)
(* length, by a rule of unknown type, without a parameter or with an        *)
(* unknown operation.  And it is not stricter either - a list that          *)
(* converges on any input at all was not refused for one of these, apart    *)
(* from constraints, which the validator leaves to another gate, and from   *)
(* the size of a request.  The types of the parameters are another matter:  *)
(* see TypesAreChecked.                                                     *)
ValidationAgrees ==
    /\ validate_rules(call.rules) => ~ListIsAtFault
    /\ Converged =>
         /\ check_transform_count(call.rules)
         /\ \A i \in DOMAIN call.rules :
              \/ Stricter(call.rules[i])
              \/ check_type_valid(call.rules[i]) /\ check_params_complete(call.rules[i])

-----------------------------------------------------------------------------
(***************************************************************************)
(* What the comments say of the validation.                                *)
(***************************************************************************)

(* The limit of the nesting is the executor's own.                          *)
SameNestingLimit ==
    validate_rules(call.rules) /\ result = Err /\ stack # <<>> =>
        ~(Instr.type = "branch" /\ Depth >= MaxBranchDepth)

(* An operation the executor fails on is an error of the validation.        *)
OperationsAreKnown ==
    validate_rules(call.rules) /\ result = Err /\ stack # <<>> =>
        ~(Instr.type = "set" /\ HasParams(Instr) /\ Instr.operation \notin VALID_OPERATIONS)

(* The parameters of the rules of the list are complete for the executor:   *)
(* none is there but of a type it fails on.                                 *)
TypesAreChecked ==
    validate_rules(call.rules) /\ result = Err /\ stack # <<>> /\ Depth = 0 =>
        (Supplied(Instr) => HasParams(Instr))
=============================================================================
