------------------------------- MODULE Domain -------------------------------
(***************************************************************************)
(* The condition evaluator of the TCB (evorule-tcb/src/domain.rs): eight   *)
(* kinds of domains over an execution state, with three truth values and   *)
(* the declaration on_missing.                                             *)
(*                                                                         *)
(* An execution state is the type of the instruction and the payload, a    *)
(* function from the fields that are there to their values.                *)
(***************************************************************************)
EXTENDS Integers, Sequences

CONSTANTS Field,           \* the payload's fields
          MinInt, MaxInt,  \* i64
          Null, Text,      \* JSON null, and a string
          Hollow,          \* an empty array
          MaxDomainDepth,  \* MAX_DOMAIN_DEPTH
          Domains          \* the domains, and the domains they are made of

Integer == MinInt .. MaxInt
Value == Integer \cup {Null, Text, Hollow}

ASSUME DomainAssumption ==
    /\ MinInt \in Int /\ MaxInt \in Int /\ MinInt <= MaxInt
    /\ {Null, Text, Hollow} \cap Int = {}
    /\ MaxDomainDepth \in Nat
    /\ \A d \in Domains : /\ d.type = "not" => d.inner \in Domains
                          /\ d.type = "all" => d.inner \in Seq(Domains)

(* An outcome is "Sat", "Unsat", "Missing" or, for an error, "Err"; the     *)
(* class of a Missing is left out, for it decides nothing.                  *)
FromBool(b) == IF b THEN "Sat" ELSE "Unsat"

(* on_missing: "none" when the rule does not declare it. *)
dispatch_missing(d) == IF d.on_missing = "error" THEN "Err" ELSE "Missing"

(* The operand of a comparison: a literal, a reference to a field, or a     *)
(* string that looks like a path without being a reference.                 *)
Unresolved(v, s) == v.from = "dotted" \/ (v.from = "field" /\ v.of \notin DOMAIN s.payload)
Resolved(v, s) == IF v.from = "field" THEN s.payload[v.of] ELSE v.of

evaluate_eq(d, s) ==
    CASE Unresolved(d.value, s)          -> dispatch_missing(d)
      [] d.path \notin DOMAIN s.payload  -> dispatch_missing(d)
      [] OTHER -> FromBool(s.payload[d.path] = Resolved(d.value, s))

evaluate_lt(d, s) ==
    CASE Unresolved(d.value, s)          -> dispatch_missing(d)
      [] d.path \notin DOMAIN s.payload  -> dispatch_missing(d)
      [] ~ {s.payload[d.path], Resolved(d.value, s)} \subseteq Integer -> dispatch_missing(d)
      [] OTHER -> FromBool(s.payload[d.path] < Resolved(d.value, s))

evaluate_in(d, s) ==
    CASE \E i \in DOMAIN d.values : d.values[i].from = "dotted" -> dispatch_missing(d)
      [] d.path \notin DOMAIN s.payload                         -> dispatch_missing(d)
      [] OTHER -> FromBool(\E i \in DOMAIN d.values : d.values[i].of = s.payload[d.path])

evaluate_exists(d, s) ==
    FromBool(d.path \in DOMAIN s.payload /\ s.payload[d.path] # Null)

evaluate_instruction_eq(d, s) == FromBool(s.type = d.instruction_type)

(* Of the payload itself. *)
evaluate_has_fields(d, s) ==
    IF d.fields = {} THEN "Err"
    ELSE FromBool(\A f \in d.fields : f \in DOMAIN s.payload /\ s.payload[f] \notin {Null, Hollow})

(* Mutant: what is missing counts as false. *)
NegationOfFalse(o) ==
    CASE o = "Sat" -> "Unsat" [] o \in {"Unsat", "Missing"} -> "Sat" [] OTHER -> o

(* Missing, like an error, is passed on. *)
Negation(o) ==
    CASE o = "Sat" -> "Unsat" [] o = "Unsat" -> "Sat" [] OTHER -> o

(* The first sub-domain that is not satisfied decides; the others are not   *)
(* evaluated.                                                               *)
Conjunction(outcomes) ==
    LET open == {i \in DOMAIN outcomes : outcomes[i] # "Sat"}
    IN  IF open = {} THEN "Sat"
        ELSE outcomes[CHOOSE i \in open : \A j \in open : i <= j]

(* The recursion, as a function of the depth and the domain. *)
evaluate_domain_outcome_inner(s) ==
    LET at[p \in Nat \X Domains] ==
          LET depth == p[1]
              d == p[2]
              Inner(e) == at[<<depth + 1, e>>]
          IN  IF depth > MaxDomainDepth THEN "Err" ELSE
              CASE d.type = "eq"            -> evaluate_eq(d, s)
                [] d.type = "lt"            -> evaluate_lt(d, s)
                [] d.type = "in"            -> evaluate_in(d, s)
                [] d.type = "exists"        -> evaluate_exists(d, s)
                [] d.type = "instruction"   -> evaluate_instruction_eq(d, s)
                [] d.type = "has_fields"    -> evaluate_has_fields(d, s)
                [] d.type = "not"           -> Negation(Inner(d.inner))
                [] d.type = "all"           -> Conjunction([i \in DOMAIN d.inner |-> Inner(d.inner[i])])
                [] OTHER                    -> "Err"
    IN  at

evaluate_domain_outcome(d, s) == evaluate_domain_outcome_inner(s)[<<0, d>>]
=============================================================================
