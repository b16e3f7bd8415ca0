---------------------------- MODULE DomainGrowth ----------------------------
(***************************************************************************)
(* What the verdicts of Domain rest on: the payload grows under a domain.  *)
(***************************************************************************)
EXTENDS Domain

CONSTANT InstructionType

Payload == UNION {[S -> Value] : S \in SUBSET Field}

VARIABLES domain, state

vars == <<domain, state>>

Init ==
    /\ domain \in Domains
    /\ state \in [type : InstructionType, payload : Payload]

(* A field appears. *)
Grow ==
    /\ \E f \in Field \ DOMAIN state.payload, v \in Value :
          state' = [state EXCEPT !.payload =
                      [g \in DOMAIN @ \cup {f} |-> IF g = f THEN v ELSE @[g]]]
    /\ UNCHANGED domain

Spec == Init /\ [][Grow]_vars

-----------------------------------------------------------------------------
(***************************************************************************)
(* Properties.                                                             *)
(***************************************************************************)

(* The domain asks for the presence of a field somewhere within the depth   *)
(* to which domains are evaluated.                                          *)
AsksPresence(d) ==
    LET asks[p \in Nat \X Domains] ==
          LET e == p[2]
              Inner(f) == asks[<<p[1] + 1, f>>]
          IN  /\ p[1] <= MaxDomainDepth
              /\ \/ e.type \in {"exists", "has_fields"}
                 \/ e.type = "not" /\ Inner(e.inner)
                 \/ e.type = "all" /\ \E i \in DOMAIN e.inner : Inner(e.inner[i])
    IN  asks[<<0, d>>]

(* A verdict does not rest on what is missing: when a domain of comparisons *)
(* is decided, Sat or Unsat, it stays decided the same way whatever fields  *)
(* the payload is given later.  So no negation turns an absent field into a *)
(* satisfied condition.                                                     *)
VerdictsRestOnData ==
    [][LET o == evaluate_domain_outcome(domain, state)
       IN  o \in {"Sat", "Unsat"} /\ ~AsksPresence(domain)
           => evaluate_domain_outcome(domain, state') = o]_vars

(* The derived "or" of the documentation: or = not(all([not(a), not(b)])).  *)
IsOr(d) ==
    /\ d.type = "not" /\ d.inner.type = "all" /\ Len(d.inner.inner) = 2
    /\ \A i \in 1 .. 2 : d.inner.inner[i].type = "not"

(* A disjunction without errors holds when one of its sides does. *)
OrHoldsWithEither ==
    IsOr(domain) =>
        LET side(i) == evaluate_domain_outcome(domain.inner.inner[i].inner, state)
        IN  {side(1), side(2)} \subseteq {"Sat", "Unsat", "Missing"}
            /\ "Sat" \in {side(1), side(2)}
            => evaluate_domain_outcome(domain, state) = "Sat"
=============================================================================
