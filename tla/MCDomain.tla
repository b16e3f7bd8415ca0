------------------------------ MODULE MCDomain ------------------------------
(***************************************************************************)
(* Small instances of DomainGrowth: every domain up to nesting depth two   *)
(* over a few comparisons, and some that are nested too deep.              *)
(***************************************************************************)
EXTENDS DomainGrowth

CONSTANTS x, y

Fields == {x, y}
Types  == {"set", "noop"}

Lit(v)   == [from |-> "lit", of |-> v]
Ref(f)   == [from |-> "field", of |-> f]
Dotted   == [from |-> "dotted", of |-> Null]

Leaves ==
    {[type |-> t, path |-> x, value |-> v, on_missing |-> m] :
        t \in {"eq", "lt"}, v \in {Lit(0), Ref(y), Dotted}, m \in {"none", "error"}}
    \cup {[type |-> "in", path |-> y, values |-> vs, on_missing |-> "unsat"] :
            vs \in {<<>>, <<Lit(0), Lit(Text)>>, <<Dotted>>}}
    \cup {[type |-> "exists", path |-> x],
          [type |-> "instruction", instruction_type |-> "set"],
          [type |-> "has_fields", fields |-> {x, y}],
          [type |-> "has_fields", fields |-> {}],
          [type |-> "strange"]}

Nots(S) == {[type |-> "not", inner |-> d] : d \in S}
Alls(S) == {[type |-> "all", inner |-> ds] : ds \in {<<>>} \cup (S \X S)}
OneLevel == Nots(Leaves) \cup Alls(Leaves)

ThreeLevels == Leaves \cup OneLevel \cup Nots(OneLevel) \cup Nots(Nots(OneLevel))
AllDomains == ThreeLevels   \* a name for it lets TLC evaluate the set once

Or(a, b) == [type |-> "not",
             inner |-> [type |-> "all", inner |-> <<[type |-> "not", inner |-> a],
                                                    [type |-> "not", inner |-> b]>>]]
IsZero(f) == [type |-> "eq", path |-> f, value |-> Lit(0), on_missing |-> "unsat"]
Parts(d) == {d, d.inner} \cup {d.inner.inner[i] : i \in 1 .. 2}
            \cup {d.inner.inner[i].inner : i \in 1 .. 2}
Ors == UNION {Parts(Or(IsZero(f), IsZero(g))) : f, g \in Fields}
=============================================================================
