---------------------------- MODULE MCTransition ----------------------------
(***************************************************************************)
(* Small instances of Transition and RuleValidation: every list of up to   *)
(* three of the rules below, which stand for the forms of rules in         *)
(* core_eval.json and in the rule sets of applications, and of malformed   *)
(* rules alone or beside another.                                          *)
(***************************************************************************)
EXTENDS RuleValidation

CONSTANTS x, y,             \* fields
          attr, value, list \* parameters of instructions

Fields == {x, y}
LeastInt == -1

Lit(v)   == [from |-> "lit", of |-> v]
Par(p)   == [from |-> "param", of |-> p]
Fld(f)   == [from |-> "field", of |-> f]
Self     == [from |-> "self", of |-> Null]

(* Domains *)
Is(t)      == [type |-> "instruction", instruction_type |-> t]
Always     == [type |-> "all", inner |-> <<>>]
Eq(f, v)   == [type |-> "eq", path |-> f, value |-> Lit(v), on_missing |-> "unsat"]
MustEq(f, v) == [Eq(f, v) EXCEPT !.on_missing = "error"]

(* Meta instructions *)
Set(a, op, v)   == [type |-> "set", attr |-> a, operation |-> op, value |-> v]
Push(l)         == [type |-> "push", instructions |-> l]
Branch(d, t, f) == [type |-> "branch", domain |-> Lit(d), on_true |-> t, on_false |-> f]
Ask(ps)         == [type |-> "io_request", io_type |-> "http", params |-> ps, oversized |-> FALSE]
Enforce(d)      == [type |-> "enforce", domain |-> Lit(d), reason |-> TRUE]

Increment == Branch(Is("increment"), <<Set(Par(attr), "add", Par(value))>>, <<>>)
SetRule   == Branch(Is("set"), <<Set(Par(attr), "set", Par(value))>>, <<>>)
Sequence  == Branch(Is("seq"), <<Push(<<Par(list), Self>>)>>, <<>>)
IoRule    == Branch(Is("set"), <<Branch(Eq(y, 1), <<Set(Lit(y), "set", Lit(Null))>>,
                                 <<Ask({[optional |-> TRUE, value |-> Par(list)],
                                        [optional |-> FALSE, value |-> Par(value)]})>>)>>, <<>>)
CatchAll  == Branch(Always, <<>>, <<>>)
NoOnes    == Enforce(Eq(x, 1))
Present   == Enforce(MustEq(y, 1))
Nested    == Branch(Always, <<Set(Lit(x), "sub", Fld(y)), Enforce(Eq(x, -1))>>, <<>>)
Direct    == Set(Lit(x), "set", Lit(0))
Strange   == [type |-> "unknown"]
Deep      == Branch(Always, <<Branch(Always, <<Branch(Always, <<>>, <<>>)>>, <<>>)>>, <<>>)

Oversized == [Ask({}) EXCEPT !.oversized = TRUE]
Multiply  == Set(Lit(x), "mul", Lit(1))
Inner     == Branch(Always, <<Multiply>>, <<>>)
Lacking   == {[type |-> "branch", on_true |-> <<>>, on_false |-> <<>>], [type |-> "push"],
              [type |-> "set", attr |-> Lit(x), value |-> Lit(1)], [type |-> "enforce", reason |-> TRUE],
              [type |-> "io_request", params |-> {}, oversized |-> FALSE]}

(* Parameters that are there but null: a number or an object would do too. *)
Mistyped  == {Set(Lit(x), Null, Lit(1)), Push(Null), [Ask({}) EXCEPT !.io_type = Null]}

Rules == {Increment, SetRule, Sequence, IoRule, CatchAll, NoOnes, Present,
          Nested, Direct, Strange, Deep}

(* The instructions within a set of instructions, up to depth three. *)
Within(S) ==
    S \cup UNION {ToSet(m.on_true) \cup ToSet(m.on_false) : m \in {r \in S : r.type = "branch"}}
Malformed == {Oversized, Multiply, Inner} \cup Lacking \cup Mistyped
AllMeta == Within(Within(Within(Rules \cup Malformed)))

Conditions == {m.domain.of : m \in {r \in AllMeta : "domain" \in DOMAIN r}}
D == INSTANCE Domain WITH MaxDomainDepth <- 2, Domains <- Conditions
MCEvaluate(d, s) == D!evaluate_domain_outcome(d, s)

Lists(S) == {<<>>} \cup [1 .. 1 -> S] \cup [1 .. 2 -> S] \cup [1 .. 3 -> S] \cup [1 .. 4 -> {Direct}]

NoParams == [p \in {} |-> Null]
Instructions ==
    {[type |-> "noop", params |-> NoParams],
     [type |-> "seq", params |-> [p \in {list} |-> <<[type |-> "noop", params |-> NoParams]>>]]}
    \cup {[type |-> t, params |-> [p \in {attr, value} |-> IF p = attr THEN x ELSE 1]] :
            t \in {"increment", "set"}}

Payloads == {[f \in {} |-> 0], [f \in {x} |-> 1], [f \in {x, y} |-> 0],
             [f \in {x, y} |-> IF f = x THEN Text ELSE 1], [f \in {x} |-> Null]}

Calls(S) == [rules : Lists(S), instruction : Instructions, payload : Payloads,
             queue : {<<[type |-> "noop", params |-> NoParams]>>}]

(* A malformed rule beside another. *)
Pairs(S, T) == {<<a>> : a \in T} \cup {<<a, b>> : a \in S, b \in T} \cup {<<b, a>> : a \in S, b \in T}

AllCalls ==
    Calls(Rules) \cup [rules : Pairs(Rules \cup Malformed, Malformed), instruction : Instructions,
                       payload : Payloads, queue : {<<>>}]
=============================================================================
