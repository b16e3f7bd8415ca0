---------------------------- MODULE MCPermission ----------------------------
(***************************************************************************)
(* Instances of Permission, and of SharedFactsLog below it.  A run begins  *)
(* with one of several budgets: for the anchors, with two callers and      *)
(* plain facts, or for the gate, with facts about permissions.             *)
(***************************************************************************)
EXTENDS Permission, TLC

CONSTANTS t1, t2

TwoThreads == {t1, t2}
OneThread == {t1}
Symmetric == Permutations(TwoThreads)

Names == {"fact", "grant", "fault", "crash", "mark", "setting", "seal", "check"}
Of(b) == [e \in Names |-> IF e \in DOMAIN b THEN b[e] ELSE 0]

Anchoring == [fact |-> 3, fault |-> 1, crash |-> 1, mark |-> 1, setting |-> 2, seal |-> 2]
Gating    == [grant |-> 3, check |-> 1]
Faults    == [grant |-> 2, fault |-> 1, crash |-> 1, check |-> 1]
Rollups   == [grant |-> 2, mark |-> 1, check |-> 1]

AllBudgets     == {Of(Anchoring), Of(Gating), Of(Faults), Of(Rollups)}
ReplayBudget   == {Of([grant |-> 1, check |-> 1])}
SaysBudgets    == {Of([fact |-> 2, fault |-> 1, crash |-> 1, mark |-> 1, setting |-> 2, seal |-> 1]),
                   Of(Rollups)}

AllKinds == {"memory", "wal", "durable"}
OnlyDurable == {"durable"}
EverySecond == {2}
AnyFailure == {"lost", "ghost"}
TwoSessions == {1, 2}
Second == {2}

Http == {"http"}
AnyTarget == {""}
OneTenant == {"tenant"}
TwoTenants == {"tenant", "other tenant"}

Always == Role
ForHumans == NewEntry({"human"}, Http, "Allow", Always)
NotLlm    == NewEntry(Role, Http, "Deny", {"llm"})
Faulty    == NewEntry({"llm"}, Http, "Allow", {"broken"})

Approved(e) == review(submit(e), TRUE)

Plain == [path |-> "other", value |-> [kind |-> "plain"]]
Malformed(path) == [path |-> path, value |-> [kind |-> "malformed"]]

Writes ==
    {Plain, store_entry("a", ForHumans), store_entry("a", submit(ForHumans)),
     store_entry("a", Approved(ForHumans)), store_entry("a", review(submit(ForHumans), FALSE)),
     remove("a"), store_entry("b", Approved(NotLlm)), store_entry("b", Approved(Faulty)),
     Malformed("b"), set_default_policy([r \in Role |-> IF r = "unknown" THEN "Deny" ELSE "Allow"]),
     set_default_policy(DefaultPolicy), Malformed("default_policy")}

GateWrites ==
    {Plain, store_entry("b", Approved(NotLlm)),
     store_entry("a", [Approved(ForHumans) EXCEPT !.scope = {"tenant"}])}

Rule(role, decision) == [caller_role |-> role, io_type |-> Http, target |-> AnyTarget,
                         decision |-> decision, empty_field |-> FALSE]
Asset(rules) == [assembled |-> TRUE, version |-> 1, unattended |-> "Deny",
                 default |-> [r \in Role |-> "Allow"], rules |-> rules]

Strict == Asset(<<Rule({"llm"}, "Allow"), Rule({"llm"}, "Deny"), Rule(Role, "Ask")>>)
Invalid == [Strict EXCEPT !.unattended = "Allow"]
AllAssets == {Strict, Invalid}
NoAssets == {}

(* Routes matter only where calls are checked, and the gate is the same     *)
(* over every kind of ledger that does not restart.                         *)
Relevant ==
    /\ budget["check"] = 0 => gate = NoRoutes
    /\ budget["check"] > 0 /\ budget["crash"] = 0 => kind = "durable"

MCInit == PInit /\ Relevant
MCSpec == MCInit /\ [][PNext]_pvars
=============================================================================
