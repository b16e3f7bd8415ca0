---------------------------- MODULE MCVerifiers ----------------------------
(***************************************************************************)
(* Small instances of Auditor and Verifiers.                               *)
(***************************************************************************)
EXTENDS Verifiers

Amounts(fact, fault, crash, rotation, compaction) ==
    [fact |-> fact, fault |-> fault, crash |-> crash,
     rotation |-> rotation, compaction |-> compaction]

Allowing(audits, seals, imports, loads, losses) ==
    [audit |-> audits, seal |-> seals, import |-> imports, load |-> loads, anchor |-> losses]

Manual    == [interval |-> 0, persisted |-> FALSE]
Automatic == [interval |-> 1, persisted |-> TRUE]

Scenario(b, a, p, n) == [budget |-> b, allowance |-> a, policy |-> p, scans |-> n]

\* facts faults crashes rotations compactions, audits seals imports loads losses
FailingLog == Scenario(Amounts(4, 2, 1, 1, 0), Allowing(0, 0, 0, 0, 0), Manual, 2)
Anchoring  == Scenario(Amounts(3, 1, 1, 0, 0), Allowing(2, 2, 0, 0, 1), Automatic, 0)
Documents  == Scenario(Amounts(3, 1, 0, 0, 0), Allowing(2, 1, 1, 1, 0), Manual, 0)
Compacting == Scenario(Amounts(3, 0, 1, 0, 1), Allowing(2, 0, 1, 1, 0), Automatic, 0)

Scanning   == Scenario(Amounts(4, 0, 0, 0, 0), Allowing(0, 0, 0, 0, 0), Manual, 2)

AllScenarios   == {FailingLog, Anchoring, Documents, Compacting}
SaysScenarios  == {Anchoring, Documents, Compacting, Scanning}

AllBudgets   == {c.budget : c \in Scenarios}
AllAllowances == {c.allowance : c \in Scenarios}
AllPolicies  == {Manual, Automatic}

NoFaults    == {}
WriteFaults == {"flush", "torn", "cut", "newline", "sync"}
NoForks     == {}
Forks       == {2}
OneKind     == {"StateTransition"}
IoKinds     == {"StateTransition", "IoResponse"}
AnyAnchorFault == {"lost", "torn"}
=============================================================================
