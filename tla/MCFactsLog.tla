----------------------------- MODULE MCFactsLog -----------------------------
(***************************************************************************)
(* Small instances of FactsLog.                                            *)
(***************************************************************************)
EXTENDS FactsLog

Amounts(fact, fault, crash, rotation, compaction) ==
    [fact |-> fact, fault |-> fault, crash |-> crash,
     rotation |-> rotation, compaction |-> compaction]

\*                        fact fault crash rotation compaction
DurableBudget  == {Amounts(4,   0,    1,    1,       1)}
SaysBudgets    == {Amounts(5,   0,    1,    0,       1),
                   Amounts(5,   1,    1,    0,       0)}

NoFaults    == {}
SomeFaults  == {"open", "flush", "torn", "cut", "newline"}
NoForks     == {}
Forks       == {2}
FewKinds    == {"StateTransition", "PayloadUpdate", "Stable"}
=============================================================================
