----------------------------- MODULE AuditChain -----------------------------
(***************************************************************************)
(* What a FactsLog promises: an append-only chain of facts that outlives   *)
(* the process.  An append puts one fact at the end; rotating the files,   *)
(* compacting the history in memory, a crash and a recovery change         *)
(* nothing.                                                                *)
(***************************************************************************)
EXTENDS SequencesExt

CONSTANT Fact

VARIABLE chain

Init == chain = <<>>

AppendFact ==
    /\ chain' # <<>>
    /\ Last(chain') \in Fact
    /\ Front(chain') = chain

Spec == Init /\ [][AppendFact]_chain
=============================================================================
