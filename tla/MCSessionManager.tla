-------------------------- MODULE MCSessionManager --------------------------
(***************************************************************************)
(* Small instances of SessionManager.                                      *)
(***************************************************************************)
EXTENDS SessionManager, TLC

CONSTANTS t1, t2

TwoThreads == {t1, t2}
Symmetric == Permutations(TwoThreads)

(* Who holds a clone, and which logs wait to be recycled, has no effect on  *)
(* the rest of the state: TLC need not tell states apart by them, beyond    *)
(* whether there is a holder at all.                                        *)
ManagerView == <<counter, table, running, held # {}, disk, pc, local>>
=============================================================================
