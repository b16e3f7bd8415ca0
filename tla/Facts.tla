------------------------------- MODULE Facts -------------------------------
(***************************************************************************)
(* The facts of the audit chain and what appending one does to the state   *)
(* the chain materialises (evorule-audit-chain/src/fact.rs,                *)
(* evorule-reactor/src/facts_log.rs).                                      *)
(*                                                                         *)
(* A payload is abstracted to a value of Data; the I/O results a reactor   *)
(* injects under __io_results__ live beside it, in the reactor's module.   *)
(* An instruction instance is a record: the instruction and, in `from`,    *)
(* the id of the Command it descends from.  `from` is an auxiliary         *)
(* component: the code has no such field, no action reads it except to     *)
(* hand it on to the instructions an instruction pushes.                   *)
(***************************************************************************)
EXTENDS Integers, Sequences

CONSTANTS Instruction,          \* instructions a Command may carry
          Data,                 \* abstract payloads
          InitData,             \* the payload of a new session
          Update,               \* what a PayloadUpdate may carry: a path and a value
          UpdatePayload(_, _),  \* effect of an update on a payload, or Rejected
          Rejected              \* "the path runs through a value that is no object"

ASSUME FactsAssumption ==
    /\ InitData \in Data
    /\ Rejected \notin Data
    /\ \A u \in Update, d \in Data : UpdatePayload(u, d) \in Data \cup {Rejected}

(* An instruction on the queue together with the Command it comes from. *)
Item == [instr : Instruction, from : Nat]

(***************************************************************************)
(* Facts.  Ids are kept where another fact or message refers to them:      *)
(* Commands and IoRequests.  A response is ok when it carries a non-null   *)
(* result and no error.                                                    *)
(***************************************************************************)
CommandFact(id, i)   == [type |-> "Command", id |-> id, instr |-> i]
PayloadUpdateFact(u) == [type |-> "PayloadUpdate", update |-> u]
IoResponseFact(r, ok) == [type |-> "IoResponse", request |-> r, ok |-> ok]
IoRequestFact(r, c)  == [type |-> "IoRequest", id |-> r, cause |-> c]
TransitionFact(c, d, q) ==
    [type |-> "StateTransition", cause |-> c, data |-> d, queue |-> q]
TraceFact            == [type |-> "TransitionTrace"]
ViolationFact(c)     == [type |-> "Violation", cause |-> c]
StableFact(v)        == [type |-> "Stable", version |-> v]
ErrorFact            == [type |-> "Error"]

Fact == [type : {"Command"}, id : Nat, instr : Instruction]
   \cup [type : {"PayloadUpdate"}, update : Update]
   \cup [type : {"IoResponse"}, request : Nat, ok : BOOLEAN]
   \cup [type : {"IoRequest"}, id : Nat, cause : Nat]
   \cup [type : {"StateTransition"}, cause : Nat, data : Data, queue : Seq(Item)]
   \cup [type : {"TransitionTrace"}]
   \cup [type : {"Violation"}, cause : Nat]
   \cup [type : {"Stable"}, version : Nat]
   \cup [type : {"Error"}]

-----------------------------------------------------------------------------
(* The chain: its facts and the state they materialise. *)
Log == [facts : Seq(Fact), data : Data, queue : Seq(Item),
        version : Nat, last_stable : Nat]

EmptyLog == [facts |-> <<>>, data |-> InitData, queue |-> <<>>,
             version |-> 0, last_stable |-> 0]

(* Mutant: the chain does not count payload updates. *)
AdvancesButUpdates(f) == f.type \in {"StateTransition", "IoResponse"}

(* The facts that advance the chain's version. *)
Advances(f) == f.type \in {"StateTransition", "IoResponse", "PayloadUpdate"}

(* A rejected update leaves the snapshot alone: the chain swallows the      *)
(* error that update_payload in the reactor returns.                        *)
PatchSnapshot(u, d) ==
    IF UpdatePayload(u, d) = Rejected THEN d ELSE UpdatePayload(u, d)

(* FactsLog::append once the write has succeeded: the history, and by       *)
(* apply_fact_to_state the materialised state.                              *)
LogAppend(L, f) ==
    [facts       |-> Append(L.facts, f),
     data        |-> IF f.type = "StateTransition" THEN f.data
                     ELSE IF f.type = "PayloadUpdate" THEN PatchSnapshot(f.update, L.data)
                     ELSE L.data,
     queue       |-> IF f.type = "StateTransition" THEN f.queue ELSE L.queue,
     version     |-> IF Advances(f) THEN L.version + 1 ELSE L.version,
     last_stable |-> IF f.type = "Stable" THEN L.version ELSE L.last_stable]
=============================================================================
