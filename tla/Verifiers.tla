----------------------------- MODULE Verifiers -----------------------------
(***************************************************************************)
(* The programs that judge the evidence from outside: verify-chain,        *)
(* verify-anchors and the sentinel scan-wal-dir of the command line        *)
(* (evorule-cli/src/commands), and the independent verifier                *)
(* (evid-verify-core), over the log, the anchors and the documents that    *)
(* Auditor produces.                                                       *)
(*                                                                         *)
(* The verifiers are operators on what they are given; the sentinel, which *)
(* remembers what it saw at its last good scan, is an action.  It may run  *)
(* at any time, beside the running process too.                            *)
(***************************************************************************)
EXTENDS Auditor

CONSTANTS Scenarios,  \* how bounds and policies go together
          IdOffset,   \* where the ids of the I/O subscriber begin
          AnchorId    \* the first next_anchor_id of a log

VARIABLES baseline,  \* what the sentinel's baseline file has: <<>> or one entry
          exit_code, \* of the last scan
          scans      \* the scans that may still be made

sentinel == <<baseline, exit_code, scans>>
allVars  == <<auditVars, sentinel>>

ASSUME ScenarioAssumption ==
    /\ {IdOffset, AnchorId} \subseteq Nat
    /\ \A c \in Scenarios :
          /\ c.budget \in Budgets /\ c.allowance \in Allowances
          /\ c.policy \in Policies /\ c.scans \in Nat

-----------------------------------------------------------------------------
(* verify-chain. *)

(* The hash the fold over the first n records arrives at, each record's     *)
(* content hash being its fact.                                             *)
Running(records, n) == SubSeq(FactsOf(records), 1, n)

verify_hash_chain_with_stored(records) ==
    \A i \in DOMAIN records :
        /\ records[i].prev_hash = Running(records, i - 1)
        /\ records[i].chain_hash = chain_step(Running(records, i - 1), records[i].fact)

(* A fact's id: the answers to I/O requests get theirs from a counter of    *)
(* the I/O subscriber, the anchor fact of a fork from one of the log; the   *)
(* reactor numbers the others in order.                                     *)
fact_id(f) ==
    CASE f.kind = "IoResponse" -> IdOffset + f.id
      [] f.kind = "Fork"       -> AnchorId
      [] OTHER                 -> f.id

OneCounter(facts) == \A i \in DOMAIN facts : facts[i].kind \notin {"IoResponse", "Fork"}

(* verify_structural_invariants; causes are not modelled here. *)
verify_structural_invariants(facts) ==
    \A i \in DOMAIN facts : i > 1 => fact_id(facts[i]) > fact_id(facts[i - 1])

verify_chain(records) ==
    verify_hash_chain_with_stored(records) /\ verify_structural_invariants(FactsOf(records))

-----------------------------------------------------------------------------
(* The independent verifier. *)

(* Mutant: the fold trusts the hash that the line before claims to go on from. *)
LooseLines(lines) ==
    \A i \in DOMAIN lines :
        /\ lines[i].chain_hash = chain_step(lines[i].prev_hash, lines[i].fact)

(* verify_wal_lines: it folds the hashes that the lines claim. *)
verify_wal_lines(lines) ==
    \A i \in DOMAIN lines :
        /\ lines[i].prev_hash = IF i = 1 THEN genesis ELSE lines[i - 1].chain_hash
        /\ lines[i].chain_hash = chain_step(lines[i].prev_hash, lines[i].fact)

(* verify_export: the entries as a chain, and its end the hash claimed. *)
verify_export(doc) ==
    /\ \A i \in DOMAIN doc.entries : doc.entries[i].prev_hash = Running(doc.entries, i - 1)
    /\ Running(doc.entries, Len(doc.entries)) = doc.last_hash

(* verify_seal_chain: as verify_anchor_chain, and no range runs backwards. *)
verify_seal_chain(seals) ==
    \A i \in DOMAIN seals :
        /\ seals[i].seq = i - 1
        /\ seals[i].lo = PrevHi(seals, i)
        /\ seals[i].lo <= seals[i].hi
        /\ seals[i].anchor_hash = compute_anchor_hash(PrevHash(seals, i), seals[i])

(* verify-anchors: numbers and ranges; the signature is over the payload    *)
(* alone, and the hashes are not looked at.                                 *)
verify_value(as) == \A i \in DOMAIN as : as[i].seq = i - 1 /\ as[i].lo = PrevHi(as, i)

-----------------------------------------------------------------------------
(* The sentinel. *)

(* verify_group: the chain hash after each record; the shards of a session  *)
(* other than the main file are not in its group, reading that file reads   *)
(* them.                                                                    *)
verify_group(records) == [i \in DOMAIN records |-> Running(records, i)]

Observed(records) ==
    [records |-> Len(records), tail |-> Running(records, Len(records))]

(* Mutant: the prefix is taken one record too long. *)
AnchoredBeyond(chain, prev) ==
    LET i == prev.records + 1
    IN  i <= Len(chain) /\ chain[i] = prev.tail

(* The prefix as long as the baseline ends as the baseline did: the index   *)
(* is the number of records less one, or zero.                              *)
Anchored(chain, prev) ==
    LET i == IF prev.records = 0 THEN 1 ELSE prev.records
    IN  i <= Len(chain) /\ chain[i] = prev.tail

compare_with_baseline(chain, obs, prev) ==
    IF obs.records > prev.records THEN Anchored(chain, prev)
    ELSE obs.records = prev.records /\ obs.tail = prev.tail

(* scan-wal-dir: 5 for a log that cannot be read, 3 for one that is not a   *)
(* chain or does not go on from the baseline; the baseline moves only on 0. *)
ExitCode(shards, base) ==
    LET records == read_wal_with_hash(shards)
    IN  IF ~Readable(shards) THEN 5
        ELSE IF ~verify_hash_chain_with_stored(records) THEN 3
        ELSE IF base = <<>> \/ compare_with_baseline(verify_group(records),
                                                     Observed(records), base[1])
        THEN 0 ELSE 3

scan_wal_dir ==
    /\ scans > 0 /\ scans' = scans - 1
    /\ exit_code' = ExitCode(store.shards, baseline)
    /\ baseline' = IF exit_code' = 0 THEN <<Observed(read_wal_with_hash(store.shards))>>
                   ELSE baseline
    /\ UNCHANGED auditVars

VerifyInit ==
    /\ AuditInit
    /\ baseline = <<>> /\ exit_code = 0
    /\ \E c \in Scenarios :
          budget = c.budget /\ allowance = c.allowance /\ policy = c.policy /\ scans = c.scans

VerifyNext == scan_wal_dir \/ (AuditNext /\ UNCHANGED sentinel)

VerifySpec == VerifyInit /\ [][VerifyNext]_allVars

-----------------------------------------------------------------------------
(***************************************************************************)
(* Properties.                                                             *)
(***************************************************************************)

(* The verifiers agree: whatever writes failed, the hashes of a readable    *)
(* log are accepted by verify-chain, by the independent verifier and by the *)
(* auditor's load together or by none of them, and verify-chain, which      *)
(* looks at the ids too, refuses no log that the others accept unless it    *)
(* has facts that were not numbered by the reactor: answers to I/O requests *)
(* or the anchor of a fork.  A document is accepted by verify_export        *)
(* exactly when it has a chain that verify_deep accepts and its last hash;  *)
(* and anchors whose ranges go forward are accepted by the engine, the      *)
(* independent verifier and verify-anchors together or by none.             *)
VerifiersAgree ==
    /\ Readable(store.shards) =>
          /\ verify_hash_chain_with_stored(OnDisk) = verify_wal_lines(OnDisk)
          /\ verify_hash_chain_with_stored(OnDisk) = (LoadStop(OnDisk) = Len(OnDisk))
          /\ OneCounter(FactsOf(OnDisk)) => verify_chain(OnDisk) = verify_wal_lines(OnDisk)
    /\ \A i \in DOMAIN exported :
          verify_export(exported[i]) =
              (/\ verify_deep(exported[i].entries, FactsOf(exported[i].entries))
               /\ exported[i].last_hash = FactsOf(exported[i].entries))
    /\ RangesGoForward =>
          /\ verify_seal_chain(anchors) = verify_anchor_chain(anchors)
          /\ verify_value(anchors) = verify_anchor_chain(anchors)

(* The sentinel is right: a scan ends with 0 exactly when the log is        *)
(* readable and one chain, however the log grew, was rotated, cut or        *)
(* recovered since the last scan; only a baseline taken of an empty log is  *)
(* left out.                                                                *)
SentinelIsRight ==
    [][scans' < scans /\ (baseline = <<>> \/ baseline[1].records > 0) =>
          (exit_code' = 0 <=> Intact)]_allVars

-----------------------------------------------------------------------------
(***************************************************************************)
(* What the documentation says of the verifiers.                           *)
(***************************************************************************)

(* 0 is the exit code of a log that was only appended to. *)
AppendsAreGreen == [][scans' < scans /\ Intact => exit_code' = 0]_allVars

(* The ids of the facts of a log increase: verify-chain accepts the log of  *)
(* every session, forks too.                                                *)
FactIdsIncrease == verify_structural_invariants(last_hash)
=============================================================================
