--------------------------- MODULE SharedFactsLog ---------------------------
(***************************************************************************)
(* The ledger of the facts that sessions share                             *)
(* (evorule-governance/src/shared_facts_log.rs): a FactsLog with a         *)
(* write-ahead log of its own, the index that says which session a fact    *)
(* comes from, and the chain of anchors sealed over both.                  *)
(*                                                                         *)
(* Every operation runs under the ledger's write lock and is one action,   *)
(* except append: it lets go of the lock between counting the record and   *)
(* sealing the anchor that falls due, so the sealing is a step of its own. *)
(* The index is written to the metadata file after every change, and a     *)
(* write that fails is only logged.                                        *)
(*                                                                         *)
(* A fact is its id, what it says and, in `by`, the session that appended  *)
(* it: `by` is auxiliary, the code has only the index.  Hashes are free    *)
(* of collisions: a chain hash is the facts hashed so far, a digest what it*)
(* digests, an anchor's hash the payloads up to it.  Signing is            *)
(* deterministic and adds nothing to the payload it signs.                 *)
(***************************************************************************)
EXTENDS Integers, Sequences, FiniteSets, SequencesExt

CONSTANTS Thread,     \* callers of append
          Session,    \* ids of the sessions that share facts
          WithOrigin, \* the sessions that publish with append_with_origin
          Kinds,      \* how the ledger may be opened
          Intervals,  \* anchor intervals the deployment may configure
          Failures,   \* the ways an append to the WAL may fail
          Content,    \* what a fact may say: a path and a value
          Budgets     \* bounds on facts, faults, crashes, marks and so on

ASSUME SharedFactsLogAssumption ==
    /\ Session \subseteq Nat /\ WithOrigin \subseteq Session
    /\ Kinds \subseteq {"memory", "wal", "durable"}
    /\ Intervals \subseteq Nat
    /\ Failures \subseteq {"lost", "ghost"}
    /\ \A b \in Budgets :
          b \in [{"fact", "grant", "fault", "crash", "mark", "setting", "seal", "check"} -> Nat]

VARIABLES
    kind,     \* "memory": new(); "wal": with_wal(); "durable": recover()
    mode,     \* "up", "down" after a crash, "refused" when recover fails
    history,  \* the facts of the FactsLog in memory
    index,    \* next_fact_id, fact_sources, fact_origins, used_at_startup, rolled_up
    anchors,  \* the anchor chain
    policy,   \* anchor_signer and anchor_interval, records_since_anchor
    wal,      \* the records on disk
    file,     \* the metadata file: an index and anchors
    pc,       \* where each caller of append is
    budget

memory == <<history, index, anchors, policy>>
disk   == <<wal, file>>
vars   == <<kind, mode, memory, disk, pc, budget>>

-----------------------------------------------------------------------------
(* The index, anchors and the chain. *)

EmptyIndex ==
    [next_fact_id |-> 1, fact_sources |-> [i \in {} |-> 0], fact_origins |-> {},
     used_at_startup |-> [s \in {} |-> {}], rolled_up |-> {}]

NoFile == [index |-> [EmptyIndex EXCEPT !.next_fact_id = 0], anchors |-> <<>>]

Off == [signer |-> FALSE, interval |-> 0, since |-> 0]

Put(f, k, v) == [j \in DOMAIN f \cup {k} |-> IF j = k THEN v ELSE f[j]]

Payload(a) == <<a.seq, a.records, a.chain_head, a.metadata_digest>>

compute_hash(prev, a) == Append(prev, Payload(a))

PrevAnchor(as) == IF as = <<>> THEN <<>> ELSE Last(as).anchor_hash

(* The anchor seal_anchor_now makes of the ledger as it is. *)
NewAnchor(as, h, ix) ==
    LET a == [seq |-> Len(as), records |-> Len(h), chain_head |-> h,
              metadata_digest |-> ix, anchor_hash |-> <<>>]
    IN  [a EXCEPT !.anchor_hash = compute_hash(PrevAnchor(as), a)]

(* verify_shared_anchors: numbers and hashes, then the binding of the last. *)
verify_shared_anchors(as) ==
    \A i \in DOMAIN as :
        /\ as[i].seq = i - 1
        /\ as[i].anchor_hash = compute_hash(PrevAnchor(SubSeq(as, 1, i - 1)), as[i])

binding_metadata_match(as, ix) == as = <<>> \/ Last(as).metadata_digest = ix

(* verify_wal_chain: every record goes on from the one before it. *)
verify_wal_chain(records) ==
    \A i \in DOMAIN records :
        records[i].prev = [j \in 1 .. i - 1 |-> records[j].fact]

FactsOf(records) == [i \in DOMAIN records |-> records[i].fact]
IdsOf(facts) == {facts[i].id : i \in DOMAIN facts}

(* detect_orphan_facts *)
detect_orphan_facts(h, sources) == IdsOf(h) \ DOMAIN sources

(* fact_by_id: the first fact of that id, if the index knows the id. *)
fact_by_id(id) ==
    LET i == Min({j \in DOMAIN history : history[j].id = id})
    IN  [fact |-> history[i], source_session_id |-> index.fact_sources[id],
         origin_fact_id |-> id \in index.fact_origins]

(* facts_by_path_prefix: what is not rolled up; an unknown source reads 0. *)
facts_by_path_prefix ==
    {i \in DOMAIN history : history[i].id \notin index.rolled_up}

-----------------------------------------------------------------------------
Spend(E) ==
    /\ \A e \in E : budget[e] > 0
    /\ budget' = [e \in DOMAIN budget |-> IF e \in E THEN budget[e] - 1 ELSE budget[e]]

Init ==
    /\ kind \in Kinds
    /\ mode = "up"
    /\ history = <<>> /\ index = EmptyIndex /\ anchors = <<>> /\ policy = Off
    /\ wal = <<>> /\ file = NoFile
    /\ pc = [t \in Thread |-> "idle"]
    /\ budget \in Budgets

(* persist_metadata_locked: the file is replaced as a whole or, when the    *)
(* write or the rename fails, stays as it was.                              *)
persist_metadata_locked(ok) ==
    file' = IF kind = "durable" /\ ok
            THEN [index |-> index', anchors |-> anchors'] ELSE file

(* What an operation pays when its metadata write does not succeed. *)
Unless(ok) == IF ok THEN {} ELSE {"fault"}
Persists == IF kind = "durable" THEN BOOLEAN ELSE {TRUE}

(* Facts about permissions have a bound of their own; the server appends    *)
(* them under session 0.                                                    *)
CostOf(f) == IF f.says.path = "other" THEN {"fact"} ELSE {"grant"}

Appenders(c) == IF c.path = "other" THEN Session ELSE {0}

WalRecord(f) == [fact |-> f, prev |-> history]

(* Mutant: the index is filled in before the fact is written. *)
IndexFirst(f) ==
    /\ kind # "memory" /\ Spend(CostOf(f) \cup {"fault"})
    /\ index' = [index EXCEPT !.next_fact_id = @ + 1,
                              !.fact_sources = Put(@, f.id, f.by)]
    /\ UNCHANGED <<history, anchors, policy, disk, pc>>

(* append_inner, when the FactsLog refuses: the id is used up all the same. *)
(* A ghost is a record that was written although the write was reported to  *)
(* have failed.                                                             *)
AppendFails(f) ==
    /\ \E e \in Failures :
          wal' = IF e = "ghost" THEN Append(wal, WalRecord(f)) ELSE wal
    /\ kind # "memory"
    /\ Spend(CostOf(f) \cup {"fault"})
    /\ index' = [index EXCEPT !.next_fact_id = @ + 1]
    /\ UNCHANGED <<history, anchors, policy, file, pc>>

(* append_inner: the ledger, the index, the file, the count; whether an     *)
(* anchor is due is decided under the lock, which is then let go.           *)
AppendSucceeds(t, f) ==
    \E ok \in Persists :
        /\ Spend(CostOf(f) \cup Unless(ok))
        /\ history' = Append(history, f)
        /\ wal' = IF kind = "memory" THEN wal ELSE Append(wal, WalRecord(f))
        /\ index' = [index EXCEPT
                       !.next_fact_id = @ + 1,
                       !.fact_sources = Put(@, f.id, f.by),
                       !.fact_origins = IF f.by \in WithOrigin THEN @ \cup {f.id} ELSE @]
        /\ UNCHANGED anchors
        /\ persist_metadata_locked(ok)
        /\ policy' = [policy EXCEPT !.since = @ + 1]
        /\ pc' = [pc EXCEPT ![t] =
                    IF policy.interval > 0 /\ policy'.since >= policy.interval
                    THEN "sealing" ELSE "idle"]

append_inner(t) ==
    /\ mode = "up" /\ pc[t] = "idle"
    /\ \E c \in Content : \E s \in Appenders(c) :
        LET f == [id |-> index.next_fact_id, by |-> s, says |-> c]
        IN  AppendSucceeds(t, f) \/ AppendFails(f)
    /\ UNCHANGED <<kind, mode>>

(* Mutant: the anchor is made of what the file has. *)
SealStale ==
    \E ok \in Persists :
        /\ budget' = IF ok THEN budget ELSE [budget EXCEPT !["fault"] = @ - 1]
        /\ ok \/ budget["fault"] > 0
        /\ anchors' = Append(anchors, NewAnchor(file.anchors, history, index))
        /\ policy' = [policy EXCEPT !.since = 0]
        /\ UNCHANGED <<history, index>>
        /\ persist_metadata_locked(ok)

(* seal_anchor_now under its own lock. *)
Seal ==
    \E ok \in Persists :
        /\ budget' = IF ok THEN budget ELSE [budget EXCEPT !["fault"] = @ - 1]
        /\ ok \/ budget["fault"] > 0
        /\ anchors' = Append(anchors, NewAnchor(anchors, history, index))
        /\ policy' = [policy EXCEPT !.since = 0]
        /\ UNCHANGED <<history, index>>
        /\ persist_metadata_locked(ok)

(* The second half of append. *)
SealDue(t) ==
    /\ mode = "up" /\ pc[t] = "sealing" /\ policy.signer
    /\ pc' = [pc EXCEPT ![t] = "idle"]
    /\ Seal
    /\ UNCHANGED <<kind, mode, wal>>

(* A seal somebody asked for. *)
seal_anchor_now ==
    /\ mode = "up" /\ policy.signer
    /\ Len(anchors) < budget["seal"]
    /\ Seal
    /\ UNCHANGED <<kind, mode, wal, pc>>

with_anchor ==
    /\ mode = "up" /\ Spend({"setting"})
    /\ \E n \in Intervals : policy' = [policy EXCEPT !.signer = TRUE, !.interval = n]
    /\ UNCHANGED <<kind, mode, history, index, anchors, disk, pc>>

(* A session starts from the facts that the ledger lists. *)
record_used_at_startup ==
    /\ mode = "up"
    /\ \E s \in Session, ok \in Persists :
        /\ index' = [index EXCEPT !.used_at_startup =
                       Put(@, s, {history[i].id : i \in facts_by_path_prefix})]
        /\ Spend({"mark"} \cup Unless(ok))
        /\ UNCHANGED anchors
        /\ persist_metadata_locked(ok)
    /\ UNCHANGED <<kind, mode, history, policy, wal, pc>>

(* The ids mark_as_rollup marks; the others it reports as unknown. *)
Markable(ids) == ids \cap DOMAIN index.fact_sources

mark_as_rollup ==
    /\ mode = "up"
    /\ \E id \in 1 .. index.next_fact_id, ok \in Persists :
        /\ index' = [index EXCEPT !.rolled_up = @ \cup Markable({id})]
        /\ Spend({"mark"} \cup Unless(ok))
        /\ UNCHANGED anchors
        /\ persist_metadata_locked(ok)
    /\ UNCHANGED <<kind, mode, history, policy, wal, pc>>

(* reset, on an instance in memory: origins, anchors and the count of       *)
(* records stay.                                                            *)
reset ==
    /\ mode = "up" /\ kind = "memory" /\ Spend({"mark"})
    /\ history' = <<>>
    /\ index' = [EmptyIndex EXCEPT !.fact_origins = index.fact_origins]
    /\ UNCHANGED <<kind, mode, anchors, policy, disk, pc>>

(* The process dies; memory keeps its last values. *)
Crash ==
    /\ mode = "up" /\ kind # "memory" /\ mode' = "down"
    /\ pc' = [t \in Thread |-> "idle"]
    /\ Spend({"crash"})
    /\ UNCHANGED <<kind, memory, disk>>

(* recover: the chain is verified and replayed, the index read as the file  *)
(* has it, the anchor policy has to be configured anew.                     *)
recover ==
    /\ mode = "down" /\ verify_wal_chain(wal)
    /\ mode' = "up" /\ kind' = "durable"
    /\ history' = FactsOf(wal)
    /\ index' = [file.index EXCEPT !.next_fact_id = Max({@, 1})]
    /\ anchors' = file.anchors
    /\ policy' = Off
    /\ UNCHANGED <<disk, pc, budget>>

RecoverRefused ==
    /\ mode = "down" /\ ~verify_wal_chain(wal)
    /\ mode' = "refused"
    /\ UNCHANGED <<kind, memory, disk, pc, budget>>

Next ==
    \/ \E t \in Thread : append_inner(t) \/ SealDue(t)
    \/ seal_anchor_now \/ with_anchor \/ record_used_at_startup \/ mark_as_rollup
    \/ reset \/ Crash \/ recover \/ RecoverRefused

Spec == Init /\ [][Next]_vars

-----------------------------------------------------------------------------
(***************************************************************************)
(* Properties.                                                             *)
(***************************************************************************)

(* The facts of an index that the ledger h has under their last appender. *)
Attributed(ix, h) ==
    \A id \in DOMAIN ix.fact_sources :
        /\ id \in IdsOf(h) /\ id < ix.next_fact_id
        /\ h[Max({i \in DOMAIN h : h[i].id = id})].by = ix.fact_sources[id]

(* The index follows the ledger: whatever appends failed, metadata writes   *)
(* were lost and restarts came between, every attribution append_inner made *)
(* is to a fact of the ledger, under the session that appended it last, and *)
(* origins and rollup marks are of attributed facts.                        *)
IndexFollowsLedger ==
    mode = "up" /\ kind # "memory" =>
        /\ Attributed(index, history) /\ Attributed(file.index, history)
        /\ index.rolled_up \cup index.fact_origins \subseteq DOMAIN index.fact_sources

Bound(a, h) ==
    /\ a.records <= Len(h)
    /\ a.chain_head = SubSeq(h, 1, a.records)
    /\ DOMAIN a.metadata_digest.fact_sources \subseteq IdsOf(a.chain_head)

(* The anchors stay bound to the ledger: although sealing is not part of    *)
(* the append that calls for it, and the metadata that keeps the anchors    *)
(* may be older than the WAL, the chain of anchors verifies, each anchor is *)
(* over a prefix of the ledger and later ones are over longer prefixes.     *)
AnchorsBind ==
    mode = "up" /\ kind # "memory" =>
        /\ verify_shared_anchors(anchors)
        /\ \A i \in DOMAIN anchors :
              /\ Bound(anchors[i], history)
              /\ i > 1 => anchors[i - 1].records <= anchors[i].records

-----------------------------------------------------------------------------
(***************************************************************************)
(* What the comments say of the ledger.                                    *)
(***************************************************************************)

(* The index is never made to lie: the source that fact_by_id reports is    *)
(* the session that appended the fact it returns.  (recover does not invent *)
(* a source for an orphan.)                                                 *)
ProvenanceIsTrue ==
    mode = "up" => \A id \in DOMAIN index.fact_sources :
        fact_by_id(id).fact.by = fact_by_id(id).source_session_id

(* reset takes the ledger back to its initial state: no anchor is left over *)
(* facts that are gone.                                                     *)
ResetIsClean == \A i \in DOMAIN anchors : anchors[i].records <= Len(history)

(* An anchor is sealed every `interval` records. *)
AnchorsKeepUp ==
    mode = "up" /\ policy.interval > 0 /\ (\A t \in Thread : pc[t] = "idle") =>
        Len(history) - (IF anchors = <<>> THEN 0 ELSE Last(anchors).records) < policy.interval

(* As long as no record follows the last anchor the metadata match it. *)
MetadataStands ==
    mode = "up" /\ anchors # <<>> /\ Last(anchors).records = Len(history) =>
        binding_metadata_match(anchors, index)
=============================================================================
