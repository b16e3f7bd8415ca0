------------------------------ MODULE FactsLog ------------------------------
(***************************************************************************)
(* The audit chain of one session as it is kept: the history and the       *)
(* materialised state in memory (evorule-reactor/src/facts_log.rs), the    *)
(* write-ahead log in rotated shards on disk (wal.rs), its recovery, and   *)
(* the two operations the tools add: rewinding a history to a version      *)
(* (evorule-governance/src/session.rs) and cutting off a torn last line    *)
(* (evorule-cli/src/commands/truncate_partial_line.rs).                    *)
(*                                                                         *)
(* Every operation runs under the write lock of the FactsLog, so each is   *)
(* one action.  Facts are told apart by an id and by what appending them   *)
(* does.  A payload is the list of the facts that shaped it since it was   *)
(* last replaced; BaseState is the payload a fork starts from.  Hashes are *)
(* free of collisions: content_hash is the fact, a chain hash the facts    *)
(* hashed so far.  Sizes are counted in records.                           *)
(***************************************************************************)
EXTENDS Integers, Sequences, FiniteSets, SequencesExt

CONSTANTS Kinds,        \* the kinds of facts the session appends
          MaxLines,     \* max_wal_size_bytes, 0 switches rotation off
          Faults,       \* the ways a write may fail
          ForkVersions, \* versions a fork may start from
          MaxFacts,     \* bound on the facts appended
          Budgets       \* bounds on facts, faults, crashes, rotations, compactions

AllKinds == {"StateTransition", "PayloadUpdate", "IoResponse", "Stable", "Record"}

ASSUME FactsLogAssumption ==
    /\ Kinds \subseteq AllKinds
    /\ Faults \subseteq {"open", "flush", "torn", "cut", "newline", "sync"}
    /\ {MaxLines, MaxFacts} \subseteq Nat /\ ForkVersions \subseteq Nat
    /\ Budgets \subseteq [{"fact", "fault", "crash", "rotation", "compaction"} -> Nat]
    /\ \A b \in Budgets : b["fact"] <= MaxFacts

VARIABLES
    mode,       \* "up", "down" after a crash, "refused" after a failed recovery
    history,    \* history: the records in memory
    state,      \* current_snapshot, version and last_stable_version
    last_hash,  \* the tail of the hash chain
    compacted,  \* compacted_snapshot
    store,      \* the shards on disk and the WalWriter on them
    past,       \* auxiliary: the payload the session had at each version
    budget      \* what the environment may still do

memory == <<history, state, last_hash, compacted>>
vars   == <<mode, memory, store, past, budget>>

-----------------------------------------------------------------------------
(* Facts, hashes and the state a fact leads to. *)

(* "Fork" is the payload update that anchors the base of a fork: its id is  *)
(* not from the reactor's counter (Verifiers!fact_id).                      *)
Fact == [id : Nat, kind : AllKinds \cup {"Fork"}]

genesis == <<>>
chain_step(prev, f) == Append(prev, f)

EmptyState == [snapshot |-> <<>>, version |-> 0, last_stable |-> 0]
BaseState(v) == [snapshot |-> <<0>>, version |-> v, last_stable |-> v]

Advancing == {"StateTransition", "PayloadUpdate", "IoResponse", "Fork"}

ApplyPayload(p, f) ==
    CASE f.kind = "StateTransition"           -> <<f.id>>
      [] f.kind \in {"PayloadUpdate", "Fork"} -> Append(p, f.id)
      [] OTHER                                -> p

apply_fact_to_state(s, f) ==
    [snapshot    |-> ApplyPayload(s.snapshot, f),
     version     |-> IF f.kind \in Advancing THEN s.version + 1 ELSE s.version,
     last_stable |-> IF f.kind = "Stable" THEN s.version ELSE s.last_stable]

Record(f) ==
    [version_before |-> state.version, fact |-> f,
     prev_hash |-> last_hash, chain_hash |-> chain_step(last_hash, f)]

FactsOf(records) == [i \in DOMAIN records |-> records[i].fact]

-----------------------------------------------------------------------------
(***************************************************************************)
(* The shards and their writer.  A store is a record:                      *)
(*   shards  the existing shards, each a list of lines; a line has a       *)
(*           record and a form                                             *)
(*   seq     WalWriter.file_sequence                                       *)
(*   file    the shard the writer's handle is open on                      *)
(*   size    WalWriter.current_size_bytes                                  *)
(*   buffer  what a failed flush left in the BufWriter                     *)
(*   spoilt  auxiliary: the facts of records run together in one line      *)
(* The form of a line is "whole" or, where a write stopped,                *)
(*   "torn"     a part of the line, the rest of it is first in the buffer  *)
(*   "bare"     all of the line but its newline; it can be read            *)
(*   "cut"      a part of the line, and the rest is nowhere: a line as     *)
(*              long as the buffer is written past it                      *)
(*   "garbled"  an unterminated line with the next record run into it      *)
(***************************************************************************)
Whole(recs) == [i \in DOMAIN recs |-> [rec |-> recs[i], form |-> "whole"]]

EndsIn(lines, forms) == lines # <<>> /\ Last(lines).form \in forms
EndsTorn(lines) == EndsIn(lines, {"torn", "cut"})

(* Lines without an unreadable end. *)
Kept(lines) == IF EndsTorn(lines) THEN Front(lines) ELSE lines

(* The buffer recs begins with what the last line lacks. *)
Continued(lines, recs) ==
    \/ EndsIn(lines, {"torn"})
    \/ EndsIn(lines, {"bare"}) /\ recs # <<>> /\ recs[1] = Last(lines).rec

(* The first of recs is run into the last line. *)
Joined(lines, recs) ==
    EndsIn(lines, {"bare", "cut"}) /\ recs # <<>> /\ ~Continued(lines, recs)

(* Lines with recs behind them. *)
Written(lines, recs) ==
    IF Joined(lines, recs)
    THEN Append(Front(lines), [rec |-> recs[1], form |-> "garbled"]) \o Whole(Tail(recs))
    ELSE (IF Continued(lines, recs) THEN Front(lines) ELSE lines) \o Whole(recs)

(* Lines with a part of the first of recs behind them. *)
PartOf(lines, recs, form) ==
    IF Joined(lines, recs)
    THEN Append(Front(lines), [rec |-> Last(lines).rec, form |-> "cut"])
    ELSE IF Continued(lines, recs) THEN lines
    ELSE Append(lines, [rec |-> recs[1], form |-> form])

TornBy(lines, recs) == PartOf(lines, recs, "torn")

(* create_with_options on a directory without shards. *)
create_with_options ==
    [shards |-> [k \in {0} |-> <<>>], seq |-> 0, file |-> 0, size |-> 0, buffer |-> <<>>,
     spoilt |-> {}]

Outcome(ok, s) == [ok |-> ok, store |-> s]

SetLines(s, k, lines) ==
    [j \in DOMAIN s.shards \cup {k} |-> IF j = k THEN lines ELSE s.shards[j]]

(* What is left of the old shard when its BufWriter is dropped: the drop    *)
(* writes the buffer or loses it.                                           *)
Dropped(s) == {s.shards} \cup {SetLines(s, s.file, Written(s.shards[s.file], s.buffer))}

(* Mutant: the new shard is opened under the old number. *)
rotate_in_place(s) ==
    {Outcome(TRUE, [shards |-> SetLines([shards |-> d], s.seq, <<>>),
                    seq |-> s.seq, file |-> s.seq, size |-> 0, buffer |-> <<>>,
                    spoilt |-> s.spoilt])
       : d \in Dropped(s)}

(* rotate: the sequence is advanced before the next shard is opened. *)
rotate(s) ==
    {Outcome(TRUE, [shards |-> SetLines([shards |-> d], s.seq + 1, <<>>),
                    seq |-> s.seq + 1, file |-> s.seq + 1, size |-> 0, buffer |-> <<>>,
                    spoilt |-> s.spoilt])
       : d \in Dropped(s)}
    \cup {Outcome(FALSE, [s EXCEPT !.seq = @ + 1]) : x \in Faults \cap {"open"}}

(* A record as long as the buffer: the buffer is flushed and the record     *)
(* written past it.  A part of it is written, or nothing; the flush fails,  *)
(* with nothing or a part of the buffer written.                            *)
CutShort(s, rec) ==
    LET lines == s.shards[s.file]
    IN  {[s EXCEPT !.buffer = <<>>,
                   !.shards[s.file] = PartOf(Written(lines, s.buffer), <<rec>>, "cut")],
         [s EXCEPT !.buffer = <<>>, !.shards[s.file] = Written(lines, s.buffer)], s}
        \cup {[s EXCEPT !.shards[s.file] = TornBy(lines, s.buffer)] : x \in {1} \cap DOMAIN s.buffer}

(* All of recs is written but the last newline. *)
BareAt(lines, recs) ==
    LET all == Written(lines, recs)
    IN  Append(Front(all), [rec  |-> Last(all).rec,
                            form |-> IF Last(all).form = "whole" THEN "bare" ELSE "cut"])

RunTogether(lines, recs) ==
    IF Joined(lines, recs) THEN {Last(lines).rec.fact, recs[1].fact} ELSE {}

(* Write and flush one record. *)
WriteLine(writer, rec) ==
    LET recs == Append(writer.buffer, rec)
        lines == writer.shards[writer.file]
        s == [writer EXCEPT !.spoilt = @ \cup RunTogether(lines, recs)]
    IN  {Outcome(TRUE, [s EXCEPT !.shards[s.file] = Written(lines, recs),
                                 !.buffer = <<>>, !.size = @ + 1])}
        \cup {Outcome(FALSE, c) : c \in UNION {CutShort(s, rec) : x \in Faults \cap {"cut"}}}
        \cup {Outcome(FALSE, [s EXCEPT !.buffer = <<rec>>, !.shards[s.file] = BareAt(lines, recs)])
                : x \in Faults \cap {"newline"}}
        \cup {Outcome(FALSE, [s EXCEPT !.buffer = recs]) : x \in Faults \cap {"flush"}}
        \cup {Outcome(FALSE, [s EXCEPT !.buffer = recs, !.shards[s.file] = TornBy(lines, recs)])
                : x \in Faults \cap {"torn"}}
        \cup {Outcome(FALSE, [s EXCEPT !.buffer = <<>>, !.shards[s.file] = Written(lines, recs)])
                : x \in Faults \cap {"sync"}}

NeedsRotation(s) == MaxLines > 0 /\ s.size > 0 /\ s.size + 1 > MaxLines

append_record_with_hash(s, rec) ==
    IF NeedsRotation(s)
    THEN {o \in rotate(s) : ~o.ok}
         \cup UNION {WriteLine(o.store, rec) : o \in {r \in rotate(s) : r.ok}}
    ELSE WriteLine(s, rec)

(* The shards a reader finds: it stops at the first number that is missing. *)
LastShard(shards) == CHOOSE k \in DOMAIN shards : 0 .. k \subseteq DOMAIN shards
                                                  /\ k + 1 \notin DOMAIN shards

ReadLines(shards) ==
    FlattenSeq([i \in 1 .. LastShard(shards) + 1 |-> shards[i - 1]])

Readable(shards) ==
    \A i \in DOMAIN ReadLines(shards) : ReadLines(shards)[i].form \in {"whole", "bare"}

(* read_wal_with_hash, on readable shards. *)
read_wal_with_hash(shards) ==
    [i \in DOMAIN ReadLines(shards) |-> ReadLines(shards)[i].rec]

(* append_with_options: only the main file's size is looked up, and no file *)
(* for the end of its last line.                                            *)
append_with_options(s) ==
    LET k == LastShard(s.shards)
    IN  [shards |-> s.shards, seq |-> k, file |-> k,
         size |-> IF k = 0 THEN Len(s.shards[0]) ELSE 0, buffer |-> <<>>, spoilt |-> s.spoilt]

-----------------------------------------------------------------------------
(* budget without what the events in E use up. *)
Spend(E) ==
    /\ \A e \in E : budget[e] > 0
    /\ budget' = [e \in DOMAIN budget |-> IF e \in E THEN budget[e] - 1 ELSE budget[e]]

(* A fact is appended: what its write uses up. *)
Cost(ok) == IF ok THEN {"fact"} ELSE {"fact", "fault"}

Init ==
    /\ mode = "up"
    /\ history = <<>> /\ state = EmptyState /\ last_hash = genesis /\ compacted = <<>>
    /\ store = create_with_options
    /\ past = [v \in {0} |-> <<>>]
    /\ budget \in Budgets

(* Facts are told apart by a number, in the order they are appended; the    *)
(* id a fact has in the log is Verifiers!fact_id.                           *)
next_id == MaxFacts - budget["fact"] + 1
NewFact(k) == [id |-> next_id, kind |-> k]

(* The memory after f, and the payload it leads to remembered. *)
UpdateMemory(f) ==
    /\ history' = Append(history, [version_before |-> state.version, fact |-> f])
    /\ state' = apply_fact_to_state(state, f)
    /\ last_hash' = chain_step(last_hash, f)
    /\ past' = [u \in DOMAIN past \cup {state'.version} |->
                  IF u = state'.version THEN state'.snapshot ELSE past[u]]

(* Mutant: memory is updated although the write failed. *)
AppendAnyway(f) ==
    \E o \in append_record_with_hash(store, Record(f)) :
        /\ store' = o.store
        /\ Spend(Cost(o.ok))
        /\ UpdateMemory(f)

(* FactsLog::append: first the disk, then memory; a failed write leaves     *)
(* memory alone.                                                            *)
AppendFact(f) ==
    \E o \in append_record_with_hash(store, Record(f)) :
        /\ store' = o.store
        /\ Spend(Cost(o.ok))
        /\ \/ o.ok /\ UpdateMemory(f)
           \/ ~o.ok /\ UNCHANGED <<history, state, last_hash, past>>

append ==
    /\ mode = "up"
    /\ \E k \in Kinds : AppendFact(NewFact(k))
    /\ UNCHANGED <<mode, compacted>>

(* set_initial_state on the new log of a fork: the anchor fact is appended, *)
(* whatever comes of it; then payload and version are set in memory.        *)
set_initial_state ==
    /\ mode = "up" /\ next_id = 1
    /\ \E v \in ForkVersions,
          o \in append_record_with_hash(store, Record(NewFact("Fork"))) :
        /\ store' = o.store
        /\ Spend(Cost(o.ok))
        /\ \/ /\ o.ok
              /\ history' = <<[version_before |-> 0, fact |-> NewFact("Fork")]>>
              /\ last_hash' = chain_step(last_hash, NewFact("Fork"))
           \/ ~o.ok /\ UNCHANGED <<history, last_hash>>
        /\ state' = BaseState(v)
        /\ past' = [u \in {v} |-> BaseState(v).snapshot]
    /\ UNCHANGED <<mode, compacted>>

rotate_wal ==
    /\ mode = "up"
    /\ \E o \in rotate(store) :
        /\ store' = o.store
        /\ Spend(IF o.ok THEN {"rotation"} ELSE {"rotation", "fault"})
    /\ UNCHANGED <<mode, memory, past>>

(* Mutant: the split is made after the first fact past the stable version. *)
SplitPointLate ==
    LET later == {i \in DOMAIN history : history[i].version_before > state.last_stable}
    IN  IF later = {} THEN Len(history) ELSE Min(later)

(* The number of records compact() drops. *)
SplitPoint ==
    LET later == {i \in DOMAIN history : history[i].version_before > state.last_stable}
    IN  IF later = {} THEN Len(history) ELSE Min(later) - 1

compact ==
    /\ mode = "up" /\ SplitPoint > 0
    /\ compacted' = <<[version |-> state.last_stable, snapshot |-> state.snapshot,
                       last_hash |-> last_hash, count |-> SplitPoint]>>
    /\ history' = SubSeq(history, SplitPoint + 1, Len(history))
    /\ Spend({"compaction"})
    /\ UNCHANGED <<mode, state, last_hash, store, past>>

(* The process dies; a writer that is dropped on the way out still tries to *)
(* write its buffer.  The variables of memory keep the last values it had.  *)
Crash ==
    /\ mode = "up" /\ mode' = "down"
    /\ \E d \in Dropped(store) : store' = [store EXCEPT !.shards = d, !.buffer = <<>>]
    /\ Spend({"crash"})
    /\ UNCHANGED <<memory, past>>

replay_wal_records(records) ==
    FoldLeft(apply_fact_to_state, EmptyState, FactsOf(records))

(* Mutant: a recovered chain starts a new hash chain. *)
RecoveredHashFresh(records) == genesis

(* The hash a recovered chain goes on from: the last record's. *)
RecoveredHash(records) == IF records = <<>> THEN genesis ELSE Last(records).chain_hash

(* recover_with_options: read, replay, mount the writer. *)
recover_with_options ==
    /\ mode = "down" /\ Readable(store.shards)
    /\ LET records == read_wal_with_hash(store.shards)
       IN  /\ history' = [i \in DOMAIN records |->
                            [version_before |-> records[i].version_before,
                             fact |-> records[i].fact]]
           /\ state' = replay_wal_records(records)
           /\ last_hash' = RecoveredHash(records)
    /\ compacted' = <<>>
    /\ store' = append_with_options(store)
    /\ mode' = "up"
    /\ UNCHANGED <<past, budget>>

RecoverRefused ==
    /\ mode = "down" /\ ~Readable(store.shards)
    /\ mode' = "refused"
    /\ UNCHANGED <<memory, store, past, budget>>

(* A list of records is a hash chain that starts at `prev`. *)
Linked(records, prev) ==
    \A i \in DOMAIN records :
        /\ records[i].prev_hash = IF i = 1 THEN prev ELSE records[i - 1].chain_hash
        /\ records[i].chain_hash = chain_step(records[i].prev_hash, records[i].fact)

Recs(lines) == [i \in DOMAIN lines |-> lines[i].rec]

(* truncate-partial-line, given a shard that ends torn: a file without a    *)
(* whole line is refused (the main file has its header), and the prefix is  *)
(* read and verified as a chain from genesis, whichever shard it is.        *)
Curable(k) ==
    LET prefix == Front(store.shards[k])
    IN  /\ EndsTorn(store.shards[k])
        /\ k = 0 \/ Len(store.shards[k]) > 1
        /\ \A i \in DOMAIN prefix : prefix[i].form = "whole"
        /\ Linked(Recs(prefix), genesis)

truncate_partial_line ==
    /\ mode = "refused"
    /\ \E k \in DOMAIN store.shards :
        /\ Curable(k)
        /\ store' = [store EXCEPT !.shards[k] = Front(@)]
    /\ mode' = "down"
    /\ UNCHANGED <<memory, past, budget>>

-----------------------------------------------------------------------------
(* Reading the history. *)

(* read_from(v), when v is not before the compaction point: version_index   *)
(* gives the first record of the least version from v on.                   *)
read_from(v) ==
    LET later == {history[i].version_before : i \in DOMAIN history} \ (0 .. v - 1)
    IN  IF later = {} THEN <<>>
        ELSE SubSeq(FactsOf(history),
                    Min({i \in DOMAIN history : history[i].version_before = Min(later)}),
                    Len(history))

(* Mutant: an update does not count as a version. *)
VersionAfterUncounted(h, i) ==
    LET advances == {j \in 1 .. i : h[j].fact.kind \in Advancing \ {"PayloadUpdate"}}
    IN  IF advances = {} THEN 0 ELSE h[Max(advances)].version_before + 1

(* Going back to version t in the records h: the version the loop has       *)
(* reached after i of them, ...                                             *)
VersionAfter(h, i) ==
    LET advances == {j \in 1 .. i : h[j].fact.kind \in Advancing}
    IN  IF advances = {} THEN 0 ELSE h[Max(advances)].version_before + 1

(* ... where it stops, ... *)
RewindStop(h, t) ==
    LET hits == {i \in DOMAIN h : VersionAfter(h, i) = t}
    IN  IF hits = {} THEN Len(h) ELSE Min(hits)

(* ... whether there is a payload, and which. *)
Rewindable(h, t) == t = 0 \/ VersionAfter(h, RewindStop(h, t)) >= t

Replayed(h, n) == FoldLeft(ApplyPayload, <<>>, FactsOf(SubSeq(h, 1, n)))

rewind_payload(h, t) == IF t = 0 THEN <<>> ELSE Replayed(h, RewindStop(h, t))

(* The time machine has facts without versions, and counts. *)
Counted(h, i) == Cardinality({j \in 1 .. i : h[j].fact.kind \in Advancing})

rewind(h, t) ==
    LET hits == {i \in DOMAIN h : Counted(h, i) = t}
    IN  IF t = 0 THEN <<>> ELSE Replayed(h, IF hits = {} THEN Len(h) ELSE Min(hits))

(* payload_from_wal_records verifies an archive, then goes back in it. *)
Archived(h) == \A i \in DOMAIN h : h[i].chain_hash = FactsOf(SubSeq(h, 1, i))

payload_from_wal_records(h, t) ==
    IF Archived(h) /\ Rewindable(h, t) THEN <<rewind_payload(h, t)>> ELSE <<>>

(* The log of a session that is not a fork, on a disk that works. *)
HealthyNext == append \/ rotate_wal \/ compact \/ Crash \/ recover_with_options
HealthySpec == Init /\ [][HealthyNext]_vars

Next == HealthyNext \/ set_initial_state \/ RecoverRefused \/ truncate_partial_line
Spec == Init /\ [][Next]_vars

-----------------------------------------------------------------------------
(***************************************************************************)
(* Properties.                                                             *)
(***************************************************************************)

(* What a recovery would read. *)
OnDisk == read_wal_with_hash(store.shards)

(* The log as the abstract audit chain: the facts hashed so far while the   *)
(* process is up, what a reader finds on disk while it is not.  Rotation,   *)
(* compaction, crash and recovery are to leave it alone.                    *)
ChainOf == IF mode = "up" THEN last_hash ELSE FactsOf(OnDisk)
Chain == INSTANCE AuditChain WITH chain <- ChainOf, Fact <- Fact
Durable == Chain!Spec

(* Recovery rebuilds what the process had when it died: payload, version,   *)
(* last stable version and the hash the chain goes on from.                 *)
RecoveryRestores ==
    [][mode = "down" /\ mode' = "up" => state' = state /\ last_hash' = last_hash]_vars

(* The k-th of a set of numbers. *)
Nth(S, k) == CHOOSE i \in S : Cardinality({j \in S : j <= i}) = k

(* The facts of the chain from version v on, as the disk has them. *)
ChainFrom(v) ==
    LET disk == OnDisk
        from == {i \in DOMAIN disk : disk[i].version_before >= v}
    IN  [k \in 1 .. Cardinality(from) |-> disk[Nth(from, k)].fact]

PointOfCompaction == IF compacted = <<>> THEN 0 ELSE compacted[1].version

(* Reads behind the compaction point miss nothing: read_from(v) returns     *)
(* every fact the chain holds from v on, however often the history was      *)
(* compacted and the shards rotated.                                        *)
ReadsAreComplete ==
    mode = "up" =>
        \A v \in 0 .. state.version :
            v > PointOfCompaction \/ compacted = <<>> => read_from(v) = ChainFrom(v)

(* Rewinding goes back in time: for every version the session went through, *)
(* rewind_payload and the time machine find, in a history not compacted,    *)
(* the payload the session had at that version, and payload_from_wal_records*)
(* finds it in the shards after any rotation, compaction, crash and         *)
(* recovery.                                                                *)
RewindFaithful ==
    /\ mode = "up" /\ compacted = <<>> =>
        \A t \in DOMAIN past :
            /\ Rewindable(history, t)
            /\ rewind_payload(history, t) = past[t] /\ rewind(history, t) = past[t]
    /\ \A t \in DOMAIN past : payload_from_wal_records(OnDisk, t) = <<past[t]>>

(* What a reader finds of the shards without the torn line each may end in. *)
WholeLines == ReadLines([k \in DOMAIN store.shards |-> Kept(store.shards[k])])

(* Write-ahead: every fact that memory has counted in is, once and in its   *)
(* order, a line of its own that a reader of the shards finds, whichever    *)
(* later writes failed or were torn, and after a torn line has been cut     *)
(* off.  Only a fact whose line was run into one that a failed write left   *)
(* unterminated for good, or the other way round, is not; any other         *)
(* unreadable line is at the end of its shard, where it can be cut off.     *)
WriteAhead ==
    LET lines == WholeLines
        At(k) == {i \in DOMAIN lines :
                    lines[i].form # "garbled" /\ lines[i].rec.fact = last_hash[k]}
    IN  /\ \A i \in DOMAIN lines : lines[i].form \in {"whole", "bare", "garbled"}
        /\ \A k \in DOMAIN last_hash : At(k) # {} \/ last_hash[k] \in store.spoilt
        /\ \A k, l \in DOMAIN last_hash : \A i \in At(k), j \in At(l) : k < l <=> i < j

-----------------------------------------------------------------------------
(***************************************************************************)
(* What the documentation and the comments say of the log.                 *)
(***************************************************************************)

(* A failed write does not set memory and disk apart: a log that is up and  *)
(* readable has on disk what it has in memory.                              *)
NoDivergence == mode = "up" /\ Readable(store.shards) => FactsOf(OnDisk) = last_hash

(* A fact that memory has counted in is not lost on disk. *)
NothingIsSpoilt == \A k \in DOMAIN last_hash : last_hash[k] \notin store.spoilt

(* A read from the compaction point on is complete as well. *)
ReadsFromCompactionPoint ==
    mode = "up" /\ compacted # <<>> =>
        read_from(PointOfCompaction) = ChainFrom(PointOfCompaction)

(* No shard outgrows the configured size. *)
ShardsAreBounded == \A k \in DOMAIN store.shards : Len(store.shards[k]) <= MaxLines

(* A recovery refused for a torn line can be cured by cutting that line off. *)
RefusalHasWayOut == mode = "refused" => \E k \in DOMAIN store.shards : Curable(k)

(* rewind_payload and the time machine mean the same by a version. *)
SameRewind ==
    mode = "up" =>
        \A t \in DOMAIN past : Rewindable(history, t) => rewind_payload(history, t) = rewind(history, t)
=============================================================================
