------------------------------ MODULE Auditor ------------------------------
(***************************************************************************)
(* The auditor of a session (evorule-governance/src/auditor.rs) and its    *)
(* chain of anchors (anchor.rs), composed with the log they watch.         *)
(*                                                                         *)
(* The auditor's operations exclude each other (the session's mutex), but  *)
(* not the log: audit_new looks at the log three times, for the length of  *)
(* the history, for the facts and for the version, and each look is a step *)
(* of its own.  The other operations are one step each.                    *)
(*                                                                         *)
(* An entry's content hash is its fact; the type and the cause of a fact   *)
(* are functions of the fact and are left out, and so are the signatures,  *)
(* which add nothing to the payload they sign.  The verification audit_new *)
(* may run at its end changes only counters and is left out.               *)
(***************************************************************************)
EXTENDS FactsLog

CONSTANTS Policies,      \* anchor intervals, with or without an anchor log
          AnchorFaults,  \* the ways writing a line of the anchor log may fail
          Allowances     \* bounds on audits, seals, imports, loads, failed anchor writes

ASSUME AuditorAssumption ==
    /\ Policies \subseteq [interval : Nat, persisted : BOOLEAN]
    /\ AnchorFaults \subseteq {"lost", "torn"}
    /\ Allowances \subseteq [{"audit", "seal", "import", "load", "anchor"} -> Nat]

VARIABLES
    audit,      \* entries, last_hash, last_audited_version and the clock
    apc,        \* where audit_new is: "idle", "walk" or "close"
    policy,     \* anchor_interval, and whether there is an anchor_log_path
    builder,    \* AnchorChainBuilder: prev_anchor_hash, last_seq, last_fact_hi
    anchors,    \* the anchors in memory
    anchor_log, \* the lines of the anchor log on disk
    exported,   \* the document export wrote last, with what astray was
    astray,     \* auxiliary: since the auditor is what it is, an import or a
                \* load broke off, or it went on over a compacted history
    allowance

auditor   == <<audit, apc, policy, builder, anchors, anchor_log, exported, astray, allowance>>
auditVars == <<vars, auditor>>

-----------------------------------------------------------------------------
(* Entries. *)

NewAudit == [entries |-> <<>>, last_hash |-> genesis, version |-> 0, clock |-> 0]

EntriesOf(facts, prev, clock) ==
    [i \in DOMAIN facts |->
        [fact |-> facts[i], prev_hash |-> prev \o SubSeq(facts, 1, i - 1), time |-> clock + i]]

(* verify: every entry goes on from the hash of the one before it. *)
verify(entries) ==
    \A i \in DOMAIN entries :
        entries[i].prev_hash =
            IF i = 1 THEN genesis
            ELSE chain_step(entries[i - 1].prev_hash, entries[i - 1].fact)

(* verify_deep against the facts themselves. *)
verify_deep(entries, facts) ==
    Len(facts) = Len(entries) /\ verify(entries) /\ FactsOf(entries) = facts

-----------------------------------------------------------------------------
(* Anchors. *)

NewBuilder == [prev |-> <<>>, seq |-> 0, lo |-> 0]

compute_anchor_hash(prev, a) == Append(prev, <<a.seq, a.lo, a.hi, a.chain_head>>)

(* seal: the anchor for [lo, hi); `sound` is auxiliary. *)
SealOf(b, hi, head) ==
    LET a == [seq |-> b.seq, lo |-> b.lo, hi |-> hi, chain_head |-> head,
              anchor_hash |-> <<>>, sound |-> ~astray]
    IN  [a EXCEPT !.anchor_hash = compute_anchor_hash(b.prev, a)]

(* The builder after anchor a: what seal leaves and new_with_prev restores. *)
BuilderAfter(a) == [prev |-> a.anchor_hash, seq |-> a.seq + 1, lo |-> a.hi]

PrevHash(as, i) == IF i = 1 THEN <<>> ELSE as[i - 1].anchor_hash
PrevHi(as, i)   == IF i = 1 THEN 0 ELSE as[i - 1].hi

(* verify_one *)
verify_one(a, prev) == a.anchor_hash = compute_anchor_hash(prev, a)

(* verify_anchor_chain: numbers, ranges, hashes. *)
verify_anchor_chain(as) ==
    \A i \in DOMAIN as :
        as[i].seq = i - 1 /\ as[i].lo = PrevHi(as, i) /\ verify_one(as[i], PrevHash(as, i))

(* verify_binding: the anchors are heads of prefixes of these facts. *)
verify_binding(facts, as) ==
    \A i \in DOMAIN as :
        as[i].hi <= Len(facts) /\ as[i].chain_head = SubSeq(facts, 1, as[i].hi)

(* Auditor::verify_anchors: the chain, and the heads the entries lead to. *)
verify_anchors(entries, as) ==
    /\ verify_anchor_chain(as)
    /\ \A i \in DOMAIN as :
          /\ as[i].hi <= Len(entries)
          /\ as[i].chain_head =
                IF as[i].hi = 0 THEN genesis
                ELSE chain_step(entries[as[i].hi].prev_hash, entries[as[i].hi].fact)

(* The anchor log is a list of lines: an anchor, a torn one at the end that *)
(* the next write goes on, or the damaged line that comes of it.            *)
AnchorLine(form, a) == [form |-> form, anchor |-> a]
TornEnd(lines) == lines # <<>> /\ Last(lines).form = "torn"

WriteAnchor(lines, a) ==
    IF TornEnd(lines)
    THEN Append(Front(lines), [Last(lines) EXCEPT !.form = "damaged"])
    ELSE Append(lines, AnchorLine("whole", a))

(* allowance without what the events in E use up. *)
Allow(E) ==
    /\ \A e \in E : allowance[e] > 0
    /\ allowance' = [e \in DOMAIN allowance |->
                       IF e \in E THEN allowance[e] - 1 ELSE allowance[e]]

(* persist_anchor: a failed write is only logged.  E is what the seal costs. *)
persist_anchor(a, E) ==
    \/ /\ anchor_log' = IF policy.persisted THEN WriteAnchor(anchor_log, a) ELSE anchor_log
       /\ Allow(E)
    \/ /\ policy.persisted
       /\ \E f \in AnchorFaults :
             anchor_log' = IF f = "torn" /\ ~TornEnd(anchor_log)
                           THEN Append(anchor_log, AnchorLine("torn", a)) ELSE anchor_log
       /\ Allow(E \cup {"anchor"})

(* load_anchor_log: damaged lines are skipped. *)
LoadLine(loaded, l) == IF l.form = "whole" THEN Append(loaded, l.anchor) ELSE loaded
load_anchor_log(lines) == FoldLeft(LoadLine, <<>>, lines)

(* Mutant: the builder of a restarted auditor starts from nothing. *)
RestoredFresh(as) == NewBuilder

(* with_anchor_impl: the builder goes on from the last anchor restored. *)
Restored(as) == IF as = <<>> THEN NewBuilder ELSE BuilderAfter(Last(as))

-----------------------------------------------------------------------------
AuditInit ==
    /\ Init
    /\ audit = NewAudit /\ apc = "idle"
    /\ policy \in Policies
    /\ builder = NewBuilder /\ anchors = <<>> /\ anchor_log = <<>>
    /\ exported = <<>> /\ astray = FALSE
    /\ allowance \in Allowances

(* The log goes on whatever the auditor is doing. *)
LogStep ==
    /\ append \/ set_initial_state \/ rotate_wal \/ compact
       \/ RecoverRefused \/ truncate_partial_line
    /\ UNCHANGED auditor

(* The auditor dies with the process; the anchor log and the exported       *)
(* document stay.                                                           *)
CrashAll ==
    /\ Crash
    /\ apc' = "idle"
    /\ UNCHANGED <<audit, policy, builder, anchors, anchor_log, exported, astray, allowance>>

(* A session over the recovered log has a new auditor, with the anchors of  *)
(* the anchor log if there is one.                                          *)
Restart ==
    /\ recover_with_options
    /\ audit' = NewAudit /\ astray' = FALSE
    /\ anchors' = IF policy.persisted THEN load_anchor_log(anchor_log) ELSE <<>>
    /\ builder' = Restored(anchors')
    /\ UNCHANGED <<apc, policy, anchor_log, exported, allowance>>

Idle == mode = "up" /\ apc = "idle"

(* audit_new, when it finds nothing new. *)
NothingNew ==
    /\ Idle /\ Len(audit.entries) >= Len(history)
    /\ audit' = [audit EXCEPT !.version = state.version]
    /\ Allow({"audit"})
    /\ UNCHANGED <<vars, apc, policy, builder, anchors, anchor_log, exported, astray>>

AuditStart ==
    /\ Idle /\ Len(audit.entries) < Len(history)
    /\ apc' = "walk"
    /\ Allow({"audit"})
    /\ UNCHANGED <<vars, audit, policy, builder, anchors, anchor_log, exported, astray>>

(* Mutant: the walk begins one fact too late. *)
TailWithoutFirst(n) == SubSeq(FactsOf(history), n + 2, Len(history))

(* for_each_fact_from(n): the facts of the history from position n on. *)
for_each_fact_from(n) == SubSeq(FactsOf(history), n + 1, Len(history))

(* The walk: one entry for each fact that the history has by now beyond the *)
(* number of entries.                                                       *)
Walk ==
    /\ mode = "up" /\ apc = "walk" /\ apc' = "close"
    /\ LET tail == for_each_fact_from(Len(audit.entries))
       IN  audit' = [audit EXCEPT
                       !.entries = @ \o EntriesOf(tail, audit.last_hash, audit.clock),
                       !.last_hash = @ \o tail,
                       !.clock = @ + Len(tail)]
    /\ astray' = (astray \/ compacted # <<>>)
    /\ UNCHANGED <<vars, policy, builder, anchors, anchor_log, exported, allowance>>

(* An anchor over what has been audited, kept and written to the log. *)
SealAnchor(E) ==
    LET a == SealOf(builder, Len(audit.entries), audit.last_hash)
    IN  /\ anchors' = Append(anchors, a)
        /\ builder' = BuilderAfter(a)
        /\ persist_anchor(a, E)

(* The end of audit_new: the version is read, an anchor sealed when due. *)
Close ==
    /\ mode = "up" /\ apc = "close" /\ apc' = "idle"
    /\ audit' = [audit EXCEPT !.version = state.version]
    /\ IF policy.interval > 0 /\ Len(audit.entries) - builder.lo >= policy.interval
       THEN SealAnchor({})
       ELSE UNCHANGED <<anchors, builder, anchor_log, allowance>>
    /\ UNCHANGED <<vars, policy, exported, astray>>

seal_anchor_now ==
    /\ Idle
    /\ SealAnchor({"seal"})
    /\ UNCHANGED <<vars, audit, apc, policy, exported, astray>>

(* The number of records that load_from_tier1_wal accepts. *)
LoadStop(records) ==
    LET bad == {i \in DOMAIN records :
                  \/ records[i].prev_hash # SubSeq(FactsOf(records), 1, i - 1)
                  \/ records[i].chain_hash # SubSeq(FactsOf(records), 1, i)}
    IN  IF bad = {} THEN Len(records) ELSE Min(bad) - 1

(* load_from_tier1_wal: an unreadable log changes nothing; otherwise the    *)
(* state is cleared first, and the first record that does not fit leaves    *)
(* the entries before it.                                                   *)
load_from_tier1_wal ==
    /\ Idle /\ Readable(store.shards) /\ Allow({"load"})
    /\ LET records == read_wal_with_hash(store.shards)
           n == LoadStop(records)
           entries == EntriesOf(SubSeq(FactsOf(records), 1, n), genesis, 0)
       IN  /\ audit' = IF n = Len(records)
                       THEN [entries |-> entries, last_hash |-> FactsOf(records),
                             version |-> n, clock |-> Max({audit.clock, n})]
                       ELSE [NewAudit EXCEPT !.entries = entries, !.clock = audit.clock]
           /\ astray' = (n < Len(records))
    /\ UNCHANGED <<vars, apc, policy, builder, anchors, anchor_log, exported>>

export ==
    /\ Idle
    /\ exported' = <<[entries |-> audit.entries, last_hash |-> audit.last_hash,
                      version |-> audit.version, astray |-> astray]>>
    /\ exported # exported'
    /\ UNCHANGED <<vars, audit, apc, policy, builder, anchors, anchor_log, astray, allowance>>

Times(entries) == {entries[i].time : i \in DOMAIN entries} \cup {0}

(* import of an exported document: everything is cleared, then the entries  *)
(* are taken over; one that lacks a field ends the import there and then.   *)
import ==
    /\ Idle /\ exported # <<>> /\ Allow({"import"})
    /\ \E n \in 0 .. Len(exported[1].entries) :
        LET entries == SubSeq(exported[1].entries, 1, n)
            all == n = Len(exported[1].entries)
        IN  /\ audit' = [entries   |-> entries,
                         last_hash |-> IF all THEN exported[1].last_hash ELSE genesis,
                         version   |-> IF all THEN exported[1].version ELSE 0,
                         clock     |-> IF all THEN Max(Times(entries) \cup {audit.clock})
                                       ELSE audit.clock]
            /\ astray' = (~all \/ exported[1].astray)
    /\ UNCHANGED <<vars, apc, policy, builder, anchors, anchor_log, exported>>

AuditNext ==
    \/ LogStep \/ CrashAll \/ Restart
    \/ NothingNew \/ AuditStart \/ Walk \/ Close
    \/ seal_anchor_now \/ load_from_tier1_wal \/ export \/ import

AuditSpec == AuditInit /\ [][AuditNext]_auditVars

-----------------------------------------------------------------------------
(***************************************************************************)
(* Properties.                                                             *)
(***************************************************************************)

(* The records on disk are one hash chain: no write that was reported to    *)
(* have failed has been found there after all.                              *)
Intact == Readable(store.shards) /\ Linked(OnDisk, genesis)

(* The audit is the chain: facts may be appended while audit_new looks at   *)
(* the log, the log be rotated and the process restart, documents and the   *)
(* WAL be loaded instead; the entries are the facts of the chain in their   *)
(* order, each once and with the hash it had, verify accepts them, the      *)
(* auditor's last hash is theirs and their logical times increase.          *)
AuditFollowsChain ==
    mode = "up" /\ Intact /\ ~astray =>
        /\ IsPrefix(FactsOf(audit.entries), FactsOf(OnDisk))
        /\ verify(audit.entries)
        /\ audit.last_hash = FactsOf(audit.entries)
        /\ \A i, j \in DOMAIN audit.entries :
              i < j => audit.entries[i].time < audit.entries[j].time
        /\ \A i \in DOMAIN audit.entries : audit.entries[i].time <= audit.clock

(* Anchors stay bound: whatever lines of the anchor log are lost or torn,   *)
(* and however often the process restarts, the numbers of the anchors       *)
(* increase, anchors with neighbouring numbers are linked and seamless, and *)
(* every anchor sealed over a sound audit is the head of a prefix of the    *)
(* chain.                                                                   *)
SealsBind ==
    mode = "up" =>
        /\ \A i \in DOMAIN anchors : i > 1 =>
              /\ anchors[i - 1].seq < anchors[i].seq
              /\ anchors[i].seq = anchors[i - 1].seq + 1 =>
                    /\ verify_one(anchors[i], anchors[i - 1].anchor_hash)
                    /\ anchors[i].lo = anchors[i - 1].hi
        /\ \A i \in DOMAIN anchors :
              Intact /\ anchors[i].sound => verify_binding(FactsOf(OnDisk), <<anchors[i]>>)

-----------------------------------------------------------------------------
(***************************************************************************)
(* What the comments say of the auditor.                                   *)
(***************************************************************************)

(* An auditor that has nothing new to audit has the last hash of the log. *)
SameLastHash ==
    Idle /\ Len(audit.entries) >= Len(history) /\ audit.version = state.version =>
        audit.last_hash = last_hash

(* The ranges of the anchors go forward. *)
RangesGoForward == \A i \in DOMAIN anchors : anchors[i].lo <= anchors[i].hi

(* The version the auditor says it has audited is one its entries reach. *)
VersionIsAudited ==
    Idle /\ compacted = <<>> =>
        audit.version <= FoldLeft(apply_fact_to_state, EmptyState, FactsOf(audit.entries)).version

(* What the anchor log brings back at a restart verifies as a chain. *)
RestoredAnchorsVerify == mode = "up" => verify_anchor_chain(anchors)

(* An import that fails says so and leaves an audit that verifies. *)
AuditVerifies == mode = "up" => verify(audit.entries)
=============================================================================
