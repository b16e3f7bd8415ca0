----------------------------- MODULE Permission -----------------------------
(***************************************************************************)
(* The permission gate in front of every I/O call                          *)
(* (evorule-governance/src/permission/): entries and a default policy kept *)
(* as facts of the shared ledger, the table rebuilt from the ledger at a   *)
(* version, and the static route policy in front of the table.             *)
(*                                                                         *)
(* A check takes the ledger's lock three times: for the version it         *)
(* freezes, for the entries and for the default policy.  Between them the  *)
(* ledger may grow, crash and roll facts up.                               *)
(*                                                                         *)
(* A pattern (subject, action, resource, route) is the set of what it      *)
(* matches; a condition is the set of callers it holds for, or "broken"    *)
(* when evaluate_domain refuses it.  Both are made of strings, which the   *)
(* conversion between serde and the TCB keeps.  The ledger appends nothing *)
(* but PayloadUpdates, so the version of the fact at i is i - 1 before it  *)
(* and i after it.                                                         *)
(***************************************************************************)
EXTENDS SharedFactsLog

CONSTANTS IoType,   \* types of I/O calls
          Target,   \* targets a payload may name
          Tenant,   \* tenants calls are made for
          Assets    \* the route policies a deployment may bring

Role == {"human", "llm", "unknown"}
Effect == {"Allow", "Deny"}

ASSUME PermissionAssumption ==
    \A c \in Content : c.value.kind = "entry" => c.value.effect \in Effect

VARIABLES gate,     \* the route policy of the gate, or NoRoutes
          call,     \* the check under way
          decided   \* the checks that have returned

pvars == <<gate, call, decided, vars>>

-----------------------------------------------------------------------------
(* Entries and their approval (entry.rs). *)

(* PermissionEntry::new: a draft for any action and every tenant. *)
NewEntry(subject, resource, effect, conditions) ==
    [kind |-> "entry", state |-> "Draft", subject |-> subject, resource |-> resource,
     action |-> {"io", "other"}, effect |-> effect, conditions |-> conditions,
     scope |-> Tenant]

(* submit and review return an error, and change nothing, in other states. *)
submit(e) == IF e.state = "Draft" THEN [e EXCEPT !.state = "Candidate"] ELSE e

review(e, approve) ==
    IF e.state = "Candidate"
    THEN [e EXCEPT !.state = IF approve THEN "Active" ELSE "Rejected"] ELSE e

(* What store_entry, remove and set_default_policy append. *)
store_entry(id, e) == [path |-> id, value |-> e]
remove(id) == [path |-> id, value |-> [kind |-> "tombstone"]]
set_default_policy(effects) ==
    [path |-> "default_policy", value |-> [kind |-> "policy", effects |-> effects]]

DefaultPolicy == [r \in Role |-> "Deny"]

-----------------------------------------------------------------------------
(* The table (table.rs). *)

(* Mutant: facts of the version itself are let in. *)
FencedLax(h, hidden, v) ==
    {i \in DOMAIN h : h[i].id \notin hidden /\ i - 1 <= v
                      /\ h[i].says.path \notin {"other", "default_policy"}}

(* The facts about entries that a snapshot at v looks at. *)
Fenced(h, hidden, v) ==
    {i \in DOMAIN h : h[i].id \notin hidden /\ i - 1 < v
                      /\ h[i].says.path \notin {"other", "default_policy"}}

(* Mutant: a tombstone is thrown away before the latest version is chosen. *)
LatestAlive(h, I) ==
    LET J == {i \in I : h[i].says.value.kind # "tombstone"}
    IN  {h[i].says.value : i \in {j \in J : \A k \in J : h[k].says.path = h[j].says.path => k <= j}}

(* The latest value of every id, tombstones left out. *)
Latest(h, I) ==
    LET Newest == {j \in I : \A k \in I : h[k].says.path = h[j].says.path => k <= j}
    IN  {h[i].says.value : i \in {j \in Newest : h[j].says.value.kind # "tombstone"}}

(* snapshot_at without the default policy; a malformed value makes it fail. *)
snapshot_at(h, hidden, v) == Latest(h, Fenced(h, hidden, v))

CannotRebuild(entries) == \E e \in entries : e.kind # "entry"

load_default_policy(h, hidden, v) ==
    LET I == {i \in DOMAIN h : h[i].id \notin hidden /\ i - 1 <= v
                               /\ h[i].says.path = "default_policy"}
    IN  IF I = {} THEN DefaultPolicy
        ELSE LET p == h[Max(I)].says.value
             IN  IF p.kind = "policy" THEN p.effects ELSE DefaultPolicy

(* subject_matches, action_matches and resource_matches; nothing asks for   *)
(* the scope of an entry.                                                   *)
Matches(e, c) == c.role \in e.subject /\ "io" \in e.action /\ c.io_type \in e.resource

(* ConditionEvaluator *)
Broken(e) == e.conditions = {"broken"}
Holds(e, c) == c.role \in e.conditions

(* evaluate.  A refusal or a broken condition ends the loop wherever it is  *)
(* among the entries, so their order does not matter.                       *)
evaluate(entries, default_policy, c) ==
    LET Hit(state) == {e \in entries : e.state = state /\ Matches(e, c)}
    IN  IF \E e \in Hit("Active") : Broken(e) \/ (e.effect = "Deny" /\ Holds(e, c))
        THEN "Deny"
        ELSE IF \E e \in Hit("Active") : Holds(e, c) THEN "Allow"
        ELSE IF Hit("Candidate") # {} THEN "Candidate"
        ELSE default_policy[c.role]

-----------------------------------------------------------------------------
(* The route policy (route_policy.rs). *)

NoRoutes == [assembled |-> FALSE]

(* validate: version, fallback, no empty field. *)
validate(p) ==
    /\ p.version = 1
    /\ p.unattended = "Deny"
    /\ \A i \in DOMAIN p.rules : ~p.rules[i].empty_field

(* decide: the first rule that matches, else the default of the role. *)
decide(p, c) ==
    LET Hits == {i \in DOMAIN p.rules : /\ c.role \in p.rules[i].caller_role
                                        /\ c.io_type \in p.rules[i].io_type
                                        /\ c.target \in p.rules[i].target}
    IN  IF Hits = {} THEN p.default[c.role] ELSE p.rules[Min(Hits)].decision

(* What the route policy turns away before the table is asked. *)
Tightened(p, c) ==
    /\ p.assembled
    /\ \/ decide(p, c) = "Deny"
       \/ decide(p, c) = "Ask" /\ c.role # "human"

-----------------------------------------------------------------------------
(* The gate (gate.rs). *)

NoCall == [pc |-> "none"]

(* The deployment installs a route policy only when it parses. *)
PInit ==
    /\ Init
    /\ gate \in {NoRoutes} \cup {p \in Assets : validate(p)}
    /\ call = NoCall /\ decided = {}

Return(c, hidden, entries, verdict) ==
    decided' = decided \cup {[role |-> c.role, io_type |-> c.io_type, target |-> c.target,
                              tenant |-> c.tenant, v_trigger |-> c.v_trigger,
                              hidden |-> hidden, entries |-> entries, verdict |-> verdict]}

(* check_routed: the role is resolved, the version frozen, the routes asked. *)
Freeze ==
    /\ mode = "up" /\ call = NoCall
    /\ Spend({"check"})
    /\ \E r \in Role, t \in IoType, g \in Target, n \in Tenant :
        LET c == [role |-> r, io_type |-> t, target |-> g, tenant |-> n,
                  v_trigger |-> Len(history)]
        IN  IF Tightened(gate, c)
            THEN /\ Return(c, index.rolled_up, {}, "Deny")
                 /\ call' = NoCall
            ELSE /\ call' = [pc |-> "frozen", c |-> c, entries |-> {}, hidden |-> {}]
                 /\ UNCHANGED decided
    /\ UNCHANGED <<gate, kind, mode, memory, disk, pc>>

(* snapshot_at reads the entries; if one does not parse the gate refuses. *)
ReadEntries ==
    /\ mode = "up" /\ call.pc = "frozen"
    /\ LET entries == snapshot_at(history, index.rolled_up, call.c.v_trigger)
       IN  IF CannotRebuild(entries)
           THEN /\ Return(call.c, index.rolled_up, entries, "Deny")
                /\ call' = NoCall
           ELSE /\ call' = [call EXCEPT !.pc = "read", !.entries = entries,
                                        !.hidden = index.rolled_up]
                /\ UNCHANGED decided
    /\ UNCHANGED <<gate, vars>>

(* ... then the default policy; evaluate has all it needs. *)
Evaluate ==
    /\ mode = "up" /\ call.pc = "read"
    /\ Return(call.c, call.hidden, call.entries,
              evaluate(call.entries,
                       load_default_policy(history, index.rolled_up, call.c.v_trigger),
                       call.c))
    /\ call' = NoCall
    /\ UNCHANGED <<gate, vars>>

(* The ledger goes on under the check; a crash takes the check with it. *)
Ledger ==
    /\ Next
    /\ call' = IF mode' = "up" THEN call ELSE NoCall
    /\ UNCHANGED <<gate, decided>>

PNext == Freeze \/ ReadEntries \/ Evaluate \/ Ledger

PSpec == PInit /\ [][PNext]_pvars

-----------------------------------------------------------------------------
(***************************************************************************)
(* Properties.                                                             *)
(***************************************************************************)

(* The ledger still is the one that was asked. *)
CanReplay == mode = "up" /\ kind # "memory"

(* The entries a check went by are those of its version: they were read     *)
(* later than the version was frozen, yet they are what the ledger, cut off *)
(* at that version, holds, and so they stay through later changes, failed   *)
(* appends, crashes and recovery (facts rolled up at the time apart).       *)
EntriesAreFrozen ==
    \A d \in decided : CanReplay /\ ~Tightened(gate, d) =>
        LET h == SubSeq(history, 1, d.v_trigger)
        IN  d.entries = Latest(h, {i \in DOMAIN h : h[i].id \notin d.hidden
                                      /\ h[i].says.path \notin {"other", "default_policy"}})

(* What the ledger says last about a path before version v. *)
InForce(v, hidden, path) ==
    LET I == {i \in 1 .. v : history[i].says.path = path /\ history[i].id \notin hidden}
    IN  IF I = {} THEN {} ELSE {history[Max(I)].says.value}

(* Nothing goes out without a grant: a call that evaluate allowed is one    *)
(* the routes do not turn away, about which the ledger had, at the version  *)
(* of the call, no malformed entry and no active refusal, however the       *)
(* entries are ordered, and either an approved entry that nobody had        *)
(* removed or a default policy, set by then or in the very next fact, that  *)
(* lets the role through.                                                   *)
GrantsAreGrounded ==
    \A d \in decided : CanReplay /\ d.verdict = "Allow" =>
        LET Paths == {history[i].says.path : i \in 1 .. d.v_trigger} \ {"other", "default_policy"}
            Said == UNION {InForce(d.v_trigger, d.hidden, p) : p \in Paths}
            About == {e \in Said : e.kind = "entry" /\ e.state = "Active" /\ Matches(e, d)}
        IN  /\ ~Tightened(gate, d)
            /\ \A e \in Said : e.kind # "malformed"
            /\ \A e \in About : e.effect = "Allow" \/ d.role \notin e.conditions
            /\ \/ \E e \in About : e.effect = "Allow" /\ d.role \in e.conditions
               \/ \E i \in DOMAIN history :
                     /\ i <= d.v_trigger + 1
                     /\ history[i].says.path = "default_policy"
                     /\ history[i].says.value.kind = "policy"
                     /\ history[i].says.value.effects[d.role] = "Allow"

-----------------------------------------------------------------------------
(***************************************************************************)
(* What the comments say of the gate.                                      *)
(***************************************************************************)

Replay(d, hidden) ==
    LET entries == snapshot_at(history, hidden, d.v_trigger)
    IN  IF Tightened(gate, d) \/ CannotRebuild(entries) THEN "Deny"
        ELSE evaluate(entries, load_default_policy(history, hidden, d.v_trigger), d)

(* A change of the permissions concerns calls of later versions only: the   *)
(* table at the version of a call, asked again, gives the same verdict.     *)
VerdictsReplay == \A d \in decided : CanReplay => Replay(d, d.hidden) = d.verdict

(* ... and so it does after facts were rolled up. *)
RollupsDoNotDecide ==
    \A d \in decided : CanReplay => Replay(d, index.rolled_up) = d.verdict

(* An entry is in force for the tenants of its scope: what was allowed was  *)
(* allowed to the tenant that asked.                                        *)
ScopesAreKept ==
    \A d \in decided : d.verdict = "Allow" =>
        \/ \E e \in d.entries : e.state = "Active" /\ Matches(e, d) /\ d.tenant \in e.scope
        \/ \E i \in DOMAIN history : history[i].says.path = "default_policy"
=============================================================================
