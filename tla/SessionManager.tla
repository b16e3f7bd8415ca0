--------------------------- MODULE SessionManager ---------------------------
(***************************************************************************)
(* The session table of evorule-governance/src/session.rs under concurrent *)
(* use: threads create, fork, close and reap sessions.  The table is split *)
(* into shards with a lock each; the number of sessions is an atomic       *)
(* counter beside it, changed before a session is entered and after one    *)
(* has been removed.  The process may crash; the next one finds the WAL    *)
(* files of the sessions before it.                                        *)
(*                                                                         *)
(* A step of a thread is one atomic operation or one critical section.     *)
(***************************************************************************)
EXTENDS Integers, FiniteSets, FiniteSetsExt

CONSTANTS Thread,        \* threads that call the manager
          MaxSessions,   \* max_sessions
          ShardCount,    \* shards.len()
          MaxIds,        \* bound: session ids the system hands out
          MaxRestarts    \* bound: crashes

ASSUME SessionAssumption ==
    /\ IsFiniteSet(Thread)
    /\ MaxSessions \in Nat
    /\ ShardCount \in Nat \ {0}
    /\ MaxIds \in Nat /\ MaxRestarts \in Nat

SessionId == Nat \ {0}
NoSession == 0

VARIABLES
    count,            \* SessionManager.count
    next_session_id,  \* SessionManager.next_session_id
    sessions,         \* the ids in the shards
    expired,          \* sessions without activity for longer than session_ttl
    running,          \* sessions whose reactor task has not ended
    held,             \* sessions of which a caller holds a clone
    pending_recycle,  \* logs of closed in-memory sessions
    files,            \* sessions that have a WAL file
    earlier,          \* those of them an earlier run of the process left
    partial,          \* this run has not seen every file when it listed the directory
    wal_dir,          \* a WAL directory is configured
    pc,               \* where a thread is
    current,          \* the count a thread has loaded
    id,               \* the session a thread is creating
    gone,             \* sessions a thread has removed and not yet subtracted
    shard,            \* the shard a reaping thread comes to next
    now,              \* sessions that had expired when a thread took the time
    restarts          \* crashes so far

table   == <<sessions, expired>>
disk    == <<files, earlier, partial, wal_dir, restarts>>
world   == <<running, held, disk>>
local   == <<current, id, gone, shard, now>>
counter == <<count, next_session_id>>
vars    == <<counter, table, world, pending_recycle, pc, local>>

Init ==
    /\ count = 0 /\ next_session_id = 1
    /\ sessions = {} /\ expired = {}
    /\ running = {} /\ held = {} /\ pending_recycle = {}
    /\ files = {} /\ earlier = {} /\ partial = FALSE
    /\ wal_dir \in BOOLEAN
    /\ pc = [t \in Thread |-> "idle"]
    /\ current = [t \in Thread |-> 0]
    /\ id = [t \in Thread |-> NoSession]
    /\ gone = [t \in Thread |-> {}]
    /\ shard = [t \in Thread |-> 0]
    /\ now = [t \in Thread |-> {}]
    /\ restarts = 0

Goto(t, l) == pc' = [pc EXCEPT ![t] = l]

(* A call returns and its local variables are gone. *)
Return(t) ==
    /\ Goto(t, "idle")
    /\ current' = [current EXCEPT ![t] = 0]
    /\ id' = [id EXCEPT ![t] = NoSession]
    /\ shard' = [shard EXCEPT ![t] = 0]
    /\ now' = [now EXCEPT ![t] = {}]

get_shard_idx(s) == s % ShardCount

(* close_session keeps the lock of its shard until it returns; every other  *)
(* critical section is a single step.                                       *)
Locked(i) == \E t \in Thread : pc[t] = "close" /\ \E s \in gone[t] : get_shard_idx(s) = i

-----------------------------------------------------------------------------
(* Creating a session: reserve a slot, take an id, open the log, enter it.  *)

create_session(t) ==
    /\ pc[t] = "idle" /\ next_session_id <= MaxIds
    /\ Goto(t, "load")
    /\ UNCHANGED <<counter, table, world, pending_recycle, local>>

(* A fork looks its parent up first; an unknown parent is an error.  What   *)
(* is recorded of it, parent_session_id, nobody reads.                      *)
create_session_from_parent(t) ==
    /\ \E p \in sessions : ~Locked(get_shard_idx(p))
    /\ create_session(t)

(* A fork from an archive: the caller names any parent, or none, and it is  *)
(* not looked up.                                                           *)
create_session_from_initial_state(t) == create_session(t)

(* reserve_session_slot: load the count, ... *)
LoadCount(t) ==
    /\ pc[t] = "load"
    /\ \/ count >= MaxSessions /\ Return(t)
       \/ count < MaxSessions /\ Goto(t, "reserve")
          /\ current' = [current EXCEPT ![t] = count]
          /\ UNCHANGED <<id, shard, now>>
    /\ UNCHANGED <<counter, table, world, pending_recycle, gone>>

(* Mutant: the slot is taken by a plain increment after the check. *)
ReserveUnchecked(t) ==
    /\ pc[t] = "reserve"
    /\ count' = count + 1 /\ Goto(t, "reserved")
    /\ UNCHANGED <<next_session_id, table, world, pending_recycle, local>>

(* ... and exchange it for its successor, or load it again. *)
ReserveSlot(t) ==
    /\ pc[t] = "reserve"
    /\ \/ count = current[t] /\ count' = count + 1 /\ Goto(t, "reserved")
       \/ count # current[t] /\ UNCHANGED count /\ Goto(t, "load")
    /\ UNCHANGED <<next_session_id, table, world, pending_recycle, local>>

AllocateId(t) ==
    /\ pc[t] = "reserved"
    /\ id' = [id EXCEPT ![t] = next_session_id]
    /\ next_session_id' = next_session_id + 1
    /\ Goto(t, "log")
    /\ UNCHANGED <<count, table, world, pending_recycle, current, gone, shard, now>>

(* create_facts_log succeeds and the reactor is spawned.  A WAL file of     *)
(* that number would be truncated.                                          *)
CreateLog(t) ==
    /\ pc[t] = "log"
    /\ files' = IF wal_dir THEN files \cup {id[t]} ELSE files
    /\ earlier' = earlier \ {id[t]}
    /\ running' = running \cup {id[t]}
    /\ Goto(t, "enter")
    /\ UNCHANGED <<counter, table, held, partial, wal_dir, restarts, pending_recycle, local>>

(* The WAL is unavailable: release_session_slot. *)
CreateLogFails(t) ==
    /\ pc[t] = "log" /\ wal_dir
    /\ count' = count - 1
    /\ Return(t)
    /\ UNCHANGED <<next_session_id, table, world, pending_recycle, gone>>

EnterSession(t) ==
    /\ pc[t] = "enter" /\ ~Locked(get_shard_idx(id[t]))
    /\ sessions' = sessions \cup {id[t]}
    /\ Return(t)
    /\ UNCHANGED <<counter, expired, world, pending_recycle, gone>>

-----------------------------------------------------------------------------
(* Removing sessions: out of the table first, off the count afterwards.     *)

close_session(t) ==
    /\ pc[t] = "idle"
    /\ \E s \in sessions :
        /\ ~Locked(get_shard_idx(s))
        /\ sessions' = sessions \ {s}
        /\ expired' = expired \ {s}
        /\ gone' = [gone EXCEPT ![t] = {s}]
    /\ Goto(t, "close")
    /\ UNCHANGED <<counter, world, pending_recycle, current, id, shard, now>>

(* Mutant: one is subtracted, however many sessions were removed. *)
SubtractOne(t) == count' = count - 1 /\ gone' = [gone EXCEPT ![t] = {}]

Subtract(t) == count' = count - Cardinality(gone[t]) /\ gone' = [gone EXCEPT ![t] = {}]

FinishClose(t) ==
    /\ pc[t] = "close"
    /\ Subtract(t)
    /\ pending_recycle' = IF wal_dir THEN pending_recycle ELSE pending_recycle \cup gone[t]
    /\ Return(t)
    /\ UNCHANGED <<next_session_id, table, world>>

(* is_reusable: nobody but the manager refers to the log. *)
Reusable(s) == s \notin running /\ s \notin held

(* reap_finished starts with reclaim_pending. *)
reap_finished(t) ==
    /\ pc[t] = "idle"
    /\ pending_recycle' = {s \in pending_recycle : ~Reusable(s)}
    /\ Goto(t, "reap_finished")
    /\ UNCHANGED <<counter, table, world, local>>

reap_expired(t) ==
    /\ pc[t] = "idle"
    /\ now' = [now EXCEPT ![t] = expired]
    /\ Goto(t, "reap_expired")
    /\ UNCHANGED <<counter, table, world, pending_recycle, current, id, gone, shard>>

(* The sessions of the shard a thread has come to that it removes. *)
Reaped(t) ==
    {s \in sessions : /\ get_shard_idx(s) = shard[t]
                      /\ IF pc[t] = "reap_finished" THEN s \notin running
                                                    ELSE s \in expired \cap now[t]}

ReapShard(t) ==
    /\ pc[t] \in {"reap_finished", "reap_expired"} /\ shard[t] < ShardCount
    /\ ~Locked(shard[t])
    /\ sessions' = sessions \ Reaped(t)
    /\ expired' = expired \ Reaped(t)
    /\ gone' = [gone EXCEPT ![t] = @ \cup Reaped(t)]
    /\ shard' = [shard EXCEPT ![t] = @ + 1]
    /\ UNCHANGED <<counter, world, pending_recycle, pc, current, id, now>>

FinishReap(t) ==
    /\ pc[t] \in {"reap_finished", "reap_expired"} /\ shard[t] = ShardCount
    /\ Subtract(t)
    /\ Return(t)
    /\ UNCHANGED <<next_session_id, table, world, pending_recycle>>

-----------------------------------------------------------------------------
(* Callers, reactors and time. *)

get_session ==
    /\ \E s \in sessions \ held : ~Locked(get_shard_idx(s)) /\ held' = held \cup {s}
    /\ UNCHANGED <<counter, table, running, disk, pending_recycle, pc, local>>

DropClone ==
    /\ \E s \in held : held' = held \ {s}
    /\ UNCHANGED <<counter, table, running, disk, pending_recycle, pc, local>>

touch_session ==
    /\ \E s \in sessions \cap expired : ~Locked(get_shard_idx(s)) /\ expired' = expired \ {s}
    /\ UNCHANGED <<counter, sessions, world, pending_recycle, pc, local>>

TimePasses ==
    /\ \E s \in sessions \ expired : expired' = expired \cup {s}
    /\ UNCHANGED <<counter, sessions, world, pending_recycle, pc, local>>

(* A reactor task ends: by an error, an abort, or since its last sender is  *)
(* gone.                                                                    *)
ReactorEnds ==
    /\ \E s \in running : running' = running \ {s}
    /\ UNCHANGED <<counter, table, held, disk, pending_recycle, pc, local>>

(* Mutant: the files are counted. *)
scan_count(listed) == Cardinality(listed)

(* scan_max_session_id: the greatest number among the files that are        *)
(* listed.                                                                  *)
scan_max_session_id(listed) == IF listed = {} THEN 0 ELSE Max(listed)

(* A crash, and a new manager on the same directory.  A directory that      *)
(* cannot be read (read_dir fails, with a warning) lists no file, and an    *)
(* entry that cannot be read is passed over (flatten).                      *)
Restart ==
    /\ restarts < MaxRestarts
    /\ restarts' = restarts + 1
    /\ count' = 0
    /\ \E listed \in SUBSET files :
          /\ next_session_id' = scan_max_session_id(listed) + 1
          /\ partial' = (listed # files)
    /\ earlier' = files
    /\ sessions' = {} /\ expired' = {} /\ running' = {} /\ held' = {}
    /\ pending_recycle' = {}
    /\ pc' = [t \in Thread |-> "idle"]
    /\ current' = [t \in Thread |-> 0]
    /\ id' = [t \in Thread |-> NoSession]
    /\ gone' = [t \in Thread |-> {}] /\ now' = [t \in Thread |-> {}]
    /\ shard' = [t \in Thread |-> 0]
    /\ UNCHANGED <<files, wal_dir>>

ThreadStep(t) ==
    \/ create_session(t) \/ create_session_from_parent(t)
    \/ create_session_from_initial_state(t)
    \/ LoadCount(t) \/ ReserveSlot(t) \/ AllocateId(t)
    \/ CreateLog(t) \/ CreateLogFails(t) \/ EnterSession(t)
    \/ close_session(t) \/ FinishClose(t)
    \/ reap_finished(t) \/ reap_expired(t) \/ ReapShard(t) \/ FinishReap(t)

Environment ==
    get_session \/ DropClone \/ touch_session \/ TimePasses \/ ReactorEnds \/ Restart

Next == (\E t \in Thread : ThreadStep(t)) \/ Environment

Spec == Init /\ [][Next]_vars

-----------------------------------------------------------------------------
(***************************************************************************)
(* Properties.                                                             *)
(***************************************************************************)

(* Threads that have reserved a slot and not yet entered their session. *)
Reserving == {t \in Thread : pc[t] \in {"reserved", "log", "enter"}}

(* Every variable of the manager and of its threads has its type; only      *)
(* sessions in the table expire.                                            *)
TypeOK ==
    /\ count \in Int /\ next_session_id \in SessionId
    /\ sessions \subseteq SessionId /\ IsFiniteSet(sessions)
    /\ expired \subseteq sessions
    /\ running \subseteq SessionId /\ held \subseteq SessionId
    /\ pending_recycle \subseteq SessionId
    /\ files \subseteq SessionId /\ earlier \subseteq files
    /\ wal_dir \in BOOLEAN /\ partial \in BOOLEAN
    /\ pc \in [Thread -> {"idle", "load", "reserve", "reserved", "log", "enter",
                          "close", "reap_finished", "reap_expired"}]
    /\ current \in [Thread -> Int] /\ id \in [Thread -> Nat]
    /\ gone \in [Thread -> SUBSET SessionId] /\ now \in [Thread -> SUBSET SessionId]
    /\ shard \in [Thread -> 0 .. ShardCount]

(* The count is exact up to the operations under way: it is the number of   *)
(* sessions in the table, of slots reserved for sessions not yet entered,   *)
(* and of sessions removed and not yet subtracted.  So no interleaving of   *)
(* closing and reaping subtracts a session twice, and no failed creation    *)
(* keeps its slot.                                                          *)
CountIsExact ==
    count = Cardinality(sessions) + Cardinality(Reserving)
            + Cardinality(UNION {gone[t] : t \in Thread})

(* However many threads create sessions at once, the table never holds more *)
(* than max_sessions.                                                       *)
LimitHolds == Cardinality(sessions) <= MaxSessions

(* A session is created over the log of another one only when this run of  *)
(* the process could not list every file, and then only over a log an       *)
(* earlier run left: no two threads open the log of the same id, and a run  *)
(* that lists the whole directory truncates nothing.                        *)
LogsAreKept ==
    [][\A t \in Thread : pc[t] = "log" /\ pc'[t] = "enter" /\ id[t] \in files
                            => partial /\ id[t] \in earlier]_vars
=============================================================================
