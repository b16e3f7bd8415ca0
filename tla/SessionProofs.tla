--------------------------- MODULE SessionProofs ---------------------------
(***************************************************************************)
(* Proofs about the session table for any number of threads, shards,       *)
(* sessions and restarts.                                                  *)
(***************************************************************************)
EXTENDS SessionManager, FiniteSetTheorems, TLAPS

(* A bounded, non-empty set of ids has a greatest one (the maximum that     *)
(* scan_max_session_id computes exists).                                    *)
LEMMA GreatestId ==
    ASSUME NEW S \in SUBSET Nat, S # {}, NEW n \in Nat, \A s \in S : s < n
    PROVE  Max(S) \in S /\ \A s \in S : s <= Max(S)
<1> DEFINE Upper == {m \in Nat : \A s \in S : s <= m}
<1>1. n \in Upper
  OBVIOUS
<1>2. PICK m \in Upper : \A k \in Upper : ~(<<k, m>> \in OpToRel(<, Nat))
  <2>1. Upper \subseteq Nat /\ Upper # {}
    BY <1>1
  <2>2. QED
    BY <2>1, NatLessThanWellFounded, WFMin
<1>3. \A k \in Upper : ~(k < m)
  BY <1>2 DEF OpToRel
<1>4. m \in S
  <2>1. SUFFICES ASSUME m \notin S PROVE FALSE
    OBVIOUS
  <2>2. \A s \in S : s < m
    BY <2>1
  <2>3. PICK s0 \in S : TRUE
    OBVIOUS
  <2>4. m \in Nat /\ s0 \in Nat /\ s0 < m
    BY <2>2
  <2>5. m - 1 \in Nat /\ \A s \in S : s <= m - 1
    BY <2>2, <2>4
  <2>6. QED
    BY <2>4, <2>5, <1>3
<1>5. \E x \in S : \A y \in S : x >= y
  BY <1>4
<1>6. Max(S) \in S /\ \A y \in S : Max(S) >= y
  BY <1>5 DEF Max
<1>7. QED
  BY <1>6

(* What the scan of a part of the directory finds: a number no file it     *)
(* lists exceeds.                                                           *)
LEMMA ScanFinds ==
    ASSUME files \subseteq Nat, NEW n \in Nat, \A s \in files : s < n, NEW listed \in SUBSET files
    PROVE  /\ scan_max_session_id(listed) \in Nat
           /\ \A s \in listed : s <= scan_max_session_id(listed)
<1>1. CASE listed = {}
  BY <1>1 DEF scan_max_session_id
<1>2. CASE listed # {}
  <2>1. Max(listed) \in listed /\ \A s \in listed : s <= Max(listed)
    BY <1>2, GreatestId
  <2>2. QED
    BY <1>2, <2>1 DEF scan_max_session_id
<1>3. QED
  BY <1>1, <1>2

Rest == {"idle", "load", "reserve", "reserved", "log", "enter"}

(* Ids are handed out in order: whatever this run has in the table, has    *)
(* opened, removed or is about to create has an id below the counter, and   *)
(* an id about to be used is used by nothing else.  A run that has seen     *)
(* every file starts above all of them.                                     *)
Fresh ==
    /\ \A s \in sessions \cup (files \ earlier) : s < next_session_id
    /\ ~partial => \A s \in files : s < next_session_id
    /\ \A t \in Thread : \A s \in gone[t] : s < next_session_id
    /\ \A t \in Thread : pc[t] \in {"log", "enter"} =>
          /\ id[t] # NoSession /\ id[t] < next_session_id
          /\ id[t] \notin sessions /\ \A u \in Thread : id[t] \notin gone[u]
          /\ pc[t] = "log" => id[t] \notin files \ earlier /\ (~partial => id[t] \notin files)
          /\ \A u \in Thread : u # t /\ pc[u] \in {"log", "enter"} => id[u] # id[t]

(* The directory holds a last file (a scan has a maximum to find). *)
HasLast == \E n \in Nat : \A s \in files : s < n

(* A session removed is removed by one thread, which subtracts it. *)
Removed ==
    /\ \A t \in Thread : IsFiniteSet(gone[t])
    /\ \A t \in Thread : pc[t] \in Rest => gone[t] = {}
    /\ \A t \in Thread : gone[t] \cap sessions = {}
    /\ \A t, u \in Thread : t # u => gone[t] \cap gone[u] = {}

(* No thread is about to exceed the limit. *)
Bounded ==
    /\ count <= MaxSessions
    /\ \A t \in Thread : pc[t] = "reserve" => current[t] < MaxSessions

IInv == TypeOK /\ Fresh /\ HasLast /\ Removed /\ CountIsExact /\ Bounded

(* The local variables of a call that returns. *)
LEMMA ReturnType ==
    ASSUME TypeOK, NEW t \in Thread, Return(t)
    PROVE  /\ pc' \in [Thread -> Rest \cup {"close", "reap_finished", "reap_expired"}]
           /\ current' \in [Thread -> Int] /\ id' \in [Thread -> Nat]
           /\ now' \in [Thread -> SUBSET SessionId] /\ shard' \in [Thread -> 0 .. ShardCount]
BY SessionAssumption DEF TypeOK, Return, Goto, Rest, NoSession

(* Every step keeps the types. *)
LEMMA TypeStep ==
    ASSUME TypeOK, Fresh, HasLast, Removed, [Next]_vars
    PROVE  TypeOK'
<1> USE DEF TypeOK, SessionId, NoSession
<1>1. ASSUME NEW t \in Thread, create_session(t) PROVE TypeOK'
  BY <1>1 DEF create_session, Goto, table, world, disk, local, counter
<1>2. ASSUME NEW t \in Thread, create_session_from_parent(t) PROVE TypeOK'
  BY <1>2 DEF create_session_from_parent, create_session, Goto, table, world, disk, local, counter
<1>3. ASSUME NEW t \in Thread, create_session_from_initial_state(t) PROVE TypeOK'
  BY <1>3 DEF create_session_from_initial_state, create_session, Goto, table, world, disk, local, counter
<1>4. ASSUME NEW t \in Thread, LoadCount(t) PROVE TypeOK'
  <2>1. CASE count >= MaxSessions /\ Return(t)
    BY <1>4, <2>1, SessionAssumption DEF LoadCount, Goto, Return, table, world, disk, local, counter
  <2>2. CASE count < MaxSessions /\ Goto(t, "reserve")
    BY <1>4, <2>2, SessionAssumption DEF LoadCount, Goto, Return, table, world, disk, local, counter
  <2>3. QED
    BY <1>4, <2>1, <2>2 DEF LoadCount
<1>5. ASSUME NEW t \in Thread, ReserveSlot(t) PROVE TypeOK'
  BY <1>5 DEF ReserveSlot, Goto, table, world, disk, local, counter
<1>6. ASSUME NEW t \in Thread, AllocateId(t) PROVE TypeOK'
  BY <1>6 DEF AllocateId, Goto, table, world, disk, local, counter
<1>7. ASSUME NEW t \in Thread, CreateLog(t) PROVE TypeOK'
  <2>1. id[t] \in SessionId
    BY <1>7 DEF CreateLog, Fresh
  <2>2. QED
    BY <1>7, <2>1 DEF CreateLog, Goto, table, world, disk, local, counter
<1>8. ASSUME NEW t \in Thread, CreateLogFails(t) PROVE TypeOK'
  BY <1>8, SessionAssumption DEF CreateLogFails, Goto, Return, table, world, disk, local, counter
<1>9. ASSUME NEW t \in Thread, EnterSession(t) PROVE TypeOK'
  <2>1. id[t] \in SessionId
    BY <1>9 DEF EnterSession, Fresh
  <2>2. IsFiniteSet(sessions \cup {id[t]})
    BY FS_AddElement
  <2>3. QED
    BY <1>9, <2>1, <2>2, ReturnType DEF EnterSession, table, world, disk, counter, Rest
<1>10. ASSUME NEW t \in Thread, close_session(t) PROVE TypeOK'
  <2>1. PICK s \in sessions : /\ sessions' = sessions \ {s} /\ expired' = expired \ {s}
                               /\ gone' = [gone EXCEPT ![t] = {s}]
    BY <1>10 DEF close_session
  <2>2. IsFiniteSet(sessions \ {s})
    BY FS_RemoveElement
  <2>3. QED
    BY <1>10, <2>1, <2>2, ZenonT(60) DEF close_session, Goto, table, world, disk, local, counter
<1>11. ASSUME NEW t \in Thread, FinishClose(t) PROVE TypeOK'
  <2>1. Cardinality(gone[t]) \in Nat
    BY FS_CardinalityType DEF Removed
  <2>2. count' \in Int /\ gone' \in [Thread -> SUBSET SessionId]
    BY <1>11, <2>1 DEF FinishClose, Subtract
  <2>3. gone[t] \subseteq SessionId
    OBVIOUS
  <2>4. pending_recycle' \subseteq SessionId
    BY <1>11, <2>3 DEF FinishClose
  <2>5. Return(t)
    BY <1>11 DEF FinishClose
  <2>6. QED
    BY <1>11, <2>2, <2>4, <2>5, ReturnType DEF FinishClose, table, world, disk, Rest
<1>12. ASSUME NEW t \in Thread, reap_finished(t) PROVE TypeOK'
  BY <1>12 DEF reap_finished, Goto, table, world, disk, local, counter
<1>13. ASSUME NEW t \in Thread, reap_expired(t) PROVE TypeOK'
  BY <1>13 DEF reap_expired, Goto, table, world, disk, local, counter
<1>14. ASSUME NEW t \in Thread, ReapShard(t) PROVE TypeOK'
  <2>1. IsFiniteSet(sessions \ Reaped(t))
    BY FS_Difference
  <2>2. Reaped(t) \subseteq sessions
    BY DEF Reaped
  <2>3. gone' \in [Thread -> SUBSET SessionId]
    BY <1>14, <2>2 DEF ReapShard
  <2>4. shard' \in [Thread -> 0 .. ShardCount]
    BY <1>14, SessionAssumption DEF ReapShard
  <2>5. QED
    BY <1>14, <2>1, <2>2, <2>3, <2>4 DEF ReapShard, table, world, disk, local, counter
<1>15. ASSUME NEW t \in Thread, FinishReap(t) PROVE TypeOK'
  <2>1. Cardinality(gone[t]) \in Nat
    BY FS_CardinalityType DEF Removed
  <2>2. count' \in Int /\ gone' \in [Thread -> SUBSET SessionId]
    BY <1>15, <2>1 DEF FinishReap, Subtract
  <2>3. gone[t] \subseteq SessionId
    OBVIOUS
  <2>4. pending_recycle' \subseteq SessionId
    BY <1>15, <2>3 DEF FinishReap
  <2>5. Return(t)
    BY <1>15 DEF FinishReap
  <2>6. QED
    BY <1>15, <2>2, <2>4, <2>5, ReturnType DEF FinishReap, table, world, disk, Rest
<1>16. CASE get_session
  BY <1>16 DEF get_session, table, world, disk, local, counter
<1>17. CASE DropClone
  BY <1>17 DEF DropClone, table, world, disk, local, counter
<1>18. CASE touch_session
  BY <1>18 DEF touch_session, table, world, disk, local, counter
<1>19. CASE TimePasses
  BY <1>19 DEF TimePasses, table, world, disk, local, counter
<1>20. CASE ReactorEnds
  BY <1>20 DEF ReactorEnds, table, world, disk, local, counter
<1>21. CASE Restart
  <2>1. PICK n \in Nat : \A s \in files : s < n
    BY DEF HasLast
  <2>2. PICK listed \in SUBSET files : /\ next_session_id' = scan_max_session_id(listed) + 1
                                       /\ partial' = (listed # files)
    BY <1>21 DEF Restart
  <2>3. scan_max_session_id(listed) \in Nat
    BY <2>1, ScanFinds
  <2>4. next_session_id' \in SessionId /\ partial' \in BOOLEAN
    BY <2>2, <2>3
  <2>5. QED
    BY <1>21, <2>4, SessionAssumption, FS_EmptySet DEF Restart
<1>22. CASE UNCHANGED vars
  BY <1>22 DEF vars, table, world, disk, local, counter
<1>23. QED
  BY <1>1, <1>2, <1>3, <1>4, <1>5, <1>6, <1>7, <1>8, <1>9, <1>10, <1>11, <1>12, <1>13, <1>14, <1>15, <1>16, <1>17, <1>18, <1>19, <1>20, <1>21, <1>22 DEF Next, ThreadStep, Environment

(* Every step keeps ids fresh. *)
LEMMA FreshStep ==
    ASSUME TypeOK, Fresh, HasLast, [Next]_vars
    PROVE  Fresh'
<1> USE DEF TypeOK, Fresh, SessionId, NoSession
<1>1. ASSUME NEW t \in Thread, create_session(t) PROVE Fresh'
  BY <1>1 DEF create_session, Goto, table, world, disk, local, counter
<1>2. ASSUME NEW t \in Thread, create_session_from_parent(t) PROVE Fresh'
  BY <1>2 DEF create_session_from_parent, create_session, Goto, table, world, disk, local, counter
<1>3. ASSUME NEW t \in Thread, create_session_from_initial_state(t) PROVE Fresh'
  BY <1>3 DEF create_session_from_initial_state, create_session, Goto, table, world, disk, local, counter
<1>4. ASSUME NEW t \in Thread, LoadCount(t) PROVE Fresh'
  <2>1. CASE count >= MaxSessions /\ Return(t)
    BY <1>4, <2>1 DEF LoadCount, Goto, Return, table, world, disk, counter
  <2>2. CASE count < MaxSessions /\ Goto(t, "reserve") /\ UNCHANGED id
    BY <1>4, <2>2 DEF LoadCount, Goto, table, world, disk, counter
  <2>3. QED
    BY <1>4, <2>1, <2>2 DEF LoadCount
<1>5. ASSUME NEW t \in Thread, ReserveSlot(t) PROVE Fresh'
  BY <1>5 DEF ReserveSlot, Goto, table, world, disk, local, counter
<1>6. ASSUME NEW t \in Thread, AllocateId(t) PROVE Fresh'
  BY <1>6 DEF AllocateId, Goto, table, world, disk, local, counter
<1>7. ASSUME NEW t \in Thread, CreateLog(t) PROVE Fresh'
  BY <1>7 DEF CreateLog, Goto, table, world, disk, local, counter
<1>8. ASSUME NEW t \in Thread, CreateLogFails(t) PROVE Fresh'
  BY <1>8 DEF CreateLogFails, Goto, Return, table, world, disk, local, counter
<1>9. ASSUME NEW t \in Thread, EnterSession(t) PROVE Fresh'
  BY <1>9 DEF EnterSession, Goto, Return, table, world, disk, local, counter
<1>10. ASSUME NEW t \in Thread, close_session(t) PROVE Fresh'
  BY <1>10 DEF close_session, Goto, table, world, disk, local, counter
<1>11. ASSUME NEW t \in Thread, FinishClose(t) PROVE Fresh'
  BY <1>11 DEF FinishClose, Goto, Return, Subtract, table, world, disk, local, counter
<1>12. ASSUME NEW t \in Thread, reap_finished(t) PROVE Fresh'
  BY <1>12 DEF reap_finished, Goto, table, world, disk, local, counter
<1>13. ASSUME NEW t \in Thread, reap_expired(t) PROVE Fresh'
  BY <1>13 DEF reap_expired, Goto, table, world, disk, local, counter
<1>14. ASSUME NEW t \in Thread, ReapShard(t) PROVE Fresh'
  <2>1. Reaped(t) \subseteq sessions
    BY DEF Reaped
  <2>2. QED
    BY <1>14, <2>1 DEF ReapShard, table, world, disk, local, counter
<1>15. ASSUME NEW t \in Thread, FinishReap(t) PROVE Fresh'
  BY <1>15 DEF FinishReap, Goto, Return, Subtract, table, world, disk, local, counter
<1>16. CASE get_session
  BY <1>16 DEF get_session, table, world, disk, local, counter
<1>17. CASE DropClone
  BY <1>17 DEF DropClone, table, world, disk, local, counter
<1>18. CASE touch_session
  BY <1>18 DEF touch_session, table, world, disk, local, counter
<1>19. CASE TimePasses
  BY <1>19 DEF TimePasses, table, world, disk, local, counter
<1>20. CASE ReactorEnds
  BY <1>20 DEF ReactorEnds, table, world, disk, local, counter
<1>21. CASE Restart
  <2>1. PICK n \in Nat : \A s \in files : s < n
    BY DEF HasLast
  <2>2. PICK listed \in SUBSET files : /\ next_session_id' = scan_max_session_id(listed) + 1
                                       /\ partial' = (listed # files)
    BY <1>21 DEF Restart
  <2>3. /\ scan_max_session_id(listed) \in Nat
        /\ \A s \in listed : s <= scan_max_session_id(listed)
    BY <2>1, ScanFinds
  <2>4. \A s \in listed : s \in Nat /\ s < next_session_id'
    BY <2>2, <2>3
  <2>5. ~partial' => \A s \in files : s < next_session_id'
    BY <2>2, <2>4
  <2>6. files' = files /\ earlier' = files /\ sessions' = {}
    BY <1>21 DEF Restart
  <2>7. \A t \in Thread : pc'[t] = "idle" /\ gone'[t] = {}
    BY <1>21 DEF Restart
  <2>8. QED
    BY <2>5, <2>6, <2>7
<1>22. CASE UNCHANGED vars
  BY <1>22 DEF vars, table, world, disk, local, counter
<1>23. QED
  BY <1>1, <1>2, <1>3, <1>4, <1>5, <1>6, <1>7, <1>8, <1>9, <1>10, <1>11, <1>12, <1>13, <1>14, <1>15, <1>16, <1>17, <1>18, <1>19, <1>20, <1>21, <1>22 DEF Next, ThreadStep, Environment

(* A new log is the only file that appears. *)
LEMMA LastStep ==
    ASSUME TypeOK, Fresh, HasLast, [Next]_vars
    PROVE  HasLast'
<1>1. PICK n \in Nat : \A s \in files : s < n
  BY DEF HasLast
<1>2. ASSUME NEW t \in Thread, CreateLog(t) PROVE HasLast'
  <2>1. id[t] \in Nat /\ files' \subseteq files \cup {id[t]} /\ files \subseteq Nat
    BY <1>2 DEF CreateLog, TypeOK, SessionId
  <2>2. CASE id[t] < n
    BY <1>1, <2>1, <2>2 DEF HasLast
  <2>3. CASE ~(id[t] < n)
    <3>1. id[t] + 1 \in Nat /\ \A s \in files' : s < id[t] + 1
      BY <1>1, <2>1, <2>3
    <3>2. QED
      BY <3>1 DEF HasLast
  <2>4. QED
    BY <2>2, <2>3
<1>3. CASE UNCHANGED files
  BY <1>1, <1>3 DEF HasLast
<1>4. CASE Next
  BY <1>2, <1>3, <1>4, Zenon DEF Next, ThreadStep, Environment, create_session,
     create_session_from_parent, create_session_from_initial_state, LoadCount, ReserveSlot,
     AllocateId, CreateLogFails, EnterSession, close_session, FinishClose, reap_finished,
     reap_expired, ReapShard, FinishReap, get_session, DropClone, touch_session, TimePasses,
     ReactorEnds, Restart, world, disk
<1>5. QED
  BY <1>3, <1>4 DEF vars, world, disk

(* No step lets two threads remove the same session. *)
LEMMA RemovedStep ==
    ASSUME TypeOK, Fresh, Removed, [Next]_vars
    PROVE  Removed'
<1> USE DEF TypeOK, Fresh, Removed, Rest
<1>1. ASSUME NEW t \in Thread, create_session(t) PROVE Removed'
  BY <1>1 DEF create_session, Goto, table, world, disk, local, counter
<1>2. ASSUME NEW t \in Thread, create_session_from_parent(t) PROVE Removed'
  BY <1>2 DEF create_session_from_parent, create_session, Goto, table, world, disk, local, counter
<1>3. ASSUME NEW t \in Thread, create_session_from_initial_state(t) PROVE Removed'
  BY <1>3 DEF create_session_from_initial_state, create_session, Goto, table, world, disk, local, counter
<1>4. ASSUME NEW t \in Thread, LoadCount(t) PROVE Removed'
  BY <1>4 DEF LoadCount, Goto, Return, table, world, disk, local, counter
<1>5. ASSUME NEW t \in Thread, ReserveSlot(t) PROVE Removed'
  BY <1>5 DEF ReserveSlot, Goto, table, world, disk, local, counter
<1>6. ASSUME NEW t \in Thread, AllocateId(t) PROVE Removed'
  BY <1>6 DEF AllocateId, Goto, table, world, disk, local, counter
<1>7. ASSUME NEW t \in Thread, CreateLog(t) PROVE Removed'
  BY <1>7 DEF CreateLog, Goto, table, world, disk, local, counter
<1>8. ASSUME NEW t \in Thread, CreateLogFails(t) PROVE Removed'
  BY <1>8 DEF CreateLogFails, Goto, Return, table, world, disk, local, counter
<1>9. ASSUME NEW t \in Thread, EnterSession(t) PROVE Removed'
  BY <1>9 DEF EnterSession, Goto, Return, table, world, disk, local, counter
<1>10. ASSUME NEW t \in Thread, close_session(t) PROVE Removed'
  <2>1. PICK s \in sessions : sessions' = sessions \ {s} /\ gone' = [gone EXCEPT ![t] = {s}]
    BY <1>10 DEF close_session
  <2>2. IsFiniteSet({s})
    BY FS_Singleton
  <2>3. \A u \in Thread : s \notin gone[u]
    OBVIOUS
  <2>4. \A u \in Thread : gone'[u] = IF u = t THEN {s} ELSE gone[u]
    BY <2>1
  <2>5. \A u \in Thread : IsFiniteSet(gone'[u]) /\ gone'[u] \cap sessions' = {}
    BY <2>1, <2>2, <2>4
  <2>6. \A u, v \in Thread : u # v => gone'[u] \cap gone'[v] = {}
    BY <2>3, <2>4
  <2>7. \A u \in Thread : pc'[u] \in Rest => gone'[u] = {}
    BY <1>10, <2>4 DEF close_session, Goto
  <2>8. QED
    BY <2>5, <2>6, <2>7
<1>11. ASSUME NEW t \in Thread, FinishClose(t) PROVE Removed'
  BY <1>11, FS_EmptySet DEF FinishClose, Goto, Return, Subtract, table, world, disk, local, counter
<1>12. ASSUME NEW t \in Thread, reap_finished(t) PROVE Removed'
  BY <1>12 DEF reap_finished, Goto, table, world, disk, local, counter
<1>13. ASSUME NEW t \in Thread, reap_expired(t) PROVE Removed'
  BY <1>13 DEF reap_expired, Goto, table, world, disk, local, counter
<1>14. ASSUME NEW t \in Thread, ReapShard(t) PROVE Removed'
  <2>1. Reaped(t) \subseteq sessions /\ IsFiniteSet(Reaped(t))
    BY FS_Subset DEF Reaped
  <2>2. IsFiniteSet(gone[t] \cup Reaped(t))
    BY <2>1, FS_Union
  <2>3. QED
    BY <1>14, <2>1, <2>2 DEF ReapShard, table, world, disk, local, counter
<1>15. ASSUME NEW t \in Thread, FinishReap(t) PROVE Removed'
  BY <1>15, FS_EmptySet DEF FinishReap, Goto, Return, Subtract, table, world, disk, local, counter
<1>16. CASE get_session
  BY <1>16 DEF get_session, table, world, disk, local, counter
<1>17. CASE DropClone
  BY <1>17 DEF DropClone, table, world, disk, local, counter
<1>18. CASE touch_session
  BY <1>18 DEF touch_session, table, world, disk, local, counter
<1>19. CASE TimePasses
  BY <1>19 DEF TimePasses, table, world, disk, local, counter
<1>20. CASE ReactorEnds
  BY <1>20 DEF ReactorEnds, table, world, disk, local, counter
<1>21. CASE Restart
  BY <1>21, FS_EmptySet DEF Restart
<1>22. CASE UNCHANGED vars
  BY <1>22 DEF vars, table, world, disk, local, counter
<1>23. QED
  BY <1>1, <1>2, <1>3, <1>4, <1>5, <1>6, <1>7, <1>8, <1>9, <1>10, <1>11, <1>12, <1>13, <1>14, <1>15, <1>16, <1>17, <1>18, <1>19, <1>20, <1>21, <1>22 DEF Next, ThreadStep, Environment

(* The exchange takes a slot only when one is free. *)
LEMMA BoundedStep ==
    ASSUME TypeOK, Removed, Bounded, [Next]_vars
    PROVE  Bounded'
<1> USE DEF TypeOK, Bounded
<1>1. ASSUME NEW t \in Thread, create_session(t) PROVE Bounded'
  BY <1>1 DEF create_session, Goto, table, world, disk, local, counter
<1>2. ASSUME NEW t \in Thread, create_session_from_parent(t) PROVE Bounded'
  BY <1>2 DEF create_session_from_parent, create_session, Goto, table, world, disk, local, counter
<1>3. ASSUME NEW t \in Thread, create_session_from_initial_state(t) PROVE Bounded'
  BY <1>3 DEF create_session_from_initial_state, create_session, Goto, table, world, disk, local, counter
<1>4. ASSUME NEW t \in Thread, LoadCount(t) PROVE Bounded'
  <2>1. CASE count >= MaxSessions /\ Return(t)
    BY <1>4, <2>1, SessionAssumption DEF LoadCount, Goto, Return, table, world, disk, local, counter
  <2>2. CASE count < MaxSessions /\ Goto(t, "reserve")
    BY <1>4, <2>2, SessionAssumption DEF LoadCount, Goto, Return, table, world, disk, local, counter
  <2>3. QED
    BY <1>4, <2>1, <2>2 DEF LoadCount
<1>5. ASSUME NEW t \in Thread, ReserveSlot(t) PROVE Bounded'
  BY <1>5, SessionAssumption DEF ReserveSlot, Goto, Return, table, world, disk, local, counter
<1>6. ASSUME NEW t \in Thread, AllocateId(t) PROVE Bounded'
  BY <1>6 DEF AllocateId, Goto, table, world, disk, local, counter
<1>7. ASSUME NEW t \in Thread, CreateLog(t) PROVE Bounded'
  BY <1>7 DEF CreateLog, Goto, table, world, disk, local, counter
<1>8. ASSUME NEW t \in Thread, CreateLogFails(t) PROVE Bounded'
  <2>1. count' <= MaxSessions
    BY <1>8, SessionAssumption DEF CreateLogFails
  <2>2. QED
    BY <1>8, <2>1 DEF CreateLogFails, Goto, Return
<1>9. ASSUME NEW t \in Thread, EnterSession(t) PROVE Bounded'
  BY <1>9 DEF EnterSession, Goto, Return, table, world, disk, local, counter
<1>10. ASSUME NEW t \in Thread, close_session(t) PROVE Bounded'
  BY <1>10 DEF close_session, Goto, table, world, disk, local, counter
<1>11. ASSUME NEW t \in Thread, FinishClose(t) PROVE Bounded'
  <2>1. Cardinality(gone[t]) \in Nat
    BY FS_CardinalityType DEF Removed
  <2>2. count' <= MaxSessions
    BY <1>11, <2>1, SessionAssumption DEF FinishClose, Subtract
  <2>3. QED
    BY <1>11, <2>2 DEF FinishClose, Goto, Return
<1>12. ASSUME NEW t \in Thread, reap_finished(t) PROVE Bounded'
  BY <1>12 DEF reap_finished, Goto, table, world, disk, local, counter
<1>13. ASSUME NEW t \in Thread, reap_expired(t) PROVE Bounded'
  BY <1>13 DEF reap_expired, Goto, table, world, disk, local, counter
<1>14. ASSUME NEW t \in Thread, ReapShard(t) PROVE Bounded'
  BY <1>14 DEF ReapShard, Reaped, table, world, disk, local, counter
<1>15. ASSUME NEW t \in Thread, FinishReap(t) PROVE Bounded'
  <2>1. Cardinality(gone[t]) \in Nat
    BY FS_CardinalityType DEF Removed
  <2>2. count' <= MaxSessions
    BY <1>15, <2>1, SessionAssumption DEF FinishReap, Subtract
  <2>3. QED
    BY <1>15, <2>2 DEF FinishReap, Goto, Return
<1>16. CASE get_session
  BY <1>16 DEF get_session, table, world, disk, local, counter
<1>17. CASE DropClone
  BY <1>17 DEF DropClone, table, world, disk, local, counter
<1>18. CASE touch_session
  BY <1>18 DEF touch_session, table, world, disk, local, counter
<1>19. CASE TimePasses
  BY <1>19 DEF TimePasses, table, world, disk, local, counter
<1>20. CASE ReactorEnds
  BY <1>20 DEF ReactorEnds, table, world, disk, local, counter
<1>21. CASE Restart
  BY <1>21, SessionAssumption DEF Restart
<1>22. CASE UNCHANGED vars
  BY <1>22 DEF vars, table, world, disk, local, counter
<1>23. QED
  BY <1>1, <1>2, <1>3, <1>4, <1>5, <1>6, <1>7, <1>8, <1>9, <1>10, <1>11, <1>12, <1>13, <1>14, <1>15, <1>16, <1>17, <1>18, <1>19, <1>20, <1>21, <1>22 DEF Next, ThreadStep, Environment

(* The sessions removed and not yet subtracted. *)
AllGone == UNION {gone[t] : t \in Thread}

(* What is counted is finite. *)
LEMMA FiniteParts ==
    ASSUME TypeOK, Fresh
    PROVE  /\ IsFiniteSet(Reserving) /\ Cardinality(Reserving) \in Nat
           /\ IsFiniteSet(AllGone) /\ Cardinality(AllGone) \in Nat
           /\ IsFiniteSet(sessions) /\ Cardinality(sessions) \in Nat
<1>1. Reserving \in SUBSET Thread
  BY DEF Reserving
<1>2. IsFiniteSet(Reserving)
  BY <1>1, FS_Subset, SessionAssumption
<1>3. AllGone \in SUBSET Nat /\ \A s \in AllGone : s <= next_session_id
  BY DEF AllGone, TypeOK, Fresh, SessionId
<1>4. IsFiniteSet(AllGone)
  BY <1>3, FS_BoundedSetOfNaturals DEF TypeOK, SessionId
<1>5. IsFiniteSet(sessions)
  BY DEF TypeOK
<1>6. QED
  BY <1>2, <1>4, <1>5, FS_CardinalityType

(* The counter counts every session once: in the table, reserved, or taken  *)
(* out and not yet subtracted.                                              *)
LEMMA CountStep ==
    ASSUME TypeOK, Fresh, Removed, CountIsExact, [Next]_vars
    PROVE  CountIsExact'
<1> DEFINE Counted == Cardinality(sessions) + Cardinality(Reserving) + Cardinality(AllGone)
<1>1. /\ IsFiniteSet(Reserving) /\ Cardinality(Reserving) \in Nat
      /\ IsFiniteSet(AllGone) /\ Cardinality(AllGone) \in Nat
      /\ IsFiniteSet(sessions) /\ Cardinality(sessions) \in Nat
  BY FiniteParts
<1>2. count = Counted /\ (count' = Counted' => CountIsExact')
  BY DEF CountIsExact, AllGone
<1>3. ASSUME Reserving' = Reserving, UNCHANGED <<count, sessions, gone>>
      PROVE  CountIsExact'
  BY <1>2, <1>3 DEF AllGone
<1>4. ASSUME NEW t \in Thread, create_session(t) PROVE CountIsExact'
  <2>1. Reserving' = Reserving
    BY <1>4 DEF create_session, Goto, Reserving, TypeOK
  <2>2. QED
    BY <1>4, <1>3, <2>1 DEF create_session, table, world, disk, local, counter
<1>5. ASSUME NEW t \in Thread, create_session_from_parent(t) PROVE CountIsExact'
  <2>1. Reserving' = Reserving
    BY <1>5 DEF create_session_from_parent, create_session, Goto, Reserving, TypeOK
  <2>2. QED
    BY <1>5, <1>3, <2>1 DEF create_session_from_parent, create_session, table, world, disk, local, counter
<1>6. ASSUME NEW t \in Thread, create_session_from_initial_state(t) PROVE CountIsExact'
  <2>1. Reserving' = Reserving
    BY <1>6 DEF create_session_from_initial_state, create_session, Goto, Reserving, TypeOK
  <2>2. QED
    BY <1>6, <1>3, <2>1 DEF create_session_from_initial_state, create_session, table, world, disk, local, counter
<1>7. ASSUME NEW t \in Thread, LoadCount(t) PROVE CountIsExact'
  <2>1. Reserving' = Reserving
    BY <1>7 DEF LoadCount, Goto, Return, Reserving, TypeOK
  <2>2. QED
    BY <1>7, <1>3, <2>1 DEF LoadCount, table, world, disk, local, counter
<1>8. ASSUME NEW t \in Thread, AllocateId(t) PROVE CountIsExact'
  <2>1. Reserving' = Reserving
    BY <1>8 DEF AllocateId, Goto, Reserving, TypeOK
  <2>2. QED
    BY <1>8, <1>3, <2>1 DEF AllocateId, table, world, disk, local, counter
<1>9. ASSUME NEW t \in Thread, CreateLog(t) PROVE CountIsExact'
  <2>1. Reserving' = Reserving
    BY <1>9 DEF CreateLog, Goto, Reserving, TypeOK
  <2>2. QED
    BY <1>9, <1>3, <2>1 DEF CreateLog, table, world, disk, local, counter
<1>10. ASSUME NEW t \in Thread, reap_finished(t) PROVE CountIsExact'
  <2>1. Reserving' = Reserving
    BY <1>10 DEF reap_finished, Goto, Reserving, TypeOK
  <2>2. QED
    BY <1>10, <1>3, <2>1 DEF reap_finished, table, world, disk, local, counter
<1>11. ASSUME NEW t \in Thread, reap_expired(t) PROVE CountIsExact'
  <2>1. Reserving' = Reserving
    BY <1>11 DEF reap_expired, Goto, Reserving, TypeOK
  <2>2. QED
    BY <1>11, <1>3, <2>1 DEF reap_expired, table, world, disk, local, counter
<1>12. ASSUME NEW t \in Thread, ReserveSlot(t) PROVE CountIsExact'
  <2>1. CASE count # current[t]
    <3>1. Reserving' = Reserving
      BY <1>12, <2>1 DEF ReserveSlot, Goto, Reserving, TypeOK
    <3>2. QED
      BY <1>12, <1>3, <2>1, <3>1 DEF ReserveSlot, table, local
  <2>2. CASE count = current[t]
    <3>1. Reserving' = Reserving \cup {t} /\ t \notin Reserving
      BY <1>12, <2>2 DEF ReserveSlot, Goto, Reserving, TypeOK
    <3>2. Cardinality(Reserving') = Cardinality(Reserving) + 1
      BY <1>1, <3>1, FS_AddElement
    <3>3. count' = count + 1 /\ UNCHANGED <<sessions, gone>>
      BY <1>12, <2>2 DEF ReserveSlot, table, local
    <3>4. QED
      BY <1>1, <1>2, <3>2, <3>3 DEF AllGone
  <2>3. QED
    BY <2>1, <2>2
<1>13. ASSUME NEW t \in Thread, CreateLogFails(t) PROVE CountIsExact'
  <2>1. Reserving' = Reserving \ {t} /\ t \in Reserving
    BY <1>13 DEF CreateLogFails, Goto, Return, Reserving, TypeOK
  <2>2. Cardinality(Reserving') = Cardinality(Reserving) - 1
    BY <1>1, <2>1, FS_RemoveElement
  <2>3. count' = count - 1 /\ UNCHANGED <<sessions, gone>>
    BY <1>13 DEF CreateLogFails, table
  <2>4. QED
    BY <1>1, <1>2, <2>2, <2>3 DEF AllGone
<1>14. ASSUME NEW t \in Thread, EnterSession(t) PROVE CountIsExact'
  <2>1. Reserving' = Reserving \ {t} /\ t \in Reserving
    BY <1>14 DEF EnterSession, Goto, Return, Reserving, TypeOK
  <2>2. Cardinality(Reserving') = Cardinality(Reserving) - 1
    BY <1>1, <2>1, FS_RemoveElement
  <2>3. sessions' = sessions \cup {id[t]} /\ id[t] \notin sessions
    BY <1>14 DEF EnterSession, Fresh
  <2>4. Cardinality(sessions') = Cardinality(sessions) + 1
    BY <1>1, <2>3, FS_AddElement
  <2>5. UNCHANGED <<count, gone>>
    BY <1>14 DEF EnterSession, counter
  <2>6. QED
    BY <1>1, <1>2, <2>2, <2>4, <2>5 DEF AllGone
<1>15. ASSUME NEW t \in Thread, close_session(t) PROVE CountIsExact'
  <2>1. PICK s \in sessions : sessions' = sessions \ {s} /\ gone' = [gone EXCEPT ![t] = {s}]
    BY <1>15 DEF close_session
  <2>2. gone[t] = {} /\ s \notin AllGone
    BY <1>15 DEF close_session, Removed, Rest, AllGone
  <2>3. AllGone' = AllGone \cup {s}
    <3>1. \A u \in Thread : gone'[u] = IF u = t THEN {s} ELSE gone[u]
      BY <2>1 DEF TypeOK
    <3>2. QED
      BY <2>2, <3>1 DEF AllGone
  <2>4. Cardinality(sessions') = Cardinality(sessions) - 1
    BY <1>1, <2>1, FS_RemoveElement
  <2>5. Cardinality(AllGone') = Cardinality(AllGone) + 1
    BY <1>1, <2>2, <2>3, FS_AddElement
  <2>6. Reserving' = Reserving
    BY <1>15 DEF close_session, Goto, Reserving, TypeOK
  <2>7. UNCHANGED count
    BY <1>15 DEF close_session, counter
  <2>8. QED
    BY <1>1, <1>2, <2>4, <2>5, <2>6, <2>7
<1>16. ASSUME NEW t \in Thread, ReapShard(t) PROVE CountIsExact'
  <2>1. Reaped(t) \subseteq sessions /\ sessions \cap Reaped(t) = Reaped(t)
    BY DEF Reaped
  <2>2. IsFiniteSet(Reaped(t)) /\ Cardinality(Reaped(t)) \in Nat
    BY <1>1, <2>1, FS_Subset, FS_CardinalityType
  <2>3. AllGone \cap Reaped(t) = {}
    BY <2>1 DEF AllGone, Removed
  <2>4. AllGone' = AllGone \cup Reaped(t)
    <3>1. \A u \in Thread : gone'[u] = IF u = t THEN gone[u] \cup Reaped(t) ELSE gone[u]
      BY <1>16 DEF ReapShard, TypeOK
    <3>2. QED
      BY <3>1 DEF AllGone
  <2>5. Cardinality(sessions') = Cardinality(sessions) - Cardinality(Reaped(t))
    <3>1. sessions' = sessions \ Reaped(t)
      BY <1>16 DEF ReapShard
    <3>2. QED
      BY <1>1, <2>1, <3>1, FS_Difference
  <2>6. Cardinality(AllGone') = Cardinality(AllGone) + Cardinality(Reaped(t))
    <3>1. Cardinality(AllGone \cup Reaped(t))
            = Cardinality(AllGone) + Cardinality(Reaped(t)) - Cardinality(AllGone \cap Reaped(t))
      BY <1>1, <2>2, FS_Union
    <3>2. Cardinality(AllGone \cap Reaped(t)) = 0
      BY <2>3, FS_EmptySet
    <3>3. QED
      BY <1>1, <2>2, <2>4, <3>1, <3>2
  <2>7. Reserving' = Reserving /\ count' = count
    BY <1>16 DEF ReapShard, Reserving, counter
  <2>8. QED
    BY <1>1, <1>2, <2>2, <2>5, <2>6, <2>7
<1>17. ASSUME NEW t \in Thread, FinishClose(t) PROVE CountIsExact'
  <2>1. count' = count - Cardinality(gone[t]) /\ gone' = [gone EXCEPT ![t] = {}]
    BY <1>17 DEF FinishClose, Subtract
  <2>2. AllGone \cap gone[t] = gone[t]
    BY DEF AllGone
  <2>3. AllGone' = AllGone \ gone[t]
    <3>1. \A u \in Thread : gone'[u] = IF u = t THEN {} ELSE gone[u]
      BY <2>1 DEF TypeOK
    <3>2. \A u \in Thread : u # t => gone[u] \cap gone[t] = {}
      BY DEF Removed
    <3>3. QED
      BY <3>1, <3>2 DEF AllGone
  <2>4. Cardinality(gone[t]) \in Nat
    BY FS_CardinalityType DEF Removed
  <2>5. Cardinality(AllGone') = Cardinality(AllGone) - Cardinality(gone[t])
    <3>1. Cardinality(AllGone \ gone[t]) = Cardinality(AllGone) - Cardinality(AllGone \cap gone[t])
      BY <1>1, FS_Difference
    <3>2. QED
      BY <2>2, <2>3, <3>1
  <2>6. Reserving' = Reserving /\ sessions' = sessions
    BY <1>17 DEF FinishClose, Goto, Return, Reserving, TypeOK, table
  <2>7. QED
    BY <1>1, <1>2, <2>1, <2>4, <2>5, <2>6
<1>18. ASSUME NEW t \in Thread, FinishReap(t) PROVE CountIsExact'
  <2>1. count' = count - Cardinality(gone[t]) /\ gone' = [gone EXCEPT ![t] = {}]
    BY <1>18 DEF FinishReap, Subtract
  <2>2. AllGone \cap gone[t] = gone[t]
    BY DEF AllGone
  <2>3. AllGone' = AllGone \ gone[t]
    <3>1. \A u \in Thread : gone'[u] = IF u = t THEN {} ELSE gone[u]
      BY <2>1 DEF TypeOK
    <3>2. \A u \in Thread : u # t => gone[u] \cap gone[t] = {}
      BY DEF Removed
    <3>3. QED
      BY <3>1, <3>2 DEF AllGone
  <2>4. Cardinality(gone[t]) \in Nat
    BY FS_CardinalityType DEF Removed
  <2>5. Cardinality(AllGone') = Cardinality(AllGone) - Cardinality(gone[t])
    <3>1. Cardinality(AllGone \ gone[t]) = Cardinality(AllGone) - Cardinality(AllGone \cap gone[t])
      BY <1>1, FS_Difference
    <3>2. QED
      BY <2>2, <2>3, <3>1
  <2>6. Reserving' = Reserving /\ sessions' = sessions
    BY <1>18 DEF FinishReap, Goto, Return, Reserving, TypeOK, table
  <2>7. QED
    BY <1>1, <1>2, <2>1, <2>4, <2>5, <2>6
<1>19. CASE Environment
  <2>1. CASE Restart
    <3>1. Reserving' = {} /\ sessions' = {} /\ AllGone' = {} /\ count' = 0
      BY <2>1 DEF Restart, Reserving, AllGone
    <3>2. QED
      BY <1>2, <3>1, FS_EmptySet
  <2>2. CASE get_session \/ DropClone \/ touch_session \/ TimePasses \/ ReactorEnds
    BY <2>2, <1>3 DEF get_session, DropClone, touch_session, TimePasses, ReactorEnds,
                      Reserving, local, table, counter
  <2>3. QED
    BY <1>19, <2>1, <2>2 DEF Environment
<1>20. CASE UNCHANGED vars
  BY <1>20, <1>3 DEF vars, Reserving, local, table, counter
<1>21. QED
  BY <1>4, <1>5, <1>6, <1>7, <1>8, <1>9, <1>10, <1>11, <1>12, <1>13, <1>14, <1>15, <1>16, <1>17, <1>18, <1>19, <1>20 DEF Next, ThreadStep

(* The initial state satisfies the invariant. *)
LEMMA InitIInv == Init => IInv
<1> SUFFICES ASSUME Init PROVE IInv
  OBVIOUS
<1>1. TypeOK
  <2>1. wal_dir \in BOOLEAN /\ partial \in BOOLEAN /\ earlier \subseteq files
    BY Zenon DEF Init
  <2>2. QED
    BY <2>1, SessionAssumption, FS_EmptySet DEF Init, TypeOK, SessionId, NoSession
<1>2. Fresh /\ Bounded
  <2>1. sessions = {} /\ files = {} /\ \A t \in Thread : gone[t] = {} /\ pc[t] = "idle"
    BY DEF Init
  <2>2. count = 0
    BY DEF Init
  <2>3. QED
    BY <2>1, <2>2, SessionAssumption DEF Fresh, Bounded
<1>3. Removed
  BY FS_EmptySet DEF Init, Removed
<1>4. CountIsExact
  <2>1. Reserving = {} /\ UNION {gone[t] : t \in Thread} = {}
    BY DEF Init, Reserving
  <2>2. count = 0 /\ sessions = {}
    BY DEF Init
  <2>3. Cardinality({}) = 0
    BY FS_EmptySet
  <2>4. QED
    BY <2>1, <2>2, <2>3 DEF CountIsExact
<1>5. HasLast
  <2>1. 0 \in Nat /\ \A s \in files : s < 0
    BY DEF Init
  <2>2. QED
    BY <2>1 DEF HasLast
<1>6. QED
  BY <1>1, <1>2, <1>3, <1>4, <1>5 DEF IInv

(* IInv is inductive. *)
LEMMA InvariantStep == IInv /\ [Next]_vars => IInv'
<1> SUFFICES ASSUME IInv, [Next]_vars PROVE IInv'
  OBVIOUS
<1>1. TypeOK /\ Fresh /\ HasLast /\ Removed /\ CountIsExact /\ Bounded
  BY DEF IInv
<1>2. QED
  BY <1>1, TypeStep, FreshStep, LastStep, RemovedStep, CountStep, BoundedStep DEF IInv

(* The session table keeps its types, whatever the threads do. *)
THEOREM SessionTypes == Spec => []TypeOK
<1>1. IInv => TypeOK
  BY DEF IInv
<1>2. QED
  BY <1>1, InitIInv, InvariantStep, PTL DEF Spec

(* SessionManager.count is exact up to the operations under way, for any    *)
(* number of threads creating, closing and reaping.                         *)
THEOREM CountExact == Spec => []CountIsExact
<1>1. IInv => CountIsExact
  BY DEF IInv
<1>2. QED
  BY <1>1, InitIInv, InvariantStep, PTL DEF Spec

(* However many threads call create_session at once, the table never holds  *)
(* more than max_sessions (the exchange of reserve_session_slot).           *)
THEOREM LimitIsKept == Spec => []LimitHolds
<1>1. IInv => LimitHolds
  <2> SUFFICES ASSUME IInv PROVE LimitHolds
    OBVIOUS
  <2>1. /\ Cardinality(Reserving) \in Nat /\ Cardinality(AllGone) \in Nat
        /\ Cardinality(sessions) \in Nat
    BY FiniteParts DEF IInv
  <2>2. count = Cardinality(sessions) + Cardinality(Reserving) + Cardinality(AllGone)
    BY DEF IInv, CountIsExact, AllGone
  <2>3. count <= MaxSessions
    BY DEF IInv, Bounded
  <2>4. QED
    BY <2>1, <2>2, <2>3, SessionAssumption DEF LimitHolds
<1>2. QED
  BY <1>1, InitIInv, InvariantStep, PTL DEF Spec

(* Whatever the threads do, a session is created over an existing log      *)
(* only in a run of the process that did not see every file, and only over  *)
(* a log of an earlier run (scan_max_session_id, create_facts_log).         *)
THEOREM LogsAreNeverReopened == Spec => LogsAreKept
<1>1. IInv /\ [Next]_vars =>
        [\A t \in Thread : pc[t] = "log" /\ pc'[t] = "enter" /\ id[t] \in files
                              => partial /\ id[t] \in earlier]_vars
  BY DEF IInv, Fresh, TypeOK
<1>2. QED
  BY <1>1, InitIInv, InvariantStep, PTL DEF Spec, LogsAreKept
=============================================================================
