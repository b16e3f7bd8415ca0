--------------------------- MODULE CircuitBreaker ---------------------------
(***************************************************************************)
(* The circuit breaker of one I/O subscriber                               *)
(* (evorule-governance/src/circuit_breaker.rs): denials by the static      *)
(* route policy are counted in a sliding window; a full window trips the   *)
(* breaker for the length of a window.                                     *)
(***************************************************************************)
EXTENDS Integers, Sequences

CONSTANTS Threshold,   \* CircuitConfig.threshold; 0 switches the breaker off
          Window       \* CircuitConfig.window

ASSUME CircuitAssumption == Threshold \in Nat /\ Window \in Nat \ {0}

Never == -1

Circuit == [deny_times : Seq(Nat), tripped_until : Nat \cup {Never}]

NewCircuit == [deny_times |-> <<>>, tripped_until |-> Never]

(* is_tripped answers TRUE ... *)
IsTripped(c, now) == c.tripped_until # Never /\ now < c.tripped_until

(* ... and resets a breaker whose time is over. *)
AfterCheck(c, now) ==
    IF c.tripped_until # Never /\ now >= c.tripped_until THEN NewCircuit ELSE c

(* The denials record_deny keeps: it drops those before the cutoff from the *)
(* front, up to the first that is not before it.                            *)
Kept(times, cutoff) ==
    LET first == CHOOSE i \in 1 .. Len(times) + 1 :
                     /\ \A j \in 1 .. i - 1 : times[j] < cutoff
                     /\ i <= Len(times) => times[i] >= cutoff
    IN  SubSeq(times, first, Len(times))

(* Mutant: a denial exactly one window old is forgotten. *)
InWindowExclusive(c, now) == Append(Kept(c.deny_times, now - Window + 1), now)

(* The denials record_deny counts, this one included. *)
InWindow(c, now) == Append(Kept(c.deny_times, now - Window), now)

(* record_deny trips the breaker ... *)
Trips(c, now) == Threshold > 0 /\ Len(InWindow(c, now)) >= Threshold

(* ... or counts the denial. *)
record_deny(c, now) ==
    IF Threshold = 0 THEN c
    ELSE IF Trips(c, now) THEN [deny_times |-> <<>>, tripped_until |-> now + Window]
    ELSE [c EXCEPT !.deny_times = InWindow(c, now)]
=============================================================================
