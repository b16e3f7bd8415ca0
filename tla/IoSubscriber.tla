---------------------------- MODULE IoSubscriber ----------------------------
(***************************************************************************)
(* The task that answers a session's I/O requests                          *)
(* (evorule-governance/src/io_subscriber.rs), between the reactor's event  *)
(* broadcast, which forgets facts a slow receiver has not read, and its    *)
(* command channel.  The reactor is reduced to what the subscriber sees of *)
(* it: the facts it emits, the messages it takes, and its end.             *)
(***************************************************************************)
EXTENDS CircuitBreaker, FiniteSets, SequencesExt

CONSTANTS Capacity,      \* of the event broadcast
          MaxRetries,    \* MAX_RETRIES
          IdOffset,      \* ID_OFFSET
          Gates,         \* whether a PermissionGate is installed: TRUE, FALSE or either
          Kinds,         \* the facts the reactor emits: see Kind
          MaxFacts,      \* bound: facts the reactor emits
          MaxTime        \* bound: the clock

(* An I/O request to answer, one the skip predicate leaves to an external   *)
(* executor, or any other fact.                                             *)
Kind == {"request", "skipped", "other"}

ASSUME SubscriberAssumption ==
    /\ Capacity \in Nat \ {0} /\ MaxRetries \in Nat /\ IdOffset \in Nat
    /\ Gates \subseteq BOOLEAN /\ Kinds \subseteq Kind
    /\ MaxFacts \in Nat /\ MaxTime \in Nat

VARIABLES
    clock,
    has_gate,  \* permission_gate is Some
    alive,     \* the reactor runs: both channels are open
    events,    \* the facts the broadcast holds for the subscriber
    missed,    \* how many it has overwritten since the last receive
    emitted,   \* facts the reactor has emitted; its ids are 1, 2, ...
    open,      \* requests the reactor waits for the subscriber to answer
    sent,      \* what the subscriber has put into the command channel
    taken,     \* how much of it the reactor has taken
    circuit,   \* IoSubscriber.circuit
    next_id,   \* IoSubscriber.next_id
    pc,        \* where the subscriber's task is
    request,   \* the request it handles
    attempt,   \* its number of dispatches
    denies,    \* every denial counted so far: its time, and whether it tripped
    lost       \* requests the broadcast has overwritten

world   == <<clock, has_gate>>
reactor == <<alive, emitted, open, taken>>
channel == <<events, missed, lost>>
task    == <<circuit, next_id, pc, request, attempt, sent, denies>>
vars    == <<world, reactor, channel, task>>

Init ==
    /\ clock = 0 /\ has_gate \in Gates /\ alive = TRUE
    /\ events = <<>> /\ missed = 0 /\ emitted = 0 /\ open = {} /\ lost = {}
    /\ sent = <<>> /\ taken = 0
    /\ circuit = NewCircuit /\ next_id = IdOffset
    /\ pc = "recv" /\ request = 0 /\ attempt = 0
    /\ denies = <<>>

-----------------------------------------------------------------------------
(* The reactor and the clock. *)

(* The reactor emits a fact; a full broadcast overwrites its oldest one. *)
Emit(kind) ==
    LET f == [id |-> emitted + 1, kind |-> kind]
    IN  /\ alive /\ emitted < MaxFacts
        /\ emitted' = f.id
        /\ open' = IF kind = "request" THEN open \cup {f.id} ELSE open
        /\ IF Len(events) < Capacity
           THEN events' = Append(events, f) /\ UNCHANGED <<missed, lost>>
           ELSE /\ events' = Append(Tail(events), f)
                /\ missed' = missed + 1
                /\ lost' = IF Head(events).kind = "request" THEN lost \cup {Head(events).id}
                                                            ELSE lost
        /\ UNCHANGED <<world, alive, taken, task>>

(* It takes a message; a response ends the wait for its request, unless     *)
(* that is over already.                                                    *)
Take ==
    /\ alive /\ taken < Len(sent)
    /\ taken' = taken + 1
    /\ open' = IF sent[taken'].type = "IoResponse" THEN open \ {sent[taken'].request_id} ELSE open
    /\ UNCHANGED <<world, alive, emitted, channel, task>>

(* A wait ends without the subscriber: a timeout or a cancellation. *)
Abandon ==
    /\ alive /\ \E r \in open : open' = open \ {r}
    /\ UNCHANGED <<world, alive, emitted, taken, channel, task>>

Exit ==
    /\ alive /\ alive' = FALSE
    /\ UNCHANGED <<world, emitted, open, taken, channel, task>>

Tick ==
    /\ clock < MaxTime /\ clock' = clock + 1
    /\ UNCHANGED <<has_gate, reactor, channel, task>>

-----------------------------------------------------------------------------
(* The subscriber. *)

(* Messages go into the command channel.  A reactor that has ended, before  *)
(* them or between them, fails the last send and run() returns              *)
(* CommandClosed; what was sent before it ended is never taken.             *)
SendAll(msgs) ==
    /\ next_id' = next_id + Len(msgs)
    /\ \/ alive /\ sent' = sent \o msgs /\ pc' = "recv"
       \/ /\ ~alive /\ pc' = "failed"
          /\ \E n \in 0 .. Len(msgs) - 1 : sent' = sent \o SubSeq(msgs, 1, n)

Response(r, cause, id) ==
    [type |-> "IoResponse", request_id |-> r, result |-> cause, id |-> id]
Signal(id) == [type |-> "Command", id |-> id]

Received(kind) == pc = "recv" /\ missed = 0 /\ events # <<>> /\ Head(events).kind = kind

Receive == events' = Tail(events) /\ UNCHANGED <<missed, lost>>

(* Mutant: the receiver subscribes anew and drops what the broadcast holds. *)
RecvLaggedAnew ==
    /\ pc = "recv" /\ missed > 0
    /\ missed' = 0 /\ events' = <<>>
    /\ UNCHANGED <<world, reactor, lost, task>>

RecvLagged ==
    /\ pc = "recv" /\ missed > 0
    /\ missed' = 0
    /\ UNCHANGED <<world, reactor, events, lost, task>>

RecvClosed ==
    /\ pc = "recv" /\ missed = 0 /\ events = <<>> /\ ~alive
    /\ pc' = "ended"
    /\ UNCHANGED <<world, reactor, channel, circuit, next_id, request, attempt, sent, denies>>

(* Facts that are no requests, and requests left to an external executor. *)
HandleIgnored ==
    /\ Received("other") \/ Received("skipped")
    /\ Receive
    /\ UNCHANGED <<world, reactor, task>>

(* The breaker is asked before the gate. *)
HandleTripped ==
    /\ Received("request") /\ IsTripped(circuit, clock)
    /\ SendAll(<<Response(Head(events).id, "tripped", next_id)>>)
    /\ Receive
    /\ UNCHANGED <<world, reactor, circuit, request, attempt, denies>>

(* The subscriber without a gate refuses. *)
HandleUngated ==
    /\ Received("request") /\ ~IsTripped(circuit, clock) /\ ~has_gate
    /\ circuit' = AfterCheck(circuit, clock)
    /\ SendAll(<<Response(Head(events).id, "no_gate", next_id)>>)
    /\ Receive
    /\ UNCHANGED <<world, reactor, request, attempt, denies>>

(* Denied, or left to an approver, by the permission table. *)
HandleDenied ==
    /\ Received("request") /\ ~IsTripped(circuit, clock) /\ has_gate
    /\ circuit' = AfterCheck(circuit, clock)
    /\ SendAll(<<Response(Head(events).id, "denied", next_id)>>)
    /\ Receive
    /\ UNCHANGED <<world, reactor, request, attempt, denies>>

(* Mutant: the request is answered before the signal is submitted. *)
DenialsReversed(c, r) ==
    IF Trips(c, clock) THEN <<Response(r, "denied", next_id), Signal(next_id + 1)>>
                       ELSE <<Response(r, "denied", next_id)>>

(* What is sent for a denial that counts: the signal, when it trips, then   *)
(* the response.                                                            *)
Denials(c, r) ==
    IF Trips(c, clock) THEN <<Signal(next_id), Response(r, "denied", next_id + 1)>>
                       ELSE <<Response(r, "denied", next_id)>>

(* Denied by the static route policy: the denial counts. *)
HandleRouteDenied ==
    /\ Received("request") /\ ~IsTripped(circuit, clock) /\ has_gate
    /\ LET c == AfterCheck(circuit, clock)
       IN  /\ circuit' = record_deny(c, clock)
           /\ denies' = Append(denies, [time |-> clock, trips |-> Trips(c, clock)])
           /\ SendAll(Denials(c, Head(events).id))
    /\ Receive
    /\ UNCHANGED <<world, reactor, request, attempt>>

HandleAllowed ==
    /\ Received("request") /\ ~IsTripped(circuit, clock) /\ has_gate
    /\ circuit' = AfterCheck(circuit, clock)
    /\ pc' = "dispatch" /\ request' = Head(events).id /\ attempt' = 1
    /\ Receive
    /\ UNCHANGED <<world, reactor, next_id, sent, denies>>

(* The handler's answer. *)
DispatchOk ==
    /\ pc = "dispatch"
    /\ SendAll(<<Response(request, "ok", next_id)>>)
    /\ request' = 0 /\ attempt' = 0
    /\ UNCHANGED <<world, reactor, channel, circuit, denies>>

(* Another attempt is allowed after a transient error. *)
MayRetry == attempt <= MaxRetries

(* Mutant: every failed attempt is answered. *)
DispatchRetryAnswering ==
    /\ pc = "dispatch" /\ MayRetry
    /\ pc' = "backoff"
    /\ sent' = Append(sent, Response(request, "error", next_id)) /\ next_id' = next_id + 1
    /\ UNCHANGED <<world, reactor, channel, circuit, request, attempt, denies>>

DispatchRetry ==
    /\ pc = "dispatch" /\ MayRetry
    /\ pc' = "backoff"
    /\ UNCHANGED <<world, reactor, channel, circuit, next_id, request, attempt, sent, denies>>

Backoff ==
    /\ pc = "backoff"
    /\ pc' = "dispatch" /\ attempt' = attempt + 1
    /\ UNCHANGED <<world, reactor, channel, circuit, next_id, request, sent, denies>>

(* Mutant: a final error is logged and not answered. *)
DispatchFailsSilently ==
    /\ pc = "dispatch"
    /\ pc' = "recv" /\ request' = 0 /\ attempt' = 0
    /\ UNCHANGED <<world, reactor, channel, circuit, next_id, sent, denies>>

(* A final error, or a transient one after the last attempt. *)
DispatchFails ==
    /\ pc = "dispatch"
    /\ SendAll(<<Response(request, "error", next_id)>>)
    /\ request' = 0 /\ attempt' = 0
    /\ UNCHANGED <<world, reactor, channel, circuit, denies>>

-----------------------------------------------------------------------------
Subscriber ==
    \/ RecvLagged \/ RecvClosed \/ HandleIgnored
    \/ HandleTripped \/ HandleUngated \/ HandleDenied \/ HandleRouteDenied \/ HandleAllowed
    \/ DispatchOk \/ DispatchRetry \/ Backoff \/ DispatchFails

(* The steps of the subscriber that wait for no handler. *)
OwnStep == pc # "dispatch" /\ Subscriber

ReactorSide == (\E kind \in Kinds : Emit(kind)) \/ Take \/ Abandon \/ Exit

Next == Subscriber \/ ReactorSide \/ Tick

Spec == Init /\ [][Next]_vars

(* The subscriber's task is scheduled and the reactor takes what it sends.  *)
(* Nothing bounds the time a handler takes: the await of its dispatch may   *)
(* never end.                                                               *)
FairSpec == Spec /\ WF_vars(OwnStep) /\ WF_vars(Take)

-----------------------------------------------------------------------------
(***************************************************************************)
(* Properties.                                                             *)
(***************************************************************************)
Message == [type : {"Command"}, id : Nat]
           \cup [type : {"IoResponse"}, request_id : Nat, id : Nat,
                 result : {"tripped", "no_gate", "denied", "ok", "error"}]

(* Every variable of the subscriber, its two channels and its breaker has   *)
(* its type; a request is tried MAX_RETRIES + 1 times at most.              *)
TypeOK ==
    /\ clock \in Nat /\ has_gate \in Gates /\ alive \in BOOLEAN
    /\ events \in Seq([id : Nat, kind : Kind]) /\ missed \in Nat
    /\ emitted \in Nat /\ open \subseteq Nat /\ lost \subseteq Nat
    /\ sent \in Seq(Message) /\ taken \in 0 .. Len(sent)
    /\ circuit \in Circuit /\ next_id \in Nat
    /\ pc \in {"recv", "dispatch", "backoff", "ended", "failed"}
    /\ request \in Nat /\ attempt \in 0 .. MaxRetries + 1
    /\ denies \in Seq([time : Nat, trips : BOOLEAN])

Answered(r) == \E i \in DOMAIN sent : sent[i].type = "IoResponse" /\ sent[i].request_id = r
Queued(r) == \E i \in DOMAIN events : events[i].id = r

(* No request is answered twice: the second answer would be an unknown      *)
(* response, recorded in the chain as an error.                             *)
AnsweredOnce ==
    \A i, j \in DOMAIN sent :
        /\ sent[i].type = "IoResponse" /\ sent[j].type = "IoResponse"
        /\ sent[i].request_id = sent[j].request_id
        => i = j

(* No request is forgotten: an open request is in the broadcast or lost by  *)
(* it, in the hands of the subscriber, or answered.                         *)
NoneForgotten ==
    alive => \A r \in open : Queued(r) \/ r \in lost \/ r = request \/ Answered(r)

(* No burst goes through: as many denials as the threshold within one       *)
(* window have tripped the breaker.                                         *)
BurstsTrip ==
    Threshold > 0 =>
    \A i, j \in DOMAIN denies :
        /\ i <= j /\ denies[j].time - denies[i].time <= Window
        /\ \A k \in i .. j : ~denies[k].trips
        => j - i + 1 < Threshold

(* The evidence comes first: every trip has put its signal into the         *)
(* channel, right before the answer to the request that tripped, and nobody *)
(* is refused by a tripped breaker without a signal before.  (The last      *)
(* signal of a session that has ended may lack its answer.)                 *)
EvidenceFirst ==
    LET signals == {i \in DOMAIN sent : sent[i].type = "Command"}
    IN  /\ alive => Cardinality(signals) = Cardinality({k \in DOMAIN denies : denies[k].trips})
        /\ \A i \in signals :
              \/ i < Len(sent) /\ sent[i + 1].type = "IoResponse" /\ sent[i + 1].result = "denied"
              \/ i = Len(sent) /\ pc = "failed"
        /\ \A i \in DOMAIN sent \ signals :
              sent[i].result = "tripped" => \E k \in signals : k < i

(* Unless a handler never returns, a request the subscriber is to answer    *)
(* does not stay open for ever, through lags, refusals, retries and final   *)
(* errors; it may when the broadcast loses it (then only the reactor's own  *)
(* timeout ends it) or when the reactor ends.                               *)
HandlersReturn == []<>(pc # "dispatch")

AnswersArrive ==
    HandlersReturn =>
        \A r \in 1 .. MaxFacts : (r \in open) ~> (r \notin open \/ r \in lost \/ ~alive)

(* The facts of the reactor and those of the subscriber have different ids. *)
IdsAreApart == \A i \in DOMAIN sent : sent[i].id \notin 1 .. emitted

(* A subscriber without a gate hands every request to its dispatcher. *)
UngatedDispatches ==
    \A i \in DOMAIN sent : sent[i].type = "IoResponse" => sent[i].result # "no_gate"
=============================================================================
