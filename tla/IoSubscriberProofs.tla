------------------------- MODULE IoSubscriberProofs -------------------------
(***************************************************************************)
(* Proofs about the I/O subscriber and its circuit breaker, for every       *)
(* capacity of the broadcast, retry limit, threshold and window.           *)
(***************************************************************************)
EXTENDS IoSubscriber, FiniteSetTheorems, SequenceTheorems, WellFoundedInduction, TLAPS

(* Induction over the natural numbers: a set of them has a least element.   *)
LEMMA LeastNatural ==
    ASSUME NEW T, T \subseteq Nat, T # {}
    PROVE  \E n \in T : \A m \in T : n <= m
<1>1. PICK n \in T : \A m \in T : <<m, n>> \notin OpToRel(<, Nat)
  BY NatLessThanWellFounded, WFMin, Zenon
<1>2. \A m \in T : ~(m < n)
  BY <1>1, Zenon DEF OpToRel
<1>3. QED
  BY <1>2

-----------------------------------------------------------------------------
IsResponse(m) == m.type = "IoResponse"
Handling == pc \in {"dispatch", "backoff"}

(* A request in hand is retried only while MAX_RETRIES allows. *)
Attempts == TypeOK /\ (pc = "backoff" => attempt <= MaxRetries)

(* Requests are taken up in the order of their ids: what is answered comes  *)
(* before what is in hand, and that before what the broadcast holds.        *)
InOrder ==
    /\ \A i \in DOMAIN events : events[i].id \in 1 .. emitted
    /\ \A i, j \in DOMAIN events : i < j => events[i].id < events[j].id
    /\ \A i \in DOMAIN events : request < events[i].id
    /\ request <= emitted
    /\ Handling <=> request > 0
    /\ \A i \in DOMAIN sent : IsResponse(sent[i]) =>
          /\ sent[i].request_id <= emitted
          /\ Handling => sent[i].request_id < request
          /\ \A j \in DOMAIN events : sent[i].request_id < events[j].id

(* Only a request to answer is open. *)
OpenAreRequests ==
    /\ open \subseteq 1 .. emitted
    /\ \A i \in DOMAIN events : events[i].id \in open => events[i].kind = "request"

(* A breaker that is or was tripped counts no denials, and it is not        *)
(* tripped while a request is in hand.                                      *)
BreakerIdle ==
    /\ circuit.tripped_until # Never => circuit.deny_times = <<>>
    /\ Handling => circuit.tripped_until = Never

(* The breaker's deny_times are the last denials; an earlier one with no    *)
(* trip since is out of the window of the last.                             *)
Forgotten == Len(denies) - Len(circuit.deny_times)
CountsRecent ==
    /\ \A i \in DOMAIN denies : denies[i].time <= clock
    /\ \A i, j \in DOMAIN denies : i <= j => denies[i].time <= denies[j].time
    /\ Threshold > 0 =>
          /\ Len(circuit.deny_times) <= Len(denies)
          /\ Len(circuit.deny_times) < Threshold
          /\ \A i \in DOMAIN circuit.deny_times :
                circuit.deny_times[i] = denies[Forgotten + i].time
          /\ \A k \in 1 .. Forgotten :
                (\A l \in k .. Len(denies) : ~denies[l].trips)
                => denies[k].time < denies[Len(denies)].time - Window

(* A breaker that is or was tripped has sent its signal. *)
Signals == {i \in DOMAIN sent : sent[i].type = "Command"}
TripIsSignalled == circuit.tripped_until # Never /\ pc # "failed" => Signals # {}
OnlyTheDeadFail == pc = "failed" => ~alive

IInv ==
    /\ Attempts /\ InOrder /\ OpenAreRequests /\ BreakerIdle /\ CountsRecent
    /\ TripIsSignalled /\ OnlyTheDeadFail
    /\ AnsweredOnce /\ NoneForgotten /\ BurstsTrip /\ EvidenceFirst

-----------------------------------------------------------------------------
(* What a send does: all of it, or the start of it when the reactor has     *)
(* ended.                                                                   *)
LEMMA SendOne ==
    ASSUME TypeOK, NEW m \in Message, SendAll(<<m>>)
    PROVE  /\ next_id' = next_id + 1
           /\ \/ alive /\ sent' = Append(sent, m) /\ pc' = "recv"
              \/ ~alive /\ sent' = sent /\ pc' = "failed"
<1>1. CASE alive
  BY <1>1 DEF SendAll, TypeOK
<1>2. CASE ~alive
  <2>1. PICK n \in 0 .. 0 : sent' = sent \o SubSeq(<<m>>, 1, n)
    BY <1>2 DEF SendAll
  <2>2. SubSeq(<<m>>, 1, 0) = <<>>
    OBVIOUS
  <2>3. QED
    BY <1>2, <2>1, <2>2 DEF SendAll, TypeOK
<1>3. QED
  BY <1>1, <1>2

LEMMA SendTwo ==
    ASSUME TypeOK, NEW m1 \in Message, NEW m2 \in Message, SendAll(<<m1, m2>>)
    PROVE  /\ next_id' = next_id + 2
           /\ \/ alive /\ sent' = Append(Append(sent, m1), m2) /\ pc' = "recv"
              \/ ~alive /\ sent' \in {sent, Append(sent, m1)} /\ pc' = "failed"
<1>1. CASE alive
  <2>1. sent \o <<m1, m2>> = Append(Append(sent, m1), m2)
    BY DEF TypeOK
  <2>2. QED
    BY <1>1, <2>1 DEF SendAll
<1>2. CASE ~alive
  <2>1. PICK n \in 0 .. 1 : sent' = sent \o SubSeq(<<m1, m2>>, 1, n)
    BY <1>2 DEF SendAll
  <2>2. SubSeq(<<m1, m2>>, 1, 0) = <<>>
    BY SubSeqEmpty
  <2>3. SubSeq(<<m1, m2>>, 1, 1) = <<m1>>
    <3>1. \A i \in 1 .. 1 : <<m1, m2>>[i] \in Message
      OBVIOUS
    <3>2. /\ SubSeq(<<m1, m2>>, 1, 1) \in Seq(Message)
          /\ Len(SubSeq(<<m1, m2>>, 1, 1)) = 1
          /\ SubSeq(<<m1, m2>>, 1, 1)[1] = <<m1, m2>>[1]
      BY <3>1, SubSeqProperties
    <3>3. <<m1>> \in Seq(Message) /\ Len(<<m1>>) = 1 /\ <<m1>>[1] = m1 /\ <<m1, m2>>[1] = m1
      OBVIOUS
    <3>4. \A i \in 1 .. 1 : SubSeq(<<m1, m2>>, 1, 1)[i] = <<m1>>[i]
      BY <3>2, <3>3
    <3>5. QED
      BY <3>2, <3>3, <3>4, SeqEqual
  <2>4. QED
    BY <1>2, <2>1, <2>2, <2>3 DEF SendAll, TypeOK
<1>3. QED
  BY <1>1, <1>2

LEMMA ResponseType ==
    ASSUME NEW r \in Nat, NEW id \in Nat,
           NEW cause \in {"tripped", "no_gate", "denied", "ok", "error"}
    PROVE  /\ Response(r, cause, id) \in Message
           /\ Signal(id) \in Message
BY DEF Response, Signal, Message

(* The denials the breaker keeps are the last ones, and the dropped ones    *)
(* are before the cutoff.                                                   *)
LEMMA KeptIsSuffix ==
    ASSUME NEW times \in Seq(Nat), NEW cutoff \in Int
    PROVE  \E first \in 1 .. Len(times) + 1 :
               /\ Kept(times, cutoff) = SubSeq(times, first, Len(times))
               /\ \A j \in 1 .. first - 1 : times[j] < cutoff
<1> DEFINE Fresh == {i \in 1 .. Len(times) + 1 : i <= Len(times) => times[i] >= cutoff}
           First(i) == /\ \A j \in 1 .. i - 1 : times[j] < cutoff
                       /\ i <= Len(times) => times[i] >= cutoff
<1>1. PICK i \in Fresh : \A m \in Fresh : i <= m
  <2>1. Len(times) + 1 \in Fresh /\ Fresh \subseteq Nat
    OBVIOUS
  <2>2. QED
    BY <2>1, LeastNatural
<1>2. i \in 1 .. Len(times) + 1 /\ First(i)
  BY <1>1
<1>3. LET first == CHOOSE k \in 1 .. Len(times) + 1 : First(k)
      IN  /\ first \in 1 .. Len(times) + 1 /\ First(first)
          /\ Kept(times, cutoff) = SubSeq(times, first, Len(times))
  BY <1>2 DEF Kept
<1>4. QED
  BY <1>3

(* The breaker stays a breaker. *)
LEMMA CircuitType ==
    ASSUME NEW c \in Circuit, NEW now \in Nat
    PROVE  /\ AfterCheck(c, now) \in Circuit
           /\ InWindow(c, now) \in Seq(Nat)
           /\ record_deny(c, now) \in Circuit
<1>1. c.deny_times \in Seq(Nat) /\ NewCircuit \in Circuit
  BY DEF Circuit, NewCircuit
<1>2. AfterCheck(c, now) \in Circuit
  BY <1>1 DEF AfterCheck
<1>3. Kept(c.deny_times, now - Window) \in Seq(Nat)
  <2>1. PICK first \in 1 .. Len(c.deny_times) + 1 :
            Kept(c.deny_times, now - Window) = SubSeq(c.deny_times, first, Len(c.deny_times))
    <3>1. now - Window \in Int
      BY CircuitAssumption
    <3>2. QED
      BY <1>1, <3>1, KeptIsSuffix, Zenon
  <2>2. SubSeq(c.deny_times, first, Len(c.deny_times)) \in Seq(Nat)
    BY <1>1, SubSeqProperties
  <2>3. QED
    BY <2>1, <2>2, Zenon
<1>4. InWindow(c, now) \in Seq(Nat)
  BY <1>3 DEF InWindow
<1>5. record_deny(c, now) \in Circuit
  BY <1>4, CircuitAssumption DEF record_deny, Circuit
<1>6. QED
  BY <1>2, <1>4, <1>5

(* The head of the broadcast and what is left of it. *)
LEMMA HeadOfEvents ==
    ASSUME TypeOK, events # <<>>
    PROVE  /\ Head(events) \in [id : Nat, kind : Kind] /\ Head(events) = events[1]
           /\ 1 \in DOMAIN events /\ Len(events) \in Nat \ {0}
           /\ Tail(events) \in Seq([id : Nat, kind : Kind])
           /\ Len(Tail(events)) = Len(events) - 1
           /\ \A i \in DOMAIN Tail(events) :
                  i + 1 \in DOMAIN events /\ Tail(events)[i] = events[i + 1]
<1> DEFINE S == [id : Nat, kind : Kind]
<1>1. events \in Seq(S)
  BY DEF TypeOK
<1>2. Len(events) \in Nat \ {0} /\ 1 \in DOMAIN events /\ DOMAIN events = 1 .. Len(events)
  BY <1>1
<1>3. Head(events) = events[1] /\ events[1] \in S
  <2>1. events[1] \in S
    BY <1>1, <1>2, ElementOfSeq
  <2>2. Head(events) = events[1]
    BY <1>1
  <2>3. QED
    BY <2>1, <2>2
<1>4. /\ Tail(events) \in Seq(S) /\ Len(Tail(events)) = Len(events) - 1
      /\ \A i \in 1 .. Len(Tail(events)) : Tail(events)[i] = events[i + 1]
  BY <1>1, HeadTailProperties
<1>5. DOMAIN Tail(events) = 1 .. Len(events) - 1
  BY <1>4
<1>6. QED
  BY <1>2, <1>3, <1>4, <1>5

(* An answer to the request r: it is sent, unless the reactor has ended. *)
Answer(r, cause) ==
    /\ next_id' = next_id + 1
    /\ \/ alive /\ sent' = Append(sent, Response(r, cause, next_id)) /\ pc' = "recv"
       \/ ~alive /\ sent' = sent /\ pc' = "failed"

(* A denial that trips: the signal and the answer, or the start of that. *)
SignalAndAnswer(r) ==
    /\ next_id' = next_id + 2
    /\ \/ /\ alive /\ pc' = "recv"
          /\ sent' = Append(Append(sent, Signal(next_id)), Response(r, "denied", next_id + 1))
       \/ ~alive /\ sent' \in {sent, Append(sent, Signal(next_id))} /\ pc' = "failed"

Cause == {"tripped", "no_gate", "denied", "ok", "error"}

LEMMA SendIsAnswer ==
    ASSUME TypeOK, NEW r \in Nat, NEW cause \in Cause,
           SendAll(<<Response(r, cause, next_id)>>)
    PROVE  Answer(r, cause)
<1>1. Response(r, cause, next_id) \in Message
  BY ResponseType DEF TypeOK, Cause
<1>2. QED
  BY <1>1, SendOne DEF Answer

(* What each way to handle a request does to the channel and the breaker. *)
RequestStep ==
    \/ HandleTripped \/ HandleUngated \/ HandleDenied \/ HandleRouteDenied \/ HandleAllowed

LEMMA RequestShape ==
    ASSUME TypeOK, RequestStep
    PROVE  LET r == Head(events).id
               c == AfterCheck(circuit, clock)
           IN  /\ pc = "recv" /\ missed = 0 /\ events # <<>> /\ Head(events).kind = "request"
               /\ events' = Tail(events) /\ UNCHANGED <<missed, lost, world, reactor>>
               /\ \/ /\ Answer(r, "tripped") /\ IsTripped(circuit, clock)
                     /\ UNCHANGED <<circuit, denies, request, attempt>>
                  \/ /\ \E cause \in {"no_gate", "denied"} : Answer(r, cause)
                     /\ ~IsTripped(circuit, clock) /\ circuit' = c
                     /\ UNCHANGED <<denies, request, attempt>>
                  \/ /\ ~IsTripped(circuit, clock) /\ circuit' = record_deny(c, clock)
                     /\ denies' = Append(denies, [time |-> clock, trips |-> Trips(c, clock)])
                     /\ IF Trips(c, clock) THEN SignalAndAnswer(r) ELSE Answer(r, "denied")
                     /\ UNCHANGED <<request, attempt>>
                  \/ /\ ~IsTripped(circuit, clock) /\ circuit' = c
                     /\ pc' = "dispatch" /\ request' = r /\ attempt' = 1
                     /\ UNCHANGED <<next_id, sent, denies>>
<1> DEFINE r == Head(events).id
           c == AfterCheck(circuit, clock)
<1>1. /\ pc = "recv" /\ missed = 0 /\ events # <<>> /\ Head(events).kind = "request"
      /\ events' = Tail(events) /\ UNCHANGED <<missed, lost, world, reactor>>
  BY DEF RequestStep, HandleTripped, HandleUngated, HandleDenied, HandleRouteDenied,
         HandleAllowed, Received, Receive
<1>2. r \in Nat
  BY <1>1, HeadOfEvents
<1>3. CASE HandleTripped
  <2>1. Answer(r, "tripped")
    BY <1>2, <1>3, SendIsAnswer DEF HandleTripped, Cause
  <2>2. QED
    BY <1>1, <1>3, <2>1 DEF HandleTripped
<1>4. CASE HandleUngated
  <2>1. Answer(r, "no_gate")
    BY <1>2, <1>4, SendIsAnswer DEF HandleUngated, Cause
  <2>2. QED
    BY <1>1, <1>4, <2>1 DEF HandleUngated
<1>5. CASE HandleDenied
  <2>1. Answer(r, "denied")
    BY <1>2, <1>5, SendIsAnswer DEF HandleDenied, Cause
  <2>2. QED
    BY <1>1, <1>5, <2>1 DEF HandleDenied
<1>6. CASE HandleRouteDenied
  <2>1. IF Trips(c, clock) THEN SignalAndAnswer(r) ELSE Answer(r, "denied")
    <3>1. CASE Trips(c, clock)
      <4>1. SendAll(<<Signal(next_id), Response(r, "denied", next_id + 1)>>)
        BY <1>6, <3>1 DEF HandleRouteDenied, Denials
      <4>2. Signal(next_id) \in Message /\ Response(r, "denied", next_id + 1) \in Message
        BY <1>2, ResponseType DEF TypeOK
      <4>3. QED
        BY <3>1, <4>1, <4>2, SendTwo DEF SignalAndAnswer
    <3>2. CASE ~Trips(c, clock)
      <4>1. SendAll(<<Response(r, "denied", next_id)>>)
        BY <1>6, <3>2 DEF HandleRouteDenied, Denials
      <4>2. QED
        BY <1>2, <3>2, <4>1, SendIsAnswer DEF Cause
    <3>3. QED
      BY <3>1, <3>2
  <2>2. QED
    BY <1>1, <1>6, <2>1 DEF HandleRouteDenied
<1>7. CASE HandleAllowed
  BY <1>1, <1>7 DEF HandleAllowed
<1>8. QED
  BY <1>3, <1>4, <1>5, <1>6, <1>7 DEF RequestStep

(* The end of a dispatch: the request in hand is answered. *)
LEMMA DispatchShape ==
    ASSUME TypeOK, DispatchOk \/ DispatchFails
    PROVE  /\ pc = "dispatch" /\ request' = 0 /\ attempt' = 0
           /\ \E cause \in {"ok", "error"} : Answer(request, cause)
           /\ UNCHANGED <<world, reactor, channel, circuit, denies>>
<1>1. CASE DispatchOk
  BY <1>1, SendIsAnswer DEF DispatchOk, TypeOK, Cause
<1>2. CASE DispatchFails
  BY <1>2, SendIsAnswer DEF DispatchFails, TypeOK, Cause
<1>3. QED
  BY <1>1, <1>2

(* An answer keeps the type of the command channel and of the task. *)
LEMMA AnswerType ==
    ASSUME TypeOK, NEW r \in Nat, NEW cause \in Cause,
           Answer(r, cause) \/ SignalAndAnswer(r)
    PROVE  /\ sent' \in Seq(Message) /\ Len(sent) <= Len(sent') /\ Len(sent') \in Nat
           /\ next_id' \in Nat /\ pc' \in {"recv", "failed"}
<1>1. Signal(next_id) \in Message /\ Response(r, cause, next_id) \in Message
      /\ Response(r, "denied", next_id + 1) \in Message
  BY ResponseType DEF TypeOK, Cause
<1>2. sent \in Seq(Message) /\ next_id \in Nat
  BY DEF TypeOK
<1>3. CASE Answer(r, cause)
  BY <1>1, <1>2, <1>3, SMTT(60) DEF Answer
<1>4. CASE SignalAndAnswer(r)
  BY <1>1, <1>2, <1>4, SMTT(60) DEF SignalAndAnswer
<1>5. QED
  BY <1>3, <1>4

LEMMA AttemptsStep ==
    ASSUME Attempts, [Next]_vars
    PROVE  Attempts'
<1> USE SubscriberAssumption DEF Attempts
<1>1. CASE RequestStep
  <2> DEFINE r == Head(events).id
             c == AfterCheck(circuit, clock)
  <2>1. /\ r \in Nat /\ events' \in Seq([id : Nat, kind : Kind])
        /\ UNCHANGED <<missed, lost, world, reactor>>
    BY <1>1, RequestShape, HeadOfEvents
  <2>2. circuit' \in Circuit
    BY <1>1, RequestShape, CircuitType, ZenonT(60) DEF TypeOK
  <2>3. denies' \in Seq([time : Nat, trips : BOOLEAN])
    <3> DEFINE d == [time |-> clock, trips |-> Trips(c, clock)]
    <3>1. Trips(c, clock) \in BOOLEAN
      BY DEF Trips
    <3>2. d \in [time : Nat, trips : BOOLEAN]
      BY <3>1 DEF TypeOK
    <3>3. denies' \in {denies, Append(denies, d)}
      BY <1>1 DEF RequestStep, HandleTripped, HandleUngated, HandleDenied,
                  HandleRouteDenied, HandleAllowed
    <3> HIDE DEF d
    <3>4. denies \in Seq([time : Nat, trips : BOOLEAN])
      BY DEF TypeOK
    <3>5. Append(denies, d) \in Seq([time : Nat, trips : BOOLEAN])
      BY <3>2, <3>4, AppendProperties
    <3>6. QED
      BY <3>3, <3>4, <3>5, Zenon
  <2>4. CASE /\ pc' = "dispatch" /\ request' = r /\ attempt' = 1
             /\ UNCHANGED <<next_id, sent>>
    BY <2>1, <2>2, <2>3, <2>4 DEF TypeOK, world, reactor
  <2>5. CASE /\ (\E cause \in Cause : Answer(r, cause)) \/ SignalAndAnswer(r)
             /\ UNCHANGED <<request, attempt>>
    <3>1. /\ sent' \in Seq(Message) /\ Len(sent) <= Len(sent') /\ Len(sent') \in Nat
          /\ next_id' \in Nat /\ pc' \in {"recv", "failed"}
      BY <2>1, <2>5, AnswerType DEF Cause
    <3>2. QED
      BY <2>1, <2>2, <2>3, <2>5, <3>1 DEF TypeOK, world, reactor
  <2>6. QED
    BY <1>1, <2>4, <2>5, RequestShape DEF Cause
<1>2. CASE DispatchOk \/ DispatchFails
  <2>1. PICK cause \in {"ok", "error"} : Answer(request, cause)
    BY <1>2, DispatchShape
  <2>2. /\ sent' \in Seq(Message) /\ Len(sent) <= Len(sent') /\ Len(sent') \in Nat
        /\ next_id' \in Nat /\ pc' \in {"recv", "failed"}
    BY <2>1, AnswerType DEF Cause, TypeOK
  <2>3. /\ request' = 0 /\ attempt' = 0
        /\ UNCHANGED <<world, reactor, channel, circuit, denies>>
    BY <1>2, DispatchShape, Zenon
  <2>4. QED
    BY <2>2, <2>3 DEF TypeOK, world, reactor, channel
<1>3. CASE DispatchRetry
  BY <1>3 DEF DispatchRetry, MayRetry, TypeOK, world, reactor, channel
<1>4. CASE Backoff
  BY <1>4 DEF Backoff, TypeOK, world, reactor, channel
<1>5. CASE RecvLagged
  BY <1>5 DEF RecvLagged, TypeOK, world, reactor, task
<1>6. CASE RecvClosed
  BY <1>6 DEF RecvClosed, TypeOK, world, reactor, channel
<1>7. CASE HandleIgnored
  <2>1. Tail(events) \in Seq([id : Nat, kind : Kind])
    BY <1>7, HeadOfEvents DEF HandleIgnored, Received
  <2>2. QED
    BY <1>7, <2>1 DEF HandleIgnored, Receive, TypeOK, world, reactor, task
<1>8. ASSUME NEW kind \in Kinds, Emit(kind)
      PROVE  Attempts'
  <2> DEFINE f == [id |-> emitted + 1, kind |-> kind]
  <2>1. f \in [id : Nat, kind : Kind] /\ f.id \in Nat
    BY <1>8 DEF TypeOK
  <2> HIDE DEF f
  <2>2. /\ emitted' = f.id /\ open' \in {open, open \cup {f.id}}
        /\ UNCHANGED <<world, alive, taken, task>>
    BY <1>8 DEF Emit, f
  <2>3. CASE Len(events) < Capacity
    <3>1. events' = Append(events, f) /\ UNCHANGED <<missed, lost>>
      BY <1>8, <2>3 DEF Emit, f
    <3>2. QED
      BY <2>1, <2>2, <3>1 DEF TypeOK, world, task
  <2>4. CASE ~(Len(events) < Capacity)
    <3>1. events # <<>>
      BY <2>4 DEF TypeOK
    <3>2. Append(Tail(events), f) \in Seq([id : Nat, kind : Kind])
      BY <2>1, <3>1, HeadOfEvents
    <3>3. lost' \subseteq Nat
      BY <1>8, <2>4, <3>1, HeadOfEvents, ZenonT(60) DEF Emit, TypeOK
    <3>4. events' = Append(Tail(events), f) /\ missed' = missed + 1
      BY <1>8, <2>4 DEF Emit, f
    <3>5. QED
      BY <2>1, <2>2, <3>2, <3>3, <3>4 DEF TypeOK, world, task
  <2>5. QED
    BY <2>3, <2>4
<1>9. CASE Take
  <2>1. open' \subseteq open /\ taken' = taken + 1 /\ taken < Len(sent)
    BY <1>9 DEF Take
  <2>2. UNCHANGED <<world, alive, emitted, channel, task>>
    BY <1>9 DEF Take
  <2>3. QED
    BY <2>1, <2>2 DEF TypeOK, world, channel, task
<1>10. CASE Abandon
  BY <1>10 DEF Abandon, TypeOK, world, channel, task
<1>11. CASE Exit
  BY <1>11 DEF Exit, TypeOK, world, channel, task
<1>12. CASE Tick
  BY <1>12 DEF Tick, TypeOK, reactor, channel, task
<1>13. CASE UNCHANGED vars
  BY <1>13 DEF vars, world, reactor, channel, task, TypeOK
<1>14. QED
  BY <1>1, <1>2, <1>3, <1>4, <1>5, <1>6, <1>7, <1>8, <1>9, <1>10, <1>11, <1>12, <1>13
     DEF Next, Subscriber, ReactorSide, RequestStep

-----------------------------------------------------------------------------
(* What an answer adds to the command channel: the response, as its last    *)
(* message, unless the reactor has ended.                                   *)
Grows(r) ==
    /\ \A i \in DOMAIN sent : i \in DOMAIN sent' /\ sent'[i] = sent[i]
    /\ \A i \in DOMAIN sent' : IsResponse(sent'[i]) =>
          \/ i \in DOMAIN sent /\ sent'[i] = sent[i]
          \/ i = Len(sent') /\ i \notin DOMAIN sent /\ sent'[i].request_id = r
    /\ alive => /\ Len(sent') \in DOMAIN sent'
                /\ IsResponse(sent'[Len(sent')]) /\ sent'[Len(sent')].request_id = r

LEMMA AnswerGrows ==
    ASSUME TypeOK, NEW r \in Nat, NEW cause \in Cause,
           Answer(r, cause) \/ SignalAndAnswer(r)
    PROVE  Grows(r)
<1>1. sent \in Seq(Message) /\ next_id \in Nat
  BY DEF TypeOK
<1> DEFINE m(id) == Response(r, cause, id)
           d == Response(r, "denied", next_id + 1)
           s == Signal(next_id)
<1>2. /\ s \in Message /\ ~IsResponse(s)
      /\ m(next_id) \in Message /\ IsResponse(m(next_id)) /\ m(next_id).request_id = r
      /\ d \in Message /\ IsResponse(d) /\ d.request_id = r
  <2>1. s \in Message /\ m(next_id) \in Message /\ d \in Message
    BY <1>1, ResponseType DEF Cause
  <2>2. QED
    BY <2>1 DEF IsResponse, Response, Signal
<1>3. CASE sent' = sent /\ ~alive
  BY <1>1, <1>3 DEF Grows
<1> HIDE DEF s, m, d
<1>4. CASE sent' = Append(sent, m(next_id))
  BY <1>1, <1>2, <1>4 DEF Grows
<1>5. CASE sent' = Append(sent, s) /\ ~alive
  BY <1>1, <1>2, <1>5 DEF Grows
<1>6. CASE sent' = Append(Append(sent, s), d)
  BY <1>1, <1>2, <1>6 DEF Grows
<1>7. QED
  BY <1>3, <1>4, <1>5, <1>6 DEF Answer, SignalAndAnswer, s, m, d

(* What a step of the subscriber that handles a request does, as far as the *)
(* order of requests goes.                                                  *)
LEMMA RequestOrder ==
    ASSUME TypeOK, RequestStep
    PROVE  LET r == Head(events).id
           IN  /\ r \in Nat
               /\ \/ Grows(r) /\ request' = request /\ pc' \in {"recv", "failed"}
                  \/ sent' = sent /\ request' = r /\ pc' = "dispatch"
<1> DEFINE r == Head(events).id
<1>1. events # <<>>
  BY RequestShape
<1>2. r \in Nat
  BY <1>1, HeadOfEvents
<1>3. CASE /\ (\E cause \in Cause : Answer(r, cause)) \/ SignalAndAnswer(r)
           /\ request' = request
  BY <1>2, <1>3, AnswerGrows, AnswerType DEF Cause
<1>4. QED
  BY <1>2, <1>3, RequestShape DEF Cause

(* Every other step of the task, and every step of the reactor's side that  *)
(* emits nothing.                                                           *)
QuietStep ==
    \/ RecvLagged \/ RecvClosed \/ DispatchRetry \/ Backoff
    \/ Take \/ Abandon \/ Exit \/ Tick \/ UNCHANGED vars

LEMMA QuietShape ==
    ASSUME QuietStep
    PROVE  /\ UNCHANGED <<events, sent, request, emitted, circuit, denies, lost, has_gate>>
           /\ Handling' = Handling
           /\ open' \subseteq open
           /\ (pc' = "failed") = (pc = "failed")
           /\ alive' => alive
BY DEF QuietStep, RecvLagged, RecvClosed, DispatchRetry, Backoff, Take, Abandon, Exit, Tick,
       vars, world, reactor, channel, task, Handling

LEMMA StepKinds ==
    ASSUME [Next]_vars
    PROVE  \/ RequestStep \/ DispatchOk \/ DispatchFails \/ HandleIgnored
           \/ QuietStep \/ \E kind \in Kinds : Emit(kind)
BY DEF Next, Subscriber, ReactorSide, RequestStep, QuietStep

(* The numbers the order of requests compares. *)
Numbers ==
    /\ emitted \in Nat /\ request \in Nat
    /\ Len(events) \in Nat /\ DOMAIN events = 1 .. Len(events)
    /\ Len(sent) \in Nat /\ DOMAIN sent = 1 .. Len(sent)
    /\ \A i \in DOMAIN events : events[i].id \in Nat
    /\ \A i \in DOMAIN sent : IsResponse(sent[i]) => sent[i].request_id \in Nat

LEMMA NumbersType ==
    ASSUME TypeOK
    PROVE  Numbers
<1>1. events \in Seq([id : Nat, kind : Kind]) /\ sent \in Seq(Message)
  BY DEF TypeOK
<1>2. \A e \in [id : Nat, kind : Kind] : e.id \in Nat
  OBVIOUS
<1>3. \A m \in Message : IsResponse(m) => m.request_id \in Nat
  BY DEF Message, IsResponse
<1>4. QED
  <2>1. Len(events) \in Nat /\ DOMAIN events = 1 .. Len(events)
    BY <1>1
  <2>2. Len(sent) \in Nat /\ DOMAIN sent = 1 .. Len(sent)
    BY <1>1
  <2>3. \A i \in DOMAIN events : events[i] \in [id : Nat, kind : Kind]
    BY <1>1, <2>1, ElementOfSeq
  <2>4. \A i \in DOMAIN sent : sent[i] \in Message
    BY <1>1, <2>2, ElementOfSeq
  <2>5. emitted \in Nat /\ request \in Nat
    BY DEF TypeOK
  <2>6. QED
    BY <1>2, <1>3, <2>1, <2>2, <2>3, <2>4, <2>5 DEF Numbers

(* The broadcast after a fact is emitted: what it held, without its oldest  *)
(* fact when it was full, and the new fact.                                 *)
EmittedAfter(n, o, kind) ==
    /\ DOMAIN events' = 1 .. n + 1
    /\ events'[n + 1].id = emitted + 1 /\ events'[n + 1].kind = kind
    /\ \A i \in 1 .. n : i + o \in DOMAIN events /\ events'[i] = events[i + o]
    /\ \A i \in DOMAIN events : i > o => i - o \in 1 .. n
    /\ lost \subseteq lost'
    /\ 1 \in DOMAIN events /\ o = 1 /\ events[1].kind = "request" => events[1].id \in lost'

Emitted(kind) == \E n \in Nat, o \in 0 .. 1 : EmittedAfter(n, o, kind)

LEMMA EmitShape ==
    ASSUME TypeOK, NEW kind \in Kinds, Emit(kind)
    PROVE  Emitted(kind)
<1> DEFINE f == [id |-> emitted + 1, kind |-> kind]
           S == [id : Nat, kind : Kind]
<1>1. f \in S /\ f.id = emitted + 1 /\ f.kind = kind
  BY SubscriberAssumption DEF TypeOK
<1>2. CASE Len(events) < Capacity
  <2>1. events' = Append(events, f) /\ lost' = lost /\ events \in Seq(S)
    BY <1>2 DEF Emit, TypeOK
  <2> HIDE DEF f
  <2>2. EmittedAfter(Len(events), 0, kind) /\ Len(events) \in Nat /\ 0 \in 0 .. 1
    BY <1>1, <2>1 DEF EmittedAfter
  <2>3. QED
    BY <2>2, Zenon DEF Emitted
<1>3. CASE ~(Len(events) < Capacity)
  <2>1. events # <<>>
    BY <1>3, SubscriberAssumption DEF TypeOK
  <2> DEFINE t == Tail(events)
  <2>2. /\ t \in Seq(S) /\ Len(t) = Len(events) - 1 /\ DOMAIN events = 1 .. Len(events)
        /\ \A i \in DOMAIN t : i + 1 \in DOMAIN events /\ t[i] = events[i + 1]
        /\ Head(events) = events[1] /\ Len(events) \in Nat \ {0}
    BY <2>1, HeadOfEvents DEF TypeOK
  <2>3. /\ events' = Append(t, f)
        /\ lost' = IF Head(events).kind = "request" THEN lost \cup {Head(events).id} ELSE lost
    BY <1>3 DEF Emit
  <2> HIDE DEF f, t
  <2>4. /\ DOMAIN events' = 1 .. Len(t) + 1 /\ events'[Len(t) + 1] = f /\ Len(t) \in Nat
        /\ \A i \in 1 .. Len(t) : i \in DOMAIN t /\ events'[i] = t[i]
    BY <2>2, <2>3
  <2>5. \A i \in DOMAIN events : i > 1 => i - 1 \in 1 .. Len(t)
    BY <2>2
  <2>6. EmittedAfter(Len(t), 1, kind) /\ 1 \in 0 .. 1
    BY <1>1, <2>2, <2>3, <2>4, <2>5 DEF EmittedAfter
  <2>7. QED
    BY <2>4, <2>6, Zenon DEF Emitted
<1>4. QED
  BY <1>2, <1>3

LEMMA OrderStep ==
    ASSUME TypeOK, Numbers', InOrder, AnsweredOnce, [Next]_vars
    PROVE  InOrder' /\ AnsweredOnce'
<1>0. Numbers
  BY NumbersType
<1>1. CASE RequestStep
  <2> DEFINE r == Head(events).id
  <2>1. /\ events # <<>> /\ pc = "recv" /\ events' = Tail(events) /\ emitted' = emitted
    BY <1>1, RequestShape DEF reactor
  <2>2. /\ r = events[1].id /\ 1 \in DOMAIN events /\ r \in Nat
        /\ \A i \in DOMAIN events' : i + 1 \in DOMAIN events /\ events'[i] = events[i + 1]
    BY <2>1, HeadOfEvents
  <2>3. /\ \A i \in DOMAIN events' : events'[i].id \in 1 .. emitted'
        /\ \A i, j \in DOMAIN events' : i < j => events'[i].id < events'[j].id
        /\ \A i \in DOMAIN events' : r < events'[i].id /\ request < events'[i].id
        /\ r \in 1 .. emitted /\ request = 0
        /\ \A i \in DOMAIN sent : IsResponse(sent[i]) => sent[i].request_id < r
    BY <1>0, <2>1, <2>2, SMTT(60) DEF InOrder, Numbers, Handling
  <2> HIDE DEF r
  <2>4. CASE sent' = sent /\ request' = r /\ pc' = "dispatch"
    BY <1>0, <2>1, <2>3, <2>4 DEF InOrder, AnsweredOnce, Numbers, Handling
  <2>5. CASE Grows(r) /\ request' = request /\ pc' \in {"recv", "failed"}
    <3>1. \A i \in DOMAIN sent' : IsResponse(sent'[i]) => sent'[i].request_id <= r
      BY <1>0, <2>2, <2>3, <2>5 DEF Grows, Numbers
    <3>2. InOrder'
      BY <1>0, <2>1, <2>3, <2>5, <3>1, SMTT(60) DEF InOrder, Numbers, Handling
    <3>3. AnsweredOnce'
      BY <1>0, <2>2, <2>3, <2>5, SMTT(60) DEF AnsweredOnce, Grows, IsResponse, Numbers
    <3>4. QED
      BY <3>2, <3>3
  <2>6. QED
    BY <1>1, <2>4, <2>5, RequestOrder DEF r
<1>2. CASE DispatchOk \/ DispatchFails
  <2>1. /\ pc = "dispatch" /\ request' = 0 /\ pc' \in {"recv", "failed"}
        /\ UNCHANGED <<events, emitted>>
    BY <1>2, DispatchShape DEF Answer, channel, reactor
  <2>2. Grows(request)
    BY <1>2, DispatchShape, AnswerGrows DEF Cause, TypeOK
  <2>3. \A i \in DOMAIN sent : IsResponse(sent[i]) => sent[i].request_id < request
    BY <2>1 DEF InOrder, Handling
  <2>4. \A i \in DOMAIN sent' : IsResponse(sent'[i]) => sent'[i].request_id <= request
    BY <1>0, <2>2, <2>3 DEF Grows, Numbers
  <2>5. InOrder'
    BY <1>0, <2>1, <2>4 DEF InOrder, Numbers, Handling
  <2>6. AnsweredOnce'
    BY <1>0, <2>2, <2>3, SMTT(60) DEF AnsweredOnce, Grows, IsResponse, Numbers
  <2>7. QED
    BY <2>5, <2>6
<1>3. CASE HandleIgnored
  <2>1. events # <<>> /\ events' = Tail(events) /\ UNCHANGED <<emitted, sent, request, pc>>
    BY <1>3 DEF HandleIgnored, Received, Receive, reactor, task
  <2>2. \A i \in DOMAIN events' : i + 1 \in DOMAIN events /\ events'[i] = events[i + 1]
    BY <2>1, HeadOfEvents
  <2>3. QED
    BY <1>0, <2>1, <2>2, SMTT(60) DEF InOrder, AnsweredOnce, Handling, Numbers
<1>4. CASE QuietStep
  BY <1>4, QuietShape DEF InOrder, AnsweredOnce
<1>5. ASSUME NEW kind \in Kinds, Emit(kind)
      PROVE  InOrder' /\ AnsweredOnce'
  <2>1. emitted' = emitted + 1 /\ UNCHANGED <<sent, request, pc>>
    BY <1>5 DEF Emit, task
  <2>2. Emitted(kind)
    BY <1>5, EmitShape
  <2>3. PICK n \in Nat, o \in 0 .. 1 : EmittedAfter(n, o, kind)
    BY <2>2 DEF Emitted
  <2>4. /\ DOMAIN events' = 1 .. n + 1 /\ events'[n + 1].id = emitted + 1
        /\ \A i \in 1 .. n : i + o \in DOMAIN events /\ events'[i] = events[i + o]
    BY <2>3 DEF EmittedAfter
  <2>5. \A i \in 1 .. n : events'[i].id \in 1 .. emitted /\ request < events'[i].id
    BY <2>4 DEF InOrder
  <2>6. \A i, j \in 1 .. n : i < j => events'[i].id < events'[j].id
    <3>1. TAKE i, j \in 1 .. n
    <3>2. /\ i + o \in DOMAIN events /\ events'[i] = events[i + o]
          /\ j + o \in DOMAIN events /\ events'[j] = events[j + o]
          /\ i < j => i + o < j + o
      BY <2>3, <2>4
    <3>3. QED
      BY <3>2 DEF InOrder
  <2>7. \A i \in DOMAIN sent, j \in 1 .. n :
            IsResponse(sent[i]) => sent[i].request_id < events'[j].id
    BY <2>4 DEF InOrder
  <2>8. InOrder'
    <3>1. \A i \in DOMAIN events' : events'[i].id \in 1 .. emitted' /\ request' < events'[i].id
      BY <1>0, <2>1, <2>4, <2>5 DEF InOrder, Numbers
    <3>2. \A i, j \in DOMAIN events' : i < j => events'[i].id < events'[j].id
      <4>1. TAKE i, j \in DOMAIN events'
      <4>2. CASE j = n + 1
        <5>1. i < j => i \in 1 .. n
          BY <2>4, <4>2
        <5>2. events'[j].id = emitted + 1 /\ emitted \in Nat
          BY <1>0, <2>1, <2>4, <4>2 DEF Numbers
        <5>3. QED
          BY <2>5, <5>1, <5>2
      <4>3. CASE j # n + 1
        <5>1. i < j => i \in 1 .. n /\ j \in 1 .. n
          BY <2>4, <4>3
        <5>2. QED
          BY <2>6, <5>1
      <4>4. QED
        BY <4>2, <4>3
    <3>3. \A i \in DOMAIN sent', j \in DOMAIN events' :
              IsResponse(sent'[i]) => sent'[i].request_id < events'[j].id
      <4>1. TAKE i \in DOMAIN sent', j \in DOMAIN events'
      <4>2. CASE j = n + 1
        <5>1. events'[j].id = emitted + 1 /\ emitted \in Nat
          BY <1>0, <2>1, <2>4, <4>2 DEF Numbers
        <5>2. IsResponse(sent[i]) => sent[i].request_id \in Nat /\ sent[i].request_id <= emitted
          BY <1>0, <2>1 DEF InOrder, Numbers
        <5>3. QED
          BY <2>1, <5>1, <5>2
      <4>3. CASE j # n + 1
        BY <2>1, <2>4, <2>7, <4>3
      <4>4. QED
        BY <4>2, <4>3
    <3>4. QED
      BY <1>0, <2>1, <3>1, <3>2, <3>3 DEF InOrder, Handling, Numbers
  <2>9. AnsweredOnce'
    BY <2>1 DEF AnsweredOnce
  <2>10. QED
    BY <2>8, <2>9
<1>6. QED
  BY <1>1, <1>2, <1>3, <1>4, <1>5, StepKinds

-----------------------------------------------------------------------------
(* A request that is answered stays answered, and the new answer counts. *)
AnsweredNext(q) == \E i \in DOMAIN sent' : IsResponse(sent'[i]) /\ sent'[i].request_id = q
QueuedNext(q) == \E i \in DOMAIN events' : events'[i].id = q

LEMMA AnsweredGrows ==
    ASSUME NEW r, Grows(r) \/ sent' = sent
    PROVE  /\ \A q : Answered(q) => AnsweredNext(q)
           /\ alive /\ Grows(r) => AnsweredNext(r)
BY DEF Grows, Answered, AnsweredNext, IsResponse

LEMMA NoneForgottenNext ==
    ASSUME alive' => \A q \in open' : \/ QueuedNext(q) \/ q \in lost' \/ q = request'
                                     \/ AnsweredNext(q)
    PROVE  NoneForgotten'
BY DEF NoneForgotten, QueuedNext, AnsweredNext, Queued, Answered, IsResponse

(* No step forgets a request. *)
LEMMA OpenStep ==
    ASSUME TypeOK, Numbers', InOrder, OpenAreRequests, NoneForgotten, [Next]_vars
    PROVE  OpenAreRequests' /\ NoneForgotten'
<1>0. Numbers
  BY NumbersType
<1>1. CASE RequestStep
  <2> DEFINE r == Head(events).id
  <2>1. /\ events # <<>> /\ pc = "recv" /\ events' = Tail(events)
        /\ UNCHANGED <<emitted, open, lost, alive>>
    BY <1>1, RequestShape DEF reactor
  <2>2. /\ r = events[1].id /\ 1 \in DOMAIN events /\ r \in Nat
        /\ \A i \in DOMAIN events' : i + 1 \in DOMAIN events /\ events'[i] = events[i + 1]
        /\ DOMAIN events' = 1 .. Len(events) - 1
    BY <2>1, HeadOfEvents, <1>0 DEF Numbers
  <2>3. OpenAreRequests'
    BY <2>1, <2>2 DEF OpenAreRequests
  <2>4. \A q \in open : Queued(q) => q = r \/ QueuedNext(q)
    <3>1. SUFFICES ASSUME NEW q \in open, NEW i \in DOMAIN events, events[i].id = q, q # r
                   PROVE  \E j \in DOMAIN events' : events'[j].id = q
      BY DEF Queued, QueuedNext
    <3>2. i # 1 /\ i \in 1 .. Len(events)
      BY <1>0, <2>2, <3>1 DEF Numbers
    <3>3. i - 1 \in DOMAIN events' /\ (i - 1) + 1 = i
      BY <2>2, <3>2
    <3>4. events'[i - 1] = events[i]
      BY <2>2, <3>3
    <3>5. QED
      BY <3>1, <3>3, <3>4
  <2>5. request = 0
    BY <1>0, <2>1 DEF InOrder, Handling, Numbers
  <2>6. 0 \notin open
    BY DEF OpenAreRequests
  <2> HIDE DEF r
  <2>7. CASE sent' = sent /\ request' = r
    <3>1. \A q : Answered(q) => AnsweredNext(q)
      BY <2>7, AnsweredGrows
    <3>2. NoneForgotten'
      BY <2>1, <2>4, <2>5, <2>6, <2>7, <3>1, NoneForgottenNext DEF NoneForgotten
    <3>3. QED
      BY <2>3, <3>2
  <2>8. CASE Grows(r) /\ request' = request
    <3>1. (alive => AnsweredNext(r)) /\ \A q : Answered(q) => AnsweredNext(q)
      BY <2>8, AnsweredGrows
    <3>2. NoneForgotten'
      BY <2>1, <2>4, <2>8, <3>1, NoneForgottenNext DEF NoneForgotten
    <3>3. QED
      BY <2>3, <3>2
  <2>9. QED
    BY <1>1, <2>3, <2>7, <2>8, RequestOrder DEF r
<1>2. CASE DispatchOk \/ DispatchFails
  <2>1. UNCHANGED <<events, emitted, open, lost, alive>>
    BY <1>2, DispatchShape DEF channel, reactor
  <2>2. Grows(request)
    BY <1>2, DispatchShape, AnswerGrows DEF Cause, TypeOK
  <2>3. (alive => AnsweredNext(request)) /\ \A q : Answered(q) => AnsweredNext(q)
    BY <2>2, AnsweredGrows
  <2>4. NoneForgotten'
    BY <2>1, <2>3, NoneForgottenNext DEF NoneForgotten, Queued, QueuedNext
  <2>5. QED
    BY <2>1, <2>4 DEF OpenAreRequests
<1>3. CASE HandleIgnored
  <2>1. /\ events # <<>> /\ events' = Tail(events) /\ Head(events).kind # "request"
        /\ UNCHANGED <<emitted, sent, request, open, lost, alive>>
    BY <1>3 DEF HandleIgnored, Received, Receive, reactor, task
  <2>2. /\ \A i \in DOMAIN events' : i + 1 \in DOMAIN events /\ events'[i] = events[i + 1]
        /\ DOMAIN events' = 1 .. Len(events) - 1
        /\ 1 \in DOMAIN events /\ Head(events) = events[1]
    BY <2>1, HeadOfEvents, <1>0 DEF Numbers
  <2>3. \A q \in open : Queued(q) => QueuedNext(q)
    <3>1. SUFFICES ASSUME NEW q \in open, NEW i \in DOMAIN events, events[i].id = q
                   PROVE  \E j \in DOMAIN events' : events'[j].id = q
      BY DEF Queued, QueuedNext
    <3>2. i # 1 /\ i \in 1 .. Len(events)
      BY <1>0, <2>1, <2>2, <3>1 DEF Numbers, OpenAreRequests
    <3>3. i - 1 \in DOMAIN events' /\ (i - 1) + 1 = i
      BY <2>2, <3>2
    <3>4. events'[i - 1] = events[i]
      BY <2>2, <3>3
    <3>5. QED
      BY <3>1, <3>3, <3>4
  <2>4. \A q : Answered(q) => AnsweredNext(q)
    BY <2>1, AnsweredGrows
  <2>5. NoneForgotten'
    BY <2>1, <2>3, <2>4, NoneForgottenNext DEF NoneForgotten
  <2>6. QED
    BY <2>1, <2>2, <2>5 DEF OpenAreRequests
<1>4. CASE QuietStep
  BY <1>4, QuietShape, ZenonT(60) DEF OpenAreRequests, NoneForgotten, Answered, Queued
<1>5. ASSUME NEW kind \in Kinds, Emit(kind)
      PROVE  OpenAreRequests' /\ NoneForgotten'
  <2>1. /\ emitted' = emitted + 1 /\ UNCHANGED <<sent, request, alive>>
        /\ open' = IF kind = "request" THEN open \cup {emitted + 1} ELSE open
    BY <1>5 DEF Emit, task
  <2>2. PICK n \in Nat, o \in 0 .. 1 : EmittedAfter(n, o, kind)
    BY <1>5, EmitShape DEF Emitted
  <2>3. OpenAreRequests'
    <3>1. open' \subseteq 1 .. emitted'
      <4>1. open \subseteq 1 .. emitted /\ emitted \in Nat
        BY <1>0 DEF OpenAreRequests, Numbers
      <4>2. QED
        BY <2>1, <4>1
    <3>2. ASSUME NEW i \in DOMAIN events', events'[i].id \in open'
          PROVE  events'[i].kind = "request"
      <4>1. CASE i = n + 1
        BY <1>0, <2>1, <2>2, <3>2, <4>1 DEF EmittedAfter, OpenAreRequests, Numbers
      <4>2. CASE i # n + 1
        <5>1. i + o \in DOMAIN events /\ events'[i] = events[i + o]
          BY <2>2, <4>2 DEF EmittedAfter
        <5>2. events[i + o].id # emitted + 1
          BY <1>0, <5>1, SMTT(60) DEF InOrder, Numbers
        <5>3. QED
          BY <2>1, <3>2, <5>1, <5>2 DEF OpenAreRequests
      <4>3. QED
        BY <4>1, <4>2
    <3>3. QED
      BY <3>1, <3>2 DEF OpenAreRequests
  <2>4. \A q \in open : Queued(q) => QueuedNext(q) \/ q \in lost'
    <3>1. SUFFICES ASSUME NEW q \in open, NEW i \in DOMAIN events, events[i].id = q,
                          q \notin lost'
                   PROVE  \E j \in DOMAIN events' : events'[j].id = q
      BY DEF Queued, QueuedNext
    <3>2. i > o
      <4>1. CASE o = 0
        BY <1>0, <4>1 DEF Numbers
      <4>2. CASE o = 1
        BY <1>0, <2>2, <3>1, <4>2 DEF EmittedAfter, OpenAreRequests, Numbers
      <4>3. QED
        BY <4>1, <4>2
    <3>3. i - o \in DOMAIN events' /\ i - o \in 1 .. n /\ (i - o) + o = i
      BY <1>0, <2>2, <3>2, SMTT(60) DEF EmittedAfter, Numbers
    <3>4. events'[i - o] = events[i]
      BY <2>2, <3>3 DEF EmittedAfter
    <3>5. QED
      BY <3>1, <3>3, <3>4
  <2>5. QueuedNext(emitted + 1)
    BY <1>0, <2>2 DEF EmittedAfter, QueuedNext, Numbers
  <2>6. lost \subseteq lost'
    BY <2>2 DEF EmittedAfter
  <2>7. NoneForgotten'
    <3>1. \A q : Answered(q) => AnsweredNext(q)
      BY <2>1, AnsweredGrows
    <3>2. QED
      BY <2>1, <2>4, <2>5, <2>6, <3>1, NoneForgottenNext DEF NoneForgotten
  <2>8. QED
    BY <2>3, <2>7
<1>6. QED
  BY <1>1, <1>2, <1>3, <1>4, <1>5, StepKinds

-----------------------------------------------------------------------------
(* A request that the breaker lets through finds it untripped afterwards,   *)
(* with the denials it counted before.                                      *)
LEMMA AfterCheckIdle ==
    ASSUME TypeOK, BreakerIdle, ~IsTripped(circuit, clock)
    PROVE  /\ AfterCheck(circuit, clock).tripped_until = Never
           /\ AfterCheck(circuit, clock).deny_times = circuit.deny_times
BY DEF TypeOK, BreakerIdle, IsTripped, AfterCheck, Circuit, NewCircuit, Never

LEMMA BreakerStep ==
    ASSUME TypeOK, BreakerIdle, [Next]_vars
    PROVE  BreakerIdle'
<1>1. CASE RequestStep
  <2> DEFINE r == Head(events).id
             c == AfterCheck(circuit, clock)
  <2>1. CASE UNCHANGED circuit /\ pc' \in {"recv", "failed"}
    BY <2>1 DEF BreakerIdle, Handling
  <2>2. CASE ~IsTripped(circuit, clock) /\ circuit' = c
    BY <2>2, AfterCheckIdle DEF BreakerIdle
  <2>3. CASE /\ ~IsTripped(circuit, clock) /\ circuit' = record_deny(c, clock)
             /\ pc' \in {"recv", "failed"}
    <3>1. c.tripped_until = Never /\ c \in Circuit
      BY <2>3, AfterCheckIdle, CircuitType DEF TypeOK
    <3> HIDE DEF c
    <3>2. \/ circuit'.tripped_until = Never
          \/ circuit'.deny_times = <<>>
      BY <2>3, <3>1 DEF record_deny, Circuit
    <3>3. QED
      BY <2>3, <3>2 DEF BreakerIdle, Handling
  <2>4. r \in Nat
    BY <1>1, RequestOrder
  <2>5. \A cause : Answer(r, cause) \/ SignalAndAnswer(r) => pc' \in {"recv", "failed"}
    BY DEF Answer, SignalAndAnswer
  <2>6. QED
    BY <1>1, <2>1, <2>2, <2>3, <2>5, RequestShape
<1>2. CASE DispatchOk \/ DispatchFails
  <2>1. UNCHANGED circuit /\ pc' \in {"recv", "failed"}
    BY <1>2, DispatchShape DEF Answer
  <2>2. QED
    BY <2>1 DEF BreakerIdle, Handling
<1>3. CASE HandleIgnored
  BY <1>3 DEF HandleIgnored, task, BreakerIdle, Handling
<1>4. CASE QuietStep
  BY <1>4, QuietShape DEF BreakerIdle
<1>5. ASSUME NEW kind \in Kinds, Emit(kind)
      PROVE  BreakerIdle'
  BY <1>5 DEF Emit, task, BreakerIdle, Handling
<1>6. QED
  BY <1>1, <1>2, <1>3, <1>4, <1>5, StepKinds

(* A denial in the history. *)
Denial == [time : Nat, trips : BOOLEAN]

(* A step that counts no denial leaves the history and the count alone. *)
LEMMA CountKept ==
    ASSUME TypeOK, BreakerIdle, CountsRecent, BurstsTrip,
           clock' \in Nat, clock <= clock', denies' = denies,
           circuit'.deny_times = circuit.deny_times
    PROVE  CountsRecent' /\ BurstsTrip'
<1>1. clock \in Nat /\ denies \in Seq(Denial) /\ \A d \in Denial : d.time \in Nat
  BY DEF TypeOK, Denial
<1>2. \A i \in DOMAIN denies : denies[i].time \in Nat /\ denies[i].time <= clock'
  <2>1. TAKE i \in DOMAIN denies
  <2>2. denies[i] \in Denial
    BY <1>1
  <2>3. QED
    BY <1>1, <2>2 DEF CountsRecent
<1>3. Forgotten' = Forgotten
  BY DEF Forgotten
<1>4. CountsRecent'
  BY <1>2, <1>3 DEF CountsRecent
<1>5. BurstsTrip'
  BY DEF BurstsTrip
<1>6. QED
  BY <1>4, <1>5

(* The arithmetic of a new denial, the last of N + 1: when those before F   *)
(* were out of the window and those up to G now are, all up to G are, and   *)
(* fewer than L are left to make a burst.                                   *)
LEMMA Recount ==
    ASSUME NEW N \in Nat, NEW T \in [1 .. N + 1 -> Nat], NEW B \in [1 .. N + 1 -> BOOLEAN],
           NEW F \in 0 .. N, NEW G \in F .. N, NEW W \in Nat, NEW L \in Nat,
           \A i \in 1 .. N : T[i] <= T[N + 1],
           \A k \in 1 .. F : (\A l \in k .. N : ~B[l]) => T[k] < T[N] - W,
           \A k \in F + 1 .. G : T[k] < T[N + 1] - W,
           N + 1 - G < L
    PROVE  /\ \A k \in 1 .. G : (\A l \in k .. N + 1 : ~B[l]) => T[k] < T[N + 1] - W
           /\ \A i \in 1 .. N + 1 :
                 T[N + 1] - T[i] <= W /\ (\A k \in i .. N + 1 : ~B[k]) => N + 1 - i + 1 < L
<1>1. ASSUME NEW k \in 1 .. G, \A l \in k .. N + 1 : ~B[l]
      PROVE  T[k] < T[N + 1] - W
  <2>1. CASE k \in 1 .. F
    <3>1. \A l \in k .. N : ~B[l]
      BY <1>1
    <3>2. T[k] < T[N] - W /\ N \in 1 .. N
      BY <2>1, <3>1
    <3>3. T[k] \in Nat /\ T[N] \in Nat /\ T[N + 1] \in Nat /\ T[N] <= T[N + 1]
      BY <3>2
    <3>4. QED
      BY <3>2, <3>3
  <2>2. CASE k \in F + 1 .. G
    BY <2>2
  <2>3. QED
    BY <2>1, <2>2
<1>2. ASSUME NEW i \in 1 .. N + 1, T[N + 1] - T[i] <= W, \A k \in i .. N + 1 : ~B[k]
      PROVE  N + 1 - i + 1 < L
  <2>1. T[i] \in Nat /\ T[N + 1] \in Nat
    OBVIOUS
  <2>2. i \notin 1 .. G
    BY <1>1, <1>2, <2>1
  <2>3. QED
    BY <2>2
<1>3. QED
  BY <1>1, <1>2

(* A denial that counts: what tripped the breaker is forgotten, what did    *)
(* not is counted with the denials still in the window.                     *)
LEMMA CountDenial ==
    ASSUME TypeOK, TypeOK', BreakerIdle, CountsRecent, BurstsTrip, Threshold > 0,
           NEW c \in Circuit, c.deny_times = circuit.deny_times, c.tripped_until = Never,
           circuit' = record_deny(c, clock), clock' = clock,
           NEW d \in Denial, d.time = clock, Trips(c, clock) => d.trips,
           denies' = Append(denies, d)
    PROVE  CountsRecent' /\ BurstsTrip'
<1> DEFINE N == Len(denies)
           D == circuit.deny_times
           K == Kept(D, clock - Window)
<1>1. /\ clock \in Nat /\ denies \in Seq(Denial) /\ denies' \in Seq(Denial) /\ D \in Seq(Nat)
      /\ Window \in Nat /\ Threshold \in Nat
  BY CircuitAssumption DEF TypeOK, Circuit, Denial
<1>2. \A e \in Denial : e.time \in Nat /\ e.trips \in BOOLEAN
  BY DEF Denial
<1>3. /\ N \in Nat /\ DOMAIN denies = 1 .. N /\ DOMAIN denies' = 1 .. N + 1 /\ Len(denies') = N + 1
      /\ \A i \in 1 .. N : denies'[i] = denies[i] /\ denies[i] \in Denial
      /\ denies'[N + 1] = d /\ d \in Denial
  BY <1>1
<1>4. /\ \A i \in DOMAIN denies' : denies'[i].time \in Nat /\ denies'[i].time <= clock
      /\ \A i, j \in DOMAIN denies' : i <= j => denies'[i].time <= denies'[j].time
  BY <1>1, <1>2, <1>3 DEF CountsRecent
<1>5. PICK first \in 1 .. Len(D) + 1 :
          /\ K = SubSeq(D, first, Len(D))
          /\ \A j \in 1 .. first - 1 : D[j] < clock - Window
  <2>1. clock - Window \in Int
    BY <1>1
  <2>2. QED
    BY <1>1, <2>1, KeptIsSuffix
<1> HIDE DEF N, K, D
<1>6. /\ K \in Seq(Nat) /\ Len(K) = Len(D) - first + 1
      /\ \A i \in 1 .. Len(K) : K[i] = D[first + i - 1]
  <2>1. first \in Int /\ Len(D) \in Int /\ Len(D) \in Nat
    BY <1>1
  <2>2. \A i \in first .. Len(D) : D[i] \in Nat
    BY <1>1, <2>1, ElementOfSeq
  <2>3. /\ SubSeq(D, first, Len(D)) \in Seq(Nat)
        /\ Len(SubSeq(D, first, Len(D))) = IF first <= Len(D) THEN Len(D) - first + 1 ELSE 0
        /\ \A i \in 1 .. Len(D) - first + 1 : SubSeq(D, first, Len(D))[i] = D[first + i - 1]
    BY <2>1, <2>2, SubSeqProperties
  <2>4. QED
    BY <1>5, <2>1, <2>3
<1> DEFINE T == [i \in 1 .. N + 1 |-> denies'[i].time]
           B == [i \in 1 .. N + 1 |-> denies'[i].trips]
<1>7. /\ T \in [1 .. N + 1 -> Nat] /\ B \in [1 .. N + 1 -> BOOLEAN]
      /\ \A i \in 1 .. N + 1 : T[i] = denies'[i].time /\ B[i] = denies'[i].trips
      /\ \A i \in 1 .. N : T[i] = denies[i].time /\ B[i] = denies[i].trips
      /\ \A i \in 1 .. N : T[i] <= T[N + 1]
      /\ T[N + 1] = clock /\ (Trips(c, clock) => B[N + 1])
  <2>1. \A i \in 1 .. N + 1 : denies'[i] \in Denial
    BY <1>3
  <2>2. T \in [1 .. N + 1 -> Nat] /\ B \in [1 .. N + 1 -> BOOLEAN]
    BY <1>2, <2>1
  <2>3. \A i \in 1 .. N : i \in DOMAIN denies' /\ N + 1 \in DOMAIN denies' /\ i <= N + 1
    BY <1>3
  <2>4. /\ \A i \in 1 .. N + 1 : T[i] = denies'[i].time /\ B[i] = denies'[i].trips
        /\ T[N + 1] = clock /\ (Trips(c, clock) => B[N + 1])
    BY <1>3
  <2>5. \A i \in 1 .. N : T[i] = denies[i].time /\ B[i] = denies[i].trips
    BY <1>3
  <2>6. \A i \in 1 .. N : T[i] <= T[N + 1]
    BY <1>3, <1>4, <2>3
  <2>7. QED
    BY <2>2, <2>4, <2>5, <2>6
<1> HIDE DEF T, B
<1>8. \A i, j \in 1 .. N :
          /\ i <= j /\ T[j] - T[i] <= Window
          /\ \A k \in i .. j : ~B[k]
          => j - i + 1 < Threshold
  <2>1. TAKE i, j \in 1 .. N
  <2>2. \A k \in i .. j : k \in 1 .. N
    BY <1>3
  <2>3. QED
    BY <1>3, <1>7, <2>2 DEF BurstsTrip
(* What is to be shown, in terms of T and B. *)
<1>9. ASSUME \A i \in 1 .. N + 1 :
                 T[N + 1] - T[i] <= Window /\ (\A k \in i .. N + 1 : ~B[k])
                 => N + 1 - i + 1 < Threshold
      PROVE  BurstsTrip'
  <2>1. SUFFICES ASSUME NEW i \in 1 .. N + 1, NEW j \in 1 .. N + 1, i <= j,
                        denies'[j].time - denies'[i].time <= Window,
                        \A k \in i .. j : ~denies'[k].trips
                 PROVE  j - i + 1 < Threshold
    BY <1>3 DEF BurstsTrip
  <2>2. T[j] - T[i] <= Window /\ \A k \in i .. j : ~B[k]
    <3>1. \A k \in i .. j : k \in 1 .. N + 1
      BY <1>3
    <3>2. QED
      BY <1>7, <2>1, <3>1
  <2>3. CASE j = N + 1
    <3>1. T[N + 1] - T[i] <= Window /\ \A k \in i .. N + 1 : ~B[k]
      BY <2>2, <2>3
    <3>2. N + 1 - i + 1 < Threshold
      BY <1>9, <3>1, Zenon
    <3>3. QED
      BY <1>3, <2>3, <3>2
  <2>4. CASE j # N + 1
    <3>1. i \in 1 .. N /\ j \in 1 .. N
      BY <1>3, <2>1, <2>4
    <3>2. QED
      BY <1>8, <2>1, <2>2, <3>1
  <2>5. QED
    BY <2>3, <2>4
<1>10. CASE Trips(c, clock)
  <2>1. circuit'.deny_times = <<>>
    BY <1>10, <1>1 DEF record_deny
  <2>2. B[N + 1]
    BY <1>7, <1>10
  <2>3. Forgotten' = N + 1 /\ Len(circuit'.deny_times) = 0
    BY <1>3, <2>1 DEF Forgotten
  <2>4. CountsRecent'
    <3>1. \A k \in 1 .. N + 1 : ~(\A l \in k .. N + 1 : ~denies'[l].trips)
      BY <1>3, <1>7, <2>2
    <3>2. 0 <= N + 1 /\ 0 < Threshold /\ DOMAIN circuit'.deny_times = {}
      BY <1>1, <1>3, <2>1
    <3>3. QED
      BY <1>3, <1>4, <2>3, <3>1, <3>2, ZenonT(60) DEF CountsRecent
  <2>5. BurstsTrip'
    BY <1>3, <1>9, <2>2
  <2>6. QED
    BY <2>4, <2>5
<1>11. CASE ~Trips(c, clock)
  <2> DEFINE E == circuit'.deny_times
             F == N - Len(D)
             G == F + first - 1
  <2>1. E = Append(K, clock) /\ InWindow(c, clock) = Append(K, clock)
    BY <1>1, <1>11 DEF record_deny, InWindow, K, D, Circuit
  <2> HIDE DEF E
  <2>2. /\ Len(K) \in Nat /\ Len(E) = Len(K) + 1 /\ DOMAIN E = 1 .. Len(K) + 1
        /\ E[Len(K) + 1] = clock /\ \A i \in 1 .. Len(K) : E[i] = K[i]
    <3>1. K \in Seq(Nat) /\ clock \in Nat
      BY <1>1, <1>6
    <3>2. QED
      BY <2>1, <3>1, AppendProperties
  <2>3. Len(E) < Threshold
    BY <1>1, <1>11, <2>1, <2>2 DEF Trips
  <2>4. /\ Len(D) \in Nat /\ Len(D) <= N /\ F \in 0 .. N
        /\ \A i \in 1 .. Len(D) : D[i] = denies[F + i].time
        /\ \A k \in 1 .. F : (\A l \in k .. N : ~denies[l].trips)
                             => denies[k].time < denies[N].time - Window
    <3>1. Len(D) \in Nat /\ DOMAIN D = 1 .. Len(D)
      BY <1>1
    <3>2. Len(D) <= N /\ Forgotten = F
      BY <1>1 DEF CountsRecent, Forgotten, N, D
    <3>3. /\ \A i \in DOMAIN D : D[i] = denies[Forgotten + i].time
          /\ \A k \in 1 .. Forgotten : (\A l \in k .. N : ~denies[l].trips)
                                       => denies[k].time < denies[N].time - Window
      BY <1>1 DEF CountsRecent, N, D
    <3>4. N \in Nat
      BY <1>3
    <3>5. F \in 0 .. N
      BY <3>1, <3>2, <3>4
    <3> HIDE DEF F
    <3>6. QED
      BY <3>1, <3>2, <3>3, <3>5
  <2>5. G \in F .. N /\ Len(E) = N + 1 - G
    BY <1>3, <1>5, <1>6, <2>2, <2>4
  <2>6. Forgotten' = G
    BY <1>3, <2>2, <2>5, SMTT(60) DEF Forgotten, E
  <2>7. \A i \in 1 .. Len(E) : E[i] = T[G + i]
    <3>1. TAKE i \in 1 .. Len(E)
    <3>2. CASE i = Len(K) + 1
      <4>1. G + i = N + 1
        BY <1>3, <1>5, <1>6, <2>2, <2>4, <3>2
      <4>2. QED
        BY <1>7, <2>2, <3>2, <4>1
    <3>3. CASE i # Len(K) + 1
      <4>1. i \in 1 .. Len(K)
        BY <2>2, <3>3
      <4>2. first + i - 1 \in 1 .. Len(D) /\ F + (first + i - 1) = G + i
        BY <1>3, <1>5, <1>6, <2>2, <2>4, <4>1
      <4>3. G + i \in 1 .. N
        BY <1>3, <2>4, <4>2, SMTT(60)
      <4>4. E[i] = denies[G + i].time
        BY <1>6, <2>2, <2>4, <4>1, <4>2, ZenonT(60)
      <4>5. QED
        BY <1>7, <4>3, <4>4
    <3>4. QED
      BY <3>2, <3>3
  <2>8. \A k \in 1 .. F : (\A l \in k .. N : ~B[l]) => T[k] < T[N] - Window
    <3>1. TAKE k \in 1 .. F
    <3>2. k \in 1 .. N /\ N \in 1 .. N /\ \A l \in k .. N : l \in 1 .. N
      BY <1>3, <2>4
    <3>3. QED
      BY <1>7, <2>4, <3>2
  <2>9. \A k \in F + 1 .. G : T[k] < T[N + 1] - Window
    <3>1. TAKE k \in F + 1 .. G
    <3>2. k - F \in 1 .. first - 1 /\ k - F \in 1 .. Len(D) /\ F + (k - F) = k /\ k \in 1 .. N
      BY <1>3, <1>5, <2>4, <2>5, SMTT(60)
    <3>3. D[k - F] = denies[k].time
      BY <2>4, <3>2
    <3>4. QED
      BY <1>5, <1>7, <3>2, <3>3
  <2>10. /\ \A k \in 1 .. G : (\A l \in k .. N + 1 : ~B[l]) => T[k] < T[N + 1] - Window
         /\ \A i \in 1 .. N + 1 :
               T[N + 1] - T[i] <= Window /\ (\A k \in i .. N + 1 : ~B[k])
               => N + 1 - i + 1 < Threshold
    <3>1. N + 1 - G < Threshold
      BY <2>3, <2>5
    <3> HIDE DEF F, G
    <3>2. QED
      BY <1>1, <1>3, <1>7, <2>4, <2>5, <2>8, <2>9, <3>1, Recount, ZenonT(60)
  <2>11. CountsRecent'
    <3> HIDE DEF F, G
    <3>1. \A i \in DOMAIN E : E[i] = denies'[G + i].time
      <4>1. TAKE i \in DOMAIN E
      <4>2. i \in 1 .. Len(E) /\ G + i \in 1 .. N + 1
        BY <1>3, <2>2, <2>4, <2>5
      <4>3. QED
        BY <1>7, <2>7, <4>2
    <3>2. \A k \in 1 .. G : (\A l \in k .. N + 1 : ~denies'[l].trips)
                            => denies'[k].time < denies'[N + 1].time - Window
      <4>1. TAKE k \in 1 .. G
      <4>2. k \in 1 .. N + 1 /\ N + 1 \in 1 .. N + 1 /\ \A l \in k .. N + 1 : l \in 1 .. N + 1
        BY <1>3, <2>4, <2>5, SMTT(60)
      <4>3. QED
        BY <1>7, <2>10, <4>2
    <3>3. Len(E) <= N + 1
      BY <1>3, <2>4, <2>5
    <3>4. QED
      BY <1>3, <1>4, <2>3, <2>6, <3>1, <3>2, <3>3, ZenonT(60) DEF CountsRecent, E
  <2>12. QED
    BY <1>9, <2>10, <2>11
<1>12. QED
  BY <1>10, <1>11

LEMMA CountStep ==
    ASSUME TypeOK, TypeOK', BreakerIdle, CountsRecent, BurstsTrip, [Next]_vars
    PROVE  CountsRecent' /\ BurstsTrip'
<1>1. clock \in Nat /\ clock' \in Nat
  BY DEF TypeOK
<1>2. CASE RequestStep
  <2> DEFINE c == AfterCheck(circuit, clock)
             d == [time |-> clock, trips |-> Trips(c, clock)]
  <2>1. clock' = clock
    BY <1>2, RequestShape DEF world
  <2>2. CASE UNCHANGED <<circuit, denies>>
    BY <1>1, <2>1, <2>2, CountKept
  <2>3. CASE ~IsTripped(circuit, clock) /\ circuit' = c /\ denies' = denies
    BY <1>1, <2>1, <2>3, CountKept, AfterCheckIdle
  <2>4. CASE ~IsTripped(circuit, clock) /\ circuit' = record_deny(c, clock) /\ denies' = Append(denies, d)
    <3>1. c \in Circuit /\ c.deny_times = circuit.deny_times /\ c.tripped_until = Never
      BY <2>4, AfterCheckIdle, CircuitType DEF TypeOK
    <3>2. d \in Denial /\ d.time = clock /\ (Trips(c, clock) => d.trips)
      <4>1. Trips(c, clock) \in BOOLEAN
        BY DEF Trips
      <4>2. QED
        BY <1>1, <4>1 DEF Denial
    <3> HIDE DEF c, d
    <3>3. CASE Threshold > 0
      BY <2>1, <2>4, <3>1, <3>2, <3>3, CountDenial
    <3>4. CASE ~(Threshold > 0)
      <4>1. \A i \in DOMAIN denies' : denies'[i].time \in Nat
        <5>1. denies' \in Seq(Denial) /\ \A e \in Denial : e.time \in Nat
          BY DEF TypeOK, Denial
        <5>2. QED
          BY <5>1
      <4>2. denies \in Seq(Denial)
        BY DEF TypeOK, Denial
      <4>3. /\ DOMAIN denies = 1 .. Len(denies) /\ DOMAIN denies' = 1 .. Len(denies) + 1
            /\ Len(denies) \in Nat /\ denies'[Len(denies) + 1] = d
            /\ \A i \in 1 .. Len(denies) : denies'[i] = denies[i]
        BY <2>4, <3>2, <4>2
      <4>4. /\ \A i \in DOMAIN denies' : denies'[i].time <= clock'
            /\ \A i, j \in DOMAIN denies' : i <= j => denies'[i].time <= denies'[j].time
        BY <1>1, <2>1, <3>2, <4>1, <4>3, SMTT(60) DEF CountsRecent
      <4>5. QED
        BY <3>4, <4>4 DEF CountsRecent, BurstsTrip
    <3>5. QED
      BY <3>3, <3>4
  <2>5. QED
    BY <1>2, <2>2, <2>3, <2>4, RequestShape
<1>3. CASE DispatchOk \/ DispatchFails
  BY <1>1, <1>3, DispatchShape, CountKept DEF world
<1>4. CASE HandleIgnored
  BY <1>1, <1>4, CountKept DEF HandleIgnored, task, world
<1>5. CASE QuietStep
  <2>1. clock <= clock'
    BY <1>1, <1>5 DEF QuietStep, RecvLagged, RecvClosed, DispatchRetry, Backoff, Take, Abandon,
                      Exit, Tick, vars, world
  <2>2. QED
    BY <1>1, <1>5, <2>1, QuietShape, CountKept
<1>6. ASSUME NEW kind \in Kinds, Emit(kind)
      PROVE  CountsRecent' /\ BurstsTrip'
  BY <1>1, <1>6, CountKept DEF Emit, task, world
<1>7. QED
  BY <1>2, <1>3, <1>4, <1>5, <1>6, StepKinds

-----------------------------------------------------------------------------
(* The three parts of EvidenceFirst. *)
Tripping == {k \in DOMAIN denies : denies[k].trips}
SignalsCounted == alive => Cardinality(Signals) = Cardinality(Tripping)
SignalsAnswered ==
    \A i \in Signals :
        \/ i < Len(sent) /\ sent[i + 1].type = "IoResponse" /\ sent[i + 1].result = "denied"
        \/ i = Len(sent) /\ pc = "failed"
RefusalsSignalled ==
    \A i \in DOMAIN sent \ Signals : sent[i].result = "tripped" => \E k \in Signals : k < i

LEMMA EvidenceParts ==
    /\ EvidenceFirst <=> SignalsCounted /\ SignalsAnswered /\ RefusalsSignalled
    /\ EvidenceFirst' <=> SignalsCounted' /\ SignalsAnswered' /\ RefusalsSignalled'
BY DEF EvidenceFirst, SignalsCounted, SignalsAnswered, RefusalsSignalled, Signals, Tripping

LEMMA OneMoreElement ==
    ASSUME NEW S, NEW s \in Seq(S), NEW e \in S, NEW t, t = Append(s, e)
    PROVE  /\ Len(s) \in Nat /\ DOMAIN s = 1 .. Len(s)
           /\ Len(t) = Len(s) + 1 /\ DOMAIN t = 1 .. Len(s) + 1
           /\ t[Len(s) + 1] = e /\ \A i \in 1 .. Len(s) : t[i] = s[i]
OBVIOUS

(* One more message: the signals are those before, and it when it is one. *)
LEMMA OneMore ==
    ASSUME NEW s \in Seq(Message), NEW m \in Message
    PROVE  LET t == Append(s, m)
           IN  {i \in DOMAIN t : t[i].type = "Command"}
               = IF m.type = "Command" THEN {i \in DOMAIN s : s[i].type = "Command"} \cup {Len(s) + 1}
                                       ELSE {i \in DOMAIN s : s[i].type = "Command"}
<1> DEFINE t == Append(s, m)
<1>1. /\ Len(s) \in Nat /\ DOMAIN s = 1 .. Len(s) /\ DOMAIN t = 1 .. Len(s) + 1
      /\ t[Len(s) + 1] = m /\ \A i \in 1 .. Len(s) : t[i] = s[i]
  OBVIOUS
<1> HIDE DEF t
<1>2. QED
  BY <1>1 DEF t

(* As far as the history of trips goes, one more denial is like that. *)
LEMMA OneMoreTrip ==
    ASSUME NEW s \in Seq(Denial), NEW d \in Denial, NEW t, t = Append(s, d)
    PROVE  LET S == {i \in DOMAIN s : s[i].trips}
               T == {i \in DOMAIN t : t[i].trips}
           IN  (d.trips => T = S \cup {Len(s) + 1}) /\ (~d.trips => T = S)
<1>1. /\ Len(s) \in Nat /\ DOMAIN s = 1 .. Len(s) /\ DOMAIN t = 1 .. Len(s) + 1
      /\ t[Len(s) + 1] = d /\ \A i \in 1 .. Len(s) : t[i] = s[i]
  OBVIOUS
<1> DEFINE S == {i \in DOMAIN s : s[i].trips}
           T == {i \in DOMAIN t : t[i].trips}
<1>2. \A i : i \in T <=> i \in S \/ (i = Len(s) + 1 /\ d.trips)
  <2>1. TAKE i
  <2>2. CASE i \in 1 .. Len(s)
    <3>1. i # Len(s) + 1 /\ i \in 1 .. Len(s) + 1
      BY <1>1, <2>2
    <3>2. QED
      BY <1>1, <2>2, <3>1, Zenon
  <2>3. CASE i = Len(s) + 1
    <3>1. i \notin 1 .. Len(s) /\ i \in 1 .. Len(s) + 1
      BY <1>1, <2>3
    <3>2. QED
      BY <1>1, <2>3, <3>1, Zenon
  <2>4. CASE i \notin 1 .. Len(s) + 1
    <3>1. i \notin 1 .. Len(s) /\ i # Len(s) + 1
      BY <1>1, <2>4
    <3>2. QED
      BY <1>1, <2>4, <3>1, Zenon
  <2>5. QED
    BY <1>1, <2>2, <2>3, <2>4
<1> HIDE DEF S, T
<1>3. (d.trips => T = S \cup {Len(s) + 1}) /\ (~d.trips => T = S)
  BY <1>2
<1>4. QED
  BY <1>3, Zenon DEF S, T

LEMMA CountsFinite ==
    ASSUME TypeOK
    PROVE  /\ IsFiniteSet(Signals) /\ IsFiniteSet(Tripping)
           /\ Len(sent) + 1 \notin Signals /\ Len(denies) + 1 \notin Tripping
<1>1. /\ Len(sent) \in Nat /\ Signals \subseteq 1 .. Len(sent)
      /\ Len(denies) \in Nat /\ Tripping \subseteq 1 .. Len(denies)
  BY DEF TypeOK, Signals, Tripping
<1>2. IsFiniteSet(1 .. Len(sent)) /\ IsFiniteSet(1 .. Len(denies))
  BY <1>1, FS_Interval
<1>3. IsFiniteSet(Signals) /\ IsFiniteSet(Tripping)
  BY <1>1, <1>2, FS_Subset
<1>4. QED
  BY <1>1, <1>3

(* Nothing sent and nothing denied. *)
LEMMA EvidenceKept ==
    ASSUME EvidenceFirst, TripIsSignalled, OnlyTheDeadFail, sent' = sent, denies' = denies,
           alive' => alive, pc = "failed" => pc' = "failed", pc' = "failed" => ~alive',
           circuit'.tripped_until # Never /\ pc' # "failed"
               => circuit.tripped_until # Never /\ pc # "failed"
    PROVE  EvidenceFirst' /\ TripIsSignalled' /\ OnlyTheDeadFail'
<1>1. Signals' = Signals /\ Tripping' = Tripping
  BY DEF Signals, Tripping
<1>2. SignalsCounted' /\ SignalsAnswered' /\ RefusalsSignalled'
  BY <1>1, EvidenceParts DEF SignalsCounted, SignalsAnswered, RefusalsSignalled
<1>3. QED
  BY <1>1, <1>2, EvidenceParts DEF TripIsSignalled, OnlyTheDeadFail

(* A response is sent, and no denial trips. *)
LEMMA EvidenceAnswer ==
    ASSUME TypeOK, EvidenceFirst, TripIsSignalled, pc # "failed", NEW r \in Nat,
           NEW cause \in Cause, Answer(r, cause), alive' = alive, Tripping' = Tripping,
           cause = "tripped" => Signals # {},
           circuit'.tripped_until # Never => Signals # {}
    PROVE  EvidenceFirst' /\ TripIsSignalled' /\ OnlyTheDeadFail'
<1> DEFINE m == Response(r, cause, next_id)
<1>1. m \in Message /\ m.type = "IoResponse" /\ m.result = cause
  BY ResponseType DEF TypeOK, Cause, Response
<1> HIDE DEF m
<1>2. CASE ~alive
  <2>1. sent' = sent /\ pc' = "failed"
    BY <1>2 DEF Answer
  <2>2. Signals' = Signals
    BY <2>1 DEF Signals
  <2>3. SignalsCounted' /\ SignalsAnswered' /\ RefusalsSignalled'
    BY <1>2, <2>1, <2>2, EvidenceParts DEF SignalsCounted, SignalsAnswered, RefusalsSignalled
  <2>4. QED
    BY <1>2, <2>1, <2>2, <2>3, EvidenceParts DEF TripIsSignalled, OnlyTheDeadFail
<1>3. CASE alive
  <2>1. sent' = Append(sent, m) /\ pc' = "recv" /\ sent \in Seq(Message)
    BY <1>3 DEF Answer, m, TypeOK
  <2>2. Signals' = Signals
    BY <1>1, <2>1, OneMore DEF Signals
  <2>3. /\ Len(sent) \in Nat /\ DOMAIN sent = 1 .. Len(sent) /\ DOMAIN sent' = 1 .. Len(sent) + 1
        /\ Len(sent') = Len(sent) + 1
        /\ sent'[Len(sent) + 1] = m /\ \A i \in 1 .. Len(sent) : sent'[i] = sent[i]
    BY <1>1, <2>1
  <2>4. Signals \subseteq 1 .. Len(sent)
    BY <2>3 DEF Signals
  <2>5. SignalsCounted'
    BY <1>3, <2>2, EvidenceParts DEF SignalsCounted
  <2>6. SignalsAnswered'
    <3>1. SUFFICES ASSUME NEW i \in Signals
                   PROVE  i < Len(sent') /\ sent'[i + 1].type = "IoResponse"
                          /\ sent'[i + 1].result = "denied"
      BY <2>2 DEF SignalsAnswered
    <3>2. i < Len(sent) /\ sent[i + 1].type = "IoResponse" /\ sent[i + 1].result = "denied"
      BY EvidenceParts DEF SignalsAnswered
    <3>3. i \in 1 .. Len(sent) /\ i + 1 \in 1 .. Len(sent)
      BY <2>3, <2>4, <3>2
    <3>4. QED
      BY <2>3, <3>2, <3>3
  <2>7. RefusalsSignalled'
    <3>1. SUFFICES ASSUME NEW i \in DOMAIN sent' \ Signals, sent'[i].result = "tripped"
                   PROVE  \E k \in Signals : k < i
      BY <2>2 DEF RefusalsSignalled
    <3>2. CASE i = Len(sent) + 1
      <4>1. Signals # {}
        BY <1>1, <2>3, <3>1, <3>2
      <4>2. PICK k \in Signals : TRUE
        BY <4>1
      <4>3. k < i
        BY <2>3, <2>4, <3>2
      <4>4. QED
        BY <4>3
    <3>3. CASE i # Len(sent) + 1
      <4>1. i \in DOMAIN sent \ Signals /\ sent[i].result = "tripped"
        BY <2>3, <3>1, <3>3
      <4>2. QED
        BY <4>1, EvidenceParts DEF RefusalsSignalled
    <3>4. QED
      BY <3>2, <3>3
  <2>8. QED
    BY <2>1, <2>2, <2>5, <2>6, <2>7, EvidenceParts DEF TripIsSignalled, OnlyTheDeadFail
<1>4. QED
  BY <1>2, <1>3

(* A denial trips: its signal comes right before its answer. *)
LEMMA EvidenceTrip ==
    ASSUME TypeOK, EvidenceFirst, pc # "failed", NEW r \in Nat, SignalAndAnswer(r),
           alive' = alive, Tripping' = Tripping \cup {Len(denies) + 1}
    PROVE  EvidenceFirst' /\ TripIsSignalled' /\ OnlyTheDeadFail'
<1> DEFINE m == Signal(next_id)
           n == Response(r, "denied", next_id + 1)
           L == Len(sent)
<1>1. /\ m \in Message /\ m.type = "Command"
      /\ n \in Message /\ n.type = "IoResponse" /\ n.result = "denied"
  <2>1. m \in Message /\ n \in Message
    BY ResponseType DEF TypeOK
  <2>2. QED
    BY <2>1 DEF Response, Signal
<1>2. sent \in Seq(Message) /\ L \in Nat /\ DOMAIN sent = 1 .. L
  BY DEF TypeOK
<1> HIDE DEF m, n
<1>3. Signals \subseteq 1 .. L
  BY <1>2 DEF Signals
<1>4. \A i \in Signals : /\ i \in 1 .. L /\ i + 1 \in 1 .. L
                         /\ sent[i + 1].type = "IoResponse" /\ sent[i + 1].result = "denied"
  <2>1. TAKE i \in Signals
  <2>2. i < L /\ sent[i + 1].type = "IoResponse" /\ sent[i + 1].result = "denied"
    BY EvidenceParts DEF SignalsAnswered
  <2>3. i \in 1 .. L /\ i + 1 \in 1 .. L
    BY <1>2, <1>3, <2>2
  <2>4. QED
    BY <2>2, <2>3
<1>5. CASE sent' = sent /\ ~alive /\ pc' = "failed"
  <2>1. Signals' = Signals
    BY <1>5 DEF Signals
  <2>2. SignalsCounted' /\ SignalsAnswered' /\ RefusalsSignalled'
    BY <1>5, <2>1, EvidenceParts DEF SignalsCounted, SignalsAnswered, RefusalsSignalled
  <2>3. QED
    BY <1>5, <2>2, EvidenceParts DEF TripIsSignalled, OnlyTheDeadFail
<1>6. CASE sent' = Append(sent, m) /\ ~alive /\ pc' = "failed"
  <2>1. Signals' = Signals \cup {L + 1}
    <3>1. sent' = Append(sent, m)
      BY <1>6
    <3>2. QED
      BY <1>1, <1>2, <3>1, OneMore DEF Signals
  <2>2. /\ DOMAIN sent' = 1 .. L + 1 /\ Len(sent') = L + 1
        /\ \A i \in 1 .. L : sent'[i] = sent[i]
    <3>1. sent' = Append(sent, m)
      BY <1>6
    <3>2. QED
      BY <1>1, <1>2, <3>1, OneMoreElement
  <2>3. SignalsAnswered'
    <3>1. SUFFICES ASSUME NEW i \in Signals \cup {L + 1}
                   PROVE  \/ /\ i < L + 1 /\ sent'[i + 1].type = "IoResponse"
                             /\ sent'[i + 1].result = "denied"
                          \/ i = L + 1
      BY <1>6, <2>1, <2>2 DEF SignalsAnswered
    <3>2. CASE i \in Signals
      BY <1>2, <1>4, <2>2, <3>2
    <3>3. QED
      BY <3>1, <3>2
  <2>4. RefusalsSignalled'
    <3>1. SUFFICES ASSUME NEW i \in DOMAIN sent' \ (Signals \cup {L + 1}), sent'[i].result = "tripped"
                   PROVE  \E k \in Signals : k < i
      BY <2>1 DEF RefusalsSignalled
    <3>2. i \in DOMAIN sent \ Signals /\ sent[i].result = "tripped"
      BY <1>2, <2>2, <3>1
    <3>3. QED
      BY <3>2, EvidenceParts DEF RefusalsSignalled
  <2>5. QED
    BY <1>6, <2>3, <2>4, EvidenceParts DEF SignalsCounted, TripIsSignalled, OnlyTheDeadFail
<1>7. CASE sent' = Append(Append(sent, m), n) /\ alive /\ pc' = "recv"
  <2> DEFINE s == Append(sent, m)
  <2>1. s \in Seq(Message) /\ Len(s) = L + 1
    BY <1>1, <1>2
  <2>2. {i \in DOMAIN s : s[i].type = "Command"} = Signals \cup {L + 1}
    BY <1>1, <1>2, OneMore DEF Signals
  <2>3. /\ DOMAIN s = 1 .. L + 1 /\ s[L + 1] = m /\ \A i \in 1 .. L : s[i] = sent[i]
    BY <1>1, <1>2
  <2> HIDE DEF s
  <2>4. sent' = Append(s, n)
    BY <1>7 DEF s
  <2>5. Signals' = Signals \cup {L + 1}
    <3>1. Signals' = {i \in DOMAIN s : s[i].type = "Command"}
      BY <1>1, <2>1, <2>4, OneMore DEF Signals
    <3>2. QED
      BY <2>2, <3>1
  <2>6. /\ DOMAIN sent' = 1 .. L + 2 /\ Len(sent') = L + 2 /\ sent'[L + 2] = n
        /\ \A i \in 1 .. L : sent'[i] = sent[i]
    <3>1. /\ DOMAIN sent' = 1 .. Len(s) + 1 /\ Len(sent') = Len(s) + 1
          /\ sent'[Len(s) + 1] = n /\ \A i \in 1 .. Len(s) : sent'[i] = s[i]
      BY <1>1, <2>1, <2>4, OneMoreElement
    <3>2. Len(s) + 1 = L + 2 /\ \A i \in 1 .. L : i \in 1 .. Len(s)
      BY <1>2, <2>1
    <3>3. QED
      BY <2>3, <3>1, <3>2
  <2>7. SignalsCounted'
    <3>1. /\ IsFiniteSet(Signals) /\ IsFiniteSet(Tripping)
          /\ L + 1 \notin Signals /\ Len(denies) + 1 \notin Tripping
      BY CountsFinite
    <3>2. /\ Cardinality(Signals \cup {L + 1}) = Cardinality(Signals) + 1
          /\ Cardinality(Tripping \cup {Len(denies) + 1}) = Cardinality(Tripping) + 1
      BY <3>1, FS_AddElement
    <3>3. QED
      BY <1>7, <2>5, <3>2, EvidenceParts DEF SignalsCounted
  <2>8. SignalsAnswered'
    <3>1. SUFFICES ASSUME NEW i \in Signals \cup {L + 1}
                   PROVE  i < Len(sent') /\ sent'[i + 1].type = "IoResponse"
                          /\ sent'[i + 1].result = "denied"
      BY <2>5 DEF SignalsAnswered
    <3>2. CASE i = L + 1
      <4>1. i + 1 = L + 2 /\ i < L + 2
        BY <1>2, <3>2
      <4>2. QED
        BY <1>1, <2>6, <4>1
    <3>3. CASE i \in Signals
      BY <1>2, <1>4, <2>6, <3>3
    <3>4. QED
      BY <3>1, <3>2, <3>3
  <2>9. RefusalsSignalled'
    <3>1. SUFFICES ASSUME NEW i \in DOMAIN sent' \ (Signals \cup {L + 1}), sent'[i].result = "tripped"
                   PROVE  \E k \in Signals : k < i
      BY <2>5 DEF RefusalsSignalled
    <3>2. i # L + 2
      BY <1>1, <2>6, <3>1
    <3>3. i \in DOMAIN sent \ Signals /\ sent[i].result = "tripped"
      BY <1>2, <2>6, <3>1, <3>2
    <3>4. QED
      BY <3>3, EvidenceParts DEF RefusalsSignalled
  <2>10. QED
    BY <1>7, <2>5, <2>7, <2>8, <2>9, EvidenceParts DEF TripIsSignalled, OnlyTheDeadFail
<1>8. QED
  BY <1>5, <1>6, <1>7 DEF SignalAndAnswer, m, n

LEMMA EvidenceStep ==
    ASSUME TypeOK, BreakerIdle, EvidenceFirst, TripIsSignalled, OnlyTheDeadFail, [Next]_vars
    PROVE  EvidenceFirst' /\ TripIsSignalled' /\ OnlyTheDeadFail'
<1>1. CASE RequestStep
  <2> DEFINE r == Head(events).id
             c == AfterCheck(circuit, clock)
             d == [time |-> clock, trips |-> Trips(c, clock)]
  <2>1. r \in Nat /\ pc = "recv" /\ alive' = alive
    BY <1>1, RequestOrder, RequestShape DEF reactor
  <2>2. CASE Answer(r, "tripped") /\ IsTripped(circuit, clock) /\ UNCHANGED <<circuit, denies>>
    <3>1. Signals # {}
      BY <2>1, <2>2 DEF TripIsSignalled, IsTripped
    <3>2. Tripping' = Tripping
      BY <2>2 DEF Tripping
    <3>3. QED
      BY <2>1, <2>2, <3>1, <3>2, EvidenceAnswer DEF Cause
  <2>3. CASE /\ \E cause \in {"no_gate", "denied"} : Answer(r, cause)
             /\ ~IsTripped(circuit, clock) /\ circuit' = c /\ denies' = denies
    <3>1. circuit'.tripped_until = Never
      BY <2>3, AfterCheckIdle
    <3>2. Tripping' = Tripping
      BY <2>3 DEF Tripping
    <3>3. QED
      BY <2>1, <2>3, <3>1, <3>2, EvidenceAnswer DEF Cause
  <2>4. CASE /\ ~IsTripped(circuit, clock) /\ circuit' = record_deny(c, clock)
             /\ denies' = Append(denies, d)
             /\ IF Trips(c, clock) THEN SignalAndAnswer(r) ELSE Answer(r, "denied")
    <3>1. c.tripped_until = Never
      BY <2>4, AfterCheckIdle
    <3>2. d \in Denial /\ d.trips = Trips(c, clock)
      <4>1. Trips(c, clock) \in BOOLEAN /\ clock \in Nat
        BY DEF Trips, TypeOK
      <4>2. QED
        BY <4>1 DEF Denial
    <3>3. denies \in Seq(Denial)
      BY DEF TypeOK, Denial
    <3>4. /\ Trips(c, clock) => Tripping' = Tripping \cup {Len(denies) + 1}
          /\ ~Trips(c, clock) => Tripping' = Tripping
      <4> HIDE DEF d
      <4>1. /\ d.trips => Tripping' = Tripping \cup {Len(denies) + 1}
            /\ ~d.trips => Tripping' = Tripping
        BY <2>4, <3>2, <3>3, OneMoreTrip, Zenon DEF Tripping
      <4>2. QED
        BY <3>2, <4>1, Zenon
    <3>5. CASE Trips(c, clock)
      BY <2>1, <2>4, <3>4, <3>5, EvidenceTrip
    <3>6. CASE ~Trips(c, clock)
      <4>1. circuit'.tripped_until = Never
        <5>1. c \in Circuit
          BY CircuitType DEF TypeOK
        <5> HIDE DEF c
        <5>2. QED
          BY <2>4, <3>1, <3>6, <5>1 DEF record_deny, Circuit
      <4>2. QED
        BY <2>1, <2>4, <3>4, <3>6, <4>1, EvidenceAnswer DEF Cause
    <3>7. QED
      BY <3>5, <3>6
  <2>5. CASE /\ ~IsTripped(circuit, clock) /\ circuit' = c
             /\ pc' = "dispatch" /\ UNCHANGED <<sent, denies>>
    BY <2>1, <2>5, AfterCheckIdle, EvidenceKept
  <2>6. QED
    BY <1>1, <2>2, <2>3, <2>4, <2>5, RequestShape
<1>2. CASE DispatchOk \/ DispatchFails
  <2>1. /\ pc = "dispatch" /\ UNCHANGED <<alive, circuit, denies>> /\ request \in Nat
        /\ \E cause \in {"ok", "error"} : Answer(request, cause)
    BY <1>2, DispatchShape DEF reactor, TypeOK
  <2>2. Tripping' = Tripping
    BY <2>1 DEF Tripping
  <2>3. circuit'.tripped_until = Never
    BY <2>1 DEF BreakerIdle, Handling
  <2>4. QED
    BY <2>1, <2>2, <2>3, EvidenceAnswer DEF Cause
<1>3. CASE HandleIgnored
  BY <1>3, EvidenceKept DEF HandleIgnored, Received, task, reactor, OnlyTheDeadFail
<1>4. CASE QuietStep
  BY <1>4, QuietShape, EvidenceKept DEF OnlyTheDeadFail
<1>5. ASSUME NEW kind \in Kinds, Emit(kind)
      PROVE  EvidenceFirst' /\ TripIsSignalled' /\ OnlyTheDeadFail'
  BY <1>5, EvidenceKept DEF Emit, task, OnlyTheDeadFail
<1>6. QED
  BY <1>1, <1>2, <1>3, <1>4, <1>5, StepKinds

-----------------------------------------------------------------------------
LEMMA InitIInv == Init => IInv
<1>1. SUFFICES ASSUME Init PROVE IInv
  OBVIOUS
<1> USE DEF Init
<1>2. Attempts
  BY <1>1, SubscriberAssumption DEF Attempts, TypeOK, Circuit, NewCircuit, Never
<1>3. events = <<>> /\ sent = <<>> /\ denies = <<>> /\ open = {} /\ request = 0 /\ pc = "recv"
  BY <1>1
<1>4. InOrder /\ OpenAreRequests /\ AnsweredOnce /\ NoneForgotten
  BY <1>1, <1>3 DEF InOrder, OpenAreRequests, AnsweredOnce, NoneForgotten, Handling
<1>5. BreakerIdle
  BY <1>1 DEF BreakerIdle, Handling, NewCircuit
<1>6. CountsRecent /\ BurstsTrip
  BY <1>1, CircuitAssumption DEF CountsRecent, BurstsTrip, Forgotten, NewCircuit
<1>7. TripIsSignalled /\ OnlyTheDeadFail
  BY <1>1 DEF TripIsSignalled, OnlyTheDeadFail, NewCircuit
<1>8. EvidenceFirst
  <2>1. Signals = {} /\ Tripping = {}
    BY <1>3 DEF Signals, Tripping
  <2>2. SignalsCounted /\ SignalsAnswered /\ RefusalsSignalled
    BY <1>3, <2>1 DEF SignalsCounted, SignalsAnswered, RefusalsSignalled
  <2>3. QED
    BY <2>2, EvidenceParts
<1>9. QED
  BY <1>2, <1>4, <1>5, <1>6, <1>7, <1>8 DEF IInv

LEMMA NextIInv == IInv /\ [Next]_vars => IInv'
<1>1. SUFFICES ASSUME IInv, [Next]_vars PROVE IInv'
  OBVIOUS
<1> USE <1>1
<1>2. Attempts' /\ TypeOK /\ TypeOK'
  BY AttemptsStep DEF IInv, Attempts
<1>3. Numbers'
  <2>1. TypeOK' => Numbers'
    BY NumbersType, PTL
  <2>2. QED
    BY <1>2, <2>1
<1>4. InOrder' /\ AnsweredOnce'
  BY <1>2, <1>3, OrderStep DEF IInv
<1>5. OpenAreRequests' /\ NoneForgotten'
  BY <1>2, <1>3, OpenStep DEF IInv
<1>6. BreakerIdle'
  BY <1>2, BreakerStep DEF IInv
<1>7. CountsRecent' /\ BurstsTrip'
  BY <1>2, CountStep DEF IInv
<1>8. EvidenceFirst' /\ TripIsSignalled' /\ OnlyTheDeadFail'
  BY <1>2, EvidenceStep DEF IInv
<1>9. QED
  BY <1>2, <1>4, <1>5, <1>6, <1>7, <1>8 DEF IInv

(* The inductive invariant holds in every state of the subscriber. *)
LEMMA SpecIInv == Spec => []IInv
BY InitIInv, NextIInv, PTL DEF Spec

(* Every variable of the subscriber has its type, and handle_io_request     *)
(* dispatches a request MAX_RETRIES + 1 times at most.                      *)
THEOREM SubscriberTypeOK == Spec => []TypeOK
<1>1. IInv => TypeOK
  BY DEF IInv, Attempts
<1>2. QED
  BY <1>1, SpecIInv, PTL

(* The subscriber submits at most one IoResponse for a request, whatever    *)
(* the broadcast overwrites and however often a dispatch is retried.        *)
THEOREM SubscriberAnswersOnce == Spec => []AnsweredOnce
<1>1. IInv => AnsweredOnce
  BY DEF IInv
<1>2. QED
  BY <1>1, SpecIInv, PTL

(* While the reactor runs, a request it waits for is in the broadcast, lost *)
(* by it, in the hands of the subscriber or answered.                       *)
THEOREM SubscriberForgetsNone == Spec => []NoneForgotten
<1>1. IInv => NoneForgotten
  BY DEF IInv
<1>2. QED
  BY <1>1, SpecIInv, PTL

(* record_deny's sliding window lets no burst through: fewer than the       *)
(* threshold of untripped denials lie within one window, for every          *)
(* threshold and window.                                                    *)
THEOREM BreakerStopsBursts == Spec => []BurstsTrip
<1>1. IInv => BurstsTrip
  BY DEF IInv
<1>2. QED
  BY <1>1, SpecIInv, PTL

(* Every trip has its signal in the command channel right before the answer *)
(* that it refuses, and no refusal by the breaker lacks a signal before it. *)
THEOREM SubscriberLeavesEvidence == Spec => []EvidenceFirst
<1>1. IInv => EvidenceFirst
  BY DEF IInv
<1>2. QED
  BY <1>1, SpecIInv, PTL
=============================================================================
