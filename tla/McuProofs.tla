----------------------------- MODULE McuProofs -----------------------------
(***************************************************************************)
(* Proofs about McuExecutor on its flash log: between two calls the        *)
(* requests the executor waits for are the ones the ledger shows as asked  *)
(* and not answered; whatever power failure there was, the ring can be     *)
(* opened, the store agrees with it, and its complete lines implement the  *)
(* abstract audit chain.                                                   *)
(***************************************************************************)
EXTENDS McuExecutor, SequenceTheorems, WellFoundedInduction, TLAPS

(* Induction over the natural numbers: a set of them has a least element.   *)
LEMMA LeastNatural ==
    ASSUME NEW T, T \subseteq Nat, T # {}
    PROVE  \E n \in T : \A m \in T : n <= m
<1>1. PICK n \in T : \A m \in T : <<m, n>> \notin OpToRel(<, Nat)
  BY NatLessThanWellFounded, WFMin, Zenon
<1>2. \A m \in T : ~(m < n)
  BY <1>1, Zenon DEF OpToRel
<1>3. QED
  BY <1>2

(* ... and a greatest one if it is bounded. *)
LEMMA GreatestBelow ==
    ASSUME NEW T, T \subseteq Nat, T # {}, NEW b \in Nat, \A x \in T : x <= b
    PROVE  \E n \in T : \A m \in T : m <= n
<1>1. PICK u \in {b - x : x \in T} : \A v \in {b - x : x \in T} : u <= v
  <2>1. \A x \in T : b - x \in Nat
    OBVIOUS
  <2>2. QED
    BY <2>1, LeastNatural
<1>2. PICK n \in T : u = b - n
  BY <1>1
<1>3. \A m \in T : b - n <= b - m
  BY <1>1, <1>2
<1>4. QED
  BY <1>3

-----------------------------------------------------------------------------

(* A sequence, of whatever values. *)
IsSeq(s) == \E S : s \in Seq(S)

Types ==
    /\ IsSeq(written) /\ IsSeq(lines) /\ IsSeq(pendings)
    /\ booted \in Nat /\ next_fact_id \in Nat
    /\ IsSeq(medium)
    /\ IF pc = "off" THEN lines = <<>> ELSE booted <= Len(lines)

(* The requests the executor waits for, and what the ledger tells of them. *)
Waiting == {pendings[k].request_id : k \in DOMAIN pendings}
Open    == {FactAt(k).id : k \in {n \in SinceBoot("IoRequest") : ~AnsweredLater(n)}}

Since == booted + 1 .. Len(lines)

(* Ids grow: what has been written since the start has an id no greater     *)
(* than the counter.                                                        *)
Numbered ==
    \A k \in Since :
        /\ lines[k] \in 1 .. Len(written)
        /\ FactAt(k).id \in 1 .. next_fact_id
        /\ Writing => FactAt(k).id < out.id

(* No request waits twice. *)
OnePerRequest ==
    \A j, k \in DOMAIN pendings :
        pendings[j].request_id = pendings[k].request_id => j = k

(* The fact on its way to the log is the one the call is about. *)
OutFits ==
    Writing =>
        /\ pc # "off" /\ out.id = next_fact_id /\ out.id > 0
        /\ pc = "pause" <=> out.body.type = "IoRequest"
        /\ pc = "answer" <=> out.body.type = "IoResponse"

LastIs(type) == Len(lines) \in Since /\ LastFact.body.type = type

(* The ledger and the list agree, but for the request or the response that  *)
(* has landed and that the executor has yet to act on.                      *)
Balanced ==
    /\ Ready("answer") =>
          LastIs("IoResponse") /\ Open = Waiting \ {LastFact.body.request}
    /\ Ready("pause") =>
          /\ LastIs("IoRequest") /\ LastFact.id \notin Waiting
          /\ Open = Waiting \cup {LastFact.id}
    /\ ~Ready("answer") /\ ~Ready("pause") => Open = Waiting

IInv == Types /\ Numbered /\ OnePerRequest /\ OutFits /\ Balanced

-----------------------------------------------------------------------------
(* Sequences of whatever values. *)

LEMMA FunctionIsSeq ==
    ASSUME NEW n \in Nat, NEW f, f = [k \in 1 .. n |-> f[k]]
    PROVE  IsSeq(f) /\ Len(f) = n
<1> DEFINE S == {f[k] : k \in 1 .. n}
<1>1. f \in [1 .. n -> S]
  OBVIOUS
<1>2. f \in Seq(S)
  BY <1>1
<1>3. Len(f) = n
  BY <1>1, <1>2
<1> HIDE DEF S
<1> QED BY <1>2, <1>3 DEF IsSeq

LEMMA SeqLength ==
    ASSUME NEW s, IsSeq(s)
    PROVE  Len(s) \in Nat /\ DOMAIN s = 1 .. Len(s)
BY DEF IsSeq

LEMMA EmptyIsSeq == IsSeq(<<>>) /\ Len(<<>>) = 0
<1> <<>> \in Seq({})
  OBVIOUS
<1> QED BY DEF IsSeq

LEMMA Appended ==
    ASSUME NEW s, IsSeq(s), NEW e
    PROVE  /\ IsSeq(Append(s, e)) /\ Len(Append(s, e)) = Len(s) + 1
           /\ \A k \in 1 .. Len(s) : Append(s, e)[k] = s[k]
           /\ Append(s, e)[Len(s) + 1] = e
<1>1. PICK S : s \in Seq(S)
  BY DEF IsSeq
<1> DEFINE T == S \cup {e}
<1>2. s \in Seq(T) /\ e \in T
  BY <1>1
<1> HIDE DEF T
<1>3. Append(s, e) \in Seq(T)
  BY <1>2
<1> QED BY <1>2, <1>3 DEF IsSeq

(* Taking one element out keeps the others, in their places or one before.  *)
LEMMA Removed ==
    ASSUME NEW s, IsSeq(s), NEW i \in DOMAIN s
    PROVE  LET t == RemoveAt(s, i) IN
           /\ IsSeq(t) /\ Len(t) = Len(s) - 1
           /\ \A k \in 1 .. Len(t) : t[k] = s[IF k < i THEN k ELSE k + 1]
<1>1. PICK S : s \in Seq(S)
  BY DEF IsSeq
<1>2. Len(s) \in Nat /\ i \in 1 .. Len(s)
  BY <1>1
<1> DEFINE a == SubSeq(s, 1, i - 1)
           b == SubSeq(s, i + 1, Len(s))
<1>3. a \in Seq(S) /\ Len(a) = i - 1 /\ \A k \in 1 .. i - 1 : a[k] = s[k]
  BY <1>1, <1>2
<1>4. b \in Seq(S) /\ Len(b) = Len(s) - i /\ \A k \in 1 .. Len(s) - i : b[k] = s[i + k]
  BY <1>1, <1>2
<1>5. RemoveAt(s, i) = a \o b
  BY DEF RemoveAt
<1> HIDE DEF a, b
<1>6. a \o b \in Seq(S) /\ Len(a \o b) = Len(s) - 1
  BY <1>2, <1>3, <1>4
<1>7. ASSUME NEW k \in 1 .. Len(s) - 1
      PROVE  (a \o b)[k] = s[IF k < i THEN k ELSE k + 1]
  <2>1. CASE k < i
    BY <1>2, <1>3, <1>4, <2>1
  <2>2. CASE ~(k < i)
    <3>0. k \in 1 .. Len(a) + Len(b) /\ ~(k <= Len(a)) /\ k - Len(a) = k - (i - 1)
      BY <1>2, <1>3, <1>4, <2>2
    <3>1. (a \o b)[k] = b[k - (i - 1)]
      BY <1>3, <1>4, <3>0, ConcatProperties, SMTT(60)
    <3>2. k - (i - 1) \in 1 .. Len(s) - i /\ i + (k - (i - 1)) = k + 1
      BY <1>2, <2>2
    <3>3. b[k - (i - 1)] = s[i + (k - (i - 1))]
      BY <1>4, <3>2
    <3>4. (IF k < i THEN k ELSE k + 1) = k + 1
      BY <2>2
    <3> QED BY <3>1, <3>2, <3>3, <3>4
  <2> QED BY <2>1, <2>2
<1>8. IsSeq(a \o b)
  BY <1>6 DEF IsSeq
<1>9. \A k \in 1 .. Len(a \o b) : (a \o b)[k] = s[IF k < i THEN k ELSE k + 1]
  BY <1>6, <1>7
<1> QED BY <1>5, <1>6, <1>8, <1>9, Zenon

-----------------------------------------------------------------------------
(* The medium keeps its size. *)

LEMMA RebuiltIsSeq ==
    ASSUME NEW m, IsSeq(m), NEW f, f = [j \in DOMAIN m |-> f[j]] PROVE IsSeq(f)
BY SeqLength, FunctionIsSeq

LEMMA PreparedIsSeq ==
    ASSUME NEW rec, IsSeq(medium) PROVE IsSeq(Prepared(rec))
<1>1. ASSUME NEW p PROVE IsSeq(erase_page(medium, p))
  <2>1. erase_page(medium, p) = [j \in DOMAIN medium |-> erase_page(medium, p)[j]]
    BY DEF erase_page
  <2> QED BY <2>1, RebuiltIsSeq
<1> QED BY <1>1 DEF Prepared

LEMMA ProgramIsSeq ==
    ASSUME NEW m, IsSeq(m), NEW p, NEW bytes PROVE IsSeq(program(m, p, bytes))
<1>1. program(m, p, bytes) = [j \in DOMAIN m |-> program(m, p, bytes)[j]]
  BY DEF program
<1> QED BY <1>1, RebuiltIsSeq

-----------------------------------------------------------------------------
(* What the ring tells: the lines up to each cell. *)

(* The number of the line that a cell ends, in a sequence of its own. *)
Marks(m) == [k \in 1 .. Len(m) |-> IF IsNewline(m[k]) THEN <<m[k].line>> ELSE <<>>]

Marked(s, n, F) ==
    F = [k \in 0 .. n |-> IF k = 0 THEN <<>>
                          ELSE IF s[k] # <<>> THEN Append(F[k - 1], s[k][1]) ELSE F[k - 1]]

Reads(m, F) ==
    F = [k \in 0 .. Len(m) |-> IF k = 0 THEN <<>>
                               ELSE IF IsNewline(m[k]) THEN Append(F[k - 1], m[k].line)
                               ELSE F[k - 1]]

LEMMA MarkedExists ==
    ASSUME NEW s, NEW N \in Nat
    PROVE  \E F : Marked(s, N, F)
<1> DEFINE Bad == {n \in Nat : ~\E F : Marked(s, n, F)}
<1>1. SUFFICES ASSUME Bad # {} PROVE FALSE
  OBVIOUS
<1>2. PICK n \in Bad : \A m \in Bad : n <= m
  BY <1>1, LeastNatural
<1>3. n # 0
  <2>1. Marked(s, 0, [k \in 0 .. 0 |-> <<>>])
    BY DEF Marked
  <2> QED BY <2>1
<1>4. n - 1 \in Nat /\ n - 1 \notin Bad
  BY <1>2, <1>3
<1>5. PICK F : Marked(s, n - 1, F)
  BY <1>4
<1> DEFINE V == IF s[n] # <<>> THEN Append(F[n - 1], s[n][1]) ELSE F[n - 1]
           G == [k \in 0 .. n |-> IF k < n THEN F[k] ELSE V]
<1>6. \A k \in 0 .. n - 1 : F[k] = IF k = 0 THEN <<>>
                                   ELSE IF s[k] # <<>> THEN Append(F[k - 1], s[k][1]) ELSE F[k - 1]
  BY <1>5 DEF Marked
<1>7. ASSUME NEW k \in 0 .. n
      PROVE  G[k] = IF k = 0 THEN <<>>
                    ELSE IF s[k] # <<>> THEN Append(G[k - 1], s[k][1]) ELSE G[k - 1]
  <2>1. CASE k < n
    <3>1. k \in 0 .. n - 1 /\ G[k] = F[k]
      BY <1>4, <2>1
    <3>2. k # 0 => G[k - 1] = F[k - 1]
      BY <1>4, <2>1
    <3> QED BY <1>6, <3>1, <3>2
  <2>2. CASE k = n
    <3>1. k # 0 /\ G[k - 1] = F[n - 1] /\ G[k] = V
      BY <1>3, <1>4, <2>2
    <3> QED BY <2>2, <3>1
  <2> QED BY <1>4, <2>1, <2>2
<1>8. G = [k \in 0 .. n |-> G[k]]
  OBVIOUS
<1> HIDE DEF G
<1>9. Marked(s, n, G)
  BY <1>7, <1>8 DEF Marked
<1> QED BY <1>9

LEMMA MarkedIs ==
    ASSUME NEW s, NEW n \in Nat, NEW F, Marked(s, n, F)
    PROVE  /\ F[0] = <<>>
           /\ \A k \in 1 .. n :
                 /\ s[k] # <<>> => F[k] = Append(F[k - 1], s[k][1])
                 /\ s[k] = <<>> => F[k] = F[k - 1]
<1>1. F = [k \in 0 .. n |-> IF k = 0 THEN <<>>
                            ELSE IF s[k] # <<>> THEN Append(F[k - 1], s[k][1]) ELSE F[k - 1]]
  BY DEF Marked
<1>2. 0 \in 0 .. n
  OBVIOUS
<1>3. ASSUME NEW k \in 1 .. n
      PROVE  F[k] = IF s[k] # <<>> THEN Append(F[k - 1], s[k][1]) ELSE F[k - 1]
  <2>1. k \in 0 .. n /\ k # 0
    OBVIOUS
  <2> QED BY <1>1, <2>1
<1> QED BY <1>1, <1>2, <1>3

(* Where two sequences of marks agree, so do the lines. *)
LEMMA MarkedAgree ==
    ASSUME NEW s, NEW t, NEW n \in Nat, NEW F, NEW G, Marked(s, n, F), Marked(t, n, G),
           NEW b \in 0 .. n, \A k \in 1 .. b : t[k] = s[k]
    PROVE  G[b] = F[b]
<1> DEFINE Bad == {k \in 0 .. b : G[k] # F[k]}
<1>1. SUFFICES ASSUME Bad # {} PROVE FALSE
  OBVIOUS
<1>2. PICK k \in Bad : \A j \in Bad : k <= j
  <2>1. Bad \subseteq Nat
    OBVIOUS
  <2> QED BY <1>1, <2>1, LeastNatural
<1>3. F[0] = G[0] /\ k # 0
  BY MarkedIs, ZenonT(60)
<1>4. k \in 1 .. n /\ k \in 1 .. b /\ k - 1 \in 0 .. b /\ k - 1 \notin Bad
  BY <1>2, <1>3
<1>5. G[k - 1] = F[k - 1] /\ t[k] = s[k]
  BY <1>4
<1>6. /\ s[k] # <<>> => F[k] = Append(F[k - 1], s[k][1])
      /\ s[k] = <<>> => F[k] = F[k - 1]
  BY <1>4, MarkedIs
<1>7. /\ t[k] # <<>> => G[k] = Append(G[k - 1], t[k][1])
      /\ t[k] = <<>> => G[k] = G[k - 1]
  BY <1>4, MarkedIs
<1>8. G[k] = F[k]
  <2> HIDE DEF Bad
  <2> QED BY <1>5, <1>6, <1>7, Zenon
<1> QED BY <1>8

(* Cells without a mark add nothing. *)
LEMMA MarkedFlat ==
    ASSUME NEW s, NEW n \in Nat, NEW F, Marked(s, n, F),
           NEW a \in 0 .. n, NEW b \in a .. n, \A k \in a + 1 .. b : s[k] = <<>>
    PROVE  F[b] = F[a]
<1> DEFINE Bad == {k \in a .. b : F[k] # F[a]}
<1>1. SUFFICES ASSUME Bad # {} PROVE FALSE
  OBVIOUS
<1>2. PICK k \in Bad : \A j \in Bad : k <= j
  <2>1. Bad \subseteq Nat
    OBVIOUS
  <2> QED BY <1>1, <2>1, LeastNatural
<1>3. k \in a + 1 .. b /\ k \in 1 .. n /\ k - 1 \in a .. b /\ k - 1 \notin Bad
  BY <1>2
<1>4. F[k - 1] = F[a] /\ F[k] = F[k - 1]
  BY <1>3, MarkedIs
<1> QED BY <1>4

LEMMA MarkedAdds ==
    ASSUME NEW s, NEW n \in Nat, NEW F, Marked(s, n, F), NEW e \in 1 .. n, NEW l, s[e] = <<l>>
    PROVE  F[e] = Append(F[e - 1], l)
<1>1. s[e] # <<>> => F[e] = Append(F[e - 1], s[e][1])
  BY MarkedIs
<1>2. s[e] # <<>> /\ s[e][1] = l
  OBVIOUS
<1> QED BY <1>1, <1>2

LEMMA CommittedIs ==
    ASSUME NEW m, Len(m) \in Nat
    PROVE  \E F : Marked(Marks(m), Len(m), F) /\ Committed(m) = F[Len(m)]
<1> DEFINE n == Len(m)
           F == CHOOSE G : Reads(m, G)
<1>1. Committed(m) = F[n]
  BY DEF Committed, Reads
<1>2. \A k \in 1 .. n : /\ IsNewline(m[k]) => Marks(m)[k] = <<m[k].line>>
                        /\ ~IsNewline(m[k]) => Marks(m)[k] = <<>>
  BY DEF Marks
<1>3. \A l : <<l>> # <<>> /\ <<l>>[1] = l
  OBVIOUS
<1>4. \A G, k : k \in 0 .. n =>
        (IF k = 0 THEN <<>>
         ELSE IF IsNewline(m[k]) THEN Append(G[k - 1], m[k].line) ELSE G[k - 1])
        = (IF k = 0 THEN <<>>
           ELSE IF Marks(m)[k] # <<>> THEN Append(G[k - 1], Marks(m)[k][1]) ELSE G[k - 1])
  <2>1. \A k \in 0 .. n : k = 0 \/ k \in 1 .. n
    OBVIOUS
  <2> HIDE DEF n
  <2> QED BY <1>2, <1>3, <2>1
<1>5. ASSUME NEW G PROVE Reads(m, G) <=> Marked(Marks(m), n, G)
  BY <1>4, ZenonT(60) DEF Reads, Marked
<1>6. \E G : Marked(Marks(m), n, G)
  BY MarkedExists
<1>7. Reads(m, F)
  <2>1. \E G : Reads(m, G)
    BY <1>5, <1>6
  <2> HIDE DEF Reads
  <2> QED BY <2>1
<1> HIDE DEF F
<1> QED BY <1>1, <1>5, <1>7

(* The lines up to each cell are a sequence. *)
LEMMA CommittedIsSeq ==
    ASSUME IsSeq(medium) PROVE IsSeq(Committed(medium))
<1> DEFINE n == Len(medium)
           s == Marks(medium)
<1>1. n \in Nat
  BY SeqLength
<1>2. PICK F : Marked(s, n, F) /\ Committed(medium) = F[n]
  BY <1>1, CommittedIs
<1> HIDE DEF n, s
<1> DEFINE Bad == {k \in 0 .. n : ~IsSeq(F[k])}
<1>3. Bad = {}
  <2>1. SUFFICES ASSUME Bad # {} PROVE FALSE
    OBVIOUS
  <2>2. PICK k \in Bad : \A j \in Bad : k <= j
    <3>1. Bad \subseteq Nat
      OBVIOUS
    <3> QED BY <2>1, <3>1, LeastNatural
  <2>3. F[0] = <<>> /\ k # 0
    BY <1>1, <1>2, MarkedIs, EmptyIsSeq, ZenonT(60)
  <2>4. k \in 1 .. n /\ k - 1 \in 0 .. n /\ k - 1 \notin Bad
    BY <1>1, <2>2, <2>3
  <2>5. IsSeq(F[k - 1])
    BY <2>4
  <2>6. /\ s[k] # <<>> => F[k] = Append(F[k - 1], s[k][1])
        /\ s[k] = <<>> => F[k] = F[k - 1]
    BY <1>1, <1>2, <2>4, MarkedIs
  <2>7. IsSeq(F[k])
    <3>1. CASE s[k] # <<>>
      <4>1. F[k] = Append(F[k - 1], s[k][1])
        BY <2>6, <3>1
      <4>2. \A x : IsSeq(Append(F[k - 1], x))
        BY <2>5, Appended, Zenon
      <4> QED BY <4>1, <4>2
    <3> QED BY <2>5, <2>6, <3>1
  <2> QED BY <2>7
<1>4. n \in 0 .. n
  BY <1>1
<1> QED BY <1>2, <1>3, <1>4

-----------------------------------------------------------------------------
(* A fact is handed to the log. *)

(* What the ledger tells depends on the lines, the list and the start. *)
LEMMA Unmoved ==
    ASSUME UNCHANGED <<written, lines, booted>>
    PROVE  Open' = Open /\ Since' = Since
           /\ (\A k : FactAt(k)' = FactAt(k)) /\ LastFact' = LastFact
BY DEF Open, AnsweredLater, Since, SinceBoot, FactAt, LastFact

LEMMA OutIsNoNone == ASSUME NEW i, NEW b PROVE [id |-> i, body |-> b] # NoFact
<1>1. DOMAIN [id |-> i, body |-> b] = {"id", "body"}
  OBVIOUS
<1>2. DOMAIN NoFact = {"type"}
  BY DEF NoFact
<1>3. "type" \notin {"id", "body"}
  OBVIOUS
<1> QED BY <1>1, <1>2, <1>3

LEMMA EmitKeeps ==
    ASSUME IInv, ~Writing, NEW fact, NEW then, Emit(fact, then),
           UNCHANGED pendings, Open = Waiting,
           then # "off", pc # "off",
           then = "pause" <=> fact.type = "IoRequest",
           then = "answer" <=> fact.type = "IoResponse"
    PROVE  IInv'
<1>1. /\ out' = [id |-> next_fact_id + 1, body |-> fact] /\ pc' = then
      /\ next_fact_id' = next_fact_id + 1
      /\ UNCHANGED <<written, medium, lines, booted>>
  BY DEF Emit, wal, store
<1>2. Writing' /\ out'.id = next_fact_id + 1 /\ out'.body = fact
  BY <1>1, OutIsNoNone DEF Writing
<1>3. Open' = Open /\ Since' = Since /\ \A k : FactAt(k)' = FactAt(k)
  BY <1>1, Unmoved
<1>4. next_fact_id \in Nat
  BY DEF IInv, Types
<1>5. Types'
  BY <1>1, <1>4 DEF IInv, Types
<1>6. Numbered'
  <2> SUFFICES ASSUME NEW k \in Since
               PROVE  /\ lines'[k] \in 1 .. Len(written')
                      /\ FactAt(k).id \in 1 .. next_fact_id' /\ FactAt(k).id < out'.id
    BY <1>3 DEF Numbered
  <2>1. lines[k] \in 1 .. Len(written) /\ FactAt(k).id \in 1 .. next_fact_id
    BY DEF IInv, Numbered
  <2> QED BY <1>1, <1>2, <1>4, <2>1
<1>7. OnePerRequest'
  BY DEF IInv, OnePerRequest
<1>8. OutFits'
  BY <1>1, <1>2, <1>4 DEF OutFits
<1>9. Balanced'
  BY <1>2, <1>3 DEF Balanced, Ready, Waiting
<1> QED BY <1>5, <1>6, <1>7, <1>8, <1>9 DEF IInv

-----------------------------------------------------------------------------
(* The log takes the fact. *)

(* The line is one of those written, old or new, and holds the record. *)
LEMMA Remembered ==
    ASSUME NEW rec, IsSeq(written), Remember(rec)
    PROVE  /\ IsSeq(written') /\ Len(written') \in Nat
           /\ Len(written) <= Len(written')
           /\ \A n \in 1 .. Len(written) : written'[n] = written[n]
           /\ chain_step(rec) \in 1 .. Len(written') /\ written'[chain_step(rec)] = rec
<1>1. Len(written) \in Nat /\ DOMAIN written = 1 .. Len(written)
  BY SeqLength
<1>2. CASE Contains(written, rec)
  <2>1. written' = written
    BY <1>2 DEF Remember
  <2>2. chain_step(rec) = CHOOSE n \in DOMAIN written : written[n] = rec
    BY <1>2 DEF chain_step
  <2>3. \E n \in DOMAIN written : written[n] = rec
    BY <1>1, <1>2 DEF Contains
  <2>4. chain_step(rec) \in DOMAIN written /\ written[chain_step(rec)] = rec
    BY <2>2, <2>3
  <2> QED BY <1>1, <2>1, <2>4
<1>3. CASE ~Contains(written, rec)
  <2>1. written' = Append(written, rec) /\ chain_step(rec) = Len(written) + 1
    BY <1>3 DEF Remember, chain_step
  <2>2. /\ IsSeq(written') /\ Len(written') = Len(written) + 1
        /\ \A n \in 1 .. Len(written) : written'[n] = written[n]
        /\ written'[Len(written) + 1] = rec
    BY <2>1, Appended
  <2> QED BY <1>1, <2>1, <2>2
<1> QED BY <1>2, <1>3

(* The ledger grows by the fact that was on its way. *)
LEMMA WriteGrows ==
    ASSUME IInv, Write
    PROVE  /\ IsSeq(written') /\ IsSeq(lines')
           /\ Len(lines') = Len(lines) + 1 /\ Since' = Since \cup {Len(lines')}
           /\ \A k \in Since : FactAt(k)' = FactAt(k) /\ lines'[k] \in 1 .. Len(written')
           /\ LastFact' = out /\ lines'[Len(lines')] \in 1 .. Len(written')
           /\ Len(lines') \notin Since
<1> DEFINE rec == Record(version, out)
<1>1. /\ Remember(rec) /\ lines' = Append(lines, chain_step(rec)) /\ booted' = booted
  BY DEF Write, Landed
<1>2. IsSeq(written) /\ IsSeq(lines) /\ booted \in Nat /\ booted <= Len(lines)
  BY DEF IInv, Types, Write, OutFits
<1>3. rec.fact = out
  BY DEF Record
<1> HIDE DEF rec
<1>4. /\ IsSeq(written') /\ Len(written') \in Nat /\ Len(written) <= Len(written')
      /\ \A n \in 1 .. Len(written) : written'[n] = written[n]
      /\ chain_step(rec) \in 1 .. Len(written') /\ written'[chain_step(rec)] = rec
  BY <1>1, <1>2, Remembered
<1>5. /\ IsSeq(lines') /\ Len(lines') = Len(lines) + 1
      /\ \A k \in 1 .. Len(lines) : lines'[k] = lines[k]
      /\ lines'[Len(lines) + 1] = chain_step(rec)
  BY <1>1, <1>2, Appended
<1>6. Len(lines) \in Nat /\ Len(written) \in Nat
  BY <1>2, SeqLength
<1>7. Since' = Since \cup {Len(lines')} /\ Len(lines') \notin Since
  BY <1>1, <1>2, <1>5, <1>6 DEF Since
<1>8. ASSUME NEW k \in Since
      PROVE  FactAt(k)' = FactAt(k) /\ lines'[k] \in 1 .. Len(written')
  <2>1. lines[k] \in 1 .. Len(written)
    BY DEF IInv, Numbered
  <2>2. k \in 1 .. Len(lines)
    BY <1>2, <1>6 DEF Since
  <2>3. lines'[k] = lines[k] /\ written'[lines[k]] = written[lines[k]]
    BY <1>4, <1>5, <2>1, <2>2
  <2> QED BY <1>4, <1>6, <2>1, <2>3 DEF FactAt
<1>9. LastFact' = out /\ lines'[Len(lines')] \in 1 .. Len(written')
  BY <1>3, <1>4, <1>5 DEF LastFact, FactAt
<1> QED BY <1>4, <1>5, <1>7, <1>8, <1>9

(* What the ledger tells of the requests after it has taken the fact: a new *)
(* request is open, and a response settles the one it names, if it is there.*)
LEMMA WriteTells ==
    ASSUME IInv, Write
    PROVE  /\ out.body.type = "IoRequest" => Open' = Open \cup {out.id}
           /\ out.body.type = "IoResponse" => Open' = Open \ {out.body.request}
           /\ out.body.type \notin {"IoRequest", "IoResponse"} => Open' = Open
<1> DEFINE n == Len(lines')
           New(k) == written'[lines'[k]].fact
           Is(k, type) == FactAt(k).body.type = type
           Later(k) == \E j \in Since : /\ Is(j, "IoResponse") /\ j > k
                                        /\ FactAt(j).body.request = FactAt(k).id
           Later1(k) == \E j \in Since' : /\ New(j).body.type = "IoResponse" /\ j > k
                                          /\ New(j).body.request = New(k).id
<1>1. /\ Since' = Since \cup {n} /\ n \notin Since
      /\ \A k \in Since : FactAt(k)' = FactAt(k)
      /\ FactAt(Len(lines))' = out
  BY WriteGrows DEF LastFact
<1>2. New(n) = out /\ \A k \in Since : New(k) = FactAt(k)
  BY <1>1 DEF FactAt
<1>3. \A k \in Since : n > k /\ ~(k > n)
  <2>1. n \in Nat /\ n = Len(lines) + 1 /\ Len(lines) \in Nat /\ booted \in Nat
    BY WriteGrows, SeqLength DEF IInv, Types
  <2> QED BY <2>1 DEF Since
<1>4. Open = {FactAt(k).id : k \in {m \in Since : Is(m, "IoRequest") /\ ~Later(m)}}
  BY DEF Open, AnsweredLater, SinceBoot, Since
<1>5. Open' = {New(k).id : k \in {m \in Since' : New(m).body.type = "IoRequest" /\ ~Later1(m)}}
  BY DEF Open, AnsweredLater, SinceBoot, Since, FactAt
<1>6. ~(n > n)
  <2>1. n \in Nat
    BY WriteGrows, SeqLength
  <2> QED BY <2>1
<1> HIDE DEF n, New
<1>7. ~Later1(n)
  BY <1>1, <1>3, <1>6
<1>8. ASSUME NEW k \in Since
      PROVE  Later1(k) <=> \/ Later(k)
                           \/ out.body.type = "IoResponse" /\ out.body.request = FactAt(k).id
  BY <1>1, <1>2, <1>3
<1> HIDE DEF Later, Later1
<1> DEFINE Req == {m \in Since : Is(m, "IoRequest") /\ ~Later(m)}
           Req1 == {m \in Since' : New(m).body.type = "IoRequest" /\ ~Later1(m)}
<1>9. CASE out.body.type = "IoRequest"
  <2>1. Req1 = Req \cup {n}
    BY <1>1, <1>2, <1>7, <1>8, <1>9
  <2> QED BY <1>2, <1>4, <1>5, <1>9, <2>1
<1>10. CASE out.body.type = "IoResponse"
  <2>1. Req1 = {m \in Req : FactAt(m).id # out.body.request}
    BY <1>1, <1>2, <1>8, <1>10
  <2> QED BY <1>2, <1>4, <1>5, <1>10, <2>1
<1>11. CASE out.body.type \notin {"IoRequest", "IoResponse"}
  <2>1. Req1 = Req
    BY <1>1, <1>2, <1>8, <1>11
  <2> QED BY <1>2, <1>4, <1>5, <1>11, <2>1
<1> QED BY <1>9, <1>10, <1>11

(* What the ledger tells of is older than the fact on its way. *)
LEMMA OlderThanOut ==
    ASSUME IInv, Writing
    PROVE  out.id \notin Open
<1>1. ASSUME NEW k \in Since
      PROVE  FactAt(k).id \in Nat /\ FactAt(k).id < out.id /\ out.id \in Nat
  BY DEF IInv, Numbered, OutFits, Types
<1>2. SinceBoot("IoRequest") \subseteq Since
  BY DEF SinceBoot, Since
<1> QED BY <1>1, <1>2 DEF Open

LEMMA WriteKeeps == ASSUME IInv, Write PROVE IInv'
<1>1. /\ IsSeq(written') /\ IsSeq(lines')
      /\ Len(lines') = Len(lines) + 1 /\ Since' = Since \cup {Len(lines')}
      /\ \A k \in Since : FactAt(k)' = FactAt(k) /\ lines'[k] \in 1 .. Len(written')
      /\ LastFact' = out /\ lines'[Len(lines')] \in 1 .. Len(written')
  BY WriteGrows
<1>2. /\ Writing /\ ~Writing' /\ UNCHANGED <<pc, pendings, next_fact_id, booted>>
  BY DEF Write, Writing, memory
<1>3. /\ pc # "off" /\ out.id = next_fact_id
      /\ pc = "pause" <=> out.body.type = "IoRequest"
      /\ pc = "answer" <=> out.body.type = "IoResponse"
  BY <1>2 DEF IInv, OutFits
<1>4. next_fact_id \in Nat /\ booted \in Nat /\ booted <= Len(lines) /\ Len(lines) \in Nat
  BY <1>3, SeqLength DEF IInv, Types
<1>5. IsSeq(medium')
  BY PreparedIsSeq, ProgramIsSeq DEF Write, Landed, IInv, Types
<1>6. Types'
  BY <1>1, <1>2, <1>3, <1>4, <1>5 DEF IInv, Types
<1>7. Numbered'
  <2> SUFFICES ASSUME NEW k \in Since'
               PROVE  /\ lines'[k] \in 1 .. Len(written')
                      /\ FactAt(k)'.id \in 1 .. next_fact_id
    BY <1>2 DEF Numbered
  <2>1. CASE k \in Since
    <3>1. FactAt(k)' = FactAt(k) /\ lines'[k] \in 1 .. Len(written')
      BY <1>1, <2>1
    <3> QED BY <2>1, <3>1 DEF IInv, Numbered
  <2>2. CASE k = Len(lines')
    <3>1. FactAt(k)' = out
      BY <1>1, <2>2 DEF LastFact, FactAt
    <3>2. out.id \in 1 .. next_fact_id
      <4>1. out.id > 0
        BY <1>2 DEF IInv, OutFits
      <4> QED BY <1>3, <1>4, <4>1
    <3> QED BY <1>1, <1>3, <2>2, <3>1, <3>2
  <2> QED BY <1>1, <2>1, <2>2
<1>8. OnePerRequest'
  BY <1>2 DEF IInv, OnePerRequest
<1>9. OutFits'
  BY <1>2 DEF OutFits
<1>10. Open = Waiting /\ Waiting' = Waiting
  BY <1>2 DEF IInv, Balanced, Ready, Waiting
<1>11. Balanced'
  <2>1. /\ out.body.type = "IoRequest" => Open' = Open \cup {out.id}
        /\ out.body.type = "IoResponse" => Open' = Open \ {out.body.request}
        /\ out.body.type \notin {"IoRequest", "IoResponse"} => Open' = Open
    BY WriteTells
  <2>2. out.id \notin Open
    BY <1>2, OlderThanOut
  <2>3. Len(lines') \in Since'
    BY <1>1
  <2>4. CASE pc = "answer"
    <3>1. out.body.type = "IoResponse" /\ out.body.type # "IoRequest"
      BY <1>3, <2>4
    <3>2. Open' = Waiting' \ {LastFact'.body.request}
      BY <1>1, <1>10, <2>1, <3>1
    <3> QED BY <1>1, <1>2, <2>3, <2>4, <3>1, <3>2 DEF Balanced, LastIs, Ready
  <2>5. CASE pc = "pause"
    <3>1. out.body.type = "IoRequest" /\ out.body.type # "IoResponse"
      BY <1>3, <2>5
    <3>2. Open' = Waiting' \cup {LastFact'.id} /\ LastFact'.id \notin Waiting'
      BY <1>1, <1>10, <2>1, <2>2, <3>1
    <3> QED BY <1>1, <1>2, <2>3, <2>5, <3>1, <3>2 DEF Balanced, LastIs, Ready
  <2>6. CASE pc # "answer" /\ pc # "pause"
    <3>1. Open' = Waiting'
      BY <1>3, <1>10, <2>1, <2>6
    <3> QED BY <1>2, <2>6, <3>1 DEF Balanced, Ready
  <2> QED BY <2>4, <2>5, <2>6
<1> QED BY <1>6, <1>7, <1>8, <1>9, <1>11 DEF IInv

-----------------------------------------------------------------------------
(* The other steps. *)

(* A step that leaves the ledger, the list and the counter alone and ends   *)
(* with nothing on its way.                                                 *)
LEMMA QuietKeeps ==
    ASSUME IInv, UNCHANGED <<written, lines, booted, pendings, next_fact_id>>,
           IsSeq(medium'),
           pc # "off", out' = NoFact, pc' \notin {"off", "answer", "pause"},
           Open = Waiting
    PROVE  IInv'
<1>1. Open' = Open /\ Since' = Since /\ \A k : FactAt(k)' = FactAt(k)
  BY Unmoved
<1>2. ~Writing'
  BY DEF Writing
<1>3. Types'
  BY DEF IInv, Types
<1>4. Numbered'
  BY <1>1, <1>2 DEF IInv, Numbered
<1>5. OnePerRequest'
  BY DEF IInv, OnePerRequest
<1>6. OutFits' /\ Balanced'
  BY <1>1, <1>2 DEF OutFits, Balanced, Ready, Waiting
<1> QED BY <1>3, <1>4, <1>5, <1>6 DEF IInv

LEMMA WriteFailsKeeps == ASSUME IInv, WriteFails PROVE IInv'
<1>1. IsSeq(medium')
  BY PreparedIsSeq DEF WriteFails, NotLanded, IInv, Types
<1>2. pc # "off" /\ Open = Waiting
  BY DEF IInv, OutFits, Balanced, Ready, WriteFails
<1>3. /\ UNCHANGED <<written, lines, booted, pendings, next_fact_id>>
      /\ out' = NoFact /\ pc' = "idle"
  BY DEF WriteFails, NotLanded, memory
<1> QED BY <1>1, <1>2, <1>3, QuietKeeps

LEMMA AnswerKnownKeeps == ASSUME IInv, AnswerKnown PROVE IInv'
<1> DEFINE r == LastFact.body.request
<1>1. PICK i \in Answered(r) : pendings' = RemoveAt(pendings, i)
  BY DEF AnswerKnown
<1>2. /\ pc' = "drain" /\ UNCHANGED <<written, medium, lines, out, next_fact_id, booted>>
      /\ pc = "answer" /\ ~Writing
  BY DEF AnswerKnown, Ready, wal, store
<1>3. IsSeq(pendings) /\ Len(pendings) \in Nat /\ DOMAIN pendings = 1 .. Len(pendings)
  BY SeqLength DEF IInv, Types
<1>4. i \in DOMAIN pendings /\ pendings[i].request_id = r
  BY <1>1, SMTT(60) DEF Answered
<1>5. /\ IsSeq(pendings') /\ Len(pendings') = Len(pendings) - 1
      /\ \A k \in 1 .. Len(pendings') : pendings'[k] = pendings[IF k < i THEN k ELSE k + 1]
  BY <1>1, <1>3, <1>4, Removed, ZenonT(60)
<1>6. DOMAIN pendings' = 1 .. Len(pendings) - 1
  BY <1>5, SeqLength
<1>7. Open = Waiting \ {r}
  BY <1>2 DEF IInv, Balanced, Ready
<1> HIDE DEF r
<1> DEFINE From(k) == IF k < i THEN k ELSE k + 1
<1>8. ASSUME NEW k \in DOMAIN pendings'
      PROVE  From(k) \in DOMAIN pendings /\ From(k) # i /\ pendings'[k] = pendings[From(k)]
  BY <1>3, <1>4, <1>5, <1>6
<1>9. \A j, k \in DOMAIN pendings' : From(j) = From(k) => j = k
  BY <1>3, <1>4, <1>6
<1>10. ASSUME NEW j \in DOMAIN pendings, j # i
       PROVE  \E k \in DOMAIN pendings' : From(k) = j
  <2>1. CASE j < i
    BY <1>3, <1>4, <1>6, <2>1
  <2>2. CASE j > i
    <3>1. j - 1 \in DOMAIN pendings' /\ From(j - 1) = j
      BY <1>3, <1>4, <1>6, <2>2
    <3> QED BY <3>1
  <2> QED BY <1>3, <1>4, <1>10, <2>1, <2>2
<1> HIDE DEF From
<1>11. \A j, k \in DOMAIN pendings : pendings[j].request_id = pendings[k].request_id => j = k
  BY DEF IInv, OnePerRequest
<1>12. OnePerRequest'
  <2> SUFFICES ASSUME NEW j \in DOMAIN pendings', NEW k \in DOMAIN pendings',
                      pendings'[j].request_id = pendings'[k].request_id
               PROVE  j = k
    BY DEF OnePerRequest
  <2>1. From(j) = From(k)
    BY <1>8, <1>11
  <2> QED BY <1>9, <2>1
<1>13. Waiting' = Waiting \ {r}
  <2>1. ASSUME NEW x \in Waiting' PROVE x \in Waiting \ {r}
    <3>1. PICK k \in DOMAIN pendings' : x = pendings'[k].request_id
      BY DEF Waiting
    <3>2. From(k) \in DOMAIN pendings /\ From(k) # i /\ x = pendings[From(k)].request_id
      BY <1>8, <3>1
    <3> QED BY <1>4, <1>11, <3>2 DEF Waiting
  <2>2. ASSUME NEW x \in Waiting, x # r PROVE x \in Waiting'
    <3>1. PICK j \in DOMAIN pendings : x = pendings[j].request_id
      BY DEF Waiting
    <3>2. j # i
      BY <1>4, <2>2, <3>1
    <3>3. PICK k \in DOMAIN pendings' : From(k) = j
      BY <1>10, <3>2
    <3> QED BY <1>8, <3>1, <3>3 DEF Waiting
  <2> QED BY <2>1, <2>2
<1>14. Open' = Open /\ Since' = Since /\ \A k : FactAt(k)' = FactAt(k)
  BY <1>2, Unmoved
<1>15. ~Writing'
  BY <1>2 DEF Writing
<1>16. Types'
  BY <1>2, <1>5 DEF IInv, Types
<1>17. Numbered'
  BY <1>2, <1>14, <1>15 DEF IInv, Numbered
<1>18. OutFits' /\ Balanced'
  BY <1>2, <1>7, <1>13, <1>14, <1>15 DEF OutFits, Balanced, Ready
<1> QED BY <1>12, <1>16, <1>17, <1>18 DEF IInv

LEMMA PauseKeeps == ASSUME IInv, Pause PROVE IInv'
<1>1. PICK p : pendings' = Append(pendings, p) /\ p.request_id = LastFact.id
  BY DEF Pause, register
<1>2. /\ pc' = "idle" /\ UNCHANGED <<written, medium, lines, out, next_fact_id, booted>>
      /\ pc = "pause" /\ ~Writing
  BY DEF Pause, Ready, wal, store
<1>3. IsSeq(pendings) /\ Len(pendings) \in Nat /\ DOMAIN pendings = 1 .. Len(pendings)
  BY SeqLength DEF IInv, Types
<1>4. /\ IsSeq(pendings') /\ Len(pendings') = Len(pendings) + 1
      /\ \A k \in 1 .. Len(pendings) : pendings'[k] = pendings[k]
      /\ pendings'[Len(pendings) + 1] = p
  BY <1>1, <1>3, Appended
<1>5. DOMAIN pendings' = DOMAIN pendings \cup {Len(pendings) + 1}
  <2>1. DOMAIN pendings' = 1 .. Len(pendings')
    BY <1>4, SeqLength
  <2> QED BY <1>3, <1>4, <2>1
<1>6. LastFact.id \notin Waiting /\ Open = Waiting \cup {LastFact.id}
  BY <1>2 DEF IInv, Balanced, Ready
<1>7. Waiting' = Waiting \cup {LastFact.id}
  BY <1>1, <1>3, <1>4, <1>5 DEF Waiting
<1>8. OnePerRequest'
  <2>1. \A j, k \in DOMAIN pendings : pendings[j].request_id = pendings[k].request_id => j = k
    BY DEF IInv, OnePerRequest
  <2>2. \A k \in DOMAIN pendings : pendings[k].request_id # p.request_id
    BY <1>1, <1>6 DEF Waiting
  <2> QED BY <1>3, <1>4, <1>5, <2>1, <2>2 DEF OnePerRequest
<1>9. Open' = Open /\ Since' = Since /\ \A k : FactAt(k)' = FactAt(k)
  BY <1>2, Unmoved
<1>10. ~Writing'
  BY <1>2 DEF Writing
<1>11. Types'
  BY <1>2, <1>4 DEF IInv, Types
<1>12. Numbered'
  BY <1>2, <1>9, <1>10 DEF IInv, Numbered
<1>13. OutFits' /\ Balanced'
  BY <1>2, <1>6, <1>7, <1>9, <1>10 DEF OutFits, Balanced, Ready
<1> QED BY <1>8, <1>11, <1>12, <1>13 DEF IInv

LEMMA PowerFailsKeeps == ASSUME IInv, PowerFails PROVE IInv'
<1>1. /\ lines' = <<>> /\ pc' = "off" /\ out' = NoFact /\ pendings' = <<>>
      /\ next_fact_id' = 0 /\ booted' = booted
  BY DEF PowerFails, StoreLost
<1>2. IsSeq(written) /\ booted \in Nat /\ IsSeq(medium)
  BY DEF IInv, Types
<1>3. IsSeq(written') /\ IsSeq(medium')
  <2>1. CASE UNCHANGED <<written, medium>>
    BY <1>2, <2>1
  <2>2. CASE Writing /\ CutShort(Record(version, out)) /\ ~UNCHANGED <<written, medium>>
    <3>1. /\ Remember(Record(version, out))
          /\ \E p, bytes : medium' = program(Prepared(Record(version, out)), p, bytes)
      BY <2>2, Zenon DEF CutShort
    <3> QED BY <1>2, <3>1, Remembered, PreparedIsSeq, ProgramIsSeq
  <2> QED BY <2>1, <2>2 DEF PowerFails
<1>4. ~Writing' /\ Since' = {}
  BY <1>1, <1>2, EmptyIsSeq DEF Writing, Since
<1>5. Types'
  BY <1>1, <1>2, <1>3, EmptyIsSeq DEF Types
<1>6. Numbered' /\ OnePerRequest' /\ OutFits'
  BY <1>1, <1>4, EmptyIsSeq DEF Numbered, OnePerRequest, OutFits
<1>7. Open' = {} /\ Waiting' = {}
  <2>1. SinceBoot("IoRequest")' = {}
    BY <1>4 DEF SinceBoot, Since
  <2>2. DOMAIN pendings' = {}
    BY <1>1, EmptyIsSeq
  <2> QED BY <2>1, <2>2 DEF Open, Waiting
<1>8. Balanced'
  BY <1>1, <1>7 DEF Balanced, Ready
<1> QED BY <1>5, <1>6, <1>8 DEF IInv

LEMMA BootKeeps == ASSUME IInv, Boot PROVE IInv'
<1>1. /\ lines' = Committed(medium) /\ pc' = "idle" /\ booted' = Len(lines') /\ pc = "off"
      /\ UNCHANGED <<written, medium, out, pendings, next_fact_id>>
  BY DEF Boot, open, memory
<1>2. IsSeq(lines') /\ Len(lines') \in Nat
  BY <1>1, CommittedIsSeq, SeqLength DEF IInv, Types
<1>3. ~Writing /\ ~Writing'
  BY <1>1 DEF IInv, OutFits, Writing
<1>4. Since = {} /\ Since' = {}
  BY <1>1, <1>2, EmptyIsSeq DEF Since, IInv, Types
<1>5. Open = {} /\ Open' = {}
  <2>1. SinceBoot("IoRequest") = {} /\ SinceBoot("IoRequest")' = {}
    BY <1>4 DEF SinceBoot, Since
  <2> QED BY <2>1 DEF Open
<1>6. Waiting = {} /\ Waiting' = Waiting
  BY <1>1, <1>5 DEF IInv, Balanced, Ready, Waiting
<1>7. Types'
  BY <1>1, <1>2 DEF IInv, Types
<1>8. Numbered' /\ OnePerRequest' /\ OutFits'
  BY <1>1, <1>3, <1>4 DEF IInv, Numbered, OnePerRequest, OutFits
<1>9. Balanced'
  BY <1>1, <1>5, <1>6 DEF Balanced, Ready
<1> QED BY <1>7, <1>8, <1>9 DEF IInv

-----------------------------------------------------------------------------
(* The theorem. *)

LEMMA InitHolds == Init => IInv
<1> SUFFICES ASSUME Init PROVE IInv
  OBVIOUS
<1>1. /\ written = <<>> /\ medium = Blank /\ lines = <<>> /\ pendings = <<>>
      /\ booted = 0 /\ next_fact_id = 0 /\ out = NoFact /\ pc = "idle"
  BY DEF Init, with_wal_store
<1>2. ~Writing /\ Since = {}
  BY <1>1, EmptyIsSeq DEF Writing, Since
<1>3. IsSeq(medium)
  <2> DEFINE N == PageSize * PageCount
  <2>1. N \in Nat
    BY FlashAssumption
  <2>2. medium = [k \in 1 .. N |-> medium[k]]
    BY <1>1 DEF Blank
  <2> HIDE DEF N
  <2> QED BY <2>1, <2>2, FunctionIsSeq
<1>4. Types
  BY <1>1, <1>3, EmptyIsSeq DEF Types
<1>5. Open = {} /\ Waiting = {}
  <2>1. SinceBoot("IoRequest") = {}
    BY <1>2 DEF SinceBoot, Since
  <2>2. DOMAIN pendings = {}
    BY <1>1, EmptyIsSeq
  <2> QED BY <2>1, <2>2 DEF Open, Waiting
<1>6. Numbered /\ OnePerRequest /\ OutFits /\ Balanced
  BY <1>1, <1>2, <1>5, EmptyIsSeq DEF Numbered, OnePerRequest, OutFits, Balanced, Ready
<1> QED BY <1>4, <1>6 DEF IInv

(* Elsewhere than after a landed request or response the two agree. *)
LEMMA AtRest ==
    ASSUME IInv, NEW p, Ready(p), p # "answer", p # "pause"
    PROVE  Open = Waiting /\ ~Writing /\ pc = p
BY DEF IInv, Balanced, Ready

LEMMA FactTypes ==
    /\ \A i, c : CommandFact(i, c).type = "Command"
    /\ \A r, ok : IoResponseFact(r, ok).type = "IoResponse" /\ IoResponseFact(r, ok).request = r
    /\ \A r, c : IoRequestFact(r, c).type = "IoRequest"
    /\ \A c, d, q : TransitionFact(c, d, q).type = "StateTransition"
    /\ \A c : ViolationFact(c).type = "Violation"
    /\ \A v : StableFact(v).type = "Stable"
    /\ TraceFact.type = "TransitionTrace" /\ ErrorFact.type = "Error"
BY DEF CommandFact, IoResponseFact, IoRequestFact, TransitionFact, ViolationFact,
       StableFact, TraceFact, ErrorFact

(* A fact that is neither request nor response. *)
LEMMA PlainEmitKeeps ==
    ASSUME IInv, ~Writing, pc # "off", Open = Waiting, UNCHANGED pendings,
           NEW fact, NEW then, Emit(fact, then),
           then \notin {"off", "pause", "answer"}, fact.type \notin {"IoRequest", "IoResponse"}
    PROVE  IInv'
BY EmitKeeps

LEMMA ExecStepKeeps == ASSUME IInv, ExecStep PROVE IInv'
<1>1. CASE Write
  BY <1>1, WriteKeeps
<1>2. CASE WriteFails
  BY <1>2, WriteFailsKeeps
<1>3. CASE Submit
  <2>1. Ready("submit") /\ UNCHANGED <<written, medium, lines, booted, pendings, next_fact_id, out>>
        /\ pc' = "drain"
    BY <1>3 DEF Submit, wal, store
  <2>2. Open = Waiting /\ out' = NoFact /\ pc = "submit"
    BY <2>1, AtRest DEF Writing
  <2>3. IsSeq(medium')
    BY <2>1 DEF IInv, Types
  <2> QED BY <2>1, <2>2, <2>3, QuietKeeps
<1>4. CASE AnswerUnknown
  <2>1. /\ pc = "answer" /\ ~Writing /\ UNCHANGED pendings /\ Emit(ErrorFact, "drain")
        /\ Answered(LastFact.body.request) = {}
    BY <1>4 DEF AnswerUnknown, Ready, memory
  <2>2. Open = Waiting \ {LastFact.body.request}
    BY <2>1 DEF IInv, Balanced, Ready
  <2>3. LastFact.body.request \notin Waiting
    BY <2>1 DEF Answered, Waiting
  <2> QED BY <2>1, <2>2, <2>3, FactTypes, PlainEmitKeeps
<1>5. CASE AnswerKnown
  BY <1>5, AnswerKnownKeeps
<1>6. CASE DrainLimit
  <2>1. Ready("drain") /\ UNCHANGED pendings /\ Emit(ErrorFact, "clear")
    BY <1>6 DEF DrainLimit
  <2> QED BY <2>1, AtRest, FactTypes, PlainEmitKeeps
<1>7. CASE Clear
  <2>1. Ready("clear") /\ UNCHANGED pendings /\ Emit(StableFact(version), "return")
    BY <1>7 DEF Clear
  <2> QED BY <2>1, AtRest, FactTypes, PlainEmitKeeps
<1>8. CASE DrainOverflow
  <2>1. Ready("drain") /\ UNCHANGED pendings /\ Emit(ErrorFact, "clear")
    BY <1>8, Zenon DEF DrainOverflow, CanStep
  <2> QED BY <2>1, AtRest, FactTypes, PlainEmitKeeps
<1>9. CASE DrainState
  <2>1. /\ Ready("drain") /\ UNCHANGED pendings
        /\ \E c, d, q : Emit(TransitionFact(c, d, q), "bump")
    BY <1>9, Zenon DEF DrainState, CanStep
  <2>2. PICK c, d, q : Emit(TransitionFact(c, d, q), "bump")
    BY <2>1
  <2> QED BY <2>1, <2>2, AtRest, FactTypes, PlainEmitKeeps
<1>10. CASE Bump
  <2>1. Ready("bump") /\ UNCHANGED pendings /\ Emit(TraceFact, "drain")
    BY <1>10 DEF Bump
  <2> QED BY <2>1, AtRest, FactTypes, PlainEmitKeeps
<1>11. CASE DrainIgnored
  <2>1. Ready("drain") /\ UNCHANGED pendings /\ Emit(ErrorFact, "trace")
    BY <1>11 DEF DrainIgnored, CanStep, Drop
  <2> QED BY <2>1, AtRest, FactTypes, PlainEmitKeeps
<1>12. CASE Trace
  <2>1. Ready("trace") /\ UNCHANGED pendings /\ Emit(TraceFact, "drain")
    BY <1>12 DEF Trace, memory
  <2> QED BY <2>1, AtRest, FactTypes, PlainEmitKeeps
<1>13. CASE DrainHalted
  <2>1. Ready("drain") /\ UNCHANGED pendings /\ Emit(ViolationFact(Foremost.from), "drain")
    BY <1>13 DEF DrainHalted, CanStep, Drop
  <2> QED BY <2>1, AtRest, FactTypes, PlainEmitKeeps
<1>14. CASE DrainErr
  <2>1. Ready("drain") /\ UNCHANGED pendings /\ Emit(ErrorFact, "drain")
    BY <1>14 DEF DrainErr, CanStep, Drop
  <2> QED BY <2>1, AtRest, FactTypes, PlainEmitKeeps
<1>15. CASE DrainIo
  <2> DEFINE fact == IoRequestFact(next_fact_id + 1, Foremost.from)
  <2>1. Ready("drain") /\ UNCHANGED pendings /\ Emit(fact, "pause")
    BY <1>15 DEF DrainIo, CanStep, Drop
  <2>2. fact.type = "IoRequest"
    BY FactTypes
  <2> HIDE DEF fact
  <2>3. Open = Waiting /\ ~Writing /\ pc = "drain"
    BY <2>1, AtRest
  <2> QED BY <2>1, <2>2, <2>3, EmitKeeps
<1>16. CASE Pause
  BY <1>16, PauseKeeps
<1>17. CASE DrainStable
  <2>1. Ready("drain") /\ UNCHANGED pendings /\ Emit(StableFact(version), "return")
    BY <1>17 DEF DrainStable, memory
  <2> QED BY <2>1, AtRest, FactTypes, PlainEmitKeeps
<1>18. CASE Return
  <2>1. /\ Ready("return") \/ Ready("drain")
        /\ UNCHANGED <<written, medium, lines, booted, pendings, next_fact_id, out>> /\ pc' = "idle"
    BY <1>18 DEF Return, wal, store, memory
  <2>2. Open = Waiting /\ out' = NoFact /\ pc # "off"
    BY <2>1, AtRest DEF Writing
  <2>3. IsSeq(medium')
    BY <2>1 DEF IInv, Types
  <2> QED BY <2>1, <2>2, <2>3, QuietKeeps
<1> QED BY <1>1, <1>2, <1>3, <1>4, <1>5, <1>6, <1>7, <1>8, <1>9, <1>10, <1>11, <1>12,
           <1>13, <1>14, <1>15, <1>16, <1>17, <1>18 DEF ExecStep

LEMMA NextKeeps == IInv /\ [Next]_vars => IInv'
<1> SUFFICES ASSUME IInv, [Next]_vars PROVE IInv'
  OBVIOUS
<1>1. CASE run
  <2>1. PICK i : Emit(CommandFact(next_fact_id + 1, i), "submit")
    BY <1>1 DEF run
  <2>2. Ready("idle") /\ UNCHANGED pendings
    BY <1>1 DEF run, memory
  <2> QED BY <2>1, <2>2, AtRest, FactTypes, PlainEmitKeeps
<1>2. CASE resume_io
  <2>1. PICK r \in AnswerId, ok \in BOOLEAN : Emit(IoResponseFact(r, ok), "answer")
    BY <1>2 DEF resume_io
  <2> DEFINE fact == IoResponseFact(r, ok)
  <2>2. Ready("idle") /\ UNCHANGED pendings
    BY <1>2 DEF resume_io, memory
  <2>3. fact.type = "IoResponse" /\ Emit(fact, "answer")
    BY <2>1, FactTypes
  <2> HIDE DEF fact
  <2>4. Open = Waiting /\ ~Writing /\ pc = "idle"
    BY <2>2, AtRest
  <2> QED BY <2>2, <2>3, <2>4, EmitKeeps
<1>3. CASE ExecStep
  BY <1>3, ExecStepKeeps
<1>4. CASE PowerFails
  BY <1>4, PowerFailsKeeps
<1>5. CASE Boot
  BY <1>5, BootKeeps
<1>6. CASE UNCHANGED vars
  <2>1. UNCHANGED <<written, medium, lines, pc, out, pendings, next_fact_id, booted>>
    BY <1>6 DEF vars, wal, store, memory
  <2>2. /\ Open' = Open /\ Since' = Since /\ LastFact' = LastFact
        /\ \A k : FactAt(k)' = FactAt(k)
    BY <2>1, Unmoved
  <2>3. Types' /\ OnePerRequest'
    BY <2>1 DEF IInv, Types, OnePerRequest
  <2>4. Numbered' /\ OutFits'
    BY <2>1, <2>2 DEF IInv, Numbered, OutFits, Writing
  <2>5. Balanced'
    BY <2>1, <2>2 DEF IInv, Balanced, Ready, Writing, LastIs, Waiting
  <2> QED BY <2>3, <2>4, <2>5 DEF IInv
<1> QED BY <1>1, <1>2, <1>3, <1>4, <1>5, <1>6 DEF Next

(* For every instruction set, every step of a transition, every size of the *)
(* ring and of its lines: whenever a call of the executor has returned, the *)
(* requests it waits for are those that the ledger shows as asked since it  *)
(* was created and not answered after that, whatever write failed, whatever *)
(* answer came for a request nobody made, or before the request that later  *)
(* got its id, and wherever power failed.                                   *)
THEOREM WaitsForWhatTheLedgerAsks == Spec => []UnansweredArePending
<1>1. IInv => UnansweredArePending
  BY DEF IInv, Balanced, Ready, UnansweredArePending, Waiting, Open
<1> QED BY <1>1, InitHolds, NextKeeps, PTL DEF Spec

-----------------------------------------------------------------------------
(* The ring and the store. *)

(* What append_fact is called with. *)
Sent == [id : Nat, body : Fact]
Request == [request_id : Nat, io_type : IoType, item : Item]

MemTypes ==
    /\ data \in Data /\ io_results \subseteq IoType /\ queue \in Seq(Item) /\ version \in Nat
    /\ pendings \in Seq(Request)

ExecTypes ==
    /\ MemTypes
    /\ pc = "pause" => popped \in Item
    /\ Writing => out \in Sent /\ (pc = "submit" => out.body.type = "Command")
    /\ Ready("submit") => LastFact \in Sent /\ LastFact.body.type = "Command"
    /\ \A n \in 1 .. Len(written) : written[n].fact \in Sent

(* A cell is free or a byte of a line there has been. *)
CellsOK(m) ==
    /\ m \in [1 .. PageSize * PageCount -> [line : Nat, at : Nat]]
    /\ \A j \in 1 .. PageSize * PageCount :
          m[j] # Free => m[j].line \in 1 .. Len(written)
                         /\ m[j].at \in 1 .. Size(written[m[j].line].fact)

(* The bytes of its line up to a cell stand before it, in its page, behind  *)
(* the end of another line or at the start of the page.                     *)
InLine(m, p, k) ==
    LET c == m[Cell(p, k)]
    IN  /\ c.at <= k
        /\ \A i \in 1 .. c.at : m[Cell(p, k - c.at + i)] = [line |-> c.line, at |-> i]
        /\ k > c.at => IsNewline(m[Cell(p, k - c.at)])

PagesOK(m) ==
    \A p \in 0 .. PageCount - 1, k \in 1 .. PageSize :
        m[Cell(p, k)] # Free => InLine(m, p, k) /\ \A j \in 1 .. k : m[Cell(p, j)] # Free

(* Pages are used one after the other. *)
NoHoles(m) ==
    \A p \in 1 .. PageCount - 1 : m[Cell(p, 1)] # Free => m[Cell(p - 1, 1)] # Free

(* The complete lines are one chain. *)
Chained(rows) ==
    /\ rows \in Seq(1 .. Len(written))
    /\ \A k \in 1 .. Len(rows) :
          written[rows[k]].prev_hash = IF k = 1 THEN genesis ELSE rows[k - 1]

(* The store stands where the ring ends: everything behind is free.         *)
StoreOK ==
    /\ lines = Committed(medium) /\ tail_hash = TailOf(medium)
    /\ active_page \in 0 .. PageCount - 1 /\ write_offset \in 0 .. PageSize
    /\ polluted \in BOOLEAN /\ (polluted \/ active_page > 0 => write_offset > 0)
    /\ \A k \in 1 .. PageSize : medium[Cell(active_page, k)] # Free <=> k <= write_offset
    /\ write_offset \in 1 .. PageSize - 1 /\ ~polluted =>
          IsNewline(medium[Cell(active_page, write_offset)])
    /\ \A p \in active_page + 1 .. PageCount - 1, k \in 1 .. PageSize : medium[Cell(p, k)] = Free

RingOK == CellsOK(medium) /\ PagesOK(medium) /\ NoHoles(medium) /\ Chained(Committed(medium))

RingInv == ExecTypes /\ RingOK /\ (pc # "off" => StoreOK)

(* A line has at least its newline. *)
LinesHaveBytes == \A f \in Sent : Size(f) \in Nat /\ Size(f) > 0

-----------------------------------------------------------------------------
(* Cells and pages. *)

LEMMA CellFacts ==
    /\ PageSize \in Nat /\ PageSize > 0 /\ PageCount \in Nat /\ PageCount > 0
    /\ PageSize * PageCount \in Nat
    /\ \A p \in Nat : Cell(p, 0) \in Nat
    /\ \A p \in Nat, k \in Int : Cell(p, k) = Cell(p, 0) + k
    /\ Cell(0, 0) = 0 /\ Cell(PageCount, 0) = PageSize * PageCount
    /\ \A p \in Nat : Cell(p + 1, 0) = Cell(p, 0) + PageSize
    /\ \A p, q \in Nat : p < q => Cell(p, 0) + PageSize <= Cell(q, 0)
<1>1. PageSize \in Nat /\ PageSize > 0 /\ PageCount \in Nat /\ PageCount > 0
  BY FlashAssumption
<1>2. \A p \in Nat : p * PageSize \in Nat
  BY <1>1
<1>3. PageSize * PageCount = PageCount * PageSize /\ 0 * PageSize = 0
  BY <1>1
<1>4. \A p \in Nat : (p + 1) * PageSize = p * PageSize + PageSize
  BY <1>1
<1>5. \A p, q \in Nat : p < q => p * PageSize + PageSize <= q * PageSize
  <2>1. SUFFICES ASSUME NEW p \in Nat, NEW q \in Nat, p < q
                 PROVE  p * PageSize + PageSize <= q * PageSize
    OBVIOUS
  <2>2. PICK d \in Nat : q = p + 1 + d
    <3>1. q - p - 1 \in Nat /\ q = p + 1 + (q - p - 1)
      BY <2>1
    <3> QED BY <3>1
  <2>3. q * PageSize = p * PageSize + PageSize + d * PageSize
    BY <1>1, <2>2
  <2>4. d * PageSize \in Nat /\ p * PageSize \in Nat
    BY <1>2
  <2> QED BY <1>1, <2>3, <2>4
<1>6. \A p \in Nat, k \in Int : p * PageSize + k = p * PageSize + 0 + k
  BY <1>2
<1>7. \A p \in Nat : p * PageSize + 0 = p * PageSize
  BY <1>2
<1> QED BY <1>1, <1>2, <1>3, <1>4, <1>5, <1>6, <1>7 DEF Cell

(* The cells of the pages are the cells of the ring. *)
LEMMA CellInRing ==
    ASSUME NEW p \in 0 .. PageCount - 1, NEW k \in 1 .. PageSize
    PROVE  Cell(p, k) \in 1 .. PageSize * PageCount
<1>1. p \in Nat /\ k \in Int /\ PageCount \in Nat /\ p < PageCount /\ PageSize \in Nat
  BY CellFacts
<1>2. Cell(p, k) = Cell(p, 0) + k /\ Cell(p, 0) \in Nat
  BY <1>1, CellFacts
<1>3. Cell(p, 0) + PageSize <= PageSize * PageCount
  BY <1>1, CellFacts
<1>4. PageSize * PageCount \in Nat
  BY CellFacts
<1> QED BY <1>1, <1>2, <1>3, <1>4

LEMMA Located ==
    ASSUME NEW j \in 1 .. PageSize * PageCount
    PROVE  \E p \in 0 .. PageCount - 1, k \in 1 .. PageSize : j = Cell(p, k)
<1> DEFINE T == {p \in Nat : Cell(p, 0) < j}
           N == PageSize * PageCount
<1>1. N \in Nat /\ PageCount \in Nat /\ PageSize \in Nat /\ Cell(PageCount, 0) = N /\ Cell(0, 0) = 0
  BY CellFacts
<1>2. j \in 1 .. N
  OBVIOUS
<1> HIDE DEF N
<1>3. \A p \in T : p <= PageCount - 1
  <2>1. SUFFICES ASSUME NEW p \in Nat, Cell(p, 0) < j PROVE p < PageCount
    BY <1>1
  <2>2. Cell(p, 0) \in Nat /\ ~(N <= Cell(p, 0))
    BY <1>1, <1>2, <2>1, CellFacts
  <2>3. p # PageCount
    BY <1>1, <2>2
  <2>4. ~(PageCount < p)
    <3>1. SUFFICES ASSUME PageCount < p PROVE FALSE
      OBVIOUS
    <3>2. Cell(PageCount, 0) + PageSize <= Cell(p, 0)
      BY <1>1, <3>1, CellFacts
    <3> QED BY <1>1, <2>2, <3>2
  <2> QED BY <1>1, <2>3, <2>4
<1>4. 0 \in T /\ T \subseteq Nat /\ PageCount - 1 \in Nat
  <2>1. PageCount > 0
    BY CellFacts
  <2>2. 0 \in Nat /\ Cell(0, 0) < j
    BY <1>1, <1>2
  <2> QED BY <1>1, <2>1, <2>2
<1> HIDE DEF T
<1>5. PICK p \in T : \A q \in T : q <= p
  BY <1>3, <1>4, GreatestBelow
<1>6. p \in Nat /\ Cell(p, 0) < j /\ p \in 0 .. PageCount - 1
  BY <1>1, <1>3, <1>4 DEF T
<1>7. p + 1 \notin T
  BY <1>5, <1>6
<1>8. ~(Cell(p + 1, 0) < j)
  BY <1>6, <1>7 DEF T
<1>9. Cell(p + 1, 0) = Cell(p, 0) + PageSize /\ Cell(p, 0) \in Nat
  BY <1>6, CellFacts
<1> DEFINE k == j - Cell(p, 0)
<1>10. k \in 1 .. PageSize /\ j = Cell(p, 0) + k
  BY <1>1, <1>2, <1>6, <1>8, <1>9
<1> HIDE DEF k
<1>11. j = Cell(p, k)
  BY <1>6, <1>10, CellFacts
<1> QED BY <1>6, <1>10, <1>11

LEMMA RingIsSeq ==
    ASSUME NEW m, NEW S, m \in [1 .. PageSize * PageCount -> S]
    PROVE  m \in Seq(S) /\ Len(m) = PageSize * PageCount
<1> DEFINE N == PageSize * PageCount
<1>1. N \in Nat
  BY CellFacts
<1> HIDE DEF N
<1> QED BY <1>1 DEF N

LEMMA PageIs ==
    ASSUME NEW m, NEW S, m \in [1 .. PageSize * PageCount -> S], NEW p \in 0 .. PageCount - 1
    PROVE  \A k \in 1 .. PageSize : Page(m, p)[k] = m[Cell(p, k)]
<1> DEFINE a == Cell(p, 1)
           b == Cell(p, PageSize)
<1>1. m \in Seq(S) /\ Len(m) = PageSize * PageCount
  BY RingIsSeq
<1>2. PageSize \in Nat /\ PageSize > 0 /\ 1 \in 1 .. PageSize /\ PageSize \in 1 .. PageSize
  BY CellFacts
<1>3. a \in 1 .. Len(m) /\ b \in 1 .. Len(m)
  BY <1>1, <1>2, CellInRing
<1>4. /\ Cell(p, 0) \in Nat /\ \A k \in Int : Cell(p, k) = Cell(p, 0) + k
  <2>1. p \in Nat
    BY CellFacts
  <2> QED BY <2>1, CellFacts, Zenon
<1>5. a = Cell(p, 0) + 1 /\ b = Cell(p, 0) + PageSize
  BY <1>2, <1>4
<1> HIDE DEF a, b
<1>6. a <= b + 1 /\ b - a + 1 = PageSize
  <2>1. \A x \in Nat : x + 1 <= x + PageSize + 1 /\ (x + PageSize) - (x + 1) + 1 = PageSize
    BY <1>2
  <2> QED BY <1>4, <1>5, <2>1, Zenon
<1>7. \A i \in 1 .. b - a + 1 : SubSeq(m, a, b)[i] = m[a + i - 1]
  BY <1>1, <1>3, <1>6, SubSeqProperties
<1>8. ASSUME NEW k \in 1 .. PageSize PROVE SubSeq(m, a, b)[k] = m[Cell(p, k)]
  <2>1. a + k - 1 = Cell(p, 0) + k
    BY <1>2, <1>4, <1>5
  <2>2. Cell(p, k) = Cell(p, 0) + k
    BY <1>4
  <2>3. k \in 1 .. b - a + 1
    BY <1>6
  <2> QED BY <1>7, <2>1, <2>2, <2>3
<1> QED BY <1>8 DEF Page, a, b

LEMMA FirstFreeIs ==
    ASSUME NEW page
    PROVE  /\ FirstFree(page) \in 1 .. PageSize + 1
           /\ FirstFree(page) <= PageSize => page[FirstFree(page)] = Free
           /\ \A j \in 1 .. FirstFree(page) - 1 : page[j] # Free
<1> DEFINE T == {k \in 1 .. PageSize : page[k] = Free} \cup {PageSize + 1}
           P(k) == /\ k <= PageSize => page[k] = Free
                   /\ \A j \in 1 .. k - 1 : page[j] # Free
<1>1. PageSize \in Nat
  BY CellFacts
<1>2. T \subseteq Nat /\ T # {}
  BY <1>1
<1>3. PICK k \in T : \A j \in T : k <= j
  <2> HIDE DEF T
  <2> QED BY <1>2, LeastNatural
<1>4. k \in 1 .. PageSize + 1 /\ (k <= PageSize => page[k] = Free)
  BY <1>1, <1>3
<1>5. \A j \in 1 .. k - 1 : page[j] # Free
  BY <1>1, <1>3, <1>4
<1>6. \E x \in 1 .. PageSize + 1 : P(x)
  BY <1>4, <1>5
<1>7. FirstFree(page) = CHOOSE x \in 1 .. PageSize + 1 : P(x)
  BY DEF FirstFree
<1> HIDE DEF P
<1>8. FirstFree(page) \in 1 .. PageSize + 1 /\ P(FirstFree(page))
  BY <1>6, <1>7
<1> QED BY <1>8 DEF P

-----------------------------------------------------------------------------
(* Opening the ring. *)

(* In its page a cell is free or not as its place is before FirstFree. *)
LEMMA FreeFrom ==
    ASSUME CellsOK(medium), PagesOK(medium), NEW p \in 0 .. PageCount - 1
    PROVE  LET f == FirstFree(Page(medium, p)) IN
           /\ f \in 1 .. PageSize + 1
           /\ \A k \in 1 .. PageSize : Page(medium, p)[k] = medium[Cell(p, k)]
           /\ \A k \in 1 .. PageSize : medium[Cell(p, k)] # Free <=> k <= f - 1
<1> DEFINE f == FirstFree(Page(medium, p))
<1>1. \A k \in 1 .. PageSize : Page(medium, p)[k] = medium[Cell(p, k)]
  BY PageIs DEF CellsOK
<1>2. /\ f \in 1 .. PageSize + 1 /\ (f <= PageSize => Page(medium, p)[f] = Free)
      /\ \A j \in 1 .. f - 1 : Page(medium, p)[j] # Free
  BY FirstFreeIs
<1>3. PageSize \in Nat
  BY CellFacts
<1> HIDE DEF f
<1>4. ASSUME NEW k \in 1 .. PageSize PROVE medium[Cell(p, k)] # Free <=> k <= f - 1
  <2>1. CASE k <= f - 1
    <3>1. k \in 1 .. f - 1
      BY <1>2, <1>3, <2>1
    <3> QED BY <1>1, <1>2, <2>1, <3>1
  <2>2. CASE ~(k <= f - 1)
    <3>1. f \in 1 .. PageSize /\ f \in 1 .. k /\ f <= PageSize
      BY <1>2, <1>3, <2>2
    <3>2. medium[Cell(p, f)] = Free
      BY <1>1, <1>2, <3>1
    <3>3. medium[Cell(p, k)] # Free => \A j \in 1 .. k : medium[Cell(p, j)] # Free
      BY Zenon DEF PagesOK
    <3> QED BY <2>2, <3>1, <3>2, <3>3
  <2> QED BY <2>1, <2>2
<1> QED BY <1>1, <1>2, <1>4 DEF f

LEMMA PagesAreReadable ==
    ASSUME CellsOK(medium), PagesOK(medium), NEW p \in 0 .. PageCount - 1
    PROVE  Readable(Page(medium, p))
<1> DEFINE page == Page(medium, p)
           f == FirstFree(page)
<1>1. /\ f \in 1 .. PageSize + 1
      /\ \A k \in 1 .. PageSize : page[k] = medium[Cell(p, k)]
      /\ \A k \in 1 .. PageSize : medium[Cell(p, k)] # Free <=> k <= f - 1
  BY FreeFrom
<1>2. PageSize \in Nat
  BY CellFacts
<1> HIDE DEF page, f
<1>3. \A k \in f .. PageSize : page[k] = Free
  BY <1>1, <1>2
<1>4. ASSUME NEW k \in 1 .. f - 1, IsNewline(page[k]) PROVE IsRow(page, k)
  <2> DEFINE c == medium[Cell(p, k)]
             n == Size(written[c.line].fact)
  <2>1. k \in 1 .. PageSize /\ page[k] = c /\ c # Free
    BY <1>1, <1>2
  <2>2. c.at = n
    BY <1>4, <2>1 DEF IsNewline
  <2>3. Cell(p, k) \in 1 .. PageSize * PageCount
    BY <2>1, CellInRing
  <2>4. c.at \in Nat
    BY <2>3 DEF CellsOK
  <2>5. c.at \in 1 .. n
    BY <2>1, <2>3, Zenon DEF CellsOK
  <2>6. InLine(medium, p, k)
    BY <2>1, Zenon DEF PagesOK
  <2>7. /\ n <= k
        /\ \A i \in 1 .. n : medium[Cell(p, k - n + i)] = [line |-> c.line, at |-> i]
        /\ k > n => IsNewline(medium[Cell(p, k - n)])
    BY <2>2, <2>6, Zenon DEF InLine
  <2>8. n \in Nat
    BY <2>2, <2>4
  <2> HIDE DEF c, n
  <2>9. \A i \in 1 .. n : k - n + i \in 1 .. PageSize
    BY <1>2, <2>1, <2>7, <2>8
  <2>10. k > n => k - n \in 1 .. PageSize
    BY <1>2, <2>1, <2>7, <2>8
  <2>11. n = Size(written[page[k].line].fact) /\ page[k].line = c.line
    BY <2>1 DEF n
  <2>12. \A i \in 1 .. n : page[k - n + i] = [line |-> page[k].line, at |-> i]
    BY <1>1, <2>7, <2>9, <2>11, Zenon
  <2>13. k > n => IsNewline(page[k - n])
    BY <1>1, <2>7, <2>10, Zenon
  <2> QED BY <2>7, <2>11, <2>12, <2>13, Zenon DEF IsRow
<1> QED BY <1>3, <1>4 DEF Readable, page, f

(* A page with data has its first cell taken. *)
LEMMA DataPagesAre ==
    ASSUME CellsOK(medium), PagesOK(medium)
    PROVE  DataPages(medium) = {p \in 0 .. PageCount - 1 : medium[Cell(p, 1)] # Free}
<1>1. PageSize \in Nat /\ 1 \in 1 .. PageSize
  BY CellFacts
<1>2. ASSUME NEW p \in 0 .. PageCount - 1 PROVE IsEmpty(medium, p) <=> medium[Cell(p, 1)] = Free
  <2>1. ASSUME NEW k \in 1 .. PageSize, medium[Cell(p, k)] # Free PROVE medium[Cell(p, 1)] # Free
    <3>1. \A j \in 1 .. k : medium[Cell(p, j)] # Free
      BY <2>1, Zenon DEF PagesOK
    <3>2. 1 \in 1 .. k
      BY <1>1
    <3> QED BY <3>1, <3>2
  <2> QED BY <1>1, <2>1 DEF IsEmpty
<1> QED BY <1>2 DEF DataPages

LEMMA RingOpens ==
    ASSUME CellsOK(medium), PagesOK(medium), NoHoles(medium) PROVE CanOpen(medium)
<1>1. DataPages(medium) = {p \in 0 .. PageCount - 1 : medium[Cell(p, 1)] # Free}
  BY DataPagesAre
<1>2. ASSUME NEW p \in DataPages(medium) PROVE p = 0 \/ p - 1 \in DataPages(medium)
  <2>1. CASE p # 0
    <3>1. p \in 1 .. PageCount - 1 /\ p - 1 \in 0 .. PageCount - 1 /\ medium[Cell(p, 1)] # Free
      <4>1. p \in 0 .. PageCount - 1 /\ medium[Cell(p, 1)] # Free
        BY <1>1
      <4>2. PageCount \in Nat
        BY CellFacts
      <4> QED BY <2>1, <4>1, <4>2
    <3> QED BY <1>1, <3>1 DEF NoHoles
  <2> QED BY <2>1
<1>3. \A p \in DataPages(medium) : Readable(Page(medium, p))
  BY <1>1, PagesAreReadable
<1> QED BY <1>2, <1>3 DEF CanOpen

LEMMA LastDataPageIs ==
    ASSUME CellsOK(medium), PagesOK(medium)
    PROVE  /\ LastDataPage(medium) \in 0 .. PageCount - 1
           /\ LastDataPage(medium) > 0 => medium[Cell(LastDataPage(medium), 1)] # Free
           /\ \A p \in LastDataPage(medium) + 1 .. PageCount - 1, k \in 1 .. PageSize :
                 medium[Cell(p, k)] = Free
<1> DEFINE D == DataPages(medium)
<1>1. D \subseteq 0 .. PageCount - 1 /\ PageCount \in Nat /\ PageCount > 0
  BY CellFacts DEF DataPages
<1>2. \A p \in 0 .. PageCount - 1, k \in 1 .. PageSize : medium[Cell(p, k)] # Free => p \in D
  BY DEF DataPages, IsEmpty
<1> HIDE DEF D
<1>3. /\ LastDataPage(medium) \in 0 .. PageCount - 1
      /\ LastDataPage(medium) > 0 => LastDataPage(medium) \in D
      /\ \A p \in D : p <= LastDataPage(medium)
  <2>1. CASE D = {}
    BY <1>1, <2>1 DEF LastDataPage, D
  <2>2. CASE D # {}
    <3>1. LastDataPage(medium) = CHOOSE x \in D : \A y \in D : x >= y
      BY <2>2 DEF LastDataPage, Max, D
    <3>2. \E x \in D : \A y \in D : y <= x
      <4>1. D \subseteq Nat /\ PageCount - 1 \in Nat /\ \A x \in D : x <= PageCount - 1
        BY <1>1
      <4> QED BY <2>2, <4>1, GreatestBelow
    <3>3. \E x \in D : \A y \in D : x >= y
      BY <1>1, <3>2
    <3>4. LastDataPage(medium) \in D /\ \A y \in D : LastDataPage(medium) >= y
      BY <3>1, <3>3
    <3> QED BY <1>1, <3>4
  <2> QED BY <2>1, <2>2
<1>4. ASSUME NEW p \in LastDataPage(medium) + 1 .. PageCount - 1, NEW k \in 1 .. PageSize
      PROVE  medium[Cell(p, k)] = Free
  <2>1. p \in 0 .. PageCount - 1 /\ ~(p <= LastDataPage(medium))
    BY <1>1, <1>3
  <2> QED BY <1>2, <1>3, <2>1
<1>5. \A p \in D : medium[Cell(p, 1)] # Free
  BY DataPagesAre DEF D
<1> QED BY <1>3, <1>4, <1>5

-----------------------------------------------------------------------------
(* The complete lines before and after a step. *)

LEMMA RowsAre ==
    Len(medium) \in Nat =>
        \E F : Marked(Marks(medium), Len(medium), F) /\ Committed(medium) = F[Len(medium)]
BY CommittedIs

LEMMA RowsAreNext ==
    (Len(medium) \in Nat =>
        \E F : Marked(Marks(medium), Len(medium), F) /\ Committed(medium) = F[Len(medium)])'
BY RowsAre, PTL

LEMMA SameRows ==
    ASSUME Len(medium) \in Nat, Len(medium') = Len(medium), Marks(medium)' = Marks(medium)
    PROVE  Committed(medium)' = Committed(medium)
<1>1. PICK F : Marked(Marks(medium), Len(medium), F) /\ Committed(medium) = F[Len(medium)]
  BY RowsAre
<1>2. PICK G : Marked(Marks(medium), Len(medium), G) /\ Committed(medium)' = G[Len(medium)]
  BY RowsAreNext
<1>3. G[Len(medium)] = F[Len(medium)]
  <2> DEFINE n == Len(medium)
  <2>1. n \in Nat /\ n \in 0 .. n
    OBVIOUS
  <2> HIDE DEF n
  <2> QED BY <1>1, <1>2, <2>1, MarkedAgree DEF n
<1> QED BY <1>1, <1>2, <1>3

LEMMA OneRowMore ==
    ASSUME Len(medium) \in Nat, Len(medium') = Len(medium),
           NEW e \in 1 .. Len(medium), NEW l, Marks(medium)'[e] = <<l>>,
           \A k \in 1 .. e - 1 : Marks(medium)'[k] = Marks(medium)[k],
           \A k \in e .. Len(medium) : Marks(medium)[k] = <<>>,
           \A k \in e + 1 .. Len(medium) : Marks(medium)'[k] = <<>>
    PROVE  Committed(medium)' = Append(Committed(medium), l)
<1> DEFINE n == Len(medium)
           s == Marks(medium)
           t == Marks(medium)'
<1>1. PICK F : Marked(s, n, F) /\ Committed(medium) = F[n]
  BY RowsAre
<1>2. PICK G : Marked(t, n, G) /\ Committed(medium)' = G[n]
  BY RowsAreNext
<1>3. /\ n \in Nat /\ e \in 1 .. n /\ t[e] = <<l>> /\ \A k \in 1 .. e - 1 : t[k] = s[k]
      /\ \A k \in e .. n : s[k] = <<>>
      /\ \A k \in e + 1 .. n : t[k] = <<>>
  OBVIOUS
<1> HIDE DEF n, s, t
<1>4. G[n] = Append(F[n], l)
  <2>1. Marked(s, n, F) /\ Marked(t, n, G)
    BY <1>1, <1>2
  <2> DEFINE b == e - 1
  <2>2. b \in 0 .. n /\ n \in b .. n /\ e \in 0 .. n /\ n \in e .. n /\ b + 1 = e
    BY <1>3
  <2>3. /\ \A k \in 1 .. b : t[k] = s[k]
        /\ \A k \in b + 1 .. n : s[k] = <<>>
    BY <1>3, <2>2
  <2> HIDE DEF b
  <2>4. G[b] = F[b]
    BY <1>3, <2>1, <2>2, <2>3, MarkedAgree
  <2>5. F[n] = F[b]
    BY <1>3, <2>1, <2>2, <2>3, MarkedFlat
  <2>6. G[n] = G[e]
    BY <1>3, <2>1, <2>2, MarkedFlat
  <2>7. G[e] = Append(G[b], l)
    BY <1>3, <2>1, MarkedAdds, SMTT(60) DEF b
  <2> QED BY <2>4, <2>5, <2>6, <2>7
<1> QED BY <1>1, <1>2, <1>4

(* Nothing is marked in a ring without data. *)
LEMMA NoRows ==
    ASSUME Len(medium) \in Nat, \A k \in 1 .. Len(medium) : ~IsNewline(medium[k])
    PROVE  Committed(medium) = <<>>
<1> DEFINE n == Len(medium)
<1>1. PICK F : Marked(Marks(medium), n, F) /\ Committed(medium) = F[n]
  BY RowsAre
<1>2. \A k \in 1 .. n : Marks(medium)[k] = <<>>
  BY DEF Marks
<1>3. n \in Nat /\ 0 \in 0 .. n /\ n \in 0 .. n /\ 0 + 1 = 1
  OBVIOUS
<1> HIDE DEF n
<1>4. F[n] = F[0]
  BY <1>1, <1>2, <1>3, MarkedFlat
<1>5. F[0] = <<>>
  BY <1>1, <1>3, MarkedIs
<1> QED BY <1>1, <1>4, <1>5

(* The ring and what there has been written stay. *)
LEMMA RingStays ==
    ASSUME CellsOK(medium), UNCHANGED <<written, medium>>
    PROVE  /\ Committed(medium)' = Committed(medium) /\ TailOf(medium)' = TailOf(medium)
           /\ RingOK => RingOK'
<1>1. Len(medium) \in Nat
  BY RingIsSeq, CellFacts DEF CellsOK
<1>2. Marks(medium)' = Marks(medium)
  BY DEF Marks, IsNewline
<1>3. Committed(medium)' = Committed(medium)
  BY <1>1, <1>2, SameRows
<1>4. TailOf(medium)' = TailOf(medium)
  BY <1>3 DEF TailOf
<1>5. CellsOK(medium)' <=> CellsOK(medium)
  BY DEF CellsOK
<1>6. PagesOK(medium)' <=> PagesOK(medium)
  BY DEF PagesOK, InLine, IsNewline
<1>7. NoHoles(medium)' <=> NoHoles(medium)
  BY DEF NoHoles
<1>8. Chained(Committed(medium))' <=> Chained(Committed(medium))
  BY <1>3 DEF Chained
<1> QED BY <1>3, <1>4, <1>5, <1>6, <1>7, <1>8 DEF RingOK

LEMMA OpenStands == ASSUME RingOK, open PROVE StoreOK' /\ RingOK'
<1> DEFINE p == LastDataPage(medium)
           page == Page(medium, p)
           f == FirstFree(page)
<1>1. /\ lines' = Committed(medium) /\ tail_hash' = TailOf(medium)
      /\ active_page' = p /\ write_offset' = f - 1 /\ polluted' = IsPolluted(page)
      /\ UNCHANGED <<written, medium>>
  BY DEF open
<1>2. CellsOK(medium) /\ PagesOK(medium)
  BY DEF RingOK
<1>3. /\ p \in 0 .. PageCount - 1
      /\ \A q \in p + 1 .. PageCount - 1, k \in 1 .. PageSize : medium[Cell(q, k)] = Free
  BY <1>2, LastDataPageIs
<1>4. /\ f \in 1 .. PageSize + 1
      /\ \A k \in 1 .. PageSize : page[k] = medium[Cell(p, k)]
      /\ \A k \in 1 .. PageSize : medium[Cell(p, k)] # Free <=> k <= f - 1
  BY <1>2, <1>3, FreeFrom
<1>5. Committed(medium)' = Committed(medium) /\ TailOf(medium)' = TailOf(medium) /\ RingOK'
  BY <1>1, <1>2, RingStays
<1>6. PageSize \in Nat
  BY CellFacts
<1>7. IsPolluted(page) \in BOOLEAN /\ (IsPolluted(page) => f - 1 > 0)
      /\ (f - 1 \in 1 .. PageSize - 1 /\ ~IsPolluted(page) => IsNewline(page[f - 1]))
  BY <1>4, <1>6 DEF IsPolluted
<1>8. f - 1 \in 0 .. PageSize
  BY <1>4, <1>6
<1>9. f - 1 \in 1 .. PageSize - 1 => f - 1 \in 1 .. PageSize
  BY <1>6
<1> HIDE DEF p, page, f
<1>10. f - 1 \in 1 .. PageSize - 1 /\ ~IsPolluted(page) => IsNewline(medium[Cell(p, f - 1)])
  BY <1>4, <1>7, <1>9
<1>11. write_offset' \in 1 .. PageSize - 1 /\ ~polluted' => IsNewline(medium[Cell(active_page, write_offset)])'
  BY <1>1, <1>10 DEF IsNewline
<1>12. \A k \in 1 .. PageSize : medium'[Cell(active_page', k)] # Free <=> k <= write_offset'
  BY <1>1, <1>4, Zenon
<1>13. \A q \in active_page' + 1 .. PageCount - 1, k \in 1 .. PageSize : medium'[Cell(q, k)] = Free
  BY <1>1, <1>3, Zenon
<1>14. polluted' \in BOOLEAN /\ (polluted' \/ active_page' > 0 => write_offset' > 0)
  <2>1. p > 0 => f - 1 > 0
    <3>1. SUFFICES ASSUME p > 0 PROVE f - 1 > 0
      OBVIOUS
    <3>2. medium[Cell(p, 1)] # Free
      BY <1>2, <1>3, <3>1, LastDataPageIs DEF p
    <3>3. 1 \in 1 .. PageSize
      BY CellFacts
    <3>4. 1 <= f - 1
      BY <1>4, <3>2, <3>3
    <3> QED BY <1>4, <3>4
  <2> QED BY <1>1, <1>7, <2>1
<1>15. StoreOK'
  BY <1>1, <1>3, <1>5, <1>8, <1>11, <1>12, <1>13, <1>14, Zenon DEF StoreOK
<1> QED BY <1>5, <1>15

-----------------------------------------------------------------------------
(* A line goes to the ring. *)

(* The place that a record goes to: what is behind it is free, and what is  *)
(* before it in its page ends with a line.                                  *)
Place(q, o, z) ==
    /\ q \in 0 .. PageCount - 1 /\ o \in 0 .. PageSize /\ z \in Nat /\ z > 0 /\ o + z <= PageSize
    /\ \A j \in 1 .. PageSize * PageCount : Cell(q, 0) + o < j => medium[j] = Free
    /\ \A k \in 1 .. o : medium[Cell(q, k)] # Free
    /\ o > 0 => IsNewline(medium[Cell(q, o)])
    /\ q > 0 => medium[Cell(q - 1, 1)] # Free

LEMMA TargetIs ==
    ASSUME LinesHaveBytes, ExecTypes, RingOK, StoreOK, Writing,
           NEW rec, rec = Record(version, out), ~Refuses(rec)
    PROVE  /\ Place(TargetPage(rec), TargetOffset(rec), Size(out))
           /\ Position(rec) = Cell(TargetPage(rec), 0) + TargetOffset(rec)
           /\ Prepared(rec) = medium
<1> DEFINE q == TargetPage(rec)
           o == TargetOffset(rec)
           z == Size(out)
           new == NeedsNewPage(rec)
<1>1. z \in Nat /\ z > 0 /\ rec.fact = out
  BY DEF LinesHaveBytes, ExecTypes, Record
<1>2. /\ PageSize \in Nat /\ PageSize > 0 /\ PageCount \in Nat
      /\ active_page \in 0 .. PageCount - 1 /\ write_offset \in 0 .. PageSize
      /\ (polluted \/ active_page > 0 => write_offset > 0)
  BY CellFacts DEF StoreOK
<1>3. z <= PageSize /\ (new => NextPage < PageCount)
  BY <1>1, <1>2 DEF Refuses, TooLarge, NoPageLeft, NextPage
<1>4. /\ q \in 0 .. PageCount - 1 /\ o \in 0 .. PageSize /\ o + z <= PageSize /\ (new => o = 0)
      /\ \A p \in 0 .. PageCount - 1, k \in 1 .. PageSize :
            p > q \/ (p = q /\ k > o) => medium[Cell(p, k)] = Free
      /\ \A k \in 1 .. o : medium[Cell(q, k)] # Free
      /\ o > 0 => IsNewline(medium[Cell(q, o)])
      /\ q > 0 => medium[Cell(q - 1, 1)] # Free
  <2>1. CASE new
    <3>1. q = active_page + 1 /\ o = 0 /\ q \in 0 .. PageCount - 1 /\ q - 1 = active_page
      BY <1>2, <1>3, <2>1 DEF TargetPage, TargetOffset, NextPage
    <3>2. write_offset > 0
      BY <1>1, <1>2, <1>3, <2>1 DEF NeedsNewPage
    <3>3. medium[Cell(active_page, 1)] # Free
      <4>1. 1 \in 1 .. PageSize /\ 1 <= write_offset
        BY <1>2, <3>2
      <4> QED BY <4>1 DEF StoreOK
    <3>4. ASSUME NEW p \in 0 .. PageCount - 1, NEW k \in 1 .. PageSize, p > q \/ (p = q /\ k > o)
          PROVE  medium[Cell(p, k)] = Free
      <4>1. p \in active_page + 1 .. PageCount - 1
        BY <1>2, <3>1, <3>4
      <4> QED BY <4>1, Zenon DEF StoreOK
    <3>5. o \in 0 .. PageSize /\ o + z <= PageSize /\ ~(o > 0) /\ \A k : k \notin 1 .. o
      BY <1>1, <1>2, <1>3, <3>1
    <3> HIDE DEF q, o, z, new
    <3> QED BY <2>1, <3>1, <3>3, <3>4, <3>5
  <2>2. CASE ~new
    <3>1. /\ q = active_page /\ o = write_offset /\ ~polluted /\ ~(write_offset >= PageSize)
          /\ ~(PageSize - write_offset < z)
      BY <1>1, <2>2 DEF TargetPage, TargetOffset, NeedsNewPage
    <3>2. o \in 0 .. PageSize /\ o + z <= PageSize /\ q \in 0 .. PageCount - 1
      BY <1>1, <1>2, <3>1
    <3>3. ASSUME NEW p \in 0 .. PageCount - 1, NEW k \in 1 .. PageSize, p > q \/ (p = q /\ k > o)
          PROVE  medium[Cell(p, k)] = Free
      <4>1. CASE p > q
        <5>1. p \in active_page + 1 .. PageCount - 1
          BY <1>2, <3>1, <4>1
        <5> QED BY <5>1, Zenon DEF StoreOK
      <4>2. CASE p = q /\ k > o
        <5>1. ~(k <= write_offset)
          BY <1>2, <3>1, <4>2
        <5> QED BY <3>1, <4>2, <5>1, Zenon DEF StoreOK
      <4> QED BY <3>3, <4>1, <4>2
    <3>4. ASSUME NEW k \in 1 .. o PROVE medium[Cell(q, k)] # Free
      <4>1. k \in 1 .. PageSize /\ k <= write_offset
        BY <1>2, <3>1
      <4> QED BY <3>1, <4>1, Zenon DEF StoreOK
    <3>5. o > 0 => IsNewline(medium[Cell(q, o)])
      <4>1. o > 0 => write_offset \in 1 .. PageSize - 1
        BY <1>2, <3>1
      <4> QED BY <3>1, <4>1, Zenon DEF StoreOK
    <3>6. q > 0 => medium[Cell(q - 1, 1)] # Free
      <4>1. SUFFICES ASSUME q > 0 PROVE medium[Cell(q - 1, 1)] # Free
        OBVIOUS
      <4>2. 1 \in 1 .. o /\ q \in 1 .. PageCount - 1
        BY <1>2, <3>1, <4>1
      <4>3. medium[Cell(q, 1)] # Free
        BY <3>4, <4>2
      <4> HIDE DEF q
      <4> QED BY <4>2, <4>3 DEF RingOK, NoHoles
    <3> HIDE DEF q, o, z, new
    <3> QED BY <2>2, <3>2, <3>3, <3>4, <3>5, <3>6
  <2> QED BY <2>1, <2>2
<1> HIDE DEF q, o, z
<1>5. ASSUME NEW j \in 1 .. PageSize * PageCount, Cell(q, 0) + o < j PROVE medium[j] = Free
  <2>1. PICK p \in 0 .. PageCount - 1, k \in 1 .. PageSize : j = Cell(p, k)
    BY Located
  <2>2. p \in Nat /\ q \in Nat /\ k \in Int /\ o \in Nat
    BY <1>2, <1>4
  <2>3. j = Cell(p, 0) + k /\ Cell(p, 0) \in Nat /\ Cell(q, 0) \in Nat
    BY <2>1, <2>2, CellFacts
  <2>4. p < q => Cell(p, 0) + PageSize <= Cell(q, 0)
    BY <2>2, CellFacts
  <2>5. ~(p < q)
    BY <1>2, <1>5, <2>2, <2>3, <2>4
  <2>6. p > q \/ (p = q /\ k > o)
    BY <1>5, <2>2, <2>3, <2>5
  <2> QED BY <1>4, <2>1, <2>6
<1>6. Position(rec) = Cell(q, 0) + o
  <2>1. q \in Nat /\ o \in Int
    BY <1>2, <1>4
  <2>2. Position(rec) = Cell(q, o)
    BY DEF Position, q, o
  <2> QED BY <2>1, <2>2, CellFacts
<1>7. Prepared(rec) = medium
  <2>1. CASE ~new
    BY <2>1 DEF Prepared
  <2>2. CASE new
    <3>1. q = NextPage /\ q \in Nat /\ o = 0
      BY <1>2, <1>4, <2>2 DEF TargetPage, q
    <3>2. Prepared(rec) = erase_page(medium, q)
      BY <2>2, <3>1 DEF Prepared
    <3>3. Cell(q, 1) = Cell(q, 0) + 1 /\ Cell(q, 0) \in Nat
      <4>1. Cell(q, 0) \in Nat /\ \A k \in Int : Cell(q, k) = Cell(q, 0) + k
        BY <3>1, CellFacts, Zenon
      <4> QED BY <4>1
    <3>4. DOMAIN medium = 1 .. PageSize * PageCount /\ medium = [j \in DOMAIN medium |-> medium[j]]
      BY DEF RingOK, CellsOK
    <3>5. ASSUME NEW j \in DOMAIN medium, j \in Cell(q, 1) .. Cell(q, PageSize) PROVE medium[j] = Free
      <4>1. j \in 1 .. PageSize * PageCount /\ j \in Nat
        BY <3>4
      <4>2. Cell(q, 1) <= j
        BY <3>5
      <4>3. Cell(q, 0) + o < j
        BY <3>1, <3>3, <4>1, <4>2
      <4> QED BY <1>5, <4>1, <4>3
    <3>6. \A j \in DOMAIN medium : medium[j] = IF j \in Cell(q, 1) .. Cell(q, PageSize) THEN Free ELSE medium[j]
      BY <3>5
    <3> QED BY <3>2, <3>4, <3>6 DEF erase_page
  <2> QED BY <2>1, <2>2
<1>8. Place(q, o, z)
  BY <1>1, <1>4, <1>5 DEF Place
<1> QED BY <1>6, <1>7, <1>8 DEF q, o, z

(* Cells in the place of a line. *)
LEMMA InPlace ==
    ASSUME NEW q \in 0 .. PageCount - 1, NEW o \in 0 .. PageSize, NEW b \in Nat, o + b <= PageSize,
           NEW p \in 0 .. PageCount - 1, NEW k \in 1 .. PageSize
    PROVE  /\ Cell(p, k) \in Cell(q, 0) + o + 1 .. Cell(q, 0) + o + b <=> p = q /\ k \in o + 1 .. o + b
           /\ p = q => Cell(p, k) - (Cell(q, 0) + o) = k - o
<1>1. p \in Nat /\ q \in Nat /\ k \in Int /\ o \in Int /\ PageSize \in Nat
  BY CellFacts
<1>2. Cell(p, k) = Cell(p, 0) + k /\ Cell(p, 0) \in Nat /\ Cell(q, 0) \in Nat
  BY <1>1, CellFacts
<1>3. p < q => Cell(p, 0) + PageSize <= Cell(q, 0)
  BY <1>1, CellFacts
<1>4. q < p => Cell(q, 0) + PageSize <= Cell(p, 0)
  BY <1>1, CellFacts
<1>5. p < q \/ q < p \/ p = q
  BY <1>1
<1> DEFINE P == Cell(p, 0)
           Q == Cell(q, 0)
<1>6. P \in Nat /\ Q \in Nat /\ (p < q => P + PageSize <= Q) /\ (q < p => Q + PageSize <= P) /\ (p = q => P = Q)
  BY <1>2, <1>3, <1>4
<1> HIDE DEF P, Q
<1>7. P + k \in Q + o + 1 .. Q + o + b <=> p = q /\ k \in o + 1 .. o + b
  <2>1. CASE p = q
    BY <1>1, <1>6, <2>1
  <2>2. CASE p < q
    BY <1>1, <1>6, <2>2
  <2>3. CASE q < p
    BY <1>1, <1>6, <2>3
  <2> QED BY <1>5, <2>1, <2>2, <2>3
<1>8. p = q => P + k - (Q + o) = k - o
  BY <1>1, <1>6
<1> QED BY <1>2, <1>7, <1>8 DEF P, Q

(* The first b bytes of line n are programmed. *)
Programmed(q, o, b, n) ==
    medium' = [j \in 1 .. PageSize * PageCount |->
                  IF j \in Cell(q, 0) + o + 1 .. Cell(q, 0) + o + b
                  THEN [line |-> n, at |-> j - (Cell(q, 0) + o)] ELSE medium[j]]

LEMMA ProgramIs ==
    ASSUME CellsOK(medium), NEW q \in Nat, NEW o \in Nat, NEW b \in Nat, NEW n, NEW bytes,
           DOMAIN bytes = 1 .. b, \A i \in 1 .. b : bytes[i] = [line |-> n, at |-> i],
           medium' = program(medium, Cell(q, 0) + o, bytes)
    PROVE  Programmed(q, o, b, n)
<1> DEFINE P == Cell(q, 0) + o
<1>1. P \in Nat /\ DOMAIN medium = 1 .. PageSize * PageCount /\ PageSize * PageCount \in Nat
  <2>1. Cell(q, 0) \in Nat /\ PageSize * PageCount \in Nat
    BY CellFacts, Zenon
  <2>2. P \in Nat
    BY <2>1
  <2>3. DOMAIN medium = 1 .. PageSize * PageCount
    BY DEF CellsOK
  <2> QED BY <2>1, <2>2, <2>3
<1>2. medium' = [j \in DOMAIN medium |-> IF j - P \in DOMAIN bytes THEN bytes[j - P] ELSE medium[j]]
  BY DEF program
<1> HIDE DEF P
<1>3. ASSUME NEW j \in DOMAIN medium
      PROVE  (IF j - P \in DOMAIN bytes THEN bytes[j - P] ELSE medium[j])
             = (IF j \in P + 1 .. P + b THEN [line |-> n, at |-> j - P] ELSE medium[j])
  <2>1. j - P \in 1 .. b <=> j \in P + 1 .. P + b
    BY <1>1
  <2> QED BY <2>1
<1>4. medium' = [j \in DOMAIN medium |->
                    IF j \in P + 1 .. P + b THEN [line |-> n, at |-> j - P] ELSE medium[j]]
  BY <1>2, <1>3
<1>5. medium' = [j \in 1 .. PageSize * PageCount |->
                    IF j \in P + 1 .. P + b THEN [line |-> n, at |-> j - P] ELSE medium[j]]
  BY <1>1, <1>4
<1> QED BY <1>5 DEF Programmed, P

-----------------------------------------------------------------------------
(* The ring after the first bytes of a line, or all of them, have gone to   *)
(* it.                                                                      *)

(* What there has been written, with the line of rec. *)
Known(rec, n) ==
    /\ Len(written) \in Nat /\ Len(written') \in Nat /\ Len(written) <= Len(written')
    /\ \A i \in 1 .. Len(written) : written'[i] = written[i]
    /\ n \in 1 .. Len(written') /\ written'[n] = rec

(* Where the first b of the z bytes of line n go. *)
Taken(q, o, z, b, n) ==
    /\ Place(q, o, z) /\ b \in 1 .. z /\ Programmed(q, o, b, n)

LEMMA KnownIs ==
    ASSUME IsSeq(written), NEW rec, Remember(rec) PROVE Known(rec, chain_step(rec))
BY Remembered, SeqLength DEF Known

(* A cell that was not free stays what it was, and so does its line. *)
LEMMA OldCells ==
    ASSUME CellsOK(medium), NEW rec, NEW n, Known(rec, n),
           NEW q, NEW o, NEW z, NEW b, Taken(q, o, z, b, n),
           NEW j \in 1 .. PageSize * PageCount, medium[j] # Free
    PROVE  /\ medium'[j] = medium[j] /\ medium[j].line \in 1 .. Len(written')
           /\ written'[medium[j].line] = written[medium[j].line]
           /\ IsNewline(medium[j])' <=> IsNewline(medium[j])
<1> DEFINE P == Cell(q, 0) + o
<1>1. medium[j].line \in 1 .. Len(written)
  BY DEF CellsOK
<1>2. medium[j].line \in 1 .. Len(written') /\ written'[medium[j].line] = written[medium[j].line]
  BY <1>1 DEF Known
<1>3. P \in Nat
  <2>1. q \in Nat /\ o \in Nat
    BY CellFacts DEF Taken, Place
  <2>2. Cell(q, 0) \in Nat
    BY <2>1, CellFacts, Zenon
  <2> QED BY <2>1, <2>2
<1>4. ~(P < j) /\ b \in Nat
  BY DEF Taken, Place
<1>5. medium' = [i \in 1 .. PageSize * PageCount |->
                  IF i \in P + 1 .. P + b THEN [line |-> n, at |-> i - P] ELSE medium[i]]
  BY DEF Taken, Programmed
<1>6. j \in Nat
  BY CellFacts
<1> HIDE DEF P
<1>7. j \notin P + 1 .. P + b
  BY <1>3, <1>4, <1>6
<1>8. medium'[j] = medium[j]
  BY <1>5, <1>7
<1>9. IsNewline(medium[j])' <=> IsNewline(medium[j])
  BY <1>2, <1>8 DEF IsNewline
<1> QED BY <1>2, <1>8, <1>9

(* Every cell of the ring, page by page. *)
LEMMA CellsAfter ==
    ASSUME NEW n, NEW q, NEW o, NEW z, NEW b, Taken(q, o, z, b, n),
           NEW p \in 0 .. PageCount - 1, NEW k \in 1 .. PageSize
    PROVE  /\ p = q /\ k \in o + 1 .. o + b => medium'[Cell(p, k)] = [line |-> n, at |-> k - o]
           /\ ~(p = q /\ k \in o + 1 .. o + b) => medium'[Cell(p, k)] = medium[Cell(p, k)]
<1> DEFINE P == Cell(q, 0) + o
           j == Cell(p, k)
<1>1. /\ q \in 0 .. PageCount - 1 /\ o \in 0 .. PageSize /\ b \in Nat /\ z \in Nat /\ b <= z
      /\ o + z <= PageSize
  BY DEF Taken, Place
<1>2. o + b <= PageSize
  BY <1>1, CellFacts
<1>3. /\ j \in P + 1 .. P + b <=> p = q /\ k \in o + 1 .. o + b
      /\ p = q => j - P = k - o
  BY <1>1, <1>2, InPlace
<1>4. j \in 1 .. PageSize * PageCount
  BY CellInRing
<1>5. medium' = [i \in 1 .. PageSize * PageCount |->
                  IF i \in P + 1 .. P + b THEN [line |-> n, at |-> i - P] ELSE medium[i]]
  BY DEF Taken, Programmed
<1> HIDE DEF P, j
<1>6. medium'[j] = IF j \in P + 1 .. P + b THEN [line |-> n, at |-> j - P] ELSE medium[j]
  BY <1>4, <1>5
<1>7. CASE p = q /\ k \in o + 1 .. o + b
  <2>1. medium'[j] = [line |-> n, at |-> j - P] /\ j - P = k - o
    BY <1>3, <1>6, <1>7
  <2> QED BY <1>7, <2>1 DEF j
<1>8. CASE ~(p = q /\ k \in o + 1 .. o + b)
  BY <1>3, <1>6, <1>8 DEF j
<1> QED BY <1>7, <1>8

LEMMA ByteIsNotFree ==
    ASSUME NEW n, NEW i \in Nat, i > 0 PROVE [line |-> n, at |-> i] # Free
<1>1. [line |-> n, at |-> i].at = i /\ Free.at = 0
  BY DEF Free
<1> QED BY <1>1

LEMMA CellsGrow ==
    ASSUME CellsOK(medium), NEW rec, NEW n, Known(rec, n), NEW q, NEW o, NEW z, NEW b,
           z = Size(rec.fact), Taken(q, o, z, b, n)
    PROVE  CellsOK(medium)'
<1> DEFINE P == Cell(q, 0) + o
           N == PageSize * PageCount
<1>1. b \in Nat /\ b \in 1 .. z /\ z \in Nat /\ n \in Nat
  BY DEF Taken, Place, Known
<1>2. P \in Nat /\ N \in Nat
  <2>1. q \in Nat /\ o \in Nat
    BY CellFacts DEF Taken, Place
  <2>2. Cell(q, 0) \in Nat /\ PageSize * PageCount \in Nat
    BY <2>1, CellFacts, Zenon
  <2> QED BY <2>1, <2>2
<1>3. medium' = [i \in 1 .. N |->
                  IF i \in P + 1 .. P + b THEN [line |-> n, at |-> i - P] ELSE medium[i]]
  BY DEF Taken, Programmed
<1>4. medium \in [1 .. N -> [line : Nat, at : Nat]]
  BY DEF CellsOK
<1>5. ASSUME NEW j \in 1 .. N, medium[j] # Free
      PROVE  /\ medium'[j] = medium[j] /\ medium'[j].line \in 1 .. Len(written')
             /\ medium'[j].at \in 1 .. Size(written'[medium'[j].line].fact)
  <2>1. /\ medium'[j] = medium[j] /\ medium[j].line \in 1 .. Len(written')
        /\ written'[medium[j].line] = written[medium[j].line]
    BY <1>5, OldCells
  <2>2. medium[j].at \in 1 .. Size(written[medium[j].line].fact)
    BY <1>5 DEF CellsOK
  <2> QED BY <2>1, <2>2
<1> HIDE DEF P, N
<1>6. ASSUME NEW j \in 1 .. N, j \in P + 1 .. P + b
      PROVE  /\ medium'[j] \in [line : Nat, at : Nat] /\ medium'[j].line \in 1 .. Len(written')
             /\ medium'[j].at \in 1 .. Size(written'[medium'[j].line].fact)
  <2>1. medium'[j] = [line |-> n, at |-> j - P]
    BY <1>3, <1>6
  <2>2. j - P \in 1 .. z /\ j - P \in Nat
    BY <1>1, <1>2, <1>6
  <2>3. n \in 1 .. Len(written') /\ written'[n].fact = rec.fact
    BY DEF Known
  <2> QED BY <1>1, <2>1, <2>2, <2>3
<1>7. \A j \in 1 .. N : j \notin P + 1 .. P + b => medium'[j] = medium[j]
  BY <1>3
<1>8. medium' \in [1 .. N -> [line : Nat, at : Nat]]
  <2>1. \A j \in 1 .. N : medium'[j] \in [line : Nat, at : Nat]
    BY <1>4, <1>6, <1>7
  <2>2. medium' = [j \in 1 .. N |-> medium'[j]]
    BY <1>3
  <2> QED BY <2>1, <2>2
<1>9. \A j \in 1 .. N : medium'[j] # Free =>
          medium'[j].line \in 1 .. Len(written')
          /\ medium'[j].at \in 1 .. Size(written'[medium'[j].line].fact)
  BY <1>5, <1>6, <1>7, Zenon
<1> QED BY <1>8, <1>9 DEF CellsOK, N

LEMMA PagesGrow ==
    ASSUME CellsOK(medium), PagesOK(medium), NEW rec, NEW n, Known(rec, n),
           NEW q, NEW o, NEW z, NEW b, Taken(q, o, z, b, n)
    PROVE  PagesOK(medium)'
<1>1. /\ q \in 0 .. PageCount - 1 /\ o \in 0 .. PageSize /\ b \in Nat /\ z \in Nat
      /\ b <= z /\ b > 0 /\ o + z <= PageSize /\ PageSize \in Nat
      /\ \A k \in 1 .. o : medium[Cell(q, k)] # Free
      /\ o > 0 => IsNewline(medium[Cell(q, o)])
  BY CellFacts DEF Taken, Place
<1> DEFINE Ends(c) == c # Free /\ c.at = Size(written'[c.line].fact)
<1>2. ASSUME NEW p \in 0 .. PageCount - 1, NEW k \in 1 .. PageSize, medium[Cell(p, k)] # Free
      PROVE  /\ medium'[Cell(p, k)] = medium[Cell(p, k)]
             /\ IsNewline(medium[Cell(p, k)]) => Ends(medium'[Cell(p, k)])
  <2>1. Cell(p, k) \in 1 .. PageSize * PageCount
    BY CellInRing
  <2>2. /\ medium'[Cell(p, k)] = medium[Cell(p, k)]
        /\ written'[medium[Cell(p, k)].line] = written[medium[Cell(p, k)].line]
    BY <1>2, <2>1, OldCells, Zenon
  <2> QED BY <2>2 DEF IsNewline
<1>3. \A k \in o + 1 .. o + b : k \in 1 .. PageSize /\ medium'[Cell(q, k)] = [line |-> n, at |-> k - o]
  <2>1. \A k \in o + 1 .. o + b : k \in 1 .. PageSize
    BY <1>1
  <2> QED BY <1>1, <2>1, CellsAfter
<1>4. \A c : c # Free /\ IsNewline(c) => c # Free
  OBVIOUS
<1> SUFFICES ASSUME NEW p \in 0 .. PageCount - 1, NEW k \in 1 .. PageSize,
                    medium'[Cell(p, k)] # Free
             PROVE  /\ medium'[Cell(p, k)].at <= k
                    /\ \A i \in 1 .. medium'[Cell(p, k)].at :
                          medium'[Cell(p, k - medium'[Cell(p, k)].at + i)]
                            = [line |-> medium'[Cell(p, k)].line, at |-> i]
                    /\ k > medium'[Cell(p, k)].at =>
                          Ends(medium'[Cell(p, k - medium'[Cell(p, k)].at)])
                    /\ \A j \in 1 .. k : medium'[Cell(p, j)] # Free
  BY DEF PagesOK, InLine, IsNewline
<1>5. CASE p = q /\ k \in o + 1 .. o + b
  <2>1. medium'[Cell(p, k)].at = k - o /\ medium'[Cell(p, k)].line = n
    <3>1. medium'[Cell(q, k)] = [line |-> n, at |-> k - o] /\ p = q
      BY <1>3, <1>5
    <3> QED BY <3>1
  <2>2. k - o \in Nat /\ k - o <= k /\ k - (k - o) = o
    BY <1>1, <1>5
  <2>3. ASSUME NEW i \in 1 .. k - o
        PROVE  medium'[Cell(p, k - (k - o) + i)] = [line |-> n, at |-> i]
    <3>1. o + i \in o + 1 .. o + b /\ (o + i) - o = i
      BY <1>1, <1>5
    <3>2. medium'[Cell(q, o + i)] = [line |-> n, at |-> (o + i) - o]
      BY <1>3, <3>1
    <3> QED BY <1>5, <2>2, <3>1, <3>2
  <2>4. k > k - o => Ends(medium'[Cell(p, k - (k - o))])
    <3>1. SUFFICES ASSUME o > 0 PROVE Ends(medium'[Cell(q, o)])
      BY <1>1, <1>5, <2>2
    <3>2. o \in 1 .. PageSize /\ o \in 1 .. o
      BY <1>1, <3>1
    <3>3. medium[Cell(q, o)] # Free /\ IsNewline(medium[Cell(q, o)])
      BY <1>1, <3>1, <3>2
    <3> QED BY <1>1, <1>2, <3>2, <3>3
  <2>5. ASSUME NEW j \in 1 .. k PROVE medium'[Cell(p, j)] # Free
    <3>1. CASE j <= o
      <4>1. j \in 1 .. o /\ j \in 1 .. PageSize
        BY <1>1, <3>1
      <4>2. medium[Cell(q, j)] # Free
        BY <1>1, <4>1
      <4> QED BY <1>1, <1>2, <1>5, <4>1, <4>2
    <3>2. CASE ~(j <= o)
      <4>1. j \in o + 1 .. o + b /\ j - o \in Nat /\ j - o > 0
        BY <1>1, <1>5, <3>2
      <4>2. medium'[Cell(q, j)] = [line |-> n, at |-> j - o]
        BY <1>3, <4>1
      <4> QED BY <1>5, <4>1, <4>2, ByteIsNotFree
    <3> QED BY <3>1, <3>2
  <2> HIDE DEF Ends
  <2> QED BY <2>1, <2>2, <2>3, <2>4, <2>5
<1>6. CASE ~(p = q /\ k \in o + 1 .. o + b)
  <2> DEFINE c == medium[Cell(p, k)]
  <2>1. medium'[Cell(p, k)] = c /\ c # Free
    <3>1. medium'[Cell(p, k)] = medium[Cell(p, k)]
      BY <1>6, CellsAfter, ZenonT(60)
    <3> QED BY <3>1
  <2>2. InLine(medium, p, k) /\ \A j \in 1 .. k : medium[Cell(p, j)] # Free
    BY <2>1, Zenon DEF PagesOK
  <2>3. c.at \in Nat
    <3>1. Cell(p, k) \in 1 .. PageSize * PageCount
      BY CellInRing
    <3> QED BY <3>1 DEF CellsOK
  <2>4. /\ c.at <= k
        /\ \A i \in 1 .. c.at : medium[Cell(p, k - c.at + i)] = [line |-> c.line, at |-> i]
        /\ k > c.at => IsNewline(medium[Cell(p, k - c.at)])
    BY <2>2, Zenon DEF InLine
  <2> HIDE DEF c
  <2>5. ASSUME NEW i \in 1 .. c.at PROVE medium'[Cell(p, k - c.at + i)] = [line |-> c.line, at |-> i]
    <3>1. k - c.at + i \in 1 .. PageSize /\ i \in Nat /\ i > 0
      BY <1>1, <2>3, <2>4
    <3>2. medium[Cell(p, k - c.at + i)] # Free
      BY <2>4, <3>1, ByteIsNotFree
    <3> QED BY <1>2, <2>4, <3>1, <3>2
  <2>6. k > c.at => Ends(medium'[Cell(p, k - c.at)])
    <3>1. SUFFICES ASSUME k > c.at PROVE Ends(medium'[Cell(p, k - c.at)])
      OBVIOUS
    <3>2. k - c.at \in 1 .. PageSize /\ k - c.at \in 1 .. k
      BY <1>1, <2>3, <2>4, <3>1
    <3>3. medium[Cell(p, k - c.at)] # Free /\ IsNewline(medium[Cell(p, k - c.at)])
      BY <2>2, <2>4, <3>1, <3>2
    <3> QED BY <1>2, <3>2, <3>3
  <2>7. ASSUME NEW j \in 1 .. k PROVE medium'[Cell(p, j)] # Free
    <3>1. j \in 1 .. PageSize
      BY <1>1
    <3> QED BY <1>2, <2>2, <3>1
  <2> HIDE DEF Ends
  <2> QED BY <2>1, <2>4, <2>5, <2>6, <2>7
<1> QED BY <1>5, <1>6

LEMMA NoHolesGrow ==
    ASSUME CellsOK(medium), NoHoles(medium), NEW rec, NEW n, Known(rec, n),
           NEW q, NEW o, NEW z, NEW b, Taken(q, o, z, b, n)
    PROVE  NoHoles(medium)'
<1>0. ASSUME NEW p \in 0 .. PageCount - 1, NEW k \in 1 .. PageSize, ~(p = q /\ k \in o + 1 .. o + b)
      PROVE  medium'[Cell(p, k)] = medium[Cell(p, k)]
  BY <1>0, CellsAfter, ZenonT(60)
<1> SUFFICES ASSUME NEW p \in 1 .. PageCount - 1, medium'[Cell(p, 1)] # Free
             PROVE  medium'[Cell(p - 1, 1)] # Free
  BY DEF NoHoles
<1>1. p \in 0 .. PageCount - 1 /\ p - 1 \in 0 .. PageCount - 1 /\ 1 \in 1 .. PageSize /\ p > 0
  BY CellFacts
<1>2. medium[Cell(p - 1, 1)] # Free
  <2>1. CASE p = q
    BY <1>1, <2>1 DEF Taken, Place
  <2>2. CASE p # q
    <3>1. medium[Cell(p, 1)] # Free
      BY <1>0, <1>1, <2>2
    <3> QED BY <3>1 DEF NoHoles
  <2> QED BY <2>1, <2>2
<1>3. Cell(p - 1, 1) \in 1 .. PageSize * PageCount
  BY <1>1, CellInRing
<1>4. medium'[Cell(p - 1, 1)] = medium[Cell(p - 1, 1)]
  BY <1>2, <1>3, OldCells, Zenon
<1> QED BY <1>2, <1>4

(* The line counts as soon as its newline is there, and not before. *)
LEMMA RowsGrow ==
    ASSUME CellsOK(medium), NEW rec, NEW n, Known(rec, n), NEW q, NEW o, NEW z, NEW b,
           z = Size(rec.fact), Taken(q, o, z, b, n)
    PROVE  /\ b = z => Committed(medium)' = Append(Committed(medium), n)
           /\ b # z => Committed(medium)' = Committed(medium)
<1> DEFINE P == Cell(q, 0) + o
           N == PageSize * PageCount
           s == Marks(medium)
           t == Marks(medium)'
<1>1. b \in Nat /\ b \in 1 .. z /\ z \in Nat /\ n \in Nat /\ written'[n].fact = rec.fact
  BY DEF Taken, Place, Known
<1>2. P \in Nat /\ N \in Nat /\ P + z <= N
  <2>0. q \in 0 .. PageCount - 1 /\ o \in 0 .. PageSize /\ o + z <= PageSize /\ PageCount \in Nat
        /\ PageSize \in Nat
    BY CellFacts DEF Taken, Place
  <2>1. q \in 0 .. PageCount - 1 /\ q \in Nat /\ o \in Nat /\ o + z \in 1 .. PageSize
    BY <1>1, <2>0
  <2>2. Cell(q, 0) \in Nat /\ PageSize * PageCount \in Nat
    BY <2>1, CellFacts, Zenon
  <2>3. Cell(q, o + z) \in 1 .. N
    BY <2>1, CellInRing
  <2>4. Cell(q, o + z) = Cell(q, 0) + (o + z)
    <3>1. \A k \in Int : Cell(q, k) = Cell(q, 0) + k
      BY <2>1, CellFacts, Zenon
    <3>2. o + z \in Int
      BY <1>1, <2>1
    <3> QED BY <3>1, <3>2
  <2> QED BY <1>1, <2>1, <2>2, <2>3, <2>4
<1>3. medium' = [i \in 1 .. N |->
                  IF i \in P + 1 .. P + b THEN [line |-> n, at |-> i - P] ELSE medium[i]]
  BY DEF Taken, Programmed
<1>4. Len(medium) = N /\ Len(medium') = N
  <2>1. CellsOK(medium)'
    BY CellsGrow
  <2>2. medium' \in [1 .. N -> [line : Nat, at : Nat]]
    BY <2>1 DEF CellsOK
  <2> QED BY <2>2, RingIsSeq DEF CellsOK
<1>5. \A k \in 1 .. N : P < k => medium[k] = Free
  BY DEF Taken, Place
<1>6. s = [k \in 1 .. N |-> s[k]] /\ t = [k \in 1 .. N |-> t[k]]
  BY <1>4 DEF Marks
<1>7. ASSUME NEW k \in 1 .. N
      PROVE  /\ s[k] = IF IsNewline(medium[k]) THEN <<medium[k].line>> ELSE <<>>
             /\ t[k] = IF IsNewline(medium[k])' THEN <<medium'[k].line>> ELSE <<>>
  BY <1>4 DEF Marks
<1>8. \A k \in 1 .. N : medium[k] = Free => s[k] = <<>>
  BY <1>7 DEF IsNewline
<1>9. \A k \in 1 .. N : medium'[k] = Free => t[k] = <<>>
  BY <1>7 DEF IsNewline
<1>10. ASSUME NEW k \in 1 .. N, medium[k] # Free PROVE t[k] = s[k]
  <2>1. medium'[k] = medium[k] /\ (IsNewline(medium[k])' <=> IsNewline(medium[k]))
    BY <1>10, OldCells
  <2> QED BY <1>7, <2>1, Zenon
<1> HIDE DEF P, N, s, t
<1>11. ASSUME NEW k \in 1 .. N, k \notin P + 1 .. P + b PROVE t[k] = s[k]
  <2>1. medium'[k] = medium[k]
    BY <1>3, <1>11
  <2> QED BY <1>8, <1>9, <1>10, <2>1
<1>12. ASSUME NEW k \in 1 .. N, k \in P + 1 .. P + b
       PROVE  t[k] = IF k - P = z THEN <<n>> ELSE <<>>
  <2>1. medium'[k] = [line |-> n, at |-> k - P] /\ k - P \in Nat /\ k - P > 0
    BY <1>1, <1>2, <1>3, <1>12
  <2>2. medium'[k] # Free
    BY <2>1, ByteIsNotFree
  <2>3. medium'[k].line = n /\ medium'[k].at = k - P
    BY <2>1
  <2>4. IsNewline(medium[k])' <=> k - P = z
    BY <1>1, <2>2, <2>3 DEF IsNewline
  <2> QED BY <1>7, <2>3, <2>4
<1>13. CASE b = z
  <2> DEFINE e == P + b
  <2>1. e \in 1 .. N /\ e \in P + 1 .. P + b /\ e - P = z /\ e \in Nat
    BY <1>1, <1>2, <1>13
  <2>2. t[e] = <<n>>
    BY <1>12, <2>1
  <2>3. ASSUME NEW k \in 1 .. e - 1 PROVE t[k] = s[k]
    <3>1. k \in 1 .. N
      BY <1>2, <2>1
    <3>2. CASE k \in P + 1 .. P + b
      <4>1. k - P # z /\ P < k
        BY <1>1, <1>2, <1>13, <3>2
      <4> QED BY <1>5, <1>8, <1>12, <3>1, <3>2, <4>1
    <3> QED BY <1>11, <3>1, <3>2
  <2>4. ASSUME NEW k \in e .. N PROVE s[k] = <<>>
    <3>1. k \in 1 .. N /\ P < k
      BY <1>1, <1>2
    <3> QED BY <1>5, <1>8, <3>1
  <2>5. ASSUME NEW k \in e + 1 .. N PROVE t[k] = <<>>
    <3>1. k \in 1 .. N /\ P < k /\ k \notin P + 1 .. P + b
      BY <1>1, <1>2
    <3> QED BY <1>5, <1>8, <1>11, <3>1
  <2> HIDE DEF e
  <2>6. Committed(medium)' = Append(Committed(medium), n)
    BY <1>2, <1>4, <2>1, <2>2, <2>3, <2>4, <2>5, OneRowMore DEF s, t
  <2> QED BY <1>13, <2>6
<1>14. CASE b # z
  <2>1. ASSUME NEW k \in 1 .. N PROVE t[k] = s[k]
    <3>1. CASE k \in P + 1 .. P + b
      <4>1. k - P # z /\ P < k
        BY <1>1, <1>2, <1>14, <3>1
      <4> QED BY <1>5, <1>8, <1>12, <3>1, <4>1
    <3> QED BY <1>11, <3>1
  <2>2. t = s
    BY <1>6, <2>1
  <2>3. Committed(medium)' = Committed(medium)
    BY <1>2, <1>4, <2>2, SameRows DEF s, t
  <2> QED BY <1>14, <2>3
<1> QED BY <1>13, <1>14

LEMMA ChainGrows ==
    ASSUME Chained(Committed(medium)), NEW rec, NEW n, Known(rec, n),
           rec.prev_hash = TailOf(medium),
           \/ Committed(medium)' = Append(Committed(medium), n)
           \/ Committed(medium)' = Committed(medium)
    PROVE  Chained(Committed(medium))'
<1> DEFINE rows == Committed(medium)
           new == Committed(medium)'
<1>1. /\ rows \in Seq(1 .. Len(written)) /\ Len(rows) \in Nat
      /\ \A k \in 1 .. Len(rows) : written[rows[k]].prev_hash = IF k = 1 THEN genesis ELSE rows[k - 1]
  BY DEF Chained
<1>2. /\ Len(written) \in Nat /\ Len(written') \in Nat /\ Len(written) <= Len(written')
      /\ \A i \in 1 .. Len(written) : written'[i] = written[i]
      /\ n \in 1 .. Len(written') /\ written'[n] = rec
  BY DEF Known
<1>3. rec.prev_hash = IF rows = <<>> THEN genesis ELSE rows[Len(rows)]
  BY DEF TailOf, Last
<1>4. new = Append(rows, n) \/ new = rows
  OBVIOUS
<1>5. SUFFICES /\ new \in Seq(1 .. Len(written'))
               /\ \A k \in 1 .. Len(new) :
                     written'[new[k]].prev_hash = IF k = 1 THEN genesis ELSE new[k - 1]
  BY DEF Chained
<1> HIDE DEF rows, new
<1>6. 1 .. Len(written) \subseteq 1 .. Len(written')
  BY <1>2
<1>7. rows \in Seq(1 .. Len(written'))
  <2>1. ASSUME NEW S, NEW T, S \subseteq T, NEW x \in Seq(S) PROVE x \in Seq(T)
    BY <2>1
  <2> QED BY <1>1, <1>6, <2>1
<1>8. ASSUME NEW k \in 1 .. Len(rows)
      PROVE  written'[rows[k]].prev_hash = IF k = 1 THEN genesis ELSE rows[k - 1]
  <2>1. rows[k] \in 1 .. Len(written)
    BY <1>1
  <2> QED BY <1>1, <1>2, <2>1
<1>9. CASE new = rows
  BY <1>7, <1>8, <1>9
<1>10. CASE new = Append(rows, n)
  <2> DEFINE l == Len(rows)
  <2>1. /\ new \in Seq(1 .. Len(written')) /\ Len(new) = l + 1
        /\ \A k \in 1 .. l : new[k] = rows[k]
        /\ new[l + 1] = n
    BY <1>2, <1>7, <1>10
  <2>2. rows = <<>> <=> l = 0
    BY <1>7
  <2>3. l \in Nat
    BY <1>1
  <2> HIDE DEF l
  <2>4. ASSUME NEW k \in 1 .. Len(new)
        PROVE  written'[new[k]].prev_hash = IF k = 1 THEN genesis ELSE new[k - 1]
    <3>1. CASE k \in 1 .. l
      <4>1. new[k] = rows[k] /\ (k # 1 => new[k - 1] = rows[k - 1])
        BY <2>1, <2>3, <3>1
      <4> QED BY <1>8, <3>1, <4>1 DEF l
    <3>2. CASE k = l + 1
      <4>1. new[k] = n /\ (k = 1 <=> rows = <<>>) /\ (k # 1 => new[k - 1] = rows[l])
        BY <2>1, <2>2, <2>3, <3>2
      <4> QED BY <1>2, <1>3, <4>1 DEF l
    <3> QED BY <2>1, <2>3, <3>1, <3>2
  <2> QED BY <2>1, <2>4
<1> QED BY <1>4, <1>9, <1>10

LEMMA RingGrows ==
    ASSUME RingOK, NEW rec, NEW n, Known(rec, n), NEW q, NEW o, NEW z, NEW b,
           z = Size(rec.fact), Taken(q, o, z, b, n), rec.prev_hash = TailOf(medium)
    PROVE  /\ RingOK'
           /\ b = z => Committed(medium)' = Append(Committed(medium), n)
           /\ b # z => Committed(medium)' = Committed(medium)
<1>1. CellsOK(medium) /\ PagesOK(medium) /\ NoHoles(medium) /\ Chained(Committed(medium))
  BY DEF RingOK
<1>2. /\ b = z => Committed(medium)' = Append(Committed(medium), n)
      /\ b # z => Committed(medium)' = Committed(medium)
  <2>1. ASSUME b = z PROVE Committed(medium)' = Append(Committed(medium), n)
    BY <1>1, <2>1, RowsGrow
  <2>2. ASSUME b # z PROVE Committed(medium)' = Committed(medium)
    BY <1>1, <2>2, RowsGrow, ZenonT(60)
  <2> QED BY <2>1, <2>2
<1>3. CellsOK(medium)'
  BY <1>1, CellsGrow
<1>4. PagesOK(medium)'
  BY <1>1, PagesGrow, Zenon
<1>5. NoHoles(medium)'
  BY <1>1, NoHolesGrow, Zenon
<1>6. Chained(Committed(medium))'
  <2>1. Committed(medium)' = Append(Committed(medium), n) \/ Committed(medium)' = Committed(medium)
    BY <1>2
  <2> QED BY <1>1, <2>1, ChainGrows, Zenon
<1> QED BY <1>2, <1>3, <1>4, <1>5, <1>6 DEF RingOK

-----------------------------------------------------------------------------
(* append_record on a ring and a store that stand. *)

LEMMA StoreStays ==
    ASSUME RingOK, UNCHANGED <<written, medium, lines, tail_hash, active_page, write_offset, polluted>>
    PROVE  RingOK' /\ (StoreOK => StoreOK') /\ Committed(medium)' = Committed(medium)
<1>1. /\ Committed(medium)' = Committed(medium) /\ TailOf(medium)' = TailOf(medium) /\ RingOK'
  BY RingStays DEF RingOK
<1>2. StoreOK => StoreOK'
  BY <1>1 DEF StoreOK, IsNewline
<1> QED BY <1>1, <1>2

(* What lies behind a place of the ring. *)
LEMMA Behind ==
    ASSUME NEW q \in 0 .. PageCount - 1, NEW o \in 0 .. PageSize,
           NEW p \in 0 .. PageCount - 1, NEW k \in 1 .. PageSize, p > q \/ (p = q /\ k > o)
    PROVE  Cell(q, 0) + o < Cell(p, k)
<1>1. p \in Nat /\ q \in Nat /\ k \in Int /\ o \in Int /\ PageSize \in Nat
  BY CellFacts
<1>2. Cell(p, k) = Cell(p, 0) + k /\ Cell(p, 0) \in Nat /\ Cell(q, 0) \in Nat
  BY <1>1, CellFacts
<1>3. q < p => Cell(q, 0) + PageSize <= Cell(p, 0)
  BY <1>1, CellFacts
<1> DEFINE P == Cell(p, 0)
           Q == Cell(q, 0)
<1>4. P \in Nat /\ Q \in Nat /\ (q < p => Q + PageSize <= P) /\ (p = q => P = Q)
  BY <1>2, <1>3
<1> HIDE DEF P, Q
<1>5. Q + o < P + k
  BY <1>1, <1>4
<1> QED BY <1>2, <1>5 DEF P, Q

(* The bytes of a line, and its first k bytes. *)
LEMMA LineIs ==
    ASSUME NEW rec, Size(rec.fact) \in Nat, NEW k \in 1 .. Size(rec.fact)
    PROVE  LET s == SubSeq(wal_line_json(rec), 1, k) IN
           DOMAIN s = 1 .. k /\ \A i \in 1 .. k : s[i] = [line |-> chain_step(rec), at |-> i]
<1> DEFINE z == Size(rec.fact)
           w == wal_line_json(rec)
<1>1. w = [i \in 1 .. z |-> [line |-> chain_step(rec), at |-> i]] /\ z \in Nat /\ k \in 1 .. z
  BY DEF wal_line_json
<1> HIDE DEF z, w
<1>2. w = [i \in 1 .. z |-> w[i]] /\ \A i \in 1 .. z : w[i] = [line |-> chain_step(rec), at |-> i]
  BY <1>1
<1>3. IsSeq(w) /\ Len(w) = z
  BY <1>1, <1>2, FunctionIsSeq
<1>4. PICK S : w \in Seq(S)
  BY <1>3 DEF IsSeq
<1>5. 1 \in Nat /\ k \in Nat /\ 1 <= k + 1 /\ k - 1 + 1 = k /\ 1 \in 1 .. Len(w) /\ k \in 1 .. Len(w)
  BY <1>1, <1>3
<1>6. /\ Len(SubSeq(w, 1, k)) = k /\ SubSeq(w, 1, k) \in Seq(S)
      /\ \A i \in 1 .. k : SubSeq(w, 1, k)[i] = w[i]
  BY <1>1, <1>3, <1>4, <1>5
<1>7. DOMAIN SubSeq(w, 1, k) = 1 .. k
  BY <1>6
<1>8. \A i \in 1 .. k : i \in 1 .. z
  BY <1>1
<1> QED BY <1>2, <1>6, <1>7, <1>8 DEF w

LEMMA NeverBarred ==
    ASSUME LinesHaveBytes, ExecTypes, RingOK, StoreOK, Writing,
           NEW rec, rec = Record(version, out), ~Refuses(rec)
    PROVE  CanProgram(rec)
<1> DEFINE q == TargetPage(rec)
           o == TargetOffset(rec)
           z == Size(out)
           P == Cell(q, 0) + o
<1>1. /\ Place(q, o, z) /\ Position(rec) = P /\ Prepared(rec) = medium
  BY TargetIs
<1>2. rec.fact = out
  BY DEF Record
<1>3. wal_line_json(rec) = [k \in 1 .. z |-> [line |-> chain_step(rec), at |-> k]]
  BY <1>2 DEF wal_line_json
<1> HIDE DEF q, o, z
<1>4. ASSUME NEW k \in 1 .. z PROVE medium[P + k] = Free
  <2>1. /\ q \in 0 .. PageCount - 1 /\ o \in 0 .. PageSize /\ z \in Nat /\ o + z <= PageSize
        /\ \A j \in 1 .. PageSize * PageCount : P < j => medium[j] = Free
    BY <1>1 DEF Place
  <2>2. q \in Nat /\ PageSize \in Nat
    BY <2>1, CellFacts
  <2>3. Cell(q, 0) \in Nat /\ \A i \in Int : Cell(q, i) = Cell(q, 0) + i
    BY <2>2, CellFacts, Zenon
  <2>4. o + k \in 1 .. PageSize /\ o + k \in Int
    BY <2>1, <2>2
  <2>5. Cell(q, o + k) \in 1 .. PageSize * PageCount
    BY <2>1, <2>4, CellInRing
  <2>6. Cell(q, o + k) = P + k /\ P < P + k
    BY <2>1, <2>3, <2>4
  <2> HIDE DEF P
  <2> QED BY <2>1, <2>5, <2>6
<1> HIDE DEF P
<1>5. Programmable(Prepared(rec), Position(rec), wal_line_json(rec))
  BY <1>1, <1>3, <1>4 DEF Programmable
<1> QED BY <1>5 DEF CanProgram

(* The record is chained to the last complete line. *)
LEMMA RecordIs ==
    ASSUME StoreOK, NEW rec, rec = Record(version, out)
    PROVE  rec.fact = out /\ rec.prev_hash = TailOf(medium)
BY DEF Record, StoreOK

LEMMA LineTaken ==
    ASSUME LinesHaveBytes, ExecTypes, RingOK, StoreOK, Writing,
           NEW rec, rec = Record(version, out), ~Refuses(rec),
           NEW b \in 1 .. Size(out), NEW bytes, DOMAIN bytes = 1 .. b,
           \A i \in 1 .. b : bytes[i] = [line |-> chain_step(rec), at |-> i],
           medium' = program(Prepared(rec), Position(rec), bytes)
    PROVE  Taken(TargetPage(rec), TargetOffset(rec), Size(out), b, chain_step(rec))
<1> DEFINE q == TargetPage(rec)
           o == TargetOffset(rec)
           z == Size(out)
           n == chain_step(rec)
<1>1. /\ Place(q, o, z) /\ Position(rec) = Cell(q, 0) + o /\ Prepared(rec) = medium
  BY TargetIs
<1>2. /\ \A i \in 1 .. b : bytes[i] = [line |-> n, at |-> i]
      /\ medium' = program(medium, Cell(q, 0) + o, bytes)
  BY <1>1
<1>3. b \in 1 .. z
  OBVIOUS
<1> HIDE DEF q, o, z, n
<1>4. q \in Nat /\ o \in Nat /\ b \in Nat
  BY <1>1, <1>3, CellFacts DEF Place
<1>5. CellsOK(medium)
  BY DEF RingOK
<1>6. Programmed(q, o, b, n)
  BY <1>2, <1>4, <1>5, ProgramIs
<1>7. Taken(q, o, z, b, n)
  BY <1>1, <1>3, <1>6 DEF Taken
<1> QED BY <1>7 DEF q, o, z, n

LEMMA LandedStands ==
    ASSUME LinesHaveBytes, ExecTypes, RingOK, StoreOK, Writing, IsSeq(written),
           NEW rec, rec = Record(version, out), Landed(rec)
    PROVE  /\ RingOK' /\ StoreOK' /\ Known(rec, chain_step(rec))
           /\ Committed(medium)' = Append(Committed(medium), chain_step(rec))
<1> DEFINE q == TargetPage(rec)
           o == TargetOffset(rec)
           z == Size(out)
           n == chain_step(rec)
<1>1. rec.fact = out /\ rec.prev_hash = TailOf(medium)
  BY RecordIs
<1>2. z \in Nat /\ z > 0
  BY DEF LinesHaveBytes, ExecTypes
<1>3. /\ ~Refuses(rec) /\ Remember(rec) /\ lines' = Append(lines, n) /\ tail_hash' = n
      /\ active_page' = q /\ write_offset' = o + z /\ polluted' = (polluted /\ ~NeedsNewPage(rec))
      /\ medium' = program(Prepared(rec), Position(rec), wal_line_json(rec))
  BY <1>1 DEF Landed, CanProgram
<1>4. Known(rec, n)
  BY <1>3, KnownIs
<1>5. wal_line_json(rec) = [i \in 1 .. z |-> [line |-> n, at |-> i]]
  BY <1>1 DEF wal_line_json
<1>6. Taken(q, o, z, z, n)
  <2>1. z \in 1 .. z
    BY <1>2
  <2>2. DOMAIN wal_line_json(rec) = 1 .. z
        /\ \A i \in 1 .. z : wal_line_json(rec)[i] = [line |-> n, at |-> i]
    BY <1>5
  <2> QED BY <1>3, <2>1, <2>2, LineTaken
<1>7. z = Size(rec.fact)
  BY <1>1
<1> HIDE DEF q, o, z, n
<1>8. RingOK' /\ Committed(medium)' = Append(Committed(medium), n)
  BY <1>1, <1>4, <1>6, <1>7, RingGrows
<1>9. lines' = Committed(medium)' /\ tail_hash' = TailOf(medium)'
  <2>1. lines = Committed(medium)
    BY DEF StoreOK
  <2>2. IsSeq(Committed(medium))
    BY DEF RingOK, Chained, IsSeq
  <2> DEFINE rows == Committed(medium)
             new == Append(rows, n)
  <2>3. IsSeq(rows) /\ Committed(medium)' = new
    BY <1>8, <2>2
  <2> HIDE DEF rows
  <2>4. IsSeq(new) /\ Len(new) = Len(rows) + 1 /\ new[Len(rows) + 1] = n /\ Len(rows) \in Nat
    BY <2>3, Appended, SeqLength
  <2>5. new # <<>>
    BY <2>4, EmptyIsSeq
  <2>6. new[Len(new)] = n
    BY <2>4
  <2>7. Committed(medium)' # <<>> /\ Committed(medium)'[Len(Committed(medium)')] = n
    BY <2>3, <2>5, <2>6
  <2>8. TailOf(medium)' = n
    BY <2>7 DEF TailOf, Last
  <2> QED BY <1>3, <1>8, <2>1, <2>8
<1>10. /\ q \in 0 .. PageCount - 1 /\ o \in 0 .. PageSize /\ o + z <= PageSize /\ PageSize \in Nat
       /\ \A j \in 1 .. PageSize * PageCount : Cell(q, 0) + o < j => medium[j] = Free
       /\ \A k \in 1 .. o : medium[Cell(q, k)] # Free
  BY <1>6, CellFacts DEF Taken, Place
<1>11. active_page' \in 0 .. PageCount - 1 /\ write_offset' \in 0 .. PageSize /\ write_offset' > 0
  BY <1>2, <1>3, <1>10
<1>12. polluted' = FALSE
  BY <1>3 DEF NeedsNewPage
<1>13. ASSUME NEW p \in 0 .. PageCount - 1, NEW k \in 1 .. PageSize, p > q \/ (p = q /\ k > o)
       PROVE  medium[Cell(p, k)] = Free
  <2>1. Cell(p, k) \in 1 .. PageSize * PageCount
    BY CellInRing
  <2>2. Cell(q, 0) + o < Cell(p, k)
    BY <1>10, <1>13, Behind
  <2> QED BY <1>10, <2>1, <2>2
<1>14. ASSUME NEW p \in 0 .. PageCount - 1, NEW k \in 1 .. PageSize
       PROVE  /\ p = q /\ k \in o + 1 .. o + z => medium'[Cell(p, k)] = [line |-> n, at |-> k - o]
              /\ ~(p = q /\ k \in o + 1 .. o + z) => medium'[Cell(p, k)] = medium[Cell(p, k)]
  BY <1>6, CellsAfter, ZenonT(60)
<1>15. ASSUME NEW k \in 1 .. PageSize PROVE medium'[Cell(q, k)] # Free <=> k <= o + z
  <2>1. CASE k \in 1 .. o
    <3>1. k \notin o + 1 .. o + z /\ k <= o + z
      BY <1>2, <1>10, <2>1
    <3> QED BY <1>10, <1>14, <2>1, <3>1
  <2>2. CASE k \in o + 1 .. o + z
    <3>1. medium'[Cell(q, k)] = [line |-> n, at |-> k - o] /\ k - o \in Nat /\ k - o > 0 /\ k <= o + z
      BY <1>2, <1>10, <1>14, <2>2
    <3> QED BY <3>1, ByteIsNotFree
  <2>3. CASE k > o + z
    <3>1. k > o /\ k \notin o + 1 .. o + z /\ ~(k <= o + z)
      BY <1>2, <1>10, <2>3
    <3>2. medium[Cell(q, k)] = Free /\ medium'[Cell(q, k)] = medium[Cell(q, k)]
      BY <1>10, <1>13, <1>14, <3>1
    <3> QED BY <3>1, <3>2
  <2> QED BY <1>2, <1>10, <2>1, <2>2, <2>3
<1>16. medium'[Cell(q, o + z)] # Free
       /\ medium'[Cell(q, o + z)].at = Size(written'[medium'[Cell(q, o + z)].line].fact)
  <2>1. o + z \in 1 .. PageSize /\ o + z \in o + 1 .. o + z /\ (o + z) - o = z
    BY <1>2, <1>10
  <2>2. medium'[Cell(q, o + z)] = [line |-> n, at |-> (o + z) - o]
    BY <1>10, <1>14, <2>1
  <2>3. medium'[Cell(q, o + z)] = [line |-> n, at |-> z]
    BY <2>1, <2>2
  <2>4. Size(written'[n].fact) = z
    BY <1>4, <1>7 DEF Known
  <2> QED BY <1>2, <2>3, <2>4, ByteIsNotFree
<1>17. IsNewline(medium[Cell(active_page, write_offset)])'
  BY <1>3, <1>16 DEF IsNewline
<1>18. ASSUME NEW p \in q + 1 .. PageCount - 1, NEW k \in 1 .. PageSize PROVE medium'[Cell(p, k)] = Free
  <2>1. p \in 0 .. PageCount - 1 /\ p > q /\ p # q
    BY <1>10
  <2> QED BY <1>13, <1>14, <2>1
<1>19. StoreOK'
  <2>1. polluted' \in BOOLEAN /\ (polluted' \/ active_page' > 0 => write_offset' > 0)
    BY <1>11, <1>12
  <2>2. \A k \in 1 .. PageSize : medium'[Cell(active_page', k)] # Free <=> k <= write_offset'
    BY <1>3, <1>15
  <2>3. \A p \in active_page' + 1 .. PageCount - 1, k \in 1 .. PageSize : medium'[Cell(p, k)] = Free
    BY <1>3, <1>18
  <2> QED BY <1>9, <1>11, <1>17, <2>1, <2>2, <2>3, Zenon DEF StoreOK
<1> QED BY <1>4, <1>8, <1>19 DEF n

LEMMA NotLandedStands ==
    ASSUME LinesHaveBytes, ExecTypes, RingOK, StoreOK, Writing,
           NEW rec, rec = Record(version, out), NotLanded(rec)
    PROVE  RingOK' /\ StoreOK' /\ Committed(medium)' = Committed(medium) /\ written' = written
<1>1. Refuses(rec)
  BY NeverBarred DEF NotLanded
<1>2. polluted \in BOOLEAN
  BY DEF StoreOK
<1>3. UNCHANGED <<written, medium, lines, tail_hash, active_page, write_offset, polluted>>
  BY <1>1, <1>2 DEF NotLanded
<1> QED BY <1>3, StoreStays

LEMMA CutShortStands ==
    ASSUME LinesHaveBytes, ExecTypes, RingOK, StoreOK, Writing, IsSeq(written),
           NEW rec, rec = Record(version, out), CutShort(rec)
    PROVE  /\ RingOK'
           /\ \/ Known(rec, chain_step(rec)) /\ Committed(medium)' = Append(Committed(medium), chain_step(rec))
              \/ Committed(medium)' = Committed(medium) /\ (Known(rec, chain_step(rec)) \/ written' = written)
<1>1. CASE UNCHANGED <<written, medium>>
  <2>1. RingOK' /\ Committed(medium)' = Committed(medium) /\ written' = written
    BY <1>1, RingStays DEF RingOK
  <2> QED BY <2>1
<1>2. CASE ~UNCHANGED <<written, medium>>
  <2> DEFINE q == TargetPage(rec)
             o == TargetOffset(rec)
             z == Size(out)
             n == chain_step(rec)
  <2>1. rec.fact = out /\ rec.prev_hash = TailOf(medium)
    BY RecordIs
  <2>2. ~Refuses(rec) /\ Remember(rec) /\ \E k \in 1 .. Size(rec.fact) :
             medium' = program(Prepared(rec), Position(rec), SubSeq(wal_line_json(rec), 1, k))
    BY <1>2, Zenon DEF CutShort, CanProgram
  <2>3. PICK b \in 1 .. z :
             medium' = program(Prepared(rec), Position(rec), SubSeq(wal_line_json(rec), 1, b))
    BY <2>1, <2>2
  <2>4. z \in Nat /\ z = Size(rec.fact)
    BY <2>1 DEF LinesHaveBytes, ExecTypes
  <2>5. Known(rec, n)
    BY <2>2, KnownIs
  <2> DEFINE bytes == SubSeq(wal_line_json(rec), 1, b)
  <2>6. DOMAIN bytes = 1 .. b /\ \A i \in 1 .. b : bytes[i] = [line |-> n, at |-> i]
    BY <2>4, LineIs
  <2>7. medium' = program(Prepared(rec), Position(rec), bytes)
    BY <2>3
  <2> HIDE DEF bytes
  <2>8. Taken(q, o, z, b, n)
    BY <2>2, <2>6, <2>7, LineTaken
  <2> HIDE DEF q, o, z, n
  <2>9. /\ RingOK' /\ (b = z => Committed(medium)' = Append(Committed(medium), n))
        /\ b # z => Committed(medium)' = Committed(medium)
    <3>1. RingOK'
      BY <2>1, <2>4, <2>5, <2>8, RingGrows
    <3>2. CellsOK(medium)
      BY DEF RingOK
    <3>3. ASSUME b = z PROVE Committed(medium)' = Append(Committed(medium), n)
      BY <2>4, <2>5, <2>8, <3>2, <3>3, RowsGrow
    <3>4. ASSUME b # z PROVE Committed(medium)' = Committed(medium)
      <4>1. z = Size(rec.fact) => (b # z => Committed(medium)' = Committed(medium))
        BY <2>5, <2>8, <3>2, RowsGrow, ZenonT(60)
      <4> QED BY <2>4, <3>4, <4>1
    <3> QED BY <3>1, <3>3, <3>4
  <2> QED BY <2>5, <2>9 DEF n
<1> QED BY <1>1, <1>2

-----------------------------------------------------------------------------
(* The executor's state keeps its type. *)

LEMMA FactsAre ==
    /\ \A i \in Nat, c \in Instruction : CommandFact(i, c) \in Fact
    /\ \A r \in Nat, ok \in BOOLEAN : IoResponseFact(r, ok) \in Fact
    /\ \A r \in Nat, c \in Nat : IoRequestFact(r, c) \in Fact
    /\ \A c \in Nat, d \in Data, q \in Seq(Item) : TransitionFact(c, d, q) \in Fact
    /\ \A c \in Nat : ViolationFact(c) \in Fact
    /\ \A v \in Nat : StableFact(v) \in Fact
    /\ TraceFact \in Fact /\ ErrorFact \in Fact
<1>1. \A i \in Nat, c \in Instruction : CommandFact(i, c) \in Fact
  BY DEF CommandFact, Fact
<1>2. \A r \in Nat, ok \in BOOLEAN : IoResponseFact(r, ok) \in Fact
  BY DEF IoResponseFact, Fact
<1>3. \A r \in Nat, c \in Nat : IoRequestFact(r, c) \in Fact
  BY DEF IoRequestFact, Fact
<1>4. \A c \in Nat, d \in Data, q \in Seq(Item) : TransitionFact(c, d, q) \in Fact
  BY DEF TransitionFact, Fact
<1>5. \A c \in Nat : ViolationFact(c) \in Fact
  BY DEF ViolationFact, Fact
<1>6. \A v \in Nat : StableFact(v) \in Fact
  BY DEF StableFact, Fact
<1>7. TraceFact \in Fact /\ ErrorFact \in Fact
  BY DEF TraceFact, ErrorFact, Fact
<1> QED BY <1>1, <1>2, <1>3, <1>4, <1>5, <1>6, <1>7

LEMMA CommandIs ==
    ASSUME NEW f \in Fact, f.type = "Command" PROVE f.instr \in Instruction
BY DEF Fact

LEMMA EmitTypes ==
    ASSUME ExecTypes, next_fact_id \in Nat, NEW fact \in Fact, NEW then, Emit(fact, then), MemTypes',
           then = "pause" => popped' \in Item, then = "submit" => fact.type = "Command"
    PROVE  ExecTypes'
<1>1. /\ out' = [id |-> next_fact_id + 1, body |-> fact] /\ pc' = then /\ written' = written
  BY DEF Emit, wal
<1>2. Writing' /\ out' \in Sent /\ out'.body = fact
  BY <1>1, OutIsNoNone DEF Writing, Sent
<1>3. \A n \in 1 .. Len(written') : written'[n].fact \in Sent
  BY <1>1 DEF ExecTypes
<1> QED BY <1>1, <1>2, <1>3 DEF ExecTypes, Ready

LEMMA QuietTypes ==
    ASSUME ExecTypes, MemTypes', ~Writing', pc' \notin {"submit", "pause"}, written' = written
    PROVE  ExecTypes'
BY DEF ExecTypes, Ready

LEMMA WrittenTypes ==
    ASSUME ExecTypes, IsSeq(written), NEW rec, rec.fact \in Sent, Remember(rec)
    PROVE  \A n \in 1 .. Len(written') : written'[n].fact \in Sent
<1>1. \A n \in 1 .. Len(written) : written[n].fact \in Sent
  BY DEF ExecTypes
<1>2. CASE written' = written
  BY <1>1, <1>2
<1>3. CASE written' = Append(written, rec)
  <2>1. /\ Len(written') = Len(written) + 1 /\ Len(written) \in Nat
        /\ \A n \in 1 .. Len(written) : written'[n] = written[n]
        /\ written'[Len(written) + 1] = rec
    BY <1>3, Appended, SeqLength
  <2> QED BY <1>1, <2>1
<1> QED BY <1>2, <1>3 DEF Remember

(* What the head of the queue is, and what a transition does with it. *)
LEMMA ForemostIs ==
    ASSUME MemTypes, queue # <<>>
    PROVE  /\ Foremost \in Item /\ Foremost.instr \in Instruction /\ Foremost.from \in Nat
           /\ Tail(queue) \in Seq(Item)
           /\ \A kind : Outcomes(kind) \subseteq Result
<1>1. queue \in Seq(Item) /\ data \in Data /\ io_results \in SUBSET IoType
  BY DEF MemTypes
<1>2. Foremost \in Item /\ Tail(queue) \in Seq(Item)
  BY <1>1 DEF Foremost
<1>3. Foremost.instr \in Instruction /\ Foremost.from \in Nat
  BY <1>2 DEF Item
<1>4. Transition(Foremost.instr, data, io_results) \subseteq Result
  BY <1>1, <1>3, McuAssumption, Zenon
<1>5. \A kind : Outcomes(kind) \subseteq Result
  BY <1>4 DEF Outcomes
<1> QED BY <1>2, <1>3, <1>5

LEMMA ResultIs ==
    ASSUME NEW res \in Result
    PROVE  res.data \in Data /\ res.push \in Seq(Instruction) /\ res.io_type \in IoType
BY DEF Result

LEMMA RebuiltIs ==
    ASSUME MemTypes, queue # <<>>, NEW res \in Result PROVE Rebuilt(res) \in Seq(Item)
<1> DEFINE new == [k \in DOMAIN res.push |-> [instr |-> res.push[k], from |-> Foremost.from]]
<1>1. res.push \in Seq(Instruction)
  BY ResultIs
<1>2. Foremost.from \in Nat /\ Tail(queue) \in Seq(Item)
  BY ForemostIs
<1>3. ASSUME NEW k \in DOMAIN res.push PROVE [instr |-> res.push[k], from |-> Foremost.from] \in Item
  <2>1. res.push[k] \in Instruction
    BY <1>1
  <2> QED BY <1>2, <2>1 DEF Item
<1>4. DOMAIN res.push = 1 .. Len(res.push) /\ Len(res.push) \in Nat
  BY <1>1
<1>5. new \in [1 .. Len(res.push) -> Item]
  BY <1>3, <1>4
<1>6. new \in Seq(Item)
  BY <1>4, <1>5
<1>7. Rebuilt(res) = new \o Tail(queue)
  BY DEF Rebuilt
<1> HIDE DEF new
<1> QED BY <1>2, <1>6, <1>7

LEMMA RemovedTypes ==
    ASSUME NEW S, NEW s \in Seq(S), NEW i \in DOMAIN s PROVE RemoveAt(s, i) \in Seq(S)
<1>1. Len(s) \in Nat /\ i \in 1 .. Len(s)
  OBVIOUS
<1>2. SubSeq(s, 1, i - 1) \in Seq(S) /\ SubSeq(s, i + 1, Len(s)) \in Seq(S)
  BY <1>1
<1> QED BY <1>2 DEF RemoveAt

(* Writing, refusing and the two answers. *)
LEMMA WriteTypes == ASSUME IInv, ExecTypes, Write PROVE ExecTypes'
<1> DEFINE rec == Record(version, out)
<1>1. Writing /\ Remember(rec) /\ out' = NoFact /\ UNCHANGED <<pc, memory, popped>>
  BY DEF Write, Landed, call
<1>2. rec.fact = out /\ out \in Sent /\ (pc = "submit" => out.body.type = "Command")
  BY <1>1 DEF Record, ExecTypes
<1> HIDE DEF rec
<1>3. \A n \in 1 .. Len(written') : written'[n].fact \in Sent
  BY <1>1, <1>2, WrittenTypes DEF IInv, Types
<1>4. LastFact' = out
  BY WriteGrows
<1>5. MemTypes'
  BY <1>1 DEF ExecTypes, MemTypes, memory
<1>6. ~Writing' /\ (pc' = "pause" => popped' \in Item)
  BY <1>1 DEF Writing, ExecTypes
<1> QED BY <1>1, <1>2, <1>3, <1>4, <1>5, <1>6 DEF ExecTypes, Ready

LEMMA SubmitTypes == ASSUME ExecTypes, Submit PROVE ExecTypes'
<1> DEFINE item == [instr |-> LastFact.body.instr, from |-> LastFact.id]
<1>1. /\ Ready("submit") /\ queue' = Append(queue, item) /\ pc' = "drain" /\ ~Writing
      /\ UNCHANGED <<written, out, data, io_results, version, pendings>>
  BY DEF Submit, wal, Ready
<1>2. LastFact \in Sent /\ LastFact.body.type = "Command"
  BY <1>1 DEF ExecTypes
<1>3. item \in Item
  <2>1. LastFact.id \in Nat /\ LastFact.body \in Fact
    BY <1>2 DEF Sent
  <2>2. LastFact.body.instr \in Instruction
    BY <1>2, <2>1, CommandIs
  <2> QED BY <2>1, <2>2 DEF Item
<1> HIDE DEF item
<1>4. MemTypes'
  BY <1>1, <1>3 DEF ExecTypes, MemTypes
<1>5. ~Writing'
  BY <1>1 DEF Writing
<1> QED BY <1>1, <1>4, <1>5, QuietTypes

LEMMA AnswerKnownTypes == ASSUME ExecTypes, AnswerKnown PROVE ExecTypes'
<1>1. PICK k \in Answered(LastFact.body.request) :
          /\ pendings' = RemoveAt(pendings, k) /\ version' = version + 1
          /\ \/ UNCHANGED <<io_results, queue>>
             \/ /\ io_results' = io_results \cup {pendings[k].io_type}
                /\ queue' = <<pendings[k].item>> \o queue
  BY DEF AnswerKnown
<1>2. ~Writing /\ pc' = "drain" /\ UNCHANGED <<written, out, data>>
  BY DEF AnswerKnown, Ready, wal
<1>3. k \in DOMAIN pendings
  BY DEF Answered
<1>4. pendings \in Seq(Request) /\ queue \in Seq(Item) /\ version \in Nat /\ io_results \subseteq IoType
      /\ data \in Data
  BY DEF ExecTypes, MemTypes
<1>5. pendings' \in Seq(Request)
  BY <1>1, <1>3, <1>4, RemovedTypes
<1>6. pendings[k].io_type \in IoType /\ pendings[k].item \in Item
  <2>1. pendings[k] \in Request
    BY <1>3, <1>4
  <2> QED BY <2>1 DEF Request
<1>7. <<pendings[k].item>> \o queue \in Seq(Item)
  BY <1>4, <1>6
<1>8. MemTypes'
  BY <1>1, <1>2, <1>4, <1>5, <1>6, <1>7 DEF MemTypes
<1>9. ~Writing'
  BY <1>2 DEF Writing
<1> QED BY <1>2, <1>8, <1>9, QuietTypes

LEMMA PauseTypes == ASSUME IInv, ExecTypes, Pause PROVE ExecTypes'
<1>1. /\ Ready("pause") /\ pc' = "idle" /\ ~Writing
      /\ UNCHANGED <<written, out, data, io_results, queue, version>>
  BY DEF Pause, wal, Ready
<1>2. PICK res \in Transition(popped.instr, data, io_results) :
          pendings' = Append(pendings, [request_id |-> LastFact.id, io_type |-> res.io_type, item |-> popped])
  BY DEF Pause, register
<1>3. popped \in Item /\ MemTypes
  BY <1>1 DEF ExecTypes, Ready
<1>4. res.io_type \in IoType
  <2>1. popped.instr \in Instruction /\ data \in Data /\ io_results \in SUBSET IoType
    BY <1>3 DEF Item, MemTypes
  <2>2. Transition(popped.instr, data, io_results) \subseteq Result
    BY <2>1, McuAssumption, Zenon
  <2> QED BY <2>2, ResultIs
<1>5. LastFact.id \in Nat
  <2>1. Len(lines) \in Since /\ next_fact_id \in Nat
    BY <1>1 DEF IInv, Balanced, LastIs, Types
  <2>2. LastFact.id \in 1 .. next_fact_id
    BY <2>1 DEF IInv, Numbered, LastFact
  <2> QED BY <2>1, <2>2
<1>6. [request_id |-> LastFact.id, io_type |-> res.io_type, item |-> popped] \in Request
  BY <1>3, <1>4, <1>5 DEF Request
<1>7. MemTypes'
  BY <1>1, <1>2, <1>3, <1>6 DEF MemTypes
<1>8. ~Writing'
  BY <1>1 DEF Writing
<1> QED BY <1>1, <1>7, <1>8, QuietTypes

(* An instruction leaves the queue. *)
LEMMA DropTypes ==
    ASSUME ExecTypes, next_fact_id \in Nat, queue # <<>>, NEW fact \in Fact, NEW then,
           then # "submit", Drop(fact, then)
    PROVE  ExecTypes'
<1>1. /\ Emit(fact, then) /\ queue' = Tail(queue) /\ popped' = Foremost
      /\ UNCHANGED <<data, io_results, version, pendings>>
  BY DEF Drop, Step
<1>2. MemTypes
  BY DEF ExecTypes
<1>3. MemTypes' /\ popped' \in Item
  BY <1>1, <1>2, ForemostIs DEF MemTypes
<1> QED BY <1>1, <1>3, EmitTypes

LEMMA StateTypes == ASSUME ExecTypes, next_fact_id \in Nat, DrainOverflow \/ DrainState PROVE ExecTypes'
<1>1. queue # <<>> /\ popped' = Foremost /\ MemTypes
  BY DEF DrainOverflow, DrainState, CanStep, Step, ExecTypes
<1>2. PICK res \in Outcomes("State") :
          /\ data' = res.data /\ queue' = Rebuilt(res) /\ io_results' \subseteq io_results
          /\ UNCHANGED <<version, pendings>>
          /\ \/ Emit(ErrorFact, "clear")
             \/ Emit(TransitionFact(Foremost.from, res.data, queue'), "bump")
  BY DEF DrainOverflow, DrainState
<1>3. res \in Result
  BY <1>1, ForemostIs
<1>4. MemTypes'
  BY <1>1, <1>2, <1>3, ResultIs, RebuiltIs DEF MemTypes
<1>5. TransitionFact(Foremost.from, res.data, queue') \in Fact
  <2>1. Foremost.from \in Nat /\ res.data \in Data /\ queue' \in Seq(Item)
    BY <1>1, <1>3, <1>4, ForemostIs, ResultIs DEF MemTypes
  <2> QED BY <2>1, FactsAre
<1>6. CASE Emit(ErrorFact, "clear")
  BY <1>4, <1>6, FactsAre, EmitTypes
<1>7. CASE Emit(TransitionFact(Foremost.from, res.data, queue'), "bump")
  BY <1>4, <1>5, <1>7, EmitTypes
<1> QED BY <1>2, <1>6, <1>7

LEMMA TypesStep == ASSUME IInv, ExecTypes, [Next]_vars PROVE ExecTypes'
<1>1. next_fact_id \in Nat /\ version \in Nat /\ MemTypes
  BY DEF IInv, Types, ExecTypes, MemTypes
<1>2. UNCHANGED memory => MemTypes'
  BY <1>1 DEF memory, MemTypes
<1>3. ASSUME NEW fact \in Fact, NEW then, Emit(fact, then), MemTypes', then \notin {"submit", "pause"}
      PROVE  ExecTypes'
  BY <1>1, <1>3, EmitTypes
<1>4. /\ ErrorFact \in Fact /\ TraceFact \in Fact /\ StableFact(version) \in Fact
      /\ next_fact_id + 1 \in Nat
  BY <1>1, FactsAre
<1>5. ASSUME queue # <<>> PROVE Tail(queue) \in Seq(Item) /\ Foremost.from \in Nat
  BY <1>1, <1>5, ForemostIs
<1>6. CASE run
  <2>1. PICK i \in Instruction : Emit(CommandFact(next_fact_id + 1, i), "submit")
    BY <1>6 DEF run
  <2>2. CommandFact(next_fact_id + 1, i) \in Fact /\ CommandFact(next_fact_id + 1, i).type = "Command"
    BY <1>4, FactsAre, FactTypes
  <2>3. MemTypes'
    BY <1>2, <1>6 DEF run
  <2> QED BY <1>1, <2>1, <2>2, <2>3, EmitTypes
<1>7. CASE resume_io
  <2>1. PICK r \in AnswerId, ok \in BOOLEAN : Emit(IoResponseFact(r, ok), "answer")
    BY <1>7 DEF resume_io
  <2>2. r \in Nat
    BY McuAssumption
  <2>3. IoResponseFact(r, ok) \in Fact
    BY <2>2, FactsAre
  <2>4. MemTypes'
    BY <1>2, <1>7 DEF resume_io
  <2> QED BY <1>3, <2>1, <2>3, <2>4
<1>8. CASE Write
  BY <1>8, WriteTypes
<1>9. CASE WriteFails
  <2>1. out' = NoFact /\ pc' = "idle" /\ UNCHANGED <<memory, written>>
    BY <1>9 DEF WriteFails, NotLanded
  <2> QED BY <1>2, <2>1, QuietTypes DEF Writing
<1>10. CASE Submit
  BY <1>10, SubmitTypes
<1>11. CASE AnswerUnknown
  BY <1>2, <1>3, <1>4, <1>11 DEF AnswerUnknown
<1>12. CASE AnswerKnown
  BY <1>12, AnswerKnownTypes
<1>13. CASE DrainLimit
  <2>1. /\ queue # <<>> /\ queue' = Tail(queue) /\ Emit(ErrorFact, "clear")
        /\ UNCHANGED <<data, io_results, version, pendings>>
    BY <1>13 DEF DrainLimit
  <2>2. MemTypes'
    BY <1>1, <1>5, <2>1 DEF MemTypes
  <2> QED BY <1>3, <1>4, <2>1, <2>2
<1>14. CASE Clear
  <2>1. /\ queue' = <<>> /\ Emit(StableFact(version), "return")
        /\ UNCHANGED <<data, io_results, version, pendings>>
    BY <1>14 DEF Clear
  <2>2. MemTypes'
    BY <1>1, <2>1 DEF MemTypes
  <2> QED BY <1>3, <1>4, <2>1, <2>2
<1>15. CASE DrainOverflow \/ DrainState
  BY <1>1, <1>15, StateTypes
<1>16. CASE Bump
  <2>1. /\ version' = version + 1 /\ Emit(TraceFact, "drain")
        /\ UNCHANGED <<data, io_results, queue, pendings>>
    BY <1>16 DEF Bump
  <2>2. MemTypes'
    BY <1>1, <2>1 DEF MemTypes
  <2> QED BY <1>3, <1>4, <2>1, <2>2
<1>17. CASE DrainIgnored
  <2>1. queue # <<>> /\ Drop(ErrorFact, "trace")
    BY <1>17 DEF DrainIgnored, CanStep
  <2> QED BY <1>1, <1>4, <2>1, DropTypes
<1>18. CASE Trace
  BY <1>2, <1>3, <1>4, <1>18 DEF Trace
<1>19. CASE DrainHalted
  <2>1. queue # <<>> /\ Drop(ViolationFact(Foremost.from), "drain")
    BY <1>19 DEF DrainHalted, CanStep
  <2>2. ViolationFact(Foremost.from) \in Fact
    BY <1>5, <2>1, FactsAre
  <2> QED BY <1>1, <2>1, <2>2, DropTypes
<1>20. CASE DrainErr
  <2>1. queue # <<>> /\ Drop(ErrorFact, "drain")
    BY <1>20 DEF DrainErr, CanStep
  <2> QED BY <1>1, <1>4, <2>1, DropTypes
<1>21. CASE DrainIo
  <2>1. queue # <<>> /\ Drop(IoRequestFact(next_fact_id + 1, Foremost.from), "pause")
    BY <1>21 DEF DrainIo, CanStep
  <2>2. IoRequestFact(next_fact_id + 1, Foremost.from) \in Fact
    BY <1>4, <1>5, <2>1, FactsAre
  <2> QED BY <1>1, <2>1, <2>2, DropTypes
<1>22. CASE Pause
  BY <1>22, PauseTypes
<1>23. CASE DrainStable
  BY <1>2, <1>3, <1>4, <1>23 DEF DrainStable
<1>24. CASE Return
  <2>1. pc' = "idle" /\ UNCHANGED <<memory, written, out>> /\ ~Writing
    BY <1>24 DEF Return, wal, Ready
  <2> QED BY <1>2, <2>1, QuietTypes DEF Writing
<1>25. CASE PowerFails
  <2>1. /\ out' = NoFact /\ pc' = "off" /\ data' = InitData /\ io_results' = {} /\ queue' = <<>>
        /\ version' = 0 /\ pendings' = <<>>
    BY <1>25 DEF PowerFails
  <2>2. MemTypes'
    BY <2>1, FactsAssumption DEF MemTypes
  <2>3. ~Writing'
    BY <2>1 DEF Writing
  <2>4. \A n \in 1 .. Len(written') : written'[n].fact \in Sent
    <3>1. CASE written' = written
      BY <3>1 DEF ExecTypes
    <3>2. CASE written' # written
      <4>1. Writing /\ Remember(Record(version, out))
        BY <1>25, <3>2 DEF PowerFails, CutShort
      <4>2. Record(version, out).fact \in Sent
        BY <4>1 DEF Record, ExecTypes
      <4>3. IsSeq(written)
        BY DEF IInv, Types
      <4> QED BY <4>1, <4>2, <4>3, WrittenTypes
    <3> QED BY <3>1, <3>2
  <2> QED BY <2>1, <2>2, <2>3, <2>4 DEF ExecTypes, Ready
<1>26. CASE Boot
  <2>1. pc = "off" /\ pc' = "idle" /\ UNCHANGED <<memory, written, out>>
    BY <1>26 DEF Boot, open
  <2>2. ~Writing'
    BY <2>1 DEF IInv, OutFits, Writing
  <2> QED BY <1>2, <2>1, <2>2, QuietTypes
<1>27. CASE UNCHANGED vars
  <2>1. UNCHANGED <<memory, written, lines, out, pc, popped>>
    BY <1>27 DEF vars, wal, store, call
  <2>2. LastFact' = LastFact
    BY <2>1 DEF LastFact, FactAt
  <2> QED BY <1>2, <2>1, <2>2 DEF ExecTypes, Ready, Writing
<1> QED BY <1>6, <1>7, <1>8, <1>9, <1>10, <1>11, <1>12, <1>13, <1>14, <1>15, <1>16, <1>17, <1>18,
           <1>19, <1>20, <1>21, <1>22, <1>23, <1>24, <1>25, <1>26, <1>27 DEF Next, ExecStep

-----------------------------------------------------------------------------
(* The ring and the store in every step. *)

(* The ledger stays, or has the fact of one record put at its end. *)
LedgerMoves ==
    /\ Len(written) <= Len(written')
    /\ \A i \in 1 .. Len(written) : written'[i] = written[i]
    /\ \/ Committed(medium)' = Committed(medium)
       \/ \E rec, n : /\ rec.fact \in Sent /\ Known(rec, n)
                      /\ Committed(medium)' = Append(Committed(medium), n)

(* What a step can do to the log. *)
LEMMA WhoTouchesTheLog ==
    ASSUME Next
    PROVE  \/ Write \/ WriteFails \/ PowerFails \/ Boot
           \/ /\ pc # "off" /\ pc' # "off"
              /\ UNCHANGED <<written, medium, lines, tail_hash, active_page, write_offset, polluted>>
<1> DEFINE Quiet == /\ pc # "off" /\ pc' # "off"
                    /\ UNCHANGED <<written, medium, lines, tail_hash, active_page, write_offset, polluted>>
<1>1. ASSUME NEW fact, NEW then, Emit(fact, then), pc # "off", then # "off" PROVE Quiet
  BY <1>1 DEF Emit, wal, store
<1>2. CASE run \/ resume_io
  BY <1>1, <1>2 DEF run, resume_io, Ready
<1>3. CASE AnswerUnknown \/ DrainLimit \/ Clear \/ Bump \/ Trace \/ DrainStable
  BY <1>1, <1>3 DEF AnswerUnknown, DrainLimit, Clear, Bump, Trace, DrainStable, Ready
<1>4. CASE DrainOverflow \/ DrainState
  BY <1>1, <1>4 DEF DrainOverflow, DrainState, CanStep, Ready
<1>5. CASE DrainIgnored \/ DrainHalted \/ DrainErr \/ DrainIo
  BY <1>1, <1>5 DEF DrainIgnored, DrainHalted, DrainErr, DrainIo, CanStep, Drop, Ready
<1>6. CASE Submit \/ AnswerKnown \/ Pause \/ Return
  BY <1>6 DEF Submit, AnswerKnown, Pause, Return, Ready, wal, store
<1> QED BY <1>2, <1>3, <1>4, <1>5, <1>6 DEF Next, ExecStep

LEMMA RingStep ==
    ASSUME LinesHaveBytes, IInv, RingInv, [Next]_vars
    PROVE  RingOK' /\ (pc' # "off" => StoreOK') /\ LedgerMoves
<1>1. /\ ExecTypes /\ RingOK /\ (pc # "off" => StoreOK) /\ IsSeq(written) /\ Len(written) \in Nat
      /\ (Writing => pc # "off")
  BY SeqLength DEF RingInv, IInv, Types, OutFits
<1> DEFINE rec == Record(version, out)
<1>2. Writing => rec.fact \in Sent
  BY <1>1 DEF ExecTypes, Record
<1>3. ASSUME NEW n, Known(rec, n)
      PROVE  Len(written) <= Len(written') /\ \A i \in 1 .. Len(written) : written'[i] = written[i]
  BY <1>3 DEF Known
<1>4. ASSUME written' = written, Committed(medium)' = Committed(medium) PROVE LedgerMoves
  BY <1>1, <1>4 DEF LedgerMoves
<1>5. CASE Write
  <2>1. Writing /\ Landed(rec) /\ StoreOK
    BY <1>1, <1>5 DEF Write
  <2>2. rec = Record(version, out) /\ rec.fact \in Sent
    BY <1>2, <2>1
  <2> HIDE DEF rec
  <2>3. /\ RingOK' /\ StoreOK' /\ Known(rec, chain_step(rec))
        /\ Committed(medium)' = Append(Committed(medium), chain_step(rec))
    BY <1>1, <2>1, <2>2, LandedStands
  <2>4. LedgerMoves
    BY <1>3, <2>2, <2>3 DEF LedgerMoves
  <2> QED BY <2>3, <2>4
<1>6. CASE WriteFails
  <2>1. Writing /\ NotLanded(rec) /\ StoreOK
    BY <1>1, <1>6 DEF WriteFails
  <2>2. rec = Record(version, out)
    OBVIOUS
  <2> HIDE DEF rec
  <2>3. RingOK' /\ StoreOK' /\ Committed(medium)' = Committed(medium) /\ written' = written
    BY <1>1, <2>1, <2>2, NotLandedStands
  <2> QED BY <1>4, <2>3
<1>7. CASE PowerFails
  <2>1. pc' = "off"
    BY <1>7 DEF PowerFails
  <2>2. CASE Writing
    <3>1. CutShort(rec) /\ StoreOK /\ rec = Record(version, out) /\ rec.fact \in Sent
      BY <1>1, <1>2, <1>7, <2>2 DEF PowerFails
    <3> HIDE DEF rec
    <3>2. /\ RingOK'
          /\ \/ Known(rec, chain_step(rec)) /\ Committed(medium)' = Append(Committed(medium), chain_step(rec))
             \/ Committed(medium)' = Committed(medium) /\ (Known(rec, chain_step(rec)) \/ written' = written)
      BY <1>1, <2>2, <3>1, CutShortStands
    <3>3. LedgerMoves
      <4>1. CASE written' = written /\ Committed(medium)' = Committed(medium)
        BY <1>4, <4>1
      <4>2. CASE Known(rec, chain_step(rec))
        BY <1>3, <3>1, <3>2, <4>2 DEF LedgerMoves
      <4> QED BY <3>2, <4>1, <4>2
    <3> QED BY <2>1, <3>2, <3>3
  <2>3. CASE ~Writing
    <3>1. UNCHANGED <<written, medium>>
      BY <1>7, <2>3 DEF PowerFails
    <3>2. RingOK' /\ Committed(medium)' = Committed(medium)
      BY <1>1, <3>1, RingStays DEF RingOK
    <3> QED BY <1>4, <2>1, <3>1, <3>2
  <2> QED BY <2>2, <2>3
<1>8. CASE Boot
  <2>1. open /\ UNCHANGED <<written, medium>>
    BY <1>8 DEF Boot, open
  <2>2. RingOK' /\ StoreOK'
    BY <1>1, <2>1, OpenStands
  <2>3. Committed(medium)' = Committed(medium)
    BY <1>1, <2>1, RingStays DEF RingOK
  <2> QED BY <1>4, <2>1, <2>2, <2>3
<1>9. ASSUME UNCHANGED <<written, medium, lines, tail_hash, active_page, write_offset, polluted>>,
             pc' # "off" => pc # "off"
      PROVE  RingOK' /\ (pc' # "off" => StoreOK') /\ LedgerMoves
  <2>1. RingOK' /\ (StoreOK => StoreOK') /\ Committed(medium)' = Committed(medium)
    BY <1>1, <1>9, StoreStays
  <2> QED BY <1>1, <1>4, <1>9, <2>1
<1>10. CASE UNCHANGED vars
  BY <1>9, <1>10 DEF vars, wal, store
<1> QED BY <1>5, <1>6, <1>7, <1>8, <1>9, <1>10, WhoTouchesTheLog

LEMMA RingInit == Init => RingInv
<1> SUFFICES ASSUME Init PROVE RingInv
  OBVIOUS
<1> DEFINE N == PageSize * PageCount
<1>1. /\ written = <<>> /\ medium = [k \in 1 .. N |-> Free] /\ lines = <<>> /\ tail_hash = genesis
      /\ active_page = 0 /\ write_offset = 0 /\ polluted = FALSE
  BY DEF Init, Blank
<1>2. /\ out = NoFact /\ pc = "idle" /\ data = InitData /\ io_results = {} /\ queue = <<>>
      /\ version = 0 /\ pendings = <<>>
  BY DEF Init, with_wal_store
<1>3. ~Writing /\ MemTypes
  BY <1>2, FactsAssumption DEF Writing, MemTypes
<1>4. ExecTypes
  BY <1>1, <1>2, <1>3, EmptyIsSeq DEF ExecTypes, Ready
<1>5. \A k \in 1 .. N : medium[k] = Free
  BY <1>1
<1>6. CellsOK(medium)
  <2>1. Free \in [line : Nat, at : Nat]
    BY DEF Free
  <2> QED BY <1>1, <1>5, <2>1 DEF CellsOK
<1>7. \A p \in 0 .. PageCount - 1, k \in 1 .. PageSize : medium[Cell(p, k)] = Free
  BY <1>5, CellInRing
<1>8. PagesOK(medium)
  BY <1>7, Zenon DEF PagesOK
<1>9. NoHoles(medium)
  <2>1. \A p \in 1 .. PageCount - 1 : p \in 0 .. PageCount - 1 /\ 1 \in 1 .. PageSize
    BY CellFacts
  <2> QED BY <1>7, <2>1 DEF NoHoles
<1>10. Committed(medium) = <<>>
  <2>1. Len(medium) = N /\ N \in Nat
    BY <1>6, RingIsSeq, CellFacts DEF CellsOK
  <2>2. \A k \in 1 .. Len(medium) : ~IsNewline(medium[k])
    BY <1>5, <2>1 DEF IsNewline
  <2> QED BY <2>1, <2>2, NoRows
<1>11. Chained(Committed(medium))
  <2>1. <<>> \in Seq(1 .. Len(written)) /\ \A k : k \notin 1 .. Len(<<>>)
    BY EmptyIsSeq
  <2> QED BY <1>10, <2>1 DEF Chained
<1>12. StoreOK
  <2>1. lines = Committed(medium) /\ tail_hash = TailOf(medium)
    BY <1>1, <1>10 DEF TailOf
  <2>2. PageSize \in Nat /\ PageCount \in Nat /\ PageCount > 0
    BY CellFacts
  <2>3. active_page \in 0 .. PageCount - 1 /\ write_offset \in 0 .. PageSize
    BY <1>1, <2>2
  <2>4. \A k \in 1 .. PageSize : medium[Cell(active_page, k)] # Free <=> k <= write_offset
    BY <1>1, <1>7, <2>2, <2>3
  <2>5. \A p \in active_page + 1 .. PageCount - 1, k \in 1 .. PageSize : medium[Cell(p, k)] = Free
    <3>1. \A p \in active_page + 1 .. PageCount - 1 : p \in 0 .. PageCount - 1
      BY <1>1, <2>2
    <3> QED BY <1>7, <3>1
  <2>6. polluted \in BOOLEAN /\ ~(polluted \/ active_page > 0) /\ write_offset \notin 1 .. PageSize - 1
    <3>1. ~(active_page > 0) /\ write_offset \notin 1 .. PageSize - 1
      BY <1>1, <2>2
    <3>2. polluted \in BOOLEAN /\ ~polluted
      BY <1>1, Zenon
    <3> QED BY <3>1, <3>2, Zenon
  <2> QED BY <2>1, <2>3, <2>4, <2>5, <2>6, Zenon DEF StoreOK
<1> QED BY <1>4, <1>6, <1>8, <1>9, <1>11, <1>12 DEF RingInv, RingOK

LEMMA RingNext ==
    ASSUME LinesHaveBytes PROVE (IInv /\ RingInv) /\ [Next]_vars => (IInv /\ RingInv)'
<1> SUFFICES ASSUME IInv, RingInv, [Next]_vars PROVE IInv' /\ RingInv'
  OBVIOUS
<1>1. IInv'
  BY NextKeeps
<1>2. ExecTypes'
  BY TypesStep DEF RingInv
<1>3. RingOK' /\ (pc' # "off" => StoreOK')
  BY RingStep
<1> QED BY <1>1, <1>2, <1>3 DEF RingInv

LEMMA RingAlways == ASSUME LinesHaveBytes PROVE Spec => [](IInv /\ RingInv)
<1>1. Init => IInv /\ RingInv
  BY InitHolds, RingInit
<1>2. (IInv /\ RingInv) /\ [Next]_vars => (IInv /\ RingInv)'
  BY RingNext
<1> QED BY <1>1, <1>2, PTL DEF Spec

(* For every number and size of pages, every length of the lines and every  *)
(* instruction set: wherever in the writing of a line power fails, and      *)
(* however often, open accepts the ring it finds.                           *)
THEOREM RingOpensAfterPowerFailure == ASSUME LinesHaveBytes PROVE Spec => []AlwaysOpens
<1>1. RingInv => AlwaysOpens
  BY RingOpens DEF RingInv, RingOK, AlwaysOpens
<1> QED BY <1>1, RingAlways, PTL

(* ... what the store has in memory is what the ring holds, the chain runs  *)
(* through restarts and given-up pages without a gap, and a record that is  *)
(* not refused outright finds free cells: programming never fails.          *)
THEOREM StoreIsTheRing == ASSUME LinesHaveBytes PROVE Spec => []StoreMatchesMedium
<1>1. ASSUME IInv, RingInv PROVE StoreMatchesMedium
  <2> SUFFICES ASSUME pc # "off"
               PROVE  /\ lines = Committed(medium)
                      /\ \A k \in DOMAIN lines :
                            written[lines[k]].prev_hash = IF k = 1 THEN genesis ELSE lines[k - 1]
                      /\ tail_hash = IF lines = <<>> THEN genesis ELSE Last(lines)
                      /\ Writing => Refuses(Record(version, out)) \/ CanProgram(Record(version, out))
    BY DEF StoreMatchesMedium
  <2>1. ExecTypes /\ RingOK /\ StoreOK
    BY <1>1 DEF RingInv
  <2>2. lines = Committed(medium) /\ tail_hash = TailOf(medium) /\ Chained(Committed(medium))
    BY <2>1 DEF RingOK, StoreOK
  <2>3. lines \in Seq(1 .. Len(written)) /\ DOMAIN lines = 1 .. Len(lines)
    BY <2>2 DEF Chained
  <2>4. \A k \in DOMAIN lines :
            written[lines[k]].prev_hash = IF k = 1 THEN genesis ELSE lines[k - 1]
    BY <2>2, <2>3 DEF Chained
  <2>5. tail_hash = IF lines = <<>> THEN genesis ELSE Last(lines)
    BY <2>2 DEF TailOf
  <2>6. Writing => Refuses(Record(version, out)) \/ CanProgram(Record(version, out))
    BY <2>1, NeverBarred
  <2> QED BY <2>2, <2>4, <2>5, <2>6
<1>2. IInv /\ RingInv => StoreMatchesMedium
  BY <1>1
<1> QED BY <1>2, RingAlways, PTL

LEMMA LedgerIs ==
    ASSUME ExecTypes, RingOK
    PROVE  LedgerFacts \in Seq(Fact) /\ Len(LedgerFacts) = Len(Committed(medium))
           /\ \A k \in 1 .. Len(Committed(medium)) :
                 LedgerFacts[k] = written[Committed(medium)[k]].fact.body
<1> DEFINE rows == Committed(medium)
<1>1. rows \in Seq(1 .. Len(written))
  BY DEF RingOK, Chained
<1>2. LedgerFacts = [k \in DOMAIN rows |-> written[rows[k]].fact.body]
  BY DEF LedgerFacts
<1> HIDE DEF rows
<1>3. DOMAIN rows = 1 .. Len(rows) /\ Len(rows) \in Nat
  BY <1>1
<1>4. ASSUME NEW k \in DOMAIN rows PROVE written[rows[k]].fact.body \in Fact
  <2>1. rows[k] \in 1 .. Len(written)
    BY <1>1
  <2>2. written[rows[k]].fact \in Sent
    BY <2>1 DEF ExecTypes
  <2> QED BY <2>2 DEF Sent
<1>5. LedgerFacts \in [1 .. Len(rows) -> Fact]
  BY <1>2, <1>3, <1>4
<1>6. LedgerFacts \in Seq(Fact) /\ Len(LedgerFacts) = Len(rows)
  BY <1>3, <1>5
<1>7. \A k \in 1 .. Len(rows) : LedgerFacts[k] = written[rows[k]].fact.body
  BY <1>2, <1>3
<1> QED BY <1>6, <1>7 DEF rows

LEMMA LedgerIsAlso ==
    (ExecTypes /\ RingOK =>
        LedgerFacts \in Seq(Fact) /\ Len(LedgerFacts) = Len(Committed(medium))
        /\ \A k \in 1 .. Len(Committed(medium)) :
              LedgerFacts[k] = written[Committed(medium)[k]].fact.body)'
<1>1. ExecTypes /\ RingOK =>
        LedgerFacts \in Seq(Fact) /\ Len(LedgerFacts) = Len(Committed(medium))
        /\ \A k \in 1 .. Len(Committed(medium)) :
              LedgerFacts[k] = written[Committed(medium)[k]].fact.body
  BY LedgerIs
<1> QED BY <1>1, PTL

LEMMA LedgerGrows ==
    ASSUME ExecTypes, RingOK, ExecTypes', RingOK', LedgerMoves
    PROVE  LedgerFacts' = LedgerFacts \/ \E f \in Fact : LedgerFacts' = Append(LedgerFacts, f)
<1> DEFINE rows == Committed(medium)
           new == Committed(medium)'
           L == LedgerFacts
           M == LedgerFacts'
<1>1. /\ L \in Seq(Fact) /\ Len(L) = Len(rows)
      /\ \A k \in 1 .. Len(rows) : L[k] = written[rows[k]].fact.body
  BY LedgerIs
<1>2. /\ M \in Seq(Fact) /\ Len(M) = Len(new)
      /\ \A k \in 1 .. Len(new) : M[k] = written'[new[k]].fact.body
  BY LedgerIsAlso
<1>3. rows \in Seq(1 .. Len(written)) /\ Len(rows) \in Nat
  BY DEF RingOK, Chained
<1>4. /\ \A i \in 1 .. Len(written) : written'[i] = written[i]
      /\ \/ new = rows
         \/ \E rec, n : rec.fact \in Sent /\ Known(rec, n) /\ new = Append(rows, n)
  BY DEF LedgerMoves
<1> HIDE DEF rows, new, L, M
<1>5. ASSUME NEW k \in 1 .. Len(rows) PROVE L[k] = written'[rows[k]].fact.body
  <2>1. rows[k] \in 1 .. Len(written)
    BY <1>3
  <2> QED BY <1>1, <1>4, <2>1
<1>6. CASE new = rows
  <2>1. Len(M) = Len(L) /\ \A k \in 1 .. Len(L) : M[k] = L[k]
    BY <1>1, <1>2, <1>5, <1>6
  <2>2. M = L
    BY <1>1, <1>2, <2>1, SeqEqual
  <2> QED BY <2>2 DEF L, M
<1>7. ASSUME NEW rec, NEW n, rec.fact \in Sent, Known(rec, n), new = Append(rows, n)
      PROVE  \E f \in Fact : M = Append(L, f)
  <2> DEFINE f == rec.fact.body
  <2>1. f \in Fact /\ written'[n].fact.body = f
    BY <1>7 DEF Sent, Known
  <2>2. IsSeq(rows)
    BY <1>3 DEF IsSeq
  <2>3. Len(new) = Len(rows) + 1 /\ new[Len(rows) + 1] = n /\ \A k \in 1 .. Len(rows) : new[k] = rows[k]
    BY <1>7, <2>2, Appended
  <2> HIDE DEF f
  <2>4. /\ Append(L, f) \in Seq(Fact) /\ Len(Append(L, f)) = Len(L) + 1
        /\ Append(L, f)[Len(L) + 1] = f /\ \A k \in 1 .. Len(L) : Append(L, f)[k] = L[k]
    BY <1>1, <2>1
  <2>5. ASSUME NEW k \in 1 .. Len(rows) + 1 PROVE M[k] = Append(L, f)[k]
    <3>1. M[k] = written'[new[k]].fact.body
      BY <1>2, <2>3
    <3>2. CASE k \in 1 .. Len(rows)
      BY <1>1, <1>5, <2>3, <2>4, <3>1, <3>2
    <3>3. CASE k = Len(rows) + 1
      BY <1>1, <2>1, <2>3, <2>4, <3>1, <3>3
    <3>4. k \in 1 .. Len(rows) \/ k = Len(rows) + 1
      BY <1>3
    <3> QED BY <3>2, <3>3, <3>4, Zenon
  <2>6. M = Append(L, f)
    <3>1. Len(M) = Len(rows) + 1 /\ Len(Append(L, f)) = Len(rows) + 1
      BY <1>1, <1>2, <2>3, <2>4
    <3>2. \A k \in 1 .. Len(M) : M[k] = Append(L, f)[k]
      BY <2>5, <3>1
    <3> QED BY <1>2, <2>4, <3>1, <3>2, SeqEqual
  <2> QED BY <2>1, <2>6
<1>8. M = L \/ \E f \in Fact : M = Append(L, f)
  BY <1>4, <1>6, <1>7 DEF L, M
<1> QED BY <1>8 DEF L, M

(* ... and the complete lines of the ring implement the abstract audit      *)
(* chain: through power failures, given-up pages, refused records and       *)
(* restarts a fact is only ever put at the end.                             *)
THEOREM LedgerIsDurable == ASSUME LinesHaveBytes PROVE Spec => LedgerSurvives
<1>1. Spec => [](IInv /\ RingInv)
  BY RingAlways
<1>2. Init => Ledger!Init
  <2> SUFFICES ASSUME Init PROVE LedgerFacts = <<>>
    BY DEF Ledger!Init
  <2>1. RingInv /\ lines = <<>> /\ pc # "off"
    BY RingInit DEF Init, with_wal_store
  <2>2. ExecTypes /\ RingOK /\ Committed(medium) = <<>>
    BY <2>1 DEF RingInv, StoreOK
  <2>3. LedgerFacts \in Seq(Fact) /\ Len(LedgerFacts) = 0
    BY <2>2, LedgerIs, EmptyIsSeq
  <2> QED BY <2>3
<1>3. ASSUME IInv, RingInv, RingInv', [Next]_vars PROVE [Ledger!AppendFact]_LedgerFacts
  <2>1. ExecTypes /\ RingOK /\ ExecTypes' /\ RingOK' /\ LedgerMoves
    BY <1>3, RingStep DEF RingInv
  <2>2. LedgerFacts' = LedgerFacts \/ \E f \in Fact : LedgerFacts' = Append(LedgerFacts, f)
    BY <2>1, LedgerGrows
  <2>3. ASSUME NEW f \in Fact, LedgerFacts' = Append(LedgerFacts, f) PROVE Ledger!AppendFact
    <3>1. LedgerFacts \in Seq(Fact)
      BY <2>1, LedgerIs
    <3> DEFINE L == LedgerFacts
               M == LedgerFacts'
    <3>2. L \in Seq(Fact) /\ M = Append(L, f)
      BY <2>3, <3>1
    <3> HIDE DEF L, M
    <3>3. M # <<>> /\ Last(M) = f /\ Front(M) = L
      BY <3>2 DEF Last, Front
    <3> QED BY <3>3 DEF Ledger!AppendFact, Ledger!Last, Ledger!Front, Last, Front, L, M
  <2> QED BY <2>2, <2>3
<1>4. IInv /\ RingInv /\ (IInv /\ RingInv)' /\ [Next]_vars => [Ledger!AppendFact]_LedgerFacts
  BY <1>3
<1> QED BY <1>1, <1>2, <1>4, PTL DEF Spec, LedgerSurvives, Ledger!Spec

=============================================================================
