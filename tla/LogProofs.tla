----------------------------- MODULE LogProofs ------------------------------
(***************************************************************************)
(* Proofs about FactsLog, Auditor and Verifiers.  On a disk that works the *)
(* log is the abstract audit chain, and recovery rebuilds the state there  *)
(* was.  On one whose writes fail, memory is never ahead of the disk, and  *)
(* auditor, anchors, sentinel and verifiers stay true to what is on it.    *)
(***************************************************************************)
EXTENDS Verifiers, SequenceTheorems, FiniteSetTheorems, WellFoundedInduction, TLAPS

(* Induction over the natural numbers: a set of them has a least element.   *)
LEMMA LeastNatural ==
    ASSUME NEW T, T \subseteq Nat, T # {}
    PROVE  \E n \in T : \A m \in T : n <= m
<1>1. PICK n \in T : \A m \in T : <<m, n>> \notin OpToRel(<, Nat)
  BY NatLessThanWellFounded, WFMin, Zenon
<1>2. \A m \in T : ~(m < n)
  BY <1>1, Zenon DEF OpToRel
<1>3. QED
  BY <1>2

(* ... and a greatest one if it is bounded. *)
LEMMA GreatestBelow ==
    ASSUME NEW T, T \subseteq Nat, T # {}, NEW b \in Nat, \A x \in T : x <= b
    PROVE  \E n \in T : \A m \in T : m <= n
<1>1. PICK u \in {b - x : x \in T} : \A v \in {b - x : x \in T} : u <= v
  <2>1. \A x \in T : b - x \in Nat
    OBVIOUS
  <2>2. QED
    BY <2>1, LeastNatural
<1>2. PICK n \in T : u = b - n
  BY <1>1
<1>3. \A m \in T : b - n <= b - m
  BY <1>1, <1>2
<1>4. QED
  BY <1>3

-----------------------------------------------------------------------------

(* Induction and sequences. *)

(* FlattenSeq as its steps: F[i] is what the first i sequences make. *)
Flattens(ss, n, F) ==
    F = [i \in 1 .. n |-> IF i = 1 THEN ss[i] ELSE F[i - 1] \o ss[i]]

LEMMA FlattenExists ==
    ASSUME NEW ss, NEW N \in Nat
    PROVE  \E F : Flattens(ss, N, F)
<1> DEFINE Bad == {n \in Nat : ~\E F : Flattens(ss, n, F)}
<1>1. SUFFICES ASSUME Bad # {} PROVE FALSE
  OBVIOUS
<1>2. PICK n \in Bad : \A m \in Bad : n <= m
  BY <1>1, LeastNatural
<1>3. n # 0
  <2>1. Flattens(ss, 0, <<>>)
    BY DEF Flattens
  <2> QED BY <2>1
<1>4. n - 1 \in Nat /\ n - 1 \notin Bad
  BY <1>2, <1>3
<1>5. PICK F : Flattens(ss, n - 1, F)
  BY <1>4
<1> DEFINE G == [i \in 1 .. n |-> IF i < n THEN F[i]
                                  ELSE IF i = 1 THEN ss[i] ELSE F[n - 1] \o ss[n]]
<1>6. \A i \in 1 .. n - 1 : F[i] = IF i = 1 THEN ss[i] ELSE F[i - 1] \o ss[i]
  BY <1>5 DEF Flattens
<1>7. ASSUME NEW i \in 1 .. n
      PROVE  G[i] = IF i = 1 THEN ss[i] ELSE G[i - 1] \o ss[i]
  <2>1. CASE i < n
    <3>1. i \in 1 .. n - 1 /\ G[i] = F[i]
      BY <1>4, <2>1
    <3>2. i # 1 => i - 1 \in 1 .. n - 1 /\ G[i - 1] = F[i - 1]
      BY <1>4, <2>1
    <3> QED BY <1>6, <3>1, <3>2
  <2>2. CASE i = n
    <3>1. i # 1 => G[i - 1] = F[n - 1]
      BY <1>4, <2>2
    <3> QED BY <2>2, <3>1
  <2> QED BY <1>4, <2>1, <2>2
<1>8. G = [i \in 1 .. n |-> G[i]]
  OBVIOUS
<1> HIDE DEF G
<1>9. Flattens(ss, n, G)
  BY <1>7, <1>8 DEF Flattens
<1> QED BY <1>9

LEMMA FlattenSteps ==
    ASSUME NEW ss, Len(ss) \in Nat \ {0}
    PROVE  \E F : Flattens(ss, Len(ss), F) /\ FlattenSeq(ss) = F[Len(ss)]
<1> DEFINE F == CHOOSE G : Flattens(ss, Len(ss), G)
<1>1. FlattenSeq(ss) = F[Len(ss)]
  BY DEF FlattenSeq, Flattens
<1>2. Flattens(ss, Len(ss), F)
  BY FlattenExists
<1> HIDE DEF F
<1> QED BY <1>1, <1>2

(* The steps depend on the sequences they have passed only. *)
LEMMA FlattensAgree ==
    ASSUME NEW ss, NEW tt, NEW n \in Nat, NEW m \in Nat, NEW F, NEW G,
           Flattens(ss, n, F), Flattens(tt, m, G), n <= m,
           \A i \in 1 .. n : tt[i] = ss[i]
    PROVE  \A i \in 1 .. n : G[i] = F[i]
<1> DEFINE Bad == {i \in 1 .. n : G[i] # F[i]}
<1>1. SUFFICES ASSUME Bad # {} PROVE FALSE
  OBVIOUS
<1>2. PICK i \in Bad : \A j \in Bad : i <= j
  <2>1. Bad \subseteq Nat
    OBVIOUS
  <2> QED BY <1>1, <2>1, LeastNatural
<1>3. F[i] = IF i = 1 THEN ss[i] ELSE F[i - 1] \o ss[i]
  BY DEF Flattens
<1>4. G[i] = IF i = 1 THEN tt[i] ELSE G[i - 1] \o tt[i]
  <2>1. i \in 1 .. m
    OBVIOUS
  <2> QED BY <2>1 DEF Flattens
<1>5. i # 1 => G[i - 1] = F[i - 1]
  <2>1. i # 1 => i - 1 \in 1 .. n /\ i - 1 \notin Bad
    BY <1>2
  <2> QED BY <2>1
<1> QED BY <1>3, <1>4, <1>5

LEMMA FlattenOne ==
    ASSUME NEW ss, Len(ss) = 1
    PROVE  FlattenSeq(ss) = ss[1]
<1>0. Len(ss) \in Nat \ {0}
  OBVIOUS
<1>1. PICK F : Flattens(ss, Len(ss), F) /\ FlattenSeq(ss) = F[Len(ss)]
  BY <1>0, FlattenSteps, Zenon
<1> QED BY <1>1 DEF Flattens

LEMMA FlattenLast ==
    ASSUME NEW n \in Nat \ {0}, NEW ss, NEW tt, Len(ss) = n, Len(tt) = n + 1,
           \A i \in 1 .. n : tt[i] = ss[i]
    PROVE  FlattenSeq(tt) = FlattenSeq(ss) \o tt[n + 1]
<1>1. PICK F : Flattens(ss, n, F) /\ FlattenSeq(ss) = F[n]
  BY FlattenSteps
<1>2. PICK G : Flattens(tt, n + 1, G) /\ FlattenSeq(tt) = G[n + 1]
  BY FlattenSteps
<1>3. \A i \in 1 .. n : G[i] = F[i]
  BY <1>1, <1>2, FlattensAgree, SMTT(60)
<1>4. G[n + 1] = G[n] \o tt[n + 1]
  <2> DEFINE m == n + 1
  <2>1. m \in 1 .. m /\ m # 1 /\ m - 1 = n
    OBVIOUS
  <2>2. \A i \in 1 .. m : G[i] = IF i = 1 THEN tt[i] ELSE G[i - 1] \o tt[i]
    BY <1>2 DEF Flattens
  <2> HIDE DEF m
  <2>3. G[m] = G[m - 1] \o tt[m]
    BY <2>1, <2>2
  <2> QED BY <2>1, <2>3 DEF m
<1>5. n \in 1 .. n
  OBVIOUS
<1> QED BY <1>1, <1>2, <1>3, <1>4, <1>5

(* ... and what it makes does not depend on how the sequences are given. *)
LEMMA FlattenSame ==
    ASSUME NEW n \in Nat \ {0}, NEW ss, NEW tt, Len(ss) = n, Len(tt) = n,
           \A i \in 1 .. n : tt[i] = ss[i]
    PROVE  FlattenSeq(tt) = FlattenSeq(ss)
<1>1. PICK F : Flattens(ss, n, F) /\ FlattenSeq(ss) = F[n]
  BY FlattenSteps
<1>2. PICK G : Flattens(tt, n, G) /\ FlattenSeq(tt) = G[n]
  BY FlattenSteps
<1>3. \A i \in 1 .. n : G[i] = F[i]
  BY <1>1, <1>2, FlattensAgree, SMTT(60)
<1> QED BY <1>1, <1>2, <1>3

(* Sequences over S make a sequence over S. *)
LEMMA FlattenType ==
    ASSUME NEW S, NEW n \in Nat \ {0}, NEW ss, Len(ss) = n,
           \A i \in 1 .. n : ss[i] \in Seq(S)
    PROVE  FlattenSeq(ss) \in Seq(S)
<1>1. PICK F : Flattens(ss, n, F) /\ FlattenSeq(ss) = F[n]
  BY FlattenSteps
<1> DEFINE Bad == {i \in 1 .. n : F[i] \notin Seq(S)}
<1>2. Bad = {}
  <2>1. SUFFICES ASSUME Bad # {} PROVE FALSE
    OBVIOUS
  <2>2. PICK i \in Bad : \A j \in Bad : i <= j
    <3>1. Bad \subseteq Nat
      OBVIOUS
    <3> QED BY <2>1, <3>1, LeastNatural
  <2>3. F[i] = IF i = 1 THEN ss[i] ELSE F[i - 1] \o ss[i]
    BY <1>1 DEF Flattens
  <2>4. i # 1 => F[i - 1] \in Seq(S)
    <3>1. i # 1 => i - 1 \in 1 .. n /\ i - 1 \notin Bad
      BY <2>2
    <3> QED BY <3>1
  <2>5. F[i] \in Seq(S)
    BY <2>3, <2>4
  <2> QED BY <2>5
<1> QED BY <1>1, <1>2

-----------------------------------------------------------------------------
(* Folding from the left, as its steps over the subsets of the positions.   *)

LEMMA MaxOfInterval ==
    ASSUME NEW n \in Nat \ {0}, NEW t \in SUBSET (1 .. n), n \in t
    PROVE  Max(t) = n
<1>1. \A x \in t : n >= x
  OBVIOUS
<1>2. \A x \in t : (\A y \in t : x >= y) => x = n
  BY <1>1
<1>3. Max(t) = CHOOSE x \in t : \A y \in t : x >= y
  BY DEF Max
<1> QED BY <1>1, <1>2, <1>3

(* What the facts lead to, from the state of a new log. *)
StateOf(facts) == FoldLeft(apply_fact_to_state, EmptyState, facts)

(* The fold over the first n facts, for each set of their positions. *)
Folds(facts, n, F) ==
    F = [t \in SUBSET (1 .. n) |->
           IF t = {} THEN EmptyState
           ELSE apply_fact_to_state(F[t \ {Max(t)}], facts[Max(t)])]

LEMMA FoldsExist ==
    ASSUME NEW facts, NEW N \in Nat
    PROVE  \E F : Folds(facts, N, F)
<1> DEFINE Bad == {n \in Nat : ~\E F : Folds(facts, n, F)}
<1>1. SUFFICES ASSUME Bad # {} PROVE FALSE
  OBVIOUS
<1>2. PICK n \in Bad : \A m \in Bad : n <= m
  BY <1>1, LeastNatural
<1>3. n # 0
  <2> DEFINE G == [t \in SUBSET (1 .. 0) |-> EmptyState]
  <2>1. \A t \in SUBSET (1 .. 0) : t = {}
    OBVIOUS
  <2>2. Folds(facts, 0, G)
    BY <2>1 DEF Folds
  <2> QED BY <2>2
<1>4. n - 1 \in Nat /\ n - 1 \notin Bad
  BY <1>2, <1>3
<1>5. PICK F : Folds(facts, n - 1, F)
  BY <1>4
<1> DEFINE G == [t \in SUBSET (1 .. n) |->
                   IF n \in t THEN apply_fact_to_state(F[t \ {n}], facts[n]) ELSE F[t]]
<1>6. \A t \in SUBSET (1 .. n - 1) :
          F[t] = IF t = {} THEN EmptyState
                 ELSE apply_fact_to_state(F[t \ {Max(t)}], facts[Max(t)])
  BY <1>5 DEF Folds
<1>7. ASSUME NEW t \in SUBSET (1 .. n)
      PROVE  G[t] = IF t = {} THEN EmptyState
                    ELSE apply_fact_to_state(G[t \ {Max(t)}], facts[Max(t)])
  <2>1. t \ {Max(t)} \in SUBSET (1 .. n)
    OBVIOUS
  <2>2. CASE n \in t
    <3>1. Max(t) = n /\ t # {}
      BY <1>3, <2>2, MaxOfInterval
    <3>2. G[t] = apply_fact_to_state(F[t \ {n}], facts[n])
      BY <2>2
    <3>3. G[t \ {n}] = F[t \ {n}]
      <4>1. t \ {n} \in SUBSET (1 .. n) /\ n \notin t \ {n}
        OBVIOUS
      <4> QED BY <4>1
    <3> HIDE DEF G
    <3> QED BY <3>1, <3>2, <3>3
  <2>3. CASE n \notin t
    <3>1. t \in SUBSET (1 .. n - 1)
      BY <2>3
    <3>2. G[t] = F[t] /\ G[t \ {Max(t)}] = F[t \ {Max(t)}]
      BY <2>1, <2>3
    <3> HIDE DEF G
    <3> QED BY <1>6, <3>1, <3>2
  <2> QED BY <2>2, <2>3
<1>8. G = [t \in SUBSET (1 .. n) |-> G[t]]
  OBVIOUS
<1> HIDE DEF G
<1>9. Folds(facts, n, G)
  BY <1>7, <1>8 DEF Folds
<1> QED BY <1>9

(* A fold as the states after each of the facts. *)
LEMMA StateSteps ==
    ASSUME NEW facts, NEW n \in Nat, DOMAIN facts = 1 .. n
    PROVE  \E F : /\ F[{}] = EmptyState /\ StateOf(facts) = F[1 .. n]
                  /\ \A i \in 1 .. n :
                        F[1 .. i] = apply_fact_to_state(F[1 .. i - 1], facts[i])
<1> DEFINE F == CHOOSE G : Folds(facts, n, G)
<1>1. StateOf(facts) = F[1 .. n]
  BY DEF StateOf, FoldLeft, MapThenFoldSet, Folds
<1>2. Folds(facts, n, F)
  BY FoldsExist
<1> HIDE DEF F
<1>3. \A t \in SUBSET (1 .. n) :
          F[t] = IF t = {} THEN EmptyState
                 ELSE apply_fact_to_state(F[t \ {Max(t)}], facts[Max(t)])
  BY <1>2 DEF Folds
<1>4. F[{}] = EmptyState
  BY <1>3
<1>5. ASSUME NEW i \in 1 .. n
      PROVE  F[1 .. i] = apply_fact_to_state(F[1 .. i - 1], facts[i])
  <2>1. 1 .. i \in SUBSET (1 .. n) /\ 1 .. i # {} /\ (1 .. i) \ {i} = 1 .. i - 1
    <3>1. 1 .. i \in SUBSET (1 .. n) /\ i \in 1 .. i
      OBVIOUS
    <3>2. (1 .. i) \ {i} = 1 .. i - 1
      OBVIOUS
    <3> QED BY <3>1, <3>2
  <2>2. Max(1 .. i) = i
    BY MaxOfInterval
  <2> QED BY <1>3, <2>1, <2>2
<1> QED BY <1>1, <1>4, <1>5

LEMMA StateOfNone == StateOf(<<>>) = EmptyState
<1>1. PICK F : F[{}] = EmptyState /\ StateOf(<<>>) = F[1 .. 0]
  <2>1. DOMAIN <<>> = 1 .. 0
    OBVIOUS
  <2> QED BY <2>1, StateSteps
<1>2. 1 .. 0 = {}
  OBVIOUS
<1> QED BY <1>1, <1>2

(* A further fact is applied to what the ones before it led to. *)
LEMMA StateOfAppend ==
    ASSUME NEW S, NEW facts \in Seq(S), NEW f \in S
    PROVE  StateOf(Append(facts, f)) = apply_fact_to_state(StateOf(facts), f)
<1> DEFINE n == Len(facts)
           more == Append(facts, f)
<1>1. /\ n \in Nat /\ DOMAIN facts = 1 .. n /\ DOMAIN more = 1 .. n + 1
      /\ \A i \in 1 .. n : more[i] = facts[i]
      /\ more[n + 1] = f
  OBVIOUS
<1> HIDE DEF n, more
<1>2. PICK F : /\ F[{}] = EmptyState /\ StateOf(facts) = F[1 .. n]
               /\ \A i \in 1 .. n : F[1 .. i] = apply_fact_to_state(F[1 .. i - 1], facts[i])
  BY <1>1, StateSteps
<1>3. PICK G : /\ G[{}] = EmptyState /\ StateOf(more) = G[1 .. n + 1]
               /\ \A i \in 1 .. n + 1 : G[1 .. i] = apply_fact_to_state(G[1 .. i - 1], more[i])
  <2>1. n + 1 \in Nat
    BY <1>1
  <2> QED BY <1>1, <2>1, StateSteps
<1> DEFINE Bad == {i \in 0 .. n : G[1 .. i] # F[1 .. i]}
<1>4. Bad = {}
  <2>1. SUFFICES ASSUME Bad # {} PROVE FALSE
    OBVIOUS
  <2>2. PICK i \in Bad : \A j \in Bad : i <= j
    <3>1. Bad \subseteq Nat
      BY <1>1
    <3> QED BY <2>1, <3>1, LeastNatural
  <2>3. i # 0
    <3>1. 1 .. 0 = {}
      OBVIOUS
    <3> QED BY <1>2, <1>3, <3>1
  <2>4. i \in 1 .. n /\ i \in 1 .. n + 1 /\ i - 1 \in 0 .. n /\ i - 1 \notin Bad
    BY <1>1, <2>2, <2>3
  <2>5. G[1 .. i - 1] = F[1 .. i - 1]
    BY <2>4
  <2> QED BY <1>1, <1>2, <1>3, <2>4, <2>5
<1>5. G[1 .. n] = F[1 .. n]
  BY <1>1, <1>4
<1>6. G[1 .. n + 1] = apply_fact_to_state(G[1 .. n], more[n + 1])
  <2> DEFINE m == n + 1
  <2>1. m \in 1 .. m /\ m - 1 = n
    BY <1>1
  <2>2. \A i \in 1 .. m : G[1 .. i] = apply_fact_to_state(G[1 .. i - 1], more[i])
    BY <1>3
  <2> HIDE DEF m
  <2>3. G[1 .. m] = apply_fact_to_state(G[1 .. m - 1], more[m])
    BY <2>1, <2>2
  <2> QED BY <2>1, <2>3 DEF m
<1> QED BY <1>1, <1>2, <1>3, <1>5, <1>6 DEF more

-----------------------------------------------------------------------------
(* The shards, and what a reader finds in them. *)

Rec == [version_before : Nat, fact : Fact, prev_hash : Seq(Fact), chain_hash : Seq(Fact)]

WholeLine(r) == [rec |-> r, form |-> "whole"]
Line == {WholeLine(r) : r \in Rec}

(* The shards 0 to q, and the sequence a reader makes of them. *)
Shards(q) == [0 .. q -> Seq(Line)]
InOrder(sh, q) == [i \in 1 .. q + 1 |-> sh[i - 1]]

LEMMA LengthOf ==
    ASSUME NEW n \in Nat, NEW f, f = [i \in 1 .. n |-> f[i]]
    PROVE  Len(f) = n
<1> DEFINE S == {f[i] : i \in 1 .. n}
<1>1. f \in [1 .. n -> S]
  OBVIOUS
<1>2. f \in Seq(S)
  BY <1>1
<1> QED BY <1>1, <1>2

LEMMA InOrderIs ==
    ASSUME NEW q \in Nat, NEW sh
    PROVE  Len(InOrder(sh, q)) = q + 1 /\ \A i \in 1 .. q + 1 : InOrder(sh, q)[i] = sh[i - 1]
<1>1. InOrder(sh, q) = [i \in 1 .. q + 1 |-> InOrder(sh, q)[i]]
  BY DEF InOrder
<1>2. q + 1 \in Nat
  OBVIOUS
<1>3. Len(InOrder(sh, q)) = q + 1
  BY <1>1, <1>2, LengthOf
<1> QED BY <1>3 DEF InOrder

LEMMA ReaderFindsAll ==
    ASSUME NEW q \in Nat, NEW sh, DOMAIN sh = 0 .. q
    PROVE  LastShard(sh) = q /\ ReadLines(sh) = FlattenSeq(InOrder(sh, q))
<1>1. q \in DOMAIN sh /\ 0 .. q \subseteq DOMAIN sh /\ q + 1 \notin DOMAIN sh
  OBVIOUS
<1>2. \A k \in DOMAIN sh : (0 .. k \subseteq DOMAIN sh /\ k + 1 \notin DOMAIN sh) => k = q
  OBVIOUS
<1>3. LastShard(sh) = q
  BY <1>1, <1>2 DEF LastShard
<1> QED BY <1>3 DEF ReadLines, InOrder

LEMMA ReadType ==
    ASSUME NEW q \in Nat, NEW sh \in Shards(q)
    PROVE  ReadLines(sh) \in Seq(Line)
<1>1. ReadLines(sh) = FlattenSeq(InOrder(sh, q))
  BY ReaderFindsAll DEF Shards
<1>2. q + 1 \in Nat \ {0} /\ Len(InOrder(sh, q)) = q + 1
  BY InOrderIs
<1>3. \A i \in 1 .. q + 1 : InOrder(sh, q)[i] \in Seq(Line)
  <2>1. \A i \in 1 .. q + 1 : InOrder(sh, q)[i] = sh[i - 1] /\ i - 1 \in 0 .. q
    BY InOrderIs
  <2> QED BY <2>1 DEF Shards
<1> QED BY <1>1, <1>2, <1>3, FlattenType

(* What shards beyond the first add: the last of them, at the end. *)
LEMMA ReadLast ==
    ASSUME NEW q \in Nat, NEW sh, DOMAIN sh = 0 .. q, NEW th, DOMAIN th = 0 .. q + 1,
           \A k \in 0 .. q : th[k] = sh[k]
    PROVE  ReadLines(th) = ReadLines(sh) \o th[q + 1]
<1>1. ReadLines(sh) = FlattenSeq(InOrder(sh, q))
  BY ReaderFindsAll
<1>2. q + 1 \in Nat /\ ReadLines(th) = FlattenSeq(InOrder(th, q + 1))
  BY ReaderFindsAll
<1> DEFINE n == q + 1
           ss == InOrder(sh, q)
           tt == InOrder(th, n)
<1>3. /\ n \in Nat \ {0} /\ Len(ss) = n /\ \A i \in 1 .. n : ss[i] = sh[i - 1]
  BY InOrderIs
<1>4. Len(tt) = n + 1 /\ \A i \in 1 .. n + 1 : tt[i] = th[i - 1]
  BY <1>3, InOrderIs
<1>5. \A i \in 1 .. n : tt[i] = ss[i]
  <2>1. \A i \in 1 .. n : i - 1 \in 0 .. q /\ i \in 1 .. n + 1
    OBVIOUS
  <2> QED BY <1>3, <1>4, <2>1
<1>6. tt[n + 1] = th[n]
  <2>1. n + 1 \in 1 .. n + 1 /\ n + 1 - 1 = n
    BY <1>3
  <2> QED BY <1>4, <2>1
<1>7. FlattenSeq(tt) = FlattenSeq(ss) \o tt[n + 1]
  <2> HIDE DEF n, ss, tt
  <2> QED BY <1>3, <1>4, <1>5, FlattenLast, SMTT(60)
<1> QED BY <1>1, <1>2, <1>6, <1>7

LEMMA ReadRotated ==
    ASSUME NEW q \in Nat, NEW sh \in Shards(q), NEW th, DOMAIN th = 0 .. q + 1,
           \A k \in 0 .. q : th[k] = sh[k], th[q + 1] = <<>>
    PROVE  ReadLines(th) = ReadLines(sh)
<1>1. ReadLines(th) = ReadLines(sh) \o <<>>
  BY ReadLast DEF Shards
<1> QED BY <1>1, ReadType

LEMMA ReadAppended ==
    ASSUME NEW q \in Nat, NEW sh \in Shards(q), NEW th, DOMAIN th = 0 .. q, NEW l \in Line,
           th[q] = Append(sh[q], l), \A k \in 0 .. q : k # q => th[k] = sh[k]
    PROVE  ReadLines(th) = Append(ReadLines(sh), l)
<1>1. CASE q = 0
  <2>1. ReadLines(sh) = FlattenSeq(InOrder(sh, 0)) /\ ReadLines(th) = FlattenSeq(InOrder(th, 0))
    BY <1>1, ReaderFindsAll DEF Shards
  <2>2. /\ Len(InOrder(sh, 0)) = 1 /\ InOrder(sh, 0)[1] = sh[0]
        /\ Len(InOrder(th, 0)) = 1 /\ InOrder(th, 0)[1] = th[0]
    <3>1. \A f : Len(InOrder(f, 0)) = 0 + 1 /\ \A i \in 1 .. 0 + 1 : InOrder(f, 0)[i] = f[i - 1]
      BY InOrderIs
    <3> QED BY <3>1
  <2>3. FlattenSeq(InOrder(sh, 0)) = sh[0] /\ FlattenSeq(InOrder(th, 0)) = th[0]
    BY <2>2, FlattenOne
  <2> QED BY <1>1, <2>1, <2>3
<1>2. CASE q # 0
  <2> DEFINE p == q - 1
             front == [k \in 0 .. p |-> sh[k]]
  <2>1. p \in Nat /\ q = p + 1 /\ DOMAIN front = 0 .. p
    BY <1>2
  <2>2. front \in Shards(p)
    BY <2>1 DEF Shards
  <2>3. (\A k \in 0 .. p : sh[k] = front[k]) /\ \A k \in 0 .. p : th[k] = front[k]
    BY <2>1
  <2> HIDE DEF p, front
  <2>4. ReadLines(sh) = ReadLines(front) \o sh[q]
    BY <2>1, <2>3, ReadLast DEF Shards
  <2>5. ReadLines(th) = ReadLines(front) \o th[q]
    BY <2>1, <2>3, ReadLast
  <2>6. ReadLines(front) \in Seq(Line) /\ sh[q] \in Seq(Line) /\ th[q] = Append(sh[q], l)
    BY <2>1, <2>2, ReadType DEF Shards
  <2>7. \A a, b \in Seq(Line) : a \o Append(b, l) = Append(a \o b, l)
    OBVIOUS
  <2> QED BY <2>4, <2>5, <2>6, <2>7
<1> QED BY <1>1, <1>2

-----------------------------------------------------------------------------
(* The writer. *)

WriterOn(q, sh, z) ==
    [shards |-> sh, seq |-> q, file |-> q, size |-> z, buffer |-> <<>>, spoilt |-> {}]

(* A store whose writer is on the last shard and has nothing in its buffer. *)
StoreOK(s) == \E q \in Nat : \E sh \in Shards(q), z \in Int : s = WriterOn(q, sh, z)

(* A store, no record of which was run into another; and changing a field. *)
StoreOf(q, sh, z, b) ==
    [shards |-> sh, seq |-> q, file |-> q, size |-> z, buffer |-> b, spoilt |-> {}]

LEMMA SetShards ==
    ASSUME NEW q, NEW sh, NEW z, NEW b, NEW y
    PROVE  [StoreOf(q, sh, z, b) EXCEPT !.shards = y] = StoreOf(q, y, z, b)
<1> DEFINE e == {}
<1>1. \A t : StoreOf(q, t, z, b) =
         [shards |-> t, seq |-> q, file |-> q, size |-> z, buffer |-> b, spoilt |-> e]
  BY Zenon DEF StoreOf
<1> HIDE DEF e
<1> QED BY <1>1

LEMMA SetBuffer ==
    ASSUME NEW q, NEW sh, NEW z, NEW b, NEW y
    PROVE  [StoreOf(q, sh, z, b) EXCEPT !.buffer = y] = StoreOf(q, sh, z, y)
<1> DEFINE e == {}
<1>1. \A t : StoreOf(q, sh, z, t) =
         [shards |-> sh, seq |-> q, file |-> q, size |-> z, buffer |-> t, spoilt |-> e]
  BY Zenon DEF StoreOf
<1> HIDE DEF e
<1> QED BY <1>1

LEMMA SetSize ==
    ASSUME NEW q, NEW sh, NEW z, NEW b, NEW y
    PROVE  [StoreOf(q, sh, z, b) EXCEPT !.size = y] = StoreOf(q, sh, y, b)
<1> DEFINE e == {}
<1>1. \A t : StoreOf(q, sh, t, b) =
         [shards |-> sh, seq |-> q, file |-> q, size |-> t, buffer |-> b, spoilt |-> e]
  BY Zenon DEF StoreOf
<1> HIDE DEF e
<1> QED BY <1>1

LEMMA SameSpoilt ==
    ASSUME NEW q, NEW sh, NEW z, NEW b
    PROVE  [StoreOf(q, sh, z, b) EXCEPT !.spoilt = @ \cup {}] = StoreOf(q, sh, z, b)
BY DEF StoreOf

LEMMA WrittenIs ==
    ASSUME NEW lines \in Seq(Line), NEW recs
    PROVE  Written(lines, recs) = lines \o Whole(recs) /\ RunTogether(lines, recs) = {}
<1>1. \A l \in Line : l.form = "whole"
  BY DEF Line, WholeLine
<1>2. lines # <<>> => Last(lines) \in Line
  BY DEF Last
<1>3. \A forms : "whole" \notin forms => ~EndsIn(lines, forms)
  BY <1>1, <1>2 DEF EndsIn
<1>4. ~Joined(lines, recs) /\ ~Continued(lines, recs)
  BY <1>3 DEF Joined, Continued
<1> QED BY <1>4 DEF Written, RunTogether

LEMMA WholeOfNone == Whole(<<>>) = <<>>
BY DEF Whole

LEMMA WholeOfOne == ASSUME NEW r PROVE Whole(Append(<<>>, r)) = <<WholeLine(r)>>
<1> DEFINE x == Append(<<>>, r)
<1>1. DOMAIN x = 1 .. 1 /\ \A i \in 1 .. 1 : x[i] = r
  OBVIOUS
<1> HIDE DEF x
<1>2. Whole(x) = [i \in 1 .. 1 |-> [rec |-> x[i], form |-> "whole"]]
  BY <1>1 DEF Whole
<1>3. \A i \in 1 .. 1 : [rec |-> x[i], form |-> "whole"] = WholeLine(r)
  BY <1>1 DEF WholeLine
<1>4. Whole(x) = [i \in 1 .. 1 |-> WholeLine(r)]
  BY <1>2, <1>3, Zenon
<1>5. <<WholeLine(r)>> = [i \in 1 .. 1 |-> WholeLine(r)]
  OBVIOUS
<1> QED BY <1>4, <1>5 DEF x

LEMMA WriteLineIs ==
    ASSUME Faults = {}, NEW s, StoreOK(s), NEW r \in Rec, NEW o \in WriteLine(s, r)
    PROVE  /\ o.ok = TRUE /\ StoreOK(o.store)
           /\ ReadLines(o.store.shards) = Append(ReadLines(s.shards), WholeLine(r))
<1>0. PICK q \in Nat : \E sh \in Shards(q), z \in Int : s = WriterOn(q, sh, z)
  BY DEF StoreOK
<1>1. PICK sh \in Shards(q), z \in Int : s = WriterOn(q, sh, z)
  BY <1>0
<1>2. s.file = q /\ s.buffer = <<>> /\ s.shards = sh
  BY <1>1 DEF WriterOn
<1> DEFINE l == WholeLine(r)
           lines == Written(sh[q], Append(<<>>, r))
           th == [sh EXCEPT ![q] = lines]
<1>4. sh[q] \in Seq(Line) /\ l \in Line
  BY DEF Shards, Line
<1>3. o = Outcome(TRUE, [s EXCEPT !.shards[q] = lines, !.buffer = <<>>, !.size = @ + 1])
  <2> DEFINE run == RunTogether(sh[q], Append(<<>>, r))
             t == [s EXCEPT !.spoilt = @ \cup run]
  <2>1. run = {}
    BY <1>4, WrittenIs
  <2>2. t = s
    BY <1>1, <2>1 DEF WriterOn
  <2>3. o = Outcome(TRUE, [t EXCEPT !.shards[t.file] = lines, !.buffer = <<>>, !.size = @ + 1])
    <3>1. \A x : Faults \cap {x} = {}
      OBVIOUS
    <3>2. UNION {CutShort(t, r) : x \in Faults \cap {"cut"}} = {}
      BY <3>1, Zenon
    <3> QED BY <1>2, <3>1, <3>2, Zenon DEF WriteLine
  <2> HIDE DEF t
  <2> QED BY <1>2, <2>2, <2>3, Zenon
<1>5. lines = Append(sh[q], l)
  <2>1. lines = sh[q] \o <<l>>
    BY <1>4, WrittenIs, WholeOfOne
  <2> HIDE DEF l, lines
  <2> QED BY <1>4, <2>1
<1> HIDE DEF lines, l
<1>6. [s EXCEPT !.shards[q] = lines, !.buffer = <<>>, !.size = @ + 1] = WriterOn(q, th, z + 1)
  <2> DEFINE none == <<>>
             m == z + 1
             w == StoreOf(q, sh, z, none)
  <2>1. \A x, y : WriterOn(q, x, y) = StoreOf(q, x, y, none)
    BY Zenon DEF WriterOn, StoreOf
  <2>2. [w EXCEPT !.shards[q] = lines, !.buffer = none, !.size = @ + 1]
          = [[[w EXCEPT !.shards[q] = lines] EXCEPT !.buffer = none] EXCEPT !.size = @ + 1]
    BY DEF StoreOf
  <2>3. w.shards = sh /\ StoreOf(q, th, z, none).size = z
    BY DEF StoreOf
  <2>4. [w EXCEPT !.shards[q] = lines] = [w EXCEPT !.shards = [w.shards EXCEPT ![q] = lines]]
    BY Zenon
  <2>5. s = w
    BY <1>1, <2>1, Zenon
  <2>6. [w EXCEPT !.shards[q] = lines] = [w EXCEPT !.shards = th]
    BY <2>3, <2>4, Zenon
  <2> HIDE DEF none, th, m
  <2>7. [w EXCEPT !.shards = th] = StoreOf(q, th, z, none)
    BY SetShards
  <2>8. [StoreOf(q, th, z, none) EXCEPT !.buffer = none] = StoreOf(q, th, z, none)
    BY SetBuffer
  <2>9. [StoreOf(q, th, z, none) EXCEPT !.size = m] = StoreOf(q, th, m, none)
    BY SetSize
  <2>10. [StoreOf(q, th, z, none) EXCEPT !.size = @ + 1] = [StoreOf(q, th, z, none) EXCEPT !.size = m]
    BY <2>3, Zenon DEF m
  <2>11. [w EXCEPT !.shards[q] = lines, !.buffer = none, !.size = @ + 1] = StoreOf(q, th, m, none)
    BY <2>2, <2>6, <2>7, <2>8, <2>9, <2>10, Zenon
  <2> QED BY <2>1, <2>5, <2>11, Zenon DEF none, m
<1>7. /\ th \in Shards(q) /\ DOMAIN th = 0 .. q
      /\ th[q] = Append(sh[q], l) /\ \A k \in 0 .. q : k # q => th[k] = sh[k]
  BY <1>4, <1>5 DEF Shards
<1> HIDE DEF th
<1>8. ReadLines(th) = Append(ReadLines(sh), l)
  BY <1>4, <1>7, ReadAppended
<1>9. o.ok = TRUE /\ o.store = WriterOn(q, th, z + 1)
  BY <1>3, <1>6 DEF Outcome
<1>10. o.store.shards = th
  BY <1>9 DEF WriterOn
<1>11. StoreOK(o.store)
  <2>1. z + 1 \in Int
    OBVIOUS
  <2> QED BY <1>7, <1>9, <2>1 DEF StoreOK
<1> QED BY <1>2, <1>8, <1>9, <1>10, <1>11 DEF l

(* Nothing is in the buffer: dropping the writer changes nothing. *)
LEMMA DroppedIs ==
    ASSUME NEW q \in Nat, NEW sh \in Shards(q), NEW z, NEW d \in Dropped(WriterOn(q, sh, z))
    PROVE  d = sh
<1> DEFINE s == WriterOn(q, sh, z)
<1>1. s.shards = sh /\ s.file = q /\ s.buffer = <<>>
  BY DEF WriterOn
<1> HIDE DEF s
<1>2. sh[q] \in Seq(Line) /\ DOMAIN sh = 0 .. q
  BY DEF Shards
<1>3. Written(sh[q], <<>>) = sh[q]
  BY <1>2, WrittenIs, WholeOfNone
<1>4. SetLines(s, q, sh[q]) = sh
  <2>1. SetLines(s, q, sh[q]) = [j \in (0 .. q) \cup {q} |-> IF j = q THEN sh[q] ELSE sh[j]]
    BY <1>1, <1>2 DEF SetLines
  <2>2. (0 .. q) \cup {q} = 0 .. q
    OBVIOUS
  <2>3. SetLines(s, q, sh[q]) = [j \in 0 .. q |-> sh[j]]
    BY <2>1, <2>2
  <2> QED BY <2>3 DEF Shards
<1> QED BY <1>1, <1>3, <1>4 DEF Dropped, s

LEMMA RotateIs ==
    ASSUME Faults = {}, NEW s, StoreOK(s), NEW o \in rotate(s)
    PROVE  o.ok = TRUE /\ StoreOK(o.store) /\ ReadLines(o.store.shards) = ReadLines(s.shards)
<1>0. PICK q \in Nat : \E sh \in Shards(q), z \in Int : s = WriterOn(q, sh, z)
  BY DEF StoreOK
<1>1. PICK sh \in Shards(q), z \in Int : s = WriterOn(q, sh, z)
  BY <1>0
<1>2. s.shards = sh /\ s.seq = q
  BY <1>1 DEF WriterOn
<1> DEFINE th == SetLines([shards |-> sh], q + 1, <<>>)
<1>3. \A d \in Dropped(s) : d = sh
  BY <1>1, DroppedIs
<1>4. o = Outcome(TRUE, WriterOn(q + 1, th, 0))
  <2>1. PICK d \in Dropped(s) :
          o = Outcome(TRUE, [shards |-> SetLines([shards |-> d], s.seq + 1, <<>>),
                             seq |-> s.seq + 1, file |-> s.seq + 1, size |-> 0, buffer |-> <<>>, spoilt |-> s.spoilt])
    BY DEF rotate
  <2>2. d = sh /\ s.spoilt = {}
    BY <1>1, <1>3 DEF WriterOn
  <2> QED BY <1>2, <2>1, <2>2, Zenon DEF WriterOn
<1>5. th = [j \in 0 .. q + 1 |-> IF j = q + 1 THEN <<>> ELSE sh[j]]
  <2>1. DOMAIN [shards |-> sh].shards \cup {q + 1} = 0 .. q + 1
    BY DEF Shards
  <2> QED BY <2>1 DEF SetLines
<1> HIDE DEF th
<1>6. th \in Shards(q + 1) /\ DOMAIN th = 0 .. q + 1
  BY <1>5 DEF Shards
<1>7. ReadLines(th) = ReadLines(sh)
  <2>1. (\A k \in 0 .. q : th[k] = sh[k]) /\ th[q + 1] = <<>>
    BY <1>5
  <2> QED BY <1>6, <2>1, ReadRotated
<1>8. o.ok = TRUE /\ o.store = WriterOn(q + 1, th, 0)
  BY <1>4 DEF Outcome
<1>9. o.store.shards = th
  BY <1>8 DEF WriterOn
<1>10. StoreOK(o.store)
  <2>1. q + 1 \in Nat /\ 0 \in Int
    OBVIOUS
  <2> QED BY <1>6, <1>8, <2>1 DEF StoreOK
<1> QED BY <1>2, <1>7, <1>8, <1>9, <1>10

(* A write goes to the end of what a reader finds, after a rotation too. *)
LEMMA AppendRecordIs ==
    ASSUME Faults = {}, NEW s, StoreOK(s), NEW r \in Rec, NEW o \in append_record_with_hash(s, r)
    PROVE  /\ o.ok = TRUE /\ StoreOK(o.store)
           /\ ReadLines(o.store.shards) = Append(ReadLines(s.shards), WholeLine(r))
<1>1. CASE o \in WriteLine(s, r)
  BY <1>1, WriteLineIs
<1>2. CASE NeedsRotation(s)
  <2>1. \A p \in rotate(s) : p.ok = TRUE
    BY RotateIs
  <2>2. o \in UNION {WriteLine(p.store, r) : p \in {p \in rotate(s) : p.ok}}
    BY <1>2, <2>1 DEF append_record_with_hash
  <2>3. PICK p \in rotate(s) : o \in WriteLine(p.store, r)
    BY <2>2
  <2>4. StoreOK(p.store) /\ ReadLines(p.store.shards) = ReadLines(s.shards)
    BY RotateIs
  <2> QED BY <2>3, <2>4, WriteLineIs
<1> QED BY <1>1, <1>2 DEF append_record_with_hash

(* The writer a recovery mounts. *)
LEMMA MountedIs ==
    ASSUME NEW s, StoreOK(s)
    PROVE  StoreOK(append_with_options(s)) /\ append_with_options(s).shards = s.shards
<1>0. PICK q \in Nat : \E sh \in Shards(q), z \in Int : s = WriterOn(q, sh, z)
  BY DEF StoreOK
<1>1. PICK sh \in Shards(q), z \in Int : s = WriterOn(q, sh, z)
  BY <1>0
<1>2. s.shards = sh
  BY <1>1 DEF WriterOn
<1>3. LastShard(sh) = q
  BY ReaderFindsAll DEF Shards
<1> DEFINE y == IF q = 0 THEN Len(sh[0]) ELSE 0
<1>4. y \in Int
  BY DEF Shards
<1>5. append_with_options(s) = WriterOn(q, sh, y)
  <2>1. s.spoilt = {}
    BY <1>1 DEF WriterOn
  <2> QED BY <1>2, <1>3, <2>1, Zenon DEF append_with_options, WriterOn
<1> HIDE DEF y
<1>6. append_with_options(s).shards = sh
  BY <1>5 DEF WriterOn
<1> QED BY <1>2, <1>4, <1>5, <1>6 DEF StoreOK

-----------------------------------------------------------------------------
(* The log that the facts make. *)

State == [snapshot : Seq(Nat), version : Nat, last_stable : Nat]

RecordAfter(facts, f) ==
    [version_before |-> StateOf(facts).version, fact |-> f,
     prev_hash |-> facts, chain_hash |-> Append(facts, f)]

RecordAt(facts, i) == RecordAfter(SubSeq(facts, 1, i - 1), facts[i])

LinesOf(facts) == [i \in 1 .. Len(facts) |-> WholeLine(RecordAt(facts, i))]

LEMMA PrefixOfAppend ==
    ASSUME NEW S, NEW s \in Seq(S), NEW e \in S
    PROVE  /\ \A i \in 0 .. Len(s) : SubSeq(Append(s, e), 1, i) = SubSeq(s, 1, i)
           /\ SubSeq(s, 1, Len(s)) = s
<1>1. ASSUME NEW i \in 0 .. Len(s) PROVE SubSeq(Append(s, e), 1, i) = SubSeq(s, 1, i)
  <2> DEFINE a == SubSeq(Append(s, e), 1, i)
             b == SubSeq(s, 1, i)
  <2>1. a = [k \in 1 .. i |-> Append(s, e)[k]] /\ b = [k \in 1 .. i |-> s[k]]
    OBVIOUS
  <2>2. \A k \in 1 .. i : Append(s, e)[k] = s[k]
    OBVIOUS
  <2> QED BY <2>1, <2>2
<1> QED BY <1>1

LEMMA LinesOfAppend ==
    ASSUME NEW facts \in Seq(Fact), NEW f \in Fact
    PROVE  LinesOf(Append(facts, f)) = Append(LinesOf(facts), WholeLine(RecordAfter(facts, f)))
<1> DEFINE n == Len(facts)
           more == Append(facts, f)
           l == WholeLine(RecordAfter(facts, f))
           L == LinesOf(facts)
<1>1. n \in Nat /\ Len(more) = n + 1 /\ more[n + 1] = f /\ \A i \in 1 .. n : more[i] = facts[i]
  OBVIOUS
<1>2. \A i \in 0 .. n : SubSeq(more, 1, i) = SubSeq(facts, 1, i)
  BY PrefixOfAppend
<1>3. SubSeq(more, 1, n) = facts
  BY <1>1, <1>2, PrefixOfAppend
<1> HIDE DEF more
<1>4. \A i \in 1 .. n : RecordAt(more, i) = RecordAt(facts, i)
  <2>1. \A i \in 1 .. n : i - 1 \in 0 .. n
    BY <1>1
  <2> QED BY <1>1, <1>2, <2>1 DEF RecordAt
<1>5. RecordAt(more, n + 1) = RecordAfter(facts, f)
  <2>1. n + 1 - 1 = n
    BY <1>1
  <2>2. RecordAt(more, n + 1) = RecordAfter(SubSeq(more, 1, n + 1 - 1), more[n + 1])
    BY DEF RecordAt
  <2> HIDE DEF n
  <2> QED BY <1>1, <1>3, <2>1, <2>2
<1> DEFINE M == LinesOf(more)
           S == {L[i] : i \in 1 .. n} \cup {l}
<1>6. /\ L = [i \in 1 .. n |-> WholeLine(RecordAt(facts, i))]
      /\ M = [i \in 1 .. n + 1 |-> WholeLine(RecordAt(more, i))]
  BY <1>1 DEF LinesOf
<1> HIDE DEF L, M, n
<1>7. \A i \in 1 .. n : M[i] = L[i]
  <2>1. \A i \in 1 .. n : i \in 1 .. n + 1
    BY <1>1
  <2> QED BY <1>4, <1>6, <2>1
<1>8. M[n + 1] = l
  <2>1. n + 1 \in 1 .. n + 1
    BY <1>1
  <2>2. M[n + 1] = WholeLine(RecordAt(more, n + 1))
    BY <1>6, <2>1
  <2> QED BY <1>5, <2>2
<1> HIDE DEF l
<1>9. L \in Seq(S) /\ Len(L) = n /\ l \in S
  <2>1. L \in [1 .. n -> S]
    BY <1>6
  <2>2. L \in Seq(S)
    BY <1>1, <2>1
  <2> QED BY <1>1, <2>1, <2>2
<1>10. M \in Seq(S) /\ Len(M) = n + 1
  <2>1. \A i \in 1 .. n + 1 : M[i] \in S
    <3>1. \A i \in 1 .. n + 1 : i \in 1 .. n \/ i = n + 1
      BY <1>1
    <3> QED BY <1>7, <1>8, <3>1
  <2>2. M = [i \in 1 .. n + 1 |-> M[i]]
    BY <1>6
  <2>3. M \in [1 .. n + 1 -> S]
    BY <2>1, <2>2
  <2> HIDE DEF S
  <2>4. M \in Seq(S)
    BY <1>1, <2>3
  <2> QED BY <1>1, <2>3, <2>4
<1> HIDE DEF S
<1>11. Append(L, l) \in Seq(S) /\ Len(Append(L, l)) = n + 1
  BY <1>9
<1>12. \A i \in 1 .. n + 1 : M[i] = Append(L, l)[i]
  <2>0. (\A i \in 1 .. n : Append(L, l)[i] = L[i]) /\ Append(L, l)[n + 1] = l
    BY <1>9, AppendProperties
  <2>1. ASSUME NEW i \in 1 .. n + 1 PROVE M[i] = Append(L, l)[i]
    <3>1. i \in 1 .. n \/ i = n + 1
      BY <1>1
    <3> QED BY <1>7, <1>8, <2>0, <3>1
  <2> QED BY <2>1
<1>13. M = Append(L, l)
  BY <1>10, <1>11, <1>12, SeqEqual
<1> QED BY <1>13 DEF more, M, L, l

LEMMA ApplyType ==
    ASSUME NEW s \in State, NEW f \in Fact
    PROVE  apply_fact_to_state(s, f) \in State
<1>1. ApplyPayload(s.snapshot, f) \in Seq(Nat)
  <2>1. f.id \in Nat /\ s.snapshot \in Seq(Nat)
    BY DEF Fact, State
  <2>2. <<f.id>> \in Seq(Nat) /\ Append(s.snapshot, f.id) \in Seq(Nat)
    BY <2>1
  <2>3. CASE f.kind = "StateTransition"
    BY <2>2, <2>3 DEF ApplyPayload
  <2>4. CASE f.kind = "PayloadUpdate"
    BY <2>2, <2>4 DEF ApplyPayload
  <2>5. CASE f.kind # "StateTransition" /\ f.kind # "PayloadUpdate"
    BY <2>1, <2>5 DEF ApplyPayload
  <2> QED BY <2>3, <2>4, <2>5
<1>2. s.version \in Nat /\ s.last_stable \in Nat
  BY DEF State
<1>3. (IF f.kind \in Advancing THEN s.version + 1 ELSE s.version) \in Nat
  BY <1>2
<1>4. (IF f.kind = "Stable" THEN s.version ELSE s.last_stable) \in Nat
  BY <1>2
<1> QED BY <1>1, <1>3, <1>4 DEF apply_fact_to_state, State

-----------------------------------------------------------------------------
(* The log on a disk that works: what a reader finds are the records of the *)
(* facts hashed so far, and the state is the one they lead to.              *)

Events == {"fact", "fault", "crash", "rotation", "compaction"}

LogInv ==
    /\ mode \in {"up", "down"}
    /\ StoreOK(store)
    /\ last_hash \in Seq(Fact)
    /\ ReadLines(store.shards) = LinesOf(last_hash)
    /\ state \in State /\ state = StateOf(last_hash)
    /\ budget \in [Events -> Nat] /\ budget["fact"] <= MaxFacts

(* What the disk tells of the chain. *)
LEMMA DiskTells ==
    ASSUME LogInv
    PROVE  /\ Readable(store.shards)
           /\ OnDisk = [i \in 1 .. Len(last_hash) |-> RecordAt(last_hash, i)]
           /\ FactsOf(OnDisk) = last_hash
           /\ RecoveredHash(OnDisk) = last_hash
<1> DEFINE n == Len(last_hash)
           ls == ReadLines(store.shards)
<1>1. n \in Nat /\ last_hash = [i \in 1 .. n |-> last_hash[i]]
  BY DEF LogInv
<1>2. ls = [i \in 1 .. n |-> WholeLine(RecordAt(last_hash, i))]
  BY DEF LogInv, LinesOf
<1>3. DOMAIN ls = 1 .. n /\ \A i \in 1 .. n : ls[i] = WholeLine(RecordAt(last_hash, i))
  BY <1>2
<1>4. \A r : WholeLine(r).form = "whole" /\ WholeLine(r).rec = r
  BY DEF WholeLine
<1>5. Readable(store.shards)
  BY <1>3, <1>4 DEF Readable
<1>6. OnDisk = [i \in 1 .. n |-> RecordAt(last_hash, i)]
  <2>1. OnDisk = [i \in 1 .. n |-> ls[i].rec]
    BY <1>3 DEF OnDisk, read_wal_with_hash
  <2>2. \A i \in 1 .. n : ls[i].rec = RecordAt(last_hash, i)
    BY <1>3, <1>4
  <2> HIDE DEF ls
  <2> QED BY <2>1, <2>2
<1>7. \A i \in 1 .. n : /\ RecordAt(last_hash, i).fact = last_hash[i]
                        /\ RecordAt(last_hash, i).chain_hash
                             = Append(SubSeq(last_hash, 1, i - 1), last_hash[i])
  BY DEF RecordAt, RecordAfter
<1>8. FactsOf(OnDisk) = last_hash
  <2>1. FactsOf(OnDisk) = [i \in 1 .. n |-> RecordAt(last_hash, i).fact]
    BY <1>6 DEF FactsOf
  <2>2. FactsOf(OnDisk) = [i \in 1 .. n |-> last_hash[i]]
    BY <1>7, <2>1
  <2> QED BY <1>1, <2>2
<1>9. RecoveredHash(OnDisk) = last_hash
  <2>1. Len(OnDisk) = n
    <3>1. OnDisk = [i \in 1 .. n |-> OnDisk[i]]
      BY <1>6
    <3> HIDE DEF n
    <3> QED BY <1>1, <3>1, LengthOf
  <2>2. CASE n = 0
    <3>1. last_hash = <<>>
      BY <2>2 DEF LogInv
    <3>2. OnDisk = <<>>
      BY <1>6, <2>2
    <3> QED BY <3>1, <3>2 DEF RecoveredHash, genesis
  <2>3. CASE n # 0
    <3>1. n \in 1 .. n
      BY <1>1, <2>3
    <3>2. OnDisk # <<>> /\ OnDisk[n] = RecordAt(last_hash, n)
      <4>1. Len(<<>>) = 0
        OBVIOUS
      <4>2. OnDisk # <<>>
        BY <2>1, <2>3, <4>1
      <4>3. OnDisk[n] = RecordAt(last_hash, n)
        BY <1>6, <3>1
      <4> QED BY <4>2, <4>3
    <3>3. Append(SubSeq(last_hash, 1, n - 1), last_hash[n]) = last_hash
      BY <3>1 DEF LogInv
    <3>4. RecoveredHash(OnDisk) = OnDisk[n].chain_hash
      BY <2>1, <3>2 DEF RecoveredHash, Last
    <3> QED BY <1>7, <3>1, <3>2, <3>3, <3>4
  <2> QED BY <2>2, <2>3
<1> QED BY <1>5, <1>6, <1>8, <1>9

LEMMA LogInit == ASSUME Init PROVE LogInv
<1> DEFINE sh == [k \in {0} |-> <<>>]
<1>1. mode = "up" /\ last_hash = <<>> /\ state = EmptyState /\ store = WriterOn(0, sh, 0)
      /\ budget \in Budgets
  BY DEF Init, genesis, create_with_options, WriterOn
<1>2. sh \in Shards(0) /\ sh[0] = <<>> /\ DOMAIN sh = 0 .. 0
  <2>1. 0 .. 0 = {0}
    OBVIOUS
  <2>2. <<>> \in Seq(Line)
    OBVIOUS
  <2> QED BY <2>1, <2>2 DEF Shards
<1> HIDE DEF sh
<1>3. StoreOK(store) /\ store.shards = sh
  <2>1. 0 \in Nat /\ 0 \in Int
    OBVIOUS
  <2>2. StoreOK(store)
    BY <1>1, <1>2, <2>1, Zenon DEF StoreOK
  <2>3. store.shards = sh
    BY <1>1 DEF WriterOn
  <2> QED BY <2>2, <2>3
<1>4. ReadLines(sh) = <<>>
  <2>1. ReadLines(sh) = FlattenSeq(InOrder(sh, 0))
    BY <1>2, ReaderFindsAll
  <2>2. Len(InOrder(sh, 0)) = 1 /\ InOrder(sh, 0)[1] = sh[0]
    <3>1. Len(InOrder(sh, 0)) = 0 + 1 /\ \A i \in 1 .. 0 + 1 : InOrder(sh, 0)[i] = sh[i - 1]
      BY InOrderIs
    <3> QED BY <3>1
  <2> QED BY <1>2, <2>1, <2>2, FlattenOne
<1>5. LinesOf(<<>>) = <<>>
  <2>1. Len(<<>>) = 0 /\ 1 .. 0 = {}
    OBVIOUS
  <2> QED BY <2>1 DEF LinesOf
<1>6. EmptyState \in State
  BY DEF EmptyState, State
<1>7. budget \in [Events -> Nat] /\ budget["fact"] <= MaxFacts
  BY <1>1, FactsLogAssumption DEF Events
<1>8. <<>> \in Seq(Fact)
  OBVIOUS
<1> QED BY <1>1, <1>3, <1>4, <1>5, <1>6, <1>7, <1>8, StateOfNone DEF LogInv

LEMMA SpendKeeps ==
    ASSUME NEW E, Spend(E), budget \in [Events -> Nat], budget["fact"] <= MaxFacts
    PROVE  budget' \in [Events -> Nat] /\ budget'["fact"] <= MaxFacts
<1>1. /\ \A e \in E : budget[e] > 0
      /\ budget' = [e \in Events |-> IF e \in E THEN budget[e] - 1 ELSE budget[e]]
  BY DEF Spend
<1>2. \A e \in Events : budget[e] \in Nat
  OBVIOUS
<1>3. \A e \in Events : (IF e \in E THEN budget[e] - 1 ELSE budget[e]) \in Nat
  BY <1>1, <1>2
<1>4. "fact" \in Events /\ MaxFacts \in Nat
  BY FactsLogAssumption DEF Events
<1>5. budget'["fact"] = IF "fact" \in E THEN budget["fact"] - 1 ELSE budget["fact"]
  BY <1>1, <1>4
<1> QED BY <1>1, <1>2, <1>3, <1>4, <1>5

(* What one append does, on a disk that works. *)
LEMMA AppendIs ==
    ASSUME Faults = {}, LogInv, append
    PROVE  \E f \in Fact :
              /\ mode = "up" /\ mode' = "up" /\ compacted' = compacted
              /\ StoreOK(store') /\ ReadLines(store'.shards) = LinesOf(Append(last_hash, f))
              /\ UpdateMemory(f)
              /\ budget' \in [Events -> Nat] /\ budget'["fact"] <= MaxFacts
<1>1. PICK k \in Kinds : AppendFact(NewFact(k))
  BY DEF append
<1> DEFINE f == NewFact(k)
<1>2. mode = "up" /\ mode' = "up" /\ compacted' = compacted
  BY DEF append
<1>3. PICK o \in append_record_with_hash(store, Record(f)) :
          /\ store' = o.store /\ Spend(Cost(o.ok))
          /\ \/ o.ok /\ UpdateMemory(f)
             \/ ~o.ok /\ UNCHANGED <<history, state, last_hash, past>>
  BY <1>1 DEF AppendFact
<1>4. f \in Fact
  <2>1. budget["fact"] \in Nat /\ budget["fact"] <= MaxFacts /\ MaxFacts \in Nat
    BY FactsLogAssumption DEF LogInv, Events
  <2>2. next_id \in Nat
    BY <2>1 DEF next_id
  <2>3. k \in AllKinds
    BY FactsLogAssumption
  <2> QED BY <2>2, <2>3 DEF NewFact, Fact
<1> HIDE DEF f
<1>5. Record(f) = RecordAfter(last_hash, f)
  BY DEF Record, RecordAfter, chain_step, LogInv
<1>6. Record(f) \in Rec
  <2>1. state.version \in Nat /\ last_hash \in Seq(Fact) /\ Append(last_hash, f) \in Seq(Fact)
    BY <1>4 DEF LogInv, State
  <2> QED BY <1>4, <2>1 DEF Record, Rec, chain_step
<1>7. /\ o.ok = TRUE /\ StoreOK(o.store)
      /\ ReadLines(o.store.shards) = Append(ReadLines(store.shards), WholeLine(Record(f)))
  BY <1>6, AppendRecordIs DEF LogInv
<1>8. ReadLines(store'.shards) = LinesOf(Append(last_hash, f))
  BY <1>3, <1>4, <1>5, <1>7, LinesOfAppend DEF LogInv
<1>9. budget' \in [Events -> Nat] /\ budget'["fact"] <= MaxFacts
  BY <1>3, SpendKeeps DEF LogInv
<1>10. UpdateMemory(f)
  BY <1>3, <1>7
<1>11. StoreOK(store')
  BY <1>3, <1>7
<1> QED BY <1>2, <1>4, <1>8, <1>9, <1>10, <1>11, Zenon

LEMMA AppendKeeps ==
    ASSUME Faults = {}, LogInv, append
    PROVE  /\ LogInv'
           /\ \E f \in Fact : last_hash' = Append(last_hash, f)
<1>1. PICK f \in Fact :
         /\ mode' = "up"
         /\ StoreOK(store') /\ ReadLines(store'.shards) = LinesOf(Append(last_hash, f))
         /\ UpdateMemory(f)
         /\ budget' \in [Events -> Nat] /\ budget'["fact"] <= MaxFacts
  BY AppendIs, Zenon
<1>2. last_hash' = Append(last_hash, f) /\ state' = apply_fact_to_state(state, f)
  BY <1>1 DEF UpdateMemory, chain_step
<1>3. last_hash \in Seq(Fact) /\ last_hash' \in Seq(Fact)
  BY <1>2 DEF LogInv
<1>4. state' \in State
  BY <1>2, ApplyType DEF LogInv
<1>5. state' = StateOf(last_hash')
  BY <1>2, <1>3, StateOfAppend DEF LogInv
<1>6. LogInv'
  BY <1>1, <1>2, <1>3, <1>4, <1>5 DEF LogInv
<1> QED BY <1>2, <1>6

LEMMA RotateKeeps ==
    ASSUME Faults = {}, LogInv, rotate_wal
    PROVE  LogInv' /\ UNCHANGED <<mode, last_hash, state, history, compacted, past>>
<1>1. PICK o \in rotate(store) :
          store' = o.store /\ Spend(IF o.ok THEN {"rotation"} ELSE {"rotation", "fault"})
  BY DEF rotate_wal
<1>2. StoreOK(store') /\ ReadLines(store'.shards) = ReadLines(store.shards)
  BY <1>1, RotateIs DEF LogInv
<1>3. budget' \in [Events -> Nat] /\ budget'["fact"] <= MaxFacts
  BY <1>1, SpendKeeps DEF LogInv
<1>4. UNCHANGED <<mode, last_hash, state, history, compacted, past>>
  BY DEF rotate_wal, memory
<1> QED BY <1>2, <1>3, <1>4 DEF LogInv

LEMMA CompactKeeps ==
    ASSUME LogInv, compact
    PROVE  LogInv' /\ UNCHANGED <<mode, last_hash, state, store, past>>
<1>1. UNCHANGED <<mode, last_hash, state, store, past>> /\ Spend({"compaction"})
  BY DEF compact
<1>2. budget' \in [Events -> Nat] /\ budget'["fact"] <= MaxFacts
  BY <1>1, SpendKeeps DEF LogInv
<1> QED BY <1>1, <1>2 DEF LogInv

LEMMA CrashKeeps ==
    ASSUME LogInv, Crash
    PROVE  LogInv' /\ mode' = "down" /\ UNCHANGED <<last_hash, state, history, compacted, past>>
<1>1. /\ mode' = "down" /\ Spend({"crash"})
      /\ UNCHANGED <<last_hash, state, history, compacted, past>>
  BY DEF Crash, memory
<1>2. PICK d \in Dropped(store) : store' = [store EXCEPT !.shards = d, !.buffer = <<>>]
  BY DEF Crash
<1>3. PICK q \in Nat : \E sh \in Shards(q), z \in Int : store = WriterOn(q, sh, z)
  BY DEF LogInv, StoreOK
<1>4. PICK sh \in Shards(q), z \in Int : store = WriterOn(q, sh, z)
  BY <1>3
<1>5. d = sh
  BY <1>2, <1>4, DroppedIs
<1>6. store' = store
  <2> DEFINE w == WriterOn(q, sh, z)
  <2>1. [w EXCEPT !.shards = sh, !.buffer = <<>>]
          = [[w EXCEPT !.shards = sh] EXCEPT !.buffer = <<>>]
    BY DEF WriterOn
  <2> DEFINE none == <<>>
  <2>2. w = StoreOf(q, sh, z, none)
    BY Zenon DEF WriterOn, StoreOf
  <2>3. [w EXCEPT !.shards = sh] = w /\ [w EXCEPT !.buffer = none] = w
    <3> HIDE DEF w, none
    <3> QED BY <2>2, SetShards, SetBuffer
  <2> QED BY <1>2, <1>4, <1>5, <2>1, <2>3, Zenon
<1>7. budget' \in [Events -> Nat] /\ budget'["fact"] <= MaxFacts
  BY <1>1, SpendKeeps DEF LogInv
<1> QED BY <1>1, <1>6, <1>7 DEF LogInv

LEMMA RecoverKeeps ==
    ASSUME LogInv, recover_with_options
    PROVE  LogInv' /\ mode = "down" /\ mode' = "up" /\ UNCHANGED <<last_hash, state, past>>
<1>1. /\ mode = "down" /\ mode' = "up" /\ UNCHANGED <<past, budget>>
      /\ state' = replay_wal_records(OnDisk) /\ last_hash' = RecoveredHash(OnDisk)
      /\ store' = append_with_options(store)
  BY DEF recover_with_options, OnDisk
<1>2. FactsOf(OnDisk) = last_hash /\ RecoveredHash(OnDisk) = last_hash
  BY DiskTells
<1>3. state' = state
  BY <1>1, <1>2 DEF replay_wal_records, StateOf, LogInv
<1>4. StoreOK(store') /\ store'.shards = store.shards
  BY <1>1, MountedIs DEF LogInv
<1> QED BY <1>1, <1>2, <1>3, <1>4 DEF LogInv

LEMMA HealthyStep ==
    ASSUME Faults = {}, LogInv, [HealthyNext]_vars
    PROVE  /\ LogInv'
           /\ last_hash' = last_hash \/ \E f \in Fact : last_hash' = Append(last_hash, f)
           /\ mode = "down" /\ mode' = "up" => state' = state /\ last_hash' = last_hash
<1>1. CASE append
  BY <1>1, AppendKeeps DEF append
<1>2. CASE rotate_wal
  BY <1>2, RotateKeeps
<1>3. CASE compact
  BY <1>3, CompactKeeps
<1>4. CASE Crash
  BY <1>4, CrashKeeps
<1>5. CASE recover_with_options
  BY <1>5, RecoverKeeps
<1>6. CASE UNCHANGED vars
  BY <1>6 DEF vars, memory, LogInv
<1> QED BY <1>1, <1>2, <1>3, <1>4, <1>5, <1>6 DEF HealthyNext

(* The chain of a healthy log is what it has hashed so far, up or down. *)
LEMMA ChainIsHash == LogInv => ChainOf = last_hash
BY DiskTells DEF ChainOf

(* For every kind and number of facts, every size of a shard and every      *)
(* number of rotations, compactions, crashes and recoveries, on a disk that *)
(* works: the log implements the abstract audit chain, which only ever has  *)
(* a fact put at its end.                                                   *)
THEOREM ChainIsDurable == ASSUME Faults = {} PROVE HealthySpec => Durable
<1>1. Init => LogInv
  BY LogInit
<1>2. LogInv /\ [HealthyNext]_vars => LogInv'
  BY HealthyStep
<1>3. HealthySpec => []LogInv
  BY <1>1, <1>2, PTL DEF HealthySpec
<1> DEFINE IsHash == ChainOf = last_hash
<1>4. LogInv => IsHash
  BY ChainIsHash
<1>5. Init => Chain!Init
  BY <1>1, <1>4 DEF Init, Chain!Init, genesis
<1>6. ASSUME LogInv, IsHash, IsHash', [HealthyNext]_vars
      PROVE  [Chain!AppendFact]_ChainOf
  <2>1. CASE last_hash' = last_hash
    BY <1>6, <2>1
  <2>2. ASSUME NEW f \in Fact, last_hash' = Append(last_hash, f)
        PROVE  Chain!AppendFact
    <3>1. last_hash \in Seq(Fact)
      BY <1>6 DEF LogInv
    <3>2. last_hash' # <<>> /\ Last(last_hash') = f /\ Front(last_hash') = last_hash
      BY <2>2, <3>1 DEF Last, Front
    <3> QED BY <1>6, <2>2, <3>2 DEF Chain!AppendFact, Chain!Last, Chain!Front, Last, Front
  <2> QED BY <1>6, <2>1, <2>2, HealthyStep
<1> QED BY <1>3, <1>4, <1>5, <1>6, PTL DEF HealthySpec, Durable, Chain!Spec

(* ... and a recovery puts back payload, version, last stable version and   *)
(* the hash the chain goes on from, exactly as they were at the crash.      *)
THEOREM RecoveryIsExact == ASSUME Faults = {} PROVE HealthySpec => RecoveryRestores
<1>1. Init => LogInv
  BY LogInit
<1>2. LogInv /\ [HealthyNext]_vars => LogInv'
  BY HealthyStep
<1>3. HealthySpec => []LogInv
  BY <1>1, <1>2, PTL DEF HealthySpec
<1>4. LogInv /\ [HealthyNext]_vars =>
          [mode = "down" /\ mode' = "up" => state' = state /\ last_hash' = last_hash]_vars
  BY HealthyStep
<1> QED BY <1>3, <1>4, PTL DEF HealthySpec, RecoveryRestores

-----------------------------------------------------------------------------
(* The payload alone, as the rewinding operations compute it. *)
PayloadOf(facts) == FoldLeft(ApplyPayload, <<>>, facts)

PayloadFolds(facts, n, F) ==
    F = [t \in SUBSET (1 .. n) |->
           IF t = {} THEN <<>>
           ELSE ApplyPayload(F[t \ {Max(t)}], facts[Max(t)])]

LEMMA PayloadFoldsExist ==
    ASSUME NEW facts, NEW N \in Nat
    PROVE  \E F : PayloadFolds(facts, N, F)
<1> DEFINE Bad == {n \in Nat : ~\E F : PayloadFolds(facts, n, F)}
<1>1. SUFFICES ASSUME Bad # {} PROVE FALSE
  OBVIOUS
<1>2. PICK n \in Bad : \A m \in Bad : n <= m
  BY <1>1, LeastNatural
<1>3. n # 0
  <2> DEFINE G == [t \in SUBSET (1 .. 0) |-> <<>>]
  <2>1. \A t \in SUBSET (1 .. 0) : t = {}
    OBVIOUS
  <2>2. PayloadFolds(facts, 0, G)
    BY <2>1 DEF PayloadFolds
  <2> QED BY <2>2
<1>4. n - 1 \in Nat /\ n - 1 \notin Bad
  BY <1>2, <1>3
<1>5. PICK F : PayloadFolds(facts, n - 1, F)
  BY <1>4
<1> DEFINE G == [t \in SUBSET (1 .. n) |->
                   IF n \in t THEN ApplyPayload(F[t \ {n}], facts[n]) ELSE F[t]]
<1>6. \A t \in SUBSET (1 .. n - 1) :
          F[t] = IF t = {} THEN <<>>
                 ELSE ApplyPayload(F[t \ {Max(t)}], facts[Max(t)])
  BY <1>5 DEF PayloadFolds
<1>7. ASSUME NEW t \in SUBSET (1 .. n)
      PROVE  G[t] = IF t = {} THEN <<>>
                    ELSE ApplyPayload(G[t \ {Max(t)}], facts[Max(t)])
  <2>1. t \ {Max(t)} \in SUBSET (1 .. n)
    OBVIOUS
  <2>2. CASE n \in t
    <3>1. Max(t) = n /\ t # {}
      BY <1>3, <2>2, MaxOfInterval
    <3>2. G[t] = ApplyPayload(F[t \ {n}], facts[n])
      BY <2>2
    <3>3. G[t \ {n}] = F[t \ {n}]
      <4>1. t \ {n} \in SUBSET (1 .. n) /\ n \notin t \ {n}
        OBVIOUS
      <4> QED BY <4>1
    <3> HIDE DEF G
    <3> QED BY <3>1, <3>2, <3>3
  <2>3. CASE n \notin t
    <3>1. t \in SUBSET (1 .. n - 1)
      BY <2>3
    <3>2. G[t] = F[t] /\ G[t \ {Max(t)}] = F[t \ {Max(t)}]
      BY <2>1, <2>3
    <3> HIDE DEF G
    <3> QED BY <1>6, <3>1, <3>2
  <2> QED BY <2>2, <2>3
<1>8. G = [t \in SUBSET (1 .. n) |-> G[t]]
  OBVIOUS
<1> HIDE DEF G
<1>9. PayloadFolds(facts, n, G)
  BY <1>7, <1>8 DEF PayloadFolds
<1> QED BY <1>9

LEMMA PayloadSteps ==
    ASSUME NEW facts, NEW n \in Nat, DOMAIN facts = 1 .. n
    PROVE  \E F : /\ F[{}] = <<>> /\ PayloadOf(facts) = F[1 .. n]
                  /\ \A i \in 1 .. n :
                        F[1 .. i] = ApplyPayload(F[1 .. i - 1], facts[i])
<1> DEFINE F == CHOOSE G : PayloadFolds(facts, n, G)
<1>1. PayloadOf(facts) = F[1 .. n]
  BY DEF PayloadOf, FoldLeft, MapThenFoldSet, PayloadFolds
<1>2. PayloadFolds(facts, n, F)
  BY PayloadFoldsExist
<1> HIDE DEF F
<1>3. \A t \in SUBSET (1 .. n) :
          F[t] = IF t = {} THEN <<>>
                 ELSE ApplyPayload(F[t \ {Max(t)}], facts[Max(t)])
  BY <1>2 DEF PayloadFolds
<1>4. F[{}] = <<>>
  BY <1>3
<1>5. ASSUME NEW i \in 1 .. n
      PROVE  F[1 .. i] = ApplyPayload(F[1 .. i - 1], facts[i])
  <2>1. 1 .. i \in SUBSET (1 .. n) /\ 1 .. i # {} /\ (1 .. i) \ {i} = 1 .. i - 1
    <3>1. 1 .. i \in SUBSET (1 .. n) /\ i \in 1 .. i
      OBVIOUS
    <3>2. (1 .. i) \ {i} = 1 .. i - 1
      OBVIOUS
    <3> QED BY <3>1, <3>2
  <2>2. Max(1 .. i) = i
    BY MaxOfInterval
  <2> QED BY <1>3, <2>1, <2>2
<1> QED BY <1>1, <1>4, <1>5

LEMMA PayloadOfNone == PayloadOf(<<>>) = <<>>
<1>1. PICK F : F[{}] = <<>> /\ PayloadOf(<<>>) = F[1 .. 0]
  <2>1. DOMAIN <<>> = 1 .. 0
    OBVIOUS
  <2> QED BY <2>1, PayloadSteps
<1>2. 1 .. 0 = {}
  OBVIOUS
<1> QED BY <1>1, <1>2

LEMMA PayloadOfAppend ==
    ASSUME NEW S, NEW facts \in Seq(S), NEW f \in S
    PROVE  PayloadOf(Append(facts, f)) = ApplyPayload(PayloadOf(facts), f)
<1> DEFINE n == Len(facts)
           more == Append(facts, f)
<1>1. /\ n \in Nat /\ DOMAIN facts = 1 .. n /\ DOMAIN more = 1 .. n + 1
      /\ \A i \in 1 .. n : more[i] = facts[i]
      /\ more[n + 1] = f
  OBVIOUS
<1> HIDE DEF n, more
<1>2. PICK F : /\ F[{}] = <<>> /\ PayloadOf(facts) = F[1 .. n]
               /\ \A i \in 1 .. n : F[1 .. i] = ApplyPayload(F[1 .. i - 1], facts[i])
  BY <1>1, PayloadSteps
<1>3. PICK G : /\ G[{}] = <<>> /\ PayloadOf(more) = G[1 .. n + 1]
               /\ \A i \in 1 .. n + 1 : G[1 .. i] = ApplyPayload(G[1 .. i - 1], more[i])
  <2>1. n + 1 \in Nat
    BY <1>1
  <2> QED BY <1>1, <2>1, PayloadSteps
<1> DEFINE Bad == {i \in 0 .. n : G[1 .. i] # F[1 .. i]}
<1>4. Bad = {}
  <2>1. SUFFICES ASSUME Bad # {} PROVE FALSE
    OBVIOUS
  <2>2. PICK i \in Bad : \A j \in Bad : i <= j
    <3>1. Bad \subseteq Nat
      BY <1>1
    <3> QED BY <2>1, <3>1, LeastNatural
  <2>3. i # 0
    <3>1. 1 .. 0 = {}
      OBVIOUS
    <3> QED BY <1>2, <1>3, <3>1
  <2>4. i \in 1 .. n /\ i \in 1 .. n + 1 /\ i - 1 \in 0 .. n /\ i - 1 \notin Bad
    BY <1>1, <2>2, <2>3
  <2>5. G[1 .. i - 1] = F[1 .. i - 1]
    BY <2>4
  <2> QED BY <1>1, <1>2, <1>3, <2>4, <2>5
<1>5. G[1 .. n] = F[1 .. n]
  BY <1>1, <1>4
<1>6. G[1 .. n + 1] = ApplyPayload(G[1 .. n], more[n + 1])
  <2> DEFINE m == n + 1
  <2>1. m \in 1 .. m /\ m - 1 = n
    BY <1>1
  <2>2. \A i \in 1 .. m : G[1 .. i] = ApplyPayload(G[1 .. i - 1], more[i])
    BY <1>3
  <2> HIDE DEF m
  <2>3. G[1 .. m] = ApplyPayload(G[1 .. m - 1], more[m])
    BY <2>1, <2>2
  <2> QED BY <2>1, <2>3 DEF m
<1> QED BY <1>1, <1>2, <1>3, <1>5, <1>6 DEF more

-----------------------------------------------------------------------------
(* The states a chain went through. *)

StateAt(facts, i) == StateOf(SubSeq(facts, 1, i))

LEMMA StateAtStep ==
    ASSUME NEW facts \in Seq(Fact)
    PROVE  /\ StateAt(facts, 0) = EmptyState
           /\ StateAt(facts, Len(facts)) = StateOf(facts)
           /\ \A i \in 1 .. Len(facts) :
                 StateAt(facts, i) = apply_fact_to_state(StateAt(facts, i - 1), facts[i])
<1>1. SubSeq(facts, 1, 0) = <<>> /\ SubSeq(facts, 1, Len(facts)) = facts
  OBVIOUS
<1>2. ASSUME NEW i \in 1 .. Len(facts)
      PROVE  StateAt(facts, i) = apply_fact_to_state(StateAt(facts, i - 1), facts[i])
  <2>1. /\ SubSeq(facts, 1, i - 1) \in Seq(Fact) /\ facts[i] \in Fact
        /\ SubSeq(facts, 1, i) = Append(SubSeq(facts, 1, i - 1), facts[i])
    OBVIOUS
  <2> QED BY <2>1, StateOfAppend DEF StateAt
<1> QED BY <1>1, <1>2, StateOfNone DEF StateAt

LEMMA StateAtType ==
    ASSUME NEW facts \in Seq(Fact)
    PROVE  \A i \in 0 .. Len(facts) : StateAt(facts, i) \in State
<1> DEFINE Bad == {i \in 0 .. Len(facts) : StateAt(facts, i) \notin State}
<1>1. SUFFICES ASSUME Bad # {} PROVE FALSE
  OBVIOUS
<1>2. PICK i \in Bad : \A j \in Bad : i <= j
  <2>1. Bad \subseteq Nat
    OBVIOUS
  <2> QED BY <1>1, <2>1, LeastNatural
<1>3. i # 0
  <2>1. EmptyState \in State
    BY DEF EmptyState, State
  <2>2. StateAt(facts, 0) \in State
    BY <2>1, StateAtStep
  <2> QED BY <2>2
<1>4. i - 1 \in 0 .. Len(facts) /\ i - 1 \notin Bad /\ i \in 1 .. Len(facts)
  BY <1>2, <1>3
<1>5. StateAt(facts, i - 1) \in State /\ facts[i] \in Fact
  BY <1>4
<1>6. StateAt(facts, i) \in State
  BY <1>4, <1>5, StateAtStep, ApplyType
<1> QED BY <1>6

LEMMA PayloadIsSnapshot ==
    ASSUME NEW facts \in Seq(Fact)
    PROVE  \A i \in 0 .. Len(facts) : PayloadOf(SubSeq(facts, 1, i)) = StateAt(facts, i).snapshot
<1> DEFINE Bad == {i \in 0 .. Len(facts) : PayloadOf(SubSeq(facts, 1, i)) # StateAt(facts, i).snapshot}
<1>1. SUFFICES ASSUME Bad # {} PROVE FALSE
  OBVIOUS
<1>2. PICK i \in Bad : \A j \in Bad : i <= j
  <2>1. Bad \subseteq Nat
    OBVIOUS
  <2> QED BY <1>1, <2>1, LeastNatural
<1>3. i # 0
  <2>1. SubSeq(facts, 1, 0) = <<>>
    OBVIOUS
  <2>2. EmptyState.snapshot = <<>>
    BY DEF EmptyState
  <2>3. PayloadOf(SubSeq(facts, 1, 0)) = StateAt(facts, 0).snapshot
    BY <2>1, <2>2, StateAtStep, PayloadOfNone
  <2> QED BY <2>3
<1>4. i - 1 \in 0 .. Len(facts) /\ i - 1 \notin Bad /\ i \in 1 .. Len(facts)
  BY <1>2, <1>3
<1>5. /\ SubSeq(facts, 1, i - 1) \in Seq(Fact) /\ facts[i] \in Fact
      /\ SubSeq(facts, 1, i) = Append(SubSeq(facts, 1, i - 1), facts[i])
  BY <1>4
<1>6. PayloadOf(SubSeq(facts, 1, i)) = ApplyPayload(PayloadOf(SubSeq(facts, 1, i - 1)), facts[i])
  BY <1>5, PayloadOfAppend
<1>7. StateAt(facts, i).snapshot = ApplyPayload(StateAt(facts, i - 1).snapshot, facts[i])
  BY <1>4, StateAtStep DEF apply_fact_to_state
<1>8. PayloadOf(SubSeq(facts, 1, i - 1)) = StateAt(facts, i - 1).snapshot
  BY <1>4
<1> QED BY <1>6, <1>7, <1>8

(* A fact either advances the version by one or leaves version and payload. *)
LEMMA OneStep ==
    ASSUME NEW facts \in Seq(Fact), NEW i \in 1 .. Len(facts)
    PROVE  /\ StateAt(facts, i - 1).version \in Nat /\ StateAt(facts, i).version \in Nat
           /\ facts[i].kind \in Advancing =>
                 StateAt(facts, i).version = StateAt(facts, i - 1).version + 1
           /\ facts[i].kind \notin Advancing =>
                 /\ StateAt(facts, i).version = StateAt(facts, i - 1).version
                 /\ StateAt(facts, i).snapshot = StateAt(facts, i - 1).snapshot
<1>1. i - 1 \in 0 .. Len(facts) /\ i \in 0 .. Len(facts)
  OBVIOUS
<1>2. StateAt(facts, i - 1) \in State /\ StateAt(facts, i) \in State
  BY <1>1, StateAtType
<1>3. StateAt(facts, i) = apply_fact_to_state(StateAt(facts, i - 1), facts[i])
  BY StateAtStep
<1>4. facts[i].kind \notin Advancing =>
          ApplyPayload(StateAt(facts, i - 1).snapshot, facts[i]) = StateAt(facts, i - 1).snapshot
  BY DEF ApplyPayload, Advancing
<1> QED BY <1>2, <1>3, <1>4 DEF apply_fact_to_state, State

(* The version never goes back, and as long as it stays no fact advances    *)
(* it and the payload stays as well.                                        *)
LEMMA VersionsGrow ==
    ASSUME NEW facts \in Seq(Fact), NEW i \in 0 .. Len(facts)
    PROVE  \A j \in i .. Len(facts) :
              /\ StateAt(facts, i).version <= StateAt(facts, j).version
              /\ StateAt(facts, i).version = StateAt(facts, j).version =>
                    StateAt(facts, i).snapshot = StateAt(facts, j).snapshot
              /\ (\A k \in i + 1 .. j : facts[k].kind \notin Advancing) =>
                    StateAt(facts, i).version = StateAt(facts, j).version
<1> DEFINE V(j) == StateAt(facts, j).version
           P(j) == StateAt(facts, j).snapshot
           Good(j) == /\ V(i) <= V(j) /\ (V(i) = V(j) => P(i) = P(j))
                      /\ (\A k \in i + 1 .. j : facts[k].kind \notin Advancing) => V(i) = V(j)
           Bad == {j \in i .. Len(facts) : ~Good(j)}
<1>1. SUFFICES ASSUME Bad # {} PROVE FALSE
  OBVIOUS
<1>2. PICK j \in Bad : \A k \in Bad : j <= k
  <2>1. Bad \subseteq Nat
    OBVIOUS
  <2> QED BY <1>1, <2>1, LeastNatural
<1>3. V(i) \in Nat
  BY StateAtType DEF State
<1>4. j # i
  BY <1>3
<1>5. j - 1 \in i .. Len(facts) /\ j - 1 \notin Bad /\ j \in 1 .. Len(facts)
  BY <1>2, <1>4
<1>6. Good(j - 1)
  BY <1>5
<1>7. /\ V(j - 1) \in Nat /\ V(j) \in Nat
      /\ facts[j].kind \in Advancing => V(j) = V(j - 1) + 1
      /\ facts[j].kind \notin Advancing => V(j) = V(j - 1) /\ P(j) = P(j - 1)
  BY <1>5, OneStep
<1>8. \A k \in i + 1 .. j - 1 : k \in i + 1 .. j
  OBVIOUS
<1>9. j \in i + 1 .. j
  BY <1>4
<1> HIDE DEF V, P
<1>10. Good(j)
  BY <1>3, <1>6, <1>7, <1>8, <1>9
<1> QED BY <1>10

-----------------------------------------------------------------------------
(* Rewinding: what the loops compute on records that tell of a chain. *)

VersionAt(facts, i) == StateAt(facts, i).version
PayloadAt(facts, i) == StateAt(facts, i).snapshot

(* The records h tell of every fact of the chain, and of its version.       *)
Tells(h, facts) ==
    /\ \E S : h \in Seq(S)
    /\ Len(h) = Len(facts)
    /\ \A i \in 1 .. Len(facts) :
          h[i].fact = facts[i] /\ h[i].version_before = VersionAt(facts, i - 1)

LEMMA VersionAtZero ==
    ASSUME NEW facts \in Seq(Fact)
    PROVE  VersionAt(facts, 0) = 0 /\ PayloadAt(facts, 0) = <<>>
<1>1. EmptyState.version = 0 /\ EmptyState.snapshot = <<>>
  BY DEF EmptyState
<1> QED BY <1>1, StateAtStep DEF VersionAt, PayloadAt

LEMMA AfterIsVersion ==
    ASSUME NEW facts \in Seq(Fact), NEW h, Tells(h, facts), NEW i \in 0 .. Len(facts)
    PROVE  VersionAfter(h, i) = VersionAt(facts, i)
<1> DEFINE adv == {j \in 1 .. i : h[j].fact.kind \in Advancing}
<1>1. \A j \in 1 .. i : h[j].fact = facts[j]
  BY DEF Tells
<1>2. CASE adv = {}
  <2>1. VersionAfter(h, i) = 0
    BY <1>2 DEF VersionAfter
  <2>2. \A k \in 0 + 1 .. i : facts[k].kind \notin Advancing
    BY <1>1, <1>2
  <2>3. 0 \in 0 .. Len(facts) /\ i \in 0 .. Len(facts)
    OBVIOUS
  <2>4. StateAt(facts, 0).version = StateAt(facts, i).version
    BY <2>2, <2>3, VersionsGrow
  <2> QED BY <2>1, <2>4, VersionAtZero DEF VersionAt
<1>3. CASE adv # {}
  <2>1. PICK m \in adv : \A x \in adv : x <= m
    <3>1. adv \subseteq Nat /\ i \in Nat /\ \A x \in adv : x <= i
      OBVIOUS
    <3> QED BY <1>3, <3>1, GreatestBelow
  <2>2. Max(adv) = m
    <3>1. \A x \in adv : x \in Nat
      OBVIOUS
    <3> HIDE DEF adv
    <3> QED BY <2>1, <3>1 DEF Max
  <2>3. VersionAfter(h, i) = h[m].version_before + 1
    BY <1>3, <2>2 DEF VersionAfter
  <2>4. m \in 1 .. Len(facts) /\ m \in 0 .. Len(facts) /\ i \in m .. Len(facts)
    BY <2>1
  <2>5. facts[m].kind \in Advancing
    BY <1>1, <2>1
  <2>6. StateAt(facts, m).version = StateAt(facts, m - 1).version + 1
    BY <2>4, <2>5, OneStep
  <2>7. h[m].version_before = VersionAt(facts, m - 1)
    BY <2>4 DEF Tells
  <2>8. \A k \in m + 1 .. i : facts[k].kind \notin Advancing
    <3>1. SUFFICES ASSUME NEW k \in m + 1 .. i, facts[k].kind \in Advancing PROVE FALSE
      OBVIOUS
    <3>2. k \in 1 .. i
      BY <2>1
    <3>3. k \in adv
      BY <1>1, <3>1, <3>2
    <3>4. k <= m
      BY <2>1, <3>3
    <3> HIDE DEF adv
    <3> QED BY <2>4, <3>4
  <2>9. StateAt(facts, m).version = StateAt(facts, i).version
    BY <2>4, <2>8, VersionsGrow
  <2> HIDE DEF adv
  <2> QED BY <2>3, <2>6, <2>7, <2>9 DEF VersionAt
<1> QED BY <1>2, <1>3

(* Counting the facts that advance the version gives the version. *)
LEMMA CountIsVersion ==
    ASSUME NEW facts \in Seq(Fact), NEW h, Tells(h, facts)
    PROVE  \A i \in 0 .. Len(facts) : Counted(h, i) = VersionAt(facts, i)
<1> DEFINE A(i) == {j \in 1 .. i : h[j].fact.kind \in Advancing}
           Bad == {i \in 0 .. Len(facts) : Counted(h, i) # VersionAt(facts, i)}
<1>1. SUFFICES ASSUME Bad # {} PROVE FALSE
  OBVIOUS
<1>2. PICK i \in Bad : \A j \in Bad : i <= j
  <2>1. Bad \subseteq Nat
    OBVIOUS
  <2> QED BY <1>1, <2>1, LeastNatural
<1>3. i # 0
  <2>1. A(0) = {}
    OBVIOUS
  <2>2. Counted(h, 0) = 0
    BY <2>1, FS_EmptySet DEF Counted
  <2>3. Counted(h, 0) = VersionAt(facts, 0)
    BY <2>2, VersionAtZero
  <2> QED BY <2>3
<1>4. i - 1 \in 0 .. Len(facts) /\ i - 1 \notin Bad /\ i \in 1 .. Len(facts)
  BY <1>2, <1>3
<1>5. Counted(h, i - 1) = VersionAt(facts, i - 1)
  BY <1>4
<1>6. h[i].fact = facts[i]
  BY <1>4 DEF Tells
<1>7. IsFiniteSet(A(i - 1)) /\ i \notin A(i - 1)
  <2>1. A(i - 1) \subseteq 1 .. i - 1 /\ IsFiniteSet(1 .. i - 1)
    BY <1>4, FS_Interval
  <2>2. i \notin A(i - 1)
    BY <1>4
  <2> QED BY <2>1, <2>2, FS_Subset
<1>8. /\ StateAt(facts, i - 1).version \in Nat
      /\ facts[i].kind \in Advancing =>
            StateAt(facts, i).version = StateAt(facts, i - 1).version + 1
      /\ facts[i].kind \notin Advancing =>
            StateAt(facts, i).version = StateAt(facts, i - 1).version
  BY <1>4, OneStep
<1>9. Counted(h, i) = VersionAt(facts, i)
  <2>1. CASE facts[i].kind \in Advancing
    <3>1. A(i) = A(i - 1) \cup {i}
      BY <1>4, <1>6, <2>1
    <3>2. Cardinality(A(i)) = Cardinality(A(i - 1)) + 1
      <4> HIDE DEF A
      <4> QED BY <1>7, <3>1, FS_AddElement
    <3> QED BY <1>5, <1>8, <2>1, <3>2 DEF Counted, VersionAt
  <2>2. CASE facts[i].kind \notin Advancing
    <3>1. A(i) = A(i - 1)
      BY <1>4, <1>6, <2>2
    <3> QED BY <1>5, <1>8, <2>2, <3>1 DEF Counted, VersionAt
  <2> QED BY <2>1, <2>2
<1> QED BY <1>9

(* The facts of the first k records of h. *)
LEMMA ReplayedIs ==
    ASSUME NEW facts \in Seq(Fact), NEW h, Tells(h, facts), NEW k \in 0 .. Len(facts)
    PROVE  /\ FactsOf(SubSeq(h, 1, k)) = SubSeq(facts, 1, k)
           /\ Replayed(h, k) = PayloadAt(facts, k)
<1>1. PICK S : h \in Seq(S)
  BY DEF Tells
<1>2. /\ DOMAIN SubSeq(h, 1, k) = 1 .. k /\ Len(SubSeq(h, 1, k)) = k
      /\ \A i \in 1 .. k : SubSeq(h, 1, k)[i] = h[i]
  BY <1>1 DEF Tells
<1>3. /\ SubSeq(facts, 1, k) \in Seq(Fact) /\ Len(SubSeq(facts, 1, k)) = k
      /\ \A i \in 1 .. k : SubSeq(facts, 1, k)[i] = facts[i]
  OBVIOUS
<1>4. \A i \in 1 .. k : h[i].fact = facts[i] /\ facts[i] \in Fact
  BY DEF Tells
<1>5. FactsOf(SubSeq(h, 1, k)) = [i \in 1 .. k |-> facts[i]]
  BY <1>2, <1>4 DEF FactsOf
<1>6. SubSeq(facts, 1, k) = [i \in 1 .. k |-> facts[i]]
  OBVIOUS
<1>7. FactsOf(SubSeq(h, 1, k)) = SubSeq(facts, 1, k)
  BY <1>5, <1>6
<1> QED BY <1>7, PayloadIsSnapshot DEF Replayed, PayloadOf, PayloadAt

(* All three ways back find the payload the chain had at a version. *)
LEMMA WaysBack ==
    ASSUME NEW facts \in Seq(Fact), NEW h, Tells(h, facts), NEW i \in 0 .. Len(facts)
    PROVE  /\ Rewindable(h, VersionAt(facts, i))
           /\ rewind_payload(h, VersionAt(facts, i)) = PayloadAt(facts, i)
           /\ rewind(h, VersionAt(facts, i)) = PayloadAt(facts, i)
<1> DEFINE n == Len(facts)
           t == VersionAt(facts, i)
           hits == {j \in 1 .. n : VersionAt(facts, j) = t}
<1>1. n \in Nat /\ t \in Nat /\ DOMAIN h = 1 .. n /\ Len(h) = n
  BY StateAtType DEF Tells, VersionAt, State
<1>2. CASE t = 0
  <2>1. 0 \in 0 .. Len(facts) /\ i \in 0 .. Len(facts)
    OBVIOUS
  <2>2. PayloadAt(facts, i) = PayloadAt(facts, 0)
    BY <1>2, <2>1, VersionsGrow, VersionAtZero DEF VersionAt, PayloadAt
  <2>3. PayloadAt(facts, i) = <<>>
    BY <2>2, VersionAtZero
  <2> HIDE DEF t
  <2> QED BY <1>2, <2>3 DEF Rewindable, rewind_payload, rewind, t
<1>3. CASE t # 0
  <2>1. i \in hits
    BY <1>3, VersionAtZero
  <2>2. PICK m \in hits : \A x \in hits : m <= x
    <3>1. hits \subseteq Nat /\ hits # {}
      BY <2>1
    <3> QED BY <3>1, LeastNatural
  <2>3. Min(hits) = m
    <3>1. \A x \in hits : x \in Nat
      OBVIOUS
    <3> HIDE DEF hits
    <3> QED BY <2>2, <3>1 DEF Min
  <2>4. {j \in DOMAIN h : VersionAfter(h, j) = t} = hits
    <3>1. \A j \in 1 .. n : VersionAfter(h, j) = VersionAt(facts, j)
      BY AfterIsVersion
    <3> QED BY <1>1, <3>1
  <2>5. {j \in DOMAIN h : Counted(h, j) = t} = hits
    <3>1. \A j \in 1 .. n : Counted(h, j) = VersionAt(facts, j)
      BY CountIsVersion
    <3> QED BY <1>1, <3>1
  <2>6. m \in 0 .. Len(facts) /\ VersionAt(facts, m) = t /\ m <= i
    BY <2>1, <2>2
  <2>7. PayloadAt(facts, m) = PayloadAt(facts, i)
    <3>1. i \in m .. Len(facts)
      BY <2>6
    <3> QED BY <2>6, <3>1, VersionsGrow DEF VersionAt, PayloadAt
  <2>8. hits # {} /\ VersionAfter(h, m) = t /\ Replayed(h, m) = PayloadAt(facts, i)
    BY <2>1, <2>6, <2>7, AfterIsVersion, ReplayedIs
  <2> HIDE DEF hits, t
  <2>9. RewindStop(h, t) = m
    BY <2>3, <2>4, <2>8 DEF RewindStop
  <2>10. Rewindable(h, t) /\ rewind_payload(h, t) = PayloadAt(facts, i)
    BY <1>1, <1>3, <2>8, <2>9 DEF Rewindable, rewind_payload
  <2>11. rewind(h, t) = PayloadAt(facts, i)
    BY <1>3, <2>3, <2>5, <2>8 DEF rewind
  <2> QED BY <2>10, <2>11 DEF t
<1> QED BY <1>2, <1>3

-----------------------------------------------------------------------------
(***************************************************************************)
(* What memory keeps besides the state: the history tells of the chain     *)
(* from some fact on, every record dropped before it is of a version up to *)
(* the point of compaction, and past has the payloads of all versions the  *)
(* chain went through.                                                     *)
(***************************************************************************)
Entry == [version_before : Nat, fact : Fact]

TellsFrom(h, facts, c) ==
    /\ h \in Seq(Entry) /\ Len(h) = Len(facts) - c
    /\ \A i \in 1 .. Len(h) :
          h[i].fact = facts[c + i] /\ h[i].version_before = VersionAt(facts, c + i - 1)

HistoryFrom(c) ==
    /\ TellsFrom(history, last_hash, c)
    /\ compacted = <<>> => c = 0
    /\ \A i \in 1 .. c : VersionAt(last_hash, i - 1) <= PointOfCompaction
    /\ PointOfCompaction \in Nat /\ PointOfCompaction <= state.last_stable

HistoryInv == mode = "up" => \E c \in 0 .. Len(last_hash) : HistoryFrom(c)

PastInv ==
    /\ DOMAIN past = {VersionAt(last_hash, i) : i \in 0 .. Len(last_hash)}
    /\ \A i \in 0 .. Len(last_hash) : past[VersionAt(last_hash, i)] = PayloadAt(last_hash, i)

KeptInv == LogInv /\ state.last_stable <= state.version /\ HistoryInv /\ PastInv

(* The states of a chain stay when a fact is put at its end. *)
LEMMA StatesStay ==
    ASSUME NEW facts \in Seq(Fact), NEW f \in Fact
    PROVE  /\ \A i \in 0 .. Len(facts) : StateAt(Append(facts, f), i) = StateAt(facts, i)
           /\ Append(facts, f) \in Seq(Fact) /\ Len(Append(facts, f)) = Len(facts) + 1
<1>1. /\ Append(facts, f) \in Seq(Fact) /\ Len(Append(facts, f)) = Len(facts) + 1
  OBVIOUS
<1> QED BY <1>1, PrefixOfAppend, ZenonT(60) DEF StateAt

LEMMA KeptInit == ASSUME Init PROVE KeptInv
<1>1. /\ mode = "up" /\ history = <<>> /\ state = EmptyState /\ last_hash = <<>>
      /\ compacted = <<>> /\ past = [v \in {0} |-> <<>>]
  BY DEF Init, genesis
<1>2. LogInv
  BY LogInit
<1>3. state.last_stable = 0 /\ state.version = 0
  BY <1>1 DEF EmptyState
<1>4. <<>> \in Seq(Entry) /\ <<>> \in Seq(Fact) /\ Len(<<>>) = 0 /\ 0 .. 0 = {0}
  OBVIOUS
<1>5. PointOfCompaction = 0
  BY <1>1 DEF PointOfCompaction
<1>6. HistoryFrom(0)
  BY <1>1, <1>3, <1>4, <1>5 DEF HistoryFrom, TellsFrom
<1>7. HistoryInv
  BY <1>1, <1>4, <1>6 DEF HistoryInv
<1>8. VersionAt(last_hash, 0) = 0 /\ PayloadAt(last_hash, 0) = <<>>
  BY <1>1, <1>4, VersionAtZero
<1>9. PastInv
  BY <1>1, <1>4, <1>8 DEF PastInv
<1> QED BY <1>2, <1>3, <1>7, <1>9 DEF KeptInv

LEMMA PastGrows ==
    ASSUME NEW f \in Fact, LogInv, LogInv', PastInv, UpdateMemory(f)
    PROVE  PastInv'
<1> DEFINE n == Len(last_hash)
           V(i) == VersionAt(last_hash, i)
           W(i) == VersionAt(last_hash', i)
<1>1. /\ last_hash' = Append(last_hash, f) /\ last_hash \in Seq(Fact) /\ last_hash' \in Seq(Fact)
      /\ n \in Nat /\ Len(last_hash') = n + 1
  BY DEF UpdateMemory, chain_step, LogInv
<1>2. past' = [u \in DOMAIN past \cup {state'.version} |->
                  IF u = state'.version THEN state'.snapshot ELSE past[u]]
  BY DEF UpdateMemory
<1>3. \A i \in 0 .. n : W(i) = V(i) /\ PayloadAt(last_hash', i) = PayloadAt(last_hash, i)
  BY <1>1, StatesStay DEF VersionAt, PayloadAt
<1>4. W(n + 1) = state'.version /\ PayloadAt(last_hash', n + 1) = state'.snapshot
  BY <1>1, StateAtStep DEF LogInv, VersionAt, PayloadAt
<1>5. DOMAIN past = {V(i) : i \in 0 .. n}
  BY DEF PastInv
<1>6. \A i \in 0 .. n : past[V(i)] = PayloadAt(last_hash, i)
  BY DEF PastInv
<1>7. \A i \in 0 .. n : W(i) = W(n + 1) => PayloadAt(last_hash', i) = PayloadAt(last_hash', n + 1)
  <2>1. SUFFICES ASSUME NEW i \in 0 .. n, W(i) = W(n + 1)
                 PROVE  PayloadAt(last_hash', i) = PayloadAt(last_hash', n + 1)
    OBVIOUS
  <2> DEFINE m == n + 1
  <2>2. i \in 0 .. Len(last_hash') /\ m \in i .. Len(last_hash')
    BY <1>1
  <2> HIDE DEF m
  <2>3. W(i) = W(m) => PayloadAt(last_hash', i) = PayloadAt(last_hash', m)
    BY <1>1, <2>2, VersionsGrow DEF VersionAt, PayloadAt
  <2> QED BY <2>1, <2>3 DEF m
<1> HIDE DEF V, W, n
<1>8. 0 .. n + 1 = (0 .. n) \cup {n + 1}
  BY <1>1
<1>9. DOMAIN past' = {W(i) : i \in 0 .. n + 1}
  <2>1. {W(i) : i \in 0 .. n + 1} = {W(i) : i \in 0 .. n} \cup {W(n + 1)}
    BY <1>8
  <2>2. {W(i) : i \in 0 .. n} = {V(i) : i \in 0 .. n}
    BY <1>3
  <2> QED BY <1>2, <1>4, <1>5, <2>1, <2>2
<1>10. ASSUME NEW i \in 0 .. n + 1
       PROVE  past'[W(i)] = PayloadAt(last_hash', i)
  <2>1. CASE W(i) = state'.version
    <3>1. past'[W(i)] = state'.snapshot
      BY <1>2, <2>1
    <3>2. PayloadAt(last_hash', i) = state'.snapshot
      BY <1>4, <1>7, <1>8, <2>1
    <3> QED BY <3>1, <3>2
  <2>2. CASE W(i) # state'.version
    <3>1. i \in 0 .. n
      BY <1>4, <1>8, <2>2
    <3>2. W(i) = V(i) /\ V(i) \in DOMAIN past
      BY <1>3, <1>5, <3>1
    <3>3. past'[W(i)] = past[V(i)]
      BY <1>2, <2>2, <3>2
    <3> QED BY <1>3, <1>6, <3>1, <3>3
  <2> QED BY <2>1, <2>2
<1> QED BY <1>1, <1>9, <1>10 DEF PastInv, W

LEMMA AtTheEnd ==
    ASSUME NEW S, NEW s \in Seq(S), NEW e \in S
    PROVE  /\ Append(s, e) \in Seq(S) /\ Len(Append(s, e)) = Len(s) + 1
           /\ \A i \in 1 .. Len(s) : Append(s, e)[i] = s[i]
           /\ Append(s, e)[Len(s) + 1] = e
           /\ Len(s) \in Nat
OBVIOUS

LEMMA HistoryGrows ==
    ASSUME NEW f \in Fact, LogInv, LogInv', NEW c \in 0 .. Len(last_hash), HistoryFrom(c),
           UpdateMemory(f), compacted' = compacted, state.last_stable <= state.version
    PROVE  HistoryFrom(c)' /\ c \in 0 .. Len(last_hash') /\ state'.last_stable <= state'.version
<1> DEFINE e == [version_before |-> state.version, fact |-> f]
<1>1. /\ last_hash' = Append(last_hash, f) /\ last_hash \in Seq(Fact) /\ last_hash' \in Seq(Fact)
      /\ Len(last_hash') = Len(last_hash) + 1 /\ Len(last_hash) \in Nat
  BY DEF UpdateMemory, chain_step, LogInv
<1>2. history' = Append(history, e) /\ state' = apply_fact_to_state(state, f)
  BY DEF UpdateMemory
<1>3. state \in State /\ e \in Entry
  BY DEF LogInv, State, Entry
<1>4. /\ \A i \in 0 .. Len(last_hash) : VersionAt(last_hash', i) = VersionAt(last_hash, i)
      /\ VersionAt(last_hash, Len(last_hash)) = state.version
  BY <1>1, StatesStay, StateAtStep DEF LogInv, VersionAt
<1>5. e.fact = f /\ e.version_before = state.version
  OBVIOUS
<1> HIDE DEF e
<1>6. /\ history \in Seq(Entry) /\ Len(history) = Len(last_hash) - c
      /\ \A i \in 1 .. Len(history) :
            /\ history[i].fact = last_hash[c + i]
            /\ history[i].version_before = VersionAt(last_hash, c + i - 1)
  BY DEF HistoryFrom, TellsFrom
<1>7. /\ history' \in Seq(Entry) /\ Len(history') = Len(history) + 1
      /\ \A i \in 1 .. Len(history) : history'[i] = history[i]
      /\ history'[Len(history) + 1] = e
      /\ Len(history) \in Nat
  <2>1. /\ Append(history, e) \in Seq(Entry) /\ Len(Append(history, e)) = Len(history) + 1
        /\ \A i \in 1 .. Len(history) : Append(history, e)[i] = history[i]
        /\ Append(history, e)[Len(history) + 1] = e
        /\ Len(history) \in Nat
    <3>1. history \in Seq(Entry) /\ e \in Entry
      BY <1>3, <1>6
    <3> QED BY <3>1, AtTheEnd
  <2> QED BY <1>2, <2>1
<1>8. ASSUME NEW i \in 1 .. Len(history')
      PROVE  /\ history'[i].fact = last_hash'[c + i]
             /\ history'[i].version_before = VersionAt(last_hash', c + i - 1)
  <2>1. CASE i \in 1 .. Len(history)
    <3>1. c + i \in 1 .. Len(last_hash) /\ c + i - 1 \in 0 .. Len(last_hash)
      BY <1>1, <1>6, <2>1
    <3>2. last_hash'[c + i] = last_hash[c + i]
      BY <1>1, <3>1
    <3> QED BY <1>4, <1>6, <1>7, <2>1, <3>1, <3>2
  <2>2. CASE i = Len(history) + 1
    <3>1. c + i = Len(last_hash) + 1 /\ c + i - 1 = Len(last_hash) /\ c + i - 1 \in 0 .. Len(last_hash)
      BY <1>1, <1>6, <2>2
    <3>2. last_hash'[c + i] = f
      BY <1>1, <3>1
    <3>3. VersionAt(last_hash', c + i - 1) = state.version
      BY <1>4, <3>1
    <3> QED BY <1>5, <1>7, <2>2, <3>2, <3>3
  <2>3. i \in 1 .. Len(history) \/ i = Len(history) + 1
    BY <1>7
  <2> QED BY <2>1, <2>2, <2>3
<1>9. TellsFrom(history', last_hash', c)
  <2>1. Len(history') = Len(last_hash') - c
    BY <1>1, <1>6, <1>7
  <2> QED BY <1>7, <1>8, <2>1 DEF TellsFrom
<1>10. state'.last_stable <= state'.version /\ state.last_stable <= state'.last_stable
  BY <1>2, <1>3 DEF apply_fact_to_state, State
<1>11. /\ PointOfCompaction' = PointOfCompaction
       /\ PointOfCompaction \in Nat /\ PointOfCompaction <= state.last_stable
  BY DEF PointOfCompaction, HistoryFrom
<1>12. state.last_stable \in Nat /\ state'.last_stable \in Nat
  BY DEF LogInv, State
<1>13. PointOfCompaction <= state'.last_stable
  BY <1>10, <1>11, <1>12
<1>14. \A i \in 1 .. c : VersionAt(last_hash', i - 1) <= PointOfCompaction
  <2>1. \A i \in 1 .. c : i - 1 \in 0 .. Len(last_hash)
    BY <1>1
  <2> QED BY <1>4, <2>1 DEF HistoryFrom
<1>15. c \in 0 .. Len(last_hash')
  BY <1>1
<1>16. compacted' = <<>> => c = 0
  BY DEF HistoryFrom
<1> QED BY <1>9, <1>10, <1>11, <1>13, <1>14, <1>15, <1>16 DEF HistoryFrom

LEMMA Behind ==
    ASSUME NEW S, NEW s \in Seq(S), NEW k \in 0 .. Len(s)
    PROVE  /\ SubSeq(s, k + 1, Len(s)) \in Seq(S)
           /\ Len(SubSeq(s, k + 1, Len(s))) = Len(s) - k
           /\ \A i \in 1 .. Len(s) - k : SubSeq(s, k + 1, Len(s))[i] = s[k + i]
<1>1. Len(s) \in Nat /\ k + 1 \in 1 .. Len(s) + 1 /\ Len(s) \in (k + 1) - 1 .. Len(s)
  OBVIOUS
<1> QED BY <1>1, SubSeqProperties

(* compact() drops records of versions up to the last stable one only. *)
LEMMA CompactCuts ==
    ASSUME KeptInv, compact
    PROVE  \E c \in 0 .. Len(last_hash) : HistoryFrom(c)'
<1> DEFINE later == {i \in DOMAIN history : history[i].version_before > state.last_stable}
           k == SplitPoint
<1>1. PICK c \in 0 .. Len(last_hash) : HistoryFrom(c)
  BY DEF KeptInv, HistoryInv, compact
<1>2. /\ history' = SubSeq(history, k + 1, Len(history)) /\ UNCHANGED <<last_hash, state>>
      /\ compacted' = <<[version |-> state.last_stable, snapshot |-> state.snapshot,
                         last_hash |-> last_hash, count |-> k]>>
  BY DEF compact
<1>3. /\ history \in Seq(Entry) /\ Len(history) = Len(last_hash) - c /\ Len(history) \in Nat
      /\ DOMAIN history = 1 .. Len(history) /\ Len(last_hash) \in Nat
      /\ \A i \in 1 .. Len(history) :
            /\ history[i].fact = last_hash[c + i]
            /\ history[i].version_before = VersionAt(last_hash, c + i - 1)
  <2>1. TellsFrom(history, last_hash, c)
    BY <1>1, Zenon DEF HistoryFrom
  <2>2. /\ history \in Seq(Entry) /\ Len(history) = Len(last_hash) - c
        /\ \A i \in 1 .. Len(history) :
              /\ history[i].fact = last_hash[c + i]
              /\ history[i].version_before = VersionAt(last_hash, c + i - 1)
    BY <2>1, Zenon DEF TellsFrom
  <2>3. last_hash \in Seq(Fact)
    BY Zenon DEF KeptInv, LogInv
  <2>4. Len(history) \in Nat /\ DOMAIN history = 1 .. Len(history)
    BY <2>2
  <2>5. Len(last_hash) \in Nat
    BY <2>3
  <2> QED BY <2>2, <2>4, <2>5, Zenon
<1>4. state.last_stable \in Nat
  BY DEF KeptInv, LogInv, State
<1>5. k \in 0 .. Len(history) /\ \A i \in 1 .. k : i \notin later
  <2>1. CASE later = {}
    BY <1>3, <2>1, SMTT(60) DEF SplitPoint
  <2>2. CASE later # {}
    <3>1. later \subseteq Nat
      BY <1>3
    <3>2. PICK m \in later : \A x \in later : m <= x
      BY <2>2, <3>1, LeastNatural
    <3>3. Min(later) = m
      <4>1. \A x \in later : x \in Nat
        BY <3>1
      <4> HIDE DEF later
      <4> QED BY <3>2, <4>1 DEF Min
    <3>4. k = m - 1 /\ m \in 1 .. Len(history)
      BY <1>3, <2>2, <3>2, <3>3 DEF SplitPoint
    <3> HIDE DEF later, k
    <3> QED BY <1>3, <3>2, <3>4
  <2> QED BY <2>1, <2>2
<1> HIDE DEF k
<1>a. k \in Nat /\ c + k \in 0 .. Len(last_hash)
  BY <1>3, <1>5
<1>b. PICK d \in 0 .. Len(last_hash) : d = c + k
  BY <1>a
<1>6. d \in 0 .. Len(last_hash) /\ k \in Nat /\ d = c + k
  BY <1>a, <1>b
<1>7. /\ history' \in Seq(Entry) /\ Len(history') = Len(history) - k
      /\ \A i \in 1 .. Len(history) - k : history'[i] = history[k + i]
  <2> DEFINE rest == SubSeq(history, k + 1, Len(history))
  <2>1. /\ rest \in Seq(Entry) /\ Len(rest) = Len(history) - k
        /\ \A i \in 1 .. Len(history) - k : rest[i] = history[k + i]
    BY <1>3, <1>5, Behind
  <2> QED BY <1>2, <2>1
<1>8. TellsFrom(history', last_hash, d)
  <2>1. Len(history') = Len(last_hash) - d
    BY <1>3, <1>6, <1>7
  <2>2. ASSUME NEW i \in 1 .. Len(history')
        PROVE  /\ history'[i].fact = last_hash[d + i]
               /\ history'[i].version_before = VersionAt(last_hash, d + i - 1)
    <3> DEFINE j == k + i
    <3>0. Len(history) \in Nat /\ Len(history') = Len(history) - k /\ c \in Nat
      BY <1>3, <1>7
    <3>1. /\ j \in 1 .. Len(history) /\ i \in 1 .. Len(history) - k
          /\ c + j = d + i /\ c + j - 1 = d + i - 1
      BY <1>6, <3>0
    <3>2. history'[i] = history[j]
      BY <1>7, <3>1
    <3> HIDE DEF j
    <3> QED BY <1>3, <3>1, <3>2
  <2> QED BY <1>7, <2>1, <2>2 DEF TellsFrom
<1>9. PointOfCompaction' = state.last_stable /\ compacted' # <<>>
  BY <1>2 DEF PointOfCompaction
<1>10. ASSUME NEW i \in 1 .. d PROVE VersionAt(last_hash, i - 1) <= state.last_stable
  <2>1. CASE i \in 1 .. c
    <3>1. VersionAt(last_hash, i - 1) <= PointOfCompaction
      BY <1>1, <2>1 DEF HistoryFrom
    <3>2. PointOfCompaction \in Nat /\ PointOfCompaction <= state.last_stable
      BY <1>1 DEF HistoryFrom
    <3>3. i - 1 \in 0 .. Len(last_hash)
      BY <1>6
    <3>4. VersionAt(last_hash, i - 1) \in Nat
      BY <3>3, StateAtType DEF VersionAt, State, KeptInv, LogInv
    <3> QED BY <1>4, <3>1, <3>2, <3>4
  <2>2. CASE i \notin 1 .. c
    <3> DEFINE j == i - c
    <3>1. j \in 1 .. k /\ j \in 1 .. Len(history) /\ c + j - 1 = i - 1
      BY <1>3, <1>5, <1>6, <2>2
    <3>2. ~(history[j].version_before > state.last_stable)
      BY <1>3, <1>5, <3>1
    <3>3. history[j].version_before = VersionAt(last_hash, i - 1)
      <4> HIDE DEF j
      <4> QED BY <1>3, <3>1
    <3>4. i - 1 \in 0 .. Len(last_hash)
      BY <1>6
    <3>5. VersionAt(last_hash, i - 1) \in Nat
      BY <3>4, StateAtType DEF VersionAt, State, KeptInv, LogInv
    <3> HIDE DEF j
    <3> QED BY <1>4, <3>2, <3>3, <3>5
  <2> QED BY <2>1, <2>2
<1>11. HistoryFrom(d)'
  <2>1. \A i \in 1 .. d : VersionAt(last_hash', i - 1) <= PointOfCompaction'
    BY <1>2, <1>9, <1>10
  <2>2. PointOfCompaction' \in Nat /\ PointOfCompaction' <= state'.last_stable
    BY <1>2, <1>4, <1>9
  <2>3. TellsFrom(history', last_hash', d)
    BY <1>2, <1>8
  <2> QED BY <1>9, <2>1, <2>2, <2>3 DEF HistoryFrom
<1> QED BY <1>6, <1>11

(* Recovery puts the whole history back. *)
LEMMA RecoveryRefills ==
    ASSUME KeptInv, LogInv', recover_with_options
    PROVE  HistoryFrom(0)' /\ 0 \in 0 .. Len(last_hash')
<1> DEFINE n == Len(last_hash)
           E(i) == [version_before |-> VersionAt(last_hash, i - 1), fact |-> last_hash[i]]
<1>1. last_hash' = last_hash /\ state' = state /\ last_hash \in Seq(Fact) /\ n \in Nat
  BY RecoverKeeps DEF KeptInv, LogInv
<1>2. OnDisk = [i \in 1 .. n |-> RecordAt(last_hash, i)]
  BY DiskTells DEF KeptInv
<1>3. /\ compacted' = <<>>
      /\ history' = [i \in DOMAIN OnDisk |-> [version_before |-> OnDisk[i].version_before,
                                              fact |-> OnDisk[i].fact]]
  BY DEF recover_with_options, OnDisk
<1>4. \A i \in 1 .. n : /\ RecordAt(last_hash, i).fact = last_hash[i]
                        /\ RecordAt(last_hash, i).version_before = VersionAt(last_hash, i - 1)
  BY DEF RecordAt, RecordAfter, VersionAt, StateAt
<1>5. \A i \in 1 .. n : /\ OnDisk[i].fact = last_hash[i]
                        /\ OnDisk[i].version_before = VersionAt(last_hash, i - 1)
  BY <1>2, <1>4
<1>6. DOMAIN OnDisk = 1 .. n
  BY <1>2
<1>7. history' = [i \in 1 .. n |-> E(i)]
  BY <1>3, <1>5, <1>6
<1>8. \A i \in 1 .. n : E(i) \in Entry
  <2>1. ASSUME NEW i \in 1 .. n PROVE E(i) \in Entry
    <3>1. i - 1 \in 0 .. Len(last_hash) /\ last_hash[i] \in Fact
      BY <1>1
    <3>2. VersionAt(last_hash, i - 1) \in Nat
      BY <1>1, <3>1, StateAtType DEF VersionAt, State
    <3> QED BY <3>1, <3>2 DEF Entry
  <2> QED BY <2>1
<1>9. \A i \in 1 .. n : /\ E(i).fact = last_hash[0 + i]
                        /\ E(i).version_before = VersionAt(last_hash, 0 + i - 1)
  OBVIOUS
<1> HIDE DEF E, n
<1>10. history' \in Seq(Entry) /\ Len(history') = n
  <2>1. history' \in [1 .. n -> Entry]
    BY <1>7, <1>8
  <2>2. history' \in Seq(Entry)
    BY <1>1, <2>1
  <2>3. history' = [i \in 1 .. n |-> history'[i]]
    BY <1>7
  <2> QED BY <1>1, <2>2, <2>3, LengthOf
<1>11. TellsFrom(history', last_hash', 0)
  <2>1. n = n - 0
    BY <1>1
  <2> QED BY <1>1, <1>7, <1>9, <1>10, <2>1 DEF TellsFrom, n
<1>12. PointOfCompaction' = 0
  BY <1>3 DEF PointOfCompaction
<1>13. state'.last_stable \in Nat
  BY DEF LogInv, State
<1> QED BY <1>1, <1>3, <1>11, <1>12, <1>13 DEF HistoryFrom, n

LEMMA KeptStep ==
    ASSUME Faults = {}, KeptInv, [HealthyNext]_vars
    PROVE  KeptInv'
<1>1. LogInv /\ LogInv'
  BY HealthyStep DEF KeptInv
<1>2. CASE append
  <2>1. PICK f \in Fact :
          mode = "up" /\ mode' = "up" /\ compacted' = compacted /\ UpdateMemory(f)
    BY <1>1, <1>2, AppendIs, Zenon
  <2>2. PICK c \in 0 .. Len(last_hash) : HistoryFrom(c)
    BY <2>1 DEF KeptInv, HistoryInv
  <2>3. HistoryFrom(c)' /\ c \in 0 .. Len(last_hash') /\ state'.last_stable <= state'.version
    BY <1>1, <2>1, <2>2, HistoryGrows DEF KeptInv
  <2>4. PastInv'
    BY <1>1, <2>1, PastGrows DEF KeptInv
  <2>5. HistoryInv'
    BY <2>3 DEF HistoryInv
  <2> QED BY <1>1, <2>3, <2>4, <2>5 DEF KeptInv
<1>3. CASE rotate_wal
  <2>1. UNCHANGED <<mode, last_hash, state, history, compacted, past>>
    BY <1>1, <1>3, RotateKeeps
  <2> QED BY <1>1, <2>1
      DEF KeptInv, HistoryInv, HistoryFrom, PointOfCompaction, PastInv
<1>4. CASE compact
  <2>1. UNCHANGED <<mode, last_hash, state, past>>
    BY <1>1, <1>4, CompactKeeps
  <2>2. PICK c \in 0 .. Len(last_hash) : HistoryFrom(c)'
    BY <1>4, CompactCuts
  <2>3. HistoryInv'
    BY <2>1, <2>2 DEF HistoryInv
  <2> QED BY <1>1, <2>1, <2>3 DEF KeptInv, PastInv
<1>5. CASE Crash
  <2>1. mode' = "down" /\ UNCHANGED <<last_hash, state, past>>
    BY <1>1, <1>5, CrashKeeps
  <2> QED BY <1>1, <2>1 DEF KeptInv, HistoryInv, PastInv
<1>6. CASE recover_with_options
  <2>1. UNCHANGED <<last_hash, state, past>>
    BY <1>1, <1>6, RecoverKeeps
  <2>2. HistoryFrom(0)' /\ 0 \in 0 .. Len(last_hash')
    BY <1>1, <1>6, RecoveryRefills
  <2>3. HistoryInv'
    BY <2>2 DEF HistoryInv
  <2> QED BY <1>1, <2>1, <2>3 DEF KeptInv, PastInv
<1>7. CASE UNCHANGED vars
  BY <1>1, <1>7
  DEF vars, memory, KeptInv, HistoryInv, HistoryFrom, PointOfCompaction, PastInv
<1> QED BY <1>2, <1>3, <1>4, <1>5, <1>6, <1>7 DEF HealthyNext

(* The records on disk tell of the whole chain, and verify as an archive.   *)
LEMMA DiskIsArchive ==
    ASSUME LogInv
    PROVE  Tells(OnDisk, last_hash) /\ Archived(OnDisk)
<1> DEFINE n == Len(last_hash)
<1>1. last_hash \in Seq(Fact) /\ n \in Nat
  BY DEF LogInv
<1>2. OnDisk = [i \in 1 .. n |-> RecordAt(last_hash, i)]
  BY DiskTells
<1>3. \A i \in 1 .. n : /\ RecordAt(last_hash, i).fact = last_hash[i]
                        /\ RecordAt(last_hash, i).version_before = VersionAt(last_hash, i - 1)
                        /\ RecordAt(last_hash, i).chain_hash
                             = Append(SubSeq(last_hash, 1, i - 1), last_hash[i])
  BY DEF RecordAt, RecordAfter, VersionAt, StateAt
<1>4. \A i \in 1 .. n : /\ OnDisk[i].fact = last_hash[i]
                        /\ OnDisk[i].version_before = VersionAt(last_hash, i - 1)
                        /\ OnDisk[i].chain_hash = Append(SubSeq(last_hash, 1, i - 1), last_hash[i])
  BY <1>2, <1>3
<1>5. DOMAIN OnDisk = 1 .. n
  BY <1>2
<1>6. \E S : OnDisk \in Seq(S)
  <2> DEFINE T == {OnDisk[i] : i \in 1 .. n}
  <2>1. OnDisk \in [1 .. n -> T]
    BY <1>2
  <2> HIDE DEF T
  <2>2. OnDisk \in Seq(T)
    BY <1>1, <2>1
  <2> QED BY <2>2
<1>7. Len(OnDisk) = n
  <2>1. OnDisk = [i \in 1 .. n |-> OnDisk[i]]
    BY <1>2
  <2> HIDE DEF n
  <2> QED BY <1>1, <2>1, LengthOf
<1>8. Tells(OnDisk, last_hash)
  BY <1>4, <1>6, <1>7 DEF Tells
<1>9. ASSUME NEW i \in 1 .. n PROVE OnDisk[i].chain_hash = FactsOf(SubSeq(OnDisk, 1, i))
  <2>1. FactsOf(SubSeq(OnDisk, 1, i)) = SubSeq(last_hash, 1, i)
    BY <1>1, <1>8, ReplayedIs
  <2>2. Append(SubSeq(last_hash, 1, i - 1), last_hash[i]) = SubSeq(last_hash, 1, i)
    BY <1>1
  <2> QED BY <1>4, <2>1, <2>2
<1> QED BY <1>5, <1>8, <1>9 DEF Archived

LEMMA KeptMeansRewind == KeptInv => RewindFaithful
<1>1. SUFFICES ASSUME KeptInv PROVE RewindFaithful
  OBVIOUS
<1>2. last_hash \in Seq(Fact)
  BY <1>1 DEF KeptInv, LogInv
<1>3. ASSUME NEW t \in DOMAIN past
      PROVE  \E i \in 0 .. Len(last_hash) :
                t = VersionAt(last_hash, i) /\ past[t] = PayloadAt(last_hash, i)
  BY <1>1 DEF KeptInv, PastInv
<1>4. ASSUME NEW h, Tells(h, last_hash), NEW t \in DOMAIN past
      PROVE  Rewindable(h, t) /\ rewind_payload(h, t) = past[t] /\ rewind(h, t) = past[t]
  <2>1. PICK i \in 0 .. Len(last_hash) :
            t = VersionAt(last_hash, i) /\ past[t] = PayloadAt(last_hash, i)
    BY <1>3, Zenon
  <2> QED BY <1>2, <1>4, <2>1, WaysBack
<1>5. ASSUME mode = "up", compacted = <<>> PROVE Tells(history, last_hash)
  <2>1. HistoryFrom(0)
    BY <1>1, <1>5 DEF KeptInv, HistoryInv, HistoryFrom
  <2>2. /\ history \in Seq(Entry) /\ Len(history) = Len(last_hash)
        /\ \A i \in 1 .. Len(history) :
              /\ history[i].fact = last_hash[0 + i]
              /\ history[i].version_before = VersionAt(last_hash, 0 + i - 1)
    BY <1>2, <2>1 DEF HistoryFrom, TellsFrom
  <2>3. \A i \in 1 .. Len(history) : 0 + i = i /\ 0 + i - 1 = i - 1
    OBVIOUS
  <2> QED BY <2>2, <2>3 DEF Tells
<1>6. Tells(OnDisk, last_hash) /\ Archived(OnDisk)
  BY <1>1, DiskIsArchive DEF KeptInv
<1>7. \A t \in DOMAIN past : payload_from_wal_records(OnDisk, t) = <<past[t]>>
  BY <1>4, <1>6 DEF payload_from_wal_records
<1> QED BY <1>4, <1>5, <1>7 DEF RewindFaithful

LEMMA HealthyKeeps == ASSUME Faults = {} PROVE HealthySpec => []KeptInv
<1>1. Init => KeptInv
  BY KeptInit
<1>2. KeptInv /\ [HealthyNext]_vars => KeptInv'
  BY KeptStep
<1> QED BY <1>1, <1>2, PTL DEF HealthySpec

(* ... and the session, the time machine and the reader of the archive all  *)
(* find, for every version the session ever went through, the payload it    *)
(* had then.                                                                *)
THEOREM RewindIsFaithful == ASSUME Faults = {} PROVE HealthySpec => []RewindFaithful
BY HealthyKeeps, KeptMeansRewind, PTL

-----------------------------------------------------------------------------
(* Reading from a version on. *)

(* The j-th number from k on is k + j - 1. *)
LEMMA NthOfInterval ==
    ASSUME NEW k \in Nat, NEW n \in Nat, k <= n + 1
    PROVE  /\ Cardinality(k .. n) = n + 1 - k
           /\ \A j \in 1 .. n + 1 - k : Nth(k .. n, j) = k + j - 1
<1>1. Cardinality(k .. n) = n + 1 - k
  <2>1. Cardinality(k .. n) = IF k > n THEN 0 ELSE n - k + 1
    BY FS_Interval
  <2> QED BY <2>1
<1>2. ASSUME NEW i \in k .. n PROVE Cardinality({x \in k .. n : x <= i}) = i - k + 1
  <2>1. {x \in k .. n : x <= i} = k .. i
    OBVIOUS
  <2>2. Cardinality(k .. i) = i - k + 1
    <3>1. Cardinality(k .. i) = IF k > i THEN 0 ELSE i - k + 1
      BY FS_Interval
    <3> QED BY <3>1
  <2> QED BY <2>1, <2>2, Zenon
<1>3. ASSUME NEW j \in 1 .. n + 1 - k PROVE Nth(k .. n, j) = k + j - 1
  <2> DEFINE P(i) == Cardinality({x \in k .. n : x <= i}) = j
             m == CHOOSE i \in k .. n : P(i)
  <2>1. \A i \in k .. n : P(i) <=> i = k + j - 1
    BY <1>2
  <2>2. k + j - 1 \in k .. n
    OBVIOUS
  <2> HIDE DEF P
  <2>3. m \in k .. n /\ P(m)
    BY <2>1, <2>2
  <2>4. m = k + j - 1
    BY <2>1, <2>3
  <2> QED BY <2>4 DEF Nth, P
<1> QED BY <1>1, <1>3

LEMMA KeptMeansReads == KeptInv => ReadsAreComplete
<1>1. SUFFICES ASSUME KeptInv, mode = "up", NEW v \in 0 .. state.version,
                      v > PointOfCompaction \/ compacted = <<>>
               PROVE  read_from(v) = ChainFrom(v)
  BY DEF ReadsAreComplete
<1> DEFINE n == Len(last_hash)
           V(i) == VersionAt(last_hash, i)
           from == {i \in 1 .. n : V(i - 1) >= v}
<1>2. LogInv /\ last_hash \in Seq(Fact) /\ n \in Nat /\ v \in Nat
  BY <1>1 DEF KeptInv, LogInv, State
<1>3. PICK c \in 0 .. n : HistoryFrom(c)
  BY <1>1 DEF KeptInv, HistoryInv
<1>4. /\ history \in Seq(Entry) /\ Len(history) = n - c /\ DOMAIN history = 1 .. n - c
      /\ \A i \in 1 .. n - c : /\ history[i].fact = last_hash[c + i]
                               /\ history[i].version_before = V(c + i - 1)
  BY <1>2, <1>3 DEF HistoryFrom, TellsFrom
<1>5. \A i \in 0 .. n : V(i) \in Nat
  BY <1>2, StateAtType DEF VersionAt, State
<1>6. \A i \in 0 .. n : \A j \in i .. n : V(i) <= V(j)
  BY <1>2, VersionsGrow DEF VersionAt
<1>7. \A i \in from : i > c
  <2>1. SUFFICES ASSUME NEW i \in from, i \in 1 .. c PROVE FALSE
    BY <1>2
  <2>2. V(i - 1) <= PointOfCompaction /\ PointOfCompaction \in Nat
    BY <1>3, <2>1 DEF HistoryFrom
  <2>3. v > PointOfCompaction
    BY <1>1, <1>3, <2>1 DEF HistoryFrom
  <2>4. V(i - 1) \in Nat /\ V(i - 1) >= v
    BY <1>2, <1>5, <2>1
  <2> HIDE DEF V
  <2> QED BY <1>2, <2>2, <2>3, <2>4
<1>8. DOMAIN OnDisk = 1 .. n /\ \A i \in 1 .. n : OnDisk[i].fact = last_hash[i]
                                               /\ OnDisk[i].version_before = V(i - 1)
  <2>1. Tells(OnDisk, last_hash) /\ DOMAIN OnDisk = 1 .. n
    BY <1>2, DiskIsArchive, DiskTells
  <2> QED BY <2>1 DEF Tells
<1>9. PICK k \in 1 .. n + 1 : from = k .. n /\ c < k
  <2>1. CASE from = {}
    <3>1. n + 1 \in 1 .. n + 1 /\ from = n + 1 .. n /\ c < n + 1
      BY <1>2, <2>1
    <3> QED BY <3>1
  <2>2. CASE from # {}
    <3>1. from \subseteq Nat
      OBVIOUS
    <3>2. PICK k \in from : \A x \in from : k <= x
      BY <2>2, <3>1, LeastNatural
    <3>3. k \in 1 .. n /\ k - 1 \in 0 .. n /\ V(k - 1) >= v
      BY <1>2, <3>2
    <3>4. ASSUME NEW x \in k .. n PROVE x \in from
      <4>1. x \in 1 .. n /\ x - 1 \in k - 1 .. n /\ x - 1 \in 0 .. n
        BY <1>2, <3>3
      <4>2. V(k - 1) <= V(x - 1) /\ V(k - 1) \in Nat /\ V(x - 1) \in Nat
        BY <1>5, <1>6, <3>3, <4>1
      <4>3. V(x - 1) >= v
        <5> HIDE DEF V
        <5> QED BY <1>2, <3>3, <4>2
      <4> QED BY <4>1, <4>3
    <3>5. \A x \in from : x \in k .. n
      BY <3>2, <3>3
    <3>6. from = k .. n
      <4> HIDE DEF from
      <4> QED BY <3>4, <3>5
    <3>7. k \in 1 .. n + 1 /\ c < k
      BY <1>2, <1>7, <3>2, <3>3
    <3> QED BY <3>6, <3>7
  <2> QED BY <2>1, <2>2
<1> DEFINE tail == [j \in 1 .. n + 1 - k |-> last_hash[k + j - 1]]
<1>10. ChainFrom(v) = tail
  <2>1. {i \in DOMAIN OnDisk : OnDisk[i].version_before >= v} = k .. n
    BY <1>8, <1>9
  <2>2. ChainFrom(v) = [j \in 1 .. Cardinality(k .. n) |-> OnDisk[Nth(k .. n, j)].fact]
    BY <2>1 DEF ChainFrom
  <2>3. /\ Cardinality(k .. n) = n + 1 - k
        /\ \A j \in 1 .. n + 1 - k : Nth(k .. n, j) = k + j - 1
    BY <1>2, NthOfInterval
  <2>4. \A j \in 1 .. n + 1 - k : k + j - 1 \in 1 .. n
    BY <1>2
  <2> HIDE DEF n
  <2> QED BY <1>8, <2>2, <2>3, <2>4
<1> DEFINE vb(i) == history[i].version_before
           later == {vb(i) : i \in DOMAIN history} \ (0 .. v - 1)
<1>11. \A i \in 1 .. n - c : vb(i) \in Nat /\ (vb(i) >= v <=> c + i >= k)
  <2>1. SUFFICES ASSUME NEW i \in 1 .. n - c
                 PROVE  vb(i) \in Nat /\ (vb(i) >= v <=> c + i >= k)
    OBVIOUS
  <2>2. c + i \in 1 .. n /\ c + i - 1 \in 0 .. n
    BY <1>2
  <2>3. vb(i) = V(c + i - 1) /\ V(c + i - 1) \in Nat
    BY <1>4, <1>5, <2>2
  <2>4. V(c + i - 1) >= v <=> c + i \in k .. n
    BY <1>9, <2>2
  <2> HIDE DEF V, vb
  <2> QED BY <1>2, <2>2, <2>3, <2>4
<1>12. \A u : u \in later <=> \E i \in 1 .. n - c : u = vb(i) /\ c + i >= k
  <2>1. \A i \in 1 .. n - c : vb(i) \notin 0 .. v - 1 <=> c + i >= k
    <3> HIDE DEF vb
    <3> QED BY <1>2, <1>11
  <2> HIDE DEF vb
  <2> QED BY <1>4, <2>1
<1>13. CASE k = n + 1
  <2>1. later = {}
    <3>1. \A i \in 1 .. n - c : ~(c + i >= k)
      BY <1>2, <1>13
    <3> HIDE DEF later
    <3> QED BY <1>12, <3>1
  <2>2. tail = <<>>
    BY <1>2, <1>13
  <2> HIDE DEF later, tail
  <2>3. read_from(v) = <<>>
    BY <2>1 DEF read_from, later
  <2> QED BY <1>10, <2>2, <2>3
<1>14. CASE k # n + 1
  <2> DEFINE m == k - c
  <2>1. m \in 1 .. n - c /\ c + m = k /\ c + m - 1 = k - 1 /\ k - 1 \in 0 .. n
    BY <1>2, <1>9, <1>14
  <2>2. vb(m) = V(k - 1)
    BY <1>4, <2>1
  <2>3. vb(m) \in later
    <3>1. c + m >= k
      BY <1>2, <2>1
    <3> HIDE DEF later, m
    <3> QED BY <1>12, <2>1, <3>1
  <2>4. \A i \in 1 .. n - c : c + i >= k => vb(m) <= vb(i) /\ vb(i) \in Nat
    <3>1. SUFFICES ASSUME NEW i \in 1 .. n - c, c + i >= k PROVE vb(m) <= vb(i) /\ vb(i) \in Nat
      OBVIOUS
    <3>2. c + i - 1 \in k - 1 .. n /\ c + i - 1 \in 0 .. n
      BY <1>2, <2>1, <3>1
    <3>3. vb(i) = V(c + i - 1)
      BY <1>4
    <3>4. V(k - 1) <= V(c + i - 1) /\ V(c + i - 1) \in Nat
      BY <1>5, <1>6, <2>1, <3>2
    <3> HIDE DEF vb, V
    <3> QED BY <2>2, <3>3, <3>4
  <2> HIDE DEF m
  <2>5. \A u \in later : vb(m) <= u /\ u \in Nat
    <3> HIDE DEF later, vb
    <3> QED BY <1>12, <2>4
  <2>6. Min(later) = vb(m)
    <3> HIDE DEF later, vb
    <3>1. vb(m) \in Nat
      BY <2>3, <2>5
    <3> QED BY <2>3, <2>5, <3>1 DEF Min
  <2> DEFINE first == {i \in DOMAIN history : vb(i) = Min(later)}
  <2>7. m \in first /\ \A i \in first : m <= i
    <3>1. m \in DOMAIN history
      BY <1>4, <2>1
    <3>2. ASSUME NEW i \in 1 .. n - c, vb(i) = vb(m) PROVE m <= i
      <4>1. vb(m) >= v
        <5>1. c + m >= k
          BY <1>2, <2>1
        <5> HIDE DEF vb
        <5> QED BY <1>11, <2>1, <5>1
      <4>2. c + i >= k
        <5> HIDE DEF vb
        <5> QED BY <1>11, <3>2, <4>1
      <4> QED BY <1>2, <2>1, <4>2
    <3> HIDE DEF vb, later
    <3> QED BY <1>4, <2>6, <3>1, <3>2
  <2>8. Min(first) = m
    <3>1. \A i \in first : i \in Nat
      BY <1>2, <1>4
    <3> HIDE DEF first
    <3> QED BY <2>7, <3>1 DEF Min
  <2>9. read_from(v) = SubSeq(FactsOf(history), m, n - c)
    <3>1. later # {}
      BY <2>3
    <3>2. read_from(v) = SubSeq(FactsOf(history), Min(first), Len(history))
      BY <3>1 DEF read_from
    <3> HIDE DEF first, later
    <3> QED BY <1>4, <2>8, <3>2
  <2>10. FactsOf(history) = [i \in 1 .. n - c |-> last_hash[c + i]]
    BY <1>4 DEF FactsOf
  <2> DEFINE hf == [i \in 1 .. n - c |-> last_hash[c + i]]
             s == SubSeq(hf, m, n - c)
  <2>11. \A i \in 1 .. n - c : hf[i] \in Fact /\ hf[i] = last_hash[c + i]
    BY <1>2
  <2>12. /\ s \in Seq(Fact) /\ Len(s) = n + 1 - k
         /\ \A j \in 1 .. n + 1 - k : s[j] = hf[m + j - 1]
    <3> HIDE DEF hf
    <3>1. m \in Int /\ n - c \in Int /\ m <= n - c /\ (n - c) - m + 1 = n + 1 - k
      BY <1>2, <2>1
    <3>2. \A i \in m .. n - c : hf[i] \in Fact
      BY <1>2, <2>1, <2>11
    <3>3. /\ s \in Seq(Fact)
          /\ Len(s) = IF m <= n - c THEN (n - c) - m + 1 ELSE 0
          /\ \A j \in 1 .. (n - c) - m + 1 : s[j] = hf[m + j - 1]
      BY <3>1, <3>2, SubSeqProperties
    <3> HIDE DEF s
    <3> QED BY <3>1, <3>3
  <2>13. /\ tail \in Seq(Fact) /\ Len(tail) = n + 1 - k
         /\ \A j \in 1 .. n + 1 - k : tail[j] = last_hash[k + j - 1]
    <3>1. n + 1 - k \in Nat /\ \A j \in 1 .. n + 1 - k : k + j - 1 \in 1 .. n
      BY <1>2
    <3>2. \A j \in 1 .. n + 1 - k : last_hash[k + j - 1] \in Fact
      BY <1>2, <3>1
    <3>3. tail \in [1 .. n + 1 - k -> Fact]
      BY <3>2
    <3>4. tail \in Seq(Fact)
      <4> HIDE DEF tail
      <4> QED BY <3>1, <3>3
    <3>5. Len(tail) = n + 1 - k
      <4>1. tail = [j \in 1 .. n + 1 - k |-> tail[j]]
        OBVIOUS
      <4> HIDE DEF tail
      <4> QED BY <3>1, <4>1, LengthOf
    <3> QED BY <3>4, <3>5
  <2>14. \A j \in 1 .. n + 1 - k : s[j] = tail[j]
    <3>1. SUFFICES ASSUME NEW j \in 1 .. n + 1 - k PROVE s[j] = tail[j]
      OBVIOUS
    <3> DEFINE i == m + j - 1
    <3>2. i \in 1 .. n - c /\ c + i = k + j - 1
      BY <1>2, <2>1
    <3>3. hf[i] = last_hash[c + i]
      BY <2>11, <3>2
    <3> HIDE DEF hf, s, tail
    <3> QED BY <2>12, <2>13, <3>2, <3>3
  <2>15. s = tail
    <3> HIDE DEF s, tail
    <3> QED BY <2>12, <2>13, <2>14, SeqEqual
  <2> QED BY <1>10, <2>9, <2>10, <2>15
<1> QED BY <1>13, <1>14

(* ... and a read from a version behind the point of compaction returns     *)
(* every fact the chain holds from there on.                                *)
THEOREM ReadsMissNothing == ASSUME Faults = {} PROVE HealthySpec => []ReadsAreComplete
BY HealthyKeeps, KeptMeansReads, PTL
-----------------------------------------------------------------------------
(***************************************************************************)
(* The log on a disk whose writes fail.  Opening the next shard is taken   *)
(* to succeed; a write may be lost, torn or done and reported as failed.   *)
(* Lines are shorter than the buffer of the writer, 8 KiB, and no write    *)
(* stops just before the newline: what a torn write lacks is in the buffer.*)
(***************************************************************************)
Buffered == Faults \subseteq {"flush", "torn", "sync"}

AnyLine == [rec : Rec, form : {"whole", "torn"}]

(* A shard is torn at its end at most. *)
ShardOK(lines) == lines \in Seq(AnyLine) /\ \A i \in 1 .. Len(lines) - 1 : lines[i].form = "whole"

Holds(s) ==
    /\ s = [shards |-> s.shards, seq |-> s.seq, file |-> s.seq, size |-> s.size,
            buffer |-> s.buffer, spoilt |-> {}]
    /\ s.seq \in Nat /\ s.buffer \in Seq(Rec)
    /\ s.shards = [k \in 0 .. s.seq |-> s.shards[k]]
    /\ \A k \in 0 .. s.seq : ShardOK(s.shards[k])

(* The records of the whole lines. *)
KeptOf(shards) == [k \in DOMAIN shards |-> Kept(shards[k])]
RecordsOf(shards) == Recs(ReadLines(KeptOf(shards)))
Stored == RecordsOf(store.shards)

(* ... and then those of the buffer. *)
AllRecs == Stored \o store.buffer

(* f is the fact of one of the first k records. *)
In(f, all, k) == \E i \in 1 .. k : all[i].fact = f

Increasing(facts) == \A i, j \in DOMAIN facts : i < j => facts[i].id < facts[j].id

(* A record goes on from facts that are on the disk. *)
Rests(r, all, k) ==
    /\ r.chain_hash = Append(r.prev_hash, r.fact)
    /\ Increasing(r.chain_hash)
    /\ \A x \in DOMAIN r.prev_hash : In(r.prev_hash[x], all, k)

(* The kinds of facts that the log appends, the anchor fact of a fork too. *)
Appended == Kinds \cup {"Fork"}

(* Records, the first k of them on the disk, before fact n. *)
Sound(all, k, n) ==
    /\ \A i, j \in 1 .. Len(all) : i < j => all[i].fact.id < all[j].fact.id
    /\ \A i \in 1 .. Len(all) :
          all[i].fact.id \in 1 .. n - 1 /\ all[i].fact.kind \in Appended /\ Rests(all[i], all, k)

Begins(s, t) == Len(s) <= Len(t) /\ \A i \in 1 .. Len(s) : s[i] = t[i]

EndsWith(h, facts, c) ==
    Len(h) = Len(facts) - c /\ \A i \in 1 .. Len(h) : h[i].fact = facts[c + i]

DiskTypes ==
    /\ mode \in {"up", "down", "refused"}
    /\ Holds(store) /\ (mode # "up" => store.buffer = <<>>)
    /\ last_hash \in Seq(Fact) /\ history \in Seq(Entry) /\ state \in State
    /\ budget \in [Events -> Nat] /\ budget["fact"] <= MaxFacts

DiskInv ==
    /\ DiskTypes
    /\ Sound(AllRecs, Len(Stored), next_id)
    /\ Increasing(last_hash)
    /\ \A x \in DOMAIN last_hash : In(last_hash[x], AllRecs, Len(Stored))

MemoryInv ==
    mode = "up" /\ Linked(Stored, genesis) =>
        /\ Begins(last_hash, FactsOf(Stored))
        /\ \E c \in 0 .. Len(last_hash) :
              EndsWith(history, last_hash, c) /\ (compacted = <<>> => c = 0)

-----------------------------------------------------------------------------
(* Sequences. *)

(* The first k elements of a sequence. *)
LEMMA Upto ==
    ASSUME NEW S, NEW s \in Seq(S), NEW k \in 0 .. Len(s)
    PROVE  /\ SubSeq(s, 1, k) \in Seq(S) /\ Len(SubSeq(s, 1, k)) = k
           /\ \A i \in 1 .. k : SubSeq(s, 1, k)[i] = s[i]
<1>1. Len(s) \in Nat /\ 1 \in Int /\ k \in Int /\ \A i \in 1 .. k : s[i] \in S
  OBVIOUS
<1>2. /\ SubSeq(s, 1, k) \in Seq(S)
      /\ Len(SubSeq(s, 1, k)) = IF 1 <= k THEN k - 1 + 1 ELSE 0
      /\ \A i \in 1 .. k - 1 + 1 : SubSeq(s, 1, k)[i] = s[1 + i - 1]
  BY <1>1, SubSeqProperties
<1>3. Len(SubSeq(s, 1, k)) = k
  BY <1>1, <1>2
<1>4. \A i \in 1 .. k : SubSeq(s, 1, k)[i] = s[i]
  BY <1>1, <1>2
<1> QED BY <1>2, <1>3, <1>4

(* A sequence with another behind it. *)
LEMMA Beyond ==
    ASSUME NEW S, NEW s \in Seq(S), NEW t \in Seq(S)
    PROVE  /\ s \o t \in Seq(S) /\ Len(s \o t) = Len(s) + Len(t)
           /\ Len(s) \in Nat /\ Len(t) \in Nat
           /\ \A i \in 1 .. Len(s) : (s \o t)[i] = s[i]
           /\ \A i \in 1 .. Len(t) : (s \o t)[Len(s) + i] = t[i]
           /\ \A i \in 1 .. Len(s \o t) :
                 i \in 1 .. Len(s) \/ \E j \in 1 .. Len(t) : i = Len(s) + j
<1>1. s \o t \in Seq(S) /\ Len(s \o t) = Len(s) + Len(t) /\ Len(s) \in Nat /\ Len(t) \in Nat
  OBVIOUS
<1>2. \A i \in 1 .. Len(s) : (s \o t)[i] = s[i]
  OBVIOUS
<1>3. \A i \in 1 .. Len(t) : (s \o t)[Len(s) + i] = t[i]
  OBVIOUS
<1>4. ASSUME NEW i \in 1 .. Len(s \o t), i \notin 1 .. Len(s)
      PROVE  \E j \in 1 .. Len(t) : i = Len(s) + j
  <2>1. i - Len(s) \in 1 .. Len(t) /\ i = Len(s) + (i - Len(s))
    BY <1>1, <1>4
  <2> QED BY <2>1
<1> QED BY <1>1, <1>2, <1>3, <1>4

-----------------------------------------------------------------------------
(* Shards and what is kept of them. *)

(* Lines written whole are kept. *)
LEMMA LinesAreWhole ==
    ASSUME NEW lines \in Seq(Line)
    PROVE  lines \in Seq(AnyLine) /\ ShardOK(lines) /\ Kept(lines) = lines
<1>1. Line \subseteq AnyLine /\ \A l \in Line : l.form = "whole"
  <2>1. \A r \in Rec : WholeLine(r) \in AnyLine /\ WholeLine(r).form = "whole"
    BY DEF AnyLine, WholeLine
  <2> QED BY <2>1, Zenon DEF Line
<1>2. lines \in Seq(AnyLine)
  BY <1>1
<1>3. \A i \in 1 .. Len(lines) : lines[i].form = "whole"
  BY <1>1
<1>4. lines # <<>> => Last(lines).form = "whole"
  BY <1>3 DEF Last
<1> QED BY <1>2, <1>3, <1>4 DEF ShardOK, Kept, EndsTorn, EndsIn

(* Whole lines are lines of the healthy log. *)
LEMMA WholeAreLines ==
    ASSUME NEW lines \in Seq(AnyLine), \A i \in 1 .. Len(lines) : lines[i].form = "whole"
    PROVE  lines \in Seq(Line)
<1>1. \A l \in AnyLine : l.form = "whole" => l = WholeLine(l.rec) /\ l.rec \in Rec
  BY DEF AnyLine, WholeLine
<1>2. \A i \in 1 .. Len(lines) : lines[i] \in AnyLine
  OBVIOUS
<1>3. \A i \in 1 .. Len(lines) : lines[i] \in Line
  BY <1>1, <1>2, Zenon DEF Line
<1> QED BY <1>3

(* What is kept of a shard: all its lines, or all but a torn one. *)
LEMMA KeptIs ==
    ASSUME NEW lines, ShardOK(lines)
    PROVE  /\ Kept(lines) \in Seq(Line)
           /\ EndsTorn(lines) => Len(lines) > 0 /\ Len(Kept(lines)) = Len(lines) - 1
           /\ \A i \in 1 .. Len(Kept(lines)) : Kept(lines)[i] = lines[i]
<1>1. lines \in Seq(AnyLine) /\ Len(lines) \in Nat
  BY DEF ShardOK
<1>2. CASE ~EndsTorn(lines)
  <2>1. \A i \in 1 .. Len(lines) : lines[i].form = "whole"
    <3> SUFFICES ASSUME NEW i \in 1 .. Len(lines) PROVE lines[i].form = "whole"
      OBVIOUS
    <3>1. CASE i = Len(lines)
      <4>1. lines # <<>> /\ Last(lines) = lines[i] /\ lines[i] \in AnyLine
        BY <1>1, <3>1 DEF Last
      <4>2. lines[i].form \in {"whole", "torn"}
        BY <4>1 DEF AnyLine
      <4> QED BY <1>2, <4>1, <4>2 DEF EndsTorn, EndsIn
    <3>2. CASE i # Len(lines)
      <4>1. i \in 1 .. Len(lines) - 1
        BY <1>1, <3>2
      <4> QED BY <4>1 DEF ShardOK
    <3> QED BY <3>1, <3>2
  <2>2. lines \in Seq(Line)
    BY <1>1, <2>1, WholeAreLines
  <2>3. Kept(lines) = lines
    BY <1>2 DEF Kept
  <2> QED BY <1>2, <2>2, <2>3
<1>3. CASE EndsTorn(lines)
  <2>1. lines # <<>> /\ Kept(lines) = SubSeq(lines, 1, Len(lines) - 1)
    BY <1>3 DEF EndsTorn, EndsIn, Kept, Front
  <2>2. Len(lines) > 0 /\ Len(lines) - 1 \in 0 .. Len(lines)
    BY <1>1, <2>1
  <2> DEFINE k == SubSeq(lines, 1, Len(lines) - 1)
  <2>3. /\ k \in Seq(AnyLine) /\ Len(k) = Len(lines) - 1
        /\ \A i \in 1 .. Len(lines) - 1 : k[i] = lines[i]
    BY <1>1, <2>2, Upto
  <2> HIDE DEF k
  <2>4. \A i \in 1 .. Len(k) : k[i].form = "whole"
    BY <2>3 DEF ShardOK
  <2>5. k \in Seq(Line)
    BY <2>3, <2>4, WholeAreLines
  <2> QED BY <2>1, <2>2, <2>3, <2>5 DEF k
<1> QED BY <1>2, <1>3

(* Records as whole lines. *)
LEMMA WholeIs ==
    ASSUME NEW recs \in Seq(Rec)
    PROVE  /\ Whole(recs) \in Seq(Line) /\ Len(Whole(recs)) = Len(recs)
           /\ \A i \in 1 .. Len(recs) : Whole(recs)[i] = WholeLine(recs[i])
<1>1. DOMAIN recs = 1 .. Len(recs) /\ Len(recs) \in Nat /\ \A i \in 1 .. Len(recs) : recs[i] \in Rec
  OBVIOUS
<1>2. Whole(recs) = [i \in 1 .. Len(recs) |-> WholeLine(recs[i])]
  BY <1>1 DEF Whole, WholeLine
<1>3. \A i \in 1 .. Len(recs) : WholeLine(recs[i]) \in Line
  BY <1>1, Zenon DEF Line
<1>4. [i \in 1 .. Len(recs) |-> WholeLine(recs[i])] \in [1 .. Len(recs) -> Line]
  BY <1>3, Zenon
<1>5. Whole(recs) \in Seq(Line)
  BY <1>1, <1>2, <1>4
<1> QED BY <1>1, <1>2, <1>5

(* Records written behind a shard are kept behind what was kept. *)
(* No line is run into another. *)
LEMMA NoneJoined ==
    ASSUME NEW lines, ShardOK(lines), NEW recs
    PROVE  ~Joined(lines, recs) /\ (Continued(lines, recs) <=> EndsTorn(lines))
           /\ RunTogether(lines, recs) = {}
<1>1. lines # <<>> => Last(lines) \in AnyLine
  BY DEF ShardOK, Last
<1>2. lines # <<>> => Last(lines).form \in {"whole", "torn"}
  BY <1>1 DEF AnyLine
<1>3. ~EndsIn(lines, {"bare", "cut"}) /\ ~EndsIn(lines, {"bare"})
  BY <1>2 DEF EndsIn
<1>4. EndsIn(lines, {"torn"}) <=> EndsTorn(lines)
  BY <1>2 DEF EndsIn, EndsTorn
<1> QED BY <1>3, <1>4 DEF Joined, Continued, RunTogether

LEMMA KeptWritten ==
    ASSUME NEW lines, ShardOK(lines), NEW recs \in Seq(Rec)
    PROVE  /\ Written(lines, recs) \in Seq(Line) /\ ShardOK(Written(lines, recs))
           /\ Kept(Written(lines, recs)) = Kept(lines) \o Whole(recs)
<1>1. Written(lines, recs) = Kept(lines) \o Whole(recs)
  BY NoneJoined DEF Written, Kept
<1>2. Kept(lines) \o Whole(recs) \in Seq(Line)
  BY KeptIs, WholeIs
<1> QED BY <1>1, <1>2, LinesAreWhole

(* A torn write leaves what is kept alone. *)
LEMMA KeptTorn ==
    ASSUME NEW lines, ShardOK(lines), NEW recs \in Seq(Rec), recs # <<>>
    PROVE  ShardOK(TornBy(lines, recs)) /\ Kept(TornBy(lines, recs)) = Kept(lines)
<1>1. CASE EndsTorn(lines)
  BY <1>1, NoneJoined DEF TornBy, PartOf
<1>2. CASE ~EndsTorn(lines)
  <2> DEFINE l == [rec |-> recs[1], form |-> "torn"]
             t == Append(lines, l)
  <2>1. TornBy(lines, recs) = t /\ Kept(lines) = lines
    BY <1>2, NoneJoined DEF TornBy, PartOf, Kept
  <2>2. recs[1] \in Rec
    OBVIOUS
  <2>3. l \in AnyLine /\ l.form = "torn"
    BY <2>2 DEF AnyLine
  <2>4. lines \in Seq(Line)
    BY <2>1, KeptIs
  <2>5. lines \in Seq(AnyLine) /\ \A i \in 1 .. Len(lines) : lines[i].form = "whole"
    <3>1. \A x \in Line : x.form = "whole"
      BY DEF Line, WholeLine
    <3> QED BY <2>4, <3>1, LinesAreWhole
  <2> HIDE DEF l
  <2>6. t \in Seq(AnyLine) /\ t # <<>> /\ Len(t) = Len(lines) + 1 /\ t[Len(t)] = l
        /\ \A i \in 1 .. Len(t) - 1 : t[i] = lines[i] /\ i \in 1 .. Len(lines)
    <3>1. lines \in Seq(AnyLine) /\ l \in AnyLine
      BY <2>3, <2>5
    <3> QED BY <3>1
  <2>7. ShardOK(t)
    BY <2>5, <2>6 DEF ShardOK
  <2>8. EndsTorn(t)
    <3>1. Last(t) = l
      BY <2>6 DEF Last
    <3> QED BY <2>3, <2>6, <3>1, Zenon DEF EndsTorn, EndsIn
  <2>9. Front(t) = lines
    BY <2>5, <2>3 DEF Front
  <2> QED BY <2>1, <2>7, <2>8, <2>9 DEF Kept
<1> QED BY <1>1, <1>2

(* Cutting a torn line off leaves what is kept. *)
LEMMA KeptCut ==
    ASSUME NEW lines, ShardOK(lines), EndsTorn(lines)
    PROVE  ShardOK(Front(lines)) /\ Kept(Front(lines)) = Kept(lines)
<1>1. Kept(lines) = Front(lines)
  BY DEF Kept
<1>2. Front(lines) \in Seq(Line)
  BY <1>1, KeptIs
<1> QED BY <1>1, <1>2, LinesAreWhole

-----------------------------------------------------------------------------
(* The store: its records, and what the operations of the writer add. *)

(* Concatenation associates. *)
LEMMA LinesAssociate ==
    \A a, b, c \in Seq(Line) : (a \o b) \o c = a \o (b \o c)
OBVIOUS

(* A last shard with more lines: more lines at the end. *)
LEMMA ReadLonger ==
    ASSUME NEW q \in Nat, NEW sh \in Shards(q), NEW th \in Shards(q), NEW x \in Seq(Line),
           th[q] = sh[q] \o x, \A k \in 0 .. q : k # q => th[k] = sh[k]
    PROVE  ReadLines(th) = ReadLines(sh) \o x
<1>0. DOMAIN sh = 0 .. q /\ DOMAIN th = 0 .. q
  BY DEF Shards
<1>1. CASE q = 0
  <2>1. ReadLines(sh) = FlattenSeq(InOrder(sh, 0)) /\ ReadLines(th) = FlattenSeq(InOrder(th, 0))
    BY <1>0, <1>1, ReaderFindsAll
  <2>2. /\ Len(InOrder(sh, 0)) = 1 /\ InOrder(sh, 0)[1] = sh[0]
        /\ Len(InOrder(th, 0)) = 1 /\ InOrder(th, 0)[1] = th[0]
    <3>1. \A f : Len(InOrder(f, 0)) = 0 + 1 /\ \A i \in 1 .. 0 + 1 : InOrder(f, 0)[i] = f[i - 1]
      BY InOrderIs
    <3> QED BY <3>1
  <2>3. FlattenSeq(InOrder(sh, 0)) = sh[0] /\ FlattenSeq(InOrder(th, 0)) = th[0]
    BY <2>2, FlattenOne
  <2> QED BY <1>1, <2>1, <2>3
<1>2. CASE q # 0
  <2> DEFINE p == q - 1
             front == [k \in 0 .. p |-> sh[k]]
  <2>1. p \in Nat /\ q = p + 1 /\ DOMAIN front = 0 .. p
    BY <1>2
  <2>2. front \in Shards(p)
    BY <2>1 DEF Shards
  <2>3. (\A k \in 0 .. p : sh[k] = front[k]) /\ \A k \in 0 .. p : th[k] = front[k]
    BY <2>1
  <2> HIDE DEF p, front
  <2>4. ReadLines(sh) = ReadLines(front) \o sh[q]
    BY <1>0, <2>1, <2>3, ReadLast
  <2>5. ReadLines(th) = ReadLines(front) \o th[q]
    BY <1>0, <2>1, <2>3, ReadLast
  <2>6. ReadLines(front) \in Seq(Line) /\ sh[q] \in Seq(Line)
    BY <2>1, <2>2, ReadType DEF Shards
  <2>7. \A a, b \in Seq(Line) : (a \o b) \o x = a \o (b \o x)
    BY LinesAssociate, Zenon
  <2> QED BY <2>4, <2>5, <2>6, <2>7, Zenon
<1> QED BY <1>1, <1>2

(* The records of lines. *)
LEMMA RecsIs ==
    ASSUME NEW lines \in Seq(Line)
    PROVE  /\ Recs(lines) \in Seq(Rec) /\ Len(Recs(lines)) = Len(lines)
           /\ \A i \in 1 .. Len(lines) : Recs(lines)[i] = lines[i].rec
<1>1. \A l \in Line : l.rec \in Rec
  <2>1. \A r \in Rec : WholeLine(r).rec = r
    BY DEF WholeLine
  <2> QED BY <2>1, Zenon DEF Line
<1>2. DOMAIN lines = 1 .. Len(lines) /\ Len(lines) \in Nat /\ \A i \in 1 .. Len(lines) : lines[i] \in Line
  OBVIOUS
<1>3. Recs(lines) = [i \in 1 .. Len(lines) |-> lines[i].rec]
  BY <1>2 DEF Recs
<1>4. \A i \in 1 .. Len(lines) : lines[i].rec \in Rec
  BY <1>1, <1>2, Zenon
<1>5. [i \in 1 .. Len(lines) |-> lines[i].rec] \in [1 .. Len(lines) -> Rec]
  BY <1>4, Zenon
<1>6. Recs(lines) \in Seq(Rec)
  BY <1>2, <1>3, <1>5
<1> QED BY <1>2, <1>3, <1>6

(* The records of lines with more behind them. *)
LEMMA RecsOfMore ==
    ASSUME NEW lines \in Seq(Line), NEW recs \in Seq(Rec)
    PROVE  Recs(lines \o Whole(recs)) = Recs(lines) \o recs
<1> DEFINE w == Whole(recs)
           a == Recs(lines \o w)
           b == Recs(lines) \o recs
<1>1. /\ w \in Seq(Line) /\ Len(w) = Len(recs) /\ Len(recs) \in Nat
      /\ \A i \in 1 .. Len(recs) : w[i] = WholeLine(recs[i])
  BY WholeIs
<1> HIDE DEF w
<1>a. w \in Seq(Line)
  BY <1>1
<1>2. /\ lines \o w \in Seq(Line) /\ Len(lines \o w) = Len(lines) + Len(w)
      /\ Len(lines) \in Nat
      /\ \A i \in 1 .. Len(lines) : (lines \o w)[i] = lines[i]
      /\ \A i \in 1 .. Len(w) : (lines \o w)[Len(lines) + i] = w[i]
  BY <1>a, Beyond
<1>3. /\ Recs(lines) \in Seq(Rec) /\ Len(Recs(lines)) = Len(lines)
      /\ \A i \in 1 .. Len(lines) : Recs(lines)[i] = lines[i].rec
  BY RecsIs
<1>4. /\ a \in Seq(Rec) /\ Len(a) = Len(lines \o w)
      /\ \A i \in 1 .. Len(lines \o w) : a[i] = (lines \o w)[i].rec
  BY <1>2, RecsIs
<1>5. /\ b \in Seq(Rec) /\ Len(b) = Len(lines) + Len(recs)
      /\ \A i \in 1 .. Len(lines) : b[i] = Recs(lines)[i]
      /\ \A i \in 1 .. Len(recs) : b[Len(lines) + i] = recs[i]
  <2>1. /\ b \in Seq(Rec) /\ Len(b) = Len(Recs(lines)) + Len(recs)
        /\ \A i \in 1 .. Len(Recs(lines)) : b[i] = Recs(lines)[i]
        /\ \A i \in 1 .. Len(recs) : b[Len(Recs(lines)) + i] = recs[i]
    <3> DEFINE r == Recs(lines)
    <3>1. r \in Seq(Rec)
      BY <1>3
    <3> HIDE DEF r
    <3>2. /\ r \o recs \in Seq(Rec) /\ Len(r \o recs) = Len(r) + Len(recs)
          /\ \A i \in 1 .. Len(r) : (r \o recs)[i] = r[i]
          /\ \A i \in 1 .. Len(recs) : (r \o recs)[Len(r) + i] = recs[i]
      BY <3>1, Beyond
    <3> QED BY <3>2 DEF r
  <2> QED BY <1>3, <2>1, Zenon
<1>6. Len(a) = Len(b)
  BY <1>1, <1>2, <1>4, <1>5
<1>7. ASSUME NEW i \in 1 .. Len(a) PROVE a[i] = b[i]
  <2>1. CASE i \in 1 .. Len(lines)
    <3>1. a[i] = (lines \o w)[i].rec
      BY <1>4
    <3> QED BY <1>2, <1>3, <1>5, <2>1, <3>1
  <2>2. CASE i \notin 1 .. Len(lines)
    <3>1. PICK j \in 1 .. Len(recs) : i = Len(lines) + j
      <4>1. i - Len(lines) \in 1 .. Len(recs) /\ i = Len(lines) + (i - Len(lines))
        BY <1>1, <1>2, <1>4, <2>2
      <4> QED BY <4>1
    <3>2. a[i] = (lines \o w)[i].rec
      BY <1>4
    <3>3. (lines \o w)[i] = w[j] /\ w[j] = WholeLine(recs[j])
      BY <1>1, <1>2, <3>1
    <3>4. b[i] = recs[j]
      BY <1>5, <3>1
    <3> HIDE DEF a, b
    <3> QED BY <3>2, <3>3, <3>4 DEF WholeLine
  <2> QED BY <2>1, <2>2
<1> HIDE DEF a, b
<1>8. a = b
  BY <1>4, <1>5, <1>6, <1>7, SeqEqual
<1> QED BY <1>8 DEF a, b, w

(* What there is to know of the shards of a writer. *)
ShardsFit(sh, q) == sh = [k \in 0 .. q |-> sh[k]] /\ \A k \in 0 .. q : ShardOK(sh[k])

(* What is kept of the shards is shards of a healthy log. *)
LEMMA KeptShards ==
    ASSUME NEW q \in Nat, NEW sh, ShardsFit(sh, q)
    PROVE  /\ KeptOf(sh) \in Shards(q) /\ \A k \in 0 .. q : KeptOf(sh)[k] = Kept(sh[k])
           /\ ReadLines(KeptOf(sh)) \in Seq(Line) /\ RecordsOf(sh) \in Seq(Rec)
<1>1. DOMAIN sh = 0 .. q
  <2>1. sh = [k \in 0 .. q |-> sh[k]]
    BY DEF ShardsFit
  <2> QED BY <2>1
<1>2. KeptOf(sh) = [k \in 0 .. q |-> Kept(sh[k])]
  BY <1>1 DEF KeptOf
<1>3. \A k \in 0 .. q : Kept(sh[k]) \in Seq(Line)
  BY KeptIs DEF ShardsFit
<1>4. KeptOf(sh) \in Shards(q)
  BY <1>2, <1>3, Zenon DEF Shards
<1>5. ReadLines(KeptOf(sh)) \in Seq(Line)
  BY <1>4, ReadType
<1> QED BY <1>2, <1>4, <1>5, RecsIs DEF RecordsOf

(* The last shard with other lines. *)
LastAs(sh, q, lines) == [k \in 0 .. q |-> IF k = q THEN lines ELSE sh[k]]

(* Only the last shard is changed. *)
LEMMA LastChanged ==
    ASSUME NEW q \in Nat, NEW sh, ShardsFit(sh, q), NEW lines, ShardOK(lines),
           NEW recs \in Seq(Rec), Kept(lines) = Kept(sh[q]) \o Whole(recs)
    PROVE  ShardsFit(LastAs(sh, q, lines), q)
           /\ RecordsOf(LastAs(sh, q, lines)) = RecordsOf(sh) \o recs
<1> DEFINE th == LastAs(sh, q, lines)
<1>1. ShardsFit(th, q)
  BY DEF ShardsFit, LastAs
<1>2. th[q] = lines /\ \A k \in 0 .. q : k # q => th[k] = sh[k]
  BY DEF LastAs
<1> HIDE DEF th
<1> DEFINE a == KeptOf(sh)
           b == KeptOf(th)
           x == Whole(recs)
<1>3. /\ a \in Shards(q) /\ ReadLines(a) \in Seq(Line)
      /\ \A k \in 0 .. q : a[k] = Kept(sh[k])
  BY KeptShards
<1>4. /\ b \in Shards(q) /\ \A k \in 0 .. q : b[k] = Kept(th[k])
  BY <1>1, KeptShards
<1>5. x \in Seq(Line)
  BY WholeIs
<1>6. b[q] = a[q] \o x /\ \A k \in 0 .. q : k # q => b[k] = a[k]
  <2>1. q \in 0 .. q
    OBVIOUS
  <2> HIDE DEF a, b
  <2>2. b[q] = a[q] \o x
    BY <1>2, <1>3, <1>4, <2>1, Zenon
  <2> QED BY <1>2, <1>3, <1>4, <2>2, Zenon
<1> HIDE DEF a, b, x
<1>7. ReadLines(b) = ReadLines(a) \o x
  BY <1>3, <1>4, <1>5, <1>6, ReadLonger
<1>8. Recs(ReadLines(a) \o x) = Recs(ReadLines(a)) \o recs
  BY <1>3, RecsOfMore DEF x
<1> QED BY <1>1, <1>7, <1>8 DEF RecordsOf, a, b, th

(* The writer's operations: what they make of the records on disk and in    *)
(* the buffer.                                                              *)
Put(recs, buf, r, s, ok) ==
    \/ RecordsOf(s.shards) = recs \o Append(buf, r) /\ s.buffer = <<>>
    \/ ~ok /\ RecordsOf(s.shards) = recs /\ s.buffer = Append(buf, r)

(* The fields of a store. *)
LEMMA StoreFields ==
    ASSUME NEW s, Holds(s)
    PROVE  /\ s.seq \in Nat /\ s.file = s.seq /\ s.buffer \in Seq(Rec)
           /\ ShardsFit(s.shards, s.seq) /\ DOMAIN s.shards = 0 .. s.seq
           /\ RecordsOf(s.shards) \in Seq(Rec)
<1>1. s.seq \in Nat /\ s.buffer \in Seq(Rec) /\ ShardsFit(s.shards, s.seq)
  BY DEF Holds, ShardsFit
<1>2. s.file = s.seq
  <2> DEFINE t == [shards |-> s.shards, seq |-> s.seq, file |-> s.seq, size |-> s.size,
                   buffer |-> s.buffer, spoilt |-> {}]
  <2>1. s = t
    BY DEF Holds
  <2>2. t.file = s.seq
    OBVIOUS
  <2> QED BY <2>1, <2>2, Zenon
<1>3. s.shards = [k \in 0 .. s.seq |-> s.shards[k]]
  BY DEF Holds
<1>4. DOMAIN s.shards = 0 .. s.seq
  BY <1>3, Zenon
<1> QED BY <1>1, <1>2, <1>4, KeptShards


(* A store put together of its fields. *)
LEMMA StoreOfHolds ==
    ASSUME NEW q \in Nat, NEW sh, ShardsFit(sh, q), NEW z, NEW b \in Seq(Rec)
    PROVE  /\ Holds(StoreOf(q, sh, z, b))
           /\ StoreOf(q, sh, z, b).shards = sh /\ StoreOf(q, sh, z, b).buffer = b
           /\ StoreOf(q, sh, z, b).seq = q /\ StoreOf(q, sh, z, b).file = q
<1> DEFINE s == StoreOf(q, sh, z, b)
<1>1. s.shards = sh /\ s.seq = q /\ s.file = q /\ s.size = z /\ s.buffer = b
  BY DEF StoreOf
<1>2. s = [shards |-> s.shards, seq |-> s.seq, file |-> s.seq, size |-> s.size,
           buffer |-> s.buffer, spoilt |-> {}]
  BY <1>1 DEF StoreOf
<1> HIDE DEF s
<1>3. s.shards = [k \in 0 .. s.seq |-> s.shards[k]] /\ \A k \in 0 .. s.seq : ShardOK(s.shards[k])
  BY <1>1 DEF ShardsFit
<1>4. Holds(s)
  BY <1>1, <1>2, <1>3 DEF Holds
<1> QED BY <1>1, <1>4 DEF s

(* A store is its fields. *)
LEMMA StoreIs ==
    ASSUME NEW s, Holds(s)
    PROVE  s = StoreOf(s.seq, s.shards, s.size, s.buffer)
BY Zenon DEF Holds, StoreOf

(* The lines of the last shard replaced. *)
LEMMA SetLast ==
    ASSUME NEW q \in Nat, NEW sh, ShardsFit(sh, q), NEW lines
    PROVE  [sh EXCEPT ![q] = lines] = LastAs(sh, q, lines)
<1>1. sh = [k \in 0 .. q |-> sh[k]]
  BY DEF ShardsFit
<1>2. DOMAIN sh = 0 .. q
  BY <1>1, Zenon
<1> QED BY <1>2 DEF LastAs

(* The last shard with records behind it, or with a torn one. *)
LEMMA LastWritten ==
    ASSUME NEW q \in Nat, NEW sh, ShardsFit(sh, q), NEW recs \in Seq(Rec)
    PROVE  /\ ShardsFit([sh EXCEPT ![q] = Written(sh[q], recs)], q)
           /\ RecordsOf([sh EXCEPT ![q] = Written(sh[q], recs)]) = RecordsOf(sh) \o recs
<1> DEFINE lines == Written(sh[q], recs)
<1>1. q \in 0 .. q /\ ShardOK(sh[q])
  BY DEF ShardsFit
<1>2. ShardOK(lines) /\ Kept(lines) = Kept(sh[q]) \o Whole(recs)
  BY <1>1, KeptWritten
<1> HIDE DEF lines
<1>3. [sh EXCEPT ![q] = lines] = LastAs(sh, q, lines)
  BY SetLast
<1>4. ShardsFit(LastAs(sh, q, lines), q) /\ RecordsOf(LastAs(sh, q, lines)) = RecordsOf(sh) \o recs
  BY <1>2, LastChanged
<1> QED BY <1>3, <1>4, Zenon DEF lines

(* The last shard with a torn line. *)
LEMMA LastTorn ==
    ASSUME NEW q \in Nat, NEW sh, ShardsFit(sh, q), NEW recs \in Seq(Rec), recs # <<>>
    PROVE  /\ ShardsFit([sh EXCEPT ![q] = TornBy(sh[q], recs)], q)
           /\ RecordsOf([sh EXCEPT ![q] = TornBy(sh[q], recs)]) = RecordsOf(sh)
<1> DEFINE lines == TornBy(sh[q], recs)
<1>1. q \in 0 .. q /\ ShardOK(sh[q])
  BY DEF ShardsFit
<1>2. ShardOK(lines) /\ Kept(lines) = Kept(sh[q])
  BY <1>1, KeptTorn
<1>3. Kept(sh[q]) \in Seq(Line) /\ Whole(<<>>) = <<>> /\ <<>> \in Seq(Rec)
  BY <1>1, KeptIs, WholeOfNone
<1> HIDE DEF lines
<1>4. Kept(lines) = Kept(sh[q]) \o Whole(<<>>)
  BY <1>2, <1>3
<1>5. [sh EXCEPT ![q] = lines] = LastAs(sh, q, lines)
  BY SetLast
<1> DEFINE th == LastAs(sh, q, lines)
           none == <<>>
<1>6. none \in Seq(Rec) /\ Kept(lines) = Kept(sh[q]) \o Whole(none)
  BY <1>3, <1>4
<1> HIDE DEF none
<1>7. ShardsFit(th, q) /\ RecordsOf(th) = RecordsOf(sh) \o none
  BY <1>2, <1>6, LastChanged
<1> HIDE DEF th
<1>8. RecordsOf(sh) \in Seq(Rec)
  BY KeptShards
<1>9. RecordsOf(th) = RecordsOf(sh)
  BY <1>7, <1>8 DEF none
<1> QED BY <1>5, <1>7, <1>9, Zenon DEF lines, th

(* A write goes to the last shard, whole or torn, or stays in the buffer.   *)
LEMMA WriteLinePuts ==
    ASSUME Buffered, NEW s, Holds(s), NEW r \in Rec, NEW o \in WriteLine(s, r)
    PROVE  Holds(o.store) /\ o.ok \in BOOLEAN
           /\ Put(RecordsOf(s.shards), s.buffer, r, o.store, o.ok)
<1> DEFINE q == s.seq
           sh == s.shards
           b == s.buffer
           z == s.size
           recs == Append(b, r)
           full == Written(sh[q], recs)
           torn == TornBy(sh[q], recs)
<1>1. q \in Nat /\ s.file = q /\ b \in Seq(Rec) /\ ShardsFit(sh, q)
  BY StoreFields
<1>2. s = StoreOf(q, sh, z, b)
  BY StoreIs
<1>3. recs \in Seq(Rec) /\ recs # <<>> /\ <<>> \in Seq(Rec)
  BY <1>1
<1> HIDE DEF recs
<1> DEFINE fullSh == [sh EXCEPT ![q] = full]
           tornSh == [sh EXCEPT ![q] = torn]
<1>4. ShardsFit(fullSh, q) /\ RecordsOf(fullSh) = RecordsOf(sh) \o recs
  BY <1>1, <1>3, LastWritten, Zenon
<1>5. ShardsFit(tornSh, q) /\ RecordsOf(tornSh) = RecordsOf(sh)
  BY <1>1, <1>3, LastTorn, Zenon
<1> DEFINE w == StoreOf(q, sh, z, b)
<1>6. \/ o = Outcome(TRUE, [s EXCEPT !.shards[q] = full, !.buffer = <<>>, !.size = @ + 1])
      \/ o = Outcome(FALSE, [s EXCEPT !.buffer = recs])
      \/ o = Outcome(FALSE, [s EXCEPT !.buffer = recs, !.shards[q] = torn])
      \/ o = Outcome(FALSE, [s EXCEPT !.buffer = <<>>, !.shards[q] = full])
  <2> DEFINE ls == s.shards[s.file]
             rs == Append(s.buffer, r)
             t == [s EXCEPT !.spoilt = @ \cup RunTogether(ls, rs)]
  <2>1. Faults \cap {"cut"} = {} /\ Faults \cap {"newline"} = {}
    BY DEF Buffered
  <2>2. \/ o = Outcome(TRUE, [t EXCEPT !.shards[t.file] = Written(ls, rs),
                                       !.buffer = <<>>, !.size = @ + 1])
        \/ o = Outcome(FALSE, [t EXCEPT !.buffer = rs])
        \/ o = Outcome(FALSE, [t EXCEPT !.buffer = rs, !.shards[t.file] = TornBy(ls, rs)])
        \/ o = Outcome(FALSE, [t EXCEPT !.buffer = <<>>, !.shards[t.file] = Written(ls, rs)])
    <3>1. UNION {CutShort(t, r) : x \in Faults \cap {"cut"}} = {}
      BY <2>1, Zenon
    <3> QED BY <2>1, <3>1, Zenon DEF WriteLine
  <2>3. ShardOK(ls)
    BY <1>1 DEF ShardsFit
  <2>4. RunTogether(ls, rs) = {}
    BY <2>3, NoneJoined
  <2>5. [w EXCEPT !.spoilt = @ \cup {}] = w
    BY DEF StoreOf
  <2>6. t = s
    BY <1>2, <2>4, <2>5, Zenon
  <2> HIDE DEF t
  <2> QED BY <1>1, <2>2, <2>6, Zenon DEF recs
<1> HIDE DEF q, sh, b, z, full, torn
<1>7. [s EXCEPT !.shards[q] = full, !.buffer = <<>>, !.size = @ + 1]
           = StoreOf(q, fullSh, z + 1, <<>>)
  <2>1. [w EXCEPT !.shards[q] = full, !.buffer = <<>>, !.size = @ + 1]
          = [[[w EXCEPT !.shards[q] = full] EXCEPT !.buffer = <<>>] EXCEPT !.size = @ + 1]
    BY DEF StoreOf
  <2>2. [w EXCEPT !.shards[q] = full] = StoreOf(q, fullSh, z, b)
    BY DEF StoreOf
  <2> DEFINE none == <<>>
             m == z + 1
  <2>3. StoreOf(q, fullSh, z, none).size = z
    BY DEF StoreOf
  <2> HIDE DEF fullSh, none, m
  <2>4. [StoreOf(q, fullSh, z, b) EXCEPT !.buffer = none] = StoreOf(q, fullSh, z, none)
    BY SetBuffer
  <2>5. [StoreOf(q, fullSh, z, none) EXCEPT !.size = m] = StoreOf(q, fullSh, m, none)
    BY SetSize
  <2>6. [StoreOf(q, fullSh, z, none) EXCEPT !.size = @ + 1] = StoreOf(q, fullSh, m, none)
    BY <2>3, <2>5, Zenon DEF m
  <2> QED BY <1>2, <2>1, <2>2, <2>4, <2>6, Zenon DEF none, m
<1>8. [s EXCEPT !.buffer = recs] = StoreOf(q, sh, z, recs)
  <2>1. [w EXCEPT !.buffer = recs] = StoreOf(q, sh, z, recs)
    BY DEF StoreOf
  <2> QED BY <1>2, <2>1, Zenon
<1>9. [s EXCEPT !.buffer = recs, !.shards[q] = torn] = StoreOf(q, tornSh, z, recs)
  <2>1. [w EXCEPT !.buffer = recs, !.shards[q] = torn]
          = [[w EXCEPT !.shards[q] = torn] EXCEPT !.buffer = recs]
    BY DEF StoreOf
  <2>2. [w EXCEPT !.shards[q] = torn] = StoreOf(q, tornSh, z, b)
    BY DEF StoreOf
  <2>3. [StoreOf(q, tornSh, z, b) EXCEPT !.buffer = recs] = StoreOf(q, tornSh, z, recs)
    BY DEF StoreOf
  <2> QED BY <1>2, <2>1, <2>2, <2>3, Zenon
<1>10. [s EXCEPT !.buffer = <<>>, !.shards[q] = full] = StoreOf(q, fullSh, z, <<>>)
  <2>1. [w EXCEPT !.buffer = <<>>, !.shards[q] = full]
          = [[w EXCEPT !.shards[q] = full] EXCEPT !.buffer = <<>>]
    BY DEF StoreOf
  <2>2. [w EXCEPT !.shards[q] = full] = StoreOf(q, fullSh, z, b)
    BY DEF StoreOf
  <2> DEFINE none == <<>>
  <2> HIDE DEF fullSh, none
  <2>3. [StoreOf(q, fullSh, z, b) EXCEPT !.buffer = none] = StoreOf(q, fullSh, z, none)
    BY SetBuffer
  <2> QED BY <1>2, <2>1, <2>2, <2>3, Zenon DEF none
<1>11. \A st : Outcome(TRUE, st).ok = TRUE /\ Outcome(FALSE, st).ok = FALSE
              /\ Outcome(TRUE, st).store = st /\ Outcome(FALSE, st).store = st
  BY DEF Outcome
<1>12. \A y : /\ Holds(StoreOf(q, fullSh, y, <<>>)) /\ StoreOf(q, fullSh, y, <<>>).shards = fullSh
              /\ StoreOf(q, fullSh, y, <<>>).buffer = <<>>
  <2> DEFINE none == <<>>
  <2>1. none \in Seq(Rec)
    OBVIOUS
  <2> HIDE DEF none, fullSh
  <2>2. \A y : /\ Holds(StoreOf(q, fullSh, y, none)) /\ StoreOf(q, fullSh, y, none).shards = fullSh
               /\ StoreOf(q, fullSh, y, none).buffer = none
    BY <1>1, <1>4, <2>1, StoreOfHolds
  <2> QED BY <2>2 DEF none
<1>13. /\ Holds(StoreOf(q, sh, z, recs)) /\ StoreOf(q, sh, z, recs).shards = sh
       /\ StoreOf(q, sh, z, recs).buffer = recs
  BY <1>1, <1>3, StoreOfHolds
<1>14. /\ Holds(StoreOf(q, tornSh, z, recs)) /\ StoreOf(q, tornSh, z, recs).shards = tornSh
       /\ StoreOf(q, tornSh, z, recs).buffer = recs
  BY <1>1, <1>3, <1>5, StoreOfHolds
<1> HIDE DEF fullSh, tornSh
<1> DEFINE Goal(ok, t) == Holds(t) /\ ok \in BOOLEAN /\ Put(RecordsOf(sh), b, r, t, ok)
<1>15. \A y, ok : ok \in BOOLEAN => Goal(ok, StoreOf(q, fullSh, y, <<>>))
  BY <1>4, <1>12, Zenon DEF Put, recs
<1>16. Goal(FALSE, StoreOf(q, sh, z, recs))
  BY <1>13, Zenon DEF Put, recs
<1>17. Goal(FALSE, StoreOf(q, tornSh, z, recs))
  BY <1>5, <1>14, Zenon DEF Put, recs
<1> HIDE DEF Goal
<1>18. Goal(o.ok, o.store)
  <2>1. CASE o = Outcome(TRUE, StoreOf(q, fullSh, z + 1, <<>>))
    <3>1. o.ok = TRUE /\ o.store = StoreOf(q, fullSh, z + 1, <<>>)
      BY <1>11, <2>1, Zenon
    <3> QED BY <1>15, <3>1, Zenon
  <2>2. CASE o = Outcome(FALSE, StoreOf(q, sh, z, recs))
    <3>1. o.ok = FALSE /\ o.store = StoreOf(q, sh, z, recs)
      BY <1>11, <2>2, Zenon
    <3> QED BY <1>16, <3>1, Zenon
  <2>3. CASE o = Outcome(FALSE, StoreOf(q, tornSh, z, recs))
    <3>1. o.ok = FALSE /\ o.store = StoreOf(q, tornSh, z, recs)
      BY <1>11, <2>3, Zenon
    <3> QED BY <1>17, <3>1, Zenon
  <2>4. CASE o = Outcome(FALSE, StoreOf(q, fullSh, z, <<>>))
    <3>1. o.ok = FALSE /\ o.store = StoreOf(q, fullSh, z, <<>>)
      BY <1>11, <2>4, Zenon
    <3> QED BY <1>15, <3>1, Zenon
  <2> QED BY <1>6, <1>7, <1>8, <1>9, <1>10, <2>1, <2>2, <2>3, <2>4, Zenon
<1> QED BY <1>18 DEF Goal, sh, b

(* The drop of a writer writes its buffer or loses it. *)
Flushed(recs, buf, recs2, buf2) ==
    \/ recs2 = recs /\ buf2 = buf
    \/ recs2 = recs /\ buf2 = <<>>
    \/ recs2 = recs \o buf /\ buf2 = <<>>

(* What a dropped writer leaves. *)
LEMMA DroppedFlushes ==
    ASSUME NEW s, Holds(s), NEW d \in Dropped(s)
    PROVE  /\ ShardsFit(d, s.seq)
           /\ RecordsOf(d) = RecordsOf(s.shards) \/ RecordsOf(d) = RecordsOf(s.shards) \o s.buffer
<1> DEFINE q == s.seq
           sh == s.shards
           lines == Written(sh[q], s.buffer)
<1>1. q \in Nat /\ s.file = q /\ s.buffer \in Seq(Rec) /\ ShardsFit(sh, q) /\ DOMAIN sh = 0 .. q
  BY StoreFields
<1>2. d = sh \/ d = SetLines(s, q, lines)
  BY <1>1 DEF Dropped
<1>3. SetLines(s, q, lines) = [sh EXCEPT ![q] = lines]
  <2>1. (0 .. q) \cup {q} = 0 .. q
    BY <1>1
  <2>2. SetLines(s, q, lines) = LastAs(sh, q, lines)
    BY <1>1, <2>1 DEF SetLines, LastAs
  <2> HIDE DEF q, sh, lines
  <2>3. [sh EXCEPT ![q] = lines] = LastAs(sh, q, lines)
    BY <1>1, SetLast
  <2> QED BY <2>2, <2>3
<1>4. ShardsFit([sh EXCEPT ![q] = lines], q) /\ RecordsOf([sh EXCEPT ![q] = lines]) = RecordsOf(sh) \o s.buffer
  BY <1>1, LastWritten, Zenon
<1> HIDE DEF lines
<1> QED BY <1>1, <1>2, <1>3, <1>4, Zenon

(* A new shard behind the others, without lines. *)
LEMMA ReadFurther ==
    ASSUME NEW q \in Nat, NEW sh, ShardsFit(sh, q), NEW th,
           th = [k \in 0 .. q + 1 |-> IF k = q + 1 THEN <<>> ELSE sh[k]]
    PROVE  ShardsFit(th, q + 1) /\ RecordsOf(th) = RecordsOf(sh)
<1>1. th[q + 1] = <<>> /\ \A k \in 0 .. q : th[k] = sh[k]
  OBVIOUS
<1>2. ShardOK(<<>>) /\ Kept(<<>>) = <<>>
  <2>1. <<>> \in Seq(Line)
    OBVIOUS
  <2> QED BY <2>1, LinesAreWhole
<1>3. ShardsFit(th, q + 1)
  <2>1. \A k \in 0 .. q + 1 : k = q + 1 \/ k \in 0 .. q
    OBVIOUS
  <2>2. \A k \in 0 .. q + 1 : ShardOK(th[k])
    BY <1>1, <1>2, <2>1, Zenon DEF ShardsFit
  <2>3. th = [k \in 0 .. q + 1 |-> th[k]]
    OBVIOUS
  <2> QED BY <2>2, <2>3 DEF ShardsFit
<1> DEFINE a == KeptOf(sh)
           b == KeptOf(th)
           p == q + 1
<1>4. a \in Shards(q) /\ \A k \in 0 .. q : a[k] = Kept(sh[k])
  BY KeptShards
<1>5. b \in Shards(p) /\ \A k \in 0 .. p : b[k] = Kept(th[k])
  <2>1. p \in Nat
    OBVIOUS
  <2> HIDE DEF p
  <2>2. ShardsFit(th, p)
    BY <1>3 DEF p
  <2> QED BY <2>1, <2>2, KeptShards
<1>6. DOMAIN b = 0 .. q + 1
  <2> HIDE DEF b
  <2> QED BY <1>5 DEF Shards
<1>7. b[q + 1] = <<>> /\ \A k \in 0 .. q : b[k] = a[k]
  <2>1. q + 1 \in 0 .. p /\ \A k \in 0 .. q : k \in 0 .. p
    OBVIOUS
  <2> HIDE DEF a, b
  <2> QED BY <1>1, <1>2, <1>4, <1>5, <2>1, Zenon
<1> HIDE DEF a, b
<1>8. ReadLines(b) = ReadLines(a)
  BY <1>4, <1>6, <1>7, ReadRotated
<1> QED BY <1>3, <1>8 DEF RecordsOf, a, b

(* A rotation opens an empty shard and drops the old writer. *)
LEMMA RotateFlushes ==
    ASSUME Buffered, NEW s, Holds(s), NEW o \in rotate(s)
    PROVE  /\ o.ok = TRUE /\ Holds(o.store)
           /\ Flushed(RecordsOf(s.shards), s.buffer, RecordsOf(o.store.shards), o.store.buffer)
<1> DEFINE q == s.seq
           p == q + 1
<1>1. q \in Nat /\ p \in Nat
  BY StoreFields
<1>2. Faults \cap {"open"} = {}
  BY DEF Buffered
<1>3. PICK d \in Dropped(s) :
          o = Outcome(TRUE, [shards |-> SetLines([shards |-> d], q + 1, <<>>),
                             seq |-> q + 1, file |-> q + 1, size |-> 0, buffer |-> <<>>, spoilt |-> s.spoilt])
  BY <1>2 DEF rotate
<1>4. /\ ShardsFit(d, q)
      /\ RecordsOf(d) = RecordsOf(s.shards) \/ RecordsOf(d) = RecordsOf(s.shards) \o s.buffer
  BY DroppedFlushes
<1> DEFINE th == SetLines([shards |-> d], q + 1, <<>>)
<1>5. o.ok = TRUE /\ o.store = StoreOf(p, th, 0, <<>>)
  <2>1. s.spoilt = {}
    BY DEF Holds
  <2>2. o = Outcome(TRUE, StoreOf(p, th, 0, <<>>))
    BY <1>3, <2>1, Zenon DEF StoreOf
  <2> HIDE DEF th
  <2> QED BY <2>2 DEF Outcome
<1>6. th = [k \in 0 .. q + 1 |-> IF k = q + 1 THEN <<>> ELSE d[k]]
  <2>1. d = [k \in 0 .. q |-> d[k]]
    BY <1>4 DEF ShardsFit
  <2>2. DOMAIN d = 0 .. q
    BY <2>1, Zenon
  <2>3. (0 .. q) \cup {q + 1} = 0 .. q + 1
    BY <1>1
  <2> QED BY <2>2, <2>3 DEF SetLines
<1> HIDE DEF th
<1>7. ShardsFit(th, q + 1) /\ RecordsOf(th) = RecordsOf(d)
  BY <1>1, <1>4, <1>6, ReadFurther
<1>8. Holds(StoreOf(p, th, 0, <<>>)) /\ StoreOf(p, th, 0, <<>>).shards = th
      /\ StoreOf(p, th, 0, <<>>).buffer = <<>>
  <2> DEFINE none == <<>>
             zero == 0
  <2>1. none \in Seq(Rec)
    OBVIOUS
  <2>2. ShardsFit(th, p)
    BY <1>7
  <2> HIDE DEF none, zero, p
  <2>3. Holds(StoreOf(p, th, zero, none)) /\ StoreOf(p, th, zero, none).shards = th
        /\ StoreOf(p, th, zero, none).buffer = none
    BY <1>1, <2>1, <2>2, StoreOfHolds
  <2> QED BY <2>3 DEF none, zero
<1> HIDE DEF p, q
<1> QED BY <1>4, <1>5, <1>7, <1>8, Zenon DEF Flushed

(* An append, after a rotation when one is due. *)
LEMMA AppendPuts ==
    ASSUME Buffered, NEW s, Holds(s), NEW r \in Rec,
           NEW o \in append_record_with_hash(s, r)
    PROVE  /\ Holds(o.store) /\ o.ok \in BOOLEAN
           /\ \E recs, buf : /\ Flushed(RecordsOf(s.shards), s.buffer, recs, buf)
                             /\ Put(recs, buf, r, o.store, o.ok)
<1>1. CASE o \in WriteLine(s, r)
  <2>1. Holds(o.store) /\ o.ok \in BOOLEAN /\ Put(RecordsOf(s.shards), s.buffer, r, o.store, o.ok)
    BY <1>1, WriteLinePuts
  <2> QED BY <2>1, Zenon DEF Flushed
<1>2. CASE NeedsRotation(s)
  <2>1. \A x \in rotate(s) : x.ok = TRUE
    BY RotateFlushes
  <2>2. o \in UNION {WriteLine(x.store, r) : x \in {y \in rotate(s) : y.ok}}
    BY <1>2, <2>1 DEF append_record_with_hash
  <2>3. PICK x \in rotate(s) : o \in WriteLine(x.store, r)
    BY <2>2
  <2>4. /\ Holds(x.store)
        /\ Flushed(RecordsOf(s.shards), s.buffer, RecordsOf(x.store.shards), x.store.buffer)
    BY RotateFlushes
  <2>5. /\ Holds(o.store) /\ o.ok \in BOOLEAN
        /\ Put(RecordsOf(x.store.shards), x.store.buffer, r, o.store, o.ok)
    BY <2>3, <2>4, WriteLinePuts
  <2> QED BY <2>4, <2>5, Zenon
<1> QED BY <1>1, <1>2 DEF append_record_with_hash

(* A crash drops the writer. *)
LEMMA CrashFlushes ==
    ASSUME NEW s, Holds(s), NEW d \in Dropped(s), NEW t, t = [s EXCEPT !.shards = d, !.buffer = <<>>]
    PROVE  /\ Holds(t) /\ t.buffer = <<>>
           /\ Flushed(RecordsOf(s.shards), s.buffer, RecordsOf(t.shards), t.buffer)
<1> DEFINE q == s.seq
           z == s.size
           none == <<>>
<1>1. q \in Nat /\ s = StoreOf(q, s.shards, z, s.buffer) /\ none \in Seq(Rec)
  BY StoreFields, StoreIs
<1>2. t = StoreOf(q, d, z, none)
  <2> DEFINE w == StoreOf(q, s.shards, z, s.buffer)
  <2>1. [w EXCEPT !.shards = d, !.buffer = <<>>] = [[w EXCEPT !.shards = d] EXCEPT !.buffer = <<>>]
    BY DEF StoreOf
  <2>2. [w EXCEPT !.shards = d] = StoreOf(q, d, z, s.buffer)
    BY DEF StoreOf
  <2>3. [StoreOf(q, d, z, s.buffer) EXCEPT !.buffer = <<>>] = StoreOf(q, d, z, <<>>)
    BY DEF StoreOf
  <2>4. t = [w EXCEPT !.shards = d, !.buffer = <<>>]
    BY <1>1, Zenon
  <2> QED BY <2>1, <2>2, <2>3, <2>4, Zenon
<1>3. /\ ShardsFit(d, q)
      /\ RecordsOf(d) = RecordsOf(s.shards) \/ RecordsOf(d) = RecordsOf(s.shards) \o s.buffer
  BY DroppedFlushes
<1> HIDE DEF q, z, none
<1>4. Holds(t) /\ t.shards = d /\ t.buffer = none
  <2>1. /\ Holds(StoreOf(q, d, z, none)) /\ StoreOf(q, d, z, none).shards = d
        /\ StoreOf(q, d, z, none).buffer = none
    BY <1>1, <1>3, StoreOfHolds
  <2> QED BY <1>2, <2>1, Zenon
<1> QED BY <1>3, <1>4, Zenon DEF Flushed, none

(* The writer a recovery mounts. *)
LEMMA MountHolds ==
    ASSUME NEW s, Holds(s)
    PROVE  /\ Holds(append_with_options(s))
           /\ append_with_options(s).shards = s.shards
           /\ append_with_options(s).buffer = <<>>
<1> DEFINE q == s.seq
           sh == s.shards
           z == IF q = 0 THEN Len(sh[0]) ELSE 0
           none == <<>>
<1>1. q \in Nat /\ ShardsFit(sh, q) /\ DOMAIN sh = 0 .. q /\ none \in Seq(Rec)
  BY StoreFields
<1>2. LastShard(sh) = q
  BY <1>1, ReaderFindsAll
<1>3. append_with_options(s) = StoreOf(q, sh, z, none)
  <2>1. s.spoilt = {}
    BY DEF Holds
  <2> QED BY <1>2, <2>1, Zenon DEF append_with_options, StoreOf
<1> HIDE DEF q, sh, z, none
<1>4. Holds(StoreOf(q, sh, z, none)) /\ StoreOf(q, sh, z, none).shards = sh
      /\ StoreOf(q, sh, z, none).buffer = none
  BY <1>1, StoreOfHolds
<1> QED BY <1>3, <1>4, Zenon DEF sh, none

(* Cutting a torn line off takes nothing that is kept. *)
LEMMA CutKeeps ==
    ASSUME NEW s, Holds(s), NEW k \in DOMAIN s.shards, EndsTorn(s.shards[k]),
           NEW t, t = [s EXCEPT !.shards[k] = Front(@)]
    PROVE  Holds(t) /\ RecordsOf(t.shards) = RecordsOf(s.shards) /\ t.buffer = s.buffer
<1> DEFINE q == s.seq
           sh == s.shards
           z == s.size
           b == s.buffer
           th == [sh EXCEPT ![k] = Front(sh[k])]
<1>1. q \in Nat /\ b \in Seq(Rec) /\ ShardsFit(sh, q) /\ DOMAIN sh = 0 .. q
  BY StoreFields
<1>2. s = StoreOf(q, sh, z, b)
  BY StoreIs
<1>3. k \in 0 .. q /\ ShardOK(sh[k]) /\ EndsTorn(sh[k])
  BY <1>1 DEF ShardsFit
<1>4. ShardOK(Front(sh[k])) /\ Kept(Front(sh[k])) = Kept(sh[k])
  BY <1>3, KeptCut
<1>5. /\ DOMAIN th = 0 .. q /\ th = [j \in 0 .. q |-> th[j]]
      /\ th[k] = Front(sh[k]) /\ \A j \in 0 .. q : j # k => th[j] = sh[j]
  BY <1>1, <1>3
<1> HIDE DEF q, sh, z, b
<1>6. t = StoreOf(q, th, z, b)
  <2> DEFINE w == StoreOf(q, sh, z, b)
  <2>1. [w EXCEPT !.shards[k] = Front(@)] = StoreOf(q, th, z, b)
    BY DEF StoreOf
  <2> QED BY <1>2, <2>1, Zenon
<1> HIDE DEF th
<1>7. \A j \in 0 .. q : ShardOK(th[j]) /\ Kept(th[j]) = Kept(sh[j])
  BY <1>1, <1>4, <1>5, Zenon DEF ShardsFit
<1>8. ShardsFit(th, q)
  BY <1>5, <1>7, Zenon DEF ShardsFit
<1>9. KeptOf(th) = KeptOf(sh)
  BY <1>1, <1>5, <1>7 DEF KeptOf
<1>10. Holds(t) /\ t.shards = th /\ t.buffer = b
  <2>1. /\ Holds(StoreOf(q, th, z, b)) /\ StoreOf(q, th, z, b).shards = th
        /\ StoreOf(q, th, z, b).buffer = b
    BY <1>1, <1>8, StoreOfHolds
  <2> QED BY <1>6, <2>1, Zenon
<1> QED BY <1>9, <1>10 DEF RecordsOf, sh, b

(* Every line of every shard is among those a reader finds. *)
Among(s, x) == \E i \in 1 .. Len(s) : s[i] = x

(* Everything that is in a part is in the whole. *)
LEMMA FlattenHolds ==
    ASSUME NEW S, NEW n \in Nat \ {0}, NEW ss, Len(ss) = n, \A i \in 1 .. n : ss[i] \in Seq(S),
           NEW k0 \in 1 .. n, NEW j0 \in 1 .. Len(ss[k0])
    PROVE  Among(FlattenSeq(ss), ss[k0][j0])
<1>1. PICK F : Flattens(ss, n, F) /\ FlattenSeq(ss) = F[n]
  BY FlattenSteps
<1> DEFINE Has(m) == /\ F[m] \in Seq(S)
                     /\ \A k \in 1 .. m : \A j \in 1 .. Len(ss[k]) :
                           \E i \in 1 .. Len(F[m]) : F[m][i] = ss[k][j]
           Bad == {m \in 1 .. n : ~Has(m)}
<1>2. Bad = {}
  <2>1. SUFFICES ASSUME Bad # {} PROVE FALSE
    OBVIOUS
  <2>2. PICK m \in Bad : \A x \in Bad : m <= x
    <3>1. Bad \subseteq Nat
      OBVIOUS
    <3> HIDE DEF Bad
    <3> QED BY <2>1, <3>1, LeastNatural
  <2>3. F[m] = IF m = 1 THEN ss[m] ELSE F[m - 1] \o ss[m]
    BY <1>1 DEF Flattens
  <2>4. ss[m] \in Seq(S)
    OBVIOUS
  <2>5. CASE m = 1
    <3>1. F[m] = ss[m]
      BY <2>3, <2>5
    <3>2. \A k \in 1 .. m : k = m
      BY <2>5
    <3>3. Has(m)
      BY <2>4, <3>1, <3>2
    <3> QED BY <3>3
  <2>6. CASE m # 1
    <3> DEFINE p == m - 1
               a == F[p]
               b == ss[m]
    <3>1. p \in 1 .. n /\ p \notin Bad /\ \A k \in 1 .. m : k = m \/ k \in 1 .. p
      <4>1. m \in 1 .. n
        OBVIOUS
      <4>2. p \in 1 .. n /\ ~(m <= p) /\ \A k \in 1 .. m : k = m \/ k \in 1 .. p
        BY <2>6, <4>1
      <4> HIDE DEF Bad
      <4> QED BY <2>2, <4>2
    <3>2. Has(p)
      BY <3>1
    <3>3. F[m] = a \o b
      BY <2>3, <2>6
    <3>4. a \in Seq(S) /\ b \in Seq(S)
      BY <2>4, <3>2
    <3> HIDE DEF a, b
    <3>5. /\ a \o b \in Seq(S) /\ Len(a \o b) = Len(a) + Len(b) /\ Len(a) \in Nat /\ Len(b) \in Nat
          /\ \A i \in 1 .. Len(a) : (a \o b)[i] = a[i]
          /\ \A i \in 1 .. Len(b) : (a \o b)[Len(a) + i] = b[i]
      BY <3>4, Beyond
    <3>6. (\A i \in 1 .. Len(a) : i \in 1 .. Len(a \o b)) /\ \A i \in 1 .. Len(b) : Len(a) + i \in 1 .. Len(a \o b)
      BY <3>5
    <3>7. ASSUME NEW k \in 1 .. m, NEW j \in 1 .. Len(ss[k])
          PROVE  \E i \in 1 .. Len(a \o b) : (a \o b)[i] = ss[k][j]
      <4>1. CASE k = m
        BY <3>5, <3>6, <4>1 DEF b
      <4>2. CASE k \in 1 .. p
        <5>1. PICK i \in 1 .. Len(a) : a[i] = ss[k][j]
          BY <3>2, <4>2 DEF a
        <5> QED BY <3>5, <3>6, <5>1
      <4> QED BY <3>1, <4>1, <4>2
    <3>8. Has(m)
      BY <3>3, <3>5, <3>7, SMTT(60)
    <3> QED BY <3>8
  <2> QED BY <2>5, <2>6
<1>3. Has(n)
  <2>1. n \in 1 .. n
    OBVIOUS
  <2> HIDE DEF Has
  <2> QED BY <1>2, <2>1
<1>4. \E i \in 1 .. Len(F[n]) : F[n][i] = ss[k0][j0]
  <2> HIDE DEF Bad
  <2> QED BY <1>3
<1>5. F[n] = FlattenSeq(ss)
  BY <1>1, Zenon
<1> HIDE DEF Bad, Has
<1> QED BY <1>4, <1>5, Zenon DEF Among

(* Readable shards: what a reader finds are the whole lines. *)
LEMMA ReadableStored ==
    ASSUME NEW s, Holds(s), Readable(s.shards)
    PROVE  read_wal_with_hash(s.shards) = RecordsOf(s.shards)
<1> DEFINE q == s.seq
           sh == s.shards
           ss == InOrder(sh, q)
           n == q + 1
<1>1. q \in Nat /\ ShardsFit(sh, q) /\ DOMAIN sh = 0 .. q
  BY StoreFields
<1>2. ReadLines(sh) = FlattenSeq(ss)
  BY <1>1, ReaderFindsAll
<1>3. n \in Nat \ {0} /\ Len(ss) = n /\ \A i \in 1 .. n : ss[i] = sh[i - 1] /\ i - 1 \in 0 .. q
  <2>1. Len(ss) = q + 1 /\ \A i \in 1 .. q + 1 : ss[i] = sh[i - 1]
    BY <1>1, InOrderIs
  <2> HIDE DEF q, ss
  <2> QED BY <1>1, <2>1
<1>4. \A k \in 0 .. q : sh[k] \in Seq(AnyLine)
  BY <1>1 DEF ShardsFit, ShardOK
<1> HIDE DEF ss, n, q, sh
<1>5. \A i \in 1 .. n : ss[i] \in Seq(AnyLine)
  BY <1>3, <1>4
<1>6. FlattenSeq(ss) \in Seq(AnyLine)
  BY <1>3, <1>5, FlattenType
<1>7. \A i \in 1 .. Len(FlattenSeq(ss)) : FlattenSeq(ss)[i].form = "whole"
  <2>1. DOMAIN FlattenSeq(ss) = 1 .. Len(FlattenSeq(ss))
    BY <1>6
  <2>2. \A i \in DOMAIN ReadLines(sh) : ReadLines(sh)[i].form \in {"whole", "bare"}
    BY DEF Readable, sh
  <2>3. \A l \in AnyLine : l.form \in {"whole", "torn"}
    BY DEF AnyLine
  <2>4. \A i \in 1 .. Len(FlattenSeq(ss)) : FlattenSeq(ss)[i] \in AnyLine
    BY <1>6
  <2>5. \A i \in 1 .. Len(FlattenSeq(ss)) : FlattenSeq(ss)[i].form \in {"whole", "bare"}
    BY <1>2, <2>1, <2>2, Zenon
  <2> QED BY <2>3, <2>4, <2>5
<1>8. \A k \in 1 .. n : \A j \in 1 .. Len(ss[k]) : Among(FlattenSeq(ss), ss[k][j])
  <2>1. n \in Nat \ {0} /\ Len(ss) = n
    BY <1>3
  <2> QED BY <1>5, <2>1, FlattenHolds
<1>9. ASSUME NEW k \in 0 .. q PROVE Kept(sh[k]) = sh[k]
  <2>1. k + 1 \in 1 .. n /\ ss[k + 1] = sh[k]
    <3>1. k + 1 \in 1 .. n /\ (k + 1) - 1 = k
      BY <1>1 DEF n
    <3> QED BY <1>3, <3>1
  <2>2. \A j \in 1 .. Len(sh[k]) : sh[k][j].form = "whole"
    <3>1. SUFFICES ASSUME NEW j \in 1 .. Len(sh[k]) PROVE sh[k][j].form = "whole"
      OBVIOUS
    <3>2. PICK i \in 1 .. Len(FlattenSeq(ss)) : FlattenSeq(ss)[i] = sh[k][j]
      BY <1>8, <2>1, Zenon DEF Among
    <3> QED BY <1>7, <3>2, Zenon
  <2>3. sh[k] \in Seq(Line)
    BY <1>4, <2>2, WholeAreLines
  <2> QED BY <2>3, LinesAreWhole
<1>10. KeptOf(sh) = sh
  <2>1. KeptOf(sh) = [k \in 0 .. q |-> Kept(sh[k])]
    BY <1>1 DEF KeptOf
  <2>2. sh = [k \in 0 .. q |-> sh[k]]
    BY <1>1 DEF ShardsFit
  <2>3. [k \in 0 .. q |-> Kept(sh[k])] = [k \in 0 .. q |-> sh[k]]
    BY <1>9
  <2> QED BY <2>1, <2>2, <2>3, Zenon
<1>11. read_wal_with_hash(sh) = Recs(ReadLines(sh))
  BY DEF read_wal_with_hash, Recs
<1> QED BY <1>10, <1>11, Zenon DEF RecordsOf, sh

-----------------------------------------------------------------------------
(* Chains of records. *)

(* The facts of records. *)
LEMMA FactsAre ==
    ASSUME NEW recs \in Seq(Rec)
    PROVE  /\ FactsOf(recs) \in Seq(Fact) /\ Len(FactsOf(recs)) = Len(recs)
           /\ \A i \in 1 .. Len(recs) : FactsOf(recs)[i] = recs[i].fact
<1>1. DOMAIN recs = 1 .. Len(recs) /\ Len(recs) \in Nat /\ \A i \in 1 .. Len(recs) : recs[i] \in Rec
  OBVIOUS
<1>2. FactsOf(recs) = [i \in 1 .. Len(recs) |-> recs[i].fact]
  BY <1>1 DEF FactsOf
<1>3. \A i \in 1 .. Len(recs) : recs[i].fact \in Fact
  BY <1>1 DEF Rec
<1>4. FactsOf(recs) \in [1 .. Len(recs) -> Fact]
  BY <1>2, <1>3
<1>5. FactsOf(recs) \in Seq(Fact)
  BY <1>1, <1>4
<1> QED BY <1>1, <1>2, <1>5

(* One element more. *)
LEMMA UptoNext ==
    ASSUME NEW S, NEW s \in Seq(S), NEW i \in 1 .. Len(s)
    PROVE  SubSeq(s, 1, i) = Append(SubSeq(s, 1, i - 1), s[i])
OBVIOUS

(* The hashes of a chain are its facts up to each record ... *)
LEMMA LinkedHashes ==
    ASSUME NEW recs \in Seq(Rec), Linked(recs, genesis)
    PROVE  \A i \in 1 .. Len(recs) :
              /\ recs[i].prev_hash = SubSeq(FactsOf(recs), 1, i - 1)
              /\ recs[i].chain_hash = SubSeq(FactsOf(recs), 1, i)
<1> DEFINE f == FactsOf(recs)
           n == Len(recs)
           Good(i) == recs[i].prev_hash = SubSeq(f, 1, i - 1) /\ recs[i].chain_hash = SubSeq(f, 1, i)
           Bad == {i \in 1 .. n : ~Good(i)}
<1>1. f \in Seq(Fact) /\ Len(f) = n /\ n \in Nat /\ \A i \in 1 .. n : f[i] = recs[i].fact
  BY FactsAre
<1>2. \A i \in 1 .. n : /\ recs[i].prev_hash = IF i = 1 THEN <<>> ELSE recs[i - 1].chain_hash
                        /\ recs[i].chain_hash = Append(recs[i].prev_hash, recs[i].fact)
  BY DEF Linked, genesis, chain_step
<1>3. SUFFICES ASSUME Bad # {} PROVE FALSE
  OBVIOUS
<1>4. PICK i \in Bad : \A j \in Bad : i <= j
  <2>1. Bad \subseteq Nat
    OBVIOUS
  <2> HIDE DEF Bad
  <2> QED BY <1>3, <2>1, LeastNatural
<1> HIDE DEF f
<1>5. recs[i].prev_hash = SubSeq(f, 1, i - 1)
  <2>1. CASE i = 1
    <3>1. SubSeq(f, 1, 0) = <<>>
      BY <1>1
    <3>2. recs[i].prev_hash = <<>> /\ i - 1 = 0
      BY <1>2, <2>1
    <3> QED BY <3>1, <3>2, Zenon
  <2>2. CASE i # 1
    <3>1. i - 1 \in 1 .. n /\ i - 1 \notin Bad
      BY <1>1, <1>4, <2>2, SMTT(60)
    <3>2. Good(i - 1)
      BY <3>1
    <3> QED BY <1>2, <2>2, <3>2
  <2> QED BY <2>1, <2>2
<1>6. recs[i].chain_hash = SubSeq(f, 1, i)
  <2>1. SubSeq(f, 1, i) = Append(SubSeq(f, 1, i - 1), f[i])
    BY <1>1, UptoNext
  <2> QED BY <1>1, <1>2, <1>5, <2>1
<1> QED BY <1>5, <1>6

(* ... and such records are a chain. *)
LEMMA HashesLinked ==
    ASSUME NEW recs \in Seq(Rec),
           \A i \in 1 .. Len(recs) :
              /\ recs[i].prev_hash = SubSeq(FactsOf(recs), 1, i - 1)
              /\ recs[i].chain_hash = SubSeq(FactsOf(recs), 1, i)
    PROVE  Linked(recs, genesis)
<1> DEFINE f == FactsOf(recs)
           n == Len(recs)
<1>1. f \in Seq(Fact) /\ Len(f) = n /\ n \in Nat /\ \A i \in 1 .. n : f[i] = recs[i].fact
  BY FactsAre
<1>2. DOMAIN recs = 1 .. n
  OBVIOUS
<1>3. ASSUME NEW i \in 1 .. n
      PROVE  /\ recs[i].prev_hash = IF i = 1 THEN <<>> ELSE recs[i - 1].chain_hash
             /\ recs[i].chain_hash = Append(recs[i].prev_hash, recs[i].fact)
  <2>1. SubSeq(f, 1, i) = Append(SubSeq(f, 1, i - 1), f[i])
    <3> HIDE DEF f
    <3> QED BY <1>1, UptoNext
  <2>2. recs[i].chain_hash = Append(recs[i].prev_hash, recs[i].fact)
    <3>1. recs[i].prev_hash = SubSeq(f, 1, i - 1) /\ recs[i].chain_hash = SubSeq(f, 1, i)
      OBVIOUS
    <3> HIDE DEF f
    <3> QED BY <1>1, <2>1, <3>1
  <2>3. CASE i = 1
    <3>1. SubSeq(f, 1, 0) = <<>>
      <4> HIDE DEF f
      <4> QED BY <1>1
    <3> QED BY <2>2, <2>3, <3>1
  <2>4. CASE i # 1
    <3>1. i - 1 \in 1 .. n
      BY <1>1, <2>4
    <3> QED BY <2>2, <2>4, <3>1
  <2> QED BY <2>3, <2>4
<1> QED BY <1>2, <1>3 DEF Linked, genesis, chain_step

(* The beginning of a chain is a chain. *)
LEMMA LinkedPrefix ==
    ASSUME NEW recs \in Seq(Rec), NEW t \in Seq(Rec), Begins(t, recs), Linked(recs, genesis)
    PROVE  Linked(t, genesis)
<1>1. /\ Len(t) <= Len(recs) /\ (\A i \in 1 .. Len(t) : t[i] = recs[i])
      /\ DOMAIN t = 1 .. Len(t) /\ DOMAIN recs = 1 .. Len(recs) /\ Len(t) \in Nat /\ Len(recs) \in Nat
  BY DEF Begins
<1>2. \A i \in 1 .. Len(t) : i \in 1 .. Len(recs) /\ (i # 1 => i - 1 \in 1 .. Len(t))
  BY <1>1
<1>3. \A i \in 1 .. Len(t) :
          /\ t[i].prev_hash = IF i = 1 THEN genesis ELSE t[i - 1].chain_hash
          /\ t[i].chain_hash = chain_step(t[i].prev_hash, t[i].fact)
  BY <1>1, <1>2 DEF Linked
<1> QED BY <1>1, <1>3 DEF Linked

-----------------------------------------------------------------------------
(* What the steps of the writer make of the records.                        *)

(* The first k records stay, and more may follow. *)
Grows(all, k, all2, k2) ==
    /\ all2 \in Seq(Rec) /\ k2 \in k .. Len(all2)
    /\ \A i \in 1 .. k : all2[i] = all[i]

(* What is on the disk stays there. *)
LEMMA InGrows ==
    ASSUME NEW all, NEW k \in Nat, NEW all2, NEW k2, Grows(all, k, all2, k2), NEW f, In(f, all, k)
    PROVE  In(f, all2, k2)
<1>1. PICK i \in 1 .. k : all[i].fact = f
  BY DEF In
<1>2. i \in 1 .. k2 /\ all2[i] = all[i]
  BY DEF Grows
<1> QED BY <1>1, <1>2 DEF In

(* A record rests on what it rested on. *)
LEMMA RestsGrows ==
    ASSUME NEW all, NEW k \in Nat, NEW all2, NEW k2, Grows(all, k, all2, k2),
           NEW r, Rests(r, all, k)
    PROVE  Rests(r, all2, k2)
<1>1. \A x \in DOMAIN r.prev_hash : In(r.prev_hash[x], all2, k2)
  BY InGrows DEF Rests
<1> QED BY <1>1 DEF Rests

(* A drop: the records of the buffer go or are written. *)
LEMMA SoundFlushed ==
    ASSUME NEW recs \in Seq(Rec), NEW buf \in Seq(Rec), NEW recs2, NEW buf2,
           Flushed(recs, buf, recs2, buf2), NEW n, Sound(recs \o buf, Len(recs), n)
    PROVE  /\ recs2 \in Seq(Rec) /\ buf2 \in Seq(Rec) /\ Begins(recs, recs2)
           /\ Grows(recs \o buf, Len(recs), recs2 \o buf2, Len(recs2))
           /\ Sound(recs2 \o buf2, Len(recs2), n)
<1> DEFINE all == recs \o buf
           all2 == recs2 \o buf2
           k == Len(recs)
           k2 == Len(recs2)
<1>0. /\ all \in Seq(Rec) /\ Len(all) = k + Len(buf) /\ k \in Nat /\ Len(buf) \in Nat
      /\ \A i \in 1 .. k : all[i] = recs[i]
  BY Beyond
<1>1. \/ all2 = all /\ recs2 = recs /\ buf2 = buf
      \/ all2 = recs /\ recs2 = recs /\ buf2 = <<>>
      \/ all2 = all /\ recs2 = all /\ buf2 = <<>>
  <2>1. \A s \in Seq(Rec) : s \o <<>> = s
    OBVIOUS
  <2>2. recs \o <<>> = recs /\ (recs \o buf) \o <<>> = recs \o buf
    BY <1>0, <2>1, Zenon
  <2> QED BY <2>2, Zenon DEF Flushed
<1>2. recs2 \in Seq(Rec) /\ buf2 \in Seq(Rec) /\ all2 \in Seq(Rec)
  <2>1. <<>> \in Seq(Rec)
    OBVIOUS
  <2> HIDE DEF all, all2
  <2> QED BY <1>0, <1>1, <2>1, Zenon
<1> HIDE DEF all, all2
<1>3. k2 \in k .. Len(all2) /\ (\A i \in 1 .. k : all2[i] = all[i] /\ recs2[i] = recs[i])
  <2>1. CASE all2 = all /\ recs2 = recs
    BY <1>0, <2>1
  <2>2. CASE all2 = recs /\ recs2 = recs
    BY <1>0, <2>2
  <2>3. CASE all2 = all /\ recs2 = all
    BY <1>0, <2>3
  <2> QED BY <1>1, <2>1, <2>2, <2>3
<1>4. Grows(all, k, all2, k2)
  BY <1>2, <1>3 DEF Grows
<1>5. Begins(recs, recs2)
  BY <1>0, <1>3 DEF Begins
<1>6. /\ Len(all2) <= Len(all) /\ Len(all2) \in Nat /\ Len(all) \in Nat
      /\ \A i \in 1 .. Len(all2) : all2[i] = all[i]
  <2>1. CASE all2 = all
    BY <1>0, <2>1
  <2>2. CASE all2 = recs
    BY <1>0, <2>2
  <2> QED BY <1>1, <2>1, <2>2
<1>7. \A i \in 1 .. Len(all2) : i \in 1 .. Len(all)
  BY <1>6
<1>8. Sound(all, k, n)
  BY DEF all
<1> HIDE DEF k, k2
<1>9. \A i \in 1 .. Len(all) : Rests(all[i], all, k) => Rests(all[i], all2, k2)
  BY <1>0, <1>4, RestsGrows
<1>10. \A i \in 1 .. Len(all2) :
          all2[i].fact.id \in 1 .. n - 1 /\ all2[i].fact.kind \in Appended /\ Rests(all2[i], all2, k2)
  BY <1>6, <1>7, <1>8, <1>9 DEF Sound
<1>11. \A i, j \in 1 .. Len(all2) : i < j => all2[i].fact.id < all2[j].fact.id
  BY <1>6, <1>7, <1>8 DEF Sound
<1>12. Sound(all2, k2, n)
  BY <1>10, <1>11 DEF Sound
<1> QED BY <1>2, <1>4, <1>5, <1>12 DEF all, all2, k, k2

(* A write: the record comes behind all others. *)
LEMMA SoundPut ==
    ASSUME NEW recs \in Seq(Rec), NEW buf \in Seq(Rec), NEW n \in Nat, NEW r \in Rec,
           Sound(recs \o buf, Len(recs), n), r.fact.id = n, n > 0, r.fact.kind \in Appended,
           Rests(r, recs \o buf, Len(recs)),
           NEW s, NEW ok, Put(recs, buf, r, s, ok)
    PROVE  /\ RecordsOf(s.shards) \in Seq(Rec) /\ Begins(recs, RecordsOf(s.shards))
           /\ ok = TRUE => RecordsOf(s.shards) = Append(recs \o buf, r)
           /\ Grows(recs \o buf, Len(recs), RecordsOf(s.shards) \o s.buffer, Len(RecordsOf(s.shards)))
           /\ Sound(RecordsOf(s.shards) \o s.buffer, Len(RecordsOf(s.shards)), n + 1)
<1> DEFINE all == recs \o buf
           recs2 == RecordsOf(s.shards)
           all2 == recs2 \o s.buffer
           k == Len(recs)
           k2 == Len(recs2)
           m == Len(all)
           more == Append(all, r)
<1>0. /\ all \in Seq(Rec) /\ m = k + Len(buf) /\ k \in Nat /\ Len(buf) \in Nat
      /\ \A i \in 1 .. k : all[i] = recs[i]
  BY Beyond
<1>1. \/ all2 = more /\ recs2 = more
      \/ all2 = more /\ recs2 = recs /\ ok # TRUE
  <2>1. \A t \in Seq(Rec) : t \o <<>> = t
    OBVIOUS
  <2>2. recs \o Append(buf, r) = more
    OBVIOUS
  <2>3. more \in Seq(Rec)
    BY <1>0
  <2> HIDE DEF more
  <2>4. more \o <<>> = more
    BY <2>1, <2>3, Zenon
  <2>5. CASE recs2 = recs \o Append(buf, r) /\ s.buffer = <<>>
    BY <2>2, <2>4, <2>5, Zenon
  <2>6. CASE ~ok /\ recs2 = recs /\ s.buffer = Append(buf, r)
    BY <2>2, <2>6, Zenon
  <2> QED BY <2>5, <2>6, Zenon DEF Put
<1> HIDE DEF all, all2, recs2
<1>2. /\ more \in Seq(Rec) /\ Len(more) = m + 1 /\ more[m + 1] = r /\ m \in Nat
      /\ \A i \in 1 .. m : more[i] = all[i]
  <2>1. all \in Seq(Rec) /\ m \in Nat
    BY <1>0
  <2> QED BY <2>1, AtTheEnd
<1> HIDE DEF more
<1>3. recs2 \in Seq(Rec) /\ all2 = more
  BY <1>1, <1>2, Zenon
<1>4. k2 \in k .. m + 1 /\ \A i \in 1 .. k : more[i] = all[i] /\ recs2[i] = recs[i]
  <2>1. CASE recs2 = more
    BY <1>0, <1>2, <2>1
  <2>2. CASE recs2 = recs
    BY <1>0, <1>2, <2>2
  <2> QED BY <1>1, <2>1, <2>2
<1>5. Grows(all, k, more, k2)
  BY <1>2, <1>4 DEF Grows
<1>6. Begins(recs, recs2)
  BY <1>0, <1>4 DEF Begins
<1>7. Sound(all, k, n) /\ Rests(r, all, k)
  BY DEF all
<1> HIDE DEF k, k2, m
<1>8. \A x : Rests(x, all, k) => Rests(x, more, k2)
  BY <1>0, <1>5, RestsGrows
<1>9. ASSUME NEW i \in 1 .. m + 1
      PROVE  /\ more[i].fact.id \in 1 .. n /\ more[i].fact.kind \in Appended
             /\ Rests(more[i], more, k2) /\ (i \in 1 .. m => more[i].fact.id < n)
  <2>1. CASE i = m + 1
    BY <1>2, <1>7, <1>8, <2>1
  <2>2. CASE i \in 1 .. m
    <3>1. /\ more[i] = all[i] /\ all[i].fact.id \in 1 .. n - 1 /\ all[i].fact.kind \in Appended
          /\ Rests(all[i], all, k)
      BY <1>2, <1>7, <2>2 DEF Sound, m
    <3> QED BY <1>8, <3>1
  <2> QED BY <1>2, <2>1, <2>2
<1>10. ASSUME NEW i \in 1 .. m + 1, NEW j \in 1 .. m + 1, i < j
       PROVE  more[i].fact.id < more[j].fact.id
  <2>1. i \in 1 .. m
    BY <1>2, <1>10
  <2>2. CASE j = m + 1
    BY <1>2, <1>9, <2>1, <2>2
  <2>3. CASE j \in 1 .. m
    BY <1>2, <1>7, <1>10, <2>1, <2>3 DEF Sound, m
  <2> QED BY <1>2, <2>2, <2>3
<1>11. Sound(more, k2, n + 1)
  <2>1. \A i \in 1 .. Len(more) : i \in 1 .. m + 1
    BY <1>2
  <2>2. (n + 1) - 1 = n
    OBVIOUS
  <2> QED BY <1>9, <1>10, <2>1, <2>2 DEF Sound
<1> QED BY <1>1, <1>3, <1>5, <1>6, <1>11, Zenon DEF all, all2, recs2, k, k2, more

-----------------------------------------------------------------------------
(* The steps of the log. *)

(* What the invariant says of the store and its records. *)
LEMMA DiskFacts ==
    ASSUME DiskInv
    PROVE  /\ Holds(store) /\ Stored \in Seq(Rec) /\ store.buffer \in Seq(Rec)
           /\ Stored = RecordsOf(store.shards)
           /\ AllRecs \in Seq(Rec) /\ Len(Stored) \in 0 .. Len(AllRecs)
           /\ \A i \in 1 .. Len(Stored) : AllRecs[i] = Stored[i]
           /\ next_id \in Nat /\ next_id > 0 /\ last_hash \in Seq(Fact) /\ state \in State
<1>1. Holds(store) /\ Stored \in Seq(Rec) /\ store.buffer \in Seq(Rec) /\ Stored = RecordsOf(store.shards)
  BY StoreFields DEF DiskInv, DiskTypes, Stored
<1>2. /\ AllRecs \in Seq(Rec) /\ Len(AllRecs) = Len(Stored) + Len(store.buffer)
      /\ Len(Stored) \in Nat /\ Len(store.buffer) \in Nat
      /\ \A i \in 1 .. Len(Stored) : AllRecs[i] = Stored[i]
  <2>1. Stored \in Seq(Rec) /\ store.buffer \in Seq(Rec)
    BY <1>1
  <2> QED BY <2>1, Beyond DEF AllRecs
<1>3. next_id \in Nat /\ next_id > 0
  <2>1. budget["fact"] \in Nat /\ budget["fact"] <= MaxFacts /\ MaxFacts \in Nat
    BY FactsLogAssumption DEF DiskInv, DiskTypes, Events
  <2> QED BY <2>1 DEF next_id
<1>4. last_hash \in Seq(Fact) /\ state \in State
  BY DEF DiskInv, DiskTypes
<1>5. Len(Stored) \in 0 .. Len(AllRecs)
  BY <1>2
<1> QED BY <1>1, <1>2, <1>3, <1>4, <1>5

(* The hash goes on over a new fact. *)
LEMMA HashGrows ==
    ASSUME DiskInv, NEW f \in Fact, f.id = next_id
    PROVE  /\ Record(f) \in Rec /\ Record(f).fact = f /\ Record(f).prev_hash = last_hash
           /\ Record(f).chain_hash = Append(last_hash, f)
           /\ Increasing(Append(last_hash, f)) /\ Rests(Record(f), AllRecs, Len(Stored))
<1>1. /\ AllRecs \in Seq(Rec) /\ Len(Stored) \in 0 .. Len(AllRecs)
      /\ next_id \in Nat /\ last_hash \in Seq(Fact) /\ state \in State
  BY DiskFacts
<1> DEFINE h == Append(last_hash, f)
           m == Len(last_hash)
<1>2. /\ h \in Seq(Fact) /\ Len(h) = m + 1 /\ h[m + 1] = f /\ m \in Nat /\ DOMAIN h = 1 .. m + 1
      /\ \A i \in 1 .. m : h[i] = last_hash[i]
  <2>1. last_hash \in Seq(Fact)
    BY <1>1
  <2> QED BY <2>1, AtTheEnd
<1>3. /\ Record(f) \in Rec /\ Record(f).fact = f /\ Record(f).prev_hash = last_hash
      /\ Record(f).chain_hash = h
  <2>1. state.version \in Nat
    BY <1>1 DEF State
  <2> HIDE DEF h
  <2>2. Record(f) = [version_before |-> state.version, fact |-> f, prev_hash |-> last_hash,
                     chain_hash |-> h]
    BY DEF Record, chain_step, h
  <2> QED BY <1>1, <1>2, <2>1, <2>2 DEF Rec
<1>4. DOMAIN last_hash = 1 .. m /\ \A x \in 1 .. m : In(last_hash[x], AllRecs, Len(Stored))
  BY <1>1 DEF DiskInv
<1>5. \A x \in 1 .. m : last_hash[x].id \in Nat /\ last_hash[x].id < f.id
  <2>1. SUFFICES ASSUME NEW x \in 1 .. m PROVE last_hash[x].id \in Nat /\ last_hash[x].id < f.id
    OBVIOUS
  <2>2. PICK i \in 1 .. Len(Stored) : AllRecs[i].fact = last_hash[x]
    BY <1>4 DEF In
  <2>3. i \in 1 .. Len(AllRecs)
    BY <1>1
  <2>4. AllRecs[i].fact.id \in 1 .. next_id - 1
    BY <2>3 DEF DiskInv, Sound
  <2> QED BY <1>1, <2>2, <2>4
<1>6. Increasing(h)
  <2>1. SUFFICES ASSUME NEW i \in 1 .. m + 1, NEW j \in 1 .. m + 1, i < j PROVE h[i].id < h[j].id
    BY <1>2 DEF Increasing
  <2>2. i \in 1 .. m /\ h[i] = last_hash[i]
    BY <1>2, <2>1
  <2>3. CASE j = m + 1
    BY <1>2, <1>5, <2>2, <2>3
  <2>4. CASE j \in 1 .. m
    <3>1. h[j] = last_hash[j]
      BY <1>2, <2>4
    <3>2. last_hash[i].id < last_hash[j].id
      BY <1>4, <2>1, <2>2, <2>4 DEF DiskInv, Increasing
    <3> QED BY <2>2, <3>1, <3>2
  <2> QED BY <1>2, <2>3, <2>4
<1> HIDE DEF h
<1>7. Rests(Record(f), AllRecs, Len(Stored))
  BY <1>3, <1>4, <1>6 DEF Rests, h
<1> QED BY <1>3, <1>6, <1>7 DEF h

(* An append, whatever comes of the write. *)
LEMMA WriteIs ==
    ASSUME Buffered, DiskInv, NEW f \in Fact, f.id = next_id, f.kind \in Appended,
           NEW o \in append_record_with_hash(store, Record(f)),
           store' = o.store, Spend(Cost(o.ok))
    PROVE  /\ o.ok \in BOOLEAN /\ Holds(store') /\ Stored' \in Seq(Rec)
           /\ budget' \in [Events -> Nat] /\ budget'["fact"] <= MaxFacts
           /\ Sound(AllRecs', Len(Stored'), next_id')
           /\ Grows(AllRecs, Len(Stored), AllRecs', Len(Stored')) /\ Begins(Stored, Stored')
           /\ o.ok = TRUE => \E a \in Seq(Rec) : Stored' = Append(a, Record(f)) /\ Begins(Stored, a)
<1> DEFINE r == Record(f)
<1>1. /\ Holds(store) /\ Stored \in Seq(Rec) /\ store.buffer \in Seq(Rec)
      /\ Stored = RecordsOf(store.shards) /\ next_id \in Nat /\ next_id > 0
  BY DiskFacts
<1>2. r \in Rec /\ r.fact = f /\ Rests(r, AllRecs, Len(Stored))
  BY HashGrows
<1> HIDE DEF r
<1>3. PICK recs, buf : /\ Holds(o.store) /\ o.ok \in BOOLEAN
                       /\ Flushed(Stored, store.buffer, recs, buf)
                       /\ Put(recs, buf, r, o.store, o.ok)
  <2>1. /\ Holds(o.store) /\ o.ok \in BOOLEAN
        /\ \E recs, buf : /\ Flushed(RecordsOf(store.shards), store.buffer, recs, buf)
                          /\ Put(recs, buf, r, o.store, o.ok)
    BY <1>1, <1>2, AppendPuts DEF r
  <2> QED BY <1>1, <2>1, Zenon
<1>4. Sound(Stored \o store.buffer, Len(Stored), next_id)
  BY DEF DiskInv, AllRecs
<1>5. /\ recs \in Seq(Rec) /\ buf \in Seq(Rec) /\ Begins(Stored, recs)
      /\ Grows(AllRecs, Len(Stored), recs \o buf, Len(recs))
      /\ Sound(recs \o buf, Len(recs), next_id)
  BY <1>1, <1>3, <1>4, SoundFlushed DEF AllRecs
<1>6. Rests(r, recs \o buf, Len(recs)) /\ r.fact.id = next_id /\ r.fact.kind \in Appended
  BY <1>1, <1>2, <1>5, RestsGrows
<1>7. /\ Stored' = RecordsOf(o.store.shards) /\ AllRecs' = RecordsOf(o.store.shards) \o o.store.buffer
  BY DEF Stored, AllRecs
<1>8. /\ Stored' \in Seq(Rec) /\ Begins(recs, Stored')
      /\ o.ok = TRUE => Stored' = Append(recs \o buf, r)
      /\ Grows(recs \o buf, Len(recs), AllRecs', Len(Stored'))
      /\ Sound(AllRecs', Len(Stored'), next_id + 1)
  <2>1. /\ RecordsOf(o.store.shards) \in Seq(Rec) /\ Begins(recs, RecordsOf(o.store.shards))
        /\ o.ok = TRUE => RecordsOf(o.store.shards) = Append(recs \o buf, r)
        /\ Grows(recs \o buf, Len(recs), RecordsOf(o.store.shards) \o o.store.buffer,
                 Len(RecordsOf(o.store.shards)))
        /\ Sound(RecordsOf(o.store.shards) \o o.store.buffer, Len(RecordsOf(o.store.shards)), next_id + 1)
    BY <1>1, <1>2, <1>3, <1>5, <1>6, SoundPut
  <2> QED BY <1>7, <2>1, Zenon
<1>9. Begins(Stored, Stored')
  <2>1. Len(Stored) \in Nat /\ Len(recs) \in Nat
    BY <1>1, <1>5
  <2> QED BY <1>5, <1>8, <2>1 DEF Begins
<1>10. Grows(AllRecs, Len(Stored), AllRecs', Len(Stored'))
  <2>1. Len(Stored) \in Nat /\ Len(recs) \in Nat
    BY <1>1, <1>5
  <2> QED BY <1>5, <1>8, <2>1 DEF Grows
<1>11. /\ budget' \in [Events -> Nat] /\ budget'["fact"] <= MaxFacts
       /\ budget'["fact"] = budget["fact"] - 1
  <2>1. budget \in [Events -> Nat] /\ budget["fact"] <= MaxFacts
    BY DEF DiskInv, DiskTypes
  <2>2. budget' \in [Events -> Nat] /\ budget'["fact"] <= MaxFacts
    BY <2>1, SpendKeeps
  <2>3. "fact" \in Cost(o.ok) /\ "fact" \in DOMAIN budget
    BY <2>1 DEF Cost, Events
  <2>4. budget'["fact"] = budget["fact"] - 1
    BY <2>3 DEF Spend
  <2> QED BY <2>2, <2>4
<1>12. next_id' = next_id + 1
  <2>1. budget["fact"] \in Nat /\ MaxFacts \in Nat
    BY FactsLogAssumption DEF DiskInv, DiskTypes, Events
  <2> QED BY <1>11, <2>1 DEF next_id
<1>13. ASSUME o.ok = TRUE
       PROVE  \E a \in Seq(Rec) : Stored' = Append(a, Record(f)) /\ Begins(Stored, a)
  <2> DEFINE a == recs \o buf
  <2>1. /\ a \in Seq(Rec) /\ Len(a) = Len(recs) + Len(buf) /\ Len(recs) \in Nat /\ Len(buf) \in Nat
        /\ \A i \in 1 .. Len(recs) : a[i] = recs[i]
    <3>1. recs \in Seq(Rec) /\ buf \in Seq(Rec)
      BY <1>5
    <3> QED BY <3>1, Beyond
  <2>2. Stored' = Append(a, Record(f))
    BY <1>8, <1>13 DEF r
  <2> HIDE DEF a
  <2>3. Begins(Stored, a)
    <3>1. Len(Stored) \in Nat
      BY <1>1
    <3> QED BY <1>5, <2>1, <3>1 DEF Begins
  <2> QED BY <2>1, <2>2, <2>3
<1> QED BY <1>3, <1>8, <1>9, <1>10, <1>11, <1>12, <1>13

(* The beginning of a beginning. *)
LEMMA BeginsTransitive ==
    ASSUME NEW s, NEW t, NEW u, Len(s) \in Nat, Len(t) \in Nat, Len(u) \in Nat,
           Begins(s, t), Begins(t, u)
    PROVE  Begins(s, u)
BY DEF Begins

(* The facts of records that begin others. *)
LEMMA FactsBegin ==
    ASSUME NEW s \in Seq(Rec), NEW t \in Seq(Rec), Begins(s, t)
    PROVE  Begins(FactsOf(s), FactsOf(t)) /\ Len(FactsOf(s)) \in Nat /\ Len(FactsOf(t)) \in Nat
<1>1. /\ Len(FactsOf(s)) = Len(s) /\ (\A i \in 1 .. Len(s) : FactsOf(s)[i] = s[i].fact)
      /\ Len(FactsOf(t)) = Len(t) /\ (\A i \in 1 .. Len(t) : FactsOf(t)[i] = t[i].fact)
  BY FactsAre
<1>2. Len(s) \in Nat /\ Len(t) \in Nat
  OBVIOUS
<1> QED BY <1>1, <1>2 DEF Begins

(* Memory as it was, over a disk with more on it. *)
LEMMA MemoryStays ==
    ASSUME DiskInv, MemoryInv, Stored' \in Seq(Rec), Begins(Stored, Stored'),
           mode = "up", UNCHANGED <<last_hash, history, compacted>>
    PROVE  MemoryInv'
<1>1. SUFFICES ASSUME Linked(Stored', genesis)
               PROVE  /\ Begins(last_hash, FactsOf(Stored'))
                      /\ \E c \in 0 .. Len(last_hash) :
                            EndsWith(history, last_hash, c) /\ (compacted = <<>> => c = 0)
  BY DEF MemoryInv
<1>2. Stored \in Seq(Rec) /\ last_hash \in Seq(Fact)
  BY DiskFacts
<1>3. Linked(Stored, genesis)
  BY <1>1, <1>2, LinkedPrefix
<1>4. Begins(FactsOf(Stored), FactsOf(Stored')) /\ Len(FactsOf(Stored)) \in Nat
      /\ Len(FactsOf(Stored')) \in Nat
  BY <1>2, FactsBegin
<1>5. Begins(last_hash, FactsOf(Stored)) /\ Len(last_hash) \in Nat
  BY <1>2, <1>3 DEF MemoryInv
<1>6. Begins(last_hash, FactsOf(Stored'))
  BY <1>4, <1>5, BeginsTransitive
<1> QED BY <1>3, <1>6 DEF MemoryInv

(* Memory after a write that succeeded. *)
LEMMA MemoryGrows ==
    ASSUME DiskInv, NEW f \in Fact, NEW a \in Seq(Rec),
           Stored' = Append(a, Record(f)), Record(f) \in Rec,
           Record(f).chain_hash = Append(last_hash, f), Linked(Stored', genesis),
           last_hash' = Append(last_hash, f)
    PROVE  Begins(last_hash', FactsOf(Stored'))
<1> DEFINE m == Len(a)
           st == Append(a, Record(f))
<1>1. st \in Seq(Rec) /\ Len(st) = m + 1 /\ st[m + 1] = Record(f) /\ m \in Nat
  BY AtTheEnd
<1> HIDE DEF st
<1>2. m + 1 \in 1 .. Len(st) /\ Linked(st, genesis)
  BY <1>1 DEF st
<1>3. st[m + 1].chain_hash = SubSeq(FactsOf(st), 1, m + 1)
  BY <1>1, <1>2, LinkedHashes
<1>4. FactsOf(st) \in Seq(Fact) /\ Len(FactsOf(st)) = m + 1
  BY <1>1, FactsAre
<1>5. SubSeq(FactsOf(st), 1, m + 1) = FactsOf(st)
  BY <1>4
<1>6. last_hash' = FactsOf(st)
  BY <1>1, <1>3, <1>5
<1>7. Begins(FactsOf(st), FactsOf(st))
  BY <1>1, <1>4 DEF Begins
<1> QED BY <1>6, <1>7 DEF st

(* The history after a fact, with the hash. *)
LEMMA HistoryFollows ==
    ASSUME NEW h \in Seq(Entry), NEW facts \in Seq(Fact), NEW c \in 0 .. Len(facts),
           EndsWith(h, facts, c), NEW f \in Fact, NEW e \in Entry, e.fact = f
    PROVE  EndsWith(Append(h, e), Append(facts, f), c) /\ c \in 0 .. Len(Append(facts, f))
<1>1. /\ Append(h, e) \in Seq(Entry) /\ Len(Append(h, e)) = Len(h) + 1 /\ Len(h) \in Nat
      /\ \A i \in 1 .. Len(h) : Append(h, e)[i] = h[i]
      /\ Append(h, e)[Len(h) + 1] = e
  BY AtTheEnd
<1>2. /\ Len(Append(facts, f)) = Len(facts) + 1 /\ Len(facts) \in Nat
      /\ \A i \in 1 .. Len(facts) : Append(facts, f)[i] = facts[i]
      /\ Append(facts, f)[Len(facts) + 1] = f
  BY AtTheEnd
<1>3. Len(h) = Len(facts) - c /\ \A i \in 1 .. Len(h) : h[i].fact = facts[c + i]
  BY DEF EndsWith
<1> DEFINE g == Append(h, e)
           k == Append(facts, f)
<1> HIDE DEF g, k
<1>4. ASSUME NEW i \in 1 .. Len(h) + 1 PROVE g[i].fact = k[c + i]
  <2>1. CASE i \in 1 .. Len(h)
    <3>1. c + i \in 1 .. Len(facts)
      BY <1>1, <1>2, <1>3, <2>1
    <3> QED BY <1>1, <1>2, <1>3, <2>1, <3>1 DEF g, k
  <2>2. CASE i = Len(h) + 1
    <3>1. c + i = Len(facts) + 1
      BY <1>1, <1>2, <1>3, <2>2
    <3>2. g[i] = e /\ k[c + i] = f
      BY <1>1, <1>2, <2>2, <3>1 DEF g, k
    <3> QED BY <3>2
  <2> QED BY <1>1, <2>1, <2>2
<1>5. Len(g) = Len(k) - c /\ c \in 0 .. Len(k)
  BY <1>1, <1>2, <1>3 DEF g, k
<1>6. EndsWith(g, k, c)
  BY <1>1, <1>4, <1>5 DEF EndsWith, g
<1> QED BY <1>5, <1>6 DEF g, k

(* A new fact is numbered behind all others. *)
LEMMA NewFactIs ==
    ASSUME DiskInv, NEW k \in AllKinds \cup {"Fork"}
    PROVE  NewFact(k) \in Fact /\ NewFact(k).id = next_id /\ NewFact(k).kind = k
BY DiskFacts DEF NewFact, Fact

(* The hash after the fact of a record that was written. *)
LEMMA HashStored ==
    ASSUME DiskInv, NEW f \in Fact, f.id = next_id, Grows(AllRecs, Len(Stored), AllRecs', Len(Stored')),
           NEW a \in Seq(Rec), Stored' = Append(a, Record(f)), Holds(store'),
           last_hash' = Append(last_hash, f)
    PROVE  /\ last_hash' \in Seq(Fact) /\ Increasing(last_hash')
           /\ \A x \in DOMAIN last_hash' : In(last_hash'[x], AllRecs', Len(Stored'))
<1> DEFINE m == Len(last_hash)
           n == Len(a)
<1>1. last_hash \in Seq(Fact) /\ Len(Stored) \in Nat
  BY DiskFacts
<1>2. /\ last_hash' \in Seq(Fact) /\ DOMAIN last_hash' = 1 .. m + 1 /\ m \in Nat
      /\ (\A i \in 1 .. m : last_hash'[i] = last_hash[i]) /\ last_hash'[m + 1] = f
  BY <1>1, AtTheEnd
<1>3. Record(f) \in Rec /\ Record(f).fact = f /\ Increasing(last_hash')
  BY HashGrows
<1>4. Stored' \in Seq(Rec) /\ Len(Stored') = n + 1 /\ Stored'[n + 1] = Record(f) /\ n \in Nat
  BY <1>3, AtTheEnd
<1>5. \A i \in 1 .. Len(Stored') : AllRecs'[i] = Stored'[i]
  <2>1. store'.buffer \in Seq(Rec)
    BY StoreFields
  <2>2. AllRecs' = Stored' \o store'.buffer
    BY DEF AllRecs
  <2>3. \A i \in 1 .. Len(Stored') : (Stored' \o store'.buffer)[i] = Stored'[i]
    BY <1>4, <2>1, Beyond
  <2> QED BY <2>2, <2>3, Zenon
<1>6. In(f, AllRecs', Len(Stored'))
  <2>1. n + 1 \in 1 .. Len(Stored') /\ AllRecs'[n + 1].fact = f
    BY <1>3, <1>4, <1>5
  <2> QED BY <2>1 DEF In
<1>7. ASSUME NEW x \in 1 .. m + 1 PROVE In(last_hash'[x], AllRecs', Len(Stored'))
  <2>1. CASE x = m + 1
    BY <1>2, <1>6, <2>1
  <2>2. CASE x \in 1 .. m
    <3>1. In(last_hash[x], AllRecs, Len(Stored))
      BY <1>1, <2>2 DEF DiskInv
    <3>2. In(last_hash[x], AllRecs', Len(Stored'))
      BY <1>1, <3>1, InGrows
    <3> QED BY <1>2, <2>2, <3>2
  <2> QED BY <1>2, <2>1, <2>2
<1> QED BY <1>2, <1>3, <1>7

(* ... and after one that was not: it stays, over no less. *)
LEMMA HashStays ==
    ASSUME DiskInv, Grows(AllRecs, Len(Stored), AllRecs', Len(Stored')), last_hash' = last_hash
    PROVE  /\ last_hash' \in Seq(Fact) /\ Increasing(last_hash')
           /\ \A x \in DOMAIN last_hash' : In(last_hash'[x], AllRecs', Len(Stored'))
<1>1. last_hash \in Seq(Fact) /\ Len(Stored) \in Nat
  BY DiskFacts
<1>2. \A x \in DOMAIN last_hash : In(last_hash[x], AllRecs', Len(Stored'))
  BY <1>1, InGrows DEF DiskInv
<1> QED BY <1>1, <1>2 DEF DiskInv

(* Both invariants, and a disk that has only grown. *)
Follows == DiskInv' /\ MemoryInv' /\ Stored' \in Seq(Rec) /\ Begins(Stored, Stored')

(* append. *)
LEMMA AppendDisk ==
    ASSUME Buffered, DiskInv, MemoryInv, append
    PROVE  Follows
<1>1. PICK k \in Kinds : AppendFact(NewFact(k))
  BY DEF append
<1> DEFINE f == NewFact(k)
<1>2. mode = "up" /\ mode' = "up" /\ compacted' = compacted
  BY DEF append
<1>3. f \in Fact /\ f.id = next_id /\ f.kind \in Appended
  BY NewFactIs, FactsLogAssumption DEF Appended
<1>4. PICK o \in append_record_with_hash(store, Record(f)) :
          /\ store' = o.store /\ Spend(Cost(o.ok))
          /\ \/ o.ok /\ UpdateMemory(f)
             \/ ~o.ok /\ UNCHANGED <<history, state, last_hash, past>>
  BY <1>1 DEF AppendFact
<1> HIDE DEF f
<1>5. /\ o.ok \in BOOLEAN /\ Holds(store') /\ Stored' \in Seq(Rec)
      /\ budget' \in [Events -> Nat] /\ budget'["fact"] <= MaxFacts
      /\ Sound(AllRecs', Len(Stored'), next_id')
      /\ Grows(AllRecs, Len(Stored), AllRecs', Len(Stored')) /\ Begins(Stored, Stored')
      /\ o.ok = TRUE => \E a \in Seq(Rec) : Stored' = Append(a, Record(f)) /\ Begins(Stored, a)
  BY <1>3, <1>4, WriteIs
<1>6. last_hash \in Seq(Fact) /\ state \in State /\ history \in Seq(Entry)
  BY DEF DiskInv, DiskTypes
<1>7. CASE ~o.ok /\ UNCHANGED <<history, state, last_hash, past>>
  <2>1. /\ last_hash' \in Seq(Fact) /\ Increasing(last_hash')
        /\ \A x \in DOMAIN last_hash' : In(last_hash'[x], AllRecs', Len(Stored'))
    BY <1>5, <1>7, HashStays
  <2>2. MemoryInv'
    BY <1>2, <1>5, <1>7, MemoryStays
  <2>3. DiskTypes'
    BY <1>2, <1>5, <1>6, <1>7, <2>1 DEF DiskTypes
  <2> QED BY <1>5, <2>1, <2>2, <2>3 DEF DiskInv, Follows
<1>8. CASE o.ok /\ UpdateMemory(f)
  <2> DEFINE e == [version_before |-> state.version, fact |-> f]
  <2>1. /\ last_hash' = Append(last_hash, f) /\ history' = Append(history, e)
        /\ state' = apply_fact_to_state(state, f)
    BY <1>8 DEF UpdateMemory, chain_step
  <2>2. PICK a \in Seq(Rec) : Stored' = Append(a, Record(f)) /\ Begins(Stored, a)
    BY <1>5, <1>8
  <2>3. /\ last_hash' \in Seq(Fact) /\ Increasing(last_hash')
        /\ \A x \in DOMAIN last_hash' : In(last_hash'[x], AllRecs', Len(Stored'))
    BY <1>3, <1>5, <2>1, <2>2, HashStored
  <2>4. e \in Entry /\ e.fact = f
    BY <1>3, <1>6 DEF Entry, State
  <2> HIDE DEF e
  <2>5. history' \in Seq(Entry) /\ state' \in State
    BY <1>3, <1>6, <2>1, <2>4, AtTheEnd, ApplyType
  <2>6. DiskTypes'
    BY <1>2, <1>5, <2>3, <2>5 DEF DiskTypes
  <2>7. ASSUME Linked(Stored', genesis)
        PROVE  /\ Begins(last_hash', FactsOf(Stored'))
               /\ \E c \in 0 .. Len(last_hash') :
                     EndsWith(history', last_hash', c) /\ (compacted' = <<>> => c = 0)
    <3>1. Record(f) \in Rec /\ Record(f).chain_hash = Append(last_hash, f)
      BY <1>3, HashGrows
    <3>2. Begins(last_hash', FactsOf(Stored'))
      BY <1>3, <2>1, <2>2, <2>7, <3>1, MemoryGrows
    <3>3. Linked(Stored, genesis)
      BY <1>5, <2>7, DiskFacts, LinkedPrefix
    <3>4. PICK c \in 0 .. Len(last_hash) :
              EndsWith(history, last_hash, c) /\ (compacted = <<>> => c = 0)
      BY <1>2, <3>3 DEF MemoryInv
    <3>5. EndsWith(history', last_hash', c) /\ c \in 0 .. Len(last_hash')
      <4>1. EndsWith(Append(history, e), Append(last_hash, f), c) /\ c \in 0 .. Len(Append(last_hash, f))
        BY <1>3, <1>6, <2>4, <3>4, HistoryFollows
      <4> QED BY <2>1, <4>1, Zenon
    <3> QED BY <1>2, <3>2, <3>4, <3>5
  <2>8. MemoryInv'
    BY <2>7 DEF MemoryInv
  <2> QED BY <1>5, <2>3, <2>6, <2>8 DEF DiskInv, Follows
<1> QED BY <1>4, <1>7, <1>8

(* Nothing was ever written before a fork sets its state. *)
LEMMA NothingYet ==
    ASSUME DiskInv, next_id = 1
    PROVE  last_hash = <<>>
<1>1. /\ AllRecs \in Seq(Rec) /\ Len(Stored) \in 0 .. Len(AllRecs) /\ last_hash \in Seq(Fact)
  BY DiskFacts
<1>2. SUFFICES ASSUME last_hash # <<>> PROVE FALSE
  OBVIOUS
<1>3. 1 \in DOMAIN last_hash
  BY <1>1, <1>2
<1>4. PICK i \in 1 .. Len(Stored) : AllRecs[i].fact = last_hash[1]
  BY <1>3 DEF DiskInv, In
<1>5. i \in 1 .. Len(AllRecs)
  BY <1>1
<1>6. AllRecs[i].fact.id \in 1 .. next_id - 1
  BY <1>5 DEF DiskInv, Sound
<1> QED BY <1>6

(* set_initial_state. *)
LEMMA ForkDisk ==
    ASSUME Buffered, DiskInv, MemoryInv, set_initial_state
    PROVE  Follows
<1> DEFINE f == NewFact("Fork")
           e == [version_before |-> 0, fact |-> f]
<1>1. mode = "up" /\ mode' = "up" /\ compacted' = compacted /\ next_id = 1
  BY DEF set_initial_state
<1>2. PICK v \in ForkVersions, o \in append_record_with_hash(store, Record(f)) :
          /\ store' = o.store /\ Spend(Cost(o.ok))
          /\ \/ o.ok /\ history' = <<e>> /\ last_hash' = Append(last_hash, f)
             \/ ~o.ok /\ UNCHANGED <<history, last_hash>>
          /\ state' = BaseState(v)
  BY DEF set_initial_state, chain_step
<1>3. f \in Fact /\ f.id = next_id /\ f.kind \in Appended
  BY NewFactIs DEF AllKinds, Appended
<1>4. e \in Entry /\ e.fact = f
  BY <1>3 DEF Entry
<1> HIDE DEF f, e
<1>5. /\ o.ok \in BOOLEAN /\ Holds(store') /\ Stored' \in Seq(Rec)
      /\ budget' \in [Events -> Nat] /\ budget'["fact"] <= MaxFacts
      /\ Sound(AllRecs', Len(Stored'), next_id')
      /\ Grows(AllRecs, Len(Stored), AllRecs', Len(Stored')) /\ Begins(Stored, Stored')
      /\ o.ok = TRUE => \E a \in Seq(Rec) : Stored' = Append(a, Record(f)) /\ Begins(Stored, a)
  BY <1>2, <1>3, WriteIs
<1>6. state' \in State
  <2>1. v \in Nat /\ <<0>> \in Seq(Nat)
    BY FactsLogAssumption
  <2> QED BY <1>2, <2>1 DEF BaseState, State
<1>7. CASE ~o.ok /\ UNCHANGED <<history, last_hash>>
  <2>1. /\ last_hash' \in Seq(Fact) /\ Increasing(last_hash')
        /\ \A x \in DOMAIN last_hash' : In(last_hash'[x], AllRecs', Len(Stored'))
    BY <1>5, <1>7, HashStays
  <2>2. MemoryInv'
    BY <1>1, <1>5, <1>7, MemoryStays
  <2>3. DiskTypes'
    BY <1>1, <1>5, <1>6, <1>7, <2>1 DEF DiskTypes, DiskInv
  <2> QED BY <1>5, <2>1, <2>2, <2>3 DEF DiskInv, Follows
<1>8. CASE o.ok /\ history' = <<e>> /\ last_hash' = Append(last_hash, f)
  <2>1. last_hash = <<>>
    BY <1>1, NothingYet
  <2>2. PICK a \in Seq(Rec) : Stored' = Append(a, Record(f)) /\ Begins(Stored, a)
    BY <1>5, <1>8
  <2>3. /\ last_hash' \in Seq(Fact) /\ Increasing(last_hash')
        /\ \A x \in DOMAIN last_hash' : In(last_hash'[x], AllRecs', Len(Stored'))
    BY <1>3, <1>5, <1>8, <2>2, HashStored
  <2>4. history' \in Seq(Entry)
    BY <1>4, <1>8
  <2>5. DiskTypes'
    BY <1>1, <1>5, <1>6, <2>3, <2>4 DEF DiskTypes
  <2>6. ASSUME Linked(Stored', genesis)
        PROVE  /\ Begins(last_hash', FactsOf(Stored'))
               /\ EndsWith(history', last_hash', 0) /\ 0 \in 0 .. Len(last_hash')
    <3>1. Record(f) \in Rec /\ Record(f).chain_hash = Append(last_hash, f)
      BY <1>3, HashGrows
    <3>2. Begins(last_hash', FactsOf(Stored'))
      BY <1>3, <1>8, <2>2, <2>6, <3>1, MemoryGrows
    <3>3. Len(last_hash') = 1 /\ last_hash'[1] = f /\ Len(history') = 1 /\ history'[1] = e
      BY <1>8, <2>1
    <3>4. EndsWith(history', last_hash', 0)
      BY <1>4, <3>3 DEF EndsWith
    <3> QED BY <3>2, <3>3, <3>4
  <2>7. MemoryInv'
    BY <2>6 DEF MemoryInv
  <2> QED BY <1>5, <2>3, <2>5, <2>7 DEF DiskInv, Follows
<1> QED BY <1>2, <1>7, <1>8

(* A sequence begins itself. *)
LEMMA BeginsItself == ASSUME NEW s, Len(s) \in Nat PROVE Begins(s, s)
BY DEF Begins

(* A drop of the writer, with memory as it was. *)
LEMMA DropDisk ==
    ASSUME DiskInv, Holds(store'),
           Flushed(Stored, store.buffer, RecordsOf(store'.shards), store'.buffer),
           UNCHANGED <<last_hash, state, history>>,
           budget' \in [Events -> Nat], budget'["fact"] = budget["fact"],
           mode' \in {"up", "down", "refused"}, mode' # "up" => store'.buffer = <<>>
    PROVE  DiskInv' /\ Stored' \in Seq(Rec) /\ Begins(Stored, Stored')
<1>1. Stored \in Seq(Rec) /\ store.buffer \in Seq(Rec) /\ Sound(Stored \o store.buffer, Len(Stored), next_id)
  BY DiskFacts DEF DiskInv, AllRecs
<1>2. /\ Stored' = RecordsOf(store'.shards) /\ AllRecs' = RecordsOf(store'.shards) \o store'.buffer
      /\ next_id' = next_id
  BY DEF Stored, AllRecs, next_id
<1> DEFINE recs == RecordsOf(store'.shards)
           buf == store'.buffer
<1>3. /\ recs \in Seq(Rec) /\ buf \in Seq(Rec) /\ Begins(Stored, recs)
      /\ Grows(Stored \o store.buffer, Len(Stored), recs \o buf, Len(recs))
      /\ Sound(recs \o buf, Len(recs), next_id)
  <2> HIDE DEF recs, buf
  <2>1. Flushed(Stored, store.buffer, recs, buf)
    BY DEF recs, buf
  <2> QED BY <1>1, <2>1, SoundFlushed
<1>4. /\ Stored' \in Seq(Rec) /\ Begins(Stored, Stored')
      /\ Grows(AllRecs, Len(Stored), AllRecs', Len(Stored'))
      /\ Sound(AllRecs', Len(Stored'), next_id')
  <2>1. AllRecs = Stored \o store.buffer
    BY DEF AllRecs
  <2> QED BY <1>2, <1>3, <2>1, Zenon
<1>5. /\ last_hash' \in Seq(Fact) /\ Increasing(last_hash')
      /\ \A x \in DOMAIN last_hash' : In(last_hash'[x], AllRecs', Len(Stored'))
  BY <1>4, HashStays
<1>6. DiskTypes'
  BY <1>5 DEF DiskTypes, DiskInv
<1> QED BY <1>4, <1>5, <1>6 DEF DiskInv

(* What does not append leaves the number of facts. *)
LEMMA OthersSpent ==
    ASSUME DiskInv, NEW E, Spend(E), "fact" \notin E
    PROVE  budget' \in [Events -> Nat] /\ budget'["fact"] = budget["fact"]
<1>1. budget \in [Events -> Nat] /\ budget["fact"] <= MaxFacts
  BY DEF DiskInv, DiskTypes
<1>2. budget' \in [Events -> Nat]
  BY <1>1, SpendKeeps
<1>3. "fact" \in DOMAIN budget
  BY <1>1 DEF Events
<1> QED BY <1>2, <1>3 DEF Spend

(* rotate_wal. *)
LEMMA RotateDisk ==
    ASSUME Buffered, DiskInv, MemoryInv, rotate_wal
    PROVE  Follows
<1>1. PICK o \in rotate(store) :
          store' = o.store /\ Spend(IF o.ok THEN {"rotation"} ELSE {"rotation", "fault"})
  BY DEF rotate_wal
<1>2. mode = "up" /\ mode' = "up" /\ UNCHANGED <<last_hash, state, history, compacted>>
  BY DEF rotate_wal, memory
<1>3. Holds(store') /\ Flushed(Stored, store.buffer, RecordsOf(store'.shards), store'.buffer)
  BY <1>1, RotateFlushes, DiskFacts
<1>4. budget' \in [Events -> Nat] /\ budget'["fact"] = budget["fact"]
  BY <1>1, OthersSpent
<1>5. DiskInv' /\ Stored' \in Seq(Rec) /\ Begins(Stored, Stored')
  BY <1>2, <1>3, <1>4, DropDisk
<1> QED BY <1>2, <1>5, MemoryStays DEF Follows

(* A crash. *)
LEMMA CrashDisk ==
    ASSUME DiskInv, Crash
    PROVE  Follows
<1>1. PICK d \in Dropped(store) : store' = [store EXCEPT !.shards = d, !.buffer = <<>>]
  BY DEF Crash
<1>2. mode' = "down" /\ UNCHANGED <<last_hash, state, history, compacted>>
  BY DEF Crash, memory
<1>3. /\ Holds(store') /\ store'.buffer = <<>>
      /\ Flushed(Stored, store.buffer, RecordsOf(store'.shards), store'.buffer)
  BY <1>1, CrashFlushes, DiskFacts
<1>4. budget' \in [Events -> Nat] /\ budget'["fact"] = budget["fact"]
  BY OthersSpent DEF Crash
<1>5. DiskInv' /\ Stored' \in Seq(Rec) /\ Begins(Stored, Stored')
  BY <1>2, <1>3, <1>4, DropDisk
<1> QED BY <1>2, <1>5 DEF Follows, MemoryInv

(* The position compact() splits at is one of the history. *)
LEMMA SplitInside ==
    ASSUME history \in Seq(Entry)
    PROVE  SplitPoint \in 0 .. Len(history)
<1> DEFINE later == {i \in DOMAIN history : history[i].version_before > state.last_stable}
<1>1. Len(history) \in Nat /\ DOMAIN history = 1 .. Len(history)
  OBVIOUS
<1>2. CASE later = {}
  BY <1>1, <1>2, SMTT(60) DEF SplitPoint
<1>3. CASE later # {}
  <2>1. later \subseteq Nat
    BY <1>1
  <2>2. PICK m \in later : \A x \in later : m <= x
    BY <1>3, <2>1, LeastNatural
  <2>3. Min(later) = m
    <3>1. \A x \in later : x \in Nat
      BY <2>1
    <3> HIDE DEF later
    <3> QED BY <2>2, <3>1 DEF Min
  <2>4. SplitPoint = m - 1 /\ m \in 1 .. Len(history)
    BY <1>1, <1>3, <2>2, <2>3 DEF SplitPoint
  <2> QED BY <1>1, <2>4
<1> QED BY <1>2, <1>3

(* compact: the history loses its beginning. *)
LEMMA CompactDisk ==
    ASSUME DiskInv, MemoryInv, compact
    PROVE  Follows
<1> DEFINE k == SplitPoint
           rest == SubSeq(history, k + 1, Len(history))
<1>1. /\ mode = "up" /\ mode' = "up" /\ history' = rest /\ compacted' # <<>>
      /\ UNCHANGED <<state, last_hash, store>> /\ Spend({"compaction"})
  BY DEF compact
<1>2. history \in Seq(Entry) /\ last_hash \in Seq(Fact) /\ Stored \in Seq(Rec)
  BY DiskFacts DEF DiskInv, DiskTypes
<1>3. k \in 0 .. Len(history)
  BY <1>2, SplitInside
<1> HIDE DEF k
<1>4. /\ rest \in Seq(Entry) /\ Len(rest) = Len(history) - k
      /\ \A i \in 1 .. Len(history) - k : rest[i] = history[k + i]
  <2>1. history \in Seq(Entry)
    BY <1>2
  <2> QED BY <1>3, <2>1, Behind
<1> HIDE DEF rest
<1>5. Stored' = Stored /\ AllRecs' = AllRecs
  BY <1>1 DEF Stored, AllRecs
<1>6. budget' \in [Events -> Nat] /\ budget'["fact"] = budget["fact"]
  BY <1>1, OthersSpent
<1>7. next_id' = next_id
  BY <1>6 DEF next_id
<1>8. DiskTypes'
  BY <1>1, <1>4, <1>6 DEF DiskTypes, DiskInv
<1>9. DiskInv'
  BY <1>1, <1>5, <1>7, <1>8 DEF DiskInv
<1>10. ASSUME Linked(Stored, genesis)
       PROVE  Begins(last_hash, FactsOf(Stored)) /\ \E c \in 0 .. Len(last_hash) : EndsWith(rest, last_hash, c)
  <2>1. Begins(last_hash, FactsOf(Stored))
    BY <1>1, <1>10 DEF MemoryInv
  <2>2. PICK c \in 0 .. Len(last_hash) : EndsWith(history, last_hash, c)
    BY <1>1, <1>10 DEF MemoryInv
  <2>3. Len(history) = Len(last_hash) - c /\ \A i \in 1 .. Len(history) : history[i].fact = last_hash[c + i]
    BY <2>2 DEF EndsWith
  <2>4. Len(history) \in Nat /\ Len(last_hash) \in Nat
    BY <1>2
  <2>5. PICK d \in 0 .. Len(last_hash) : d = c + k
    BY <1>3, <2>3, <2>4
  <2>6. Len(rest) = Len(last_hash) - d
    BY <1>3, <1>4, <2>3, <2>4, <2>5
  <2>7. ASSUME NEW i \in 1 .. Len(rest) PROVE rest[i].fact = last_hash[d + i]
    <3>1. k + i \in 1 .. Len(history) /\ i \in 1 .. Len(history) - k /\ c + (k + i) = d + i
      BY <1>3, <1>4, <2>4, <2>5
    <3> QED BY <1>4, <2>3, <3>1
  <2>8. EndsWith(rest, last_hash, d)
    BY <2>6, <2>7 DEF EndsWith
  <2> QED BY <2>1, <2>8
<1>11. MemoryInv'
  BY <1>1, <1>5, <1>10 DEF MemoryInv
<1>12. Len(Stored) \in Nat
  BY <1>2
<1> QED BY <1>2, <1>5, <1>9, <1>11, <1>12, BeginsItself DEF Follows

(* What a recovery takes from the records. *)
LEMMA StateOfType ==
    ASSUME NEW facts \in Seq(Fact)
    PROVE  StateOf(facts) \in State
<1>1. Len(facts) \in 0 .. Len(facts) /\ SubSeq(facts, 1, Len(facts)) = facts
  OBVIOUS
<1>2. StateAt(facts, Len(facts)) = StateOf(facts)
  BY <1>1 DEF StateAt
<1> QED BY <1>1, <1>2, StateAtType

(* recover_with_options: memory is what the records say. *)
LEMMA RecoverDisk ==
    ASSUME DiskInv, recover_with_options
    PROVE  Follows
<1> DEFINE recs == Stored
           n == Len(recs)
           E(i) == [version_before |-> recs[i].version_before, fact |-> recs[i].fact]
<1>1. Holds(store) /\ recs \in Seq(Rec) /\ n \in Nat /\ AllRecs \in Seq(Rec)
      /\ n \in 0 .. Len(AllRecs) /\ (\A i \in 1 .. n : AllRecs[i] = recs[i])
      /\ recs = RecordsOf(store.shards)
  BY DiskFacts
<1>2. read_wal_with_hash(store.shards) = recs
  BY <1>1, ReadableStored DEF recover_with_options
<1>3. /\ mode = "down" /\ mode' = "up"
      /\ history' = [i \in DOMAIN recs |-> E(i)] /\ state' = StateOf(FactsOf(recs))
      /\ last_hash' = RecoveredHash(recs) /\ compacted' = <<>>
      /\ store' = append_with_options(store) /\ UNCHANGED budget
  BY <1>2 DEF recover_with_options, replay_wal_records, StateOf
<1>4. Holds(store') /\ store'.shards = store.shards /\ store'.buffer = <<>>
  BY <1>1, <1>3, MountHolds
<1>5. store.buffer = <<>>
  BY <1>3 DEF DiskInv, DiskTypes
<1>6. Stored' = recs /\ AllRecs' = AllRecs /\ next_id' = next_id
  BY <1>3, <1>4, <1>5 DEF Stored, AllRecs, next_id
<1> HIDE DEF recs
<1>7. /\ FactsOf(recs) \in Seq(Fact) /\ Len(FactsOf(recs)) = n
      /\ \A i \in 1 .. n : FactsOf(recs)[i] = recs[i].fact
  BY <1>1, FactsAre
<1>8. DOMAIN recs = 1 .. n /\ \A i \in 1 .. n : recs[i] \in Rec
  BY <1>1
<1>9. history' \in Seq(Entry) /\ Len(history') = n /\ \A i \in 1 .. n : history'[i].fact = recs[i].fact
  <2>1. \A i \in 1 .. n : E(i) \in Entry /\ E(i).fact = recs[i].fact
    BY <1>8 DEF Entry, Rec
  <2>2. history' = [i \in 1 .. n |-> E(i)]
    BY <1>3, <1>8
  <2> HIDE DEF E, n
  <2>3. history' \in [1 .. n -> Entry]
    BY <2>1, <2>2
  <2>4. history' \in Seq(Entry)
    BY <1>1, <2>3
  <2>5. history' = [i \in 1 .. n |-> history'[i]]
    BY <2>2
  <2>6. Len(history') = n
    BY <1>1, <2>5, LengthOf
  <2> QED BY <2>1, <2>2, <2>4, <2>6
<1>10. state' \in State
  BY <1>3, <1>7, StateOfType
<1>11. /\ n = 0 => last_hash' = <<>>
       /\ n # 0 => n \in 1 .. n /\ last_hash' = recs[n].chain_hash
  <2>1. CASE n = 0
    <3>1. recs = <<>>
      BY <1>1, <2>1
    <3> QED BY <1>3, <2>1, <3>1 DEF RecoveredHash, genesis
  <2>2. CASE n # 0
    <3>1. recs # <<>>
      BY <1>1, <2>2
    <3> QED BY <1>1, <1>3, <2>2, <3>1 DEF RecoveredHash, Last
  <2> QED BY <2>1, <2>2
<1>12. /\ last_hash' \in Seq(Fact) /\ Increasing(last_hash')
       /\ \A x \in DOMAIN last_hash' : In(last_hash'[x], AllRecs, n)
  <2>1. CASE n = 0
    <3>1. last_hash' = <<>>
      BY <1>11, <2>1
    <3> QED BY <3>1 DEF Increasing
  <2>2. CASE n # 0
    <3> DEFINE r == recs[n]
    <3>1. r \in Rec /\ last_hash' = r.chain_hash /\ n \in 1 .. Len(AllRecs) /\ AllRecs[n] = r
      BY <1>1, <1>8, <1>11, <2>2
    <3>2. Rests(r, AllRecs, n)
      <4>1. Sound(AllRecs, n, next_id)
        BY DEF DiskInv, recs
      <4>2. Rests(AllRecs[n], AllRecs, n)
        BY <3>1, <4>1 DEF Sound
      <4> QED BY <3>1, <4>2
    <3>3. In(r.fact, AllRecs, n)
      <4>1. n \in 1 .. n
        BY <1>1, <2>2
      <4> QED BY <3>1, <4>1 DEF In
    <3> DEFINE p == r.prev_hash
               g == r.fact
    <3>4. p \in Seq(Fact) /\ g \in Fact /\ r.chain_hash = Append(p, g)
      BY <3>1, <3>2 DEF Rec, Rests
    <3>5. \A x \in DOMAIN p : In(p[x], AllRecs, n)
      BY <3>2 DEF Rests
    <3> HIDE DEF r, p, g, n
    <3>6. /\ Append(p, g) \in Seq(Fact) /\ DOMAIN Append(p, g) = 1 .. Len(p) + 1 /\ DOMAIN p = 1 .. Len(p)
          /\ (\A i \in 1 .. Len(p) : Append(p, g)[i] = p[i]) /\ Append(p, g)[Len(p) + 1] = g /\ Len(p) \in Nat
      BY <3>4, AtTheEnd
    <3>7. ASSUME NEW x \in 1 .. Len(p) + 1 PROVE In(Append(p, g)[x], AllRecs, n)
      <4>1. CASE x = Len(p) + 1
        BY <3>3, <3>6, <4>1 DEF g
      <4>2. CASE x \in 1 .. Len(p)
        BY <3>5, <3>6, <4>2
      <4> QED BY <3>6, <4>1, <4>2
    <3>8. Increasing(r.chain_hash)
      BY <3>2 DEF Rests
    <3> QED BY <3>1, <3>4, <3>6, <3>7, <3>8
  <2> QED BY <2>1, <2>2
<1>13. DiskTypes'
  BY <1>3, <1>4, <1>9, <1>10, <1>12 DEF DiskTypes, DiskInv
<1>14. DiskInv'
  BY <1>6, <1>12, <1>13 DEF DiskInv, recs
<1>15. ASSUME Linked(recs, genesis) PROVE last_hash' = FactsOf(recs)
  <2>1. CASE n = 0
    <3>1. FactsOf(recs) = <<>>
      BY <1>7, <2>1
    <3> QED BY <1>11, <2>1, <3>1
  <2>2. CASE n # 0
    <3>1. recs[n].chain_hash = SubSeq(FactsOf(recs), 1, n)
      BY <1>1, <1>11, <1>15, <2>2, LinkedHashes
    <3>2. SubSeq(FactsOf(recs), 1, n) = FactsOf(recs)
      BY <1>7
    <3> QED BY <1>11, <2>2, <3>1, <3>2
  <2> QED BY <2>1, <2>2
<1>16. ASSUME Linked(recs, genesis)
       PROVE  /\ Begins(last_hash', FactsOf(recs)) /\ EndsWith(history', last_hash', 0)
              /\ 0 \in 0 .. Len(last_hash')
  <2>1. last_hash' = FactsOf(recs)
    BY <1>15, <1>16
  <2>2. Begins(FactsOf(recs), FactsOf(recs))
    BY <1>1, <1>7, BeginsItself
  <2>3. \A i \in 1 .. n : 0 + i = i
    OBVIOUS
  <2>4. EndsWith(history', FactsOf(recs), 0)
    BY <1>1, <1>7, <1>9, <2>3 DEF EndsWith
  <2> QED BY <1>1, <1>7, <2>1, <2>2, <2>4
<1>17. MemoryInv'
  BY <1>6, <1>16 DEF MemoryInv
<1> QED BY <1>1, <1>6, <1>14, <1>17, BeginsItself DEF Follows, recs

(* A recovery that is refused. *)
LEMMA RefusedDisk ==
    ASSUME DiskInv, RecoverRefused
    PROVE  Follows
<1>1. mode = "down" /\ mode' = "refused" /\ UNCHANGED <<last_hash, state, history, store, budget>>
  BY DEF RecoverRefused, memory
<1>2. Stored' = Stored /\ AllRecs' = AllRecs /\ next_id' = next_id
  BY <1>1 DEF Stored, AllRecs, next_id
<1>3. DiskTypes'
  BY <1>1 DEF DiskTypes, DiskInv
<1>4. DiskInv'
  BY <1>1, <1>2, <1>3 DEF DiskInv
<1>5. MemoryInv'
  BY <1>1 DEF MemoryInv
<1>6. Stored \in Seq(Rec) /\ Len(Stored) \in Nat
  BY DiskFacts
<1> QED BY <1>2, <1>4, <1>5, <1>6, BeginsItself DEF Follows

(* truncate_partial_line. *)
LEMMA TruncateDisk ==
    ASSUME DiskInv, truncate_partial_line
    PROVE  Follows
<1>1. mode = "refused" /\ mode' = "down" /\ UNCHANGED <<last_hash, state, history, budget>>
  BY DEF truncate_partial_line, memory
<1>2. PICK k \in DOMAIN store.shards : Curable(k) /\ store' = [store EXCEPT !.shards[k] = Front(@)]
  BY DEF truncate_partial_line
<1>3. EndsTorn(store.shards[k])
  BY <1>2 DEF Curable
<1>4. Holds(store') /\ RecordsOf(store'.shards) = RecordsOf(store.shards) /\ store'.buffer = store.buffer
  BY <1>2, <1>3, CutKeeps, DiskFacts
<1>5. Stored' = Stored /\ AllRecs' = AllRecs /\ next_id' = next_id
  BY <1>1, <1>4 DEF Stored, AllRecs, next_id
<1>6. DiskTypes'
  BY <1>1, <1>4 DEF DiskTypes, DiskInv
<1>7. DiskInv'
  BY <1>1, <1>5, <1>6 DEF DiskInv
<1>8. MemoryInv'
  BY <1>1 DEF MemoryInv
<1>9. Stored \in Seq(Rec) /\ Len(Stored) \in Nat
  BY DiskFacts
<1> QED BY <1>5, <1>7, <1>8, <1>9, BeginsItself DEF Follows

(* Nothing happens. *)
LEMMA StandDisk ==
    ASSUME DiskInv, MemoryInv, UNCHANGED vars
    PROVE  Follows
<1>1. UNCHANGED <<mode, last_hash, state, history, compacted, store, budget>>
  BY DEF vars, memory
<1>2. Stored' = Stored /\ AllRecs' = AllRecs /\ next_id' = next_id
  BY <1>1 DEF Stored, AllRecs, next_id
<1>3. DiskTypes'
  BY <1>1 DEF DiskTypes, DiskInv
<1>4. DiskInv'
  BY <1>1, <1>2, <1>3 DEF DiskInv
<1>5. MemoryInv'
  BY <1>1, <1>2 DEF MemoryInv
<1>6. Stored \in Seq(Rec) /\ Len(Stored) \in Nat
  BY DiskFacts
<1> QED BY <1>2, <1>4, <1>5, <1>6, BeginsItself DEF Follows

(* Every step of the log. *)
LEMMA DiskStep ==
    ASSUME Buffered, DiskInv, MemoryInv, [Next]_vars
    PROVE  Follows
BY AppendDisk, ForkDisk, RotateDisk, CompactDisk, CrashDisk, RecoverDisk, RefusedDisk,
   TruncateDisk, StandDisk, Zenon DEF Next, HealthyNext

(* The new log. *)
LEMMA DiskInit == ASSUME Init PROVE DiskInv /\ MemoryInv
<1> DEFINE sh == [k \in {0} |-> <<>>]
           none == <<>>
           zero == 0
<1>1. mode = "up" /\ last_hash = <<>> /\ history = <<>> /\ state = EmptyState /\ budget \in Budgets
  BY DEF Init, genesis
<1>2. store = StoreOf(zero, sh, zero, none)
  BY DEF Init, create_with_options, StoreOf
<1>3. none \in Seq(Rec) /\ none \in Seq(Line) /\ zero \in Nat
  OBVIOUS
<1>4. ShardsFit(sh, zero)
  <2>1. 0 .. 0 = {0}
    OBVIOUS
  <2>2. ShardOK(<<>>)
    BY <1>3, LinesAreWhole
  <2> QED BY <2>1, <2>2 DEF ShardsFit
<1> HIDE DEF none, zero
<1>5. Holds(store) /\ store.shards = sh /\ store.buffer = none
  <2> HIDE DEF sh
  <2>1. /\ Holds(StoreOf(zero, sh, zero, none)) /\ StoreOf(zero, sh, zero, none).shards = sh
        /\ StoreOf(zero, sh, zero, none).buffer = none
    BY <1>3, <1>4, StoreOfHolds
  <2> QED BY <1>2, <2>1, Zenon
<1>6. Stored = <<>>
  <2>1. DOMAIN sh = 0 .. 0 /\ sh[0] = <<>>
    <3>1. 0 .. 0 = {0}
      OBVIOUS
    <3> QED BY <3>1
  <2>2. KeptOf(sh) \in Shards(zero) /\ KeptOf(sh)[0] = Kept(sh[0])
    BY <1>3, <1>4, KeptShards DEF zero
  <2>3. Kept(sh[0]) = <<>>
    BY <1>3, <2>1, LinesAreWhole DEF none
  <2> DEFINE th == KeptOf(sh)
  <2>4. DOMAIN th = 0 .. 0 /\ th[0] = <<>>
    <3> HIDE DEF th
    <3>1. th \in Shards(zero) /\ th[0] = Kept(sh[0])
      BY <2>2 DEF th
    <3> QED BY <2>3, <3>1 DEF Shards, zero
  <2> HIDE DEF th, sh
  <2>5. ReadLines(th) = FlattenSeq(InOrder(th, 0))
    BY <2>4, ReaderFindsAll
  <2>6. Len(InOrder(th, 0)) = 1 /\ InOrder(th, 0)[1] = th[0]
    <3>1. Len(InOrder(th, 0)) = 0 + 1 /\ \A i \in 1 .. 0 + 1 : InOrder(th, 0)[i] = th[i - 1]
      BY InOrderIs
    <3> QED BY <3>1
  <2>7. ReadLines(th) = <<>>
    BY <2>4, <2>5, <2>6, FlattenOne
  <2>8. Recs(<<>>) = <<>>
    BY DEF Recs
  <2> QED BY <1>5, <2>7, <2>8 DEF Stored, RecordsOf, th
<1>7. AllRecs = <<>>
  BY <1>5, <1>6 DEF AllRecs, none
<1>8. EmptyState \in State
  BY DEF EmptyState, State
<1>9. budget \in [Events -> Nat] /\ budget["fact"] <= MaxFacts
  BY <1>1, FactsLogAssumption DEF Events
<1>10. <<>> \in Seq(Fact) /\ <<>> \in Seq(Entry) /\ Len(<<>>) = 0
  OBVIOUS
<1>11. DiskTypes
  BY <1>1, <1>5, <1>8, <1>9, <1>10 DEF DiskTypes
<1>12. DiskInv
  <2>1. Sound(<<>>, 0, next_id)
    BY DEF Sound
  <2> QED BY <1>1, <1>6, <1>7, <1>10, <1>11, <2>1 DEF DiskInv, Increasing
<1>13. Begins(<<>>, FactsOf(<<>>)) /\ EndsWith(<<>>, <<>>, 0) /\ 0 \in 0 .. Len(<<>>)
  <2>1. FactsOf(<<>>) = <<>>
    BY DEF FactsOf
  <2> QED BY <1>10, <2>1 DEF Begins, EndsWith
<1> QED BY <1>1, <1>6, <1>12, <1>13 DEF MemoryInv

(* The facts of memory and of the disk, by their numbers. *)
LEMMA DiskMeansAhead == DiskInv => WriteAhead
<1>1. SUFFICES ASSUME DiskInv PROVE WriteAhead
  OBVIOUS
<1> DEFINE lines == WholeLines
           At(k) == {i \in DOMAIN lines : lines[i].rec.fact = last_hash[k]}
<1>2. /\ Holds(store) /\ Stored \in Seq(Rec) /\ AllRecs \in Seq(Rec) /\ Len(Stored) \in 0 .. Len(AllRecs)
      /\ (\A i \in 1 .. Len(Stored) : AllRecs[i] = Stored[i]) /\ last_hash \in Seq(Fact)
  BY <1>1, DiskFacts
<1>3. lines = ReadLines(KeptOf(store.shards))
  BY DEF WholeLines, KeptOf
<1>4. lines \in Seq(Line) /\ Stored = Recs(lines)
  <2>1. store.seq \in Nat /\ ShardsFit(store.shards, store.seq)
    BY <1>2, StoreFields
  <2>2. ReadLines(KeptOf(store.shards)) \in Seq(Line)
    BY <2>1, KeptShards
  <2> QED BY <1>3, <2>2 DEF Stored, RecordsOf
<1> HIDE DEF lines
<1>5. /\ Len(Stored) = Len(lines) /\ DOMAIN lines = 1 .. Len(lines) /\ Len(lines) \in Nat
      /\ \A i \in 1 .. Len(lines) : Stored[i] = lines[i].rec
  BY <1>4, RecsIs
<1>6. \A i \in DOMAIN lines : lines[i].form = "whole"
  <2>1. \A l \in Line : l.form = "whole"
    BY DEF Line, WholeLine
  <2> QED BY <1>4, <2>1
<1>7. \A i \in 1 .. Len(lines) : AllRecs[i].fact = lines[i].rec.fact /\ i \in 1 .. Len(AllRecs)
  BY <1>2, <1>5
<1>8. \A k \in DOMAIN last_hash : At(k) # {}
  <2>1. SUFFICES ASSUME NEW k \in DOMAIN last_hash PROVE \E i \in DOMAIN lines : lines[i].rec.fact = last_hash[k]
    OBVIOUS
  <2>2. PICK i \in 1 .. Len(Stored) : AllRecs[i].fact = last_hash[k]
    BY <1>1 DEF DiskInv, In
  <2> QED BY <1>5, <1>7, <2>2
<1>9. ASSUME NEW k \in DOMAIN last_hash, NEW l \in DOMAIN last_hash, NEW i \in At(k), NEW j \in At(l)
      PROVE  k < l <=> i < j
  <2>1. /\ i \in 1 .. Len(AllRecs) /\ j \in 1 .. Len(AllRecs)
        /\ AllRecs[i].fact = last_hash[k] /\ AllRecs[j].fact = last_hash[l]
    BY <1>5, <1>7
  <2> DEFINE a == last_hash[k].id
             b == last_hash[l].id
  <2>2. (i < j => a < b) /\ (j < i => b < a)
    <3>1. \A x, y \in 1 .. Len(AllRecs) : x < y => AllRecs[x].fact.id < AllRecs[y].fact.id
      BY <1>1 DEF DiskInv, Sound
    <3> QED BY <2>1, <3>1
  <2>3. (k < l => a < b) /\ (l < k => b < a)
    BY <1>1 DEF DiskInv, Increasing
  <2>4. a \in Nat /\ b \in Nat /\ (i = j => a = b) /\ (k = l => a = b) /\ i \in Nat /\ j \in Nat
        /\ k \in Nat /\ l \in Nat
    <3>1. last_hash[k] \in Fact /\ last_hash[l] \in Fact /\ k \in Nat /\ l \in Nat
      BY <1>2
    <3> QED BY <2>1, <3>1 DEF Fact
  <2> HIDE DEF a, b
  <2> QED BY <2>2, <2>3, <2>4
<1> QED BY <1>6, <1>8, <1>9 DEF WriteAhead, lines

LEMMA DiskIsUnspoilt == DiskInv => NothingIsSpoilt
<1>1. SUFFICES ASSUME DiskInv PROVE store.spoilt = {}
  BY DEF NothingIsSpoilt
<1>2. Holds(store)
  BY <1>1 DEF DiskInv, DiskTypes
<1> QED BY <1>2 DEF Holds

(* The invariants hold always. *)
LEMMA DiskAlways == ASSUME Buffered PROVE Spec => [](DiskInv /\ MemoryInv)
<1>1. Init => DiskInv /\ MemoryInv
  BY DiskInit
<1>2. (DiskInv /\ MemoryInv) /\ [Next]_vars => (DiskInv /\ MemoryInv)'
  BY DiskStep DEF Follows
<1> QED BY <1>1, <1>2, PTL DEF Spec

(* Under failing, torn and unsynced writes, crashes, refused recoveries,    *)
(* forks and the truncate-partial-line tool alike, every fact that memory   *)
(* counts as appended is on the disk, in the order memory has: append       *)
(* writes and flushes the record before it touches memory, and a failed     *)
(* write leaves memory alone.  Opening the next shard is taken to succeed   *)
(* and every line to be shorter than the buffer; then no record is run into *)
(* another, and WriteAhead holds without its exception.                     *)
THEOREM WritesComeFirst == ASSUME Buffered PROVE Spec => [](WriteAhead /\ NothingIsSpoilt)
BY DiskAlways, DiskMeansAhead, DiskIsUnspoilt, PTL

-----------------------------------------------------------------------------
(* The auditor, the sentinel and the log together. *)

(* Whatever the auditor does, the log takes its own steps or stands. *)
LEMMA LogGoesOn == ASSUME [VerifyNext]_allVars PROVE [Next]_vars
BY Zenon DEF VerifyNext, AuditNext, LogStep, CrashAll, Restart, NothingNew, AuditStart, Walk, Close,
   seal_anchor_now, load_from_tier1_wal, export, import, scan_wal_dir, Next, HealthyNext,
   auditVars, allVars

(* What a growing disk has kept: the chain it was, at its beginning. *)
LEMMA ChainGrows ==
    ASSUME DiskInv, Stored' \in Seq(Rec), Begins(Stored, Stored')
    PROVE  /\ FactsOf(Stored) \in Seq(Fact) /\ FactsOf(Stored') \in Seq(Fact)
           /\ Len(FactsOf(Stored)) = Len(Stored) /\ Len(Stored) \in Nat
           /\ Begins(FactsOf(Stored), FactsOf(Stored'))
           /\ Linked(Stored', genesis) => Linked(Stored, genesis)
           /\ \A k \in 0 .. Len(Stored) :
                 /\ SubSeq(FactsOf(Stored'), 1, k) = SubSeq(FactsOf(Stored), 1, k)
                 /\ k \in 0 .. Len(Stored')
<1>1. Stored \in Seq(Rec)
  BY DiskFacts
<1> DEFINE f == FactsOf(Stored)
           g == FactsOf(Stored')
<1>2. /\ f \in Seq(Fact) /\ g \in Seq(Fact) /\ Begins(f, g)
      /\ Len(f) = Len(Stored) /\ Len(g) = Len(Stored')
  BY <1>1, FactsAre, FactsBegin
<1>3. Linked(Stored', genesis) => Linked(Stored, genesis)
  BY <1>1, LinkedPrefix
<1> HIDE DEF f, g
<1>4. ASSUME NEW k \in 0 .. Len(f)
      PROVE  SubSeq(g, 1, k) = SubSeq(f, 1, k) /\ k \in 0 .. Len(g)
  <2>1. k \in 0 .. Len(g) /\ \A i \in 1 .. k : g[i] = f[i]
    BY <1>2 DEF Begins
  <2>2. /\ SubSeq(f, 1, k) \in Seq(Fact) /\ Len(SubSeq(f, 1, k)) = k
        /\ \A i \in 1 .. k : SubSeq(f, 1, k)[i] = f[i]
    BY <1>2, Upto
  <2>3. /\ SubSeq(g, 1, k) \in Seq(Fact) /\ Len(SubSeq(g, 1, k)) = k
        /\ \A i \in 1 .. k : SubSeq(g, 1, k)[i] = g[i]
    BY <1>2, <2>1, Upto
  <2>4. \A i \in 1 .. k : SubSeq(g, 1, k)[i] = SubSeq(f, 1, k)[i]
    BY <2>1, <2>2, <2>3
  <2> QED BY <2>1, <2>2, <2>3, <2>4, SeqEqual
<1>5. Len(Stored) \in Nat
  BY <1>1
<1> QED BY <1>2, <1>3, <1>4, <1>5 DEF f, g

(* The invariants of the log, under everything that may happen beside it. *)
LEMMA DiskBeside ==
    ASSUME Buffered
    PROVE  VerifySpec => [](DiskInv /\ MemoryInv)
<1>1. VerifyInit => DiskInv /\ MemoryInv
  BY DiskInit DEF VerifyInit, AuditInit
<1>2. (DiskInv /\ MemoryInv) /\ [VerifyNext]_allVars => (DiskInv /\ MemoryInv)'
  BY DiskStep, LogGoesOn DEF Follows
<1> QED BY <1>1, <1>2, PTL DEF VerifySpec

(* The records a recovery would read, when it would. *)
LEMMA DiskIsStored ==
    ASSUME DiskInv, Readable(store.shards)
    PROVE  OnDisk = Stored /\ (Intact <=> Linked(Stored, genesis))
<1>1. Holds(store)
  BY DiskFacts
<1>2. OnDisk = Stored
  BY <1>1, ReadableStored, Zenon DEF OnDisk, Stored
<1> QED BY <1>2, Zenon DEF Intact

-----------------------------------------------------------------------------
(* The sentinel. *)

(* The baseline is the length and the hash of a beginning of the log. *)
SentinelInv ==
    /\ scans \in Nat
    /\ baseline = <<>> \/ baseline = <<baseline[1]>>
    /\ baseline # <<>> =>
          /\ baseline[1].records \in 0 .. Len(Stored)
          /\ baseline[1].tail = SubSeq(FactsOf(Stored), 1, baseline[1].records)

(* The fold over the stored hashes accepts exactly the chains. *)
LEMMA HashesMeanLinked ==
    ASSUME NEW recs \in Seq(Rec)
    PROVE  /\ verify_hash_chain_with_stored(recs) <=> Linked(recs, genesis)
           /\ verify_hash_chain_with_stored(recs) <=>
                 \A i \in 1 .. Len(recs) :
                    /\ recs[i].prev_hash = SubSeq(FactsOf(recs), 1, i - 1)
                    /\ recs[i].chain_hash = SubSeq(FactsOf(recs), 1, i)
<1> DEFINE f == FactsOf(recs)
<1>1. f \in Seq(Fact) /\ Len(f) = Len(recs) /\ \A i \in 1 .. Len(recs) : f[i] = recs[i].fact
  BY FactsAre
<1>2. DOMAIN recs = 1 .. Len(recs)
  OBVIOUS
<1> HIDE DEF f
<1>3. \A i \in 1 .. Len(recs) : SubSeq(f, 1, i) = Append(SubSeq(f, 1, i - 1), recs[i].fact)
  BY <1>1, UptoNext
<1>4. verify_hash_chain_with_stored(recs) <=>
         \A i \in 1 .. Len(recs) :
            recs[i].prev_hash = SubSeq(f, 1, i - 1) /\ recs[i].chain_hash = SubSeq(f, 1, i)
  BY <1>2, <1>3, Zenon DEF verify_hash_chain_with_stored, Running, chain_step, f
<1> QED BY <1>4, LinkedHashes, HashesLinked DEF f

(* A log that goes on from the baseline compares well with it. *)
LEMMA ComparesWell ==
    ASSUME NEW recs \in Seq(Rec), NEW prev, prev.records \in 0 .. Len(recs), prev.records > 0,
           prev.tail = SubSeq(FactsOf(recs), 1, prev.records)
    PROVE  compare_with_baseline(verify_group(recs), Observed(recs), prev)
<1> DEFINE k == prev.records
           chain == verify_group(recs)
<1>1. Len(recs) \in Nat /\ DOMAIN recs = 1 .. Len(recs)
  OBVIOUS
<1>2. chain = [i \in 1 .. Len(recs) |-> Running(recs, i)]
  BY <1>1 DEF verify_group
<1>3. Len(chain) = Len(recs)
  <2> HIDE DEF chain
  <2> QED BY <1>1, <1>2, LengthOf
<1>4. k \in 1 .. Len(recs) /\ k # 0
  BY <1>1
<1>5. chain[k] = prev.tail
  <2>1. chain[k] = Running(recs, k)
    BY <1>2, <1>4
  <2> QED BY <2>1 DEF Running
<1>6. Anchored(chain, prev)
  <2> HIDE DEF chain
  <2> QED BY <1>3, <1>4, <1>5 DEF Anchored
<1>7. Observed(recs).records = Len(recs) /\ Observed(recs).tail = SubSeq(FactsOf(recs), 1, Len(recs))
  BY DEF Observed, Running
<1>8. Observed(recs).records > prev.records \/ Observed(recs).records = prev.records
  BY <1>1, <1>4, <1>7
<1> QED BY <1>6, <1>7, <1>8, Zenon DEF compare_with_baseline

(* A scan. *)
LEMMA ScanIsRight ==
    ASSUME DiskInv, SentinelInv, scan_wal_dir
    PROVE  /\ baseline = <<>> \/ baseline[1].records > 0 => (exit_code' = 0 <=> Intact)
           /\ exit_code' = 0 => Readable(store.shards)
<1>1. exit_code' = ExitCode(store.shards, baseline)
  BY DEF scan_wal_dir
<1>2. CASE ~Readable(store.shards)
  <2>1. exit_code' = 5 /\ ~Intact
    BY <1>1, <1>2 DEF ExitCode, Intact
  <2> QED BY <2>1
<1>3. CASE Readable(store.shards)
  <2>1. OnDisk = Stored /\ (Intact <=> Linked(Stored, genesis)) /\ Stored \in Seq(Rec)
    BY <1>3, DiskIsStored, DiskFacts
  <2> DEFINE fits == baseline = <<>> \/ compare_with_baseline(verify_group(Stored), Observed(Stored), baseline[1])
  <2>2. exit_code' = IF ~verify_hash_chain_with_stored(Stored) THEN 3 ELSE IF fits THEN 0 ELSE 3
    BY <1>1, <1>3, <2>1, Zenon DEF ExitCode, OnDisk
  <2>3. verify_hash_chain_with_stored(Stored) <=> Intact
    BY <2>1, HashesMeanLinked
  <2>4. baseline = <<>> \/ baseline[1].records > 0 => fits
    BY <2>1, ComparesWell DEF SentinelInv
  <2> HIDE DEF fits
  <2> QED BY <1>3, <2>2, <2>3, <2>4
<1> QED BY <1>2, <1>3

(* The baseline after any step. *)
LEMMA SentinelStep ==
    ASSUME DiskInv, SentinelInv, Follows, [VerifyNext]_allVars
    PROVE  SentinelInv'
<1>1. /\ Stored' \in Seq(Rec) /\ Begins(Stored, Stored') /\ Stored \in Seq(Rec)
  BY DiskFacts DEF Follows
<1>2. \A k \in 0 .. Len(Stored) : /\ SubSeq(FactsOf(Stored'), 1, k) = SubSeq(FactsOf(Stored), 1, k)
                                  /\ k \in 0 .. Len(Stored')
  BY <1>1, ChainGrows
<1>3. CASE scan_wal_dir /\ exit_code' = 0
  <2>1. Readable(store.shards) /\ baseline' = <<Observed(OnDisk)>> /\ store' = store /\ scans' \in Nat
    BY <1>3, ScanIsRight DEF scan_wal_dir, auditVars, vars, OnDisk, SentinelInv
  <2>2. OnDisk = Stored /\ Stored' = Stored
    BY <2>1, DiskIsStored, Zenon DEF Stored
  <2>3. baseline'[1] = Observed(Stored) /\ baseline' = <<baseline'[1]>>
    BY <2>1, <2>2
  <2>4. Observed(Stored).records = Len(Stored) /\ Observed(Stored).tail = SubSeq(FactsOf(Stored), 1, Len(Stored))
    BY DEF Observed, Running
  <2>5. Len(Stored) \in 0 .. Len(Stored)
    BY <1>1
  <2> QED BY <2>1, <2>2, <2>3, <2>4, <2>5 DEF SentinelInv
<1>4. CASE baseline' = baseline /\ scans' \in Nat
  BY <1>2, <1>4 DEF SentinelInv
<1>5. scan_wal_dir => scans' \in Nat /\ (exit_code' # 0 => baseline' = baseline)
  BY DEF scan_wal_dir, SentinelInv
<1>6. ~scan_wal_dir => baseline' = baseline /\ scans' = scans
  BY DEF VerifyNext, allVars, sentinel
<1> QED BY <1>3, <1>4, <1>5, <1>6 DEF SentinelInv

(* The sentinel is right: however the log grew, was rotated, torn, cut or   *)
(* recovered since the baseline was taken of it, scan-wal-dir ends with 0   *)
(* exactly when the log is readable and one hash chain; a baseline taken of *)
(* an empty log is left out.  Lines are shorter than the writer's buffer.   *)
THEOREM ScansAreRight == ASSUME Buffered PROVE VerifySpec => SentinelIsRight
<1>1. VerifyInit => SentinelInv
  <2>1. VerifyInit => baseline = <<>> /\ scans \in Nat
    BY ScenarioAssumption DEF VerifyInit
  <2> QED BY <2>1 DEF SentinelInv
<1>2. (DiskInv /\ MemoryInv) /\ SentinelInv /\ [VerifyNext]_allVars => SentinelInv'
  BY DiskStep, LogGoesOn, SentinelStep
<1>3. DiskInv /\ SentinelInv /\ [VerifyNext]_allVars =>
         [scans' < scans /\ (baseline = <<>> \/ baseline[1].records > 0) => (exit_code' = 0 <=> Intact)]_allVars
  <2>1. SUFFICES ASSUME DiskInv, SentinelInv, [VerifyNext]_allVars, scans' < scans,
                        baseline = <<>> \/ baseline[1].records > 0
                 PROVE  exit_code' = 0 <=> Intact
    OBVIOUS
  <2>2. scans \in Nat /\ scans' # scans
    BY <2>1 DEF SentinelInv
  <2>3. scan_wal_dir
    BY <2>1, <2>2 DEF VerifyNext, allVars, sentinel
  <2> QED BY <2>1, <2>3, ScanIsRight
<1> QED BY <1>1, <1>2, <1>3, DiskBeside, PTL DEF VerifySpec, SentinelIsRight

-----------------------------------------------------------------------------
(* Audits. *)

AuditEntry == [fact : Fact, prev_hash : Seq(Fact), time : Nat]
Audits   == [entries : Seq(AuditEntry), last_hash : Seq(Fact), version : Nat, clock : Nat]
Document == [entries : Seq(AuditEntry), last_hash : Seq(Fact), version : Nat, astray : BOOLEAN]

(* Entries that are the first facts of a chain, and a hash that is theirs. *)
Follow(entries, hash, facts) ==
    /\ Len(entries) <= Len(facts)
    /\ \A i \in 1 .. Len(entries) :
          entries[i].fact = facts[i] /\ entries[i].prev_hash = SubSeq(facts, 1, i - 1)
    /\ hash = SubSeq(facts, 1, Len(entries))
    /\ \A i, j \in 1 .. Len(entries) : i < j => entries[i].time < entries[j].time

(* No entry was made after the clock's time. *)
NotAfter(entries, clock) == \A i \in 1 .. Len(entries) : entries[i].time <= clock

AuditTypes ==
    /\ audit \in Audits /\ astray \in BOOLEAN
    /\ exported = <<>> \/ (exported = <<exported[1]>> /\ exported[1] \in Document)

(* The auditor has the beginning of the chain, ... *)
AuditFollows ==
    Linked(Stored, genesis) /\ ~astray =>
        Follow(audit.entries, audit.last_hash, FactsOf(Stored)) /\ NotAfter(audit.entries, audit.clock)

(* ... and so has the document it wrote. *)
DocumentFollows ==
    exported # <<>> /\ Linked(Stored, genesis) /\ ~exported[1].astray =>
        Follow(exported[1].entries, exported[1].last_hash, FactsOf(Stored))

AuditInv == AuditTypes /\ AuditFollows /\ DocumentFollows

(* The chain grows beyond the entries. *)
LEMMA FollowGrows ==
    ASSUME NEW e \in Seq(AuditEntry), NEW h, NEW f \in Seq(Fact), NEW g \in Seq(Fact),
           Begins(f, g), Follow(e, h, f),
           \A k \in 0 .. Len(f) : SubSeq(g, 1, k) = SubSeq(f, 1, k)
    PROVE  Follow(e, h, g)
<1>1. /\ Len(e) \in Nat /\ Len(f) \in Nat /\ Len(g) \in Nat /\ Len(e) <= Len(f) /\ Len(f) <= Len(g)
      /\ \A i \in 1 .. Len(f) : f[i] = g[i]
  BY DEF Begins, Follow
<1>2. \A i \in 1 .. Len(e) : i \in 1 .. Len(f) /\ i - 1 \in 0 .. Len(f)
  BY <1>1
<1>3. Len(e) \in 0 .. Len(f) /\ Len(e) <= Len(g)
  BY <1>1
<1>4. \A i \in 1 .. Len(e) : e[i].fact = g[i] /\ e[i].prev_hash = SubSeq(g, 1, i - 1)
  BY <1>1, <1>2, Zenon DEF Follow
<1>5. h = SubSeq(g, 1, Len(e))
  BY <1>3, Zenon DEF Follow
<1> QED BY <1>3, <1>4, <1>5, Zenon DEF Follow

(* The entries for facts t behind a hash h. *)
LEMMA EntriesAre ==
    ASSUME NEW t \in Seq(Fact), NEW h \in Seq(Fact), NEW c \in Nat
    PROVE  /\ EntriesOf(t, h, c) \in Seq(AuditEntry) /\ Len(EntriesOf(t, h, c)) = Len(t)
           /\ Len(t) \in Nat
           /\ \A i \in 1 .. Len(t) :
                 /\ EntriesOf(t, h, c)[i].fact = t[i]
                 /\ EntriesOf(t, h, c)[i].prev_hash = h \o SubSeq(t, 1, i - 1)
                 /\ EntriesOf(t, h, c)[i].time = c + i
<1> DEFINE E(i) == [fact |-> t[i], prev_hash |-> h \o SubSeq(t, 1, i - 1), time |-> c + i]
           es == EntriesOf(t, h, c)
<1>1. DOMAIN t = 1 .. Len(t) /\ Len(t) \in Nat /\ \A i \in 1 .. Len(t) : t[i] \in Fact /\ i - 1 \in 0 .. Len(t)
  OBVIOUS
<1>2. es = [i \in 1 .. Len(t) |-> E(i)]
  BY <1>1 DEF EntriesOf
<1>3. \A i \in 1 .. Len(t) : E(i) \in AuditEntry
  <2>1. SUFFICES ASSUME NEW i \in 1 .. Len(t) PROVE E(i) \in AuditEntry
    OBVIOUS
  <2>2. SubSeq(t, 1, i - 1) \in Seq(Fact)
    BY <1>1, Upto
  <2>3. h \o SubSeq(t, 1, i - 1) \in Seq(Fact)
    BY <2>2
  <2> QED BY <1>1, <2>3 DEF AuditEntry
<1>4. \A i \in 1 .. Len(t) : es[i] = E(i)
  BY <1>2
<1>5. es \in Seq(AuditEntry) /\ Len(es) = Len(t)
  <2> HIDE DEF E, es
  <2>1. es \in [1 .. Len(t) -> AuditEntry]
    BY <1>2, <1>3
  <2> QED BY <1>1, <1>2, <2>1, LengthOf
<1>6. \A i \in 1 .. Len(t) : E(i).fact = t[i] /\ E(i).prev_hash = h \o SubSeq(t, 1, i - 1) /\ E(i).time = c + i
  OBVIOUS
<1> HIDE DEF E
<1> QED BY <1>1, <1>4, <1>5, <1>6, Zenon

(* A walk over facts of the chain behind what has been audited. *)
LEMMA WalkFollows ==
    ASSUME NEW f \in Seq(Fact), NEW e \in Seq(AuditEntry), NEW h \in Seq(Fact), NEW c \in Nat,
           Follow(e, h, f), NotAfter(e, c), NEW t \in Seq(Fact), Len(e) + Len(t) <= Len(f),
           \A i \in 1 .. Len(t) : t[i] = f[Len(e) + i]
    PROVE  Follow(e \o EntriesOf(t, h, c), h \o t, f) /\ NotAfter(e \o EntriesOf(t, h, c), c + Len(t))
<1> DEFINE n == Len(e)
           x == EntriesOf(t, h, c)
           m == Len(t)
           all == e \o x
<1>1. /\ x \in Seq(AuditEntry) /\ Len(x) = m /\ m \in Nat
      /\ \A i \in 1 .. m : /\ x[i].fact = t[i] /\ x[i].prev_hash = h \o SubSeq(t, 1, i - 1)
                           /\ x[i].time = c + i
  <2>1. /\ EntriesOf(t, h, c) \in Seq(AuditEntry) /\ Len(EntriesOf(t, h, c)) = Len(t)
        /\ Len(t) \in Nat
        /\ \A i \in 1 .. Len(t) :
              /\ EntriesOf(t, h, c)[i].fact = t[i]
              /\ EntriesOf(t, h, c)[i].prev_hash = h \o SubSeq(t, 1, i - 1)
              /\ EntriesOf(t, h, c)[i].time = c + i
    <3> HIDE DEF n, x, m, all
    <3> QED BY EntriesAre, Zenon
  <2>2. x = EntriesOf(t, h, c) /\ m = Len(t)
    OBVIOUS
  <2> HIDE DEF n, x, m, all
  <2> QED BY <2>1, <2>2, Zenon
<1> HIDE DEF x
<1>2. /\ all \in Seq(AuditEntry) /\ Len(all) = n + m /\ n \in Nat
      /\ \A i \in 1 .. n : all[i] = e[i]
      /\ \A i \in 1 .. m : all[n + i] = x[i]
      /\ \A i \in 1 .. Len(all) : i \in 1 .. n \/ \E j \in 1 .. m : i = n + j
  <2>1. /\ all \in Seq(AuditEntry) /\ Len(all) = Len(e) + Len(x) /\ Len(e) \in Nat
        /\ \A i \in 1 .. Len(e) : all[i] = e[i]
        /\ \A i \in 1 .. Len(x) : all[Len(e) + i] = x[i]
        /\ \A i \in 1 .. Len(all) : i \in 1 .. Len(e) \/ \E j \in 1 .. Len(x) : i = Len(e) + j
    <3>1. e \in Seq(AuditEntry) /\ x \in Seq(AuditEntry)
      BY <1>1
    <3> QED BY <3>1, Beyond
  <2> HIDE DEF all
  <2> QED BY <1>1, <2>1, Zenon
<1> HIDE DEF all
<1>3. /\ h = SubSeq(f, 1, n) /\ n \in 0 .. Len(f) /\ n + m \in 0 .. Len(f)
      /\ Len(f) \in Nat
  BY <1>1, <1>2 DEF Follow
<1>4. Len(h) = n /\ \A i \in 1 .. n : h[i] = f[i]
  BY <1>3, Upto
<1>5. ASSUME NEW j \in 0 .. m PROVE h \o SubSeq(t, 1, j) = SubSeq(f, 1, n + j)
  <2> DEFINE u == SubSeq(t, 1, j)
             l == h \o u
             r == SubSeq(f, 1, n + j)
  <2>1. u \in Seq(Fact) /\ Len(u) = j /\ \A i \in 1 .. j : u[i] = t[i]
    BY <1>1, Upto
  <2>2. /\ l \in Seq(Fact) /\ Len(l) = n + j
        /\ \A i \in 1 .. n : l[i] = h[i]
        /\ \A i \in 1 .. j : l[n + i] = u[i]
        /\ \A i \in 1 .. n + j : i \in 1 .. n \/ \E k \in 1 .. j : i = n + k
    <3> HIDE DEF u
    <3>1. h \in Seq(Fact) /\ u \in Seq(Fact)
      BY <2>1
    <3>2. /\ l \in Seq(Fact) /\ Len(l) = Len(h) + Len(u)
          /\ \A i \in 1 .. Len(h) : l[i] = h[i]
          /\ \A i \in 1 .. Len(u) : l[Len(h) + i] = u[i]
          /\ \A i \in 1 .. Len(l) : i \in 1 .. Len(h) \/ \E k \in 1 .. Len(u) : i = Len(h) + k
      BY <3>1, Beyond
    <3> HIDE DEF l
    <3>3. Len(h) = n /\ Len(u) = j /\ Len(l) = n + j
      BY <1>4, <2>1, <3>2, Zenon
    <3> HIDE DEF n
    <3> QED BY <3>2, <3>3
  <2>3. n + j \in 0 .. Len(f)
    BY <1>1, <1>3
  <2>4. r \in Seq(Fact) /\ Len(r) = n + j /\ \A i \in 1 .. n + j : r[i] = f[i]
    BY <2>3, Upto
  <2> HIDE DEF u, l, r
  <2>5. \A i \in 1 .. n : l[i] = f[i]
    BY <1>4, <2>2
  <2>6. \A k \in 1 .. j : l[n + k] = f[n + k]
    <3>1. \A k \in 1 .. j : k \in 1 .. m
      BY <1>1
    <3> QED BY <2>1, <2>2, <3>1
  <2>7. \A i \in 1 .. n + j : l[i] = r[i]
    BY <2>2, <2>4, <2>5, <2>6, ZenonT(60)
  <2>8. l = r
    BY <2>2, <2>4, <2>7, SeqEqual
  <2> QED BY <2>8 DEF l, r, u
<1>6. h \o t = SubSeq(f, 1, Len(all))
  <2>1. SubSeq(t, 1, m) = t
    OBVIOUS
  <2>2. m \in 0 .. m
    BY <1>1
  <2>3. h \o SubSeq(t, 1, m) = SubSeq(f, 1, n + m)
    BY <1>5, <2>2
  <2> QED BY <1>2, <2>1, <2>3
<1>7. ASSUME NEW i \in 1 .. Len(all)
      PROVE  all[i].fact = f[i] /\ all[i].prev_hash = SubSeq(f, 1, i - 1)
  <2>1. CASE i \in 1 .. n
    BY <1>2, <2>1 DEF Follow
  <2>2. ASSUME NEW j \in 1 .. m, i = n + j
        PROVE  all[i].fact = f[i] /\ all[i].prev_hash = SubSeq(f, 1, i - 1)
    <3>1. j - 1 \in 0 .. m /\ n + (j - 1) = i - 1
      BY <1>1, <1>2, <2>2
    <3>2. h \o SubSeq(t, 1, j - 1) = SubSeq(f, 1, i - 1)
      BY <1>5, <3>1
    <3>3. all[i] = x[j] /\ t[j] = f[i]
      BY <1>2, <2>2
    <3> QED BY <1>1, <3>2, <3>3
  <2> QED BY <1>2, <2>1, <2>2
<1>8. ASSUME NEW i \in 1 .. Len(all)
      PROVE  /\ i \in 1 .. n => all[i].time = e[i].time /\ all[i].time <= c /\ all[i].time \in Nat
             /\ i \notin 1 .. n => all[i].time = c + (i - n) /\ i \in n + 1 .. n + m
  <2>1. i \in 1 .. n => all[i] = e[i] /\ e[i] \in AuditEntry /\ e[i].time <= c
    BY <1>2 DEF NotAfter
  <2>2. ASSUME NEW j \in 1 .. m, i = n + j PROVE all[i].time = c + (i - n) /\ i \in n + 1 .. n + m
    <3>1. all[i] = x[j] /\ x[j].time = c + j
      BY <1>1, <1>2, <2>2
    <3>2. j = i - n /\ i \in n + 1 .. n + m
      BY <1>1, <1>2, <2>2
    <3> QED BY <3>1, <3>2
  <2> QED BY <1>2, <2>1, <2>2 DEF AuditEntry
<1>9. ASSUME NEW i \in 1 .. Len(all), NEW j \in 1 .. Len(all), i < j PROVE all[i].time < all[j].time
  <2>1. CASE j \in 1 .. n
    <3>1. i \in 1 .. n /\ e[i].time < e[j].time
      BY <1>2, <1>9, <2>1 DEF Follow
    <3> QED BY <1>8, <2>1, <3>1
  <2>2. CASE j \notin 1 .. n
    <3>1. all[j].time = c + (j - n) /\ j - n \in Nat \ {0}
      BY <1>2, <1>8, <2>2
    <3>2. CASE i \in 1 .. n
      <4>1. all[i].time <= c /\ all[i].time \in Nat
        BY <1>8, <3>2
      <4> QED BY <3>1, <4>1
    <3>3. CASE i \notin 1 .. n
      <4>1. all[i].time = c + (i - n)
        BY <1>8, <3>3
      <4> QED BY <1>2, <1>9, <3>1, <4>1
    <3> QED BY <3>2, <3>3
  <2> QED BY <2>1, <2>2
<1>10. NotAfter(all, c + m)
  <2>1. ASSUME NEW i \in 1 .. Len(all) PROVE all[i].time <= c + m
    <3>1. CASE i \in 1 .. n
      <4>1. all[i].time <= c /\ all[i].time \in Nat
        BY <1>8, <3>1
      <4> QED BY <1>1, <4>1
    <3>2. CASE i \notin 1 .. n
      <4>1. all[i].time = c + (i - n) /\ i - n <= m /\ i - n \in Int
        BY <1>1, <1>2, <1>8, <3>2
      <4> QED BY <1>1, <4>1
    <3> QED BY <3>1, <3>2
  <2> QED BY <2>1 DEF NotAfter
<1>11. Len(all) <= Len(f)
  BY <1>1, <1>2, <1>3
<1> QED BY <1>6, <1>7, <1>9, <1>10, <1>11 DEF Follow, all, x

(* Order of the naturals, for steps that leave the rest to rewriting. *)
LEMMA OrderOfNat ==
    /\ \A x, y \in Nat : x + y \in Nat /\ x <= x + y /\ y <= x + y
    /\ \A x, y, z \in Nat : x <= y /\ y <= z => x <= z
OBVIOUS

(* An entry's time is not after the greatest of them. *)
LEMMA GreatestTime ==
    ASSUME NEW e \in Seq(AuditEntry), NEW c \in Nat
    PROVE  Max(Times(e) \cup {c}) \in Nat /\ NotAfter(e, Max(Times(e) \cup {c}))
<1> DEFINE S == Times(e) \cup {c}
           n == Len(e)
           Bounded(k) == \E b \in Nat : \A i \in 1 .. k : e[i].time <= b
           Bad == {k \in 0 .. n : ~Bounded(k)}
<1>1. n \in Nat /\ DOMAIN e = 1 .. n /\ \A i \in 1 .. n : e[i].time \in Nat
  <2>1. n \in Nat /\ DOMAIN e = 1 .. n /\ \A i \in 1 .. n : e[i] \in AuditEntry
    OBVIOUS
  <2>2. \A x \in AuditEntry : x.time \in Nat
    BY DEF AuditEntry
  <2> QED BY <2>1, <2>2
<1>2. Bad = {}
  <2>1. SUFFICES ASSUME Bad # {} PROVE FALSE
    OBVIOUS
  <2>2. Bad \subseteq Nat
    BY <1>1
  <2>3. PICK k \in Bad : \A m \in Bad : k <= m
    <3> HIDE DEF Bad
    <3> QED BY <2>1, <2>2, LeastNatural
  <2>4. k \in 0 .. n /\ ~Bounded(k)
    OBVIOUS
  <2>5. k # 0
    <3>1. Bounded(0)
      <4>1. \A i \in 1 .. 0 : e[i].time <= 0
        OBVIOUS
      <4> QED BY <4>1
    <3> HIDE DEF Bounded
    <3> QED BY <2>4, <3>1
  <2>6. k - 1 \in 0 .. n /\ k - 1 \notin Bad /\ k \in 1 .. n
    <3>1. k - 1 \in 0 .. n /\ k \in 1 .. n /\ ~(k <= k - 1)
      BY <1>1, <2>4, <2>5
    <3> HIDE DEF Bad
    <3> QED BY <2>3, <3>1
  <2>7. PICK b \in Nat : \A i \in 1 .. k - 1 : e[i].time <= b
    BY <2>6
  <2>8. PICK d \in Nat : e[k].time <= d /\ b <= d
    <3>1. e[k].time \in Nat
      BY <1>1, <2>6
    <3>2. \A x, y \in Nat : x + y \in Nat /\ x <= x + y /\ y <= x + y
      BY OrderOfNat, Zenon
    <3> QED BY <2>7, <3>1, <3>2, Zenon
  <2>9. \A i \in 1 .. k : e[i].time <= d
    <3>1. SUFFICES ASSUME NEW i \in 1 .. k PROVE e[i].time <= d
      OBVIOUS
    <3>2. i = k \/ i \in 1 .. k - 1
      BY <2>6
    <3>3. i \in 1 .. n
      BY <1>1, <2>6
    <3>4. \A x, y, z \in Nat : x <= y /\ y <= z => x <= z
      BY OrderOfNat, Zenon
    <3>5. e[i].time \in Nat
      BY <1>1, <3>3
    <3> QED BY <2>7, <2>8, <3>2, <3>4, <3>5, Zenon
  <2>10. Bounded(k)
    BY <2>9
  <2> HIDE DEF Bounded
  <2> QED BY <2>4, <2>10
<1>3. PICK b \in Nat : \A i \in 1 .. n : e[i].time <= b
  <2>1. n \in 0 .. n
    BY <1>1
  <2>2. Bounded(n)
    <3> HIDE DEF Bounded
    <3> QED BY <1>2, <2>1
  <2> QED BY <2>2
<1>4. S \subseteq Nat /\ c \in S /\ \A i \in 1 .. n : e[i].time \in S
  BY <1>1 DEF Times
<1>5. \A x \in S : x <= b + c
  <2>1. ASSUME NEW x \in S PROVE x <= b + c
    <3>1. x \in Nat /\ (x <= b \/ x = 0 \/ x = c)
      BY <1>1, <1>3 DEF Times
    <3> QED BY <3>1
  <2> QED BY <2>1
<1> HIDE DEF S
<1>6. PICK m \in S : \A x \in S : x <= m
  <2>1. b + c \in Nat /\ S # {}
    BY <1>4
  <2> QED BY <1>4, <1>5, <2>1, GreatestBelow
<1>7. Max(S) \in S /\ \A x \in S : Max(S) >= x
  <2>1. m \in S /\ \A x \in S : m >= x
    BY <1>4, <1>6
  <2> QED BY <2>1, Zenon DEF Max
<1>8. Max(S) \in Nat /\ \A i \in 1 .. n : e[i].time <= Max(S)
  BY <1>1, <1>4, <1>7
<1> QED BY <1>8 DEF NotAfter, S

(* The same entries, over a disk that has grown. *)
LEMMA AuditStays ==
    ASSUME DiskInv, Stored' \in Seq(Rec), Begins(Stored, Stored'), AuditTypes, AuditFollows,
           audit'.entries = audit.entries, audit'.last_hash = audit.last_hash,
           audit'.clock = audit.clock, astray' = astray
    PROVE  AuditFollows'
<1>1. audit.entries \in Seq(AuditEntry)
  BY DEF AuditTypes, Audits
<1>2. SUFFICES ASSUME Linked(Stored', genesis), ~astray
               PROVE  Follow(audit.entries, audit.last_hash, FactsOf(Stored')) /\ NotAfter(audit.entries, audit.clock)
  BY Zenon DEF AuditFollows, genesis
<1>3. /\ FactsOf(Stored) \in Seq(Fact) /\ FactsOf(Stored') \in Seq(Fact)
      /\ Begins(FactsOf(Stored), FactsOf(Stored')) /\ Linked(Stored, genesis)
      /\ \A k \in 0 .. Len(FactsOf(Stored)) : SubSeq(FactsOf(Stored'), 1, k) = SubSeq(FactsOf(Stored), 1, k)
  BY <1>2, ChainGrows
<1>4. Follow(audit.entries, audit.last_hash, FactsOf(Stored)) /\ NotAfter(audit.entries, audit.clock)
  BY <1>2, <1>3 DEF AuditFollows
<1> QED BY <1>1, <1>3, <1>4, FollowGrows

(* ... and the same document. *)
LEMMA DocumentStays ==
    ASSUME DiskInv, Stored' \in Seq(Rec), Begins(Stored, Stored'), AuditTypes, DocumentFollows,
           exported' = exported
    PROVE  DocumentFollows'
<1>1. SUFFICES ASSUME exported # <<>>, Linked(Stored', genesis), ~exported[1].astray
               PROVE  Follow(exported[1].entries, exported[1].last_hash, FactsOf(Stored'))
  BY Zenon DEF DocumentFollows, genesis
<1>2. exported[1].entries \in Seq(AuditEntry)
  BY <1>1 DEF AuditTypes, Document
<1>3. /\ FactsOf(Stored) \in Seq(Fact) /\ FactsOf(Stored') \in Seq(Fact)
      /\ Begins(FactsOf(Stored), FactsOf(Stored')) /\ Linked(Stored, genesis)
      /\ \A k \in 0 .. Len(FactsOf(Stored)) : SubSeq(FactsOf(Stored'), 1, k) = SubSeq(FactsOf(Stored), 1, k)
  BY <1>1, ChainGrows
<1>4. Follow(exported[1].entries, exported[1].last_hash, FactsOf(Stored))
  BY <1>1, <1>3 DEF DocumentFollows
<1> QED BY <1>2, <1>3, <1>4, FollowGrows

(* A new auditor. *)
LEMMA NewFollows == ASSUME NEW f \in Seq(Fact) PROVE Follow(<<>>, <<>>, f) /\ NotAfter(<<>>, 0)
<1>1. Len(<<>>) = 0 /\ 1 .. 0 = {} /\ 0 <= Len(f) /\ 0 \in 0 .. Len(f)
  OBVIOUS
<1>2. SubSeq(f, 1, 0) = <<>>
  OBVIOUS
<1> QED BY <1>1, <1>2 DEF Follow, NotAfter

(* What a new auditor has. *)
LEMMA NewAuditIs == NewAudit \in Audits
<1>1. <<>> \in Seq(AuditEntry) /\ <<>> \in Seq(Fact)
  OBVIOUS
<1> QED BY <1>1 DEF NewAudit, Audits, genesis

(* The walk of audit_new. *)
LEMMA WalkAudit ==
    ASSUME DiskInv, MemoryInv, AuditInv, Walk
    PROVE  audit' \in Audits /\ astray' \in BOOLEAN /\ AuditFollows'
<1> DEFINE n == Len(audit.entries)
           hf == FactsOf(history)
           tail == SubSeq(hf, n + 1, Len(history))
           es == EntriesOf(tail, audit.last_hash, audit.clock)
           new == audit.entries \o es
           hash == audit.last_hash \o tail
           clock == audit.clock + Len(tail)
<1>1. audit' = [audit EXCEPT !.entries = new, !.last_hash = hash, !.clock = clock]
  BY DEF Walk, for_each_fact_from
<1>2. /\ audit \in Audits /\ astray \in BOOLEAN
      /\ audit.entries \in Seq(AuditEntry) /\ audit.last_hash \in Seq(Fact) /\ audit.clock \in Nat
      /\ n \in Nat
  BY DEF AuditInv, AuditTypes, Audits
<1>3. history \in Seq(Entry)
  BY DEF DiskInv, DiskTypes
<1>4. hf \in Seq(Fact) /\ Len(hf) = Len(history) /\ Len(history) \in Nat
      /\ \A i \in 1 .. Len(history) : hf[i] = history[i].fact
  <2>1. /\ DOMAIN history = 1 .. Len(history) /\ Len(history) \in Nat
        /\ \A i \in 1 .. Len(history) : history[i] \in Entry
    BY <1>3
  <2>2. hf = [i \in 1 .. Len(history) |-> history[i].fact]
    BY <2>1 DEF FactsOf
  <2>3. \A i \in 1 .. Len(history) : history[i].fact \in Fact
    BY <2>1 DEF Entry
  <2>4. hf \in [1 .. Len(history) -> Fact]
    BY <2>2, <2>3
  <2>5. \A i \in 1 .. Len(history) : hf[i] = history[i].fact
    BY <2>2
  <2> HIDE DEF hf
  <2> QED BY <2>1, <2>4, <2>5
<1> HIDE DEF hf
<1>5. /\ tail \in Seq(Fact) /\ Len(tail) \in Nat
      /\ Len(tail) = IF n < Len(history) THEN Len(history) - n ELSE 0
      /\ \A i \in 1 .. Len(tail) : tail[i] = hf[n + i]
  <2>1. \A i \in n + 1 .. Len(history) : hf[i] \in Fact
    BY <1>2, <1>4
  <2>2. /\ tail \in Seq(Fact)
        /\ Len(tail) = IF n + 1 <= Len(history) THEN Len(history) - (n + 1) + 1 ELSE 0
        /\ \A i \in 1 .. Len(history) - (n + 1) + 1 : tail[i] = hf[n + 1 + i - 1]
    <3> DEFINE k == n + 1
               m == Len(history)
    <3>1. k \in Int /\ m \in Int /\ \A i \in k .. m : hf[i] \in Fact
      BY <1>2, <1>4, <2>1
    <3> HIDE DEF k, m
    <3>2. /\ SubSeq(hf, k, m) \in Seq(Fact)
          /\ Len(SubSeq(hf, k, m)) = IF k <= m THEN m - k + 1 ELSE 0
          /\ \A i \in 1 .. m - k + 1 : SubSeq(hf, k, m)[i] = hf[k + i - 1]
      BY <3>1, SubSeqProperties
    <3> QED BY <3>2 DEF k, m
  <2> HIDE DEF tail
  <2>3. Len(tail) = IF n < Len(history) THEN Len(history) - n ELSE 0
    BY <1>2, <1>4, <2>2
  <2>4. \A i \in 1 .. Len(tail) : tail[i] = hf[n + i]
    <3>1. \A i \in 1 .. Len(tail) : i \in 1 .. Len(history) - (n + 1) + 1 /\ n + 1 + i - 1 = n + i
      BY <1>2, <1>4, <2>3
    <3> QED BY <2>2, <3>1
  <2> QED BY <1>2, <1>4, <2>2, <2>3, <2>4
<1> HIDE DEF tail
<1>6. es \in Seq(AuditEntry)
  BY <1>2, <1>5, EntriesAre
<1> HIDE DEF es
<1>7. new \in Seq(AuditEntry) /\ hash \in Seq(Fact) /\ clock \in Nat
  BY <1>2, <1>5, <1>6
<1>8. /\ audit' \in Audits /\ audit'.entries = new /\ audit'.last_hash = hash /\ audit'.clock = clock
  <2> HIDE DEF new, hash, clock
  <2> QED BY <1>1, <1>2, <1>7 DEF Audits
<1>9. astray' = (astray \/ compacted # <<>>) /\ astray' \in BOOLEAN /\ mode = "up" /\ Stored' = Stored
  BY <1>2 DEF Walk, vars, Stored
<1>10. ASSUME Linked(Stored, genesis), ~astray, compacted = <<>>
       PROVE  Follow(new, hash, FactsOf(Stored)) /\ NotAfter(new, clock)
  <2> DEFINE f == FactsOf(Stored)
  <2>1. f \in Seq(Fact) /\ Len(f) \in Nat
    BY DiskFacts, FactsAre
  <2>2. Begins(last_hash, f) /\ EndsWith(history, last_hash, 0)
    BY <1>9, <1>10 DEF MemoryInv
  <2>3. Follow(audit.entries, audit.last_hash, f) /\ NotAfter(audit.entries, audit.clock)
    BY <1>10 DEF AuditInv, AuditFollows
  <2> HIDE DEF f
  <2>4. last_hash \in Seq(Fact)
    BY DiskFacts
  <2>5. Len(history) <= Len(f) /\ \A i \in 1 .. Len(history) : hf[i] = f[i]
    <3>1. Len(history) = Len(last_hash) /\ Len(last_hash) <= Len(f)
      BY <1>4, <2>2, <2>4 DEF EndsWith, Begins
    <3>2. \A i \in 1 .. Len(history) : history[i].fact = last_hash[0 + i] /\ 0 + i = i
      BY <1>4, <2>2 DEF EndsWith
    <3>3. \A i \in 1 .. Len(history) : last_hash[i] = f[i]
      BY <2>2, <3>1 DEF Begins
    <3> QED BY <1>4, <3>1, <3>2, <3>3
  <2>6. n + Len(tail) <= Len(f)
    <3>1. n <= Len(f)
      BY <2>3 DEF Follow
    <3> HIDE DEF n
    <3>2. CASE n < Len(history)
      <4>1. Len(tail) = Len(history) - n
        BY <1>5, <3>2
      <4> QED BY <1>2, <1>4, <2>1, <2>5, <4>1
    <3>3. CASE ~(n < Len(history))
      <4>1. Len(tail) = 0
        BY <1>5, <3>3
      <4> QED BY <1>2, <3>1, <4>1
    <3> QED BY <3>2, <3>3
  <2>7. \A i \in 1 .. Len(tail) : tail[i] = f[n + i]
    <3>1. \A i \in 1 .. Len(tail) : n + i \in 1 .. Len(history)
      BY <1>2, <1>4, <1>5
    <3> QED BY <1>5, <2>5, <3>1
  <2> QED BY <1>2, <1>5, <2>1, <2>3, <2>6, <2>7, WalkFollows DEF es, f
<1>11. AuditFollows'
  <2>1. SUFFICES ASSUME Linked(Stored, genesis), ~astray'
                 PROVE  Follow(new, hash, FactsOf(Stored)) /\ NotAfter(new, clock)
    BY <1>8, <1>9, Zenon DEF AuditFollows, genesis
  <2>2. ~astray /\ compacted = <<>>
    BY <1>9, <2>1
  <2> QED BY <1>10, <2>1, <2>2
<1> QED BY <1>8, <1>9, <1>11

(* load_from_tier1_wal accepts all of a chain, and never more than there is. *)
LEMMA LoadStopIs ==
    ASSUME NEW recs \in Seq(Rec)
    PROVE  /\ LoadStop(recs) \in 0 .. Len(recs)
           /\ LoadStop(recs) = Len(recs) <=> Linked(recs, genesis)
<1> DEFINE bad == {i \in DOMAIN recs :
                     \/ recs[i].prev_hash # SubSeq(FactsOf(recs), 1, i - 1)
                     \/ recs[i].chain_hash # SubSeq(FactsOf(recs), 1, i)}
<1>1. DOMAIN recs = 1 .. Len(recs) /\ Len(recs) \in Nat
  OBVIOUS
<1>2. LoadStop(recs) = IF bad = {} THEN Len(recs) ELSE Min(bad) - 1
  BY DEF LoadStop
<1>3. bad = {} <=> Linked(recs, genesis)
  <2>1. bad = {} <=> \A i \in 1 .. Len(recs) :
                        /\ recs[i].prev_hash = SubSeq(FactsOf(recs), 1, i - 1)
                        /\ recs[i].chain_hash = SubSeq(FactsOf(recs), 1, i)
    BY <1>1, Zenon
  <2> QED BY <2>1, LinkedHashes, HashesLinked
<1>4. bad \subseteq 1 .. Len(recs)
  BY <1>1
<1> HIDE DEF bad
<1>5. bad # {} => Min(bad) \in bad
  <2>1. SUFFICES ASSUME bad # {} PROVE Min(bad) \in bad
    OBVIOUS
  <2>2. bad \subseteq Nat
    BY <1>1, <1>4
  <2>3. PICK m \in bad : \A x \in bad : m <= x
    BY <2>1, <2>2, LeastNatural
  <2> QED BY <2>3, Zenon DEF Min
<1>6. bad # {} => Min(bad) - 1 \in 0 .. Len(recs) /\ Min(bad) - 1 # Len(recs)
  <2>1. SUFFICES ASSUME bad # {} PROVE Min(bad) - 1 \in 0 .. Len(recs) /\ Min(bad) - 1 # Len(recs)
    OBVIOUS
  <2>2. Min(bad) \in 1 .. Len(recs)
    BY <1>4, <1>5, <2>1, Zenon
  <2>3. \A m \in 1 .. Len(recs) : m - 1 \in 0 .. Len(recs) /\ m - 1 # Len(recs)
    BY <1>1
  <2> QED BY <2>2, <2>3, Zenon
<1> QED BY <1>1, <1>2, <1>3, <1>6

(* load_from_tier1_wal. *)
LEMMA LoadAudit ==
    ASSUME DiskInv, AuditInv, load_from_tier1_wal
    PROVE  audit' \in Audits /\ astray' \in BOOLEAN /\ AuditFollows'
<1> DEFINE n == LoadStop(Stored)
           f == FactsOf(Stored)
           g == SubSeq(f, 1, n)
           es == EntriesOf(g, genesis, 0)
           clock == Max({audit.clock, n})
<1>1. OnDisk = Stored /\ Stored \in Seq(Rec)
  BY DiskIsStored, DiskFacts DEF load_from_tier1_wal
<1>2. /\ audit' = IF n = Len(Stored)
                  THEN [entries |-> es, last_hash |-> f, version |-> n, clock |-> clock]
                  ELSE [NewAudit EXCEPT !.entries = es, !.clock = audit.clock]
      /\ astray' = (n < Len(Stored)) /\ Stored' = Stored
  <2>1. read_wal_with_hash(store.shards) = Stored
    BY <1>1 DEF OnDisk
  <2>2. Stored' = Stored
    BY DEF load_from_tier1_wal, vars, Stored
  <2> QED BY <2>1, <2>2, Zenon DEF load_from_tier1_wal
<1>3. /\ f \in Seq(Fact) /\ Len(f) = Len(Stored) /\ Len(Stored) \in Nat
      /\ n \in 0 .. Len(Stored) /\ (n = Len(Stored) <=> Linked(Stored, genesis))
  BY <1>1, FactsAre, LoadStopIs
<1> HIDE DEF n, f
<1>4. g \in Seq(Fact) /\ Len(g) = n /\ <<>> \in Seq(Fact) /\ 0 \in Nat
  BY <1>3, Upto
<1>5. es \in Seq(AuditEntry)
  <2> HIDE DEF g
  <2> QED BY <1>4, EntriesAre DEF genesis
<1>6. audit.clock \in Nat /\ audit \in Audits
  BY DEF AuditInv, AuditTypes, Audits
<1>7. clock \in Nat /\ n <= clock
  <2>1. n \in Nat
    BY <1>3
  <2> DEFINE S == {audit.clock, n}
  <2>2. \E m \in S : \A x \in S : m >= x
    <3>1. audit.clock >= n \/ n >= audit.clock
      BY <1>6, <2>1
    <3>2. audit.clock >= audit.clock /\ n >= n
      BY <1>6, <2>1
    <3> QED BY <3>1, <3>2
  <2> HIDE DEF S
  <2>3. Max(S) \in S /\ \A x \in S : Max(S) >= x
    BY <2>2, Zenon DEF Max
  <2>4. Max(S) = clock
    BY DEF S
  <2> QED BY <1>6, <2>1, <2>3, <2>4 DEF S
<1> HIDE DEF clock
<1>8. audit' \in Audits
  <2> HIDE DEF es
  <2>1. [entries |-> es, last_hash |-> f, version |-> n, clock |-> clock] \in Audits
    BY <1>3, <1>5, <1>7 DEF Audits
  <2>2. [NewAudit EXCEPT !.entries = es, !.clock = audit.clock] \in Audits
    BY <1>5, <1>6, NewAuditIs DEF Audits
  <2> QED BY <1>2, <2>1, <2>2
<1>9. astray' \in BOOLEAN
  BY <1>2
<1>10. ASSUME n = Len(Stored)
       PROVE  /\ audit'.entries = es /\ audit'.last_hash = f /\ audit'.clock = clock
              /\ Follow(es, f, f) /\ NotAfter(es, clock)
  <2> DEFINE new == <<>>
  <2>1. g = f
    BY <1>3, <1>10
  <2>2. Follow(new, new, f) /\ NotAfter(new, 0) /\ Len(new) = 0 /\ new \in Seq(AuditEntry) /\ new \in Seq(Fact)
    BY <1>3, NewFollows
  <2>3. (\A s \in Seq(AuditEntry) : new \o s = s) /\ (\A s \in Seq(Fact) : new \o s = s)
    OBVIOUS
  <2> HIDE DEF new
  <2>4. Follow(new \o EntriesOf(f, new, 0), new \o f, f) /\ NotAfter(new \o EntriesOf(f, new, 0), 0 + Len(f))
    <3>1. Len(new) + Len(f) <= Len(f) /\ \A i \in 1 .. Len(f) : f[i] = f[Len(new) + i]
      BY <1>3, <2>2
    <3> QED BY <1>3, <1>4, <2>2, <3>1, WalkFollows
  <2>5. EntriesOf(f, new, 0) = es /\ new \o es = es /\ new \o f = f
    <3>1. EntriesOf(f, new, 0) = es
      BY <2>1 DEF new, genesis
    <3> HIDE DEF es
    <3> QED BY <1>3, <1>5, <2>3, <3>1, Zenon
  <2> HIDE DEF es
  <2>6. Follow(es, f, f) /\ NotAfter(es, 0 + Len(f))
    BY <2>4, <2>5, Zenon
  <2>7. NotAfter(es, clock)
    <3>1. 0 + Len(f) = n
      BY <1>3, <1>10
    <3>2. \A i \in 1 .. Len(es) : es[i].time <= n /\ es[i].time \in Nat
      <4>1. \A i \in 1 .. Len(es) : es[i].time <= n
        BY <2>6, <3>1, Zenon DEF NotAfter
      <4>2. \A i \in 1 .. Len(es) : es[i] \in AuditEntry
        BY <1>5
      <4>3. \A x \in AuditEntry : x.time \in Nat
        BY DEF AuditEntry
      <4> QED BY <4>1, <4>2, <4>3, Zenon
    <3>3. n \in Nat
      BY <1>3
    <3> QED BY <1>7, <3>2, <3>3 DEF NotAfter
  <2>8. audit' = [entries |-> es, last_hash |-> f, version |-> n, clock |-> clock]
    BY <1>2, <1>10, Zenon
  <2> QED BY <2>6, <2>7, <2>8
<1>11. AuditFollows'
  <2>1. SUFFICES ASSUME Linked(Stored, genesis)
                 PROVE  /\ Follow(audit'.entries, audit'.last_hash, f)
                        /\ NotAfter(audit'.entries, audit'.clock)
    BY <1>2, Zenon DEF AuditFollows, genesis, f
  <2>2. n = Len(Stored)
    BY <1>3, <2>1
  <2> QED BY <1>10, <2>2, Zenon
<1> QED BY <1>8, <1>9, <1>11

(* export. *)
LEMMA ExportAudit ==
    ASSUME AuditInv, export
    PROVE  /\ exported' = <<exported'[1]>> /\ exported'[1] \in Document
           /\ DocumentFollows'
<1> DEFINE d == [entries |-> audit.entries, last_hash |-> audit.last_hash,
                 version |-> audit.version, astray |-> astray]
<1>1. exported' = <<d>> /\ Stored' = Stored
  BY DEF export, vars, Stored
<1>2. d \in Document /\ d.entries = audit.entries /\ d.last_hash = audit.last_hash /\ d.astray = astray
  BY DEF AuditInv, AuditTypes, Audits, Document
<1> HIDE DEF d
<1>3. exported'[1] = d
  BY <1>1
<1>4. DocumentFollows'
  <2>1. SUFFICES ASSUME Linked(Stored, genesis), ~d.astray
                 PROVE  Follow(d.entries, d.last_hash, FactsOf(Stored))
    BY <1>1, <1>3, Zenon DEF DocumentFollows, genesis
  <2> QED BY <1>2, <2>1, Zenon DEF AuditInv, AuditFollows
<1> QED BY <1>1, <1>2, <1>3, <1>4

(* import. *)
LEMMA ImportAudit ==
    ASSUME AuditInv, import
    PROVE  audit' \in Audits /\ astray' \in BOOLEAN /\ AuditFollows'
<1> DEFINE d == exported[1]
<1>1. d \in Document /\ exported # <<>>
  BY DEF AuditInv, AuditTypes, import
<1>2. /\ d.entries \in Seq(AuditEntry) /\ d.last_hash \in Seq(Fact) /\ d.version \in Nat
      /\ d.astray \in BOOLEAN /\ Len(d.entries) \in Nat
  BY <1>1 DEF Document
<1>3. PICK n \in 0 .. Len(d.entries) :
         LET entries == SubSeq(d.entries, 1, n)
             all == n = Len(d.entries)
         IN  /\ audit' = [entries   |-> entries,
                          last_hash |-> IF all THEN d.last_hash ELSE genesis,
                          version   |-> IF all THEN d.version ELSE 0,
                          clock     |-> IF all THEN Max(Times(entries) \cup {audit.clock})
                                        ELSE audit.clock]
             /\ astray' = (~all \/ d.astray)
  BY DEF import
<1> DEFINE es == SubSeq(d.entries, 1, n)
           clock == Max(Times(es) \cup {audit.clock})
<1>4. Stored' = Stored
  BY DEF import, vars, Stored
<1>5. es \in Seq(AuditEntry) /\ audit.clock \in Nat /\ genesis \in Seq(Fact) /\ 0 \in Nat
  <2>1. es \in Seq(AuditEntry)
    BY <1>2, Upto
  <2> QED BY <2>1 DEF AuditInv, AuditTypes, Audits, genesis
<1>6. clock \in Nat /\ NotAfter(es, clock)
  <2> HIDE DEF es
  <2> QED BY <1>5, GreatestTime
<1> HIDE DEF d
<1>7. CASE n = Len(d.entries)
  <2>1. es = d.entries
    BY <1>2, <1>7
  <2>2. audit' = [entries |-> es, last_hash |-> d.last_hash, version |-> d.version, clock |-> clock]
        /\ astray' = d.astray
    BY <1>2, <1>3, <1>7
  <2> HIDE DEF es, clock
  <2>3. audit' \in Audits /\ audit'.entries = es /\ audit'.last_hash = d.last_hash /\ audit'.clock = clock
    BY <1>2, <1>5, <1>6, <2>2 DEF Audits
  <2>4. AuditFollows'
    <3>1. SUFFICES ASSUME Linked(Stored, genesis), ~d.astray
                   PROVE  Follow(es, d.last_hash, FactsOf(Stored)) /\ NotAfter(es, clock)
      BY <1>4, <2>2, <2>3, Zenon DEF AuditFollows, genesis
    <3>2. Follow(d.entries, d.last_hash, FactsOf(Stored))
      BY <1>1, <3>1, Zenon DEF AuditInv, DocumentFollows, d
    <3> QED BY <1>6, <2>1, <3>2, Zenon
  <2> QED BY <1>2, <2>2, <2>3, <2>4
<1>8. CASE n # Len(d.entries)
  <2>1. audit' = [entries |-> es, last_hash |-> genesis, version |-> 0, clock |-> audit.clock] /\ astray' = TRUE
    BY <1>2, <1>3, <1>8
  <2> HIDE DEF es, clock
  <2>2. audit' \in Audits
    BY <1>5, <2>1 DEF Audits
  <2> QED BY <2>1, <2>2 DEF AuditFollows
<1> QED BY <1>7, <1>8

(* Every step of the log, the auditor and the sentinel. *)
LEMMA AuditStep ==
    ASSUME DiskInv, MemoryInv, AuditInv, Follows, [VerifyNext]_allVars
    PROVE  AuditInv'
<1>1. Stored' \in Seq(Rec) /\ Begins(Stored, Stored')
  BY DEF Follows
<1>2. AuditTypes /\ AuditFollows /\ DocumentFollows
  BY DEF AuditInv
<1>3. ASSUME exported' = exported, audit' \in Audits, astray' \in BOOLEAN, AuditFollows'
      PROVE  AuditInv'
  <2>1. DocumentFollows'
    BY <1>1, <1>2, <1>3, DocumentStays
  <2> QED BY <1>2, <1>3, <2>1, Zenon DEF AuditInv, AuditTypes
<1>4. ASSUME exported' = exported, UNCHANGED <<audit, astray>> PROVE AuditInv'
  <2>1. AuditFollows'
    BY <1>1, <1>2, <1>4, AuditStays
  <2> QED BY <1>2, <1>3, <1>4, <2>1 DEF AuditTypes
<1>5. ASSUME exported' = exported, audit' = [audit EXCEPT !.version = state.version], astray' = astray
      PROVE  AuditInv'
  <2>1. state.version \in Nat /\ audit \in Audits
    BY <1>2 DEF DiskInv, DiskTypes, State, AuditTypes
  <2>2. /\ audit' \in Audits /\ audit'.entries = audit.entries /\ audit'.last_hash = audit.last_hash
        /\ audit'.clock = audit.clock
    BY <1>5, <2>1 DEF Audits
  <2>3. AuditFollows'
    BY <1>1, <1>2, <1>5, <2>2, AuditStays
  <2> QED BY <1>2, <1>3, <1>5, <2>2, <2>3 DEF AuditTypes
<1>6. ASSUME exported' = exported, audit' = NewAudit, astray' = FALSE PROVE AuditInv'
  <2>1. audit'.entries = <<>> /\ audit'.last_hash = <<>> /\ audit'.clock = 0
    BY <1>6 DEF NewAudit, genesis
  <2>2. Follow(<<>>, <<>>, FactsOf(Stored')) /\ NotAfter(<<>>, 0)
    BY <1>1, FactsAre, NewFollows
  <2>3. AuditFollows'
    BY <2>1, <2>2, Zenon DEF AuditFollows
  <2> QED BY <1>3, <1>6, <2>3, NewAuditIs
<1>7. CASE Walk \/ load_from_tier1_wal \/ import
  <2>1. exported' = exported
    BY <1>7 DEF Walk, load_from_tier1_wal, import
  <2>2. audit' \in Audits /\ astray' \in BOOLEAN /\ AuditFollows'
    BY <1>7, WalkAudit, LoadAudit, ImportAudit
  <2> QED BY <1>3, <2>1, <2>2
<1>8. CASE export
  <2>1. UNCHANGED <<audit, astray>>
    BY <1>8 DEF export
  <2>2. AuditFollows'
    BY <1>1, <1>2, <2>1, AuditStays
  <2>3. exported' = <<exported'[1]>> /\ exported'[1] \in Document /\ DocumentFollows'
    BY <1>8, ExportAudit
  <2> QED BY <1>2, <2>1, <2>2, <2>3, Zenon DEF AuditInv, AuditTypes
<1>9. CASE NothingNew \/ Close
  BY <1>5, <1>9 DEF NothingNew, Close
<1>10. CASE Restart
  BY <1>6, <1>10 DEF Restart
<1>11. CASE LogStep \/ CrashAll \/ AuditStart \/ seal_anchor_now \/ scan_wal_dir \/ UNCHANGED allVars
  <2>1. exported' = exported /\ UNCHANGED <<audit, astray>>
    BY <1>11, Zenon DEF LogStep, CrashAll, AuditStart, seal_anchor_now, scan_wal_dir, allVars, auditVars, auditor
  <2> QED BY <1>4, <2>1
<1> QED BY <1>7, <1>8, <1>9, <1>10, <1>11, Zenon DEF VerifyNext, AuditNext

(* The beginning. *)
LEMMA AuditBegins == ASSUME VerifyInit PROVE AuditInv
<1>1. DiskInv
  BY DiskInit DEF VerifyInit, AuditInit
<1>2. audit = NewAudit /\ astray = FALSE /\ exported = <<>>
  BY DEF VerifyInit, AuditInit
<1>3. audit.entries = <<>> /\ audit.last_hash = <<>> /\ audit.clock = 0
  BY <1>2 DEF NewAudit, genesis
<1>4. Follow(<<>>, <<>>, FactsOf(Stored)) /\ NotAfter(<<>>, 0)
  BY <1>1, DiskFacts, FactsAre, NewFollows
<1>5. AuditFollows
  BY <1>3, <1>4, Zenon DEF AuditFollows
<1>6. AuditTypes
  <2>1. audit \in Audits /\ astray \in BOOLEAN
    BY <1>2, NewAuditIs
  <2>2. exported = <<>>
    BY <1>2
  <2>3. exported = <<>> \/ (exported = <<exported[1]>> /\ exported[1] \in Document)
    BY <2>2
  <2> QED BY <2>1, <2>3, Zenon DEF AuditTypes
<1> QED BY <1>2, <1>5, <1>6 DEF AuditInv, DocumentFollows

(* The invariant holds always ... *)
LEMMA AuditAlways ==
    ASSUME Buffered
    PROVE  VerifySpec => []AuditInv
<1>1. VerifyInit => AuditInv
  BY AuditBegins
<1>2. (DiskInv /\ MemoryInv) /\ AuditInv /\ [VerifyNext]_allVars => AuditInv'
  BY DiskStep, LogGoesOn, AuditStep
<1> QED BY <1>1, <1>2, DiskBeside, PTL DEF VerifySpec

(* Entries that follow a chain verify, and are a prefix of it. *)
LEMMA FollowVerifies ==
    ASSUME NEW e \in Seq(AuditEntry), NEW h, NEW f \in Seq(Fact), Follow(e, h, f)
    PROVE  IsPrefix(FactsOf(e), f) /\ verify(e) /\ h = FactsOf(e)
<1> DEFINE n == Len(e)
           g == FactsOf(e)
<1>1. /\ n \in Nat /\ Len(f) \in Nat /\ n <= Len(f) /\ n \in 0 .. Len(f) /\ DOMAIN e = 1 .. n
  BY DEF Follow
<1>2. g = [i \in 1 .. n |-> e[i].fact]
  BY <1>1 DEF FactsOf
<1>3. \A i \in 1 .. n : e[i].fact = f[i] /\ e[i].prev_hash = SubSeq(f, 1, i - 1) /\ f[i] \in Fact
  BY <1>1 DEF Follow
<1>4. g \in Seq(Fact) /\ Len(g) = n /\ \A i \in 1 .. n : g[i] = f[i]
  <2>1. g \in [1 .. n -> Fact] /\ \A i \in 1 .. n : g[i] = f[i]
    BY <1>2, <1>3
  <2> HIDE DEF g
  <2> QED BY <1>1, <2>1
<1> HIDE DEF g
<1>5. /\ SubSeq(f, 1, n) \in Seq(Fact) /\ Len(SubSeq(f, 1, n)) = n
      /\ \A i \in 1 .. n : SubSeq(f, 1, n)[i] = f[i]
  BY <1>1, Upto
<1>6. g = SubSeq(f, 1, n)
  <2> DEFINE l == SubSeq(f, 1, n)
  <2>1. \A i \in 1 .. n : g[i] = l[i]
    BY <1>4, <1>5
  <2> HIDE DEF l
  <2> QED BY <1>4, <1>5, <2>1, SeqEqual DEF l
<1>7. IsPrefix(g, f)
  <2>1. SubSeq(g, 1, Len(g)) = g
    BY <1>4
  <2> QED BY <1>1, <1>4, <1>6, <2>1 DEF IsPrefix
<1>8. verify(e)
  <2>1. SUFFICES ASSUME NEW i \in 1 .. n
                 PROVE  e[i].prev_hash = IF i = 1 THEN <<>> ELSE Append(e[i - 1].prev_hash, e[i - 1].fact)
    BY <1>1 DEF verify, genesis, chain_step
  <2>2. CASE i = 1
    <3>1. SubSeq(f, 1, 0) = <<>> /\ i - 1 = 0
      BY <2>2
    <3> QED BY <1>3, <2>2, <3>1
  <2>3. CASE i # 1
    <3>1. i - 1 \in 1 .. n /\ i - 1 \in 1 .. Len(f)
      BY <1>1, <2>3
    <3>2. SubSeq(f, 1, i - 1) = Append(SubSeq(f, 1, i - 1 - 1), f[i - 1])
      BY <3>1, UptoNext
    <3> QED BY <1>3, <2>3, <3>1, <3>2
  <2> QED BY <2>2, <2>3
<1>9. h = g
  BY <1>6, Zenon DEF Follow
<1> QED BY <1>7, <1>8, <1>9 DEF g

(* ... and means that the audit is the chain. *)
LEMMA AuditMeansChain == DiskInv /\ AuditInv => AuditFollowsChain
<1>1. SUFFICES ASSUME DiskInv, AuditInv, mode = "up", Intact, ~astray
               PROVE  /\ IsPrefix(FactsOf(audit.entries), FactsOf(OnDisk))
                      /\ verify(audit.entries)
                      /\ audit.last_hash = FactsOf(audit.entries)
                      /\ \A i, j \in DOMAIN audit.entries :
                            i < j => audit.entries[i].time < audit.entries[j].time
                      /\ \A i \in DOMAIN audit.entries : audit.entries[i].time <= audit.clock
  BY Zenon DEF AuditFollowsChain
<1>2. OnDisk = Stored /\ Linked(Stored, genesis) /\ Stored \in Seq(Rec)
  BY <1>1, DiskIsStored, DiskFacts DEF Intact
<1> DEFINE e == audit.entries
           f == FactsOf(Stored)
<1>3. Follow(e, audit.last_hash, f) /\ NotAfter(e, audit.clock)
  BY <1>1, <1>2 DEF AuditInv, AuditFollows
<1>4. e \in Seq(AuditEntry) /\ f \in Seq(Fact)
  BY <1>1, <1>2, FactsAre DEF AuditInv, AuditTypes, Audits
<1> HIDE DEF e, f
<1>5. IsPrefix(FactsOf(e), f) /\ verify(e) /\ audit.last_hash = FactsOf(e)
  BY <1>3, <1>4, FollowVerifies
<1>6. DOMAIN e = 1 .. Len(e)
  BY <1>4
<1>7. \A i, j \in DOMAIN e : i < j => e[i].time < e[j].time
  BY <1>3, <1>6 DEF Follow
<1>8. \A i \in DOMAIN e : e[i].time <= audit.clock
  BY <1>3, <1>6 DEF NotAfter
<1> QED BY <1>2, <1>5, <1>7, <1>8, Zenon DEF e, f

(* The audit is the chain: whatever is appended, torn, rotated, compacted   *)
(* or recovered while audit_new looks at the log, and whatever documents    *)
(* and logs are loaded in between, an auditor that was not led astray has   *)
(* the facts of the chain, each once, in order, with the hashes they had    *)
(* and increasing times.                                                    *)
THEOREM AuditIsTheChain ==
    ASSUME Buffered
    PROVE  VerifySpec => []AuditFollowsChain
BY DiskBeside, AuditAlways, AuditMeansChain, PTL, SMTT(60)

-----------------------------------------------------------------------------
(* Anchors. *)

(* The anchor log as it is loaded: the fold over the first n lines, for     *)
(* each set of their positions.                                             *)
AnchorFolds(lines, n, F) ==
    F = [t \in SUBSET (1 .. n) |->
           IF t = {} THEN <<>>
           ELSE LoadLine(F[t \ {Max(t)}], lines[Max(t)])]

(* Such a fold exists. *)
LEMMA AnchorFoldsExist ==
    ASSUME NEW lines, NEW N \in Nat
    PROVE  \E F : AnchorFolds(lines, N, F)
<1> DEFINE Bad == {n \in Nat : ~\E F : AnchorFolds(lines, n, F)}
<1>1. SUFFICES ASSUME Bad # {} PROVE FALSE
  OBVIOUS
<1>2. PICK n \in Bad : \A m \in Bad : n <= m
  BY <1>1, LeastNatural
<1>3. n # 0
  <2> DEFINE G == [t \in SUBSET (1 .. 0) |-> <<>>]
  <2>1. \A t \in SUBSET (1 .. 0) : t = {}
    OBVIOUS
  <2>2. AnchorFolds(lines, 0, G)
    BY <2>1 DEF AnchorFolds
  <2> QED BY <2>2
<1>4. n - 1 \in Nat /\ n - 1 \notin Bad
  BY <1>2, <1>3
<1>5. PICK F : AnchorFolds(lines, n - 1, F)
  BY <1>4
<1> DEFINE G == [t \in SUBSET (1 .. n) |->
                   IF n \in t THEN LoadLine(F[t \ {n}], lines[n]) ELSE F[t]]
<1>6. \A t \in SUBSET (1 .. n - 1) :
          F[t] = IF t = {} THEN <<>>
                 ELSE LoadLine(F[t \ {Max(t)}], lines[Max(t)])
  BY <1>5 DEF AnchorFolds
<1>7. ASSUME NEW t \in SUBSET (1 .. n)
      PROVE  G[t] = IF t = {} THEN <<>>
                    ELSE LoadLine(G[t \ {Max(t)}], lines[Max(t)])
  <2>1. t \ {Max(t)} \in SUBSET (1 .. n)
    OBVIOUS
  <2>2. CASE n \in t
    <3>1. Max(t) = n /\ t # {}
      BY <1>3, <2>2, MaxOfInterval
    <3>2. G[t] = LoadLine(F[t \ {n}], lines[n])
      BY <2>2
    <3>3. G[t \ {n}] = F[t \ {n}]
      <4>1. t \ {n} \in SUBSET (1 .. n) /\ n \notin t \ {n}
        OBVIOUS
      <4> QED BY <4>1
    <3> HIDE DEF G
    <3> QED BY <3>1, <3>2, <3>3
  <2>3. CASE n \notin t
    <3>1. t \in SUBSET (1 .. n - 1)
      BY <2>3
    <3>2. G[t] = F[t] /\ G[t \ {Max(t)}] = F[t \ {Max(t)}]
      BY <2>1, <2>3
    <3> HIDE DEF G
    <3> QED BY <1>6, <3>1, <3>2
  <2> QED BY <2>2, <2>3
<1>8. G = [t \in SUBSET (1 .. n) |-> G[t]]
  OBVIOUS
<1> HIDE DEF G
<1>9. AnchorFolds(lines, n, G)
  BY <1>7, <1>8 DEF AnchorFolds
<1> QED BY <1>9

(* load_anchor_log line by line. *)
LEMMA LoadSteps ==
    ASSUME NEW lines, NEW n \in Nat, DOMAIN lines = 1 .. n
    PROVE  \E F : /\ F[{}] = <<>> /\ load_anchor_log(lines) = F[1 .. n]
                  /\ \A i \in 1 .. n :
                        F[1 .. i] = LoadLine(F[1 .. i - 1], lines[i])
<1> DEFINE F == CHOOSE G : AnchorFolds(lines, n, G)
<1>1. load_anchor_log(lines) = F[1 .. n]
  BY DEF load_anchor_log, FoldLeft, MapThenFoldSet, AnchorFolds
<1>2. AnchorFolds(lines, n, F)
  BY AnchorFoldsExist
<1> HIDE DEF F
<1>3. \A t \in SUBSET (1 .. n) :
          F[t] = IF t = {} THEN <<>>
                 ELSE LoadLine(F[t \ {Max(t)}], lines[Max(t)])
  BY <1>2 DEF AnchorFolds
<1>4. F[{}] = <<>>
  BY <1>3
<1>5. ASSUME NEW i \in 1 .. n
      PROVE  F[1 .. i] = LoadLine(F[1 .. i - 1], lines[i])
  <2>1. 1 .. i \in SUBSET (1 .. n) /\ 1 .. i # {} /\ (1 .. i) \ {i} = 1 .. i - 1
    <3>1. 1 .. i \in SUBSET (1 .. n) /\ i \in 1 .. i
      OBVIOUS
    <3>2. (1 .. i) \ {i} = 1 .. i - 1
      OBVIOUS
    <3> QED BY <3>1, <3>2
  <2>2. Max(1 .. i) = i
    BY MaxOfInterval
  <2> QED BY <1>3, <2>1, <2>2
<1> QED BY <1>1, <1>4, <1>5

SealHash == Seq(Nat \X Nat \X Nat \X Seq(Fact))
Anchor == [seq : Nat, lo : Nat, hi : Nat, chain_head : Seq(Fact), anchor_hash : SealHash,
           sound : BOOLEAN]
Builder == [prev : SealHash, seq : Nat, lo : Nat]
LogLine == [form : {"whole", "torn", "damaged"}, anchor : Anchor]

(* b was sealed after a. *)
Chained(a, b) ==
    a.seq < b.seq /\ (b.seq = a.seq + 1 => verify_one(b, a.anchor_hash) /\ b.lo = a.hi)

(* The first anchor starts a chain. *)
Rooted(a) == a.seq = 0 => verify_one(a, <<>>) /\ a.lo = 0

(* An anchor over a sound audit is the head of a beginning of the records. *)
Binds(a, recs) ==
    Linked(recs, genesis) /\ a.sound =>
        a.hi <= Len(recs) /\ a.chain_head = SubSeq(FactsOf(recs), 1, a.hi)

(* What the builder seals next comes after a. *)
GoesOn(a, b) == a.seq < b.seq /\ (b.seq = a.seq + 1 => b.prev = a.anchor_hash /\ b.lo = a.hi)

(* Anchors in the order of a list ... *)
AllChained(s) == \A i, j \in 1 .. Len(s) : i < j => Chained(s[i], s[j])

(* ... and in that of the lines of the log that are whole. *)
LinesChained(lines) ==
    \A i, j \in 1 .. Len(lines) :
        i < j /\ lines[i].form = "whole" /\ lines[j].form = "whole" =>
            Chained(lines[i].anchor, lines[j].anchor)

(* What every anchor in memory, and every one in the log, is. *)
Sealed(a, b, recs) == Rooted(a) /\ Binds(a, recs) /\ GoesOn(a, b)

AnchorTypes ==
    /\ policy \in [interval : Nat, persisted : BOOLEAN]
    /\ builder \in Builder /\ (builder.seq = 0 => builder = NewBuilder)
    /\ anchors \in Seq(Anchor) /\ anchor_log \in Seq(LogLine)

AnchorInv ==
    /\ AnchorTypes
    /\ ~policy.persisted => anchor_log = <<>>
    /\ AllChained(anchors) /\ LinesChained(anchor_log)
    /\ \A i \in 1 .. Len(anchors) : Sealed(anchors[i], builder, Stored)
    /\ \A i \in 1 .. Len(anchor_log) :
          anchor_log[i].form = "whole" => Sealed(anchor_log[i].anchor, builder, Stored)

(* What was loaded: the anchors of the whole lines, in their order. *)
Loaded(l, lines, k) ==
    /\ l \in Seq(Anchor) /\ AllChained(l)
    /\ \A i \in 1 .. Len(l) : \E j \in 1 .. k : lines[j].form = "whole" /\ l[i] = lines[j].anchor
    /\ \A j \in 1 .. k : lines[j].form = "whole" => \E i \in 1 .. Len(l) : l[i] = lines[j].anchor

(* One line more. *)
LEMMA LoadedNext ==
    ASSUME NEW lines \in Seq(LogLine), LinesChained(lines), NEW k \in 1 .. Len(lines), NEW l,
           Loaded(l, lines, k - 1)
    PROVE  Loaded(LoadLine(l, lines[k]), lines, k)
<1>1. l \in Seq(Anchor) /\ lines[k] \in LogLine /\ Len(l) \in Nat /\ k \in Nat /\ k - 1 \in Nat
  BY DEF Loaded
<1>2. \A j \in 1 .. k : j = k \/ j \in 1 .. k - 1
  BY <1>1
<1>3. \A j \in 1 .. k - 1 : j \in 1 .. k /\ j < k /\ j \in 1 .. Len(lines)
  BY <1>1
<1>4. CASE lines[k].form = "whole"
  <2> DEFINE a == lines[k].anchor
             m == Append(l, a)
             n == Len(l)
  <2>1. LoadLine(l, lines[k]) = m
    BY <1>4 DEF LoadLine
  <2>2. a \in Anchor
    BY <1>1 DEF LogLine
  <2>3. /\ m \in Seq(Anchor) /\ Len(m) = n + 1 /\ m[n + 1] = a /\ n \in Nat
        /\ \A i \in 1 .. n : m[i] = l[i]
    BY <1>1, <2>2, AtTheEnd
  <2> HIDE DEF m
  <2>4. \A i \in 1 .. n + 1 : i = n + 1 \/ i \in 1 .. n
    BY <2>3
  <2>5. ASSUME NEW i \in 1 .. n PROVE Chained(l[i], a)
    <3>1. PICK j \in 1 .. k - 1 : lines[j].form = "whole" /\ l[i] = lines[j].anchor
      BY DEF Loaded
    <3>2. Chained(lines[j].anchor, lines[k].anchor)
      BY <1>3, <1>4, <3>1 DEF LinesChained
    <3> QED BY <3>1, <3>2
  <2>6. ASSUME NEW i \in 1 .. n + 1, NEW j \in 1 .. n + 1, i < j PROVE Chained(m[i], m[j])
    <3>1. i \in 1 .. n
      BY <2>3, <2>6
    <3>2. CASE j = n + 1
      BY <2>3, <2>5, <3>1, <3>2
    <3>3. CASE j \in 1 .. n
      <4>1. Chained(l[i], l[j])
        BY <2>6, <3>1, <3>3 DEF Loaded, AllChained
      <4> QED BY <2>3, <3>1, <3>3, <4>1
    <3> QED BY <2>4, <3>2, <3>3
  <2>7. AllChained(m)
    BY <2>3, <2>6 DEF AllChained
  <2>8. ASSUME NEW i \in 1 .. n + 1
        PROVE  \E j \in 1 .. k : lines[j].form = "whole" /\ m[i] = lines[j].anchor
    <3>1. CASE i = n + 1
      <4>1. k \in 1 .. k
        BY <1>1
      <4> QED BY <1>4, <2>3, <3>1, <4>1
    <3>2. CASE i \in 1 .. n
      <4>1. PICK j \in 1 .. k - 1 : lines[j].form = "whole" /\ l[i] = lines[j].anchor
        BY <3>2 DEF Loaded
      <4> QED BY <1>3, <2>3, <3>2, <4>1
    <3> QED BY <2>4, <3>1, <3>2
  <2>9. ASSUME NEW j \in 1 .. k, lines[j].form = "whole"
        PROVE  \E i \in 1 .. n + 1 : m[i] = lines[j].anchor
    <3>1. CASE j = k
      <4>1. n + 1 \in 1 .. n + 1
        BY <2>3
      <4> QED BY <2>3, <3>1, <4>1
    <3>2. CASE j \in 1 .. k - 1
      <4>1. PICK i \in 1 .. n : l[i] = lines[j].anchor
        BY <2>9, <3>2 DEF Loaded
      <4>2. i \in 1 .. n + 1
        BY <2>3
      <4> QED BY <2>3, <4>1, <4>2
    <3> QED BY <1>2, <3>1, <3>2
  <2> HIDE DEF n
  <2>10. Loaded(m, lines, k)
    BY <2>3, <2>7, <2>8, <2>9 DEF Loaded
  <2> QED BY <2>1, <2>10
<1>5. CASE lines[k].form # "whole"
  <2>1. LoadLine(l, lines[k]) = l
    BY <1>5 DEF LoadLine
  <2>2. \A i \in 1 .. Len(l) : \E j \in 1 .. k : lines[j].form = "whole" /\ l[i] = lines[j].anchor
    BY <1>3 DEF Loaded
  <2>3. \A j \in 1 .. k : lines[j].form = "whole" => \E i \in 1 .. Len(l) : l[i] = lines[j].anchor
    BY <1>2, <1>5 DEF Loaded
  <2>4. Loaded(l, lines, k)
    BY <2>2, <2>3 DEF Loaded
  <2> QED BY <2>1, <2>4
<1> QED BY <1>4, <1>5

(* load_anchor_log. *)
LEMMA LoadIs ==
    ASSUME NEW lines \in Seq(LogLine), LinesChained(lines)
    PROVE  Loaded(load_anchor_log(lines), lines, Len(lines))
<1> DEFINE n == Len(lines)
<1>1. n \in Nat /\ DOMAIN lines = 1 .. n
  OBVIOUS
<1>2. PICK F : /\ F[{}] = <<>> /\ load_anchor_log(lines) = F[1 .. n]
               /\ \A i \in 1 .. n : F[1 .. i] = LoadLine(F[1 .. i - 1], lines[i])
  BY <1>1, LoadSteps
<1> DEFINE Bad == {i \in 0 .. n : ~Loaded(F[1 .. i], lines, i)}
<1>3. Bad = {}
  <2>1. SUFFICES ASSUME Bad # {} PROVE FALSE
    OBVIOUS
  <2>2. PICK i \in Bad : \A j \in Bad : i <= j
    <3>1. Bad \subseteq Nat
      BY <1>1
    <3> HIDE DEF Bad
    <3> QED BY <2>1, <3>1, LeastNatural
  <2>3. i \in 0 .. n /\ ~Loaded(F[1 .. i], lines, i)
    OBVIOUS
  <2>4. CASE i = 0
    <3> DEFINE none == <<>>
    <3>1. 1 .. 0 = {} /\ none \in Seq(Anchor) /\ Len(none) = 0
      OBVIOUS
    <3> HIDE DEF none
    <3>2. Loaded(none, lines, 0)
      BY <3>1 DEF Loaded, AllChained
    <3>3. F[1 .. 0] = none
      BY <1>2, <3>1 DEF none
    <3> QED BY <2>3, <2>4, <3>2, <3>3
  <2>5. CASE i # 0
    <3>1. i \in 1 .. n /\ i - 1 \in 0 .. n /\ ~(i <= i - 1)
      BY <1>1, <2>3, <2>5
    <3>2. i - 1 \notin Bad
      <4> HIDE DEF Bad
      <4> QED BY <2>2, <3>1
    <3>3. Loaded(F[1 .. i - 1], lines, i - 1)
      BY <3>1, <3>2
    <3>4. Loaded(LoadLine(F[1 .. i - 1], lines[i]), lines, i)
      BY <3>1, <3>3, LoadedNext
    <3> QED BY <1>2, <2>3, <3>1, <3>4
  <2> QED BY <2>4, <2>5
<1>4. Loaded(F[1 .. n], lines, n)
  BY <1>1, <1>3
<1> QED BY <1>2, <1>4

(* An anchor stays bound to records that have more behind them. *)
LEMMA BindsGrows ==
    ASSUME DiskInv, Stored' \in Seq(Rec), Begins(Stored, Stored'), NEW a \in Anchor, Binds(a, Stored)
    PROVE  Binds(a, Stored')
<1>1. SUFFICES ASSUME Linked(Stored', genesis), a.sound
               PROVE  a.hi <= Len(Stored') /\ a.chain_head = SubSeq(FactsOf(Stored'), 1, a.hi)
  BY DEF Binds
<1>2. /\ Linked(Stored, genesis)
      /\ Len(Stored) \in Nat /\ \A k \in 0 .. Len(Stored) :
            SubSeq(FactsOf(Stored'), 1, k) = SubSeq(FactsOf(Stored), 1, k) /\ k \in 0 .. Len(Stored')
  BY <1>1, ChainGrows
<1>3. a.hi <= Len(Stored) /\ a.chain_head = SubSeq(FactsOf(Stored), 1, a.hi)
  BY <1>1, <1>2 DEF Binds
<1>4. a.hi \in 0 .. Len(Stored)
  BY <1>2, <1>3 DEF Anchor
<1>5. a.hi \in 0 .. Len(Stored') /\ Len(Stored') \in Nat
  BY <1>2, <1>4
<1> QED BY <1>2, <1>3, <1>4, <1>5

(* The anchor that is sealed. *)
LEMMA SealIs ==
    ASSUME AnchorTypes, AuditTypes, NEW a, a = SealOf(builder, Len(audit.entries), audit.last_hash)
    PROVE  /\ a \in Anchor /\ a.seq = builder.seq /\ a.lo = builder.lo /\ a.hi = Len(audit.entries)
           /\ a.chain_head = audit.last_hash /\ a.sound = ~astray
           /\ verify_one(a, builder.prev)
<1>1. /\ builder.prev \in SealHash /\ builder.seq \in Nat /\ builder.lo \in Nat
      /\ Len(audit.entries) \in Nat /\ audit.last_hash \in Seq(Fact) /\ astray \in BOOLEAN
  BY DEF AnchorTypes, Builder, AuditTypes, Audits
<1> DEFINE n == Len(audit.entries)
           q == <<builder.seq, builder.lo, n, audit.last_hash>>
           h == Append(builder.prev, q)
<1>2. a = [seq |-> builder.seq, lo |-> builder.lo, hi |-> n, chain_head |-> audit.last_hash,
           anchor_hash |-> h, sound |-> ~astray]
  BY DEF SealOf, compute_anchor_hash
<1>3. q \in Nat \X Nat \X Nat \X Seq(Fact)
  BY <1>1
<1>4. h \in SealHash
  <2> HIDE DEF q
  <2> QED BY <1>1, <1>3 DEF SealHash
<1> HIDE DEF h
<1>5. /\ a \in Anchor /\ a.seq = builder.seq /\ a.lo = builder.lo /\ a.hi = n
      /\ a.chain_head = audit.last_hash /\ a.sound = ~astray /\ a.anchor_hash = h
  BY <1>1, <1>2, <1>4 DEF Anchor
<1>6. verify_one(a, builder.prev)
  BY <1>5 DEF verify_one, compute_anchor_hash, h
<1> QED BY <1>5, <1>6

(* The anchor log after a write, whatever became of it. *)
Wrote(lines, more, a) ==
    /\ more \in Seq(LogLine)
    /\ \A j \in 1 .. Len(more) : more[j].form = "whole" =>
          \/ j \in 1 .. Len(lines) /\ more[j] = lines[j]
          \/ j = Len(lines) + 1 /\ more[j].anchor = a

(* persist_anchor. *)
LEMMA PersistWrites ==
    ASSUME AnchorTypes, NEW a \in Anchor, NEW E, persist_anchor(a, E)
    PROVE  Wrote(anchor_log, anchor_log', a) /\ (~policy.persisted => anchor_log' = anchor_log)
<1> DEFINE lines == anchor_log
           n == Len(lines)
<1>1. lines \in Seq(LogLine) /\ n \in Nat
  BY DEF AnchorTypes
<1>2. Wrote(lines, lines, a)
  BY <1>1 DEF Wrote
<1>3. ASSUME NEW form \in {"whole", "torn", "damaged"}
      PROVE  Wrote(lines, Append(lines, AnchorLine(form, a)), a)
  <2> DEFINE l == AnchorLine(form, a)
             m == Append(lines, l)
  <2>1. l \in LogLine /\ l.anchor = a
    BY DEF AnchorLine, LogLine
  <2>2. /\ m \in Seq(LogLine) /\ Len(m) = n + 1 /\ m[n + 1] = l
        /\ \A i \in 1 .. n : m[i] = lines[i]
    <3> HIDE DEF l
    <3> QED BY <1>1, <2>1, AtTheEnd
  <2> HIDE DEF l, m
  <2>3. \A i \in 1 .. n + 1 : i = n + 1 \/ i \in 1 .. n
    BY <1>1
  <2> HIDE DEF lines, n
  <2>4. \A j \in 1 .. Len(m) : (j \in 1 .. n /\ m[j] = lines[j]) \/ (j = n + 1 /\ m[j].anchor = a)
    <3>1. \A j \in 1 .. n + 1 : (j \in 1 .. n /\ m[j] = lines[j]) \/ (j = n + 1 /\ m[j].anchor = a)
      BY <2>1, <2>2, <2>3, Zenon
    <3> QED BY <2>2, <3>1
  <2>5. Wrote(lines, m, a)
    BY <2>2, <2>4 DEF Wrote, n
  <2> QED BY <2>5 DEF m, l
<1>4. ASSUME TornEnd(lines)
      PROVE  Wrote(lines, Append(Front(lines), [Last(lines) EXCEPT !.form = "damaged"]), a)
  <2> DEFINE f == Front(lines)
             l == [Last(lines) EXCEPT !.form = "damaged"]
             m == Append(f, l)
  <2>1. lines # <<>> /\ n > 0
    BY <1>1, <1>4 DEF TornEnd
  <2>2. Last(lines) \in LogLine
    BY <1>1, <2>1 DEF Last
  <2>3. l \in LogLine /\ l.form = "damaged"
    BY <2>2 DEF LogLine
  <2>4. f \in Seq(LogLine) /\ Len(f) = n - 1 /\ \A i \in 1 .. n - 1 : f[i] = lines[i]
    <3>1. n - 1 \in 0 .. Len(lines)
      BY <1>1, <2>1
    <3>2. f = SubSeq(lines, 1, n - 1)
      BY DEF Front
    <3>3. /\ SubSeq(lines, 1, n - 1) \in Seq(LogLine) /\ Len(SubSeq(lines, 1, n - 1)) = n - 1
          /\ \A i \in 1 .. n - 1 : SubSeq(lines, 1, n - 1)[i] = lines[i]
      BY <1>1, <3>1, Upto
    <3> HIDE DEF f
    <3> QED BY <3>2, <3>3, Zenon
  <2> HIDE DEF f, l
  <2>5. /\ m \in Seq(LogLine) /\ Len(m) = n - 1 + 1 /\ m[n - 1 + 1] = l
        /\ \A i \in 1 .. n - 1 : m[i] = f[i]
    BY <2>3, <2>4, AtTheEnd
  <2> HIDE DEF m
  <2>6. Len(m) = n /\ m[n] = l /\ \A i \in 1 .. n : i = n \/ i \in 1 .. n - 1
    BY <1>1, <2>1, <2>5
  <2>7. \A i \in 1 .. n - 1 : m[i] = lines[i] /\ i \in 1 .. n
    BY <1>1, <2>4, <2>5
  <2> HIDE DEF lines, n
  <2>8. \A j \in 1 .. Len(m) : m[j].form = "whole" => j \in 1 .. n /\ m[j] = lines[j]
    BY <2>3, <2>6, <2>7
  <2>9. Wrote(lines, m, a)
    BY <2>5, <2>8 DEF Wrote, n
  <2> QED BY <2>9 DEF m, l, f
<1>5. Wrote(lines, WriteAnchor(lines, a), a)
  BY <1>3, <1>4, Zenon DEF WriteAnchor
<1>6. \/ anchor_log' = IF policy.persisted THEN WriteAnchor(lines, a) ELSE lines
      \/ policy.persisted /\ anchor_log' \in {Append(lines, AnchorLine("torn", a)), lines}
  BY DEF persist_anchor
<1>7. Wrote(lines, Append(lines, AnchorLine("torn", a)), a)
  BY <1>3
<1> HIDE DEF lines
<1> QED BY <1>2, <1>5, <1>6, <1>7, Zenon DEF lines

(* The builder after an anchor that comes after x. *)
LEMMA AfterThat ==
    ASSUME NEW x \in Anchor, NEW a \in Anchor, x.seq < a.seq \/ x = a
    PROVE  GoesOn(x, BuilderAfter(a))
<1>1. BuilderAfter(a).prev = a.anchor_hash /\ BuilderAfter(a).seq = a.seq + 1 /\ BuilderAfter(a).lo = a.hi
  BY DEF BuilderAfter
<1>2. x.seq \in Nat /\ a.seq \in Nat
  BY DEF Anchor
<1>3. CASE x = a
  BY <1>1, <1>2, <1>3 DEF GoesOn
<1>4. CASE x.seq < a.seq
  BY <1>1, <1>2, <1>4 DEF GoesOn
<1> QED BY <1>3, <1>4

(* The builder after an anchor. *)
LEMMA BuilderIs ==
    ASSUME NEW a \in Anchor
    PROVE  BuilderAfter(a) \in Builder /\ BuilderAfter(a).seq # 0
<1>1. a.anchor_hash \in SealHash /\ a.seq \in Nat /\ a.hi \in Nat
  BY DEF Anchor
<1>2. a.seq + 1 \in Nat /\ a.seq + 1 # 0
  BY <1>1
<1> QED BY <1>1, <1>2 DEF BuilderAfter, Builder

(* An anchor is sealed, and written to the log or not. *)
LEMMA SealKeeps ==
    ASSUME DiskInv, AuditInv, AnchorInv, NEW E, SealAnchor(E),
           policy' = policy, Stored' = Stored
    PROVE  AnchorInv'
<1> DEFINE a == SealOf(builder, Len(audit.entries), audit.last_hash)
           n == Len(anchors)
<1>1. anchors' = Append(anchors, a) /\ builder' = BuilderAfter(a) /\ persist_anchor(a, E)
  BY DEF SealAnchor
<1>2. AnchorTypes /\ AuditTypes
  BY DEF AnchorInv, AuditInv
<1>3. /\ a \in Anchor /\ a.seq = builder.seq /\ a.lo = builder.lo /\ a.hi = Len(audit.entries)
      /\ a.chain_head = audit.last_hash /\ a.sound = ~astray
      /\ verify_one(a, builder.prev)
  BY <1>2, SealIs
<1> HIDE DEF a
<1>4. ASSUME NEW x \in Anchor, Sealed(x, builder, Stored)
      PROVE  Chained(x, a) /\ Sealed(x, builder', Stored)
  <2>1. GoesOn(x, builder)
    BY <1>4 DEF Sealed
  <2>2. x.seq < a.seq /\ (a.seq = x.seq + 1 => builder.prev = x.anchor_hash /\ a.lo = x.hi)
    BY <1>3, <2>1 DEF GoesOn
  <2>3. Chained(x, a)
    BY <1>3, <2>2 DEF Chained
  <2>4. GoesOn(x, builder')
    BY <1>1, <1>3, <2>2, AfterThat
  <2> QED BY <1>4, <2>3, <2>4 DEF Sealed
<1>5. Sealed(a, builder', Stored)
  <2>1. Rooted(a)
    <3>1. SUFFICES ASSUME a.seq = 0 PROVE verify_one(a, <<>>) /\ a.lo = 0
      BY DEF Rooted
    <3>2. builder = NewBuilder
      BY <1>2, <1>3, <3>1 DEF AnchorTypes
    <3>3. builder.prev = <<>> /\ builder.lo = 0
      BY <3>2 DEF NewBuilder
    <3> QED BY <1>3, <3>3
  <2>2. Binds(a, Stored)
    <3>1. SUFFICES ASSUME Linked(Stored, genesis), ~astray
                   PROVE  a.hi <= Len(Stored) /\ a.chain_head = SubSeq(FactsOf(Stored), 1, a.hi)
      BY <1>3 DEF Binds
    <3>2. Follow(audit.entries, audit.last_hash, FactsOf(Stored))
      BY <3>1 DEF AuditInv, AuditFollows
    <3>3. Len(FactsOf(Stored)) = Len(Stored)
      BY DiskFacts, FactsAre
    <3> QED BY <1>3, <3>2, <3>3 DEF Follow
  <2>3. GoesOn(a, builder')
    BY <1>1, <1>3, AfterThat
  <2> QED BY <2>1, <2>2, <2>3 DEF Sealed
<1>6. builder' \in Builder /\ builder'.seq # 0
  BY <1>1, <1>3, BuilderIs
<1>7. anchors \in Seq(Anchor) /\ n \in Nat /\ \A i \in 1 .. n : anchors[i] \in Anchor
  BY <1>2 DEF AnchorTypes
<1>8. /\ anchors' \in Seq(Anchor) /\ Len(anchors') = n + 1 /\ anchors'[n + 1] = a
      /\ \A i \in 1 .. n : anchors'[i] = anchors[i]
  BY <1>1, <1>3, <1>7, AtTheEnd
<1>9. \A i \in 1 .. n + 1 : i = n + 1 \/ i \in 1 .. n
  BY <1>7
<1>10. \A i \in 1 .. n : Sealed(anchors[i], builder, Stored)
  BY DEF AnchorInv
<1>11. \A i \in 1 .. Len(anchors') : Sealed(anchors'[i], builder', Stored)
  <2>1. SUFFICES ASSUME NEW i \in 1 .. n + 1 PROVE Sealed(anchors'[i], builder', Stored)
    BY <1>8
  <2>2. CASE i = n + 1
    BY <1>5, <1>8, <2>2
  <2>3. CASE i \in 1 .. n
    <3>1. Sealed(anchors[i], builder', Stored)
      BY <1>4, <1>7, <1>10, <2>3
    <3> QED BY <1>8, <2>3, <3>1
  <2> QED BY <1>9, <2>2, <2>3
<1>12. AllChained(anchors')
  <2>1. SUFFICES ASSUME NEW i \in 1 .. n + 1, NEW j \in 1 .. n + 1, i < j
                 PROVE  Chained(anchors'[i], anchors'[j])
    BY <1>8 DEF AllChained
  <2>2. i \in 1 .. n
    BY <1>7, <2>1
  <2>3. CASE j = n + 1
    <3>1. Chained(anchors[i], a)
      BY <1>4, <1>7, <1>10, <2>2
    <3> QED BY <1>8, <2>2, <2>3, <3>1
  <2>4. CASE j \in 1 .. n
    <3>1. Chained(anchors[i], anchors[j])
      BY <2>1, <2>2, <2>4 DEF AnchorInv, AllChained
    <3> QED BY <1>8, <2>2, <2>4, <3>1
  <2> QED BY <1>9, <2>3, <2>4
<1> DEFINE lines == anchor_log
           more == anchor_log'
           m == Len(lines)
<1>13. Wrote(lines, more, a) /\ (~policy.persisted => more = lines)
  BY <1>1, <1>2, <1>3, PersistWrites
<1>14. /\ more \in Seq(LogLine) /\ lines \in Seq(LogLine) /\ m \in Nat /\ Len(more) \in Nat
       /\ \A j \in 1 .. m : lines[j].anchor \in Anchor
  <2>1. more \in Seq(LogLine) /\ lines \in Seq(LogLine)
    BY <1>2, <1>13 DEF Wrote, AnchorTypes
  <2>2. \A l \in LogLine : l.anchor \in Anchor
    BY DEF LogLine
  <2> QED BY <2>1, <2>2
<1>15. \A j \in 1 .. Len(more) : more[j].form = "whole" =>
          \/ j \in 1 .. m /\ more[j] = lines[j]
          \/ j = m + 1 /\ more[j].anchor = a
  BY <1>13 DEF Wrote
<1>16. \A j \in 1 .. m : lines[j].form = "whole" => Sealed(lines[j].anchor, builder, Stored)
  BY DEF AnchorInv
<1>17. LinesChained(lines)
  BY DEF AnchorInv
<1> HIDE DEF lines, more, m
<1>18. \A j \in 1 .. Len(more) : more[j].form = "whole" => Sealed(more[j].anchor, builder', Stored)
  BY <1>4, <1>5, <1>14, <1>15, <1>16
<1>19. LinesChained(more)
  <2>1. SUFFICES ASSUME NEW i \in 1 .. Len(more), NEW j \in 1 .. Len(more), i < j,
                        more[i].form = "whole", more[j].form = "whole"
                 PROVE  Chained(more[i].anchor, more[j].anchor)
    BY DEF LinesChained
  <2>2. CASE j \in 1 .. m /\ more[j] = lines[j]
    <3>1. i \in 1 .. m /\ i # m + 1
      BY <1>14, <2>1, <2>2
    <3>2. more[i] = lines[i]
      BY <1>15, <2>1, <3>1
    <3>3. Chained(lines[i].anchor, lines[j].anchor)
      BY <1>17, <2>1, <2>2, <3>1, <3>2 DEF LinesChained, m
    <3> QED BY <2>2, <3>2, <3>3
  <2>3. CASE j = m + 1 /\ more[j].anchor = a
    <3>1. i \in 1 .. m /\ i # m + 1
      BY <1>14, <2>1, <2>3
    <3>2. more[i] = lines[i]
      BY <1>15, <2>1, <3>1
    <3>3. Chained(lines[i].anchor, a)
      BY <1>4, <1>14, <1>16, <2>1, <3>1, <3>2
    <3> QED BY <2>3, <3>2, <3>3
  <2> QED BY <1>15, <2>1, <2>2, <2>3
<1>20. ~policy'.persisted => more = <<>>
  BY <1>13 DEF AnchorInv, lines
<1>21. AnchorTypes'
  BY <1>2, <1>6, <1>8, <1>14 DEF AnchorTypes, more
<1> QED BY <1>11, <1>12, <1>18, <1>19, <1>20, <1>21, Zenon DEF AnchorInv, more

(* A restart: the builder goes on from the last anchor that was loaded. *)
LEMMA RestartKeeps ==
    ASSUME DiskInv, AnchorInv, Restart, Follows
    PROVE  AnchorInv'
<1> DEFINE lines == anchor_log
           l == anchors'
<1>1. /\ l = (IF policy.persisted THEN load_anchor_log(lines) ELSE <<>>)
      /\ builder' = Restored(l) /\ policy' = policy /\ anchor_log' = lines
  BY DEF Restart
<1>2. Stored' \in Seq(Rec) /\ Begins(Stored, Stored')
  BY DEF Follows
<1>3. /\ AnchorTypes /\ lines \in Seq(LogLine) /\ LinesChained(lines) /\ Len(lines) \in Nat
      /\ (~policy.persisted => lines = <<>>)
  BY DEF AnchorInv, AnchorTypes
<1>4. \A j \in 1 .. Len(lines) : lines[j].anchor \in Anchor
  <2>1. \A x \in LogLine : x.anchor \in Anchor
    BY DEF LogLine
  <2> QED BY <1>3, <2>1
<1>5. ASSUME NEW j \in 1 .. Len(lines), lines[j].form = "whole"
      PROVE  Rooted(lines[j].anchor) /\ Binds(lines[j].anchor, Stored')
  <2>1. Rooted(lines[j].anchor) /\ Binds(lines[j].anchor, Stored)
    BY <1>5 DEF AnchorInv, Sealed
  <2> QED BY <1>2, <1>4, <2>1, BindsGrows
<1>6. Loaded(l, lines, Len(lines))
  <2>1. CASE policy.persisted
    BY <1>1, <1>3, <2>1, LoadIs
  <2>2. CASE ~policy.persisted
    <3> DEFINE none == <<>>
    <3>1. Len(none) = 0 /\ none \in Seq(Anchor) /\ l = none /\ lines = none
      BY <1>1, <1>3, <2>2
    <3> HIDE DEF none, l, lines
    <3>2. Len(l) = 0 /\ Len(lines) = 0 /\ l \in Seq(Anchor)
      BY <3>1
    <3> QED BY <3>2 DEF Loaded, AllChained
  <2> QED BY <2>1, <2>2
<1> HIDE DEF l, lines
<1>7. l \in Seq(Anchor) /\ AllChained(l) /\ Len(l) \in Nat
  BY <1>6 DEF Loaded
<1>8. ASSUME NEW i \in 1 .. Len(l) PROVE Sealed(l[i], builder', Stored') /\ l # <<>>
  <2> DEFINE n == Len(l)
  <2>1. n \in 1 .. n /\ l # <<>> /\ l[n] \in Anchor /\ l[i] \in Anchor
    BY <1>7
  <2>2. builder' = BuilderAfter(l[n])
    BY <1>1, <2>1 DEF Restored, Last
  <2>3. l[i].seq < l[n].seq \/ l[i] = l[n]
    <3>1. CASE i = n
      BY <3>1
    <3>2. CASE i < n
      BY <1>7, <2>1, <3>2 DEF AllChained, Chained
    <3> QED BY <1>7, <3>1, <3>2
  <2>4. GoesOn(l[i], builder')
    BY <2>1, <2>2, <2>3, AfterThat
  <2>5. PICK j \in 1 .. Len(lines) : lines[j].form = "whole" /\ l[i] = lines[j].anchor
    BY <1>6 DEF Loaded
  <2> QED BY <1>5, <2>1, <2>4, <2>5 DEF Sealed
<1>9. ASSUME NEW j \in 1 .. Len(lines), lines[j].form = "whole"
      PROVE  Sealed(lines[j].anchor, builder', Stored')
  <2>1. PICK i \in 1 .. Len(l) : l[i] = lines[j].anchor
    BY <1>6, <1>9 DEF Loaded
  <2> QED BY <1>8, <2>1
<1>10. builder' \in Builder /\ (builder'.seq = 0 => builder' = NewBuilder)
  <2>1. CASE l = <<>>
    <3>1. builder' = NewBuilder
      BY <1>1, <2>1 DEF Restored
    <3>2. NewBuilder \in Builder
      <4>1. <<>> \in SealHash
        BY DEF SealHash
      <4> QED BY <4>1 DEF NewBuilder, Builder
    <3> QED BY <3>1, <3>2
  <2>2. CASE l # <<>>
    <3>1. Last(l) \in Anchor /\ builder' = BuilderAfter(Last(l))
      BY <1>1, <1>7, <2>2 DEF Restored, Last
    <3> QED BY <3>1, BuilderIs
  <2> QED BY <2>1, <2>2
<1>11. AnchorTypes'
  BY <1>1, <1>3, <1>7, <1>10 DEF AnchorTypes, l, lines
<1> QED BY <1>1, <1>3, <1>7, <1>8, <1>9, <1>11, Zenon DEF AnchorInv, l, lines

(* Nothing is sealed and nothing loaded. *)
LEMMA AnchorsStay ==
    ASSUME DiskInv, AnchorInv, Stored' \in Seq(Rec), Begins(Stored, Stored'),
           UNCHANGED <<policy, builder, anchors, anchor_log>>
    PROVE  AnchorInv'
<1>1. AnchorTypes /\ anchors \in Seq(Anchor) /\ anchor_log \in Seq(LogLine)
  BY DEF AnchorInv, AnchorTypes
<1>2. \A a \in Anchor : Sealed(a, builder, Stored) => Sealed(a, builder, Stored')
  BY BindsGrows DEF Sealed
<1>3. \A i \in 1 .. Len(anchors) : anchors[i] \in Anchor
  BY <1>1
<1>4. \A i \in 1 .. Len(anchor_log) : anchor_log[i].anchor \in Anchor
  <2>1. \A x \in LogLine : x.anchor \in Anchor
    BY DEF LogLine
  <2> QED BY <1>1, <2>1
<1>5. \A i \in 1 .. Len(anchors) : Sealed(anchors[i], builder, Stored')
  BY <1>2, <1>3 DEF AnchorInv
<1>6. \A i \in 1 .. Len(anchor_log) :
         anchor_log[i].form = "whole" => Sealed(anchor_log[i].anchor, builder, Stored')
  BY <1>2, <1>4 DEF AnchorInv
<1>7. AnchorTypes'
  BY <1>1 DEF AnchorTypes
<1>8. /\ policy' = policy /\ builder' = builder /\ anchors' = anchors /\ anchor_log' = anchor_log
  OBVIOUS
<1>9. AllChained(anchors) /\ LinesChained(anchor_log) /\ (~policy.persisted => anchor_log = <<>>)
  BY DEF AnchorInv
<1> QED BY <1>5, <1>6, <1>7, <1>8, <1>9 DEF AnchorInv

(* Every step of the log, the auditor and the sentinel. *)
LEMMA AnchorStep ==
    ASSUME DiskInv, AuditInv, AnchorInv, Follows, [VerifyNext]_allVars
    PROVE  AnchorInv'
<1>1. Stored' \in Seq(Rec) /\ Begins(Stored, Stored')
  BY DEF Follows
<1>2. ASSUME NEW E, SealAnchor(E), UNCHANGED <<vars, policy>> PROVE AnchorInv'
  <2>1. Stored' = Stored /\ policy' = policy
    BY <1>2 DEF vars, Stored
  <2> QED BY <1>2, <2>1, SealKeeps
<1>3. CASE seal_anchor_now
  BY <1>2, <1>3 DEF seal_anchor_now
<1>4. CASE Restart
  BY <1>4, RestartKeeps
<1>5. CASE Close
  <2>1. UNCHANGED <<vars, policy>> /\ (SealAnchor({}) \/ UNCHANGED <<anchors, builder, anchor_log>>)
    BY <1>5 DEF Close
  <2>2. CASE UNCHANGED <<anchors, builder, anchor_log>>
    BY <1>1, <2>1, <2>2, AnchorsStay
  <2> QED BY <1>2, <2>1, <2>2
<1>6. CASE \/ LogStep \/ CrashAll \/ AuditStart \/ NothingNew \/ Walk \/ load_from_tier1_wal
           \/ export \/ import \/ scan_wal_dir \/ UNCHANGED allVars
  <2>1. UNCHANGED <<policy, builder, anchors, anchor_log>>
    BY <1>6, Zenon DEF LogStep, CrashAll, AuditStart, NothingNew, Walk, load_from_tier1_wal, export,
       import, scan_wal_dir, allVars, auditVars, auditor
  <2> QED BY <1>1, <2>1, AnchorsStay
<1> QED BY <1>3, <1>4, <1>5, <1>6, Zenon DEF VerifyNext, AuditNext

(* The beginning. *)
LEMMA AnchorsBegin == ASSUME VerifyInit PROVE AnchorInv
<1> DEFINE none == <<>>
<1>1. /\ policy \in Policies /\ builder = NewBuilder /\ anchors = none /\ anchor_log = none
  BY DEF VerifyInit, AuditInit
<1>2. /\ none \in Seq(Anchor) /\ none \in Seq(LogLine) /\ none \in SealHash /\ Len(none) = 0
  BY DEF SealHash
<1>3. NewBuilder \in Builder
  BY <1>2 DEF NewBuilder, Builder
<1>4. policy \in [interval : Nat, persisted : BOOLEAN]
  BY <1>1, AuditorAssumption
<1> HIDE DEF none
<1>5. AnchorTypes
  BY <1>1, <1>2, <1>3, <1>4, Zenon DEF AnchorTypes
<1>6. 1 .. Len(anchors) = {} /\ 1 .. Len(anchor_log) = {}
  BY <1>1, <1>2
<1> QED BY <1>1, <1>5, <1>6 DEF AnchorInv, AllChained, LinesChained, none

(* The invariant holds always ... *)
LEMMA AnchorsAlways ==
    ASSUME Buffered
    PROVE  VerifySpec => []AnchorInv
<1>1. VerifyInit => AnchorInv
  BY AnchorsBegin
<1>2. (DiskInv /\ MemoryInv) /\ AuditInv /\ AnchorInv /\ [VerifyNext]_allVars => AnchorInv'
  BY DiskStep, LogGoesOn, AnchorStep
<1> QED BY <1>1, <1>2, DiskBeside, AuditAlways, PTL DEF VerifySpec

(* ... and means that the anchors are bound. *)
LEMMA AnchorsMeanSeals == DiskInv /\ AnchorInv => SealsBind
<1>1. SUFFICES ASSUME DiskInv, AnchorInv PROVE SealsBind
  OBVIOUS
<1>2. anchors \in Seq(Anchor) /\ DOMAIN anchors = 1 .. Len(anchors) /\ Len(anchors) \in Nat
  BY <1>1 DEF AnchorInv, AnchorTypes
<1>3. ASSUME NEW i \in DOMAIN anchors, i > 1
      PROVE  /\ anchors[i - 1].seq < anchors[i].seq
             /\ anchors[i].seq = anchors[i - 1].seq + 1 =>
                   /\ verify_one(anchors[i], anchors[i - 1].anchor_hash)
                   /\ anchors[i].lo = anchors[i - 1].hi
  <2>1. i - 1 \in 1 .. Len(anchors) /\ i \in 1 .. Len(anchors) /\ i - 1 < i
    BY <1>2, <1>3
  <2>2. Chained(anchors[i - 1], anchors[i])
    BY <1>1, <2>1 DEF AnchorInv, AllChained
  <2> QED BY <2>2 DEF Chained
<1>4. ASSUME NEW i \in DOMAIN anchors, Intact, anchors[i].sound
      PROVE  verify_binding(FactsOf(OnDisk), <<anchors[i]>>)
  <2> DEFINE a == anchors[i]
             f == FactsOf(Stored)
  <2>1. OnDisk = Stored /\ Linked(Stored, genesis) /\ Len(f) = Len(Stored)
    BY <1>1, <1>4, DiskIsStored, DiskFacts, FactsAre DEF Intact
  <2>2. Binds(a, Stored)
    BY <1>1, <1>2 DEF AnchorInv, Sealed
  <2>3. a.hi <= Len(f) /\ a.chain_head = SubSeq(f, 1, a.hi)
    BY <1>4, <2>1, <2>2 DEF Binds
  <2> HIDE DEF a, f
  <2>4. DOMAIN <<a>> = {1} /\ <<a>>[1] = a
    OBVIOUS
  <2>5. verify_binding(f, <<a>>)
    BY <2>3, <2>4 DEF verify_binding
  <2> QED BY <2>1, <2>5 DEF a, f
<1> QED BY <1>3, <1>4 DEF SealsBind

(* Anchors stay bound: whatever lines of the anchor log are lost or torn    *)
(* and however often the process restarts from it, anchors go on from each  *)
(* other, and every anchor over a sound audit is the head of a prefix of    *)
(* the chain on disk.                                                       *)
THEOREM AnchorsAreBound == ASSUME Buffered PROVE VerifySpec => []SealsBind
BY DiskBeside, AnchorsAlways, AnchorsMeanSeals, PTL

-----------------------------------------------------------------------------
(* The verifiers. *)

(* The fact ids of the log, as long as the subscriber's are not among them. *)
LEMMA IdsIncrease ==
    ASSUME DiskInv, OneCounter(FactsOf(Stored))
    PROVE  verify_structural_invariants(FactsOf(Stored))
<1> DEFINE f == FactsOf(Stored)
           n == Len(Stored)
<1>1. /\ Stored \in Seq(Rec) /\ n \in 0 .. Len(AllRecs) /\ AllRecs \in Seq(Rec)
      /\ \A i \in 1 .. n : AllRecs[i] = Stored[i]
  BY DiskFacts
<1>2. f \in Seq(Fact) /\ Len(f) = n /\ \A i \in 1 .. n : f[i] = Stored[i].fact
  BY <1>1, FactsAre
<1>3. DOMAIN f = 1 .. n /\ n \in Nat /\ \A i \in 1 .. n : i \in 1 .. Len(AllRecs)
  BY <1>1, <1>2
<1> HIDE DEF f, n
<1>4. Sound(AllRecs, Len(Stored), next_id)
  BY DEF DiskInv
<1>5. \A i \in 1 .. n : f[i].kind \in Appended /\ f[i] \in Fact
  BY <1>1, <1>2, <1>3, <1>4 DEF Sound
<1>6. \A i \in 1 .. n : fact_id(f[i]) = f[i].id /\ f[i].id \in Nat
  <2>1. \A i \in 1 .. n : f[i].kind \notin {"IoResponse", "Fork"}
    BY <1>3 DEF OneCounter, f
  <2> QED BY <1>5, <2>1 DEF fact_id, Fact
<1>7. \A i, j \in 1 .. n : i < j => f[i].id < f[j].id
  BY <1>1, <1>2, <1>3, <1>4 DEF Sound
<1>8. \A i \in 1 .. n : i > 1 => fact_id(f[i]) > fact_id(f[i - 1])
  <2>1. SUFFICES ASSUME NEW i \in 1 .. n, i > 1 PROVE fact_id(f[i]) > fact_id(f[i - 1])
    OBVIOUS
  <2>2. i - 1 \in 1 .. n /\ i - 1 < i
    BY <1>3, <2>1
  <2>3. f[i - 1].id < f[i].id
    BY <1>7, <2>2
  <2> QED BY <1>6, <2>2, <2>3
<1> QED BY <1>3, <1>8 DEF verify_structural_invariants, f

(* verify-chain, the independent verifier and the auditor's load. *)
LEMMA LogVerifiersAgree ==
    ASSUME DiskInv, Readable(store.shards)
    PROVE  /\ verify_hash_chain_with_stored(OnDisk) = verify_wal_lines(OnDisk)
           /\ verify_hash_chain_with_stored(OnDisk) = (LoadStop(OnDisk) = Len(OnDisk))
           /\ OneCounter(FactsOf(OnDisk)) => verify_chain(OnDisk) = verify_wal_lines(OnDisk)
<1>1. OnDisk = Stored /\ Stored \in Seq(Rec)
  BY DiskIsStored, DiskFacts
<1>2. verify_hash_chain_with_stored(Stored) <=> Linked(Stored, genesis)
  BY <1>1, HashesMeanLinked
<1>6. OneCounter(FactsOf(Stored)) => (verify_chain(Stored) <=> verify_hash_chain_with_stored(Stored))
  BY IdsIncrease DEF verify_chain
<1>3. verify_wal_lines(Stored) <=> Linked(Stored, genesis)
  BY DEF verify_wal_lines, Linked
<1>4. LoadStop(Stored) = Len(Stored) <=> Linked(Stored, genesis)
  BY <1>1, LoadStopIs
<1>5. /\ verify_chain(Stored) \in BOOLEAN /\ verify_wal_lines(Stored) \in BOOLEAN
      /\ verify_hash_chain_with_stored(Stored) \in BOOLEAN
  BY DEF verify_chain, verify_wal_lines, verify_hash_chain_with_stored, verify_structural_invariants
<1> QED BY <1>1, <1>2, <1>3, <1>4, <1>5, <1>6

(* A list of entries, as records. *)
AsRecords(e) ==
    [i \in 1 .. Len(e) |-> [version_before |-> 0, fact |-> e[i].fact, prev_hash |-> e[i].prev_hash,
                            chain_hash |-> Append(e[i].prev_hash, e[i].fact)]]

(* verify_export and verify_deep. *)
LEMMA EntriesVerify ==
    ASSUME NEW e \in Seq(AuditEntry)
    PROVE  verify(e) <=> \A i \in DOMAIN e : e[i].prev_hash = Running(e, i - 1)
<1> DEFINE n == Len(e)
           r == AsRecords(e)
           f == FactsOf(e)
<1>1. n \in Nat /\ DOMAIN e = 1 .. n /\ \A i \in 1 .. n : e[i].fact \in Fact /\ e[i].prev_hash \in Seq(Fact)
  <2>1. n \in Nat /\ DOMAIN e = 1 .. n /\ \A i \in 1 .. n : e[i] \in AuditEntry
    OBVIOUS
  <2>2. \A x \in AuditEntry : x.fact \in Fact /\ x.prev_hash \in Seq(Fact)
    BY DEF AuditEntry
  <2> QED BY <2>1, <2>2
<1>2. \A i \in 1 .. n : /\ r[i].fact = e[i].fact /\ r[i].prev_hash = e[i].prev_hash
                        /\ r[i].chain_hash = Append(e[i].prev_hash, e[i].fact)
  BY DEF AsRecords
<1>3. r \in Seq(Rec) /\ Len(r) = n /\ DOMAIN r = 1 .. n
  <2>1. r \in [1 .. n -> Rec]
    <3>1. \A i \in 1 .. n : Append(e[i].prev_hash, e[i].fact) \in Seq(Fact) /\ 0 \in Nat
      BY <1>1
    <3> QED BY <1>1, <3>1 DEF AsRecords, Rec
  <2> HIDE DEF r
  <2> QED BY <1>1, <2>1
<1>4. FactsOf(r) = f
  BY <1>1, <1>2, <1>3 DEF FactsOf
<1> HIDE DEF r, f
<1>5. verify(e) <=> Linked(r, genesis)
  <2>1. \A i \in 1 .. n : i # 1 => i - 1 \in 1 .. n
    BY <1>1
  <2>2. verify(e) <=> \A i \in 1 .. n : e[i].prev_hash =
                         IF i = 1 THEN genesis ELSE Append(e[i - 1].prev_hash, e[i - 1].fact)
    BY <1>1 DEF verify, chain_step
  <2>3. Linked(r, genesis) <=>
           \A i \in 1 .. n : /\ r[i].prev_hash = IF i = 1 THEN genesis ELSE r[i - 1].chain_hash
                             /\ r[i].chain_hash = Append(r[i].prev_hash, r[i].fact)
    BY <1>3 DEF Linked, chain_step
  <2> DEFINE E(i) == e[i].prev_hash = IF i = 1 THEN genesis ELSE Append(e[i - 1].prev_hash, e[i - 1].fact)
             R(i) == r[i].prev_hash = IF i = 1 THEN genesis ELSE r[i - 1].chain_hash
             H(i) == r[i].chain_hash = Append(r[i].prev_hash, r[i].fact)
  <2>4. \A i \in 1 .. n : (E(i) <=> R(i)) /\ H(i)
    BY <1>2, <2>1
  <2>5. (verify(e) <=> \A i \in 1 .. n : E(i)) /\ (Linked(r, genesis) <=> \A i \in 1 .. n : R(i) /\ H(i))
    BY <2>2, <2>3
  <2> HIDE DEF E, R, H
  <2> QED BY <2>4, <2>5
<1>6. f \in Seq(Fact) /\ Len(f) = n /\ \A i \in 1 .. n : f[i] = r[i].fact
  BY <1>3, <1>4, FactsAre
<1>7. \A i \in 1 .. n : r[i].prev_hash = SubSeq(f, 1, i - 1) <=>
         r[i].prev_hash = SubSeq(f, 1, i - 1) /\ r[i].chain_hash = SubSeq(f, 1, i)
  <2>1. SUFFICES ASSUME NEW i \in 1 .. n, r[i].prev_hash = SubSeq(f, 1, i - 1)
                 PROVE  r[i].chain_hash = SubSeq(f, 1, i)
    OBVIOUS
  <2>2. SubSeq(f, 1, i) = Append(SubSeq(f, 1, i - 1), f[i])
    BY <1>6, UptoNext
  <2> QED BY <1>2, <1>6, <2>1, <2>2
<1>8. Linked(r, genesis) <=> \A i \in 1 .. n : r[i].prev_hash = SubSeq(f, 1, i - 1)
  <2>1. Linked(r, genesis) <=>
           \A i \in 1 .. n : r[i].prev_hash = SubSeq(f, 1, i - 1) /\ r[i].chain_hash = SubSeq(f, 1, i)
    BY <1>3, <1>4, LinkedHashes, HashesLinked
  <2> QED BY <1>7, <2>1
<1> QED BY <1>1, <1>2, <1>5, <1>8 DEF Running, f

(* verify_export accepts a document exactly when it is a chain with its hash. *)
LEMMA DocumentVerifiersAgree ==
    ASSUME AuditInv, NEW i \in DOMAIN exported
    PROVE  verify_export(exported[i]) =
              (/\ verify_deep(exported[i].entries, FactsOf(exported[i].entries))
               /\ exported[i].last_hash = FactsOf(exported[i].entries))
<1> DEFINE d == exported[i]
           e == d.entries
           f == FactsOf(e)
<1>1. d \in Document
  <2>1. exported = <<>> \/ (exported = <<exported[1]>> /\ exported[1] \in Document)
    BY DEF AuditInv, AuditTypes
  <2>2. CASE exported = <<>>
    BY <2>2
  <2>3. CASE exported = <<exported[1]>> /\ exported[1] \in Document
    <3>1. DOMAIN exported = {1}
      <4> DEFINE x == exported[1]
      <4>1. DOMAIN <<x>> = {1}
        OBVIOUS
      <4> QED BY <2>3, <4>1
    <3> QED BY <2>3, <3>1
  <2> QED BY <2>1, <2>2, <2>3
<1>2. e \in Seq(AuditEntry) /\ Len(e) \in Nat
  BY <1>1 DEF Document
<1> HIDE DEF d, e
<1>3. /\ f \in Seq(Fact) /\ Len(f) = Len(e)
  <2>1. DOMAIN e = 1 .. Len(e) /\ \A j \in 1 .. Len(e) : e[j] \in AuditEntry
    BY <1>2
  <2>2. f \in [1 .. Len(e) -> Fact]
    BY <2>1 DEF FactsOf, AuditEntry
  <2> HIDE DEF f
  <2> QED BY <1>2, <2>2
<1>4. Running(e, Len(e)) = f
  <2> HIDE DEF f
  <2>1. SubSeq(f, 1, Len(f)) = f
    BY <1>3
  <2> QED BY <1>3, <2>1 DEF Running, f
<1>5. verify(e) <=> \A j \in DOMAIN e : e[j].prev_hash = Running(e, j - 1)
  BY <1>2, EntriesVerify
<1>6. verify_deep(e, f) <=> verify(e)
  BY <1>3, Zenon DEF verify_deep
<1>7. verify_export(d) <=> (\A j \in DOMAIN e : e[j].prev_hash = Running(e, j - 1)) /\ f = d.last_hash
  BY <1>4, Zenon DEF verify_export, e
<1>8. verify_export(d) <=> verify_deep(e, f) /\ d.last_hash = f
  <2> HIDE DEF f
  <2> QED BY <1>5, <1>6, <1>7
<1>9. verify_export(d) \in BOOLEAN
  BY DEF verify_export
<1> HIDE DEF f
<1>10. verify_export(d) = (verify_deep(e, f) /\ d.last_hash = f)
  BY <1>8, <1>9
<1> QED BY <1>10 DEF d, e, f

(* The three verifiers of anchors: the hashes follow from the numbers. *)
LEMMA AnchorVerifiersAgree ==
    ASSUME AnchorInv, RangesGoForward
    PROVE  /\ verify_seal_chain(anchors) = verify_anchor_chain(anchors)
           /\ verify_value(anchors) = verify_anchor_chain(anchors)
<1>1. anchors \in Seq(Anchor) /\ DOMAIN anchors = 1 .. Len(anchors) /\ Len(anchors) \in Nat
  BY DEF AnchorInv, AnchorTypes
<1>2. verify_seal_chain(anchors) <=> verify_anchor_chain(anchors)
  BY DEF verify_seal_chain, verify_anchor_chain, verify_one, RangesGoForward
<1>3. ASSUME verify_value(anchors), NEW i \in DOMAIN anchors
      PROVE  verify_one(anchors[i], PrevHash(anchors, i))
  <2>1. anchors[i].seq = i - 1 /\ i \in 1 .. Len(anchors)
    BY <1>1, <1>3 DEF verify_value
  <2>2. CASE i = 1
    <3>1. Rooted(anchors[i])
      BY <2>1 DEF AnchorInv, Sealed
    <3>2. PrevHash(anchors, i) = <<>> /\ anchors[i].seq = 0
      BY <2>1, <2>2 DEF PrevHash
    <3> QED BY <3>1, <3>2 DEF Rooted
  <2>3. CASE i # 1
    <3>1. i - 1 \in 1 .. Len(anchors) /\ i - 1 < i /\ (i - 1) - 1 + 1 = i - 1
      BY <1>1, <2>1, <2>3
    <3>2. anchors[i - 1].seq = (i - 1) - 1
      BY <1>1, <1>3, <3>1 DEF verify_value
    <3>3. Chained(anchors[i - 1], anchors[i])
      BY <2>1, <3>1 DEF AnchorInv, AllChained
    <3>4. anchors[i].seq = anchors[i - 1].seq + 1
      BY <2>1, <3>1, <3>2
    <3>5. PrevHash(anchors, i) = anchors[i - 1].anchor_hash
      BY <2>3 DEF PrevHash
    <3> QED BY <3>3, <3>4, <3>5 DEF Chained
  <2> QED BY <2>2, <2>3
<1>4. verify_value(anchors) <=> verify_anchor_chain(anchors)
  BY <1>3 DEF verify_value, verify_anchor_chain
<1>5. /\ verify_seal_chain(anchors) \in BOOLEAN /\ verify_anchor_chain(anchors) \in BOOLEAN
      /\ verify_value(anchors) \in BOOLEAN
  BY DEF verify_seal_chain, verify_anchor_chain, verify_value
<1> QED BY <1>2, <1>4, <1>5

(* The verifiers agree: verify-chain, the independent verifier and the      *)
(* auditor's load accept the hashes of the same logs, however writes failed *)
(* on them, and verify-chain finds fault with the ids of none of them that  *)
(* has no I/O answer and no fork's anchor; verify_export and verify_deep    *)
(* accept the same documents; and the engine, the independent verifier and  *)
(* verify-anchors the same anchors, as long as their ranges go forward.     *)
THEOREM VerifiersAlwaysAgree ==
    ASSUME Buffered
    PROVE  VerifySpec => []VerifiersAgree
<1>1. DiskInv /\ AuditInv /\ AnchorInv => VerifiersAgree
  BY LogVerifiersAgree, DocumentVerifiersAgree, AnchorVerifiersAgree DEF VerifiersAgree
<1> QED BY <1>1, DiskBeside, AuditAlways, AnchorsAlways, PTL

(* And memory stays behind the disk while the auditor and the tools work    *)
(* beside the log, as long as lines are shorter than the writer's buffer.   *)
THEOREM WritesComeFirstBeside ==
    ASSUME Buffered
    PROVE  VerifySpec => [](WriteAhead /\ NothingIsSpoilt)
BY DiskBeside, DiskMeansAhead, DiskIsUnspoilt, PTL
=============================================================================
