---------------------------- MODULE DomainProofs ----------------------------
(***************************************************************************)
(* Proofs about the evaluation of domains, for every set of domains and    *)
(* every limit on their nesting: a verdict rests on data.                  *)
(***************************************************************************)
EXTENDS DomainGrowth, WellFoundedInduction, TLAPS

(* Induction over the natural numbers: a set of them has a least element.   *)
LEMMA LeastNatural ==
    ASSUME NEW T, T \subseteq Nat, T # {}
    PROVE  \E n \in T : \A m \in T : n <= m
<1>1. PICK n \in T : \A m \in T : <<m, n>> \notin OpToRel(<, Nat)
  BY NatLessThanWellFounded, WFMin, Zenon
<1>2. \A m \in T : ~(m < n)
  BY <1>1, Zenon DEF OpToRel
<1>3. QED
  BY <1>2

-----------------------------------------------------------------------------
(* The step of the recursion over a domain, and a function that takes it    *)
(* everywhere.                                                              *)
Step(F, s, k, d) ==
    IF k > MaxDomainDepth THEN "Err" ELSE
    CASE d.type = "eq"            -> evaluate_eq(d, s)
      [] d.type = "lt"            -> evaluate_lt(d, s)
      [] d.type = "in"            -> evaluate_in(d, s)
      [] d.type = "exists"        -> evaluate_exists(d, s)
      [] d.type = "instruction"   -> evaluate_instruction_eq(d, s)
      [] d.type = "has_fields"    -> evaluate_has_fields(d, s)
      [] d.type = "not"           -> Negation(F[<<k + 1, d.inner>>])
      [] d.type = "all"           ->
            Conjunction([i \in DOMAIN d.inner |-> F[<<k + 1, d.inner[i]>>]])
      [] OTHER                    -> "Err"

Evaluates(F, s) == F = [p \in Nat \X Domains |-> Step(F, s, p[1], p[2])]

LEMMA InnerIsChosen ==
    ASSUME NEW s
    PROVE  evaluate_domain_outcome_inner(s) = CHOOSE F : Evaluates(F, s)
BY Zenon DEF evaluate_domain_outcome_inner, Evaluates, Step

(* What is asked of the levels below. *)
LEMMA StepLooksBelow ==
    ASSUME NEW s, NEW F, NEW H, NEW k \in Nat, NEW d \in Domains,
           \A e \in Domains : F[<<k + 1, e>>] = H[<<k + 1, e>>]
    PROVE  Step(F, s, k, d) = Step(H, s, k, d)
<1>1. CASE d.type = "not"
  <2>1. d.inner \in Domains
    BY <1>1, DomainAssumption
  <2> QED BY <2>1 DEF Step
<1>2. CASE d.type = "all"
  <2>1. \A i \in DOMAIN d.inner : d.inner[i] \in Domains
    BY <1>2, DomainAssumption
  <2>2. [i \in DOMAIN d.inner |-> F[<<k + 1, d.inner[i]>>]]
        = [i \in DOMAIN d.inner |-> H[<<k + 1, d.inner[i]>>]]
    BY <2>1
  <2> QED BY <1>2, <2>2 DEF Step
<1>3. CASE d.type \notin {"not", "all"}
  BY <1>3 DEF Step
<1> QED BY <1>1, <1>2, <1>3

(* A function that takes the step at the m deepest levels. *)
TakesDeepest(F, s, m) ==
    /\ F = [p \in Nat \X Domains |-> F[p]]
    /\ \A k \in Nat, d \in Domains :
         k + m > MaxDomainDepth => F[<<k, d>>] = Step(F, s, k, d)

LEMMA DeepestExists ==
    ASSUME NEW s
    PROVE  \A m \in Nat : \E F : TakesDeepest(F, s, m)
<1> DEFINE Bad == {m \in Nat : ~ \E F : TakesDeepest(F, s, m)}
<1> SUFFICES ASSUME Bad # {} PROVE FALSE
  OBVIOUS
<1>1. PICK m \in Bad : \A j \in Bad : m <= j
  <2>1. Bad \subseteq Nat
    OBVIOUS
  <2> QED BY <2>1, LeastNatural
<1>2. m \in Nat /\ MaxDomainDepth \in Nat
  BY <1>1, DomainAssumption
<1>3. m # 0
  <2> SUFFICES ASSUME m = 0 PROVE FALSE
    OBVIOUS
  <2> DEFINE F == [p \in Nat \X Domains |-> "Err"]
  <2>1. \A k \in Nat, d \in Domains : F[<<k, d>>] = "Err"
    OBVIOUS
  <2>2. \A k \in Nat, d \in Domains : k > MaxDomainDepth => Step(F, s, k, d) = "Err"
    BY DEF Step
  <2>3. F = [p \in Nat \X Domains |-> F[p]]
    OBVIOUS
  <2> HIDE DEF F
  <2>4. \A k \in Nat : k + 0 > MaxDomainDepth => k > MaxDomainDepth
    BY <1>2
  <2>5. TakesDeepest(F, s, 0)
    BY <2>1, <2>2, <2>3, <2>4, Zenon DEF TakesDeepest
  <2> QED BY <1>1, <2>5
<1>4. m - 1 \in Nat /\ m - 1 \notin Bad
  BY <1>1, <1>2, <1>3
<1>5. PICK H : TakesDeepest(H, s, m - 1)
  BY <1>4
<1> DEFINE F == [p \in Nat \X Domains |->
                   IF p[1] + (m - 1) > MaxDomainDepth THEN H[p] ELSE Step(H, s, p[1], p[2])]
<1>6. \A k \in Nat, d \in Domains :
         /\ k + (m - 1) > MaxDomainDepth => F[<<k, d>>] = H[<<k, d>>]
         /\ ~(k + (m - 1) > MaxDomainDepth) => F[<<k, d>>] = Step(H, s, k, d)
  OBVIOUS
<1>7. F = [p \in Nat \X Domains |-> F[p]]
  OBVIOUS
<1> HIDE DEF F
<1>8. ASSUME NEW k \in Nat, NEW d \in Domains, k + m > MaxDomainDepth
      PROVE  F[<<k, d>>] = Step(F, s, k, d)
  <2>1. \A e \in Domains : H[<<k + 1, e>>] = F[<<k + 1, e>>]
    <3>1. k + 1 \in Nat /\ (k + 1) + (m - 1) > MaxDomainDepth
      BY <1>2, <1>8
    <3> QED BY <1>6, <3>1
  <2>2. Step(H, s, k, d) = Step(F, s, k, d)
    BY <2>1, StepLooksBelow
  <2>3. CASE k + (m - 1) > MaxDomainDepth
    <3>1. F[<<k, d>>] = H[<<k, d>>]
      BY <1>6, <2>3
    <3>2. H[<<k, d>>] = Step(H, s, k, d)
      BY <1>5, <2>3 DEF TakesDeepest
    <3> QED BY <2>2, <3>1, <3>2
  <2>4. CASE ~(k + (m - 1) > MaxDomainDepth)
    BY <1>6, <2>2, <2>4
  <2> QED BY <2>3, <2>4
<1>9. TakesDeepest(F, s, m)
  BY <1>7, <1>8 DEF TakesDeepest
<1> QED BY <1>1, <1>9

(* The evaluation takes the step everywhere. *)
LEMMA InnerTakesStep ==
    ASSUME NEW s
    PROVE  \A k \in Nat, d \in Domains :
              evaluate_domain_outcome_inner(s)[<<k, d>>]
              = Step(evaluate_domain_outcome_inner(s), s, k, d)
<1>1. \E F : Evaluates(F, s)
  <2>1. MaxDomainDepth + 1 \in Nat /\ \A k \in Nat : k + (MaxDomainDepth + 1) > MaxDomainDepth
    BY DomainAssumption
  <2>2. PICK F : TakesDeepest(F, s, MaxDomainDepth + 1)
    BY <2>1, DeepestExists
  <2>3. \A k \in Nat, d \in Domains : F[<<k, d>>] = Step(F, s, k, d)
    BY <2>1, <2>2 DEF TakesDeepest
  <2>4. \A p \in Nat \X Domains : p[1] \in Nat /\ p[2] \in Domains /\ p = <<p[1], p[2]>>
    OBVIOUS
  <2>5. \A p \in Nat \X Domains : F[p] = Step(F, s, p[1], p[2])
    BY <2>3, <2>4, Zenon
  <2>6. F = [p \in Nat \X Domains |-> F[p]]
    BY <2>2 DEF TakesDeepest
  <2>7. F = [p \in Nat \X Domains |-> Step(F, s, p[1], p[2])]
    BY <2>5, <2>6, Zenon
  <2> QED BY <2>7 DEF Evaluates
<1> DEFINE E == evaluate_domain_outcome_inner(s)
<1>2. Evaluates(E, s)
  <2> HIDE DEF Evaluates
  <2> QED BY <1>1, InnerIsChosen, Zenon
<1> HIDE DEF E
<1>3. E = [p \in Nat \X Domains |-> Step(E, s, p[1], p[2])]
  BY <1>2 DEF Evaluates
<1>4. ASSUME NEW k \in Nat, NEW d \in Domains PROVE E[<<k, d>>] = Step(E, s, k, d)
  <2>1. <<k, d>> \in Nat \X Domains /\ <<k, d>>[1] = k /\ <<k, d>>[2] = d
    OBVIOUS
  <2> DEFINE p == <<k, d>>
  <2>2. E[p] = Step(E, s, p[1], p[2])
    BY <1>3, <2>1, Zenon
  <2> QED BY <2>1, <2>2
<1> QED BY <1>4 DEF E

(* The same for the question whether a domain asks for presence. *)
Asks(A, k, e) ==
    /\ k <= MaxDomainDepth
    /\ \/ e.type \in {"exists", "has_fields"}
       \/ e.type = "not" /\ A[<<k + 1, e.inner>>]
       \/ e.type = "all" /\ \E i \in DOMAIN e.inner : A[<<k + 1, e.inner[i]>>]

Asked(A) == A = [p \in Nat \X Domains |-> Asks(A, p[1], p[2])]

LEMMA PresenceIsChosen ==
    ASSUME NEW d
    PROVE  AsksPresence(d) = (CHOOSE A : Asked(A))[<<0, d>>]
BY Zenon DEF AsksPresence, Asked, Asks

LEMMA AsksLooksBelow ==
    ASSUME NEW A, NEW B, NEW k \in Nat, NEW d \in Domains,
           \A e \in Domains : A[<<k + 1, e>>] = B[<<k + 1, e>>]
    PROVE  Asks(A, k, d) = Asks(B, k, d)
<1>1. d.type = "not" => A[<<k + 1, d.inner>>] = B[<<k + 1, d.inner>>]
  BY DomainAssumption
<1>2. d.type = "all" => \A i \in DOMAIN d.inner : A[<<k + 1, d.inner[i]>>] = B[<<k + 1, d.inner[i]>>]
  BY DomainAssumption
<1>3. Asks(A, k, d) <=> Asks(B, k, d)
  BY <1>1, <1>2, Zenon DEF Asks
<1>4. Asks(A, k, d) \in BOOLEAN /\ Asks(B, k, d) \in BOOLEAN
  BY Zenon DEF Asks
<1> HIDE DEF Asks
<1> QED BY <1>3, <1>4

AskedDeepest(A, m) ==
    /\ A = [p \in Nat \X Domains |-> A[p]]
    /\ \A k \in Nat, d \in Domains :
         k + m > MaxDomainDepth => A[<<k, d>>] = Asks(A, k, d)

LEMMA AskedDeepestExists ==
    \A m \in Nat : \E A : AskedDeepest(A, m)
<1> DEFINE Bad == {m \in Nat : ~ \E A : AskedDeepest(A, m)}
<1> SUFFICES ASSUME Bad # {} PROVE FALSE
  OBVIOUS
<1>1. PICK m \in Bad : \A j \in Bad : m <= j
  <2>1. Bad \subseteq Nat
    OBVIOUS
  <2> QED BY <2>1, LeastNatural
<1>2. m \in Nat /\ MaxDomainDepth \in Nat
  BY <1>1, DomainAssumption
<1>3. m # 0
  <2> SUFFICES ASSUME m = 0 PROVE FALSE
    OBVIOUS
  <2> DEFINE A == [p \in Nat \X Domains |-> FALSE]
  <2>1. \A k \in Nat, d \in Domains : A[<<k, d>>] = FALSE
    OBVIOUS
  <2>2. \A k \in Nat : k + 0 > MaxDomainDepth => ~(k <= MaxDomainDepth)
    BY <1>2
  <2>3. A = [p \in Nat \X Domains |-> A[p]]
    OBVIOUS
  <2> HIDE DEF A
  <2>4. \A k \in Nat, d \in Domains : k + 0 > MaxDomainDepth => Asks(A, k, d) = FALSE
    BY <2>2, Zenon DEF Asks
  <2>5. AskedDeepest(A, 0)
    BY <2>1, <2>3, <2>4, Zenon DEF AskedDeepest
  <2> QED BY <1>1, <2>5
<1>4. m - 1 \in Nat /\ m - 1 \notin Bad
  BY <1>1, <1>2, <1>3
<1>5. PICK B : AskedDeepest(B, m - 1)
  BY <1>4
<1> DEFINE A == [p \in Nat \X Domains |->
                   IF p[1] + (m - 1) > MaxDomainDepth THEN B[p] ELSE Asks(B, p[1], p[2])]
<1>6. \A k \in Nat, d \in Domains :
         /\ k + (m - 1) > MaxDomainDepth => A[<<k, d>>] = B[<<k, d>>]
         /\ ~(k + (m - 1) > MaxDomainDepth) => A[<<k, d>>] = Asks(B, k, d)
  <2>1. ASSUME NEW k \in Nat, NEW d \in Domains
        PROVE  A[<<k, d>>] = IF k + (m - 1) > MaxDomainDepth THEN B[<<k, d>>] ELSE Asks(B, k, d)
    <3>1. <<k, d>> \in Nat \X Domains /\ <<k, d>>[1] = k /\ <<k, d>>[2] = d
      OBVIOUS
    <3> DEFINE p == <<k, d>>
    <3>2. A[p] = IF p[1] + (m - 1) > MaxDomainDepth THEN B[p] ELSE Asks(B, p[1], p[2])
      BY <3>1, Zenon
    <3> QED BY <3>1, <3>2, Zenon
  <2> HIDE DEF A
  <2> QED BY <2>1, Zenon
<1>7. A = [p \in Nat \X Domains |-> A[p]]
  BY Zenon
<1> HIDE DEF A
<1>8. ASSUME NEW k \in Nat, NEW d \in Domains, k + m > MaxDomainDepth
      PROVE  A[<<k, d>>] = Asks(A, k, d)
  <2>1. \A e \in Domains : B[<<k + 1, e>>] = A[<<k + 1, e>>]
    <3>1. k + 1 \in Nat /\ (k + 1) + (m - 1) > MaxDomainDepth
      BY <1>2, <1>8
    <3> QED BY <1>6, <3>1, Zenon
  <2>2. Asks(B, k, d) = Asks(A, k, d)
    BY <2>1, AsksLooksBelow
  <2>3. CASE k + (m - 1) > MaxDomainDepth
    <3>1. A[<<k, d>>] = B[<<k, d>>]
      BY <1>6, <2>3, Zenon
    <3>2. B[<<k, d>>] = Asks(B, k, d)
      BY <1>5, <2>3, Zenon DEF AskedDeepest
    <3> QED BY <2>2, <3>1, <3>2, Zenon
  <2>4. CASE ~(k + (m - 1) > MaxDomainDepth)
    BY <1>6, <2>2, <2>4, Zenon
  <2> QED BY <2>3, <2>4
<1>9. AskedDeepest(A, m)
  BY <1>7, <1>8, Zenon DEF AskedDeepest
<1> QED BY <1>1, <1>9

LEMMA PresenceIsAsked ==
    \E A : /\ \A d : AsksPresence(d) = A[<<0, d>>]
           /\ \A k \in Nat, d \in Domains : A[<<k, d>>] = Asks(A, k, d)
<1>1. \E A : Asked(A)
  <2>1. MaxDomainDepth + 1 \in Nat /\ \A k \in Nat : k + (MaxDomainDepth + 1) > MaxDomainDepth
    BY DomainAssumption
  <2>2. PICK A : AskedDeepest(A, MaxDomainDepth + 1)
    BY <2>1, AskedDeepestExists
  <2>3. \A k \in Nat, d \in Domains : A[<<k, d>>] = Asks(A, k, d)
    BY <2>1, <2>2, Zenon DEF AskedDeepest
  <2>4. \A p \in Nat \X Domains : p[1] \in Nat /\ p[2] \in Domains /\ p = <<p[1], p[2]>>
    OBVIOUS
  <2>5. \A p \in Nat \X Domains : A[p] = Asks(A, p[1], p[2])
    BY <2>3, <2>4, Zenon
  <2>6. A = [p \in Nat \X Domains |-> A[p]]
    BY <2>2 DEF AskedDeepest
  <2>7. A = [p \in Nat \X Domains |-> Asks(A, p[1], p[2])]
    BY <2>5, <2>6, Zenon
  <2> QED BY <2>7, Zenon DEF Asked
<1> DEFINE A == CHOOSE B : Asked(B)
<1>2. Asked(A)
  <2> HIDE DEF Asked
  <2> QED BY <1>1, Zenon
<1>3. \A d : AsksPresence(d) = A[<<0, d>>]
  BY PresenceIsChosen, Zenon
<1> HIDE DEF A
<1>4. A = [p \in Nat \X Domains |-> Asks(A, p[1], p[2])]
  BY <1>2, Zenon DEF Asked
<1>5. ASSUME NEW k \in Nat, NEW d \in Domains PROVE A[<<k, d>>] = Asks(A, k, d)
  <2>1. <<k, d>> \in Nat \X Domains /\ <<k, d>>[1] = k /\ <<k, d>>[2] = d
    OBVIOUS
  <2> DEFINE p == <<k, d>>
  <2>2. A[p] = Asks(A, p[1], p[2])
    BY <1>4, <2>1, Zenon
  <2> QED BY <2>1, <2>2, Zenon
<1> QED BY <1>3, <1>5, Zenon
-----------------------------------------------------------------------------
(* One state has the fields of the other, with their values. *)
Extended(s, t) ==
    /\ t.type = s.type
    /\ DOMAIN s.payload \subseteq DOMAIN t.payload
    /\ \A f \in DOMAIN s.payload : t.payload[f] = s.payload[f]

Decided == {"Sat", "Unsat"}

LEMMA MissingDecidesNothing ==
    ASSUME NEW d
    PROVE  dispatch_missing(d) \notin Decided
BY DEF dispatch_missing, Decided

(* A comparison that is decided found its fields. *)
LEMMA OperandsStay ==
    ASSUME NEW s, NEW t, Extended(s, t), NEW v, ~Unresolved(v, s)
    PROVE  ~Unresolved(v, t) /\ Resolved(v, t) = Resolved(v, s)
BY DEF Extended, Unresolved, Resolved

LEMMA ComparisonsStay ==
    ASSUME NEW s, NEW t, Extended(s, t), NEW d
    PROVE  /\ evaluate_eq(d, s) \in Decided => evaluate_eq(d, t) = evaluate_eq(d, s)
           /\ evaluate_lt(d, s) \in Decided => evaluate_lt(d, t) = evaluate_lt(d, s)
           /\ evaluate_in(d, s) \in Decided => evaluate_in(d, t) = evaluate_in(d, s)
           /\ evaluate_instruction_eq(d, t) = evaluate_instruction_eq(d, s)
<1>1. ASSUME evaluate_eq(d, s) \in Decided PROVE evaluate_eq(d, t) = evaluate_eq(d, s)
  <2>1. ~Unresolved(d.value, s) /\ d.path \in DOMAIN s.payload
    BY <1>1, MissingDecidesNothing DEF evaluate_eq
  <2>2. /\ ~Unresolved(d.value, t) /\ Resolved(d.value, t) = Resolved(d.value, s)
        /\ d.path \in DOMAIN t.payload /\ t.payload[d.path] = s.payload[d.path]
    BY <2>1, OperandsStay DEF Extended
  <2> QED BY <2>1, <2>2 DEF evaluate_eq
<1>2. ASSUME evaluate_lt(d, s) \in Decided PROVE evaluate_lt(d, t) = evaluate_lt(d, s)
  <2>1. /\ ~Unresolved(d.value, s) /\ d.path \in DOMAIN s.payload
        /\ {s.payload[d.path], Resolved(d.value, s)} \subseteq Integer
    BY <1>2, MissingDecidesNothing DEF evaluate_lt
  <2>2. /\ ~Unresolved(d.value, t) /\ Resolved(d.value, t) = Resolved(d.value, s)
        /\ d.path \in DOMAIN t.payload /\ t.payload[d.path] = s.payload[d.path]
    BY <2>1, OperandsStay DEF Extended
  <2> QED BY <2>1, <2>2 DEF evaluate_lt
<1>3. ASSUME evaluate_in(d, s) \in Decided PROVE evaluate_in(d, t) = evaluate_in(d, s)
  <2>1. /\ ~ \E i \in DOMAIN d.values : d.values[i].from = "dotted"
        /\ d.path \in DOMAIN s.payload
    BY <1>3, MissingDecidesNothing DEF evaluate_in
  <2>2. d.path \in DOMAIN t.payload /\ t.payload[d.path] = s.payload[d.path]
    BY <2>1 DEF Extended
  <2> QED BY <2>1, <2>2 DEF evaluate_in
<1>4. evaluate_instruction_eq(d, t) = evaluate_instruction_eq(d, s)
  BY DEF evaluate_instruction_eq, Extended
<1> QED BY <1>1, <1>2, <1>3, <1>4

LEMMA NegationStays ==
    ASSUME NEW a, NEW b, a \in Decided => b = a, Negation(a) \in Decided
    PROVE  Negation(b) = Negation(a)
BY DEF Negation, Decided

(* The conjunction of a list is decided by its first outcome that is not    *)
(* Sat.                                                                     *)
LEMMA ConjunctionIs ==
    ASSUME NEW n \in Nat, NEW o, DOMAIN o = 1 .. n
    PROVE  /\ (\A i \in 1 .. n : o[i] = "Sat") => Conjunction(o) = "Sat"
           /\ \A i \in 1 .. n :
                o[i] # "Sat" /\ (\A j \in 1 .. i - 1 : o[j] = "Sat") => Conjunction(o) = o[i]
<1>1. ASSUME \A i \in 1 .. n : o[i] = "Sat" PROVE Conjunction(o) = "Sat"
  BY <1>1 DEF Conjunction
<1>2. ASSUME NEW i \in 1 .. n, o[i] # "Sat", \A j \in 1 .. i - 1 : o[j] = "Sat"
      PROVE  Conjunction(o) = o[i]
  <2> DEFINE open == {j \in DOMAIN o : o[j] # "Sat"}
             first == CHOOSE j \in open : \A h \in open : j <= h
  <2>1. i \in open /\ \A h \in open : i <= h
    BY <1>2
  <2>2. \A j \in open : j \in 1 .. n
    OBVIOUS
  <2>3. Conjunction(o) = o[first]
    BY <2>1 DEF Conjunction
  <2> HIDE DEF open
  <2>4. first \in open /\ \A h \in open : first <= h
    BY <2>1
  <2> HIDE DEF first
  <2>5. first = i
    BY <2>1, <2>2, <2>4
  <2> QED BY <2>3, <2>5
<1> QED BY <1>1, <1>2

LEMMA ConjunctionStays ==
    ASSUME NEW n \in Nat, NEW o, NEW q, DOMAIN o = 1 .. n, DOMAIN q = 1 .. n,
           \A i \in 1 .. n : o[i] \in Decided => q[i] = o[i],
           Conjunction(o) \in Decided
    PROVE  Conjunction(q) = Conjunction(o)
<1>1. CASE \A i \in 1 .. n : o[i] = "Sat"
  <2>1. \A i \in 1 .. n : q[i] = "Sat"
    BY <1>1 DEF Decided
  <2> QED BY <1>1, <2>1, ConjunctionIs
<1>2. CASE \E i \in 1 .. n : o[i] # "Sat"
  <2> DEFINE Open == {i \in 1 .. n : o[i] # "Sat"}
  <2>1. PICK i \in Open : \A j \in Open : i <= j
    <3>1. Open \subseteq Nat /\ Open # {}
      BY <1>2
    <3> QED BY <3>1, LeastNatural
  <2>2. i \in 1 .. n /\ o[i] # "Sat" /\ \A j \in 1 .. i - 1 : o[j] = "Sat"
    BY <2>1
  <2>3. Conjunction(o) = o[i]
    BY <2>2, ConjunctionIs
  <2>4. o[i] \in Decided /\ q[i] = o[i]
    BY <2>2, <2>3
  <2>5. \A j \in 1 .. i - 1 : q[j] = "Sat"
    BY <2>2 DEF Decided
  <2>6. Conjunction(q) = q[i]
    BY <2>2, <2>4, <2>5, ConjunctionIs
  <2> QED BY <2>3, <2>4, <2>6
<1> QED BY <1>1, <1>2

(* By induction over the levels, from the deepest up: what is decided       *)
(* without asking for presence stays decided the same way.                  *)
LEMMA VerdictsStay ==
    ASSUME NEW s, NEW t, Extended(s, t),
           NEW E, \A k \in Nat, d \in Domains : E[<<k, d>>] = Step(E, s, k, d),
           NEW H, \A k \in Nat, d \in Domains : H[<<k, d>>] = Step(H, t, k, d),
           NEW A, \A k \in Nat, d \in Domains : A[<<k, d>>] = Asks(A, k, d)
    PROVE  \A k \in Nat, d \in Domains :
              E[<<k, d>>] \in Decided /\ ~A[<<k, d>>] => H[<<k, d>>] = E[<<k, d>>]
<1> DEFINE Stays(k, d) == E[<<k, d>>] \in Decided /\ ~A[<<k, d>>] => H[<<k, d>>] = E[<<k, d>>]
           Bad == {m \in Nat : \E k \in Nat, d \in Domains : k + m > MaxDomainDepth /\ ~Stays(k, d)}
<1>0. MaxDomainDepth \in Nat
  BY DomainAssumption
<1>1. SUFFICES ASSUME Bad # {} PROVE FALSE
  <2>1. MaxDomainDepth + 1 \in Nat /\ \A k \in Nat : k + (MaxDomainDepth + 1) > MaxDomainDepth
    BY <1>0
  <2> HIDE DEF Stays
  <2>2. \A k \in Nat, d \in Domains : Stays(k, d)
    BY <1>1, <2>1
  <2> QED BY <2>2 DEF Stays
<1>2. PICK m \in Bad : \A j \in Bad : m <= j
  <2>1. Bad \subseteq Nat
    OBVIOUS
  <2> HIDE DEF Bad
  <2> QED BY <1>1, <2>1, LeastNatural
<1>3. PICK k \in Nat, d \in Domains : k + m > MaxDomainDepth /\ ~Stays(k, d)
  BY <1>2
<1>4. m \in Nat
  BY <1>2
<1>5. E[<<k, d>>] \in Decided /\ ~A[<<k, d>>] /\ H[<<k, d>>] # E[<<k, d>>]
  BY <1>3
<1>6. E[<<k, d>>] = Step(E, s, k, d) /\ H[<<k, d>>] = Step(H, t, k, d)
  OBVIOUS
<1>7. k <= MaxDomainDepth /\ ~(k > MaxDomainDepth)
  <2>1. k > MaxDomainDepth => Step(E, s, k, d) = "Err"
    BY DEF Step
  <2>2. ~(k > MaxDomainDepth)
    BY <1>5, <1>6, <2>1 DEF Decided
  <2> QED BY <1>0, <2>2
<1>8. ASSUME NEW e \in Domains PROVE Stays(k + 1, e)
  <2>1. m - 1 \in Nat /\ k + 1 \in Nat /\ (k + 1) + (m - 1) > MaxDomainDepth /\ ~(m <= m - 1)
    BY <1>0, <1>3, <1>4, <1>7
  <2>2. m - 1 \notin Bad
    BY <1>2, <2>1
  <2> HIDE DEF Stays
  <2> QED BY <2>1, <2>2
<1>9. ~Asks(A, k, d)
  BY <1>5, Zenon
<1>10. d.type \notin {"exists", "has_fields"}
  BY <1>7, <1>9, Zenon DEF Asks
<1> USE DEF Step
<1>11. CASE d.type = "eq"
  BY <1>5, <1>6, <1>7, <1>11, ComparisonsStay
<1>12. CASE d.type = "lt"
  BY <1>5, <1>6, <1>7, <1>12, ComparisonsStay
<1>13. CASE d.type = "in"
  BY <1>5, <1>6, <1>7, <1>13, ComparisonsStay
<1>14. CASE d.type = "instruction"
  BY <1>5, <1>6, <1>7, <1>14, ComparisonsStay
<1>15. CASE d.type = "not"
  <2>1. d.inner \in Domains
    BY <1>15, DomainAssumption
  <2>2. ~A[<<k + 1, d.inner>>]
    BY <1>7, <1>9, <1>15, Zenon DEF Asks
  <2>3. E[<<k + 1, d.inner>>] \in Decided => H[<<k + 1, d.inner>>] = E[<<k + 1, d.inner>>]
    BY <1>8, <2>1, <2>2
  <2>4. /\ E[<<k, d>>] = Negation(E[<<k + 1, d.inner>>])
        /\ H[<<k, d>>] = Negation(H[<<k + 1, d.inner>>])
    BY <1>6, <1>7, <1>15
  <2> QED BY <1>5, <2>3, <2>4, NegationStays
<1>16. CASE d.type = "all"
  <2> DEFINE n == Len(d.inner)
             o == [i \in DOMAIN d.inner |-> E[<<k + 1, d.inner[i]>>]]
             q == [i \in DOMAIN d.inner |-> H[<<k + 1, d.inner[i]>>]]
  <2>1. /\ n \in Nat /\ DOMAIN d.inner = 1 .. n
        /\ \A i \in 1 .. n : d.inner[i] \in Domains
    BY <1>16, DomainAssumption
  <2>2. \A i \in DOMAIN d.inner : ~A[<<k + 1, d.inner[i]>>]
    BY <1>7, <1>9, <1>16, Zenon DEF Asks
  <2>3. \A i \in 1 .. n : o[i] \in Decided => q[i] = o[i]
    BY <1>8, <2>1, <2>2
  <2>4. DOMAIN o = 1 .. n /\ DOMAIN q = 1 .. n
    BY <2>1
  <2>5. E[<<k, d>>] = Conjunction(o) /\ H[<<k, d>>] = Conjunction(q)
    BY <1>6, <1>7, <1>16
  <2> HIDE DEF n, o, q
  <2> QED BY <1>5, <2>1, <2>3, <2>4, <2>5, ConjunctionStays
<1>17. CASE d.type \notin {"eq", "lt", "in", "instruction", "not", "all"}
  <2>1. E[<<k, d>>] = "Err"
    BY <1>6, <1>7, <1>10, <1>17
  <2> QED BY <1>5, <2>1 DEF Decided
<1> QED BY <1>11, <1>12, <1>13, <1>14, <1>15, <1>16, <1>17

(* A verdict of evaluate_domain_outcome does not rest on what is missing:   *)
(* whatever the domains, their nesting and the limit on it, a condition of  *)
(* comparisons that is decided stays decided the same way when the payload  *)
(* is given more fields.                                                    *)
THEOREM VerdictsAreAboutData == Spec => VerdictsRestOnData
<1> DEFINE Shape == domain \in Domains /\ state = [type |-> state.type, payload |-> state.payload]
<1>1. Init => Shape
  BY DEF Init
<1>2. ASSUME Shape, Grow PROVE Shape' /\ Extended(state, state') /\ domain' = domain
  <2>1. PICK f \in Field \ DOMAIN state.payload, v \in Value :
           state' = [state EXCEPT !.payload =
                       [g \in DOMAIN state.payload \cup {f} |-> IF g = f THEN v ELSE state.payload[g]]]
    BY <1>2 DEF Grow
  <2>2. state' = [type |-> state.type,
                  payload |-> [g \in DOMAIN state.payload \cup {f} |->
                                 IF g = f THEN v ELSE state.payload[g]]]
    BY <1>2, <2>1
  <2>3. Extended(state, state')
    BY <2>1, <2>2 DEF Extended
  <2>4. domain' = domain
    BY <1>2 DEF Grow
  <2> QED BY <1>2, <2>2, <2>3, <2>4
<1>3. ASSUME Shape, Grow
      PROVE  LET o == evaluate_domain_outcome(domain, state)
             IN  o \in {"Sat", "Unsat"} /\ ~AsksPresence(domain)
                 => evaluate_domain_outcome(domain, state') = o
  <2> DEFINE E == evaluate_domain_outcome_inner(state)
             H == evaluate_domain_outcome_inner(state')
  <2>1. PICK A : /\ \A d : AsksPresence(d) = A[<<0, d>>]
                 /\ \A k \in Nat, d \in Domains : A[<<k, d>>] = Asks(A, k, d)
    BY PresenceIsAsked, Zenon
  <2>2. /\ \A k \in Nat, d \in Domains : E[<<k, d>>] = Step(E, state, k, d)
        /\ \A k \in Nat, d \in Domains : H[<<k, d>>] = Step(H, state', k, d)
    BY InnerTakesStep
  <2>3. /\ evaluate_domain_outcome(domain, state) = E[<<0, domain>>]
        /\ evaluate_domain_outcome(domain, state') = H[<<0, domain>>]
    BY DEF evaluate_domain_outcome
  <2>4. Extended(state, state') /\ domain \in Domains
    BY <1>2, <1>3
  <2> HIDE DEF E, H
  <2>5. \A k \in Nat, d \in Domains :
           E[<<k, d>>] \in Decided /\ ~A[<<k, d>>] => H[<<k, d>>] = E[<<k, d>>]
    BY <2>1, <2>2, <2>4, VerdictsStay
  <2>6. E[<<0, domain>>] \in Decided /\ ~A[<<0, domain>>] => H[<<0, domain>>] = E[<<0, domain>>]
    BY <2>4, <2>5
  <2> QED BY <2>1, <2>3, <2>6, Zenon DEF Decided
<1>4. Shape /\ [Grow]_(vars) => Shape'
  BY <1>2 DEF vars
<1> QED BY <1>1, <1>3, <1>4, PTL DEF Spec, VerdictsRestOnData
=============================================================================
