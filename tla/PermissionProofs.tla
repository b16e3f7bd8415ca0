-------------------------- MODULE PermissionProofs --------------------------
(***************************************************************************)
(* Proofs about the ledger of shared facts and the permission gate over    *)
(* it, for every set of callers, facts, entries, routes and budgets.       *)
(***************************************************************************)
EXTENDS Permission, SequenceTheorems, WellFoundedInduction, TLAPS

(* Induction over the natural numbers: a set of them has a least element.   *)
LEMMA LeastNatural ==
    ASSUME NEW T, T \subseteq Nat, T # {}
    PROVE  \E n \in T : \A m \in T : n <= m
<1>1. PICK n \in T : \A m \in T : <<m, n>> \notin OpToRel(<, Nat)
  BY NatLessThanWellFounded, WFMin, Zenon
<1>2. \A m \in T : ~(m < n)
  BY <1>1, Zenon DEF OpToRel
<1>3. QED
  BY <1>2

(* ... and a greatest one if it is bounded. *)
LEMMA GreatestBelow ==
    ASSUME NEW T, T \subseteq Nat, T # {}, NEW b \in Nat, \A x \in T : x <= b
    PROVE  \E n \in T : \A m \in T : m <= n
<1>1. PICK u \in {b - x : x \in T} : \A v \in {b - x : x \in T} : u <= v
  <2>1. \A x \in T : b - x \in Nat
    OBVIOUS
  <2>2. QED
    BY <2>1, LeastNatural
<1>2. PICK n \in T : u = b - n
  BY <1>1
<1>3. \A m \in T : b - n <= b - m
  BY <1>1, <1>2
<1>4. QED
  BY <1>3

-----------------------------------------------------------------------------
(* Facts, index, anchors and WAL records as sets. *)
LFact == [id : Nat, by : Nat, says : Content]

LRecord == [fact : LFact, prev : Seq(LFact)]

Sources == UNION {[D -> Nat] : D \in SUBSET Nat}

Used == UNION {[D -> SUBSET Nat] : D \in SUBSET Nat}

Index == [next_fact_id : Nat, fact_sources : Sources, fact_origins : SUBSET Nat,
          used_at_startup : Used, rolled_up : SUBSET Nat]

Anchor == [seq : Nat, records : Nat, chain_head : Seq(LFact), metadata_digest : Index,
           anchor_hash : Seq(Nat \X Nat \X Seq(LFact) \X Index)]

-----------------------------------------------------------------------------
(* The greatest element of a set of integers, once it is known. *)
LEMMA MaxIs ==
    ASSUME NEW S, S \subseteq Int, NEW m \in S, \A y \in S : y <= m
    PROVE  Max(S) = m
<1>1. \A y \in S : m >= y
  OBVIOUS
<1>2. \A x \in S : (\A y \in S : x >= y) => x = m
  OBVIOUS
<1>3. QED
  BY <1>1, <1>2 DEF Max

(* The positions of an id are those it had before another id is appended. *)
LEMMA PositionsKept ==
    ASSUME NEW h \in Seq(LFact), NEW f \in LFact, NEW id, f.id # id
    PROVE  {i \in DOMAIN Append(h, f) : Append(h, f)[i].id = id}
              = {i \in DOMAIN h : h[i].id = id}
<1>1. DOMAIN Append(h, f) = 1 .. Len(h) + 1 /\ DOMAIN h = 1 .. Len(h) /\ Len(h) \in Nat
  OBVIOUS
<1>2. /\ \A i \in 1 .. Len(h) : Append(h, f)[i] = h[i]
      /\ Append(h, f)[Len(h) + 1] = f
  OBVIOUS
<1>3. \A i \in 1 .. Len(h) + 1 : i \in 1 .. Len(h) \/ i = Len(h) + 1
  BY <1>1
<1>4. QED
  BY <1>1, <1>2, <1>3

LEMMA IdsGrow ==
    ASSUME NEW h \in Seq(LFact), NEW f \in LFact
    PROVE  IdsOf(Append(h, f)) = IdsOf(h) \cup {f.id}
<1>1. DOMAIN Append(h, f) = 1 .. Len(h) + 1 /\ DOMAIN h = 1 .. Len(h) /\ Len(h) \in Nat
  OBVIOUS
<1>2. /\ \A i \in 1 .. Len(h) : Append(h, f)[i] = h[i]
      /\ Append(h, f)[Len(h) + 1] = f
  OBVIOUS
<1>3. \A i \in 1 .. Len(h) + 1 : i \in 1 .. Len(h) \/ i = Len(h) + 1
  BY <1>1
<1>4. QED
  BY <1>1, <1>2, <1>3 DEF IdsOf

(* An index says what it said after a fact it does not know is appended. *)
LEMMA AttributedKept ==
    ASSUME NEW h \in Seq(LFact), NEW f \in LFact, NEW ix \in Index,
           Attributed(ix, h), f.id \notin DOMAIN ix.fact_sources
    PROVE  Attributed(ix, Append(h, f))
<1> SUFFICES ASSUME NEW id \in DOMAIN ix.fact_sources
             PROVE  /\ id \in IdsOf(Append(h, f)) /\ id < ix.next_fact_id
                    /\ Append(h, f)[Max({i \in DOMAIN Append(h, f) : Append(h, f)[i].id = id})].by
                         = ix.fact_sources[id]
  BY DEF Attributed
<1> DEFINE S == {i \in DOMAIN h : h[i].id = id}
<1>1. id \in IdsOf(h) /\ id < ix.next_fact_id /\ h[Max(S)].by = ix.fact_sources[id]
  BY DEF Attributed
<1>2. {i \in DOMAIN Append(h, f) : Append(h, f)[i].id = id} = S
  BY PositionsKept
<1>3. Max(S) \in S
  <2>1. S # {} /\ S \subseteq Nat
    BY <1>1 DEF IdsOf
  <2>2. Len(h) \in Nat /\ \A x \in S : x <= Len(h)
    OBVIOUS
  <2> HIDE DEF S
  <2>3. PICK m \in S : \A x \in S : x <= m
    BY <2>1, <2>2, GreatestBelow
  <2>4. S \subseteq Int
    BY <2>1
  <2>5. QED
    BY <2>3, <2>4, MaxIs
<1>4. Append(h, f)[Max(S)] = h[Max(S)]
  BY <1>3
<1>5. id \in IdsOf(Append(h, f))
  BY <1>1, IdsGrow
<1>6. QED
  BY <1>1, <1>2, <1>4, <1>5

(* The index append_inner makes of a fact it gives the next id. *)
LEMMA AttributedNew ==
    ASSUME NEW h \in Seq(LFact), NEW f \in LFact, NEW ix \in Index, NEW iy \in Index,
           Attributed(ix, h), f.id = ix.next_fact_id, iy.next_fact_id = ix.next_fact_id + 1,
           iy.fact_sources = Put(ix.fact_sources, f.id, f.by)
    PROVE  Attributed(iy, Append(h, f))
<1>1. ix.next_fact_id \in Nat
  BY DEF Index
<1>2. f.id \notin DOMAIN ix.fact_sources
  <2>1. \A id \in DOMAIN ix.fact_sources : id < ix.next_fact_id
    BY DEF Attributed
  <2>2. QED
    BY <1>1, <2>1
<1>3. Attributed(ix, Append(h, f))
  BY <1>2, AttributedKept
<1>4. DOMAIN iy.fact_sources = DOMAIN ix.fact_sources \cup {f.id}
      /\ iy.fact_sources[f.id] = f.by
      /\ \A id \in DOMAIN ix.fact_sources : iy.fact_sources[id] = ix.fact_sources[id]
  BY <1>2 DEF Put
<1>5. Max({i \in DOMAIN Append(h, f) : Append(h, f)[i].id = f.id}) = Len(h) + 1
  <2> DEFINE S == {i \in DOMAIN Append(h, f) : Append(h, f)[i].id = f.id}
  <2>1. S \subseteq Int /\ Len(h) + 1 \in S /\ \A y \in S : y <= Len(h) + 1
    OBVIOUS
  <2>2. QED
    BY <2>1, MaxIs
<1>6. Append(h, f)[Len(h) + 1] = f
  OBVIOUS
<1>7. ASSUME NEW id \in DOMAIN iy.fact_sources
      PROVE  /\ id \in IdsOf(Append(h, f)) /\ id < iy.next_fact_id
             /\ Append(h, f)[Max({i \in DOMAIN Append(h, f) : Append(h, f)[i].id = id})].by
                  = iy.fact_sources[id]
  <2>1. CASE id = f.id
    <3>1. id \in IdsOf(Append(h, f)) /\ id < iy.next_fact_id
      BY <1>1, <2>1, IdsGrow
    <3>2. Max({i \in DOMAIN Append(h, f) : Append(h, f)[i].id = id}) = Len(h) + 1
      BY <1>5, <2>1
    <3>3. QED
      BY <1>4, <1>6, <2>1, <3>1, <3>2
  <2>2. CASE id # f.id
    <3>1. /\ id \in IdsOf(Append(h, f)) /\ id < ix.next_fact_id
          /\ Append(h, f)[Max({i \in DOMAIN Append(h, f) : Append(h, f)[i].id = id})].by
               = ix.fact_sources[id]
      BY <1>3, <1>4, <1>7, <2>2 DEF Attributed
    <3>2. id \in Nat
      BY <1>4, <1>7, <2>2, ZenonT(60) DEF Index, Sources
    <3>3. QED
      BY <1>1, <1>4, <1>7, <2>2, <3>1, <3>2
  <2>3. QED
    BY <2>1, <2>2
<1>8. QED
  BY <1>7 DEF Attributed

-----------------------------------------------------------------------------
(* The anchor chain. *)

(* What AnchorsBind says of a chain of anchors and a ledger. *)
AnchorsOver(ac, h) ==
    /\ verify_shared_anchors(ac)
    /\ \A i \in DOMAIN ac :
          /\ Bound(ac[i], h)
          /\ i > 1 => ac[i - 1].records <= ac[i].records

(* An anchor stays bound while the ledger grows. *)
LEMMA BoundKept ==
    ASSUME NEW h \in Seq(LFact), NEW f \in LFact, NEW a \in Anchor, Bound(a, h)
    PROVE  Bound(a, Append(h, f))
<1>1. a.records \in Nat /\ a.records <= Len(h) /\ a.chain_head = SubSeq(h, 1, a.records)
  BY DEF Anchor, Bound
<1>2. Len(Append(h, f)) = Len(h) + 1 /\ Len(h) \in Nat
  OBVIOUS
<1>3. SubSeq(Append(h, f), 1, a.records) = SubSeq(h, 1, a.records)
  <2>1. \A i \in 1 .. a.records : Append(h, f)[i] = h[i] /\ h[i] \in LFact
    BY <1>1
  <2>2. /\ SubSeq(h, 1, a.records) \in Seq(LFact)
        /\ SubSeq(Append(h, f), 1, a.records) \in Seq(LFact)
        /\ Len(SubSeq(h, 1, a.records)) = a.records
        /\ Len(SubSeq(Append(h, f), 1, a.records)) = a.records
        /\ \A i \in 1 .. a.records : /\ SubSeq(h, 1, a.records)[i] = h[i]
                                     /\ SubSeq(Append(h, f), 1, a.records)[i] = Append(h, f)[i]
    BY <1>1, <1>2, <2>1, SubSeqProperties
  <2>3. QED
    BY <2>1, <2>2, SeqEqual
<1>4. QED
  BY <1>1, <1>2, <1>3 DEF Bound

LEMMA AnchorsKept ==
    ASSUME NEW h \in Seq(LFact), NEW f \in LFact, NEW ac \in Seq(Anchor), AnchorsOver(ac, h)
    PROVE  AnchorsOver(ac, Append(h, f))
<1>1. \A i \in DOMAIN ac : ac[i] \in Anchor
  OBVIOUS
<1>2. QED
  BY <1>1, BoundKept DEF AnchorsOver

(* The whole of a sequence and the initial segments of an extended one. *)
LEMMA InitialSegments ==
    ASSUME NEW S, NEW s \in Seq(S), NEW e \in S
    PROVE  /\ SubSeq(s, 1, Len(s)) = s
           /\ \A n \in 0 .. Len(s) : SubSeq(Append(s, e), 1, n) = SubSeq(s, 1, n)
<1>1. Len(s) \in Nat /\ \A i \in 1 .. Len(s) : s[i] \in S /\ Append(s, e)[i] = s[i]
  OBVIOUS
<1>2. ASSUME NEW n \in 0 .. Len(s)
      PROVE  /\ SubSeq(s, 1, n) \in Seq(S) /\ SubSeq(Append(s, e), 1, n) \in Seq(S)
             /\ Len(SubSeq(s, 1, n)) = n /\ Len(SubSeq(Append(s, e), 1, n)) = n
             /\ \A i \in 1 .. n : /\ SubSeq(s, 1, n)[i] = s[i]
                                  /\ SubSeq(Append(s, e), 1, n)[i] = s[i]
  <2>1. \A i \in 1 .. n : s[i] \in S /\ Append(s, e)[i] \in S /\ Append(s, e)[i] = s[i]
    BY <1>1
  <2>2. /\ SubSeq(s, 1, n) \in Seq(S)
        /\ Len(SubSeq(s, 1, n)) = IF 1 <= n THEN n - 1 + 1 ELSE 0
        /\ \A i \in 1 .. n - 1 + 1 : SubSeq(s, 1, n)[i] = s[1 + i - 1]
    BY <2>1, SubSeqProperties
  <2>3. /\ SubSeq(Append(s, e), 1, n) \in Seq(S)
        /\ Len(SubSeq(Append(s, e), 1, n)) = IF 1 <= n THEN n - 1 + 1 ELSE 0
        /\ \A i \in 1 .. n - 1 + 1 : SubSeq(Append(s, e), 1, n)[i] = Append(s, e)[1 + i - 1]
    BY <2>1, SubSeqProperties
  <2>4. QED
    BY <1>1, <2>1, <2>2, <2>3
<1>3. SubSeq(s, 1, Len(s)) = s
  BY <1>1, <1>2, SeqEqual
<1>4. ASSUME NEW n \in 0 .. Len(s) PROVE SubSeq(Append(s, e), 1, n) = SubSeq(s, 1, n)
  BY <1>2, SeqEqual
<1>5. QED
  BY <1>3, <1>4

(* What the anchor of a ledger and an index is made of. *)
LEMMA NewAnchorFields ==
    ASSUME NEW ac \in Seq(Anchor), NEW h \in Seq(LFact), NEW ix \in Index
    PROVE  LET a == NewAnchor(ac, h, ix)
           IN  /\ a \in Anchor
               /\ a.seq = Len(ac) /\ a.records = Len(h) /\ a.chain_head = h
               /\ a.metadata_digest = ix
               /\ a.anchor_hash = compute_hash(PrevAnchor(ac), a)
<1> DEFINE a0 == [seq |-> Len(ac), records |-> Len(h), chain_head |-> h,
                  metadata_digest |-> ix, anchor_hash |-> <<>>]
           p == <<Len(ac), Len(h), h, ix>>
           a == [seq |-> Len(ac), records |-> Len(h), chain_head |-> h,
                 metadata_digest |-> ix, anchor_hash |-> Append(PrevAnchor(ac), p)]
<1>1. Len(ac) \in Nat /\ Len(h) \in Nat
  OBVIOUS
<1>2. PrevAnchor(ac) \in Seq(Nat \X Nat \X Seq(LFact) \X Index)
  <2>1. CASE ac = <<>>
    BY <2>1 DEF PrevAnchor
  <2>2. CASE ac # <<>>
    <3>1. ac[Len(ac)] \in Anchor
      BY <2>2
    <3>2. QED
      BY <2>2, <3>1 DEF PrevAnchor, Last, Anchor
  <2>3. QED
    BY <2>1, <2>2
<1>3. NewAnchor(ac, h, ix) = a
  <2>1. Payload(a0) = p
    BY DEF Payload
  <2>2. NewAnchor(ac, h, ix) = [a0 EXCEPT !.anchor_hash = Append(PrevAnchor(ac), Payload(a0))]
    BY Zenon DEF NewAnchor, compute_hash
  <2>3. NewAnchor(ac, h, ix) = [a0 EXCEPT !.anchor_hash = Append(PrevAnchor(ac), p)]
    BY <2>1, <2>2, Zenon
  <2>4. ASSUME NEW n, NEW m, NEW x
        PROVE  [[seq |-> n, records |-> m, chain_head |-> h, metadata_digest |-> ix,
                 anchor_hash |-> <<>>] EXCEPT !.anchor_hash = x]
                 = [seq |-> n, records |-> m, chain_head |-> h, metadata_digest |-> ix,
                    anchor_hash |-> x]
    OBVIOUS
  <2>5. QED
    BY <2>3, <2>4, Zenon
<1>4. p \in Nat \X Nat \X Seq(LFact) \X Index
  BY <1>1
<1>5. Append(PrevAnchor(ac), p) \in Seq(Nat \X Nat \X Seq(LFact) \X Index)
  BY <1>2, <1>4
<1>6. a \in Anchor
  BY <1>1, <1>5 DEF Anchor
<1>7. a.anchor_hash = compute_hash(PrevAnchor(ac), a)
  BY DEF compute_hash, Payload
<1>8. /\ a.seq = Len(ac) /\ a.records = Len(h) /\ a.chain_head = h
      /\ a.metadata_digest = ix
  OBVIOUS
<1> HIDE DEF a
<1>9. QED
  BY <1>3, <1>6, <1>7, <1>8

(* Sealing extends a chain that verifies to one that verifies, bound to the *)
(* ledger as it is.                                                         *)
LEMMA SealBinds ==
    ASSUME NEW ac \in Seq(Anchor), NEW h \in Seq(LFact), NEW ix \in Index,
           AnchorsOver(ac, h), DOMAIN ix.fact_sources \subseteq IdsOf(h)
    PROVE  /\ Append(ac, NewAnchor(ac, h, ix)) \in Seq(Anchor)
           /\ AnchorsOver(Append(ac, NewAnchor(ac, h, ix)), h)
<1> DEFINE a == NewAnchor(ac, h, ix)
           bs == Append(ac, a)
<1>1. /\ a \in Anchor /\ a.seq = Len(ac) /\ a.records = Len(h) /\ a.chain_head = h
      /\ a.metadata_digest = ix /\ a.anchor_hash = compute_hash(PrevAnchor(ac), a)
  BY NewAnchorFields
<1> HIDE DEF a
<1>2. /\ bs \in Seq(Anchor) /\ Len(bs) = Len(ac) + 1 /\ Len(ac) \in Nat /\ Len(h) \in Nat
      /\ DOMAIN bs = 1 .. Len(ac) + 1 /\ DOMAIN ac = 1 .. Len(ac)
      /\ bs[Len(ac) + 1] = a /\ \A i \in 1 .. Len(ac) : bs[i] = ac[i] /\ ac[i] \in Anchor
  BY <1>1
<1>3. \A n \in 0 .. Len(ac) : SubSeq(bs, 1, n) = SubSeq(ac, 1, n)
  BY <1>1, InitialSegments
<1>4. SubSeq(bs, 1, Len(ac)) = ac
  BY <1>1, <1>2, <1>3, InitialSegments
<1>5. Bound(a, h)
  BY <1>1, <1>2, InitialSegments DEF Bound
<1>6. \A i \in DOMAIN ac : a.records >= ac[i].records
  BY <1>1, <1>2 DEF AnchorsOver, Bound
<1> HIDE DEF bs
<1>7. ASSUME NEW i \in 1 .. Len(ac) + 1
      PROVE  /\ bs[i].seq = i - 1
             /\ bs[i].anchor_hash = compute_hash(PrevAnchor(SubSeq(bs, 1, i - 1)), bs[i])
  <2>1. CASE i = Len(ac) + 1
    <3>1. i - 1 = Len(ac)
      BY <1>2, <2>1
    <3>2. QED
      BY <1>1, <1>2, <1>4, <2>1, <3>1
  <2>2. CASE i \in 1 .. Len(ac)
    <3>1. SubSeq(bs, 1, i - 1) = SubSeq(ac, 1, i - 1)
      BY <1>2, <1>3, <2>2
    <3>2. /\ ac[i].seq = i - 1
          /\ ac[i].anchor_hash = compute_hash(PrevAnchor(SubSeq(ac, 1, i - 1)), ac[i])
      BY <1>2, <2>2 DEF AnchorsOver, verify_shared_anchors
    <3>3. QED
      BY <1>2, <2>2, <3>1, <3>2
  <2>3. QED
    BY <1>2, <2>1, <2>2
<1>8. ASSUME NEW i \in 1 .. Len(ac) + 1
      PROVE  Bound(bs[i], h) /\ (i > 1 => bs[i - 1].records <= bs[i].records)
  <2>1. CASE i = Len(ac) + 1
    <3>1. i > 1 => i - 1 \in 1 .. Len(ac)
      BY <1>2, <2>1
    <3>2. i > 1 => bs[i - 1].records <= a.records
      <4>1. ASSUME i > 1 PROVE bs[i - 1].records <= a.records
        <5>1. ac[i - 1].records \in Nat /\ a.records \in Nat
          BY <1>1, <1>2, <3>1, <4>1 DEF Anchor
        <5>2. QED
          BY <1>2, <1>6, <3>1, <4>1, <5>1
      <4>2. QED
        BY <4>1
    <3>3. QED
      BY <1>2, <1>5, <2>1, <3>2
  <2>2. CASE i \in 1 .. Len(ac)
    <3>1. Bound(ac[i], h) /\ (i > 1 => ac[i - 1].records <= ac[i].records)
      BY <1>2, <2>2 DEF AnchorsOver
    <3>2. i > 1 => i - 1 \in 1 .. Len(ac)
      BY <1>2, <2>2
    <3>3. QED
      BY <1>2, <2>2, <3>1, <3>2
  <2>3. QED
    BY <1>2, <2>1, <2>2
<1>9. AnchorsOver(bs, h)
  BY <1>2, <1>7, <1>8 DEF AnchorsOver, verify_shared_anchors
<1>10. QED
  BY <1>2, <1>9 DEF bs, a

-----------------------------------------------------------------------------
(* The write-ahead log. *)

LEMMA FactsOfType ==
    ASSUME NEW w \in Seq(LRecord)
    PROVE  FactsOf(w) \in Seq(LFact) /\ Len(FactsOf(w)) = Len(w)
<1>1. DOMAIN w = 1 .. Len(w) /\ Len(w) \in Nat /\ \A i \in 1 .. Len(w) : w[i] \in LRecord
  OBVIOUS
<1>2. \A i \in 1 .. Len(w) : w[i].fact \in LFact
  BY <1>1 DEF LRecord
<1>3. FactsOf(w) \in [1 .. Len(w) -> LFact]
  BY <1>1, <1>2 DEF FactsOf
<1>4. QED
  BY <1>1, <1>3

(* A chain that verifies with a record verifies without it, and the record  *)
(* went on from the facts before it.                                        *)
LEMMA VerifyExtended ==
    ASSUME NEW w \in Seq(LRecord), NEW r \in LRecord, verify_wal_chain(Append(w, r))
    PROVE  /\ verify_wal_chain(w) /\ r.prev = FactsOf(w)
           /\ FactsOf(Append(w, r)) = Append(FactsOf(w), r.fact)
<1> DEFINE v == Append(w, r)
<1>1. /\ DOMAIN v = 1 .. Len(w) + 1 /\ DOMAIN w = 1 .. Len(w) /\ Len(w) \in Nat
      /\ v \in Seq(LRecord) /\ Len(v) = Len(w) + 1
      /\ v[Len(w) + 1] = r /\ \A i \in 1 .. Len(w) : v[i] = w[i]
  OBVIOUS
<1> HIDE DEF v
<1>2. \A i \in 1 .. Len(w) + 1 : v[i].prev = [j \in 1 .. i - 1 |-> v[j].fact]
  BY <1>1 DEF verify_wal_chain, v
<1>3. ASSUME NEW i \in 1 .. Len(w) PROVE w[i].prev = [j \in 1 .. i - 1 |-> w[j].fact]
  <2>1. w[i].prev = [j \in 1 .. i - 1 |-> v[j].fact]
    <3>1. i \in 1 .. Len(w) + 1 /\ v[i] = w[i]
      BY <1>1
    <3>2. QED
      BY <1>2, <3>1, Zenon
  <2>2. \A j \in 1 .. i - 1 : v[j].fact = w[j].fact
    BY <1>1
  <2>3. QED
    BY <2>1, <2>2
<1>4. verify_wal_chain(w)
  BY <1>1, <1>3 DEF verify_wal_chain
<1>5. r.prev = FactsOf(w)
  <2>1. Len(w) + 1 \in 1 .. Len(w) + 1 /\ (Len(w) + 1) - 1 = Len(w)
    BY <1>1
  <2>2. r.prev = [j \in 1 .. Len(w) |-> v[j].fact]
    BY <1>1, <1>2, <2>1
  <2>3. QED
    BY <1>1, <2>2 DEF FactsOf
<1>6. FactsOf(v) = Append(FactsOf(w), r.fact)
  <2>1. /\ FactsOf(v) \in Seq(LFact) /\ Len(FactsOf(v)) = Len(w) + 1
        /\ FactsOf(w) \in Seq(LFact) /\ Len(FactsOf(w)) = Len(w) /\ r.fact \in LFact
    BY <1>1, FactsOfType DEF LRecord
  <2>2. /\ \A i \in 1 .. Len(w) + 1 : FactsOf(v)[i] = v[i].fact
        /\ \A i \in 1 .. Len(w) : FactsOf(w)[i] = w[i].fact
    BY <1>1 DEF FactsOf
  <2>3. /\ Append(FactsOf(w), r.fact) \in Seq(LFact)
        /\ Len(Append(FactsOf(w), r.fact)) = Len(w) + 1
        /\ \A i \in 1 .. Len(w) + 1 : Append(FactsOf(w), r.fact)[i]
              = IF i = Len(w) + 1 THEN r.fact ELSE FactsOf(w)[i]
    BY <1>1, <2>1
  <2>4. \A i \in 1 .. Len(w) + 1 : FactsOf(v)[i] = Append(FactsOf(w), r.fact)[i]
    BY <1>1, <2>2, <2>3
  <2>5. QED
    BY <2>1, <2>3, <2>4, SeqEqual
<1>7. QED
  BY <1>4, <1>5, <1>6 DEF v

-----------------------------------------------------------------------------
(* The inductive invariant. *)

(* What holds of an index, in memory or in the file. *)
Follows(ix, h) ==
    /\ Attributed(ix, h)
    /\ ix.rolled_up \cup ix.fact_origins \subseteq DOMAIN ix.fact_sources

(* A WAL that verifies has the facts of the ledger and at most one more,    *)
(* the ghost of an append that failed, with an id that no index knows.      *)
WalFollows ==
    verify_wal_chain(wal) =>
        \/ FactsOf(wal) = history
        \/ \E g \in LFact : /\ FactsOf(wal) = Append(history, g)
                            /\ g.id \notin DOMAIN index.fact_sources
                            /\ g.id \notin DOMAIN file.index.fact_sources

LedgerInv ==
    /\ mode # "up" => kind # "memory"
    /\ kind # "memory" =>
          /\ Follows(index, history) /\ Follows(file.index, history)
          /\ file.index.next_fact_id <= index.next_fact_id
          /\ WalFollows
          /\ AnchorsOver(anchors, history) /\ AnchorsOver(file.anchors, history)

(* The entries of a ledger at a version. *)
EntriesAt(h, v, hidden) ==
    LET g == SubSeq(h, 1, v)
    IN  Latest(g, {i \in DOMAIN g : g[i].id \notin hidden
                                    /\ g[i].says.path \notin {"other", "default_policy"}})

(* What the ledger h says last about a path before version v. *)
InForceIn(h, v, hidden, path) ==
    LET I == {i \in 1 .. v : h[i].says.path = path /\ h[i].id \notin hidden}
    IN  IF I = {} THEN {} ELSE {h[Max(I)].says.value}

PathsIn(h, v) == {h[i].says.path : i \in 1 .. v} \ {"other", "default_policy"}

SaidIn(h, v, hidden) == UNION {InForceIn(h, v, hidden, p) : p \in PathsIn(h, v)}

(* The grounds of an answer "Allow". *)
Grounded(h, d) ==
    LET About == {e \in SaidIn(h, d.v_trigger, d.hidden) :
                     e.kind = "entry" /\ e.state = "Active" /\ Matches(e, d)}
    IN  /\ \A e \in SaidIn(h, d.v_trigger, d.hidden) : e.kind # "malformed"
        /\ \A e \in About : e.effect = "Allow" \/ d.role \notin e.conditions
        /\ \/ \E e \in About : e.effect = "Allow" /\ d.role \in e.conditions
           \/ \E i \in DOMAIN h : /\ i <= d.v_trigger + 1
                                  /\ h[i].says.path = "default_policy"
                                  /\ h[i].says.value.kind = "policy"
                                  /\ h[i].says.value.effects[d.role] = "Allow"

(* A check under way is about a version the ledger has reached, the routes  *)
(* let it through, and the entries it has read are those of its version.    *)
CallInv ==
    /\ call = NoCall \/ call.pc \in {"frozen", "read"}
    /\ call.pc # "none" =>
          /\ call.c.role \in Role /\ call.c.v_trigger \in Nat
          /\ ~Tightened(gate, call.c)
          /\ kind # "memory" => call.c.v_trigger <= Len(history)
    /\ call.pc = "read" /\ kind # "memory" =>
          /\ call.entries = EntriesAt(history, call.c.v_trigger, call.hidden)
          /\ ~CannotRebuild(call.entries)

(* A check that has returned went by the entries of its version, and let    *)
(* the call through on the grounds the ledger still has.                    *)
Settled(d) ==
    /\ d.v_trigger \in Nat
    /\ kind # "memory" => d.v_trigger <= Len(history)
    /\ kind # "memory" /\ ~Tightened(gate, d) =>
          d.entries = EntriesAt(history, d.v_trigger, d.hidden)
    /\ kind # "memory" /\ d.verdict = "Allow" => ~Tightened(gate, d) /\ Grounded(history, d)

DecidedInv == \A d \in decided : Settled(d)

LedgerTypes ==
    /\ kind \in {"memory", "wal", "durable"} /\ mode \in {"up", "down", "refused"}
    /\ history \in Seq(LFact) /\ index \in Index /\ anchors \in Seq(Anchor)
    /\ wal \in Seq(LRecord)
    /\ file.index \in Index /\ file.anchors \in Seq(Anchor)

-----------------------------------------------------------------------------
(* What the operations make of an index. *)

LEMMA PutTypes ==
    /\ \A f \in Sources, k \in Nat, v \in Nat : Put(f, k, v) \in Sources
    /\ \A f \in Used, k \in Nat, v \in SUBSET Nat : Put(f, k, v) \in Used
<1>1. ASSUME NEW f \in Sources, NEW k \in Nat, NEW v \in Nat PROVE Put(f, k, v) \in Sources
  <2>1. PICK D \in SUBSET Nat : f \in [D -> Nat]
    BY DEF Sources
  <2>2. Put(f, k, v) \in [D \cup {k} -> Nat] /\ D \cup {k} \in SUBSET Nat
    BY <2>1 DEF Put
  <2>3. QED
    BY <2>2 DEF Sources
<1>2. ASSUME NEW f \in Used, NEW k \in Nat, NEW v \in SUBSET Nat PROVE Put(f, k, v) \in Used
  <2>1. PICK D \in SUBSET Nat : f \in [D -> SUBSET Nat]
    BY DEF Used
  <2>2. Put(f, k, v) \in [D \cup {k} -> SUBSET Nat] /\ D \cup {k} \in SUBSET Nat
    BY <2>1 DEF Put
  <2>3. QED
    BY <2>2 DEF Used
<1>3. QED
  BY <1>1, <1>2

LEMMA IndexCounted ==
    ASSUME NEW ix \in Index, NEW n \in Nat, NEW iy, iy = [ix EXCEPT !.next_fact_id = n]
    PROVE  /\ iy \in Index /\ iy.next_fact_id = n /\ iy.fact_sources = ix.fact_sources
           /\ iy.rolled_up = ix.rolled_up /\ iy.fact_origins = ix.fact_origins
  BY DEF Index

LEMMA IndexUsed ==
    ASSUME NEW ix \in Index, NEW u \in Used, NEW iy, iy = [ix EXCEPT !.used_at_startup = u]
    PROVE  /\ iy \in Index /\ iy.next_fact_id = ix.next_fact_id
           /\ iy.fact_sources = ix.fact_sources
           /\ iy.rolled_up = ix.rolled_up /\ iy.fact_origins = ix.fact_origins
  BY DEF Index

LEMMA IndexRolled ==
    ASSUME NEW ix \in Index, NEW r \in SUBSET Nat, NEW iy, iy = [ix EXCEPT !.rolled_up = r]
    PROVE  /\ iy \in Index /\ iy.next_fact_id = ix.next_fact_id
           /\ iy.fact_sources = ix.fact_sources
           /\ iy.rolled_up = r /\ iy.fact_origins = ix.fact_origins
  BY DEF Index

LEMMA IndexFields ==
    ASSUME NEW ix \in Index
    PROVE  /\ ix.next_fact_id \in Nat /\ ix.fact_sources \in Sources
           /\ ix.fact_origins \in SUBSET Nat /\ ix.used_at_startup \in Used
           /\ ix.rolled_up \in SUBSET Nat /\ DOMAIN ix.fact_sources \in SUBSET Nat
<1>1. ix.fact_sources \in Sources
  BY DEF Index
<1>2. DOMAIN ix.fact_sources \in SUBSET Nat
  BY <1>1 DEF Sources
<1>3. QED
  BY <1>1, <1>2 DEF Index

(* The first index and the first file. *)
LEMMA FirstIndex ==
    /\ EmptyIndex \in Index /\ NoFile.index \in Index /\ NoFile.anchors = <<>>
    /\ EmptyIndex.next_fact_id = 1 /\ NoFile.index.next_fact_id = 0
    /\ DOMAIN EmptyIndex.fact_sources = {} /\ DOMAIN NoFile.index.fact_sources = {}
    /\ EmptyIndex.rolled_up = {} /\ EmptyIndex.fact_origins = {}
    /\ NoFile.index.rolled_up = {} /\ NoFile.index.fact_origins = {}
    /\ \A o \in SUBSET Nat : [EmptyIndex EXCEPT !.fact_origins = o] \in Index
<1>1. [i \in {} |-> 0] \in Sources
  <2>1. [i \in {} |-> 0] \in [{} -> Nat] /\ {} \in SUBSET Nat
    OBVIOUS
  <2>2. QED
    BY <2>1 DEF Sources
<1>2. [s \in {} |-> {}] \in Used
  <2>1. [s \in {} |-> {}] \in [{} -> SUBSET Nat] /\ {} \in SUBSET Nat
    OBVIOUS
  <2>2. QED
    BY <2>1 DEF Used
<1>3. /\ EmptyIndex \in Index /\ EmptyIndex.next_fact_id = 1
      /\ EmptyIndex.fact_sources = [i \in {} |-> 0]
      /\ EmptyIndex.rolled_up = {} /\ EmptyIndex.fact_origins = {}
  BY <1>1, <1>2 DEF EmptyIndex, Index
<1>4. /\ NoFile.index = [EmptyIndex EXCEPT !.next_fact_id = 0] /\ NoFile.anchors = <<>>
  BY DEF NoFile
<1>5. DOMAIN [i \in {} |-> 0] = {}
  OBVIOUS
<1>6. /\ NoFile.index \in Index /\ NoFile.index.next_fact_id = 0
      /\ NoFile.index.fact_sources = EmptyIndex.fact_sources
      /\ NoFile.index.rolled_up = EmptyIndex.rolled_up
      /\ NoFile.index.fact_origins = EmptyIndex.fact_origins
  BY <1>3, <1>4 DEF Index
<1>7. \A o \in SUBSET Nat : [EmptyIndex EXCEPT !.fact_origins = o] \in Index
  BY <1>3 DEF Index
<1>8. QED
  BY <1>3, <1>4, <1>5, <1>6, <1>7

(* Indices that keep the sources and count no less follow the ledger still. *)
LEMMA FollowsKept ==
    ASSUME NEW h, NEW ix \in Index, NEW iy \in Index, Follows(ix, h),
           iy.fact_sources = ix.fact_sources, ix.next_fact_id <= iy.next_fact_id,
           iy.rolled_up \cup iy.fact_origins \subseteq DOMAIN ix.fact_sources
    PROVE  Follows(iy, h)
<1>1. /\ ix.next_fact_id \in Nat /\ iy.next_fact_id \in Nat
      /\ DOMAIN ix.fact_sources \subseteq Nat
  BY IndexFields
<1>2. QED
  BY <1>1 DEF Follows, Attributed

LEMMA FollowsGrown ==
    ASSUME NEW h \in Seq(LFact), NEW f \in LFact, NEW ix \in Index,
           Follows(ix, h), f.id \notin DOMAIN ix.fact_sources
    PROVE  Follows(ix, Append(h, f))
  BY AttributedKept DEF Follows

LEMMA FollowsNew ==
    ASSUME NEW h \in Seq(LFact), NEW f \in LFact, NEW ix \in Index, NEW iy \in Index,
           Follows(ix, h), f.id = ix.next_fact_id, iy.next_fact_id = ix.next_fact_id + 1,
           iy.fact_sources = Put(ix.fact_sources, f.id, f.by), iy.rolled_up = ix.rolled_up,
           iy.fact_origins \in {ix.fact_origins, ix.fact_origins \cup {f.id}}
    PROVE  Follows(iy, Append(h, f))
<1>1. Attributed(iy, Append(h, f))
  BY AttributedNew DEF Follows
<1>2. DOMAIN iy.fact_sources = DOMAIN ix.fact_sources \cup {f.id}
  BY DEF Put
<1>3. QED
  BY <1>1, <1>2 DEF Follows

(* An id that is still to be given out is in no index. *)
LEMMA NextIsFresh ==
    ASSUME NEW h, NEW ix \in Index, NEW n \in Nat, Follows(ix, h), ix.next_fact_id <= n
    PROVE  n \notin DOMAIN ix.fact_sources
<1>1. ix.next_fact_id \in Nat /\ DOMAIN ix.fact_sources \subseteq Nat
  BY IndexFields
<1>2. \A id \in DOMAIN ix.fact_sources : id < ix.next_fact_id
  BY DEF Follows, Attributed
<1>3. QED
  BY <1>1, <1>2

(* An index that follows the ledger attributes nothing else. *)
LEMMA FollowsIds ==
    ASSUME NEW h, NEW ix, Follows(ix, h)
    PROVE  DOMAIN ix.fact_sources \subseteq IdsOf(h)
  BY DEF Follows, Attributed

(* After a write of the metadata the file has what memory has or what it    *)
(* had.                                                                     *)
LEMMA FileAfter ==
    ASSUME NEW ok, persist_metadata_locked(ok)
    PROVE  \/ file'.index = index' /\ file'.anchors = anchors'
           \/ file'.index = file.index /\ file'.anchors = file.anchors
<1>1. file' = [index |-> index', anchors |-> anchors'] \/ file' = file
  BY DEF persist_metadata_locked
<1>2. QED
  BY <1>1

-----------------------------------------------------------------------------
(* Each operation of the ledger. *)

(* Nothing the invariant speaks of changes. *)
LEMMA LedgerSame ==
    ASSUME LedgerTypes, LedgerInv,
           UNCHANGED <<kind, mode, history, index, anchors, wal, file>>
    PROVE  LedgerTypes' /\ LedgerInv'
  BY DEF LedgerTypes, LedgerInv, WalFollows

LEMMA LedgerInit == Init => LedgerTypes /\ LedgerInv
<1> SUFFICES ASSUME Init PROVE LedgerTypes /\ LedgerInv
  OBVIOUS
<1>1. /\ kind \in Kinds /\ mode = "up" /\ history = <<>> /\ index = EmptyIndex
      /\ anchors = <<>> /\ wal = <<>> /\ file = NoFile
  BY DEF Init
<1>2. LedgerTypes
  BY <1>1, FirstIndex, SharedFactsLogAssumption DEF LedgerTypes
<1>3. Follows(index, history) /\ Follows(file.index, history)
  BY <1>1, FirstIndex DEF Follows, Attributed
<1>4. FactsOf(wal) = history
  BY <1>1 DEF FactsOf
<1>5. AnchorsOver(<<>>, history)
  BY DEF AnchorsOver, verify_shared_anchors
<1>6. file.index.next_fact_id <= index.next_fact_id
  BY <1>1, FirstIndex
<1>7. QED
  BY <1>1, <1>2, <1>3, <1>4, <1>5, <1>6, FirstIndex DEF LedgerInv, WalFollows

LEMMA AppendFailsKeeps ==
    ASSUME LedgerTypes, LedgerInv, NEW c \in Content, NEW s \in Nat, mode = "up",
           AppendFails([id |-> index.next_fact_id, by |-> s, says |-> c]),
           UNCHANGED <<kind, mode>>
    PROVE  LedgerTypes' /\ LedgerInv'
<1> DEFINE f == [id |-> index.next_fact_id, by |-> s, says |-> c]
           n == index.next_fact_id + 1
<1>1. /\ index.next_fact_id \in Nat /\ index \in Index /\ file.index \in Index
      /\ history \in Seq(LFact) /\ wal \in Seq(LRecord)
  BY IndexFields DEF LedgerTypes
<1>2. f \in LFact /\ f.id = index.next_fact_id
  BY <1>1 DEF LFact
<1>3. WalRecord(f) \in LRecord /\ WalRecord(f).fact = f /\ WalRecord(f).prev = history
  BY <1>1, <1>2 DEF WalRecord, LRecord
<1> HIDE DEF f
<1>4. /\ wal' = Append(wal, WalRecord(f)) \/ wal' = wal
      /\ kind # "memory" /\ history' = history /\ anchors' = anchors /\ file' = file
  <2>1. AppendFails(f)
    BY DEF f
  <2>2. \E e \in Failures : wal' = IF e = "ghost" THEN Append(wal, WalRecord(f)) ELSE wal
    BY <2>1, Zenon DEF AppendFails
  <2>3. wal' = Append(wal, WalRecord(f)) \/ wal' = wal
    BY <2>2
  <2>4. /\ kind # "memory" /\ history' = history /\ anchors' = anchors /\ file' = file
    BY <2>1, Zenon DEF AppendFails
  <2>5. QED
    BY <2>3, <2>4, Zenon
<1>5. /\ index' \in Index /\ index'.next_fact_id = n /\ n \in Nat
      /\ index'.fact_sources = index.fact_sources
      /\ index'.rolled_up = index.rolled_up /\ index'.fact_origins = index.fact_origins
  <2>1. n \in Nat
    BY <1>1
  <2>2. index' = [index EXCEPT !.next_fact_id = n]
    BY Zenon DEF AppendFails, f
  <2> HIDE DEF n
  <2>3. QED
    BY <1>1, <2>1, <2>2, IndexCounted
<1>6. wal' \in Seq(LRecord)
  BY <1>1, <1>3, <1>4, SMTT(60)
<1>7. LedgerTypes'
  BY <1>1, <1>4, <1>5, <1>6 DEF LedgerTypes
<1>8. /\ Follows(index, history) /\ Follows(file.index, history)
      /\ file.index.next_fact_id <= index.next_fact_id
      /\ WalFollows /\ AnchorsOver(anchors, history) /\ AnchorsOver(file.anchors, history)
  BY <1>4 DEF LedgerInv
<1>9. Follows(index', history)
  <2>1. index.next_fact_id <= n
    BY <1>1
  <2>2. QED
    BY <1>1, <1>5, <1>8, <2>1, FollowsKept DEF Follows
<1>10. /\ f.id \notin DOMAIN index.fact_sources
       /\ f.id \notin DOMAIN file.index.fact_sources
  BY <1>1, <1>2, <1>8, NextIsFresh
<1>11. WalFollows'
  <2> SUFFICES ASSUME verify_wal_chain(wal')
               PROVE  \/ FactsOf(wal') = history
                      \/ \E g \in LFact : /\ FactsOf(wal') = Append(history, g)
                                          /\ g.id \notin DOMAIN index.fact_sources
                                          /\ g.id \notin DOMAIN file.index.fact_sources
    BY <1>4, <1>5 DEF WalFollows
  <2>1. CASE wal' = wal
    BY <1>8, <2>1 DEF WalFollows
  <2>2. CASE wal' = Append(wal, WalRecord(f))
    <3>1. /\ history = FactsOf(wal)
          /\ FactsOf(Append(wal, WalRecord(f))) = Append(FactsOf(wal), f)
      BY <1>1, <1>3, <2>2, VerifyExtended
    <3>2. QED
      BY <1>2, <1>10, <2>2, <3>1
  <2>3. QED
    BY <1>4, <2>1, <2>2
<1>12. file.index.next_fact_id <= n
  BY <1>1, <1>8, IndexFields
<1>13. QED
  BY <1>4, <1>5, <1>7, <1>8, <1>9, <1>11, <1>12 DEF LedgerInv

(* In a ledger in memory only the types are of interest. *)
LEMMA MemoryKeeps ==
    ASSUME LedgerTypes', kind = "memory", kind' = kind, mode' = "up"
    PROVE  LedgerInv'
  BY DEF LedgerInv

LEMMA AppendSucceedsKeeps ==
    ASSUME LedgerTypes, LedgerInv, NEW t, NEW c \in Content, NEW s \in Nat, mode = "up",
           AppendSucceeds(t, [id |-> index.next_fact_id, by |-> s, says |-> c]),
           UNCHANGED <<kind, mode>>
    PROVE  LedgerTypes' /\ LedgerInv'
<1> DEFINE f == [id |-> index.next_fact_id, by |-> s, says |-> c]
           n == index.next_fact_id + 1
           src == Put(index.fact_sources, f.id, f.by)
           org == IF f.by \in WithOrigin THEN index.fact_origins \cup {f.id}
                  ELSE index.fact_origins
<1>1. /\ index.next_fact_id \in Nat /\ index \in Index /\ file.index \in Index
      /\ index.fact_sources \in Sources /\ index.fact_origins \in SUBSET Nat
      /\ history \in Seq(LFact) /\ wal \in Seq(LRecord)
      /\ anchors \in Seq(Anchor) /\ file.anchors \in Seq(Anchor)
  BY IndexFields DEF LedgerTypes
<1>2. f \in LFact /\ f.id = index.next_fact_id /\ f.by = s
  BY <1>1 DEF LFact
<1>3. WalRecord(f) \in LRecord /\ WalRecord(f).fact = f /\ WalRecord(f).prev = history
  BY <1>1, <1>2 DEF WalRecord, LRecord
<1> HIDE DEF f
<1>4. AppendSucceeds(t, f)
  BY DEF f
<1>5. PICK ok \in Persists :
        /\ history' = Append(history, f)
        /\ wal' = IF kind = "memory" THEN wal ELSE Append(wal, WalRecord(f))
        /\ index' = [index EXCEPT !.next_fact_id = @ + 1, !.fact_sources = Put(@, f.id, f.by),
                                  !.fact_origins = IF f.by \in WithOrigin
                                                   THEN @ \cup {f.id} ELSE @]
        /\ anchors' = anchors /\ persist_metadata_locked(ok)
  BY <1>4, Zenon DEF AppendSucceeds
<1>6. n \in Nat /\ src \in Sources /\ org \in SUBSET Nat
  <2>1. f.id \in Nat /\ f.by \in Nat
    BY <1>1, <1>2
  <2>2. n \in Nat
    BY <1>1
  <2>3. src \in Sources
    BY <1>1, <2>1, PutTypes, Zenon
  <2>4. index.fact_origins \cup {f.id} \in SUBSET Nat
    BY <1>1, <2>1
  <2>5. QED
    BY <1>1, <2>2, <2>3, <2>4, Zenon
<1>7. /\ index' \in Index /\ index'.next_fact_id = n /\ index'.fact_sources = src
      /\ index'.rolled_up = index.rolled_up /\ index'.fact_origins = org
  <2>1. index' = [index EXCEPT !.next_fact_id = n, !.fact_sources = src, !.fact_origins = org]
    BY <1>1, <1>5 DEF Index
  <2> HIDE DEF n, src, org
  <2>2. QED
    BY <1>1, <1>6, <2>1 DEF Index
<1>8. /\ history' = Append(history, f) /\ anchors' = anchors
      /\ \/ file'.index = index' /\ file'.anchors = anchors'
         \/ file'.index = file.index /\ file'.anchors = file.anchors
  BY <1>5, FileAfter, Zenon
<1>9. /\ kind # "memory" => wal' = Append(wal, WalRecord(f))
      /\ kind = "memory" => wal' = wal
  BY <1>5, Zenon
<1> HIDE DEF n, src, org
<1>10. LedgerTypes'
  <2>1. history' \in Seq(LFact)
    BY <1>1, <1>2, <1>8
  <2>2. Append(wal, WalRecord(f)) \in Seq(LRecord)
    BY <1>1, <1>3
  <2>3. wal' \in Seq(LRecord)
    BY <1>1, <1>9, <2>2, Zenon
  <2>4. QED
    BY <1>1, <1>7, <1>8, <2>1, <2>3 DEF LedgerTypes
<1>11. CASE kind = "memory"
  BY <1>10, <1>11, MemoryKeeps
<1>12. CASE kind # "memory"
  <2>1. /\ Follows(index, history) /\ Follows(file.index, history)
        /\ file.index.next_fact_id <= index.next_fact_id
        /\ AnchorsOver(anchors, history) /\ AnchorsOver(file.anchors, history)
    BY <1>12 DEF LedgerInv
  <2>2. Follows(index', history')
    <3>1. org \in {index.fact_origins, index.fact_origins \cup {f.id}}
      BY DEF org
    <3>2. index'.next_fact_id = index.next_fact_id + 1
      BY <1>7 DEF n
    <3>3. index'.fact_sources = Put(index.fact_sources, f.id, f.by)
      BY <1>7 DEF src
    <3>4. Follows(index', Append(history, f))
      BY <1>1, <1>2, <1>7, <2>1, <3>1, <3>2, <3>3, FollowsNew
    <3>5. QED
      BY <1>8, <3>4
  <2>3. Follows(file.index, Append(history, f))
    BY <1>1, <1>2, <2>1, NextIsFresh, FollowsGrown
  <2>4. Follows(file'.index, history')
    BY <1>8, <2>2, <2>3
  <2>5. file'.index.next_fact_id <= index'.next_fact_id
    <3>1. file.index.next_fact_id \in Nat
      BY <1>1, IndexFields
    <3>2. QED
      BY <1>1, <1>7, <1>8, <2>1, <3>1 DEF n
  <2>6. AnchorsOver(anchors', history') /\ AnchorsOver(file'.anchors, history')
    BY <1>1, <1>2, <1>8, <2>1, AnchorsKept
  <2>7. WalFollows'
    <3>1. ASSUME verify_wal_chain(wal') PROVE FactsOf(wal') = history'
      <4>1. /\ history = FactsOf(wal)
            /\ FactsOf(Append(wal, WalRecord(f))) = Append(FactsOf(wal), f)
        <5>1. verify_wal_chain(Append(wal, WalRecord(f)))
          BY <1>12, <1>9, <3>1, Zenon
        <5>2. QED
          BY <1>1, <1>3, <5>1, VerifyExtended
      <4>2. QED
        BY <1>8, <1>12, <1>9, <4>1, Zenon
    <3>2. QED
      BY <3>1 DEF WalFollows
  <2>8. QED
    BY <1>10, <1>12, <2>2, <2>4, <2>5, <2>6, <2>7 DEF LedgerInv
<1>13. QED
  BY <1>11, <1>12

LEMMA SealKeeps ==
    ASSUME LedgerTypes, LedgerInv, mode = "up", Seal, UNCHANGED <<kind, mode, wal>>
    PROVE  LedgerTypes' /\ LedgerInv'
<1>1. /\ index \in Index /\ file.index \in Index /\ history \in Seq(LFact)
      /\ anchors \in Seq(Anchor) /\ file.anchors \in Seq(Anchor)
  BY DEF LedgerTypes
<1>2. PICK ok \in Persists :
        /\ anchors' = Append(anchors, NewAnchor(anchors, history, index))
        /\ history' = history /\ index' = index /\ persist_metadata_locked(ok)
  BY Zenon DEF Seal
<1>3. \/ file'.index = index /\ file'.anchors = anchors'
      \/ file'.index = file.index /\ file'.anchors = file.anchors
  BY <1>2, FileAfter, Zenon
<1>4. anchors' \in Seq(Anchor)
  <2>1. NewAnchor(anchors, history, index) \in Anchor
    BY <1>1, NewAnchorFields
  <2>2. QED
    BY <1>1, <1>2, <2>1
<1>5. LedgerTypes'
  BY <1>1, <1>2, <1>3, <1>4 DEF LedgerTypes
<1>6. CASE kind = "memory"
  BY <1>5, <1>6, MemoryKeeps
<1>7. CASE kind # "memory"
  <2>1. /\ Follows(index, history) /\ Follows(file.index, history)
        /\ file.index.next_fact_id <= index.next_fact_id /\ WalFollows
        /\ AnchorsOver(anchors, history) /\ AnchorsOver(file.anchors, history)
    BY <1>7 DEF LedgerInv
  <2>2. AnchorsOver(anchors', history)
    BY <1>1, <1>2, <2>1, FollowsIds, SealBinds
  <2>3. WalFollows'
    BY <1>2, <1>3, <2>1 DEF WalFollows
  <2>4. file'.index.next_fact_id <= index.next_fact_id
    BY <1>1, <1>3, <2>1, IndexFields
  <2>5. QED
    BY <1>2, <1>3, <1>5, <1>7, <2>1, <2>2, <2>3, <2>4 DEF LedgerInv
<1>8. QED
  BY <1>6, <1>7

(* A change of the index that touches neither the sources nor the count,    *)
(* and rolls up only facts that are attributed.                             *)
LEMMA MarkKeeps ==
    ASSUME LedgerTypes, LedgerInv, mode = "up", NEW ok, persist_metadata_locked(ok),
           UNCHANGED <<kind, mode, history, anchors, wal>>, index' \in Index,
           index'.next_fact_id = index.next_fact_id, index'.fact_sources = index.fact_sources,
           index'.fact_origins = index.fact_origins,
           index'.rolled_up \subseteq index.rolled_up \cup DOMAIN index.fact_sources
    PROVE  LedgerTypes' /\ LedgerInv'
<1>1. /\ index \in Index /\ file.index \in Index /\ history \in Seq(LFact)
      /\ anchors \in Seq(Anchor) /\ file.anchors \in Seq(Anchor)
  BY DEF LedgerTypes
<1>2. \/ file'.index = index' /\ file'.anchors = anchors
      \/ file'.index = file.index /\ file'.anchors = file.anchors
  BY FileAfter
<1>3. LedgerTypes'
  BY <1>1, <1>2 DEF LedgerTypes
<1>4. CASE kind = "memory"
  BY <1>3, <1>4, MemoryKeeps
<1>5. CASE kind # "memory"
  <2>1. /\ Follows(index, history) /\ Follows(file.index, history)
        /\ file.index.next_fact_id <= index.next_fact_id /\ WalFollows
        /\ AnchorsOver(anchors, history) /\ AnchorsOver(file.anchors, history)
    BY <1>5 DEF LedgerInv
  <2>2. Follows(index', history)
    <3>1. index'.rolled_up \cup index'.fact_origins \subseteq DOMAIN index.fact_sources
      BY <2>1 DEF Follows
    <3>2. index.next_fact_id <= index'.next_fact_id
      BY <1>1, IndexFields
    <3>3. QED
      BY <1>1, <2>1, <3>1, <3>2, FollowsKept
  <2>3. WalFollows'
    BY <1>2, <2>1 DEF WalFollows
  <2>4. file'.index.next_fact_id <= index'.next_fact_id
    BY <1>1, <1>2, <2>1, IndexFields
  <2>5. QED
    BY <1>2, <1>3, <1>5, <2>1, <2>2, <2>3, <2>4 DEF LedgerInv
<1>6. QED
  BY <1>4, <1>5

LEMMA UsedKeeps ==
    ASSUME LedgerTypes, LedgerInv, record_used_at_startup
    PROVE  LedgerTypes' /\ LedgerInv'
<1> DEFINE ids == {history[i].id : i \in facts_by_path_prefix}
<1>1. /\ index \in Index /\ history \in Seq(LFact) /\ index.used_at_startup \in Used
  BY IndexFields DEF LedgerTypes
<1>2. ids \in SUBSET Nat
  <2>1. \A i \in DOMAIN history : history[i] \in LFact
    BY <1>1
  <2>2. \A i \in DOMAIN history : history[i].id \in Nat
    BY <2>1 DEF LFact
  <2>3. facts_by_path_prefix \subseteq DOMAIN history
    BY DEF facts_by_path_prefix
  <2>4. QED
    BY <2>2, <2>3
<1>3. /\ mode = "up" /\ UNCHANGED <<kind, mode, history, wal>>
      /\ \E s \in Session, ok \in Persists :
            /\ index' = [index EXCEPT !.used_at_startup = Put(index.used_at_startup, s, ids)]
            /\ anchors' = anchors /\ persist_metadata_locked(ok)
  BY Zenon DEF record_used_at_startup
<1> HIDE DEF ids
<1>4. PICK s \in Session, ok \in Persists :
        /\ index' = [index EXCEPT !.used_at_startup = Put(index.used_at_startup, s, ids)]
        /\ anchors' = anchors /\ persist_metadata_locked(ok)
  BY <1>3, Zenon
<1> DEFINE u == Put(index.used_at_startup, s, ids)
<1>5. u \in Used
  <2>1. s \in Nat
    BY SharedFactsLogAssumption
  <2>2. QED
    BY <1>1, <1>2, <2>1, PutTypes, Zenon
<1>6. index' = [index EXCEPT !.used_at_startup = u]
  BY <1>4, Zenon
<1> HIDE DEF u
<1>7. /\ index' \in Index /\ index'.next_fact_id = index.next_fact_id
      /\ index'.fact_sources = index.fact_sources
      /\ index'.rolled_up = index.rolled_up /\ index'.fact_origins = index.fact_origins
  BY <1>1, <1>5, <1>6, IndexUsed
<1>8. anchors' = anchors /\ persist_metadata_locked(ok)
  BY <1>4, Zenon
<1>9. mode = "up" /\ UNCHANGED <<kind, mode, history, anchors, wal>>
  BY <1>3, <1>8, Zenon
<1>10. QED
  BY <1>7, <1>8, <1>9, MarkKeeps

LEMMA RollupKeeps ==
    ASSUME LedgerTypes, LedgerInv, mark_as_rollup
    PROVE  LedgerTypes' /\ LedgerInv'
<1>1. /\ index \in Index /\ index.rolled_up \in SUBSET Nat
      /\ DOMAIN index.fact_sources \in SUBSET Nat
  BY IndexFields DEF LedgerTypes
<1>2. /\ mode = "up" /\ UNCHANGED <<kind, mode, history, wal>>
      /\ \E id \in 1 .. index.next_fact_id, ok \in Persists :
            /\ index' = [index EXCEPT !.rolled_up = index.rolled_up \cup Markable({id})]
            /\ anchors' = anchors /\ persist_metadata_locked(ok)
  BY Zenon DEF mark_as_rollup
<1>3. PICK id \in 1 .. index.next_fact_id, ok \in Persists :
        /\ index' = [index EXCEPT !.rolled_up = index.rolled_up \cup Markable({id})]
        /\ anchors' = anchors /\ persist_metadata_locked(ok)
  BY <1>2, Zenon
<1> DEFINE r == index.rolled_up \cup Markable({id})
<1>4. r \in SUBSET Nat /\ r \subseteq index.rolled_up \cup DOMAIN index.fact_sources
  BY <1>1 DEF Markable
<1>5. index' = [index EXCEPT !.rolled_up = r]
  BY <1>3, Zenon
<1> HIDE DEF r
<1>6. /\ index' \in Index /\ index'.next_fact_id = index.next_fact_id
      /\ index'.fact_sources = index.fact_sources
      /\ index'.rolled_up = r /\ index'.fact_origins = index.fact_origins
  BY <1>1, <1>4, <1>5, IndexRolled
<1>7. anchors' = anchors /\ persist_metadata_locked(ok)
  BY <1>3, Zenon
<1>8. mode = "up" /\ UNCHANGED <<kind, mode, history, anchors, wal>>
  BY <1>2, <1>7, Zenon
<1>9. QED
  BY <1>4, <1>6, <1>7, <1>8, MarkKeeps

LEMMA ResetKeeps ==
    ASSUME LedgerTypes, LedgerInv, reset
    PROVE  LedgerTypes' /\ LedgerInv'
<1>1. /\ mode = "up" /\ kind = "memory" /\ history' = <<>>
      /\ index' = [EmptyIndex EXCEPT !.fact_origins = index.fact_origins]
      /\ UNCHANGED <<kind, mode, anchors, wal, file>>
  BY Zenon DEF reset, disk
<1>2. index' \in Index
  <2>1. index.fact_origins \in SUBSET Nat
    BY IndexFields DEF LedgerTypes
  <2>2. QED
    BY <1>1, <2>1, FirstIndex, Zenon
<1>3. /\ mode = "up" /\ kind = "memory" /\ history' = <<>>
      /\ UNCHANGED <<kind, mode, anchors, wal, file>>
  BY <1>1, Zenon
<1>4. LedgerTypes'
  BY <1>2, <1>3 DEF LedgerTypes
<1>5. QED
  BY <1>3, <1>4, MemoryKeeps

(* Starting again: the facts of a WAL that verifies, the index and the      *)
(* anchors of the file.                                                     *)
LEMMA RecoverKeeps ==
    ASSUME LedgerTypes, LedgerInv, recover
    PROVE  LedgerTypes' /\ LedgerInv'
<1> DEFINE n == Max({file.index.next_fact_id, 1})
<1>1. /\ file.index \in Index /\ file.anchors \in Seq(Anchor) /\ wal \in Seq(LRecord)
      /\ history \in Seq(LFact) /\ file.index.next_fact_id \in Nat
  BY IndexFields DEF LedgerTypes
<1>2. /\ mode = "down" /\ verify_wal_chain(wal) /\ mode' = "up" /\ kind' = "durable"
      /\ history' = FactsOf(wal) /\ anchors' = file.anchors /\ wal' = wal /\ file' = file
  BY Zenon DEF recover, disk
<1>3. n \in Nat /\ file.index.next_fact_id <= n
  <2> DEFINE S == {file.index.next_fact_id, 1}
  <2>1. CASE file.index.next_fact_id <= 1
    <3>1. n = 1
      <4>1. S \subseteq Int /\ 1 \in S /\ \A y \in S : y <= 1
        BY <1>1, <2>1
      <4>2. QED
        BY <4>1, MaxIs
    <3>2. QED
      BY <2>1, <3>1
  <2>2. CASE file.index.next_fact_id > 1
    <3>1. n = file.index.next_fact_id
      <4>1. /\ S \subseteq Int /\ file.index.next_fact_id \in S
            /\ \A y \in S : y <= file.index.next_fact_id
        BY <1>1, <2>2
      <4>2. QED
        BY <4>1, MaxIs
    <3>2. QED
      BY <1>1, <3>1
  <2>3. QED
    BY <1>1, <2>1, <2>2
<1>4. index' = [file.index EXCEPT !.next_fact_id = n]
  BY Zenon DEF recover
<1> HIDE DEF n
<1>5. /\ index' \in Index /\ index'.next_fact_id = n
      /\ index'.fact_sources = file.index.fact_sources
      /\ index'.rolled_up = file.index.rolled_up
      /\ index'.fact_origins = file.index.fact_origins
  BY <1>1, <1>3, <1>4, IndexCounted
<1>6. FactsOf(wal) \in Seq(LFact)
  BY <1>1, FactsOfType
<1>7. LedgerTypes'
  BY <1>1, <1>2, <1>5, <1>6 DEF LedgerTypes
<1>8. /\ kind # "memory" /\ Follows(file.index, history) /\ WalFollows
      /\ AnchorsOver(file.anchors, history)
  BY <1>2 DEF LedgerInv
<1>9. Follows(file.index, FactsOf(wal)) /\ AnchorsOver(file.anchors, FactsOf(wal))
  <2>1. CASE FactsOf(wal) = history
    BY <1>8, <2>1
  <2>2. CASE FactsOf(wal) # history
    <3>1. PICK g \in LFact : /\ FactsOf(wal) = Append(history, g)
                             /\ g.id \notin DOMAIN file.index.fact_sources
      BY <1>2, <1>8, <2>2 DEF WalFollows
    <3>2. QED
      BY <1>1, <1>8, <3>1, FollowsGrown, AnchorsKept
  <2>3. QED
    BY <2>1, <2>2
<1>10. Follows(index', FactsOf(wal))
  <2>1. index'.rolled_up \cup index'.fact_origins \subseteq DOMAIN file.index.fact_sources
    BY <1>5, <1>9 DEF Follows
  <2>2. QED
    BY <1>1, <1>3, <1>5, <1>9, <2>1, FollowsKept
<1>11. file'.index.next_fact_id <= index'.next_fact_id
  BY <1>2, <1>3, <1>5
<1>12. WalFollows'
  BY <1>2 DEF WalFollows
<1>13. QED
  BY <1>2, <1>7, <1>9, <1>10, <1>11, <1>12 DEF LedgerInv

(* A step of the ledger. *)
LEMMA LedgerStep ==
    ASSUME LedgerTypes, LedgerInv, Next
    PROVE  LedgerTypes' /\ LedgerInv'
<1>1. ASSUME NEW t \in Thread, append_inner(t) PROVE LedgerTypes' /\ LedgerInv'
  <2>1. /\ mode = "up" /\ UNCHANGED <<kind, mode>>
        /\ \E c \in Content : \E s \in Appenders(c) :
              \/ AppendSucceeds(t, [id |-> index.next_fact_id, by |-> s, says |-> c])
              \/ AppendFails([id |-> index.next_fact_id, by |-> s, says |-> c])
    BY <1>1, Zenon DEF append_inner
  <2>2. PICK c \in Content : \E s \in Appenders(c) :
              \/ AppendSucceeds(t, [id |-> index.next_fact_id, by |-> s, says |-> c])
              \/ AppendFails([id |-> index.next_fact_id, by |-> s, says |-> c])
    BY <2>1, Zenon
  <2>3. PICK s \in Appenders(c) :
              \/ AppendSucceeds(t, [id |-> index.next_fact_id, by |-> s, says |-> c])
              \/ AppendFails([id |-> index.next_fact_id, by |-> s, says |-> c])
    BY <2>2, Zenon
  <2>4. s \in Nat
    BY SharedFactsLogAssumption DEF Appenders
  <2>5. QED
    BY <2>1, <2>3, <2>4, AppendSucceedsKeeps, AppendFailsKeeps, Zenon
<1>2. ASSUME NEW t \in Thread, SealDue(t) PROVE LedgerTypes' /\ LedgerInv'
  <2>1. mode = "up" /\ Seal /\ UNCHANGED <<kind, mode, wal>>
    BY <1>2, Zenon DEF SealDue
  <2>2. QED
    BY <2>1, SealKeeps, Zenon
<1>3. CASE seal_anchor_now
  <2>1. mode = "up" /\ Seal /\ UNCHANGED <<kind, mode, wal>>
    BY <1>3, Zenon DEF seal_anchor_now
  <2>2. QED
    BY <2>1, SealKeeps, Zenon
<1>4. CASE with_anchor
  <2>1. UNCHANGED <<kind, mode, history, index, anchors, wal, file>>
    BY <1>4, Zenon DEF with_anchor, disk
  <2>2. QED
    BY <2>1, LedgerSame
<1>5. CASE record_used_at_startup
  BY <1>5, UsedKeeps
<1>6. CASE mark_as_rollup
  BY <1>6, RollupKeeps
<1>7. CASE reset
  BY <1>7, ResetKeeps
<1>8. CASE Crash
  <2>1. /\ kind # "memory" /\ mode' = "down"
        /\ UNCHANGED <<kind, history, index, anchors, wal, file>>
    BY <1>8, Zenon DEF Crash, memory, disk
  <2>2. QED
    BY <2>1 DEF LedgerTypes, LedgerInv, WalFollows
<1>9. CASE recover
  BY <1>9, RecoverKeeps
<1>10. CASE RecoverRefused
  <2>1. /\ mode = "down" /\ mode' = "refused"
        /\ UNCHANGED <<kind, history, index, anchors, wal, file>>
    BY <1>10, Zenon DEF RecoverRefused, memory, disk
  <2>2. QED
    BY <2>1 DEF LedgerTypes, LedgerInv, WalFollows
<1>11. QED
  BY <1>1, <1>2, <1>3, <1>4, <1>5, <1>6, <1>7, <1>8, <1>9, <1>10 DEF Next

LEMMA LedgerInvariant == Spec => [](LedgerTypes /\ LedgerInv)
<1>1. Init => LedgerTypes /\ LedgerInv
  BY LedgerInit
<1>2. LedgerTypes /\ LedgerInv /\ [Next]_vars => (LedgerTypes /\ LedgerInv)'
  <2> SUFFICES ASSUME LedgerTypes, LedgerInv, [Next]_vars PROVE LedgerTypes' /\ LedgerInv'
    OBVIOUS
  <2>1. CASE Next
    BY <2>1, LedgerStep
  <2>2. CASE UNCHANGED vars
    BY <2>2, LedgerSame DEF vars, memory, disk
  <2>3. QED
    BY <2>1, <2>2
<1>3. QED
  BY <1>1, <1>2, PTL DEF Spec

(* The index follows the ledger: for every number of callers, every way the *)
(* writes may fail and however often the process crashes between them, what *)
(* append_inner attributed is in the ledger, under its last appender.       *)
THEOREM IndexIsSound == Spec => []IndexFollowsLedger
<1>1. LedgerInv => IndexFollowsLedger
  BY DEF LedgerInv, Follows, IndexFollowsLedger
<1>2. QED
  BY <1>1, LedgerInvariant, PTL

(* The anchors stay bound: although append seals after it has let go of the *)
(* lock and the metadata may be older than the WAL, the chain of anchors    *)
(* verifies, each anchor is over a prefix of the ledger and later ones are  *)
(* over longer prefixes.                                                    *)
THEOREM AnchorsAreSound == Spec => []AnchorsBind
<1>1. LedgerInv => AnchorsBind
  BY DEF LedgerInv, AnchorsOver, AnchorsBind
<1>2. QED
  BY <1>1, LedgerInvariant, PTL

-----------------------------------------------------------------------------
(* What a ledger holds at a version. *)

LEMMA MaxBelow ==
    ASSUME NEW v \in Nat, NEW S, S \subseteq 1 .. v, S # {}
    PROVE  Max(S) \in S /\ \A y \in S : y <= Max(S)
<1>1. S \subseteq Nat /\ S \subseteq Int /\ \A x \in S : x <= v
  OBVIOUS
<1>2. PICK m \in S : \A x \in S : x <= m
  BY <1>1, GreatestBelow
<1>3. QED
  BY <1>1, <1>2, MaxIs

(* Facts appended later do not change what was in force at a version. *)
LEMMA InForceKept ==
    ASSUME NEW h \in Seq(LFact), NEW f \in LFact, NEW v \in Nat, v <= Len(h), NEW hidden
    PROVE  SaidIn(Append(h, f), v, hidden) = SaidIn(h, v, hidden)
<1> DEFINE g == Append(h, f)
<1>1. \A i \in 1 .. v : g[i] = h[i]
  OBVIOUS
<1> HIDE DEF g
<1>2. ASSUME NEW p PROVE InForceIn(g, v, hidden, p) = InForceIn(h, v, hidden, p)
  <2> DEFINE I == {i \in 1 .. v : h[i].says.path = p /\ h[i].id \notin hidden}
  <2>1. {i \in 1 .. v : g[i].says.path = p /\ g[i].id \notin hidden} = I
    BY <1>1
  <2>2. I \subseteq 1 .. v
    OBVIOUS
  <2>3. CASE I = {}
    BY <2>1, <2>3 DEF InForceIn
  <2>4. CASE I # {}
    <3> HIDE DEF I
    <3>1. Max(I) \in 1 .. v
      BY <2>2, <2>4, MaxBelow
    <3>2. g[Max(I)] = h[Max(I)]
      BY <1>1, <3>1
    <3>3. QED
      BY <2>1, <2>4, <3>2, Zenon DEF InForceIn, I
  <2>5. QED
    BY <2>3, <2>4
<1>3. PathsIn(g, v) = PathsIn(h, v)
  BY <1>1 DEF PathsIn
<1>4. SaidIn(g, v, hidden) = SaidIn(h, v, hidden)
  BY <1>2, <1>3 DEF SaidIn
<1>5. QED
  BY <1>4 DEF g

LEMMA GroundedKept ==
    ASSUME NEW h \in Seq(LFact), NEW f \in LFact, NEW d, d.v_trigger \in Nat,
           d.v_trigger <= Len(h), Grounded(h, d)
    PROVE  Grounded(Append(h, f), d)
<1>1. SaidIn(Append(h, f), d.v_trigger, d.hidden) = SaidIn(h, d.v_trigger, d.hidden)
  BY InForceKept
<1>2. \A i \in DOMAIN h : i \in DOMAIN Append(h, f) /\ Append(h, f)[i] = h[i]
  OBVIOUS
<1>3. QED
  BY <1>1, <1>2, Zenon DEF Grounded

LEMMA EntriesKept ==
    ASSUME NEW h \in Seq(LFact), NEW f \in LFact, NEW v \in Nat, v <= Len(h), NEW hidden
    PROVE  EntriesAt(Append(h, f), v, hidden) = EntriesAt(h, v, hidden)
<1>1. SubSeq(Append(h, f), 1, v) = SubSeq(h, 1, v)
  BY InitialSegments
<1>2. QED
  BY <1>1, Zenon DEF EntriesAt

(* snapshot_at fences by the version: it reads of a longer ledger what the  *)
(* ledger, cut off at the version, holds.                                   *)
LEMMA SnapshotIsOfVersion ==
    ASSUME NEW h \in Seq(LFact), NEW v \in Nat, v <= Len(h), NEW hidden
    PROVE  snapshot_at(h, hidden, v) = EntriesAt(h, v, hidden)
<1> DEFINE g == SubSeq(h, 1, v)
           J == {i \in DOMAIN g : g[i].id \notin hidden
                                  /\ g[i].says.path \notin {"other", "default_policy"}}
<1>1. DOMAIN h = 1 .. Len(h) /\ Len(h) \in Nat /\ \A i \in 1 .. v : h[i] \in LFact
  OBVIOUS
<1>2. DOMAIN g = 1 .. v /\ \A i \in 1 .. v : g[i] = h[i]
  <2>1. /\ g \in Seq(LFact) /\ Len(g) = IF 1 <= v THEN v - 1 + 1 ELSE 0
        /\ \A i \in 1 .. v - 1 + 1 : g[i] = h[1 + i - 1]
    BY <1>1, SubSeqProperties
  <2> HIDE DEF g
  <2>2. Len(g) = v /\ DOMAIN g = 1 .. Len(g)
    BY <2>1
  <2>3. QED
    BY <2>1, <2>2
<1> HIDE DEF g
<1>3. Fenced(h, hidden, v) = J
  <2>1. \A i \in 1 .. Len(h) : i - 1 < v <=> i \in 1 .. v
    BY <1>1
  <2>2. 1 .. v \subseteq 1 .. Len(h)
    BY <1>1
  <2>3. QED
    BY <1>1, <1>2, <2>1, <2>2 DEF Fenced
<1>4. J \subseteq 1 .. v
  BY <1>2
<1> HIDE DEF J
<1>5. Latest(h, J) = Latest(g, J)
  <2>1. \A i \in J : g[i] = h[i]
    BY <1>2, <1>4
  <2> DEFINE N == {j \in J : \A k \in J : h[k].says.path = h[j].says.path => k <= j}
  <2>2. {j \in J : \A k \in J : g[k].says.path = g[j].says.path => k <= j} = N
    BY <2>1, Zenon
  <2>3. {j \in N : h[j].says.value.kind # "tombstone"}
          = {j \in N : g[j].says.value.kind # "tombstone"}
    BY <2>1, Zenon
  <2> DEFINE A == {j \in N : h[j].says.value.kind # "tombstone"}
  <2>4. A \subseteq J
    OBVIOUS
  <2>5. Latest(h, J) = {h[i].says.value : i \in A}
    BY Zenon DEF Latest
  <2>6. Latest(g, J) = {g[i].says.value : i \in A}
    BY <2>2, <2>3, Zenon DEF Latest
  <2> HIDE DEF A
  <2>7. QED
    BY <2>1, <2>4, <2>5, <2>6
<1>6. EntriesAt(h, v, hidden) = Latest(g, J)
  BY Zenon DEF EntriesAt, g, J
<1>7. QED
  BY <1>3, <1>5, <1>6, Zenon DEF snapshot_at

(* The entries of a version are what is in force there, tombstones apart. *)
LEMMA EntriesAreInForce ==
    ASSUME NEW h \in Seq(LFact), NEW v \in Nat, v <= Len(h), NEW hidden
    PROVE  EntriesAt(h, v, hidden) = {e \in SaidIn(h, v, hidden) : e.kind # "tombstone"}
<1> DEFINE J == Fenced(h, hidden, v)
           N == {j \in J : \A k \in J : h[k].says.path = h[j].says.path => k <= j}
           I(p) == {i \in 1 .. v : h[i].says.path = p /\ h[i].id \notin hidden}
<1>1. J = {i \in 1 .. v : h[i].id \notin hidden
                          /\ h[i].says.path \notin {"other", "default_policy"}}
  <2>1. DOMAIN h = 1 .. Len(h) /\ Len(h) \in Nat
    OBVIOUS
  <2>2. \A i \in 1 .. Len(h) : i - 1 < v <=> i \in 1 .. v
    BY <2>1
  <2>3. 1 .. v \subseteq 1 .. Len(h)
    BY <2>1
  <2>4. QED
    BY <2>1, <2>2, <2>3 DEF Fenced
<1> HIDE DEF J
<1>2. EntriesAt(h, v, hidden)
        = {h[i].says.value : i \in {j \in N : h[j].says.value.kind # "tombstone"}}
  BY SnapshotIsOfVersion DEF snapshot_at, Latest, J
<1>3. \A p : I(p) \subseteq 1 .. v
  OBVIOUS
<1>4. \A p : I(p) \subseteq Int
  OBVIOUS
<1>5. ASSUME NEW j \in N
      PROVE  h[j].says.value \in SaidIn(h, v, hidden)
  <2> DEFINE p == h[j].says.path
  <2>1. j \in J /\ j \in 1 .. v /\ p \notin {"other", "default_policy"}
    BY <1>1
  <2>2. j \in I(p) /\ \A k \in I(p) : k \in J /\ h[k].says.path = h[j].says.path
    BY <1>1, <2>1
  <2>3. \A k \in I(p) : k <= j
    BY <2>2
  <2>4. p \in PathsIn(h, v)
    BY <2>1 DEF PathsIn
  <2> HIDE DEF p
  <2>5. Max(I(p)) = j
    BY <1>4, <2>2, <2>3, MaxIs
  <2>6. InForceIn(h, v, hidden, p) = {h[j].says.value}
    BY <2>2, <2>5, Zenon DEF InForceIn
  <2>7. QED
    BY <2>4, <2>6 DEF SaidIn
<1>6. ASSUME NEW e \in SaidIn(h, v, hidden)
      PROVE  \E j \in N : e = h[j].says.value
  <2>1. PICK p \in PathsIn(h, v) : e \in InForceIn(h, v, hidden, p)
    BY DEF SaidIn
  <2>2. I(p) # {} /\ e = h[Max(I(p))].says.value
    <3>1. CASE I(p) = {}
      <4>1. InForceIn(h, v, hidden, p) = {}
        BY <3>1, Zenon DEF InForceIn
      <4>2. QED
        BY <2>1, <4>1
    <3>2. CASE I(p) # {}
      <4>1. InForceIn(h, v, hidden, p) = {h[Max(I(p))].says.value}
        BY <3>2, Zenon DEF InForceIn
      <4>2. QED
        BY <2>1, <3>2, <4>1
    <3>3. QED
      BY <3>1, <3>2
  <2> DEFINE j == Max(I(p))
  <2>3. j \in I(p) /\ \A y \in I(p) : y <= j
    BY <1>3, <2>2, MaxBelow
  <2> HIDE DEF j
  <2>4. j \in 1 .. v /\ h[j].says.path = p /\ h[j].id \notin hidden
    BY <2>3
  <2>5. p \notin {"other", "default_policy"}
    BY <2>1 DEF PathsIn
  <2>6. j \in J
    BY <1>1, <2>4, <2>5
  <2>7. \A k \in J : h[k].says.path = h[j].says.path => k <= j
    BY <1>1, <2>3, <2>4
  <2>8. j \in N
    BY <2>6, <2>7
  <2>9. QED
    BY <2>2, <2>8 DEF j
<1> HIDE DEF N
<1>7. QED
  BY <1>2, <1>5, <1>6

(* What is in force is the value of some fact. *)
LEMMA InForceIsContent ==
    ASSUME NEW h \in Seq(LFact), NEW v \in Nat, v <= Len(h), NEW hidden,
           NEW e \in SaidIn(h, v, hidden)
    PROVE  \E c \in Content : e = c.value
<1>1. PICK p \in PathsIn(h, v) : e \in InForceIn(h, v, hidden, p)
  BY DEF SaidIn
<1> DEFINE I == {i \in 1 .. v : h[i].says.path = p /\ h[i].id \notin hidden}
<1>2. I \subseteq 1 .. v
  OBVIOUS
<1>3. InForceIn(h, v, hidden, p) = IF I = {} THEN {} ELSE {h[Max(I)].says.value}
  BY Zenon DEF InForceIn
<1> HIDE DEF I
<1>4. I # {} /\ e = h[Max(I)].says.value
  BY <1>1, <1>3
<1>5. Max(I) \in 1 .. v
  BY <1>2, <1>4, MaxBelow
<1>6. h[Max(I)] \in LFact
  BY <1>5
<1>7. h[Max(I)].says \in Content
  BY <1>6 DEF LFact
<1>8. QED
  BY <1>4, <1>7

(* A default policy that lets a role through has been set, by the version   *)
(* or in the fact right after it.                                           *)
LEMMA PolicyIsSet ==
    ASSUME NEW h \in Seq(LFact), NEW hidden, NEW v \in Nat, NEW r \in Role,
           load_default_policy(h, hidden, v)[r] = "Allow"
    PROVE  \E i \in DOMAIN h : /\ i <= v + 1
                               /\ h[i].says.path = "default_policy"
                               /\ h[i].says.value.kind = "policy"
                               /\ h[i].says.value.effects[r] = "Allow"
<1> DEFINE I == {i \in DOMAIN h : h[i].id \notin hidden /\ i - 1 <= v
                                  /\ h[i].says.path = "default_policy"}
           p == h[Max(I)].says.value
<1>1. load_default_policy(h, hidden, v)
        = IF I = {} THEN DefaultPolicy ELSE IF p.kind = "policy" THEN p.effects ELSE DefaultPolicy
  BY Zenon DEF load_default_policy
<1>2. DefaultPolicy[r] # "Allow"
  BY DEF DefaultPolicy
<1>3. I \subseteq 1 .. Len(h) /\ Len(h) \in Nat
  OBVIOUS
<1>4. I # {} /\ p.kind = "policy" /\ p.effects[r] = "Allow"
  BY <1>1, <1>2, Zenon
<1>5. Max(I) \in I
  <2> HIDE DEF I
  <2>1. QED
    BY <1>3, <1>4, MaxBelow
<1>6. /\ Max(I) \in DOMAIN h /\ Max(I) - 1 <= v /\ Max(I) \in Nat
      /\ h[Max(I)].says.path = "default_policy"
  BY <1>3, <1>5
<1> HIDE DEF I
<1>7. Max(I) <= v + 1
  BY <1>6
<1>8. QED
  BY <1>4, <1>6, <1>7

-----------------------------------------------------------------------------
(* The gate. *)

(* evaluate says "Allow" only of a call with a grant. *)
LEMMA AllowIsGrounded ==
    ASSUME NEW h \in Seq(LFact), NEW hidden, NEW later, NEW entries, NEW d,
           d.v_trigger \in Nat, d.v_trigger <= Len(h), d.role \in Role, d.hidden = hidden,
           entries = EntriesAt(h, d.v_trigger, hidden), ~CannotRebuild(entries),
           evaluate(entries, load_default_policy(h, later, d.v_trigger), d) = "Allow"
    PROVE  Grounded(h, d)
<1> DEFINE Said == SaidIn(h, d.v_trigger, hidden)
           Hit(state) == {e \in entries : e.state = state /\ Matches(e, d)}
           About == {e \in Said : e.kind = "entry" /\ e.state = "Active" /\ Matches(e, d)}
           P == load_default_policy(h, later, d.v_trigger)
           Refused == \E e \in Hit("Active") : Broken(e) \/ (e.effect = "Deny" /\ Holds(e, d))
<1>1. entries = {e \in Said : e.kind # "tombstone"}
  BY EntriesAreInForce
<1>2. \A e \in entries : e.kind = "entry"
  BY DEF CannotRebuild
<1>3. \A e \in Said : e.kind = "entry" => e.effect \in Effect
  BY InForceIsContent, PermissionAssumption
<1>4. evaluate(entries, P, d)
        = IF Refused THEN "Deny"
          ELSE IF \E e \in Hit("Active") : Holds(e, d) THEN "Allow"
          ELSE IF Hit("Candidate") # {} THEN "Candidate" ELSE P[d.role]
  BY Zenon DEF evaluate
<1>5. evaluate(entries, P, d) = "Allow"
  OBVIOUS
<1>6. Hit("Active") = About
  BY <1>1, <1>2
<1> HIDE DEF Said, P
<1>7. ~Refused
  <2> HIDE DEF Refused
  <2>1. QED
    BY <1>4, <1>5
<1>8. \A e \in Said : e.kind # "malformed"
  BY <1>1, <1>2
<1>9. \A e \in About : e.effect = "Allow" \/ d.role \notin e.conditions
  <2>1. \A e \in About : e.effect \in {"Allow", "Deny"}
    BY <1>3 DEF Effect
  <2>2. QED
    BY <1>6, <1>7, <2>1 DEF Holds
<1>10. \/ \E e \in About : e.effect = "Allow" /\ d.role \in e.conditions
       \/ P[d.role] = "Allow"
  <2>1. CASE \E e \in Hit("Active") : Holds(e, d)
    BY <1>6, <1>9, <2>1 DEF Holds
  <2>2. CASE ~\E e \in Hit("Active") : Holds(e, d)
    <3> DEFINE Q == \E e \in Hit("Active") : Holds(e, d)
               C == Hit("Candidate") # {}
    <3>1. ~Refused /\ ~Q
      BY <1>7, <2>2
    <3>2. (IF Refused THEN "Deny" ELSE IF Q THEN "Allow"
           ELSE IF C THEN "Candidate" ELSE P[d.role]) = "Allow"
      BY <1>4, <1>5
    <3> HIDE DEF Refused, Q, C
    <3>3. P[d.role] = "Allow"
      BY <3>1, <3>2
    <3>4. QED
      BY <3>3
  <2>3. QED
    BY <2>1, <2>2
<1>11. P[d.role] = "Allow" =>
         \E i \in DOMAIN h : /\ i <= d.v_trigger + 1
                             /\ h[i].says.path = "default_policy"
                             /\ h[i].says.value.kind = "policy"
                             /\ h[i].says.value.effects[d.role] = "Allow"
  BY PolicyIsSet DEF P
<1>12. QED
  BY <1>8, <1>9, <1>10, <1>11, Zenon DEF Grounded, Said

(* The routes see of a call its role, type and target. *)
LEMMA RoutesSeeTheCall ==
    ASSUME NEW p, NEW c, NEW d, d.role = c.role, d.io_type = c.io_type, d.target = c.target
    PROVE  Tightened(p, c) <=> Tightened(p, d)
<1>1. decide(p, c) = decide(p, d)
  BY Zenon DEF decide
<1>2. QED
  BY <1>1, Zenon DEF Tightened

LEMMA EvaluateSeesTheCall ==
    ASSUME NEW entries, NEW P, NEW c, NEW d, d.role = c.role, d.io_type = c.io_type
    PROVE  evaluate(entries, P, c) = evaluate(entries, P, d)
<1>1. \A e : Matches(e, c) <=> Matches(e, d)
  BY Zenon DEF Matches
<1>2. \A e : Holds(e, c) <=> Holds(e, d)
  BY Zenon DEF Holds
<1> DEFINE Hit(state) == {e \in entries : e.state = state /\ Matches(e, c)}
           Hid(state) == {e \in entries : e.state = state /\ Matches(e, d)}
<1>3. \A s : Hit(s) = Hid(s)
  BY <1>1
<1> DEFINE A == \E e \in Hit("Active") : Broken(e) \/ (e.effect = "Deny" /\ Holds(e, c))
           B == \E e \in Hit("Active") : Holds(e, c)
           C == Hit("Candidate") # {}
<1>4. evaluate(entries, P, c)
        = IF A THEN "Deny" ELSE IF B THEN "Allow" ELSE IF C THEN "Candidate" ELSE P[c.role]
  BY Zenon DEF evaluate
<1> DEFINE X == \E e \in Hid("Active") : Broken(e) \/ (e.effect = "Deny" /\ Holds(e, d))
           Y == \E e \in Hid("Active") : Holds(e, d)
           Z == Hid("Candidate") # {}
<1>5. evaluate(entries, P, d)
        = IF X THEN "Deny" ELSE IF Y THEN "Allow" ELSE IF Z THEN "Candidate" ELSE P[d.role]
  BY Zenon DEF evaluate
<1>6. (A <=> X) /\ (B <=> Y) /\ (C <=> Z)
  <2> HIDE DEF Hit, Hid
  <2>1. Hit("Active") = Hid("Active") /\ Hit("Candidate") = Hid("Candidate")
    BY <1>3, Zenon
  <2>2. QED
    BY <1>2, <2>1, Zenon
<1> HIDE DEF A, B, C, X, Y, Z
<1>7. CASE A
  BY <1>4, <1>5, <1>6, <1>7, Zenon
<1>8. CASE ~A /\ B
  BY <1>4, <1>5, <1>6, <1>8, Zenon
<1>9. CASE ~A /\ ~B /\ C
  BY <1>4, <1>5, <1>6, <1>9, Zenon
<1>10. CASE ~A /\ ~B /\ ~C
  BY <1>4, <1>5, <1>6, <1>10, Zenon
<1>11. QED
  BY <1>7, <1>8, <1>9, <1>10, Zenon

(* A ledger that is written somewhere only grows, a crash and a recovery    *)
(* between two steps included.                                              *)
LEMMA HistoryGrows ==
    ASSUME LedgerTypes, LedgerInv, Next, kind' # "memory"
    PROVE  /\ kind # "memory"
           /\ history' = history \/ \E g \in LFact : history' = Append(history, g)
<1>1. ASSUME NEW t \in Thread, append_inner(t)
      PROVE  /\ kind' = kind
             /\ history' = history \/ \E g \in LFact : history' = Append(history, g)
  <2>1. /\ kind' = kind
        /\ \E c \in Content : \E s \in Appenders(c) :
              \/ AppendSucceeds(t, [id |-> index.next_fact_id, by |-> s, says |-> c])
              \/ AppendFails([id |-> index.next_fact_id, by |-> s, says |-> c])
    BY <1>1, Zenon DEF append_inner
  <2>2. PICK c \in Content : \E s \in Appenders(c) :
              \/ AppendSucceeds(t, [id |-> index.next_fact_id, by |-> s, says |-> c])
              \/ AppendFails([id |-> index.next_fact_id, by |-> s, says |-> c])
    BY <2>1, Zenon
  <2>3. PICK s \in Appenders(c) :
              \/ AppendSucceeds(t, [id |-> index.next_fact_id, by |-> s, says |-> c])
              \/ AppendFails([id |-> index.next_fact_id, by |-> s, says |-> c])
    BY <2>2, Zenon
  <2> DEFINE f == [id |-> index.next_fact_id, by |-> s, says |-> c]
  <2>4. f \in LFact
    <3>1. s \in Nat /\ index.next_fact_id \in Nat
      BY SharedFactsLogAssumption, IndexFields DEF Appenders, LedgerTypes
    <3>2. QED
      BY <3>1 DEF LFact
  <2>5. AppendSucceeds(t, f) \/ AppendFails(f)
    BY <2>3, Zenon
  <2> HIDE DEF f
  <2>6. history' = Append(history, f) \/ history' = history
    BY <2>5, Zenon DEF AppendSucceeds, AppendFails
  <2>7. QED
    BY <2>1, <2>4, <2>6, Zenon
<1>2. ASSUME NEW t \in Thread, SealDue(t) PROVE kind' = kind /\ history' = history
  BY <1>2, Zenon DEF SealDue, Seal
<1>3. CASE seal_anchor_now
  BY <1>3, Zenon DEF seal_anchor_now, Seal
<1>4. CASE with_anchor
  BY <1>4, Zenon DEF with_anchor
<1>5. CASE record_used_at_startup
  BY <1>5, Zenon DEF record_used_at_startup
<1>6. CASE mark_as_rollup
  BY <1>6, Zenon DEF mark_as_rollup
<1>7. CASE reset
  BY <1>7, Zenon DEF reset
<1>8. CASE Crash
  BY <1>8, Zenon DEF Crash, memory
<1>9. CASE recover
  <2>1. mode = "down" /\ verify_wal_chain(wal) /\ history' = FactsOf(wal)
    BY <1>9, Zenon DEF recover
  <2>2. kind # "memory" /\ WalFollows
    BY <2>1 DEF LedgerInv
  <2>3. QED
    BY <2>1, <2>2, Zenon DEF WalFollows
<1>10. CASE RecoverRefused
  BY <1>10, Zenon DEF RecoverRefused, memory
<1>11. QED
  BY <1>1, <1>2, <1>3, <1>4, <1>5, <1>6, <1>7, <1>8, <1>9, <1>10, Zenon DEF Next

(* What is settled stays so while the ledger grows. *)
LEMMA SettledKept ==
    ASSUME LedgerTypes, NEW d, Settled(d), gate' = gate,
           kind' # "memory" =>
              /\ kind # "memory"
              /\ history' = history \/ \E g \in LFact : history' = Append(history, g)
    PROVE  Settled(d)'
<1>1. history \in Seq(LFact)
  BY DEF LedgerTypes
<1>2. CASE kind' = "memory"
  BY <1>2 DEF Settled
<1>3. CASE kind' # "memory" /\ history' = history
  BY <1>3 DEF Settled
<1>4. CASE kind' # "memory" /\ history' # history
  <2>1. PICK g \in LFact : history' = Append(history, g)
    BY <1>4
  <2>2. d.v_trigger \in Nat /\ d.v_trigger <= Len(history) /\ kind # "memory"
    BY <1>4 DEF Settled
  <2>3. d.v_trigger <= Len(history')
    BY <1>1, <2>1, <2>2
  <2>4. EntriesAt(history', d.v_trigger, d.hidden) = EntriesAt(history, d.v_trigger, d.hidden)
    BY <1>1, <2>1, <2>2, EntriesKept
  <2>5. Grounded(history, d) => Grounded(history', d)
    BY <1>1, <2>1, <2>2, GroundedKept
  <2>6. QED
    BY <2>2, <2>3, <2>4, <2>5, Zenon DEF Settled
<1>5. QED
  BY <1>2, <1>3, <1>4

LEMMA CallKept ==
    ASSUME LedgerTypes, CallInv, gate' = gate, call' = call,
           kind' # "memory" =>
              /\ kind # "memory"
              /\ history' = history \/ \E g \in LFact : history' = Append(history, g)
    PROVE  CallInv'
<1>1. history \in Seq(LFact)
  BY DEF LedgerTypes
<1>2. CASE kind' = "memory"
  BY <1>2, Zenon DEF CallInv
<1>3. CASE kind' # "memory" /\ history' = history
  BY <1>3, Zenon DEF CallInv
<1>4. CASE kind' # "memory" /\ history' # history
  <2>1. PICK g \in LFact : history' = Append(history, g)
    BY <1>4
  <2>2. kind # "memory"
    BY <1>4
  <2>3. CASE call = NoCall
    <3>1. call.pc = "none"
      BY <2>3 DEF NoCall
    <3>2. QED
      BY <2>3, <3>1 DEF CallInv
  <2>4. CASE call # NoCall
    <3>1. call.pc \in {"frozen", "read"}
      BY <2>4, Zenon DEF CallInv
    <3>2. /\ call.c.role \in Role /\ call.c.v_trigger \in Nat /\ ~Tightened(gate, call.c)
          /\ call.c.v_trigger <= Len(history)
      BY <2>2, <3>1 DEF CallInv
    <3>3. call.c.v_trigger <= Len(history')
      BY <1>1, <2>1, <3>2
    <3>4. EntriesAt(history', call.c.v_trigger, call.hidden)
            = EntriesAt(history, call.c.v_trigger, call.hidden)
      BY <1>1, <2>1, <3>2, EntriesKept
    <3>5. QED
      BY <2>2, <3>1, <3>2, <3>3, <3>4, Zenon DEF CallInv
  <2>5. QED
    BY <2>3, <2>4
<1>5. QED
  BY <1>2, <1>3, <1>4

LEMMA NoCallIsFine ==
    ASSUME call' = NoCall
    PROVE  CallInv'
<1>1. call'.pc = "none"
  BY DEF NoCall
<1>2. QED
  BY <1>1 DEF CallInv

(* The answer a check leaves behind. *)
Answer(c, hidden, entries, verdict) ==
    [role |-> c.role, io_type |-> c.io_type, target |-> c.target, tenant |-> c.tenant,
     v_trigger |-> c.v_trigger, hidden |-> hidden, entries |-> entries, verdict |-> verdict]

(* One more answer, on a ledger that stands still. *)
LEMMA OneMoreSettled ==
    ASSUME LedgerTypes, DecidedInv, NEW d, Settled(d), UNCHANGED <<gate, kind, history>>,
           decided' = decided \cup {d}
    PROVE  DecidedInv'
<1>1. \A x \in decided' : Settled(x)
  BY DEF DecidedInv
<1>2. ASSUME NEW x \in decided' PROVE Settled(x)'
  BY <1>1, SettledKept
<1>3. QED
  BY <1>2 DEF DecidedInv

LEMMA FreezeKeeps ==
    ASSUME LedgerTypes, CallInv, DecidedInv, Freeze
    PROVE  CallInv' /\ DecidedInv'
<1>1. UNCHANGED <<gate, kind, history>>
  BY Zenon DEF Freeze, memory
<1>2. PICK r \in Role, t \in IoType, g \in Target, n \in Tenant :
        LET c == [role |-> r, io_type |-> t, target |-> g, tenant |-> n,
                  v_trigger |-> Len(history)]
        IN  IF Tightened(gate, c)
            THEN /\ Return(c, index.rolled_up, {}, "Deny")
                 /\ call' = NoCall
            ELSE /\ call' = [pc |-> "frozen", c |-> c, entries |-> {}, hidden |-> {}]
                 /\ UNCHANGED decided
  BY Zenon DEF Freeze
<1> DEFINE c == [role |-> r, io_type |-> t, target |-> g, tenant |-> n,
                 v_trigger |-> Len(history)]
<1>3. c.role \in Role /\ c.v_trigger = Len(history)
  OBVIOUS
<1>4. Len(history) \in Nat
  BY DEF LedgerTypes
<1>5. \/ Tightened(gate, c) /\ Return(c, index.rolled_up, {}, "Deny") /\ call' = NoCall
      \/ /\ ~Tightened(gate, c) /\ decided' = decided
         /\ call' = [pc |-> "frozen", c |-> c, entries |-> {}, hidden |-> {}]
  BY <1>2, Zenon
<1> HIDE DEF c
<1>6. CASE Tightened(gate, c) /\ Return(c, index.rolled_up, {}, "Deny") /\ call' = NoCall
  <2> DEFINE d == Answer(c, index.rolled_up, {}, "Deny")
  <2>1. decided' = decided \cup {d}
    BY <1>6, Zenon DEF Return, Answer
  <2>2. /\ d.role = c.role /\ d.io_type = c.io_type /\ d.target = c.target
        /\ d.v_trigger = c.v_trigger /\ d.verdict = "Deny"
    BY DEF Answer
  <2> HIDE DEF d
  <2>3. Tightened(gate, d)
    BY <1>6, <2>2, RoutesSeeTheCall
  <2>4. Settled(d)
    BY <1>3, <1>4, <2>2, <2>3 DEF Settled
  <2>5. QED
    BY <1>1, <1>6, <2>1, <2>4, OneMoreSettled, NoCallIsFine
<1>7. CASE /\ ~Tightened(gate, c) /\ decided' = decided
           /\ call' = [pc |-> "frozen", c |-> c, entries |-> {}, hidden |-> {}]
  <2>1. call'.pc = "frozen" /\ call'.c = c
    BY <1>7
  <2>2. CallInv'
    BY <1>1, <1>3, <1>4, <1>7, <2>1 DEF CallInv
  <2>3. ASSUME NEW x \in decided' PROVE Settled(x)'
    BY <1>1, <1>7, SettledKept DEF DecidedInv
  <2>4. QED
    BY <2>2, <2>3 DEF DecidedInv
<1>8. QED
  BY <1>5, <1>6, <1>7

LEMMA ReadEntriesKeeps ==
    ASSUME LedgerTypes, CallInv, DecidedInv, ReadEntries
    PROVE  CallInv' /\ DecidedInv'
<1> DEFINE entries == snapshot_at(history, index.rolled_up, call.c.v_trigger)
<1>1. UNCHANGED <<gate, kind, history>> /\ call.pc = "frozen"
  BY Zenon DEF ReadEntries, vars, memory
<1>2. history \in Seq(LFact)
  BY DEF LedgerTypes
<1>3. /\ call.c.role \in Role /\ call.c.v_trigger \in Nat /\ ~Tightened(gate, call.c)
      /\ kind # "memory" => call.c.v_trigger <= Len(history)
  BY <1>1 DEF CallInv
<1>4. kind # "memory" => entries = EntriesAt(history, call.c.v_trigger, index.rolled_up)
  BY <1>2, <1>3, SnapshotIsOfVersion
<1>5. \/ /\ CannotRebuild(entries) /\ Return(call.c, index.rolled_up, entries, "Deny")
         /\ call' = NoCall
      \/ /\ ~CannotRebuild(entries) /\ decided' = decided
         /\ call' = [call EXCEPT !.pc = "read", !.entries = entries, !.hidden = index.rolled_up]
  BY Zenon DEF ReadEntries
<1> HIDE DEF entries
<1>6. CASE /\ CannotRebuild(entries) /\ Return(call.c, index.rolled_up, entries, "Deny")
           /\ call' = NoCall
  <2> DEFINE d == Answer(call.c, index.rolled_up, entries, "Deny")
  <2>1. decided' = decided \cup {d}
    BY <1>6, Zenon DEF Return, Answer
  <2>2. /\ d.v_trigger = call.c.v_trigger /\ d.hidden = index.rolled_up
        /\ d.entries = entries /\ d.verdict = "Deny"
    BY DEF Answer
  <2> HIDE DEF d
  <2>3. Settled(d)
    BY <1>3, <1>4, <2>2 DEF Settled
  <2>4. QED
    BY <1>1, <1>6, <2>1, <2>3, OneMoreSettled, NoCallIsFine
<1>7. CASE /\ ~CannotRebuild(entries) /\ decided' = decided
           /\ call' = [call EXCEPT !.pc = "read", !.entries = entries, !.hidden = index.rolled_up]
  <2>1. /\ call'.pc = "read" /\ call'.c = call.c /\ call'.entries = entries
        /\ call'.hidden = index.rolled_up
    BY <1>7
  <2>2. CallInv'
    BY <1>1, <1>3, <1>4, <1>7, <2>1, Zenon DEF CallInv
  <2>3. ASSUME NEW x \in decided' PROVE Settled(x)'
    BY <1>1, <1>7, SettledKept DEF DecidedInv
  <2>4. QED
    BY <2>2, <2>3 DEF DecidedInv
<1>8. QED
  BY <1>5, <1>6, <1>7

LEMMA EvaluateKeeps ==
    ASSUME LedgerTypes, CallInv, DecidedInv, Evaluate
    PROVE  CallInv' /\ DecidedInv'
<1> DEFINE P == load_default_policy(history, index.rolled_up, call.c.v_trigger)
           w == evaluate(call.entries, P, call.c)
           d == Answer(call.c, call.hidden, call.entries, w)
<1>1. /\ UNCHANGED <<gate, kind, history>> /\ call.pc = "read" /\ call' = NoCall
      /\ decided' = decided \cup {d}
  BY Zenon DEF Evaluate, vars, memory, Return, Answer
<1>2. history \in Seq(LFact)
  BY DEF LedgerTypes
<1>3. /\ call.c.role \in Role /\ call.c.v_trigger \in Nat /\ ~Tightened(gate, call.c)
      /\ kind # "memory" =>
            /\ call.c.v_trigger <= Len(history) /\ ~CannotRebuild(call.entries)
            /\ call.entries = EntriesAt(history, call.c.v_trigger, call.hidden)
  BY <1>1 DEF CallInv
<1>4. /\ d.role = call.c.role /\ d.io_type = call.c.io_type /\ d.target = call.c.target
      /\ d.v_trigger = call.c.v_trigger /\ d.hidden = call.hidden
      /\ d.entries = call.entries /\ d.verdict = w
  <2> HIDE DEF P, w
  <2>1. QED
    BY DEF Answer
<1> HIDE DEF d
<1>5. ~Tightened(gate, d)
  BY <1>3, <1>4, RoutesSeeTheCall
<1>6. ASSUME kind # "memory", d.verdict = "Allow" PROVE Grounded(history, d)
  <2>1. evaluate(call.entries, P, d) = "Allow"
    <3>1. w = "Allow"
      BY <1>4, <1>6, Zenon
    <3>2. evaluate(call.entries, P, call.c) = evaluate(call.entries, P, d)
      BY <1>4, EvaluateSeesTheCall
    <3>3. QED
      BY <3>1, <3>2, Zenon
  <2>2. /\ d.v_trigger \in Nat /\ d.v_trigger <= Len(history) /\ d.role \in Role
        /\ ~CannotRebuild(call.entries)
        /\ call.entries = EntriesAt(history, d.v_trigger, call.hidden)
        /\ evaluate(call.entries, load_default_policy(history, index.rolled_up, d.v_trigger), d)
             = "Allow"
    BY <1>3, <1>4, <1>6, <2>1
  <2>3. QED
    BY <1>2, <1>4, <2>2, AllowIsGrounded
<1>7. Settled(d)
  BY <1>3, <1>4, <1>5, <1>6 DEF Settled
<1>8. QED
  BY <1>1, <1>7, OneMoreSettled, NoCallIsFine

LEMMA LedgerKeepsCalls ==
    ASSUME LedgerTypes, LedgerInv, CallInv, DecidedInv, Ledger
    PROVE  CallInv' /\ DecidedInv'
<1>1. /\ Next /\ UNCHANGED <<gate, decided>>
      /\ call' = call \/ call' = NoCall
  BY Zenon DEF Ledger
<1>2. kind' # "memory" =>
        /\ kind # "memory"
        /\ history' = history \/ \E g \in LFact : history' = Append(history, g)
  BY <1>1, HistoryGrows
<1>3. CallInv'
  BY <1>1, <1>2, CallKept, NoCallIsFine
<1>4. ASSUME NEW d \in decided' PROVE Settled(d)'
  BY <1>1, <1>2, SettledKept DEF DecidedInv
<1>5. QED
  BY <1>3, <1>4 DEF DecidedInv

LEMMA GateInvariant == PSpec => [](LedgerTypes /\ LedgerInv /\ CallInv /\ DecidedInv)
<1> DEFINE Inv == LedgerTypes /\ LedgerInv /\ CallInv /\ DecidedInv
<1>1. PInit => Inv
  <2> SUFFICES ASSUME PInit PROVE Inv
    OBVIOUS
  <2>1. Init /\ call = NoCall /\ decided = {}
    BY DEF PInit
  <2>2. call.pc = "none"
    BY <2>1 DEF NoCall
  <2>3. CallInv /\ DecidedInv
    BY <2>1, <2>2 DEF CallInv, DecidedInv
  <2>4. QED
    BY <2>1, <2>3, LedgerInit
<1>2. Inv /\ [PNext]_pvars => Inv'
  <2> SUFFICES ASSUME Inv, [PNext]_pvars PROVE Inv'
    OBVIOUS
  <2>1. CASE Freeze
    <3>1. UNCHANGED <<kind, mode, history, index, anchors, wal, file>>
      BY <2>1, Zenon DEF Freeze, memory, disk
    <3>2. QED
      BY <2>1, <3>1, LedgerSame, FreezeKeeps
  <2>2. CASE ReadEntries
    <3>1. UNCHANGED <<kind, mode, history, index, anchors, wal, file>>
      BY <2>2, Zenon DEF ReadEntries, vars, memory, disk
    <3>2. QED
      BY <2>2, <3>1, LedgerSame, ReadEntriesKeeps
  <2>3. CASE Evaluate
    <3>1. UNCHANGED <<kind, mode, history, index, anchors, wal, file>>
      BY <2>3, Zenon DEF Evaluate, vars, memory, disk
    <3>2. QED
      BY <2>3, <3>1, LedgerSame, EvaluateKeeps
  <2>4. CASE Ledger
    <3>1. Next
      BY <2>4, Zenon DEF Ledger
    <3>2. QED
      BY <2>4, <3>1, LedgerStep, LedgerKeepsCalls
  <2>5. CASE UNCHANGED pvars
    <3>1. /\ UNCHANGED <<gate, call, decided, kind, history>>
          /\ UNCHANGED <<kind, mode, history, index, anchors, wal, file>>
      BY <2>5, Zenon DEF pvars, vars, memory, disk
    <3>2. CallInv'
      BY <3>1, CallKept
    <3>3. ASSUME NEW d \in decided' PROVE Settled(d)'
      BY <3>1, SettledKept DEF DecidedInv
    <3>4. QED
      BY <3>1, <3>2, <3>3, LedgerSame DEF DecidedInv
  <2>6. QED
    BY <2>1, <2>2, <2>3, <2>4, <2>5, Zenon DEF PNext
<1>3. QED
  BY <1>1, <1>2, PTL DEF PSpec

(* The entries a check went by are those of its version, although the       *)
(* ledger is read in a later step and may by then have grown, crashed and   *)
(* been recovered.                                                          *)
THEOREM EntriesAreOfTheVersion == PSpec => []EntriesAreFrozen
<1>1. DecidedInv => EntriesAreFrozen
  BY Zenon DEF DecidedInv, Settled, EntriesAreFrozen, CanReplay, EntriesAt
<1>2. QED
  BY <1>1, GateInvariant, PTL

(* Nothing goes out without a grant: for every set of entries, routes,      *)
(* roles and calls, what evaluate allowed rests on an approved entry nobody *)
(* had removed, or on a default policy, with no refusal and nothing         *)
(* malformed in force, and the routes let it through.                       *)
THEOREM GrantsHaveGrounds == PSpec => []GrantsAreGrounded
<1>1. DecidedInv => GrantsAreGrounded
  <2> SUFFICES ASSUME DecidedInv PROVE GrantsAreGrounded
    OBVIOUS
  <2>1. \A v, hidden, p : InForceIn(history, v, hidden, p) = InForce(v, hidden, p)
    BY Zenon DEF InForceIn, InForce
  <2>2. \A d \in decided : CanReplay /\ d.verdict = "Allow" =>
           ~Tightened(gate, d) /\ Grounded(history, d)
    BY Zenon DEF DecidedInv, Settled, CanReplay
  <2>3. ASSUME NEW v, NEW hidden
        PROVE  UNION {InForce(v, hidden, p) : p \in {history[i].says.path : i \in 1 .. v}
                                                       \ {"other", "default_policy"}}
                 = SaidIn(history, v, hidden)
    BY <2>1 DEF SaidIn, PathsIn
  <2>4. QED
    BY <2>2, <2>3, ZenonT(60) DEF GrantsAreGrounded, Grounded
<1>2. QED
  BY <1>1, GateInvariant, PTL

(* Both hold of the ledger under the gate as well. *)
THEOREM LedgerIsSoundUnderGate == PSpec => [](IndexFollowsLedger /\ AnchorsBind)
<1>1. LedgerInv => IndexFollowsLedger /\ AnchorsBind
  BY DEF LedgerInv, Follows, AnchorsOver, IndexFollowsLedger, AnchorsBind
<1>2. QED
  BY <1>1, GateInvariant, PTL
=============================================================================
