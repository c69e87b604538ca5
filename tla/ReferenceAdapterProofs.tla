----------------------- MODULE ReferenceAdapterProofs -----------------------
(***************************************************************************)
(* Theorems about the reference adapter, for any documents, skills,        *)
(* curated entries, changes of the control plane and hooks that fall       *)
(* between each other.                                                     *)
(***************************************************************************)
EXTENDS ReferenceAdapter, FiniteSetTheorems, SequenceTheorems, WellFoundedInduction, TLAPS

-----------------------------------------------------------------------------
(***************************************************************************)
(* Skills: which of a scope is the first.                                  *)
(***************************************************************************)

\* A set of numbers that is not empty has a least member.
LEMMA LeastNat ==
    ASSUME NEW S, S \subseteq Nat, S # {}
    PROVE  \E x \in S : \A y \in S : x <= y
<1>1. PICK x \in S : \A y \in S : <<y, x>> \notin OpToRel(<, Nat)
  BY NatLessThanWellFounded, WFMin, Zenon
<1>2. ASSUME NEW y \in S
      PROVE  x <= y
  <2>1. ~(y < x)
    BY <1>1 DEF OpToRel
  <2> QED
    BY <2>1
<1> QED
  BY <1>2

\* The weight of a tier tells it.
LEMMA TierWeight ==
    ASSUME NEW tier \in Range(Tiers)
    PROVE  /\ SkillPrecedenceTierWeight(tier) \in 1 .. 3
           /\ Tiers[SkillPrecedenceTierWeight(tier)] = tier
  BY DEF SkillPrecedenceTierWeight, Tiers, Range

\* What Precedes compares.
Weight(held, n) == SkillPrecedenceTierWeight(held[n].meta.tier)
RankOf(held, n) == held[n].meta.rank

\* What is known of a normalized skill.
LEMMA SkillIs ==
    ASSUME NEW held, Skilled(held), NEW n \in DOMAIN held
    PROVE  /\ n \in Nat \ {0} /\ Weight(held, n) \in 1 .. 3 /\ RankOf(held, n) \in Nat
           /\ held[n].meta.tier = Tiers[Weight(held, n)]
<1>1. held[n].meta.tier \in Range(Tiers) /\ held[n].meta.rank \in Nat
  BY DEF Skilled, NormalizedSkill
<1> QED
  BY <1>1, TierWeight DEF Skilled, Weight, RankOf

\* It is the lexicographic order.
LEMMA PrecedesIs ==
    ASSUME NEW held, Skilled(held), NEW m \in DOMAIN held, NEW n \in DOMAIN held
    PROVE  Precedes(held, m, n) <=>
             \/ Weight(held, m) < Weight(held, n)
             \/ Weight(held, m) = Weight(held, n) /\ RankOf(held, m) < RankOf(held, n)
             \/ Weight(held, m) = Weight(held, n) /\ RankOf(held, m) = RankOf(held, n) /\ m < n
<1>1. SamePrecedence(held[m].meta, held[n].meta)
        <=> Weight(held, m) = Weight(held, n) /\ RankOf(held, m) = RankOf(held, n)
  BY SkillIs DEF SamePrecedence, Weight, RankOf
<1>2. PICK v \in 1 .. 3, w \in 1 .. 3 : v = Weight(held, m) /\ w = Weight(held, n)
  BY SkillIs
<1>3. v - w < 0 <=> v < w
  OBVIOUS
<1>4. v - w = 0 <=> v = w
  OBVIOUS
<1> QED
  BY <1>1, <1>2, <1>3, <1>4 DEF Precedes, Weight, RankOf

\* Of some skills one precedes all others, and First is that one.
LEMMA FirstIs ==
    ASSUME NEW held, Skilled(held), NEW S, S \subseteq DOMAIN held, S # {}
    PROVE  /\ First(held, S) \in S
           /\ \A n \in S \ {First(held, S)} : Precedes(held, First(held, S), n)
<1>1. \A n \in S : n \in Nat \ {0} /\ Weight(held, n) \in 1 .. 3 /\ RankOf(held, n) \in Nat
  BY SkillIs
<1> DEFINE weights == {Weight(held, n) : n \in S}
<1>2. PICK w \in weights : \A v \in weights : w <= v
  BY <1>1, LeastNat
<1> DEFINE ranks == {RankOf(held, n) : n \in {n \in S : Weight(held, n) = w}}
<1>3. ranks \subseteq Nat /\ ranks # {}
  BY <1>1
<1>4. PICK r \in ranks : \A q \in ranks : r <= q
  BY <1>3, LeastNat
<1> DEFINE names == {n \in S : Weight(held, n) = w /\ RankOf(held, n) = r}
<1>5. names \subseteq Nat /\ names # {}
  BY <1>1
<1>6. PICK m \in names : \A n \in names : m <= n
  BY <1>5, LeastNat
<1>7. ASSUME NEW n \in S \ {m}
      PROVE  Precedes(held, m, n)
  <2>1. m \in DOMAIN held /\ n \in DOMAIN held
    BY <1>6, <1>7
  <2>2. w <= Weight(held, n) /\ Weight(held, m) = w /\ RankOf(held, m) = r
    BY <1>2, <1>6
  <2>3. Weight(held, n) = w => r <= RankOf(held, n)
    BY <1>4
  <2>4. Weight(held, n) = w /\ RankOf(held, n) = r => m <= n /\ m # n
    BY <1>6, <1>7
  <2>5. /\ w \in Nat /\ r \in Nat /\ m \in Nat /\ n \in Nat
        /\ Weight(held, n) \in Nat /\ RankOf(held, n) \in Nat
    BY <1>1, <1>2, <1>3, <1>4, <1>6
  <2> QED
    BY <2>1, <2>2, <2>3, <2>4, <2>5, PrecedesIs
<1> QED
  BY <1>6, <1>7 DEF First

\* There is one such skill.
LEMMA FirstUnique ==
    ASSUME NEW held, Skilled(held), NEW S, S \subseteq DOMAIN held,
           NEW m \in S, \A n \in S \ {m} : Precedes(held, m, n)
    PROVE  m = First(held, S)
<1>1. /\ First(held, S) \in S
      /\ \A n \in S \ {First(held, S)} : Precedes(held, First(held, S), n)
  BY FirstIs
<1> SUFFICES ASSUME m # First(held, S)
             PROVE  FALSE
  OBVIOUS
<1>2. PICK f \in S : f = First(held, S)
  BY <1>1
<1>3. Precedes(held, m, f) /\ Precedes(held, f, m)
  BY <1>1, <1>2
<1>4. /\ m \in Nat /\ f \in Nat /\ Weight(held, m) \in Nat /\ Weight(held, f) \in Nat
      /\ RankOf(held, m) \in Nat /\ RankOf(held, f) \in Nat
  BY SkillIs
<1> QED
  BY <1>3, <1>4, PrecedesIs

\* The winner of a scope depends on its candidates only.
LEMMA WinnerSame ==
    ASSUME NEW h, NEW g, Skilled(h), Skilled(g), NEW scope,
           Candidates(h, scope) = Candidates(g, scope),
           \A n \in Candidates(h, scope) : h[n].meta.tier = g[n].meta.tier /\ h[n].meta.rank = g[n].meta.rank
    PROVE  WinnerForScope(h, scope) = WinnerForScope(g, scope)
<1> DEFINE S == Candidates(h, scope)
<1>1. S \subseteq DOMAIN h /\ S \subseteq DOMAIN g
  BY DEF Candidates
<1>2. CASE S = {}
  BY <1>2 DEF WinnerForScope, SelectSkillWinner
<1>3. CASE S # {}
  <2>1. PICK m \in S : m = First(h, S) /\ \A n \in S \ {m} : Precedes(h, m, n)
    BY <1>1, <1>3, FirstIs
  <2>2. \A n \in S \ {m} : Precedes(g, m, n)
    BY <1>1, <2>1 DEF Precedes, SamePrecedence
  <2>3. m = First(g, S)
    BY <1>1, <2>2, FirstUnique
  <2> QED
    BY <2>1, <2>3 DEF WinnerForScope, SelectSkillWinner
<1> QED
  BY <1>2, <1>3

-----------------------------------------------------------------------------
(***************************************************************************)
(* An index of skills explains itself.                                     *)
(***************************************************************************)

\* The first candidate of a scope is selected, and no other.
LEMMA OutcomeIs ==
    ASSUME NEW held, Skilled(held), NEW n \in DOMAIN held, held[n].meta.scope # ""
    PROVE  LET names == Candidates(held, held[n].meta.scope)
               first == First(held, names)
               outcome == DerivedOutcome(held, n)
           IN  /\ ~Eligible(held, n) => ~outcome.selected /\ outcome.winner = 0
               /\ Eligible(held, n) =>
                    /\ n \in names /\ first \in names
                    /\ outcome.selected <=> n = first
                    /\ outcome.selected => outcome.winner = 0
                    /\ ~outcome.selected => /\ outcome.winner = first
                                            /\ outcome.reason = LoserSelectionReason(held, n, first)
<1> DEFINE names == Candidates(held, held[n].meta.scope)
<1>0. PICK o : o = DerivedOutcome(held, n)
  OBVIOUS
<1>1. CASE ~Eligible(held, n)
  <2>1. o = [selected |-> FALSE, winner |-> 0, reason |-> "ineligible"]
    BY <1>0, <1>1 DEF DerivedOutcome
  <2>2. o.selected = FALSE /\ o.winner = 0
    BY <2>1
  <2> QED
    BY <1>0, <1>1, <2>2
<1>2. CASE Eligible(held, n)
  <2>1. n \in names /\ names \subseteq DOMAIN held
    BY <1>2 DEF Candidates
  <2>2. PICK first : first = First(held, names)
    OBVIOUS
  <2>3. first \in names /\ SelectSkillWinner(held, names) = first
    BY <2>1, <2>2, FirstIs DEF SelectSkillWinner
  <2>4. CASE n = first
    <3>1. o = [selected |-> TRUE, winner |-> 0, reason |-> WinnerSelectionReason(held, names, n)]
      BY <1>0, <1>2, <2>3, <2>4 DEF DerivedOutcome
    <3>2. o.selected = TRUE /\ o.winner = 0
      BY <3>1
    <3> QED
      BY <1>0, <1>2, <2>1, <2>2, <2>3, <2>4, <3>2
  <2>5. CASE n # first
    <3>1. o = [selected |-> FALSE, winner |-> first, reason |-> LoserSelectionReason(held, n, first)]
      BY <1>0, <1>2, <2>3, <2>5 DEF DerivedOutcome
    <3>2. o.selected = FALSE /\ o.winner = first /\ o.reason = LoserSelectionReason(held, n, first)
      BY <3>1
    <3> QED
      BY <1>0, <1>2, <2>1, <2>2, <2>3, <2>5, <3>2
  <2> QED
    BY <2>4, <2>5
<1> QED
  BY <1>1, <1>2

\* The records of any skills explain themselves.
LEMMA RecordsExplain ==
    ASSUME NEW held, Skilled(held)
    PROVE  Explains(SkillRecords(held))
<1> DEFINE records == SkillRecords(held)
           Record(n) == [name |-> n, meta |-> held[n].meta, outcome |-> DerivedOutcome(held, n)]
<1>1. ASSUME NEW n \in DOMAIN held, held[n].meta.scope # ""
      PROVE  Record(n) \in records
  BY <1>1 DEF SkillRecords, DeriveSkillSelectionOutcomes
<1>2. ASSUME NEW q \in records
      PROVE  q.name \in DOMAIN held /\ q.meta = held[q.name].meta
  BY <1>2 DEF SkillRecords
<1>3. ASSUME NEW q \in records, q.meta.scope # ""
      PROVE  q = Record(q.name)
  <2>1. PICK n \in DOMAIN held :
          q = [name |-> n, meta |-> held[n].meta, outcome |-> DeriveSkillSelectionOutcomes(held)[n]]
    BY DEF SkillRecords
  <2>2. q.name = n /\ q.meta = held[n].meta
    BY <2>1
  <2>3. DeriveSkillSelectionOutcomes(held)[n] = DerivedOutcome(held, n)
    BY <1>3, <2>2 DEF DeriveSkillSelectionOutcomes
  <2> QED
    BY <2>1, <2>2, <2>3
<1>4. ASSUME NEW r \in records, r.meta.scope # ""
      PROVE  /\ r.outcome.selected <=> r.meta.eligibility = "eligible" /\ Best(records, r)
             /\ r.outcome.winner # 0 => \E w \in records :
                  /\ w.name = r.outcome.winner /\ w.outcome.selected /\ w.meta.scope = r.meta.scope
                  /\ (r.outcome.reason = "tie_breaker_path_order") <=> SamePrecedence(r.meta, w.meta)
  <2>1. PICK n \in DOMAIN held : n = r.name /\ r = Record(n) /\ r.meta = held[n].meta /\ held[n].meta.scope # ""
    BY <1>2, <1>3, <1>4
  <2>2. PICK names, first, outcome :
          /\ names = Candidates(held, held[n].meta.scope) /\ first = First(held, names)
          /\ outcome = DerivedOutcome(held, n)
    OBVIOUS
  <2>3. /\ ~Eligible(held, n) => ~outcome.selected /\ outcome.winner = 0
        /\ Eligible(held, n) =>
             /\ n \in names /\ first \in names
             /\ outcome.selected <=> n = first
             /\ outcome.selected => outcome.winner = 0
             /\ ~outcome.selected => /\ outcome.winner = first
                                     /\ outcome.reason = LoserSelectionReason(held, n, first)
    BY <2>1, <2>2, OutcomeIs
  <2>4. r.outcome = outcome /\ (Eligible(held, n) <=> r.meta.eligibility = "eligible")
    <3>1. Record(n).outcome = DerivedOutcome(held, n)
      OBVIOUS
    <3> QED
      BY <2>1, <2>2, <3>1 DEF Eligible
  <2>5. names \subseteq DOMAIN held
    BY <2>2 DEF Candidates
  <2>6. ASSUME Eligible(held, n), n = first
        PROVE  Best(records, r)
    <3>1. ASSUME NEW q \in records, q.meta.scope = r.meta.scope, q.meta.eligibility = "eligible"
          PROVE  LET tier(x) == SkillPrecedenceTierWeight(x.meta.tier)
                 IN \/ tier(r) < tier(q)
                    \/ tier(r) = tier(q) /\ r.meta.rank < q.meta.rank
                    \/ tier(r) = tier(q) /\ r.meta.rank = q.meta.rank /\ r.name <= q.name
      <4>1. PICK k \in DOMAIN held : k = q.name /\ q.meta = held[k].meta
        BY <1>2
      <4>2. k \in names
        BY <2>1, <2>2, <3>1, <4>1 DEF Candidates, Eligible
      <4>3. k # n => Precedes(held, n, k)
        BY <2>2, <2>3, <2>5, <2>6, <4>2, FirstIs
      <4>4. /\ SkillPrecedenceTierWeight(r.meta.tier) = Weight(held, n) /\ r.meta.rank = RankOf(held, n)
            /\ SkillPrecedenceTierWeight(q.meta.tier) = Weight(held, k) /\ q.meta.rank = RankOf(held, k)
        BY <2>1, <4>1 DEF Weight, RankOf
      <4>5. n \in Nat /\ k \in Nat
        BY SkillIs
      <4>6. CASE k = n
        <5>0. k <= k
          BY <4>5
        <5>1. r.name = k /\ q.name = k /\ k <= k
          BY <2>1, <4>1, <4>6, <5>0
        <5> QED
          BY <4>4, <4>6, <5>1
      <4>7. CASE k # n
        <5>1. \/ Weight(held, n) < Weight(held, k)
              \/ Weight(held, n) = Weight(held, k) /\ RankOf(held, n) < RankOf(held, k)
              \/ Weight(held, n) = Weight(held, k) /\ RankOf(held, n) = RankOf(held, k) /\ n < k
          BY <4>3, <4>7, PrecedesIs
        <5>2. n < k => n <= k
          BY <4>5
        <5>3. r.name = n /\ q.name = k
          BY <2>1, <4>1
        <5> QED
          BY <4>4, <5>1, <5>2, <5>3
      <4> QED
        BY <4>6, <4>7
    <3> QED
      BY <3>1 DEF Best
  <2>7. ASSUME Eligible(held, n), n # first
        PROVE  ~Best(records, r)
    <3>1. PICK f \in DOMAIN held : f = first /\ f \in names
      BY <2>3, <2>5, <2>7
    <3>2. held[f].meta.scope = held[n].meta.scope /\ Eligible(held, f)
      BY <2>2, <3>1 DEF Candidates
    <3>3. PICK w \in records : w = Record(f)
      BY <1>1, <2>1, <3>2
    <3>4. w.name = f /\ w.meta = held[f].meta
      BY <3>3
    <3>5. Precedes(held, f, n)
      BY <2>2, <2>3, <2>5, <2>7, <3>1, FirstIs
    <3>6. /\ SkillPrecedenceTierWeight(r.meta.tier) = Weight(held, n) /\ r.meta.rank = RankOf(held, n)
          /\ SkillPrecedenceTierWeight(w.meta.tier) = Weight(held, f) /\ w.meta.rank = RankOf(held, f)
      BY <2>1, <3>4 DEF Weight, RankOf
    <3>7. /\ n \in Nat /\ f \in Nat /\ Weight(held, n) \in Nat /\ Weight(held, f) \in Nat
          /\ RankOf(held, n) \in Nat /\ RankOf(held, f) \in Nat
      BY SkillIs
    <3>8. ~(\/ Weight(held, n) < Weight(held, f)
            \/ Weight(held, n) = Weight(held, f) /\ RankOf(held, n) < RankOf(held, f)
            \/ Weight(held, n) = Weight(held, f) /\ RankOf(held, n) = RankOf(held, f) /\ n <= f)
      BY <3>5, <3>7, PrecedesIs
    <3>9. w.meta.scope = r.meta.scope /\ w.meta.eligibility = "eligible"
      BY <2>1, <3>2, <3>4 DEF Eligible
    <3> QED
      BY <2>1, <3>4, <3>6, <3>8, <3>9 DEF Best
  <2>8. ASSUME r.outcome.winner # 0
        PROVE  \E w \in records :
                  /\ w.name = r.outcome.winner /\ w.outcome.selected /\ w.meta.scope = r.meta.scope
                  /\ (r.outcome.reason = "tie_breaker_path_order") <=> SamePrecedence(r.meta, w.meta)
    <3>1. Eligible(held, n) /\ ~outcome.selected
      BY <2>3, <2>4, <2>8
    <3>2. PICK f \in DOMAIN held : f = first /\ f \in names
      BY <2>3, <2>5, <3>1
    <3>3. held[f].meta.scope = held[n].meta.scope /\ Eligible(held, f)
      BY <2>2, <3>2 DEF Candidates
    <3>4. PICK w \in records : w = Record(f)
      BY <1>1, <2>1, <3>3
    <3>5. w.name = f /\ w.meta = held[f].meta /\ w.outcome = DerivedOutcome(held, f)
      BY <3>4
    <3>6. DerivedOutcome(held, f).selected
      <4>1. First(held, Candidates(held, held[f].meta.scope)) = f
        BY <2>2, <3>2, <3>3
      <4>2. held[f].meta.scope # ""
        BY <2>1, <3>3
      <4> QED
        BY <3>3, <4>1, <4>2, OutcomeIs
    <3>7. (r.outcome.reason = "tie_breaker_path_order") <=> SamePrecedence(r.meta, w.meta)
      BY <2>1, <2>3, <2>4, <3>1, <3>2, <3>5 DEF LoserSelectionReason
    <3> QED
      BY <2>1, <2>3, <2>4, <3>1, <3>2, <3>3, <3>5, <3>6, <3>7
  <2> QED
    BY <2>3, <2>4, <2>6, <2>7, <2>8
<1> QED
  BY <1>4 DEF Explains

-----------------------------------------------------------------------------
(***************************************************************************)
(* Sequences.                                                              *)
(***************************************************************************)

IsSequence(s) == s \in Seq(Range(s))

\* A sequence is its members from the first to the last.
LEMMA SequenceIs ==
    ASSUME NEW s, IsSequence(s)
    PROVE  Len(s) \in Nat /\ DOMAIN s = 1 .. Len(s) /\ s = [i \in 1 .. Len(s) |-> s[i]]
  BY DEF IsSequence

\* A function whose domain starts at 1 is a sequence.
LEMMA SequenceMade ==
    ASSUME NEW n \in Nat, NEW s, DOMAIN s = 1 .. n, s = [i \in 1 .. n |-> s[i]]
    PROVE  IsSequence(s) /\ Len(s) = n
<1>1. s \in [1 .. n -> Range(s)]
  BY DEF Range
<1> QED
  BY <1>1, SeqDef DEF IsSequence

\* A sequence of some members is one of its own.
LEMMA SequenceOf ==
    ASSUME NEW A, NEW s \in Seq(A)
    PROVE  IsSequence(s)
<1>1. Len(s) \in Nat /\ s \in [1 .. Len(s) -> A]
  BY LenProperties
<1>2. s \in [1 .. Len(s) -> Range(s)]
  BY <1>1 DEF Range
<1> QED
  BY <1>1, <1>2, SeqDef DEF IsSequence

\* A sequence with one member more.
LEMMA AppendIs ==
    ASSUME NEW s, IsSequence(s), NEW e
    PROVE  /\ IsSequence(Append(s, e)) /\ Len(Append(s, e)) = Len(s) + 1
           /\ DOMAIN Append(s, e) = 1 .. Len(s) + 1
           /\ \A i \in 1 .. Len(s) : Append(s, e)[i] = s[i]
           /\ Append(s, e)[Len(s) + 1] = e
<1> DEFINE A == Range(s) \cup {e}
           t == Append(s, e)
<1>1. s \in Seq(A) /\ e \in A /\ Len(s) \in Nat
  BY SeqMonotonic DEF IsSequence
<1>2. /\ t \in Seq(A) /\ Len(t) = Len(s) + 1
      /\ \A i \in 1 .. Len(s) : t[i] = s[i]
      /\ t[Len(s) + 1] = e
  BY <1>1, AppendProperties
<1> HIDE DEF t
<1>3. DOMAIN t = 1 .. Len(s) + 1
  BY <1>2, LenProperties
<1>4. IsSequence(t)
  BY <1>2, SequenceOf
<1> QED
  BY <1>2, <1>3, <1>4 DEF t

\* A sequence without its first member.
LEMMA TailIs ==
    ASSUME NEW s, IsSequence(s), s # <<>>
    PROVE  /\ Len(s) \in Nat \ {0} /\ Head(s) = s[1]
           /\ IsSequence(Tail(s)) /\ Len(Tail(s)) = Len(s) - 1
           /\ \A i \in 1 .. Len(s) - 1 : Tail(s)[i] = s[i + 1]
<1>1. s \in Seq(Range(s)) /\ Len(s) \in Nat
  BY DEF IsSequence
<1>2. Len(s) # 0 /\ Head(s) = s[1]
  BY <1>1, EmptySeq
<1>3. /\ Tail(s) \in Seq(Range(s)) /\ Len(Tail(s)) = Len(s) - 1
      /\ \A i \in 1 .. Len(s) - 1 : Tail(s)[i] = s[i + 1]
  BY <1>1, HeadTailProperties
<1>6. IsSequence(Tail(s))
  BY <1>3, SequenceOf
<1> QED
  BY <1>1, <1>2, <1>3, <1>6

\* Two sequences, one after the other.
LEMMA ConcatIs ==
    ASSUME NEW s, IsSequence(s), NEW t, IsSequence(t), NEW u, u = s \o t, NEW m, m = Len(s),
           NEW n, n = Len(t)
    PROVE  /\ IsSequence(u) /\ Len(u) = m + n
           /\ \A i \in 1 .. m : u[i] = s[i]
           /\ \A i \in 1 .. n : u[m + i] = t[i]
<1> DEFINE A == Range(s) \cup Range(t)
<1>1. s \in Seq(A) /\ t \in Seq(A)
  BY SeqMonotonic DEF IsSequence
<1> HIDE DEF A
<1>2. m \in Nat /\ n \in Nat
  BY <1>1, LenProperties
<1>3. /\ u \in Seq(A) /\ Len(u) = m + n
      /\ \A i \in 1 .. m + n : u[i] = IF i <= m THEN s[i] ELSE t[i - m]
  BY <1>1, ConcatProperties
<1>4. \A i \in 1 .. m : u[i] = s[i]
  BY <1>2, <1>3
<1>5. ASSUME NEW i \in 1 .. n
      PROVE  u[m + i] = t[i]
  <2>1. m + i \in 1 .. m + n /\ ~(m + i <= m) /\ m + i - m = i
    BY <1>2
  <2> QED
    BY <1>3, <2>1
<1> QED
  BY <1>3, <1>4, <1>5, SequenceOf

-----------------------------------------------------------------------------
(***************************************************************************)
(* What a change of the control plane does to the skills, and the audit    *)
(* that it writes.                                                         *)
(***************************************************************************)

\* What the adapter held after each change, the last of which is what it holds.
HistoryInv ==
    /\ IsSequence(history) /\ history # <<>> /\ history[Len(history)] = Held
    /\ \A k \in DOMAIN history : Skilled(history[k].skills)

\* The last event of a scope names the winner it has.
Current ==
    \A i \in DOMAIN events :
      (\A k \in (i + 1) .. Len(events) : events[k].scope # events[i].scope)
         => events[i].winnerAfter = WinnerForScope(skills, events[i].scope)

AuditInv == IsSequence(events) /\ (KeptScopes => Current /\ Chained(events))

\* The skills before and after a change to one of them.
Differ(h, g, n) ==
    /\ n \in DOMAIN h \cup DOMAIN g
    /\ \A m \in (DOMAIN h \cup DOMAIN g) \ {n} : m \in DOMAIN h /\ m \in DOMAIN g /\ h[m] = g[m]

\* Normalized metadata has a tier and a rank.
LEMMA NewSkill ==
    ASSUME NEW meta, meta.rank \in Int, NEW content
    PROVE  NormalizedSkill(NewSkillEntry(content, meta))
<1> DEFINE new == NormalizeSkillMetadata(meta)
<1>2. PICK r \in Int : r = meta.rank
  OBVIOUS
<1>3. (IF meta.tier = "" /\ r <= 0 THEN 100 ELSE Max({0, r})) \in Nat
  <2>1. PICK m \in {0, r} : \A y \in {0, r} : m >= y
    <3>1. CASE r >= 0
      BY <3>1
    <3>2. CASE ~(r >= 0)
      BY <3>2
    <3> QED
      BY <3>1, <3>2
  <2>2. Max({0, r}) \in {0, r} /\ \A y \in {0, r} : Max({0, r}) >= y
    BY <2>1 DEF Max
  <2>3. PICK n \in Int : n = Max({0, r})
    BY <2>2
  <2>4. n >= 0
    BY <2>2, <2>3
  <2>5. n \in Nat
    BY <2>3, <2>4
  <2> QED
    BY <2>3, <2>5
<1>4. (IF meta.tier \in Range(Tiers) THEN meta.tier ELSE "bundled") \in Range(Tiers)
  BY DEF Range, Tiers
<1>5. new.tier \in Range(Tiers)
  BY <1>4 DEF NormalizeSkillMetadata
<1>6. new.rank \in Nat
  BY <1>2, <1>3 DEF NormalizeSkillMetadata
<1>7. DOMAIN new = SkillFields
  BY DEF NormalizeSkillMetadata, SkillFields
<1> HIDE DEF new
<1>8. NewSkillEntry(content, meta) = [content |-> content, meta |-> new]
  BY DEF NewSkillEntry, new
<1> QED
  BY <1>5, <1>6, <1>7, <1>8 DEF NormalizedSkill

\* A new content leaves what selects a skill.
LEMMA UpdatedSkill ==
    ASSUME NEW old, NormalizedSkill(old), NEW content
    PROVE  NormalizedSkill(UpdateSkillEntry(old, content))
<1>1. PICK m, m1, m2 : m = old.meta /\ m1 = [m EXCEPT !.source = "control_plane"]
                       /\ m2 = [m1 EXCEPT !.freshness = "updated"]
  OBVIOUS
<1>2. DOMAIN old = {"content", "meta"} /\ DOMAIN m = SkillFields /\ m.tier \in Range(Tiers) /\ m.rank \in Nat
  BY <1>1 DEF NormalizedSkill
<1>3. DOMAIN m1 = SkillFields /\ m1.tier = m.tier /\ m1.rank = m.rank
  BY <1>1, <1>2 DEF SkillFields
<1>4. DOMAIN m2 = SkillFields /\ m2.tier = m.tier /\ m2.rank = m.rank
  BY <1>1, <1>3 DEF SkillFields
<1>5. PICK o, o1, o2 : o = [old EXCEPT !.content = content] /\ o1 = [o EXCEPT !.meta.source = "control_plane"]
                       /\ o2 = [o1 EXCEPT !.meta.freshness = "updated"]
  OBVIOUS
<1>6. DOMAIN o = {"content", "meta"} /\ o.meta = m
  BY <1>1, <1>2, <1>5
<1>7. DOMAIN o1 = {"content", "meta"} /\ o1.meta = m1
  BY <1>1, <1>5, <1>6
<1>8. DOMAIN o2 = {"content", "meta"} /\ o2.meta = m2
  BY <1>1, <1>5, <1>7
<1>9. UpdateSkillEntry(old, content) = o2
  BY <1>5 DEF UpdateSkillEntry
<1> QED
  BY <1>2, <1>4, <1>8, <1>9 DEF NormalizedSkill

\* A change keeps the skills, or changes one and says so.
LEMMA ChangeMoves ==
    ASSUME HistoryInv, Skilled(skills), Change
    PROVE  /\ Skilled(skills') /\ history' = Append(history, Held')
           /\ \/ skills' = skills /\ events' = events
              \/ \E n, op : /\ Differ(skills, skills', n)
                            /\ events' = Append(events, ControlPlaneEvent(op, n, skills, skills'))
<1>2. PICK c \in Changes :
         \/ UpsertEntry(c) \/ ChangeEntry(c) \/ UpsertSkill(c)
         \/ UpdateSkill(c) \/ RemoveSkill(c) \/ ChangeCurated(c)
         \/ UpsertWorkflow(c) \/ SetWorkflowStatus(c) \/ SetProjectionError(c)
  BY DEF Change
<1>3. history' = Append(history, Held')
  BY DEF Change
<1>4. CASE UpsertSkill(c)
  <2>1. PICK n, entry : n = c.name /\ entry = NewSkillEntry(Content, c.meta)
    OBVIOUS
  <2>2. n \in Nat \ {0} /\ NormalizedSkill(entry)
    BY <1>4, <2>1, NewSkill, OptionsAssumption DEF UpsertSkill
  <2>3. skills' = Put(skills, n, entry)
    BY <1>4, <2>1 DEF UpsertSkill
  <2>4. /\ DOMAIN skills' = DOMAIN skills \cup {n} /\ skills'[n] = entry
        /\ \A m \in DOMAIN skills \ {n} : skills'[m] = skills[m]
    BY <2>3 DEF Put, Over
  <2>5. Skilled(skills')
    BY <2>2, <2>4 DEF Skilled
  <2>6. Differ(skills, skills', n)
    BY <2>4 DEF Differ
  <2>7. \E op : events' = Append(events, ControlPlaneEvent(op, n, skills, skills'))
    BY <1>4, <2>1 DEF UpsertSkill, AppendEvent
  <2> QED
    BY <1>3, <2>5, <2>6, <2>7
<1>5. CASE UpdateSkill(c)
  <2>1. PICK n, entry : n = c.name /\ entry = UpdateSkillEntry(skills[n], Content)
    OBVIOUS
  <2>2. n \in DOMAIN skills /\ skills' = [skills EXCEPT ![n] = entry]
    BY <1>5, <2>1 DEF UpdateSkill
  <2>3. NormalizedSkill(entry)
    BY <2>1, <2>2, UpdatedSkill DEF Skilled
  <2>4. /\ DOMAIN skills' = DOMAIN skills /\ skills'[n] = entry
        /\ \A m \in DOMAIN skills \ {n} : skills'[m] = skills[m]
    BY <2>2
  <2>5. Skilled(skills')
    BY <2>3, <2>4 DEF Skilled
  <2>6. Differ(skills, skills', n)
    BY <2>2, <2>4 DEF Differ
  <2>7. \E op : events' = Append(events, ControlPlaneEvent(op, n, skills, skills'))
    BY <1>5, <2>1 DEF UpdateSkill, AppendEvent
  <2> QED
    BY <1>3, <2>5, <2>6, <2>7
<1>6. CASE RemoveSkill(c)
  <2>1. PICK n : n = c.name
    OBVIOUS
  <2>2. n \in DOMAIN skills /\ skills' = Without(skills, n)
    BY <1>6, <2>1 DEF RemoveSkill
  <2>3. DOMAIN skills' = DOMAIN skills \ {n} /\ \A m \in DOMAIN skills \ {n} : skills'[m] = skills[m]
    BY <2>2 DEF Without, Restrict
  <2>4. Skilled(skills')
    BY <2>3 DEF Skilled
  <2>5. Differ(skills, skills', n)
    BY <2>2, <2>3 DEF Differ
  <2>6. \E op : events' = Append(events, ControlPlaneEvent(op, n, skills, skills'))
    BY <1>6, <2>1 DEF RemoveSkill, AppendEvent
  <2> QED
    BY <1>3, <2>4, <2>5, <2>6
<1>7. CASE \/ UpsertEntry(c) \/ ChangeEntry(c) \/ ChangeCurated(c)
           \/ UpsertWorkflow(c) \/ SetWorkflowStatus(c) \/ SetProjectionError(c)
  <2>1. skills' = skills /\ events' = events
    BY <1>7 DEF UpsertEntry, ChangeEntry, ChangeCurated, UpsertWorkflow, SetWorkflowStatus,
                SetProjectionError
  <2> QED
    BY <1>3, <2>1
<1> QED
  BY <1>2, <1>4, <1>5, <1>6, <1>7

\* The history goes on.
LEMMA HistoryGrows ==
    ASSUME HistoryInv, Skilled(skills'), history' = Append(history, Held')
    PROVE  /\ HistoryInv' /\ Len(history) \in Nat \ {0} /\ Len(history') = Len(history) + 1
           /\ DOMAIN history = 1 .. Len(history) /\ DOMAIN history' = 1 .. Len(history) + 1
           /\ \A k \in 1 .. Len(history) : history'[k] = history[k]
           /\ history'[Len(history) + 1] = Held'
<1>1. Len(history) \in Nat \ {0} /\ DOMAIN history = 1 .. Len(history)
  BY SequenceIs, TailIs DEF HistoryInv
<1>2. /\ IsSequence(history') /\ Len(history') = Len(history) + 1
      /\ DOMAIN history' = 1 .. Len(history) + 1
      /\ \A k \in 1 .. Len(history) : history'[k] = history[k]
      /\ history'[Len(history) + 1] = Held'
  BY AppendIs DEF HistoryInv
<1>3. Held'.skills = skills'
  BY DEF Held
<1>4. \A k \in DOMAIN history' : Skilled(history'[k].skills)
  BY <1>1, <1>2, <1>3 DEF HistoryInv
<1>5. history' # <<>>
  BY <1>1, <1>2
<1> QED
  BY <1>1, <1>2, <1>4, <1>5 DEF HistoryInv

\* The winners of other scopes stay.
LEMMA OtherScopes ==
    ASSUME NEW h, NEW g, Skilled(h), Skilled(g), NEW n, Differ(h, g, n),
           n \in DOMAIN h \cap DOMAIN g => h[n].meta.scope = g[n].meta.scope,
           NEW scope, scope # SkillSelectionScopeForEvent(n, h, g)
    PROVE  WinnerForScope(h, scope) = WinnerForScope(g, scope)
<1>1. (n \in DOMAIN h => h[n].meta.scope # scope) /\ (n \in DOMAIN g => g[n].meta.scope # scope)
  BY DEF SkillSelectionScopeForEvent
<1>2. ASSUME NEW m
      PROVE  m \in Candidates(h, scope) <=> m \in Candidates(g, scope)
  BY <1>1 DEF Candidates, Eligible, Differ
<1>3. Candidates(h, scope) = Candidates(g, scope)
  BY <1>2 DEF Candidates
<1>4. \A m \in Candidates(h, scope) : h[m] = g[m]
  BY <1>1 DEF Candidates, Differ
<1> QED
  BY <1>3, <1>4, WinnerSame

\* A change keeps the audit a chain.
LEMMA AuditGoesOn ==
    ASSUME HistoryInv, AuditInv, Skilled(skills), Change
    PROVE  AuditInv'
<1>1. /\ Skilled(skills') /\ history' = Append(history, Held')
      /\ \/ skills' = skills /\ events' = events
         \/ \E n, op : /\ Differ(skills, skills', n)
                       /\ events' = Append(events, ControlPlaneEvent(op, n, skills, skills'))
  BY ChangeMoves
<1>2. /\ Len(history) \in Nat \ {0} /\ DOMAIN history = 1 .. Len(history)
      /\ DOMAIN history' = 1 .. Len(history) + 1
      /\ \A k \in 1 .. Len(history) : history'[k] = history[k]
      /\ history'[Len(history) + 1] = Held'
  BY <1>1, HistoryGrows
<1>3. KeptScopes' => KeptScopes
  <2>1. DOMAIN history \subseteq DOMAIN history' /\ \A i \in DOMAIN history : history'[i] = history[i]
    BY <1>2
  <2> QED
    BY <2>1 DEF KeptScopes
<1>4. CASE skills' = skills /\ events' = events
  BY <1>3, <1>4 DEF AuditInv, Current, Chained
<1>5. ASSUME NEW n, NEW op, Differ(skills, skills', n),
             events' = Append(events, ControlPlaneEvent(op, n, skills, skills'))
      PROVE  AuditInv'
  <2>1. PICK e : e = ControlPlaneEvent(op, n, skills, skills')
    OBVIOUS
  <2>2. /\ e.scope = SkillSelectionScopeForEvent(n, skills, skills')
        /\ e.winnerBefore = WinnerForScope(skills, e.scope)
        /\ e.winnerAfter = WinnerForScope(skills', e.scope)
    BY <2>1 DEF ControlPlaneEvent
  <2>3. PICK l \in Nat : l = Len(events)
    BY SequenceIs DEF AuditInv
  <2>4. /\ IsSequence(events') /\ Len(events') = l + 1 /\ DOMAIN events = 1 .. l
        /\ DOMAIN events' = 1 .. l + 1
        /\ \A i \in 1 .. l : events'[i] = events[i]
        /\ events'[l + 1] = e
    BY <1>5, <2>1, <2>3, AppendIs, SequenceIs DEF AuditInv
  <2>5. SUFFICES ASSUME KeptScopes'
                 PROVE  Current' /\ Chained(events')
    BY <2>4 DEF AuditInv
  <2>6. Current /\ Chained(events)
    BY <1>3, <2>5 DEF AuditInv
  <2>7. n \in DOMAIN skills \cap DOMAIN skills' => skills[n].meta.scope = skills'[n].meta.scope
    <3>0. Len(history) \in 1 .. Len(history)
      BY <1>2
    <3>1. PICK k \in 1 .. Len(history) : k = Len(history)
      BY <3>0, Zenon
    <3>2. PICK j \in 1 .. Len(history) + 1 : j = Len(history) + 1
      BY <1>2
    <3>3. k \in DOMAIN history' /\ history'[k].skills = skills
      <4>1. history'[k] = Held
        BY <1>2, <3>1 DEF HistoryInv
      <4> QED
        BY <1>2, <3>1, <4>1 DEF Held
    <3>4. j \in DOMAIN history' /\ history'[j].skills = skills'
      BY <1>2, <3>2 DEF Held
    <3> QED
      BY <2>5, <3>3, <3>4 DEF KeptScopes
  <2>8. ASSUME NEW scope, scope # e.scope
        PROVE  WinnerForScope(skills', scope) = WinnerForScope(skills, scope)
    BY <1>1, <1>5, <2>2, <2>7, <2>8, OtherScopes
  <2>9. Current'
    <3>1. ASSUME NEW i \in 1 .. l + 1,
                 \A k \in (i + 1) .. l + 1 : events'[k].scope # events'[i].scope
          PROVE  events'[i].winnerAfter = WinnerForScope(skills', events'[i].scope)
      <4>1. CASE i = l + 1
        BY <2>2, <2>4, <4>1
      <4>2. CASE i # l + 1
        <5>1. i \in 1 .. l /\ l + 1 \in (i + 1) .. l + 1
          BY <2>3, <3>1, <4>2
        <5>2. events'[i] = events[i] /\ events[i].scope # e.scope
          BY <2>4, <3>1, <5>1
        <5>3. ASSUME NEW k \in (i + 1) .. l
              PROVE  events[k].scope # events[i].scope
          <6>1. k \in 1 .. l /\ k \in (i + 1) .. l + 1
            BY <2>3, <5>1
          <6> QED
            BY <2>4, <3>1, <5>2, <6>1
        <5>4. events[i].winnerAfter = WinnerForScope(skills, events[i].scope)
          BY <2>3, <2>4, <2>6, <5>1, <5>3 DEF Current
        <5> QED
          BY <2>8, <5>2, <5>4
      <4> QED
        BY <4>1, <4>2
    <3> QED
      BY <2>3, <2>4, <3>1 DEF Current
  <2>10. Chained(events')
    <3>1. ASSUME NEW i \in 1 .. l + 1, NEW j \in 1 .. l + 1, i < j, events'[i].scope = events'[j].scope,
                 \A k \in (i + 1) .. (j - 1) : events'[k].scope # events'[i].scope
          PROVE  events'[i].winnerAfter = events'[j].winnerBefore
      <4>1. i \in 1 .. l /\ events'[i] = events[i]
        BY <2>3, <2>4, <3>1
      <4>2. \A k \in (i + 1) .. (j - 1) : k \in 1 .. l /\ events[k].scope # events[i].scope
        <5>1. ASSUME NEW k \in (i + 1) .. (j - 1)
              PROVE  k \in 1 .. l
          BY <2>3, <4>1
        <5> QED
          BY <2>4, <3>1, <4>1, <5>1
      <4>3. CASE j \in 1 .. l
        <5>1. events'[j] = events[j]
          BY <2>4, <4>3
        <5> QED
          BY <2>4, <2>6, <3>1, <4>1, <4>2, <4>3, <5>1 DEF Chained
      <4>4. CASE j = l + 1
        <5>1. (i + 1) .. (j - 1) = (i + 1) .. l
          BY <2>3, <4>4
        <5>2. events[i].winnerAfter = WinnerForScope(skills, events[i].scope)
          BY <2>3, <2>4, <2>6, <4>1, <4>2, <5>1 DEF Current
        <5> QED
          BY <2>2, <2>4, <3>1, <4>1, <4>4, <5>2
      <4> QED
        BY <2>3, <4>3, <4>4
    <3> QED
      BY <2>4, <3>1 DEF Chained
  <2> QED
    BY <2>9, <2>10
<1> QED
  BY <1>1, <1>4, <1>5

-----------------------------------------------------------------------------
(***************************************************************************)
(* The plan of a hook: its sections, in the order of all that there are.   *)
(***************************************************************************)

\* The place of a section among all.
Rank(stage) ==
    CASE stage = "curated0" -> 1 [] stage = "workflows0" -> 2
      [] stage = "curated1" -> 3 [] stage = "workflows1" -> 4
      [] stage = "workflows2" -> 5 [] stage = "begin" -> 6
      [] stage = "curated2" -> 7 [] stage = "workflows3" -> 8
      [] stage = "documents" -> 9 [] stage = "resources" -> 10
      [] stage = "skills" -> 11 [] stage = "curated" -> 12
      [] stage = "knowledge" -> 13 [] stage = "resource" -> 14
      [] stage = "skill" -> 15 [] stage = "publish" -> 16
      [] OTHER -> 0

\* The sections that a hook may not leave out.
Due(kind, restored) ==
    6 .. 16 \cup (IF restored THEN {3} ELSE {}) \cup (IF kind = "observe" THEN {5} ELSE {})

\* What is left of a plan: sections in their order, none of those due left out.
PlanOk(plan, due) ==
    /\ IsSequence(plan) /\ plan # <<>>
    /\ \A i \in 1 .. Len(plan) : Rank(plan[i]) \in 1 .. 16
    /\ \A i, j \in 1 .. Len(plan) : i < j => Rank(plan[i]) < Rank(plan[j])
    /\ \A r \in due : r >= Rank(plan[1]) => \E i \in 1 .. Len(plan) : Rank(plan[i]) = r

\* The place of each section.
LEMMA RankIs ==
    /\ Rank("curated0") = 1 /\ Rank("workflows0") = 2 /\ Rank("curated1") = 3 /\ Rank("workflows1") = 4
    /\ Rank("workflows2") = 5 /\ Rank("begin") = 6 /\ Rank("curated2") = 7 /\ Rank("workflows3") = 8
    /\ Rank("documents") = 9 /\ Rank("resources") = 10 /\ Rank("skills") = 11 /\ Rank("curated") = 12
    /\ Rank("knowledge") = 13 /\ Rank("resource") = 14 /\ Rank("skill") = 15 /\ Rank("publish") = 16
  BY DEF Rank

\* A plan whose sections rise, and that has those that are due.
LEMMA PlanMade ==
    ASSUME NEW n \in Nat \ {0}, NEW plan, IsSequence(plan), Len(plan) = n, NEW due, due \subseteq 1 .. 16,
           NEW a \in 0 .. n, NEW b \in Nat, n + b = 16,
           \A i \in 1 .. a : Rank(plan[i]) = i,
           \A i \in (a + 1) .. n : Rank(plan[i]) = i + b,
           \A r \in due : r <= a \/ r > a + b
    PROVE  PlanOk(plan, due)
<1>1. \A i \in 1 .. n : Rank(plan[i]) = IF i <= a THEN i ELSE i + b
  OBVIOUS
<1>2. ASSUME NEW r \in due
      PROVE  \E i \in 1 .. n : Rank(plan[i]) = r
  <2>1. CASE r <= a
    <3>1. r \in 1 .. a
      BY <2>1
    <3> QED
      BY <3>1
  <2>2. CASE r > a + b
    <3>1. r - b \in (a + 1) .. n
      BY <2>2
    <3>2. PICK i \in (a + 1) .. n : i = r - b
      BY <3>1
    <3> QED
      BY <3>2
  <2> QED
    BY <2>1, <2>2
<1>3. plan # <<>>
  BY EmptySeq DEF IsSequence
<1>4. ASSUME NEW i \in 1 .. n
      PROVE  Rank(plan[i]) \in 1 .. 16
  <2>1. Rank(plan[i]) = IF i <= a THEN i ELSE i + b
    BY <1>1
  <2>2. (IF i <= a THEN i ELSE i + b) \in 1 .. 16
    OBVIOUS
  <2> QED
    BY <2>1, <2>2
<1>5. ASSUME NEW i \in 1 .. n, NEW j \in 1 .. n, i < j
      PROVE  Rank(plan[i]) < Rank(plan[j])
  <2>1. Rank(plan[i]) = (IF i <= a THEN i ELSE i + b) /\ Rank(plan[j]) = (IF j <= a THEN j ELSE j + b)
    BY <1>1
  <2>2. (IF i <= a THEN i ELSE i + b) < (IF j <= a THEN j ELSE j + b)
    BY <1>5
  <2> QED
    BY <2>1, <2>2
<1> QED
  BY <1>2, <1>3, <1>4, <1>5 DEF PlanOk

\* The plan with which a hook begins, and its first section.
LEMMA PlanIs ==
    ASSUME NEW kind, NEW restored \in BOOLEAN
    PROVE  /\ PlanOk(Plan(kind, restored), Due(kind, restored))
           /\ Rank(Head(Plan(kind, restored))) = 1
<1> DEFINE first == <<"curated0", "workflows0">>
           merge == IF restored THEN <<"curated1", "workflows1">> ELSE <<>>
           observe == IF kind = "observe" THEN <<"workflows2">> ELSE <<>>
           last == <<"begin", "curated2", "workflows3", "documents", "resources", "skills", "curated",
                     "knowledge", "resource", "skill", "publish">>
<1>1. /\ IsSequence(first) /\ Len(first) = 2 /\ \A i \in 1 .. 2 : Rank(first[i]) = i
  BY RankIs DEF IsSequence, Range
<1>2. PICK l \in {0, 2} :
        /\ IsSequence(merge) /\ Len(merge) = l /\ \A i \in 1 .. l : Rank(merge[i]) = i + 2
        /\ restored => l = 2
  <2>1. CASE restored
    BY <2>1, RankIs DEF IsSequence, Range
  <2>2. CASE ~restored
    BY <2>2 DEF IsSequence, Range
  <2> QED
    BY <2>1, <2>2
<1>3. PICK k \in {0, 1} :
        /\ IsSequence(observe) /\ Len(observe) = k /\ \A i \in 1 .. k : Rank(observe[i]) = 5
        /\ kind = "observe" => k = 1
  <2>1. CASE kind = "observe"
    BY <2>1, RankIs DEF IsSequence, Range
  <2>2. CASE ~(kind = "observe")
    BY <2>2 DEF IsSequence, Range
  <2> QED
    BY <2>1, <2>2
<1>4. IsSequence(last) /\ Len(last) = 11 /\ \A i \in 1 .. 11 : Rank(last[i]) = i + 5
  BY RankIs DEF IsSequence, Range
<1> HIDE DEF first, merge, observe, last
<1>5. PICK p1, p2, p3 : p1 = first \o merge /\ p2 = p1 \o observe /\ p3 = p2 \o last
  OBVIOUS
<1>6. Plan(kind, restored) = p3
  BY <1>5 DEF Plan, first, merge, observe, last
<1>7. /\ IsSequence(p1) /\ Len(p1) = 2 + l
      /\ \A i \in 1 .. 2 + l : Rank(p1[i]) = i
  <2>1. /\ IsSequence(p1) /\ Len(p1) = 2 + l /\ \A i \in 1 .. 2 : p1[i] = first[i]
        /\ \A i \in 1 .. l : p1[2 + i] = merge[i]
    <3>1. PICK x, y : x = Len(first) /\ y = Len(merge)
      OBVIOUS
    <3>2. /\ IsSequence(p1) /\ Len(p1) = x + y /\ \A i \in 1 .. x : p1[i] = first[i]
          /\ \A i \in 1 .. y : p1[x + i] = merge[i]
      <4>1. IsSequence(first) /\ IsSequence(merge)
        BY <1>1, <1>2
      <4>2. IsSequence(p1)
        BY <1>5, <3>1, <4>1, ConcatIs
      <4>5. Len(p1) = x + y
        BY <1>5, <3>1, <4>1, ConcatIs
      <4>3. \A i \in 1 .. x : p1[i] = first[i]
        BY <1>5, <3>1, <4>1, ConcatIs
      <4>4. \A i \in 1 .. y : p1[x + i] = merge[i]
        BY <1>5, <3>1, <4>1, ConcatIs
      <4> QED
        BY <4>2, <4>3, <4>4, <4>5
    <3> QED
      BY <1>1, <1>2, <3>1, <3>2
  <2>2. ASSUME NEW i \in 1 .. 2 + l
        PROVE  Rank(p1[i]) = i
    <3>1. CASE i \in 1 .. 2
      BY <1>1, <2>1, <3>1
    <3>2. CASE i \notin 1 .. 2
      <4>1. PICK j \in 1 .. l : i = 2 + j
        <5>1. i - 2 \in 1 .. l
          BY <3>2
        <5> QED
          BY <5>1
      <4> QED
        BY <1>2, <2>1, <4>1
    <3> QED
      BY <3>1, <3>2
  <2> QED
    BY <2>1, <2>2
<1>8. /\ IsSequence(p2) /\ Len(p2) = 2 + l + k
      /\ \A i \in 1 .. 2 + l : Rank(p2[i]) = i
      /\ k = 1 => Rank(p2[3 + l]) = 5
  <2>1. /\ IsSequence(p2) /\ Len(p2) = 2 + l + k /\ \A i \in 1 .. 2 + l : p2[i] = p1[i]
        /\ \A i \in 1 .. k : p2[2 + l + i] = observe[i]
    <3>1. PICK x, y : x = Len(p1) /\ y = Len(observe)
      OBVIOUS
    <3>2. /\ IsSequence(p2) /\ Len(p2) = x + y /\ \A i \in 1 .. x : p2[i] = p1[i]
          /\ \A i \in 1 .. y : p2[x + i] = observe[i]
      <4>1. IsSequence(p1) /\ IsSequence(observe)
        BY <1>3, <1>7
      <4>2. IsSequence(p2)
        BY <1>5, <3>1, <4>1, ConcatIs
      <4>5. Len(p2) = x + y
        BY <1>5, <3>1, <4>1, ConcatIs
      <4>3. \A i \in 1 .. x : p2[i] = p1[i]
        BY <1>5, <3>1, <4>1, ConcatIs
      <4>4. \A i \in 1 .. y : p2[x + i] = observe[i]
        BY <1>5, <3>1, <4>1, ConcatIs
      <4> QED
        BY <4>2, <4>3, <4>4, <4>5
    <3> QED
      BY <1>3, <1>7, <3>1, <3>2
  <2>2. k = 1 => Rank(p2[3 + l]) = 5
    BY <1>3, <2>1
  <2> QED
    BY <1>7, <2>1, <2>2
<1>9. PICK n \in Nat \ {0} : n = 2 + l + k + 11
  OBVIOUS
<1>10. /\ IsSequence(p3) /\ Len(p3) = n /\ \A i \in 1 .. 2 + l + k : p3[i] = p2[i]
       /\ \A i \in 1 .. 11 : Rank(p3[2 + l + k + i]) = i + 5
  <2>1. PICK x, y : x = Len(p2) /\ y = Len(last)
    OBVIOUS
  <2>2. /\ IsSequence(p3) /\ Len(p3) = x + y /\ \A i \in 1 .. x : p3[i] = p2[i]
        /\ \A i \in 1 .. y : p3[x + i] = last[i]
    <3>1. IsSequence(p2) /\ IsSequence(last)
      BY <1>4, <1>8
    <3>2. IsSequence(p3)
      BY <1>5, <2>1, <3>1, ConcatIs
    <3>5. Len(p3) = x + y
      BY <1>5, <2>1, <3>1, ConcatIs
    <3>3. \A i \in 1 .. x : p3[i] = p2[i]
      BY <1>5, <2>1, <3>1, ConcatIs
    <3>4. \A i \in 1 .. y : p3[x + i] = last[i]
      BY <1>5, <2>1, <3>1, ConcatIs
    <3> QED
      BY <3>2, <3>3, <3>4, <3>5
  <2>3. x = 2 + l + k /\ y = 11
    BY <1>4, <1>8, <2>1
  <2>4. /\ IsSequence(p3) /\ Len(p3) = n /\ \A i \in 1 .. 2 + l + k : p3[i] = p2[i]
        /\ \A i \in 1 .. 11 : p3[2 + l + k + i] = last[i]
    BY <1>9, <2>2, <2>3
  <2> QED
    BY <1>4, <2>4
<1>11. PICK a \in 0 .. n : a = 2 + l
  BY <1>9
<1>12. PICK b \in Nat : n + b = 16
  <2>1. 16 - n \in Nat /\ n + (16 - n) = 16
    BY <1>9
  <2> QED
    BY <2>1
<1>13. ASSUME NEW i \in 1 .. a
       PROVE  Rank(p3[i]) = i
  <2>1. i \in 1 .. 2 + l /\ i \in 1 .. 2 + l + k
    BY <1>11
  <2> QED
    BY <1>8, <1>10, <2>1
<1>14. ASSUME NEW i \in (a + 1) .. n
       PROVE  Rank(p3[i]) = i + b
  <2>1. CASE i \in 1 .. 2 + l + k
    <3>1. i = 3 + l /\ k = 1
      BY <1>11, <2>1
    <3> QED
      BY <1>8, <1>9, <1>10, <1>12, <2>1, <3>1
  <2>2. CASE i \notin 1 .. 2 + l + k
    <3>1. i - (2 + l + k) \in 1 .. 11
      BY <1>9, <1>11, <2>2
    <3>2. PICK j \in 1 .. 11 : i = 2 + l + k + j
      BY <3>1
    <3>3. Rank(p3[i]) = j + 5
      BY <1>10, <3>2
    <3> QED
      BY <1>9, <1>12, <3>2, <3>3
  <2> QED
    BY <2>1, <2>2
<1>15. \A r \in Due(kind, restored) : r \in 1 .. 16 /\ (r <= a \/ r > a + b)
  BY <1>2, <1>3, <1>9, <1>11, <1>12 DEF Due
<1>16. PlanOk(p3, Due(kind, restored))
  <2>1. PICK due : due = Due(kind, restored)
    OBVIOUS
  <2>2. due \subseteq 1 .. 16 /\ \A r \in due : r <= a \/ r > a + b
    BY <1>15, <2>1
  <2> QED
    BY <1>10, <1>12, <1>13, <1>14, <2>1, <2>2, PlanMade
<1>17. Rank(Head(p3)) = 1
  <2>1. Head(p3) = p3[1]
    BY <1>16, TailIs DEF PlanOk
  <2>2. PICK i \in 1 .. a : i = 1
    BY <1>11
  <2>3. Rank(p3[i]) = i
    BY <1>13
  <2> QED
    BY <2>1, <2>2, <2>3
<1> QED
  BY <1>6, <1>16, <1>17

\* A plan without its first section.
LEMMA PlanGoesOn ==
    ASSUME NEW plan, NEW due, due \subseteq 1 .. 16, 16 \in due, PlanOk(plan, due)
    PROVE  /\ Rank(Head(plan)) \in 1 .. 16
           /\ Rank(Head(plan)) # 16 =>
                /\ PlanOk(Tail(plan), due)
                /\ Rank(Head(Tail(plan))) \in 1 .. 16 /\ Rank(Head(Tail(plan))) > Rank(Head(plan))
                /\ \A r \in due : r > Rank(Head(plan)) => Rank(Head(Tail(plan))) <= r
<1>1. /\ Len(plan) \in Nat \ {0} /\ Head(plan) = plan[1]
      /\ IsSequence(Tail(plan)) /\ Len(Tail(plan)) = Len(plan) - 1
      /\ \A i \in 1 .. Len(plan) - 1 : Tail(plan)[i] = plan[i + 1]
  BY TailIs DEF PlanOk
<1>0. PICK at, rest : at = Rank(plan[1]) /\ rest = Tail(plan)
  OBVIOUS
<1>2. PICK n \in Nat \ {0} : n = Len(plan) /\ at = Rank(plan[1]) /\ rest = Tail(plan)
  BY <1>0, <1>1
<1>3. /\ \A i \in 1 .. n : Rank(plan[i]) \in 1 .. 16
      /\ \A i, j \in 1 .. n : i < j => Rank(plan[i]) < Rank(plan[j])
      /\ \A r \in due : r >= at => \E i \in 1 .. n : Rank(plan[i]) = r
  BY <1>2 DEF PlanOk
<1>4. at \in 1 .. 16
  BY <1>2, <1>3
<1>5. SUFFICES ASSUME at # 16
               PROVE  /\ PlanOk(rest, due)
                      /\ Rank(Head(rest)) \in 1 .. 16 /\ Rank(Head(rest)) > at
                      /\ \A r \in due : r > at => Rank(Head(rest)) <= r
  BY <1>1, <1>2, <1>4
<1>6. ASSUME NEW r \in due, r > at
      PROVE  \E i \in 1 .. n - 1 : plan[i + 1] = rest[i] /\ Rank(rest[i]) = r
  <2>1. PICK i \in 1 .. n : Rank(plan[i]) = r
    BY <1>3, <1>4, <1>6
  <2>2. i # 1
    BY <1>2, <1>4, <1>6, <2>1
  <2>3. PICK j \in 1 .. n - 1 : i = j + 1
    <3>1. i - 1 \in 1 .. n - 1
      BY <2>2
    <3> QED
      BY <3>1
  <2> QED
    BY <1>1, <1>2, <2>1, <2>3
<1>7. n - 1 \in Nat \ {0}
  <2>1. PICK i \in 1 .. n - 1 : plan[i + 1] = rest[i] /\ Rank(rest[i]) = 16
    BY <1>4, <1>5, <1>6
  <2> QED
    BY <2>1
<1>8. IsSequence(rest) /\ Len(rest) = n - 1 /\ \A i \in 1 .. n - 1 : rest[i] = plan[i + 1]
  BY <1>1, <1>2
<1>9. rest # <<>> /\ Head(rest) = rest[1]
  BY <1>7, <1>8, EmptySeq, TailIs DEF IsSequence
<1>10. \A i \in 1 .. n - 1 : Rank(rest[i]) \in 1 .. 16
  BY <1>3, <1>8
<1>11. \A i, j \in 1 .. n - 1 : i < j => Rank(rest[i]) < Rank(rest[j])
  <2>1. ASSUME NEW i \in 1 .. n - 1, NEW j \in 1 .. n - 1, i < j
        PROVE  Rank(rest[i]) < Rank(rest[j])
    <3>1. i + 1 \in 1 .. n /\ j + 1 \in 1 .. n /\ i + 1 < j + 1
      BY <2>1
    <3> QED
      BY <1>3, <1>8, <3>1
  <2> QED
    BY <2>1
<1>12. Rank(rest[1]) > at
  <2>1. 1 \in 1 .. n /\ 2 \in 1 .. n /\ 1 < 2 /\ rest[1] = plan[2]
    BY <1>7, <1>8
  <2>2. Rank(plan[1]) < Rank(plan[2])
    BY <1>3, <2>1
  <2> QED
    BY <1>2, <1>4, <2>1, <2>2
<1>13. ASSUME NEW r \in due, r > at
       PROVE  Rank(rest[1]) <= r
  <2>1. PICK i \in 1 .. n - 1 : Rank(rest[i]) = r
    BY <1>6, <1>13
  <2>2. 1 \in 1 .. n - 1 /\ (i = 1 \/ 1 < i)
    BY <1>7
  <2>3. Rank(rest[1]) \in 1 .. 16
    BY <1>10, <2>2
  <2>4. 1 < i => Rank(rest[1]) < Rank(rest[i])
    BY <1>11, <2>2
  <2>5. PICK x \in 1 .. 16 : x = Rank(rest[1])
    BY <2>3
  <2> QED
    BY <2>1, <2>2, <2>4, <2>5
<1>14. Rank(rest[1]) \in 1 .. 16
  BY <1>7, <1>10
<1>15. \A r \in due : r >= Rank(rest[1]) => \E i \in 1 .. n - 1 : Rank(rest[i]) = r
  <2>1. ASSUME NEW r \in due, r >= Rank(rest[1])
        PROVE  \E i \in 1 .. n - 1 : Rank(rest[i]) = r
    <3>1. r > at
      BY <1>4, <1>12, <1>14, <2>1
    <3> QED
      BY <1>6, <3>1
  <2> QED
    BY <2>1
<1>16. PlanOk(rest, due)
  BY <1>8, <1>9, <1>10, <1>11, <1>15 DEF PlanOk
<1> QED
  BY <1>9, <1>12, <1>13, <1>14, <1>16

-----------------------------------------------------------------------------
(***************************************************************************)
(* Curated records: the entries of a map in the order of their ids.        *)
(***************************************************************************)

\* Every number of a finite set has a place in its order, and every place a number.
LEMMA SortedIs ==
    ASSUME NEW S, IsFiniteSet(S), S \subseteq Nat
    PROVE  /\ IsSequence(Sorted(S)) /\ DOMAIN Sorted(S) = 1 .. Cardinality(S)
           /\ \A i \in 1 .. Cardinality(S) : Sorted(S)[i] \in S
           /\ \A n \in S : \E i \in 1 .. Cardinality(S) : Sorted(S)[i] = n
<1> DEFINE below(n) == {m \in S : m <= n}
<1>1. PICK c \in Nat : c = Cardinality(S)
  BY FS_CardinalityType
<1>2. ASSUME NEW n \in S
      PROVE  IsFiniteSet(below(n)) /\ Cardinality(below(n)) \in 1 .. c
  <2>1. below(n) \in SUBSET S
    OBVIOUS
  <2>2. IsFiniteSet(below(n)) /\ Cardinality(below(n)) <= c
    BY <1>1, <2>1, FS_Subset
  <2>3. Cardinality(below(n)) \in Nat
    BY <2>2, FS_CardinalityType
  <2>4. n \in below(n)
    OBVIOUS
  <2>5. Cardinality(below(n)) # 0
    BY <2>2, <2>4, FS_EmptySet
  <2> QED
    BY <2>2, <2>3, <2>5
<1>3. ASSUME NEW m \in S, NEW n \in S, m < n
      PROVE  Cardinality(below(m)) # Cardinality(below(n))
  <2>1. below(m) \in SUBSET below(n)
    <3>1. ASSUME NEW k \in S, k <= m
          PROVE  k <= n
      BY <1>3, <3>1
    <3> QED
      BY <3>1
  <2>2. n \in below(n) /\ n \notin below(m)
    BY <1>3
  <2> QED
    BY <1>2, <2>1, <2>2, FS_Subset
<1>4. \A m, n \in S : Cardinality(below(m)) = Cardinality(below(n)) => m = n
  <2>1. ASSUME NEW m \in S, NEW n \in S, Cardinality(below(m)) = Cardinality(below(n))
        PROVE  m = n
    <3>1. ~(m < n) /\ ~(n < m)
      BY <1>3, <2>1
    <3> QED
      BY <3>1
  <2> QED
    BY <2>1
<1> DEFINE place == [n \in S |-> Cardinality(below(n))]
<1>5. place \in Injection(S, 1 .. c)
  BY <1>2, <1>4 DEF Injection, IsInjective
<1>6. IsFiniteSet(1 .. c) /\ Cardinality(1 .. c) = c
  BY FS_Interval
<1>7. place \in Surjection(S, 1 .. c)
  BY <1>1, <1>5, <1>6, FS_Injection
<1>8. ASSUME NEW i \in 1 .. c
      PROVE  /\ Sorted(S)[i] \in S
             /\ Cardinality(below(Sorted(S)[i])) = i
  <2>1. \E n \in S : Cardinality(below(n)) = i
    BY <1>7 DEF Surjection
  <2> QED
    BY <1>1, <2>1 DEF Sorted
<1>9. ASSUME NEW n \in S
      PROVE  \E i \in 1 .. c : Sorted(S)[i] = n
  <2>1. PICK i \in 1 .. c : i = Cardinality(below(n))
    BY <1>2
  <2> QED
    BY <1>4, <1>8, <2>1
<1>10. DOMAIN Sorted(S) = 1 .. c /\ Sorted(S) = [i \in 1 .. c |-> Sorted(S)[i]]
  BY <1>1 DEF Sorted
<1> QED
  BY <1>1, <1>8, <1>9, <1>10, SequenceMade

\* Records with numbers as ids, and these ids.
CuratedGood(records) ==
    /\ IsSequence(records)
    /\ \A i \in DOMAIN records : DOMAIN records[i] = {"id", "entry"} /\ records[i].id \in Nat
IdsOf(records) == DOMAIN ById(records)

\* The records of a map are those of its ids.
LEMMA CuratedRecordsIs ==
    ASSUME NEW held, IsFiniteSet(DOMAIN held), DOMAIN held \subseteq Nat
    PROVE  CuratedGood(CuratedRecords(held)) /\ IdsOf(CuratedRecords(held)) = DOMAIN held
<1>1. PICK ids, c, records : /\ ids = Sorted(DOMAIN held) /\ c = Cardinality(DOMAIN held)
                             /\ records = CuratedRecords(held)
  OBVIOUS
<1>2. /\ DOMAIN ids = 1 .. c /\ c \in Nat /\ \A i \in 1 .. c : ids[i] \in DOMAIN held
      /\ \A n \in DOMAIN held : \E i \in 1 .. c : ids[i] = n
  BY <1>1, SortedIs, FS_CardinalityType
<1>3. records = [i \in 1 .. c |-> [id |-> ids[i], entry |-> held[ids[i]]]]
  BY <1>1, <1>2 DEF CuratedRecords
<1>4. /\ DOMAIN records = 1 .. c
      /\ \A i \in 1 .. c : records[i].id = ids[i] /\ DOMAIN records[i] = {"id", "entry"}
  BY <1>3
<1>5. IsSequence(records)
  BY <1>2, <1>3, <1>4, SequenceMade
<1>6. IdsOf(records) = {records[i].id : i \in 1 .. c}
  BY <1>4 DEF IdsOf, ById
<1>7. {records[i].id : i \in 1 .. c} = DOMAIN held
  <2>1. \A i \in 1 .. c : records[i].id \in DOMAIN held
    BY <1>2, <1>4
  <2>2. ASSUME NEW n \in DOMAIN held
        PROVE  \E i \in 1 .. c : records[i].id = n
    <3>1. PICK i \in 1 .. c : ids[i] = n
      BY <1>2
    <3> QED
      BY <1>4, <3>1
  <2> QED
    BY <2>1, <2>2
<1>8. CuratedGood(records)
  BY <1>2, <1>4, <1>5 DEF CuratedGood
<1> QED
  BY <1>1, <1>6, <1>7, <1>8

\* The ids of curated records are finitely many numbers.
LEMMA IdsAre ==
    ASSUME NEW records, CuratedGood(records)
    PROVE  IsFiniteSet(IdsOf(records)) /\ IdsOf(records) \subseteq Nat
<1>1. PICK n \in Nat : DOMAIN records = 1 .. n
  BY SequenceIs DEF CuratedGood
<1>2. IdsOf(records) = {records[i].id : i \in 1 .. n}
  BY <1>1 DEF IdsOf, ById
<1> DEFINE f == [i \in 1 .. n |-> records[i].id]
<1>3. f \in Surjection(1 .. n, IdsOf(records))
  BY <1>2 DEF Surjection
<1>4. IsFiniteSet(1 .. n)
  BY FS_Interval
<1>5. IsFiniteSet(IdsOf(records))
  BY <1>3, <1>4, FS_Surjection
<1> QED
  BY <1>1, <1>2, <1>5 DEF CuratedGood

\* What is merged has the ids of both.
LEMMA MergedIs ==
    ASSUME NEW existing, CuratedGood(existing), NEW current, CuratedGood(current)
    PROVE  /\ CuratedGood(MergeCuratedRecords(existing, current))
           /\ IdsOf(MergeCuratedRecords(existing, current)) = IdsOf(existing) \cup IdsOf(current)
<1>1. PICK held : held = Over(ById(current), ById(existing))
  OBVIOUS
<1>2. DOMAIN held = IdsOf(existing) \cup IdsOf(current)
  BY <1>1 DEF Over, IdsOf
<1>3. IsFiniteSet(DOMAIN held) /\ DOMAIN held \subseteq Nat
  BY <1>2, IdsAre, FS_Union
<1>4. MergeCuratedRecords(existing, current) = CuratedRecords(held)
  BY <1>1 DEF MergeCuratedRecords
<1> QED
  BY <1>2, <1>3, <1>4, CuratedRecordsIs

\* What is decoded has the ids that were kept.
LEMMA UnmarshaledIs ==
    ASSUME NEW old, CuratedGood(old), NEW current, CuratedGood(current)
    PROVE  /\ CuratedGood(UnmarshalCurated(old, current))
           /\ IdsOf(old) \subseteq IdsOf(UnmarshalCurated(old, current))
<1>1. CASE old = <<>>
  BY <1>1 DEF UnmarshalCurated, IdsOf, ById
<1>2. CASE old # <<>>
  <2>1. PICK new : new = UnmarshalCurated(old, current)
    OBVIOUS
  <2>2. new = [i \in DOMAIN old |->
                 IF old[i].entry.summary = "" /\ i \in DOMAIN current
                 THEN [old[i] EXCEPT !.entry.summary = current[i].entry.summary] ELSE old[i]]
    BY <1>2, <2>1 DEF UnmarshalCurated
  <2>3. PICK n \in Nat : n = Len(old) /\ DOMAIN old = 1 .. n
    BY SequenceIs DEF CuratedGood
  <2>4. ASSUME NEW i \in 1 .. n
        PROVE  DOMAIN new[i] = {"id", "entry"} /\ new[i].id = old[i].id
    <3>1. PICK r, s : r = old[i] /\ s = current[i].entry.summary
      OBVIOUS
    <3>2. DOMAIN r = {"id", "entry"}
      BY <2>3, <3>1 DEF CuratedGood
    <3>3. new[i] = IF r.entry.summary = "" /\ i \in DOMAIN current
                   THEN [r EXCEPT !.entry.summary = s] ELSE r
      BY <2>2, <2>3, <3>1
    <3>4. /\ DOMAIN [r EXCEPT !.entry.summary = s] = {"id", "entry"}
          /\ [r EXCEPT !.entry.summary = s].id = r.id
      BY <3>2
    <3> QED
      BY <3>1, <3>2, <3>3, <3>4
  <2>5. DOMAIN new = 1 .. n /\ new = [i \in 1 .. n |-> new[i]]
    BY <2>2, <2>3
  <2>6. IsSequence(new)
    BY <2>5, SequenceMade
  <2>7. CuratedGood(new)
    BY <2>3, <2>4, <2>5, <2>6 DEF CuratedGood
  <2>8. IdsOf(old) = {old[i].id : i \in 1 .. n} /\ IdsOf(new) = {new[i].id : i \in 1 .. n}
    BY <2>3, <2>5 DEF IdsOf, ById
  <2>9. IdsOf(old) = IdsOf(new)
    BY <2>4, <2>8
  <2> QED
    BY <2>1, <2>7, <2>9
<1> QED
  BY <1>1, <1>2

-----------------------------------------------------------------------------
(***************************************************************************)
(* The state of a session: what a hook makes of it.                        *)
(***************************************************************************)

BuildFields == {"plan", "kind", "trace", "since", "state", "seen", "curated", "index", "mounts"}
StateFields == {"observations", "reads", "written", "denied", "curated", "workflows",
                "generation", "events"}

\* A state is well formed, and a new one has all that an old one had.
StateGood(state) ==
    DOMAIN state = StateFields /\ CuratedGood(state.curated) /\ state.generation \in Nat
Keeps(old, new) ==
    /\ \A field \in {"observations", "reads", "written", "denied"} : old[field] \subseteq new[field]
    /\ IdsOf(old.curated) \subseteq IdsOf(new.curated)

\* The section a hook is at.
At(b) == Rank(Head(b.plan))

\* What a session keeps, and what the state in the making has of it, from the section
\* on in which it is taken.
HookOk(b, k, seq) ==
    /\ StateGood(k) /\ k.generation <= seq
    /\ k.generation = 0 => k = NewState
    /\ b.plan # <<>> =>
         /\ DOMAIN b = BuildFields /\ StateGood(b.state)
         /\ PlanOk(b.plan, Due(b.kind, k.generation > 0))
         /\ k.generation > 0 /\ At(b) > 3 => Keeps(k, b.state)
         /\ b.kind = "observe" /\ At(b) > 5 => SummarizeTrace(b.trace) \subseteq b.state.observations
         /\ At(b) > 6 => b.state.generation > k.generation /\ b.state.generation <= seq

\* Curated entries of the adapter.
CuratedHeld == IsFiniteSet(DOMAIN curated) /\ DOMAIN curated \subseteq Nat

\* What is kept twice is kept.
LEMMA KeepsTransitive ==
    ASSUME NEW a, NEW b, NEW c, Keeps(a, b), Keeps(b, c)
    PROVE  Keeps(a, c)
<1>1. \A field \in {"observations", "reads", "written", "denied"} : a[field] \subseteq c[field]
  BY Zenon DEF Keeps
<1>2. IdsOf(a.curated) \subseteq IdsOf(c.curated)
  BY Zenon DEF Keeps
<1> QED
  BY <1>1, <1>2, Zenon DEF Keeps

\* New workflows leave the rest of a state.
LEMMA WorkflowsIs ==
    ASSUME NEW state, StateGood(state), NEW flows
    PROVE  LET new == [state EXCEPT !.workflows = flows]
           IN  StateGood(new) /\ Keeps(state, new) /\ new.generation = state.generation
                 /\ new.observations = state.observations
<1>1. PICK new : new = [state EXCEPT !.workflows = flows]
  OBVIOUS
<1>2. DOMAIN state = StateFields
  BY DEF StateGood
<1>3. /\ DOMAIN new = StateFields
      /\ new.observations = state.observations /\ new.reads = state.reads /\ new.written = state.written
      /\ new.denied = state.denied /\ new.curated = state.curated /\ new.generation = state.generation
  BY <1>1, <1>2 DEF StateFields
<1>4. StateGood(new)
  BY <1>3 DEF StateGood
<1>5. Keeps(state, new)
  BY <1>3 DEF Keeps
<1> QED
  BY <1>1, <1>3, <1>4, <1>5

\* Merging what the adapter holds drops nothing.
LEMMA WithCuratedIs ==
    ASSUME NEW state, StateGood(state), CuratedHeld
    PROVE  LET new == WithCurated(state)
           IN  StateGood(new) /\ Keeps(state, new) /\ new.generation = state.generation
                 /\ new.observations = state.observations
<1>1. PICK new : new = WithCurated(state)
  OBVIOUS
<1>2. PICK merged : merged = MergeCuratedRecords(state.curated, CuratedRecords(curated))
  OBVIOUS
<1>3. CuratedGood(CuratedRecords(curated)) /\ CuratedGood(state.curated) /\ DOMAIN state = StateFields
  BY CuratedRecordsIs DEF CuratedHeld, StateGood
<1>4. CuratedGood(merged) /\ IdsOf(state.curated) \subseteq IdsOf(merged)
  BY <1>2, <1>3, MergedIs
<1>5. new = [state EXCEPT !.curated = merged]
  BY <1>1, <1>2 DEF WithCurated
<1>6. /\ DOMAIN new = StateFields
      /\ new.observations = state.observations /\ new.reads = state.reads /\ new.written = state.written
      /\ new.denied = state.denied /\ new.curated = merged /\ new.generation = state.generation
  BY <1>3, <1>5 DEF StateFields
<1>7. StateGood(new)
  BY <1>4, <1>6 DEF StateGood
<1>8. Keeps(state, new)
  BY <1>4, <1>6 DEF Keeps
<1> QED
  BY <1>1, <1>6, <1>7, <1>8

\* Decoding a kept state over a new one drops nothing of it.
LEMMA UnmarshalIs ==
    ASSUME NEW old, StateGood(old), NEW state, StateGood(state)
    PROVE  StateGood(Unmarshal(old, state)) /\ Keeps(old, Unmarshal(old, state))
<1>1. PICK new, decoded : new = Unmarshal(old, state) /\ decoded = UnmarshalCurated(old.curated, state.curated)
  OBVIOUS
<1>2. DOMAIN old = StateFields /\ CuratedGood(old.curated) /\ CuratedGood(state.curated)
  BY DEF StateGood
<1>3. CuratedGood(decoded) /\ IdsOf(old.curated) \subseteq IdsOf(decoded)
  BY <1>1, <1>2, UnmarshaledIs
<1>4. new = [old EXCEPT !.curated = decoded]
  BY <1>1 DEF Unmarshal
<1>5. /\ DOMAIN new = StateFields
      /\ new.observations = old.observations /\ new.reads = old.reads /\ new.written = old.written
      /\ new.denied = old.denied /\ new.curated = decoded /\ new.generation = old.generation
  BY <1>2, <1>4 DEF StateFields
<1>6. StateGood(new)
  BY <1>3, <1>5 DEF StateGood
<1>7. Keeps(old, new)
  BY <1>3, <1>5 DEF Keeps
<1> QED
  BY <1>1, <1>6, <1>7

\* A trace is added to what was observed.
LEMMA ObservedIs ==
    ASSUME NEW state, StateGood(state), NEW trace
    PROVE  /\ StateGood(Observed(state, trace)) /\ Keeps(state, Observed(state, trace))
           /\ SummarizeTrace(trace) \subseteq Observed(state, trace).observations
           /\ Observed(state, trace).generation = state.generation
<1>1. PICK new : new = Observed(state, trace)
  OBVIOUS
<1>2. PICK o, r, w, d : /\ o = MergePaths(state.observations, SummarizeTrace(trace))
                        /\ r = MergePaths(state.reads, {p \in trace.reads : p[1] \in Roots})
                        /\ w = MergePaths(state.written, {p \in trace.writes : p[1] = "task_outputs"})
                        /\ d = MergePaths(state.denied, trace.denied)
  OBVIOUS
<1>3. /\ state.observations \subseteq o /\ SummarizeTrace(trace) \subseteq o
      /\ state.reads \subseteq r /\ state.written \subseteq w /\ state.denied \subseteq d
  BY <1>2 DEF MergePaths
<1>4. DOMAIN state = StateFields
  BY DEF StateGood
<1>5. PICK s1, s2, s3 : /\ s1 = [state EXCEPT !.observations = o] /\ s2 = [s1 EXCEPT !.reads = r]
                        /\ s3 = [s2 EXCEPT !.written = w]
  OBVIOUS
<1>6. /\ DOMAIN s1 = StateFields /\ s1.observations = o /\ s1.reads = state.reads
      /\ s1.written = state.written /\ s1.denied = state.denied /\ s1.curated = state.curated
      /\ s1.generation = state.generation
  BY <1>4, <1>5 DEF StateFields
<1>7. /\ DOMAIN s2 = StateFields /\ s2.observations = o /\ s2.reads = r
      /\ s2.written = state.written /\ s2.denied = state.denied /\ s2.curated = state.curated
      /\ s2.generation = state.generation
  BY <1>5, <1>6 DEF StateFields
<1>8. /\ DOMAIN s3 = StateFields /\ s3.observations = o /\ s3.reads = r
      /\ s3.written = w /\ s3.denied = state.denied /\ s3.curated = state.curated
      /\ s3.generation = state.generation
  BY <1>5, <1>7 DEF StateFields
<1>9. new = [s3 EXCEPT !.denied = d]
  BY <1>1, <1>2, <1>5, <1>6, <1>7, <1>8 DEF Observed
<1>10. /\ DOMAIN new = StateFields /\ new.observations = o /\ new.reads = r
       /\ new.written = w /\ new.denied = d /\ new.curated = state.curated
       /\ new.generation = state.generation
  BY <1>8, <1>9 DEF StateFields
<1>11. StateGood(new)
  BY <1>10 DEF StateGood
<1>12. Keeps(state, new)
  BY <1>3, <1>10 DEF Keeps
<1> QED
  BY <1>1, <1>3, <1>10, <1>11, <1>12

\* A section of a hook keeps what the sections before it took.
LEMMA HookGoesOn ==
    ASSUME NEW b, NEW k, NEW c, NEW seq \in Nat, NEW seq2 \in Nat, seq <= seq2,
           HookOk(b, k, seq), b.plan # <<>>, At(b) # 16,
           DOMAIN c = BuildFields, c.plan = Tail(b.plan), c.kind = b.kind, c.trace = b.trace,
           StateGood(c.state),
           At(b) = 3 => Keeps(k, c.state),
           At(b) > 3 => Keeps(b.state, c.state),
           At(b) = 5 => SummarizeTrace(c.trace) \subseteq c.state.observations,
           At(b) = 6 => c.state.generation = seq + 1 /\ seq2 = seq + 1,
           At(b) > 6 => c.state.generation = b.state.generation
    PROVE  HookOk(c, k, seq2)
<1>1. PICK due : due = Due(b.kind, k.generation > 0)
  OBVIOUS
<1>2. /\ StateGood(k) /\ k.generation <= seq /\ (k.generation = 0 => k = NewState)
      /\ StateGood(b.state) /\ PlanOk(b.plan, due)
      /\ k.generation > 0 /\ At(b) > 3 => Keeps(k, b.state)
      /\ b.kind = "observe" /\ At(b) > 5 => SummarizeTrace(b.trace) \subseteq b.state.observations
      /\ At(b) > 6 => b.state.generation > k.generation /\ b.state.generation <= seq
  BY <1>1 DEF HookOk
<1>3. /\ due \subseteq 1 .. 16 /\ 16 \in due /\ 6 \in due /\ (k.generation > 0 => 3 \in due)
      /\ (b.kind = "observe" => 5 \in due)
  BY <1>1 DEF Due
<1>4. PICK at, next : at = At(b) /\ next = At(c)
  OBVIOUS
<1>5. /\ at \in 1 .. 16 /\ PlanOk(c.plan, due)
      /\ next \in 1 .. 16 /\ next > at
      /\ \A r \in due : r > at => next <= r
  BY <1>2, <1>3, <1>4, PlanGoesOn DEF At
<1>6. PICK kg \in Nat, bg \in Nat, cg \in Nat :
        kg = k.generation /\ bg = b.state.generation /\ cg = c.state.generation
  BY <1>2 DEF StateGood
<1>7. kg <= seq2
  BY <1>2, <1>6
<1>8. ASSUME kg > 0, next > 3
      PROVE  Keeps(k, c.state)
  <2>1. at >= 3
    BY <1>3, <1>5, <1>6, <1>8
  <2>2. CASE at = 3
    BY <1>4, <2>2
  <2>3. CASE at > 3
    <3>1. Keeps(k, b.state) /\ Keeps(b.state, c.state)
      BY <1>2, <1>4, <1>6, <1>8, <2>3
    <3> QED
      BY <3>1, KeepsTransitive
  <2> QED
    BY <1>5, <2>1, <2>2, <2>3
<1>9. ASSUME b.kind = "observe", next > 5
      PROVE  SummarizeTrace(c.trace) \subseteq c.state.observations
  <2>1. at >= 5
    BY <1>3, <1>5, <1>9
  <2>2. CASE at = 5
    BY <1>4, <2>2
  <2>3. CASE at > 5
    <3>1. SummarizeTrace(b.trace) \subseteq b.state.observations
      BY <1>2, <1>4, <1>9, <2>3
    <3>2. Keeps(b.state, c.state)
      BY <1>4, <1>5, <2>3
    <3>3. b.state.observations \subseteq c.state.observations
      BY <3>2 DEF Keeps
    <3> QED
      BY <3>1, <3>3
  <2> QED
    BY <1>5, <2>1, <2>2, <2>3
<1>10. ASSUME next > 6
       PROVE  cg > kg /\ cg <= seq2
  <2>1. at >= 6
    BY <1>3, <1>5, <1>10
  <2>2. CASE at = 6
    BY <1>2, <1>4, <1>6, <2>2
  <2>3. CASE at > 6
    BY <1>2, <1>4, <1>6, <2>3
  <2> QED
    BY <1>5, <2>1, <2>2, <2>3
<1> QED
  BY <1>1, <1>2, <1>4, <1>5, <1>6, <1>7, <1>8, <1>9, <1>10 DEF HookOk

\* A generation that another hook takes changes nothing.
LEMMA HookStays ==
    ASSUME NEW b, NEW k, NEW seq \in Nat, NEW seq2 \in Nat, seq <= seq2, HookOk(b, k, seq)
    PROVE  HookOk(b, k, seq2)
<1>1. CASE b.plan = <<>>
  <2>1. PICK g \in Nat : g = k.generation /\ g <= seq
    BY DEF HookOk, StateGood
  <2>2. g <= seq2
    BY <2>1
  <2> QED
    BY <1>1, <2>1, <2>2 DEF HookOk
<1>2. CASE b.plan # <<>>
  <2>1. PICK g \in Nat, h \in Nat : /\ g = k.generation /\ h = b.state.generation /\ g <= seq
                                    /\ At(b) > 6 => h > g /\ h <= seq
    BY <1>2 DEF HookOk, StateGood
  <2>2. g <= seq2 /\ (At(b) > 6 => h > g /\ h <= seq2)
    BY <2>1
  <2> QED
    BY <1>2, <2>1, <2>2 DEF HookOk
<1> QED
  BY <1>1, <1>2

-----------------------------------------------------------------------------
(***************************************************************************)
(* The views of a projection, and the moments at which the adapter held    *)
(* them.                                                                   *)
(***************************************************************************)

\* As HeldInOrder, of any history.
HeldIn(h, p, since, until, n) ==
    \E before \in [(since + 1) .. until -> 1 .. n + 1] : \A i \in 1 .. n :
      ViewIn(p, Views[i]) = ViewAt(h[MomentOf(since, before, i)], Views[i])

\* How many views there are at a section of the plan.
Collected(r) == IF r > 8 THEN r - 8 ELSE IF r > 6 THEN 1 ELSE 0

\* What is collected has its place.
Placed(b) ==
    /\ At(b) > 9 => "documents" \in DOMAIN b.index
    /\ At(b) > 10 => "resources" \in DOMAIN b.index
    /\ At(b) > 11 => "skills" \in DOMAIN b.index
    /\ At(b) > 13 => "documents" \in DOMAIN b.mounts
    /\ At(b) > 14 => "resources" \in DOMAIN b.mounts

\* A hook in the making, and the projection that a session shows.
ViewsOk(b, h) ==
    b.plan # <<>> =>
      /\ b.since \in 1 .. Len(h) /\ Placed(b)
      /\ HeldIn(h, b, b.since, Len(h), Collected(At(b)))
      /\ b.since = Len(h) => /\ At(b) > 13 => IndexAgrees(b.mounts.documents)
                             /\ At(b) > 14 => IndexAgrees(b.mounts.resources)
ShownOk(p, h) ==
    p # None =>
      /\ p.since \in 1 .. p.until /\ p.until \in 1 .. Len(h)
      /\ HeldIn(h, p, p.since, p.until, 8)
      /\ p.since = p.until => IndexAgrees(p.mounts.documents) /\ IndexAgrees(p.mounts.resources)

\* A set of numbers that has a bound has a greatest member.
LEMMA GreatestNat ==
    ASSUME NEW S, S \subseteq Nat, S # {}, NEW bound \in Nat, \A x \in S : x <= bound
    PROVE  \E x \in S : \A y \in S : x >= y
<1> DEFINE T == {bound - x : x \in S}
<1>1. T \subseteq Nat /\ T # {}
  <2>1. ASSUME NEW x \in S
        PROVE  bound - x \in Nat
    <3>1. x \in Nat /\ x <= bound
      OBVIOUS
    <3> QED
      BY <3>1
  <2> QED
    BY <2>1
<1>2. PICK t \in T : \A u \in T : t <= u
  BY <1>1, LeastNat
<1>3. PICK x \in S : t = bound - x
  BY <1>2
<1>4. ASSUME NEW y \in S
      PROVE  x >= y
  <2>1. bound - x <= bound - y
    BY <1>2, <1>3
  <2> QED
    BY <2>1
<1> QED
  BY <1>4

\* The moment of a view is one of the hook, and the last one if all changes fell before it.
LEMMA MomentIs ==
    ASSUME NEW since \in Nat, NEW until \in Nat, since <= until,
           NEW before, DOMAIN before = (since + 1) .. until, NEW i
    PROVE  /\ MomentOf(since, before, i) \in since .. until
           /\ (\A k \in DOMAIN before : before[k] <= i) => MomentOf(since, before, i) = until
<1> DEFINE S == {since} \cup {k \in DOMAIN before : before[k] <= i}
<1>1. S \subseteq Nat /\ S # {} /\ \A x \in S : x \in since .. until
  OBVIOUS
<1> HIDE DEF S
<1>2. \E x \in S : \A y \in S : x >= y
  <2>1. \A x \in S : x <= until
    BY <1>1
  <2> QED
    BY <1>1, <2>1, GreatestNat
<1>3. Max(S) \in S /\ \A y \in S : Max(S) >= y
  BY <1>2 DEF Max
<1>4. (\A k \in DOMAIN before : before[k] <= i) => until \in S
  BY DEF S
<1>5. PICK m \in since .. until : m = Max(S)
  BY <1>1, <1>3
<1>6. until \in S => m = until
  BY <1>3, <1>5
<1> QED
  BY <1>4, <1>5, <1>6 DEF MomentOf, S

\* Of no view there is nothing to say.
LEMMA NoViews ==
    ASSUME NEW h, NEW p, NEW since \in Nat, NEW until \in Nat
    PROVE  HeldIn(h, p, since, until, 0)
<1>1. PICK n \in Nat : n = 0
  OBVIOUS
<1>2. [k \in (since + 1) .. until |-> 1] \in [(since + 1) .. until -> 1 .. n + 1]
  BY <1>1
<1>3. \A i \in 1 .. n : FALSE
  BY <1>1
<1>4. HeldIn(h, p, since, until, n)
  BY <1>2, <1>3 DEF HeldIn
<1> QED
  BY <1>1, <1>4

\* The same views, and the same history as far as it goes.
LEMMA ViewsSame ==
    ASSUME NEW h, NEW g, NEW p, NEW q, NEW since \in Nat, NEW until \in Nat, since <= until, NEW n \in Nat,
           \A k \in since .. until : h[k] = g[k],
           \A i \in 1 .. n : ViewIn(p, Views[i]) = ViewIn(q, Views[i]),
           HeldIn(h, p, since, until, n)
    PROVE  HeldIn(g, q, since, until, n)
<1>1. PICK before \in [(since + 1) .. until -> 1 .. n + 1] : \A i \in 1 .. n :
        ViewIn(p, Views[i]) = ViewAt(h[MomentOf(since, before, i)], Views[i])
  BY DEF HeldIn
<1>2. ASSUME NEW i \in 1 .. n
      PROVE  ViewIn(q, Views[i]) = ViewAt(g[MomentOf(since, before, i)], Views[i])
  <2>1. MomentOf(since, before, i) \in since .. until
    BY MomentIs
  <2>2. h[MomentOf(since, before, i)] = g[MomentOf(since, before, i)]
    BY <2>1
  <2> QED
    BY <1>1, <2>2
<1> QED
  BY <1>2 DEF HeldIn

\* A change falls after the views that are there.
LEMMA ViewsOutlive ==
    ASSUME NEW h, NEW p, NEW since \in Nat, NEW until \in Nat, since <= until, NEW n \in Nat,
           HeldIn(h, p, since, until, n)
    PROVE  HeldIn(h, p, since, until + 1, n)
<1>1. PICK before \in [(since + 1) .. until -> 1 .. n + 1] : \A i \in 1 .. n :
        ViewIn(p, Views[i]) = ViewAt(h[MomentOf(since, before, i)], Views[i])
  BY DEF HeldIn
<1>2. PICK after : after = [k \in (since + 1) .. until + 1 |-> IF k = until + 1 THEN n + 1 ELSE before[k]]
  OBVIOUS
<1>3. after \in [(since + 1) .. until + 1 -> 1 .. n + 1]
  <2>1. ASSUME NEW k \in (since + 1) .. until + 1
        PROVE  (IF k = until + 1 THEN n + 1 ELSE before[k]) \in 1 .. n + 1
    <3>1. CASE k = until + 1
      BY <3>1
    <3>2. CASE k # until + 1
      <4>1. k \in (since + 1) .. until
        BY <3>2
      <4> QED
        BY <1>1, <3>2, <4>1
    <3> QED
      BY <3>1, <3>2
  <2> QED
    BY <1>2, <2>1
<1>4. ASSUME NEW i \in 1 .. n
      PROVE  MomentOf(since, after, i) = MomentOf(since, before, i)
  <2>1. ASSUME NEW k \in (since + 1) .. until + 1, after[k] <= i
        PROVE  k \in (since + 1) .. until /\ before[k] <= i
    <3>1. k # until + 1
      BY <1>2, <2>1
    <3>2. k \in (since + 1) .. until /\ after[k] = before[k]
      BY <1>2, <3>1
    <3> QED
      BY <2>1, <3>2
  <2>2. ASSUME NEW k \in (since + 1) .. until, before[k] <= i
        PROVE  k \in (since + 1) .. until + 1 /\ after[k] <= i
    <3>1. k \in (since + 1) .. until + 1 /\ k # until + 1
      OBVIOUS
    <3>2. after[k] = before[k]
      BY <1>2, <3>1
    <3> QED
      BY <2>2, <3>1, <3>2
  <2>3. DOMAIN after = (since + 1) .. until + 1 /\ DOMAIN before = (since + 1) .. until
    BY <1>2
  <2>4. {k \in DOMAIN after : after[k] <= i} = {k \in DOMAIN before : before[k] <= i}
    BY <2>1, <2>2, <2>3
  <2> QED
    BY <2>4 DEF MomentOf
<1>5. \A i \in 1 .. n : ViewIn(p, Views[i]) = ViewAt(h[MomentOf(since, after, i)], Views[i])
  BY <1>1, <1>4
<1> QED
  BY <1>3, <1>5 DEF HeldIn

\* One view more, of what the adapter holds now.
LEMMA ViewCollected ==
    ASSUME NEW h, NEW p, NEW q, NEW since \in Nat, NEW until \in Nat, since <= until,
           NEW n \in Nat, NEW m, m = n + 1,
           HeldIn(h, p, since, until, n),
           \A i \in 1 .. n : ViewIn(q, Views[i]) = ViewIn(p, Views[i]),
           ViewIn(q, Views[m]) = ViewAt(h[until], Views[m])
    PROVE  HeldIn(h, q, since, until, m)
<1>1. PICK before \in [(since + 1) .. until -> 1 .. n + 1] : \A i \in 1 .. n :
        ViewIn(p, Views[i]) = ViewAt(h[MomentOf(since, before, i)], Views[i])
  BY DEF HeldIn
<1>2. before \in [(since + 1) .. until -> 1 .. m + 1]
  OBVIOUS
<1>3. DOMAIN before = (since + 1) .. until /\ \A k \in DOMAIN before : before[k] <= m
  OBVIOUS
<1>4. MomentOf(since, before, m) = until
  BY <1>3, MomentIs
<1>5. ASSUME NEW i \in 1 .. m
      PROVE  ViewIn(q, Views[i]) = ViewAt(h[MomentOf(since, before, i)], Views[i])
  <2>1. CASE i = m
    BY <1>4, <2>1
  <2>2. CASE i # m
    <3>1. i \in 1 .. n
      BY <2>2
    <3> QED
      BY <1>1, <3>1
  <2> QED
    BY <2>1, <2>2
<1> QED
  BY <1>2, <1>5 DEF HeldIn

\* The views one by one.
LEMMA ViewsInAre ==
    ASSUME NEW p
    PROVE  /\ ViewIn(p, Views[1]) = p.seen /\ ViewIn(p, Views[2]) = p.index.documents
           /\ ViewIn(p, Views[3]) = p.index.resources /\ ViewIn(p, Views[4]) = p.index.skills
           /\ ViewIn(p, Views[5]) = p.curated /\ ViewIn(p, Views[6]) = p.mounts.documents.files
           /\ ViewIn(p, Views[7]) = p.mounts.resources.files
           /\ ViewIn(p, Views[8]) = p.mounts.skills.files
<1>1. /\ Views[1] = "audit" /\ Views[2] = "documents" /\ Views[3] = "resources" /\ Views[4] = "skills"
      /\ Views[5] = "curated" /\ Views[6] = "document files" /\ Views[7] = "resource files"
      /\ Views[8] = "skill files"
  BY DEF Views
<1>2. /\ ViewIn(p, "audit") = p.seen /\ ViewIn(p, "documents") = p.index.documents
      /\ ViewIn(p, "resources") = p.index.resources /\ ViewIn(p, "skills") = p.index.skills
      /\ ViewIn(p, "curated") = p.curated /\ ViewIn(p, "document files") = p.mounts.documents.files
      /\ ViewIn(p, "resource files") = p.mounts.resources.files
      /\ ViewIn(p, "skill files") = p.mounts.skills.files
  BY DEF ViewIn
<1> QED
  BY <1>1, <1>2

\* What each view would be of what the adapter held.
LEMMA ViewsAtAre ==
    ASSUME NEW h
    PROVE  /\ ViewAt(h, Views[1]) = h.events /\ ViewAt(h, Views[2]) = ProjectionRecords(h.documents)
           /\ ViewAt(h, Views[3]) = ProjectionRecords(h.resources)
           /\ ViewAt(h, Views[4]) = SkillRecords(h.skills)
           /\ ViewAt(h, Views[5]) = CuratedRecords(h.curated)
           /\ ViewAt(h, Views[6]) = KnowledgeMount(h.documents, {}).files
           /\ ViewAt(h, Views[7]) = ResourceMount(h.resources, {}).files
           /\ ViewAt(h, Views[8]) = SkillMount(h.skills, {}).files
<1>1. /\ Views[1] = "audit" /\ Views[2] = "documents" /\ Views[3] = "resources" /\ Views[4] = "skills"
      /\ Views[5] = "curated" /\ Views[6] = "document files" /\ Views[7] = "resource files"
      /\ Views[8] = "skill files"
  BY DEF Views
<1>2. /\ ViewAt(h, "audit") = h.events /\ ViewAt(h, "documents") = ProjectionRecords(h.documents)
      /\ ViewAt(h, "resources") = ProjectionRecords(h.resources)
      /\ ViewAt(h, "skills") = SkillRecords(h.skills) /\ ViewAt(h, "curated") = CuratedRecords(h.curated)
      /\ ViewAt(h, "document files") = KnowledgeMount(h.documents, {}).files
      /\ ViewAt(h, "resource files") = ResourceMount(h.resources, {}).files
      /\ ViewAt(h, "skill files") = SkillMount(h.skills, {}).files
  BY DEF ViewAt
<1> QED
  BY <1>1, <1>2

\* The files of a mount do not depend on the index beside them.
LEMMA FilesAre ==
    ASSUME NEW held, NEW records
    PROVE  /\ KnowledgeMount(held, records).files = KnowledgeMount(held, {}).files
           /\ ResourceMount(held, records).files = ResourceMount(held, {}).files
           /\ SkillMount(held, records).files = SkillMount(held, {}).files
<1>1. KnowledgeMount(held, records).files = KnowledgeMount(held, {}).files
  BY DEF KnowledgeMount
<1>2. ResourceMount(held, records).files = ResourceMount(held, {}).files
  BY DEF ResourceMount
<1>3. SkillMount(held, records).files = SkillMount(held, {}).files
  BY DEF SkillMount
<1> QED
  BY <1>1, <1>2, <1>3

\* An index that tells of what the files are made from agrees with them.
LEMMA FilesAgree ==
    ASSUME NEW held, NEW m, m.files = Files(held), m.index = ProjectionRecords(held)
    PROVE  IndexAgrees(m)
<1> DEFINE files == {f[1] : f \in Files(held)}
           named == {r.name : r \in {r \in ProjectionRecords(held) : r.meta.materialization # "failed"}}
           there == {n \in DOMAIN held : ShouldMaterialize(held[n])}
<1>1. files = there
  <2>1. ASSUME NEW n \in there
        PROVE  n \in files
    <3>1. <<n, held[n].content>> \in Files(held)
      BY DEF Files
    <3>2. <<n, held[n].content>>[1] = n
      OBVIOUS
    <3> QED
      BY <3>1, <3>2
  <2>2. ASSUME NEW f \in Files(held)
        PROVE  f[1] \in there
    BY DEF Files
  <2> QED
    BY <2>1, <2>2
<1>2. named = there
  <2>1. ASSUME NEW n \in there
        PROVE  n \in named
    <3>1. PICK r : r = [name |-> n, meta |-> held[n].meta]
      OBVIOUS
    <3>2. r \in ProjectionRecords(held) /\ r.name = n /\ r.meta.materialization # "failed"
      BY <3>1 DEF ProjectionRecords, ShouldMaterialize
    <3> QED
      BY <3>2
  <2>2. ASSUME NEW r \in ProjectionRecords(held), r.meta.materialization # "failed"
        PROVE  r.name \in there
    BY <2>2 DEF ProjectionRecords, ShouldMaterialize
  <2> QED
    BY <2>1, <2>2
<1>3. {f[1] : f \in m.files} = files
  OBVIOUS
<1>4. {r.name : r \in {r \in m.index : r.meta.materialization # "failed"}} = named
  OBVIOUS
<1> QED
  BY <1>1, <1>2, <1>3, <1>4 DEF IndexAgrees

\* A mount built at the moment of its index agrees with it.
LEMMA MountsAgree ==
    ASSUME NEW held
    PROVE  /\ IndexAgrees(KnowledgeMount(held, ProjectionRecords(held)))
           /\ IndexAgrees(ResourceMount(held, ProjectionRecords(held)))
<1>1. CASE DOMAIN held = {}
  <2>1. IndexAgrees([index |-> {}, files |-> {}])
    BY DEF IndexAgrees
  <2>2. IndexAgrees([index |-> {EmptyDocument}, files |-> {<<0, 0>>}])
    <3>1. PICK m : m = [index |-> {EmptyDocument}, files |-> {<<0, 0>>}]
      OBVIOUS
    <3>2. m.index = {EmptyDocument} /\ m.files = {<<0, 0>>}
      BY <3>1
    <3>3. {f[1] : f \in m.files} = {0}
      BY <3>2
    <3>4. EmptyDocument.name = 0 /\ EmptyDocument.meta.materialization = "materialized"
      BY DEF EmptyDocument
    <3>5. {r \in m.index : r.meta.materialization # "failed"} = {EmptyDocument}
      BY <3>2, <3>4
    <3>6. {r.name : r \in {r \in m.index : r.meta.materialization # "failed"}} = {0}
      BY <3>4, <3>5
    <3> QED
      BY <3>1, <3>3, <3>6 DEF IndexAgrees
  <2> QED
    BY <1>1, <2>1, <2>2 DEF KnowledgeMount, ResourceMount, NoMount
<1>2. CASE DOMAIN held # {}
  <2>1. PICK m : m = [index |-> ProjectionRecords(held), files |-> Files(held)]
    OBVIOUS
  <2>2. m.index = ProjectionRecords(held) /\ m.files = Files(held)
    BY <2>1
  <2>3. IndexAgrees(m)
    BY <2>2, FilesAgree
  <2> QED
    BY <1>2, <2>1, <2>3 DEF KnowledgeMount, ResourceMount
<1> QED
  BY <1>1, <1>2

-----------------------------------------------------------------------------
(***************************************************************************)
(* The inductive invariant.                                                *)
(***************************************************************************)

HookInv(s) == HookOk(build[s], kept[s], projectionSeq)
ViewsInv(s) == ViewsOk(build[s], history) /\ ShownOk(shown[s], history)

\* In every state.
AdapterInv ==
    /\ DOMAIN build = Sessions /\ DOMAIN kept = Sessions /\ DOMAIN shown = Sessions
    /\ projectionSeq \in Nat /\ HistoryInv /\ AuditInv /\ CuratedHeld
    /\ \A s \in Sessions : HookInv(s) /\ ViewsInv(s)

\* The history ends with what the adapter holds.
LEMMA HeldNow ==
    ASSUME HistoryInv
    PROVE  /\ Skilled(skills) /\ Len(history) \in Nat \ {0} /\ history[Len(history)] = Held
           /\ DOMAIN history = 1 .. Len(history)
<1>1. Len(history) \in Nat \ {0} /\ DOMAIN history = 1 .. Len(history)
  BY SequenceIs, TailIs DEF HistoryInv
<1>2. Len(history) \in DOMAIN history /\ history[Len(history)] = Held
  BY <1>1 DEF HistoryInv
<1>3. Skilled(history[Len(history)].skills)
  BY <1>2 DEF HistoryInv
<1>4. Skilled(skills)
  BY <1>2, <1>3 DEF Held
<1> QED
  BY <1>1, <1>2, <1>4

\* What a section does to the views: it collects one, or none.
Collects(b, c, h) ==
    LET n == Collected(At(b))
    IN  /\ \A i \in 1 .. n : ViewIn(c, Views[i]) = ViewIn(b, Views[i])
        /\ At(b) \in {6} \cup 9 .. 15 => ViewIn(c, Views[n + 1]) = ViewAt(h[Len(h)], Views[n + 1])
        /\ At(b) > 9 => DOMAIN b.index \subseteq DOMAIN c.index
        /\ At(b) = 9 => "documents" \in DOMAIN c.index
        /\ At(b) = 10 => "resources" \in DOMAIN c.index
        /\ At(b) = 11 => "skills" \in DOMAIN c.index
        /\ At(b) > 13 => DOMAIN b.mounts \subseteq DOMAIN c.mounts /\ c.mounts.documents = b.mounts.documents
        /\ At(b) > 14 => c.mounts.resources = b.mounts.resources
        /\ At(b) = 13 => /\ "documents" \in DOMAIN c.mounts
                         /\ b.since = Len(h) => IndexAgrees(c.mounts.documents)
        /\ At(b) = 14 => /\ "resources" \in DOMAIN c.mounts
                         /\ b.since = Len(h) => IndexAgrees(c.mounts.resources)

\* How many views there are at the section after one.
LEMMA CollectedGoesOn ==
    ASSUME NEW at \in 1 .. 16, NEW next \in 1 .. 16, at < 6 => next <= 6, at >= 6 => next = at + 1
    PROVE  /\ Collected(at) \in Nat
           /\ at < 6 => Collected(next) = 0
           /\ at \in 7 .. 8 => Collected(next) = Collected(at)
           /\ at \in {6} \cup 9 .. 15 => Collected(next) = Collected(at) + 1
<1>1. CASE at < 6
  BY <1>1 DEF Collected
<1>2. CASE at = 6
  BY <1>2 DEF Collected
<1>3. CASE at \in 7 .. 8
  BY <1>3 DEF Collected
<1>4. CASE at > 8
  BY <1>4 DEF Collected
<1> QED
  BY <1>1, <1>2, <1>3, <1>4

\* A section that collects the next view, or none, keeps the order of the moments.
LEMMA ViewsGoOn ==
    ASSUME NEW h, Len(h) \in Nat, NEW b, NEW c, NEW due, PlanOk(b.plan, due),
           due \subseteq 1 .. 16, 6 .. 16 \subseteq due,
           ViewsOk(b, h), b.plan # <<>>, At(b) # 16, c.plan = Tail(b.plan), c.since = b.since,
           Collects(b, c, h)
    PROVE  ViewsOk(c, h)
<1>0. PICK n, m :
        /\ n = Collected(At(b)) /\ m = n + 1
        /\ \A i \in 1 .. n : ViewIn(c, Views[i]) = ViewIn(b, Views[i])
        /\ At(b) \in {6} \cup 9 .. 15 => ViewIn(c, Views[m]) = ViewAt(h[Len(h)], Views[m])
        /\ At(b) > 9 => DOMAIN b.index \subseteq DOMAIN c.index
        /\ At(b) = 9 => "documents" \in DOMAIN c.index
        /\ At(b) = 10 => "resources" \in DOMAIN c.index
        /\ At(b) = 11 => "skills" \in DOMAIN c.index
        /\ At(b) > 13 => DOMAIN b.mounts \subseteq DOMAIN c.mounts /\ c.mounts.documents = b.mounts.documents
        /\ At(b) > 14 => c.mounts.resources = b.mounts.resources
        /\ At(b) = 13 => /\ "documents" \in DOMAIN c.mounts
                         /\ b.since = Len(h) => IndexAgrees(c.mounts.documents)
        /\ At(b) = 14 => /\ "resources" \in DOMAIN c.mounts
                         /\ b.since = Len(h) => IndexAgrees(c.mounts.resources)
  BY DEF Collects
<1>1. PICK at, next, l : at = At(b) /\ next = At(c) /\ l = Len(h)
  OBVIOUS
<1>2. 16 \in due
  OBVIOUS
<1>3. /\ at \in 1 .. 16 /\ next \in 1 .. 16 /\ next > at
      /\ \A r \in due : r > at => next <= r
  BY <1>1, <1>2, PlanGoesOn DEF At
<1>4. (at < 6 => next <= 6) /\ (at >= 6 => next = at + 1)
  <2>1. CASE at < 6
    <3>1. 6 \in due
      OBVIOUS
    <3> QED
      BY <1>3, <2>1, <3>1
  <2>2. CASE at >= 6
    <3>0. at # 16
      BY <1>1
    <3>1. at + 1 \in 6 .. 16
      BY <1>3, <2>2, <3>0
    <3>2. PICK r \in due : r = at + 1
      BY <3>1
    <3>3. next <= r
      BY <1>3, <3>2
    <3> QED
      BY <1>3, <2>2, <3>2, <3>3
  <2> QED
    BY <1>3, <2>1, <2>2
<1>5. PICK since \in 1 .. l : since = b.since /\ c.since = since
  BY <1>1 DEF ViewsOk
<1>6. /\ Placed(b) /\ HeldIn(h, b, since, l, n)
      /\ since = l => /\ at > 13 => IndexAgrees(b.mounts.documents)
                      /\ at > 14 => IndexAgrees(b.mounts.resources)
  BY <1>0, <1>1, <1>5 DEF ViewsOk
<1>7. /\ n \in Nat
      /\ at < 6 => Collected(next) = 0
      /\ at \in 7 .. 8 => Collected(next) = n
      /\ at \in {6} \cup 9 .. 15 => Collected(next) = m
  <2>1. n = Collected(at) /\ m = n + 1
    BY <1>0, <1>1
  <2> QED
    BY <1>3, <1>4, <2>1, CollectedGoesOn
<1>8. HeldIn(h, c, since, l, Collected(next))
  <2>1. CASE at < 6
    <3>1. PICK o : o = Collected(next)
      OBVIOUS
    <3>2. o = 0
      BY <1>7, <2>1, <3>1
    <3> QED
      BY <1>1, <1>5, <3>1, <3>2, NoViews
  <2>2. CASE at \in 7 .. 8
    <3>1. Collected(next) = n
      BY <1>7, <2>2
    <3>2. HeldIn(h, c, since, l, n)
      <4>1. \A k \in since .. l : h[k] = h[k]
        OBVIOUS
      <4>2. \A i \in 1 .. n : ViewIn(b, Views[i]) = ViewIn(c, Views[i])
        BY <1>0
      <4> QED
        BY <1>1, <1>5, <1>6, <1>7, <4>1, <4>2, ViewsSame
    <3> QED
      BY <3>1, <3>2
  <2>3. CASE at \in {6} \cup 9 .. 15
    <3>1. Collected(next) = m
      BY <1>7, <2>3
    <3>2. HeldIn(h, c, since, l, m)
      <4>1. ViewIn(c, Views[m]) = ViewAt(h[l], Views[m])
        BY <1>0, <1>1, <2>3
      <4>2. since \in Nat /\ l \in Nat /\ since <= l
        BY <1>1, <1>5
      <4>3. HeldIn(h, b, since, l, n)
        BY <1>6
      <4>4. m = n + 1 /\ \A i \in 1 .. n : ViewIn(c, Views[i]) = ViewIn(b, Views[i])
        BY <1>0
      <4> QED
        BY <1>7, <4>1, <4>2, <4>3, <4>4, ViewCollected
    <3> QED
      BY <3>1, <3>2
  <2>4. at \in 1 .. 16 /\ at # 16
    BY <1>1, <1>3
  <2>5. at < 6 \/ at \in 7 .. 8 \/ at \in {6} \cup 9 .. 15
    BY <2>4
  <2> QED
    BY <2>1, <2>2, <2>3, <2>5
<1>9. Placed(c)
  <2>1. /\ at > 9 => "documents" \in DOMAIN b.index
        /\ at > 10 => "resources" \in DOMAIN b.index
        /\ at > 11 => "skills" \in DOMAIN b.index
        /\ at > 13 => "documents" \in DOMAIN b.mounts
        /\ at > 14 => "resources" \in DOMAIN b.mounts
    BY <1>1, <1>6 DEF Placed
  <2>2. /\ next > 9 => at = 9 \/ at > 9
        /\ next > 10 => at = 10 \/ at > 10
        /\ next > 11 => at = 11 \/ at > 11
        /\ next > 13 => at = 13 \/ at > 13
        /\ next > 14 => at = 14 \/ at > 14
        /\ (at > 10 => at > 9) /\ (at > 11 => at > 9) /\ (at > 14 => at > 13)
        /\ (at = 10 => at > 9) /\ (at = 11 => at > 9) /\ (at = 14 => at > 13)
    BY <1>3, <1>4
  <2> QED
    BY <1>0, <1>1, <2>1, <2>2 DEF Placed
<1>10. ASSUME since = l
       PROVE  /\ next > 13 => IndexAgrees(c.mounts.documents)
              /\ next > 14 => IndexAgrees(c.mounts.resources)
  <2>1. /\ next > 13 => at = 13 \/ at > 13
        /\ next > 14 => at = 14 \/ at > 14
    BY <1>3, <1>4
  <2> QED
    BY <1>0, <1>1, <1>5, <1>6, <1>10, <2>1
<1> QED
  BY <1>1, <1>5, <1>8, <1>9, <1>10 DEF ViewsOk


\* What a section leaves in the locals of its hook.
LEMMA LeavesIs ==
    ASSUME DOMAIN build = Sessions, NEW s \in Sessions, NEW local, DOMAIN local = BuildFields,
           Leaves(s, local)
    PROVE  /\ DOMAIN build' = Sessions /\ \A t \in Sessions \ {s} : build'[t] = build[t]
           /\ DOMAIN build'[s] = BuildFields
           /\ build'[s].plan = Tail(local.plan) /\ build'[s].kind = local.kind
           /\ build'[s].trace = local.trace /\ build'[s].since = local.since
           /\ build'[s].state = local.state /\ build'[s].seen = local.seen
           /\ build'[s].curated = local.curated /\ build'[s].index = local.index
           /\ build'[s].mounts = local.mounts
<1>1. PICK c : c = [local EXCEPT !.plan = Tail(local.plan)]
  OBVIOUS
<1>2. /\ DOMAIN c = BuildFields /\ c.plan = Tail(local.plan) /\ c.kind = local.kind
      /\ c.trace = local.trace /\ c.since = local.since /\ c.state = local.state
      /\ c.seen = local.seen /\ c.curated = local.curated /\ c.index = local.index
      /\ c.mounts = local.mounts
  BY <1>1 DEF BuildFields
<1>3. build' = [build EXCEPT ![s] = c]
  BY <1>1 DEF Leaves
<1>4. DOMAIN build' = Sessions /\ build'[s] = c /\ \A t \in Sessions \ {s} : build'[t] = build[t]
  BY <1>3
<1> QED
  BY <1>2, <1>4

\* A section keeps the invariant if it keeps what its hook has, and its views.
LEMMA SectionKeeps ==
    ASSUME AdapterInv, NEW s \in Sessions, Busy(s), NEW b, b = build[s], At(b) # 16,
           NEW local, Leaves(s, local), DOMAIN local = BuildFields,
           local.plan = b.plan, local.kind = b.kind, local.trace = b.trace, local.since = b.since,
           UNCHANGED <<adapter, kept, shown, history>>,
           NEW seq, NEW seq2, seq = projectionSeq, seq2 = projectionSeq', seq2 \in Nat, seq <= seq2,
           StateGood(local.state),
           At(b) = 3 => Keeps(kept[s], local.state),
           At(b) > 3 => Keeps(b.state, local.state),
           At(b) = 5 => SummarizeTrace(b.trace) \subseteq local.state.observations,
           At(b) = 6 => local.state.generation = seq + 1 /\ seq2 = seq + 1,
           At(b) > 6 => local.state.generation = b.state.generation,
           \A c : (/\ c.seen = local.seen /\ c.curated = local.curated /\ c.index = local.index
                   /\ c.mounts = local.mounts /\ c.plan = Tail(b.plan) /\ c.since = b.since)
                    => ViewsOk(c, history)
    PROVE  AdapterInv'
<1>1. PICK c, k : c = build'[s] /\ k = kept[s]
  OBVIOUS
<1>2. /\ DOMAIN build = Sessions /\ DOMAIN kept = Sessions /\ DOMAIN shown = Sessions
      /\ seq \in Nat /\ HistoryInv /\ AuditInv /\ CuratedHeld
      /\ \A t \in Sessions : HookInv(t) /\ ViewsInv(t)
  BY DEF AdapterInv
<1>3. /\ DOMAIN build' = Sessions /\ \A t \in Sessions \ {s} : build'[t] = build[t]
      /\ DOMAIN c = BuildFields
      /\ c.plan = Tail(b.plan) /\ c.kind = b.kind /\ c.trace = b.trace /\ c.since = b.since
      /\ c.state = local.state /\ c.seen = local.seen /\ c.curated = local.curated
      /\ c.index = local.index /\ c.mounts = local.mounts
  BY <1>1, <1>2, LeavesIs
<1>4. /\ kept' = kept /\ shown' = shown /\ history' = history /\ events' = events /\ skills' = skills
      /\ curated' = curated /\ Held' = Held
  BY DEF adapter, Held
<1>5. HistoryInv' /\ AuditInv' /\ CuratedHeld'
  BY <1>2, <1>4 DEF HistoryInv, AuditInv, CuratedHeld, Current, Chained, KeptScopes
<1>6. HookOk(b, k, seq) /\ b.plan # <<>>
  BY <1>1, <1>2 DEF HookInv, Busy
<1>7. HookOk(c, k, seq2)
  <2>1. /\ At(b) = 3 => Keeps(k, c.state)
        /\ At(b) > 3 => Keeps(b.state, c.state)
        /\ At(b) = 5 => SummarizeTrace(c.trace) \subseteq c.state.observations
        /\ At(b) = 6 => c.state.generation = seq + 1 /\ seq2 = seq + 1
        /\ At(b) > 6 => c.state.generation = b.state.generation
        /\ StateGood(c.state)
    BY <1>1, <1>3
  <2>2. seq \in Nat /\ seq2 \in Nat /\ seq <= seq2
    BY <1>2
  <2>3. DOMAIN c = BuildFields /\ c.plan = Tail(b.plan) /\ c.kind = b.kind /\ c.trace = b.trace
    BY <1>3
  <2>4. At(b) # 16
    OBVIOUS
  <2> QED
    BY <1>6, <2>1, <2>2, <2>3, <2>4, HookGoesOn
<1>8. ViewsOk(c, history)
  BY <1>3
<1>9. ASSUME NEW t \in Sessions
      PROVE  HookInv(t)' /\ ViewsInv(t)'
  <2>1. CASE t = s
    BY <1>1, <1>2, <1>4, <1>7, <1>8, <2>1 DEF HookInv, ViewsInv
  <2>2. CASE t # s
    <3>1. PICK d, e : d = build[t] /\ e = kept[t]
      OBVIOUS
    <3>2. HookOk(d, e, seq)
      BY <1>2, <3>1 DEF HookInv
    <3>3. HookOk(d, e, seq2)
      BY <1>2, <3>2, HookStays
    <3>4. build'[t] = d /\ kept'[t] = e
      BY <1>3, <1>4, <2>2, <3>1
    <3> QED
      BY <1>2, <1>4, <3>1, <3>3, <3>4 DEF HookInv, ViewsInv
  <2> QED
    BY <2>1, <2>2
<1> QED
  BY <1>2, <1>3, <1>4, <1>5, <1>9 DEF AdapterInv

\* A section whose stage is the first of the plan.
LEMMA SectionIs ==
    ASSUME AdapterInv, NEW s \in Sessions, NEW stage, Does(s, stage), NEW b, b = build[s],
           NEW k, k = kept[s]
    PROVE  /\ Busy(s) /\ b.plan # <<>> /\ At(b) = Rank(stage) /\ At(b) \in 1 .. 16
           /\ DOMAIN b = BuildFields /\ StateGood(b.state) /\ StateGood(k)
           /\ PlanOk(b.plan, Due(b.kind, k.generation > 0)) /\ ViewsOk(b, history)
<1>1. HookOk(b, k, projectionSeq) /\ ViewsOk(b, history)
  BY DEF AdapterInv, HookInv, ViewsInv
<1>2. Busy(s) /\ b.plan # <<>> /\ At(b) = Rank(stage)
  BY DEF Does, Busy, At
<1>3. PICK due : due = Due(b.kind, k.generation > 0)
  OBVIOUS
<1>4. DOMAIN b = BuildFields /\ StateGood(b.state) /\ StateGood(k) /\ PlanOk(b.plan, due)
  BY <1>1, <1>2, <1>3 DEF HookOk
<1>5. due \subseteq 1 .. 16 /\ 16 \in due
  BY <1>3 DEF Due
<1>6. At(b) \in 1 .. 16
  BY <1>4, <1>5, PlanGoesOn DEF At
<1> QED
  BY <1>1, <1>2, <1>3, <1>4, <1>6

\* A section that only makes another state.
LEMMA StateMoves ==
    ASSUME AdapterInv, NEW s \in Sessions, NEW stage, Does(s, stage), NEW b, b = build[s],
           NEW k, k = kept[s],
           At(b) \notin {6} \cup 9 .. 16, NEW state, Leaves(s, [b EXCEPT !.state = state]), OnlyBuild,
           StateGood(state),
           At(b) = 3 => Keeps(k, state),
           At(b) > 3 => Keeps(b.state, state),
           At(b) = 5 => SummarizeTrace(b.trace) \subseteq state.observations,
           At(b) > 6 => state.generation = b.state.generation
    PROVE  AdapterInv'
<1>1. PICK local : local = [b EXCEPT !.state = state]
  OBVIOUS
<1>2. /\ Busy(s) /\ b.plan # <<>> /\ At(b) \in 1 .. 16 /\ DOMAIN b = BuildFields
      /\ PlanOk(b.plan, Due(b.kind, k.generation > 0)) /\ ViewsOk(b, history)
  BY SectionIs
<1>3. /\ DOMAIN local = BuildFields /\ local.plan = b.plan /\ local.kind = b.kind
      /\ local.trace = b.trace /\ local.since = b.since /\ local.state = state
      /\ local.seen = b.seen /\ local.curated = b.curated /\ local.index = b.index
      /\ local.mounts = b.mounts
  BY <1>1, <1>2 DEF BuildFields
<1>4. PICK due : due = Due(b.kind, k.generation > 0) /\ due \subseteq 1 .. 16 /\ 6 .. 16 \subseteq due
  <2>1. PICK due : due = Due(b.kind, k.generation > 0)
    OBVIOUS
  <2>2. due \subseteq 1 .. 16 /\ 6 .. 16 \subseteq due
    BY <2>1 DEF Due
  <2> QED
    BY <2>1, <2>2
<1>5. Len(history) \in Nat
  BY HeldNow DEF AdapterInv
<1>6. PICK n : n = Collected(At(b))
  OBVIOUS
<1>7. ASSUME NEW c, c.seen = b.seen, c.curated = b.curated, c.index = b.index,
             c.mounts = b.mounts, c.plan = Tail(b.plan), c.since = b.since
      PROVE  ViewsOk(c, history)
  <2>1. n \in {0, 1}
    BY <1>2, <1>6 DEF Collected
  <2>2. ViewIn(c, Views[1]) = ViewIn(b, Views[1])
    BY <1>7, ViewsInAre
  <2>3. \A i \in 1 .. n : ViewIn(c, Views[i]) = ViewIn(b, Views[i])
    BY <2>1, <2>2
  <2>4. ~(At(b) > 9) /\ At(b) # 9 /\ At(b) # 10 /\ At(b) # 11 /\ ~(At(b) > 13) /\ ~(At(b) > 14)
        /\ At(b) # 13 /\ At(b) # 14 /\ At(b) # 16
    BY <1>2
  <2>5. Collects(b, c, history)
    BY <1>2, <1>6, <2>3, <2>4 DEF Collects
  <2> QED
    BY <1>2, <1>4, <1>5, <1>7, <2>5, ViewsGoOn
<1>8. UNCHANGED <<adapter, kept, shown, history, projectionSeq>>
  BY DEF OnlyBuild
<1>9. PICK seq \in Nat : seq = projectionSeq /\ seq = projectionSeq' /\ seq <= seq
  BY <1>8 DEF AdapterInv
<1>10. /\ At(b) # 16 /\ At(b) # 6 /\ StateGood(local.state)
       /\ At(b) = 3 => Keeps(kept[s], local.state)
       /\ At(b) > 3 => Keeps(b.state, local.state)
       /\ At(b) = 5 => SummarizeTrace(b.trace) \subseteq local.state.observations
       /\ At(b) > 6 => local.state.generation = b.state.generation
  BY <1>3
<1>11. \A c : (/\ c.seen = local.seen /\ c.curated = local.curated /\ c.index = local.index
               /\ c.mounts = local.mounts /\ c.plan = Tail(b.plan) /\ c.since = b.since)
                 => ViewsOk(c, history)
  BY <1>3, <1>7
<1>12. /\ local.plan = b.plan /\ local.kind = b.kind /\ local.trace = b.trace
       /\ local.since = b.since /\ DOMAIN local = BuildFields /\ Leaves(s, local) /\ Busy(s)
  BY <1>1, <1>2, <1>3
<1> QED
  BY <1>8, <1>9, <1>10, <1>11, <1>12, SectionKeeps


\* Views depend on the locals that hold them only.
LEMMA SameViewsIn ==
    ASSUME NEW p, NEW q, p.seen = q.seen, p.curated = q.curated, p.index = q.index, p.mounts = q.mounts
    PROVE  \A i \in 1 .. 8 : ViewIn(p, Views[i]) = ViewIn(q, Views[i])
<1>1. /\ ViewIn(p, Views[1]) = ViewIn(q, Views[1]) /\ ViewIn(p, Views[2]) = ViewIn(q, Views[2])
      /\ ViewIn(p, Views[3]) = ViewIn(q, Views[3]) /\ ViewIn(p, Views[4]) = ViewIn(q, Views[4])
      /\ ViewIn(p, Views[5]) = ViewIn(q, Views[5]) /\ ViewIn(p, Views[6]) = ViewIn(q, Views[6])
      /\ ViewIn(p, Views[7]) = ViewIn(q, Views[7]) /\ ViewIn(p, Views[8]) = ViewIn(q, Views[8])
  BY ViewsInAre
<1> QED
  BY <1>1

\* The views are those of the locals that the section leaves.
LEMMA ViewsOfLocal ==
    ASSUME HistoryInv, NEW b, NEW kind, NEW restored, PlanOk(b.plan, Due(kind, restored)), ViewsOk(b, history),
           b.plan # <<>>, At(b) # 16, At(b) \in 1 .. 16, NEW local, Collects(b, local, history),
           NEW c, c.seen = local.seen, c.curated = local.curated, c.index = local.index,
           c.mounts = local.mounts, c.plan = Tail(b.plan), c.since = b.since
    PROVE  ViewsOk(c, history)
<1>1. PICK due : due = Due(kind, restored) /\ due \subseteq 1 .. 16 /\ 6 .. 16 \subseteq due
  <2>1. PICK due : due = Due(kind, restored)
    OBVIOUS
  <2>2. due \subseteq 1 .. 16 /\ 6 .. 16 \subseteq due
    BY <2>1 DEF Due
  <2> QED
    BY <2>1, <2>2
<1>2. \A i \in 1 .. 8 : ViewIn(c, Views[i]) = ViewIn(local, Views[i])
  BY SameViewsIn
<1>3. PICK n, m : n = Collected(At(b)) /\ m = n + 1
  OBVIOUS
<1>4. n \in 0 .. 8 /\ (At(b) \in {6} \cup 9 .. 15 => m \in 1 .. 8)
  BY <1>3 DEF Collected
<1>5. \A i \in 1 .. n : ViewIn(c, Views[i]) = ViewIn(b, Views[i])
  <2>1. ASSUME NEW i \in 1 .. n
        PROVE  ViewIn(c, Views[i]) = ViewIn(b, Views[i])
    <3>1. i \in 1 .. 8
      BY <1>4
    <3>2. ViewIn(local, Views[i]) = ViewIn(b, Views[i])
      BY <1>3 DEF Collects
    <3> QED
      BY <1>2, <3>1, <3>2
  <2> QED
    BY <2>1
<1>6. At(b) \in {6} \cup 9 .. 15
        => ViewIn(c, Views[m]) = ViewAt(history[Len(history)], Views[m])
  BY <1>2, <1>3, <1>4 DEF Collects
<1>7. Collects(b, c, history)
  BY <1>3, <1>5, <1>6 DEF Collects
<1>8. Len(history) \in Nat
  BY HeldNow
<1> QED
  BY <1>1, <1>7, <1>8, ViewsGoOn

\* A section that collects a view.
LEMMA ViewMoves ==
    ASSUME AdapterInv, NEW s \in Sessions, NEW stage, Does(s, stage), NEW b, b = build[s],
           At(b) \in 9 .. 15, NEW local, Leaves(s, local), OnlyBuild,
           DOMAIN local = BuildFields, local.plan = b.plan, local.kind = b.kind, local.trace = b.trace,
           local.since = b.since, local.state = b.state, Collects(b, local, history)
    PROVE  AdapterInv'
<1>1. PICK k : k = kept[s]
  OBVIOUS
<1>2. /\ Busy(s) /\ b.plan # <<>> /\ DOMAIN b = BuildFields /\ StateGood(b.state)
      /\ PlanOk(b.plan, Due(b.kind, k.generation > 0)) /\ ViewsOk(b, history)
  BY <1>1, SectionIs
<1>3. UNCHANGED <<adapter, kept, shown, history, projectionSeq>>
  BY DEF OnlyBuild
<1>4. PICK seq \in Nat : seq = projectionSeq /\ seq = projectionSeq' /\ seq <= seq
  BY <1>3 DEF AdapterInv
<1>5. Keeps(b.state, b.state)
  BY DEF Keeps
<1>6. /\ At(b) # 16 /\ At(b) # 6 /\ At(b) # 3 /\ At(b) # 5 /\ StateGood(local.state)
      /\ At(b) > 3 => Keeps(b.state, local.state)
      /\ At(b) > 6 => local.state.generation = b.state.generation
  BY <1>2, <1>5
<1>7. \A c : (/\ c.seen = local.seen /\ c.curated = local.curated /\ c.index = local.index
              /\ c.mounts = local.mounts /\ c.plan = Tail(b.plan) /\ c.since = b.since)
                => ViewsOk(c, history)
  BY <1>1, <1>2, <1>6, ViewsOfLocal DEF AdapterInv
<1> QED
  BY <1>2, <1>3, <1>4, <1>6, <1>7, SectionKeeps

\* CollectCurated.
LEMMA CollectCuratedKeeps ==
    ASSUME AdapterInv, NEW s \in Sessions, CollectCurated(s)
    PROVE  AdapterInv'
<1>1. PICK b, k : b = build[s] /\ k = kept[s]
  OBVIOUS
<1>2. CuratedHeld /\ OnlyBuild
  BY DEF AdapterInv, CollectCurated
<1>3. CASE Does(s, "curated0") /\ Leaves(s, [build[s] EXCEPT !.state.curated = CuratedRecords(curated)])
  <2>1. StateGood(b.state) /\ At(b) = 1
    BY <1>1, <1>3, RankIs, SectionIs
  <2>2. PICK state : state = [b.state EXCEPT !.curated = CuratedRecords(curated)]
    OBVIOUS
  <2>3. StateGood(state)
    <3>1. DOMAIN state = StateFields /\ state.curated = CuratedRecords(curated)
          /\ state.generation = b.state.generation
      BY <2>1, <2>2 DEF StateGood, StateFields
    <3>2. CuratedGood(CuratedRecords(curated))
      BY <1>2, CuratedRecordsIs DEF CuratedHeld
    <3> QED
      BY <2>1, <3>1, <3>2 DEF StateGood
  <2>4. Leaves(s, [b EXCEPT !.state = state])
    <3>1. [b EXCEPT !.state.curated = CuratedRecords(curated)] = [b EXCEPT !.state = state]
      BY <2>2
    <3> QED
      BY <1>1, <1>3, <3>1
  <2>5. At(b) \notin {6} \cup 9 .. 16 /\ At(b) # 3 /\ ~(At(b) > 3) /\ At(b) # 5 /\ ~(At(b) > 6)
    BY <2>1
  <2> QED
    BY <1>1, <1>2, <1>3, <2>3, <2>4, <2>5, StateMoves
<1>4. CASE Does(s, "curated1") /\ Leaves(s, [build[s] EXCEPT !.state = WithCurated(Unmarshal(kept[s], @))])
  <2>1. StateGood(b.state) /\ StateGood(k) /\ At(b) = 3
    BY <1>1, <1>4, RankIs, SectionIs
  <2>2. PICK read, state : read = Unmarshal(k, b.state) /\ state = WithCurated(read)
    OBVIOUS
  <2>3. StateGood(read) /\ Keeps(k, read)
    BY <2>1, <2>2, UnmarshalIs
  <2>4. StateGood(state) /\ Keeps(read, state)
    BY <1>2, <2>2, <2>3, WithCuratedIs
  <2>5. Keeps(k, state)
    BY <2>3, <2>4, KeepsTransitive
  <2>6. Leaves(s, [b EXCEPT !.state = state])
    BY <1>1, <1>4, <2>2
  <2>7. At(b) \notin {6} \cup 9 .. 16 /\ ~(At(b) > 3) /\ At(b) # 5 /\ ~(At(b) > 6)
    BY <2>1
  <2> QED
    BY <1>1, <1>2, <1>4, <2>4, <2>5, <2>6, <2>7, StateMoves
<1>5. CASE Does(s, "curated2") /\ Leaves(s, [build[s] EXCEPT !.state = WithCurated(@)])
  <2>1. StateGood(b.state) /\ At(b) = 7
    BY <1>1, <1>5, RankIs, SectionIs
  <2>2. PICK state : state = WithCurated(b.state)
    OBVIOUS
  <2>3. StateGood(state) /\ Keeps(b.state, state) /\ state.generation = b.state.generation
    BY <1>2, <2>1, <2>2, WithCuratedIs
  <2>4. Leaves(s, [b EXCEPT !.state = state])
    BY <1>1, <1>5, <2>2
  <2>5. At(b) \notin {6} \cup 9 .. 16 /\ At(b) # 3 /\ At(b) # 5
    BY <2>1
  <2> QED
    BY <1>1, <1>2, <1>5, <2>3, <2>4, <2>5, StateMoves
<1>6. CASE Does(s, "curated") /\ Leaves(s, [build[s] EXCEPT !.curated = CuratedRecords(curated)])
  <2>1. DOMAIN b = BuildFields /\ At(b) = 12
    BY <1>1, <1>6, RankIs, SectionIs
  <2>2. PICK local : local = [b EXCEPT !.curated = CuratedRecords(curated)]
    OBVIOUS
  <2>3. /\ DOMAIN local = BuildFields /\ local.plan = b.plan /\ local.kind = b.kind
        /\ local.trace = b.trace /\ local.since = b.since /\ local.state = b.state
        /\ local.seen = b.seen /\ local.curated = CuratedRecords(curated) /\ local.index = b.index
        /\ local.mounts = b.mounts
    BY <2>1, <2>2 DEF BuildFields
  <2>4. Leaves(s, local)
    BY <1>1, <1>6, <2>2
  <2>5. ViewIn(local, Views[5]) = ViewAt(history[Len(history)], Views[5])
    <3>1. ViewIn(local, Views[5]) = CuratedRecords(curated)
      BY <2>3, ViewsInAre
    <3>2. PICK h : h = Held
      OBVIOUS
    <3>3. ViewAt(h, Views[5]) = CuratedRecords(h.curated)
      BY ViewsAtAre
    <3>4. h.curated = curated
      BY <3>2 DEF Held
    <3> QED
      BY <3>1, <3>2, <3>3, <3>4, HeldNow DEF AdapterInv
  <2>6. \A i \in 1 .. 4 : ViewIn(local, Views[i]) = ViewIn(b, Views[i])
    <3>1. /\ ViewIn(local, Views[1]) = ViewIn(b, Views[1]) /\ ViewIn(local, Views[2]) = ViewIn(b, Views[2])
          /\ ViewIn(local, Views[3]) = ViewIn(b, Views[3]) /\ ViewIn(local, Views[4]) = ViewIn(b, Views[4])
      BY <2>3, ViewsInAre
    <3> QED
      BY <3>1
  <2>7. Collected(At(b)) = 4
    BY <2>1 DEF Collected
  <2>8. Collects(b, local, history)
    BY <2>1, <2>3, <2>5, <2>6, <2>7 DEF Collects
  <2>9. At(b) \in 9 .. 15
    BY <2>1
  <2> QED
    BY <1>1, <1>2, <1>6, <2>3, <2>4, <2>8, <2>9, ViewMoves
<1> QED
  BY <1>3, <1>4, <1>5, <1>6 DEF CollectCurated


\* CollectWorkflows.
LEMMA CollectWorkflowsKeeps ==
    ASSUME AdapterInv, NEW s \in Sessions, CollectWorkflows(s)
    PROVE  AdapterInv'
<1>1. PICK b, k : b = build[s] /\ k = kept[s]
  OBVIOUS
<1>2. OnlyBuild
  BY DEF CollectWorkflows
<1>3. CASE Does(s, "workflows0") /\ Leaves(s, [build[s] EXCEPT !.state.workflows = WorkflowViews(NewState)])
  <2>1. StateGood(b.state) /\ At(b) = 2
    BY <1>1, <1>3, RankIs, SectionIs
  <2>2. PICK state, flows : flows = WorkflowViews(NewState) /\ state = [b.state EXCEPT !.workflows = flows]
    OBVIOUS
  <2>3. StateGood(state)
    BY <2>1, <2>2, WorkflowsIs
  <2>4. Leaves(s, [b EXCEPT !.state = state])
    <3>1. [b EXCEPT !.state.workflows = flows] = [b EXCEPT !.state = state]
      BY <2>2
    <3> QED
      BY <1>1, <1>3, <2>2, <3>1
  <2>5. At(b) \notin {6} \cup 9 .. 16 /\ At(b) # 3 /\ ~(At(b) > 3) /\ At(b) # 5 /\ ~(At(b) > 6)
    BY <2>1
  <2> QED
    BY <1>1, <1>2, <1>3, <2>3, <2>4, <2>5, StateMoves
<1>4. CASE Does(s, "workflows1") /\ Leaves(s, [build[s] EXCEPT !.state = WithWorkflows(@)])
  <2>1. StateGood(b.state) /\ At(b) = 4
    BY <1>1, <1>4, RankIs, SectionIs
  <2>2. PICK state : state = WithWorkflows(b.state)
    OBVIOUS
  <2>3. StateGood(state) /\ Keeps(b.state, state)
    BY <2>1, <2>2, WorkflowsIs DEF WithWorkflows
  <2>4. Leaves(s, [b EXCEPT !.state = state])
    BY <1>1, <1>4, <2>2
  <2>5. At(b) \notin {6} \cup 9 .. 16 /\ At(b) # 3 /\ At(b) # 5 /\ ~(At(b) > 6)
    BY <2>1
  <2> QED
    BY <1>1, <1>2, <1>4, <2>3, <2>4, <2>5, StateMoves
<1>5. CASE /\ Does(s, "workflows2")
           /\ Leaves(s, [build[s] EXCEPT !.state = WithWorkflows(Observed(@, build[s].trace))])
  <2>1. StateGood(b.state) /\ At(b) = 5
    BY <1>1, <1>5, RankIs, SectionIs
  <2>2. PICK seen, state : seen = Observed(b.state, b.trace) /\ state = WithWorkflows(seen)
    OBVIOUS
  <2>3. StateGood(seen) /\ Keeps(b.state, seen) /\ SummarizeTrace(b.trace) \subseteq seen.observations
    BY <2>1, <2>2, ObservedIs
  <2>4. StateGood(state) /\ Keeps(seen, state) /\ state.observations = seen.observations
    BY <2>2, <2>3, WorkflowsIs DEF WithWorkflows
  <2>5. Keeps(b.state, state) /\ SummarizeTrace(b.trace) \subseteq state.observations
    BY <2>3, <2>4, KeepsTransitive
  <2>6. Leaves(s, [b EXCEPT !.state = state])
    BY <1>1, <1>5, <2>2
  <2>7. At(b) \notin {6} \cup 9 .. 16 /\ At(b) # 3 /\ ~(At(b) > 6)
    BY <2>1
  <2> QED
    BY <1>1, <1>2, <1>5, <2>4, <2>5, <2>6, <2>7, StateMoves
<1>6. CASE /\ Does(s, "workflows3")
           /\ Leaves(s, [build[s] EXCEPT !.state = IF @.workflows = <<>> THEN WithWorkflows(@) ELSE @])
  <2>1. StateGood(b.state) /\ At(b) = 8
    BY <1>1, <1>6, RankIs, SectionIs
  <2>2. PICK state : state = IF b.state.workflows = <<>> THEN WithWorkflows(b.state) ELSE b.state
    OBVIOUS
  <2>3. StateGood(state) /\ Keeps(b.state, state) /\ state.generation = b.state.generation
    <3>1. PICK new : new = WithWorkflows(b.state)
      OBVIOUS
    <3>2. StateGood(new) /\ Keeps(b.state, new) /\ new.generation = b.state.generation
      BY <2>1, <3>1, WorkflowsIs DEF WithWorkflows
    <3>3. Keeps(b.state, b.state)
      BY DEF Keeps
    <3> QED
      BY <2>1, <2>2, <3>1, <3>2, <3>3
  <2>4. Leaves(s, [b EXCEPT !.state = state])
    BY <1>1, <1>6, <2>2
  <2>5. At(b) \notin {6} \cup 9 .. 16 /\ At(b) # 3 /\ At(b) # 5
    BY <2>1
  <2> QED
    BY <1>1, <1>2, <1>6, <2>3, <2>4, <2>5, StateMoves
<1> QED
  BY <1>3, <1>4, <1>5, <1>6 DEF CollectWorkflows

\* BeginProjectionBuild: the next generation, and the events seen so far.
LEMMA BeginProjectionBuildKeeps ==
    ASSUME AdapterInv, NEW s \in Sessions, BeginProjectionBuild(s)
    PROVE  AdapterInv'
<1>1. PICK b, k : b = build[s] /\ k = kept[s]
  OBVIOUS
<1>2. Does(s, "begin")
  BY DEF BeginProjectionBuild
<1>3. /\ Busy(s) /\ b.plan # <<>> /\ At(b) = 6 /\ DOMAIN b = BuildFields /\ StateGood(b.state)
      /\ PlanOk(b.plan, Due(b.kind, k.generation > 0)) /\ ViewsOk(b, history)
  BY <1>1, <1>2, RankIs, SectionIs
<1>4. PICK seq \in Nat : seq = projectionSeq
  BY DEF AdapterInv
<1>5. PICK seq2 \in Nat : seq2 = seq + 1 /\ seq2 = projectionSeq' /\ seq <= seq2
  BY <1>4 DEF BeginProjectionBuild
<1>6. PICK b1, b2, local :
        /\ b1 = [b EXCEPT !.seen = events] /\ b2 = [b1 EXCEPT !.state.generation = seq2]
        /\ local = [b2 EXCEPT !.state.events = Len(events)]
  OBVIOUS
<1>7. /\ DOMAIN b1 = BuildFields /\ b1.plan = b.plan /\ b1.kind = b.kind /\ b1.trace = b.trace
      /\ b1.since = b.since /\ b1.state = b.state /\ b1.seen = events /\ b1.curated = b.curated
      /\ b1.index = b.index /\ b1.mounts = b.mounts
  BY <1>3, <1>6 DEF BuildFields
<1>8. PICK st1, st2 : /\ st1 = [b.state EXCEPT !.generation = seq2]
                      /\ st2 = [st1 EXCEPT !.events = Len(events)]
  OBVIOUS
<1>9. /\ DOMAIN b2 = BuildFields /\ b2.plan = b.plan /\ b2.kind = b.kind /\ b2.trace = b.trace
      /\ b2.since = b.since /\ b2.state = st1 /\ b2.seen = events /\ b2.curated = b.curated
      /\ b2.index = b.index /\ b2.mounts = b.mounts
  BY <1>6, <1>7, <1>8 DEF BuildFields
<1>10. /\ DOMAIN local = BuildFields /\ local.plan = b.plan /\ local.kind = b.kind /\ local.trace = b.trace
       /\ local.since = b.since /\ local.state = st2 /\ local.seen = events /\ local.curated = b.curated
       /\ local.index = b.index /\ local.mounts = b.mounts
  BY <1>6, <1>8, <1>9 DEF BuildFields
<1>11. Leaves(s, local)
  <2>1. Leaves(s, [b EXCEPT !.seen = events, !.state.generation = seq2, !.state.events = Len(events)])
    BY <1>1, <1>4, <1>5 DEF BeginProjectionBuild
  <2>2. [b EXCEPT !.seen = events, !.state.generation = seq2, !.state.events = Len(events)] = local
    BY <1>6
  <2> QED
    BY <2>1, <2>2
<1>12. StateGood(st2) /\ Keeps(b.state, st2) /\ st2.generation = seq2
  <2>1. DOMAIN b.state = StateFields
    BY <1>3 DEF StateGood
  <2>2. /\ DOMAIN st1 = StateFields /\ st1.observations = b.state.observations /\ st1.reads = b.state.reads
        /\ st1.written = b.state.written /\ st1.denied = b.state.denied
        /\ st1.curated = b.state.curated /\ st1.generation = seq2
    BY <1>8, <2>1 DEF StateFields
  <2>3. /\ DOMAIN st2 = StateFields /\ st2.observations = b.state.observations /\ st2.reads = b.state.reads
        /\ st2.written = b.state.written /\ st2.denied = b.state.denied
        /\ st2.curated = b.state.curated /\ st2.generation = seq2
    BY <1>8, <2>2 DEF StateFields
  <2>4. StateGood(st2)
    BY <1>3, <2>3 DEF StateGood
  <2>5. Keeps(b.state, st2)
    BY <2>3 DEF Keeps
  <2> QED
    BY <2>3, <2>4, <2>5
<1>13. Collects(b, local, history)
  <2>1. Collected(At(b)) = 0
    BY <1>3 DEF Collected
  <2>2. ViewIn(local, Views[1]) = ViewAt(history[Len(history)], Views[1])
    <3>1. ViewIn(local, Views[1]) = events
      BY <1>10, ViewsInAre
    <3>2. PICK h : h = Held
      OBVIOUS
    <3>3. ViewAt(h, Views[1]) = h.events
      BY ViewsAtAre
    <3>4. h.events = events
      BY <3>2 DEF Held
    <3> QED
      BY <3>1, <3>2, <3>3, <3>4, HeldNow DEF AdapterInv
  <2> QED
    BY <1>3, <2>1, <2>2 DEF Collects
<1>14. \A c : (/\ c.seen = local.seen /\ c.curated = local.curated /\ c.index = local.index
               /\ c.mounts = local.mounts /\ c.plan = Tail(b.plan) /\ c.since = b.since)
                 => ViewsOk(c, history)
  <2>1. At(b) # 16 /\ At(b) \in 1 .. 16 /\ HistoryInv
    BY <1>3 DEF AdapterInv
  <2> QED
    BY <1>3, <1>13, <2>1, ViewsOfLocal
<1>15. UNCHANGED <<adapter, kept, shown, history>>
  BY DEF BeginProjectionBuild
<1>16. /\ At(b) # 16 /\ At(b) # 3 /\ At(b) # 5 /\ ~(At(b) > 6) /\ StateGood(local.state)
       /\ Keeps(b.state, local.state) /\ local.state.generation = seq + 1 /\ seq2 = seq + 1
  BY <1>3, <1>5, <1>10, <1>12
<1> QED
  BY <1>1, <1>3, <1>4, <1>5, <1>10, <1>11, <1>14, <1>15, <1>16, SectionKeeps


\* What Put changes.
LEMMA PutIs ==
    ASSUME NEW f, NEW x, NEW v
    PROVE  /\ DOMAIN Put(f, x, v) = DOMAIN f \cup {x} /\ Put(f, x, v)[x] = v
           /\ \A y \in DOMAIN f : y # x => Put(f, x, v)[y] = f[y]
  BY DEF Put, Over

\* What has been collected at a section is in its place.
LEMMA PlacedIs ==
    ASSUME NEW b, b.plan # <<>>, ViewsOk(b, history)
    PROVE  /\ At(b) > 9 => "documents" \in DOMAIN b.index
           /\ At(b) > 10 => "resources" \in DOMAIN b.index
           /\ At(b) > 11 => "skills" \in DOMAIN b.index
           /\ At(b) > 13 => "documents" \in DOMAIN b.mounts
           /\ At(b) > 14 => "resources" \in DOMAIN b.mounts
  BY DEF ViewsOk, Placed

\* An index more.
LEMMA IndexMoves ==
    ASSUME AdapterInv, NEW s \in Sessions, NEW stage, Does(s, stage), NEW b, b = build[s], OnlyBuild,
           NEW records, Leaves(s, [b EXCEPT !.index = Put(b.index, stage, records)]),
           \/ stage = "documents" /\ records = ProjectionRecords(entries.documents)
           \/ stage = "resources" /\ records = ProjectionRecords(entries.resources)
           \/ stage = "skills" /\ records = SkillRecords(skills)
    PROVE  AdapterInv'
<1>1. /\ b.plan # <<>> /\ DOMAIN b = BuildFields /\ At(b) = Rank(stage) /\ ViewsOk(b, history)
  BY SectionIs
<1>2. PICK index, local : index = Put(b.index, stage, records) /\ local = [b EXCEPT !.index = index]
  OBVIOUS
<1>3. /\ DOMAIN local = BuildFields /\ local.plan = b.plan /\ local.kind = b.kind
      /\ local.trace = b.trace /\ local.since = b.since /\ local.state = b.state
      /\ local.seen = b.seen /\ local.curated = b.curated /\ local.index = index
      /\ local.mounts = b.mounts
  BY <1>1, <1>2 DEF BuildFields
<1>4. /\ DOMAIN index = DOMAIN b.index \cup {stage} /\ index[stage] = records
      /\ \A y \in DOMAIN b.index : y # stage => index[y] = b.index[y]
  BY <1>2 DEF Put, Over
<1>5. PICK h : h = Held
  OBVIOUS
<1>6. /\ history[Len(history)] = h /\ h.documents = entries.documents /\ h.resources = entries.resources
      /\ h.skills = skills
  BY <1>5, HeldNow DEF AdapterInv, Held
<1>7. ViewIn(local, Views[1]) = ViewIn(b, Views[1])
  BY <1>3, ViewsInAre
<1>8. CASE stage = "documents"
  <2>1. At(b) = 9 /\ Collected(At(b)) = 1
    BY <1>1, <1>8, RankIs DEF Collected
  <2>2. ViewIn(local, Views[2]) = ViewAt(h, Views[2])
    <3>1. ViewIn(local, Views[2]) = index.documents
      BY <1>3, ViewsInAre
    <3>2. index.documents = ProjectionRecords(entries.documents)
      BY <1>4, <1>8
    <3>3. ViewAt(h, Views[2]) = ProjectionRecords(h.documents)
      BY ViewsAtAre
    <3> QED
      BY <1>6, <3>1, <3>2, <3>3
  <2>3. \A i \in 1 .. 1 : ViewIn(local, Views[i]) = ViewIn(b, Views[i])
    BY <1>7
  <2>4. Collects(b, local, history)
    BY <1>3, <1>4, <1>6, <1>8, <2>1, <2>2, <2>3 DEF Collects
  <2>5. At(b) \in 9 .. 15
    BY <2>1
  <2> QED
    BY <1>2, <1>3, <2>4, <2>5, ViewMoves
<1>9. CASE stage = "resources"
  <2>1. At(b) = 10 /\ Collected(At(b)) = 2 /\ "documents" \in DOMAIN b.index
    BY <1>1, <1>9, RankIs, PlacedIs DEF Collected
  <2>2. ViewIn(local, Views[3]) = ViewAt(h, Views[3])
    <3>1. ViewIn(local, Views[3]) = index.resources
      BY <1>3, ViewsInAre
    <3>2. index.resources = ProjectionRecords(entries.resources)
      BY <1>4, <1>9
    <3>3. ViewAt(h, Views[3]) = ProjectionRecords(h.resources)
      BY ViewsAtAre
    <3> QED
      BY <1>6, <3>1, <3>2, <3>3
  <2>3. \A i \in 1 .. 2 : ViewIn(local, Views[i]) = ViewIn(b, Views[i])
    <3>1. index.documents = b.index.documents
      BY <1>4, <1>9, <2>1
    <3>2. ViewIn(local, Views[2]) = ViewIn(b, Views[2])
      BY <1>3, <3>1, ViewsInAre
    <3> QED
      BY <1>7, <3>2
  <2>4. Collects(b, local, history)
    BY <1>3, <1>4, <1>6, <1>9, <2>1, <2>2, <2>3 DEF Collects
  <2>5. At(b) \in 9 .. 15
    BY <2>1
  <2> QED
    BY <1>2, <1>3, <2>4, <2>5, ViewMoves
<1>10. CASE stage = "skills"
  <2>1. At(b) = 11 /\ Collected(At(b)) = 3 /\ "documents" \in DOMAIN b.index /\ "resources" \in DOMAIN b.index
    BY <1>1, <1>10, RankIs, PlacedIs DEF Collected
  <2>2. ViewIn(local, Views[4]) = ViewAt(h, Views[4])
    <3>1. ViewIn(local, Views[4]) = index.skills
      BY <1>3, ViewsInAre
    <3>2. index.skills = SkillRecords(skills)
      BY <1>4, <1>10
    <3>3. ViewAt(h, Views[4]) = SkillRecords(h.skills)
      BY ViewsAtAre
    <3> QED
      BY <1>6, <3>1, <3>2, <3>3
  <2>3. \A i \in 1 .. 3 : ViewIn(local, Views[i]) = ViewIn(b, Views[i])
    <3>1. index.documents = b.index.documents /\ index.resources = b.index.resources
      BY <1>4, <1>10, <2>1
    <3>2. ViewIn(local, Views[2]) = ViewIn(b, Views[2]) /\ ViewIn(local, Views[3]) = ViewIn(b, Views[3])
      BY <1>3, <3>1, ViewsInAre
    <3> QED
      BY <1>7, <3>2
  <2>4. Collects(b, local, history)
    BY <1>3, <1>4, <1>6, <1>10, <2>1, <2>2, <2>3 DEF Collects
  <2>5. At(b) \in 9 .. 15
    BY <2>1
  <2> QED
    BY <1>2, <1>3, <2>4, <2>5, ViewMoves
<1> QED
  BY <1>8, <1>9, <1>10

\* CollectRecords.
LEMMA CollectRecordsKeeps ==
    ASSUME AdapterInv, NEW s \in Sessions, CollectRecords(s)
    PROVE  AdapterInv'
<1>1. PICK b : b = build[s]
  OBVIOUS
<1>2. OnlyBuild
  BY DEF CollectRecords
<1>3. ASSUME NEW ns \in Namespaces, Does(s, ns),
             Leaves(s, [build[s] EXCEPT !.index = Put(@, ns, ProjectionRecords(entries[ns]))])
      PROVE  AdapterInv'
  <2>1. PICK records : records = ProjectionRecords(entries[ns])
    OBVIOUS
  <2>2. Leaves(s, [b EXCEPT !.index = Put(b.index, ns, records)])
    BY <1>1, <1>3, <2>1
  <2>3. \/ ns = "documents" /\ records = ProjectionRecords(entries.documents)
        \/ ns = "resources" /\ records = ProjectionRecords(entries.resources)
    BY <2>1 DEF Namespaces
  <2> QED
    BY <1>1, <1>2, <1>3, <2>2, <2>3, IndexMoves
<1>4. ASSUME Does(s, "skills"), Leaves(s, [build[s] EXCEPT !.index = Put(@, "skills", SkillRecords(skills))])
      PROVE  AdapterInv'
  <2>1. PICK records, stage : records = SkillRecords(skills) /\ stage = "skills"
    OBVIOUS
  <2>2. Leaves(s, [b EXCEPT !.index = Put(b.index, stage, records)]) /\ Does(s, stage)
    BY <1>1, <1>4, <2>1
  <2> QED
    BY <1>1, <1>2, <2>1, <2>2, IndexMoves
<1> QED
  BY <1>3, <1>4 DEF CollectRecords

\* A mount more: its files are of what the adapter holds, its index was collected before.
LEMMA MountMoves ==
    ASSUME AdapterInv, NEW s \in Sessions, NEW stage, Does(s, stage), NEW b, b = build[s], OnlyBuild,
           NEW root, NEW mount, Leaves(s, [b EXCEPT !.mounts = Put(b.mounts, root, mount)]),
           \/ /\ stage = "knowledge" /\ root = "documents"
              /\ mount = KnowledgeMount(entries.documents, b.index.documents)
           \/ /\ stage = "resource" /\ root = "resources"
              /\ mount = ResourceMount(entries.resources, b.index.resources)
           \/ /\ stage = "skill" /\ root = "skills"
              /\ mount = SkillMount(skills, b.index.skills)
    PROVE  AdapterInv'
<1>1. /\ b.plan # <<>> /\ DOMAIN b = BuildFields /\ At(b) = Rank(stage) /\ ViewsOk(b, history)
  BY SectionIs
<1>2. PICK mounts, local : mounts = Put(b.mounts, root, mount) /\ local = [b EXCEPT !.mounts = mounts]
  OBVIOUS
<1>3. /\ DOMAIN local = BuildFields /\ local.plan = b.plan /\ local.kind = b.kind
      /\ local.trace = b.trace /\ local.since = b.since /\ local.state = b.state
      /\ local.seen = b.seen /\ local.curated = b.curated /\ local.index = b.index
      /\ local.mounts = mounts
  BY <1>1, <1>2 DEF BuildFields
<1>4. /\ DOMAIN mounts = DOMAIN b.mounts \cup {root} /\ mounts[root] = mount
      /\ \A y \in DOMAIN b.mounts : y # root => mounts[y] = b.mounts[y]
  BY <1>2 DEF Put, Over
<1>5. PICK h : h = Held
  OBVIOUS
<1>6. /\ history[Len(history)] = h /\ h.documents = entries.documents /\ h.resources = entries.resources
      /\ h.skills = skills
  BY <1>5, HeldNow DEF AdapterInv, Held
<1>7. \A i \in 1 .. 5 : ViewIn(local, Views[i]) = ViewIn(b, Views[i])
  <2>1. /\ ViewIn(local, Views[1]) = ViewIn(b, Views[1]) /\ ViewIn(local, Views[2]) = ViewIn(b, Views[2])
        /\ ViewIn(local, Views[3]) = ViewIn(b, Views[3]) /\ ViewIn(local, Views[4]) = ViewIn(b, Views[4])
        /\ ViewIn(local, Views[5]) = ViewIn(b, Views[5])
    BY <1>3, ViewsInAre
  <2> QED
    BY <2>1
\* When nothing has changed since the hook began, an index is of what the adapter holds.
<1>8. ASSUME b.since = Len(history), At(b) \in {13, 14}
      PROVE  b.index.documents = ProjectionRecords(h.documents) /\ b.index.resources = ProjectionRecords(h.resources)
  <2>1. PICK n, l : n = Collected(At(b)) /\ l = Len(history)
    OBVIOUS
  <2>2. n \in {5, 6} /\ l \in Nat
    BY <1>8, <2>1, HeldNow DEF Collected, AdapterInv
  <2>3. HeldIn(history, b, l, l, n)
    BY <1>1, <1>8, <2>1 DEF ViewsOk
  <2>4. PICK before \in [(l + 1) .. l -> 1 .. n + 1] : \A i \in 1 .. n :
          ViewIn(b, Views[i]) = ViewAt(history[MomentOf(l, before, i)], Views[i])
    BY <2>3 DEF HeldIn
  <2>5. \A i : MomentOf(l, before, i) = l
    <3>1. ASSUME NEW i
          PROVE  MomentOf(l, before, i) = l
      <4>1. DOMAIN before = (l + 1) .. l /\ l <= l
        BY <2>2
      <4>2. MomentOf(l, before, i) \in l .. l
        BY <2>2, <4>1, MomentIs
      <4> QED
        BY <2>2, <4>2
    <3> QED
      BY <3>1
  <2>6. \A i \in 1 .. n : ViewIn(b, Views[i]) = ViewAt(h, Views[i])
    BY <1>6, <2>1, <2>4, <2>5
  <2>7. ViewIn(b, Views[2]) = ViewAt(h, Views[2]) /\ ViewIn(b, Views[3]) = ViewAt(h, Views[3])
    BY <2>2, <2>6
  <2>8. ViewIn(b, Views[2]) = b.index.documents /\ ViewIn(b, Views[3]) = b.index.resources
    BY ViewsInAre
  <2>9. /\ ViewAt(h, Views[2]) = ProjectionRecords(h.documents)
        /\ ViewAt(h, Views[3]) = ProjectionRecords(h.resources)
    BY ViewsAtAre
  <2> QED
    BY <2>7, <2>8, <2>9
<1>9. CASE /\ stage = "knowledge" /\ root = "documents"
           /\ mount = KnowledgeMount(entries.documents, b.index.documents)
  <2>1. At(b) = 13 /\ Collected(At(b)) = 5
    BY <1>1, <1>9, RankIs DEF Collected
  <2>2. mounts.documents = mount
    BY <1>4, <1>9
  <2>3. ViewIn(local, Views[6]) = ViewAt(h, Views[6])
    <3>1. ViewIn(local, Views[6]) = mount.files
      BY <1>3, <2>2, ViewsInAre
    <3>2. ViewAt(h, Views[6]) = KnowledgeMount(h.documents, {}).files
      BY ViewsAtAre
    <3> QED
      BY <1>6, <1>9, <3>1, <3>2, FilesAre
  <2>4. b.since = Len(history) => IndexAgrees(mounts.documents)
    <3>1. ASSUME b.since = Len(history)
          PROVE  IndexAgrees(mounts.documents)
      <4>1. mount = KnowledgeMount(h.documents, ProjectionRecords(h.documents))
        BY <1>6, <1>8, <1>9, <2>1, <3>1
      <4> QED
        BY <2>2, <4>1, MountsAgree
    <3> QED
      BY <3>1
  <2>5. Collects(b, local, history)
    BY <1>3, <1>4, <1>6, <1>7, <1>9, <2>1, <2>3, <2>4 DEF Collects
  <2>6. At(b) \in 9 .. 15
    BY <2>1
  <2> QED
    BY <1>2, <1>3, <2>5, <2>6, ViewMoves
<1>10. CASE /\ stage = "resource" /\ root = "resources"
            /\ mount = ResourceMount(entries.resources, b.index.resources)
  <2>1. At(b) = 14 /\ Collected(At(b)) = 6 /\ "documents" \in DOMAIN b.mounts
    BY <1>1, <1>10, RankIs, PlacedIs DEF Collected
  <2>2. mounts.resources = mount /\ mounts.documents = b.mounts.documents
    BY <1>4, <1>10, <2>1
  <2>3. ViewIn(local, Views[7]) = ViewAt(h, Views[7])
    <3>1. ViewIn(local, Views[7]) = mount.files
      BY <1>3, <2>2, ViewsInAre
    <3>2. ViewAt(h, Views[7]) = ResourceMount(h.resources, {}).files
      BY ViewsAtAre
    <3> QED
      BY <1>6, <1>10, <3>1, <3>2, FilesAre
  <2>4. b.since = Len(history) => IndexAgrees(mounts.resources)
    <3>1. ASSUME b.since = Len(history)
          PROVE  IndexAgrees(mounts.resources)
      <4>1. mount = ResourceMount(h.resources, ProjectionRecords(h.resources))
        BY <1>6, <1>8, <1>10, <2>1, <3>1
      <4> QED
        BY <2>2, <4>1, MountsAgree
    <3> QED
      BY <3>1
  <2>5. \A i \in 1 .. 6 : ViewIn(local, Views[i]) = ViewIn(b, Views[i])
    <3>1. ViewIn(local, Views[6]) = ViewIn(b, Views[6])
      BY <1>3, <2>2, ViewsInAre
    <3> QED
      BY <1>7, <3>1
  <2>6. Collects(b, local, history)
    BY <1>3, <1>4, <1>6, <1>10, <2>1, <2>2, <2>3, <2>4, <2>5 DEF Collects
  <2>7. At(b) \in 9 .. 15
    BY <2>1
  <2> QED
    BY <1>2, <1>3, <2>6, <2>7, ViewMoves
<1>11. CASE stage = "skill" /\ root = "skills" /\ mount = SkillMount(skills, b.index.skills)
  <2>1. /\ At(b) = 15 /\ Collected(At(b)) = 7
        /\ "documents" \in DOMAIN b.mounts /\ "resources" \in DOMAIN b.mounts
    BY <1>1, <1>11, RankIs, PlacedIs DEF Collected
  <2>2. /\ mounts.skills = mount /\ mounts.documents = b.mounts.documents
        /\ mounts.resources = b.mounts.resources
    BY <1>4, <1>11, <2>1
  <2>3. ViewIn(local, Views[8]) = ViewAt(h, Views[8])
    <3>1. ViewIn(local, Views[8]) = mount.files
      BY <1>3, <2>2, ViewsInAre
    <3>2. ViewAt(h, Views[8]) = SkillMount(h.skills, {}).files
      BY ViewsAtAre
    <3> QED
      BY <1>6, <1>11, <3>1, <3>2, FilesAre
  <2>4. \A i \in 1 .. 7 : ViewIn(local, Views[i]) = ViewIn(b, Views[i])
    <3>1. ViewIn(local, Views[6]) = ViewIn(b, Views[6]) /\ ViewIn(local, Views[7]) = ViewIn(b, Views[7])
      BY <1>3, <2>2, ViewsInAre
    <3> QED
      BY <1>7, <3>1
  <2>5. Collects(b, local, history)
    BY <1>3, <1>4, <1>6, <1>11, <2>1, <2>2, <2>3, <2>4 DEF Collects
  <2>6. At(b) \in 9 .. 15
    BY <2>1
  <2> QED
    BY <1>2, <1>3, <2>5, <2>6, ViewMoves
<1> QED
  BY <1>9, <1>10, <1>11


\* BuildMounts, unless the adapter was told to fail.
LEMMA BuildMountsKeeps ==
    ASSUME AdapterInv, NEW s \in Sessions, BuildMounts(s), ~Fails(s)
    PROVE  AdapterInv'
<1>1. PICK b : b = build[s]
  OBVIOUS
<1>2. OnlyBuild
  BY DEF BuildMounts
<1>3. \/ /\ Does(s, "knowledge")
         /\ Leaves(s, [build[s] EXCEPT !.mounts =
              Put(@, "documents", KnowledgeMount(entries.documents, build[s].index.documents))])
      \/ /\ Does(s, "resource")
         /\ Leaves(s, [build[s] EXCEPT !.mounts =
              Put(@, "resources", ResourceMount(entries.resources, build[s].index.resources))])
      \/ /\ Does(s, "skill")
         /\ Leaves(s, [build[s] EXCEPT !.mounts =
              Put(@, "skills", SkillMount(skills, build[s].index.skills))])
  BY DEF BuildMounts
<1>4. CASE /\ Does(s, "knowledge")
           /\ Leaves(s, [build[s] EXCEPT !.mounts =
                Put(@, "documents", KnowledgeMount(entries.documents, build[s].index.documents))])
  <2>1. PICK stage, root, mount :
          /\ stage = "knowledge" /\ root = "documents"
          /\ mount = KnowledgeMount(entries.documents, b.index.documents)
    OBVIOUS
  <2>2. Does(s, stage) /\ Leaves(s, [b EXCEPT !.mounts = Put(b.mounts, root, mount)])
    BY <1>1, <1>4, <2>1
  <2> QED
    BY <1>1, <1>2, <2>1, <2>2, MountMoves
<1>5. CASE /\ Does(s, "resource")
           /\ Leaves(s, [build[s] EXCEPT !.mounts =
                Put(@, "resources", ResourceMount(entries.resources, build[s].index.resources))])
  <2>1. PICK stage, root, mount :
          /\ stage = "resource" /\ root = "resources"
          /\ mount = ResourceMount(entries.resources, b.index.resources)
    OBVIOUS
  <2>2. Does(s, stage) /\ Leaves(s, [b EXCEPT !.mounts = Put(b.mounts, root, mount)])
    BY <1>1, <1>5, <2>1
  <2> QED
    BY <1>1, <1>2, <2>1, <2>2, MountMoves
<1>6. CASE /\ Does(s, "skill")
           /\ Leaves(s, [build[s] EXCEPT !.mounts =
                Put(@, "skills", SkillMount(skills, build[s].index.skills))])
  <2>1. PICK stage, root, mount :
          /\ stage = "skill" /\ root = "skills" /\ mount = SkillMount(skills, b.index.skills)
    OBVIOUS
  <2>2. Does(s, stage) /\ Leaves(s, [b EXCEPT !.mounts = Put(b.mounts, root, mount)])
    BY <1>1, <1>6, <2>1
  <2> QED
    BY <1>1, <1>2, <2>1, <2>2, MountMoves
<1> QED
  BY <1>3, <1>4, <1>5, <1>6

\* The end of a hook, with what the session keeps and shows after it.
LEMMA EndKeeps ==
    ASSUME AdapterInv, NEW s \in Sessions, Ends(s), UNCHANGED <<adapter, projectionSeq, history>>,
           DOMAIN kept' = Sessions, DOMAIN shown' = Sessions,
           \A t \in Sessions \ {s} : kept'[t] = kept[t] /\ shown'[t] = shown[t],
           NEW k, k = kept'[s], StateGood(k), k.generation <= projectionSeq,
           k.generation = 0 => k = NewState,
           ShownOk(shown'[s], history)
    PROVE  AdapterInv'
<1>1. /\ DOMAIN build = Sessions /\ projectionSeq \in Nat /\ HistoryInv /\ AuditInv /\ CuratedHeld
      /\ \A t \in Sessions : HookInv(t) /\ ViewsInv(t)
  BY DEF AdapterInv
<1>2. /\ history' = history /\ events' = events /\ skills' = skills /\ curated' = curated
      /\ Held' = Held /\ projectionSeq' = projectionSeq
  BY DEF adapter, Held
<1>3. HistoryInv' /\ AuditInv' /\ CuratedHeld'
  BY <1>1, <1>2 DEF HistoryInv, AuditInv, CuratedHeld, Current, Chained, KeptScopes
<1>4. DOMAIN build' = Sessions /\ build'[s] = Idle /\ \A t \in Sessions \ {s} : build'[t] = build[t]
  BY <1>1 DEF Ends
<1>5. Idle.plan = <<>>
  BY DEF Idle
<1>6. ASSUME NEW t \in Sessions
      PROVE  HookInv(t)' /\ ViewsInv(t)'
  <2>1. CASE t = s
    <3>1. HookOk(Idle, k, projectionSeq)
      BY <1>5 DEF HookOk
    <3>2. ViewsOk(Idle, history)
      BY <1>5 DEF ViewsOk
    <3> QED
      BY <1>2, <1>4, <2>1, <3>1, <3>2 DEF HookInv, ViewsInv
  <2>2. CASE t # s
    BY <1>1, <1>2, <1>4, <2>2 DEF HookInv, ViewsInv
  <2> QED
    BY <2>1, <2>2
<1> QED
  BY <1>1, <1>2, <1>3, <1>4, <1>6 DEF AdapterInv

\* A hook that fails leaves its session as it was.
LEMMA FailsKeeps ==
    ASSUME AdapterInv, NEW s \in Sessions, Fails(s)
    PROVE  AdapterInv'
<1>1. /\ Ends(s) /\ UNCHANGED <<adapter, projectionSeq, history>> /\ kept' = kept /\ shown' = shown
  BY DEF Fails
<1>2. DOMAIN kept' = Sessions /\ DOMAIN shown' = Sessions
  BY <1>1 DEF AdapterInv
<1>3. PICK k : k = kept[s]
  OBVIOUS
<1>4. HookOk(build[s], k, projectionSeq) /\ ShownOk(shown[s], history)
  BY <1>3 DEF AdapterInv, HookInv, ViewsInv
<1>5. /\ StateGood(k) /\ k.generation <= projectionSeq /\ (k.generation = 0 => k = NewState)
      /\ k = kept'[s] /\ ShownOk(shown'[s], history)
  BY <1>1, <1>3, <1>4 DEF HookOk
<1> QED
  BY <1>1, <1>2, <1>5, EndKeeps

\* What a hook is about to publish.
LEMMA PublishIs ==
    ASSUME AdapterInv, NEW s \in Sessions, Does(s, "publish"), NEW b, b = build[s], NEW k, k = kept[s]
    PROVE  /\ StateGood(b.state) /\ b.state.generation > k.generation /\ b.state.generation <= projectionSeq
           /\ k.generation \in Nat /\ (k.generation > 0 => Keeps(k, b.state))
           /\ (k.generation = 0 => k = NewState)
           /\ b.kind = "observe" => SummarizeTrace(b.trace) \subseteq b.state.observations
           /\ b.since \in 1 .. Len(history) /\ HeldIn(history, b, b.since, Len(history), 8)
           /\ b.since = Len(history) => IndexAgrees(b.mounts.documents) /\ IndexAgrees(b.mounts.resources)
<1>1. /\ b.plan # <<>> /\ At(b) = 16 /\ ViewsOk(b, history) /\ StateGood(b.state) /\ StateGood(k)
  BY RankIs, SectionIs
<1>2. HookOk(b, k, projectionSeq)
  BY DEF AdapterInv, HookInv
<1>3. At(b) > 3 /\ At(b) > 5 /\ At(b) > 6 /\ At(b) > 13 /\ At(b) > 14
  BY <1>1
<1>4. /\ b.state.generation > k.generation /\ b.state.generation <= projectionSeq
      /\ (k.generation > 0 => Keeps(k, b.state)) /\ (k.generation = 0 => k = NewState)
      /\ b.kind = "observe" => SummarizeTrace(b.trace) \subseteq b.state.observations
  BY <1>1, <1>2, <1>3 DEF HookOk
<1>5. PICK n : n = Collected(At(b))
  OBVIOUS
<1>6. n = 8
  BY <1>1, <1>5 DEF Collected
<1>7. /\ b.since \in 1 .. Len(history) /\ HeldIn(history, b, b.since, Len(history), n)
      /\ b.since = Len(history) => IndexAgrees(b.mounts.documents) /\ IndexAgrees(b.mounts.resources)
  BY <1>1, <1>3, <1>5 DEF ViewsOk
<1> QED
  BY <1>1, <1>4, <1>6, <1>7 DEF StateGood

\* Publish.
LEMMA PublishKeeps ==
    ASSUME AdapterInv, NEW s \in Sessions, Publish(s), ~Fails(s)
    PROVE  AdapterInv'
<1>1. PICK b, k, c : b = build[s] /\ k = kept[s] /\ c = b.state
  OBVIOUS
<1>2. PICK p : p = [generation |-> c.generation, index |-> b.index, curated |-> b.curated,
                    mounts |-> b.mounts, seen |-> b.seen,
                    audit |-> ControlPlaneEventViews(b.seen, c.generation),
                    since |-> b.since, until |-> Len(history)]
  OBVIOUS
<1>3. /\ Does(s, "publish") /\ Ends(s) /\ kept' = [kept EXCEPT ![s] = c]
      /\ shown' = [shown EXCEPT ![s] = p] /\ UNCHANGED <<adapter, projectionSeq, history>>
  BY <1>1, <1>2 DEF Publish
<1>4. /\ DOMAIN kept = Sessions /\ DOMAIN shown = Sessions /\ projectionSeq \in Nat
      /\ Len(history) \in Nat
  BY HeldNow DEF AdapterInv
<1>5. /\ DOMAIN kept' = Sessions /\ kept'[s] = c /\ \A t \in Sessions \ {s} : kept'[t] = kept[t]
      /\ DOMAIN shown' = Sessions /\ shown'[s] = p /\ \A t \in Sessions \ {s} : shown'[t] = shown[t]
  BY <1>3, <1>4
<1>6. /\ StateGood(c) /\ c.generation > k.generation /\ c.generation <= projectionSeq
      /\ k.generation \in Nat
      /\ b.since \in 1 .. Len(history) /\ HeldIn(history, b, b.since, Len(history), 8)
      /\ b.since = Len(history) => IndexAgrees(b.mounts.documents) /\ IndexAgrees(b.mounts.resources)
  BY <1>1, <1>3, PublishIs
<1>7. c.generation # 0
  <2>1. PICK x \in Nat, y \in Nat : x = c.generation /\ y = k.generation /\ x > y
    BY <1>6 DEF StateGood
  <2> QED
    BY <2>1
<1>8. /\ p.seen = b.seen /\ p.curated = b.curated /\ p.index = b.index /\ p.mounts = b.mounts
      /\ p.since = b.since /\ p.until = Len(history)
  BY <1>2
<1>9. PICK since \in Nat, l \in Nat : since = b.since /\ l = Len(history) /\ since \in 1 .. l /\ since <= l
  BY <1>4, <1>6
<1>10. ShownOk(p, history)
  <2>1. PICK n \in Nat : n = 8
    OBVIOUS
  <2>2. \A i \in 1 .. n : ViewIn(b, Views[i]) = ViewIn(p, Views[i])
    BY <1>8, <2>1, SameViewsIn
  <2>3. HeldIn(history, b, since, l, n)
    BY <1>6, <1>9, <2>1
  <2>4. \A i \in since .. l : history[i] = history[i]
    OBVIOUS
  <2>5. HeldIn(history, p, since, l, n)
    BY <1>9, <2>2, <2>3, <2>4, ViewsSame
  <2>6. l \in 1 .. l
    BY <1>9
  <2> QED
    BY <1>6, <1>8, <1>9, <2>1, <2>5, <2>6 DEF ShownOk
<1> QED
  BY <1>3, <1>5, <1>6, <1>7, <1>10, EndKeeps

\* Hook: nothing is collected yet.
LEMMA HookKeeps ==
    ASSUME AdapterInv, NEW s \in Sessions, Hook(s)
    PROVE  AdapterInv'
<1>1. PICK k : k = kept[s]
  OBVIOUS
<1>2. /\ DOMAIN build = Sessions /\ projectionSeq \in Nat /\ HistoryInv /\ AuditInv /\ CuratedHeld
      /\ DOMAIN kept = Sessions /\ DOMAIN shown = Sessions
      /\ \A t \in Sessions : HookInv(t) /\ ViewsInv(t)
  BY DEF AdapterInv
<1>3. PICK kind, trace, b :
        /\ b = [plan |-> Plan(kind, k.generation > 0), kind |-> kind, trace |-> trace,
                since |-> Len(history), state |-> NewState, seen |-> <<>>, curated |-> <<>>,
                index |-> <<>>, mounts |-> <<>>]
        /\ build' = [build EXCEPT ![s] = b]
  BY <1>1 DEF Hook
<1>4. /\ history' = history /\ events' = events /\ skills' = skills /\ curated' = curated
      /\ Held' = Held /\ projectionSeq' = projectionSeq /\ kept' = kept /\ shown' = shown
  BY DEF Hook, adapter, Held
<1>5. HistoryInv' /\ AuditInv' /\ CuratedHeld'
  BY <1>2, <1>4 DEF HistoryInv, AuditInv, CuratedHeld, Current, Chained, KeptScopes
<1>6. DOMAIN build' = Sessions /\ build'[s] = b /\ \A t \in Sessions \ {s} : build'[t] = build[t]
  BY <1>2, <1>3
<1>7. /\ StateGood(k) /\ k.generation <= projectionSeq /\ (k.generation = 0 => k = NewState)
  BY <1>1, <1>2 DEF HookInv, HookOk
<1>8. PICK restored \in BOOLEAN : restored = (k.generation > 0)
  <2>1. PICK g \in Nat : g = k.generation
    BY <1>7 DEF StateGood
  <2>2. (g > 0) \in BOOLEAN
    BY <2>1
  <2> QED
    BY <2>1, <2>2
<1>9. /\ DOMAIN b = BuildFields /\ b.plan = Plan(kind, restored) /\ b.kind = kind
      /\ b.since = Len(history) /\ b.state = NewState
  BY <1>3, <1>8 DEF BuildFields
<1>10. PlanOk(b.plan, Due(b.kind, restored)) /\ At(b) = 1
  BY <1>9, PlanIs DEF At
<1>11. StateGood(b.state)
  <2>1. DOMAIN NewState = StateFields /\ NewState.curated = <<>> /\ NewState.generation = 0
    BY DEF NewState, StateFields
  <2>2. CuratedGood(<<>>)
    BY DEF CuratedGood, IsSequence, Range
  <2> QED
    BY <1>9, <2>1, <2>2 DEF StateGood
<1>12. ~(At(b) > 3) /\ ~(At(b) > 5) /\ ~(At(b) > 6) /\ ~(At(b) > 9) /\ ~(At(b) > 10) /\ ~(At(b) > 11)
       /\ ~(At(b) > 13) /\ ~(At(b) > 14) /\ ~(At(b) > 8)
  BY <1>10
<1>13. HookOk(b, k, projectionSeq)
  BY <1>7, <1>8, <1>9, <1>10, <1>11, <1>12 DEF HookOk
<1>14. ViewsOk(b, history)
  <2>1. Len(history) \in Nat \ {0}
    BY <1>2, HeldNow
  <2>2. Placed(b)
    BY <1>12 DEF Placed
  <2>3. PICK n : n = Collected(At(b))
    OBVIOUS
  <2>4. n = 0
    BY <1>12, <2>3 DEF Collected
  <2>5. PICK l \in Nat : l = Len(history)
    BY <2>1
  <2>6. HeldIn(history, b, l, l, n)
    BY <2>4, <2>5, NoViews
  <2>7. l \in 1 .. l
    BY <2>1, <2>5
  <2> QED
    BY <1>9, <1>12, <2>2, <2>3, <2>5, <2>6, <2>7 DEF ViewsOk
<1>15. ASSUME NEW t \in Sessions
       PROVE  HookInv(t)' /\ ViewsInv(t)'
  <2>1. CASE t = s
    BY <1>1, <1>2, <1>4, <1>6, <1>13, <1>14, <2>1 DEF HookInv, ViewsInv
  <2>2. CASE t # s
    BY <1>2, <1>4, <1>6, <2>2 DEF HookInv, ViewsInv
  <2> QED
    BY <2>1, <2>2
<1> QED
  BY <1>2, <1>4, <1>5, <1>6, <1>15 DEF AdapterInv

-----------------------------------------------------------------------------
(***************************************************************************)
(* Every step keeps the invariant.                                         *)
(***************************************************************************)

\* The curated entries stay finitely many, and their ids numbers.
LEMMA CuratedStaysHeld ==
    ASSUME CuratedHeld, Change
    PROVE  CuratedHeld'
<1>1. PICK c \in Changes :
         \/ UpsertEntry(c) \/ ChangeEntry(c) \/ UpsertSkill(c)
         \/ UpdateSkill(c) \/ RemoveSkill(c) \/ ChangeCurated(c)
         \/ UpsertWorkflow(c) \/ SetWorkflowStatus(c) \/ SetProjectionError(c)
  BY DEF Change
<1>2. CASE /\ c.op = "upsert_curated" /\ NormalizesCurated(c.entry)
           /\ curated' = Put(curated, c.entry.id, NewCuratedEntry(c.entry, curated))
  <2>1. PICK id \in Nat : id = c.entry.id
    BY <1>2, OptionsAssumption
  <2>2. DOMAIN curated' = {id} \cup DOMAIN curated
    BY <1>2, <2>1 DEF Put, Over
  <2>3. IsFiniteSet(DOMAIN curated \cup {id})
    BY FS_AddElement DEF CuratedHeld
  <2> QED
    BY <2>1, <2>2, <2>3 DEF CuratedHeld
<1>3. CASE /\ c.op = "remove_curated" /\ c.name \in DOMAIN curated
           /\ curated' = Without(curated, c.name)
  <2>1. DOMAIN curated' = DOMAIN curated \ {c.name}
    BY <1>3 DEF Without, Restrict
  <2>2. IsFiniteSet(DOMAIN curated \ {c.name})
    BY FS_RemoveElement DEF CuratedHeld
  <2> QED
    BY <2>1, <2>2 DEF CuratedHeld
<1>4. CASE \/ UpsertEntry(c) \/ ChangeEntry(c) \/ UpsertSkill(c)
           \/ UpdateSkill(c) \/ RemoveSkill(c)
           \/ UpsertWorkflow(c) \/ SetWorkflowStatus(c) \/ SetProjectionError(c)
  <2>1. curated' = curated
    BY <1>4 DEF UpsertEntry, ChangeEntry, UpsertSkill, UpdateSkill, RemoveSkill,
                UpsertWorkflow, SetWorkflowStatus, SetProjectionError
  <2> QED
    BY <2>1 DEF CuratedHeld
<1> QED
  BY <1>1, <1>2, <1>3, <1>4 DEF ChangeCurated

\* A change falls after the views that are collected.
LEMMA ViewsStay ==
    ASSUME HistoryInv, NEW b, ViewsOk(b, history), b.plan # <<>> => At(b) \in 1 .. 16,
           Len(history') = Len(history) + 1,
           \A k \in 1 .. Len(history) : history'[k] = history[k]
    PROVE  ViewsOk(b, history')
<1> SUFFICES ASSUME b.plan # <<>>
             PROVE  ViewsOk(b, history')
  BY DEF ViewsOk
<1>0. Len(history) \in Nat \ {0}
  BY HeldNow
<1>1. PICK l \in Nat \ {0} : l = Len(history)
  BY <1>0
<1>2. PICK since \in 1 .. l : since = b.since
  BY <1>1 DEF ViewsOk
<1>3. PICK n : n = Collected(At(b))
  OBVIOUS
<1>4. HeldIn(history, b, since, l, n) /\ Placed(b)
  BY <1>1, <1>2, <1>3 DEF ViewsOk
<1>5. n \in Nat
  BY <1>3 DEF Collected
<1>6. \A k \in since .. l : history[k] = history'[k]
  BY <1>1
<1>7. \A i \in 1 .. n : ViewIn(b, Views[i]) = ViewIn(b, Views[i])
  OBVIOUS
<1>8. HeldIn(history', b, since, l, n)
  BY <1>1, <1>2, <1>4, <1>5, <1>6, <1>7, ViewsSame
<1>9. HeldIn(history', b, since, l + 1, n)
  BY <1>1, <1>2, <1>5, <1>8, ViewsOutlive
<1>10. Len(history') = l + 1 /\ since \in 1 .. l + 1 /\ since # l + 1
  BY <1>1
<1> QED
  BY <1>2, <1>3, <1>4, <1>9, <1>10 DEF ViewsOk

\* What is shown stays what was held.
LEMMA ShownStays ==
    ASSUME HistoryInv, NEW p, ShownOk(p, history), Len(history') = Len(history) + 1,
           \A k \in 1 .. Len(history) : history'[k] = history[k]
    PROVE  ShownOk(p, history')
<1> SUFFICES ASSUME p # None
             PROVE  ShownOk(p, history')
  BY DEF ShownOk
<1>0. Len(history) \in Nat \ {0}
  BY HeldNow
<1>1. PICK l \in Nat \ {0} : l = Len(history)
  BY <1>0
<1>2. PICK until \in 1 .. l : until = p.until
  BY <1>1 DEF ShownOk
<1>3. PICK since \in 1 .. until : since = p.since
  BY <1>2 DEF ShownOk
<1>4. PICK n \in Nat : n = 8
  OBVIOUS
<1>5. HeldIn(history, p, since, until, n)
  BY <1>2, <1>3, <1>4 DEF ShownOk
<1>6. since \in Nat /\ until \in Nat /\ since <= until
  BY <1>2, <1>3
<1>7. \A k \in since .. until : history[k] = history'[k]
  BY <1>1, <1>2, <1>3
<1>8. \A i \in 1 .. n : ViewIn(p, Views[i]) = ViewIn(p, Views[i])
  OBVIOUS
<1>9. HeldIn(history', p, since, until, n)
  BY <1>5, <1>6, <1>7, <1>8, ViewsSame
<1>10. until \in 1 .. Len(history')
  BY <1>1, <1>2
<1> QED
  BY <1>2, <1>3, <1>4, <1>9, <1>10 DEF ShownOk

\* Change.
LEMMA ChangeKeeps ==
    ASSUME AdapterInv, Change
    PROVE  AdapterInv'
<1>1. /\ HistoryInv /\ AuditInv /\ CuratedHeld /\ projectionSeq \in Nat
      /\ DOMAIN build = Sessions /\ DOMAIN kept = Sessions /\ DOMAIN shown = Sessions
      /\ \A t \in Sessions : HookInv(t) /\ ViewsInv(t)
  BY DEF AdapterInv
<1>2. Skilled(skills)
  BY <1>1, HeldNow
<1>3. Skilled(skills') /\ history' = Append(history, Held')
  BY <1>1, <1>2, ChangeMoves
<1>4. /\ HistoryInv' /\ Len(history') = Len(history) + 1
      /\ \A k \in 1 .. Len(history) : history'[k] = history[k]
  BY <1>1, <1>3, HistoryGrows
<1>5. AuditInv' /\ CuratedHeld'
  BY <1>1, <1>2, AuditGoesOn, CuratedStaysHeld
<1>6. projectionSeq' = projectionSeq /\ build' = build /\ kept' = kept /\ shown' = shown
  BY DEF Change
<1>7. ASSUME NEW t \in Sessions
      PROVE  HookInv(t)' /\ ViewsInv(t)'
  <2>1. PICK b, p : b = build[t] /\ p = shown[t]
    OBVIOUS
  <2>2. ViewsOk(b, history) /\ ShownOk(p, history)
    BY <1>1, <2>1 DEF ViewsInv
  <2>3. ViewsOk(b, history')
    <3>1. b.plan # <<>> => At(b) \in 1 .. 16
      <4>1. ASSUME b.plan # <<>>
            PROVE  At(b) \in 1 .. 16
        <5>1. PICK plan : plan = b.plan
          OBVIOUS
        <5>2. /\ IsSequence(plan) /\ plan # <<>>
              /\ \A i \in 1 .. Len(plan) : Rank(plan[i]) \in 1 .. 16
          BY <1>1, <2>1, <4>1, <5>1 DEF HookInv, HookOk, PlanOk
        <5>3. Len(plan) \in Nat \ {0} /\ Head(plan) = plan[1]
          BY <5>2, TailIs
        <5> QED
          BY <5>1, <5>2, <5>3 DEF At
      <4> QED
        BY <4>1
    <3> QED
      BY <1>1, <1>4, <2>2, <3>1, ViewsStay
  <2>4. ShownOk(p, history')
    BY <1>1, <1>4, <2>2, ShownStays
  <2>5. ViewsInv(t)'
    BY <1>6, <2>1, <2>3, <2>4 DEF ViewsInv
  <2>6. HookInv(t)'
    BY <1>1, <1>6 DEF HookInv
  <2> QED
    BY <2>5, <2>6
<1> QED
  BY <1>1, <1>4, <1>5, <1>6, <1>7 DEF AdapterInv

\* The invariant holds at first.
LEMMA AdapterInit == Init => AdapterInv
<1> SUFFICES ASSUME Init
             PROVE  AdapterInv
  OBVIOUS
<1>1. PICK h : h = Held
  OBVIOUS
<1>2. h.skills = skills
  BY <1>1 DEF Held
<1>3. history = <<h>> /\ skills = Options.skills /\ curated = Options.curated /\ events = <<>>
      /\ projectionSeq = 0 /\ build = [s \in Sessions |-> Idle]
      /\ kept = [s \in Sessions |-> NewState] /\ shown = [s \in Sessions |-> None]
  BY <1>1 DEF Init
<1>4. HistoryInv
  <2>1. <<h>> \in Seq({h})
    OBVIOUS
  <2>2. IsSequence(<<h>>)
    BY <2>1, SequenceOf
  <2>3. /\ history # <<>> /\ Len(history) = 1 /\ DOMAIN history = {1} /\ history[1] = h
    BY <1>3
  <2>4. Skilled(h.skills)
    BY <1>2, <1>3, OptionsAssumption
  <2> QED
    BY <1>1, <1>3, <2>2, <2>3, <2>4 DEF HistoryInv
<1>5. AuditInv
  <2>1. IsSequence(events)
    BY <1>3 DEF IsSequence, Range
  <2>2. DOMAIN events = {}
    BY <1>3
  <2>3. Current /\ Chained(events)
    BY <2>2 DEF Current, Chained
  <2> QED
    BY <2>1, <2>3 DEF AuditInv
<1>6. CuratedHeld
  BY <1>3, OptionsAssumption DEF CuratedHeld
<1>7. HookOk(Idle, NewState, 0)
  <2>1. StateGood(NewState)
    <3>1. DOMAIN NewState = StateFields /\ NewState.curated = <<>> /\ NewState.generation = 0
      BY DEF NewState, StateFields
    <3>2. CuratedGood(<<>>)
      BY DEF CuratedGood, IsSequence, Range
    <3> QED
      BY <3>1, <3>2 DEF StateGood
  <2>2. NewState.generation = 0 /\ Idle.plan = <<>>
    BY DEF NewState, Idle
  <2> QED
    BY <2>1, <2>2 DEF HookOk
<1>8. ViewsOk(Idle, history) /\ ShownOk(None, history)
  BY DEF ViewsOk, ShownOk, Idle
<1> QED
  BY <1>3, <1>4, <1>5, <1>6, <1>7, <1>8 DEF AdapterInv, HookInv, ViewsInv

\* A step that changes nothing.
LEMMA AdapterStutters ==
    ASSUME AdapterInv, UNCHANGED vars
    PROVE  AdapterInv'
<1>1. /\ history' = history /\ events' = events /\ skills' = skills /\ curated' = curated
      /\ Held' = Held /\ projectionSeq' = projectionSeq /\ build' = build /\ kept' = kept /\ shown' = shown
  BY DEF vars, adapter, Held
<1>2. /\ DOMAIN build = Sessions /\ DOMAIN kept = Sessions /\ DOMAIN shown = Sessions
      /\ projectionSeq \in Nat /\ HistoryInv /\ AuditInv /\ CuratedHeld
      /\ \A s \in Sessions : HookInv(s) /\ ViewsInv(s)
  BY DEF AdapterInv
<1>3. HistoryInv' /\ AuditInv' /\ CuratedHeld'
  BY <1>1, <1>2 DEF HistoryInv, AuditInv, CuratedHeld, Current, Chained, KeptScopes
<1>4. \A s \in Sessions : HookInv(s)' /\ ViewsInv(s)'
  BY <1>1, <1>2 DEF HookInv, ViewsInv
<1> QED
  BY <1>1, <1>2, <1>3, <1>4 DEF AdapterInv

\* Every step keeps the invariant.
LEMMA AdapterStep == AdapterInv /\ [Next]_vars => AdapterInv'
<1> SUFFICES ASSUME AdapterInv, [Next]_vars
             PROVE  AdapterInv'
  OBVIOUS
<1>1. CASE UNCHANGED vars
  BY <1>1, AdapterStutters
<1>2. CASE Change
  BY <1>2, ChangeKeeps
<1>3. ASSUME NEW s \in Sessions,
             \/ Hook(s) \/ CollectCurated(s) \/ CollectWorkflows(s) \/ BeginProjectionBuild(s)
             \/ CollectRecords(s) \/ BuildMounts(s) \/ Publish(s)
      PROVE  AdapterInv'
  <2>1. CASE Hook(s)
    BY <2>1, HookKeeps
  <2>2. CASE CollectCurated(s)
    BY <2>2, CollectCuratedKeeps
  <2>3. CASE CollectWorkflows(s)
    BY <2>3, CollectWorkflowsKeeps
  <2>4. CASE BeginProjectionBuild(s)
    BY <2>4, BeginProjectionBuildKeeps
  <2>5. CASE CollectRecords(s)
    BY <2>5, CollectRecordsKeeps
  <2>6. CASE Fails(s)
    BY <2>6, FailsKeeps
  <2>7. CASE BuildMounts(s) /\ ~Fails(s)
    BY <2>7, BuildMountsKeeps
  <2>8. CASE Publish(s) /\ ~Fails(s)
    BY <2>8, PublishKeeps
  <2> QED
    BY <1>3, <2>1, <2>2, <2>3, <2>4, <2>5, <2>6, <2>7, <2>8
<1> QED
  BY <1>1, <1>2, <1>3 DEF Next

-----------------------------------------------------------------------------
(***************************************************************************)
(* What sessions show and keep.                                            *)
(***************************************************************************)

\* In every state each hook has what the sections before took for it, its views are
\* those of moments in order, and the audit names the winners (adapter.go:285,
\* adapter_projection.go:12, adapter_projection.go:154).
THEOREM AdapterInvHolds == Spec => []AdapterInv
<1>1. Init => AdapterInv
  BY AdapterInit
<1>2. AdapterInv /\ [Next]_vars => AdapterInv'
  BY AdapterStep
<1> QED
  BY <1>1, <1>2, PTL DEF Spec

\* What is shown was held.
LEMMA ShownIs ==
    ASSUME AdapterInv, NEW p \in Shown
    PROVE  /\ p.since \in Nat /\ p.until \in Nat /\ p.since <= p.until
           /\ p.since .. p.until \subseteq DOMAIN history
           /\ HeldIn(history, p, p.since, p.until, 8)
           /\ p.since = p.until => IndexAgrees(p.mounts.documents) /\ IndexAgrees(p.mounts.resources)
<1>1. PICK t \in Sessions : p = shown[t] /\ p # None
  BY DEF Shown
<1>2. /\ p.since \in 1 .. p.until /\ p.until \in 1 .. Len(history)
      /\ HeldIn(history, p, p.since, p.until, 8)
      /\ p.since = p.until => IndexAgrees(p.mounts.documents) /\ IndexAgrees(p.mounts.resources)
  BY <1>1 DEF AdapterInv, ViewsInv, ShownOk
<1>3. Len(history) \in Nat /\ DOMAIN history = 1 .. Len(history)
  <2>1. HistoryInv
    BY DEF AdapterInv
  <2> QED
    BY <2>1, HeldNow
<1>4. PICK l \in Nat : l = Len(history)
  BY <1>3
<1>5. PICK until \in 1 .. l : until = p.until
  BY <1>2, <1>4
<1>6. PICK since \in 1 .. until : since = p.since
  BY <1>2, <1>5
<1>7. since .. until \subseteq DOMAIN history
  BY <1>3, <1>4, <1>5, <1>6
<1> QED
  BY <1>2, <1>5, <1>6, <1>7

\* The invariant implies that the choice of skills is explained.
LEMMA InvExplains ==
    ASSUME AdapterInv
    PROVE  SelectionExplained
<1>1. ASSUME NEW p \in Shown
      PROVE  Explains(p.index.skills)
  <2>1. PICK since \in Nat : since = p.since
    BY ShownIs
  <2>2. PICK until \in Nat : until = p.until /\ since <= until
    BY <2>1, ShownIs
  <2>3. since .. until \subseteq DOMAIN history /\ HeldIn(history, p, since, until, 8)
    BY <2>1, <2>2, ShownIs
  <2>4. PICK before \in [(since + 1) .. until -> 1 .. 8 + 1] : \A i \in 1 .. 8 :
          ViewIn(p, Views[i]) = ViewAt(history[MomentOf(since, before, i)], Views[i])
    BY <2>3 DEF HeldIn
  <2>5. PICK n, k : n = 4 /\ k = MomentOf(since, before, n)
    OBVIOUS
  <2>6. DOMAIN before = (since + 1) .. until
    BY <2>4
  <2>7. k \in DOMAIN history
    BY <2>2, <2>3, <2>5, <2>6, MomentIs
  <2>8. n \in 1 .. 8
    BY <2>5
  <2>9. ViewIn(p, Views[n]) = ViewAt(history[k], Views[n])
    BY <2>4, <2>5, <2>8
  <2>10. p.index.skills = ViewIn(p, Views[4])
    BY ViewsInAre
  <2>11. ViewAt(history[k], Views[4]) = SkillRecords(history[k].skills)
    BY ViewsAtAre
  <2>12. Skilled(history[k].skills)
    BY <2>7 DEF AdapterInv, HistoryInv
  <2> QED
    BY <2>5, <2>9, <2>10, <2>11, <2>12, RecordsExplain
<1>2. KeptScopes => Chained(events)
  BY DEF AdapterInv, AuditInv
<1> QED
  BY <1>1, <1>2 DEF SelectionExplained

\* Whatever the control plane changes while a projection is built, the index of
\* skills in it explains each choice, and the audit is a chain of winners
\* (adapter_projection.go:154, adapter_skills.go:191).
THEOREM SelectionExplainedHolds == Spec => []SelectionExplained
<1>1. AdapterInv => SelectionExplained
  BY InvExplains
<1> QED
  BY <1>1, AdapterInvHolds, PTL

\* The invariant implies that projections are current.
LEMMA InvCurrent ==
    ASSUME AdapterInv
    PROVE  ProjectionCurrent
<1>1. ASSUME NEW p \in Shown
      PROVE  /\ HeldInOrder(p, p.since, p.until, Len(Views))
             /\ p.since = p.until => IndexAgrees(p.mounts.documents) /\ IndexAgrees(p.mounts.resources)
  <2>1. PICK n : n = Len(Views)
    OBVIOUS
  <2>2. n = 8
    BY <2>1 DEF Views
  <2>3. HeldIn(history, p, p.since, p.until, n)
    BY <2>2, ShownIs
  <2>4. HeldInOrder(p, p.since, p.until, n)
    BY <2>3 DEF HeldIn, HeldInOrder
  <2> QED
    BY <2>1, <2>4, ShownIs
<1> QED
  BY <1>1 DEF ProjectionCurrent

\* Each view of a projection is what the adapter held at some moment of its hook, the
\* views in the order of these moments, and an index differs from the files beside it
\* only if a change fell in between (adapter_projection.go:12).
THEOREM ProjectionCurrentHolds == Spec => []ProjectionCurrent
<1>1. AdapterInv => ProjectionCurrent
  BY InvCurrent
<1> QED
  BY <1>1, AdapterInvHolds, PTL

\* A session keeps something else only when a hook of it publishes.
LEMMA KeptChanges ==
    ASSUME AdapterInv, Next, NEW s \in Sessions, kept'[s] # kept[s]
    PROVE  Does(s, "publish") /\ kept'[s] = build[s].state
<1>1. CASE Change
  BY <1>1 DEF Change
<1>2. ASSUME NEW t \in Sessions,
             \/ Hook(t) \/ CollectCurated(t) \/ CollectWorkflows(t) \/ BeginProjectionBuild(t)
             \/ CollectRecords(t) \/ BuildMounts(t) \/ Publish(t)
      PROVE  Does(s, "publish") /\ kept'[s] = build[s].state
  <2>1. CASE \/ Hook(t) \/ CollectCurated(t) \/ CollectWorkflows(t) \/ BeginProjectionBuild(t)
             \/ CollectRecords(t) \/ BuildMounts(t)
    BY <2>1 DEF Hook, CollectCurated, CollectWorkflows, BeginProjectionBuild, CollectRecords,
                BuildMounts, Fails, OnlyBuild
  <2>2. CASE Publish(t)
    <3>1. kept' = [kept EXCEPT ![t] = build[t].state] /\ Does(t, "publish")
      BY <2>2 DEF Publish, Fails
    <3>2. DOMAIN kept = Sessions
      BY DEF AdapterInv
    <3>3. s = t
      BY <3>1, <3>2
    <3> QED
      BY <3>1, <3>2, <3>3
  <2> QED
    BY <1>2, <2>1, <2>2
<1> QED
  BY <1>1, <1>2 DEF Next

\* What a session has observed it never forgets, and each projection it takes is of a
\* later generation (adapter.go:285, :541).
THEOREM ObservationsKeptHolds == Spec => ObservationsKept
<1>1. ASSUME AdapterInv, Next, NEW s \in Sessions, kept'[s] # kept[s]
      PROVE  /\ \A field \in {"observations", "reads", "written", "denied"} :
                  kept[s][field] \subseteq kept'[s][field]
             /\ DOMAIN ById(kept[s].curated) \subseteq DOMAIN ById(kept'[s].curated)
             /\ kept'[s].generation > kept[s].generation
             /\ build[s].kind = "observe"
                  => SummarizeTrace(build[s].trace) \subseteq kept'[s].observations
  <2>1. PICK b, k, c : b = build[s] /\ k = kept[s] /\ c = b.state
    OBVIOUS
  <2>2. Does(s, "publish") /\ kept'[s] = c
    BY <1>1, <2>1, KeptChanges
  <2>3. /\ c.generation > k.generation
        /\ k.generation \in Nat /\ (k.generation > 0 => Keeps(k, c))
        /\ (k.generation = 0 => k = NewState)
        /\ b.kind = "observe" => SummarizeTrace(b.trace) \subseteq c.observations
    BY <1>1, <2>1, <2>2, PublishIs
  <2>4. Keeps(k, c)
    <3>1. CASE k.generation = 0
      <4>1. /\ k.observations = {} /\ k.reads = {} /\ k.written = {} /\ k.denied = {}
            /\ k.curated = <<>>
        BY <2>3, <3>1 DEF NewState
      <4>2. IdsOf(k.curated) = {}
        BY <4>1 DEF IdsOf, ById
      <4> QED
        BY <4>1, <4>2 DEF Keeps
    <3>2. CASE k.generation > 0
      BY <2>3, <3>2
    <3>3. PICK g \in Nat : g = k.generation
      BY <2>3
    <3>4. g = 0 \/ g > 0
      OBVIOUS
    <3> QED
      BY <3>1, <3>2, <3>3, <3>4
  <2> QED
    BY <2>1, <2>2, <2>3, <2>4 DEF Keeps, IdsOf
<1>2. AdapterInv /\ [Next]_vars =>
        [\A s \in Sessions : kept'[s] # kept[s] =>
           /\ \A field \in {"observations", "reads", "written", "denied"} :
                kept[s][field] \subseteq kept'[s][field]
           /\ DOMAIN ById(kept[s].curated) \subseteq DOMAIN ById(kept'[s].curated)
           /\ kept'[s].generation > kept[s].generation
           /\ build[s].kind = "observe"
                => SummarizeTrace(build[s].trace) \subseteq kept'[s].observations]_vars
  BY <1>1
<1> QED
  BY <1>2, AdapterInvHolds, PTL DEF Spec, ObservationsKept

=============================================================================
