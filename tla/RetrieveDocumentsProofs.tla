----------------------- MODULE RetrieveDocumentsProofs -----------------------
(***************************************************************************)
(* For any corpus, limits and rankings: the types of RetrieveDocuments,    *)
(* what its passages are said to be, and that what a grade kept is         *)
(* returned.                                                               *)
(***************************************************************************)
EXTENDS RetrieveDocuments, FunctionTheorems, FiniteSetTheorems, SequenceTheorems, TLAPS

-----------------------------------------------------------------------------
(***************************************************************************)
(* The first passages, and those of a set.                                 *)
(***************************************************************************)
LEMMA FirstIs ==
  ASSUME NEW A, NEW s \in Seq(A), NEW n \in Nat
  PROVE  /\ First(n, s) \in Seq(A)
         /\ Len(First(n, s)) = Least(n, Len(s))
         /\ Len(First(n, s)) <= n
         /\ ToSet(First(n, s)) \subseteq ToSet(s)
         /\ IsInjective(s) => IsInjective(First(n, s))
         /\ n > 0 => (First(n, s) = <<>> <=> s = <<>>)
         /\ ToSet(s) \subseteq ToSet(First(n, s)) \/ Len(First(n, s)) = n
<1> DEFINE m == Least(n, Len(s))
<1>1. /\ m \in Nat /\ m <= Len(s) /\ m <= n /\ (n > 0 => (m = 0 <=> Len(s) = 0))
      /\ m = Len(s) \/ m = n
  BY DEF Least
<1>2. \A i \in 1..m : s[i] \in A
  BY <1>1
<1> HIDE DEF m
<1>3. /\ First(n, s) \in Seq(A) /\ Len(First(n, s)) = m
      /\ DOMAIN First(n, s) = 1..m /\ \A i \in 1..m : First(n, s)[i] = s[i]
  BY <1>1, <1>2 DEF First, m
<1>4. ToSet(First(n, s)) \subseteq ToSet(s)
  BY <1>1, <1>3 DEF ToSet
<1>5. IsInjective(s) => IsInjective(First(n, s))
  BY <1>1, <1>3 DEF IsInjective
<1>6. n > 0 => (First(n, s) = <<>> <=> s = <<>>)
  BY <1>1, <1>3
<1>7. ToSet(s) \subseteq ToSet(First(n, s)) \/ Len(First(n, s)) = n
  <2>1. m = Len(s) => First(n, s) = s
    BY <1>3
  <2> QED
    BY <1>1, <1>3, <2>1
<1> QED
  BY <1>1, <1>3, <1>4, <1>5, <1>6, <1>7 DEF m

\* The places of passages that are counted one after another.
Rank(places, i) == Cardinality({j \in places : j < i}) + 1

LEMMA RanksAreOneToOne ==
  ASSUME NEW n \in Nat, NEW places \in SUBSET (1..n)
  PROVE  /\ Cardinality(places) \in Nat
         /\ \A i \in places : Rank(places, i) \in 1..Cardinality(places)
         /\ \A i, j \in places : Rank(places, i) = Rank(places, j) => i = j
         /\ \A k \in 1..Cardinality(places) : \E i \in places : Rank(places, i) = k
<1> DEFINE m == Cardinality(places)
           before(i) == {j \in places : j < i}
<1>1. IsFiniteSet(1..n)
  <2>1. 1 \in Int /\ n \in Int
    OBVIOUS
  <2> QED
    BY <2>1, FS_Interval
<1>2. IsFiniteSet(places) /\ m \in Nat
  BY <1>1, FS_Subset, FS_CardinalityType
<1>3. IsFiniteSet(1..m) /\ Cardinality(1..m) = m
  <2>1. 1 \in Int /\ m \in Int /\ (1 > m => m = 0)
    BY <1>2
  <2> HIDE DEF m
  <2> QED
    BY <1>2, <2>1, FS_Interval
<1>4. ASSUME NEW i \in places
      PROVE  IsFiniteSet(before(i)) /\ Cardinality(before(i)) \in Nat
  <2>1. before(i) \in SUBSET places
    OBVIOUS
  <2> QED
    BY <1>2, <2>1, FS_Subset, FS_CardinalityType
<1>5. ASSUME NEW i \in places PROVE Rank(places, i) \in 1..m
  <2>1. before(i) \in SUBSET (places \ {i})
    OBVIOUS
  <2>2. IsFiniteSet(places \ {i}) /\ Cardinality(places \ {i}) = m - 1
    BY <1>2, FS_RemoveElement
  <2>3. Cardinality(before(i)) <= m - 1
    BY <2>1, <2>2, FS_Subset
  <2>4. Cardinality(before(i)) \in Nat
    BY <1>4
  <2> HIDE DEF m
  <2> QED
    BY <1>2, <2>3, <2>4 DEF Rank
<1>6. ASSUME NEW i \in places, NEW j \in places, i < j PROVE Rank(places, i) < Rank(places, j)
  <2>1. before(i) \cup {i} \in SUBSET before(j) /\ i \notin before(i)
    <3>1. ASSUME NEW h \in before(i) PROVE h \in before(j) /\ h # i
      BY <1>6
    <3>2. i \in before(j)
      BY <1>6
    <3> QED
      BY <3>1, <3>2
  <2>2. Cardinality(before(i) \cup {i}) = Cardinality(before(i)) + 1
    BY <1>4, <2>1, FS_AddElement
  <2>3. Cardinality(before(i)) + 1 <= Cardinality(before(j))
    BY <1>4, <2>1, <2>2, FS_Subset
  <2> QED
    BY <1>4, <2>3 DEF Rank
<1>7. ASSUME NEW i \in places, NEW j \in places, Rank(places, i) = Rank(places, j) PROVE i = j
  <2>1. Rank(places, i) \in Nat /\ Rank(places, j) \in Nat
    BY <1>4 DEF Rank
  <2>2. ~(i < j) /\ ~(j < i)
    BY <1>6, <1>7, <2>1
  <2> QED
    BY <2>2
<1> DEFINE rank == [i \in places |-> Rank(places, i)]
<1>8. rank \in [places -> 1..m]
  BY <1>5
<1>9. \A i, j \in places : rank[i] = rank[j] => i = j
  BY <1>7
<1> HIDE DEF m
<1>10. rank \in Injection(places, 1..m)
  BY <1>8, <1>9, Fun_IsInj
<1>11. rank \in Surjection(places, 1..m)
  BY <1>3, <1>10, FS_Injection DEF m
<1>12. \A k \in 1..m : \E i \in places : rank[i] = k
  BY <1>11, Zenon DEF Surjection
<1> QED
  BY <1>2, <1>5, <1>7, <1>12 DEF m

LEMMA OnlyIs ==
  ASSUME NEW A, NEW s \in Seq(A), NEW S
  PROVE  /\ Only(S, s) \in Seq(A)
         /\ ToSet(Only(S, s)) = ToSet(s) \cap S
         /\ IsInjective(s) => IsInjective(Only(S, s))
<1> DEFINE places == {i \in DOMAIN s : s[i] \in S}
           m == Cardinality(places)
           nth(n) == CHOOSE i \in places : Cardinality({j \in places : j < i}) = n - 1
<1>1. Len(s) \in Nat /\ DOMAIN s = 1..Len(s) /\ places \in SUBSET (1..Len(s))
  OBVIOUS
<1> HIDE DEF places
<1>2. /\ m \in Nat
      /\ \A i \in places : Rank(places, i) \in 1..m
      /\ \A i, j \in places : Rank(places, i) = Rank(places, j) => i = j
      /\ \A k \in 1..m : \E i \in places : Rank(places, i) = k
  BY <1>1, RanksAreOneToOne
<1>3. ASSUME NEW k \in 1..m PROVE nth(k) \in places /\ Rank(places, nth(k)) = k
  <2>1. PICK i \in places : Rank(places, i) = k
    BY <1>2
  <2>2. \A j \in places : Cardinality({h \in places : h < j}) = k - 1 <=> Rank(places, j) = k
    <3> SUFFICES ASSUME NEW j \in places
                 PROVE  Cardinality({h \in places : h < j}) = k - 1 <=> Rank(places, j) = k
      OBVIOUS
    <3>1. {h \in places : h < j} \in SUBSET (1..Len(s))
      BY <1>1
    <3>2. Cardinality({h \in places : h < j}) \in Nat
      <4>1. 1 \in Int /\ Len(s) \in Int
        BY <1>1
      <4>2. IsFiniteSet(1..Len(s))
        BY <4>1, FS_Interval
      <4> QED
        BY <3>1, <4>2, FS_Subset, FS_CardinalityType
    <3> QED
      BY <3>2 DEF Rank
  <2>3. \E j \in places : Cardinality({h \in places : h < j}) = k - 1
    BY <2>1, <2>2
  <2>4. nth(k) \in places /\ Cardinality({h \in places : h < nth(k)}) = k - 1
    BY <2>3
  <2> QED
    BY <2>2, <2>4
<1>4. Only(S, s) = [k \in 1..m |-> s[nth(k)]]
  BY DEF Only, places
<1> HIDE DEF nth, m
<1>5. DOMAIN Only(S, s) = 1..m /\ \A k \in 1..m : Only(S, s)[k] = s[nth(k)]
  BY <1>4
<1>6. \A i \in places : i \in DOMAIN s /\ s[i] \in S /\ s[i] \in A
  BY DEF places
<1>7. Only(S, s) \in Seq(A)
  <2>1. Only(S, s) \in [1..m -> A]
    BY <1>3, <1>4, <1>6
  <2> QED
    BY <1>2, <2>1
<1>8. ToSet(Only(S, s)) = ToSet(s) \cap S
  <2>1. ASSUME NEW k \in 1..m PROVE s[nth(k)] \in ToSet(s) \cap S
    BY <1>3, <1>6 DEF ToSet
  <2>2. ASSUME NEW i \in DOMAIN s, s[i] \in S PROVE \E k \in 1..m : Only(S, s)[k] = s[i]
    <3>1. i \in places
      BY <2>2 DEF places
    <3>2. Rank(places, i) \in 1..m
      BY <1>2, <3>1
    <3>3. nth(Rank(places, i)) = i
      BY <1>2, <1>3, <3>1, <3>2
    <3> QED
      BY <1>5, <3>2, <3>3
  <2> QED
    BY <1>5, <2>1, <2>2 DEF ToSet
<1>9. ASSUME IsInjective(s) PROVE IsInjective(Only(S, s))
  <2> SUFFICES ASSUME NEW k \in 1..m, NEW l \in 1..m, s[nth(k)] = s[nth(l)] PROVE k = l
    BY <1>5 DEF IsInjective
  <2>1. nth(k) \in DOMAIN s /\ nth(l) \in DOMAIN s
    BY <1>3, <1>6
  <2>2. nth(k) = nth(l)
    BY <1>9, <2>1 DEF IsInjective
  <2> QED
    BY <1>3, <2>2
<1> QED
  BY <1>7, <1>8, <1>9

\* What both searches found, each passage once.
LEMMA MergeIs ==
  ASSUME NEW first \in Seq(corpus), NEW second \in Seq(corpus), IsInjective(first), IsInjective(second)
  PROVE  /\ Merge(first, second) \in Seq(corpus)
         /\ IsInjective(Merge(first, second))
         /\ first # <<>> => Merge(first, second) # <<>>
         /\ ToSet(Merge(first, second)) = ToSet(first) \cup ToSet(second)
<1> DEFINE new == Only(corpus \ ToSet(first), second)
           both == first \o new
<1>1. /\ new \in Seq(corpus) /\ ToSet(new) \cap ToSet(first) = {} /\ IsInjective(new)
      /\ ToSet(new) = ToSet(second) \ ToSet(first)
  <2>1. ToSet(second) \subseteq corpus
    BY DEF ToSet
  <2> QED
    BY <2>1, OnlyIs
<1> HIDE DEF new
<1>2. both \in Seq(corpus) /\ Len(both) = Len(first) + Len(new)
  BY <1>1
<1>3. /\ DOMAIN first = 1..Len(first) /\ DOMAIN new = 1..Len(new) /\ DOMAIN both = 1..Len(both)
      /\ Len(first) \in Nat /\ Len(new) \in Nat
  BY <1>1, <1>2
<1>4. \A i \in DOMAIN both :
        \/ i \in DOMAIN first /\ both[i] = first[i]
        \/ i - Len(first) \in DOMAIN new /\ both[i] = new[i - Len(first)] /\ i > Len(first)
  BY <1>1, <1>2, <1>3
<1>5. \A i \in DOMAIN first, j \in DOMAIN new : first[i] # new[j]
  BY <1>1 DEF ToSet
<1> HIDE DEF both
<1>6. ASSUME NEW i \in DOMAIN both, NEW j \in DOMAIN both, both[i] = both[j] PROVE i = j
  <2>1. i \in Nat /\ j \in Nat
    BY <1>3
  <2>2. CASE i \in DOMAIN first /\ both[i] = first[i] /\ j \in DOMAIN first /\ both[j] = first[j]
    BY <1>6, <2>2 DEF IsInjective
  <2>3. CASE /\ i - Len(first) \in DOMAIN new /\ both[i] = new[i - Len(first)]
             /\ j - Len(first) \in DOMAIN new /\ both[j] = new[j - Len(first)]
    <3>1. i - Len(first) = j - Len(first)
      BY <1>1, <1>6, <2>3 DEF IsInjective
    <3> QED
      BY <1>3, <2>1, <3>1
  <2> QED
    BY <1>4, <1>5, <1>6, <2>2, <2>3
<1>7. first # <<>> => both # <<>>
  BY <1>2, <1>3
<1>8. ToSet(both) = ToSet(first) \cup ToSet(second)
  <2>1. ToSet(both) \subseteq ToSet(first) \cup ToSet(new)
    BY <1>4 DEF ToSet
  <2>2. \A i \in DOMAIN first : i \in DOMAIN both /\ both[i] = first[i]
    BY <1>1, <1>2, <1>3 DEF both
  <2>3. \A j \in DOMAIN new : Len(first) + j \in DOMAIN both /\ both[Len(first) + j] = new[j]
    BY <1>1, <1>2, <1>3 DEF both
  <2>4. ToSet(first) \subseteq ToSet(both)
    BY <2>2 DEF ToSet
  <2>5. ToSet(new) \subseteq ToSet(both)
    BY <2>3 DEF ToSet
  <2> QED
    BY <1>1, <2>1, <2>4, <2>5
<1> QED
  BY <1>2, <1>6, <1>7, <1>8 DEF Merge, new, both, IsInjective

LEMMA RankingIs ==
  ASSUME corpus \subseteq Paragraphs, NEW ranking \in Rankings(HitCount)
  PROVE  ranking \in Seq(corpus) /\ IsInjective(ranking) /\ (ranking = <<>> <=> corpus = {})
<1>1. IsFiniteSet(corpus) /\ Cardinality(corpus) \in Nat /\ (Cardinality(corpus) = 0 <=> corpus = {})
  BY ParagraphsAssumption, FS_Subset, FS_CardinalityType, FS_EmptySet
<1>2. HitCount \in Nat /\ (HitCount = 0 <=> corpus = {})
  BY <1>1, BoundsAssumption DEF HitCount, Least
<1> HIDE DEF HitCount
<1>3. ranking \in [1..HitCount -> corpus] /\ IsInjective(ranking)
  BY DEF Rankings
<1>4. ranking \in Seq(corpus) /\ Len(ranking) = HitCount
  BY <1>2, <1>3
<1> QED
  BY <1>2, <1>3, <1>4

-----------------------------------------------------------------------------
(***************************************************************************)
(* The inductive invariant: what is known of the passages at each await.   *)
(***************************************************************************)
Graded == at \in {"rewrite", "search_again", "grade_again"}

FoundInv ==
  /\ IsInjective(hits) /\ IsInjective(pool) /\ IsInjective(relevant)
  /\ retrieved = ToSet(pool)
  /\ at \in {"grade", "rewrite", "search_again"} => pool = hits
  /\ at = "search" => pool = <<>> /\ relevant = <<>> /\ judged = {} /\ ~ungraded
  /\ at = "grade" => ~ungraded
  /\ at = "grade" \/ Graded => (hits = <<>> <=> corpus = {}) /\ (pool = <<>> <=> corpus = {})
  /\ Graded /\ ungraded => hits = <<>>
  /\ at = "rewrite" => ToSet(relevant) \subseteq ToSet(pool) /\ (ungraded \/ judged = ToSet(pool))

IInv == TypeOK /\ FoundInv /\ UngradedIsSaid /\ FoundIsKept

LEMMA InitIInv == Init => IInv
<1> SUFFICES ASSUME Init PROVE IInv
  OBVIOUS
<1>1. deps \in [models : BOOLEAN, store : BOOLEAN, searchable : BOOLEAN,
                production : BOOLEAN, ready : BOOLEAN]
  <2> DEFINE parts == {"models", "store", "searchable", "production", "ready"}
  <2>1. PICK start \in Started : deps = [part \in parts |-> Build(start[1], start[2])[part]]
    BY DEF Init, Servers
  <2>2. start[1] \in Settings /\ start[2] \in Surroundings
    BY DEF Started
  <2>3. /\ Build(start[1], start[2])["models"] = start[1].gemini_api_key
        /\ Build(start[1], start[2])["store"] = start[2].paragraphs
        /\ Build(start[1], start[2])["searchable"] = IsSearchable(start[1], start[2])
        /\ Build(start[1], start[2])["production"] = (start[1].environment = "prod")
        /\ Build(start[1], start[2])["ready"] = IsReady(start[1], start[2])
    BY DEF Build
  <2>4. start[1].gemini_api_key \in BOOLEAN /\ start[1].superhero_api_token \in BOOLEAN
    BY <2>2 DEF Settings
  <2>5. start[2].paragraphs \in BOOLEAN
    BY <2>2 DEF Surroundings
  <2>6. IsSearchable(start[1], start[2]) \in BOOLEAN /\ IsReady(start[1], start[2]) \in BOOLEAN
    BY DEF IsSearchable, IsReady
  <2> QED
    BY <2>1, <2>3, <2>4, <2>5, <2>6
<1>2. TypeOK
  <2>1. attempt \in 1..MaxAttempts
    BY BoundsAssumption DEF Init
  <2>2. hits \in Seq(corpus) /\ pool \in Seq(corpus) /\ relevant \in Seq(corpus) /\ evidence \in Seq(corpus)
    BY DEF Init
  <2>3. /\ corpus \subseteq Paragraphs /\ at \in Places /\ notes \subseteq Notes
        /\ judged \subseteq corpus /\ retrieved \subseteq corpus
    BY DEF Init, Places
  <2>4. ungraded \in BOOLEAN /\ rewrote \in BOOLEAN /\ gap \in BOOLEAN
    BY DEF Init
  <2> QED
    BY <1>1, <2>1, <2>2, <2>3, <2>4 DEF TypeOK
<1>3. FoundInv
  BY DEF Init, FoundInv, Graded, IsInjective, ToSet
<1> QED
  BY <1>2, <1>3 DEF Init, IInv, UngradedIsSaid, FoundIsKept

-----------------------------------------------------------------------------
(***************************************************************************)
(* The end of the branch.                                                  *)
(***************************************************************************)

\* The passages chosen once no grade is left: a part of what was kept, or the first
\* of all when nothing was.
LEMMA ChosenIs ==
  ASSUME TypeOK, IsInjective(pool), NEW kept \in Seq(corpus), IsInjective(kept),
         ToSet(kept) \subseteq ToSet(pool)
  PROVE  /\ Chosen(kept) \in Seq(corpus)
         /\ IsInjective(Chosen(kept)) /\ Len(Chosen(kept)) <= EvidencePerSubQuery
         /\ ToSet(Chosen(kept)) \subseteq ToSet(pool)
         /\ Chosen(kept) = <<>> <=> pool = <<>>
         /\ kept # <<>> => /\ ToSet(Chosen(kept)) \subseteq ToSet(kept)
                           /\ \/ ToSet(kept) \subseteq ToSet(Chosen(kept))
                              \/ Len(Chosen(kept)) = EvidencePerSubQuery
         /\ kept = <<>> \/ kept = First(3, pool) =>
              \/ ToSet(pool) \subseteq ToSet(Chosen(kept))
              \/ Len(Chosen(kept)) >= Least(3, EvidencePerSubQuery)
<1> DEFINE some == IF kept = <<>> THEN First(3, pool) ELSE kept
<1>1. pool \in Seq(corpus) /\ EvidencePerSubQuery \in Nat /\ EvidencePerSubQuery > 0
  BY BoundsAssumption DEF TypeOK
<1>2. /\ First(3, pool) \in Seq(corpus) /\ IsInjective(First(3, pool))
      /\ ToSet(First(3, pool)) \subseteq ToSet(pool) /\ (First(3, pool) = <<>> <=> pool = <<>>)
  <2>1. 3 \in Nat /\ 3 > 0
    OBVIOUS
  <2> QED
    BY <1>1, <2>1, FirstIs, Zenon
<1>3. kept # <<>> => pool # <<>>
  <2>1. kept # <<>> => ToSet(kept) # {}
    BY DEF ToSet
  <2>2. pool = <<>> => ToSet(pool) = {}
    BY DEF ToSet
  <2> QED
    BY <2>1, <2>2
<1>4. /\ some \in Seq(corpus) /\ IsInjective(some) /\ ToSet(some) \subseteq ToSet(pool)
      /\ some = <<>> <=> pool = <<>>
      /\ kept # <<>> => some = kept
      /\ kept = <<>> \/ kept = First(3, pool) => some = First(3, pool)
  BY <1>2, <1>3
<1> HIDE DEF some
<1>5. Chosen(kept) = First(EvidencePerSubQuery, some)
  BY DEF Chosen, some
<1>6. /\ Chosen(kept) \in Seq(corpus) /\ Len(Chosen(kept)) <= EvidencePerSubQuery
      /\ ToSet(Chosen(kept)) \subseteq ToSet(some) /\ IsInjective(Chosen(kept))
      /\ Chosen(kept) = <<>> <=> some = <<>>
      /\ Len(Chosen(kept)) = Least(EvidencePerSubQuery, Len(some))
      /\ ToSet(some) \subseteq ToSet(Chosen(kept)) \/ Len(Chosen(kept)) = EvidencePerSubQuery
  <2>1. EvidencePerSubQuery > 0 /\ some \in Seq(corpus) /\ IsInjective(some)
    BY <1>1, <1>4
  <2> DEFINE top == First(EvidencePerSubQuery, some)
  <2>2. /\ top \in Seq(corpus) /\ Len(top) <= EvidencePerSubQuery
        /\ ToSet(top) \subseteq ToSet(some) /\ IsInjective(top)
        /\ top = <<>> <=> some = <<>>
    BY <1>1, <2>1, FirstIs, Zenon
  <2>3. /\ Len(top) = Least(EvidencePerSubQuery, Len(some))
        /\ ToSet(some) \subseteq ToSet(top) \/ Len(top) = EvidencePerSubQuery
    BY <1>1, <2>1, FirstIs, Zenon
  <2> QED
    BY <1>5, <2>2, <2>3
<1>7. ASSUME some = First(3, pool)
      PROVE  \/ ToSet(pool) \subseteq ToSet(Chosen(kept))
             \/ Len(Chosen(kept)) >= Least(3, EvidencePerSubQuery)
  <2>1. ToSet(pool) \subseteq ToSet(some) \/ Len(some) = 3
    BY <1>1, <1>7, FirstIs
  <2>2. Len(some) = 3 => Len(Chosen(kept)) >= Least(3, EvidencePerSubQuery)
    BY <1>1, <1>6 DEF Least
  <2>3. Len(Chosen(kept)) = EvidencePerSubQuery => Len(Chosen(kept)) >= Least(3, EvidencePerSubQuery)
    BY <1>1 DEF Least
  <2> QED
    BY <1>6, <2>1, <2>2, <2>3
<1> QED
  BY <1>4, <1>6, <1>7

\* A branch that ends without evidence and says so.
LEMMA ReturnsNothing ==
  ASSUME IInv, at = "search", NEW note \in {"not_loaded", "search_failed"},
         Returns(<<>>, {note}, TRUE), UNCHANGED <<deps, corpus, found, grading, rewrote, attempt>>
  PROVE  IInv'
<1>1. at' = "END" /\ evidence' = <<>> /\ notes' = {note} /\ gap' = TRUE
  BY DEF Returns
<1>2. TypeOK'
  BY <1>1 DEF IInv, TypeOK, found, grading, Places, Notes
<1>3. FoundInv'
  BY <1>1 DEF IInv, FoundInv, Graded, found, grading
<1>4. UngradedIsSaid' /\ FoundIsKept'
  <2>1. UngradedIsSaid'
    BY <1>1 DEF UngradedIsSaid
  <2>2. relevant' = <<>>
    BY DEF IInv, FoundInv, grading
  <2>3. IsInjective(evidence') /\ Len(evidence') = 0 /\ 0 <= EvidencePerSubQuery
    BY <1>1, BoundsAssumption DEF IsInjective
  <2>4. judged' = {} /\ retrieved' = {} /\ ToSet(<<>>) = {}
    BY DEF IInv, FoundInv, grading, found, ToSet
  <2>5. FilledFrom(retrieved, Least(3, EvidencePerSubQuery))'
    BY <1>1, <2>4 DEF FilledFrom
  <2> QED
    BY <1>1, <2>1, <2>2, <2>3, <2>4, <2>5 DEF FoundIsKept
<1> QED
  BY <1>2, <1>3, <1>4 DEF IInv

\* A branch that ends with what was kept of the pool.
LEMMA ConcludesKeeps ==
  ASSUME IInv, NEW kept \in Seq(corpus), NEW none \in BOOLEAN, Concludes(kept, none),
         UNCHANGED <<deps, corpus, attempt, found, rewrote>>, TypeOK',
         IsInjective(kept), ToSet(kept) \subseteq ToSet(pool), relevant' = kept,
         hits = <<>> <=> corpus = {}, pool = <<>> <=> corpus = {},
         ~none => judged' = ToSet(pool),
         none => judged' = {} /\ (kept = First(3, pool) \/ corpus = {})
  PROVE  FoundInv' /\ UngradedIsSaid' /\ FoundIsKept'
<1>1. /\ at' = "END" /\ evidence' = Chosen(kept) /\ gap' = FALSE
      /\ notes' = (IF rewrote THEN {"rewritten"} ELSE {}) \cup
                  (IF none /\ hits # <<>> THEN {"ungraded"} ELSE {})
  BY DEF Concludes, Returns
<1>2. UNCHANGED <<hits, pool, retrieved, corpus>>
  BY DEF found
<1>3. TypeOK /\ IsInjective(pool) /\ IsInjective(hits) /\ retrieved = ToSet(pool)
  BY DEF IInv, FoundInv
<1>4. /\ IsInjective(Chosen(kept)) /\ Len(Chosen(kept)) <= EvidencePerSubQuery
      /\ ToSet(Chosen(kept)) \subseteq ToSet(pool)
      /\ Chosen(kept) = <<>> <=> pool = <<>>
      /\ kept # <<>> => /\ ToSet(Chosen(kept)) \subseteq ToSet(kept)
                        /\ \/ ToSet(kept) \subseteq ToSet(Chosen(kept))
                           \/ Len(Chosen(kept)) = EvidencePerSubQuery
      /\ kept = <<>> \/ kept = First(3, pool) =>
           \/ ToSet(pool) \subseteq ToSet(Chosen(kept))
           \/ Len(Chosen(kept)) >= Least(3, EvidencePerSubQuery)
  BY <1>3, ChosenIs
<1>5. FoundInv'
  BY <1>1, <1>2, <1>3 DEF FoundInv, Graded
<1>6. UngradedIsSaid'
  <2> SUFFICES ASSUME evidence' # <<>>
               PROVE  notes' \cap {"ungraded", "no_model"} # {} <=> ~(ToSet(evidence') \subseteq judged')
    BY DEF UngradedIsSaid
  <2>1. hits # <<>> /\ ToSet(Chosen(kept)) # {}
    <3>1. Chosen(kept) \in Seq(corpus) /\ Chosen(kept) # <<>> /\ hits # <<>>
      BY <1>1, <1>3, <1>4, ChosenIs
    <3>2. 1 \in DOMAIN Chosen(kept)
      BY <3>1
    <3> QED
      BY <3>1, <3>2 DEF ToSet
  <2>2. "ungraded" \in notes' <=> none
    BY <1>1, <2>1
  <2>3. "no_model" \notin notes'
    BY <1>1
  <2> QED
    BY <1>1, <1>4, <2>1, <2>2, <2>3
<1>7. FoundIsKept'
  <2>1. retrieved' = ToSet(pool) /\ judged' \in {{}, retrieved'} /\ ToSet(relevant') \subseteq retrieved'
    BY <1>2 DEF IInv, FoundInv
  <2>2. relevant' # <<>> => FilledFrom(ToSet(relevant), EvidencePerSubQuery)'
    BY <1>1, <1>4, BoundsAssumption DEF FilledFrom
  <2>3. corpus = {} => ToSet(pool) = {}
    BY DEF ToSet
  <2>4. ~none /\ judged' = {} => pool = <<>>
    <3>1. pool # <<>> => 1 \in DOMAIN pool
      BY <1>3 DEF TypeOK
    <3> QED
      BY <3>1 DEF ToSet
  <2>5. ASSUME relevant' = <<>> \/ judged' = {}
        PROVE  FilledFrom(retrieved, Least(3, EvidencePerSubQuery))'
    <3>1. kept = <<>> \/ kept = First(3, pool) \/ corpus = {}
      BY <2>4, <2>5
    <3>2. CASE corpus = {}
      BY <1>1, <1>4, <2>1, <2>3, <3>2 DEF FilledFrom
    <3>3. CASE kept = <<>> \/ kept = First(3, pool)
      BY <1>1, <1>4, <2>1, <3>3 DEF FilledFrom
    <3> QED
      BY <3>1, <3>2, <3>3
  <2> QED
    BY <1>1, <1>2, <1>4, <2>1, <2>2, <2>5 DEF FoundIsKept
<1> QED
  BY <1>5, <1>6, <1>7

-----------------------------------------------------------------------------
(***************************************************************************)
(* The steps of a search.                                                  *)
(***************************************************************************)
LEMMA SearchStep == IInv /\ (NoStore \/ EmbeddingRetried \/ SearchFails \/ SearchFinds) => IInv'
<1> SUFFICES ASSUME IInv, NoStore \/ EmbeddingRetried \/ SearchFails \/ SearchFinds PROVE IInv'
  OBVIOUS
<1>1. CASE NoStore
  BY <1>1, ReturnsNothing DEF NoStore
<1>2. CASE EmbeddingRetried
  <2>1. attempt' \in 1..MaxAttempts /\ at \in {"search", "search_again"}
    BY <1>2, BoundsAssumption DEF EmbeddingRetried, Searching, IInv, TypeOK
  <2>2. UNCHANGED <<deps, corpus, at, found, grading, rewrote, result>>
    BY <1>2 DEF EmbeddingRetried
  <2>3. TypeOK'
    BY <2>1, <2>2 DEF IInv, TypeOK, found, grading, result
  <2>4. FoundInv' /\ UngradedIsSaid' /\ FoundIsKept'
    BY <2>1, <2>2 DEF IInv, FoundInv, Graded, UngradedIsSaid, FoundIsKept, found, grading, result
  <2> QED
    BY <2>3, <2>4 DEF IInv
<1>3. CASE SearchFails
  <2>1. CASE at = "search"
    BY <1>3, <2>1, ReturnsNothing DEF SearchFails
  <2>2. CASE at # "search"
    <3>1. /\ at = "search_again" /\ at' = "grade_again"
          /\ UNCHANGED <<deps, corpus, attempt, found, grading, rewrote, result>>
      BY <1>3, <2>2 DEF SearchFails, Searching
    <3>2. TypeOK'
      BY <3>1 DEF IInv, TypeOK, found, grading, result, Places
    <3>3. FoundInv' /\ UngradedIsSaid' /\ FoundIsKept'
      BY <3>1 DEF IInv, FoundInv, Graded, UngradedIsSaid, FoundIsKept, found, grading, result
    <3> QED
      BY <3>2, <3>3 DEF IInv
  <2> QED
    BY <2>1, <2>2
<1>4. CASE SearchFinds
  <2>1. PICK ranking \in Rankings(HitCount) :
          /\ retrieved' = retrieved \cup ToSet(ranking)
          /\ IF at = "search"
             THEN /\ hits' = ranking /\ pool' = ranking
                  /\ IF deps.models
                     THEN at' = "grade" /\ UNCHANGED result
                     ELSE Returns(First(EvidencePerSubQuery, ranking), {"no_model"}, FALSE)
             ELSE /\ pool' = Merge(hits, ranking)
                  /\ at' = "grade_again"
                  /\ UNCHANGED <<hits, result>>
    BY <1>4 DEF SearchFinds
  <2>2. UNCHANGED <<deps, corpus, attempt, relevant, ungraded, judged, rewrote>>
    BY <1>4 DEF SearchFinds, grading
  <2>3. ranking \in Seq(corpus) /\ IsInjective(ranking) /\ (ranking = <<>> <=> corpus = {})
    BY RankingIs DEF IInv, TypeOK
  <2>4. ToSet(ranking) \subseteq corpus /\ retrieved' \subseteq corpus
    BY <2>1, <2>3 DEF ToSet, IInv, TypeOK
  <2>5. at = "search" => retrieved' = ToSet(ranking)
    BY <2>1 DEF IInv, FoundInv, ToSet
  <2>6. CASE at = "search" /\ deps.models
    <3>1. hits' = ranking /\ pool' = ranking /\ at' = "grade" /\ UNCHANGED <<evidence, notes, gap>>
      BY <2>1, <2>6 DEF result
    <3>2. TypeOK'
      BY <2>2, <2>3, <2>4, <3>1 DEF IInv, TypeOK, Places
    <3>3. FoundInv' /\ UngradedIsSaid' /\ FoundIsKept'
      BY <2>2, <2>3, <2>5, <2>6, <3>1 DEF IInv, FoundInv, Graded, UngradedIsSaid, FoundIsKept
    <3> QED
      BY <3>2, <3>3 DEF IInv
  <2>7. CASE at = "search" /\ ~deps.models
    <3> DEFINE some == First(EvidencePerSubQuery, ranking)
    <3>1. hits' = ranking /\ pool' = ranking /\ at' = "END" /\ evidence' = some
          /\ notes' = {"no_model"} /\ gap' = FALSE
      BY <2>1, <2>7 DEF Returns
    <3>2. /\ some \in Seq(corpus) /\ IsInjective(some) /\ Len(some) <= EvidencePerSubQuery
          /\ some = <<>> <=> corpus = {}
          /\ ToSet(some) \subseteq ToSet(ranking)
          /\ ToSet(ranking) \subseteq ToSet(some) \/ Len(some) = EvidencePerSubQuery
      BY <2>3, FirstIs, BoundsAssumption
    <3> HIDE DEF some
    <3>3. TypeOK'
      BY <2>2, <2>3, <2>4, <3>1, <3>2 DEF IInv, TypeOK, Places, Notes
    <3>4. FoundInv'
      BY <2>2, <2>3, <2>5, <2>7, <3>1 DEF IInv, FoundInv, Graded
    <3>5. relevant' = <<>> /\ judged' = {}
      BY <2>2, <2>7 DEF IInv, FoundInv
    <3>6. some # <<>> => ToSet(some) # {}
      <4>1. some # <<>> => 1 \in DOMAIN some
        BY <3>2
      <4> QED
        BY <4>1 DEF ToSet
    <3>7. UngradedIsSaid'
      BY <3>1, <3>5, <3>6 DEF UngradedIsSaid
    <3>8. FoundIsKept'
      <4>1. ToSet(relevant') = {}
        BY <3>5 DEF ToSet
      <4>2. EvidencePerSubQuery >= Least(3, EvidencePerSubQuery)
        BY BoundsAssumption DEF Least
      <4>3. FilledFrom(retrieved, Least(3, EvidencePerSubQuery))'
        BY <2>5, <2>7, <3>1, <3>2, <4>2 DEF FilledFrom
      <4> QED
        BY <2>2, <3>1, <3>2, <3>5, <4>1, <4>3 DEF FoundIsKept
    <3> QED
      BY <3>3, <3>4, <3>7, <3>8 DEF IInv
  <2>8. CASE at # "search"
    <3>1. at = "search_again"
      BY <1>4, <2>8 DEF SearchFinds, Searching
    <3> DEFINE both == Merge(hits, ranking)
    <3>2. pool' = both /\ at' = "grade_again" /\ UNCHANGED <<hits, evidence, notes, gap>>
      BY <2>1, <2>8 DEF result
    <3>3. /\ both \in Seq(corpus) /\ IsInjective(both) /\ (hits # <<>> => both # <<>>)
          /\ ToSet(both) = ToSet(hits) \cup ToSet(ranking)
      BY <2>3, MergeIs DEF IInv, TypeOK, FoundInv
    <3>4. hits = <<>> <=> corpus = {}
      BY <3>1 DEF IInv, FoundInv, Graded
    <3> HIDE DEF both
    <3>5. corpus = {} => both = <<>>
      BY <3>3
    <3>6. retrieved' = ToSet(both)
      BY <2>1, <3>1, <3>3 DEF IInv, FoundInv
    <3>7. TypeOK'
      BY <2>2, <2>4, <3>2, <3>3 DEF IInv, TypeOK, Places
    <3>8. FoundInv' /\ UngradedIsSaid' /\ FoundIsKept'
      BY <2>2, <3>1, <3>2, <3>3, <3>4, <3>5, <3>6 DEF IInv, FoundInv, Graded, UngradedIsSaid, FoundIsKept
    <3> QED
      BY <3>7, <3>8 DEF IInv
  <2> QED
    BY <2>6, <2>7, <2>8
<1> QED
  BY <1>1, <1>2, <1>3, <1>4

-----------------------------------------------------------------------------
(***************************************************************************)
(* The steps of a grade.                                                   *)
(***************************************************************************)

\* What each grade may keep, and of what; without a model's judgement none is true.
LEMMA GradesKeeps ==
  ASSUME IInv, Grading, NEW kept \in Seq(corpus), NEW about \in SUBSET corpus,
         NEW sufficient \in BOOLEAN, NEW none \in BOOLEAN, Grades(kept, about, sufficient, none),
         IsInjective(kept), ToSet(kept) \subseteq ToSet(pool),
         ~none => about = ToSet(pool),
         none => about = {} /\ ((sufficient /\ kept = First(3, pool)) \/ corpus = {})
  PROVE  IInv'
<1>1. /\ relevant' = kept /\ judged' = about /\ ungraded' = (ungraded \/ none)
      /\ UNCHANGED <<deps, corpus, attempt, found, rewrote>>
  BY DEF Grades
<1>2. at \in {"grade", "grade_again"} /\ UNCHANGED <<hits, pool, retrieved>>
  BY <1>1 DEF Grading, found
<1>3. (hits = <<>> <=> corpus = {}) /\ (pool = <<>> <=> corpus = {})
  BY <1>2 DEF IInv, FoundInv, Graded
<1>4. ungraded' \in BOOLEAN /\ ungraded \in BOOLEAN
  BY <1>1 DEF IInv, TypeOK
<1>5. ungraded => corpus = {}
  BY <1>2, <1>3 DEF IInv, FoundInv, Graded
<1>6. corpus = {} => about = {} /\ ToSet(pool) = {}
  BY <1>3 DEF ToSet
<1>7. CASE at = "grade" /\ ~sufficient /\ MaxQueryRewrites > 0
  <2>1. at' = "rewrite" /\ UNCHANGED <<evidence, notes, gap>>
    BY <1>7 DEF Grades, result
  <2>2. TypeOK'
    BY <1>1, <1>2, <1>4, <2>1 DEF IInv, TypeOK, Places
  <2>3. FoundInv'
    BY <1>1, <1>2, <1>3, <1>5, <1>6, <1>7, <2>1 DEF IInv, FoundInv, Graded
  <2> QED
    BY <2>1, <2>2, <2>3 DEF IInv, UngradedIsSaid, FoundIsKept
<1>8. CASE ~(at = "grade" /\ ~sufficient /\ MaxQueryRewrites > 0)
  <2>1. Concludes(kept, ungraded')
    BY <1>8 DEF Grades
  <2>2. TypeOK'
    <3>1. Chosen(kept) \in Seq(corpus)
      BY ChosenIs DEF IInv, FoundInv
    <3>2. at' = "END" /\ evidence' = Chosen(kept) /\ gap' = FALSE /\ notes' \subseteq {"rewritten", "ungraded"}
      BY <2>1 DEF Concludes, Returns
    <3> QED
      BY <1>1, <1>2, <1>4, <3>1, <3>2 DEF IInv, TypeOK, Places, Notes
  <2>3. /\ ~ungraded' => judged' = ToSet(pool)
        /\ ungraded' => judged' = {} /\ (kept = First(3, pool) \/ corpus = {})
    BY <1>1, <1>4, <1>5, <1>6
  <2> QED
    BY <1>1, <1>3, <1>4, <2>1, <2>2, <2>3, ConcludesKeeps DEF IInv
<1> QED
  BY <1>7, <1>8

LEMMA GradeStep == IInv /\ (GradesNothing \/ GradeAnswers \/ GradeUnavailable) => IInv'
<1> SUFFICES ASSUME IInv, GradesNothing \/ GradeAnswers \/ GradeUnavailable PROVE IInv'
  OBVIOUS
<1>1. Grading /\ pool \in Seq(corpus) /\ IsInjective(pool)
  BY DEF GradesNothing, GradeAnswers, GradeUnavailable, IInv, TypeOK, FoundInv
<1>2. pool = <<>> <=> corpus = {}
  BY <1>1 DEF Grading, IInv, FoundInv, Graded
<1>3. ToSet(pool) \subseteq corpus
  BY <1>1 DEF ToSet
<1>4. CASE GradesNothing
  <2>1. <<>> \in Seq(corpus) /\ IsInjective(<<>>) /\ ToSet(<<>>) = {}
    BY DEF IsInjective, ToSet
  <2>2. Grades(<<>>, {}, FALSE, TRUE) /\ corpus = {}
    BY <1>2, <1>4 DEF GradesNothing
  <2> QED
    BY <1>1, <2>1, <2>2, GradesKeeps
<1>5. CASE GradeAnswers
  <2>1. PICK wanted \in SUBSET corpus, sufficient \in BOOLEAN :
          Grades(Only(wanted, pool), ToSet(pool), sufficient, FALSE)
    BY <1>5 DEF GradeAnswers
  <2>2. /\ Only(wanted, pool) \in Seq(corpus) /\ IsInjective(Only(wanted, pool))
        /\ ToSet(Only(wanted, pool)) \subseteq ToSet(pool)
    BY <1>1, OnlyIs
  <2> QED
    BY <1>1, <1>3, <2>1, <2>2, GradesKeeps
<1>6. CASE GradeUnavailable
  <2>1. /\ First(3, pool) \in Seq(corpus) /\ IsInjective(First(3, pool))
        /\ ToSet(First(3, pool)) \subseteq ToSet(pool)
    BY <1>1, FirstIs
  <2>2. Grades(First(3, pool), {}, TRUE, TRUE)
    BY <1>6 DEF GradeUnavailable
  <2> QED
    BY <1>1, <2>1, <2>2, GradesKeeps
<1> QED
  BY <1>4, <1>5, <1>6

LEMMA RewriteStep == IInv /\ (RewriteAnswers \/ RewriteInVain \/ Raises \/ UNCHANGED vars) => IInv'
<1> SUFFICES ASSUME IInv, RewriteAnswers \/ RewriteInVain \/ Raises \/ UNCHANGED vars PROVE IInv'
  OBVIOUS
<1>1. CASE RewriteAnswers
  <2>1. /\ at = "rewrite" /\ at' = "search_again" /\ attempt' = 1 /\ rewrote' = TRUE
        /\ UNCHANGED <<deps, corpus, found, grading, result>>
    BY <1>1 DEF RewriteAnswers
  <2>2. TypeOK'
    BY <2>1, BoundsAssumption DEF IInv, TypeOK, found, grading, result, Places
  <2>3. FoundInv' /\ UngradedIsSaid' /\ FoundIsKept'
    BY <2>1 DEF IInv, FoundInv, Graded, UngradedIsSaid, FoundIsKept, found, grading, result
  <2> QED
    BY <2>2, <2>3 DEF IInv
<1>2. CASE RewriteInVain
  <2>1. /\ at = "rewrite" /\ Concludes(relevant, ungraded)
        /\ UNCHANGED <<deps, corpus, attempt, found, relevant, ungraded, judged, rewrote>>
    BY <1>2 DEF RewriteInVain, grading
  <2>2. /\ relevant \in Seq(corpus) /\ IsInjective(relevant) /\ ToSet(relevant) \subseteq ToSet(pool)
        /\ ungraded \in BOOLEAN /\ judged \subseteq corpus
        /\ hits = <<>> <=> corpus = {}
        /\ pool = <<>> <=> corpus = {}
        /\ ungraded => corpus = {}
        /\ ungraded \/ judged = ToSet(pool)
    BY <2>1 DEF IInv, TypeOK, FoundInv, Graded
  <2>3. TypeOK'
    <3>1. Chosen(relevant) \in Seq(corpus)
      BY <2>2, ChosenIs DEF IInv, FoundInv
    <3>2. at' = "END" /\ evidence' = Chosen(relevant) /\ gap' = FALSE /\ notes' \subseteq {"rewritten", "ungraded"}
      BY <2>1 DEF Concludes, Returns
    <3> QED
      BY <2>1, <3>1, <3>2 DEF IInv, TypeOK, found, Places, Notes
  <2>4. /\ ~ungraded => judged' = ToSet(pool)
        /\ ungraded => judged' = {} /\ corpus = {}
    BY <2>1, <2>2
  <2> QED
    BY <2>1, <2>2, <2>3, <2>4, ConcludesKeeps DEF IInv
<1>3. CASE Raises
  <2>1. at' = "raised" /\ UNCHANGED <<deps, corpus, attempt, found, grading, rewrote, result>>
    BY <1>3 DEF Raises
  <2>2. TypeOK'
    BY <2>1 DEF IInv, TypeOK, found, grading, result, Places
  <2>3. FoundInv' /\ UngradedIsSaid' /\ FoundIsKept'
    BY <2>1 DEF IInv, FoundInv, Graded, UngradedIsSaid, FoundIsKept, found, grading, result
  <2> QED
    BY <2>2, <2>3 DEF IInv
<1>4. CASE UNCHANGED vars
  <2>1. UNCHANGED <<deps, corpus, at, attempt, found, grading, rewrote, result>>
    BY <1>4 DEF vars
  <2>2. TypeOK'
    BY <2>1 DEF IInv, TypeOK, found, grading, result
  <2>3. FoundInv' /\ UngradedIsSaid'
    BY <2>1 DEF IInv, FoundInv, Graded, UngradedIsSaid, found, grading, result
  <2>4. FoundIsKept'
    BY <2>1 DEF IInv, FoundIsKept, FilledFrom, found, grading, result
  <2> QED
    BY <2>2, <2>3, <2>4 DEF IInv
<1> QED
  BY <1>1, <1>2, <1>3, <1>4

LEMMA Invariant == Spec => []IInv
<1>1. IInv /\ [Next]_vars => IInv'
  BY SearchStep, GradeStep, RewriteStep DEF Next, Ended
<1> QED
  BY InitIInv, <1>1, PTL DEF Spec

-----------------------------------------------------------------------------
(***************************************************************************)
(* The theorems.                                                           *)
(***************************************************************************)

\* For every corpus and every limit, the state of a branch has its types: it never
\* attempts an embedding once too often, and every passage is one of the corpus
\* (retrieve_documents.py:40-126, embeddings.py:106-138).
THEOREM TypeCorrect == Spec => []TypeOK
<1>1. IInv => TypeOK
  BY DEF IInv
<1> QED
  BY Invariant, <1>1, PTL

\* For every corpus, ranking and grade: passages are said to be ungraded exactly when
\* the grade that decided did not judge them (retrieve_documents.py:63-77, :128-148).
THEOREM NothingPassesAsGraded == Spec => []UngradedIsSaid
<1>1. IInv => UngradedIsSaid
  BY DEF IInv
<1> QED
  BY Invariant, <1>1, PTL

\* For every corpus and every limit: a grade that decided was asked about all that
\* both searches found; what it kept is returned, each passage once, up to
\* evidence_per_sub_query; and if it kept none, or no grade decided, at least the top
\* three of what was found (retrieve_documents.py:57-78, :114-126, :134-155).
THEOREM WhatIsKeptIsReturned == Spec => []FoundIsKept
<1>1. IInv => FoundIsKept
  BY DEF IInv
<1> QED
  BY Invariant, <1>1, PTL
=============================================================================
