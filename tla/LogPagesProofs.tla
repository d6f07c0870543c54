--------------------------- MODULE LogPagesProofs ---------------------------
(* Reading by pages skips no entry, for any number of entries, any order and *)
(* any page size.                                                            *)
EXTENDS LogPages, FiniteSetTheorems, TLAPS

\* A subset of a finite set is finite and no larger, and smaller if it is not all.
LEMMA Part ==
    ASSUME NEW S, IsFiniteSet(S), NEW T \in SUBSET S
    PROVE  /\ IsFiniteSet(T)
           /\ Cardinality(S) \in Nat /\ Cardinality(T) \in Nat
           /\ Cardinality(T) <= Cardinality(S)
           /\ T # S => Cardinality(T) < Cardinality(S)
BY FS_Subset, FS_CardinalityType

\* A page that begins not behind an entry and does not show it is full, and the
\* next page does not begin behind it either.
LEMMA PageRank ==
    ASSUME DistinctKeys, stored \subseteq Entry, IsFiniteSet(stored),
           NEW k \in Nat, NEW P \in Results(stored, k),
           NEW e \in stored \ P, Cardinality(Ahead(e)) >= k
    PROVE  /\ Cardinality(P) = Count
           /\ Cardinality(Ahead(e)) >= k + Count
<1>1. Count \in Nat \ {0} /\ Key \in [Entry -> Nat]
  BY LogPagesAssumption DEF LogPagesAssumption
<1>2. PICK F \in SUBSET (stored \ P) :
         /\ Prefix(F, stored) /\ Prefix(F \cup P, stored)
         /\ Cardinality(F) = Smaller(k, Cardinality(stored))
         /\ Cardinality(F \cup P) = Smaller(k + Count, Cardinality(stored))
  BY DEF Results
<1>3. P \subseteq stored /\ F \cap P = {}
  BY <1>2 DEF Results
<1>4. Ahead(e) \subseteq stored /\ e \notin Ahead(e)
  BY <1>1 DEF Ahead, Before
<1>5. e \notin F
  <2> SUFFICES ASSUME e \in F PROVE FALSE
    OBVIOUS
  <2>1. Ahead(e) \subseteq F
    BY <1>2 DEF Ahead, Prefix
  <2>2. IsFiniteSet(F) /\ Cardinality(F) \in Nat /\ Cardinality(stored) \in Nat
    BY <1>2, Part
  <2>3. Cardinality(Ahead(e)) < Cardinality(F)
    BY <2>1, <2>2, <1>4, Part
  <2>4. Cardinality(F) <= k
    BY <1>2, <2>2 DEF Smaller
  <2>5. Cardinality(Ahead(e)) \in Nat
    BY <2>1, <2>2, Part
  <2> QED
    BY <2>2, <2>3, <2>4, <2>5
<1>6. F \cup P \subseteq Ahead(e)
  <2> SUFFICES ASSUME NEW g \in F \cup P PROVE g \in Ahead(e)
    OBVIOUS
  <2>1. g \in stored /\ g # e /\ ~Before(e, g)
    BY <1>2, <1>3, <1>5 DEF Prefix
  <2>2. Key[g] # Key[e] /\ Key[g] \in Nat /\ Key[e] \in Nat
    BY <1>1, <2>1 DEF DistinctKeys
  <2> QED
    BY <2>1, <2>2 DEF Ahead, Before
<1>7. /\ Cardinality(F \cup P) < Cardinality(stored)
      /\ Cardinality(F \cup P) <= Cardinality(Ahead(e))
      /\ Cardinality(F \cup P) \in Nat /\ Cardinality(stored) \in Nat
      /\ Cardinality(Ahead(e)) \in Nat
  <2>1. F \cup P \subseteq stored /\ F \cup P # stored
    BY <1>3, <1>5
  <2>2. IsFiniteSet(Ahead(e))
    BY <1>4, Part
  <2> QED
    BY <2>1, <2>2, <1>4, <1>6, Part
<1>8. Cardinality(F \cup P) = k + Count /\ Cardinality(F) = k
  BY <1>1, <1>2, <1>7 DEF Smaller
<1>9. Cardinality(F \cup P) = Cardinality(F) + Cardinality(P)
  <2>1. IsFiniteSet(F) /\ IsFiniteSet(P) /\ Cardinality(F) \in Nat /\ Cardinality(P) \in Nat
    BY <1>2, <1>3, Part
  <2>2. Cardinality(F \cup P) = Cardinality(F) + Cardinality(P) - Cardinality(F \cap P)
    BY <2>1, FS_Union
  <2>3. Cardinality(F \cap P) = 0
    <3>1. Cardinality({}) = 0
      BY FS_EmptySet
    <3> QED
      BY <3>1, <1>3
  <2> QED
    BY <2>1, <2>2, <2>3
<1>10. Cardinality(P) \in Nat
  BY <1>3, Part
<1> QED
  BY <1>1, <1>7, <1>8, <1>9, <1>10

-----------------------------------------------------------------------------

LEMMA InitInv == Init => Inv
<1> SUFFICES ASSUME Init PROVE Inv
  OBVIOUS
<1>1. IsFiniteSet({})
  BY FS_EmptySet
<1> QED
  BY <1>1 DEF Init, Inv, TypeOK, StillToCome, NothingSkipped

\* An entry that arrives makes nobody come earlier.
LEMMA StoreStep ==
    ASSUME Inv, NEW x \in Entry, Store(x)
    PROVE  Inv'
<1> USE DEF Inv
<1>1. TypeOK'
  <2>1. IsFiniteSet(stored')
    BY FS_AddElement DEF TypeOK, Store
  <2> QED
    BY <2>1 DEF TypeOK, Store
<1>2. StillToCome'
  <2> SUFFICES ASSUME DistinctKeys, NEW e \in wanted \ shown
               PROVE  ~atEnd /\ Cardinality(Ahead(e)') >= Count * page
    BY DEF StillToCome, Store, DistinctKeys
  <2>1. ~atEnd /\ Cardinality(Ahead(e)) >= Count * page
    BY DEF StillToCome
  <2>2. Ahead(e) \subseteq Ahead(e)' /\ Ahead(e)' \subseteq stored'
    BY DEF Ahead, Store
  <2>3. IsFiniteSet(Ahead(e)')
    BY <1>1, <2>2, Part DEF TypeOK
  <2>4. /\ Cardinality(Ahead(e)) \in Nat /\ Cardinality(Ahead(e)') \in Nat
        /\ Cardinality(Ahead(e)) <= Cardinality(Ahead(e)')
    BY <2>2, <2>3, Part
  <2>5. Count * page \in Nat
    BY LogPagesAssumption DEF LogPagesAssumption, TypeOK
  <2> QED
    BY <2>1, <2>4, <2>5
<1>3. NothingSkipped'
  BY DEF NothingSkipped, Store, DistinctKeys
<1> QED
  BY <1>1, <1>2, <1>3

LEMMA FirstStep ==
    ASSUME Inv, NEW P \in SUBSET stored, FirstPage(P)
    PROVE  Inv'
<1> USE DEF Inv
<1>1. TypeOK'
  BY DEF TypeOK, FirstPage
<1>2. Count \in Nat \ {0}
  BY LogPagesAssumption DEF LogPagesAssumption
<1>3. StillToCome'
  <2> SUFFICES ASSUME DistinctKeys, NEW e \in stored \ P
               PROVE  ~atEnd' /\ Cardinality(Ahead(e)) >= Count
    BY <1>2 DEF StillToCome, FirstPage, Ahead, DistinctKeys
  <2>1. Cardinality(Ahead(e)) \in Nat
    <3>1. Ahead(e) \subseteq stored
      BY DEF Ahead
    <3> QED
      BY <3>1, Part DEF TypeOK
  <2>2. Cardinality(P) = Count /\ Cardinality(Ahead(e)) >= 0 + Count
    BY <2>1, PageRank DEF TypeOK, FirstPage
  <2>3. ~(Cardinality(P) < Count)
    BY <1>2, <2>2
  <2>4. ~atEnd'
    BY <2>3, Zenon DEF FirstPage
  <2> QED
    BY <1>2, <2>2, <2>4
<1>4. NothingSkipped'
  BY <1>3 DEF StillToCome, NothingSkipped
<1> QED
  BY <1>1, <1>3, <1>4

LEMMA NextStep ==
    ASSUME Inv, NEW P \in SUBSET stored, NextPage(P)
    PROVE  Inv'
<1> USE DEF Inv
<1>1. TypeOK'
  BY DEF TypeOK, NextPage
<1>2. Count \in Nat \ {0} /\ page \in Nat /\ Count * page \in Nat
  BY LogPagesAssumption DEF LogPagesAssumption, TypeOK
<1>3. StillToCome'
  <2> SUFFICES ASSUME DistinctKeys, NEW e \in wanted \ (shown \cup P)
               PROVE  ~atEnd' /\ Cardinality(Ahead(e)) >= Count * (page + 1)
    BY DEF StillToCome, NextPage, Ahead, DistinctKeys
  <2>1. Cardinality(Ahead(e)) >= Count * page
    BY DEF StillToCome
  <2>2. Cardinality(P) = Count /\ Cardinality(Ahead(e)) >= Count * page + Count
    BY <1>2, <2>1, PageRank DEF TypeOK, NextPage
  <2>3. Count * (page + 1) = Count * page + Count
    BY <1>2
  <2>4. ~(Cardinality(P) < Count)
    BY <1>2, <2>2
  <2>5. ~atEnd'
    BY <2>4, Zenon DEF NextPage
  <2> QED
    BY <2>2, <2>3, <2>5
<1>4. NothingSkipped'
  BY <1>3 DEF StillToCome, NothingSkipped
<1> QED
  BY <1>1, <1>3, <1>4

\* The inductive invariant: what has not been shown is still to come.
THEOREM PagesInvariance == Spec => []Inv
<1>1. Inv /\ [Next]_vars => Inv'
  <2> SUFFICES ASSUME Inv, [Next]_vars PROVE Inv'
    OBVIOUS
  <2>1. CASE \E e \in Entry : Store(e)
    BY <2>1, StoreStep
  <2>2. CASE \E P \in SUBSET stored : FirstPage(P) \/ NextPage(P)
    BY <2>2, FirstStep, NextStep
  <2>3. CASE UNCHANGED vars
    BY <2>3 DEF vars, Inv, TypeOK, StillToCome, NothingSkipped, Ahead, DistinctKeys
  <2> QED
    BY <2>1, <2>2, <2>3 DEF Next
<1> QED
  BY InitInv, <1>1, PTL DEF Spec

\* A reader who has reached the end has been shown all that was there at the
\* beginning, however many entries have arrived meanwhile and wherever they sort.
THEOREM PagesComplete == Spec => []NothingSkipped
<1>1. Inv => NothingSkipped
  BY DEF Inv
<1> QED
  BY PagesInvariance, <1>1, PTL

=============================================================================
