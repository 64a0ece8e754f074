----------------------------- MODULE PartsProofs -----------------------------
(***************************************************************************)
(* Three of the parts a session is made from.  For ports whose formats are *)
(* known, unify() returns the greatest common specification, for every set *)
(* of dimensions, sizes and layouts.  The candidates of every stage are    *)
(* those of the libraries that count, in the order of their rank, however  *)
(* the directories are listed, for any libraries, search path, models and  *)
(* requests.  The range coder is lossless, for all widths, tables, indices *)
(* and values that RangeCoder.tla assumes, and for streams of any length.  *)
(*                                                                         *)
(* The argument for the coder goes from the inside to the outside.  The    *)
(* reciprocals divide exactly (ReciprocalDivides); what renormalisation    *)
(* writes is what the refill reads (RenormReturns); so a symbol and a raw  *)
(* digit come back and leave the state that the encoder had                *)
(* (SymbolReturns, DigitReturns), and then an escape (BypassReturns), a    *)
(* value (ValueReturns) and the state itself after flush and open          *)
(* (StateReturns).  The invariant RcInv says that the decoder goes back    *)
(* along the states of the encoder.                                        *)
(***************************************************************************)
EXTENDS Negotiation, Context, RangeCoder, FiniteSetTheorems, SequenceTheorems, WellFoundedInduction, TLAPS

-----------------------------------------------------------------------------
(* Negotiation.                                                            *)

(* unify() of two known formats (spec.cpp:96-119) keeps what both sides    *)
(* ask for and nothing else.                                               *)
LEMMA UnifiedAdmitsBoth ==
  ASSUME NEW a \in SpecType, NEW b \in SpecType, NEW s \in SpecType,
         Known(a), Known(b), Unifies(a, b)
  PROVE  Fits(s, Unified(a, b)) <=> Fits(s, a) /\ Fits(s, b)
<1> DEFINE u == Unified(a, b)
<1>1. u = [a EXCEPT !.dims =
             [d \in Dimensions |-> MergeDim(a.dims[d], b.dims[d])]]
  BY DEF Unified
<1>2. /\ a \in [fmt : Formats, domain : Domains, modifier : Modifiers,
                dims : [Dimensions -> Sizes]]
      /\ b \in [fmt : Formats, domain : Domains, modifier : Modifiers,
                dims : [Dimensions -> Sizes]]
  BY DEF SpecType
<1>3. /\ u.fmt = a.fmt /\ u.domain = a.domain /\ u.modifier = a.modifier
      /\ u.dims = [d \in Dimensions |-> MergeDim(a.dims[d], b.dims[d])]
  BY <1>1, <1>2
<1>4. a.fmt = b.fmt /\ a.domain = b.domain /\ a.modifier = b.modifier
  BY DEF Unifies
<1>5. \A d \in Dimensions :
        a.dims[d] = 0 \/ b.dims[d] = 0 \/ a.dims[d] = b.dims[d]
  BY DEF Unifies, DimsAgree
<1>6. \A d \in Dimensions :
        (u.dims[d] # 0 => s.dims[d] = u.dims[d])
          <=> /\ a.dims[d] # 0 => s.dims[d] = a.dims[d]
              /\ b.dims[d] # 0 => s.dims[d] = b.dims[d]
  BY <1>3, <1>5 DEF MergeDim
<1>7. Known(u)
  BY <1>3 DEF Known
<1> QED
  BY <1>3, <1>4, <1>6, <1>7 DEF Fits

(* When unify() of two known formats fails, no frame satisfies both ports. *)
LEMMA RefusalIsConflict ==
  ASSUME NEW a \in SpecType, NEW b \in SpecType, NEW s \in SpecType,
         Known(a), Known(b), ~Unifies(a, b)
  PROVE  ~(Fits(s, a) /\ Fits(s, b))
  BY DEF Unifies, DimsAgree, Fits

(* What holds of an edge at every moment, for ports of known formats.      *)
Settled ==
  /\ producer \in SpecType /\ consumer \in SpecType
  /\ result \in {"Open", "Ok", "Negotiate"}
  /\ result = "Ok" => /\ Unifies(producer, consumer)
                      /\ resolved = << Unified(producer, consumer),
                                       Unified(producer, consumer) >>
  /\ result = "Negotiate" => ~Unifies(producer, consumer)

(* An edge is settled by the verdict of unify() and by nothing else.       *)
LEMMA SettledInvariant == Spec => []Settled
<1>1. Init => Settled
  BY DEF Init, Settled
<1>2. Settled /\ [Next]_vars => Settled'
  BY DEF Settled, Next, Agree, Refuse, vars
<1> QED
  BY <1>1, <1>2, PTL DEF Spec

(* A negotiated edge admits exactly the frames that satisfy both ports     *)
(* (spec.hpp:47, "Field-level wildcard merge"), if no format is unknown.   *)
THEOREM AgreementAdmitsBoth ==
  ASSUME "Unknown" \notin Formats
  PROVE  Spec => []MergeAdmitsBoth
<1>1. \A s \in SpecType : Known(s)
  BY DEF SpecType, Known
<1>2. Settled => MergeAdmitsBoth
  <2>1. SUFFICES ASSUME Settled, result = "Ok", NEW s \in SpecType
                 PROVE  /\ Fits(s, resolved[1])
                             <=> Fits(s, producer) /\ Fits(s, consumer)
                        /\ Fits(s, resolved[2])
                             <=> Fits(s, producer) /\ Fits(s, consumer)
    BY DEF MergeAdmitsBoth
  <2>2. /\ resolved[1] = Unified(producer, consumer)
        /\ resolved[2] = Unified(producer, consumer)
    BY <2>1 DEF Settled
  <2>3. /\ producer \in SpecType /\ consumer \in SpecType
        /\ Unifies(producer, consumer)
    BY <2>1 DEF Settled
  <2>4. Known(producer) /\ Known(consumer)
    BY <1>1, <2>3
  <2>5. Fits(s, Unified(producer, consumer))
          <=> Fits(s, producer) /\ Fits(s, consumer)
    BY <2>3, <2>4, UnifiedAdmitsBoth
  <2> QED
    BY <2>2, <2>5
<1> QED
  BY <1>2, SettledInvariant, PTL

(* An edge is refused only on a conflict (spec.hpp:47, "conflict yields    *)
(* Negotiate"): here without any assumption, as an unknown format never    *)
(* leads to a refusal.                                                     *)
THEOREM RefusalOnConflictOnly == Spec => []RefusedOnConflict
<1>1. Settled => RefusedOnConflict
  <2>1. SUFFICES ASSUME Settled, result = "Negotiate", NEW s \in SpecType
                 PROVE  ~(Fits(s, producer) /\ Fits(s, consumer))
    BY DEF RefusedOnConflict
  <2>2. /\ producer \in SpecType /\ consumer \in SpecType
        /\ ~Unifies(producer, consumer)
    BY <2>1 DEF Settled
  <2>3. Known(producer) /\ Known(consumer)
    BY <2>2 DEF Unifies
  <2> QED
    BY <2>2, <2>3, RefusalIsConflict
<1> QED
  BY <1>1, SettledInvariant, PTL

-----------------------------------------------------------------------------
(* The registry and its plug-ins.                                          *)

(* A set of numbers has a least one.                                       *)
LEMMA LeastNumber ==
  ASSUME NEW T, T \subseteq Nat, T # {}
  PROVE  \E m \in T : \A k \in T : m <= k
<1> DEFINE less == {p \in Nat \X Nat : p[1] < p[2]}
<1>1. IsWellFoundedOn(less, Nat)
  BY NatLessThanWellFounded DEF OpToRel
<1> HIDE DEF less
<1>2. PICK m \in T : \A k \in T : ~(<< k, m >> \in less)
  BY <1>1, WFMin
<1>3. ASSUME NEW k \in T PROVE m <= k
  <2>1. ~(<< k, m >> \in less) /\ m \in Nat /\ k \in Nat
    BY <1>2
  <2> QED
    BY <2>1 DEF less
<1> QED
  BY <1>3

-----------------------------------------------------------------------------
(* Sorting.  In a finite set under a strict total order every place n is   *)
(* taken by one member, the one that has n - 1 others before it.           *)

StrictOrder(S, before) ==
  /\ before \in [S -> SUBSET S]
  /\ \A k \in S : k \notin before[k]
  /\ \A j, k \in S : j \in before[k] => before[j] \subseteq before[k]
  /\ \A j, k \in S : j # k => j \in before[k] \/ k \in before[j]

(* What comes before has less before it.                                   *)
LEMMA FewerBefore ==
  ASSUME NEW S, IsFiniteSet(S), NEW before, StrictOrder(S, before),
         NEW j \in S, NEW k \in S, j \in before[k]
  PROVE  /\ Cardinality(before[j]) \in Nat /\ Cardinality(before[k]) \in Nat
         /\ Cardinality(before[j]) < Cardinality(before[k])
<1>1. /\ before[j] \in SUBSET before[k] /\ before[k] \in SUBSET S
      /\ j \notin before[j]
  BY DEF StrictOrder
<1>2. IsFiniteSet(before[k])
  BY <1>1, FS_Subset
<1>3. /\ Cardinality(before[j]) <= Cardinality(before[k])
      /\ Cardinality(before[j]) = Cardinality(before[k]) => before[j] = before[k]
      /\ IsFiniteSet(before[j])
  BY <1>1, <1>2, FS_Subset
<1>4. Cardinality(before[j]) \in Nat /\ Cardinality(before[k]) \in Nat
  BY <1>2, <1>3, FS_CardinalityType
<1>5. before[j] # before[k]
  BY <1>1
<1> QED
  BY <1>3, <1>4, <1>5

LEMMA SortedFacts ==
  ASSUME NEW S, IsFiniteSet(S), NEW before, StrictOrder(S, before)
  PROVE  /\ Cardinality(S) \in Nat
         /\ Sorted(S, before) \in [1 .. Cardinality(S) -> S]
         /\ \A k \in S : \E n \in 1 .. Cardinality(S) : Sorted(S, before)[n] = k
         /\ \A m, n \in 1 .. Cardinality(S) :
              m < n => Sorted(S, before)[m] \in before[Sorted(S, before)[n]]
<1> DEFINE place == [k \in S |-> Cardinality(before[k]) + 1]
           size  == Cardinality(S)
<1>1. size \in Nat
  BY FS_CardinalityType
<1>2. ASSUME NEW k \in S
      PROVE  Cardinality(before[k]) \in Nat /\ Cardinality(before[k]) < size
  <2>1. before[k] \in SUBSET S /\ before[k] # S
    BY DEF StrictOrder
  <2>2. /\ Cardinality(before[k]) <= size /\ IsFiniteSet(before[k])
        /\ size = Cardinality(before[k]) => S = before[k]
    BY <2>1, FS_Subset
  <2>3. Cardinality(before[k]) \in Nat
    BY <2>2, FS_CardinalityType
  <2> QED
    BY <1>1, <2>1, <2>2, <2>3
<1>3. place \in [S -> 1 .. size]
  <2>1. ASSUME NEW k \in S PROVE place[k] \in 1 .. size
    <3>1. \A a, b \in Nat : a < b => a + 1 \in 1 .. b
      OBVIOUS
    <3> QED
      BY <1>1, <1>2, <3>1
  <2> QED
    BY <2>1
<1>4. ASSUME NEW j \in S, NEW k \in S, j # k
      PROVE  Cardinality(before[j]) # Cardinality(before[k])
  <2>1. j \in before[k] \/ k \in before[j]
    BY <1>4 DEF StrictOrder
  <2>2. CASE j \in before[k]
    BY <2>2, FewerBefore
  <2>3. CASE k \in before[j]
    BY <2>3, FewerBefore
  <2> QED
    BY <2>1, <2>2, <2>3
<1>5. \A j, k \in S : place[j] = place[k] => j = k
  <2>1. \A a, b \in Nat : a + 1 = b + 1 => a = b
    OBVIOUS
  <2>2. ASSUME NEW j \in S, NEW k \in S, place[j] = place[k], j # k PROVE FALSE
    <3>1. Cardinality(before[j]) \in Nat /\ Cardinality(before[k]) \in Nat
      BY <1>2
    <3> QED
      BY <1>4, <2>1, <2>2, <3>1
  <2> QED
    BY <2>2
<1>6. \A n \in 1 .. size : \E k \in S : place[k] = n
  <2>1. IsFiniteSet(1 .. size) /\ Cardinality(1 .. size) = size
    BY <1>1, FS_Interval
  <2>2. place \in Injection(S, 1 .. size)
    BY <1>3, <1>5 DEF Injection, IsInjective
  <2>3. place \in Surjection(S, 1 .. size)
    BY <2>1, <2>2, FS_Injection
  <2> QED
    BY <2>3 DEF Surjection
<1>7. ASSUME NEW n \in 1 .. size
      PROVE  /\ Sorted(S, before)[n] \in S
             /\ \A k \in S : place[k] = n => k = Sorted(S, before)[n]
             /\ Cardinality(before[Sorted(S, before)[n]]) = n - 1
  <2>1. PICK k \in S : place[k] = n
    BY <1>6
  <2>2. Cardinality(before[k]) = n - 1
    BY <1>2, <2>1
  <2>3. Sorted(S, before)[n] = CHOOSE j \in S : Cardinality(before[j]) = n - 1
    BY DEF Sorted
  <2>4. /\ Sorted(S, before)[n] \in S
        /\ Cardinality(before[Sorted(S, before)[n]]) = n - 1
    BY <2>2, <2>3
  <2>5. ASSUME NEW j \in S, place[j] = n PROVE j = Sorted(S, before)[n]
    <3>1. Cardinality(before[j]) = n - 1
      BY <1>2, <2>5
    <3> QED
      BY <1>4, <2>4, <3>1
  <2> QED
    BY <2>4, <2>5
<1>8. Sorted(S, before) \in [1 .. size -> S]
  BY <1>7 DEF Sorted
<1>9. \A k \in S : \E n \in 1 .. size : Sorted(S, before)[n] = k
  BY <1>3, <1>7
<1>10. ASSUME NEW m \in 1 .. size, NEW n \in 1 .. size, m < n
       PROVE  Sorted(S, before)[m] \in before[Sorted(S, before)[n]]
  <2> DEFINE j == Sorted(S, before)[m]
             k == Sorted(S, before)[n]
  <2>1. /\ j \in S /\ k \in S
        /\ Cardinality(before[j]) = m - 1 /\ Cardinality(before[k]) = n - 1
    BY <1>7
  <2> HIDE DEF j, k
  <2>2. j # k
    BY <1>1, <1>10, <2>1
  <2>3. ~(k \in before[j])
    <3>1. k \in before[j] => Cardinality(before[k]) < Cardinality(before[j])
      BY <2>1, FewerBefore
    <3> QED
      BY <1>1, <1>10, <2>1, <3>1
  <2>4. j \in before[k]
    BY <2>1, <2>2, <2>3 DEF StrictOrder
  <2> QED
    BY <2>4 DEF j, k
<1> QED
  BY <1>1, <1>8, <1>9, <1>10

-----------------------------------------------------------------------------
(* The factories a library adds.                                           *)

FactoryType == [id : KnownIds, lib : DOMAIN Libraries \cup {"none"}]

LEMMA LibraryIds ==
  ASSUME NEW lib \in DOMAIN Libraries
  PROVE  /\ Libraries[lib].ids \in Seq(KnownIds)
         /\ Len(Libraries[lib].ids) \in Nat
         /\ \A k \in 1 .. Len(Libraries[lib].ids) : Libraries[lib].ids[k] \in KnownIds
BY IdsAssumption

(* Of equal members of a sequence one is the first.                        *)
LEMMA FirstOfEquals ==
  ASSUME NEW T, NEW q \in Seq(T), NEW k \in 1 .. Len(q)
  PROVE  \E i \in 1 .. Len(q) : /\ q[i] = q[k]
                                /\ ~ \E j \in 1 .. i - 1 : q[j] = q[i]
<1> DEFINE same == {i \in 1 .. Len(q) : q[i] = q[k]}
<1>1. same \subseteq Nat /\ same # {}
  OBVIOUS
<1>2. PICK i \in same : \A j \in same : i <= j
  BY <1>1, LeastNumber
<1>3. ~ \E j \in 1 .. i - 1 : q[j] = q[i]
  BY <1>2
<1> QED
  BY <1>2, <1>3

(* Each id of the library once, and nothing else.                          *)
LEMMA BroughtFacts ==
  ASSUME NEW lib \in DOMAIN Libraries
  PROVE  /\ Brought(lib) \in Seq(FactoryType)
         /\ Found(Brought(lib)) = IdsOf(lib)
         /\ \A n \in 1 .. Len(Brought(lib)) : Brought(lib)[n].lib = lib
         /\ \A m, n \in 1 .. Len(Brought(lib)) :
              m # n => Brought(lib)[m].id # Brought(lib)[n].id
<1> DEFINE ids    == Libraries[lib].ids
           first  == {k \in 1 .. Len(ids) : ~ \E j \in 1 .. k - 1 : ids[j] = ids[k]}
           before == [k \in first |-> {j \in first : j < k}]
           order  == Sorted(first, before)
           size   == Cardinality(first)
<1>1. /\ ids \in Seq(KnownIds) /\ Len(ids) \in Nat
      /\ \A k \in 1 .. Len(ids) : ids[k] \in KnownIds
  BY LibraryIds
<1>2. IsFiniteSet(first)
  <2>1. IsFiniteSet(1 .. Len(ids)) /\ first \in SUBSET (1 .. Len(ids))
    BY <1>1, FS_Interval, SMTT(40)
  <2> QED
    BY <2>1, FS_Subset
<1>3. first \subseteq 1 .. Len(ids) /\ first \subseteq Nat
  OBVIOUS
<1>4. \A j, k \in first : j < k => ids[j] # ids[k]
  <2>1. ASSUME NEW j \in first, NEW k \in first, j < k PROVE j \in 1 .. k - 1
    BY <1>3, <2>1
  <2> QED
    BY <2>1
<1> HIDE DEF first
<1>5. StrictOrder(first, before)
  <2>1. before \in [first -> SUBSET first]
    OBVIOUS
  <2>2. \A j, k \in first : j \in before[k] <=> j < k
    OBVIOUS
  <2> HIDE DEF before
  <2>3. \A k \in first : k \notin before[k]
    BY <1>3, <2>2
  <2>4. ASSUME NEW j \in first, NEW k \in first, j \in before[k], NEW i \in before[j]
        PROVE  i \in before[k]
    <3>1. i \in first /\ i < j /\ j < k
      BY <2>1, <2>2, <2>4
    <3>2. i < k
      BY <1>3, <3>1
    <3> QED
      BY <2>2, <3>1, <3>2
  <2>5. \A j, k \in first : j # k => j \in before[k] \/ k \in before[j]
    <3>1. \A j, k \in first : j # k => j < k \/ k < j
      BY <1>3
    <3> QED
      BY <2>2, <3>1
  <2> QED
    BY <2>1, <2>3, <2>4, <2>5 DEF StrictOrder
<1> HIDE DEF before
<1>6. /\ size \in Nat /\ order \in [1 .. size -> first]
      /\ \A k \in first : \E n \in 1 .. size : order[n] = k
      /\ \A m, n \in 1 .. size : m < n => order[m] \in before[order[n]]
  BY <1>2, <1>5, SortedFacts
<1>7. /\ Brought(lib) = [n \in 1 .. size |-> [id |-> ids[order[n]], lib |-> lib]]
  BY DEF Brought, first, before
<1> HIDE DEF order, size, ids
<1>8. /\ Brought(lib) \in Seq(FactoryType) /\ Len(Brought(lib)) = size
      /\ \A n \in 1 .. size : /\ Brought(lib)[n].id = ids[order[n]]
                              /\ Brought(lib)[n].lib = lib
  <2>1. \A n \in 1 .. size : [id |-> ids[order[n]], lib |-> lib] \in FactoryType
    BY <1>1, <1>3, <1>6 DEF FactoryType
  <2> QED
    BY <1>6, <1>7, <2>1
<1>9. \A m, n \in 1 .. size : m < n => ids[order[m]] # ids[order[n]]
  <2>1. ASSUME NEW m \in 1 .. size, NEW n \in 1 .. size, m < n
        PROVE  ids[order[m]] # ids[order[n]]
    <3>1. order[m] \in before[order[n]] /\ order[m] \in first /\ order[n] \in first
      BY <1>6, <2>1
    <3>2. order[m] < order[n]
      BY <3>1 DEF before
    <3> QED
      BY <1>4, <3>1, <3>2
  <2> QED
    BY <2>1
<1>10. \A m, n \in 1 .. size : m # n => ids[order[m]] # ids[order[n]]
  <2>1. \A m, n \in 1 .. size : m # n => m < n \/ n < m
    BY <1>6
  <2> QED
    BY <1>9, <2>1
<1>11. Found(Brought(lib)) = IdsOf(lib)
  <2>1. Found(Brought(lib)) = {ids[order[n]] : n \in 1 .. size}
    BY <1>8 DEF Found
  <2>2. ASSUME NEW k \in 1 .. Len(ids)
        PROVE  \E n \in 1 .. size : ids[order[n]] = ids[k]
    <3>1. PICK i \in 1 .. Len(ids) : /\ ids[i] = ids[k]
                                     /\ ~ \E j \in 1 .. i - 1 : ids[j] = ids[i]
      BY <1>1, FirstOfEquals
    <3>2. i \in first
      BY <3>1 DEF first
    <3> QED
      BY <1>6, <3>1, <3>2
  <2>3. \A n \in 1 .. size : order[n] \in 1 .. Len(ids)
    BY <1>3, <1>6
  <2>4. IdsOf(lib) = {ids[k] : k \in 1 .. Len(ids)}
    BY DEF IdsOf, ids
  <2> QED
    BY <2>1, <2>2, <2>3, <2>4
<1> QED
  BY <1>8, <1>10, <1>11

(* Behind a registry that has none of its ids, they keep all ids distinct. *)
Distinct(fs) == \A j, k \in 1 .. Len(fs) : j # k => fs[j].id # fs[k].id

LEMMA AppendedFacts ==
  ASSUME NEW fs \in Seq(FactoryType), NEW gs \in Seq(FactoryType),
         Distinct(fs), Distinct(gs), Found(fs) \cap Found(gs) = {}
  PROVE  /\ fs \o gs \in Seq(FactoryType)
         /\ Distinct(fs \o gs)
         /\ Found(fs \o gs) = Found(fs) \cup Found(gs)
         /\ \A k \in 1 .. Len(fs \o gs) :
              \/ k \in 1 .. Len(fs) /\ (fs \o gs)[k] = fs[k]
              \/ k - Len(fs) \in 1 .. Len(gs) /\ (fs \o gs)[k] = gs[k - Len(fs)]
<1> DEFINE hs == fs \o gs
<1>1. /\ hs \in Seq(FactoryType) /\ Len(hs) = Len(fs) + Len(gs)
      /\ \A k \in 1 .. Len(hs) : hs[k] = IF k <= Len(fs) THEN fs[k] ELSE gs[k - Len(fs)]
      /\ Len(fs) \in Nat /\ Len(gs) \in Nat
  BY ConcatProperties
<1> HIDE DEF hs
<1>2. \A k \in 1 .. Len(hs) :
        \/ k \in 1 .. Len(fs) /\ hs[k] = fs[k]
        \/ k - Len(fs) \in 1 .. Len(gs) /\ hs[k] = gs[k - Len(fs)] /\ k > Len(fs)
  BY <1>1
<1>3. \A k \in 1 .. Len(fs) : k \in 1 .. Len(hs) /\ hs[k] = fs[k]
  BY <1>1
<1>4. \A k \in 1 .. Len(gs) : k + Len(fs) \in 1 .. Len(hs) /\ hs[k + Len(fs)] = gs[k]
  BY <1>1
<1>5. Found(hs) = Found(fs) \cup Found(gs)
  <2>1. ASSUME NEW id \in Found(hs) PROVE id \in Found(fs) \cup Found(gs)
    BY <1>2 DEF Found
  <2>2. Found(fs) \subseteq Found(hs)
    BY <1>3 DEF Found
  <2>3. Found(gs) \subseteq Found(hs)
    BY <1>4 DEF Found
  <2> QED
    BY <2>1, <2>2, <2>3
<1>6. ASSUME NEW j \in 1 .. Len(hs), NEW k \in 1 .. Len(hs), j < k
      PROVE  hs[j].id # hs[k].id
  <2>1. CASE k \in 1 .. Len(fs) /\ hs[k] = fs[k]
    <3>1. j \in 1 .. Len(fs) /\ j # k
      BY <1>1, <1>6, <2>1
    <3> QED
      BY <1>3, <2>1, <3>1 DEF Distinct
  <2>2. CASE k - Len(fs) \in 1 .. Len(gs) /\ hs[k] = gs[k - Len(fs)]
    <3>1. CASE j \in 1 .. Len(fs) /\ hs[j] = fs[j]
      <4>1. hs[j].id \in Found(fs) /\ hs[k].id \in Found(gs)
        BY <2>2, <3>1 DEF Found
      <4> QED
        BY <4>1
    <3>2. CASE j - Len(fs) \in 1 .. Len(gs) /\ hs[j] = gs[j - Len(fs)]
      <4>1. j - Len(fs) # k - Len(fs)
        BY <1>1, <1>6
      <4> QED
        BY <2>2, <3>2, <4>1 DEF Distinct
    <3> QED
      BY <1>2, <3>1, <3>2
  <2> QED
    BY <1>2, <2>1, <2>2
<1>7. Distinct(hs)
  <2>1. \A j, k \in 1 .. Len(hs) : j # k => j < k \/ k < j
    BY <1>1
  <2> QED
    BY <1>6, <2>1 DEF Distinct
<1> QED
  BY <1>1, <1>2, <1>5, <1>7 DEF hs

-----------------------------------------------------------------------------
(* The candidates of a stage.                                              *)

(* Registry::candidates() compares ranks, then ids: on factories with      *)
(* different ids that is a strict total order.                             *)
LEMMA PlaceFacts ==
  ASSUME NEW id \in KnownIds
  PROVE  Place(id) \in Nat /\ Ids[Place(id)] = id
<1>1. \E k \in 1 .. Len(Ids) : Ids[k] = id
  BY DEF KnownIds
<1>2. Place(id) \in 1 .. Len(Ids) /\ Ids[Place(id)] = id
  BY <1>1 DEF Place
<1>3. Len(Ids) \in Nat
  BY IdsAssumption
<1> QED
  BY <1>2, <1>3

LEMMA RankType == \A id, r : Rank(id, r) \in Nat
BY DEF Rank

LEMMA PrecedesOrders ==
  ASSUME NEW r
  PROVE  /\ \A a \in FactoryType : ~Precedes(r, a, a)
         /\ \A a, b \in FactoryType : a.id # b.id => Precedes(r, a, b) \/ Precedes(r, b, a)
         /\ \A a, b \in FactoryType : ~(Precedes(r, a, b) /\ Precedes(r, b, a))
         /\ \A a, b, c \in FactoryType :
              Precedes(r, a, b) /\ Precedes(r, b, c) => Precedes(r, a, c)
<1>1. \A a \in FactoryType : Rank(a.id, r) \in Nat /\ Place(a.id) \in Nat
  BY RankType, PlaceFacts DEF FactoryType
<1>2. \A a, b \in FactoryType : a.id # b.id => Place(a.id) # Place(b.id)
  BY PlaceFacts DEF FactoryType
<1>3. \A a \in FactoryType : ~Precedes(r, a, a)
  BY <1>1 DEF Precedes
<1>4. \A a, b \in FactoryType : a.id # b.id => Precedes(r, a, b) \/ Precedes(r, b, a)
  <2>1. \A i, j, k, l \in Nat :
          k # l => \/ i > j
                   \/ i = j /\ k < l
                   \/ j > i
                   \/ j = i /\ l < k
    OBVIOUS
  <2> QED
    BY <1>1, <1>2, <2>1 DEF Precedes
<1>5. \A a, b, c \in FactoryType :
        Precedes(r, a, b) /\ Precedes(r, b, c) => Precedes(r, a, c)
  <2>1. ASSUME NEW a \in FactoryType, NEW b \in FactoryType, NEW c \in FactoryType,
               Precedes(r, a, b), Precedes(r, b, c)
        PROVE  Precedes(r, a, c)
    BY <1>1, <2>1 DEF Precedes
  <2> QED
    BY <2>1
<1>6. \A a, b \in FactoryType : ~(Precedes(r, a, b) /\ Precedes(r, b, a))
  BY <1>3, <1>5
<1> QED
  BY <1>3, <1>4, <1>5, <1>6

(* A stage is offered all that serve the request, the best first.          *)
LEMMA CandidatesFacts ==
  ASSUME NEW fs \in Seq(FactoryType), Distinct(fs), NEW stage, NEW r,
         NEW best, best = Candidates(fs, stage, r)
  PROVE  /\ {best[i] : i \in 1 .. Len(best)} = Serving(Found(fs), stage, r)
         /\ BestFirst(best, r)
<1> DEFINE fits(k) == Stage(fs[k].id) = stage /\ Serves(fs[k].id, r)
           fit     == {k \in 1 .. Len(fs) : fits(k)}
           less(j, k) == \/ Precedes(r, fs[j], fs[k])
                         \/ (~Precedes(r, fs[k], fs[j]) /\ j < k)
           before  == [k \in fit |-> {j \in fit : less(j, k)}]
           order   == Sorted(fit, before)
           size    == Cardinality(fit)
<1>1. best = [n \in 1 .. size |-> fs[order[n]].id]
  BY DEF Candidates
<1>2. /\ Len(fs) \in Nat
      /\ \A k \in 1 .. Len(fs) : fs[k] \in FactoryType /\ fs[k].id \in KnownIds
  <2>1. /\ Len(fs) \in Nat
        /\ \A k \in 1 .. Len(fs) : fs[k] \in FactoryType
    OBVIOUS
  <2>2. \A f \in FactoryType : f.id \in KnownIds
    BY DEF FactoryType
  <2> QED
    BY <2>1, <2>2
<1>3. IsFiniteSet(fit)
  <2>1. IsFiniteSet(1 .. Len(fs)) /\ fit \in SUBSET (1 .. Len(fs))
    BY <1>2, FS_Interval
  <2> QED
    BY <2>1, FS_Subset
<1>4. Serving(Found(fs), stage, r) = {fs[k].id : k \in fit}
  BY DEF Serving, Found
<1>5. fit \subseteq 1 .. Len(fs)
  OBVIOUS
<1> HIDE DEF fits, fit
<1>6. \A j, k \in fit : less(j, k) <=> Precedes(r, fs[j], fs[k])
  <2>1. ASSUME NEW j \in fit, NEW k \in fit, ~Precedes(r, fs[k], fs[j]), j < k
        PROVE  Precedes(r, fs[j], fs[k])
    <3>1. j \in 1 .. Len(fs) /\ k \in 1 .. Len(fs) /\ j # k
      BY <1>2, <1>5, <2>1
    <3>2. fs[j].id # fs[k].id /\ fs[j] \in FactoryType /\ fs[k] \in FactoryType
      BY <1>2, <3>1 DEF Distinct
    <3> QED
      BY <2>1, <3>2, PrecedesOrders
  <2> QED
    BY <2>1
<1> HIDE DEF less
<1>7. \A j, k \in fit : j \in before[k] <=> Precedes(r, fs[j], fs[k])
  BY <1>6
<1>8. before \in [fit -> SUBSET fit]
  OBVIOUS
<1> HIDE DEF before
<1>9. StrictOrder(fit, before)
  <2>1. \A k \in fit : k \notin before[k]
    BY <1>2, <1>5, <1>7, PrecedesOrders
  <2>2. ASSUME NEW j \in fit, NEW k \in fit, j \in before[k], NEW i \in before[j]
        PROVE  i \in before[k]
    <3>1. i \in fit
      BY <1>8
    <3>2. /\ fs[i] \in FactoryType /\ fs[j] \in FactoryType /\ fs[k] \in FactoryType
          /\ Precedes(r, fs[i], fs[j]) /\ Precedes(r, fs[j], fs[k])
      BY <1>2, <1>5, <1>7, <2>2, <3>1
    <3> QED
      BY <1>7, <3>1, <3>2, PrecedesOrders
  <2>3. ASSUME NEW j \in fit, NEW k \in fit, j # k
        PROVE  j \in before[k] \/ k \in before[j]
    <3>1. j \in 1 .. Len(fs) /\ k \in 1 .. Len(fs)
      BY <1>5
    <3>2. fs[j].id # fs[k].id /\ fs[j] \in FactoryType /\ fs[k] \in FactoryType
      BY <1>2, <2>3, <3>1 DEF Distinct
    <3> QED
      BY <1>7, <3>2, PrecedesOrders
  <2> QED
    BY <1>8, <2>1, <2>2, <2>3 DEF StrictOrder
<1>10. /\ size \in Nat /\ order \in [1 .. size -> fit]
       /\ \A k \in fit : \E n \in 1 .. size : order[n] = k
       /\ \A m, n \in 1 .. size : m < n => order[m] \in before[order[n]]
  BY <1>3, <1>9, SortedFacts
<1> HIDE DEF order, size
<1>11. /\ Len(best) = size
       /\ \A n \in 1 .. size : best[n] = fs[order[n]].id
  <2>1. best \in Seq(KnownIds)
    <3>1. \A n \in 1 .. size : fs[order[n]].id \in KnownIds
      BY <1>2, <1>5, <1>10
    <3> QED
      BY <1>1, <1>10, <3>1
  <2> QED
    BY <1>1, <1>10, <2>1
<1>12. {best[i] : i \in 1 .. Len(best)} = Serving(Found(fs), stage, r)
  <2>1. ASSUME NEW n \in 1 .. size PROVE \E k \in fit : best[n] = fs[k].id
    BY <1>10, <1>11
  <2>2. ASSUME NEW k \in fit PROVE \E n \in 1 .. size : best[n] = fs[k].id
    BY <1>10, <1>11
  <2> QED
    BY <1>4, <1>11, <2>1, <2>2, SMTT(40)
<1>13. ASSUME NEW m \in 1 .. size, NEW n \in 1 .. size, m < n
       PROVE  \/ Rank(best[m], r) > Rank(best[n], r)
              \/ Rank(best[m], r) = Rank(best[n], r) /\ Place(best[m]) < Place(best[n])
  <2>1. order[m] \in fit /\ order[n] \in fit /\ order[m] \in before[order[n]]
    BY <1>10, <1>13
  <2>2. Precedes(r, fs[order[m]], fs[order[n]])
    BY <1>7, <2>1
  <2> QED
    BY <1>11, <2>2 DEF Precedes
<1> QED
  BY <1>11, <1>12, <1>13 DEF BestFirst

-----------------------------------------------------------------------------
(* The libraries that count, directory by directory.                       *)

Dirs == Len(SearchPath)

Admitted(l, sofar) ==
  /\ Libraries[l].status = "Ok"
  /\ IdsOf(l) \cap Found(Builtin) = {}
  /\ \A o \in sofar : ~Shares(l, o)

With(k, sofar) == sofar \cup {l \in SearchPath[k] : Admitted(l, sofar)}

CountsTo(n, g) == g = [k \in 0 .. n |-> IF k = 0 THEN {} ELSE With(k, g[k - 1])]

(* The recursion of Counts defines a function.                             *)
LEMMA CountsExist ==
  ASSUME NEW n \in Nat
  PROVE  \E g : CountsTo(n, g)
<1> DEFINE bad == {m \in Nat : ~ \E g : CountsTo(m, g)}
<1>1. SUFFICES ASSUME bad # {} PROVE FALSE
  OBVIOUS
<1>2. PICK m \in bad : \A i \in bad : m <= i
  BY <1>1, LeastNumber
<1>3. CASE m = 0
  <2> DEFINE g == [k \in 0 .. 0 |-> {}]
  <2>1. \A k \in 0 .. 0 : k = 0
    OBVIOUS
  <2>2. g = [k \in 0 .. 0 |-> IF k = 0 THEN {} ELSE With(k, g[k - 1])]
    BY <2>1
  <2> QED
    BY <1>2, <1>3, <2>2 DEF CountsTo
<1>4. CASE m # 0
  <2>1. m - 1 \in Nat /\ ~(m <= m - 1) /\ m \in Nat
    BY <1>4
  <2>2. PICK g : CountsTo(m - 1, g)
    BY <1>2, <2>1
  <2> DEFINE h == [k \in 0 .. m |-> IF k = m THEN With(m, g[m - 1]) ELSE g[k]]
  <2>3. ASSUME NEW k \in 0 .. m
        PROVE  h[k] = IF k = 0 THEN {} ELSE With(k, h[k - 1])
    <3>1. CASE k = m
      <4>1. m - 1 \in 0 .. m /\ m - 1 # m
        BY <2>1
      <4>2. h[m - 1] = g[m - 1]
        BY <4>1
      <4> QED
        BY <1>4, <3>1, <4>2
    <3>2. CASE k # m
      <4>1. k \in 0 .. m - 1 /\ (k # 0 => k - 1 \in 0 .. m /\ k - 1 # m)
        BY <2>1, <3>2
      <4>2. g[k] = IF k = 0 THEN {} ELSE With(k, g[k - 1])
        BY <2>2, <4>1 DEF CountsTo
      <4>3. h[k] = g[k] /\ (k # 0 => h[k - 1] = g[k - 1])
        BY <3>2, <4>1
      <4> QED
        BY <4>2, <4>3
    <3> QED
      BY <3>1, <3>2
  <2>4. h = [k \in 0 .. m |-> h[k]]
    OBVIOUS
  <2> HIDE DEF h
  <2>5. CountsTo(m, h)
    BY <2>3, <2>4 DEF CountsTo
  <2> QED
    BY <1>2, <2>5
<1> QED
  BY <1>3, <1>4

LEMMA CountsFacts ==
  /\ Dirs \in Nat
  /\ Counts[0] = {}
  /\ \A k \in 1 .. Dirs : Counts[k] = With(k, Counts[k - 1])
<1>1. Dirs \in Nat
  BY SearchPathAssumption DEF Dirs
<1>2. Counts = CHOOSE g : CountsTo(Dirs, g)
  BY DEF Counts, CountsTo, With, Admitted, Dirs
<1>3. PICK g : CountsTo(Dirs, g)
  BY <1>1, CountsExist
<1>4. CountsTo(Dirs, Counts)
  BY <1>2, <1>3
<1>5. \A k \in 0 .. Dirs : Counts[k] = IF k = 0 THEN {} ELSE With(k, Counts[k - 1])
  BY <1>4 DEF CountsTo
<1>6. 0 \in 0 .. Dirs /\ \A k \in 1 .. Dirs : k \in 0 .. Dirs /\ k # 0
  BY <1>1
<1> QED
  BY <1>1, <1>5, <1>6

-----------------------------------------------------------------------------
(* The invariant.                                                          *)

(* The libraries that are open are those that count, as far as the         *)
(* directories have been read.                                             *)
OpenOnes == IF at = 0 THEN {}
            ELSE Counts[at - 1] \cup
                 {l \in SearchPath[at] \ unread : Admitted(l, Counts[at - 1])}

Registry ==
  /\ factories \in Seq(FactoryType)
  /\ Distinct(factories)
  /\ FactoriesStayLoaded
  /\ loaded \subseteq DOMAIN Libraries
  /\ Found(factories) = Found(Builtin) \cup UNION {IdsOf(l) : l \in loaded}

Scanning ==
  /\ at \in 0 .. Dirs
  /\ unread \subseteq IF at = 0 THEN {} ELSE SearchPath[at]
  /\ Orderly => loaded = OpenOnes

CtxInv == Registry /\ Scanning /\ PlanIgnoresListing

LEMMA Initially == CtxIdle => CtxInv
<1> SUFFICES ASSUME CtxIdle PROVE CtxInv
  OBVIOUS
<1>1. factories = Builtin /\ loaded = {} /\ at = 0 /\ unread = {} /\ planned = Nothing
  BY DEF CtxIdle
<1>2. /\ Len(Builtin) = 2
      /\ Builtin[1] = [id |-> "file.source", lib |-> "none"]
      /\ Builtin[2] = [id |-> "file.sink", lib |-> "none"]
      /\ 1 .. 2 = {1, 2}
  BY DEF Builtin
<1>3. Builtin \in Seq(FactoryType)
  <2>1. Builtin[1].id \in KnownIds /\ Builtin[2].id \in KnownIds
    BY <1>2, IdsAssumption DEF Found
  <2>2. Builtin[1] \in FactoryType /\ Builtin[2] \in FactoryType
    BY <1>2, <2>1 DEF FactoryType
  <2> QED
    BY <1>2, <2>2 DEF Builtin
<1>4. Distinct(Builtin)
  BY <1>2 DEF Distinct
<1>5. Registry
  BY <1>1, <1>2, <1>3, <1>4 DEF Registry, FactoriesStayLoaded
<1>6. Scanning
  BY <1>1, CountsFacts DEF Scanning, OpenOnes
<1>7. PlanIgnoresListing
  BY <1>1 DEF PlanIgnoresListing, Nothing
<1> QED
  BY <1>5, <1>6, <1>7 DEF CtxInv

(* A plan made before says what it said then.                              *)
LEMMA PlanStays ==
  ASSUME PlanIgnoresListing, UNCHANGED << device, planned >>
  PROVE  PlanIgnoresListing'
<1>1. \A id, r : Serves(id, r)' = Serves(id, r)
  BY DEF Serves
<1>2. \A found, stage, r : Serving(found, stage, r)' = Serving(found, stage, r)
  BY <1>1 DEF Serving
<1>3. planned' = planned
  OBVIOUS
<1> QED
  BY <1>2, <1>3 DEF PlanIgnoresListing

LEMMA OpenDirStep ==
  ASSUME CtxInv, OpenDir
  PROVE  CtxInv'
<1>1. /\ unread = {} /\ at < Dirs /\ at' = at + 1 /\ unread' = SearchPath[at']
      /\ UNCHANGED << device, factories, loaded, planned >>
  BY DEF OpenDir, Dirs
<1>2. at \in 0 .. Dirs /\ Dirs \in Nat
  BY CountsFacts DEF CtxInv, Scanning
<1>3. at' \in 1 .. Dirs /\ at' - 1 = at /\ at' # 0 /\ at' \in 0 .. Dirs
  BY <1>1, <1>2
<1>4. Registry'
  BY <1>1 DEF CtxInv, Registry, FactoriesStayLoaded
<1>5. PlanIgnoresListing'
  BY <1>1, PlanStays DEF CtxInv
<1>6. ASSUME Orderly PROVE loaded' = OpenOnes'
  <2>1. loaded = OpenOnes
    BY <1>6 DEF CtxInv, Scanning
  <2>2. OpenOnes' = Counts[at]
    BY <1>1, <1>3 DEF OpenOnes
  <2>3. CASE at = 0
    BY <1>1, <2>1, <2>2, <2>3, CountsFacts DEF OpenOnes
  <2>4. CASE at # 0
    <3>1. Counts[at] = With(at, Counts[at - 1])
      BY <1>2, <2>4, CountsFacts
    <3>2. OpenOnes = With(at, Counts[at - 1])
      BY <1>1, <2>4 DEF OpenOnes, With
    <3> QED
      BY <1>1, <2>1, <2>2, <3>1, <3>2
  <2> QED
    BY <2>3, <2>4
<1>7. Scanning'
  BY <1>1, <1>3, <1>6 DEF Scanning
<1> QED
  BY <1>4, <1>5, <1>7 DEF CtxInv

(* While a directory without doubles is read, a library is accepted        *)
(* exactly if it counts.                                                   *)
LEMMA AcceptedIfCounted ==
  ASSUME CtxInv, Orderly, NEW lib \in unread
  PROVE  Acceptable(lib) <=> Admitted(lib, Counts[at - 1])
<1>1. /\ at # 0 /\ at \in 1 .. Len(SearchPath) /\ lib \in SearchPath[at]
      /\ loaded = Counts[at - 1] \cup
                  {l \in SearchPath[at] \ unread : Admitted(l, Counts[at - 1])}
      /\ Found(factories) = Found(Builtin) \cup UNION {IdsOf(l) : l \in loaded}
  BY CountsFacts DEF CtxInv, Registry, Scanning, OpenOnes, Dirs
<1>2. ASSUME Acceptable(lib) PROVE Admitted(lib, Counts[at - 1])
  <2>1. Libraries[lib].status = "Ok" /\ IdsOf(lib) \cap Found(factories) = {}
    BY <1>2 DEF Acceptable
  <2>2. IdsOf(lib) \cap Found(Builtin) = {}
    BY <1>1, <2>1
  <2>3. \A o \in Counts[at - 1] : IdsOf(lib) \cap IdsOf(o) = {}
    BY <1>1, <2>1
  <2> QED
    BY <2>1, <2>2, <2>3 DEF Admitted, Shares
<1>3. ASSUME Admitted(lib, Counts[at - 1]) PROVE Acceptable(lib)
  <2>1. /\ Libraries[lib].status = "Ok" /\ IdsOf(lib) \cap Found(Builtin) = {}
        /\ \A o \in Counts[at - 1] : IdsOf(lib) \cap IdsOf(o) = {}
    BY <1>3 DEF Admitted, Shares
  <2>2. \A o \in SearchPath[at] \ unread :
          Admitted(o, Counts[at - 1]) => IdsOf(lib) \cap IdsOf(o) = {}
    BY <1>1, <2>1 DEF Orderly, Shares, Admitted
  <2>3. \A o \in loaded : IdsOf(lib) \cap IdsOf(o) = {}
    BY <1>1, <2>1, <2>2
  <2>4. IdsOf(lib) \cap Found(factories) = {}
    BY <1>1, <2>1, <2>3
  <2> QED
    BY <2>1, <2>4 DEF Acceptable
<1> QED
  BY <1>2, <1>3

LEMMA ReadEntryStep ==
  ASSUME CtxInv, NEW lib \in unread, ReadEntry(lib)
  PROVE  CtxInv'
<1>1. /\ unread' = unread \ {lib} /\ factories' = Added(lib) /\ loaded' = Kept(lib)
      /\ UNCHANGED << device, at, planned >>
  BY DEF ReadEntry
<1>2. /\ at # 0 /\ at \in 1 .. Len(SearchPath) /\ unread \subseteq SearchPath[at]
  BY CountsFacts DEF CtxInv, Scanning, Dirs
<1>3. lib \in DOMAIN Libraries
  BY <1>2, SearchPathAssumption
<1>4. PlanIgnoresListing'
  BY <1>1, PlanStays DEF CtxInv
<1>5. Registry'
  <2>1. CASE ~Acceptable(lib)
    BY <1>1, <2>1 DEF CtxInv, Registry, FactoriesStayLoaded, Added, Kept
  <2>2. CASE Acceptable(lib)
    <3> DEFINE gs == Brought(lib)
    <3>1. factories' = factories \o gs /\ loaded' = loaded \cup {lib}
      BY <1>1, <2>2 DEF Added, Kept
    <3>2. /\ gs \in Seq(FactoryType) /\ Found(gs) = IdsOf(lib) /\ Distinct(gs)
          /\ \A n \in 1 .. Len(gs) : gs[n].lib = lib
      BY <1>3, BroughtFacts DEF Distinct
    <3>3. Found(factories) \cap Found(gs) = {}
      BY <2>2, <3>2 DEF Acceptable
    <3>4. factories \in Seq(FactoryType) /\ Distinct(factories)
      BY DEF CtxInv, Registry
    <3> HIDE DEF gs
    <3>5. /\ factories' \in Seq(FactoryType) /\ Distinct(factories')
          /\ Found(factories') = Found(factories) \cup Found(gs)
          /\ \A k \in 1 .. Len(factories') :
               \/ k \in 1 .. Len(factories) /\ factories'[k] = factories[k]
               \/ /\ k - Len(factories) \in 1 .. Len(gs)
                  /\ factories'[k] = gs[k - Len(factories)]
      BY <3>1, <3>2, <3>3, <3>4, AppendedFacts
    <3>6. FactoriesStayLoaded'
      <4>1. ASSUME NEW k \in 1 .. Len(factories')
            PROVE  factories'[k].lib \in loaded' \cup {"none"}
        BY <3>1, <3>2, <3>5 DEF CtxInv, Registry, FactoriesStayLoaded
      <4> QED
        BY <4>1 DEF FactoriesStayLoaded
    <3>7. /\ loaded' \subseteq DOMAIN Libraries
          /\ Found(factories') = Found(Builtin) \cup UNION {IdsOf(l) : l \in loaded'}
      BY <1>3, <3>1, <3>2, <3>5 DEF CtxInv, Registry
    <3> QED
      BY <3>5, <3>6, <3>7 DEF Registry
  <2> QED
    BY <2>1, <2>2
<1>6. ASSUME Orderly PROVE loaded' = OpenOnes'
  <2>1. OpenOnes' = Counts[at - 1] \cup
                    {l \in SearchPath[at] \ (unread \ {lib}) : Admitted(l, Counts[at - 1])}
    BY <1>1, <1>2 DEF OpenOnes
  <2>2. loaded = Counts[at - 1] \cup
                 {l \in SearchPath[at] \ unread : Admitted(l, Counts[at - 1])}
    BY <1>2, <1>6 DEF CtxInv, Scanning, OpenOnes
  <2>3. Acceptable(lib) <=> Admitted(lib, Counts[at - 1])
    BY <1>6, AcceptedIfCounted
  <2>4. lib \in SearchPath[at]
    BY <1>2
  <2> QED
    BY <1>1, <2>1, <2>2, <2>3, <2>4 DEF Kept
<1>7. Scanning'
  BY <1>1, <1>2, <1>6 DEF CtxInv, Scanning
<1> QED
  BY <1>4, <1>5, <1>7 DEF CtxInv

(* A plan that is made offers each stage the candidates for it.            *)
LEMMA PlannedCandidates ==
  ASSUME NEW fs, NEW r, Plan(fs, r).status = "Ok", NEW k \in 1 .. Len(Middle(r))
  PROVE  Plan(fs, r).steps[k + 1] = Candidates(fs, Middle(r)[k], r)
<1> DEFINE source == Endpoint(fs, r.input, "Source", r)
           sink   == Endpoint(fs, r.output, "Sink", r)
           stages == [i \in 1 .. Len(Middle(r)) |-> Candidates(fs, Middle(r)[i], r)]
<1>1. Plan(fs, r).steps = << source >> \o stages \o << sink >>
  <2>1. Plan(fs, r) = [status |-> "Ok", steps |-> << source >> \o stages \o << sink >>]
    BY DEF Plan, Refusal
  <2> QED
    BY <2>1
<1>2. Len(Middle(r)) \in {1, 2}
  BY DEF Middle
<1> DEFINE all == {source, sink} \cup {stages[i] : i \in 1 .. Len(Middle(r))}
<1>3. << source >> \in Seq(all) /\ << sink >> \in Seq(all)
  OBVIOUS
<1>4. stages \in Seq(all) /\ Len(stages) = Len(Middle(r))
  BY <1>2
<1>5. stages[k] = Candidates(fs, Middle(r)[k], r)
  OBVIOUS
<1> HIDE DEF source, sink, stages, all
<1>6. /\ << source >> \o stages \in Seq(all)
      /\ Len(<< source >> \o stages) = 1 + Len(stages)
      /\ (<< source >> \o stages)[k + 1] = stages[k]
  <2>1. Len(<< source >>) = 1 /\ k + 1 \in 1 .. 1 + Len(stages) /\ ~(k + 1 <= 1)
        /\ (k + 1) - 1 = k
    BY <1>2, <1>4
  <2> QED
    BY <1>3, <1>4, <2>1, ConcatProperties
<1>7. (<< source >> \o stages \o << sink >>)[k + 1] = stages[k]
  <2>1. /\ k + 1 \in 1 .. Len(<< source >> \o stages) + Len(<< sink >>)
        /\ k + 1 <= Len(<< source >> \o stages)
    BY <1>2, <1>4, <1>6
  <2> QED
    BY <1>3, <1>6, <2>1, ConcatProperties
<1> QED
  BY <1>1, <1>5, <1>7

LEMMA MakePlanStep ==
  ASSUME CtxInv, NEW r \in Requests, MakePlan(r)
  PROVE  CtxInv'
<1>1. /\ at = Len(SearchPath) /\ unread = {}
      /\ planned'.call = "plan" /\ planned'.request = r
      /\ planned'.plan = Plan(factories, r)
      /\ UNCHANGED << device, at, unread, factories, loaded, models >>
  BY DEF MakePlan, Scanned
<1>2. Registry' /\ Scanning'
  BY <1>1 DEF CtxInv, Registry, Scanning, FactoriesStayLoaded, OpenOnes
<1>3. \A found, stage : Serving(found, stage, r)' = Serving(found, stage, r)
  BY <1>1 DEF Serving, Serves
<1>4. ASSUME Orderly, Plan(factories, r).status = "Ok", NEW k \in 1 .. Len(Middle(r)),
             NEW best, best = Plan(factories, r).steps[k + 1]
      PROVE  /\ {best[i] : i \in 1 .. Len(best)} = Serving(AllFound, Middle(r)[k], r)
             /\ BestFirst(best, r)
  <2>1. loaded = Counts[Dirs]
    <3>1. CASE at = 0
      BY <1>1, <1>4, <3>1, CountsFacts DEF CtxInv, Scanning, OpenOnes, Dirs
    <3>2. CASE at # 0
      <4>1. at = Dirs /\ at \in 1 .. Dirs
        BY <1>1, <3>2, CountsFacts DEF Dirs
      <4>2. Counts[Dirs] = With(at, Counts[at - 1])
        BY <4>1, CountsFacts
      <4> QED
        BY <1>1, <1>4, <3>2, <4>2 DEF CtxInv, Scanning, OpenOnes, With
    <3> QED
      BY <3>1, <3>2
  <2>2. Found(factories) = AllFound
    BY <2>1 DEF CtxInv, Registry, AllFound, Dirs
  <2>3. best = Candidates(factories, Middle(r)[k], r)
    BY <1>4, PlannedCandidates
  <2>4. factories \in Seq(FactoryType) /\ Distinct(factories)
    BY DEF CtxInv, Registry
  <2> QED
    BY <2>2, <2>3, <2>4, CandidatesFacts
<1>5. PlanIgnoresListing'
  <2>1. ASSUME Orderly, Plan(factories, r).status = "Ok", NEW k \in 1 .. Len(Middle(r))
        PROVE  LET best == Plan(factories, r).steps[k + 1]
               IN /\ {best[i] : i \in 1 .. Len(best)} = Serving(AllFound, Middle(r)[k], r)'
                  /\ BestFirst(best, r)
    BY <1>3, <1>4, <2>1
  <2> QED
    BY <1>1, <2>1, ZenonT(60) DEF PlanIgnoresListing
<1> QED
  BY <1>2, <1>5 DEF CtxInv

LEMMA AddModelDirStep ==
  ASSUME CtxInv, NEW b \in Bundles, AddModelDir(b)
  PROVE  CtxInv'
<1>1. /\ planned'.call = "models"
      /\ UNCHANGED << device, at, unread, factories, loaded >>
  BY DEF AddModelDir
<1>2. Registry' /\ Scanning'
  BY <1>1 DEF CtxInv, Registry, Scanning, FactoriesStayLoaded, OpenOnes
<1>3. PlanIgnoresListing'
  BY <1>1 DEF PlanIgnoresListing
<1> QED
  BY <1>2, <1>3 DEF CtxInv

(* The registry holds the factories of the libraries that are open, those  *)
(* that count, and every plan was made from them.                          *)
THEOREM CtxInvariance == CtxSpec => []CtxInv
<1>1. CtxIdle => CtxInv
  BY Initially
<1>2. CtxInv /\ [CtxNext]_ctxVars => CtxInv'
  <2> SUFFICES ASSUME CtxInv, [CtxNext]_ctxVars PROVE CtxInv'
    OBVIOUS
  <2>1. CASE OpenDir
    BY <2>1, OpenDirStep
  <2>2. CASE \E lib \in unread : ReadEntry(lib)
    BY <2>2, ReadEntryStep
  <2>3. CASE \E b \in Bundles : AddModelDir(b)
    BY <2>3, AddModelDirStep
  <2>4. CASE \E r \in Requests : MakePlan(r)
    BY <2>4, MakePlanStep
  <2>5. CASE UNCHANGED ctxVars
    <3>1. UNCHANGED << device, at, unread, factories, loaded, planned >>
      BY <2>5 DEF ctxVars
    <3>2. Registry' /\ Scanning'
      BY <3>1 DEF CtxInv, Registry, Scanning, FactoriesStayLoaded, OpenOnes
    <3> QED
      BY <3>1, <3>2, PlanStays DEF CtxInv
  <2> QED
    BY <2>1, <2>2, <2>3, <2>4, <2>5 DEF CtxNext
<1> QED
  BY <1>1, <1>2, PTL DEF CtxSpec

(* load_plugin() closes a refused library before any of its factories is   *)
(* in the registry: each factory there belongs to a library that is open.  *)
THEOREM LibrariesOutliveFactories == CtxSpec => []FactoriesStayLoaded
<1>1. CtxInv => FactoriesStayLoaded
  BY DEF CtxInv, Registry
<1> QED
  BY <1>1, CtxInvariance, PTL

(* The candidates of a plan do not depend on the order in which readdir()  *)
(* lists the directories: all that serve the request among those that      *)
(* count, and sorted (registry.hpp, "priority+score desc, id asc").        *)
THEOREM ListingDoesNotMatter == CtxSpec => []PlanIgnoresListing
<1>1. CtxInv => PlanIgnoresListing
  BY DEF CtxInv
<1> QED
  BY <1>1, CtxInvariance, PTL

-----------------------------------------------------------------------------
(* The range coder: numbers.                                               *)

(* Products of numbers are numbers, and commute.                           *)
LEMMA Products ==
  ASSUME NEW a \in Nat, NEW b \in Nat
  PROVE  a * b \in Nat /\ a * b = b * a
OBVIOUS

(* A product grows with its factor.                                        *)
LEMMA Grows ==
  ASSUME NEW a \in Nat, NEW b \in Nat, NEW n \in Nat, a <= b
  PROVE  a * n <= b * n /\ a * n \in Nat /\ b * n \in Nat
<1>1. b - a \in Nat
  OBVIOUS
<1>2. (b - a) * n \in Nat
  BY <1>1, Products
<1>3. (b - a) * n = b * n - a * n
  OBVIOUS
<1>4. a * n \in Nat /\ b * n \in Nat
  BY Products
<1> QED
  BY <1>2, <1>3, <1>4

(* A product of positive numbers is positive, and no less than a factor.   *)
LEMMA Positive ==
  ASSUME NEW a \in Nat \ {0}, NEW b \in Nat \ {0}
  PROVE  a * b \in Nat \ {0} /\ b <= a * b
<1>1. 1 * b <= a * b /\ a * b \in Nat
  BY Grows
<1> QED
  BY <1>1

(* The quotient and the rest, and that there are no others.                *)
LEMMA Quotient ==
  ASSUME NEW a \in Nat, NEW n \in Nat \ {0}
  PROVE  /\ a \div n \in Nat /\ a % n \in Nat /\ a % n < n
         /\ a = n * (a \div n) + (a % n) /\ n * (a \div n) \in Nat
<1>1. /\ a \div n \in Int /\ a % n \in 0 .. n - 1
      /\ a = n * (a \div n) + (a % n)
  OBVIOUS
<1>2. a \div n \in Nat
  OBVIOUS
<1> QED
  BY <1>1, <1>2, Products

(* There is one quotient and one rest.                                     *)
LEMMA OneQuotient ==
  ASSUME NEW n \in Nat \ {0}, NEW p \in Nat, NEW q \in Nat, NEW r \in Nat, NEW t \in Nat,
         r < n, t < n, n * p + r = n * q + t
  PROVE  p = q /\ r = t
<1>1. ASSUME NEW a \in Nat, NEW b \in Nat, NEW c \in Nat, c < n, NEW d \in Nat, d < n,
             a < b
      PROVE  n * a + c # n * b + d
  <2>1. (a + 1) * n <= b * n /\ b * n \in Nat
    BY <1>1, Grows
  <2>2. (a + 1) * n = n * a + n /\ a * n \in Nat /\ n * a \in Nat /\ b * n = n * b
    BY Products
  <2> QED
    BY <1>1, <2>1, <2>2
<1>2. ~(p < q) /\ ~(q < p)
  BY <1>1
<1>3. p = q
  BY <1>2
<1> QED
  BY <1>3, Products

(* The quotient and the rest of a number given by them.                    *)
LEMMA QuotientIs ==
  ASSUME NEW n \in Nat \ {0}, NEW q \in Nat, NEW r \in Nat, r < n
  PROVE  (n * q + r) \div n = q /\ (n * q + r) % n = r
<1> DEFINE a == n * q + r
<1>1. a \in Nat
  BY Products
<1>2. a = n * q + r
  OBVIOUS
<1> HIDE DEF a
<1>3. a \div n \in Nat /\ a % n \in Nat /\ a % n < n /\ a = n * (a \div n) + (a % n)
  BY <1>1, Quotient
<1>4. n * q + r = n * (a \div n) + (a % n)
  BY <1>2, <1>3
<1>5. q = a \div n /\ r = a % n
  BY <1>3, <1>4, OneQuotient
<1> QED
  BY <1>5 DEF a

(* Division keeps the order.                                               *)
LEMMA QuotientOrder ==
  ASSUME NEW a \in Nat, NEW n \in Nat \ {0}, NEW m \in Nat
  PROVE  (a < n * m => a \div n < m) /\ (n * m <= a => m <= a \div n) /\ n * m \in Nat
<1>1. /\ a \div n \in Nat /\ a % n \in Nat /\ a % n < n
      /\ a = n * (a \div n) + (a % n) /\ n * (a \div n) \in Nat
  BY Quotient
<1> DEFINE q == a \div n
           r == a % n
           l == n * q
           k == n * m
<1>2. k \in Nat
  BY Products
<1>3. m <= q => k <= l
  <2>1. m <= q => m * n <= q * n
    BY <1>1, Grows
  <2>2. m * n = n * m /\ q * n = n * q
    BY <1>1, Products
  <2> QED
    BY <2>1, <2>2
<1>4. q + 1 <= m => l + n <= k
  <2>1. q + 1 <= m => (q + 1) * n <= m * n
    BY <1>1, Grows
  <2>2. (q + 1) * n = n * q + n /\ m * n = n * m
    BY <1>1, Products
  <2> QED
    BY <2>1, <2>2
<1>5. q \in Nat /\ r \in Nat /\ r < n /\ a = l + r /\ l \in Nat
  BY <1>1
<1> HIDE DEF q, r, l, k
<1>6. (a < k => q < m) /\ (k <= a => m <= q)
  BY <1>2, <1>3, <1>4, <1>5
<1> QED
  BY <1>2, <1>6 DEF q, k

(* A name for the quotient, which the provers need not expand.             *)
Quo(a, b) == a \div b

(* Two divisions after each other are one.                                 *)
LEMMA TwoQuotients ==
  ASSUME NEW a \in Nat, NEW b \in Nat \ {0}, NEW c \in Nat \ {0}
  PROVE  /\ b * c \in Nat \ {0}
         /\ (a \div b) \div c = a \div (b * c)
         /\ a % (b * c) = (a % b) + b * ((a \div b) % c)
         /\ Quo(Quo(a, b), c) = Quo(a, b * c)
<1> DEFINE p == a \div b
           r == a % b
           q == p \div c
           t == p % c
           n == b * c
           rest == b * t + r
<1>1. p \in Nat /\ r \in Nat /\ r < b /\ a = b * p + r
  BY Quotient
<1> HIDE DEF p, r
<1>2. q \in Nat /\ t \in Nat /\ t < c /\ p = c * q + t
  BY <1>1, Quotient
<1> HIDE DEF q, t
<1>3. n \in Nat \ {0}
  BY Positive
<1>4. rest \in Nat /\ rest < n
  <2>1. (t + 1) * b <= c * b /\ (t + 1) * b = b * t + b /\ c * b = b * c /\ b * t \in Nat
    BY <1>2, Grows, Products
  <2> DEFINE l == b * t
             k == b * c
  <2>2. l + b <= k /\ l \in Nat /\ k \in Nat
    BY <2>1, Products
  <2> HIDE DEF l, k
  <2>3. l + r \in Nat /\ l + r < k
    BY <1>1, <2>2
  <2> QED
    BY <2>3 DEF l, k
<1>5. a = n * q + rest
  <2>1. b * (c * q + t) = (b * c) * q + b * t
    BY <1>2
  <2> QED
    BY <1>1, <1>2, <2>1
<1> HIDE DEF n, rest
<1>6. a \div n = q /\ a % n = rest
  BY <1>2, <1>3, <1>4, <1>5, QuotientIs
<1>7. rest = r + b * t
  BY <1>1, <1>2, Products DEF rest
<1>8. Quo(a, b) = p /\ Quo(p, c) = q /\ Quo(a, n) = a \div n
  BY Zenon DEF Quo, p, q
<1>9. Quo(Quo(a, b), c) = Quo(a, n)
  BY <1>6, <1>8, Zenon
<1>10. /\ n \in Nat \ {0} /\ (a \div b) \div c = a \div n
       /\ a % n = (a % b) + b * ((a \div b) % c)
  BY <1>3, <1>6, <1>7 DEF q, t, p, r
<1> QED
  BY <1>9, <1>10, Zenon DEF n

-----------------------------------------------------------------------------
(* Induction and recursion over the first natural numbers.                 *)

(* Induction up to N, over a set.                                          *)
LEMMA Induction ==
  ASSUME NEW N \in Nat, NEW T, 0 \in T, \A n \in 1 .. N : n - 1 \in T => n \in T
  PROVE  0 .. N \subseteq T
<1> DEFINE bad == {n \in 0 .. N : n \notin T}
<1>1. SUFFICES ASSUME bad # {} PROVE FALSE
  OBVIOUS
<1> HIDE DEF bad
<1>2. bad \subseteq Nat
  BY DEF bad
<1>3. PICK m \in bad : \A k \in bad : m <= k
  BY <1>1, <1>2, LeastNumber
<1> USE DEF bad
<1>4. m \in 0 .. N /\ m \notin T /\ m # 0
  BY <1>3
<1>5. m - 1 \in 0 .. N /\ m \in 1 .. N
  BY <1>4
<1>6. m - 1 \in bad => m <= m - 1
  BY <1>3
<1> QED
  BY <1>4, <1>5, <1>6

(* The least number with a property that some number up to N has.          *)
LEMMA FirstOne ==
  ASSUME NEW N \in Nat, NEW T, NEW n \in 0 .. N, n \in T
  PROVE  \E m \in 0 .. N : m \in T /\ m <= n /\ \A k \in 0 .. m - 1 : k \notin T
<1> DEFINE good == {k \in 0 .. N : k \in T}
<1>1. good \subseteq Nat /\ good # {}
  OBVIOUS
<1> HIDE DEF good
<1>2. PICK m \in good : \A k \in good : m <= k
  BY <1>1, LeastNumber
<1> USE DEF good
<1>3. m \in 0 .. N /\ m \in T /\ m <= n
  BY <1>2
<1>4. ASSUME NEW k \in 0 .. m - 1 PROVE k \notin T
  <2>1. k \in 0 .. N /\ ~(m <= k)
    BY <1>3
  <2> QED
    BY <1>2, <2>1
<1> QED
  BY <1>3, <1>4

Follows(f, base, step, n) == IF n = 0 THEN base ELSE step[n][f[n - 1]]

Stepping(N, S, base, step) == base \in S /\ step \in [1 .. N -> [S -> S]]

(* A function given by its first value and its steps exists.               *)
LEMMA Recursion ==
  ASSUME NEW N \in Nat, NEW S, NEW base, NEW step, Stepping(N, S, base, step)
  PROVE  \E f \in [0 .. N -> S] : \A n \in 0 .. N : f[n] = Follows(f, base, step, n)
<1> USE DEF Stepping
<1> DEFINE upto(m) == \E f \in [0 .. N -> S] : \A n \in 0 .. m : f[n] = Follows(f, base, step, n)
           T == {m \in 0 .. N : upto(m)}
<1>1. 0 \in T
  <2> DEFINE f == [n \in 0 .. N |-> base]
  <2>1. f \in [0 .. N -> S] /\ \A n \in 0 .. 0 : f[n] = Follows(f, base, step, n)
    BY DEF Follows
  <2> QED
    BY <2>1
<1>2. ASSUME NEW m \in 1 .. N, m - 1 \in T
      PROVE  m \in T
  <2>1. PICK f \in [0 .. N -> S] : \A n \in 0 .. m - 1 : f[n] = Follows(f, base, step, n)
    BY <1>2
  <2> DEFINE g == [n \in 0 .. N |-> IF n = m THEN step[m][f[m - 1]] ELSE f[n]]
  <2>2. m - 1 \in 0 .. N /\ f[m - 1] \in S /\ step[m][f[m - 1]] \in S
    OBVIOUS
  <2>3. g \in [0 .. N -> S]
    BY <2>2
  <2>4. ASSUME NEW n \in 0 .. m PROVE g[n] = Follows(g, base, step, n)
    <3>1. CASE n = m
      BY <2>2, <3>1 DEF Follows
    <3>2. CASE n # m
      <4>1. n \in 0 .. m - 1 /\ n \in 0 .. N /\ n - 1 # m /\ (n # 0 => n - 1 \in 0 .. N)
        BY <3>2
      <4>2. g[n] = f[n] /\ (n # 0 => g[n - 1] = f[n - 1])
        BY <4>1
      <4>3. f[n] = Follows(f, base, step, n)
        BY <2>1, <4>1
      <4> QED
        BY <4>2, <4>3 DEF Follows
    <3> QED
      BY <3>1, <3>2
  <2> HIDE DEF g
  <2>5. upto(m)
    BY <2>3, <2>4
  <2> QED
    BY <2>5
<1> HIDE DEF T
<1>3. 0 .. N \subseteq T
  BY <1>1, <1>2, Induction
<1>4. N \in T
  BY <1>3
<1> QED
  BY <1>4 DEF T

(* A function that follows the recursion keeps to the set.                 *)
LEMMA Following ==
  ASSUME NEW N \in Nat, NEW S, NEW base, NEW step, Stepping(N, S, base, step),
         NEW f, \A n \in 0 .. N : f[n] = Follows(f, base, step, n)
  PROVE  \A n \in 0 .. N : f[n] \in S
<1> USE DEF Stepping
<1> DEFINE T == {n \in 0 .. N : f[n] \in S}
<1>1. 0 \in T
  BY DEF Follows
<1>2. ASSUME NEW m \in 1 .. N, m - 1 \in T
      PROVE  m \in T
  <2>1. f[m] = step[m][f[m - 1]] /\ f[m - 1] \in S
    BY <1>2 DEF Follows
  <2> QED
    BY <2>1
<1> HIDE DEF T
<1>3. 0 .. N \subseteq T
  BY <1>1, <1>2, Induction
<1> QED
  BY <1>3 DEF T

-----------------------------------------------------------------------------
(* Powers of two.                                                          *)

Doubled(f, n) == IF n = 0 THEN 1 ELSE 2 * f[n - 1]

(* The powers up to N exist.                                               *)
LEMMA DoubledUpTo ==
  ASSUME NEW N \in Nat
  PROVE  \E f \in [0 .. N -> Nat] : \A n \in 0 .. N : f[n] = Doubled(f, n)
<1> DEFINE step == [n \in 1 .. N |-> [k \in Nat |-> 2 * k]]
<1>1. Stepping(N, Nat, 1, step)
  BY DEF Stepping
<1>2. \A n \in 1 .. N, k \in Nat : step[n][k] = 2 * k
  OBVIOUS
<1> HIDE DEF step
<1>3. PICK f \in [0 .. N -> Nat] : \A n \in 0 .. N : f[n] = Follows(f, 1, step, n)
  BY <1>1, Recursion
<1>4. ASSUME NEW n \in 0 .. N PROVE f[n] = Doubled(f, n)
  <2>1. f[n] = Follows(f, 1, step, n)
    BY <1>3
  <2>2. n # 0 => n \in 1 .. N /\ f[n - 1] \in Nat
    OBVIOUS
  <2> QED
    BY <1>2, <2>1, <2>2 DEF Follows, Doubled
<1> QED
  BY <1>4

(* There is only one such function.                                        *)
LEMMA DoubledAgree ==
  ASSUME NEW M \in Nat, NEW N \in Nat, M <= N, NEW f, NEW g,
         \A n \in 0 .. M : f[n] = Doubled(f, n), \A n \in 0 .. N : g[n] = Doubled(g, n)
  PROVE  f[M] = g[M]
<1> DEFINE T == {n \in 0 .. M : f[n] = g[n]}
<1>1. 0 \in T
  BY DEF Doubled
<1>2. ASSUME NEW n \in 1 .. M, n - 1 \in T
      PROVE  n \in T
  <2>1. f[n] = Doubled(f, n) /\ g[n] = Doubled(g, n) /\ f[n - 1] = g[n - 1]
    BY <1>2
  <2> QED
    BY <2>1 DEF Doubled
<1> HIDE DEF T
<1>3. 0 .. M \subseteq T
  BY <1>1, <1>2, Induction
<1> QED
  BY <1>3 DEF T

(* Pow of RangeCoder.tla is what its definition says.                      *)
LEMMA PowIs == Pow = [n \in Nat |-> Doubled(Pow, n)]
<1> DEFINE upto(n, g) == g \in [0 .. n -> Nat] /\ \A k \in 0 .. n : g[k] = Doubled(g, k)
           best(n) == CHOOSE g : upto(n, g)
           f == [n \in Nat |-> best(n)[n]]
<1>1. ASSUME NEW n \in Nat PROVE upto(n, best(n))
  BY DoubledUpTo
<1> HIDE DEF best
<1>2. ASSUME NEW n \in Nat PROVE f[n] = Doubled(f, n)
  <2>1. upto(n, best(n))
    BY <1>1
  <2>2. f[n] = Doubled(best(n), n)
    BY <2>1
  <2>3. CASE n = 0
    BY <2>2, <2>3 DEF Doubled
  <2>4. CASE n # 0
    <3>1. n - 1 \in Nat /\ n - 1 <= n
      BY <2>4
    <3>2. upto(n - 1, best(n - 1))
      BY <1>1, <3>1
    <3> DEFINE g == best(n - 1)
               h == best(n)
    <3>3. \A k \in 0 .. n - 1 : g[k] = Doubled(g, k)
      BY <3>2
    <3>4. \A k \in 0 .. n : h[k] = Doubled(h, k)
      BY <2>1
    <3> HIDE DEF g, h
    <3>5. g[n - 1] = h[n - 1]
      BY <3>1, <3>3, <3>4, DoubledAgree
    <3>6. f[n - 1] = h[n - 1]
      BY <3>1, <3>5 DEF g
    <3> QED
      BY <2>2, <3>6 DEF Doubled, h
  <2> QED
    BY <2>3, <2>4
<1>3. f = [n \in Nat |-> f[n]]
  OBVIOUS
<1> HIDE DEF f
<1>4. f = [n \in Nat |-> Doubled(f, n)]
  BY <1>2, <1>3
<1>5. Pow = CHOOSE g : g = [n \in Nat |-> Doubled(g, n)]
  BY DEF Pow, Doubled
<1> QED
  BY <1>4, <1>5

(* The powers of two double.                                               *)
LEMMA PowDoubles ==
  /\ Pow[0] = 1
  /\ \A n \in Nat \ {0} : Pow[n] = 2 * Pow[n - 1]
<1>1. ASSUME NEW n \in Nat PROVE Pow[n] = Doubled(Pow, n)
  <2> DEFINE p == Pow
             f == [k \in Nat |-> Doubled(p, k)]
  <2>1. f[n] = Doubled(p, n)
    OBVIOUS
  <2>2. p = f
    BY PowIs
  <2> HIDE DEF f
  <2> QED
    BY <2>1, <2>2
<1> QED
  BY <1>1 DEF Doubled

(* They are positive numbers.                                              *)
LEMMA PowIn ==
  ASSUME NEW n \in Nat
  PROVE  Pow[n] \in Nat \ {0}
<1> DEFINE p == Pow
           T == {k \in 0 .. n : p[k] \in Nat \ {0}}
<1>1. p[0] = 1 /\ \A k \in Nat \ {0} : p[k] = 2 * p[k - 1]
  BY PowDoubles
<1> HIDE DEF p
<1>2. 0 \in T
  BY <1>1
<1>3. ASSUME NEW k \in 1 .. n, k - 1 \in T
      PROVE  k \in T
  BY <1>1, <1>3
<1> HIDE DEF T
<1>4. 0 .. n \subseteq T
  BY <1>2, <1>3, Induction
<1> QED
  BY <1>4 DEF T, p

(* The power of a sum is the product of the powers.                        *)
LEMMA PowPlus ==
  ASSUME NEW m \in Nat, NEW n \in Nat
  PROVE  Pow[m + n] = Pow[m] * Pow[n]
<1> DEFINE p == Pow
           T == {k \in 0 .. n : p[m + k] = p[m] * p[k]}
<1>1. p[0] = 1 /\ \A k \in Nat \ {0} : p[k] = 2 * p[k - 1]
  BY PowDoubles
<1>2. \A k \in Nat : p[k] \in Nat
  BY PowIn
<1> HIDE DEF p
<1>3. 0 \in T
  BY <1>1, <1>2
<1>4. ASSUME NEW k \in 1 .. n, k - 1 \in T
      PROVE  k \in T
  <2>1. m + (k - 1) = (m + k) - 1 /\ m + k \in Nat \ {0} /\ k \in Nat \ {0} /\ k - 1 \in Nat
    OBVIOUS
  <2>2. p[(m + k) - 1] = p[m] * p[k - 1] /\ p[m + k] = 2 * p[(m + k) - 1] /\ p[k] = 2 * p[k - 1]
    BY <1>1, <1>4, <2>1
  <2>3. \A a, b \in Nat : 2 * (a * b) = a * (2 * b)
    OBVIOUS
  <2>4. 2 * (p[m] * p[k - 1]) = p[m] * (2 * p[k - 1])
    BY <1>2, <2>1, <2>3
  <2> QED
    BY <2>2, <2>4
<1> HIDE DEF T
<1>5. 0 .. n \subseteq T
  BY <1>3, <1>4, Induction
<1> QED
  BY <1>5 DEF T, p

(* The powers grow.                                                        *)
LEMMA PowGrows ==
  ASSUME NEW m \in Nat, NEW n \in Nat, m <= n
  PROVE  Pow[m] <= Pow[n]
<1>1. n - m \in Nat /\ n = m + (n - m)
  OBVIOUS
<1>2. Pow[n] = Pow[m] * Pow[n - m]
  BY <1>1, PowPlus
<1>3. Pow[m] \in Nat \ {0} /\ Pow[n - m] \in Nat \ {0}
  BY <1>1, PowIn
<1>4. Pow[m] * Pow[n - m] = Pow[n - m] * Pow[m] /\ Pow[m] <= Pow[n - m] * Pow[m]
  BY <1>3, Products, Positive
<1> QED
  BY <1>2, <1>4

(* A function on 1 .. n is a sequence of length n.                         *)
LEMMA FunctionIsSeq ==
  ASSUME NEW n \in Nat, NEW S, NEW f \in [1 .. n -> S]
  PROVE  f \in Seq(S) /\ Len(f) = n
<1>1. f \in Seq(S)
  BY SeqDef
<1>2. DOMAIN f = 1 .. Len(f) /\ Len(f) \in Nat
  BY <1>1, LenProperties
<1>3. DOMAIN f = 1 .. n
  OBVIOUS
<1>4. Len(f) = n
  BY <1>2, <1>3
<1> QED
  BY <1>1, <1>4

-----------------------------------------------------------------------------
(* Sums, and numbers assembled from digits.                                *)

Summed(s, f, n) == IF n = 0 THEN 0 ELSE f[n - 1] + s[n]

(* The sums of a sequence follow their recursion.                          *)
LEMMA SumsAre ==
  ASSUME NEW s \in Seq(Int), NEW n \in 0 .. Len(s)
  PROVE  Sums(s)[n] = Summed(s, Sums(s), n) /\ Sums(s)[n] \in Int
<1> DEFINE N == Len(s)
           step == [k \in 1 .. N |-> [i \in Int |-> i + s[k]]]
           follows(f) == f = [k \in 0 .. N |-> Summed(s, f, k)]
           sum == CHOOSE f : follows(f)
<1>1. N \in Nat /\ \A k \in 1 .. N : s[k] \in Int
  OBVIOUS
<1>2. \A k \in 1 .. N, i \in Int : step[k][i] = i + s[k]
  OBVIOUS
<1>3. Stepping(N, Int, 0, step)
  BY <1>1 DEF Stepping
<1> HIDE DEF step, N
<1>4. PICK f \in [0 .. N -> Int] : \A k \in 0 .. N : f[k] = Follows(f, 0, step, k)
  BY <1>1, <1>3, Recursion
<1>5. ASSUME NEW k \in 0 .. N, NEW g, k # 0 => g[k - 1] \in Int
      PROVE  Follows(g, 0, step, k) = Summed(s, g, k)
  <2>1. k # 0 => k \in 1 .. N
    BY <1>1
  <2> QED
    BY <1>2, <1>5, <2>1 DEF Follows, Summed
<1>6. ASSUME NEW k \in 0 .. N PROVE f[k] = Summed(s, f, k)
  <2>1. k # 0 => f[k - 1] \in Int
    BY <1>1
  <2> QED
    BY <1>4, <1>5, <2>1
<1>7. f = [k \in 0 .. N |-> f[k]]
  BY <1>4
<1>8. follows(f)
  BY <1>6, <1>7
<1>9. follows(sum)
  BY <1>8
<1>10. Sums(s) = sum
  BY DEF Sums, Summed, N
<1> HIDE DEF sum
<1>11. ASSUME NEW k \in 0 .. N PROVE sum[k] = Summed(s, sum, k)
  BY <1>9
<1> DEFINE T == {k \in 0 .. N : sum[k] \in Int}
<1>12. 0 \in T
  BY <1>1, <1>11 DEF Summed
<1>13. ASSUME NEW k \in 1 .. N, k - 1 \in T
       PROVE  k \in T
  <2>1. s[k] \in Int /\ k \in 0 .. N /\ sum[k - 1] \in Int /\ k # 0
    BY <1>1, <1>13
  <2>2. sum[k] = sum[k - 1] + s[k]
    BY <1>11, <2>1 DEF Summed
  <2> QED
    BY <2>1, <2>2
<1> HIDE DEF T
<1>14. 0 .. N \subseteq T
  BY <1>1, <1>12, <1>13, Induction
<1>15. n \in 0 .. N
  BY DEF N
<1> QED
  BY <1>10, <1>11, <1>14, <1>15 DEF T

(* The sums of a sequence without negative numbers grow.                   *)
LEMMA SumsGrow ==
  ASSUME NEW s \in Seq(Int), NEW n \in 0 .. Len(s), NEW m \in 0 .. n,
         \A k \in 1 .. Len(s) : s[k] >= 0
  PROVE  Sums(s)[m] <= Sums(s)[n] /\ Sums(s)[m] \in Int /\ Sums(s)[n] \in Int
<1> DEFINE S == Sums(s)
           T == {k \in 0 .. n : m <= k => S[m] <= S[k]}
<1>1. \A k \in 0 .. n : S[k] \in Int /\ S[k] = Summed(s, S, k)
  BY SumsAre
<1> HIDE DEF S
<1>2. n \in Nat /\ m \in Nat /\ n <= Len(s) /\ Len(s) \in Nat
  OBVIOUS
<1>3. 0 \in T
  BY <1>1, <1>2
<1>4. ASSUME NEW k \in 1 .. n, k - 1 \in T
      PROVE  k \in T
  <2>1. S[k] = S[k - 1] + s[k] /\ s[k] >= 0 /\ s[k] \in Int /\ k - 1 \in 0 .. n /\ k \in 0 .. n
    BY <1>1, <1>2 DEF Summed
  <2>2. S[k] \in Int /\ S[k - 1] \in Int /\ S[m] \in Int
    BY <1>1, <1>2, <2>1
  <2>3. m <= k - 1 => S[m] <= S[k - 1]
    BY <1>4
  <2>4. S[k - 1] <= S[k]
    BY <2>1, <2>2
  <2>5. m <= k => m <= k - 1 \/ m = k
    BY <1>2
  <2>6. m <= k => S[m] <= S[k]
    BY <2>2, <2>3, <2>4, <2>5
  <2> QED
    BY <2>1, <2>6
<1> HIDE DEF T
<1>5. 0 .. n \subseteq T
  BY <1>2, <1>3, <1>4, Induction
<1>6. n \in T /\ m <= n
  BY <1>2, <1>5
<1> QED
  BY <1>1, <1>2, <1>6 DEF T, S

(* The n-th digit of a number, of so many bits.                            *)
PlaceWorth(v, bits, n) == (v \div Pow[bits * n]) % Pow[bits]

(* The powers of the places of a digit.                                    *)
LEMMA PowTimes ==
  ASSUME NEW bits \in Nat, NEW n \in Nat
  PROVE  /\ bits * n \in Nat /\ bits * (n + 1) = bits * n + bits /\ bits * (n + 1) \in Nat
         /\ Pow[bits * (n + 1)] = Pow[bits * n] * Pow[bits]
<1>1. bits * n \in Nat /\ bits * (n + 1) = bits * n + bits
  BY Products
<1> DEFINE m == bits * n
<1>2. m \in Nat
  BY <1>1
<1> HIDE DEF m
<1>3. Pow[m + bits] = Pow[m] * Pow[bits] /\ m + bits \in Nat
  BY <1>2, PowPlus
<1> QED
  BY <1>1, <1>3 DEF m

(* A digit is a number below its base.                                     *)
LEMMA PlaceIn ==
  ASSUME NEW v \in Nat, NEW bits \in Nat, NEW n \in Nat
  PROVE  PlaceWorth(v, bits, n) \in Nat /\ PlaceWorth(v, bits, n) < Pow[bits]
<1>1. bits * n \in Nat
  BY Products
<1>2. Pow[bits * n] \in Nat \ {0} /\ Pow[bits] \in Nat \ {0}
  BY <1>1, PowIn
<1>3. v \div Pow[bits * n] \in Nat
  BY <1>2, Quotient
<1> QED
  BY <1>2, <1>3, Quotient DEF PlaceWorth

(* One more place, with the arithmetic hidden in operators.                *)
NextPlaceIs(v, b, c) == (v % b) + b * ((v \div b) % c)
RestOf(v, b, c)      == v % (b * c)

(* The rest of a number grows by the next place.                           *)
LEMMA NextPlace ==
  ASSUME NEW v \in Nat, NEW b \in Nat \ {0}, NEW c \in Nat \ {0}
  PROVE  RestOf(v, b, c) = NextPlaceIs(v, b, c)
<1>1. v % (b * c) = (v % b) + b * ((v \div b) % c)
  BY TwoQuotients, ZenonT(60)
<1> QED
  BY <1>1 DEF RestOf, NextPlaceIs

(* A number below a power is the number that its digits assemble.          *)
LEMMA PlacesAssemble ==
  ASSUME NEW v \in Nat, NEW bits \in Nat, NEW digits \in Seq(Int),
         \A k \in 1 .. Len(digits) : digits[k] = PlaceWorth(v, bits, k - 1)
  PROVE  Assembled(digits, bits) = v % Pow[bits * Len(digits)]
<1> DEFINE N == Len(digits)
           part == [k \in 1 .. N |-> digits[k] * Pow[bits * (k - 1)]]
           S == Sums(part)
           T == {k \in 0 .. N : S[k] = v % Pow[bits * k]}
<1>1. N \in Nat
  OBVIOUS
<1>2. ASSUME NEW k \in 1 .. N
      PROVE  /\ part[k] = digits[k] * Pow[bits * (k - 1)] /\ part[k] \in Int
             /\ Pow[bits * (k - 1)] \in Nat \ {0}
  <2>1. digits[k] \in Int /\ k - 1 \in Nat
    OBVIOUS
  <2>2. Pow[bits * (k - 1)] \in Nat \ {0}
    BY <2>1, Products, PowIn
  <2>3. part[k] = digits[k] * Pow[bits * (k - 1)]
    OBVIOUS
  <2> HIDE DEF part
  <2>4. \A a, b \in Int : a * b \in Int
    OBVIOUS
  <2> QED
    BY <2>1, <2>2, <2>3, <2>4
<1>3. part \in Seq(Int) /\ Len(part) = N
  <2>1. part \in [1 .. N -> Int]
    BY <1>2
  <2> HIDE DEF part
  <2> QED
    BY <1>1, <2>1, FunctionIsSeq
<1> HIDE DEF part
<1>4. \A k \in 0 .. N : S[k] = Summed(part, S, k) /\ S[k] \in Int
  BY <1>3, SumsAre
<1> HIDE DEF S, N
<1>5. 0 \in T
  <2>1. bits * 0 = 0 /\ Pow[0] = 1 /\ v % 1 = 0
    BY PowDoubles
  <2>2. S[0] = 0
    BY <1>1, <1>4 DEF Summed
  <2> QED
    BY <1>1, <2>1, <2>2
<1>6. ASSUME NEW k \in 1 .. N, k - 1 \in T
      PROVE  k \in T
  <2> DEFINE b == Pow[bits * (k - 1)]
             c == Pow[bits]
  <2>1. k - 1 \in Nat /\ (k - 1) + 1 = k /\ k \in 0 .. N
    BY <1>1
  <2>2. Pow[bits * k] = b * c /\ b \in Nat \ {0} /\ c \in Nat \ {0}
    <3>1. Pow[bits * ((k - 1) + 1)] = b * c
      BY <2>1, PowTimes
    <3> QED
      BY <1>2, <2>1, <3>1, PowIn
  <2>4. S[k - 1] = v % b
    BY <1>6
  <2>5. S[k] = S[k - 1] + part[k] /\ part[k] = digits[k] * b
    BY <1>2, <1>4, <2>1 DEF Summed
  <2>6. digits[k] = (v \div b) % c
    BY DEF PlaceWorth, N
  <2> HIDE DEF b, c
  <2>3. v \in Nat /\ b \in Nat \ {0} /\ c \in Nat \ {0}
    BY <2>2
  <2> DEFINE w == v \div b
  <2>7. v % (b * c) = (v % b) + b * (w % c)
    <3>1. RestOf(v, b, c) = NextPlaceIs(v, b, c)
      BY <2>3, NextPlace
    <3> QED
      BY <3>1, Zenon DEF RestOf, NextPlaceIs
  <2>8. w % c \in Nat
    <3>1. w \in Nat
      BY <2>3, Quotient
    <3> HIDE DEF w
    <3> QED
      BY <2>3, <3>1, Quotient
  <2>9. digits[k] * b = b * ((v \div b) % c)
    BY <2>2, <2>6, <2>8, Products
  <2>10. S[k] = v % Pow[bits * k]
    BY <2>2, <2>4, <2>5, <2>7, <2>9
  <2> QED
    BY <2>1, <2>10
<1> HIDE DEF T
<1>7. 0 .. N \subseteq T
  BY <1>1, <1>5, <1>6, Induction
<1>8. S[N] = v % Pow[bits * N]
  BY <1>1, <1>7 DEF T
<1>9. Assembled(digits, bits) = S[N]
  BY DEF Assembled, S, part, N
<1> QED
  BY <1>8, <1>9 DEF N

-----------------------------------------------------------------------------
(* The coder in use, and the numbers its widths stand for.                 *)

CoderFits ==
  /\ coder.unit \in Nat \ {0} /\ coder.lower \in Nat /\ coder.units \in Nat \ {0}
  /\ coder.lower + coder.unit <= coder.unit * coder.units
  /\ SymbolBits <= coder.lower /\ BypassBits <= coder.lower
  /\ coder.units = 2 => SymbolBits <= coder.unit /\ BypassBits <= coder.unit

InRange(v) == v \in Nat /\ Lower <= v /\ v < Pow[StateBits]

(* What the widths of a coder imply for the numbers.                       *)
LEMMA WidthsAre ==
  ASSUME CoderFits
  PROVE  /\ coder.unit \in Nat \ {0} /\ coder.units \in Nat \ {0} /\ StateBits \in Nat
         /\ Pow[coder.unit] \in Nat \ {0} /\ Lower \in Nat \ {0}
         /\ Pow[StateBits] = Lower * Pow[coder.unit] /\ Pow[StateBits] \in Nat
         /\ Pow[StateBits] <= Pow[coder.unit * coder.units]
<1>1. /\ coder.unit \in Nat \ {0} /\ coder.lower \in Nat /\ coder.units \in Nat \ {0}
      /\ coder.lower + coder.unit <= coder.unit * coder.units
  BY DEF CoderFits
<1> DEFINE u == coder.unit
           l == coder.lower
           n == coder.unit * coder.units
<1>2. u \in Nat \ {0} /\ l \in Nat /\ l + u <= n /\ n \in Nat
  BY <1>1, Products
<1> HIDE DEF u, l, n
<1>3. /\ l + u \in Nat /\ Pow[l + u] = Pow[l] * Pow[u] /\ Pow[u] \in Nat \ {0}
      /\ Pow[l] \in Nat \ {0} /\ Pow[l + u] \in Nat /\ Pow[l + u] <= Pow[n]
  <2>1. l + u \in Nat
    BY <1>2
  <2>2. Pow[l + u] = Pow[l] * Pow[u]
    BY <1>2, PowPlus
  <2>3. Pow[u] \in Nat \ {0} /\ Pow[l] \in Nat \ {0} /\ Pow[l + u] \in Nat
    BY <1>2, <2>1, PowIn
  <2>4. Pow[l + u] <= Pow[n]
    BY <1>2, <2>1, PowGrows
  <2> QED
    BY <2>1, <2>2, <2>3, <2>4
<1> QED
  BY <1>1, <1>3 DEF u, l, n, StateBits, Lower

(* What k units leave of a number.                                         *)
LEMMA LeavesIn ==
  ASSUME CoderFits, NEW v \in Nat, NEW k \in Nat
  PROVE  /\ v \div Pow[coder.unit * k] \in Nat
         /\ v \div Pow[coder.unit * (k + 1)] = (v \div Pow[coder.unit * k]) \div Pow[coder.unit]
         /\ v \div Pow[coder.unit * k]
              = (v \div Pow[coder.unit * (k + 1)]) * Pow[coder.unit] + UnitOf(v, k)
         /\ UnitOf(v, k) \in Nat
         /\ v \div Pow[coder.unit * 0] = v
<1> DEFINE a == Pow[coder.unit * k]
           b == Pow[coder.unit]
           t == v \div a
<1>1. coder.unit \in Nat /\ coder.unit * k \in Nat
  BY WidthsAre, Products
<1>2. a \in Nat \ {0} /\ b \in Nat \ {0} /\ Pow[coder.unit * (k + 1)] = a * b
  BY <1>1, PowTimes, PowIn
<1>3. UnitOf(v, k) = t % b
  BY DEF UnitOf
<1>4. coder.unit * 0 = 0 /\ v \div 1 = v /\ Pow[0] = 1
  BY <1>1, PowDoubles
<1> HIDE DEF a, b
<1>5. t \in Nat
  BY <1>2, Quotient
<1>6. t \div b = v \div (a * b)
  <2>1. v \in Nat /\ a \in Nat \ {0} /\ b \in Nat \ {0}
    BY <1>2
  <2>2. Quo(Quo(v, a), b) = Quo(v, a * b)
    BY <2>1, TwoQuotients
  <2> QED
    BY <2>2 DEF Quo
<1> HIDE DEF t
<1>7. t = b * (t \div b) + (t % b) /\ t % b \in Nat /\ t \div b \in Nat
  BY <1>2, <1>5, Quotient
<1>8. b * (t \div b) = (t \div b) * b
  BY <1>2, <1>7, Products
<1> QED
  BY <1>2, <1>3, <1>4, <1>5, <1>6, <1>7, <1>8 DEF a, b, t

(* A state that lost a unit is below the lower bound, and none is longer   *)
(* than its units.                                                         *)
LEMMA LeavesLess ==
  ASSUME CoderFits, NEW v, InRange(v), NEW k \in Nat \ {0}
  PROVE  /\ v \div Pow[coder.unit * k] < Lower
         /\ v \div Pow[coder.unit * coder.units] = 0
<1> DEFINE u == Pow[coder.unit]
           a == Pow[coder.unit * k]
           c == Pow[coder.unit * coder.units]
           S == Pow[StateBits]
<1>1. /\ coder.unit \in Nat \ {0} /\ u \in Nat \ {0} /\ Lower \in Nat \ {0} /\ S = Lower * u
      /\ S <= c /\ S \in Nat /\ coder.units \in Nat
  BY WidthsAre
<1>2. v \in Nat /\ v < S
  BY DEF InRange
<1>3. a \in Nat \ {0} /\ c \in Nat \ {0} /\ u <= a
  <2>1. coder.unit * k \in Nat /\ coder.unit * coder.units \in Nat /\ coder.unit <= coder.unit * k
    <3>1. k * coder.unit = coder.unit * k /\ coder.unit <= k * coder.unit
      BY <1>1, Products, Positive
    <3> QED
      BY <1>1, <3>1, Products
  <2> QED
    BY <1>1, <2>1, PowIn, PowGrows
<1> HIDE DEF u, a, c, S
<1>4. v < a * Lower
  <2>1. u * Lower <= a * Lower /\ u * Lower = Lower * u /\ a * Lower \in Nat
    BY <1>1, <1>3, Grows, Products
  <2> QED
    BY <1>1, <1>2, <2>1
<1>5. v \div a < Lower
  BY <1>1, <1>2, <1>3, <1>4, QuotientOrder
<1>6. v < c * 1 /\ 1 \in Nat
  BY <1>1, <1>2, <1>3
<1>7. v \div c < 1 /\ v \div c \in Nat
  BY <1>2, <1>3, <1>6, QuotientOrder, Quotient
<1> QED
  BY <1>5, <1>7 DEF a, c

-----------------------------------------------------------------------------
(* Units that leave come back.                                             *)

(* n units have left a number, the first n for which the rest is below.    *)
Left(v, q, limit, n, r) ==
  /\ r = [x |-> v \div Pow[coder.unit * n], data |-> [k \in 1 .. n |-> UnitOf(v, n - k)] \o q]
  /\ v \div Pow[coder.unit * n] < limit
  /\ \A j \in 0 .. n - 1 : limit <= v \div Pow[coder.unit * j]

(* Renorm takes the first number of units after which the state is below   *)
(* the limit.                                                              *)
LEMMA RenormLeaves ==
  ASSUME CoderFits, NEW v, InRange(v), NEW q, NEW limit \in Nat \ {0},
         coder.units = 2 => Lower <= limit
  PROVE  \E n \in 0 .. coder.units :
           /\ Left(v, q, limit, n, Renorm([x |-> v, data |-> q], limit))
           /\ coder.units = 2 => n <= 1
<1> DEFINE Below(k) == \/ v \div Pow[coder.unit * k] < limit
                       \/ coder.units = 2 /\ k = 1
           T == {k \in 0 .. coder.units : Below(k)}
           good(k) == Below(k) /\ \A j \in 0 .. k - 1 : ~Below(j)
           n == CHOOSE k \in 0 .. coder.units : good(k)
<1>1. v \in Nat /\ coder.units \in Nat \ {0}
  BY WidthsAre DEF InRange
<1>2. \A k \in Nat : v \div Pow[coder.unit * k] \in Nat
  BY <1>1, LeavesIn
<1>3. coder.units \in T /\ coder.units \in 0 .. coder.units
  <2>1. v \div Pow[coder.unit * coder.units] = 0
    BY <1>1, LeavesLess
  <2> QED
    BY <1>1, <2>1
<1> HIDE DEF T
<1>4. \E k \in 0 .. coder.units : k \in T /\ \A j \in 0 .. k - 1 : j \notin T
  <2> DEFINE N == coder.units
  <2>1. N \in Nat /\ N \in 0 .. N /\ N \in T
    BY <1>1, <1>3
  <2> HIDE DEF N
  <2>2. \E k \in 0 .. N : k \in T /\ k <= N /\ \A j \in 0 .. k - 1 : j \notin T
    BY <2>1, FirstOne
  <2> QED
    BY <2>2 DEF N
<1>5. PICK m \in 0 .. coder.units : good(m)
  <2>1. PICK k \in 0 .. coder.units : k \in T /\ \A j \in 0 .. k - 1 : j \notin T
    BY <1>4
  <2>2. \A j \in 0 .. k - 1 : j \in 0 .. coder.units
    BY <1>1, <2>1
  <2> QED
    BY <2>1, <2>2 DEF T
<1> HIDE DEF good
<1>6. n \in 0 .. coder.units /\ good(n)
  BY <1>5
<1>7. Renorm([x |-> v, data |-> q], limit)
        = [x |-> v \div Pow[coder.unit * n], data |-> [k \in 1 .. n |-> UnitOf(v, n - k)] \o q]
  BY DEF Renorm, good
<1> HIDE DEF n
<1>8. coder.units = 2 => v \div Pow[coder.unit * 1] < limit
  <2>1. v \div Pow[coder.unit * 1] < Lower /\ v \div Pow[coder.unit * 1] \in Nat /\ Lower \in Nat
    BY <1>1, <1>2, LeavesLess, WidthsAre
  <2> QED
    BY <2>1
<1>9. n \in Nat /\ Below(n) /\ \A j \in 0 .. n - 1 : ~Below(j)
  BY <1>1, <1>6 DEF good
<1>10. v \div Pow[coder.unit * n] < limit
  BY <1>8, <1>9
<1>11. ASSUME NEW j \in 0 .. n - 1 PROVE limit <= v \div Pow[coder.unit * j]
  <2>1. v \div Pow[coder.unit * j] \in Nat /\ ~(v \div Pow[coder.unit * j] < limit)
    BY <1>2, <1>9
  <2> QED
    BY <2>1
<1>12. coder.units = 2 => n <= 1
  <2>1. n > 1 => 1 \in 0 .. n - 1
    BY <1>9
  <2> QED
    BY <1>9, <2>1
<1>13. Left(v, q, limit, n, Renorm([x |-> v, data |-> q], limit))
  BY <1>7, <1>10, <1>11 DEF Left
<1> QED
  BY <1>6, <1>12, <1>13

ReadOn(s, f, k) == IF k = 0 THEN s.x ELSE f[k - 1] * Pow[coder.unit] + s.data[k]

(* Read follows its recursion.                                             *)
LEMMA ReadIs ==
  ASSUME CoderFits, NEW s, s.x \in Nat, s.data \in Seq(Nat), NEW n \in 0 .. Len(s.data)
  PROVE  Read(s)[n] = ReadOn(s, Read(s), n) /\ Read(s)[n] \in Nat
<1> DEFINE N == Len(s.data)
           step == [k \in 1 .. N |-> [i \in Nat |-> i * Pow[coder.unit] + s.data[k]]]
           follows(f) == f = [k \in 0 .. N |-> ReadOn(s, f, k)]
           read == CHOOSE f : follows(f)
<1>1. N \in Nat /\ \A k \in 1 .. N : s.data[k] \in Nat
  OBVIOUS
<1>2. ASSUME NEW k \in 1 .. N, NEW i \in Nat
      PROVE  step[k][i] = i * Pow[coder.unit] + s.data[k] /\ step[k][i] \in Nat
  <2>1. i * Pow[coder.unit] \in Nat
    BY WidthsAre, Products
  <2>2. step[k][i] = i * Pow[coder.unit] + s.data[k]
    OBVIOUS
  <2> HIDE DEF step, N
  <2> QED
    BY <1>1, <2>1, <2>2
<1>3. Stepping(N, Nat, s.x, step)
  <2>1. step = [k \in 1 .. N |-> step[k]] /\ \A k \in 1 .. N : step[k] = [i \in Nat |-> step[k][i]]
    OBVIOUS
  <2> HIDE DEF step, N
  <2>2. step \in [1 .. N -> [Nat -> Nat]]
    BY <1>2, <2>1
  <2> QED
    BY <2>2 DEF Stepping
<1> HIDE DEF step, N
<1>4. PICK f \in [0 .. N -> Nat] : \A k \in 0 .. N : f[k] = Follows(f, s.x, step, k)
  BY <1>1, <1>3, Recursion, SMTT(40)
<1>5. ASSUME NEW k \in 0 .. N, NEW g, k # 0 => g[k - 1] \in Nat
      PROVE  Follows(g, s.x, step, k) = ReadOn(s, g, k)
  <2>1. k # 0 => k \in 1 .. N
    BY <1>1
  <2> QED
    BY <1>2, <1>5, <2>1 DEF Follows, ReadOn
<1>6. ASSUME NEW k \in 0 .. N PROVE f[k] = ReadOn(s, f, k)
  <2>1. k # 0 => f[k - 1] \in Nat
    BY <1>1
  <2> QED
    BY <1>4, <1>5, <2>1
<1>7. f = [k \in 0 .. N |-> f[k]]
  BY <1>4
<1>8. follows(f)
  BY <1>6, <1>7
<1>9. follows(read)
  BY <1>8
<1>10. Read(s) = read
  BY DEF Read, ReadOn, N
<1> HIDE DEF read
<1>11. ASSUME NEW k \in 0 .. N PROVE read[k] = ReadOn(s, read, k)
  BY <1>9
<1> DEFINE T == {k \in 0 .. N : read[k] \in Nat}
<1>12. 0 \in T
  BY <1>1, <1>11 DEF ReadOn
<1>13. ASSUME NEW k \in 1 .. N, k - 1 \in T
       PROVE  k \in T
  <2>1. k \in 0 .. N /\ read[k - 1] \in Nat /\ k # 0
    BY <1>1, <1>13
  <2>2. read[k] = step[k][read[k - 1]]
    BY <1>2, <1>11, <2>1 DEF ReadOn
  <2> QED
    BY <1>2, <2>1, <2>2
<1> HIDE DEF T
<1>14. 0 .. N \subseteq T
  BY <1>1, <1>12, <1>13, Induction
<1>15. n \in 0 .. N
  BY DEF N
<1> QED
  BY <1>10, <1>11, <1>14, <1>15 DEF T

(* What is left of two sequences after the first.                          *)
LEMMA Rear ==
  ASSUME NEW S, NEW p \in Seq(S), NEW q \in Seq(S)
  PROVE  SubSeq(p \o q, Len(p) + 1, Len(p \o q)) = q
<1> DEFINE a == p \o q
           m == Len(p) + 1
           n == Len(a)
           t == SubSeq(a, m, n)
<1>1. /\ a \in Seq(S) /\ Len(a) = Len(p) + Len(q) /\ Len(p) \in Nat /\ Len(q) \in Nat
      /\ \A i \in 1 .. Len(p) + Len(q) : a[i] = IF i <= Len(p) THEN p[i] ELSE q[i - Len(p)]
  BY ConcatProperties, LenProperties
<1> HIDE DEF a
<1>2. m \in Int /\ n \in Int /\ m >= 1 /\ n = (m - 1) + Len(q)
  BY <1>1
<1>3. \A i \in m .. n : a[i] \in S
  <2>1. \A i \in m .. n : i \in 1 .. Len(a)
    BY <1>2
  <2> QED
    BY <1>1, <2>1, ElementOfSeq
<1>4. \A i \in 1 .. Len(q) : m + i - 1 \in 1 .. Len(p) + Len(q) /\ a[m + i - 1] = q[i]
  <2>1. ASSUME NEW i \in 1 .. Len(q)
        PROVE  m + i - 1 \in 1 .. Len(p) + Len(q) /\ a[m + i - 1] = q[i]
    <3>1. /\ m + i - 1 = Len(p) + i /\ Len(p) + i \in 1 .. Len(p) + Len(q)
          /\ ~(Len(p) + i <= Len(p)) /\ (Len(p) + i) - Len(p) = i
      BY <1>1
    <3>2. a[Len(p) + i] = q[(Len(p) + i) - Len(p)]
      BY <1>1, <3>1
    <3> QED
      BY <3>1, <3>2
  <2> QED
    BY <2>1
<1> HIDE DEF m, n
<1>5. /\ SubSeq(a, m, n) \in Seq(S)
      /\ Len(SubSeq(a, m, n)) = IF m <= n THEN n - m + 1 ELSE 0
      /\ \A i \in 1 .. n - m + 1 : SubSeq(a, m, n)[i] = a[m + i - 1]
  BY <1>2, <1>3, SubSeqProperties
<1>6. t \in Seq(S) /\ Len(t) = Len(q)
  BY <1>1, <1>2, <1>5, SMTT(40)
<1>7. \A i \in 1 .. Len(t) : t[i] = q[i]
  BY <1>1, <1>2, <1>4, <1>5, <1>6
<1> HIDE DEF t
<1>8. t = q
  BY <1>6, <1>7, SeqEqual
<1> QED
  BY <1>8 DEF t, m, n, a

(* What the decoder has of a state of the encoder.  (The name keeps the    *)
(* truth value of the field out of the obligations about the record.)      *)
Yes == TRUE
Opened(v, q, w) == [x |-> v, data |-> q, ok |-> Yes, value |-> w]

(* The fields of an opened state.                                          *)
LEMMA OpenedFields ==
  ASSUME NEW v, NEW q, NEW w
  PROVE  /\ Opened(v, q, w).x = v /\ Opened(v, q, w).data = q
         /\ Opened(v, q, w).ok = Yes /\ Opened(v, q, w).value = w
BY DEF Opened

(* A record with some fields replaced.                                     *)
WithX(s, y)       == [s EXCEPT !.x = y]
WithData(s, y)    == [s EXCEPT !.data = y]
WithBoth(s, y, t) == [s EXCEPT !.x = y, !.data = t]

(* Replacing one field of an opened state.                                 *)
LEMMA Replaced ==
  ASSUME NEW v, NEW q, NEW w, NEW y
  PROVE  /\ WithX(Opened(v, q, w), y) = Opened(y, q, w)
         /\ WithData(Opened(v, q, w), y) = Opened(v, y, w)
         /\ WithValue(Opened(v, q, w), y) = Opened(v, q, y)
<1>1. WithX(Opened(v, q, w), y) = Opened(y, q, w)
  BY DEF Opened, WithX
<1>2. WithData(Opened(v, q, w), y) = Opened(v, y, w)
  BY DEF Opened, WithData
<1>3. WithValue(Opened(v, q, w), y) = Opened(v, q, y)
  BY DEF Opened, WithValue
<1> QED
  BY <1>1, <1>2, <1>3

(* Replacing the state and the data.                                       *)
LEMMA BothReplaced ==
  ASSUME NEW v, NEW q, NEW w, NEW y, NEW t
  PROVE  WithBoth(Opened(v, q, w), y, t) = Opened(y, t, w)
<1>1. WithBoth(Opened(v, q, w), y, t) = WithData(WithX(Opened(v, q, w), y), t)
  BY DEF Opened, WithBoth, WithData, WithX
<1> QED
  BY <1>1, Replaced

Units(v, n) == [k \in 1 .. n |-> UnitOf(v, n - k)]

(* The units that left are numbers.                                        *)
LEMMA UnitsIn ==
  ASSUME CoderFits, NEW v \in Nat, NEW n \in Nat, NEW q \in Seq(Nat)
  PROVE  /\ Units(v, n) \in Seq(Nat) /\ Len(Units(v, n)) = n
         /\ Units(v, n) \o q \in Seq(Nat) /\ Len(Units(v, n) \o q) = n + Len(q)
         /\ \A k \in 1 .. n : (Units(v, n) \o q)[k] = UnitOf(v, n - k)
<1> DEFINE p == Units(v, n)
<1>1. ASSUME NEW k \in 1 .. n PROVE p[k] = UnitOf(v, n - k) /\ UnitOf(v, n - k) \in Nat
  <2>1. n - k \in Nat
    OBVIOUS
  <2>2. UnitOf(v, n - k) \in Nat
    BY <2>1, LeavesIn
  <2> QED
    BY <2>2 DEF Units
<1>2. p = [k \in 1 .. n |-> p[k]]
  BY DEF Units
<1> HIDE DEF p
<1>3. p \in [1 .. n -> Nat]
  BY <1>1, <1>2
<1>4. p \in Seq(Nat) /\ Len(p) = n
  BY <1>3, FunctionIsSeq
<1>5. /\ p \o q \in Seq(Nat) /\ Len(p \o q) = n + Len(q) /\ Len(q) \in Nat
      /\ \A k \in 1 .. n + Len(q) : (p \o q)[k] = IF k <= n THEN p[k] ELSE q[k - n]
  BY <1>4, ConcatProperties, LenProperties
<1>6. \A k \in 1 .. n : (p \o q)[k] = p[k]
  BY <1>5
<1> QED
  BY <1>1, <1>4, <1>5, <1>6 DEF p

(* Refill takes back exactly the units that left.                          *)
LEMMA UnitsReturn ==
  ASSUME CoderFits, NEW v, InRange(v), NEW q \in Seq(Nat), NEW w,
         NEW n \in Nat, coder.units = 2 => n <= 1
  PROVE  Refill(Opened(v \div Pow[coder.unit * n], Units(v, n) \o q, w)) = Opened(v, q, w)
<1> DEFINE all == Units(v, n) \o q
           left(k) == v \div Pow[coder.unit * k]
           s == Opened(left(n), all, w)
           R == Read(s)
           N == Len(all)
<1>1. v \in Nat /\ Lower <= v /\ Lower \in Nat
  BY WidthsAre DEF InRange
<1>2. /\ all \in Seq(Nat) /\ N = n + Len(q) /\ N \in Nat /\ n <= N
      /\ \A k \in 1 .. n : all[k] = UnitOf(v, n - k)
  <2>1. Len(q) \in Nat
    BY LenProperties
  <2>2. /\ all \in Seq(Nat) /\ N = n + Len(q)
        /\ \A k \in 1 .. n : all[k] = UnitOf(v, n - k)
    BY <1>1, UnitsIn
  <2> HIDE DEF all, N
  <2> QED
    BY <2>1, <2>2
<1>3. /\ left(0) = v /\ Pow[coder.unit] \in Nat
      /\ \A k \in Nat : left(k) \in Nat /\ UnitOf(v, k) \in Nat
                        /\ left(k) = left(k + 1) * Pow[coder.unit] + UnitOf(v, k)
  BY <1>1, LeavesIn, WidthsAre
<1>4. s.x = left(n) /\ s.data = all /\ left(n) \in Nat
  <2>1. s.x = left(n) /\ s.data = all
    <3> HIDE DEF left, all
    <3>1. Opened(left(n), all, w).x = left(n) /\ Opened(left(n), all, w).data = all
      BY OpenedFields
    <3> QED
      BY <3>1
  <2> QED
    BY <1>3, <2>1
<1>5. \A k \in 0 .. N : R[k] = ReadOn(s, R, k) /\ R[k] \in Nat
  <2> HIDE DEF left, all
  <2>1. s.x \in Nat /\ s.data \in Seq(Nat) /\ N = Len(s.data)
    BY <1>2, <1>4
  <2> HIDE DEF s
  <2> QED
    BY <2>1, ReadIs
<1> HIDE DEF R, s, all, N, left
<1> DEFINE T == {k \in 0 .. n : R[k] = left(n - k)}
<1>6. 0 \in T
  BY <1>2, <1>4, <1>5, SMTT(40) DEF ReadOn
<1>7. ASSUME NEW k \in 1 .. n, k - 1 \in T
      PROVE  k \in T
  <2>1. k \in 0 .. N /\ n - k \in Nat /\ n - (k - 1) = (n - k) + 1 /\ k # 0
    BY <1>2
  <2>2. R[k - 1] = left((n - k) + 1)
    BY <1>7, <2>1
  <2>3. R[k] = R[k - 1] * Pow[coder.unit] + all[k]
    BY <1>4, <1>5, <2>1 DEF ReadOn
  <2>4. left(n - k) = left((n - k) + 1) * Pow[coder.unit] + UnitOf(v, n - k)
    BY <1>3, <2>1
  <2> QED
    BY <1>2, <2>2, <2>3, <2>4
<1> HIDE DEF T
<1>8. 0 .. n \subseteq T
  BY <1>6, <1>7, Induction
<1>9. \A k \in 0 .. n : R[k] = left(n - k)
  BY <1>8 DEF T
<1> DEFINE Full(k) == R[k] >= Lower \/ (coder.units = 2 /\ k = 1)
           good(k) == Full(k) /\ \A j \in 0 .. k - 1 : ~Full(j)
           m == CHOOSE k \in 0 .. N : good(k)
<1>10. n \in 0 .. N /\ Full(n) /\ R[n] = v
  <2>1. n \in 0 .. n /\ n - n = 0 /\ n \in 0 .. N
    BY <1>2
  <2>2. R[n] = left(n - n)
    BY <1>9, <2>1
  <2>3. R[n] = v
    BY <1>3, <2>1, <2>2
  <2> QED
    BY <1>1, <2>1, <2>3
<1>11. ASSUME NEW j \in 0 .. n - 1 PROVE ~Full(j)
  <2>1. n - j \in Nat \ {0} /\ j \in 0 .. n /\ (coder.units = 2 => j # 1)
    OBVIOUS
  <2>2. left(n - j) < Lower /\ left(n - j) \in Nat
    BY <1>3, <2>1, LeavesLess DEF left
  <2> QED
    BY <1>1, <1>9, <2>1, <2>2
<1> HIDE DEF Full
<1>12. good(n)
  BY <1>10, <1>11
<1>13. m \in 0 .. N /\ good(m)
  BY <1>10, <1>12
<1> HIDE DEF m
<1>14. m = n
  <2>1. ~(m < n)
    BY <1>2, <1>11, <1>13
  <2>2. ~(n < m)
    BY <1>2, <1>10, <1>13
  <2> QED
    BY <1>2, <1>13, <2>1, <2>2
<1>15. \E k \in 0 .. N : Full(k)
  BY <1>10
<1>16. Refill(s) = [s EXCEPT !.x = R[m], !.data = SubSeq(@, m + 1, Len(@))]
  <2>1. Len(s.data) = N
    BY <1>4 DEF N
  <2> QED
    BY <1>15, <2>1 DEF Refill, Full, m, R
<1>17. SubSeq(all, n + 1, N) = q
  <2>1. Units(v, n) \in Seq(Nat) /\ Len(Units(v, n)) = n
    BY <1>1, UnitsIn
  <2> QED
    BY <2>1, Rear DEF all, N
<1>18. SubSeq(s.data, m + 1, Len(s.data)) = q
  BY <1>4, <1>14, <1>17 DEF N
<1>19. [s EXCEPT !.x = R[m], !.data = SubSeq(@, m + 1, Len(@))] = Opened(v, q, w)
  <2> DEFINE a == left(n)
             t == SubSeq(s.data, m + 1, Len(s.data))
             y == R[m]
  <2>1. s = Opened(a, all, w)
    BY DEF s
  <2>2. [s EXCEPT !.x = R[m], !.data = SubSeq(@, m + 1, Len(@))] = WithBoth(s, y, t)
    BY DEF WithBoth
  <2>3. y = v /\ t = q
    BY <1>10, <1>14, <1>18
  <2> HIDE DEF a, t, y
  <2>4. WithBoth(s, y, t) = Opened(y, t, w)
    BY <2>1, BothReplaced
  <2> QED
    BY <2>2, <2>3, <2>4
<1> QED
  BY <1>16, <1>19 DEF s, all, left

-----------------------------------------------------------------------------
(* What renormalisation leaves is at least m, below m units, and comes     *)
(* back as it was.                                                         *)

Renormed(v, q, m, r) ==
  /\ r = [x |-> r.x, data |-> r.data]
  /\ r.x \in Nat /\ m <= r.x /\ r.x < m * Pow[coder.unit]
  /\ r.data \in Seq(Nat)
  /\ \A w : Refill(Opened(r.x, r.data, w)) = Opened(v, q, w)

(* Refill undoes Renorm.                                                   *)
LEMMA RenormReturns ==
  ASSUME CoderFits, NEW v, InRange(v), NEW q \in Seq(Nat), NEW m \in Nat \ {0}, m <= Lower,
         coder.units = 2 => Lower <= m * Pow[coder.unit]
  PROVE  Renormed(v, q, m, Renorm([x |-> v, data |-> q], m * Pow[coder.unit]))
<1> DEFINE u == Pow[coder.unit]
           limit == m * u
           r == Renorm([x |-> v, data |-> q], limit)
           left(k) == v \div Pow[coder.unit * k]
<1>1. u \in Nat \ {0} /\ coder.units \in Nat /\ v \in Nat /\ Lower <= v /\ Lower \in Nat
  BY WidthsAre DEF InRange
<1>2. limit \in Nat \ {0}
  <2> HIDE DEF u
  <2> QED
    BY <1>1, Positive
<1> HIDE DEF limit
<1>3. PICK n \in 0 .. coder.units : Left(v, q, limit, n, r) /\ (coder.units = 2 => n <= 1)
  <2>1. coder.units = 2 => Lower <= limit
    BY DEF limit
  <2> HIDE DEF r
  <2> QED
    BY <1>2, <2>1, RenormLeaves DEF r
<1> HIDE DEF r
<1>4. n \in Nat
  BY <1>1
<1>5. r = [x |-> left(n), data |-> Units(v, n) \o q]
  BY <1>3 DEF Left, Units
<1>6. left(n) < limit /\ left(n) \in Nat /\ \A j \in 0 .. n - 1 : limit <= left(j)
  <2>1. left(n) \in Nat
    BY <1>1, <1>4, LeavesIn
  <2> QED
    BY <1>3, <2>1 DEF Left
<1>7. m <= left(n)
  <2>1. CASE n = 0
    <3>1. left(0) = v
      BY <1>1, LeavesIn
    <3> QED
      BY <1>1, <2>1, <3>1
  <2>2. CASE n # 0
    <3>1. n - 1 \in Nat /\ n - 1 \in 0 .. n - 1 /\ (n - 1) + 1 = n
      BY <1>4, <2>2
    <3>2. left(n) = left(n - 1) \div u /\ left(n - 1) \in Nat
      <4>1. left((n - 1) + 1) = left(n - 1) \div u /\ left(n - 1) \in Nat
        BY <1>1, <3>1, LeavesIn
      <4> QED
        BY <3>1, <4>1
    <3>3. limit <= left(n - 1)
      BY <1>6, <3>1
    <3> HIDE DEF left, u
    <3>4. u * m <= left(n - 1)
      BY <1>1, <3>3, Products DEF limit
    <3>5. m <= left(n - 1) \div u
      BY <1>1, <3>2, <3>4, QuotientOrder
    <3> QED
      BY <3>2, <3>5
  <2> QED
    BY <2>1, <2>2
<1>8. Units(v, n) \o q \in Seq(Nat)
  BY <1>1, <1>4, UnitsIn
<1>9. \A w : Refill(Opened(left(n), Units(v, n) \o q, w)) = Opened(v, q, w)
  BY <1>3, <1>4, UnitsReturn
<1>10. Renormed(v, q, m, r)
  BY <1>5, <1>6, <1>7, <1>8, <1>9 DEF Renormed, limit
<1> QED
  BY <1>10 DEF r, limit

(* A symbol of a frequency f, or a digit, of so many bits fits the coder   *)
(* in use.                                                                 *)
BitsFit(bits) == bits \in Nat /\ bits <= coder.lower /\ (coder.units = 2 => bits <= coder.unit)

(* The limits of put_sym and put_raw, as multiples of a unit.              *)
LEMMA LimitIs ==
  ASSUME CoderFits, NEW bits, BitsFit(bits), NEW f \in Nat \ {0}, f <= Pow[bits]
  PROVE  LET m == f * Pow[coder.lower - bits]
         IN /\ m \in Nat \ {0} /\ m <= Lower /\ Pow[coder.lower - bits] \in Nat \ {0}
            /\ Pow[bits] \in Nat \ {0} /\ Pow[coder.lower - bits] * Pow[bits] = Lower
            /\ f * Pow[StateBits - bits] = m * Pow[coder.unit]
            /\ Pow[StateBits - bits] = Pow[coder.lower - bits] * Pow[coder.unit]
            /\ coder.units = 2 => Lower <= m * Pow[coder.unit]
<1> DEFINE k == coder.lower - bits
           b == Pow[bits]
           K == Pow[k]
           u == Pow[coder.unit]
           m == f * K
           L == Lower
<1>1. k \in Nat /\ bits \in Nat /\ coder.unit \in Nat \ {0} /\ coder.lower \in Nat
  BY DEF BitsFit, CoderFits
<1>2. K \in Nat \ {0} /\ b \in Nat \ {0} /\ u \in Nat \ {0} /\ L \in Nat \ {0}
  BY <1>1, PowIn, WidthsAre
<1>3. K * b = L
  <2>1. k + bits = coder.lower
    BY <1>1
  <2> HIDE DEF k
  <2>2. Pow[k + bits] = Pow[k] * Pow[bits]
    BY <1>1, PowPlus
  <2> QED
    BY <2>1, <2>2 DEF Lower
<1>4. Pow[StateBits - bits] = K * u
  <2>1. StateBits - bits = k + coder.unit
    BY <1>1 DEF StateBits
  <2>2. Pow[k + coder.unit] = Pow[k] * Pow[coder.unit]
    BY <1>1, PowPlus
  <2> QED
    BY <2>1, <2>2
<1>5. coder.units = 2 => b <= u
  BY <1>1, PowGrows DEF BitsFit
<1> HIDE DEF k, b, K, u, L
<1>6. m \in Nat \ {0}
  BY <1>2, Positive
<1>7. m <= L
  <2>1. f <= b
    BY DEF b
  <2>2. f * K <= b * K /\ b * K = K * b
    BY <1>2, <2>1, Grows, Products
  <2> QED
    BY <1>3, <2>2
<1>8. f * (K * u) = m * u
  <2>1. f \in Nat /\ K \in Nat /\ u \in Nat
    BY <1>2
  <2> QED
    BY <2>1
<1>9. coder.units = 2 => L <= m * u
  <2>1. ASSUME coder.units = 2 PROVE L <= m * u
    <3>1. K <= m
      BY <1>2, Positive
    <3>2. b * K <= u * K /\ b * K = K * b /\ u * K = K * u
      BY <1>2, <1>5, <2>1, Grows, Products
    <3>3. K * u <= m * u /\ K * u \in Nat /\ m * u \in Nat
      BY <1>2, <1>6, <3>1, Grows
    <3> QED
      BY <1>2, <1>3, <3>2, <3>3
  <2> QED
    BY <2>1
<1> QED
  BY <1>2, <1>3, <1>4, <1>6, <1>7, <1>8, <1>9 DEF k, b, K, u, L

(* The state after a symbol that begins at start and has frequency f.      *)
Stacked(y, f, start, bits) == (y \div f) * Pow[bits] + (start + (y % f))

(* The new state is in the interval, and its parts can be told.            *)
LEMMA StackedIs ==
  ASSUME CoderFits, NEW bits, BitsFit(bits), NEW f \in Nat \ {0}, NEW start \in Nat,
         start + f <= Pow[bits], NEW y \in Nat,
         f * Pow[coder.lower - bits] <= y, y < (f * Pow[coder.lower - bits]) * Pow[coder.unit]
  PROVE  LET z == Stacked(y, f, start, bits)
         IN /\ InRange(z)
            /\ z \div Pow[bits] = y \div f /\ z % Pow[bits] = start + (y % f)
            /\ f * (z \div Pow[bits]) + (z % Pow[bits]) - start = y
            /\ z % Pow[bits] \in Nat /\ start <= z % Pow[bits] /\ z % Pow[bits] < start + f
<1> DEFINE b == Pow[bits]
           K == Pow[coder.lower - bits]
           u == Pow[coder.unit]
           a == y \div f
           r == y % f
           c == start + r
           z == a * b + c
           S == Pow[StateBits]
           L == Lower
<1>1. a \in Nat /\ r \in Nat /\ r < f /\ y = f * a + r /\ f * a \in Nat
  BY Quotient
<1>2. f <= b
  <2>1. b \in Nat
    BY PowIn DEF BitsFit
  <2> HIDE DEF b
  <2>2. start + f <= b
    BY DEF b
  <2> QED
    BY <2>1, <2>2
<1>3. /\ K \in Nat \ {0} /\ b \in Nat \ {0} /\ u \in Nat \ {0} /\ L \in Nat \ {0} /\ S \in Nat
      /\ K * b = L /\ S = L * u
  BY <1>2, LimitIs, WidthsAre
<1>4. f * K <= y /\ y < (f * K) * u /\ start + f <= b
  OBVIOUS
<1> HIDE DEF b, K, u, a, r, S, L
<1>5. c \in Nat /\ c < b /\ start <= c /\ c < start + f /\ c - start = r
  BY <1>1, <1>3, <1>4
<1>6. K <= a
  BY <1>3, <1>4, QuotientOrder DEF a
<1>7. a < K * u /\ K * u \in Nat
  <2>1. (f * K) * u = f * (K * u) /\ K * u \in Nat
    BY <1>3
  <2>2. y < f * (K * u)
    BY <1>4, <2>1
  <2>3. K * u \in Nat
    BY <2>1
  <2> DEFINE Ku == K * u
  <2> HIDE DEF Ku
  <2>4. y < f * Ku /\ Ku \in Nat
    BY <2>2, <2>3 DEF Ku
  <2>5. a < Ku
    BY <2>4, QuotientOrder DEF a
  <2> QED
    BY <2>3, <2>5 DEF Ku
<1>8. L <= a * b /\ a * b \in Nat
  BY <1>1, <1>3, <1>6, Grows
<1>9. (a + 1) * b <= S /\ (a + 1) * b = a * b + b
  <2> DEFINE Ku == K * u
  <2>1. a + 1 \in Nat /\ a + 1 <= Ku /\ Ku \in Nat
    BY <1>1, <1>7
  <2>2. Ku * b = S
    <3>1. (K * u) * b = (K * b) * u
      BY <1>3
    <3> QED
      BY <1>3, <3>1
  <2> HIDE DEF Ku
  <2>3. (a + 1) * b <= Ku * b
    BY <1>3, <2>1, Grows
  <2>4. (a + 1) * b = a * b + b
    BY <1>1, <1>3
  <2> QED
    BY <2>2, <2>3, <2>4
<1> DEFINE ab == a * b
<1>10. ab \in Nat /\ L <= ab /\ ab + b <= S
  BY <1>8, <1>9
<1>11. z \in Nat /\ L <= z /\ z < S
  <2>1. z = ab + c
    OBVIOUS
  <2> HIDE DEF ab, c, z
  <2> QED
    BY <1>3, <1>5, <1>10, <2>1
<1>12. z \div b = a /\ z % b = c
  <2>1. z = b * a + c
    BY <1>1, <1>3, <1>5, Products
  <2> HIDE DEF z, c
  <2>2. (b * a + c) \div b = a /\ (b * a + c) % b = c
    BY <1>1, <1>3, <1>5, QuotientIs
  <2> QED
    BY <2>1, <2>2
<1>13. f * (z \div b) + (z % b) - start = y
  <2> HIDE DEF z
  <2>1. f * (z \div b) + (z % b) - start = f * a + c - start
    BY <1>12
  <2> QED
    BY <1>1, <1>5, <2>1
<1>14. z = Stacked(y, f, start, bits)
  BY DEF Stacked, a, b, r
<1>15. InRange(z)
  BY <1>11 DEF InRange, L, S
<1> HIDE DEF z, c
<1>16. z % b \in Nat /\ start <= z % b /\ z % b < start + f
  BY <1>5, <1>12
<1> QED
  BY <1>12, <1>13, <1>14, <1>15, <1>16 DEF b, a, r, c

(* Advance undoes a symbol or a digit that went in.                        *)
LEMMA StackedReturns ==
  ASSUME CoderFits, NEW bits, BitsFit(bits), NEW f \in Nat \ {0}, NEW start \in Nat,
         start + f <= Pow[bits], NEW v, NEW q, NEW r,
         Renormed(v, q, f * Pow[coder.lower - bits], r), NEW w
  PROVE  Advance(Opened(Stacked(r.x, f, start, bits), r.data, w), start, f, bits) = Opened(v, q, w)
<1> DEFINE z == Stacked(r.x, f, start, bits)
           s == Opened(z, r.data, w)
           y == f * (z \div Pow[bits]) + (z % Pow[bits]) - start
<1>1. /\ r.x \in Nat /\ f * Pow[coder.lower - bits] <= r.x
      /\ r.x < (f * Pow[coder.lower - bits]) * Pow[coder.unit]
      /\ Refill(Opened(r.x, r.data, w)) = Opened(v, q, w)
  BY DEF Renormed
<1>2. y = r.x
  BY <1>1, StackedIs
<1> HIDE DEF z
<1>3. s.x = z
  BY OpenedFields
<1>4. Advance(s, start, f, bits) = Refill(WithX(s, f * (s.x \div Pow[bits]) + (s.x % Pow[bits]) - start))
  BY DEF Advance, WithX
<1>5. f * (s.x \div Pow[bits]) + (s.x % Pow[bits]) - start = r.x
  BY <1>2, <1>3
<1>6. WithX(s, r.x) = Opened(r.x, r.data, w)
  BY Replaced
<1> HIDE DEF s
<1>7. Advance(s, start, f, bits) = Opened(v, q, w)
  BY <1>1, <1>4, <1>5, <1>6
<1> QED
  BY <1>7 DEF s, z

-----------------------------------------------------------------------------
(* The multiplication and the shift that stand for a division.             *)

(* The shift of enc_sym_init reaches the frequency.                        *)
LEMMA ShiftIs ==
  ASSUME NEW f \in Nat, f > 1, f <= Pow[SymbolBits]
  PROVE  Shift(f) \in Nat /\ f <= Pow[Shift(f)]
<1> DEFINE p == [n \in Nat |-> Pow[n]]
           good(n) == f <= p[n] /\ \A k \in 1 .. n - 1 : f > p[k]
           T == {n \in 1 .. SymbolBits : f <= p[n]}
<1>1. SymbolBits \in Nat \ {0}
  BY WidthsAssumption
<1>2. \A n \in Nat : p[n] \in Nat
  BY PowIn
<1>3. SymbolBits \in T
  BY <1>1
<1>4. PICK m \in T : \A k \in T : m <= k
  <2>1. T \subseteq Nat /\ T # {}
    BY <1>1, <1>3
  <2> HIDE DEF T
  <2> QED
    BY <2>1, LeastNumber
<1>5. m \in 1 .. SymbolBits /\ f <= p[m]
  BY <1>4
<1>6. \A k \in 1 .. m - 1 : f > p[k]
  <2>1. ASSUME NEW k \in 1 .. m - 1 PROVE f > p[k]
    <3>1. k \in 1 .. SymbolBits /\ ~(m <= k) /\ k \in Nat
      BY <1>1, <1>5
    <3>2. k \notin T
      BY <1>4, <3>1
    <3>3. p[k] \in Nat
      BY <1>2, <3>1
    <3> QED
      BY <3>1, <3>2, <3>3
  <2> QED
    BY <2>1
<1>7. \E n \in 1 .. SymbolBits : good(n)
  BY <1>5, <1>6
<1>8. Shift(f) = CHOOSE n \in 1 .. SymbolBits : good(n)
  <2>1. \A n \in 1 .. SymbolBits : n \in Nat /\ p[n] = Pow[n] /\ \A k \in 1 .. n - 1 : p[k] = Pow[k]
    BY <1>1
  <2> QED
    BY <2>1 DEF Shift
<1> HIDE DEF good
<1>9. Shift(f) \in 1 .. SymbolBits /\ good(Shift(f))
  BY <1>7, <1>8
<1> QED
  BY <1>1, <1>9 DEF good

(* The arithmetic: n stands for the power above the frequency and s for    *)
(* that above the number.                                                  *)
LEMMA ReciprocalDivides ==
  ASSUME NEW f \in Nat \ {0}, NEW n \in Nat, f <= n, NEW s \in Nat \ {0}, NEW y \in Nat, y < s
  PROVE  (y * ((n * s + f - 1) \div f)) \div (n * s) = y \div f
<1> DEFINE P == n * s
           t == P + f - 1
           R == t \div f
           e == f - 1 - (t % f)
           a == y \div f
           b == y % f
           z == y * R
<1>1. P \in Nat \ {0} /\ n \in Nat \ {0}
  <2>1. n \in Nat \ {0}
    OBVIOUS
  <2> QED
    BY <2>1, Positive
<1> HIDE DEF P
<1>2. t \in Nat
  BY <1>1
<1> HIDE DEF t
<1>3. R \in Nat /\ t % f \in Nat /\ t % f < f /\ t = f * R + (t % f) /\ f * R \in Nat
  BY <1>2, Quotient
<1> HIDE DEF R
<1> DEFINE fR == f * R
<1>4. fR \in Nat /\ e \in Nat /\ e < f /\ fR = P + e
  <2> DEFINE rest == t % f
  <2>1. fR \in Nat /\ rest \in Nat /\ rest < f /\ t = fR + rest /\ t = P + f - 1
    BY <1>3 DEF t
  <2> HIDE DEF fR, rest
  <2>2. f - 1 - rest \in Nat /\ f - 1 - rest < f /\ fR = P + (f - 1 - rest)
    BY <1>1, <2>1
  <2> QED
    BY <2>1, <2>2 DEF rest
<1> HIDE DEF e
<1>5. a \in Nat /\ b \in Nat /\ b < f /\ y = f * a + b /\ f * a \in Nat
  BY Quotient
<1> HIDE DEF a, b
(* f times the product, in two ways.                                      *)
<1>6. f * z = y * P + y * e /\ z \in Nat /\ y * P \in Nat /\ y * e \in Nat
  <2>1. z \in Nat /\ y * P \in Nat /\ y * e \in Nat
    BY <1>1, <1>3, <1>4, Products
  <2>2. f * (y * R) = y * (f * R)
    BY <1>3
  <2>3. y * fR = y * (P + e)
    BY <1>4
  <2>4. y * (P + e) = y * P + y * e
    BY <1>1, <1>4
  <2> QED
    BY <2>1, <2>2, <2>3, <2>4
<1>7. y * P = f * (P * a) + b * P /\ P * a \in Nat /\ b * P \in Nat
  <2>1. (f * a + b) * P = f * (P * a) + b * P
    BY <1>1, <1>5
  <2> QED
    BY <1>1, <1>5, <2>1, Products
<1>8. y * e < P
  <2>1. y * e <= y * n
    <3>1. e <= n /\ e \in Nat
      BY <1>4
    <3>2. e * y <= n * y /\ e * y = y * e /\ n * y = y * n
      BY <3>1, Grows, Products
    <3> QED
      BY <3>2
  <2>2. y * n < n * s
    <3>1. y + 1 <= s /\ y + 1 \in Nat
      OBVIOUS
    <3>2. (y + 1) * n <= s * n
      BY <3>1, Grows
    <3>3. (y + 1) * n = y * n + n /\ s * n = n * s /\ y * n \in Nat /\ s * n \in Nat
      OBVIOUS
    <3> QED
      BY <1>1, <3>2, <3>3
  <2>3. y * n \in Nat /\ n * s \in Nat /\ y * e \in Nat
    BY <1>6, Products
  <2> QED
    BY <2>1, <2>2, <2>3 DEF P
(* So it lies between f times P a and f times P (a + 1).                   *)
<1> DEFINE fz == f * z
           Pa == P * a
           fPa == f * Pa
           yP == y * P
           ye == y * e
           bP == b * P
<1>9. /\ fz = yP + ye /\ yP = fPa + bP /\ ye < P
      /\ z \in Nat /\ Pa \in Nat /\ bP \in Nat /\ ye \in Nat /\ yP \in Nat
  BY <1>6, <1>7, <1>8
<1> HIDE DEF z
<1>10. Pa <= z
  <2>1. ASSUME z < Pa PROVE FALSE
    <3>1. fz < fPa /\ fz \in Nat /\ fPa \in Nat
      <4> HIDE DEF Pa
      <4>1. z + 1 <= Pa /\ z + 1 \in Nat
        BY <1>9, <2>1
      <4>2. (z + 1) * f <= Pa * f /\ (z + 1) * f = z * f + f /\ Pa * f = fPa /\ z * f = fz
        BY <1>9, <4>1, Grows
      <4>3. z * f \in Nat /\ Pa * f \in Nat
        BY <1>9, Products
      <4> QED
        BY <4>2, <4>3
    <3> HIDE DEF fz, fPa, yP, ye, bP
    <3> QED
      BY <1>9, <3>1
  <2> QED
    BY <1>9, <2>1
<1>11. z < P * (a + 1) /\ P * (a + 1) = Pa + P
  <2>1. P * (a + 1) = Pa + P
    BY <1>1, <1>5
  <2>2. ASSUME Pa + P <= z PROVE FALSE
    <3>1. f * (Pa + P) <= fz /\ f * (Pa + P) = fPa + f * P /\ f * P \in Nat /\ fPa \in Nat /\ fz \in Nat
      <4> HIDE DEF Pa
      <4>1. Pa + P \in Nat
        BY <1>1, <1>9
      <4>2. (Pa + P) * f <= z * f /\ z * f = fz
        BY <1>9, <2>2, <4>1, Grows
      <4>3. (Pa + P) * f = f * (Pa + P) /\ f * (Pa + P) = fPa + f * P
        BY <1>1, <1>9
      <4>4. f * P \in Nat /\ fPa \in Nat /\ fz \in Nat
        BY <1>1, <1>9, Products
      <4> QED
        BY <4>2, <4>3, <4>4
    <3>2. bP + P <= f * P
      <4>1. b + 1 <= f /\ b + 1 \in Nat
        BY <1>5
      <4>2. (b + 1) * P <= f * P /\ (b + 1) * P = bP + P
        BY <1>1, <1>5, <4>1, Grows
      <4> QED
        BY <4>2
    <3> DEFINE fP == f * P
    <3>3. fPa + fP <= fz /\ bP + P <= fP /\ fP \in Nat /\ fPa \in Nat /\ fz \in Nat
      BY <3>1, <3>2
    <3> HIDE DEF fz, fPa, yP, ye, bP, fP
    <3> QED
      BY <1>1, <1>9, <3>3
  <2> HIDE DEF Pa
  <2> QED
    BY <1>1, <1>9, <2>1, <2>2
<1>12. z \div P = a
  <2> HIDE DEF Pa
  <2>1. z - Pa \in Nat /\ z - Pa < P /\ z = Pa + (z - Pa)
    BY <1>1, <1>9, <1>10, <1>11
  <2> DEFINE rest == z - Pa
  <2> HIDE DEF rest
  <2>2. rest \in Nat /\ rest < P /\ z = P * a + rest
    BY <2>1 DEF rest, Pa
  <2>3. (P * a + rest) \div P = a
    BY <1>1, <1>5, <2>2, QuotientIs
  <2> QED
    BY <2>2, <2>3
<1> QED
  BY <1>12 DEF z, R, t, P, a

(* A frequency of one: the quotient is one less than the number.           *)
LEMMA OneDivides ==
  ASSUME NEW s \in Nat, NEW y \in Nat \ {0}, y < s
  PROVE  (y * (2 * s - 1)) \div (2 * s) = y - 1
<1> DEFINE n == 2 * s
           q == y - 1
           r == n - y
<1>1. n \in Nat \ {0} /\ q \in Nat /\ r \in Nat /\ r < n
  OBVIOUS
<1>2. y * (n - 1) = n * q + r
  <2> DEFINE yn == y * n
  <2>1. y * (n - 1) = yn - y /\ n * q = yn - n
    <3> HIDE DEF n
    <3> QED
      BY <1>1
  <2> HIDE DEF yn, n
  <2> QED
    BY <1>1, <2>1
<1> HIDE DEF n, q, r
<1>3. (n * q + r) \div n = q
  BY <1>1, QuotientIs
<1>4. (y * (n - 1)) \div n = q
  BY <1>2, <1>3
<1> QED
  BY <1>4 DEF n, q

-----------------------------------------------------------------------------
(* A symbol and a digit come back.                                         *)

(* A state that the encoder may be in, and the decoder's view of it.       *)
InUse(s) == s = [x |-> s.x, data |-> s.data] /\ InRange(s.x) /\ s.data \in Seq(Nat)
Reopened(s, w) == Opened(s.x, s.data, w)

(* put_sym computes by multiplication what a division would.               *)
LEMMA SymbolStacks ==
  ASSUME CoderFits, NEW f \in Nat \ {0}, NEW start \in Nat, start + f <= Pow[SymbolBits],
         NEW y \in Nat \ {0}, y < Pow[StateBits]
  PROVE  y + ((y * Reciprocal(f)) \div Pow[RcpShift(f)]) * (Pow[SymbolBits] - f) + Bias(start, f)
           = Stacked(y, f, start, SymbolBits)
<1> DEFINE b == Pow[SymbolBits]
           S == Pow[StateBits]
           a == y \div f
           r == y % f
           quotient == (y * Reciprocal(f)) \div Pow[RcpShift(f)]
<1>1. /\ SymbolBits \in Nat /\ StateBits \in Nat /\ b \in Nat \ {0} /\ S \in Nat \ {0} /\ y < S
      /\ start + f <= b
  BY WidthsAssumption, WidthsAre, PowIn
<1>2. a \in Nat /\ r \in Nat /\ y = f * a + r
  BY Quotient
<1>3. f <= b
  <2> HIDE DEF b
  <2> QED
    BY <1>1
<1>4. Stacked(y, f, start, SymbolBits) = a * b + (start + r)
  BY DEF Stacked
<1>5. CASE f > 1
  <2> DEFINE n == Pow[Shift(f)]
  <2>1. f <= n /\ n \in Nat /\ Shift(f) \in Nat
    BY <1>3, <1>5, ShiftIs, PowIn
  <2>2. Pow[Shift(f) + StateBits] = n * S
    BY <1>1, <2>1, PowPlus
  <2>3. Reciprocal(f) = (n * S + f - 1) \div f /\ Pow[RcpShift(f)] = n * S /\ Bias(start, f) = start
    BY <1>5, <2>2 DEF Reciprocal, RcpShift, Bias
  <2> HIDE DEF n, S
  <2>4. quotient = a
    BY <1>1, <2>1, <2>3, ReciprocalDivides
  <2> HIDE DEF quotient, a, r, b
  <2>5. y + a * (b - f) + start = a * b + (start + r)
    <3>1. a * (b - f) = a * b - f * a
      BY <1>1, <1>2
    <3> DEFINE ab == a * b
               fa == f * a
    <3>2. ab \in Nat /\ fa \in Nat /\ y = fa + r /\ a * (b - f) = ab - fa
      BY <1>1, <1>2, <3>1, Products
    <3> HIDE DEF ab, fa
    <3>3. y + (ab - fa) + start = ab + (start + r)
      BY <1>2, <3>2
    <3> QED
      BY <3>2, <3>3 DEF ab
  <2> QED
    BY <1>4, <2>3, <2>4, <2>5 DEF b, quotient
<1>6. CASE f = 1
  <2>1. a = y /\ r = 0
    BY <1>6
  <2>2. Pow[StateBits + 1] = 2 * S
    <3>1. StateBits + 1 \in Nat \ {0} /\ (StateBits + 1) - 1 = StateBits
      BY <1>1
    <3> QED
      BY <3>1, PowDoubles
  <2>3. /\ Reciprocal(f) = 2 * S - 1 /\ Pow[RcpShift(f)] = 2 * S
        /\ Bias(start, f) = start + b - 1
    BY <1>6, <2>2 DEF Reciprocal, RcpShift, Bias
  <2> HIDE DEF S
  <2>4. quotient = y - 1
    BY <1>1, <2>3, OneDivides
  <2> HIDE DEF quotient, a, r, b
  <2>5. y + (y - 1) * (b - 1) + (start + b - 1) = y * b + (start + 0)
    <3>1. (y - 1) * (b - 1) = y * b - y - b + 1
      BY <1>1
    <3> DEFINE yb == y * b
    <3>2. yb \in Nat /\ (y - 1) * (b - 1) = yb - y - b + 1
      BY <1>1, <3>1, Products
    <3> HIDE DEF yb
    <3>3. y + (yb - y - b + 1) + (start + b - 1) = yb + (start + 0)
      BY <1>1, <3>2
    <3> QED
      BY <3>2, <3>3 DEF yb
  <2>6. y + quotient * (b - f) + Bias(start, f) = a * b + (start + r)
    BY <1>6, <2>1, <2>3, <2>4, <2>5
  <2> QED
    BY <1>4, <2>6 DEF b, quotient
<1> QED
  BY <1>5, <1>6

(* Renorm of a state that is in use.                                       *)
LEMMA RenormIn ==
  ASSUME CoderFits, NEW bits, BitsFit(bits), NEW f \in Nat \ {0}, f <= Pow[bits],
         NEW s, InUse(s)
  PROVE  LET r == Renorm(s, f * Pow[StateBits - bits])
         IN /\ Renormed(s.x, s.data, f * Pow[coder.lower - bits], r)
            /\ r.x \in Nat \ {0} /\ r.x < Pow[StateBits] /\ r.data \in Seq(Nat)
            /\ r = [x |-> r.x, data |-> r.data]
<1> DEFINE v == s.x
           q == s.data
           m == f * Pow[coder.lower - bits]
           u == Pow[coder.unit]
           r == Renorm(s, f * Pow[StateBits - bits])
<1>1. InRange(v) /\ q \in Seq(Nat) /\ s = [x |-> v, data |-> q]
  BY DEF InUse
<1>2. /\ m \in Nat \ {0} /\ m <= Lower /\ f * Pow[StateBits - bits] = m * u
      /\ (coder.units = 2 => Lower <= m * u)
  BY LimitIs
<1> HIDE DEF v, q, m
<1>3. r = Renorm([x |-> v, data |-> q], m * Pow[coder.unit])
  BY <1>1, <1>2
<1> HIDE DEF r
<1>4. Renormed(v, q, m, r)
  BY <1>1, <1>2, <1>3, RenormReturns
<1>5. /\ r.x \in Nat /\ m <= r.x /\ r.x < m * u /\ r.data \in Seq(Nat)
      /\ r = [x |-> r.x, data |-> r.data]
  BY <1>4 DEF Renormed
<1>6. /\ m * u <= Lower * u /\ m * u \in Nat /\ Lower * u = Pow[StateBits] /\ Lower * u \in Nat
  <2>1. u \in Nat /\ Lower \in Nat /\ Lower * u = Pow[StateBits]
    BY WidthsAre
  <2> HIDE DEF u
  <2> QED
    BY <1>2, <2>1, Grows
<1> HIDE DEF u
<1>7. r.x \in Nat \ {0} /\ r.x < Pow[StateBits]
  <2> DEFINE y == r.x
             mu == m * u
             lu == Lower * u
  <2>1. y \in Nat /\ m <= y /\ y < mu /\ mu <= lu /\ mu \in Nat /\ lu \in Nat /\ lu = Pow[StateBits]
    BY <1>5, <1>6
  <2> HIDE DEF y, mu, lu
  <2>2. y \in Nat \ {0} /\ y < lu
    BY <1>2, <2>1
  <2> QED
    BY <2>1, <2>2 DEF y
<1> QED
  BY <1>4, <1>5, <1>7 DEF r, v, q, m

(* Symbols and digits fit the coder.                                       *)
LEMMA SymbolFits ==
  ASSUME CoderFits
  PROVE  BitsFit(SymbolBits) /\ BitsFit(BypassBits) /\ SymbolBits \in Nat /\ BypassBits \in Nat \ {0}
BY WidthsAssumption DEF CoderFits, BitsFit

(* A symbol comes back: put_sym, then advance.                             *)
LEMMA SymbolReturns ==
  ASSUME CoderFits, NEW s, InUse(s), NEW start \in Nat, NEW f \in Nat \ {0},
         start + f <= Pow[SymbolBits]
  PROVE  LET t == PutSym(s, start, f)
         IN /\ InUse(t)
            /\ t.x % Pow[SymbolBits] \in Nat
            /\ start <= t.x % Pow[SymbolBits] /\ t.x % Pow[SymbolBits] < start + f
            /\ \A w : Advance(Reopened(t, w), start, f, SymbolBits) = Reopened(s, w)
<1> DEFINE r == Renorm(s, f * Pow[StateBits - SymbolBits])
           y == r.x
           z == Stacked(y, f, start, SymbolBits)
           t == PutSym(s, start, f)
<1>1. BitsFit(SymbolBits) /\ f <= Pow[SymbolBits]
  <2>1. BitsFit(SymbolBits) /\ Pow[SymbolBits] \in Nat /\ start + f <= Pow[SymbolBits]
    BY SymbolFits, PowIn
  <2> QED
    BY <2>1
<1>2. /\ Renormed(s.x, s.data, f * Pow[coder.lower - SymbolBits], r)
      /\ y \in Nat \ {0} /\ y < Pow[StateBits] /\ r.data \in Seq(Nat)
      /\ r = [x |-> r.x, data |-> r.data]
  BY <1>1, RenormIn
<1>3. f * Pow[coder.lower - SymbolBits] <= y
      /\ y < (f * Pow[coder.lower - SymbolBits]) * Pow[coder.unit]
  BY <1>2 DEF Renormed
<1> DEFINE n == y + ((y * Reciprocal(f)) \div Pow[RcpShift(f)]) * (Pow[SymbolBits] - f) + Bias(start, f)
<1>4. t = [r EXCEPT !.x = n]
  BY DEF PutSym
<1> HIDE DEF r
<1>5. n = z
  <2> HIDE DEF y
  <2> QED
    BY <1>2, SymbolStacks
<1> HIDE DEF n
<1>6. t = [x |-> z, data |-> r.data]
  <2> HIDE DEF z, t
  <2> DEFINE q == r.data
  <2>1. r = [x |-> y, data |-> q]
    BY <1>2
  <2> HIDE DEF q, y
  <2>2. t = [x |-> n, data |-> q]
    BY <1>4, <2>1
  <2> QED
    BY <1>5, <2>2 DEF q
<1>7. /\ InRange(z) /\ z % Pow[SymbolBits] \in Nat
      /\ start <= z % Pow[SymbolBits] /\ z % Pow[SymbolBits] < start + f
  <2> HIDE DEF y
  <2> QED
    BY <1>1, <1>2, <1>3, StackedIs
<1>8. \A w : Advance(Opened(z, r.data, w), start, f, SymbolBits) = Opened(s.x, s.data, w)
  BY <1>1, <1>2, StackedReturns
<1> HIDE DEF z, t
<1>9. t.x = z /\ t.data = r.data /\ t = [x |-> t.x, data |-> t.data]
  BY <1>6
<1>10. InUse(t)
  BY <1>2, <1>7, <1>9 DEF InUse
<1>11. \A w : Advance(Reopened(t, w), start, f, SymbolBits) = Reopened(s, w)
  BY <1>8, <1>9 DEF Reopened
<1>12. /\ t.x % Pow[SymbolBits] \in Nat
       /\ start <= t.x % Pow[SymbolBits] /\ t.x % Pow[SymbolBits] < start + f
  BY <1>7, <1>9
<1> QED
  BY <1>10, <1>11, <1>12 DEF t

(* A raw digit comes back: put_raw, then its reader.                       *)
LEMMA DigitReturns ==
  ASSUME CoderFits, NEW s, InUse(s), NEW digit \in Nat, digit < Pow[BypassBits]
  PROVE  LET t == PutRaw(s, digit)
         IN /\ InUse(t)
            /\ \A w : /\ Digit(Reopened(t, w)) = digit
                      /\ GetDigit(Reopened(t, w)) = Reopened(s, w)
<1> DEFINE r == Renorm(s, 1 * Pow[StateBits - BypassBits])
           y == r.x
           z == Stacked(y, 1, digit, BypassBits)
           t == PutRaw(s, digit)
<1>1. BitsFit(BypassBits) /\ 1 <= Pow[BypassBits] /\ digit + 1 <= Pow[BypassBits]
      /\ 1 \in Nat \ {0}
  <2>1. BitsFit(BypassBits) /\ Pow[BypassBits] \in Nat \ {0}
    BY SymbolFits, PowIn
  <2> QED
    BY <2>1
<1>2. /\ Renormed(s.x, s.data, 1 * Pow[coder.lower - BypassBits], r)
      /\ y \in Nat \ {0} /\ y < Pow[StateBits] /\ r.data \in Seq(Nat)
      /\ r = [x |-> r.x, data |-> r.data]
  BY <1>1, RenormIn
<1>3. 1 * Pow[coder.lower - BypassBits] <= y
      /\ y < (1 * Pow[coder.lower - BypassBits]) * Pow[coder.unit]
  BY <1>2 DEF Renormed
<1> DEFINE n == y * Pow[BypassBits] + digit
<1>4. t = [r EXCEPT !.x = n]
  <2>1. Pow[StateBits - BypassBits] = 1 * Pow[StateBits - BypassBits]
    <3>1. /\ Pow[StateBits - BypassBits] = Pow[coder.lower - BypassBits] * Pow[coder.unit]
          /\ Pow[coder.lower - BypassBits] \in Nat \ {0}
      BY <1>1, LimitIs
    <3>2. Pow[coder.unit] \in Nat
      BY WidthsAre
    <3> QED
      BY <3>1, <3>2
  <2> QED
    BY <2>1 DEF PutRaw
<1> HIDE DEF r
<1>5. n = z
  <2> HIDE DEF y
  <2>1. y \div 1 = y /\ y % 1 = 0
    BY <1>2
  <2> QED
    BY <2>1 DEF Stacked
<1> HIDE DEF n
<1>6. t = [x |-> z, data |-> r.data]
  <2> HIDE DEF z, t
  <2> DEFINE q == r.data
  <2>1. r = [x |-> y, data |-> q]
    BY <1>2
  <2> HIDE DEF q, y
  <2>2. t = [x |-> n, data |-> q]
    BY <1>4, <2>1
  <2> QED
    BY <1>5, <2>2 DEF q
<1>7. /\ InRange(z) /\ z % Pow[BypassBits] \in Nat
      /\ digit <= z % Pow[BypassBits] /\ z % Pow[BypassBits] < digit + 1
  <2> HIDE DEF y
  <2> QED
    BY <1>1, <1>2, <1>3, StackedIs
<1>8. \A w : Advance(Opened(z, r.data, w), digit, 1, BypassBits) = Opened(s.x, s.data, w)
  <2>1. PICK f \in Nat \ {0} : f = 1
    BY <1>1
  <2>2. Renormed(s.x, s.data, f * Pow[coder.lower - BypassBits], r) /\ digit + f <= Pow[BypassBits]
    BY <1>1, <1>2, <2>1
  <2> HIDE DEF z
  <2>3. \A w : Advance(Opened(Stacked(r.x, f, digit, BypassBits), r.data, w), digit, f, BypassBits)
                = Opened(s.x, s.data, w)
    BY <1>1, <2>2, StackedReturns
  <2>4. Stacked(r.x, f, digit, BypassBits) = z
    BY <2>1 DEF z
  <2> QED
    BY <2>1, <2>3, <2>4
<1> HIDE DEF z, t
<1>9. t.x = z /\ t.data = r.data /\ t = [x |-> t.x, data |-> t.data]
  BY <1>6
<1>10. InUse(t)
  BY <1>2, <1>7, <1>9 DEF InUse
<1>11. ASSUME NEW w
       PROVE  Digit(Reopened(t, w)) = digit /\ GetDigit(Reopened(t, w)) = Reopened(s, w)
  <2>1. Reopened(t, w).x = z
    BY <1>9, OpenedFields DEF Reopened
  <2>2. z % Pow[BypassBits] = digit
    BY <1>7
  <2>3. Digit(Reopened(t, w)) = digit
    BY <2>1, <2>2 DEF Digit
  <2>4. Advance(Reopened(t, w), digit, 1, BypassBits) = Reopened(s, w)
    BY <1>8, <1>9 DEF Reopened
  <2> QED
    BY <2>3, <2>4 DEF GetDigit
<1> QED
  BY <1>10, <1>11 DEF t

-----------------------------------------------------------------------------
(* Digits one after the other.                                             *)

PutOn(s, digits, f, k) == IF k = 0 THEN s ELSE PutRaw(f[k - 1], digits[k])
GotOn(s, f, k)         == IF k = 0 THEN s ELSE GetDigit(f[k - 1])

(* Put follows its recursion.                                              *)
LEMMA PutIs ==
  ASSUME NEW s, NEW digits, Len(digits) \in Nat
  PROVE  \A k \in 0 .. Len(digits) : Put(s, digits)[k] = PutOn(s, digits, Put(s, digits), k)
<1> DEFINE N == Len(digits)
           follows(f) == f = [k \in 0 .. N |-> PutOn(s, digits, f, k)]
           put == CHOOSE f : follows(f)
           upto(m) == \E f : /\ f = [k \in 0 .. N |-> f[k]]
                             /\ \A k \in 0 .. m : f[k] = PutOn(s, digits, f, k)
           T == {m \in 0 .. N : upto(m)}
<1>1. N \in Nat
  OBVIOUS
<1>2. Put(s, digits) = put
  BY DEF Put, PutOn
<1> HIDE DEF N
<1>3. 0 \in T
  <2> DEFINE f == [k \in 0 .. N |-> s]
  <2>1. f = [k \in 0 .. N |-> f[k]] /\ f[0] = s
    BY <1>1
  <2> HIDE DEF f
  <2>2. \A k \in 0 .. 0 : f[k] = PutOn(s, digits, f, k)
    BY <2>1 DEF PutOn
  <2>3. upto(0)
    BY <2>1, <2>2
  <2> QED
    BY <1>1, <2>3
<1>4. ASSUME NEW m \in 1 .. N, m - 1 \in T
      PROVE  m \in T
  <2>1. PICK f : /\ f = [k \in 0 .. N |-> f[k]]
                 /\ \A k \in 0 .. m - 1 : f[k] = PutOn(s, digits, f, k)
    BY <1>4
  <2> DEFINE new == PutRaw(f[m - 1], digits[m])
             g == [k \in 0 .. N |-> IF k = m THEN new ELSE f[k]]
  <2> HIDE DEF new
  <2>2. g = [k \in 0 .. N |-> g[k]] /\ \A k \in 0 .. N : g[k] = IF k = m THEN new ELSE f[k]
    OBVIOUS
  <2> HIDE DEF g
  <2>3. ASSUME NEW k \in 0 .. m PROVE g[k] = PutOn(s, digits, g, k)
    <3>1. k \in 0 .. N /\ (k # 0 => k - 1 \in 0 .. N /\ k - 1 # m) /\ m # 0
      BY <1>1
    <3>2. CASE k = m
      BY <2>2, <3>1, <3>2 DEF PutOn, new
    <3>3. CASE k # m
      <4>1. k \in 0 .. m - 1
        BY <3>3
      <4> QED
        BY <2>1, <2>2, <3>1, <3>3, <4>1 DEF PutOn
    <3> QED
      BY <3>2, <3>3
  <2>4. upto(m)
    BY <2>2, <2>3
  <2> QED
    BY <1>1, <2>4
<1> HIDE DEF T
<1>5. 0 .. N \subseteq T
  BY <1>1, <1>3, <1>4, Induction
<1>6. N \in T
  BY <1>1, <1>5
<1>7. PICK f : f = [k \in 0 .. N |-> f[k]] /\ \A k \in 0 .. N : f[k] = PutOn(s, digits, f, k)
  BY <1>6 DEF T
<1>8. follows(f)
  BY <1>7
<1>9. follows(put)
  BY <1>8
<1> HIDE DEF put
<1>10. \A k \in 0 .. N : put[k] = PutOn(s, digits, put, k)
  BY <1>9
<1> QED
  BY <1>2, <1>10 DEF N

(* Got follows its recursion.                                              *)
LEMMA GotIs ==
  ASSUME NEW s, MaxDigits \in Nat
  PROVE  \A k \in 0 .. 2 * MaxDigits + 1 : Got(s)[k] = GotOn(s, Got(s), k)
<1> DEFINE N == 2 * MaxDigits + 1
           follows(f) == f = [k \in 0 .. N |-> GotOn(s, f, k)]
           got == CHOOSE f : follows(f)
           upto(m) == \E f : /\ f = [k \in 0 .. N |-> f[k]]
                             /\ \A k \in 0 .. m : f[k] = GotOn(s, f, k)
           T == {m \in 0 .. N : upto(m)}
<1>1. N \in Nat
  OBVIOUS
<1>2. Got(s) = got
  BY DEF Got, GotOn
<1> HIDE DEF N
<1>3. 0 \in T
  <2> DEFINE f == [k \in 0 .. N |-> s]
  <2>1. f = [k \in 0 .. N |-> f[k]] /\ f[0] = s
    BY <1>1
  <2> HIDE DEF f
  <2>2. \A k \in 0 .. 0 : f[k] = GotOn(s, f, k)
    BY <2>1 DEF GotOn
  <2>3. upto(0)
    BY <2>1, <2>2
  <2> QED
    BY <1>1, <2>3
<1>4. ASSUME NEW m \in 1 .. N, m - 1 \in T
      PROVE  m \in T
  <2>1. PICK f : /\ f = [k \in 0 .. N |-> f[k]]
                 /\ \A k \in 0 .. m - 1 : f[k] = GotOn(s, f, k)
    BY <1>4
  <2> DEFINE new == GetDigit(f[m - 1])
             g == [k \in 0 .. N |-> IF k = m THEN new ELSE f[k]]
  <2> HIDE DEF new
  <2>2. g = [k \in 0 .. N |-> g[k]] /\ \A k \in 0 .. N : g[k] = IF k = m THEN new ELSE f[k]
    OBVIOUS
  <2> HIDE DEF g
  <2>3. ASSUME NEW k \in 0 .. m PROVE g[k] = GotOn(s, g, k)
    <3>1. k \in 0 .. N /\ (k # 0 => k - 1 \in 0 .. N /\ k - 1 # m) /\ m # 0
      BY <1>1
    <3>2. CASE k = m
      BY <2>2, <3>1, <3>2 DEF GotOn, new
    <3>3. CASE k # m
      <4>1. k \in 0 .. m - 1
        BY <3>3
      <4> QED
        BY <2>1, <2>2, <3>1, <3>3, <4>1 DEF GotOn
    <3> QED
      BY <3>2, <3>3
  <2>4. upto(m)
    BY <2>2, <2>3
  <2> QED
    BY <1>1, <2>4
<1> HIDE DEF T
<1>5. 0 .. N \subseteq T
  BY <1>1, <1>3, <1>4, Induction
<1>6. N \in T
  BY <1>1, <1>5
<1>7. PICK f : f = [k \in 0 .. N |-> f[k]] /\ \A k \in 0 .. N : f[k] = GotOn(s, f, k)
  BY <1>6 DEF T
<1>8. follows(f)
  BY <1>7
<1>9. follows(got)
  BY <1>8
<1> HIDE DEF got
<1>10. \A k \in 0 .. N : got[k] = GotOn(s, got, k)
  BY <1>9
<1> QED
  BY <1>2, <1>10 DEF N

DigitsIn(digits) ==
  Len(digits) \in Nat /\ \A k \in 1 .. Len(digits) : digits[k] \in Nat /\ digits[k] < Pow[BypassBits]

(* What was put in comes back in the opposite order.                       *)
LEMMA DigitsReturn ==
  ASSUME CoderFits, NEW s, InUse(s), NEW digits, DigitsIn(digits), NEW w,
         MaxDigits \in Nat, Len(digits) <= 2 * MaxDigits + 1
  PROVE  LET N   == Len(digits)
             got == Got(Reopened(PutAll(s, digits), w))
         IN /\ InUse(PutAll(s, digits))
            /\ got[N] = Reopened(s, w)
            /\ \A k \in 0 .. N - 1 : Digit(got[k]) = digits[N - k]
<1> DEFINE N == Len(digits)
           put == Put(s, digits)
           t == Reopened(put[N], w)
           got == Got(t)
           T == {k \in 0 .. N : InUse(put[k])}
           G == {k \in 0 .. N : got[k] = Reopened(put[N - k], w)}
<1>1. /\ N \in Nat /\ N <= 2 * MaxDigits + 1 /\ 2 * MaxDigits + 1 \in Nat
      /\ \A k \in 1 .. N : digits[k] \in Nat /\ digits[k] < Pow[BypassBits]
  BY DEF DigitsIn
<1>2. \A k \in 0 .. N : put[k] = PutOn(s, digits, put, k)
  BY PutIs DEF DigitsIn
<1>3. \A k \in 0 .. N : got[k] = GotOn(t, got, k)
  <2> HIDE DEF t, N
  <2>1. \A k \in 0 .. 2 * MaxDigits + 1 : got[k] = GotOn(t, got, k)
    BY GotIs
  <2> HIDE DEF got
  <2>2. \A k \in 0 .. N : k \in 0 .. 2 * MaxDigits + 1
    BY <1>1
  <2> QED
    BY <2>1, <2>2
<1>4. PutAll(s, digits) = put[N]
  BY DEF PutAll
<1> HIDE DEF N, put, got
<1>5. 0 \in T
  BY <1>1, <1>2 DEF PutOn
<1>6. ASSUME NEW k \in 1 .. N, k - 1 \in T
      PROVE  k \in T
  <2>1. k \in 0 .. N /\ k # 0 /\ digits[k] \in Nat /\ digits[k] < Pow[BypassBits]
    BY <1>1
  <2>2. put[k] = PutRaw(put[k - 1], digits[k]) /\ InUse(put[k - 1])
    BY <1>2, <1>6, <2>1 DEF PutOn
  <2>3. InUse(PutRaw(put[k - 1], digits[k]))
    BY <2>1, <2>2, DigitReturns
  <2> QED
    BY <2>1, <2>2, <2>3
<1> HIDE DEF T
<1>7. 0 .. N \subseteq T
  BY <1>1, <1>5, <1>6, Induction
<1>8. \A k \in 0 .. N : InUse(put[k])
  BY <1>7 DEF T
<1>9. ASSUME NEW k \in 1 .. N
      PROVE  /\ Digit(Reopened(put[k], w)) = digits[k]
             /\ GetDigit(Reopened(put[k], w)) = Reopened(put[k - 1], w)
  <2>1. k \in 0 .. N /\ k - 1 \in 0 .. N /\ k # 0 /\ digits[k] \in Nat /\ digits[k] < Pow[BypassBits]
    BY <1>1
  <2>2. put[k] = PutRaw(put[k - 1], digits[k]) /\ InUse(put[k - 1])
    BY <1>2, <1>8, <2>1 DEF PutOn
  <2> QED
    BY <2>1, <2>2, DigitReturns
<1>10. 0 \in G
  <2>1. 0 \in 0 .. N /\ N - 0 = N
    BY <1>1
  <2>2. got[0] = t
    BY <1>3, <2>1 DEF GotOn
  <2> QED
    BY <2>1, <2>2
<1>11. ASSUME NEW k \in 1 .. N, k - 1 \in G
       PROVE  k \in G
  <2>1. k \in 0 .. N /\ k # 0 /\ N - (k - 1) \in 1 .. N /\ (N - (k - 1)) - 1 = N - k
    BY <1>1
  <2>2. got[k] = GetDigit(got[k - 1]) /\ got[k - 1] = Reopened(put[N - (k - 1)], w)
    BY <1>3, <1>11, <2>1 DEF GotOn
  <2>3. GetDigit(Reopened(put[N - (k - 1)], w)) = Reopened(put[(N - (k - 1)) - 1], w)
    BY <1>9, <2>1
  <2> QED
    BY <2>1, <2>2, <2>3
<1> HIDE DEF G
<1>12. 0 .. N \subseteq G
  BY <1>1, <1>10, <1>11, Induction
<1>13. \A k \in 0 .. N : got[k] = Reopened(put[N - k], w)
  BY <1>12 DEF G
<1>14. got[N] = Reopened(s, w)
  <2>1. N \in 0 .. N /\ N - N = 0 /\ 0 \in 0 .. N
    BY <1>1
  <2>2. put[0] = s
    BY <1>2, <2>1 DEF PutOn
  <2> QED
    BY <1>13, <2>1, <2>2
<1>15. ASSUME NEW k \in 0 .. N - 1 PROVE Digit(got[k]) = digits[N - k]
  <2>1. k \in 0 .. N /\ N - k \in 1 .. N
    BY <1>1
  <2> QED
    BY <1>9, <1>13, <2>1
<1>16. InUse(put[N])
  BY <1>1, <1>8
<1> QED
  BY <1>4, <1>14, <1>15, <1>16 DEF N, got

-----------------------------------------------------------------------------
(* A value that goes out in digits comes back.                             *)

(* The largest digit and the largest count.                                *)
LEMMA MaxesAre ==
  /\ BypassMax \in Nat \ {0} /\ Pow[BypassBits] \in Nat /\ BypassMax < Pow[BypassBits]
  /\ Pow[BypassBits] = BypassMax + 1
  /\ MaxDigits \in Nat /\ MaxDigits <= ValueBits /\ ValueBits \in Nat
  /\ BypassBits \in Nat \ {0}
<1>1. BypassBits \in Nat \ {0} /\ ValueBits \in Nat /\ 1 \in Nat /\ 1 <= BypassBits
  BY WidthsAssumption
<1>2. Pow[1] <= Pow[BypassBits] /\ Pow[BypassBits] \in Nat
  BY <1>1, PowGrows, PowIn
<1>3. Pow[1] = 2
  <2>1. 1 \in Nat \ {0} /\ 1 - 1 = 0
    OBVIOUS
  <2>2. Pow[1] = 2 * Pow[1 - 1] /\ Pow[0] = 1
    BY <2>1, PowDoubles
  <2> QED
    BY <2>1, <2>2
<1>4. /\ MaxDigits \in Nat /\ ValueBits = BypassBits * MaxDigits + (ValueBits % BypassBits)
      /\ ValueBits % BypassBits \in Nat
  BY <1>1, Quotient DEF MaxDigits
<1>5. 1 * MaxDigits <= BypassBits * MaxDigits /\ BypassBits * MaxDigits \in Nat /\ 1 * MaxDigits = MaxDigits
  <2> DEFINE n == MaxDigits
  <2>1. n \in Nat
    BY <1>4
  <2> HIDE DEF n
  <2>2. 1 * n <= BypassBits * n /\ BypassBits * n \in Nat /\ 1 * n = n
    BY <1>1, <2>1, Grows
  <2> QED
    BY <2>2 DEF n
<1>6. MaxDigits <= ValueBits
  BY <1>1, <1>4, <1>5
<1> QED
  BY <1>1, <1>2, <1>3, <1>4, <1>6 DEF BypassMax

(* The count of digits is enough, and never above what a value can hold.   *)
LEMMA DigitCountIs ==
  ASSUME NEW v \in Nat, v < Pow[BypassBits * MaxDigits]
  PROVE  /\ DigitCount(v) \in Nat /\ DigitCount(v) <= MaxDigits
         /\ v < Pow[BypassBits * DigitCount(v)]
<1> DEFINE room(n) == Pow[BypassBits * n]
           T == {n \in 0 .. ValueBits : v < room(n)}
           good(n) == v < room(n) /\ \A k \in 0 .. n - 1 : v >= room(k)
           n == DigitCount(v)
<1>1. MaxDigits \in Nat /\ MaxDigits <= ValueBits /\ ValueBits \in Nat /\ BypassBits \in Nat
  BY MaxesAre
<1>2. \A k \in Nat : room(k) \in Nat
  <2>1. ASSUME NEW k \in Nat PROVE room(k) \in Nat
    <3>1. BypassBits * k \in Nat
      BY <1>1, Products
    <3> QED
      BY <3>1, PowIn
  <2> QED
    BY <2>1
<1>3. MaxDigits \in 0 .. ValueBits /\ v < room(MaxDigits)
  BY <1>1
<1>4. n = CHOOSE k \in 0 .. ValueBits : good(k)
  BY DEF DigitCount
<1> HIDE DEF room, n
<1>5. MaxDigits \in T
  BY <1>3
<1> HIDE DEF T
<1>6. PICK m \in 0 .. ValueBits : m \in T /\ \A k \in 0 .. m - 1 : k \notin T
  <2>1. MaxDigits \in 0 .. ValueBits
    BY <1>3
  <2> DEFINE a == MaxDigits
  <2> HIDE DEF a
  <2>2. a \in 0 .. ValueBits /\ a \in T
    BY <1>5, <2>1 DEF a
  <2> QED
    BY <1>1, <2>2, FirstOne
<1>7. good(m)
  <2>1. v < room(m)
    BY <1>6 DEF T
  <2>2. ASSUME NEW k \in 0 .. m - 1 PROVE v >= room(k)
    <3>1. k \in 0 .. ValueBits /\ k \in Nat
      BY <1>1, <1>6
    <3> QED
      BY <1>2, <1>6, <3>1 DEF T
  <2> QED
    BY <2>1, <2>2
<1>8. n \in 0 .. ValueBits /\ good(n)
  <2> HIDE DEF good
  <2> QED
    BY <1>4, <1>7
<1>9. n <= MaxDigits
  <2>1. ASSUME MaxDigits < n PROVE FALSE
    <3>1. MaxDigits \in 0 .. n - 1 /\ MaxDigits \in Nat
      BY <1>1, <1>8, <2>1
    <3>2. v >= room(MaxDigits) /\ room(MaxDigits) \in Nat
      BY <1>2, <1>8, <3>1
    <3> QED
      BY <1>3, <3>2
  <2> QED
    BY <1>1, <1>8, <2>1
<1> QED
  BY <1>1, <1>8, <1>9 DEF n, room

(* The digits that stand for a value: those of the value and those of      *)
(* their number.                                                           *)
AllDigits(v, n) == [k \in 1 .. n |-> DigitOf(v, n - k)] \o CountDigits(n)

(* Where the digits of the value, and those of their number, are.          *)
LEMMA AllDigitsAre ==
  ASSUME NEW v \in Nat, NEW n \in Nat, n <= MaxDigits
  PROVE  LET c == n \div BypassMax
             N == n + 1 + c
         IN /\ c \in Nat /\ c <= MaxDigits /\ n = c * BypassMax + (n % BypassMax)
            /\ DigitsIn(AllDigits(v, n)) /\ Len(AllDigits(v, n)) = N /\ N <= 2 * MaxDigits + 1
            /\ \A k \in 0 .. c - 1 : AllDigits(v, n)[N - k] = BypassMax
            /\ AllDigits(v, n)[N - c] = n % BypassMax
            /\ n % BypassMax \in Nat /\ n % BypassMax < BypassMax
            /\ \A j \in 1 .. n : AllDigits(v, n)[N - (c + j)] = DigitOf(v, j - 1)
<1> DEFINE X == BypassMax
           M == Pow[BypassBits]
           D == MaxDigits
           c == n \div X
           r == n % X
           N == n + 1 + c
           a == [k \in 1 .. n |-> DigitOf(v, n - k)]
           d == [k \in 1 .. c |-> X]
           b == << r >> \o d
           all == AllDigits(v, n)
<1>1. X \in Nat \ {0} /\ M \in Nat /\ X < M /\ D \in Nat /\ BypassBits \in Nat \ {0} /\ n <= D
  BY MaxesAre
<1>2. all = a \o b
  BY DEF AllDigits, CountDigits
<1>3. ASSUME NEW k \in 1 .. n
      PROVE  a[k] = DigitOf(v, n - k) /\ DigitOf(v, n - k) \in Nat /\ DigitOf(v, n - k) < M
  <2>1. n - k \in Nat
    OBVIOUS
  <2>2. PlaceWorth(v, BypassBits, n - k) \in Nat /\ PlaceWorth(v, BypassBits, n - k) < Pow[BypassBits]
    BY <1>1, <2>1, PlaceIn
  <2>3. DigitOf(v, n - k) = PlaceWorth(v, BypassBits, n - k)
    BY DEF DigitOf, PlaceWorth
  <2> QED
    BY <2>2, <2>3
<1>4. a = [k \in 1 .. n |-> a[k]]
  OBVIOUS
<1> HIDE DEF X, M, D, a, all
<1>5. c \in Nat /\ r \in Nat /\ r < X /\ n = X * c + r /\ X * c \in Nat
  BY <1>1, Quotient
<1> HIDE DEF c, r
<1>6. c <= n /\ n = c * X + r
  <2>1. X * c = c * X /\ 1 * c <= X * c /\ 1 * c = c
    BY <1>1, <1>5, Grows, Products
  <2> QED
    BY <1>5, <2>1
<1>7. a \in Seq(Nat) /\ Len(a) = n
  <2>1. a \in [1 .. n -> Nat]
    BY <1>3, <1>4
  <2> QED
    BY <2>1, FunctionIsSeq
<1>8. d \in Seq(Nat) /\ Len(d) = c /\ \A k \in 1 .. c : d[k] = X
  <2>1. d \in [1 .. c -> Nat] /\ \A k \in 1 .. c : d[k] = X
    BY <1>1
  <2> HIDE DEF d
  <2> QED
    BY <1>5, <2>1, FunctionIsSeq
<1> HIDE DEF d
<1>9. << r >> \in Seq(Nat) /\ Len(<< r >>) = 1 /\ << r >>[1] = r
  BY <1>5
<1>10. /\ b \in Seq(Nat) /\ Len(b) = 1 + c
       /\ \A k \in 1 .. 1 + c : b[k] = IF k <= 1 THEN << r >>[k] ELSE d[k - 1]
  <2> DEFINE one == << r >>
  <2>1. one \in Seq(Nat) /\ Len(one) = 1
    BY <1>9
  <2> HIDE DEF one
  <2>2. /\ one \o d \in Seq(Nat) /\ Len(one \o d) = Len(one) + Len(d)
        /\ \A k \in 1 .. Len(one) + Len(d) :
             (one \o d)[k] = IF k <= Len(one) THEN one[k] ELSE d[k - Len(one)]
    BY <1>8, <2>1, ConcatProperties
  <2> QED
    BY <1>8, <2>1, <2>2 DEF one
<1>11. b[1] = r /\ \A k \in 2 .. 1 + c : b[k] = X
  <2> HIDE DEF b
  <2>1. b[1] = r
    BY <1>5, <1>9, <1>10
  <2>2. ASSUME NEW k \in 2 .. 1 + c PROVE b[k] = X
    <3>1. k \in 1 .. 1 + c /\ ~(k <= 1) /\ k - 1 \in 1 .. c
      BY <1>5
    <3> QED
      BY <1>8, <1>10, <3>1
  <2> QED
    BY <2>1, <2>2
<1> HIDE DEF b
<1>12. /\ all \in Seq(Nat) /\ Len(all) = N
       /\ \A k \in 1 .. N : all[k] = IF k <= n THEN a[k] ELSE b[k - n]
  <2>1. /\ a \o b \in Seq(Nat) /\ Len(a \o b) = Len(a) + Len(b)
        /\ \A k \in 1 .. Len(a) + Len(b) : (a \o b)[k] = IF k <= Len(a) THEN a[k] ELSE b[k - Len(a)]
    BY <1>7, <1>10, ConcatProperties
  <2>2. Len(a) + Len(b) = N
    BY <1>5, <1>7, <1>10
  <2> QED
    BY <1>2, <1>7, <2>1, <2>2
<1>13. N \in Nat /\ N <= 2 * D + 1
  BY <1>1, <1>5, <1>6
<1>14. ASSUME NEW k \in 1 .. N PROVE all[k] \in Nat /\ all[k] < M
  <2>1. CASE k <= n
    <3>1. k \in 1 .. n
      BY <2>1
    <3> QED
      BY <1>3, <1>12, <2>1, <3>1
  <2>2. CASE k = n + 1
    <3>1. ~(k <= n) /\ k - n = 1
      BY <2>2
    <3>2. all[k] = r
      BY <1>11, <1>12, <3>1
    <3> QED
      BY <1>1, <1>5, <3>2
  <2>3. CASE k > n + 1
    <3>1. ~(k <= n) /\ k - n \in 2 .. 1 + c
      BY <1>5, <2>3
    <3>2. all[k] = X
      BY <1>11, <1>12, <3>1
    <3> QED
      BY <1>1, <3>2
  <2> QED
    BY <1>13, <2>1, <2>2, <2>3
<1>15. DigitsIn(all)
  <2>1. Len(all) \in Nat
    BY <1>12, <1>13
  <2> QED
    BY <1>12, <1>14, <2>1 DEF DigitsIn, M
<1>16. ASSUME NEW k \in 0 .. c - 1 PROVE all[N - k] = X
  <2>1. N - k \in 1 .. N /\ ~(N - k <= n) /\ (N - k) - n \in 2 .. 1 + c
    BY <1>5
  <2> QED
    BY <1>11, <1>12, <2>1
<1>17. all[N - c] = r
  <2>1. N - c \in 1 .. N /\ ~(N - c <= n) /\ (N - c) - n = 1
    BY <1>5
  <2> QED
    BY <1>11, <1>12, <2>1
<1>18. ASSUME NEW j \in 1 .. n PROVE all[N - (c + j)] = DigitOf(v, j - 1)
  <2> DEFINE i == N - (c + j)
  <2>1. i \in 1 .. N /\ i <= n /\ i \in 1 .. n /\ n - i = j - 1
    BY <1>5
  <2> HIDE DEF i
  <2>2. all[i] = DigitOf(v, n - i)
    BY <1>3, <1>12, <2>1
  <2> QED
    BY <2>1, <2>2 DEF i
<1> QED
  BY <1>5, <1>6, <1>1, <1>12, <1>13, <1>15, <1>16, <1>17, <1>18 DEF X, D, c, r, all

(* An escape comes back: the encoder's digits, then the decoder's.         *)
LEMMA BypassReturns ==
  ASSUME CoderFits, NEW s, InUse(s), NEW v \in Nat, v < Pow[BypassBits * MaxDigits], NEW w
  PROVE  /\ InUse(Bypass(s, v))
         /\ GetBypass(Reopened(Bypass(s, v), w)) = Reopened(s, v)
<1> DEFINE n == DigitCount(v)
           c == n \div BypassMax
           N == n + 1 + c
           all == AllDigits(v, n)
           t == Reopened(Bypass(s, v), w)
           got == Got(t)
           Last(k) == Digit(got[k]) # BypassMax
           good(k) == Last(k) /\ \A j \in 0 .. k - 1 : ~Last(j)
           p == CHOOSE k \in 0 .. MaxDigits : good(k)
           m == p * BypassMax + Digit(got[p])
           digits(i, j) == [k \in 1 .. j |-> Digit(got[i + k])]
<1>1. n \in Nat /\ n <= MaxDigits /\ v < Pow[BypassBits * n]
  BY DigitCountIs
<1>2. Bypass(s, v) = PutAll(s, all)
  BY DEF Bypass, AllDigits
<1>3. MaxDigits \in Nat /\ BypassMax \in Nat \ {0} /\ BypassBits \in Nat
  BY MaxesAre
<1> HIDE DEF n
<1>4. /\ c \in Nat /\ c <= MaxDigits /\ n = c * BypassMax + (n % BypassMax)
      /\ DigitsIn(all) /\ Len(all) = N /\ N <= 2 * MaxDigits + 1
      /\ \A k \in 0 .. c - 1 : all[N - k] = BypassMax
      /\ all[N - c] = n % BypassMax
      /\ n % BypassMax \in Nat /\ n % BypassMax < BypassMax
      /\ \A j \in 1 .. n : all[N - (c + j)] = DigitOf(v, j - 1)
  BY <1>1, AllDigitsAre
<1> HIDE DEF c, all
<1>5. /\ InUse(Bypass(s, v))
      /\ got[N] = Reopened(s, w)
      /\ \A k \in 0 .. N - 1 : Digit(got[k]) = all[N - k]
  <2> DEFINE L == Len(all)
             g == Got(Reopened(PutAll(s, all), w))
  <2>1. Len(all) <= 2 * MaxDigits + 1 /\ DigitsIn(all) /\ MaxDigits \in Nat
    BY <1>3, <1>4
  <2>2. /\ InUse(PutAll(s, all)) /\ g[L] = Reopened(s, w)
        /\ \A k \in 0 .. L - 1 : Digit(g[k]) = all[L - k]
    BY <2>1, DigitsReturn
  <2>3. L = N /\ g = got
    BY <1>2, <1>4
  <2> HIDE DEF L, g, got, N
  <2> QED
    BY <1>2, <2>2, <2>3
<1> DEFINE value == Assembled(digits(p, m), BypassBits)
<1>6. GetBypass(t) = IF (\E k \in 0 .. MaxDigits : Last(k)) /\ m <= MaxDigits /\ got[p + 1 + m].ok
                     THEN WithValue(got[p + 1 + m], value)
                     ELSE Bad
  BY DEF GetBypass, Taken, WithValue
<1> HIDE DEF got, t
<1>7. ASSUME NEW k \in 0 .. c - 1 PROVE Digit(got[k]) = BypassMax
  <2>1. k \in 0 .. N - 1
    BY <1>1, <1>4
  <2> QED
    BY <1>4, <1>5, <2>1
<1>8. Digit(got[c]) = n % BypassMax
  <2>1. c \in 0 .. N - 1
    BY <1>1, <1>4
  <2> QED
    BY <1>4, <1>5, <2>1
<1>9. ASSUME NEW j \in 1 .. n PROVE Digit(got[c + j]) = DigitOf(v, j - 1)
  <2>1. c + j \in 0 .. N - 1
    BY <1>1, <1>4
  <2>2. Digit(got[c + j]) = all[N - (c + j)]
    BY <1>5, <2>1
  <2> QED
    BY <1>4, <2>2
<1>10. c \in 0 .. MaxDigits /\ Last(c)
  BY <1>3, <1>4, <1>8
<1>11. good(c)
  BY <1>7, <1>10
<1> HIDE DEF Last
<1>12. p \in 0 .. MaxDigits /\ good(p)
  BY <1>10, <1>11
<1> HIDE DEF p
<1>13. p = c
  <2>1. ~(p < c)
    <3>1. p < c => p \in 0 .. c - 1
      BY <1>4, <1>12
    <3> QED
      BY <1>7, <1>12, <3>1 DEF Last
  <2>2. ~(c < p)
    <3>1. c < p => c \in 0 .. p - 1
      BY <1>3, <1>4, <1>12
    <3> QED
      BY <1>10, <1>12, <3>1
  <2> QED
    BY <1>3, <1>4, <1>12, <2>1, <2>2
<1>14. m = n
  BY <1>4, <1>8, <1>13
<1>15. p + 1 + m = N
  BY <1>1, <1>4, <1>13, <1>14
<1>16. value = v
  <2> DEFINE d == digits(c, n)
  <2>1. value = Assembled(d, BypassBits)
    BY <1>13, <1>14
  <2>2. ASSUME NEW k \in 1 .. n
        PROVE  d[k] = PlaceWorth(v, BypassBits, k - 1) /\ d[k] \in Nat
    <3>1. d[k] = Digit(got[c + k])
      OBVIOUS
    <3>2. d[k] = PlaceWorth(v, BypassBits, k - 1)
      BY <1>9, <3>1 DEF DigitOf, PlaceWorth
    <3>3. PlaceWorth(v, BypassBits, k - 1) \in Nat
      <4>1. k - 1 \in Nat
        OBVIOUS
      <4> QED
        BY <1>3, <4>1, PlaceIn
    <3> QED
      BY <3>2, <3>3
  <2>3. d = [k \in 1 .. n |-> d[k]]
    OBVIOUS
  <2> HIDE DEF d, value
  <2>4. d \in [1 .. n -> Int]
    <3>1. \A k \in 1 .. n : d[k] \in Int
      BY <2>2
    <3> QED
      BY <2>3, <3>1
  <2>5. d \in Seq(Int) /\ Len(d) = n
    BY <1>1, <2>4, FunctionIsSeq
  <2>6. Assembled(d, BypassBits) = v % Pow[BypassBits * Len(d)]
    <3>1. \A k \in 1 .. Len(d) : d[k] = PlaceWorth(v, BypassBits, k - 1)
      BY <2>2, <2>5
    <3> QED
      BY <1>3, <2>5, <3>1, PlacesAssemble
  <2>7. v % Pow[BypassBits * n] = v
    <3> DEFINE P == Pow[BypassBits * n]
    <3>1. P \in Nat \ {0} /\ v < P
      <4>1. BypassBits * n \in Nat
        BY <1>1, <1>3, Products
      <4> QED
        BY <1>1, <4>1, PowIn
    <3> HIDE DEF P
    <3>2. v % P = v
      BY <3>1
    <3> QED
      BY <3>2 DEF P
  <2> QED
    BY <2>1, <2>5, <2>6, <2>7
<1> HIDE DEF value, m
<1>17. got[p + 1 + m] = Reopened(s, w)
  BY <1>5, <1>15
<1>18. Reopened(s, w).ok
  <2>1. Reopened(s, w).ok = Yes
    BY OpenedFields DEF Reopened
  <2> QED
    BY <2>1, Zenon DEF Yes
<1>19. \E k \in 0 .. MaxDigits : Last(k)
  BY <1>10
<1>20. GetBypass(t) = WithValue(Reopened(s, w), v)
  <2>1. m <= MaxDigits
    BY <1>1, <1>14
  <2>2. got[p + 1 + m].ok
    BY <1>17, <1>18, Zenon
  <2>3. GetBypass(t) = WithValue(got[p + 1 + m], value)
    BY <1>6, <1>19, <2>1, <2>2, Zenon
  <2> QED
    BY <1>16, <1>17, <2>3
<1>21. WithValue(Reopened(s, w), v) = Reopened(s, v)
  BY Replaced DEF Reopened
<1> QED
  BY <1>5, <1>20, <1>21 DEF t

-----------------------------------------------------------------------------
(* The symbols of a distribution lie side by side.                         *)

DistFits(d) ==
  /\ d.offset \in Int /\ d.freqs \in Seq(Int) /\ Len(d.freqs) > 1
  /\ \A n \in 0 .. Sentinel(d) :
       Freq(d, n) > 0 /\ Start(d, n) + Freq(d, n) <= Pow[SymbolBits]

(* Symbols start where those before them end.                              *)
LEMMA SymbolsLie ==
  ASSUME NEW d, DistFits(d), NEW n \in 0 .. Sentinel(d)
  PROVE  /\ Sentinel(d) \in Nat /\ n \in Nat /\ n + 1 \in Nat /\ n + 1 <= Len(d.freqs)
         /\ Start(d, n) \in Nat /\ Freq(d, n) \in Nat \ {0}
         /\ Start(d, n) + Freq(d, n) <= Pow[SymbolBits]
         /\ Start(d, n + 1) = Start(d, n) + Freq(d, n)
         /\ \A m \in n + 1 .. Len(d.freqs) :
              Start(d, m) \in Int /\ Start(d, n) + Freq(d, n) <= Start(d, m)
<1> DEFINE f == d.freqs
           L == Len(f)
           S == Sums(f)
<1>1. f \in Seq(Int) /\ L \in Nat /\ L > 1 /\ Sentinel(d) = L - 1 /\ \A k \in 1 .. L : f[k] \in Int
  BY LenProperties DEF DistFits, Sentinel
<1>2. \A k \in 0 .. L : S[k] \in Int /\ S[k] = Summed(f, S, k)
  BY <1>1, SumsAre
<1>3. /\ \A k \in 0 .. L : Start(d, k) = S[k]
      /\ \A k \in 0 .. L - 1 : Freq(d, k) = f[k + 1]
  BY DEF Start, Freq
<1>4. \A k \in 0 .. L - 1 : Freq(d, k) > 0 /\ Start(d, k) + Freq(d, k) <= Pow[SymbolBits]
  BY <1>1 DEF DistFits
<1>5. \A k \in 1 .. L : f[k] >= 0
  <2>1. ASSUME NEW k \in 1 .. L PROVE f[k] >= 0
    <3>1. k - 1 \in 0 .. L - 1 /\ (k - 1) + 1 = k
      BY <1>1
    <3>2. Freq(d, k - 1) = f[(k - 1) + 1] /\ Freq(d, k - 1) > 0
      BY <1>3, <1>4, <3>1
    <3> QED
      BY <1>1, <3>1, <3>2
  <2> QED
    BY <2>1
<1> HIDE DEF S, L
<1>6. ASSUME NEW a \in 0 .. L, NEW b \in 0 .. a PROVE S[b] <= S[a]
  BY <1>1, <1>5, SumsGrow DEF S, L
<1> HIDE DEF f
<1>7. n \in Nat /\ n \in 0 .. L /\ n \in 0 .. L - 1 /\ n + 1 \in 0 .. L /\ n + 1 \in 1 .. L
      /\ (n + 1) - 1 = n /\ n + 1 # 0 /\ 0 \in 0 .. n /\ 0 \in 0 .. L
  BY <1>1
<1>8. S[0] = 0 /\ S[0] <= S[n] /\ S[n] \in Int
  BY <1>2, <1>6, <1>7 DEF Summed
<1>9. Start(d, n) = S[n] /\ Freq(d, n) = f[n + 1] /\ f[n + 1] \in Int /\ Freq(d, n) > 0
  BY <1>1, <1>3, <1>4, <1>7
<1>10. S[n + 1] = S[n] + f[n + 1]
  BY <1>2, <1>7 DEF Summed
<1>11. Start(d, n + 1) = S[n + 1]
  BY <1>3, <1>7
<1>12. ASSUME NEW m \in n + 1 .. L PROVE Start(d, m) \in Int /\ S[n + 1] <= Start(d, m)
  <2>1. m \in 0 .. L /\ n + 1 \in 0 .. m
    BY <1>1, <1>7
  <2> QED
    BY <1>2, <1>3, <1>6, <2>1
<1>13. Start(d, n) + Freq(d, n) <= Pow[SymbolBits]
  BY <1>4, <1>7
<1>14. n + 1 <= L /\ Sentinel(d) \in Nat
  BY <1>1, <1>7
<1> QED
  BY <1>7, <1>8, <1>9, <1>10, <1>11, <1>12, <1>13, <1>14 DEF L, f

(* The decoder finds the symbol whose interval a state is in.              *)
LEMMA SymbolFound ==
  ASSUME NEW d, DistFits(d), NEW n \in 0 .. Sentinel(d), NEW cum \in Nat,
         Start(d, n) <= cum, cum < Start(d, n) + Freq(d, n)
  PROVE  /\ (CHOOSE k \in 0 .. Sentinel(d) :
               Start(d, k) <= cum /\ cum < Start(d, k) + Freq(d, k)) = n
         /\ cum < Start(d, Len(d.freqs))
<1> DEFINE holds(k) == Start(d, k) <= cum /\ cum < Start(d, k) + Freq(d, k)
           m == CHOOSE k \in 0 .. Sentinel(d) : holds(k)
<1>1. m \in 0 .. Sentinel(d) /\ holds(m) /\ holds(n)
  OBVIOUS
<1> HIDE DEF m
<1>2. /\ m \in Nat /\ n \in Nat /\ Sentinel(d) \in Nat
      /\ Start(d, m) \in Nat /\ Freq(d, m) \in Nat /\ Start(d, n) \in Nat /\ Freq(d, n) \in Nat
  BY <1>1, SymbolsLie
<1>3. \A a \in 0 .. Sentinel(d), b \in 0 .. Sentinel(d) :
        a < b => Start(d, a) + Freq(d, a) <= Start(d, b)
  <2>1. ASSUME NEW a \in 0 .. Sentinel(d), NEW b \in 0 .. Sentinel(d), a < b
        PROVE  Start(d, a) + Freq(d, a) <= Start(d, b)
    <3>1. b \in a + 1 .. Len(d.freqs)
      <4>1. b + 1 <= Len(d.freqs) /\ b \in Nat
        BY SymbolsLie
      <4>2. Len(d.freqs) \in Nat
        BY LenProperties DEF DistFits
      <4> QED
        BY <2>1, <4>1, <4>2
    <3> QED
      BY <3>1, SymbolsLie
  <2> QED
    BY <2>1
<1>4. m = n
  <2>1. ~(m < n)
    <3>1. m < n => Start(d, m) + Freq(d, m) <= Start(d, n)
      BY <1>1, <1>3
    <3> QED
      BY <1>1, <1>2, <3>1
  <2>2. ~(n < m)
    <3>1. n < m => Start(d, n) + Freq(d, n) <= Start(d, m)
      BY <1>1, <1>3
    <3> QED
      BY <1>1, <1>2, <3>1
  <2> QED
    BY <1>2, <2>1, <2>2
<1>5. cum < Start(d, Len(d.freqs))
  <2> DEFINE L == Len(d.freqs)
  <2>1. L \in n + 1 .. L
    <3>1. n + 1 <= Len(d.freqs) /\ n \in Nat
      BY SymbolsLie
    <3>2. L \in Nat
      BY LenProperties DEF DistFits
    <3> QED
      BY <3>1, <3>2
  <2>2. Start(d, L) \in Int /\ Start(d, n) + Freq(d, n) <= Start(d, L)
    BY <2>1, SymbolsLie
  <2> HIDE DEF L
  <2>3. cum < Start(d, L)
    BY <1>2, <2>2
  <2> QED
    BY <2>3 DEF L
<1> QED
  BY <1>4, <1>5 DEF m

-----------------------------------------------------------------------------
(* A value comes back.                                                     *)

(* The sign and the size of a value outside its distribution come back.    *)
LEMMA EscapeReturns ==
  ASSUME NEW d, DistFits(d), NEW v \in Int, Escaped(d, v)
  PROVE  EscapeOf(d, v) \in Nat /\ Unescaped(d, EscapeOf(d, v)) = v
<1>1. Sentinel(d) \in Nat
  BY LenProperties DEF DistFits, Sentinel
<1> DEFINE e == EscapeOf(d, v)
           n == Sentinel(d)
<1>2. n \in Nat
  BY <1>1
<1>3. CASE v < 0
  <2> DEFINE a == -v - 1
  <2>1. a \in Nat /\ e = 2 * a + 1
    BY <1>3 DEF EscapeOf
  <2> HIDE DEF a, e
  <2>2. e % 2 = 1 /\ e \div 2 = a /\ e \in Nat
    BY <2>1
  <2>3. -a - 1 = v
    BY DEF a
  <2>4. Unescaped(d, e) = v
    BY <2>1, <2>2, <2>3 DEF Unescaped
  <2> QED
    BY <2>2, <2>4 DEF e
<1>4. CASE ~(v < 0)
  <2> DEFINE a == v - n
  <2>1. a \in Nat /\ e = 2 * a
    <3>1. v >= n
      BY <1>4 DEF Escaped
    <3>2. e = 2 * (v - n)
      BY <1>4 DEF EscapeOf
    <3> QED
      BY <1>2, <3>1, <3>2
  <2>2. a + n = v
    BY <1>2
  <2> HIDE DEF a, e
  <2>3. e % 2 = 0 /\ e \div 2 = a /\ e \in Nat
    BY <2>1
  <2>4. Unescaped(d, e) = v
    BY <2>1, <2>2, <2>3 DEF Unescaped
  <2> QED
    BY <2>3, <2>4 DEF e
<1> QED
  BY <1>3, <1>4

TableFits == \A index \in Int : index >= 0 => DistFits(DistOf(index))
EscapeFits(index, value) ==
  LET d == DistOf(index)
  IN index >= 0 => EscapeOf(d, value + d.offset) < Pow[BypassBits * MaxDigits]

(* What the encoder does with a value, and the decoder with the state.     *)
SymbolOf(d, v)      == IF Escaped(d, v) THEN Sentinel(d) ELSE v
Below(s, d, v)      == IF Escaped(d, v) THEN Bypass(s, EscapeOf(d, v)) ELSE s
Sent(s, d, v)       == PutSym(Below(s, d, v), Start(d, SymbolOf(d, v)), Freq(d, SymbolOf(d, v)))

(* The encoder's cases in one form.                                        *)
LEMMA EncodeIs ==
  ASSUME NEW s, NEW index \in Int, NEW value
  PROVE  LET d == DistOf(index)
         IN EncodeOne(s, index, value) = IF index < 0 THEN s ELSE Sent(s, d, value + d.offset)
<1> DEFINE d == DistOf(index)
           v == value + d.offset
<1>1. CASE index < 0
  BY <1>1 DEF EncodeOne
<1>2. CASE ~(index < 0) /\ Escaped(d, v)
  <2>1. EncodeOne(s, index, value)
          = PutSym(Bypass(s, EscapeOf(d, v)), Start(d, Sentinel(d)), Freq(d, Sentinel(d)))
    BY <1>2 DEF EncodeOne
  <2>2. SymbolOf(d, v) = Sentinel(d) /\ Below(s, d, v) = Bypass(s, EscapeOf(d, v))
    BY <1>2 DEF SymbolOf, Below
  <2> HIDE DEF d, v
  <2> QED
    BY <1>2, <2>1, <2>2 DEF Sent, d, v
<1>3. CASE ~(index < 0) /\ ~Escaped(d, v)
  <2>1. EncodeOne(s, index, value) = PutSym(s, Start(d, v), Freq(d, v))
    BY <1>3 DEF EncodeOne
  <2>2. SymbolOf(d, v) = v /\ Below(s, d, v) = s
    BY <1>3 DEF SymbolOf, Below
  <2> HIDE DEF d, v
  <2> QED
    BY <1>3, <2>1, <2>2 DEF Sent, d, v
<1> QED
  BY <1>1, <1>2, <1>3

(* decode() of one value, by its cases.                                    *)
LEMMA DecodeDecides ==
  ASSUME NEW s, NEW index
  PROVE  LET d == DistOf(index)
             n == FoundIn(d, CumOf(s))
             t == After(s, d, n)
         IN DecodeOne(s, index) = Decided(s, index, n, t, GetBypass(t))
BY DEF DecodeOne

(* A negative index decodes to zero.                                       *)
LEMMA NoDistribution ==
  ASSUME NEW s, NEW index \in Int, index < 0, NEW n, NEW t, NEW e
  PROVE  Decided(s, index, n, t, e) = WithValue(s, 0)
<1> DEFINE d == DistOf(index)
           cum == CumOf(s)
           top == Start(d, Len(d.freqs))
           p == WithValue(s, 0)
           v == IF n < Sentinel(d) THEN n ELSE Unescaped(d, e.value)
           r == CASE index < 0                        -> p
                  [] index >= 0 /\ cum >= top          -> Bad
                  [] index >= 0 /\ cum < top /\ ~t.ok  -> Bad
                  [] OTHER -> IF n < Sentinel(d) THEN WithValue(t, v - d.offset)
                              ELSE IF e.ok THEN WithValue(e, v - d.offset) ELSE Bad
<1>1. Decided(s, index, n, t, e) = r
  BY DEF Decided
<1>2. r = p
  <2> HIDE DEF d, cum, top, p, v
  <2>1. ~(index >= 0)
    OBVIOUS
  <2> QED
    BY <2>1
<1> HIDE DEF r
<1> QED
  BY <1>1, <1>2

(* The cases for a state that has data left.                               *)
LEMMA DecodeIs ==
  ASSUME NEW s, NEW index \in Int, NEW n, NEW t, NEW e,
         CumOf(s) \in Int, Start(DistOf(index), Len(DistOf(index).freqs)) \in Int,
         CumOf(s) < Start(DistOf(index), Len(DistOf(index).freqs)), t.ok
  PROVE  LET d == DistOf(index)
         IN /\ index < 0 => Decided(s, index, n, t, e) = WithValue(s, 0)
            /\ index >= 0 /\ n < Sentinel(d) => Decided(s, index, n, t, e) = WithValue(t, n - d.offset)
            /\ index >= 0 /\ ~(n < Sentinel(d)) /\ e.ok
                 => Decided(s, index, n, t, e) = WithValue(e, Unescaped(d, e.value) - d.offset)
<1> DEFINE d == DistOf(index)
           cum == CumOf(s)
           L == Len(d.freqs)
           v == IF n < Sentinel(d) THEN n ELSE Unescaped(d, e.value)
           r == CASE index < 0                               -> WithValue(s, 0)
                  [] index >= 0 /\ cum >= Start(d, L)          -> Bad
                  [] index >= 0 /\ cum < Start(d, L) /\ ~t.ok  -> Bad
                  [] OTHER -> IF n < Sentinel(d) THEN WithValue(t, v - d.offset)
                              ELSE IF e.ok THEN WithValue(e, v - d.offset) ELSE Bad
<1>1. cum \in Int /\ Start(d, L) \in Int /\ cum < Start(d, L) /\ t.ok
  OBVIOUS
<1>2. Decided(s, index, n, t, e) = r
  BY DEF Decided
<1> HIDE DEF d, cum, L
<1>3. CASE index < 0
  <2>1. r = WithValue(s, 0)
    BY <1>3
  <2> HIDE DEF r
  <2> QED
    BY <1>2, <1>3, <2>1 DEF d
<1>4. CASE index >= 0 /\ n < Sentinel(d)
  <2>1. ~(index < 0) /\ ~(cum >= Start(d, L))
    BY <1>1, <1>4
  <2>2. r = WithValue(t, v - d.offset)
    BY <1>1, <1>4, <2>1, Zenon
  <2>3. v = n
    BY <1>4
  <2> HIDE DEF r, v
  <2> QED
    BY <1>2, <1>4, <2>2, <2>3 DEF d
<1>5. CASE index >= 0 /\ ~(n < Sentinel(d)) /\ e.ok
  <2>1. ~(index < 0) /\ ~(cum >= Start(d, L))
    BY <1>1, <1>5
  <2>2. r = WithValue(e, v - d.offset)
    BY <1>1, <1>5, <2>1, Zenon
  <2>3. v = Unescaped(d, e.value)
    BY <1>5
  <2> HIDE DEF r, v
  <2> QED
    BY <1>2, <1>5, <2>2, <2>3 DEF d
<1> QED
  BY <1>3, <1>4, <1>5 DEF d

(* A value comes back: encode() of one value, then decode() of one.        *)
LEMMA ValueReturns ==
  ASSUME CoderFits, TableFits, NEW s, InUse(s), NEW index \in Int, NEW value \in Int,
         EscapeFits(index, value)
  PROVE  LET t == EncodeOne(s, index, value)
         IN /\ InUse(t)
            /\ DecodeOne(Reopened(t, 0), index) = Reopened(s, IF index < 0 THEN 0 ELSE value)
<1> DEFINE d == DistOf(index)
           v == value + d.offset
           n == SymbolOf(d, v)
           esc == EscapeOf(d, v)
           base == Below(s, d, v)
           t == EncodeOne(s, index, value)
           r == Reopened(t, 0)
<1>1. CASE index < 0
  <2>1. t = s
    BY <1>1, EncodeIs
  <2> HIDE DEF t
  <2>2. DecodeOne(r, index) = WithValue(r, 0)
    <3> DEFINE g == FoundIn(d, CumOf(r))
               after == After(r, d, g)
               escape == GetBypass(after)
    <3>1. DecodeOne(r, index) = Decided(r, index, g, after, escape)
      BY DecodeDecides
    <3> HIDE DEF d, r, g, after, escape
    <3>2. Decided(r, index, g, after, escape) = WithValue(r, 0)
      BY <1>1, NoDistribution
    <3> QED
      BY <3>1, <3>2
  <2>3. WithValue(r, 0) = Reopened(t, 0)
    BY Replaced DEF Reopened
  <2> HIDE DEF r
  <2> QED
    BY <1>1, <2>1, <2>2, <2>3 DEF t, r
<1>2. CASE index >= 0
  <2>1. DistFits(d)
    BY <1>2 DEF TableFits
  <2>2. d.offset \in Int /\ v \in Int /\ v - d.offset = value
    <3>1. d.offset \in Int
      BY <2>1 DEF DistFits
    <3> HIDE DEF d
    <3> QED
      BY <3>1
  <2>3. Escaped(d, v) => esc \in Nat /\ Unescaped(d, esc) = v /\ esc < Pow[BypassBits * MaxDigits]
    <3>1. Escaped(d, v) => esc \in Nat /\ Unescaped(d, esc) = v
      <4> HIDE DEF d, v
      <4> QED
        BY <2>1, <2>2, EscapeReturns
    <3>2. esc < Pow[BypassBits * MaxDigits]
      BY <1>2 DEF EscapeFits
    <3> QED
      BY <3>1, <3>2
  <2>4. t = Sent(s, d, v)
    BY <1>2, EncodeIs
  <2> HIDE DEF d, v, t
  <2>5. Sentinel(d) \in Nat /\ 0 \in 0 .. Sentinel(d)
    <3>1. Sentinel(d) \in Nat
      BY <2>1, LenProperties DEF DistFits, Sentinel
    <3> QED
      BY <3>1
  <2>6. n \in 0 .. Sentinel(d) /\ (n < Sentinel(d) <=> ~Escaped(d, v)) /\ (~Escaped(d, v) => n = v)
    BY <2>2, <2>5 DEF SymbolOf, Escaped
  <2>7. /\ Escaped(d, v) => base = Bypass(s, esc)
        /\ ~Escaped(d, v) => base = s
    BY DEF Below
  <2> HIDE DEF n, esc, base
  <2>8. InUse(base)
    <3>1. CASE Escaped(d, v)
      BY <2>3, <2>7, <3>1, BypassReturns
    <3>2. CASE ~Escaped(d, v)
      BY <2>7, <3>2
    <3> QED
      BY <3>1, <3>2
  <2>9. t = PutSym(base, Start(d, n), Freq(d, n))
    BY <2>4 DEF Sent, n, base
  <2>10. /\ Start(d, n) \in Nat /\ Freq(d, n) \in Nat \ {0}
         /\ Start(d, n) + Freq(d, n) <= Pow[SymbolBits]
    BY <2>1, <2>6, SymbolsLie
  <2>11. /\ InUse(t) /\ t.x % Pow[SymbolBits] \in Nat
         /\ Start(d, n) <= t.x % Pow[SymbolBits] /\ t.x % Pow[SymbolBits] < Start(d, n) + Freq(d, n)
         /\ \A w : Advance(Reopened(t, w), Start(d, n), Freq(d, n), SymbolBits) = Reopened(base, w)
    <3> DEFINE start == Start(d, n)
               f == Freq(d, n)
               u == PutSym(base, start, f)
    <3>1. start \in Nat /\ f \in Nat \ {0} /\ start + f <= Pow[SymbolBits]
      BY <2>10
    <3>2. u = t
      BY <2>9
    <3> HIDE DEF start, f
    <3>3. /\ InUse(u)
          /\ u.x % Pow[SymbolBits] \in Nat
          /\ start <= u.x % Pow[SymbolBits] /\ u.x % Pow[SymbolBits] < start + f
          /\ \A w : Advance(Reopened(u, w), start, f, SymbolBits) = Reopened(base, w)
      BY <2>8, <3>1, SymbolReturns
    <3> HIDE DEF u
    <3>4. /\ InUse(t)
          /\ t.x % Pow[SymbolBits] \in Nat
          /\ start <= t.x % Pow[SymbolBits] /\ t.x % Pow[SymbolBits] < start + f
          /\ \A w : Advance(Reopened(t, w), start, f, SymbolBits) = Reopened(base, w)
      BY <3>2, <3>3
    <3> QED
      BY <3>4 DEF start, f
  <2>12. CumOf(r) = t.x % Pow[SymbolBits]
    <3>1. r.x = t.x
      BY OpenedFields DEF Reopened
    <3> QED
      BY <3>1 DEF CumOf
  <2> DEFINE top == Start(d, Len(d.freqs))
             b == Reopened(base, 0)
             e == GetBypass(b)
  <2>13. FoundIn(d, CumOf(r)) = n /\ CumOf(r) < top
    BY <2>1, <2>6, <2>11, <2>12, SymbolFound DEF FoundIn
  <2>14. After(r, d, n) = b
    BY <2>11 DEF After
  <2>15. top \in Int
    <3>1. Len(d.freqs) \in 0 + 1 .. Len(d.freqs)
      BY <2>1, LenProperties DEF DistFits
    <3> QED
      BY <2>1, <2>5, <3>1, SymbolsLie
  <2>16. CumOf(r) \in Int
    BY <2>11, <2>12
  <2>17. b.ok
    <3>1. b.ok = Yes
      BY OpenedFields DEF Reopened
    <3> QED
      BY <3>1, Zenon DEF Yes
  <2>18. DecodeOne(r, index) = Decided(r, index, n, b, e)
    <3>1. DecodeOne(r, index) = Decided(r, index, FoundIn(d, CumOf(r)), After(r, d, FoundIn(d, CumOf(r))),
                                        GetBypass(After(r, d, FoundIn(d, CumOf(r)))))
      BY DecodeDecides DEF d
    <3> HIDE DEF r, b
    <3> QED
      BY <2>13, <2>14, <3>1
  <2> HIDE DEF r, b, e
  <2>19. /\ n < Sentinel(d) => Decided(r, index, n, b, e) = WithValue(b, n - d.offset)
         /\ ~(n < Sentinel(d)) /\ e.ok
              => Decided(r, index, n, b, e) = WithValue(e, Unescaped(d, e.value) - d.offset)
    BY <1>2, <2>13, <2>15, <2>16, <2>17, DecodeIs DEF d
  <2>20. CASE ~Escaped(d, v)
    <3>1. n - d.offset = value /\ base = s
      BY <2>2, <2>6, <2>7, <2>20
    <3>2. DecodeOne(r, index) = WithValue(b, value)
      BY <2>6, <2>18, <2>19, <2>20, <3>1
    <3>3. WithValue(b, value) = Reopened(s, value)
      BY <3>1, Replaced DEF Reopened, b
    <3> QED
      BY <1>2, <2>11, <3>2, <3>3 DEF t, r
  <2>21. CASE Escaped(d, v)
    <3>1. e = Reopened(s, esc)
      BY <2>3, <2>7, <2>21, BypassReturns DEF e, b
    <3>2. e.ok /\ e.value = esc
      <4>1. e.ok = Yes /\ e.value = esc
        BY <3>1, OpenedFields DEF Reopened
      <4>2. e.ok
        BY <4>1, Zenon DEF Yes
      <4> QED
        BY <4>1, <4>2
    <3>3. DecodeOne(r, index) = WithValue(e, Unescaped(d, e.value) - d.offset)
      BY <2>6, <2>18, <2>19, <2>21, <3>2
    <3>4. Unescaped(d, e.value) - d.offset = value
      BY <2>2, <2>3, <2>21, <3>2
    <3>5. DecodeOne(r, index) = WithValue(e, value)
      BY <3>3, <3>4
    <3>6. WithValue(Reopened(s, esc), value) = Reopened(s, value)
      BY Replaced DEF Reopened
    <3> QED
      BY <1>2, <2>11, <3>1, <3>5, <3>6 DEF t, r
  <2> QED
    BY <2>20, <2>21
<1> QED
  BY <1>1, <1>2

-----------------------------------------------------------------------------
(* The state comes back from its units.                                    *)

(* flush(), then open(): the state and the data come back.                 *)
LEMMA StateReturns ==
  ASSUME CoderFits, NEW v, InRange(v), NEW q \in Seq(Nat)
  PROVE  LET written == StateUnits(v) \o q
         IN /\ Assembled(SubSeq(written, 1, coder.units), coder.unit) = v
            /\ SubSeq(written, coder.units + 1, Len(written)) = q
<1> DEFINE n == coder.units
           u == StateUnits(v)
           all == u \o q
<1>1. n \in Nat /\ coder.unit \in Nat /\ v \in Nat
  BY WidthsAre DEF InRange
<1>2. ASSUME NEW k \in 1 .. n
      PROVE  u[k] = PlaceWorth(v, coder.unit, k - 1) /\ u[k] \in Nat
  <2>1. k - 1 \in Nat
    BY <1>1
  <2>2. u[k] = UnitOf(v, k - 1)
    BY DEF StateUnits
  <2>3. UnitOf(v, k - 1) \in Nat
    BY <1>1, <2>1, LeavesIn
  <2> QED
    BY <2>2, <2>3 DEF UnitOf, PlaceWorth
<1>3. u = [k \in 1 .. n |-> u[k]]
  BY DEF StateUnits
<1> HIDE DEF u, n
<1>4. u \in Seq(Nat) /\ Len(u) = n /\ u \in Seq(Int)
  <2>1. u \in [1 .. n -> Nat] /\ u \in [1 .. n -> Int]
    BY <1>2, <1>3
  <2>2. u \in Seq(Nat) /\ Len(u) = n
    BY <1>1, <2>1, FunctionIsSeq
  <2>3. u \in Seq(Int)
    BY <1>1, <2>1, FunctionIsSeq
  <2> QED
    BY <2>2, <2>3
<1>5. /\ all \in Seq(Nat) /\ Len(all) = n + Len(q) /\ Len(q) \in Nat
      /\ \A k \in 1 .. n + Len(q) : all[k] = IF k <= n THEN u[k] ELSE q[k - n]
  BY <1>4, ConcatProperties, LenProperties
<1>6. SubSeq(all, n + 1, Len(all)) = q
  BY <1>4, Rear
<1> HIDE DEF all
<1>7. SubSeq(all, 1, n) = u
  <2> DEFINE t == SubSeq(all, 1, n)
  <2>1. \A k \in 1 .. n : all[k] \in Nat /\ all[k] = u[k]
    <3>1. ASSUME NEW k \in 1 .. n PROVE all[k] \in Nat /\ all[k] = u[k]
      <4>1. k \in 1 .. n + Len(q) /\ k <= n
        BY <1>1, <1>5
      <4> QED
        BY <1>2, <1>5, <4>1
    <3> QED
      BY <3>1
  <2>2. /\ t \in Seq(Nat) /\ Len(t) = (IF 1 <= n THEN n - 1 + 1 ELSE 0)
        /\ \A k \in 1 .. n - 1 + 1 : t[k] = all[1 + k - 1]
    <3>1. 1 \in Int /\ n \in Int /\ \A k \in 1 .. n : all[k] \in Nat
      BY <1>1, <2>1
    <3> QED
      BY <1>5, <3>1, SubSeqProperties
  <2> HIDE DEF t
  <2>3. Len(t) = Len(u)
    BY <1>1, <1>4, <2>2
  <2>4. \A k \in 1 .. Len(t) : t[k] = u[k]
    <3>1. ASSUME NEW k \in 1 .. n PROVE t[k] = u[k]
      <4>1. k \in 1 .. n - 1 + 1 /\ 1 + k - 1 = k
        BY <1>1
      <4> QED
        BY <2>1, <2>2, <4>1
    <3> QED
      BY <1>4, <2>3, <3>1
  <2>5. t = u
    BY <1>4, <2>2, <2>3, <2>4, SeqEqual
  <2> QED
    BY <2>5 DEF t
<1>8. Assembled(u, coder.unit) = v
  <2>1. Assembled(u, coder.unit) = v % Pow[coder.unit * n]
    <3>1. \A k \in 1 .. Len(u) : u[k] = PlaceWorth(v, coder.unit, k - 1)
      BY <1>2, <1>4
    <3>2. Assembled(u, coder.unit) = v % Pow[coder.unit * Len(u)]
      BY <1>1, <1>4, <3>1, PlacesAssemble
    <3> QED
      BY <1>4, <3>2
  <2> DEFINE P == Pow[coder.unit * n]
  <2>2. P \in Nat \ {0} /\ v < P
    <3>1. Pow[StateBits] <= P /\ Pow[StateBits] \in Nat /\ v < Pow[StateBits]
      BY WidthsAre DEF InRange, n
    <3>2. P \in Nat \ {0}
      <4>1. coder.unit * n \in Nat
        BY <1>1, Products
      <4> QED
        BY <4>1, PowIn
    <3> HIDE DEF P
    <3> QED
      BY <1>1, <3>1, <3>2
  <2>3. Assembled(u, coder.unit) = v % P
    BY <2>1
  <2> HIDE DEF P
  <2>4. v % P = v
    BY <1>1, <2>2
  <2> QED
    BY <2>3, <2>4
<1> QED
  BY <1>6, <1>7, <1>8 DEF all, u, n

-----------------------------------------------------------------------------
(* The inductive invariant: the states that the encoder went through are   *)
(* the states that the decoder goes back through.                          *)

CoderGood ==
  /\ CoderFits /\ TableFits
  /\ \A index \in Indices, value \in Values : EscapeFits(index, value)

Pairs == [index : Indices, value : Values]

(* The j-th pair that was encoded.                                         *)
Nth(j) == sent[Len(sent) + 1 - j]

(* h[j] is the state after j pairs.                                        *)
Trail(h) ==
  /\ h[0] = [x |-> Lower, data |-> << >>]
  /\ \A j \in 0 .. Len(sent) : InUse(h[j])
  /\ \A j \in 1 .. Len(sent) : h[j] = EncodeOne(h[j - 1], Nth(j).index, Nth(j).value)
  /\ h[Len(sent) - Len(received)] = [x |-> x, data |-> data]

Correct ==
  \A k \in 1 .. Len(received) :
    received[k] = IF sent[k].index < 0 THEN 0 ELSE sent[k].value

RcInv ==
  /\ phase \in {"idle", "encode", "decode", "done", "refused"}
  /\ phase = "idle" => sent = << >> /\ data = << >> /\ received = << >>
  /\ phase \in {"encode", "decode", "done"} =>
       /\ CoderGood
       /\ sent \in Seq(Pairs) /\ received \in Seq(Int) /\ Len(received) <= Len(sent)
       /\ phase = "encode" => received = << >>
       /\ status = "Ok"
       /\ \E h : Trail(h)
       /\ Correct

-----------------------------------------------------------------------------
(* The coder's operators depend on no variable but the coder, so that they *)
(* stay what they are while the coder does.  The instance names them for a *)
(* given coder.                                                            *)

At(c) == INSTANCE RangeCoder WITH coder <- c

(* The encoder is that of its coder.                                       *)
LEMMA EncodeAt ==
  \A s, index, value : EncodeOne(s, index, value) = At(coder)!EncodeOne(s, index, value)
<1>1. Pow = At(coder)!Pow
  BY DEF Pow, At!Pow
<1>2. /\ StateBits = At(coder)!StateBits
      /\ BypassMax = At(coder)!BypassMax
      /\ MaxDigits = At(coder)!MaxDigits
  BY <1>1 DEF StateBits, BypassMax, MaxDigits, At!StateBits, At!BypassMax, At!MaxDigits
<1>3. /\ \A index : DistOf(index) = At(coder)!DistOf(index)
      /\ \A q : Sums(q) = At(coder)!Sums(q)
      /\ \A d : Sentinel(d) = At(coder)!Sentinel(d)
      /\ \A d, n : Freq(d, n) = At(coder)!Freq(d, n)
  BY DEF DistOf, Sums, Sentinel, Freq, At!DistOf, At!Sums, At!Sentinel, At!Freq
<1>4. \A d, n : Start(d, n) = At(coder)!Start(d, n)
  BY <1>3 DEF Start, At!Start
<1>5. \A s, limit : Renorm(s, limit) = At(coder)!Renorm(s, limit)
  BY DEF Renorm, UnitOf, Pow, At!Renorm, At!UnitOf, At!Pow
<1>6. \A s, start, freq : PutSym(s, start, freq) = At(coder)!PutSym(s, start, freq)
  <2>1. \A freq : Shift(freq) = At(coder)!Shift(freq)
    BY <1>1 DEF Shift, At!Shift
  <2>2. /\ \A freq : Reciprocal(freq) = At(coder)!Reciprocal(freq)
        /\ \A freq : RcpShift(freq) = At(coder)!RcpShift(freq)
        /\ \A start, freq : Bias(start, freq) = At(coder)!Bias(start, freq)
    BY <1>1, <1>2, <2>1 DEF Reciprocal, RcpShift, Bias, At!Reciprocal, At!RcpShift, At!Bias
  <2> QED
    BY <1>1, <1>2, <1>5, <2>2 DEF PutSym, At!PutSym
<1>7. \A s, digit : PutRaw(s, digit) = At(coder)!PutRaw(s, digit)
  BY <1>1, <1>2, <1>5 DEF PutRaw, At!PutRaw
<1>8. \A s, v : Bypass(s, v) = At(coder)!Bypass(s, v)
  <2>1. \A s, digits : Put(s, digits) = At(coder)!Put(s, digits)
    BY <1>7 DEF Put, At!Put
  <2>2. \A s, digits : PutAll(s, digits) = At(coder)!PutAll(s, digits)
    BY <2>1 DEF PutAll, At!PutAll
  <2>3. /\ \A v, n : DigitOf(v, n) = At(coder)!DigitOf(v, n)
        /\ \A v : DigitCount(v) = At(coder)!DigitCount(v)
        /\ \A n : CountDigits(n) = At(coder)!CountDigits(n)
    BY <1>1, <1>2 DEF DigitOf, DigitCount, CountDigits, At!DigitOf, At!DigitCount, At!CountDigits
  <2> QED
    BY <2>2, <2>3 DEF Bypass, At!Bypass
<1>9. /\ \A d, v : Escaped(d, v) <=> At(coder)!Escaped(d, v)
      /\ \A d, v : EscapeOf(d, v) = At(coder)!EscapeOf(d, v)
  BY <1>3 DEF Escaped, EscapeOf, At!Escaped, At!EscapeOf
<1> QED
  BY <1>3, <1>4, <1>6, <1>8, <1>9 DEF EncodeOne, At!EncodeOne

(* What stays while the coder does.                                        *)
LEMMA Steady ==
  ASSUME UNCHANGED coder
  PROVE  /\ Lower' = Lower
         /\ \A s : InUse(s)' <=> InUse(s)
         /\ CoderGood' <=> CoderGood
         /\ \A s, index, value : EncodeOne(s, index, value)' = EncodeOne(s, index, value)
<1>1. Lower' = Lower
  BY DEF Lower
<1>2. \A s : InUse(s)' <=> InUse(s)
  BY <1>1 DEF InUse, InRange, StateBits
<1>3. CoderGood' <=> CoderGood
  <2>1. CoderFits' <=> CoderFits
    BY DEF CoderFits
  <2>2. \A index : DistOf(index)' = DistOf(index)
    BY DEF DistOf
  <2>3. TableFits' <=> TableFits
    BY <2>2 DEF TableFits
  <2>4. \A index, value : EscapeFits(index, value)' <=> EscapeFits(index, value)
    BY <2>2 DEF EscapeFits
  <2> QED
    BY <2>1, <2>3, <2>4 DEF CoderGood
<1>4. \A s, index, value : EncodeOne(s, index, value)' = EncodeOne(s, index, value)
  <2>1. (\A s, index, value : EncodeOne(s, index, value) = At(coder)!EncodeOne(s, index, value))'
    BY EncodeAt, PTL
  <2>2. \A s, index, value : EncodeOne(s, index, value) = At(coder)!EncodeOne(s, index, value)
    BY EncodeAt
  <2> QED
    BY <2>1, <2>2
<1> QED
  BY <1>1, <1>2, <1>3, <1>4

(* What create() accepts.                                                  *)
CoderOf(v, t) == [unit |-> v.unit, lower |-> v.lower, units |-> v.units, table |-> t]

GoodOnceAccepted ==
  \A w \in Variants, u \in Tables : Accepted(u) /\ coder = CoderOf(w, u) => CoderGood

(* A coder that create() accepted is good.                                 *)
LEMMA CreateGood == GoodOnceAccepted
<1> SUFFICES ASSUME NEW v \in Variants, NEW t \in Tables, Accepted(t), coder = CoderOf(v, t)
             PROVE  CoderGood
  BY DEF GoodOnceAccepted
<1>1. coder.unit = v.unit /\ coder.lower = v.lower /\ coder.units = v.units /\ coder.table = t
  BY DEF CoderOf
<1>2. CoderFits
  BY <1>1, WidthsAssumption DEF CoderFits
<1>3. t \in Seq([offset : Int, freqs : Seq(Int)]) /\ Len(t) \in Nat /\ Len(t) > 0
  <2>1. t \in Seq([offset : Int, freqs : Seq(Int)]) /\ t # << >>
    BY TablesAssumption DEF Accepted
  <2>2. Len(t) \in Nat /\ Len(t) # 0
    BY <2>1, EmptySeq, LenProperties
  <2> QED
    BY <2>1, <2>2
<1>4. \A index \in Int : index >= 0 => \E k \in 1 .. Len(t) : DistOf(index) = t[k]
  <2>1. ASSUME NEW index \in Int, index >= 0
        PROVE  \E k \in 1 .. Len(t) : DistOf(index) = t[k]
    <3> DEFINE k == IF index >= Len(t) THEN Len(t) ELSE index + 1
    <3>1. k \in 1 .. Len(t)
      BY <1>3, <2>1
    <3>2. DistOf(index) = t[k]
      BY <1>1 DEF DistOf
    <3> HIDE DEF k
    <3> QED
      BY <3>1, <3>2
  <2> QED
    BY <2>1
<1>5. \A k \in 1 .. Len(t) : DistFits(t[k])
  <2>1. ASSUME NEW k \in 1 .. Len(t) PROVE DistFits(t[k])
    <3>1. t[k] \in [offset : Int, freqs : Seq(Int)]
      BY <1>3, ElementOfSeq
    <3>2. /\ Len(t[k].freqs) > 1
          /\ \A n \in 0 .. Sentinel(t[k]) :
               Freq(t[k], n) > 0 /\ Start(t[k], n) + Freq(t[k], n) <= Pow[SymbolBits]
      BY DEF Accepted
    <3> QED
      BY <3>1, <3>2 DEF DistFits
  <2> QED
    BY <2>1
<1>6. TableFits
  BY <1>4, <1>5 DEF TableFits
<1>7. ASSUME NEW index \in Indices, NEW value \in Values PROVE EscapeFits(index, value)
  <2>1. CASE index >= 0
    <3>1. PICK k \in 1 .. Len(t) : DistOf(index) = t[k]
      BY <1>4, <2>1, ValuesAssumption
    <3>2. EscapeOf(t[k], value + t[k].offset) < Pow[BypassBits * MaxDigits]
      BY EscapesFit
    <3> QED
      BY <3>1, <3>2 DEF EscapeFits
  <2>2. CASE ~(index >= 0)
    BY <2>2 DEF EscapeFits
  <2> QED
    BY <2>1, <2>2
<1> QED
  BY <1>2, <1>6, <1>7 DEF CoderGood

(* The encoder starts in the interval.                                     *)
LEMMA LowerIn ==
  CoderFits => InUse([x |-> Lower, data |-> << >>])
<1> SUFFICES ASSUME CoderFits
             PROVE  InUse([x |-> Lower, data |-> << >>])
  OBVIOUS
<1>1. /\ Lower \in Nat \ {0} /\ Pow[coder.unit] \in Nat \ {0} /\ Pow[StateBits] = Lower * Pow[coder.unit]
      /\ coder.unit \in Nat \ {0}
  BY WidthsAre
<1>2. Pow[coder.unit] > 1
  <2>1. 1 \in Nat /\ 1 <= coder.unit /\ coder.unit \in Nat
    BY <1>1
  <2>2. Pow[1] <= Pow[coder.unit] /\ Pow[1] = 2 * Pow[0] /\ Pow[0] = 1
    <3>1. 1 \in Nat \ {0} /\ 1 - 1 = 0
      OBVIOUS
    <3>2. Pow[1] = 2 * Pow[1 - 1]
      BY <3>1, PowDoubles
    <3>3. Pow[1] <= Pow[coder.unit]
      BY <2>1, PowGrows
    <3> QED
      BY <3>1, <3>2, <3>3, PowDoubles
  <2> QED
    BY <1>1, <2>2
<1>3. Lower < Pow[StateBits]
  <2> DEFINE u == Pow[coder.unit]
             l == Lower
  <2>1. u \in Nat /\ u >= 2 /\ l \in Nat \ {0}
    BY <1>1, <1>2
  <2> HIDE DEF u, l
  <2>2. 2 * l <= u * l /\ u * l = l * u
    BY <2>1, Grows, Products
  <2>3. l < l * u
    BY <2>1, <2>2
  <2> QED
    BY <1>1, <2>3 DEF u, l
<1>4. InRange(Lower)
  BY <1>1, <1>3 DEF InRange
<1>5. << >> \in Seq(Nat)
  BY EmptySeq
<1> QED
  BY <1>4, <1>5 DEF InUse

(* The invariant holds at first.                                           *)
LEMMA InvInit == RcIdle => RcInv
BY DEF RcIdle, RcInv

(* create() keeps it: the trail starts.                                    *)
LEMMA InvCreate ==
  ASSUME RcInv, Create
  PROVE  RcInv'
<1>1. /\ phase = "idle" /\ sent' = << >> /\ data' = << >> /\ received' = << >>
  BY DEF Create, RcInv
<1>2. PICK v \in Variants, t \in Tables :
        IF Accepted(t)
        THEN /\ coder' = [unit |-> v.unit, lower |-> v.lower, units |-> v.units, table |-> t]
             /\ x' = Pow[v.lower]
             /\ phase' = "encode"
             /\ status' = "Ok"
        ELSE /\ phase' = "refused"
             /\ status' = "Format"
             /\ UNCHANGED << coder, x >>
  BY DEF Create
<1>3. CASE ~Accepted(t)
  BY <1>1, <1>2, <1>3 DEF RcInv
<1>4. CASE Accepted(t)
  <2>1. coder' = CoderOf(v, t) /\ x' = Pow[v.lower] /\ phase' = "encode" /\ status' = "Ok"
    BY <1>2, <1>4 DEF CoderOf
  <2>2. CoderGood'
    <3>1. GoodOnceAccepted'
      BY CreateGood, PTL
    <3>2. Accepted(t)' /\ (coder = CoderOf(v, t))'
      BY <1>4, <2>1
    <3> QED
      BY <3>1, <3>2 DEF GoodOnceAccepted
  <2>3. InUse([x |-> Lower, data |-> << >>])'
    <3>1. (CoderFits => InUse([x |-> Lower, data |-> << >>]))'
      BY LowerIn, PTL
    <3>2. CoderFits'
      BY <2>2 DEF CoderGood
    <3> QED
      BY <3>1, <3>2
  <2>4. Lower' = x'
    BY <2>1 DEF Lower, CoderOf
  <2>5. << >> \in Seq(Pairs) /\ << >> \in Seq(Int) /\ Len(<< >>) = 0
    BY EmptySeq
  <2>6. (\E h : Trail(h))'
    <3> PICK s : s = [x |-> x', data |-> << >>]
      OBVIOUS
    <3> PICK h : h = [j \in 0 .. 0 |-> s]
      OBVIOUS
    <3>1. h[0] = s /\ InUse(s)'
      <4>1. s = [x |-> Lower, data |-> << >>]'
        BY <2>4
      <4> QED
        BY <2>3, <4>1
    <3>2. Len(sent') = 0 /\ Len(sent') - Len(received') = 0
      BY <1>1, <2>5
    <3>3. s = [x |-> Lower', data |-> << >>] /\ s = [x |-> x', data |-> data']
      BY <1>1, <2>4
    <3>4. Trail(h)'
      BY <3>1, <3>2, <3>3 DEF Trail
    <3> QED
      BY <3>4
  <2>7. Correct'
    BY <1>1, <2>5 DEF Correct
  <2> QED
    BY <1>1, <2>1, <2>2, <2>5, <2>6, <2>7 DEF RcInv
<1> QED
  BY <1>3, <1>4

(* encode() keeps it: the trail grows by one state.                        *)
LEMMA InvEncode ==
  ASSUME RcInv, Encode
  PROVE  RcInv'
<1>1. /\ phase = "encode" /\ UNCHANGED << coder, phase, received, status >>
      /\ CoderGood /\ sent \in Seq(Pairs) /\ received = << >> /\ status = "Ok"
  BY DEF Encode, RcInv
<1>2. PICK h : Trail(h)
  BY <1>1 DEF RcInv
<1>3. PICK index \in Indices, value \in Values :
        LET s == EncodeOne([x |-> x, data |-> data], index, value)
        IN /\ x' = s.x /\ data' = s.data
           /\ sent' = << [index |-> index, value |-> value] >> \o sent
  BY DEF Encode
<1> DEFINE pair == [index |-> index, value |-> value]
           L == Len(sent)
<1> PICK s : s = EncodeOne([x |-> x, data |-> data], index, value)
  OBVIOUS
<1> PICK g : g = [j \in 0 .. L + 1 |-> IF j = L + 1 THEN s ELSE h[j]]
  OBVIOUS
<1>4. /\ pair \in Pairs /\ index \in Int /\ value \in Int
      /\ CoderFits /\ TableFits /\ EscapeFits(index, value)
  BY <1>1, ValuesAssumption DEF Pairs, CoderGood
<1>5. L \in Nat /\ Len(received) = 0
  BY <1>1, LenProperties
<1>6. /\ sent' \in Seq(Pairs) /\ Len(sent') = L + 1
      /\ sent'[1] = pair /\ \A k \in 1 .. L : sent'[k + 1] = sent[k]
  <2> DEFINE one == << pair >>
  <2>1. one \in Seq(Pairs) /\ Len(one) = 1 /\ one[1] = pair
    BY <1>4
  <2> HIDE DEF one
  <2>2. /\ one \o sent \in Seq(Pairs) /\ Len(one \o sent) = Len(one) + Len(sent)
        /\ \A k \in 1 .. Len(one) + Len(sent) :
             (one \o sent)[k] = IF k <= Len(one) THEN one[k] ELSE sent[k - Len(one)]
    BY <1>1, <2>1, ConcatProperties
  <2>3. sent' = one \o sent
    BY <1>3 DEF one
  <2> HIDE DEF pair
  <2>4. sent'[1] = pair
    <3>1. 1 \in 1 .. 1 + L /\ 1 <= 1
      BY <1>5
    <3> QED
      BY <2>1, <2>2, <2>3, <3>1
  <2>5. ASSUME NEW k \in 1 .. L PROVE sent'[k + 1] = sent[k]
    <3>1. k + 1 \in 1 .. 1 + L /\ ~(k + 1 <= 1) /\ (k + 1) - 1 = k
      BY <1>5
    <3> QED
      BY <2>1, <2>2, <2>3, <3>1
  <2>6. Len(sent') = L + 1
    BY <1>5, <2>1, <2>2, <2>3
  <2> QED
    BY <2>2, <2>3, <2>4, <2>5, <2>6
<1>7. /\ h[0] = [x |-> Lower, data |-> << >>] /\ \A j \in 0 .. L : InUse(h[j])
      /\ \A j \in 1 .. L : h[j] = EncodeOne(h[j - 1], Nth(j).index, Nth(j).value)
      /\ h[L] = [x |-> x, data |-> data]
  <2>1. L - Len(received) = L
    BY <1>5
  <2> QED
    BY <1>2, <2>1 DEF Trail
<1>8. InUse(s) /\ s = EncodeOne(h[L], index, value)
  <2>1. InUse(h[L]) /\ s = EncodeOne(h[L], index, value)
    <3>1. L \in 0 .. L
      BY <1>5
    <3> QED
      BY <1>7, <3>1
  <2>2. InUse(EncodeOne(h[L], index, value))
    BY <1>4, <2>1, ValueReturns
  <2> QED
    BY <2>1, <2>2
<1>9. s = [x |-> x', data |-> data']
  BY <1>3, <1>8 DEF InUse
<1>10. g[L + 1] = s /\ \A j \in 0 .. L : g[j] = h[j]
  <2>1. L + 1 \in 0 .. L + 1 /\ \A j \in 0 .. L : j \in 0 .. L + 1 /\ j # L + 1
    BY <1>5
  <2> HIDE DEF L
  <2> QED
    BY <2>1
<1>11. /\ Lower' = Lower /\ CoderGood'
       /\ \A u : InUse(u)' <=> InUse(u)
       /\ \A u, i, v : EncodeOne(u, i, v)' = EncodeOne(u, i, v)
  BY <1>1, Steady
<1>12. ASSUME NEW j \in 0 .. L + 1 PROVE InUse(g[j])'
  <2>1. InUse(g[j])
    <3>1. CASE j = L + 1
      BY <1>8, <1>10, <3>1
    <3>2. CASE j # L + 1
      <4>1. j \in 0 .. L
        BY <1>5, <3>2
      <4> QED
        BY <1>7, <1>10, <4>1
    <3> QED
      BY <3>1, <3>2
  <2> QED
    BY <1>11, <2>1
<1>13. ASSUME NEW j \in 1 .. L + 1
       PROVE  g[j] = (EncodeOne(g[j - 1], Nth(j).index, Nth(j).value))'
  <2>1. Nth(j)' = sent'[(L + 1) + 1 - j]
    BY <1>6, SMTT(40) DEF Nth
  <2>2. CASE j = L + 1
    <3>1. (L + 1) + 1 - j = 1 /\ j - 1 = L /\ L \in 0 .. L
      BY <1>5, <2>2
    <3>2. Nth(j)' = pair
      BY <1>6, <2>1, <3>1
    <3>3. (EncodeOne(g[j - 1], Nth(j).index, Nth(j).value))' = EncodeOne(g[j - 1], index, value)
      <4>1. Nth(j)'.index = index /\ Nth(j)'.value = value
        BY <3>2
      <4> QED
        BY <1>11, <4>1
    <3> QED
      BY <1>8, <1>10, <2>2, <3>1, <3>3
  <2>3. CASE j # L + 1
    <3>1. j \in 1 .. L /\ j \in 0 .. L /\ j - 1 \in 0 .. L /\ L + 1 - j \in 1 .. L
          /\ (L + 1) + 1 - j = (L + 1 - j) + 1
      BY <1>5, <2>3
    <3>2. Nth(j)' = Nth(j)
      BY <1>6, <2>1, <3>1 DEF Nth
    <3>3. (EncodeOne(g[j - 1], Nth(j).index, Nth(j).value))'
            = EncodeOne(g[j - 1], Nth(j).index, Nth(j).value)
      BY <1>11, <3>2
    <3> QED
      BY <1>7, <1>10, <3>1, <3>3
  <2> QED
    BY <2>2, <2>3
<1>14. Trail(g)'
  <2>1. Len(sent') = L + 1 /\ Len(sent') - Len(received') = L + 1
    BY <1>1, <1>5, <1>6
  <2>2. g[0] = [x |-> Lower, data |-> << >>]'
    <3>1. 0 \in 0 .. L
      BY <1>5
    <3> QED
      BY <1>7, <1>10, <1>11, <3>1
  <2>3. g[L + 1] = [x |-> x, data |-> data]'
    BY <1>9, <1>10
  <2> HIDE DEF L
  <2> QED
    BY <1>12, <1>13, <2>1, <2>2, <2>3 DEF Trail
<1>15. Correct' /\ received' \in Seq(Int) /\ Len(received') <= Len(sent') /\ received' = << >>
  <2>1. received' = << >> /\ << >> \in Seq(Int) /\ Len(<< >>) = 0
    BY <1>1, EmptySeq
  <2>2. Len(sent') = L + 1
    BY <1>6
  <2> QED
    BY <1>5, <2>1, <2>2 DEF Correct
<1> QED
  BY <1>1, <1>6, <1>11, <1>14, <1>15 DEF RcInv

(* What the properties need of the state that is current.                  *)
LEMMA StateInUse ==
  ASSUME phase \in {"encode", "decode", "done"}, RcInv
  PROVE  InUse([x |-> x, data |-> data])
<1>1. PICK h : Trail(h)
  BY DEF RcInv
<1>2. Len(sent) \in Nat /\ Len(received) \in Nat /\ Len(received) <= Len(sent)
  BY LenProperties DEF RcInv
<1>3. Len(sent) - Len(received) \in 0 .. Len(sent)
  BY <1>2
<1> QED
  BY <1>1, <1>3 DEF Trail

(* flush() and open() keep it: the decoder stands at the end of the trail. *)
LEMMA InvFlush ==
  ASSUME RcInv, FlushAndOpen
  PROVE  RcInv'
<1>1. /\ phase = "encode" /\ UNCHANGED << coder, sent, received >>
      /\ CoderGood /\ sent \in Seq(Pairs) /\ received = << >>
  BY DEF FlushAndOpen, RcInv
<1>2. InRange(x) /\ data \in Seq(Nat) /\ CoderFits
  <2>1. InUse([x |-> x, data |-> data])
    BY <1>1, StateInUse
  <2> QED
    BY <1>1, <2>1 DEF InUse, CoderGood
<1> DEFINE written == StateUnits(x) \o data
           state == Assembled(SubSeq(written, 1, coder.units), coder.unit)
<1>3. state = x /\ SubSeq(written, coder.units + 1, Len(written)) = data
  BY <1>2, StateReturns
<1>4. /\ x' = state
      /\ data' = SubSeq(written, coder.units + 1, Len(written))
      /\ status' = (IF state < Lower THEN "Format" ELSE "Ok")
      /\ phase' = (IF state < Lower THEN "done" ELSE "decode")
  BY DEF FlushAndOpen
<1> HIDE DEF written, state
<1>5. ~(state < Lower)
  <2>1. x \in Nat /\ Lower <= x /\ Lower \in Nat
    BY <1>2, WidthsAre DEF InRange
  <2> QED
    BY <1>3, <2>1
<1>6. x' = x /\ data' = data /\ status' = "Ok" /\ phase' = "decode"
  BY <1>3, <1>4, <1>5
<1>7. /\ Lower' = Lower /\ CoderGood'
      /\ \A u : InUse(u)' <=> InUse(u)
      /\ \A u, i, v : EncodeOne(u, i, v)' = EncodeOne(u, i, v)
  BY <1>1, Steady
<1>8. (\E h : Trail(h))'
  <2>1. PICK h : Trail(h)
    BY <1>1 DEF RcInv
  <2>2. Trail(h)'
    BY <1>1, <1>6, <1>7, <2>1 DEF Trail, Nth
  <2> QED
    BY <2>2
<1>9. Correct' /\ received' \in Seq(Int) /\ Len(received') <= Len(sent')
  BY <1>1 DEF RcInv, Correct
<1> QED
  BY <1>1, <1>6, <1>7, <1>8, <1>9 DEF RcInv

(* decode() keeps it: it goes back by one state.                           *)
LEMMA InvDecode ==
  ASSUME RcInv, Decode
  PROVE  RcInv'
<1>1. /\ phase = "decode" /\ UNCHANGED << coder, sent >> /\ Len(received) < Len(sent)
      /\ CoderGood /\ sent \in Seq(Pairs) /\ received \in Seq(Int) /\ Correct
  BY DEF Decode, RcInv
<1>2. PICK h : Trail(h)
  BY <1>1 DEF RcInv
<1> DEFINE L == Len(sent)
           R == Len(received)
           pair == sent[R + 1]
           j == L - R
           value == IF pair.index < 0 THEN 0 ELSE pair.value
<1>3. /\ L \in Nat /\ R \in Nat /\ R < L /\ R + 1 \in 1 .. L /\ j \in 1 .. L /\ j \in 0 .. L
      /\ j - 1 \in 0 .. L /\ L + 1 - j = R + 1 /\ j - 1 = L - (R + 1)
  <2>1. L \in Nat /\ R \in Nat /\ R < L
    BY <1>1, LenProperties
  <2> HIDE DEF L, R
  <2> QED
    BY <2>1
<1>4. pair \in Pairs /\ pair.index \in Int /\ pair.value \in Int /\ EscapeFits(pair.index, pair.value)
      /\ CoderFits /\ TableFits
  <2>1. pair \in Pairs
    BY <1>1, <1>3, ElementOfSeq
  <2> HIDE DEF pair
  <2> QED
    BY <1>1, <2>1, ValuesAssumption DEF Pairs, CoderGood
<1>5. value \in Int
  BY <1>4
<1>6. /\ InUse(h[j - 1]) /\ InUse(h[j]) /\ h[j] = EncodeOne(h[j - 1], pair.index, pair.value)
      /\ h[j] = [x |-> x, data |-> data]
  <2>1. Nth(j) = pair
    BY <1>3 DEF Nth
  <2>2. InUse(h[j - 1]) /\ InUse(h[j]) /\ h[j] = EncodeOne(h[j - 1], Nth(j).index, Nth(j).value)
    BY <1>2, <1>3 DEF Trail
  <2>3. h[j] = [x |-> x, data |-> data]
    BY <1>2 DEF Trail
  <2> QED
    BY <2>1, <2>2, <2>3
<1> HIDE DEF L, R, pair, j, value
<1>7. DecodeOne(Reopened(h[j], 0), pair.index) = Reopened(h[j - 1], value)
  <2> DEFINE t == EncodeOne(h[j - 1], pair.index, pair.value)
  <2>1. DecodeOne(Reopened(t, 0), pair.index)
          = Reopened(h[j - 1], IF pair.index < 0 THEN 0 ELSE pair.value)
    BY <1>4, <1>6, ValueReturns
  <2> QED
    BY <1>6, <2>1 DEF value
<1> DEFINE s == DecodeOne([x |-> x, data |-> data, ok |-> TRUE, value |-> 0], pair.index)
<1>8. /\ x' = s.x /\ data' = s.data
      /\ received' = IF s.ok THEN Append(received, s.value) ELSE received
      /\ status' = IF s.ok THEN "Ok" ELSE "Format"
      /\ phase' = IF s.ok THEN "decode" ELSE "done"
  BY DEF Decode, pair, R
<1>9. s = Reopened(h[j - 1], value)
  <2>1. Reopened(h[j], 0) = [x |-> x, data |-> data, ok |-> TRUE, value |-> 0]
    <3>1. h[j].x = x /\ h[j].data = data
      BY <1>6
    <3>2. Reopened(h[j], 0) = [x |-> x, data |-> data, ok |-> Yes, value |-> 0]
      BY <3>1 DEF Reopened, Opened
    <3> QED
      BY <3>2, Zenon DEF Yes
  <2> QED
    BY <1>7, <2>1, Zenon
<1> HIDE DEF s
<1>10. s.x = h[j - 1].x /\ s.data = h[j - 1].data /\ s.value = value /\ s.ok = Yes
  BY <1>9, OpenedFields DEF Reopened
<1>11. s.ok
  BY <1>10, Zenon DEF Yes
<1>12. received' = Append(received, value) /\ status' = "Ok" /\ phase' = "decode"
  <2>1. received' = Append(received, s.value) /\ status' = "Ok" /\ phase' = "decode"
    BY <1>8, <1>11, Zenon
  <2> QED
    BY <1>10, <2>1
<1>13. h[j - 1] = [x |-> x', data |-> data']
  BY <1>6, <1>8, <1>10 DEF InUse
<1>14. /\ received' \in Seq(Int) /\ Len(received') = R + 1
       /\ \A k \in 1 .. R : received'[k] = received[k]
       /\ received'[R + 1] = value
  <2>1. /\ Append(received, value) \in Seq(Int) /\ Len(Append(received, value)) = R + 1
        /\ \A k \in 1 .. R : Append(received, value)[k] = received[k]
        /\ Append(received, value)[R + 1] = value
    BY <1>1, <1>5, AppendProperties DEF R
  <2> QED
    BY <1>12, <2>1
<1>15. /\ Lower' = Lower /\ CoderGood'
       /\ \A u : InUse(u)' <=> InUse(u)
       /\ \A u, i, v : EncodeOne(u, i, v)' = EncodeOne(u, i, v)
  BY <1>1, Steady
<1>16. Trail(h)'
  <2>1. /\ h[0] = [x |-> Lower, data |-> << >>]' /\ \A i \in 0 .. Len(sent') : InUse(h[i])'
        /\ \A i \in 1 .. Len(sent') : h[i] = EncodeOne(h[i - 1], Nth(i).index, Nth(i).value)'
    BY <1>1, <1>2, <1>15 DEF Trail, Nth
  <2>2. h[Len(sent') - Len(received')] = [x |-> x, data |-> data]'
    <3>1. Len(sent') - Len(received') = j - 1
      BY <1>1, <1>3, <1>14 DEF L
    <3> QED
      BY <1>13, <3>1
  <2> QED
    BY <2>1, <2>2 DEF Trail
<1>17. Correct'
  <2>1. ASSUME NEW k \in 1 .. R + 1
        PROVE  received'[k] = IF sent[k].index < 0 THEN 0 ELSE sent[k].value
    <3>1. CASE k = R + 1
      BY <1>14, <3>1 DEF value, pair
    <3>2. CASE k # R + 1
      <4>1. k \in 1 .. R
        BY <1>3, <3>2
      <4> QED
        BY <1>1, <1>14, <4>1 DEF Correct, R
    <3> QED
      BY <3>1, <3>2
  <2> QED
    BY <1>1, <1>14, <2>1 DEF Correct
<1>18. Len(received') <= Len(sent')
  BY <1>1, <1>3, <1>14 DEF L
<1> QED
  BY <1>1, <1>12, <1>14, <1>15, <1>16, <1>17, <1>18 DEF RcInv

(* check_eof() keeps it: the decoder stands where the encoder began.       *)
LEMMA InvEof ==
  ASSUME RcInv, CheckEof
  PROVE  RcInv'
<1>1. /\ phase = "decode" /\ UNCHANGED << coder, sent, x, data, received >> /\ phase' = "done"
      /\ Len(received) = Len(sent)
      /\ status' = IF data = << >> /\ x = Lower THEN "Ok" ELSE "Format"
      /\ CoderGood /\ sent \in Seq(Pairs) /\ received \in Seq(Int) /\ Correct
  BY DEF CheckEof, RcInv
<1>2. PICK h : Trail(h)
  BY <1>1 DEF RcInv
<1>3. data = << >> /\ x = Lower
  <2>1. Len(sent) - Len(received) = 0
    <3>1. Len(sent) \in Nat
      BY <1>1, LenProperties
    <3> QED
      BY <1>1, <3>1
  <2>2. [x |-> Lower, data |-> << >>] = [x |-> x, data |-> data]
    BY <1>2, <2>1 DEF Trail
  <2> QED
    BY <2>2
<1>4. status' = "Ok"
  BY <1>1, <1>3
<1>5. /\ Lower' = Lower /\ CoderGood'
      /\ \A u : InUse(u)' <=> InUse(u)
      /\ \A u, i, v : EncodeOne(u, i, v)' = EncodeOne(u, i, v)
  BY <1>1, Steady
<1>6. Trail(h)'
  BY <1>1, <1>2, <1>5 DEF Trail, Nth
<1>7. Correct' /\ Len(received') <= Len(sent')
  BY <1>1 DEF RcInv, Correct
<1> QED
  BY <1>1, <1>4, <1>5, <1>6, <1>7 DEF RcInv

(* Every step keeps the invariant.                                         *)
LEMMA InvNext ==
  ASSUME RcInv, [RcNext]_rcVars
  PROVE  RcInv'
<1>1. CASE Create
  BY <1>1, InvCreate
<1>2. CASE Encode
  BY <1>2, InvEncode
<1>3. CASE FlushAndOpen
  BY <1>3, InvFlush
<1>4. CASE Decode
  BY <1>4, InvDecode
<1>5. CASE CheckEof
  BY <1>5, InvEof
<1>6. CASE UNCHANGED rcVars
  <2>1. UNCHANGED << coder, phase, sent, x, data, received, status >>
    BY <1>6 DEF rcVars
  <2>2. /\ Lower' = Lower /\ (CoderGood' <=> CoderGood)
        /\ \A u : InUse(u)' <=> InUse(u)
        /\ \A u, i, v : EncodeOne(u, i, v)' = EncodeOne(u, i, v)
    BY <2>1, Steady
  <2>3. (\E h : Trail(h)) => (\E h : Trail(h))'
    <3>1. ASSUME NEW h, Trail(h) PROVE Trail(h)'
      BY <2>1, <2>2, <3>1 DEF Trail, Nth
    <3> QED
      BY <3>1
  <2>4. Correct => Correct'
    BY <2>1 DEF Correct
  <2> QED
    BY <2>1, <2>2, <2>3, <2>4 DEF RcInv
<1> QED
  BY <1>1, <1>2, <1>3, <1>4, <1>5, <1>6 DEF RcNext

(* The invariant says that the coder is lossless.                          *)
LEMMA InvImplies == RcInv => RoundTrip
<1> SUFFICES ASSUME RcInv, phase \in {"encode", "decode", "done"}
             PROVE  /\ status = "Ok" /\ x >= Lower /\ x < Pow[StateBits]
                    /\ \A k \in 1 .. Len(received) :
                         received[k] = IF sent[k].index < 0 THEN 0 ELSE sent[k].value
  BY DEF RoundTrip
<1>1. status = "Ok" /\ Correct /\ CoderFits
  BY DEF RcInv, CoderGood
<1>2. InRange(x)
  <2>1. InUse([x |-> x, data |-> data])
    BY StateInUse
  <2> QED
    BY <2>1 DEF InUse
<1>3. x >= Lower /\ x < Pow[StateBits]
  BY <1>1, <1>2, WidthsAre DEF InRange
<1> QED
  BY <1>1, <1>3 DEF Correct

(* rans.cpp is lossless: whatever was encoded, with whatever distributions *)
(* that create() accepts, is decoded as it was, every call returns Ok, the *)
(* end check included, and the state never leaves the interval in which    *)
(* the reciprocals divide exactly.                                         *)
THEOREM LosslessCoder == RcSpec => []RoundTrip
<1>1. RcIdle => RcInv
  BY InvInit
<1>2. RcInv /\ [RcNext]_rcVars => RcInv'
  BY InvNext
<1>3. RcInv => RoundTrip
  BY InvImplies
<1> QED
  BY <1>1, <1>2, <1>3, PTL DEF RcSpec
=============================================================================
