-------------------------- MODULE UsageWindows_proofs --------------------------
(***************************************************************************)
(* For any calendar, any windows and lifetimes that satisfy                *)
(* CountersOutlive: no counter is lost while a check may still read it.    *)
(*                                                                         *)
(* A bucket is spent once some tick of it lies a lifetime back.  Only a    *)
(* spent bucket may differ from what was recorded in it, and no check that *)
(* is under way covers a spent one.                                        *)
(*                                                                         *)
(* And every decision is right for some instant of its check: what a check *)
(* has added up lies between what its buckets held when it began and what  *)
(* they hold now.  That compares sums over sets of buckets, so the module  *)
(* first proves what it needs of them: a sum is the community modules'     *)
(* fold, and its lemmas rest on well-founded induction over sets.          *)
(***************************************************************************)
EXTENDS UsageWindows, FiniteSetTheorems, WellFoundedInduction, TLAPS

Spent(w, b) ==
    w \notin Forever /\ \E t \in Ticks : Calendar[w][t] = b /\ t + TTL[w] <= now

(* What is not spent is exact; it is live, or nothing was recorded in it;   *)
(* and a lifetime counts from a tick of its bucket at the earliest.         *)
Exact(w, b)   == \A k \in Metrics : count[k][w][b] = ledger[k][w][b]
Present(w, b) == Live(w, b) \/ \A k \in Metrics : ledger[k][w][b] = 0
Lasting(w, b) == expiry[w][b] = 0 \/ \E t \in Ticks : Calendar[w][t] = b /\ t + TTL[w] <= expiry[w][b]

Kept(w, b) == Lasting(w, b) /\ (Spent(w, b) \/ (Exact(w, b) /\ Present(w, b)))

BucketInv == \A w \in Windows, b \in Ticks : Kept(w, b)
MomentInv == \A r \in Requests : moment[r] <= now
IInv      == TypeOK /\ BucketInv /\ MomentInv

--------------------------------------------------------------------------------
LEMMA Types ==
    ASSUME TypeOK, NEW w \in Windows, NEW b \in Ticks
    PROVE  /\ expiry[w][b] \in Nat /\ TTL[w] \in Nat
           /\ \A k \in Metrics : count[k][w][b] \in Nat /\ ledger[k][w][b] \in Nat
           /\ \A t \in Ticks : Calendar[w][t] \in Ticks
           /\ now \in Nat /\ Ticks \subseteq Nat
BY WindowsAssumption, BoundsAssumption DEF TypeOK, Ticks

LEMMA Amounts ==
    ASSUME NEW k \in Metrics, NEW tokens \in Totals
    PROVE  Amount(k, tokens) \in Nat
BY LimitsAssumption DEF Amount

(* A bucket nothing is written to stays kept as time goes on.               *)
LEMMA KeptAsTimePasses ==
    ASSUME TypeOK, NEW w \in Windows, NEW b \in Ticks, Kept(w, b),
           now' \in Nat, now <= now',
           expiry'[w][b] = expiry[w][b],
           \A k \in Metrics : count'[k][w][b] = count[k][w][b] /\ ledger'[k][w][b] = ledger[k][w][b]
    PROVE  Kept(w, b)'
<1>1. Lasting(w, b)'
  BY DEF Kept, Lasting
<1>2. Spent(w, b) => Spent(w, b)'
  BY Types DEF Spent
<1>3. Exact(w, b) => Exact(w, b)'
  BY DEF Exact
<1>4. CASE \A k \in Metrics : ledger[k][w][b] = 0
  BY <1>1, <1>2, <1>3, <1>4 DEF Kept, Present
<1>5. CASE w \in Forever
  BY <1>1, <1>2, <1>3, <1>5 DEF Kept, Present, Live
<1>6. CASE w \notin Forever /\ now < expiry[w][b] /\ now' < expiry[w][b]
  BY <1>1, <1>2, <1>3, <1>6 DEF Kept, Present, Live
<1>7. CASE w \notin Forever /\ now < expiry[w][b] /\ ~(now' < expiry[w][b])
  <2>1. PICK t \in Ticks : Calendar[w][t] = b /\ t + TTL[w] <= expiry[w][b]
    BY <1>7, Types DEF Kept, Lasting
  <2>2. t + TTL[w] <= now'
    BY <1>7, <2>1, Types
  <2>3. Spent(w, b)'
    BY <1>7, <2>1, <2>2 DEF Spent
  <2> QED
    BY <1>1, <2>3 DEF Kept
<1> QED
  BY <1>1, <1>2, <1>4, <1>5, <1>6, <1>7 DEF Kept, Present, Live

LEMMA RecordKeeps ==
    ASSUME IInv, NEW r \in Requests, Record(r)
    PROVE  IInv'
<1> USE DEF IInv
<1>1. PICK tokens \in Totals :
        /\ count' = [k \in Metrics |-> [w \in Windows |->
             [count[k][w] EXCEPT ![Calendar[w][moment[r]]] =
                Held(k, w, Calendar[w][moment[r]]) + Amount(k, tokens)]]]
        /\ ledger' = [k \in Metrics |-> [w \in Windows |->
             [ledger[k][w] EXCEPT ![Calendar[w][moment[r]]] = @ + Amount(k, tokens)]]]
  BY DEF Record
<1>2. /\ expiry' = [w \in Windows |-> [expiry[w] EXCEPT ![Calendar[w][moment[r]]] = Expiry(w)]]
      /\ End(r) /\ UNCHANGED <<now, limit>>
  BY DEF Record
<1>3. moment[r] \in Ticks /\ moment[r] <= now /\ now \in Nat /\ AnyLimit \in Limits
  BY BoundsAssumption DEF TypeOK, MomentInv, Ticks, AnyLimit
<1>4. \A w \in Windows : Calendar[w][moment[r]] \in Ticks
  BY <1>3, WindowsAssumption
<1>5. TypeOK'
  <2>1. count' \in [Metrics -> [Windows -> [Ticks -> Nat]]]
    <3>1. ASSUME NEW k \in Metrics, NEW w \in Windows
          PROVE  Held(k, w, Calendar[w][moment[r]]) + Amount(k, tokens) \in Nat
      BY <1>4, Types, Amounts DEF Held
    <3> QED
      BY <1>1, <1>4, <3>1 DEF TypeOK
  <2>2. ledger' \in [Metrics -> [Windows -> [Ticks -> Nat]]]
    BY <1>1, <1>4, Amounts DEF TypeOK
  <2>3. expiry' \in [Windows -> [Ticks -> Nat]]
    BY <1>2, <1>3, <1>4, WindowsAssumption DEF TypeOK, Expiry
  <2>4. /\ pc' \in [Requests -> PCs] /\ moment' \in [Requests -> Ticks]
        /\ seen' \in [Requests -> Limits] /\ back' \in [Requests -> Nat] /\ total' \in [Requests -> Nat]
    BY <1>2, <1>3, BoundsAssumption DEF End, TypeOK, PCs, Ticks
  <2> QED
    BY <1>2, <2>1, <2>2, <2>3, <2>4 DEF TypeOK
<1>6. ASSUME NEW w \in Windows, NEW b \in Ticks
      PROVE  Kept(w, b)'
  <2>1. Kept(w, b)
    BY DEF BucketInv
  <2>2. CASE b # Calendar[w][moment[r]]
    <3>1. expiry'[w][b] = expiry[w][b]
      BY <1>2, <2>2 DEF TypeOK
    <3>2. \A k \in Metrics : count'[k][w][b] = count[k][w][b] /\ ledger'[k][w][b] = ledger[k][w][b]
      BY <1>1, <2>2 DEF TypeOK
    <3> QED
      BY <1>2, <1>3, <2>1, <3>1, <3>2, KeptAsTimePasses
  <2>3. CASE b = Calendar[w][moment[r]]
    <3>1. expiry'[w][b] = now + TTL[w]
      BY <1>2, <2>3 DEF TypeOK, Expiry
    <3>2. \A k \in Metrics :
             /\ count'[k][w][b] = Held(k, w, b) + Amount(k, tokens)
             /\ ledger'[k][w][b] = ledger[k][w][b] + Amount(k, tokens)
      BY <1>1, <2>3 DEF TypeOK
    <3>3. Lasting(w, b)'
      BY <1>3, <2>3, <3>1, Types DEF Lasting
    <3>4. CASE Spent(w, b)
      BY <1>2, <3>3, <3>4 DEF Kept, Spent
    <3>5. CASE Exact(w, b) /\ Present(w, b)
      <4>1. \A k \in Metrics : Held(k, w, b) = ledger[k][w][b]
        BY <3>5 DEF Held, Exact, Present
      <4>2. Exact(w, b)'
        BY <3>2, <4>1 DEF Exact
      <4>3. CASE w \in Forever
        BY <3>3, <4>2, <4>3 DEF Kept, Present, Live
      <4>4. CASE w \notin Forever /\ TTL[w] = 0
        <5>1. Spent(w, b)'
          BY <1>2, <1>3, <2>3, <4>4 DEF Spent, Ticks
        <5> QED
          BY <3>3, <5>1 DEF Kept
      <4>5. CASE TTL[w] > 0
        <5>1. now' < expiry'[w][b]
          BY <1>2, <1>3, <3>1, <4>5, Types
        <5> QED
          BY <3>3, <4>2, <5>1 DEF Kept, Present, Live
      <4> QED
        BY <4>3, <4>4, <4>5, Types
    <3> QED
      BY <2>1, <3>4, <3>5 DEF Kept
  <2> QED
    BY <2>2, <2>3
<1>7. MomentInv'
  BY <1>2, <1>3 DEF End, MomentInv, TypeOK
<1> QED
  BY <1>5, <1>6, <1>7 DEF BucketInv

(* Steps that leave Redis alone.                                            *)
LEMMA StoreKept ==
    ASSUME IInv, UNCHANGED store, now' \in Nat, now <= now'
    PROVE  BucketInv'
<1> SUFFICES ASSUME NEW w \in Windows, NEW b \in Ticks
             PROVE  Kept(w, b)'
  BY DEF BucketInv
<1> QED
  BY KeptAsTimePasses DEF IInv, BucketInv, store

LEMMA NextIInv == IInv /\ [Next]_vars => IInv'
<1> SUFFICES ASSUME IInv, [Next]_vars PROVE IInv'
  OBVIOUS
<1>0. now \in Nat /\ now \in Ticks /\ TypeOK /\ MomentInv
  BY BoundsAssumption DEF IInv, TypeOK, Ticks
<1>1. CASE Tick
  <2>1. now' = now + 1 /\ now' \in Ticks /\ UNCHANGED <<limit, store, request>>
    BY <1>0, <1>1, BoundsAssumption DEF Tick, Ticks
  <2>2. TypeOK'
    BY <1>0, <2>1 DEF TypeOK, store, request
  <2>3. MomentInv'
    BY <1>0, <2>1, BoundsAssumption DEF MomentInv, request, TypeOK, Ticks
  <2> QED
    BY <1>0, <2>1, <2>2, <2>3, StoreKept DEF IInv
<1>2. CASE SetLimit
  <2>1. TypeOK' /\ MomentInv'
    BY <1>0, <1>2 DEF SetLimit, TypeOK, MomentInv, store, request
  <2> QED
    BY <1>0, <1>2, <2>1, StoreKept DEF SetLimit, IInv
<1>3. ASSUME NEW r \in Requests, Begin(r)
      PROVE  IInv'
  <2>1. TypeOK'
    BY <1>0, <1>3 DEF Begin, TypeOK, PCs, store
  <2>2. MomentInv'
    BY <1>0, <1>3 DEF Begin, MomentInv, TypeOK
  <2> QED
    BY <1>0, <1>3, <2>1, <2>2, StoreKept DEF Begin, IInv
<1>4. ASSUME NEW r \in Requests, ReadBucket(r)
      PROVE  IInv'
  <2>1. \A k \in Metrics, w \in Windows : \A b : Held(k, w, b) \in Nat
    BY <1>0, Types DEF Held
  <2>2. CounterMetric(seen[r]) \in Metrics /\ seen[r].window \in Windows
    BY <1>0, LimitsAssumption DEF CounterMetric, Metrics, TypeOK, Limit
  <2>3. TypeOK'
    BY <1>0, <1>4, <2>1, <2>2 DEF ReadBucket, TypeOK, store
  <2>4. MomentInv'
    BY <1>0, <1>4 DEF ReadBucket, MomentInv
  <2> QED
    BY <1>0, <1>4, <2>3, <2>4, StoreKept DEF ReadBucket, IInv
<1>5. ASSUME NEW r \in Requests, Decide(r)
      PROVE  IInv'
  <2>1. TypeOK' /\ MomentInv'
    BY <1>0, <1>5 DEF Decide, TypeOK, PCs, store, MomentInv
  <2> QED
    BY <1>0, <1>5, <2>1, StoreKept DEF Decide, IInv
<1>6. ASSUME NEW r \in Requests, Record(r)
      PROVE  IInv'
  BY <1>6, RecordKeeps
<1>7. ASSUME NEW r \in Requests, Fail(r)
      PROVE  IInv'
  <2>1. AnyLimit \in Limits /\ 0 \in Ticks /\ "ended" \in PCs
    BY <1>0, BoundsAssumption DEF TypeOK, AnyLimit, Ticks, PCs
  <2>2. TypeOK' /\ MomentInv'
    BY <1>0, <1>7, <2>1 DEF Fail, End, TypeOK, store, MomentInv
  <2> QED
    BY <1>0, <1>7, <2>2, StoreKept DEF Fail, IInv
<1>8. CASE UNCHANGED vars
  <2>1. TypeOK' /\ MomentInv'
    BY <1>0, <1>8 DEF vars, request, store, TypeOK, MomentInv
  <2> QED
    BY <1>0, <1>8, <2>1, StoreKept DEF vars, IInv
<1> QED
  BY <1>1, <1>2, <1>3, <1>4, <1>5, <1>6, <1>7, <1>8 DEF Next

LEMMA InitIInv == Init => IInv
<1> SUFFICES ASSUME Init PROVE IInv
  OBVIOUS
<1>1. 0 \in Ticks /\ AnyLimit \in Limits
  BY BoundsAssumption DEF Init, Ticks, AnyLimit
<1>2. TypeOK
  BY <1>1 DEF Init, TypeOK, PCs
<1>3. BucketInv
  BY <1>1 DEF Init, BucketInv, Kept, Lasting, Exact, Present
<1>4. MomentInv
  BY DEF Init, MomentInv
<1> QED
  BY <1>2, <1>3, <1>4 DEF IInv

LEMMA Invariance == Spec => []IInv
BY InitIInv, NextIInv, PTL DEF Spec

(* The counters, lifetimes, moments and sums of every request keep their    *)
(* types, for any calendar and any number of requests.                      *)
THEOREM TypeCorrect == Spec => []TypeOK
<1>1. IInv => TypeOK
  BY DEF IInv
<1> QED
  BY <1>1, Invariance, PTL

(* No check that is under way covers a spent bucket.                        *)
LEMMA KeptForChecks == IInv => LiveBucketKept
<1> SUFFICES ASSUME IInv, NEW m \in Ticks, m <= now, now <= m + MaxRead,
                    NEW w \in Windows, NEW b \in Covered(w, m), NEW k \in Metrics
             PROVE  Held(k, w, b) = ledger[k][w][b]
  BY DEF LiveBucketKept
<1>1. b \in Ticks /\ Calendar[w][m] - Span[w] < b /\ TypeOK /\ Kept(w, b)
  BY DEF Covered, IInv, BucketInv
<1>2. ~Spent(w, b)
  <2> SUFFICES ASSUME Spent(w, b) PROVE FALSE
    OBVIOUS
  <2>1. PICK t \in Ticks : Calendar[w][t] = b /\ t + TTL[w] <= now
    BY DEF Spent
  <2>2. t \in Nat /\ m \in Nat /\ now \in Nat /\ TTL[w] \in Nat /\ MaxRead \in Nat
    BY <1>1, Types, BoundsAssumption
  <2>3. CASE t <= m
    <3>1. m + MaxRead < t + TTL[w]
      BY <1>1, <2>1, <2>3, CountersOutlive DEF Spent
    <3> QED
      BY <2>1, <2>2, <3>1
  <2>4. CASE m < t
    <3>1. Calendar[w][t] - Span[w] < Calendar[w][t] /\ t <= t
      BY <2>2, WindowsAssumption, BoundsAssumption DEF Ticks
    <3>2. t + MaxRead < t + TTL[w]
      BY <3>1, CountersOutlive DEF Spent
    <3> QED
      BY <2>1, <2>2, <2>4, <3>2
  <2> QED
    BY <2>2, <2>3, <2>4
<1> QED
  BY <1>1, <1>2 DEF Kept, Exact, Present, Held

(* Whatever the windows and lifetimes, as long as a lifetime exceeds what a *)
(* check may look back and take, no check reads a counter that has been     *)
(* lost: neither by expiring early nor by being written again afterwards.   *)
THEOREM CountersAreKept == Spec => []LiveBucketKept
BY Invariance, KeptForChecks, PTL

--------------------------------------------------------------------------------
(* Every natural number is reached by steps of one.                         *)
LEMMA NatSteps ==
    ASSUME NEW T, 0 \in T, \A n \in Nat : n \in T => n + 1 \in T
    PROVE  Nat \subseteq T
<1> SUFFICES ASSUME Nat \ T # {} PROVE FALSE
  OBVIOUS
<1> DEFINE R == {ss \in Nat \X Nat : ss[1] < ss[2]}
<1>1. IsWellFoundedOn(R, Nat)
  BY NatLessThanWellFounded DEF OpToRel
<1>2. PICK n \in Nat \ T : \A m \in Nat \ T : ~ (<<m, n>> \in R)
  <2> HIDE DEF R
  <2> QED
    BY <1>1, WFMin
<1> HIDE DEF R
<1>3. n # 0 /\ n - 1 \in Nat
  BY <1>2
<1>4. <<n - 1, n>> \in R
  <2>1. <<n - 1, n>> \in Nat \X Nat
    BY <1>3
  <2> QED
    BY <2>1, <1>3 DEF R
<1>5. n - 1 \in T
  BY <1>2, <1>3, <1>4
<1>6. (n - 1) + 1 \in T /\ (n - 1) + 1 = n
  BY <1>3, <1>5
<1> QED
  BY <1>2, <1>6

(* The sum of F over S, as the fold of the community modules computes it:   *)
(* over some element first, then over the others.                           *)
Sum(F, S) == MapThenSumSet(LAMBDA b : F[b], S)
Some(s)   == CHOOSE x \in s : TRUE
Partial(F, s, g) == IF s = {} THEN 0 ELSE F[Some(s)] + g[s \ {Some(s)}]
Sums(F, D, g) == g = [s \in D |-> Partial(F, s, g)]
Small(S, n)   == {s \in SUBSET S : Cardinality(s) <= n}

LEMMA SomeIsIn == ASSUME NEW s, s # {} PROVE Some(s) \in s
BY DEF Some

LEMMA SomeIsFewer ==
    ASSUME NEW s, IsFiniteSet(s), s # {}
    PROVE  /\ s \ {Some(s)} \subseteq s /\ IsFiniteSet(s \ {Some(s)})
           /\ Cardinality(s) \in Nat \ {0} /\ Cardinality(s \ {Some(s)}) = Cardinality(s) - 1
BY SomeIsIn, FS_RemoveElement, FS_CardinalityType, FS_EmptySet

LEMMA SumsExist ==
    ASSUME NEW F, NEW S, IsFiniteSet(S)
    PROVE  \E g : Sums(F, SUBSET S, g)
<1> DEFINE T == {n \in Nat : \E g : Sums(F, Small(S, n), g)}
<1>1. 0 \in T
  <2>1. Small(S, 0) = {{}}
    BY FS_Subset, FS_EmptySet, FS_CardinalityType DEF Small
  <2>2. Sums(F, {{}}, [s \in {{}} |-> 0])
    BY DEF Sums, Partial
  <2> QED
    BY <2>1, <2>2
<1>2. ASSUME NEW n \in Nat, n \in T
      PROVE  n + 1 \in T
  <2>1. PICK g : Sums(F, Small(S, n), g)
    BY <1>2
  <2> DEFINE h == [s \in Small(S, n + 1) |-> Partial(F, s, g)]
  <2>2. ASSUME NEW s \in Small(S, n + 1), s # {}
        PROVE  s \ {Some(s)} \in Small(S, n)
    <3>1. IsFiniteSet(s) /\ Cardinality(s) <= n + 1 /\ s \in SUBSET S
      BY FS_Subset DEF Small
    <3>2. /\ s \ {Some(s)} \subseteq s
          /\ Cardinality(s) \in Nat \ {0} /\ Cardinality(s \ {Some(s)}) = Cardinality(s) - 1
      BY <2>2, <3>1, SomeIsFewer
    <3>3. Cardinality(s \ {Some(s)}) <= n
      BY <3>1, <3>2
    <3> QED
      BY <3>1, <3>2, <3>3 DEF Small
  <2>3. \A s \in Small(S, n) : s \in Small(S, n + 1) /\ h[s] = g[s]
    <3>1. ASSUME NEW s \in Small(S, n) PROVE s \in Small(S, n + 1)
      BY FS_Subset, FS_CardinalityType DEF Small
    <3> QED
      BY <2>1, <3>1 DEF Sums
  <2>4. \A s \in Small(S, n + 1) : h[s] = Partial(F, s, h)
    <3> SUFFICES ASSUME NEW s \in Small(S, n + 1) PROVE h[s] = Partial(F, s, h)
      OBVIOUS
    <3>1. h[s] = Partial(F, s, g)
      OBVIOUS
    <3> HIDE DEF h
    <3> QED
      BY <2>2, <2>3, <3>1 DEF Partial
  <2>5. h = [s \in Small(S, n + 1) |-> h[s]]
    OBVIOUS
  <2> HIDE DEF h
  <2> QED
    BY <2>4, <2>5 DEF Sums
<1>3. Nat \subseteq T
  <2> HIDE DEF T
  <2> QED
    BY <1>1, <1>2, NatSteps
<1>4. Small(S, Cardinality(S)) = SUBSET S /\ Cardinality(S) \in Nat
  BY FS_Subset, FS_CardinalityType DEF Small
<1> QED
  BY <1>3, <1>4

LEMMA SumsUnique ==
    ASSUME NEW F, NEW S, IsFiniteSet(S), NEW g, NEW h,
           Sums(F, SUBSET S, g), Sums(F, SUBSET S, h)
    PROVE  g = h
<1> DEFINE T == {n \in Nat : \A s \in SUBSET S : Cardinality(s) = n => g[s] = h[s]}
<1>1. 0 \in T
  <2>1. ASSUME NEW s \in SUBSET S, Cardinality(s) = 0 PROVE g[s] = h[s]
    <3>1. s = {}
      BY <2>1, FS_Subset, FS_EmptySet
    <3> QED
      BY <3>1 DEF Sums, Partial
  <2> QED
    BY <2>1
<1>2. ASSUME NEW n \in Nat, n \in T
      PROVE  n + 1 \in T
  <2> SUFFICES ASSUME NEW s \in SUBSET S, Cardinality(s) = n + 1 PROVE g[s] = h[s]
    OBVIOUS
  <2>1. IsFiniteSet(s) /\ s # {}
    BY FS_Subset, FS_EmptySet
  <2>2. s \ {Some(s)} \in SUBSET S /\ Cardinality(s \ {Some(s)}) = n
    <3>1. Cardinality(s \ {Some(s)}) = Cardinality(s) - 1
      BY <2>1, SomeIsFewer
    <3> QED
      BY <3>1
  <2>3. g[s \ {Some(s)}] = h[s \ {Some(s)}]
    BY <1>2, <2>2
  <2> QED
    BY <2>1, <2>3 DEF Sums, Partial
<1>3. Nat \subseteq T
  <2> HIDE DEF T
  <2> QED
    BY <1>1, <1>2, NatSteps
<1>4. \A s \in SUBSET S : g[s] = h[s]
  BY <1>3, FS_Subset, FS_CardinalityType
<1> QED
  BY <1>4 DEF Sums

(* A sum is what some function that adds up all subsets of S says of S.     *)
LEMMA SumIs ==
    ASSUME NEW F, NEW S, IsFiniteSet(S), NEW g, Sums(F, SUBSET S, g)
    PROVE  Sum(F, S) = g[S]
<1> DEFINE iter == CHOOSE f : f = [s \in SUBSET S |->
                     IF s = {} THEN 0
                     ELSE F[CHOOSE x \in s : TRUE] + f[s \ {CHOOSE x \in s : TRUE}]]
<1>1. Sum(F, S) = iter[S]
  BY DEF Sum, MapThenSumSet, MapThenFoldSet
<1>2. Sums(F, SUBSET S, iter)
  BY DEF Sums, Partial, Some
<1>3. iter = g
  <2> HIDE DEF iter
  <2> QED
    BY <1>2, SumsUnique
<1> HIDE DEF iter
<1> QED
  BY <1>1, <1>3

(* The equation of the fold.                                                *)
LEMMA SumDef ==
    ASSUME NEW F, NEW S, IsFiniteSet(S)
    PROVE  Sum(F, S) = IF S = {} THEN 0 ELSE F[Some(S)] + Sum(F, S \ {Some(S)})
<1>1. PICK g : Sums(F, SUBSET S, g)
  BY SumsExist
<1>2. Sum(F, S) = g[S]
  BY <1>1, SumIs
<1>3. g[S] = Partial(F, S, g)
  BY <1>1 DEF Sums
<1>4. CASE S = {}
  BY <1>2, <1>3, <1>4 DEF Partial
<1>5. CASE S # {}
  <2> DEFINE V == S \ {Some(S)}
             h == [s \in SUBSET V |-> g[s]]
  <2>1. IsFiniteSet(V) /\ V \subseteq S
    BY <1>5, SomeIsFewer
  <2>2. Sums(F, SUBSET V, h)
    <3>1. ASSUME NEW s \in SUBSET V PROVE h[s] = Partial(F, s, h)
      <4>1. s \in SUBSET S /\ s \ {Some(s)} \in SUBSET V
        BY <2>1
      <4>2. h[s] = Partial(F, s, g)
        BY <1>1, <4>1 DEF Sums
      <4>3. h[s \ {Some(s)}] = g[s \ {Some(s)}]
        BY <4>1
      <4> QED
        BY <4>2, <4>3 DEF Partial
    <3>2. h = [s \in SUBSET V |-> h[s]]
      OBVIOUS
    <3> HIDE DEF h
    <3> QED
      BY <3>1, <3>2 DEF Sums
  <2>3. Sum(F, V) = h[V]
    <3> HIDE DEF h, V
    <3> QED
      BY <2>1, <2>2, SumIs
  <2> QED
    BY <1>2, <1>3, <1>5, <2>3 DEF Partial
<1> QED
  BY <1>4, <1>5

(* What holds of a finite set as soon as it holds of it without any one of  *)
(* its elements, holds of every finite set.                                 *)
LEMMA SetSteps ==
    ASSUME NEW S, IsFiniteSet(S), NEW T,
           \A s \in SUBSET S : (\A x \in s : s \ {x} \in T) => s \in T
    PROVE  S \in T
<1> DEFINE N == {n \in Nat : \A s \in SUBSET S : Cardinality(s) = n => s \in T}
<1>1. 0 \in N
  <2>1. ASSUME NEW s \in SUBSET S, Cardinality(s) = 0 PROVE s = {}
    BY <2>1, FS_Subset, FS_EmptySet
  <2> QED
    BY <2>1
<1>2. ASSUME NEW n \in Nat, n \in N PROVE n + 1 \in N
  <2> SUFFICES ASSUME NEW s \in SUBSET S, Cardinality(s) = n + 1, NEW x \in s
               PROVE  s \ {x} \in T
    OBVIOUS
  <2>1. IsFiniteSet(s) /\ s \ {x} \in SUBSET S
    BY FS_Subset
  <2>2. Cardinality(s \ {x}) = Cardinality(s) - 1
    BY <2>1, FS_RemoveElement
  <2>3. Cardinality(s \ {x}) = n
    BY <2>2
  <2> QED
    BY <1>2, <2>1, <2>3
<1>3. Nat \subseteq N
  <2> HIDE DEF N
  <2> QED
    BY <1>1, <1>2, NatSteps
<1>4. Cardinality(S) \in Nat
  BY FS_CardinalityType
<1> QED
  BY <1>3, <1>4

LEMMA SumIsNat ==
    ASSUME NEW S, IsFiniteSet(S), NEW F, \A b \in S : F[b] \in Nat
    PROVE  Sum(F, S) \in Nat
<1> DEFINE T == {s \in SUBSET S : Sum(F, s) \in Nat}
<1>1. ASSUME NEW s \in SUBSET S, \A x \in s : s \ {x} \in T
      PROVE  s \in T
  <2>1. Sum(F, s) = IF s = {} THEN 0 ELSE F[Some(s)] + Sum(F, s \ {Some(s)})
    BY FS_Subset, SumDef
  <2>2. s # {} => F[Some(s)] \in Nat /\ Sum(F, s \ {Some(s)}) \in Nat
    BY <1>1, SomeIsIn
  <2> QED
    BY <2>1, <2>2
<1> HIDE DEF T
<1>2. S \in T
  BY <1>1, SetSteps
<1> QED
  BY <1>2 DEF T

(* Any element may be the first to be added.                                *)
LEMMA SumRemove ==
    ASSUME NEW S, IsFiniteSet(S), NEW F, \A b \in S : F[b] \in Nat, NEW y \in S
    PROVE  Sum(F, S) = F[y] + Sum(F, S \ {y})
<1> DEFINE T == {s \in SUBSET S : \A x \in s : Sum(F, s) = F[x] + Sum(F, s \ {x})}
<1>1. ASSUME NEW s \in SUBSET S, \A x \in s : s \ {x} \in T
      PROVE  s \in T
  <2> SUFFICES ASSUME NEW x \in s
               PROVE  Sum(F, s) = F[x] + Sum(F, s \ {x})
    OBVIOUS
  <2> DEFINE z == Some(s)
  <2>1. z \in s /\ Sum(F, s) = F[z] + Sum(F, s \ {z})
    BY FS_Subset, SumDef, SomeIsIn
  <2>2. CASE x # z
    <3> DEFINE rest == (s \ {x}) \ {z}
    <3>1. z \in s \ {x} /\ x \in s \ {z} /\ rest = (s \ {z}) \ {x}
      BY <2>1, <2>2
    <3>2. Sum(F, s \ {x}) = F[z] + Sum(F, rest) /\ Sum(F, s \ {z}) = F[x] + Sum(F, rest)
      BY <1>1, <2>1, <3>1
    <3>3. F[x] \in Nat /\ F[z] \in Nat /\ Sum(F, rest) \in Nat
      <4>1. rest \in SUBSET S
        OBVIOUS
      <4>2. Sum(F, rest) \in Nat
        <5> HIDE DEF rest
        <5> QED
          BY <4>1, FS_Subset, SumIsNat
      <4> QED
        BY <2>1, <4>2
    <3> HIDE DEF rest
    <3> QED
      BY <2>1, <3>2, <3>3
  <2> QED
    BY <2>1, <2>2
<1> HIDE DEF T
<1>2. S \in T
  BY <1>1, SetSteps
<1> QED
  BY <1>2 DEF T

(* A sum grows with what it adds up.                                        *)
LEMMA SumGrows ==
    ASSUME NEW S, IsFiniteSet(S), NEW F, NEW G,
           \A b \in S : F[b] \in Nat /\ G[b] \in Nat /\ F[b] <= G[b]
    PROVE  Sum(F, S) <= Sum(G, S)
<1> DEFINE T == {s \in SUBSET S : Sum(F, s) <= Sum(G, s)}
<1>1. ASSUME NEW s \in SUBSET S, \A x \in s : s \ {x} \in T
      PROVE  s \in T
  <2>1. IsFiniteSet(s)
    BY FS_Subset
  <2>2. CASE s = {}
    <3>1. Sum(F, s) = 0 /\ Sum(G, s) = 0
      BY <2>1, <2>2, SumDef
    <3> QED
      BY <3>1
  <2>3. ASSUME NEW x \in s PROVE Sum(F, s) <= Sum(G, s)
    <3>1. Sum(F, s) = F[x] + Sum(F, s \ {x}) /\ Sum(G, s) = G[x] + Sum(G, s \ {x})
      BY <2>1, SumRemove
    <3>2. Sum(F, s \ {x}) <= Sum(G, s \ {x})
      BY <1>1
    <3>3. Sum(F, s \ {x}) \in Nat /\ Sum(G, s \ {x}) \in Nat
      <4>1. s \ {x} \in SUBSET S
        OBVIOUS
      <4>2. IsFiniteSet(s \ {x})
        BY <4>1, FS_Subset
      <4> QED
        BY <4>1, <4>2, SumIsNat
    <3>4. F[x] \in Nat /\ G[x] \in Nat /\ F[x] <= G[x]
      OBVIOUS
    <3> QED
      BY <3>1, <3>2, <3>3, <3>4
  <2> QED
    BY <2>2, <2>3
<1> HIDE DEF T
<1>2. S \in T
  BY <1>1, SetSteps
<1> QED
  BY <1>2 DEF T

--------------------------------------------------------------------------------
(* What a check has read so far, of the buckets its limit covers, and what  *)
(* it has still to read.                                                    *)
Bucket(r)    == Calendar[seen[r].window][moment[r]]
Ledger(r)    == ledger[CounterMetric(seen[r])][seen[r].window]
Covers(r)    == Covered(seen[r].window, moment[r])
ReadSet(r)   == {b \in Covers(r) : b > Bucket(r) - back[r]}
UnreadSet(r) == {b \in Covers(r) : b <= Bucket(r) - back[r]}

(* A check has added up at least what the buckets it has read held when it  *)
(* began, and at most what they hold now.                                   *)
Between(r) ==
    /\ floor[r] <= total[r] + Sum(Ledger(r), UnreadSet(r))
    /\ total[r] <= Sum(Ledger(r), ReadSet(r))
ReadOf(r) ==
    /\ pc[r] = "idle" => back[r] = 0 /\ total[r] = 0
    /\ pc[r] = "checking" => /\ now <= moment[r] + MaxRead /\ back[r] <= Span[seen[r].window]
                             /\ Between(r)
    /\ pc[r] = "serving" => ~Reached(total[r], seen[r]) /\ floor[r] <= total[r]
    /\ pc[r] = "refused" => Reached(total[r], seen[r]) /\ total[r] <= Sum(Ledger(r), Covers(r))
ReadInv == floor \in [Requests -> Nat] /\ \A r \in Requests : ReadOf(r)

LEMMA RequestTypes ==
    ASSUME TypeOK, NEW r \in Requests
    PROVE  /\ seen[r] \in Limit /\ seen[r].window \in Windows /\ CounterMetric(seen[r]) \in Metrics
           /\ moment[r] \in Ticks /\ back[r] \in Nat /\ total[r] \in Nat
           /\ Bucket(r) \in Nat /\ Span[seen[r].window] \in Nat \ {0}
           /\ Ticks \subseteq Nat /\ now \in Nat /\ MaxRead \in Nat
           /\ IsFiniteSet(Ticks) /\ Covers(r) \subseteq Ticks
           /\ \A b \in Ticks : Ledger(r)[b] \in Nat
<1>1. /\ seen[r] \in Limit /\ seen[r].window \in Windows /\ CounterMetric(seen[r]) \in Metrics
      /\ moment[r] \in Ticks /\ back[r] \in Nat /\ total[r] \in Nat
  BY LimitsAssumption DEF TypeOK, Limit, CounterMetric, Metrics
<1>2. Ticks \subseteq Nat /\ now \in Nat /\ MaxRead \in Nat /\ IsFiniteSet(Ticks)
  BY BoundsAssumption, FS_Interval DEF Ticks, TypeOK
<1>3. Bucket(r) \in Nat /\ Span[seen[r].window] \in Nat \ {0}
  BY <1>1, <1>2, WindowsAssumption DEF Bucket
<1>4. \A b \in Ticks : Ledger(r)[b] \in Nat
  BY <1>1 DEF TypeOK, Ledger
<1> QED
  BY <1>1, <1>2, <1>3, <1>4 DEF Covers, Covered

(* The sums a check's bounds are made of.                                   *)
LEMMA PartTypes ==
    ASSUME TypeOK, NEW r \in Requests, NEW s \in SUBSET Ticks
    PROVE  IsFiniteSet(s) /\ Sum(Ledger(r), s) \in Nat
BY RequestTypes, FS_Subset, SumIsNat

(* A request that does not move stands as it stood, whatever is recorded    *)
(* meanwhile.                                                               *)
LEMMA StandsStill ==
    ASSUME TypeOK, TypeOK', NEW r \in Requests, ReadOf(r), floor[r] \in Nat,
           pc'[r] = pc[r], moment'[r] = moment[r], seen'[r] = seen[r],
           back'[r] = back[r], total'[r] = total[r], floor'[r] = floor[r],
           pc[r] = "checking" => now' <= moment[r] + MaxRead,
           \A k \in Metrics, w \in Windows : \A b \in Ticks : ledger[k][w][b] <= ledger'[k][w][b]
    PROVE  ReadOf(r)'
<1>1. /\ ReadSet(r)' = ReadSet(r) /\ UnreadSet(r)' = UnreadSet(r) /\ Covers(r)' = Covers(r)
      /\ ReadSet(r) \subseteq Ticks /\ UnreadSet(r) \subseteq Ticks /\ Covers(r) \subseteq Ticks
  BY RequestTypes DEF ReadSet, UnreadSet, Covers, Bucket
<1>2. ASSUME NEW s \in SUBSET Ticks
      PROVE  /\ Sum(Ledger(r), s) \in Nat /\ Sum(Ledger(r)', s) \in Nat
             /\ Sum(Ledger(r), s) <= Sum(Ledger(r)', s)
  <2>1. \A b \in s : Ledger(r)[b] \in Nat /\ Ledger(r)'[b] \in Nat /\ Ledger(r)[b] <= Ledger(r)'[b]
    BY RequestTypes DEF Ledger, TypeOK
  <2>2. IsFiniteSet(s)
    BY PartTypes
  <2> HIDE DEF Ledger
  <2> QED
    BY <2>1, <2>2, SumIsNat, SumGrows
<1>3. total[r] \in Nat
  BY RequestTypes
<1>4. Between(r) => Between(r)'
  <2>1. /\ Sum(Ledger(r), UnreadSet(r)) <= Sum(Ledger(r)', UnreadSet(r))
        /\ Sum(Ledger(r), ReadSet(r)) <= Sum(Ledger(r)', ReadSet(r))
        /\ Sum(Ledger(r), UnreadSet(r)) \in Nat /\ Sum(Ledger(r), ReadSet(r)) \in Nat
        /\ Sum(Ledger(r)', UnreadSet(r)) \in Nat /\ Sum(Ledger(r)', ReadSet(r)) \in Nat
    BY <1>1, <1>2
  <2>2. /\ Sum(Ledger(r), UnreadSet(r))' = Sum(Ledger(r)', UnreadSet(r))
        /\ Sum(Ledger(r), ReadSet(r))' = Sum(Ledger(r)', ReadSet(r))
    BY <1>1
  <2> QED
    BY <1>3, <2>1, <2>2 DEF Between
<1>5. total[r] <= Sum(Ledger(r), Covers(r)) => (total[r] <= Sum(Ledger(r), Covers(r)))'
  <2>1. Sum(Ledger(r), Covers(r)) <= Sum(Ledger(r)', Covers(r))
        /\ Sum(Ledger(r), Covers(r)) \in Nat /\ Sum(Ledger(r)', Covers(r)) \in Nat
    BY <1>1, <1>2
  <2>2. Sum(Ledger(r), Covers(r))' = Sum(Ledger(r)', Covers(r))
    BY <1>1
  <2> QED
    BY <1>3, <2>1, <2>2
<1> QED
  BY <1>4, <1>5 DEF ReadOf, Reached

LEMMA Empty == ASSUME NEW F PROVE Sum(F, {}) = 0
BY SumDef, FS_EmptySet

LEMMA ConsumedIsSum ==
    ASSUME NEW spec, NEW m
    PROVE  Consumed(spec, m) = Sum(ledger[CounterMetric(spec)][spec.window], Covered(spec.window, m))
BY DEF Consumed, Sum

(* The buckets of a request that begins are all to be read.                 *)
LEMMA BeginReads ==
    ASSUME TypeOK, NEW r \in Requests, ReadOf(r), floor \in [Requests -> Nat], Begin(r)
    PROVE  floor' \in [Requests -> Nat] /\ ReadOf(r)'
<1> DEFINE F == ledger[CounterMetric(limit)][limit.window]
           S == Covered(limit.window, now)
<1>1. /\ pc'[r] = "checking" /\ moment'[r] = now /\ seen'[r] = limit
      /\ back'[r] = 0 /\ total'[r] = 0 /\ ledger' = ledger /\ now' = now
      /\ floor' = [floor EXCEPT ![r] = Consumed(limit, now)]
  BY DEF Begin, TypeOK, ReadOf, store
<1>2. /\ limit.window \in Windows /\ CounterMetric(limit) \in Metrics /\ now \in Ticks
      /\ Calendar[limit.window][now] \in Nat /\ S \subseteq Ticks /\ S \subseteq Nat
      /\ now \in Nat /\ MaxRead \in Nat /\ Span[limit.window] \in Nat
  BY RequestTypes, LimitsAssumption, WindowsAssumption DEF TypeOK, Limit, CounterMetric, Metrics, Covered
<1>3. Ledger(r)' = F /\ Covers(r)' = S /\ Bucket(r)' = Calendar[limit.window][now]
  BY <1>1 DEF Ledger, Covers, Bucket
<1>4. UnreadSet(r)' = S /\ ReadSet(r)' = {}
  BY <1>1, <1>2, <1>3 DEF UnreadSet, ReadSet, Covered
<1>5. Consumed(limit, now) = Sum(F, S)
  BY ConsumedIsSum
<1>6. Sum(F, S) \in Nat
  <2>1. IsFiniteSet(S) /\ \A b \in S : F[b] \in Nat
    BY <1>2, RequestTypes, FS_Subset DEF TypeOK
  <2> HIDE DEF F, S
  <2> QED
    BY <2>1, SumIsNat
<1>7. Between(r)'
  <2>1. floor'[r] = Sum(F, S) /\ Sum(F, {}) = 0
    BY <1>1, <1>5, Empty
  <2> HIDE DEF F, S
  <2> QED
    BY <1>1, <1>3, <1>4, <1>6, <2>1 DEF Between
<1>8. floor' \in [Requests -> Nat]
  BY <1>1, <1>5, <1>6
<1> QED
  BY <1>1, <1>2, <1>7, <1>8 DEF ReadOf

(* A bucket that is covered is read for what was recorded in it; one before *)
(* the first tick holds nothing and is not covered.                         *)
LEMMA BucketReads ==
    ASSUME IInv, NEW r \in Requests, ReadOf(r), floor \in [Requests -> Nat], ReadBucket(r),
           LiveBucketKept
    PROVE  ReadOf(r)'
<1> DEFINE y == Bucket(r) - back[r]
           held == Held(CounterMetric(seen[r]), seen[r].window, y)
<1>1. /\ pc[r] = "checking" /\ back[r] < Span[seen[r].window]
      /\ back'[r] = back[r] + 1 /\ total'[r] = total[r] + held
      /\ UNCHANGED <<now, store, pc, moment, seen, floor>>
  BY DEF ReadBucket, IInv, TypeOK, Bucket
<1>2. /\ Ledger(r)' = Ledger(r) /\ Covers(r)' = Covers(r) /\ Bucket(r)' = Bucket(r)
      /\ ledger' = ledger
  BY <1>1 DEF Ledger, Covers, Bucket, store
<1>3. TypeOK /\ Between(r) /\ now <= moment[r] + MaxRead /\ moment[r] <= now
  BY <1>1 DEF IInv, MomentInv, ReadOf
<1>4. Bucket(r) \in Nat /\ back[r] \in Nat /\ Span[seen[r].window] \in Nat /\ total[r] \in Nat
      /\ floor[r] \in Nat /\ Covers(r) \subseteq Nat
  BY <1>3, RequestTypes
<1>5. Between(r)'
  <2>1. ReadSet(r)' = ReadSet(r) \cup (Covers(r) \cap {y}) /\ UnreadSet(r)' = UnreadSet(r) \ {y}
    BY <1>1, <1>2, <1>4 DEF ReadSet, UnreadSet
  <2>2. ReadSet(r) \subseteq Ticks /\ UnreadSet(r) \subseteq Ticks
        /\ ReadSet(r)' \subseteq Ticks /\ UnreadSet(r)' \subseteq Ticks
    BY <1>2, <1>3, RequestTypes DEF ReadSet, UnreadSet
  <2>3. /\ Sum(Ledger(r), ReadSet(r)) \in Nat /\ Sum(Ledger(r), UnreadSet(r)) \in Nat
        /\ Sum(Ledger(r), ReadSet(r)') \in Nat /\ Sum(Ledger(r), UnreadSet(r)') \in Nat
    BY <1>3, <2>2, PartTypes
  <2>4. CASE y \in Covers(r)
    <3>1. held = Ledger(r)[y] /\ held \in Nat
      BY <1>3, <2>4, RequestTypes DEF LiveBucketKept, Ledger, Covers
    <3>2. y \in UnreadSet(r) /\ y \in ReadSet(r)' /\ y \notin ReadSet(r)
      BY <1>4, <2>1, <2>4 DEF UnreadSet, ReadSet
    <3>3. ReadSet(r) = ReadSet(r)' \ {y}
      BY <2>1, <3>2
    <3> HIDE DEF y, held
    <3>4. Sum(Ledger(r), UnreadSet(r)) = Ledger(r)[y] + Sum(Ledger(r), UnreadSet(r)')
      BY <1>3, <2>1, <2>2, <3>2, SumRemove, PartTypes, RequestTypes
    <3>5. Sum(Ledger(r), ReadSet(r)') = Ledger(r)[y] + Sum(Ledger(r), ReadSet(r))
      <4>1. IsFiniteSet(ReadSet(r)') /\ \A b \in ReadSet(r)' : Ledger(r)[b] \in Nat
        BY <1>3, <2>2, PartTypes, RequestTypes
      <4> QED
        BY <3>2, <3>3, <4>1, SumRemove
    <3> QED
      BY <1>1, <1>2, <1>3, <1>4, <2>3, <3>1, <3>4, <3>5 DEF Between
  <2>5. CASE y \notin Covers(r)
    <3>1. y \notin Ticks
      BY <1>1, <1>4, <2>5 DEF Covers, Covered, Bucket
    <3>2. held = 0
      BY <3>1 DEF Held
    <3>3. ReadSet(r)' = ReadSet(r) /\ UnreadSet(r)' = UnreadSet(r)
      BY <2>1, <2>5 DEF UnreadSet
    <3> HIDE DEF y, held
    <3> QED
      BY <1>1, <1>2, <1>3, <1>4, <2>3, <3>2, <3>3 DEF Between
  <2> QED
    BY <2>4, <2>5
<1>6. pc'[r] = "checking" /\ now' = now /\ moment'[r] = moment[r] /\ seen'[r] = seen[r]
      /\ back'[r] <= Span[seen[r].window]
  BY <1>1, <1>4
<1> HIDE DEF y, held
<1> QED
  BY <1>3, <1>5, <1>6 DEF ReadOf

(* With every bucket read the sum bounds what was held before and after.    *)
LEMMA DecideReads ==
    ASSUME TypeOK, NEW r \in Requests, ReadOf(r), floor \in [Requests -> Nat], Decide(r)
    PROVE  ReadOf(r)'
<1>1. /\ pc[r] = "checking" /\ back[r] = Span[seen[r].window]
      /\ pc'[r] = (IF Reached(total[r], seen[r]) THEN "refused" ELSE "serving")
      /\ UNCHANGED <<store, moment, seen, total, floor>>
  BY DEF Decide, TypeOK
<1>2. Ledger(r)' = Ledger(r) /\ Covers(r)' = Covers(r)
  BY <1>1 DEF Ledger, Covers, store
<1>3. UnreadSet(r) = {} /\ ReadSet(r) = Covers(r)
  BY <1>1, RequestTypes DEF UnreadSet, ReadSet, Covers, Covered, Bucket
<1>4. floor[r] <= total[r] /\ total[r] <= Sum(Ledger(r), Covers(r))
  BY <1>1, <1>3, Empty, RequestTypes DEF ReadOf, Between
<1>5. Reached(total[r], seen[r])' = Reached(total[r], seen[r])
  BY <1>1 DEF Reached
<1> QED
  BY <1>1, <1>2, <1>4, <1>5 DEF ReadOf

LEMMA LedgerGrows ==
    ASSUME TypeOK, NEW r \in Requests, Record(r)
    PROVE  \A k \in Metrics, w \in Windows : \A b \in Ticks : ledger[k][w][b] <= ledger'[k][w][b]
<1>1. PICK tokens \in Totals :
        ledger' = [k \in Metrics |-> [w \in Windows |->
             [ledger[k][w] EXCEPT ![Calendar[w][moment[r]]] = @ + Amount(k, tokens)]]]
  BY DEF Record
<1> SUFFICES ASSUME NEW k \in Metrics, NEW w \in Windows, NEW b \in Ticks
             PROVE  ledger[k][w][b] <= ledger'[k][w][b]
  OBVIOUS
<1>2. Amount(k, tokens) \in Nat /\ ledger[k][w][b] \in Nat
  BY Amounts, Types
<1> QED
  BY <1>1, <1>2 DEF TypeOK

LEMMA NextReads ==
    ASSUME IInv, IInv', LiveBucketKept, ReadInv, [Next]_vars
    PROVE  ReadInv'
<1> DEFINE Grows == \A k \in Metrics, w \in Windows : \A b \in Ticks :
                       ledger[k][w][b] <= ledger'[k][w][b]
<1>0. /\ TypeOK /\ TypeOK' /\ floor \in [Requests -> Nat]
      /\ \A r \in Requests : ReadOf(r) /\ floor[r] \in Nat
      /\ now \in Nat /\ MaxRead \in Nat /\ Ticks \subseteq Nat
  <2>1. TypeOK /\ TypeOK'
    BY DEF IInv
  <2>2. floor \in [Requests -> Nat] /\ \A r \in Requests : ReadOf(r) /\ floor[r] \in Nat
    BY DEF ReadInv
  <2>3. now \in Nat /\ MaxRead \in Nat /\ Ticks \subseteq Nat
    BY <2>1, BoundsAssumption DEF TypeOK, Ticks
  <2> QED
    BY <2>1, <2>2, <2>3
<1>1. UNCHANGED ledger => Grows
  BY <1>0 DEF TypeOK
<1>2. ASSUME NEW q \in Requests, UNCHANGED <<pc[q], moment[q], seen[q], back[q], total[q], floor[q]>>,
             Grows, pc[q] = "checking" => now' <= moment[q] + MaxRead
      PROVE  ReadOf(q)'
  BY <1>0, <1>2, StandsStill
<1>3. ASSUME NEW q \in Requests, pc[q] = "checking", now' = now
      PROVE  now' <= moment[q] + MaxRead
  BY <1>0, <1>3 DEF ReadOf
<1> HIDE DEF Grows
<1>4. ASSUME UNCHANGED <<request, store>>, now' = now
      PROVE  ReadInv'
  <2>1. \A q \in Requests : ReadOf(q)'
    BY <1>1, <1>2, <1>3, <1>4 DEF request, store
  <2> QED
    BY <1>0, <1>4, <2>1 DEF ReadInv, request
<1>5. CASE Tick
  <2>1. \A q \in Requests : pc[q] = "checking" => now' <= moment[q] + MaxRead
    <3> SUFFICES ASSUME NEW q \in Requests, pc[q] = "checking" PROVE now' <= moment[q] + MaxRead
      OBVIOUS
    <3>1. moment[q] \in Nat /\ now < moment[q] + MaxRead /\ now' = now + 1
      BY <1>0, <1>5 DEF Tick, TypeOK
    <3> QED
      BY <1>0, <3>1
  <2>2. \A q \in Requests : ReadOf(q)'
    BY <1>1, <1>2, <1>5, <2>1 DEF Tick, request, store
  <2> QED
    BY <1>0, <1>5, <2>2 DEF Tick, ReadInv, request
<1>6. CASE SetLimit
  BY <1>4, <1>6 DEF SetLimit
<1>7. ASSUME NEW r \in Requests, Begin(r) \/ ReadBucket(r) \/ Decide(r) \/ Record(r) \/ Fail(r)
      PROVE  ReadInv'
  <2>1. ASSUME NEW q \in Requests, q # r
        PROVE  /\ UNCHANGED <<pc[q], moment[q], seen[q], back[q], total[q]>> /\ now' = now
               /\ floor'[q] = floor[q]
    BY <1>0, <1>7, <2>1 DEF Begin, ReadBucket, Decide, Record, Fail, End, TypeOK
  <2>2. Grows
    BY <1>0, <1>1, <1>7, LedgerGrows DEF Begin, ReadBucket, Decide, Fail, Grows, store
  <2>3. \A q \in Requests \ {r} : ReadOf(q)'
    BY <1>2, <1>3, <2>1, <2>2
  <2>4. floor' \in [Requests -> Nat] /\ ReadOf(r)'
    <3>1. CASE Begin(r)
      BY <1>0, <3>1, BeginReads
    <3>2. CASE ReadBucket(r)
      BY <1>0, <3>2, BucketReads DEF ReadBucket
    <3>3. CASE Decide(r)
      BY <1>0, <3>3, DecideReads DEF Decide
    <3>4. CASE End(r)
      BY <1>0, <3>4 DEF End, ReadOf, TypeOK
    <3> QED
      BY <1>7, <3>1, <3>2, <3>3, <3>4 DEF Record, Fail
  <2> QED
    BY <2>3, <2>4 DEF ReadInv
<1>8. CASE UNCHANGED vars
  BY <1>4, <1>8 DEF vars
<1> QED
  BY <1>5, <1>6, <1>7, <1>8 DEF Next

LEMMA InitReads == Init => ReadInv
BY DEF Init, ReadInv, ReadOf

LEMMA Decisions == TypeOK /\ ReadInv => DecisionsSound
<1> SUFFICES ASSUME TypeOK, ReadInv, NEW r \in Requests
             PROVE  /\ pc[r] = "serving" => ~AtLimit(floor[r], seen[r])
                    /\ pc[r] = "refused" => AtLimit(Consumed(seen[r], moment[r]), seen[r])
  BY DEF DecisionsSound
<1>1. ReadOf(r) /\ floor[r] \in Nat /\ total[r] \in Nat /\ seen[r] \in Limit
  BY RequestTypes DEF ReadInv
<1>2. seen[r].value \in Nat /\ seen[r].capacity \in Nat /\ seen[r].value * seen[r].capacity \in Nat
  BY <1>1 DEF Limit
<1>3. ASSUME NEW used \in Nat
      PROVE  AtLimit(used, seen[r]) <=> Reached(used, seen[r])
  BY <1>2 DEF AtLimit, Share, Reached
<1>4. ASSUME NEW m \in Nat, NEW n \in Nat, m <= n, Reached(m, seen[r])
      PROVE  Reached(n, seen[r])
  <2> DEFINE p == seen[r].value * seen[r].capacity
  <2>1. p \in Nat /\ 100 * m <= 100 * n
    BY <1>2, <1>4
  <2>2. seen[r].metric = "percentage" => 100 * m >= p
    BY <1>4 DEF Reached
  <2>3. seen[r].metric = "percentage" => 100 * n >= p
    <3> HIDE DEF p
    <3> QED
      BY <2>1, <2>2
  <2>4. seen[r].metric # "percentage" => n >= seen[r].value
    BY <1>2, <1>4 DEF Reached
  <2> QED
    BY <2>3, <2>4 DEF Reached
<1>5. Consumed(seen[r], moment[r]) = Sum(Ledger(r), Covers(r))
  BY ConsumedIsSum DEF Ledger, Covers
<1>6. Sum(Ledger(r), Covers(r)) \in Nat
  BY RequestTypes, PartTypes
<1>7. pc[r] = "serving" => ~Reached(floor[r], seen[r])
  BY <1>1, <1>4 DEF ReadOf
<1>8. pc[r] = "refused" => Reached(Sum(Ledger(r), Covers(r)), seen[r])
  BY <1>1, <1>4, <1>6 DEF ReadOf
<1> QED
  BY <1>1, <1>3, <1>5, <1>6, <1>7, <1>8

(* For any limits, windows and calendar, any number of requests and any     *)
(* interleaving of their reads with what others record: who is let through  *)
(* began below the limit, and who is refused has met it by then.            *)
THEOREM DecisionsAreSound == Spec => []DecisionsSound
<1>1. Init => IInv /\ ReadInv
  BY InitIInv, InitReads
<1>2. IInv /\ ReadInv /\ [Next]_vars => (IInv /\ ReadInv)'
  BY NextIInv, NextReads, KeptForChecks
<1>3. IInv /\ ReadInv => DecisionsSound
  BY Decisions DEF IInv
<1> QED
  BY <1>1, <1>2, <1>3, PTL DEF Spec
================================================================================
