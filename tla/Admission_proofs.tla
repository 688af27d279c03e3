--------------------------- MODULE Admission_proofs ----------------------------
(***************************************************************************)
(* Check-then-count admission never overshoots a limit by as much as the   *)
(* number of requests in flight, for any number of workers and budgets.    *)
(*                                                                         *)
(* OvershootBounded is inductive together with the types.  Clearing a      *)
(* budget finds it under its limit, and at most every worker can then hold *)
(* a claim; recording trades one claim for one unit of consumption.        *)
(***************************************************************************)
EXTENDS Admission, FiniteSetTheorems, TLAPS

Typed ==
    /\ spent \in [Budgets -> Nat]
    /\ claims \in [Workers -> SUBSET Budgets]

(* The claimants of a budget are finitely many, at most all workers. *)
LEMMA ClaimantsFinite ==
    ASSUME AdmissionAssumption, NEW b
    PROVE  /\ IsFiniteSet(Claimants(b))
           /\ Cardinality(Claimants(b)) \in Nat
           /\ Cardinality(Workers) \in Nat
           /\ Cardinality(Claimants(b)) <= Cardinality(Workers)
  <1>1. Claimants(b) \subseteq Workers
    BY DEF Claimants
  <1>2. IsFiniteSet(Workers)
    BY DEF AdmissionAssumption
  <1> QED
    BY <1>1, <1>2, FS_Subset, FS_CardinalityType

(* Every step keeps the types and the claims within the budgets. *)
LEMMA TypedStep ==
    ASSUME Typed, [Next]_admission
    PROVE  Typed'
  <1>1. CASE UNCHANGED admission
    BY <1>1 DEF Typed, admission
  <1>2. ASSUME NEW w \in Workers, NEW B \in SUBSET Budgets, Clear(w, B)
        PROVE  Typed'
    BY <1>2 DEF Typed, Clear
  <1>3. ASSUME NEW w \in Workers, NEW B \in SUBSET Budgets, Record(w, B)
        PROVE  Typed'
    BY <1>3 DEF Typed, Record
  <1>4. ASSUME NEW w \in Workers, NEW B \in SUBSET Budgets, GiveUp(w, B)
        PROVE  Typed'
    BY <1>4 DEF Typed, GiveUp
  <1> QED
    BY <1>1, <1>2, <1>3, <1>4 DEF Next

(* What one step of a worker does to the claimants of a budget. *)
LEMMA ClaimantsWithout ==
    ASSUME Typed, NEW w \in Workers, NEW b \in Budgets,
           claims' = [claims EXCEPT ![w] = {}]
    PROVE  Claimants(b)' = Claimants(b) \ {w}
  BY DEF Typed, Claimants

(* Clearing adds a claimant below the limit, recording turns one into spending. *)
LEMMA OvershootStep ==
    ASSUME AdmissionAssumption, Typed, OvershootBounded, [Next]_admission
    PROVE  OvershootBounded'
  <1> SUFFICES ASSUME NEW b \in Budgets
               PROVE  spent'[b] + Cardinality(Claimants(b)') < Limit[b] + Cardinality(Workers)
    BY DEF OvershootBounded, Claimants
  <1>t. spent[b] \in Nat /\ Limit[b] \in Nat
    BY DEF Typed, AdmissionAssumption
  <1>o. spent[b] + Cardinality(Claimants(b)) < Limit[b] + Cardinality(Workers)
    BY DEF OvershootBounded
  <1>c. /\ IsFiniteSet(Claimants(b))
        /\ Cardinality(Claimants(b)) \in Nat
        /\ Cardinality(Workers) \in Nat
    BY ClaimantsFinite
  <1>1. CASE UNCHANGED admission
    <2>1. Claimants(b)' = Claimants(b)
      BY <1>1 DEF Claimants, admission
    <2> QED
      BY <1>1, <1>o, <2>1 DEF admission
  <1>2. ASSUME NEW w \in Workers, NEW B \in SUBSET Budgets, Clear(w, B)
        PROVE  spent'[b] + Cardinality(Claimants(b)') < Limit[b] + Cardinality(Workers)
    <2>1. CASE b \in B
      <3>1. spent[b] < Limit[b] /\ spent'[b] = spent[b]
        BY <1>2, <2>1 DEF Clear
      <3>2. Claimants(b)' \subseteq Workers
        BY DEF Claimants
      <3>3. /\ Cardinality(Claimants(b)') \in Nat
            /\ Cardinality(Claimants(b)') <= Cardinality(Workers)
        BY <3>2, FS_Subset, FS_CardinalityType DEF AdmissionAssumption
      <3> QED
        BY <3>1, <3>3, <1>t, <1>c
    <2>2. CASE b \notin B
      <3>1. Claimants(b)' = Claimants(b)
        BY <1>2, <2>2 DEF Clear, Claimants, Typed
      <3>2. spent'[b] = spent[b]
        BY <1>2 DEF Clear
      <3> QED
        BY <3>1, <3>2, <1>o
    <2> QED
      BY <2>1, <2>2
  <1>3. ASSUME NEW w \in Workers, NEW B \in SUBSET Budgets, Record(w, B)
        PROVE  spent'[b] + Cardinality(Claimants(b)') < Limit[b] + Cardinality(Workers)
    <2>1. Claimants(b)' = Claimants(b) \ {w}
      BY <1>3, ClaimantsWithout DEF Record
    <2>2. CASE b \in B
      <3>1. w \in Claimants(b)
        BY <1>3, <2>2 DEF Record, Claimants
      <3>2. Cardinality(Claimants(b)') = Cardinality(Claimants(b)) - 1
        BY <2>1, <3>1, <1>c, FS_RemoveElement
      <3>3. spent'[b] = spent[b] + 1
        BY <1>3, <2>2 DEF Record
      <3> QED
        BY <3>2, <3>3, <1>o, <1>t, <1>c
    <2>3. CASE b \notin B
      <3>1. spent'[b] = spent[b]
        BY <1>3, <2>3 DEF Record
      <3>2. /\ Cardinality(Claimants(b)') \in Nat
            /\ Cardinality(Claimants(b)') <= Cardinality(Claimants(b))
        BY <2>1, <1>c, FS_Subset, FS_CardinalityType
      <3> QED
        BY <3>1, <3>2, <1>o, <1>t, <1>c
    <2> QED
      BY <2>2, <2>3
  <1>4. ASSUME NEW w \in Workers, NEW B \in SUBSET Budgets, GiveUp(w, B)
        PROVE  spent'[b] + Cardinality(Claimants(b)') < Limit[b] + Cardinality(Workers)
    <2>1. Claimants(b)' \subseteq Claimants(b) /\ spent' = spent
      BY <1>4 DEF GiveUp, Claimants, Typed
    <2>2. /\ Cardinality(Claimants(b)') \in Nat
          /\ Cardinality(Claimants(b)') <= Cardinality(Claimants(b))
      BY <2>1, <1>c, FS_Subset, FS_CardinalityType
    <2> QED
      BY <2>1, <2>2, <1>o, <1>t, <1>c
  <1> QED
    BY <1>1, <1>2, <1>3, <1>4 DEF Next

(* Nothing is spent or claimed initially. *)
LEMMA OvershootInit ==
    ASSUME AdmissionAssumption, Init
    PROVE  Typed /\ OvershootBounded
  <1>1. Typed
    BY DEF Init, Typed
  <1>2. \A b \in Budgets : Claimants(b) = {}
    BY DEF Init, Claimants
  <1>3. Cardinality(Workers) \in Nat /\ Cardinality(Workers) # 0
    BY FS_CardinalityType, FS_EmptySet DEF AdmissionAssumption
  <1>4. Cardinality({}) = 0
    BY FS_EmptySet
  <1>5. \A b \in Budgets : spent[b] = 0 /\ Limit[b] \in Nat
    BY DEF Init, AdmissionAssumption
  <1> QED
    BY <1>1, <1>2, <1>3, <1>4, <1>5 DEF OvershootBounded

(* Whatever the limits and however many requests are in flight, recorded    *)
(* consumption and what may still be recorded stay below limit plus         *)
(* workers: the overshoot of limit_reached is bounded.                      *)
THEOREM OvershootTheorem ==
    ASSUME AdmissionAssumption
    PROVE  Spec => []OvershootBounded
  <1>1. Init => Typed /\ OvershootBounded
    BY OvershootInit
  <1>2. Typed /\ OvershootBounded /\ [Next]_admission => (Typed /\ OvershootBounded)'
    BY TypedStep, OvershootStep
  <1> QED
    BY <1>1, <1>2, PTL DEF Spec
================================================================================
