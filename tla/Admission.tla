------------------------------- MODULE Admission -------------------------------
(***************************************************************************)
(* What usage limits promise when consumption is checked before a call and *)
(* recorded after it, with no reservation in between: the abstraction      *)
(* that Gateway implements.                                                *)
(*                                                                         *)
(* A budget is one subject (a client token or an account) in one           *)
(* measurement window.  A worker that has found a budget under its limit   *)
(* holds a claim on it until it records its request or gives up.           *)
(***************************************************************************)
EXTENDS Naturals, FiniteSets

CONSTANTS
    Workers,        \* request handlers running at the same time
    Budgets,        \* limited subjects, one budget per window
    Limit           \* the limit_value of each

(* What the theorem about Admission assumes of the constants. *)
AdmissionAssumption ==
    /\ IsFiniteSet(Workers) /\ Workers # {}
    /\ Limit \in [Budgets -> Nat]

VARIABLES
    spent,          \* requests recorded against each budget
    claims          \* budgets each worker has been cleared for

admission == <<spent, claims>>

Init ==
    /\ spent = [b \in Budgets |-> 0]
    /\ claims = [w \in Workers |-> {}]

(* limit_reached is false of every budget of B as it is read. *)
Clear(w, B) ==
    /\ \A b \in B : spent[b] < Limit[b]
    /\ claims' = [claims EXCEPT ![w] = @ \cup B]
    /\ UNCHANGED spent

(* One request is recorded once against each budget of B, and is over. *)
Record(w, B) ==
    /\ B \subseteq claims[w]
    /\ spent' = [b \in Budgets |-> IF b \in B THEN spent[b] + 1 ELSE spent[b]]
    /\ claims' = [claims EXCEPT ![w] = {}]

(* A failed attempt or request will not be recorded. *)
GiveUp(w, B) ==
    /\ claims' = [claims EXCEPT ![w] = @ \ B]
    /\ UNCHANGED spent

Next ==
    \E w \in Workers :
        \E B \in SUBSET Budgets : Clear(w, B) \/ Record(w, B) \/ GiveUp(w, B)

Spec == Init /\ [][Next]_admission

--------------------------------------------------------------------------------
Claimants(b) == {w \in Workers : b \in claims[w]}

(* limit_reached and _increment_counters are not atomic, yet a limit is     *)
(* overshot by less than the number of requests in flight: what has been    *)
(* recorded plus what may still be recorded stays below limit plus workers. *)
OvershootBounded ==
    \A b \in Budgets : spent[b] + Cardinality(Claimants(b)) < Limit[b] + Cardinality(Workers)
================================================================================
