------------------------------ MODULE UsageWindows ------------------------------
(***************************************************************************)
(* Usage limits over measurement windows.  A client token's consumption is *)
(* kept in Redis, one counter per metric and bucket of each window (ever,  *)
(* a day, an hour), every one with a lifetime that starts anew when it is  *)
(* written.  A request reads the buckets its limit covers one GET after    *)
(* another, is admitted or refused, and when it has been served adds what  *)
(* it used, to the buckets of the moment it began.                         *)
(*                                                                         *)
(* Time is counted in ticks, buckets in whole periods since tick 0; a      *)
(* rolling window covers Span of them.                                     *)
(***************************************************************************)
EXTENDS Integers, FiniteSetsExt

CONSTANTS
    Requests,
    Windows,        \* measurement windows
    Calendar,       \* window -> tick -> its bucket
    Span,           \* window -> trailing buckets it covers
    TTL,            \* window -> lifetime of a counter
    Forever,        \* windows whose counters have no lifetime
    Limits,         \* limits an operator may set
    Totals,         \* tokens a request may use; 0 where metering is missing
    MaxRead,        \* ticks from a request's beginning to its last GET
    LastTick        \* bound on the clock

Ticks   == 0..LastTick
Metrics == {"request_count", "token_count"}
Limit   == [metric : Metrics \cup {"percentage"}, value : Nat, capacity : Nat, window : Windows]

ASSUME WindowsAssumption ==
    /\ Calendar \in [Windows -> [Ticks -> Ticks]]
    /\ Span \in [Windows -> Nat \ {0}] /\ TTL \in [Windows -> Nat]
    /\ Forever \subseteq Windows
ASSUME BoundsAssumption == LastTick \in Nat /\ MaxRead \in Nat
ASSUME LimitsAssumption == Limits \subseteq Limit /\ Totals \subseteq Nat

(* A counter written at tick t outlives every check that may read it: one   *)
(* that began at m, while its bucket was covered, has ended by m + MaxRead. *)
(* The code's lifetimes (25 hours for an hour of a rolling day, two days    *)
(* for a day, 40 days for a month) leave a check an hour or more.           *)
ASSUME CountersOutlive ==
    \A w \in Windows \ Forever : \A t, m \in Ticks :
        t <= m /\ Calendar[w][m] - Span[w] < Calendar[w][t] => m + MaxRead < t + TTL[w]

VARIABLES
    now,
    limit,          \* the persisted limit
    count, expiry,  \* Redis: counters, and when they are gone
    ledger,         \* history: what was recorded, by metric, window and bucket
    pc,
    moment,         \* the tick a request began
    seen,           \* the limit it was checked against
    back, total,    \* buckets its check has read, and their sum
    floor           \* history: what its window held when the check began

store   == <<count, expiry, ledger>>
request == <<pc, moment, seen, back, total, floor>>
vars    == <<now, limit, store, request>>

PCs == {"idle", "checking", "serving", "refused", "ended"}

Live(w, b)     == w \in Forever \/ now < expiry[w][b]
Held(k, w, b)  == IF b \in Ticks /\ Live(w, b) THEN count[k][w][b] ELSE 0

(* request_count has a counter of its own, every other limit is evaluated   *)
(* against tokens.                                                          *)
CounterMetric(spec) == IF spec.metric = "request_count" THEN spec.metric ELSE "token_count"

(* Defect variant: the request that reaches the limit is let through. *)
ReachedBeyond(used, spec) ==
    IF spec.metric = "percentage" THEN 100 * used > spec.value * spec.capacity
    ELSE used > spec.value

Reached(used, spec) ==
    IF spec.metric = "percentage" THEN 100 * used >= spec.value * spec.capacity
    ELSE used >= spec.value

(* The buckets a limit covers for a request that begins at tick m.          *)
Covered(w, m) == {b \in Ticks : Calendar[w][m] - Span[w] < b /\ b <= Calendar[w][m]}
Consumed(spec, m) ==
    MapThenSumSet(LAMBDA b : ledger[CounterMetric(spec)][spec.window][b], Covered(spec.window, m))

AnyLimit == CHOOSE spec \in Limits : TRUE     \* where there is no check

Init ==
    /\ now = 0 /\ limit \in Limits
    /\ count  = [k \in Metrics |-> [w \in Windows |-> [b \in Ticks |-> 0]]]
    /\ ledger = [k \in Metrics |-> [w \in Windows |-> [b \in Ticks |-> 0]]]
    /\ expiry = [w \in Windows |-> [b \in Ticks |-> 0]]
    /\ pc = [r \in Requests |-> "idle"]
    /\ moment = [r \in Requests |-> 0]
    /\ seen = [r \in Requests |-> AnyLimit]
    /\ back = [r \in Requests |-> 0]
    /\ total = [r \in Requests |-> 0]
    /\ floor = [r \in Requests |-> 0]

--------------------------------------------------------------------------------
(* The clock waits for no request but one whose check is due.               *)
Tick ==
    /\ now < LastTick
    /\ \A r \in Requests : pc[r] = "checking" => now < moment[r] + MaxRead
    /\ now' = now + 1
    /\ UNCHANGED <<limit, store, request>>

(* An operator replaces the limit; checks under way keep the old one.       *)
SetLimit ==
    /\ limit' \in Limits \ {limit}
    /\ UNCHANGED <<now, store, request>>

(* Pipeline: the moment is taken once, the most recent limit is loaded.     *)
Begin(r) ==
    /\ pc[r] = "idle"
    /\ pc' = [pc EXCEPT ![r] = "checking"]
    /\ moment' = [moment EXCEPT ![r] = now]
    /\ seen' = [seen EXCEPT ![r] = limit]
    /\ floor' = [floor EXCEPT ![r] = Consumed(limit, now)]
    /\ UNCHANGED <<now, limit, store, back, total>>

(* read_counter: one bucket a step, the newest first.                       *)
ReadBucket(r) ==
    LET w == seen[r].window
    IN  /\ pc[r] = "checking" /\ back[r] < Span[w]
        /\ back' = [back EXCEPT ![r] = @ + 1]
        /\ total' = [total EXCEPT ![r] =
                       @ + Held(CounterMetric(seen[r]), w, Calendar[w][moment[r]] - back[r])]
        /\ UNCHANGED <<now, limit, store, pc, moment, seen, floor>>

Decide(r) ==
    /\ pc[r] = "checking" /\ back[r] = Span[seen[r].window]
    /\ pc' = [pc EXCEPT ![r] = IF Reached(total[r], seen[r]) THEN "refused" ELSE "serving"]
    /\ UNCHANGED <<now, limit, store, moment, seen, back, total, floor>>

(* A request that has been answered keeps nothing.                          *)
End(r) ==
    /\ pc' = [pc EXCEPT ![r] = "ended"]
    /\ moment' = [moment EXCEPT ![r] = 0]
    /\ seen' = [seen EXCEPT ![r] = AnyLimit]
    /\ back' = [back EXCEPT ![r] = 0]
    /\ total' = [total EXCEPT ![r] = 0]
    /\ floor' = [floor EXCEPT ![r] = 0]

Amount(k, tokens) == IF k = "request_count" THEN 1 ELSE tokens

(* Defect variant: a counter lives as long as its window lasts, no longer. *)
ExpiryAtWindowEnd(w) == now + TTL[w] - (TTL[w] \div 4)

Expiry(w) == now + TTL[w]

(* _increment_counters: all windows and both metrics in one transaction.    *)
Record(r) ==
    /\ pc[r] = "serving"
    /\ \E tokens \in Totals :
        /\ count' = [k \in Metrics |-> [w \in Windows |->
             [count[k][w] EXCEPT ![Calendar[w][moment[r]]] =
                Held(k, w, Calendar[w][moment[r]]) + Amount(k, tokens)]]]
        /\ ledger' = [k \in Metrics |-> [w \in Windows |->
             [ledger[k][w] EXCEPT ![Calendar[w][moment[r]]] = @ + Amount(k, tokens)]]]
    /\ expiry' = [w \in Windows |-> [expiry[w] EXCEPT ![Calendar[w][moment[r]]] = Expiry(w)]]
    /\ End(r)
    /\ UNCHANGED <<now, limit>>

(* The upstream call fails, or the transaction does: nothing is counted.    *)
Fail(r) ==
    /\ pc[r] = "serving"
    /\ End(r)
    /\ UNCHANGED <<now, limit, store>>

Next ==
    \/ Tick \/ SetLimit
    \/ \E r \in Requests : Begin(r) \/ ReadBucket(r) \/ Decide(r) \/ Record(r) \/ Fail(r)

Spec == Init /\ [][Next]_vars

--------------------------------------------------------------------------------
TypeOK ==
    /\ now \in Ticks /\ limit \in Limits
    /\ count \in [Metrics -> [Windows -> [Ticks -> Nat]]]
    /\ ledger \in [Metrics -> [Windows -> [Ticks -> Nat]]]
    /\ expiry \in [Windows -> [Ticks -> Nat]]
    /\ pc \in [Requests -> PCs]
    /\ moment \in [Requests -> Ticks]
    /\ seen \in [Requests -> Limits]
    /\ back \in [Requests -> Nat] /\ total \in [Requests -> Nat]

(* However late an answer is recorded and however buckets come and go, a    *)
(* bucket that a check may still read, one begun up to MaxRead ticks ago,   *)
(* holds exactly what was recorded in it: no counter is lost before its     *)
(* window has passed it.                                                    *)
LiveBucketKept ==
    \A m \in Ticks : m <= now /\ now <= m + MaxRead =>
        \A w \in Windows : \A b \in Covered(w, m), k \in Metrics : Held(k, w, b) = ledger[k][w][b]

(* "The limit is reached iff consumption >= limit_value", in per cent of a  *)
(* capacity for a percentage.                                               *)
Share(spec) == IF spec.metric = "percentage" THEN spec.capacity ELSE 100
AtLimit(used, spec) == 100 * used >= spec.value * Share(spec)

(* A check reads its buckets one by one while others are written, yet it    *)
(* decides as if at one instant of it: a request is let through only if its *)
(* window held less than the limit when it began, and refused only if by    *)
(* the end the window held that much.                                       *)
DecisionsSound ==
    \A r \in Requests :
        /\ pc[r] = "serving" => ~AtLimit(floor[r], seen[r])
        /\ pc[r] = "refused" => AtLimit(Consumed(seen[r], moment[r]), seen[r])
================================================================================
