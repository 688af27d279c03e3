-------------------------------- MODULE Gateway --------------------------------
(***************************************************************************)
(* The proxy pipeline: request handlers that share one client token, one   *)
(* fallback chain, the usage counters and session binding in Redis, and a  *)
(* database in which each handler has a transaction of its own.            *)
(*                                                                         *)
(* A handler serves one request after another.  The renewal of an account  *)
(* (SubscriptionRefresh) appears here as the class of error it raises.     *)
(* txTrace and txUsage are the handler's rows as its transaction sees them,*)
(* trace and usage the committed ones.                                     *)
(***************************************************************************)
EXTENDS Naturals, Sequences, FiniteSets

CONSTANTS
    Handlers,       \* request handlers running at the same time
    Kinds,          \* what clients send: "chat" (or embeddings) or "stream",
                    \* with or without a session header
    Accounts, Token,
    Nobody,         \* "no account"
    Chain,          \* the chain's lane: the account of each node
    Policy,         \* ... and the fallback policy of each node
    Limits,         \* request_count limit of each subject that has one
    LastWindow,     \* bound: measurement windows
    MaxRequests,    \* bound: requests served
    MaxChanges,     \* bound: status changes of accounts and new windows
    MaxFaults       \* bound: crashes and lost connections

Windows   == 0..LastWindow
Subjects  == Accounts \cup {Token}
Budgets   == Windows \X Subjects
Nodes     == DOMAIN Chain
Policies  == {"any_error", "auth_or_retryable", "retryable"}
Errors    == {"retryable", "auth", "other"}
Statuses  == {"active", "disabled", "reauth", "deleted"}
Outcomes  == {"success", "client_error", "no_account", "all_fallbacks_failed"}
Traces    == Outcomes \cup {"none", "open"}
Answers   == Outcomes \cup {"none", "broken"}

ASSUME GatewayAssumption ==
    /\ IsFiniteSet(Handlers) /\ Handlers # {}
    /\ Kinds \subseteq {"chat", "stream"} \X BOOLEAN
    /\ Token \notin Accounts /\ Nobody \notin Subjects
    /\ Chain \in Seq(Accounts)
    /\ Policy \in [Nodes -> Policies]
    /\ DOMAIN Limits \subseteq Subjects
    /\ \A s \in DOMAIN Limits : Limits[s] \in Nat
    /\ LastWindow \in Nat /\ MaxRequests \in Nat /\ MaxChanges \in Nat /\ MaxFaults \in Nat

VARIABLES
    window,         \* the current measurement window
    counter,        \* Redis: requests counted against each budget
    ledger,         \* committed usage rows of each budget
    binding,        \* Redis: the account the session is bound to
    status,         \* committed status of each account
    pc,             \* where each handler is
    mode, affine,   \* its request: streamed, with a session header
    start,          \* the window at its `now`
    left,           \* the available chain nodes it has not attempted
    preferred,      \* the account its session was bound to
    node,           \* the node under attempt
    lastError,      \* how the last failed attempt failed
    txTrace, txUsage,
    trace, usage,
    answer,         \* what the client got
    served, changes, faults

redis    == <<counter, binding>>
request  == <<mode, affine, start>>
route    == <<left, preferred, node>>
rows     == <<trace, usage, ledger>>
txRows   == <<txTrace, txUsage>>
bounds   == <<served, changes, faults>>
vars     == <<window, redis, status, pc, request, route, lastError, txRows, rows, answer, bounds>>

PCs == {"idle", "limit", "route", "order", "acquire", "call", "stream",
        "record", "count", "bind", "close", "commit", "reply", "drop", "done"}

Init ==
    /\ window = 0
    /\ counter = [b \in Budgets |-> 0]
    /\ ledger = [b \in Budgets |-> 0]
    /\ binding = Nobody
    /\ status = [a \in Accounts |-> "active"]
    /\ pc = [h \in Handlers |-> "idle"]
    /\ mode = [h \in Handlers |-> "chat"]
    /\ affine = [h \in Handlers |-> FALSE]
    /\ start = [h \in Handlers |-> 0]
    /\ left = [h \in Handlers |-> {}]
    /\ preferred = [h \in Handlers |-> Nobody]
    /\ node = [h \in Handlers |-> 0]
    /\ lastError = [h \in Handlers |-> "other"]
    /\ txTrace = [h \in Handlers |-> "none"]
    /\ txUsage = [h \in Handlers |-> Nobody]
    /\ trace = [h \in Handlers |-> "none"]
    /\ usage = [h \in Handlers |-> Nobody]
    /\ answer = [h \in Handlers |-> "none"]
    /\ served = 0 /\ changes = 0 /\ faults = 0

--------------------------------------------------------------------------------
Goto(h, p) == pc' = [pc EXCEPT ![h] = p]

(* Defect variant: the counter is read in the window that is current now. *)
ReachedNow(s, w) == s \in DOMAIN Limits /\ counter[<<window, s>>] >= Limits[s]

Reached(s, w) == s \in DOMAIN Limits /\ counter[<<w, s>>] >= Limits[s]

(* evaluate_chain: nodes are attempted in chain order, those of the        *)
(* session's account before the others.                                    *)
Before(account, m, n) ==
    \/ Chain[m] = account /\ Chain[n] # account
    \/ (Chain[m] = account <=> Chain[n] = account) /\ m <= n

Attempt(h, n, available, account) ==
    /\ n \in available /\ \A m \in available : Before(account, n, m)
    /\ node' = [node EXCEPT ![h] = n]
    /\ left' = [left EXCEPT ![h] = available \ {n}]

Account(h) == Chain[node[h]]

Allows(n, error) ==
    \/ Policy[n] = "any_error"
    \/ error = "retryable"
    \/ Policy[n] = "auth_or_retryable" /\ error = "auth"

(* The two ends of get_session. *)
CommitTx(h) ==
    /\ trace' = [trace EXCEPT ![h] = txTrace[h]]
    /\ usage' = [usage EXCEPT ![h] = txUsage[h]]
    /\ ledger' = [b \in Budgets |->
         IF txUsage[h] # usage[h] /\ b \in {start[h]} \X {Token, txUsage[h]}
         THEN ledger[b] + 1 ELSE ledger[b]]
    /\ UNCHANGED txRows

RollbackTx(h) ==
    /\ txTrace' = [txTrace EXCEPT ![h] = trace[h]]
    /\ txUsage' = [txUsage EXCEPT ![h] = usage[h]]
    /\ UNCHANGED rows

(* A GozarError before any byte was sent: the trace is finalized, and the  *)
(* router commits before it re-raises.                                     *)
FailTx(h, outcome) == txTrace' = [txTrace EXCEPT ![h] = outcome] /\ UNCHANGED txUsage

Fail(h, outcome) == FailTx(h, outcome) /\ Goto(h, "commit")

--------------------------------------------------------------------------------
(* Before any upstream call: _authenticate_and_route. *)

(* The trace is opened, then the presented token verified. *)
Open(h) ==
    /\ pc[h] = "idle" /\ served < MaxRequests
    /\ served' = served + 1
    /\ \E k \in Kinds :
         /\ mode' = [mode EXCEPT ![h] = k[1]]
         /\ affine' = [affine EXCEPT ![h] = k[2]]
    /\ start' = [start EXCEPT ![h] = window]
    /\ \/ txTrace' = [txTrace EXCEPT ![h] = "open"] /\ Goto(h, "limit")
       \/ txTrace' = [txTrace EXCEPT ![h] = "client_error"] /\ Goto(h, "commit")
    /\ UNCHANGED <<window, redis, status, route, lastError, txUsage, rows, answer, changes, faults>>

EnforceTokenLimit(h) ==
    /\ pc[h] = "limit"
    /\ \/ ~Reached(Token, start[h]) /\ Goto(h, "route") /\ UNCHANGED txRows
       \/ Reached(Token, start[h]) /\ Fail(h, "client_error")
    /\ UNCHANGED <<window, redis, status, request, route, lastError, rows, answer, bounds>>

(* No chain or no lane fits the requested model. *)
NoChain(h) ==
    /\ pc[h] = "route"
    /\ Fail(h, "no_account")
    /\ UNCHANGED <<window, redis, status, request, route, lastError, rows, answer, bounds>>

SnapshotStates(h) ==
    /\ pc[h] = "route"
    /\ left' = [left EXCEPT ![h] = {n \in Nodes : status[Chain[n]] = "active"}]
    /\ Goto(h, "order")
    /\ UNCHANGED <<window, redis, status, request, preferred, node, lastError, txRows, rows, answer, bounds>>

(* Redis answers after the rows were read: the accounts' counters, then the *)
(* binding.  One step stands for these reads: each counter is held against  *)
(* its own limit alone and the binding only orders what is left (how the    *)
(* reads of one counter interleave with its writers is in UsageWindows).    *)
UnderLimit(h) == {n \in left[h] : ~Reached(Chain[n], start[h])}
Preference(h) == IF affine[h] THEN binding ELSE Nobody

OrderAttempts(h) ==
    /\ pc[h] = "order"
    /\ preferred' = [preferred EXCEPT ![h] = Preference(h)]
    /\ \/ /\ \E n \in Nodes : Attempt(h, n, UnderLimit(h), Preference(h))
          /\ Goto(h, "acquire") /\ UNCHANGED txRows
       \/ /\ UnderLimit(h) = {}
          /\ left' = [left EXCEPT ![h] = {}] /\ UNCHANGED node
          /\ Fail(h, "no_account")
    /\ UNCHANGED <<window, redis, status, request, lastError, rows, answer, bounds>>

--------------------------------------------------------------------------------
(* Attempts and fallback. *)

(* Defect variant: the last node of the order is never tried. *)
AttemptFailsEarly(h, error) ==
    /\ lastError' = [lastError EXCEPT ![h] = error]
    /\ UNCHANGED preferred
    /\ \/ /\ Allows(node[h], error) /\ Cardinality(left[h]) > 1
          /\ \E n \in Nodes : Attempt(h, n, left[h], preferred[h])
          /\ Goto(h, "acquire") /\ UNCHANGED txRows
       \/ /\ ~Allows(node[h], error) \/ Cardinality(left[h]) <= 1
          /\ Fail(h, "all_fallbacks_failed") /\ UNCHANGED <<node, left>>

(* Defect variant: the loop runs past the order's end. *)
AttemptFailsPastEnd(h, error) ==
    /\ lastError' = [lastError EXCEPT ![h] = error]
    /\ UNCHANGED preferred
    /\ \/ /\ Allows(node[h], error)
          /\ \/ \E n \in Nodes : Attempt(h, n, left[h], preferred[h])
             \/ left[h] = {} /\ node' = [node EXCEPT ![h] = 0] /\ UNCHANGED left
          /\ Goto(h, "acquire") /\ UNCHANGED txRows
       \/ /\ ~Allows(node[h], error)
          /\ Fail(h, "all_fallbacks_failed") /\ UNCHANGED <<node, left>>

AttemptFails(h, error) ==
    /\ lastError' = [lastError EXCEPT ![h] = error]
    /\ UNCHANGED preferred
    /\ \/ /\ Allows(node[h], error)
          /\ \E n \in Nodes : Attempt(h, n, left[h], preferred[h])
          /\ Goto(h, "acquire") /\ UNCHANGED txRows
       \/ /\ ~Allows(node[h], error) \/ left[h] = {}
          /\ Fail(h, "all_fallbacks_failed") /\ UNCHANGED <<node, left>>

(* get_usable_token asks whether the account still exists and whether it   *)
(* requires reauthorization, not whether it is enabled.                    *)
Acquire(h) ==
    /\ pc[h] = "acquire"
    /\ \/ status[Account(h)] = "reauth" /\ AttemptFails(h, "auth")
       \/ status[Account(h)] = "deleted" /\ AttemptFails(h, "other")
       \/ /\ status[Account(h)] \in {"active", "disabled"}
          /\ Goto(h, "call") /\ UNCHANGED <<route, lastError, txRows>>
    /\ UNCHANGED <<window, redis, status, request, rows, answer, bounds>>

(* A complete answer, or the first byte of a stream. *)
CallSucceeds(h) ==
    /\ pc[h] = "call"
    /\ Goto(h, IF mode[h] = "chat" THEN "record" ELSE "commit")
    /\ UNCHANGED <<window, redis, status, request, route, lastError, txRows, rows, answer, bounds>>

CallFails(h) ==
    /\ pc[h] = "call"
    /\ \E error \in Errors : AttemptFails(h, error)
    /\ UNCHANGED <<window, redis, status, request, rows, answer, bounds>>

--------------------------------------------------------------------------------
(* The stream's body runs after the dependency's teardown has committed and *)
(* closed the session; what it writes then begins a transaction of its own. *)

StreamEnds(h) ==
    /\ pc[h] = "stream"
    /\ answer' = [answer EXCEPT ![h] = "success"]
    /\ Goto(h, "record")
    /\ UNCHANGED <<window, redis, status, request, route, lastError, txRows, rows, bounds>>

StreamFails(h) ==
    /\ pc[h] = "stream"
    /\ answer' = [answer EXCEPT ![h] = "broken"]
    /\ FailTx(h, "all_fallbacks_failed")
    /\ Goto(h, "drop")
    /\ UNCHANGED <<window, redis, status, request, route, lastError, rows, bounds>>

(* GeneratorExit is no GozarError. *)
ClientDisconnects(h) ==
    /\ pc[h] = "stream"
    /\ Goto(h, "drop")
    /\ UNCHANGED <<window, redis, status, request, route, lastError, txRows, rows, answer, bounds>>

--------------------------------------------------------------------------------
(* Accounting. *)

RecordUsage(h) ==
    /\ pc[h] = "record"
    /\ txUsage' = [txUsage EXCEPT ![h] = Account(h)]
    /\ Goto(h, "count")
    /\ UNCHANGED <<window, redis, status, request, route, lastError, txTrace, rows, answer, bounds>>

(* Negative counts are a ValidationError. *)
RejectUsage(h) ==
    /\ pc[h] = "record"
    /\ \/ mode[h] = "chat" /\ Fail(h, "client_error")
       \/ mode[h] = "stream" /\ Goto(h, "drop") /\ UNCHANGED txRows
    /\ UNCHANGED <<window, redis, status, request, route, lastError, rows, answer, bounds>>

(* Defect variant: counted in the window in which the answer came. *)
CountLate(h) == {window} \X {Token, Account(h)}

(* Defect variant: only the token is counted. *)
CountToken(h) == {start[h]} \X {Token}

(* One MULTI/EXEC increments the counters of the account and of the token. *)
Counted(h) == {start[h]} \X {Token, Account(h)}

IncrementCounters(h) ==
    /\ pc[h] = "count"
    /\ counter' = [b \in Budgets |-> IF b \in Counted(h) THEN counter[b] + 1 ELSE counter[b]]
    /\ Goto(h, IF affine[h] THEN "bind" ELSE "close")
    /\ UNCHANGED <<window, binding, status, request, route, lastError, txRows, rows, answer, bounds>>

RecordSessionBinding(h) ==
    /\ pc[h] = "bind"
    /\ binding' = Account(h)
    /\ Goto(h, "close")
    /\ UNCHANGED <<window, counter, status, request, route, lastError, txRows, rows, answer, bounds>>

FinalizeTrace(h) ==
    /\ pc[h] = "close"
    /\ txTrace' = [txTrace EXCEPT ![h] = "success"]
    /\ Goto(h, IF mode[h] = "chat" THEN "commit" ELSE "drop")
    /\ UNCHANGED <<window, redis, status, request, route, lastError, txUsage, rows, answer, bounds>>

--------------------------------------------------------------------------------
(* The end of the transaction. *)

(* Defect variant: the router does not commit before it re-raises. *)
CommitUnlessError(h) ==
    /\ pc[h] = "commit"
    /\ \/ txTrace[h] \in {"success", "open"} /\ CommitTx(h)
       \/ txTrace[h] \notin {"success", "open"} /\ UNCHANGED <<txRows, rows>>
    /\ Goto(h, IF txTrace[h] = "open" THEN "stream" ELSE "reply")
    /\ UNCHANGED <<window, redis, status, request, route, lastError, answer, bounds>>

(* Of a stream the headers follow, then its body. *)
Commit(h) ==
    /\ pc[h] = "commit"
    /\ CommitTx(h)
    /\ Goto(h, IF txTrace[h] = "open" THEN "stream" ELSE "reply")
    /\ UNCHANGED <<window, redis, status, request, route, lastError, answer, bounds>>

(* The response the handler has made is sent only now. *)
Reply(h) ==
    /\ pc[h] = "reply"
    /\ answer' = [answer EXCEPT ![h] = txTrace[h]]
    /\ Goto(h, "done")
    /\ UNCHANGED <<window, redis, status, request, route, lastError, txRows, rows, bounds>>

(* The stream's generator ends; nobody commits, the connection is reset. *)
Drop(h) ==
    /\ pc[h] = "drop"
    /\ RollbackTx(h)
    /\ Goto(h, "done")
    /\ UNCHANGED <<window, redis, status, request, route, lastError, answer, bounds>>

(* The process dies, or Redis or the database fails under the handler: no  *)
(* GozarError, so the transaction rolls back.  Redis keeps what it has.  At *)
(* "reply" the rows are committed: the confirmation of the commit or the    *)
(* connection to the client is what is lost.                               *)
Crash(h) ==
    /\ pc[h] \notin {"idle", "done"} /\ faults < MaxFaults
    /\ faults' = faults + 1
    /\ RollbackTx(h)
    /\ Goto(h, "done")
    /\ UNCHANGED <<window, redis, status, request, route, lastError, answer, served, changes>>

(* The next request finds nothing of this one in the handler. *)
Return(h) ==
    /\ pc[h] = "done"
    /\ Goto(h, "idle")
    /\ mode' = [mode EXCEPT ![h] = "chat"]
    /\ affine' = [affine EXCEPT ![h] = FALSE]
    /\ start' = [start EXCEPT ![h] = 0]
    /\ left' = [left EXCEPT ![h] = {}]
    /\ preferred' = [preferred EXCEPT ![h] = Nobody]
    /\ node' = [node EXCEPT ![h] = 0]
    /\ lastError' = [lastError EXCEPT ![h] = "other"]
    /\ trace' = [trace EXCEPT ![h] = "none"]
    /\ usage' = [usage EXCEPT ![h] = Nobody]
    /\ txTrace' = [txTrace EXCEPT ![h] = "none"]
    /\ txUsage' = [txUsage EXCEPT ![h] = Nobody]
    /\ answer' = [answer EXCEPT ![h] = "none"]
    /\ UNCHANGED <<window, redis, status, ledger, bounds>>

(* One request, by the stages of complete_chat_completion, of               *)
(* complete_embedding or of stream_chat_completion.                        *)
Handle(h) ==
    \/ Open(h) \/ EnforceTokenLimit(h) \/ NoChain(h)
    \/ SnapshotStates(h) \/ OrderAttempts(h)
    \/ Acquire(h) \/ CallSucceeds(h) \/ CallFails(h)
    \/ StreamEnds(h) \/ StreamFails(h) \/ ClientDisconnects(h)
    \/ RecordUsage(h) \/ RejectUsage(h) \/ IncrementCounters(h)
    \/ RecordSessionBinding(h) \/ FinalizeTrace(h)
    \/ Commit(h) \/ Reply(h) \/ Drop(h) \/ Return(h) \/ Crash(h)

--------------------------------------------------------------------------------
(* The world around the handlers. *)

Change == changes < MaxChanges /\ changes' = changes + 1

NextWindow ==
    /\ window < LastWindow /\ Change
    /\ window' = window + 1
    /\ UNCHANGED <<redis, status, pc, request, route, lastError, txRows, rows, answer, served, faults>>

BindingExpires ==
    /\ binding # Nobody
    /\ binding' = Nobody
    /\ UNCHANGED <<window, counter, status, pc, request, route, lastError, txRows, rows, answer, bounds>>

(* An operator or another request's renewal commits a new status. *)
AccountChanges ==
    /\ Change
    /\ \E a \in Accounts, s \in Statuses :
         /\ status[a] \notin {"deleted", s}
         /\ status' = [status EXCEPT ![a] = s]
    /\ UNCHANGED <<window, redis, pc, request, route, lastError, txRows, rows, answer, served, faults>>

(* All the bound's requests are served: nothing more happens. *)
AllServed ==
    /\ served = MaxRequests
    /\ \A h \in Handlers : pc[h] = "idle"
    /\ UNCHANGED vars

Next ==
    \/ \E h \in Handlers : Handle(h)
    \/ NextWindow \/ BindingExpires \/ AccountChanges \/ AllServed

Spec == Init /\ [][Next]_vars

--------------------------------------------------------------------------------
Attempting(h) ==
    \/ pc[h] \in {"acquire", "call", "stream", "record", "count"}
    \/ pc[h] = "commit" /\ txTrace[h] = "open"

(* Type invariant; an attempt is always under way at a node of the chain,  *)
(* and a reply is never sent for an open trace.                            *)
TypeOK ==
    /\ window \in Windows
    /\ counter \in [Budgets -> Nat]
    /\ ledger \in [Budgets -> Nat]
    /\ binding \in Accounts \cup {Nobody}
    /\ status \in [Accounts -> Statuses]
    /\ pc \in [Handlers -> PCs]
    /\ mode \in [Handlers -> {"chat", "stream"}]
    /\ affine \in [Handlers -> BOOLEAN]
    /\ start \in [Handlers -> Windows]
    /\ left \in [Handlers -> SUBSET Nodes]
    /\ preferred \in [Handlers -> Accounts \cup {Nobody}]
    /\ node \in [Handlers -> Nodes \cup {0}]
    /\ lastError \in [Handlers -> Errors]
    /\ txTrace \in [Handlers -> Traces]
    /\ txUsage \in [Handlers -> Accounts \cup {Nobody}]
    /\ trace \in [Handlers -> Traces]
    /\ usage \in [Handlers -> Accounts \cup {Nobody}]
    /\ answer \in [Handlers -> Answers]
    /\ served \in 0..MaxRequests /\ changes \in 0..MaxChanges /\ faults \in 0..MaxFaults
    /\ \A h \in Handlers :
         /\ Attempting(h) \/ pc[h] \in {"bind", "close"} => node[h] \in Nodes
         /\ pc[h] = "reply" => txTrace[h] # "open"

(* The limits are enforced on the request's own window: consumption that   *)
(* has been read is at most one short per handler when it is recorded.     *)
LimitOvershoot ==
    \A b \in Windows \X DOMAIN Limits : counter[b] < Limits[b[2]] + Cardinality(Handlers)

(* record_usage counts in Redis before the row is committed: whatever is   *)
(* lost, a limit never sees less consumption than the ledger shows.        *)
CountersCoverLedger == \A b \in Budgets : ledger[b] <= counter[b]

(* A client of /chat/completions or /embeddings that was answered finds     *)
(* that answer in the committed trace, and it was billed, to the account    *)
(* under attempt, if and only if that is a completion.  A crash or a lost   *)
(* connection can leave it without an answer, not with a bill for anything  *)
(* but a completion that was traced.                                        *)
AnswerTraced ==
    \A h \in Handlers : pc[h] = "done" /\ mode[h] = "chat" =>
        /\ answer[h] = trace[h] \/ (answer[h] = "none" /\ faults > 0)
        /\ usage[h] = IF trace[h] = "success" THEN Account(h) ELSE Nobody

(* "All fallbacks failed" is final: no available node is left that the     *)
(* policy of the node that failed last would have let the request try.     *)
FallbackExhausted ==
    \A h \in Handlers :
        txTrace[h] = "all_fallbacks_failed" /\ pc[h] = "commit" =>
            left[h] = {} \/ ~Allows(node[h], lastError[h])

(* A session is bound only to an account that has served and was counted. *)
BindingServed ==
    binding # Nobody => \E w \in Windows : counter[<<w, binding>>] > 0

(* Check-then-count admission, per limited subject and window. *)
Claimed(h) ==
    CASE pc[h] \in {"route", "order"} -> {Token}
      [] Attempting(h) -> {Token} \cup {Chain[n] : n \in left[h] \cup {node[h]}}
      [] OTHER -> {}
Limited == Windows \X DOMAIN Limits

AdmissionControl == INSTANCE Admission WITH
    Workers <- Handlers,
    Budgets <- Limited,
    Limit   <- [b \in Limited |-> Limits[b[2]]],
    spent   <- [b \in Limited |-> counter[b]],
    claims  <- [h \in Handlers |-> ({start[h]} \X Claimed(h)) \cap Limited]

ImplementsAdmission == AdmissionControl!Spec
================================================================================
