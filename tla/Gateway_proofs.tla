---------------------------- MODULE Gateway_proofs -----------------------------
(***************************************************************************)
(* Theorems about Gateway, for any number of handlers and accounts, any    *)
(* chain with any policies, any limits and any bounds.                     *)
(***************************************************************************)
EXTENDS Gateway, FiniteSetTheorems, TLAPS

(* What each handler's rows say at each step of its request: the usage row *)
(* is pending from record_usage to the commit, and only with a success;    *)
(* before the end nothing of a non-streaming request is committed.         *)
Answering(h) ==
    /\ pc[h] \in {"limit", "route", "order", "acquire", "call", "stream",
                  "record", "count", "bind", "close"} => txTrace[h] = "open"
    /\ pc[h] \in {"idle", "limit", "route", "order", "acquire", "call", "stream", "record"} =>
          txUsage[h] = Nobody
    /\ pc[h] \in {"count", "bind", "close"} => txUsage[h] = Account(h)
    /\ pc[h] = "commit" =>
          /\ txTrace[h] \in Outcomes \cup {"open"}
          /\ mode[h] = "chat" => txTrace[h] # "open"
          /\ txUsage[h] = IF txTrace[h] = "success" THEN Account(h) ELSE Nobody
    /\ pc[h] = "reply" =>
          /\ txTrace[h] = trace[h] /\ trace[h] \in Outcomes
          /\ usage[h] = IF trace[h] = "success" THEN Account(h) ELSE Nobody
    /\ pc[h] \notin {"reply", "done"} => usage[h] = Nobody
    /\ mode[h] = "chat" => pc[h] \notin {"stream", "drop"}
    /\ pc[h] = "idle" \/ (mode[h] = "chat" /\ pc[h] \notin {"reply", "done"}) =>
          trace[h] = "none"
    /\ pc[h] = "idle" \/ (mode[h] = "chat" /\ pc[h] # "done") => answer[h] = "none"
AnswerInv == (\A h \in Handlers : Answering(h)) /\ AnswerTraced

(* Who is about to bind the session has been counted. *)
BindInv ==
    /\ \A h \in Handlers : pc[h] = "bind" => counter[<<start[h], Account(h)>>] > 0
    /\ BindingServed

(* Requests counted in Redis whose usage row may still be committed. *)
Pending(b) == {h \in Handlers :
    /\ pc[h] \in {"bind", "close"} \/ (pc[h] = "commit" /\ txUsage[h] # Nobody)
    /\ b \in {start[h]} \X {Token, txUsage[h]}}
CoverInv == \A b \in Budgets : ledger[b] + Cardinality(Pending(b)) <= counter[b]

--------------------------------------------------------------------------------
(* The account of a node is an account of the chain. *)
LEMMA ChainTyped ==
    ASSUME NEW n \in Nodes
    PROVE  Chain[n] \in Accounts
  BY GatewayAssumption DEF Nodes

(* What a move to another stage does to the handlers. *)
LEMMA GotoTyped ==
    ASSUME TypeOK, NEW h \in Handlers, NEW p \in PCs, Goto(h, p)
    PROVE  pc' \in [Handlers -> PCs] /\ pc'[h] = p /\ \A g \in Handlers \ {h} : pc'[g] = pc[g]
  BY DEF TypeOK, Goto

(* A GozarError finalizes the trace and goes to the commit. *)
LEMMA FailTyped ==
    ASSUME TypeOK, NEW h \in Handlers, NEW outcome \in Outcomes, Fail(h, outcome)
    PROVE  /\ pc' \in [Handlers -> PCs]
           /\ pc'[h] = "commit" /\ \A g \in Handlers \ {h} : pc'[g] = pc[g]
           /\ txTrace' \in [Handlers -> Traces]
           /\ txTrace'[h] = outcome /\ \A g \in Handlers \ {h} : txTrace'[g] = txTrace[g]
           /\ txUsage' = txUsage
  <1>1. Goto(h, "commit") /\ "commit" \in PCs
    BY DEF Fail, PCs
  <1>2. /\ txTrace' = [txTrace EXCEPT ![h] = outcome]
        /\ txTrace \in [Handlers -> Traces]
        /\ outcome \in Traces
        /\ txUsage' = txUsage
    BY DEF TypeOK, Fail, FailTx, Traces
  <1>3. /\ txTrace' \in [Handlers -> Traces]
        /\ txTrace'[h] = outcome /\ \A g \in Handlers \ {h} : txTrace'[g] = txTrace[g]
    BY <1>2
  <1> QED
    BY <1>1, <1>2, <1>3, GotoTyped

(* An attempt takes one of the available nodes off the order. *)
LEMMA AttemptTyped ==
    ASSUME TypeOK, NEW h \in Handlers, NEW n \in Nodes, NEW available \in SUBSET Nodes,
           NEW account, Attempt(h, n, available, account)
    PROVE  /\ node' \in [Handlers -> Nodes \cup {0}]
           /\ node'[h] = n /\ \A g \in Handlers \ {h} : node'[g] = node[g]
           /\ left' \in [Handlers -> SUBSET Nodes]
           /\ left'[h] = available \ {n} /\ \A g \in Handlers \ {h} : left'[g] = left[g]
           /\ n \in available
  BY DEF TypeOK, Attempt

(* A failed attempt goes on to another available node, or ends the request. *)
LEMMA AttemptFailsTyped ==
    ASSUME TypeOK, NEW h \in Handlers, NEW error \in Errors, AttemptFails(h, error)
    PROVE  /\ lastError' \in [Handlers -> Errors]
           /\ lastError'[h] = error
           /\ \A g \in Handlers \ {h} : lastError'[g] = lastError[g]
           /\ preferred' = preferred /\ txUsage' = txUsage
           /\ node' \in [Handlers -> Nodes \cup {0}] /\ left' \in [Handlers -> SUBSET Nodes]
           /\ pc' \in [Handlers -> PCs] /\ txTrace' \in [Handlers -> Traces]
           /\ \A g \in Handlers \ {h} :
                /\ node'[g] = node[g] /\ left'[g] = left[g]
                /\ pc'[g] = pc[g] /\ txTrace'[g] = txTrace[g]
           /\ \/ /\ pc'[h] = "acquire" /\ txTrace' = txTrace
                 /\ node'[h] \in left[h] /\ left'[h] = left[h] \ {node'[h]}
              \/ /\ pc'[h] = "commit" /\ txTrace'[h] = "all_fallbacks_failed"
                 /\ node' = node /\ left' = left
                 /\ left'[h] = {} \/ ~Allows(node'[h], lastError'[h])
  <1>1. /\ lastError' \in [Handlers -> Errors]
        /\ lastError'[h] = error
        /\ \A g \in Handlers \ {h} : lastError'[g] = lastError[g]
        /\ preferred' = preferred
    BY DEF TypeOK, AttemptFails
  <1>2. /\ node \in [Handlers -> Nodes \cup {0}] /\ left \in [Handlers -> SUBSET Nodes]
        /\ txTrace \in [Handlers -> Traces]
    BY DEF TypeOK
  <1>3. CASE /\ \E n \in Nodes : Attempt(h, n, left[h], preferred[h])
             /\ Goto(h, "acquire") /\ UNCHANGED txRows
    <2>1. PICK n \in Nodes : Attempt(h, n, left[h], preferred[h])
      BY <1>3
    <2>2. left[h] \in SUBSET Nodes
      BY <1>2
    <2>3. "acquire" \in PCs
      BY DEF PCs
    <2> QED
      BY <1>1, <1>2, <1>3, <2>1, <2>2, <2>3, AttemptTyped, GotoTyped DEF txRows
  <1>4. CASE /\ ~Allows(node[h], error) \/ left[h] = {}
             /\ Fail(h, "all_fallbacks_failed") /\ UNCHANGED <<node, left>>
    <2>1. "all_fallbacks_failed" \in Outcomes
      BY DEF Outcomes
    <2> QED
      BY <1>1, <1>2, <1>4, <2>1, FailTyped
  <1> QED
    BY <1>3, <1>4 DEF AttemptFails

(* Every step keeps the types. *)
LEMMA TypeStep ==
    ASSUME TypeOK, [Next]_vars
    PROVE  TypeOK'
  <1>1. ASSUME NEW h \in Handlers, Open(h)
        PROVE  TypeOK'
    <2>1. /\ mode' \in [Handlers -> {"chat", "stream"}]
          /\ affine' \in [Handlers -> BOOLEAN]
          /\ start' \in [Handlers -> Windows]
          /\ served' \in 0..MaxRequests
      <3>1. PICK k \in Kinds : /\ mode' = [mode EXCEPT ![h] = k[1]]
                              /\ affine' = [affine EXCEPT ![h] = k[2]]
        BY <1>1 DEF Open
      <3>2. k[1] \in {"chat", "stream"} /\ k[2] \in BOOLEAN
        BY GatewayAssumption
      <3> QED
        BY <1>1, <3>1, <3>2, GatewayAssumption DEF Open, TypeOK
    <2>2. /\ pc' \in [Handlers -> PCs] /\ pc'[h] \in {"limit", "commit"}
          /\ \A g \in Handlers \ {h} : pc'[g] = pc[g]
      BY <1>1 DEF Open, Goto, TypeOK, PCs
    <2>3. /\ txTrace' \in [Handlers -> Traces]
          /\ pc'[h] = "commit" => txTrace'[h] = "client_error"
          /\ \A g \in Handlers \ {h} : txTrace'[g] = txTrace[g]
      BY <1>1 DEF Open, Goto, TypeOK, PCs, Traces, Outcomes
    <2> QED
      BY <1>1, <2>1, <2>2, <2>3 DEF Open, TypeOK, Attempting, redis, route, rows
  <1>2. ASSUME NEW h \in Handlers, EnforceTokenLimit(h)
        PROVE  TypeOK'
    BY <1>2, FailTyped, GotoTyped DEF EnforceTokenLimit, Outcomes, PCs, TypeOK,
       Attempting, redis, request, route, rows, txRows, bounds, vars
  <1>3. ASSUME NEW h \in Handlers, NoChain(h)
        PROVE  TypeOK'
    BY <1>3, GatewayAssumption DEF NoChain, Goto, Fail, FailTx, TypeOK, Attempting,
       Windows, Budgets, Subjects, Statuses, PCs, Traces, Outcomes, Answers, Errors,
       redis, request, route, rows, txRows, bounds, vars
  <1>4. ASSUME NEW h \in Handlers, SnapshotStates(h)
        PROVE  TypeOK'
    BY <1>4, GatewayAssumption DEF SnapshotStates, Goto, TypeOK, Attempting,
       Windows, Budgets, Subjects, Statuses, PCs, Traces, Outcomes, Answers, Errors,
       redis, request, route, rows, txRows, bounds, vars
  <1>5. ASSUME NEW h \in Handlers, OrderAttempts(h)
        PROVE  TypeOK'
    <2>1. /\ preferred' \in [Handlers -> Accounts \cup {Nobody}]
          /\ UnderLimit(h) \in SUBSET Nodes
      BY <1>5 DEF OrderAttempts, Preference, UnderLimit, TypeOK
    <2>2. CASE /\ \E n \in Nodes : Attempt(h, n, UnderLimit(h), Preference(h))
               /\ Goto(h, "acquire") /\ UNCHANGED txRows
      <3>1. PICK n \in Nodes : Attempt(h, n, UnderLimit(h), Preference(h))
        BY <2>2
      <3>2. "acquire" \in PCs
        BY DEF PCs
      <3>3. /\ node' \in [Handlers -> Nodes \cup {0}]
            /\ node'[h] \in Nodes /\ \A g \in Handlers \ {h} : node'[g] = node[g]
            /\ left' \in [Handlers -> SUBSET Nodes]
        BY <2>1, <3>1, AttemptTyped
      <3>4. /\ pc' \in [Handlers -> PCs] /\ pc'[h] = "acquire"
            /\ \A g \in Handlers \ {h} : pc'[g] = pc[g]
        BY <2>2, <3>2, GotoTyped
      <3>5. UNCHANGED <<window, counter, binding, status, mode, affine, start, lastError,
                        txTrace, txUsage, trace, usage, ledger, answer, served, changes, faults>>
        BY <1>5, <2>2 DEF OrderAttempts, redis, request, rows, txRows, bounds
      <3>6. \A g \in Handlers :
                /\ Attempting(g)' \/ pc'[g] \in {"bind", "close"} => node'[g] \in Nodes
                /\ pc'[g] = "reply" => txTrace'[g] # "open"
        BY <3>3, <3>4, <3>5 DEF TypeOK, Attempting
      <3> QED
        BY <2>1, <3>3, <3>4, <3>5, <3>6 DEF TypeOK
    <2>3. CASE /\ left' = [left EXCEPT ![h] = {}] /\ UNCHANGED node
               /\ Fail(h, "no_account")
      <3>1. "no_account" \in Outcomes
        BY DEF Outcomes
      <3>2. left' \in [Handlers -> SUBSET Nodes]
        BY <2>3 DEF TypeOK
      <3> QED
        BY <1>5, <2>1, <2>3, <3>1, <3>2, FailTyped
        DEF OrderAttempts, TypeOK, Attempting, redis, request, rows, bounds
    <2> QED
      BY <1>5, <2>2, <2>3 DEF OrderAttempts
  <1>6. ASSUME NEW h \in Handlers, Acquire(h)
        PROVE  TypeOK'
    BY <1>6, AttemptFailsTyped, GotoTyped DEF Acquire, Errors, PCs, TypeOK,
       Attempting, redis, request, route, rows, txRows, bounds, vars
  <1>7. ASSUME NEW h \in Handlers, CallSucceeds(h)
        PROVE  TypeOK'
    BY <1>7, GatewayAssumption DEF CallSucceeds, Goto, TypeOK, Attempting, Windows,
       Budgets, Subjects, Statuses, PCs, Traces, Outcomes, Answers, Errors, redis,
       request, route, rows, txRows, bounds, vars
  <1>8. ASSUME NEW h \in Handlers, CallFails(h)
        PROVE  TypeOK'
    BY <1>8, AttemptFailsTyped, GotoTyped DEF CallFails, Errors, PCs, TypeOK,
       Attempting, redis, request, route, rows, txRows, bounds, vars
  <1>9. ASSUME NEW h \in Handlers, StreamEnds(h)
        PROVE  TypeOK'
    BY <1>9, GatewayAssumption DEF StreamEnds, Goto, TypeOK, Attempting, Windows,
       Budgets, Subjects, Statuses, PCs, Traces, Outcomes, Answers, Errors, redis,
       request, route, rows, txRows, bounds, vars
  <1>10. ASSUME NEW h \in Handlers, StreamFails(h)
        PROVE  TypeOK'
    BY <1>10, GatewayAssumption DEF StreamFails, Goto, FailTx, TypeOK, Attempting,
       Windows, Budgets, Subjects, Statuses, PCs, Traces, Outcomes, Answers, Errors,
       redis, request, route, rows, txRows, bounds, vars
  <1>11. ASSUME NEW h \in Handlers, ClientDisconnects(h)
        PROVE  TypeOK'
    BY <1>11, GatewayAssumption DEF ClientDisconnects, Goto, TypeOK, Attempting,
       Windows, Budgets, Subjects, Statuses, PCs, Traces, Outcomes, Answers, Errors,
       redis, request, route, rows, txRows, bounds, vars
  <1>12. ASSUME NEW h \in Handlers, RecordUsage(h)
        PROVE  TypeOK'
    <2>1. Account(h) \in Accounts
      BY <1>12, ChainTyped DEF RecordUsage, Account, TypeOK, Attempting
    <2> QED
      BY <1>12, <2>1 DEF RecordUsage, Goto, TypeOK, Attempting, PCs, redis, request, route, rows, bounds
  <1>13. ASSUME NEW h \in Handlers, RejectUsage(h)
        PROVE  TypeOK'
    BY <1>13, FailTyped, GotoTyped DEF RejectUsage, Outcomes, PCs, TypeOK, Attempting,
       redis, request, route, rows, txRows, bounds, vars
  <1>14. ASSUME NEW h \in Handlers, IncrementCounters(h)
        PROVE  TypeOK'
    BY <1>14, GatewayAssumption DEF IncrementCounters, Goto, TypeOK, Attempting,
       Windows, Budgets, Subjects, Statuses, PCs, Traces, Outcomes, Answers, Errors,
       redis, request, route, rows, txRows, bounds, vars
  <1>15. ASSUME NEW h \in Handlers, RecordSessionBinding(h)
        PROVE  TypeOK'
    <2>1. Account(h) \in Accounts
      BY <1>15, ChainTyped DEF RecordSessionBinding, Account, TypeOK, Attempting
    <2> QED
      BY <1>15, <2>1 DEF RecordSessionBinding, Goto, TypeOK, Attempting, PCs, redis, request, route, rows, txRows, bounds
  <1>16. ASSUME NEW h \in Handlers, FinalizeTrace(h)
        PROVE  TypeOK'
    BY <1>16, GatewayAssumption DEF FinalizeTrace, Goto, TypeOK, Attempting,
       Windows, Budgets, Subjects, Statuses, PCs, Traces, Outcomes, Answers, Errors,
       redis, request, route, rows, txRows, bounds, vars
  <1>17. ASSUME NEW h \in Handlers, Commit(h)
        PROVE  TypeOK'
    BY <1>17, GatewayAssumption DEF Commit, CommitTx, Goto, TypeOK, Attempting,
       Windows, Budgets, Subjects, Statuses, PCs, Traces, Outcomes, Answers, Errors,
       redis, request, route, rows, txRows, bounds, vars
  <1>18. ASSUME NEW h \in Handlers, Drop(h)
        PROVE  TypeOK'
    BY <1>18, GatewayAssumption DEF Drop, RollbackTx, Goto, TypeOK, Attempting,
       Windows, Budgets, Subjects, Statuses, PCs, Traces, Outcomes, Answers, Errors,
       redis, request, route, rows, txRows, bounds, vars
  <1>26. ASSUME NEW h \in Handlers, Reply(h)
        PROVE  TypeOK'
    BY <1>26, GatewayAssumption DEF Reply, Goto, TypeOK, Attempting,
       Windows, Budgets, Subjects, Statuses, PCs, Traces, Outcomes, Answers, Errors,
       redis, request, route, rows, txRows, bounds, vars
  <1>19. ASSUME NEW h \in Handlers, Return(h)
        PROVE  TypeOK'
    BY <1>19, GatewayAssumption DEF Return, Goto, TypeOK, Attempting, Windows,
       Budgets, Subjects, Statuses, PCs, Traces, Outcomes, Answers, Errors, redis,
       request, route, rows, txRows, bounds, vars
  <1>20. ASSUME NEW h \in Handlers, Crash(h)
        PROVE  TypeOK'
    BY <1>20, GatewayAssumption DEF Crash, RollbackTx, Goto, TypeOK, Attempting,
       Windows, Budgets, Subjects, Statuses, PCs, Traces, Outcomes, Answers, Errors,
       redis, request, route, rows, txRows, bounds, vars
  <1>21. ASSUME NextWindow
        PROVE  TypeOK'
    BY <1>21, GatewayAssumption DEF NextWindow, Change, TypeOK, Attempting, Windows,
       Budgets, Subjects, Statuses, PCs, Traces, Outcomes, Answers, Errors, redis,
       request, route, rows, txRows, bounds, vars
  <1>22. ASSUME BindingExpires
        PROVE  TypeOK'
    BY <1>22, GatewayAssumption DEF BindingExpires, TypeOK, Attempting, Windows,
       Budgets, Subjects, Statuses, PCs, Traces, Outcomes, Answers, Errors, redis,
       request, route, rows, txRows, bounds, vars
  <1>23. ASSUME AccountChanges
        PROVE  TypeOK'
    BY <1>23, GatewayAssumption DEF AccountChanges, Change, TypeOK, Attempting,
       Windows, Budgets, Subjects, Statuses, PCs, Traces, Outcomes, Answers, Errors,
       redis, request, route, rows, txRows, bounds, vars
  <1>24. ASSUME AllServed
        PROVE  TypeOK'
    BY <1>24, GatewayAssumption DEF AllServed, TypeOK, Attempting, Windows, Budgets,
       Subjects, Statuses, PCs, Traces, Outcomes, Answers, Errors, redis, request,
       route, rows, txRows, bounds, vars
  <1>25. CASE UNCHANGED vars
    BY <1>25, GatewayAssumption DEF TypeOK, Attempting, Windows, Budgets, Subjects,
       Statuses, PCs, Traces, Outcomes, Answers, Errors, redis, request, route,
       rows, txRows, bounds, vars
  <1> QED
    BY <1>1, <1>2, <1>3, <1>4, <1>5, <1>6, <1>7, <1>8, <1>9, <1>10, <1>11, <1>12,
       <1>13, <1>14, <1>15, <1>16, <1>17, <1>18, <1>19, <1>20, <1>21, <1>22, <1>23,
       <1>24, <1>25, <1>26 DEF Next, Handle
(* The type invariant: above all, whenever an attempt is under way its     *)
(* handler is at a node of the chain.                                      *)
THEOREM TypeCorrect == Spec => []TypeOK
  <1>1. Init => TypeOK
    BY GatewayAssumption
    DEF Init, TypeOK, Attempting, Windows, Budgets, Statuses, PCs, Traces, Outcomes, Answers, Errors
  <1>2. TypeOK /\ [Next]_vars => TypeOK'
    BY TypeStep
  <1> QED
    BY <1>1, <1>2, PTL DEF Spec

--------------------------------------------------------------------------------
(* No step lowers a counter, and only a counted handler binds. *)
LEMMA BindStep ==
    ASSUME TypeOK, TypeOK', BindInv, [Next]_vars
    PROVE  BindInv'
  <1>1. ASSUME NEW h \in Handlers, Open(h)
        PROVE  BindInv'
    BY <1>1 DEF Open, Goto, TypeOK, BindInv, BindingServed, Account, Attempting,
       Budgets, redis, request, route, rows, txRows, bounds, vars
  <1>2. ASSUME NEW h \in Handlers, EnforceTokenLimit(h)
        PROVE  BindInv'
    BY <1>2 DEF EnforceTokenLimit, Goto, Fail, FailTx, TypeOK, BindInv,
       BindingServed, Account, Attempting, Budgets, redis, request, route, rows,
       txRows, bounds, vars
  <1>3. ASSUME NEW h \in Handlers, NoChain(h)
        PROVE  BindInv'
    BY <1>3 DEF NoChain, Goto, Fail, FailTx, TypeOK, BindInv, BindingServed,
       Account, Attempting, Budgets, redis, request, route, rows, txRows, bounds,
       vars
  <1>4. ASSUME NEW h \in Handlers, SnapshotStates(h)
        PROVE  BindInv'
    BY <1>4 DEF SnapshotStates, Goto, TypeOK, BindInv, BindingServed, Account,
       Attempting, Budgets, redis, request, route, rows, txRows, bounds, vars
  <1>5. ASSUME NEW h \in Handlers, OrderAttempts(h)
        PROVE  BindInv'
    BY <1>5 DEF OrderAttempts, Attempt, UnderLimit, Preference, Goto, Fail, FailTx,
       TypeOK, BindInv, BindingServed, Account, Attempting, Budgets, redis, request,
       route, rows, txRows, bounds, vars
  <1>6. ASSUME NEW h \in Handlers, Acquire(h)
        PROVE  BindInv'
    BY <1>6 DEF Acquire, AttemptFails, Attempt, Goto, Fail, FailTx, TypeOK, BindInv,
       BindingServed, Account, Attempting, Budgets, redis, request, route, rows,
       txRows, bounds, vars
  <1>7. ASSUME NEW h \in Handlers, CallSucceeds(h)
        PROVE  BindInv'
    BY <1>7 DEF CallSucceeds, Goto, TypeOK, BindInv, BindingServed, Account,
       Attempting, Budgets, redis, request, route, rows, txRows, bounds, vars
  <1>8. ASSUME NEW h \in Handlers, CallFails(h)
        PROVE  BindInv'
    BY <1>8 DEF CallFails, AttemptFails, Attempt, Goto, Fail, FailTx, TypeOK,
       BindInv, BindingServed, Account, Attempting, Budgets, redis, request, route,
       rows, txRows, bounds, vars
  <1>9. ASSUME NEW h \in Handlers, StreamEnds(h)
        PROVE  BindInv'
    BY <1>9 DEF StreamEnds, Goto, TypeOK, BindInv, BindingServed, Account,
       Attempting, Budgets, redis, request, route, rows, txRows, bounds, vars
  <1>10. ASSUME NEW h \in Handlers, StreamFails(h)
        PROVE  BindInv'
    BY <1>10 DEF StreamFails, Goto, FailTx, TypeOK, BindInv, BindingServed, Account,
       Attempting, Budgets, redis, request, route, rows, txRows, bounds, vars
  <1>11. ASSUME NEW h \in Handlers, ClientDisconnects(h)
        PROVE  BindInv'
    BY <1>11 DEF ClientDisconnects, Goto, TypeOK, BindInv, BindingServed, Account,
       Attempting, Budgets, redis, request, route, rows, txRows, bounds, vars
  <1>12. ASSUME NEW h \in Handlers, RecordUsage(h)
        PROVE  BindInv'
    BY <1>12 DEF RecordUsage, Goto, TypeOK, BindInv, BindingServed, Account,
       Attempting, Budgets, redis, request, route, rows, txRows, bounds, vars
  <1>13. ASSUME NEW h \in Handlers, RejectUsage(h)
        PROVE  BindInv'
    BY <1>13 DEF RejectUsage, Goto, Fail, FailTx, TypeOK, BindInv, BindingServed,
       Account, Attempting, Budgets, redis, request, route, rows, txRows, bounds,
       vars
  <1>14. ASSUME NEW h \in Handlers, IncrementCounters(h)
        PROVE  BindInv'
    <2>1. start[h] \in Windows /\ Account(h) \in Accounts
      BY <1>14, ChainTyped DEF IncrementCounters, TypeOK, Attempting, Account
    <2>2. /\ <<start[h], Account(h)>> \in Counted(h) \cap Budgets
          /\ \A b \in Budgets : counter'[b] >= counter[b]
          /\ counter'[<<start[h], Account(h)>>] > 0
      BY <1>14, <2>1 DEF IncrementCounters, TypeOK, Counted, Budgets, Subjects
    <2>3. ASSUME NEW g \in Handlers, pc'[g] = "bind"
          PROVE  counter'[<<start'[g], Account(g)'>>] > 0
      <3>1. CASE g = h
        BY <1>14, <2>2, <3>1 DEF IncrementCounters, Account, request, route
      <3>2. CASE g # h
        <4>1. pc[g] = "bind" /\ <<start[g], Account(g)>> \in Budgets
          BY <1>14, <2>3, <3>2, ChainTyped
          DEF IncrementCounters, Goto, TypeOK, Account, Budgets, Subjects
        <4> QED
          BY <1>14, <2>2, <4>1 DEF IncrementCounters, BindInv, TypeOK, Account, request, route
      <3> QED
        BY <3>1, <3>2
    <2>4. BindingServed'
      <3>1. ASSUME binding # Nobody
            PROVE  \E w \in Windows : counter'[<<w, binding>>] > 0
        <4>1. PICK w \in Windows : counter[<<w, binding>>] > 0
          BY <3>1 DEF BindInv, BindingServed
        <4>2. <<w, binding>> \in Budgets
          BY <3>1 DEF TypeOK, Budgets, Subjects
        <4>3. counter[<<w, binding>>] \in Nat /\ counter'[<<w, binding>>] \in Nat
          BY <4>2 DEF TypeOK
        <4> QED
          BY <4>1, <4>2, <4>3, <2>2
      <3> QED
        BY <1>14, <3>1 DEF IncrementCounters, BindingServed
    <2> QED
      BY <2>3, <2>4 DEF BindInv
  <1>15. ASSUME NEW h \in Handlers, RecordSessionBinding(h)
        PROVE  BindInv'
    BY <1>15 DEF RecordSessionBinding, Goto, TypeOK, BindInv, BindingServed,
       Account, Attempting, Budgets, redis, request, route, rows, txRows, bounds,
       vars
  <1>16. ASSUME NEW h \in Handlers, FinalizeTrace(h)
        PROVE  BindInv'
    BY <1>16 DEF FinalizeTrace, Goto, TypeOK, BindInv, BindingServed, Account,
       Attempting, Budgets, redis, request, route, rows, txRows, bounds, vars
  <1>17. ASSUME NEW h \in Handlers, Commit(h)
        PROVE  BindInv'
    BY <1>17 DEF Commit, CommitTx, Goto, TypeOK, BindInv, BindingServed, Account,
       Attempting, Budgets, redis, request, route, rows, txRows, bounds, vars
  <1>18. ASSUME NEW h \in Handlers, Drop(h)
        PROVE  BindInv'
    BY <1>18 DEF Drop, RollbackTx, Goto, TypeOK, BindInv, BindingServed, Account,
       Attempting, Budgets, redis, request, route, rows, txRows, bounds, vars
  <1>26. ASSUME NEW h \in Handlers, Reply(h)
        PROVE  BindInv'
    BY <1>26 DEF Reply, Goto, TypeOK, BindInv, BindingServed, Account,
       Attempting, Budgets, redis, request, route, rows, txRows, bounds, vars
  <1>19. ASSUME NEW h \in Handlers, Return(h)
        PROVE  BindInv'
    BY <1>19 DEF Return, Goto, TypeOK, BindInv, BindingServed, Account, Attempting,
       Budgets, redis, request, route, rows, txRows, bounds, vars
  <1>20. ASSUME NEW h \in Handlers, Crash(h)
        PROVE  BindInv'
    BY <1>20 DEF Crash, RollbackTx, Goto, TypeOK, BindInv, BindingServed, Account,
       Attempting, Budgets, redis, request, route, rows, txRows, bounds, vars
  <1>21. ASSUME NextWindow
        PROVE  BindInv'
    BY <1>21 DEF NextWindow, Change, TypeOK, BindInv, BindingServed, Account,
       Attempting, Budgets, redis, request, route, rows, txRows, bounds, vars
  <1>22. ASSUME BindingExpires
        PROVE  BindInv'
    BY <1>22 DEF BindingExpires, TypeOK, BindInv, BindingServed, Account,
       Attempting, Budgets, redis, request, route, rows, txRows, bounds, vars
  <1>23. ASSUME AccountChanges
        PROVE  BindInv'
    BY <1>23 DEF AccountChanges, Change, TypeOK, BindInv, BindingServed, Account,
       Attempting, Budgets, redis, request, route, rows, txRows, bounds, vars
  <1>24. ASSUME AllServed
        PROVE  BindInv'
    BY <1>24 DEF AllServed, TypeOK, BindInv, BindingServed, Account, Attempting,
       Budgets, redis, request, route, rows, txRows, bounds, vars
  <1>25. CASE UNCHANGED vars
    BY <1>25 DEF TypeOK, BindInv, BindingServed, Account, Attempting, Budgets,
       redis, request, route, rows, txRows, bounds, vars
  <1> QED
    BY <1>1, <1>2, <1>3, <1>4, <1>5, <1>6, <1>7, <1>8, <1>9, <1>10, <1>11, <1>12,
       <1>13, <1>14, <1>15, <1>16, <1>17, <1>18, <1>19, <1>20, <1>21, <1>22, <1>23,
       <1>24, <1>25, <1>26 DEF Next, Handle

(* Every step keeps each handler's rows in step with its stage. *)
LEMMA AnswerStep ==
    ASSUME TypeOK, AnswerInv, [Next]_vars
    PROVE  AnswerInv'
  <1>1. ASSUME NEW h \in Handlers, Open(h)
        PROVE  AnswerInv'
    BY <1>1 DEF Open, Goto, TypeOK, AnswerInv, AnswerTraced, Answering, Account,
       Outcomes, redis, request, route, rows, txRows, bounds, vars
  <1>2. ASSUME NEW h \in Handlers, EnforceTokenLimit(h)
        PROVE  AnswerInv'
    BY <1>2 DEF EnforceTokenLimit, Goto, Fail, FailTx, TypeOK, AnswerInv,
       AnswerTraced, Answering, Account, Outcomes, redis, request, route, rows,
       txRows, bounds, vars
  <1>3. ASSUME NEW h \in Handlers, NoChain(h)
        PROVE  AnswerInv'
    BY <1>3 DEF NoChain, Goto, Fail, FailTx, TypeOK, AnswerInv, AnswerTraced,
       Answering, Account, Outcomes, redis, request, route, rows, txRows, bounds,
       vars
  <1>4. ASSUME NEW h \in Handlers, SnapshotStates(h)
        PROVE  AnswerInv'
    BY <1>4 DEF SnapshotStates, Goto, TypeOK, AnswerInv, AnswerTraced, Answering,
       Account, Outcomes, redis, request, route, rows, txRows, bounds, vars
  <1>5. ASSUME NEW h \in Handlers, OrderAttempts(h)
        PROVE  AnswerInv'
    BY <1>5 DEF OrderAttempts, Attempt, UnderLimit, Preference, Goto, Fail, FailTx,
       TypeOK, AnswerInv, AnswerTraced, Answering, Account, Outcomes, redis,
       request, route, rows, txRows, bounds, vars
  <1>6. ASSUME NEW h \in Handlers, Acquire(h)
        PROVE  AnswerInv'
    BY <1>6, AttemptFailsTyped DEF Acquire, Goto, TypeOK, AnswerInv, AnswerTraced,
       Answering, Account, Outcomes, Errors, redis, request, route, rows, txRows,
       bounds, vars
  <1>7. ASSUME NEW h \in Handlers, CallSucceeds(h)
        PROVE  AnswerInv'
    BY <1>7 DEF CallSucceeds, Goto, TypeOK, AnswerInv, AnswerTraced, Answering,
       Account, Outcomes, redis, request, route, rows, txRows, bounds, vars
  <1>8. ASSUME NEW h \in Handlers, CallFails(h)
        PROVE  AnswerInv'
    BY <1>8, AttemptFailsTyped DEF CallFails, TypeOK, AnswerInv, AnswerTraced,
       Answering, Account, Outcomes, Errors, redis, request, route, rows, txRows,
       bounds, vars
  <1>9. ASSUME NEW h \in Handlers, StreamEnds(h)
        PROVE  AnswerInv'
    BY <1>9 DEF StreamEnds, Goto, TypeOK, AnswerInv, AnswerTraced, Answering,
       Account, Outcomes, redis, request, route, rows, txRows, bounds, vars
  <1>10. ASSUME NEW h \in Handlers, StreamFails(h)
        PROVE  AnswerInv'
    BY <1>10 DEF StreamFails, Goto, FailTx, TypeOK, AnswerInv, AnswerTraced,
       Answering, Account, Outcomes, redis, request, route, rows, txRows, bounds,
       vars
  <1>11. ASSUME NEW h \in Handlers, ClientDisconnects(h)
        PROVE  AnswerInv'
    BY <1>11 DEF ClientDisconnects, Goto, TypeOK, AnswerInv, AnswerTraced,
       Answering, Account, Outcomes, redis, request, route, rows, txRows, bounds,
       vars
  <1>12. ASSUME NEW h \in Handlers, RecordUsage(h)
        PROVE  AnswerInv'
    BY <1>12 DEF RecordUsage, Goto, TypeOK, AnswerInv, AnswerTraced, Answering,
       Account, Outcomes, redis, request, route, rows, txRows, bounds, vars
  <1>13. ASSUME NEW h \in Handlers, RejectUsage(h)
        PROVE  AnswerInv'
    BY <1>13 DEF RejectUsage, Goto, Fail, FailTx, TypeOK, AnswerInv, AnswerTraced,
       Answering, Account, Outcomes, redis, request, route, rows, txRows, bounds,
       vars
  <1>14. ASSUME NEW h \in Handlers, IncrementCounters(h)
        PROVE  AnswerInv'
    BY <1>14 DEF IncrementCounters, Goto, TypeOK, AnswerInv, AnswerTraced,
       Answering, Account, Outcomes, redis, request, route, rows, txRows, bounds,
       vars
  <1>15. ASSUME NEW h \in Handlers, RecordSessionBinding(h)
        PROVE  AnswerInv'
    BY <1>15 DEF RecordSessionBinding, Goto, TypeOK, AnswerInv, AnswerTraced,
       Answering, Account, Outcomes, redis, request, route, rows, txRows, bounds,
       vars
  <1>16. ASSUME NEW h \in Handlers, FinalizeTrace(h)
        PROVE  AnswerInv'
    BY <1>16 DEF FinalizeTrace, Goto, TypeOK, AnswerInv, AnswerTraced, Answering,
       Account, Outcomes, redis, request, route, rows, txRows, bounds, vars
  <1>17. ASSUME NEW h \in Handlers, Commit(h)
        PROVE  AnswerInv'
    <2>1. /\ pc[h] = "commit" /\ pc' = [pc EXCEPT ![h] = IF txTrace[h] = "open" THEN "stream" ELSE "reply"]
          /\ trace' = [trace EXCEPT ![h] = txTrace[h]]
          /\ usage' = [usage EXCEPT ![h] = txUsage[h]]
          /\ UNCHANGED <<txTrace, txUsage, mode, node, answer, faults>>
      BY <1>17 DEF Commit, CommitTx, Goto, txRows, request, route, bounds
    <2>2. \A g \in Handlers \ {h} :
              /\ pc'[g] = pc[g] /\ trace'[g] = trace[g] /\ usage'[g] = usage[g]
              /\ Account(g)' = Account(g)
      BY <2>1 DEF Account
    <2>3. Account(h)' = Account(h)
      BY <2>1 DEF Account
    <2>4. Answering(h)
      BY DEF AnswerInv
    <2>5. /\ trace'[h] = txTrace[h] /\ usage'[h] = txUsage[h]
          /\ pc'[h] = IF txTrace[h] = "open" THEN "stream" ELSE "reply"
      BY <2>1 DEF TypeOK
    <2>6. Answering(h)'
      <3>1. /\ txTrace[h] \in Outcomes \cup {"open"}
            /\ mode[h] = "chat" => txTrace[h] # "open"
            /\ txUsage[h] = IF txTrace[h] = "success" THEN Account(h) ELSE Nobody
            /\ mode[h] = "chat" => answer[h] = "none"
        BY <2>1, <2>4 DEF Answering
      <3>2. CASE txTrace[h] = "open"
        <4>1. txUsage[h] = Nobody /\ mode[h] # "chat" /\ pc'[h] = "stream"
          BY <2>5, <3>1, <3>2
        <4> QED
          BY <2>1, <2>5, <3>2, <4>1 DEF Answering
      <3>3. CASE txTrace[h] # "open"
        <4>1. pc'[h] = "reply" /\ txTrace'[h] = trace'[h] /\ trace'[h] \in Outcomes
          BY <2>1, <2>5, <3>1, <3>3
        <4>2. /\ mode[h] \in {"chat", "stream"}
              /\ usage'[h] = IF trace'[h] = "success" THEN Account(h)' ELSE Nobody
          BY <2>3, <2>5, <3>1 DEF TypeOK
        <4>3. mode'[h] = mode[h] /\ answer'[h] = answer[h]
          BY <2>1
        <4> QED
          BY <3>1, <4>1, <4>2, <4>3 DEF Answering
      <3> QED
        BY <3>2, <3>3
    <2>7. \A g \in Handlers \ {h} : Answering(g)'
      BY <2>1, <2>2 DEF Answering, AnswerInv
    <2>8. AnswerTraced'
      BY <2>1, <2>2, <2>5 DEF AnswerTraced, AnswerInv
    <2> QED
      BY <2>6, <2>7, <2>8 DEF AnswerInv
  <1>18. ASSUME NEW h \in Handlers, Drop(h)
        PROVE  AnswerInv'
    BY <1>18 DEF Drop, RollbackTx, Goto, TypeOK, AnswerInv, AnswerTraced, Answering,
       Account, Outcomes, redis, request, route, rows, txRows, bounds, vars
  <1>26. ASSUME NEW h \in Handlers, Reply(h)
        PROVE  AnswerInv'
    BY <1>26 DEF Reply, Goto, TypeOK, AnswerInv, AnswerTraced, Answering,
       Account, Outcomes, redis, request, route, rows, txRows, bounds, vars
  <1>19. ASSUME NEW h \in Handlers, Return(h)
        PROVE  AnswerInv'
    BY <1>19 DEF Return, Goto, TypeOK, AnswerInv, AnswerTraced, Answering, Account,
       Outcomes, redis, request, route, rows, txRows, bounds, vars
  <1>20. ASSUME NEW h \in Handlers, Crash(h)
        PROVE  AnswerInv'
    <2>1. faults' = faults + 1 /\ faults \in Nat
      BY <1>20 DEF Crash, TypeOK
    <2> QED
      BY <1>20, <2>1 DEF Crash, RollbackTx, Goto, TypeOK, AnswerInv, AnswerTraced,
         Answering, Account, Outcomes, redis, request, route, rows, txRows, bounds,
         vars
  <1>21. ASSUME NextWindow
        PROVE  AnswerInv'
    BY <1>21 DEF NextWindow, Change, TypeOK, AnswerInv, AnswerTraced, Answering,
       Account, Outcomes, redis, request, route, rows, txRows, bounds, vars
  <1>22. ASSUME BindingExpires
        PROVE  AnswerInv'
    BY <1>22 DEF BindingExpires, TypeOK, AnswerInv, AnswerTraced, Answering,
       Account, Outcomes, redis, request, route, rows, txRows, bounds, vars
  <1>23. ASSUME AccountChanges
        PROVE  AnswerInv'
    BY <1>23 DEF AccountChanges, Change, TypeOK, AnswerInv, AnswerTraced, Answering,
       Account, Outcomes, redis, request, route, rows, txRows, bounds, vars
  <1>24. ASSUME AllServed
        PROVE  AnswerInv'
    BY <1>24 DEF AllServed, TypeOK, AnswerInv, AnswerTraced, Answering, Account,
       Outcomes, redis, request, route, rows, txRows, bounds, vars
  <1>25. CASE UNCHANGED vars
    BY <1>25 DEF TypeOK, AnswerInv, AnswerTraced, Answering, Account, Outcomes,
       redis, request, route, rows, txRows, bounds, vars
  <1> QED
    BY <1>1, <1>2, <1>3, <1>4, <1>5, <1>6, <1>7, <1>8, <1>9, <1>10, <1>11, <1>12,
       <1>13, <1>14, <1>15, <1>16, <1>17, <1>18, <1>19, <1>20, <1>21, <1>22, <1>23,
       <1>24, <1>25, <1>26 DEF Next, Handle

(* Only a failed attempt can end a request as all_fallbacks_failed. *)
LEMMA FallbackStep ==
    ASSUME TypeOK, AnswerInv, FallbackExhausted, [Next]_vars
    PROVE  FallbackExhausted'
  <1>1. ASSUME NEW h \in Handlers, Open(h)
        PROVE  FallbackExhausted'
    BY <1>1 DEF Open, Goto, TypeOK, AnswerInv, Answering, FallbackExhausted, redis,
       request, route, rows, txRows, bounds, vars
  <1>2. ASSUME NEW h \in Handlers, EnforceTokenLimit(h)
        PROVE  FallbackExhausted'
    BY <1>2 DEF EnforceTokenLimit, Goto, Fail, FailTx, TypeOK, AnswerInv, Answering,
       FallbackExhausted, redis, request, route, rows, txRows, bounds, vars
  <1>3. ASSUME NEW h \in Handlers, NoChain(h)
        PROVE  FallbackExhausted'
    BY <1>3 DEF NoChain, Goto, Fail, FailTx, TypeOK, AnswerInv, Answering,
       FallbackExhausted, redis, request, route, rows, txRows, bounds, vars
  <1>4. ASSUME NEW h \in Handlers, SnapshotStates(h)
        PROVE  FallbackExhausted'
    BY <1>4 DEF SnapshotStates, Goto, TypeOK, AnswerInv, Answering,
       FallbackExhausted, redis, request, route, rows, txRows, bounds, vars
  <1>5. ASSUME NEW h \in Handlers, OrderAttempts(h)
        PROVE  FallbackExhausted'
    BY <1>5 DEF OrderAttempts, Attempt, UnderLimit, Preference, Goto, Fail, FailTx,
       TypeOK, AnswerInv, Answering, FallbackExhausted, redis, request, route, rows,
       txRows, bounds, vars
  <1>6. ASSUME NEW h \in Handlers, Acquire(h)
        PROVE  FallbackExhausted'
    BY <1>6, AttemptFailsTyped DEF Acquire, Goto, TypeOK, AnswerInv, Answering,
       FallbackExhausted, Errors, redis, request, route, rows, txRows, bounds, vars
  <1>7. ASSUME NEW h \in Handlers, CallSucceeds(h)
        PROVE  FallbackExhausted'
    BY <1>7 DEF CallSucceeds, Goto, TypeOK, AnswerInv, Answering, FallbackExhausted,
       redis, request, route, rows, txRows, bounds, vars
  <1>8. ASSUME NEW h \in Handlers, CallFails(h)
        PROVE  FallbackExhausted'
    BY <1>8, AttemptFailsTyped DEF CallFails, TypeOK, AnswerInv, Answering,
       FallbackExhausted, Errors, redis, request, route, rows, txRows, bounds, vars
  <1>9. ASSUME NEW h \in Handlers, StreamEnds(h)
        PROVE  FallbackExhausted'
    BY <1>9 DEF StreamEnds, Goto, TypeOK, AnswerInv, Answering, FallbackExhausted,
       redis, request, route, rows, txRows, bounds, vars
  <1>10. ASSUME NEW h \in Handlers, StreamFails(h)
        PROVE  FallbackExhausted'
    BY <1>10 DEF StreamFails, Goto, FailTx, TypeOK, AnswerInv, Answering,
       FallbackExhausted, redis, request, route, rows, txRows, bounds, vars
  <1>11. ASSUME NEW h \in Handlers, ClientDisconnects(h)
        PROVE  FallbackExhausted'
    BY <1>11 DEF ClientDisconnects, Goto, TypeOK, AnswerInv, Answering,
       FallbackExhausted, redis, request, route, rows, txRows, bounds, vars
  <1>12. ASSUME NEW h \in Handlers, RecordUsage(h)
        PROVE  FallbackExhausted'
    BY <1>12 DEF RecordUsage, Goto, TypeOK, AnswerInv, Answering, FallbackExhausted,
       redis, request, route, rows, txRows, bounds, vars
  <1>13. ASSUME NEW h \in Handlers, RejectUsage(h)
        PROVE  FallbackExhausted'
    BY <1>13 DEF RejectUsage, Goto, Fail, FailTx, TypeOK, AnswerInv, Answering,
       FallbackExhausted, redis, request, route, rows, txRows, bounds, vars
  <1>14. ASSUME NEW h \in Handlers, IncrementCounters(h)
        PROVE  FallbackExhausted'
    BY <1>14 DEF IncrementCounters, Goto, TypeOK, AnswerInv, Answering,
       FallbackExhausted, redis, request, route, rows, txRows, bounds, vars
  <1>15. ASSUME NEW h \in Handlers, RecordSessionBinding(h)
        PROVE  FallbackExhausted'
    BY <1>15 DEF RecordSessionBinding, Goto, TypeOK, AnswerInv, Answering,
       FallbackExhausted, redis, request, route, rows, txRows, bounds, vars
  <1>16. ASSUME NEW h \in Handlers, FinalizeTrace(h)
        PROVE  FallbackExhausted'
    BY <1>16 DEF FinalizeTrace, Goto, TypeOK, AnswerInv, Answering,
       FallbackExhausted, redis, request, route, rows, txRows, bounds, vars
  <1>17. ASSUME NEW h \in Handlers, Commit(h)
        PROVE  FallbackExhausted'
    BY <1>17 DEF Commit, CommitTx, Goto, TypeOK, AnswerInv, Answering,
       FallbackExhausted, redis, request, route, rows, txRows, bounds, vars
  <1>18. ASSUME NEW h \in Handlers, Drop(h)
        PROVE  FallbackExhausted'
    BY <1>18 DEF Drop, RollbackTx, Goto, TypeOK, AnswerInv, Answering,
       FallbackExhausted, redis, request, route, rows, txRows, bounds, vars
  <1>26. ASSUME NEW h \in Handlers, Reply(h)
        PROVE  FallbackExhausted'
    BY <1>26 DEF Reply, Goto, TypeOK, AnswerInv, Answering,
       FallbackExhausted, redis, request, route, rows, txRows, bounds, vars
  <1>19. ASSUME NEW h \in Handlers, Return(h)
        PROVE  FallbackExhausted'
    BY <1>19 DEF Return, Goto, TypeOK, AnswerInv, Answering, FallbackExhausted,
       redis, request, route, rows, txRows, bounds, vars
  <1>20. ASSUME NEW h \in Handlers, Crash(h)
        PROVE  FallbackExhausted'
    BY <1>20 DEF Crash, RollbackTx, Goto, TypeOK, AnswerInv, Answering,
       FallbackExhausted, redis, request, route, rows, txRows, bounds, vars
  <1>21. ASSUME NextWindow
        PROVE  FallbackExhausted'
    BY <1>21 DEF NextWindow, Change, TypeOK, AnswerInv, Answering,
       FallbackExhausted, redis, request, route, rows, txRows, bounds, vars
  <1>22. ASSUME BindingExpires
        PROVE  FallbackExhausted'
    BY <1>22 DEF BindingExpires, TypeOK, AnswerInv, Answering, FallbackExhausted,
       redis, request, route, rows, txRows, bounds, vars
  <1>23. ASSUME AccountChanges
        PROVE  FallbackExhausted'
    BY <1>23 DEF AccountChanges, Change, TypeOK, AnswerInv, Answering,
       FallbackExhausted, redis, request, route, rows, txRows, bounds, vars
  <1>24. ASSUME AllServed
        PROVE  FallbackExhausted'
    BY <1>24 DEF AllServed, TypeOK, AnswerInv, Answering, FallbackExhausted, redis,
       request, route, rows, txRows, bounds, vars
  <1>25. CASE UNCHANGED vars
    BY <1>25 DEF TypeOK, AnswerInv, Answering, FallbackExhausted, redis, request,
       route, rows, txRows, bounds, vars
  <1> QED
    BY <1>1, <1>2, <1>3, <1>4, <1>5, <1>6, <1>7, <1>8, <1>9, <1>10, <1>11, <1>12,
       <1>13, <1>14, <1>15, <1>16, <1>17, <1>18, <1>19, <1>20, <1>21, <1>22, <1>23,
       <1>24, <1>25, <1>26 DEF Next, Handle

(* Sets of handlers are finite: the cardinality of a subset, ... *)
LEMMA SubsetSmaller ==
    ASSUME NEW S \in SUBSET Handlers, NEW R \in SUBSET S
    PROVE  /\ Cardinality(R) \in Nat /\ Cardinality(S) \in Nat
           /\ Cardinality(R) <= Cardinality(S)
  BY GatewayAssumption, FS_Subset, FS_CardinalityType

(* ... one more handler. *)
LEMMA OneMore ==
    ASSUME NEW S \in SUBSET Handlers, NEW h \in Handlers, NEW R \in SUBSET (S \cup {h})
    PROVE  /\ Cardinality(R) \in Nat /\ Cardinality(S) \in Nat
           /\ Cardinality(R) <= Cardinality(S) + 1
  <1>1. IsFiniteSet(S) /\ Cardinality(S) \in Nat
    BY GatewayAssumption, FS_Subset, FS_CardinalityType
  <1>2. IsFiniteSet(S \cup {h}) /\ Cardinality(S \cup {h}) \in Nat
        /\ Cardinality(S \cup {h}) <= Cardinality(S) + 1
    BY <1>1, FS_AddElement
  <1>3. Cardinality(R) \in Nat /\ Cardinality(R) <= Cardinality(S \cup {h})
    BY <1>2, FS_Subset, FS_CardinalityType
  <1> QED
    BY <1>1, <1>2, <1>3

(* ... one handler fewer. *)
LEMMA OneLess ==
    ASSUME NEW S \in SUBSET Handlers, NEW h \in S, NEW R \in SUBSET (S \ {h})
    PROVE  /\ Cardinality(R) \in Nat /\ Cardinality(S) \in Nat
           /\ Cardinality(R) + 1 <= Cardinality(S)
  <1>1. IsFiniteSet(S) /\ Cardinality(S) \in Nat
    BY GatewayAssumption, FS_Subset, FS_CardinalityType
  <1>2. IsFiniteSet(S \ {h}) /\ Cardinality(S \ {h}) = Cardinality(S) - 1
    BY <1>1, FS_RemoveElement
  <1>3. Cardinality(R) \in Nat /\ Cardinality(R) <= Cardinality(S \ {h})
    BY <1>2, FS_Subset, FS_CardinalityType
  <1> QED
    BY <1>1, <1>2, <1>3

(* A step that counts and commits nothing and adds nobody to the pending. *)
LEMMA CoverKept ==
    ASSUME TypeOK, CoverInv, counter' = counter, ledger' = ledger,
           \A b \in Budgets : Pending(b)' \subseteq Pending(b)
    PROVE  CoverInv'
  <1>1. SUFFICES ASSUME NEW b \in Budgets
                 PROVE  ledger'[b] + Cardinality(Pending(b)') <= counter'[b]
    BY DEF CoverInv
  <1>2. Pending(b) \in SUBSET Handlers
    BY DEF Pending
  <1>3. /\ Cardinality(Pending(b)') \in Nat /\ Cardinality(Pending(b)) \in Nat
        /\ Cardinality(Pending(b)') <= Cardinality(Pending(b))
    BY <1>2, SubsetSmaller
  <1>4. ledger[b] \in Nat /\ counter[b] \in Nat
    BY DEF TypeOK
  <1> QED
    BY <1>3, <1>4 DEF CoverInv

(* Counting adds a pending handler, committing removes one. *)
LEMMA CoverStep ==
    ASSUME TypeOK, AnswerInv, CoverInv, [Next]_vars
    PROVE  CoverInv'
  <1>1. ASSUME NEW h \in Handlers, Open(h)
        PROVE  CoverInv'
    <2>1. \A b \in Budgets : Pending(b)' \subseteq Pending(b)
      BY <1>1 DEF Open, Goto, Pending, TypeOK, AnswerInv, Answering, Account,
         Outcomes, redis, request, route, rows, txRows, bounds, vars
    <2> QED
      BY <1>1, <2>1, CoverKept DEF Open, redis, rows, vars
  <1>2. ASSUME NEW h \in Handlers, EnforceTokenLimit(h)
        PROVE  CoverInv'
    <2>1. \A b \in Budgets : Pending(b)' \subseteq Pending(b)
      BY <1>2 DEF EnforceTokenLimit, Goto, Fail, FailTx, Pending, TypeOK, AnswerInv,
         Answering, Account, Outcomes, redis, request, route, rows, txRows, bounds,
         vars
    <2> QED
      BY <1>2, <2>1, CoverKept DEF EnforceTokenLimit, redis, rows, vars
  <1>3. ASSUME NEW h \in Handlers, NoChain(h)
        PROVE  CoverInv'
    <2>1. \A b \in Budgets : Pending(b)' \subseteq Pending(b)
      BY <1>3 DEF NoChain, Goto, Fail, FailTx, Pending, TypeOK, AnswerInv, Answering,
         Account, Outcomes, redis, request, route, rows, txRows, bounds, vars
    <2> QED
      BY <1>3, <2>1, CoverKept DEF NoChain, redis, rows, vars
  <1>4. ASSUME NEW h \in Handlers, SnapshotStates(h)
        PROVE  CoverInv'
    <2>1. \A b \in Budgets : Pending(b)' \subseteq Pending(b)
      BY <1>4 DEF SnapshotStates, Goto, Pending, TypeOK, AnswerInv, Answering,
         Account, Outcomes, redis, request, route, rows, txRows, bounds, vars
    <2> QED
      BY <1>4, <2>1, CoverKept DEF SnapshotStates, redis, rows, vars
  <1>5. ASSUME NEW h \in Handlers, OrderAttempts(h)
        PROVE  CoverInv'
    <2>1. \A b \in Budgets : Pending(b)' \subseteq Pending(b)
      BY <1>5 DEF OrderAttempts, Attempt, UnderLimit, Preference, Goto, Fail, FailTx,
         Pending, TypeOK, AnswerInv, Answering, Account, Outcomes, redis, request,
         route, rows, txRows, bounds, vars
    <2> QED
      BY <1>5, <2>1, CoverKept DEF OrderAttempts, redis, rows, vars
  <1>6. ASSUME NEW h \in Handlers, Acquire(h)
        PROVE  CoverInv'
    <2>1. \A b \in Budgets : Pending(b)' \subseteq Pending(b)
      BY <1>6, AttemptFailsTyped DEF Acquire, Goto, Pending, TypeOK, AnswerInv,
         Answering, Errors, redis, request, route, rows, txRows, bounds, vars
    <2> QED
      BY <1>6, <2>1, CoverKept DEF Acquire, redis, rows, vars
  <1>7. ASSUME NEW h \in Handlers, CallSucceeds(h)
        PROVE  CoverInv'
    <2>1. \A b \in Budgets : Pending(b)' \subseteq Pending(b)
      BY <1>7 DEF CallSucceeds, Goto, Pending, TypeOK, AnswerInv, Answering, Account,
         Outcomes, redis, request, route, rows, txRows, bounds, vars
    <2> QED
      BY <1>7, <2>1, CoverKept DEF CallSucceeds, redis, rows, vars
  <1>8. ASSUME NEW h \in Handlers, CallFails(h)
        PROVE  CoverInv'
    <2>1. \A b \in Budgets : Pending(b)' \subseteq Pending(b)
      BY <1>8, AttemptFailsTyped DEF CallFails, Pending, TypeOK, AnswerInv, Answering,
         Errors, Outcomes, redis, request, route, rows, txRows, bounds, vars
    <2> QED
      BY <1>8, <2>1, CoverKept DEF CallFails, redis, rows, vars
  <1>9. ASSUME NEW h \in Handlers, StreamEnds(h)
        PROVE  CoverInv'
    <2>1. \A b \in Budgets : Pending(b)' \subseteq Pending(b)
      BY <1>9 DEF StreamEnds, Goto, Pending, TypeOK, AnswerInv, Answering, Account,
         Outcomes, redis, request, route, rows, txRows, bounds, vars
    <2> QED
      BY <1>9, <2>1, CoverKept DEF StreamEnds, redis, rows, vars
  <1>10. ASSUME NEW h \in Handlers, StreamFails(h)
        PROVE  CoverInv'
    <2>1. \A b \in Budgets : Pending(b)' \subseteq Pending(b)
      BY <1>10 DEF StreamFails, Goto, FailTx, Pending, TypeOK, AnswerInv, Answering,
         Account, Outcomes, redis, request, route, rows, txRows, bounds, vars
    <2> QED
      BY <1>10, <2>1, CoverKept DEF StreamFails, redis, rows, vars
  <1>11. ASSUME NEW h \in Handlers, ClientDisconnects(h)
        PROVE  CoverInv'
    <2>1. \A b \in Budgets : Pending(b)' \subseteq Pending(b)
      BY <1>11 DEF ClientDisconnects, Goto, Pending, TypeOK, AnswerInv, Answering,
         Account, Outcomes, redis, request, route, rows, txRows, bounds, vars
    <2> QED
      BY <1>11, <2>1, CoverKept DEF ClientDisconnects, redis, rows, vars
  <1>12. ASSUME NEW h \in Handlers, RecordUsage(h)
        PROVE  CoverInv'
    <2>1. \A b \in Budgets : Pending(b)' \subseteq Pending(b)
      BY <1>12 DEF RecordUsage, Goto, Pending, TypeOK, AnswerInv, Answering, Account,
         Outcomes, redis, request, route, rows, txRows, bounds, vars
    <2> QED
      BY <1>12, <2>1, CoverKept DEF RecordUsage, redis, rows, vars
  <1>13. ASSUME NEW h \in Handlers, RejectUsage(h)
        PROVE  CoverInv'
    <2>1. \A b \in Budgets : Pending(b)' \subseteq Pending(b)
      BY <1>13 DEF RejectUsage, Goto, Fail, FailTx, Pending, TypeOK, AnswerInv,
         Answering, Account, Outcomes, redis, request, route, rows, txRows, bounds,
         vars
    <2> QED
      BY <1>13, <2>1, CoverKept DEF RejectUsage, redis, rows, vars
  <1>14. ASSUME NEW h \in Handlers, IncrementCounters(h)
        PROVE  CoverInv'
    <2>1. /\ start[h] \in Windows /\ Account(h) \in Accounts /\ Account(h) # Nobody
          /\ txUsage[h] = Account(h) /\ ledger' = ledger
      BY <1>14, ChainTyped, GatewayAssumption
      DEF IncrementCounters, TypeOK, Attempting, Account, AnswerInv, Answering, Subjects, rows
    <2>2. SUFFICES ASSUME NEW b \in Budgets
                   PROVE  ledger'[b] + Cardinality(Pending(b)') <= counter'[b]
      BY DEF CoverInv
    <2>3. Pending(b) \in SUBSET Handlers
      BY DEF Pending
    <2>4. ledger[b] \in Nat /\ counter[b] \in Nat /\ ledger[b] + Cardinality(Pending(b)) <= counter[b]
      BY DEF TypeOK, CoverInv
    <2>5. CASE b \in Counted(h)
      <3>1. Pending(b)' \in SUBSET (Pending(b) \cup {h}) /\ counter'[b] = counter[b] + 1
        BY <1>14, <2>5 DEF IncrementCounters, Goto, Pending, TypeOK, request, txRows
      <3> QED
        BY <2>1, <2>3, <2>4, <3>1, OneMore
    <2>6. CASE b \notin Counted(h)
      <3>1. Pending(b)' \in SUBSET Pending(b) /\ counter'[b] = counter[b]
        BY <1>14, <2>1, <2>6 DEF IncrementCounters, Goto, Pending, Counted, TypeOK, request, txRows
      <3> QED
        BY <2>1, <2>3, <2>4, <3>1, SubsetSmaller
    <2> QED
      BY <2>5, <2>6
  <1>15. ASSUME NEW h \in Handlers, RecordSessionBinding(h)
        PROVE  CoverInv'
    <2>1. \A b \in Budgets : Pending(b)' \subseteq Pending(b)
      BY <1>15 DEF RecordSessionBinding, Goto, Pending, TypeOK, AnswerInv, Answering,
         Account, Outcomes, redis, request, route, rows, txRows, bounds, vars
    <2> QED
      BY <1>15, <2>1, CoverKept DEF RecordSessionBinding, redis, rows, vars
  <1>16. ASSUME NEW h \in Handlers, FinalizeTrace(h)
        PROVE  CoverInv'
    <2>1. \A b \in Budgets : Pending(b)' \subseteq Pending(b)
      BY <1>16 DEF FinalizeTrace, Goto, Pending, TypeOK, AnswerInv, Answering, Account,
         Outcomes, redis, request, route, rows, txRows, bounds, vars
    <2> QED
      BY <1>16, <2>1, CoverKept DEF FinalizeTrace, redis, rows, vars
  <1>17. ASSUME NEW h \in Handlers, Commit(h)
        PROVE  CoverInv'
    <2>1. SUFFICES ASSUME NEW b \in Budgets
                   PROVE  ledger'[b] + Cardinality(Pending(b)') <= counter'[b]
      BY DEF CoverInv
    <2>2. Pending(b) \in SUBSET Handlers
      BY DEF Pending
    <2>3. /\ ledger[b] \in Nat /\ counter[b] \in Nat /\ counter' = counter
          /\ ledger[b] + Cardinality(Pending(b)) <= counter[b]
      BY <1>17 DEF Commit, TypeOK, CoverInv, redis
    <2>4. usage[h] = Nobody /\ pc[h] = "commit"
      BY <1>17 DEF Commit, AnswerInv, Answering
    <2>5. Pending(b)' \in SUBSET (Pending(b) \ {h})
      BY <1>17 DEF Commit, CommitTx, Goto, Pending, TypeOK, request, txRows
    <2>6. CASE txUsage[h] # Nobody /\ b \in {start[h]} \X {Token, txUsage[h]}
      <3>1. h \in Pending(b) /\ ledger'[b] = ledger[b] + 1
        BY <1>17, <2>4, <2>6 DEF Commit, CommitTx, Pending
      <3> QED
        BY <2>2, <2>3, <2>5, <3>1, OneLess
    <2>7. CASE ~(txUsage[h] # Nobody /\ b \in {start[h]} \X {Token, txUsage[h]})
      <3>1. ledger'[b] = ledger[b]
        BY <1>17, <2>4, <2>7 DEF Commit, CommitTx
      <3>2. Pending(b)' \in SUBSET Pending(b)
        BY <2>5
      <3> QED
        BY <2>2, <2>3, <3>1, <3>2, SubsetSmaller
    <2> QED
      BY <2>6, <2>7
  <1>18. ASSUME NEW h \in Handlers, Drop(h)
        PROVE  CoverInv'
    <2>1. \A b \in Budgets : Pending(b)' \subseteq Pending(b)
      BY <1>18 DEF Drop, RollbackTx, Goto, Pending, TypeOK, AnswerInv, Answering,
         Account, Outcomes, redis, request, route, rows, txRows, bounds, vars
    <2> QED
      BY <1>18, <2>1, CoverKept DEF Drop, redis, rows, vars, RollbackTx
  <1>26. ASSUME NEW h \in Handlers, Reply(h)
        PROVE  CoverInv'
    <2>1. \A b \in Budgets : Pending(b)' \subseteq Pending(b)
      BY <1>26 DEF Reply, Goto, Pending, TypeOK, AnswerInv, Answering,
         Account, Outcomes, redis, request, route, rows, txRows, bounds, vars
    <2> QED
      BY <1>26, <2>1, CoverKept DEF Reply, redis, rows, vars
  <1>19. ASSUME NEW h \in Handlers, Return(h)
        PROVE  CoverInv'
    <2>1. \A b \in Budgets : Pending(b)' \subseteq Pending(b)
      BY <1>19 DEF Return, Goto, Pending, TypeOK, AnswerInv, Answering, Account,
         Outcomes, redis, request, route, rows, txRows, bounds, vars
    <2> QED
      BY <1>19, <2>1, CoverKept DEF Return, redis, rows, vars
  <1>20. ASSUME NEW h \in Handlers, Crash(h)
        PROVE  CoverInv'
    <2>1. \A b \in Budgets : Pending(b)' \subseteq Pending(b)
      BY <1>20 DEF Crash, RollbackTx, Goto, Pending, TypeOK, AnswerInv, Answering,
         Account, Outcomes, redis, request, route, rows, txRows, bounds, vars
    <2> QED
      BY <1>20, <2>1, CoverKept DEF Crash, redis, rows, vars, RollbackTx
  <1>21. ASSUME NextWindow
        PROVE  CoverInv'
    <2>1. \A b \in Budgets : Pending(b)' \subseteq Pending(b)
      BY <1>21 DEF NextWindow, Change, Pending, TypeOK, AnswerInv, Answering, Account,
         Outcomes, redis, request, route, rows, txRows, bounds, vars
    <2> QED
      BY <1>21, <2>1, CoverKept DEF NextWindow, redis, rows, vars
  <1>22. ASSUME BindingExpires
        PROVE  CoverInv'
    <2>1. \A b \in Budgets : Pending(b)' \subseteq Pending(b)
      BY <1>22 DEF BindingExpires, Pending, TypeOK, AnswerInv, Answering, Account,
         Outcomes, redis, request, route, rows, txRows, bounds, vars
    <2> QED
      BY <1>22, <2>1, CoverKept DEF BindingExpires, redis, rows, vars
  <1>23. ASSUME AccountChanges
        PROVE  CoverInv'
    <2>1. \A b \in Budgets : Pending(b)' \subseteq Pending(b)
      BY <1>23 DEF AccountChanges, Change, Pending, TypeOK, AnswerInv, Answering,
         Account, Outcomes, redis, request, route, rows, txRows, bounds, vars
    <2> QED
      BY <1>23, <2>1, CoverKept DEF AccountChanges, redis, rows, vars
  <1>24. ASSUME AllServed
        PROVE  CoverInv'
    <2>1. \A b \in Budgets : Pending(b)' \subseteq Pending(b)
      BY <1>24 DEF AllServed, Pending, TypeOK, AnswerInv, Answering, Account, Outcomes,
         redis, request, route, rows, txRows, bounds, vars
    <2> QED
      BY <1>24, <2>1, CoverKept DEF AllServed, redis, rows, vars
  <1>25. CASE UNCHANGED vars
    <2>1. \A b \in Budgets : Pending(b)' \subseteq Pending(b)
      BY <1>25 DEF Pending, vars, request, txRows
    <2> QED
      BY <1>25, <2>1, CoverKept DEF vars, redis, rows
  <1> QED
    BY <1>1, <1>2, <1>3, <1>4, <1>5, <1>6, <1>7, <1>8, <1>9, <1>10, <1>11, <1>12,
       <1>13, <1>14, <1>15, <1>16, <1>17, <1>18, <1>19, <1>20, <1>21, <1>22, <1>23,
       <1>24, <1>25, <1>26 DEF Next, Handle

--------------------------------------------------------------------------------
(* Refinement: what handler h may still count, as budgets of Admission. *)
Claims(h) == ({start[h]} \X Claimed(h)) \cap Limited

OthersKept(h) ==
    \A g \in Handlers \ {h} :
        /\ pc'[g] = pc[g] /\ start'[g] = start[g] /\ left'[g] = left[g]
        /\ node'[g] = node[g] /\ txTrace'[g] = txTrace[g]

(* A limit that is not reached leaves room for a request. *)
LEMMA NotReached ==
    ASSUME TypeOK, NEW w, NEW s, <<w, s>> \in Limited, ~Reached(s, w)
    PROVE  counter[<<w, s>>] < Limits[s]
  <1>1. <<w, s>> \in Budgets /\ s \in DOMAIN Limits
    BY GatewayAssumption DEF Limited, Budgets
  <1>2. counter[<<w, s>>] \in Nat /\ Limits[s] \in Nat
    BY <1>1, GatewayAssumption DEF TypeOK
  <1> QED
    BY <1>1, <1>2 DEF Reached

(* What a handler claims, by its stage, before and after a step. *)
LEMMA ClaimedCases ==
    ASSUME NEW h \in Handlers
    PROVE  /\ pc[h] \in {"route", "order"} => Claimed(h) = {Token}
           /\ Attempting(h) => Claimed(h) = {Token} \cup {Chain[n] : n \in left[h] \cup {node[h]}}
           /\ pc[h] \notin {"route", "order"} /\ ~Attempting(h) => Claimed(h) = {}
           /\ pc'[h] \in {"route", "order"} => Claimed(h)' = {Token}
           /\ Attempting(h)' =>
                Claimed(h)' = {Token} \cup {Chain[n] : n \in left'[h] \cup {node'[h]}}
           /\ pc'[h] \notin {"route", "order"} /\ ~Attempting(h)' => Claimed(h)' = {}
  BY DEF Claimed, Attempting

(* A handler that does not move keeps its claims. *)
LEMMA OthersClaims ==
    ASSUME NEW h \in Handlers, OthersKept(h), NEW g \in Handlers \ {h}
    PROVE  Claims(g)' = Claims(g)
  BY DEF OthersKept, Claims, Claimed, Attempting

(* The three steps of Admission, and a step that changes nothing of it: *)
(* an attempt or a request that will not be recorded gives up claims.   *)
LEMMA AsGiveUp ==
    ASSUME NEW h \in Handlers, counter' = counter, OthersKept(h), Claims(h)' \subseteq Claims(h)
    PROVE  [AdmissionControl!Next]_(AdmissionControl!admission)
  <1>1. PICK B \in SUBSET Limited : B = Claims(h) \ Claims(h)'
    BY DEF Claims
  <1>2. AdmissionControl!GiveUp(h, B)
    BY <1>1, OthersClaims DEF AdmissionControl!GiveUp, Claims
  <1> QED
    BY <1>2 DEF AdmissionControl!Next

(* A check that finds budgets under their limits. *)
LEMMA AsClear ==
    ASSUME NEW h \in Handlers, counter' = counter, OthersKept(h), NEW B \in SUBSET Limited,
           Claims(h)' = Claims(h) \cup B,
           \A b \in B : counter[b] < Limits[b[2]]
    PROVE  [AdmissionControl!Next]_(AdmissionControl!admission)
  <1>1. AdmissionControl!Clear(h, B)
    BY OthersClaims DEF AdmissionControl!Clear, Claims
  <1> QED
    BY <1>1 DEF AdmissionControl!Next

(* The counters' increment. *)
LEMMA AsRecord ==
    ASSUME NEW h \in Handlers, OthersKept(h), NEW B \in SUBSET Limited, B \subseteq Claims(h),
           \A b \in Limited : counter'[b] = IF b \in B THEN counter[b] + 1 ELSE counter[b],
           Claims(h)' = {}
    PROVE  [AdmissionControl!Next]_(AdmissionControl!admission)
  <1>1. AdmissionControl!Record(h, B)
    BY OthersClaims DEF AdmissionControl!Record, Claims
  <1> QED
    BY <1>1 DEF AdmissionControl!Next

(* Nothing of Admission changes. *)
LEMMA AsStutter ==
    ASSUME UNCHANGED <<counter, pc, start, left, node, txTrace>>
    PROVE  [AdmissionControl!Next]_(AdmissionControl!admission)
  BY DEF AdmissionControl!admission, Claimed, Attempting

(* Every step of the pipeline is a step of Admission, or none of it. *)
LEMMA RefinementStep ==
    ASSUME TypeOK, [Next]_vars
    PROVE  [AdmissionControl!Next]_(AdmissionControl!admission)
  <1>1. ASSUME NEW h \in Handlers, Open(h)
        PROVE  [AdmissionControl!Next]_(AdmissionControl!admission)
    <2>1. counter' = counter /\ OthersKept(h)
      BY <1>1 DEF Open, Goto, TypeOK, OthersKept, redis, request, route, rows, txRows,
         bounds, vars
    <2>2. Claims(h)' \subseteq Claims(h)
      BY <1>1, ClaimedCases DEF Open, Goto, TypeOK, Claims, Attempting, redis,
         request, route, rows, txRows, bounds, vars
    <2> QED
      BY <2>1, <2>2, AsGiveUp
  <1>2. ASSUME NEW h \in Handlers, EnforceTokenLimit(h)
        PROVE  [AdmissionControl!Next]_(AdmissionControl!admission)
    <2>1. counter' = counter /\ OthersKept(h)
      BY <1>2 DEF EnforceTokenLimit, Goto, Fail, FailTx, TypeOK, OthersKept, redis, request, route, txRows
    <2>2. Claims(h) = {}
      BY <1>2, ClaimedCases DEF EnforceTokenLimit, Claims, Attempting
    <2>3. CASE ~Reached(Token, start[h]) /\ Goto(h, "route") /\ UNCHANGED txRows
      <3> DEFINE B == ({start[h]} \X {Token}) \cap Limited
      <3>1. Claims(h)' = Claims(h) \cup B
        BY <1>2, <2>2, <2>3, ClaimedCases DEF EnforceTokenLimit, Goto, Claims, TypeOK, request, Limited
      <3>2. \A b \in B : counter[b] < Limits[b[2]]
        BY <2>3, NotReached
      <3> QED
        BY <2>1, <3>1, <3>2, AsClear
    <2>4. CASE Fail(h, "client_error")
      <3>1. Claims(h)' = {}
        BY <2>4, ClaimedCases DEF Fail, FailTx, Goto, Claims, TypeOK, Attempting
      <3> QED
        BY <2>1, <2>2, <3>1, AsGiveUp
    <2> QED
      BY <1>2, <2>3, <2>4 DEF EnforceTokenLimit
  <1>3. ASSUME NEW h \in Handlers, NoChain(h)
        PROVE  [AdmissionControl!Next]_(AdmissionControl!admission)
    <2>1. counter' = counter /\ OthersKept(h)
      BY <1>3 DEF NoChain, Goto, Fail, FailTx, TypeOK, OthersKept, redis, request,
         route, rows, txRows, bounds, vars
    <2>2. Claims(h)' \subseteq Claims(h)
      BY <1>3, ClaimedCases DEF NoChain, Goto, Fail, FailTx, TypeOK, Claims,
         Attempting, redis, request, route, rows, txRows, bounds, vars
    <2> QED
      BY <2>1, <2>2, AsGiveUp
  <1>4. ASSUME NEW h \in Handlers, SnapshotStates(h)
        PROVE  [AdmissionControl!Next]_(AdmissionControl!admission)
    <2>1. counter' = counter /\ OthersKept(h)
      BY <1>4 DEF SnapshotStates, Goto, TypeOK, OthersKept, redis, request, route,
         rows, txRows, bounds, vars
    <2>2. Claims(h)' \subseteq Claims(h)
      BY <1>4, ClaimedCases DEF SnapshotStates, Goto, TypeOK, Claims, Attempting,
         redis, request, route, rows, txRows, bounds, vars
    <2> QED
      BY <2>1, <2>2, AsGiveUp
  <1>5. ASSUME NEW h \in Handlers, OrderAttempts(h)
        PROVE  [AdmissionControl!Next]_(AdmissionControl!admission)
    <2>1. counter' = counter /\ OthersKept(h) /\ start' = start
      BY <1>5 DEF OrderAttempts, Attempt, Goto, Fail, FailTx, TypeOK, OthersKept, redis, request, txRows
    <2>2. Claims(h) = ({start[h]} \X {Token}) \cap Limited
      BY <1>5, ClaimedCases DEF OrderAttempts, Claims
    <2>3. CASE /\ \E n \in Nodes : Attempt(h, n, UnderLimit(h), Preference(h))
               /\ Goto(h, "acquire") /\ UNCHANGED txRows
      <3> DEFINE B == ({start[h]} \X {Chain[n] : n \in UnderLimit(h)}) \cap Limited
      <3>1. PICK n \in Nodes : Attempt(h, n, UnderLimit(h), Preference(h))
        BY <2>3
      <3>2. left'[h] \cup {node'[h]} = UnderLimit(h)
        BY <3>1 DEF Attempt, TypeOK
      <3>3. Attempting(h)'
        BY <2>3 DEF Goto, Attempting, TypeOK
      <3>4. Claims(h)' = Claims(h) \cup B
        BY <2>1, <2>2, <3>2, <3>3, ClaimedCases DEF Claims, Limited
      <3>5. \A b \in B : counter[b] < Limits[b[2]]
        BY NotReached DEF UnderLimit
      <3> QED
        BY <2>1, <3>4, <3>5, AsClear
    <2>4. CASE Fail(h, "no_account")
      <3>1. Claims(h)' = {}
        BY <2>4, ClaimedCases DEF Fail, FailTx, Goto, Claims, TypeOK, Attempting
      <3> QED
        BY <2>1, <3>1, AsGiveUp
    <2> QED
      BY <1>5, <2>3, <2>4 DEF OrderAttempts
  <1>6. ASSUME NEW h \in Handlers, Acquire(h)
        PROVE  [AdmissionControl!Next]_(AdmissionControl!admission)
    <2>1. counter' = counter /\ OthersKept(h)
      BY <1>6, AttemptFailsTyped DEF Acquire, Goto, TypeOK, Errors, OthersKept,
         request, route, txRows, redis
    <2>2. Claims(h)' \subseteq Claims(h)
      BY <1>6, AttemptFailsTyped, ClaimedCases DEF Acquire, Goto, TypeOK, Errors,
         Claims, Attempting, request, route, txRows
    <2> QED
      BY <2>1, <2>2, AsGiveUp
  <1>7. ASSUME NEW h \in Handlers, CallSucceeds(h)
        PROVE  [AdmissionControl!Next]_(AdmissionControl!admission)
    <2>1. counter' = counter /\ OthersKept(h)
      BY <1>7 DEF CallSucceeds, Goto, TypeOK, OthersKept, redis, request, route, rows,
         txRows, bounds, vars
    <2>2. Claims(h)' \subseteq Claims(h)
      BY <1>7, ClaimedCases DEF CallSucceeds, Goto, TypeOK, Claims, Attempting, redis,
         request, route, rows, txRows, bounds, vars
    <2> QED
      BY <2>1, <2>2, AsGiveUp
  <1>8. ASSUME NEW h \in Handlers, CallFails(h)
        PROVE  [AdmissionControl!Next]_(AdmissionControl!admission)
    <2>1. counter' = counter /\ OthersKept(h)
      BY <1>8, AttemptFailsTyped DEF CallFails, Goto, TypeOK, Errors, OthersKept,
         request, route, txRows, redis
    <2>2. Claims(h)' \subseteq Claims(h)
      BY <1>8, AttemptFailsTyped, ClaimedCases DEF CallFails, Goto, TypeOK, Errors,
         Claims, Attempting, request, route, txRows
    <2> QED
      BY <2>1, <2>2, AsGiveUp
  <1>9. ASSUME NEW h \in Handlers, StreamEnds(h)
        PROVE  [AdmissionControl!Next]_(AdmissionControl!admission)
    <2>1. counter' = counter /\ OthersKept(h)
      BY <1>9 DEF StreamEnds, Goto, TypeOK, OthersKept, redis, request, route, rows,
         txRows, bounds, vars
    <2>2. Claims(h)' \subseteq Claims(h)
      BY <1>9, ClaimedCases DEF StreamEnds, Goto, TypeOK, Claims, Attempting, redis,
         request, route, rows, txRows, bounds, vars
    <2> QED
      BY <2>1, <2>2, AsGiveUp
  <1>10. ASSUME NEW h \in Handlers, StreamFails(h)
        PROVE  [AdmissionControl!Next]_(AdmissionControl!admission)
    <2>1. counter' = counter /\ OthersKept(h)
      BY <1>10 DEF StreamFails, Goto, FailTx, TypeOK, OthersKept, redis, request,
         route, rows, txRows, bounds, vars
    <2>2. Claims(h)' \subseteq Claims(h)
      BY <1>10, ClaimedCases DEF StreamFails, Goto, FailTx, TypeOK, Claims, Attempting,
         redis, request, route, rows, txRows, bounds, vars
    <2> QED
      BY <2>1, <2>2, AsGiveUp
  <1>11. ASSUME NEW h \in Handlers, ClientDisconnects(h)
        PROVE  [AdmissionControl!Next]_(AdmissionControl!admission)
    <2>1. counter' = counter /\ OthersKept(h)
      BY <1>11 DEF ClientDisconnects, Goto, TypeOK, OthersKept, redis, request, route,
         rows, txRows, bounds, vars
    <2>2. Claims(h)' \subseteq Claims(h)
      BY <1>11, ClaimedCases DEF ClientDisconnects, Goto, TypeOK, Claims, Attempting,
         redis, request, route, rows, txRows, bounds, vars
    <2> QED
      BY <2>1, <2>2, AsGiveUp
  <1>12. ASSUME NEW h \in Handlers, RecordUsage(h)
        PROVE  [AdmissionControl!Next]_(AdmissionControl!admission)
    <2>1. counter' = counter /\ OthersKept(h)
      BY <1>12 DEF RecordUsage, Goto, TypeOK, OthersKept, redis, request, route, rows,
         txRows, bounds, vars
    <2>2. Claims(h)' \subseteq Claims(h)
      BY <1>12, ClaimedCases DEF RecordUsage, Goto, TypeOK, Claims, Attempting, redis,
         request, route, rows, txRows, bounds, vars
    <2> QED
      BY <2>1, <2>2, AsGiveUp
  <1>13. ASSUME NEW h \in Handlers, RejectUsage(h)
        PROVE  [AdmissionControl!Next]_(AdmissionControl!admission)
    <2>1. counter' = counter /\ OthersKept(h)
      BY <1>13 DEF RejectUsage, Goto, Fail, FailTx, TypeOK, OthersKept, redis, request,
         route, rows, txRows, bounds, vars
    <2>2. Claims(h)' \subseteq Claims(h)
      BY <1>13, ClaimedCases DEF RejectUsage, Goto, Fail, FailTx, TypeOK, Claims,
         Attempting, redis, request, route, rows, txRows, bounds, vars
    <2> QED
      BY <2>1, <2>2, AsGiveUp
  <1>14. ASSUME NEW h \in Handlers, IncrementCounters(h)
        PROVE  [AdmissionControl!Next]_(AdmissionControl!admission)
    <2> DEFINE B == Counted(h) \cap Limited
    <2>1. OthersKept(h)
      BY <1>14 DEF IncrementCounters, Goto, TypeOK, OthersKept, request, route, txRows
    <2>2. B \subseteq Claims(h)
      BY <1>14, ClaimedCases DEF IncrementCounters, Claims, Counted, Account, Attempting
    <2>3. \A b \in Limited : counter'[b] = IF b \in B THEN counter[b] + 1 ELSE counter[b]
      BY <1>14, GatewayAssumption DEF IncrementCounters, Limited, Budgets
    <2>4. Claims(h)' = {}
      BY <1>14, ClaimedCases DEF IncrementCounters, Goto, Claims, TypeOK, Attempting
    <2> QED
      BY <2>1, <2>2, <2>3, <2>4, AsRecord
  <1>15. ASSUME NEW h \in Handlers, RecordSessionBinding(h)
        PROVE  [AdmissionControl!Next]_(AdmissionControl!admission)
    <2>1. counter' = counter /\ OthersKept(h)
      BY <1>15 DEF RecordSessionBinding, Goto, TypeOK, OthersKept, redis, request,
         route, rows, txRows, bounds, vars
    <2>2. Claims(h)' \subseteq Claims(h)
      BY <1>15, ClaimedCases DEF RecordSessionBinding, Goto, TypeOK, Claims,
         Attempting, redis, request, route, rows, txRows, bounds, vars
    <2> QED
      BY <2>1, <2>2, AsGiveUp
  <1>16. ASSUME NEW h \in Handlers, FinalizeTrace(h)
        PROVE  [AdmissionControl!Next]_(AdmissionControl!admission)
    <2>1. counter' = counter /\ OthersKept(h)
      BY <1>16 DEF FinalizeTrace, Goto, TypeOK, OthersKept, redis, request, route,
         rows, txRows, bounds, vars
    <2>2. Claims(h)' \subseteq Claims(h)
      BY <1>16, ClaimedCases DEF FinalizeTrace, Goto, TypeOK, Claims, Attempting,
         redis, request, route, rows, txRows, bounds, vars
    <2> QED
      BY <2>1, <2>2, AsGiveUp
  <1>17. ASSUME NEW h \in Handlers, Commit(h)
        PROVE  [AdmissionControl!Next]_(AdmissionControl!admission)
    <2>1. counter' = counter /\ OthersKept(h)
      BY <1>17 DEF Commit, CommitTx, Goto, TypeOK, OthersKept, redis, request, route,
         rows, txRows, bounds, vars
    <2>2. Claims(h)' \subseteq Claims(h)
      BY <1>17, ClaimedCases DEF Commit, CommitTx, Goto, TypeOK, Claims, Attempting,
         redis, request, route, rows, txRows, bounds, vars
    <2> QED
      BY <2>1, <2>2, AsGiveUp
  <1>18. ASSUME NEW h \in Handlers, Drop(h)
        PROVE  [AdmissionControl!Next]_(AdmissionControl!admission)
    <2>1. counter' = counter /\ OthersKept(h)
      BY <1>18 DEF Drop, RollbackTx, Goto, TypeOK, OthersKept, redis, request, route,
         rows, txRows, bounds, vars
    <2>2. Claims(h)' \subseteq Claims(h)
      BY <1>18, ClaimedCases DEF Drop, RollbackTx, Goto, TypeOK, Claims, Attempting,
         redis, request, route, rows, txRows, bounds, vars
    <2> QED
      BY <2>1, <2>2, AsGiveUp
  <1>26. ASSUME NEW h \in Handlers, Reply(h)
        PROVE  [AdmissionControl!Next]_(AdmissionControl!admission)
    <2>1. counter' = counter /\ OthersKept(h)
      BY <1>26 DEF Reply, Goto, TypeOK, OthersKept, redis, request, route,
         rows, txRows, bounds, vars
    <2>2. Claims(h)' \subseteq Claims(h)
      BY <1>26, ClaimedCases DEF Reply, Goto, TypeOK, Claims, Attempting,
         redis, request, route, rows, txRows, bounds, vars
    <2> QED
      BY <2>1, <2>2, AsGiveUp
  <1>19. ASSUME NEW h \in Handlers, Return(h)
        PROVE  [AdmissionControl!Next]_(AdmissionControl!admission)
    <2>1. counter' = counter /\ OthersKept(h)
      BY <1>19 DEF Return, Goto, TypeOK, OthersKept, redis, request, route, rows,
         txRows, bounds, vars
    <2>2. Claims(h)' \subseteq Claims(h)
      BY <1>19, ClaimedCases DEF Return, Goto, TypeOK, Claims, Attempting, redis,
         request, route, rows, txRows, bounds, vars
    <2> QED
      BY <2>1, <2>2, AsGiveUp
  <1>20. ASSUME NEW h \in Handlers, Crash(h)
        PROVE  [AdmissionControl!Next]_(AdmissionControl!admission)
    <2>1. counter' = counter /\ OthersKept(h)
      BY <1>20 DEF Crash, RollbackTx, Goto, TypeOK, OthersKept, redis, request, route,
         rows, txRows, bounds, vars
    <2>2. Claims(h)' \subseteq Claims(h)
      BY <1>20, ClaimedCases DEF Crash, RollbackTx, Goto, TypeOK, Claims, Attempting,
         redis, request, route, rows, txRows, bounds, vars
    <2> QED
      BY <2>1, <2>2, AsGiveUp
  <1>21. ASSUME NextWindow
        PROVE  [AdmissionControl!Next]_(AdmissionControl!admission)
    BY <1>21, AsStutter DEF NextWindow, Change, redis, request, route, rows, txRows,
       bounds, vars
  <1>22. ASSUME BindingExpires
        PROVE  [AdmissionControl!Next]_(AdmissionControl!admission)
    BY <1>22, AsStutter DEF BindingExpires, redis, request, route, rows, txRows,
       bounds, vars
  <1>23. ASSUME AccountChanges
        PROVE  [AdmissionControl!Next]_(AdmissionControl!admission)
    BY <1>23, AsStutter DEF AccountChanges, Change, redis, request, route, rows,
       txRows, bounds, vars
  <1>24. ASSUME AllServed
        PROVE  [AdmissionControl!Next]_(AdmissionControl!admission)
    BY <1>24, AsStutter DEF AllServed, redis, request, route, rows, txRows, bounds,
       vars
  <1>25. CASE UNCHANGED vars
    BY <1>25, AsStutter DEF vars, redis, request, route, txRows
  <1> QED
    BY <1>1, <1>2, <1>3, <1>4, <1>5, <1>6, <1>7, <1>8, <1>9, <1>10, <1>11, <1>12,
       <1>13, <1>14, <1>15, <1>16, <1>17, <1>18, <1>19, <1>20, <1>21, <1>22, <1>23,
       <1>24, <1>25, <1>26 DEF Next, Handle

--------------------------------------------------------------------------------
(* RecordSessionBinding after _increment_counters: the binding a failover  *)
(* leaves in Redis names an account that has answered and was counted.     *)
THEOREM BoundAccountServed == Spec => []BindingServed
  <1>1. Init => BindInv
    BY DEF Init, BindInv, BindingServed
  <1>2. TypeOK /\ TypeOK' /\ BindInv /\ [Next]_vars => BindInv'
    BY BindStep
  <1>3. BindInv => BindingServed
    BY DEF BindInv
  <1> QED
    BY <1>1, <1>2, <1>3, TypeCorrect, PTL DEF Spec

(* The rows are in step with the stages in every reachable state. *)
LEMMA AnswerInvariant == Spec => []AnswerInv
  <1>1. Init => AnswerInv
    BY DEF Init, AnswerInv, Answering, AnswerTraced
  <1>2. TypeOK /\ AnswerInv /\ [Next]_vars => AnswerInv'
    BY AnswerStep
  <1> QED
    BY <1>1, <1>2, TypeCorrect, PTL DEF Spec

(* What the router commits when it re-raises a GozarError, and get_session *)
(* when it does not, is what the client was answered.                      *)
THEOREM AnswersAreTraced == Spec => []AnswerTraced
  <1>1. AnswerInv => AnswerTraced
    BY DEF AnswerInv
  <1> QED
    BY <1>1, AnswerInvariant, PTL

(* The fallback loop gives up only at a node whose policy stops it, or     *)
(* with no available node left.                                            *)
THEOREM FallbackIsExhaustive == Spec => []FallbackExhausted
  <1>1. Init => FallbackExhausted
    BY DEF Init, FallbackExhausted
  <1>2. TypeOK /\ AnswerInv /\ FallbackExhausted /\ [Next]_vars => FallbackExhausted'
    BY FallbackStep
  <1> QED
    BY <1>1, <1>2, TypeCorrect, AnswerInvariant, PTL DEF Spec

(* record_usage increments before the row commits, whatever fails between: *)
(* the counters the limits read never show less than the ledger.           *)
THEOREM CountersCover == Spec => []CountersCoverLedger
  <1>1. Init => CoverInv
    <2>1. ASSUME Init, NEW b \in Budgets
          PROVE  Pending(b) = {}
      BY <2>1 DEF Init, Pending
    <2> QED
      BY <2>1, FS_EmptySet DEF Init, CoverInv
  <1>2. TypeOK /\ AnswerInv /\ CoverInv /\ [Next]_vars => CoverInv'
    BY CoverStep
  <1>3. TypeOK /\ CoverInv => CountersCoverLedger
    <2>1. ASSUME TypeOK, CoverInv, NEW b \in Budgets
          PROVE  ledger[b] <= counter[b]
      <3>1. Cardinality(Pending(b)) \in Nat
        BY SubsetSmaller DEF Pending
      <3> QED
        BY <2>1, <3>1 DEF TypeOK, CoverInv
    <2> QED
      BY <2>1 DEF CountersCoverLedger
  <1> QED
    BY <1>1, <1>2, <1>3, TypeCorrect, AnswerInvariant, PTL DEF Spec

(* The pipeline admits requests as Admission does: it checks each budget   *)
(* before the call and counts it after, each in its request's own window.  *)
THEOREM Refinement == Spec => ImplementsAdmission
  <1>1. Init => AdmissionControl!Init
    <2>1. ASSUME Init, NEW h \in Handlers
          PROVE  Claims(h) = {}
      BY <2>1, ClaimedCases DEF Init, Claims, Attempting
    <2> QED
      BY <2>1, GatewayAssumption DEF Init, AdmissionControl!Init, Claims, Limited, Budgets
  <1>2. TypeOK /\ [Next]_vars => [AdmissionControl!Next]_(AdmissionControl!admission)
    BY RefinementStep
  <1> QED
    BY <1>1, <1>2, TypeCorrect, PTL DEF Spec, ImplementsAdmission, AdmissionControl!Spec

AdmissionTheorems == INSTANCE Admission_proofs WITH
    Workers <- Handlers,
    Budgets <- Limited,
    Limit   <- [b \in Limited |-> Limits[b[2]]],
    spent   <- [b \in Limited |-> counter[b]],
    claims  <- [h \in Handlers |-> ({start[h]} \X Claimed(h)) \cap Limited]

(* limit_reached before the call and _increment_counters after it, with no *)
(* reservation between: no limit is overshot by as many requests as there  *)
(* are handlers.                                                           *)
THEOREM OvershootIsBounded == Spec => []LimitOvershoot
  <1>1. AdmissionTheorems!AdmissionAssumption
    <2>1. [b \in Limited |-> Limits[b[2]]] \in [Limited -> Nat]
      BY GatewayAssumption DEF Limited
    <2> QED
      BY <2>1, GatewayAssumption
      DEF AdmissionTheorems!AdmissionAssumption, AdmissionTheorems!IsFiniteSet, IsFiniteSet
  <1>2. AdmissionControl!Init => AdmissionTheorems!Init
    BY DEF AdmissionControl!Init, AdmissionTheorems!Init
  <1>3. AdmissionControl!Next => AdmissionTheorems!Next
    BY DEF AdmissionControl!Next, AdmissionTheorems!Next,
       AdmissionControl!Clear, AdmissionTheorems!Clear,
       AdmissionControl!Record, AdmissionTheorems!Record,
       AdmissionControl!GiveUp, AdmissionTheorems!GiveUp
  <1>4. UNCHANGED AdmissionControl!admission => UNCHANGED AdmissionTheorems!admission
    BY DEF AdmissionControl!admission, AdmissionTheorems!admission
  <1>5. ImplementsAdmission => AdmissionTheorems!Spec
    BY <1>2, <1>3, <1>4, PTL DEF ImplementsAdmission, AdmissionControl!Spec, AdmissionTheorems!Spec
  <1>6. TypeOK /\ AdmissionTheorems!OvershootBounded => LimitOvershoot
    <2>1. ASSUME TypeOK, AdmissionTheorems!OvershootBounded, NEW b \in Limited
          PROVE  counter[b] < Limits[b[2]] + Cardinality(Handlers)
      <3> DEFINE C == AdmissionTheorems!Claimants(b)
      <3>1. C \in SUBSET Handlers
        BY DEF AdmissionTheorems!Claimants
      <3>2. counter[b] + Cardinality(C) < Limits[b[2]] + Cardinality(Handlers)
        BY <2>1 DEF AdmissionTheorems!OvershootBounded, AdmissionTheorems!Cardinality, Cardinality
      <3>3. Cardinality(C) \in Nat /\ Cardinality(Handlers) \in Nat
        BY <3>1, SubsetSmaller
      <3>4. counter[b] \in Nat /\ Limits[b[2]] \in Nat
        BY <2>1, GatewayAssumption DEF TypeOK, Limited, Budgets
      <3> QED
        BY <3>2, <3>3, <3>4
    <2> QED
      BY <2>1 DEF LimitOvershoot, Limited
  <1> QED
    BY <1>1, <1>5, <1>6, TypeCorrect, Refinement, AdmissionTheorems!OvershootTheorem, PTL
================================================================================
