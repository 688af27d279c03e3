---------------------- MODULE SubscriptionRefresh_proofs -----------------------
(***************************************************************************)
(* Theorems about SubscriptionRefresh, for any number of requests and      *)
(* console sessions, any bound on faults and any timeouts.                 *)
(***************************************************************************)
EXTENDS SubscriptionRefresh, TLAPS

(* At most one transaction has the secret's row locked; while it does, a   *)
(* bundle it wrote replaces a row that is there, and the transaction that  *)
(* stamps deleted_at is the one that deletes the row.                      *)
SecretRowLocked ==
    \A t, u \in Sessions :
        "secret" \in writes[t] /\ "secret" \in writes[u] => t = u
WritesReplaceRow ==
    \A t \in Sessions : "secret" \in writes[t] /\ newSecret[t] # 0 => secret # 0
DeletionIsWhole ==
    /\ \A r \in Requests : "deleted" \notin writes[r]
    /\ \A o \in Operators :
         op[o].pc = "stamp" \/ "deleted" \in writes[o] =>
             "secret" \in writes[o] /\ newSecret[o] = 0

DeleteInv == SecretRowLocked /\ WritesReplaceRow /\ DeletionIsWhole /\ NoSecretAfterDelete

(* With a rotating provider: nobody knows a bundle that was not issued; a  *)
(* request about to store the newest bundle is the only one that knows it; *)
(* and what a transaction has written is newer than what it replaces.      *)
KnownIssued ==
    /\ secret <= latest
    /\ \A r \in Requests : gen[r] <= latest
    /\ \A t \in Sessions : newSecret[t] <= latest
NewestKnownToOne ==
    \A r \in Requests : pc[r] = "store" =>
        /\ gen[r] = latest
        /\ secret < latest
        /\ \A t \in Sessions : newSecret[t] < latest
        /\ \A s \in Requests \ {r} : gen[s] < latest
WrittenIsNewer ==
    \A t \in Sessions : "secret" \in writes[t] /\ newSecret[t] # 0 => newSecret[t] > secret
RequestsNeverDelete ==
    \A r \in Requests : "secret" \in writes[r] => newSecret[r] # 0
(* Who rolls back what it wrote has been told so by an error on record.    *)
AbortsExplained ==
    \A r \in Requests : pc[r] \in {"broken", "abort"} /\ "secret" \in writes[r] => lost # {}

RotationInv ==
    Rotates => KnownIssued /\ NewestKnownToOne /\ WrittenIsNewer
               /\ RequestsNeverDelete /\ AbortsExplained /\ RotationAccounted

IInv == TypeOK /\ DeleteInv /\ RotationInv

USE DEF Statuses, Columns, Sessions, Kinds, OperatorPCs

--------------------------------------------------------------------------------
(* Type correctness. *)

(* The initial states are typed. *)
LEMMA TypesInit == Init => TypeOK
<1> SUFFICES ASSUME Init PROVE TypeOK
  OBVIOUS
<1> USE ProcessesAssumption, ParametersAssumption DEF Init
<1>1. /\ pc \in [Requests -> RequestPCs] /\ phase \in [Requests -> Phases]
      /\ tries \in [Requests -> 0..(MaxAttempts - 1)]
      /\ waited \in [Requests -> Nat] /\ \A r \in Requests : waited[r] <= Patience(pc[r])
  BY DEF RequestPCs, Phases, Patience
<1>2. op \in [Operators -> Operator]
  BY DEF Operator, NewOperator
<1>3. writes \in [Sessions -> SUBSET Columns]
  OBVIOUS
<1>4. lockAge \in 0..LockTTL /\ faults \in 0..MaxFaults
  OBVIOUS
<1> QED
  BY <1>1, <1>2, <1>3, <1>4 DEF TypeOK, Ended

(* Every step keeps the types. *)
LEMMA TypesNext == TypeOK /\ [Next]_vars => TypeOK'
<1> SUFFICES ASSUME TypeOK, [Next]_vars PROVE TypeOK'
  OBVIOUS
<1> USE ProcessesAssumption, ParametersAssumption
        DEF TypeOK, RequestPCs, Phases, Operator, Ended, Patience, LostWith,
            account, lock, tx, clock, locals, history
<1>1. ASSUME NEW r \in Requests, RequestStep(r) PROVE TypeOK'
  <2>1. CASE Route(r)
    BY <2>1 DEF Route, Goto
  <2>2. CASE LoadCredential(r)
    BY <2>2 DEF LoadCredential, Goto, SeenStatus
  <2>3. CASE LoadSecret(r)
    <3>1. SeenSecret(r) \in Nat
      BY DEF SeenSecret
    <3>2. PICK next \in {"commit", "lock", "call"} : Goto(r, next)
      BY <2>3 DEF LoadSecret
    <3>3. /\ gen' \in [Requests -> Nat]
          /\ pc' \in [Requests -> RequestPCs] /\ pc' = [pc EXCEPT ![r] = next]
          /\ pc[r] = "secret"
          /\ UNCHANGED <<account, latest, lock, tx, phase, seen, clock, op, history>>
      BY <2>3, <3>1, <3>2 DEF LoadSecret, Goto
    <3>4. \A s \in Requests : waited'[s] <= Patience(pc'[s])
      BY <3>3
    <3>5. \A s \in Requests : Ended(s)' => writes'[s] = {}
      BY <3>3
    <3> QED
      BY <3>3, <3>4, <3>5
  <2>4. CASE LoadForReactiveRefresh(r)
    BY <2>4 DEF LoadForReactiveRefresh, Goto, SeenStatus
  <2>5. CASE AcquireLock(r)
    BY <2>5 DEF AcquireLock, Goto
  <2>6. CASE LockTimeout(r)
    BY <2>6 DEF LockTimeout, Goto
  <2>7. CASE ReadUnderLock(r)
    BY <2>7 DEF ReadUnderLock, Goto, SecretUnderLock, SeenSecret
  <2>8. CASE ExchangeAccepted(r)
    BY <2>8 DEF ExchangeAccepted, Goto, ResetClock, NewBundle
  <2>9. CASE ExchangeRefused(r)
    BY <2>9 DEF ExchangeRefused, Goto, ResetClock
  <2>10. CASE ExchangeUnavailable(r)
    <3>1. CASE tries[r] + 1 < MaxAttempts
      <4>1. /\ pc' = [pc EXCEPT ![r] = "backoff"]
            /\ tries' = [tries EXCEPT ![r] = @ + 1]
            /\ waited' = [waited EXCEPT ![r] = 0]
            /\ faults' = faults + 1 /\ faults < MaxFaults
            /\ UNCHANGED <<account, latest, lock, tx, phase, seen, gen, op, lost>>
        BY <2>10, <3>1 DEF ExchangeUnavailable, Goto, RetryOrGiveUp, Fault
      <4>2. /\ tries' \in [Requests -> 0..(MaxAttempts - 1)]
            /\ waited' \in [Requests -> Nat] /\ faults' \in 0..MaxFaults
            /\ pc' \in [Requests -> RequestPCs]
        BY <3>1, <4>1
      <4>3. \A s \in Requests : waited'[s] <= Patience(pc'[s])
        BY <4>1
      <4>4. \A s \in Requests : Ended(s)' => writes'[s] = {}
        BY <4>1
      <4> QED
        BY <4>1, <4>2, <4>3, <4>4
    <3>2. CASE tries[r] + 1 >= MaxAttempts
      BY <2>10, <3>2 DEF ExchangeUnavailable, Goto, ResetClock, RetryOrGiveUp, Fault
    <3> QED
      BY <2>10, <3>1, <3>2 DEF ExchangeUnavailable, RetryOrGiveUp
  <2>11. CASE ExchangeReplyLost(r)
    BY <2>11 DEF ExchangeReplyLost, Goto, ResetClock, RetryOrGiveUp, Fault
  <2>12. CASE ExchangeReplyUnusable(r)
    BY <2>12 DEF ExchangeReplyUnusable, Goto, ResetClock, Fault
  <2>13. CASE StoreFails(r)
    BY <2>13 DEF StoreFails, Goto
  <2>21. CASE Resend(r)
    BY <2>21 DEF Resend, Goto
  <2>14. CASE StoreBundle(r)
    <3>1. /\ writes' \in [Sessions -> SUBSET Columns]
          /\ \A s \in Requests : s # r => writes'[s] = writes[s]
      BY <2>14 DEF StoreBundle
    <3>2. newStatus' \in [Sessions -> Statuses] /\ newSecret' \in [Sessions -> Nat]
      BY <2>14 DEF StoreBundle
    <3>3. /\ pc' \in [Requests -> RequestPCs] /\ pc' = [pc EXCEPT ![r] = "refreshed"]
          /\ pc[r] = "store"
          /\ UNCHANGED <<account, latest, lock, locals, op, history>>
      BY <2>14 DEF StoreBundle, Goto
    <3>4. \A s \in Requests : waited'[s] <= Patience(pc'[s])
      BY <3>3
    <3>5. \A s \in Requests : Ended(s)' => writes'[s] = {}
      BY <3>1, <3>3
    <3> QED
      BY <3>1, <3>2, <3>3, <3>4, <3>5
  <2>15. CASE MarkRequiresReauth(r)
    <3>1. /\ writes' \in [Sessions -> SUBSET Columns]
          /\ \A s \in Requests : s # r => writes'[s] = writes[s]
      BY <2>15 DEF MarkRequiresReauth, FlushStatus
    <3>2. newStatus' \in [Sessions -> Statuses] /\ newSecret' \in [Sessions -> Nat]
      BY <2>15 DEF MarkRequiresReauth, FlushStatus
    <3>3. /\ pc' \in [Requests -> RequestPCs] /\ pc' = [pc EXCEPT ![r] = "failed"]
          /\ pc[r] = "mark"
          /\ UNCHANGED <<account, latest, lock, locals, op, history>>
      BY <2>15 DEF MarkRequiresReauth, Goto
    <3>4. \A s \in Requests : waited'[s] <= Patience(pc'[s])
      BY <3>3
    <3>5. \A s \in Requests : Ended(s)' => writes'[s] = {}
      BY <3>1, <3>3
    <3> QED
      BY <3>1, <3>2, <3>3, <3>4, <3>5
  <2>16. CASE ReleaseLock(r)
    <3>1. /\ pc' \in [Requests -> RequestPCs] /\ phase' \in [Requests -> Phases]
          /\ \A s \in Requests : s # r => pc'[s] = pc[s]
          /\ ~Ended(r)'
      BY <2>16 DEF ReleaseLock, Goto, Releasing, Ended
    <3>2. UNCHANGED <<account, latest, tx, seen, gen, clock, op, history>>
          /\ lockOwner' = NoOne /\ lockAge' = 0
      BY <2>16 DEF ReleaseLock
    <3>3. pc[r] \in Releasing /\ Patience(pc[r]) = 0
      BY <2>16 DEF ReleaseLock, Releasing
    <3>4. \A s \in Requests : waited'[s] <= Patience(pc'[s])
      BY <3>1, <3>2, <3>3
    <3>5. \A s \in Requests : Ended(s)' => writes'[s] = {}
      BY <3>1, <3>2
    <3> QED
      BY <3>1, <3>2, <3>4, <3>5
  <2>17. CASE ReleaseFails(r)
    BY <2>17 DEF ReleaseFails, Goto, Releasing
  <2>18. CASE CallUpstream(r)
    BY <2>18 DEF CallUpstream, Goto
  <2>19. CASE CommitRequest(r)
    <3>1. SeenStatus(r) \in Statuses /\ SeenSecret(r) \in Nat
      BY DEF SeenStatus, SeenSecret
    <3>2. deleted' \in BOOLEAN
      BY <2>19 DEF CommitRequest, CommitTx
    <3>3. /\ writes' \in [Sessions -> SUBSET Columns] /\ writes'[r] = {}
          /\ newStatus' \in [Sessions -> Statuses] /\ newSecret' \in [Sessions -> Nat]
          /\ \A s \in Requests : s # r => writes'[s] = writes[s]
      BY <2>19 DEF CommitRequest, CommitTx, EndTx
    <3>4. /\ pc' \in [Requests -> RequestPCs]
          /\ \A s \in Requests : s # r => pc'[s] = pc[s]
      BY <2>19 DEF CommitRequest, EndRequest, Goto
    <3>5. /\ phase' \in [Requests -> Phases] /\ seen' \in [Requests -> Statuses]
          /\ gen' \in [Requests -> Nat] /\ tries' \in [Requests -> 0..(MaxAttempts - 1)]
          /\ waited' \in [Requests -> Nat] /\ waited'[r] = 0
          /\ \A s \in Requests : s # r => waited'[s] = waited[s]
      BY <2>19 DEF CommitRequest, EndRequest
    <3>6. \A s \in Requests : Ended(s)' => writes'[s] = {}
      BY <3>3, <3>4
    <3> QED
      BY <2>19, <3>1, <3>2, <3>3, <3>4, <3>5, <3>6 DEF CommitRequest, CommitTx
  <2>20. CASE AbortRequest(r)
    BY <2>20 DEF AbortRequest, Goto, EndRequest, RollbackTx, EndTx
  <2> QED
    BY <1>1, <2>1, <2>2, <2>3, <2>4, <2>5, <2>6, <2>7, <2>8, <2>9, <2>10, <2>11, <2>12, <2>13, <2>14, <2>15, <2>16, <2>17, <2>18, <2>19, <2>20, <2>21 DEF RequestStep
<1>2. ASSUME NEW r \in Requests, Crash(r) PROVE TypeOK'
  BY <1>2 DEF Crash, Goto, Fault, EndRequest, RollbackTx, EndTx
<1>3. CASE TimePasses
  BY <1>3 DEF TimePasses, HolderWaits
<1>4. CASE LockExpires
  BY <1>4 DEF LockExpires
<1>5. ASSUME NEW o \in Operators, OperatorStep(o) PROVE TypeOK'
  <2>1. ASSUME NEW kind \in Kinds, LoadForOperator(o, kind) PROVE TypeOK'
    BY <2>1 DEF LoadForOperator
  <2>2. CASE Disable(o)
    BY <2>2 DEF Disable, SetEnabled, FlushStatus
  <2>3. CASE Enable(o)
    BY <2>3 DEF Enable, SetEnabled, FlushStatus
  <2>4. CASE NothingToSet(o)
    BY <2>4 DEF NothingToSet
  <2>5. CASE DeleteSecret(o)
    <3>1. /\ writes' \in [Sessions -> SUBSET Columns]
          /\ \A s \in Requests : writes'[s] = writes[s]
          /\ newSecret' \in [Sessions -> Nat]
          /\ op' \in [Operators -> Operator]
          /\ UNCHANGED <<account, latest, lock, newStatus, pc, locals, history>>
      BY <2>5 DEF DeleteSecret
    <3>2. \A s \in Requests : waited'[s] <= Patience(pc'[s])
      BY <3>1
    <3> QED
      BY <3>1, <3>2
  <2>6. CASE StampDeleted(o)
    BY <2>6 DEF StampDeleted
  <2>7. CASE CommitOperator(o)
    <3>6. UNCHANGED <<latest, lock, pc, locals, history, renewable>>
      BY <2>7 DEF CommitOperator, CommitTx
    <3>7. op' = [op EXCEPT ![o].pc = "done"]
      BY <2>7 DEF CommitOperator
    <3>1. /\ op' \in [Operators -> Operator]
          /\ UNCHANGED <<latest, lock, pc, locals, history, renewable>>
      BY <3>6, <3>7
    <3>4. /\ writes' = [writes EXCEPT ![o] = {}]
          /\ newStatus' = [newStatus EXCEPT ![o] = "active"]
          /\ newSecret' = [newSecret EXCEPT ![o] = 0]
      BY <2>7 DEF CommitOperator, CommitTx, EndTx
    <3>5. /\ writes' \in [Sessions -> SUBSET Columns]
          /\ newStatus' \in [Sessions -> Statuses]
          /\ newSecret' \in [Sessions -> Nat]
          /\ \A s \in Requests : writes'[s] = writes[s]
      BY <3>4
    <3>2. status' \in Statuses /\ secret' \in Nat /\ deleted' \in BOOLEAN
      BY <2>7 DEF CommitOperator, CommitTx, SeenStatus, SeenSecret
    <3>3. \A s \in Requests : waited'[s] <= Patience(pc'[s])
      BY <3>1
    <3> QED
      BY <3>1, <3>2, <3>3, <3>5
  <2> QED
    BY <1>5, <2>1, <2>2, <2>3, <2>4, <2>5, <2>6, <2>7 DEF OperatorStep
<1>6. CASE UNCHANGED vars
  BY <1>6 DEF vars
<1>7. ASSUME NEW r \in Requests, NextOperation(r) PROVE TypeOK'
  BY <1>7 DEF NextOperation
<1> QED
  BY <1>1, <1>2, <1>3, <1>4, <1>5, <1>6, <1>7 DEF Next, AllEnded

(* Every reachable state is well formed, no request exceeds its attempts or *)
(* waits past one operation's timeout, and no ended request keeps a           *)
(* transaction, hence a row lock, open.                                     *)
THEOREM TypeCorrect == Spec => []TypeOK
BY TypesInit, TypesNext, PTL DEF Spec

--------------------------------------------------------------------------------
(* Deletion. *)

(* The actions that touch neither the row, nor an open transaction, nor a  *)
(* console session.                                                        *)
Aside(r) ==
    \/ Route(r) \/ LoadCredential(r) \/ LoadSecret(r) \/ LoadForReactiveRefresh(r)
    \/ AcquireLock(r) \/ LockTimeout(r) \/ ReadUnderLock(r)
    \/ ExchangeAccepted(r) \/ ExchangeRefused(r) \/ ExchangeUnavailable(r)
    \/ ExchangeReplyLost(r) \/ ExchangeReplyUnusable(r)
    \/ StoreFails(r) \/ ReleaseLock(r) \/ ReleaseFails(r) \/ CallUpstream(r)
    \/ Resend(r) \/ NextOperation(r)

(* These steps leave the rows, transactions and console sessions alone. *)
LEMMA AsideKeepsRows ==
    ASSUME NEW r \in Requests, Aside(r)
    PROVE  UNCHANGED <<account, tx, op>>
BY DEF Aside, Route, LoadCredential, LoadSecret, LoadForReactiveRefresh, AcquireLock,
       LockTimeout, ReadUnderLock, ExchangeAccepted, ExchangeRefused,
       ExchangeUnavailable, ExchangeReplyLost, ExchangeReplyUnusable, StoreFails,
       ReleaseLock, ReleaseFails, CallUpstream, Resend, NextOperation, account, tx

(* Nothing is deleted or written initially. *)
LEMMA DeleteInit == Init => DeleteInv
BY ProcessesAssumption
   DEF Init, DeleteInv, SecretRowLocked, WritesReplaceRow, DeletionIsWhole,
       NoSecretAfterDelete, NewOperator

(* What a commit publishes satisfies the invariant whoever commits. *)
LEMMA CommitKeepsDeleteInv ==
    ASSUME TypeOK, DeleteInv, NEW t \in Sessions, CommitTx(t),
           \A o \in Operators : op'[o].pc = "stamp" => op[o].pc = "stamp" /\ o # t
    PROVE  DeleteInv'
<1> USE DEF TypeOK, DeleteInv
<1>1. /\ writes' = [writes EXCEPT ![t] = {}]
      /\ newSecret' = [newSecret EXCEPT ![t] = 0]
      /\ secret' = IF "secret" \in writes[t] THEN newSecret[t] ELSE secret
      /\ deleted' = (deleted \/ "deleted" \in writes[t])
  BY DEF CommitTx, EndTx, SeenSecret
<1>2. SecretRowLocked'
  BY <1>1 DEF SecretRowLocked
<1>3. WritesReplaceRow'
  BY <1>1 DEF SecretRowLocked, WritesReplaceRow
<1>4. DeletionIsWhole'
  BY <1>1 DEF DeletionIsWhole
<1>5. NoSecretAfterDelete'
  BY <1>1 DEF NoSecretAfterDelete, WritesReplaceRow, DeletionIsWhole
<1> QED
  BY <1>2, <1>3, <1>4, <1>5

(* Every step keeps DeleteInv. *)
LEMMA DeleteNext == TypeOK /\ DeleteInv /\ [Next]_vars => DeleteInv'
<1> SUFFICES ASSUME TypeOK, DeleteInv, [Next]_vars PROVE DeleteInv'
  OBVIOUS
<1> USE ProcessesAssumption DEF TypeOK, account, lock, tx, clock, locals, history
<1>0. UNCHANGED <<account, tx, op>> => DeleteInv'
  BY DEF DeleteInv, SecretRowLocked, WritesReplaceRow, DeletionIsWhole, NoSecretAfterDelete
<1>1. ASSUME NEW r \in Requests, RequestStep(r) \/ NextOperation(r) PROVE DeleteInv'
  <2>1. CASE Aside(r)
    BY <2>1, <1>0, AsideKeepsRows
  <2>2. CASE StoreBundle(r)
    <3>1. /\ writes' \in [Sessions -> SUBSET Columns]
          /\ "secret" \in writes'[r] /\ ("deleted" \in writes'[r] <=> "deleted" \in writes[r])
          /\ \A t \in Sessions \ {r} : writes'[t] = writes[t] /\ newSecret'[t] = newSecret[t]
          /\ \A t \in Sessions \ {r} : "secret" \notin writes[t]
      BY <2>2 DEF StoreBundle, SecretRowFree
    <3>2. secret # 0
      BY <2>2 DEF StoreBundle, RowGone, SeenSecret, DeleteInv, WritesReplaceRow
    <3>3. UNCHANGED <<secret, deleted, op>>
      BY <2>2 DEF StoreBundle
    <3>4. SecretRowLocked'
      BY <3>1 DEF SecretRowLocked
    <3>5. WritesReplaceRow'
      BY <3>2, <3>3 DEF WritesReplaceRow
    <3>6. DeletionIsWhole'
      BY <3>1, <3>3 DEF DeleteInv, DeletionIsWhole
    <3> QED
      BY <3>3, <3>4, <3>5, <3>6 DEF DeleteInv, NoSecretAfterDelete
  <2>3. CASE MarkRequiresReauth(r)
    BY <2>3 DEF MarkRequiresReauth, FlushStatus, DeleteInv, SecretRowLocked,
                WritesReplaceRow, DeletionIsWhole, NoSecretAfterDelete
  <2>4. CASE CommitRequest(r)
    BY <2>4, CommitKeepsDeleteInv DEF CommitRequest
  <2>5. CASE AbortRequest(r)
    BY <2>5 DEF AbortRequest, RollbackTx, EndTx, DeleteInv, SecretRowLocked,
                WritesReplaceRow, DeletionIsWhole, NoSecretAfterDelete
  <2> QED
    BY <1>1, <2>1, <2>2, <2>3, <2>4, <2>5 DEF RequestStep, Aside
<1>2. ASSUME NEW r \in Requests, Crash(r) PROVE DeleteInv'
  BY <1>2 DEF Crash, RollbackTx, EndTx, DeleteInv, SecretRowLocked,
              WritesReplaceRow, DeletionIsWhole, NoSecretAfterDelete
<1>3. CASE TimePasses \/ LockExpires \/ AllEnded \/ UNCHANGED vars
  BY <1>3, <1>0 DEF TimePasses, LockExpires, AllEnded, vars
<1>4. ASSUME NEW o \in Operators, OperatorStep(o) PROVE DeleteInv'
  <2>1. ASSUME NEW kind \in Kinds, LoadForOperator(o, kind) PROVE DeleteInv'
    BY <2>1 DEF LoadForOperator, DeleteInv, SecretRowLocked,
                WritesReplaceRow, DeletionIsWhole, NoSecretAfterDelete, Operator
  <2>2. CASE Disable(o) \/ Enable(o)
    <3>1. /\ writes' = [writes EXCEPT ![o] = @ \cup {"status"}]
          /\ op' = [op EXCEPT ![o].pc = "commit"]
          /\ UNCHANGED <<secret, deleted, newSecret>>
      BY <2>2 DEF Disable, Enable, SetEnabled, FlushStatus
    <3>2. \A t \in Sessions, c \in {"secret", "deleted"} : c \in writes'[t] <=> c \in writes[t]
      BY <3>1
    <3>3. \A p \in Operators : op'[p].pc = "stamp" => op[p].pc = "stamp"
      BY <3>1 DEF Operator
    <3> QED
      BY <3>1, <3>2, <3>3 DEF DeleteInv, SecretRowLocked, WritesReplaceRow,
                              DeletionIsWhole, NoSecretAfterDelete
  <2>3. CASE NothingToSet(o)
    BY <2>3 DEF NothingToSet, DeleteInv, SecretRowLocked,
                WritesReplaceRow, DeletionIsWhole, NoSecretAfterDelete, Operator
  <2>4. CASE DeleteSecret(o)
    BY <2>4 DEF DeleteSecret, SecretRowFree, DeleteInv, SecretRowLocked,
                WritesReplaceRow, DeletionIsWhole, NoSecretAfterDelete, Operator
  <2>5. CASE StampDeleted(o)
    BY <2>5 DEF StampDeleted, DeleteInv, SecretRowLocked,
                WritesReplaceRow, DeletionIsWhole, NoSecretAfterDelete, Operator
  <2>6. CASE CommitOperator(o)
    BY <2>6, CommitKeepsDeleteInv DEF CommitOperator, Operator
  <2> QED
    BY <1>4, <2>1, <2>2, <2>3, <2>4, <2>5, <2>6 DEF OperatorStep
<1> QED
  BY <1>1, <1>2, <1>3, <1>4 DEF Next

(* Deleting an account leaves no credential material behind, however many  *)
(* refreshes are in flight: the row lock orders each flush with the delete *)
(* and an UPDATE does not bring a deleted row back.                        *)
THEOREM DeletionIsFinal == Spec => []NoSecretAfterDelete
<1>1. TypeOK /\ DeleteInv /\ [Next]_vars => (TypeOK /\ DeleteInv)'
  BY TypesNext, DeleteNext
<1>2. DeleteInv => NoSecretAfterDelete
  BY DEF DeleteInv
<1> QED
  BY TypesInit, DeleteInit, <1>1, <1>2, PTL DEF Spec

--------------------------------------------------------------------------------
(* Rotation. *)

RotationParts ==
    KnownIssued /\ NewestKnownToOne /\ WrittenIsNewer /\ RequestsNeverDelete /\ RotationAccounted

(* Initially the stored bundle is the only one issued. *)
LEMMA RotationInit == Init => RotationInv
BY ProcessesAssumption
   DEF Init, RotationInv, KnownIssued, NewestKnownToOne, WrittenIsNewer,
       RequestsNeverDelete, AbortsExplained, RotationAccounted

(* A step that neither issues nor learns nor writes a bundle, and that     *)
(* neither enters nor leaves "store".                                      *)
LEMMA QuietKeepsRotation ==
    ASSUME RotationParts,
           UNCHANGED <<secret, latest, gen, newSecret>>, lost' = {} => lost = {},
           \A t \in Sessions : "secret" \in writes'[t] <=> "secret" \in writes[t],
           \A r \in Requests : pc'[r] = "store" <=> pc[r] = "store"
    PROVE  RotationParts'
BY DEF RotationParts, KnownIssued, NewestKnownToOne, WrittenIsNewer,
       RequestsNeverDelete, RotationAccounted, Carried

(* Loading a bundle: what is seen is issued, and is not the newest while   *)
(* another request is about to store that one.                             *)
LEMMA LoadKeepsRotation ==
    ASSUME TypeOK, RotationParts, NEW r \in Requests, NEW g \in {gen[r], SeenSecret(r)},
           pc[r] # "store", gen' = [gen EXCEPT ![r] = g],
           UNCHANGED <<secret, latest, writes, newSecret, lost>>,
           \A q \in Requests : pc'[q] = "store" <=> pc[q] = "store"
    PROVE  RotationParts'
<1>1. /\ g \in Nat /\ g <= latest
      /\ \A q \in Requests \ {r} : pc[q] = "store" => g < latest
  BY DEF RotationParts, KnownIssued, NewestKnownToOne, SeenSecret, TypeOK
<1>2. gen'[r] = g /\ \A q \in Requests \ {r} : gen'[q] = gen[q]
  BY DEF TypeOK
<1> QED
  BY <1>1, <1>2
     DEF RotationParts, KnownIssued, NewestKnownToOne, WrittenIsNewer,
         RequestsNeverDelete, RotationAccounted, Carried

(* Spending the newest refresh token: only one request can know it. *)
LEMMA IssueKeepsRotation ==
    ASSUME TypeOK, Rotates, RotationParts, NEW r \in Requests,
           pc[r] = "exchange", ProviderAccepts(r), latest' = latest + 1,
           UNCHANGED <<secret, writes, newSecret>>,
           \A q \in Requests \ {r} : pc'[q] = pc[q] /\ gen'[q] = gen[q],
           \/ pc'[r] = "store" /\ gen'[r] = latest + 1
           \/ pc'[r] # "store" /\ gen'[r] = gen[r] /\ lost' # {}
    PROVE  RotationParts'
<1> USE DEF TypeOK
<1>1. \A q \in Requests : pc[q] # "store"
  BY DEF RotationParts, NewestKnownToOne, ProviderAccepts
<1>2. KnownIssued'
  BY DEF RotationParts, KnownIssued
<1>3. NewestKnownToOne'
  BY <1>1 DEF RotationParts, KnownIssued, NewestKnownToOne
<1>4. WrittenIsNewer' /\ RequestsNeverDelete'
  BY DEF RotationParts, WrittenIsNewer, RequestsNeverDelete
<1>5. RotationAccounted'
  BY DEF RotationAccounted, Carried
<1> QED
  BY <1>2, <1>3, <1>4, <1>5 DEF RotationParts

(* Flushing the newest bundle keeps RotationInv. *)
LEMMA StoreKeepsRotation ==
    ASSUME TypeOK, DeleteInv, Rotates, RotationParts, NEW r \in Requests, StoreBundle(r)
    PROVE  RotationParts'
<1> USE DEF TypeOK
<1>1. /\ newSecret' = [newSecret EXCEPT ![r] = gen[r]]
      /\ pc[r] = "store" /\ pc' = [pc EXCEPT ![r] = "refreshed"]
      /\ UNCHANGED <<secret, latest, gen, lost>>
  BY DEF StoreBundle, Goto, locals, history, account
<1>2. /\ "secret" \in writes'[r]
      /\ \A t \in Sessions \ {r} : writes'[t] = writes[t]
  BY DEF StoreBundle
<1>3. /\ gen[r] = latest /\ secret < latest
      /\ \A q \in Requests : pc[q] = "store" => q = r
  BY <1>1 DEF RotationParts, NewestKnownToOne
<1>4. KnownIssued'
  BY <1>1, <1>3 DEF RotationParts, KnownIssued
<1>5. NewestKnownToOne'
  BY <1>1, <1>3 DEF NewestKnownToOne
<1>6. WrittenIsNewer' /\ RequestsNeverDelete'
  BY <1>1, <1>2, <1>3 DEF RotationParts, WrittenIsNewer, RequestsNeverDelete
<1>7. RotationAccounted'
  BY <1>1, <1>2, <1>3 DEF RotationAccounted, Carried
<1> QED
  BY <1>4, <1>5, <1>6, <1>7 DEF RotationParts

(* Publishing what a transaction wrote.  A bundle is published only over an *)
(* older one, so what was stored and newest stays so.                       *)
LEMMA CommitKeepsRotation ==
    ASSUME TypeOK, DeleteInv, Rotates, RotationParts, NEW t \in Sessions, CommitTx(t),
           \A q \in Requests : /\ pc'[q] = "store" <=> pc[q] = "store"
                               /\ gen'[q] \in {gen[q], 0} /\ (q # t => gen'[q] = gen[q])
                               /\ q = t => pc[q] # "store",
           UNCHANGED <<latest, lost>>
    PROVE  RotationParts' /\ (secret' = 0 \/ secret' >= secret)
<1> USE DEF TypeOK
<1>1. /\ writes' = [writes EXCEPT ![t] = {}]
      /\ newSecret' = [newSecret EXCEPT ![t] = 0]
      /\ secret' = IF "secret" \in writes[t] THEN newSecret[t] ELSE secret
  BY DEF CommitTx, EndTx, SeenSecret
<1>2. secret' = 0 \/ secret' >= secret
  BY <1>1 DEF RotationParts, WrittenIsNewer
<1>3. secret' \in Nat /\ secret' <= latest
  BY <1>1 DEF RotationParts, KnownIssued
<1>4. KnownIssued'
  BY <1>1, <1>3 DEF RotationParts, KnownIssued
<1>5. NewestKnownToOne'
  BY <1>1, <1>3 DEF RotationParts, NewestKnownToOne
<1>6. WrittenIsNewer' /\ RequestsNeverDelete'
  BY <1>1 DEF RotationParts, WrittenIsNewer, RequestsNeverDelete, DeleteInv, SecretRowLocked
<1>7. ASSUME secret' # 0, lost' = {} PROVE secret' = latest \/ \E q \in Requests : Carried(q)'
  <2>1. secret # 0
    BY <1>1, <1>7 DEF DeleteInv, WritesReplaceRow
  <2>2. CASE secret = latest
    BY <1>2, <1>3, <1>7, <2>2
  <2>3. ASSUME NEW q \in Requests, Carried(q) PROVE secret' = latest \/ Carried(q)'
    BY <1>1, <2>3 DEF Carried, RotationParts, NewestKnownToOne
  <2> QED
    BY <1>7, <2>1, <2>2, <2>3 DEF RotationParts, RotationAccounted
<1>8. RotationAccounted'
  BY <1>7 DEF RotationAccounted
<1> QED
  BY <1>2, <1>4, <1>5, <1>6, <1>8 DEF RotationParts

(* A rollback drops a bundle only if the loss is on record. *)
LEMMA RollbackKeepsRotation ==
    ASSUME TypeOK, RotationParts, NEW r \in Requests, RollbackTx(r),
           lost' = {} => lost = {} /\ ~Carries(r),
           pc' \in [Requests -> RequestPCs], gen' \in [Requests -> Nat],
           \A q \in Requests : /\ pc'[q] = "store" => pc[q] = "store" /\ q # r
                               /\ q # r => pc'[q] = pc[q] /\ gen'[q] = gen[q],
           gen'[r] = 0, latest' = latest
    PROVE  RotationParts'
<1> USE DEF TypeOK
<1>1. /\ writes' = [writes EXCEPT ![r] = {}]
      /\ newSecret' = [newSecret EXCEPT ![r] = 0]
      /\ secret' = secret
  BY DEF RollbackTx, EndTx, account
<1>2. KnownIssued' /\ NewestKnownToOne'
  BY <1>1 DEF RotationParts, KnownIssued, NewestKnownToOne
<1>3. WrittenIsNewer' /\ RequestsNeverDelete'
  BY <1>1 DEF RotationParts, WrittenIsNewer, RequestsNeverDelete
<1>4. ASSUME lost' = {}, NEW q \in Requests, Carried(q) PROVE Carried(q)'
  <2>1. ~Carries(r)
    BY <1>4
  <2> QED
    BY <1>1, <1>4, <2>1 DEF Carried, Carries
<1>5. RotationAccounted'
  BY <1>1, <1>4 DEF RotationParts, RotationAccounted
<1> QED
  BY <1>2, <1>3, <1>5 DEF RotationParts

(* Every step keeps RotationInv. *)
LEMMA RotationNext ==
    ASSUME TypeOK, TypeOK', DeleteInv, Rotates, RotationParts, AbortsExplained, [Next]_vars
    PROVE  RotationParts' /\ (secret' = 0 \/ secret' >= secret)
<1> USE DEF account, lock, tx, clock, locals, history
<1> DEFINE Goal == RotationParts' /\ (secret' = 0 \/ secret' >= secret)
<1>0. secret' = secret /\ RotationParts' => Goal
  BY DEF TypeOK
<1>1. ASSUME NEW r \in Requests, RequestStep(r) \/ NextOperation(r) PROVE Goal
  <2> USE <1>0
  <2>1. CASE \/ Route(r) \/ LoadCredential(r) \/ LoadForReactiveRefresh(r) \/ AcquireLock(r)
             \/ LockTimeout(r) \/ ExchangeRefused(r) \/ ExchangeUnavailable(r)
             \/ ReleaseLock(r) \/ ReleaseFails(r) \/ CallUpstream(r)
             \/ Resend(r) \/ NextOperation(r)
    <3>1. UNCHANGED <<account, latest, gen, tx>> /\ (lost' = {} => lost = {})
      BY <2>1 DEF Route, LoadCredential, LoadForReactiveRefresh, AcquireLock, LockTimeout,
                  ExchangeRefused, ExchangeUnavailable, ReleaseLock, ReleaseFails, CallUpstream,
                  Resend, NextOperation, LostWith
    <3>2. \A q \in Requests : pc'[q] = "store" <=> pc[q] = "store"
      BY <2>1 DEF Route, LoadCredential, LoadForReactiveRefresh, AcquireLock, LockTimeout,
                  ExchangeRefused, ExchangeUnavailable, RetryOrGiveUp, ReleaseLock,
                  ReleaseFails, CallUpstream, Resend, NextOperation, Goto, Releasing, TypeOK
    <3> QED
      BY <3>1, <3>2, QuietKeepsRotation
  <2>2. CASE StoreFails(r)
    <3>1. secret = 0
      BY <2>2 DEF StoreFails, RowGone, SeenSecret, RotationParts, RequestsNeverDelete
    <3>2. UNCHANGED <<account, latest, gen, tx, lost>> /\ pc' = [pc EXCEPT ![r] = "broken"]
      BY <2>2 DEF StoreFails, Goto
    <3> QED
      BY <3>1, <3>2 DEF RotationParts, KnownIssued, NewestKnownToOne, WrittenIsNewer,
                        RequestsNeverDelete, RotationAccounted, TypeOK
  <2>3. CASE LoadSecret(r)
    <3>1. /\ gen' = [gen EXCEPT ![r] = SeenSecret(r)] /\ pc[r] # "store"
          /\ UNCHANGED <<account, latest, tx, lost>>
      BY <2>3 DEF LoadSecret
    <3>2. \A q \in Requests : pc'[q] = "store" <=> pc[q] = "store"
      BY <2>3 DEF LoadSecret, Goto, TypeOK
    <3> QED
      BY <3>1, <3>2, LoadKeepsRotation
  <2>4. CASE ReadUnderLock(r)
    <3>1. /\ gen' = [gen EXCEPT ![r] = SecretUnderLock(r)] /\ pc[r] # "store"
          /\ UNCHANGED <<account, latest, tx, lost>>
      BY <2>4 DEF ReadUnderLock
    <3>2. \A q \in Requests : pc'[q] = "store" <=> pc[q] = "store"
      BY <2>4 DEF ReadUnderLock, Goto, TypeOK
    <3> QED
      BY <3>1, <3>2, LoadKeepsRotation DEF SecretUnderLock
  <2>5. CASE ExchangeAccepted(r)
    <3>1. \A q \in Requests \ {r} : pc'[q] = pc[q] /\ gen'[q] = gen[q]
      BY <2>5 DEF ExchangeAccepted, Goto, TypeOK
    <3>2. pc'[r] = "store" /\ gen'[r] = latest + 1
      BY <2>5 DEF ExchangeAccepted, Goto, NewBundle, TypeOK
    <3> QED
      BY <2>5, <3>1, <3>2, IssueKeepsRotation DEF ExchangeAccepted
  <2>6. CASE ExchangeReplyLost(r) \/ ExchangeReplyUnusable(r)
    <3>1. \A q \in Requests \ {r} : pc'[q] = pc[q] /\ gen'[q] = gen[q]
      BY <2>6 DEF ExchangeReplyLost, ExchangeReplyUnusable, RetryOrGiveUp, Goto, TypeOK
    <3>2. pc'[r] # "store" /\ gen'[r] = gen[r] /\ lost' # {}
      BY <2>6 DEF ExchangeReplyLost, ExchangeReplyUnusable, RetryOrGiveUp, Goto, TypeOK
    <3> QED
      BY <2>6, <3>1, <3>2, IssueKeepsRotation DEF ExchangeReplyLost, ExchangeReplyUnusable
  <2>7. CASE StoreBundle(r)
    BY <2>7, StoreKeepsRotation DEF StoreBundle
  <2>8. CASE MarkRequiresReauth(r)
    <3>1. UNCHANGED <<account, latest, gen, newSecret, lost>>
      BY <2>8 DEF MarkRequiresReauth, FlushStatus
    <3>2. \A t \in Sessions : "secret" \in writes'[t] <=> "secret" \in writes[t]
      BY <2>8 DEF MarkRequiresReauth, FlushStatus, TypeOK
    <3>3. \A q \in Requests : pc'[q] = "store" <=> pc[q] = "store"
      BY <2>8 DEF MarkRequiresReauth, Goto, TypeOK
    <3> QED
      BY <3>1, <3>2, <3>3, QuietKeepsRotation
  <2>9. CASE CommitRequest(r)
    <3>1. \A q \in Requests : /\ pc'[q] = "store" <=> pc[q] = "store"
                              /\ gen'[q] \in {gen[q], 0} /\ (q # r => gen'[q] = gen[q])
                              /\ q = r => pc[q] # "store"
      BY <2>9 DEF CommitRequest, EndRequest, Goto, TypeOK
    <3> QED
      BY <2>9, <3>1, CommitKeepsRotation DEF CommitRequest
  <2>10. CASE AbortRequest(r)
    <3>1. /\ \A q \in Requests : /\ pc'[q] = "store" => pc[q] = "store" /\ q # r
                                 /\ q # r => pc'[q] = pc[q] /\ gen'[q] = gen[q]
          /\ gen'[r] = 0
      BY <2>10 DEF AbortRequest, EndRequest, Goto, TypeOK
    <3> QED
      BY <2>10, <3>1, RollbackKeepsRotation
         DEF AbortRequest, RollbackTx, TypeOK, AbortsExplained, Carries
  <2> QED
    BY <1>1, <2>1, <2>2, <2>3, <2>4, <2>5, <2>6, <2>7, <2>8, <2>9, <2>10 DEF RequestStep
<1>2. ASSUME NEW r \in Requests, Crash(r) PROVE Goal
  <2>1. /\ \A q \in Requests : /\ pc'[q] = "store" => pc[q] = "store" /\ q # r
                               /\ q # r => pc'[q] = pc[q] /\ gen'[q] = gen[q]
        /\ gen'[r] = 0
    BY <1>2 DEF Crash, EndRequest, Goto, TypeOK
  <2> QED
    BY <1>0, <1>2, <2>1, RollbackKeepsRotation DEF Crash, RollbackTx, LostWith, TypeOK
<1>3. CASE TimePasses \/ LockExpires \/ AllEnded \/ UNCHANGED vars
  BY <1>0, <1>3, QuietKeepsRotation DEF TimePasses, LockExpires, AllEnded, vars
<1>4. ASSUME NEW o \in Operators, OperatorStep(o) PROVE Goal
  <2>1. UNCHANGED <<latest, gen, pc, lost>>
    BY <1>4 DEF OperatorStep, LoadForOperator, Disable, Enable, NothingToSet, DeleteSecret,
                StampDeleted, CommitOperator
  <2>2. CASE \/ \E kind \in Kinds : LoadForOperator(o, kind)
             \/ Disable(o) \/ Enable(o) \/ NothingToSet(o) \/ StampDeleted(o)
    <3>1. secret' = secret /\ newSecret' = newSecret
      BY <2>2 DEF LoadForOperator, Disable, Enable, NothingToSet, StampDeleted, SetEnabled,
                  FlushStatus
    <3>2. \A t \in Sessions : "secret" \in writes'[t] <=> "secret" \in writes[t]
      BY <2>2 DEF LoadForOperator, Disable, Enable, NothingToSet, StampDeleted, SetEnabled,
                  FlushStatus, TypeOK
    <3> QED
      BY <1>0, <2>1, <3>1, <3>2, QuietKeepsRotation
  <2>3. CASE DeleteSecret(o)
    <3>1. /\ newSecret' = [newSecret EXCEPT ![o] = 0]
          /\ writes' = [writes EXCEPT ![o] = {"secret"}] /\ secret' = secret
      BY <2>3 DEF DeleteSecret
    <3> QED
      BY <1>0, <2>1, <3>1, ProcessesAssumption
         DEF RotationParts, KnownIssued, NewestKnownToOne, WrittenIsNewer,
             RequestsNeverDelete, RotationAccounted, Carried, TypeOK
  <2>4. CASE CommitOperator(o)
    BY <2>1, <2>4, ProcessesAssumption, CommitKeepsRotation DEF CommitOperator, TypeOK
  <2> QED
    BY <1>4, <2>2, <2>3, <2>4 DEF OperatorStep
<1> QED
  BY <1>1, <1>2, <1>3, <1>4 DEF Next

(* A request on its way to a rollback has met an error that is on record.  *)
LEMMA AbortsNext ==
    ASSUME TypeOK, Rotates, RotationParts, AbortsExplained, [Next]_vars
    PROVE  AbortsExplained'
<1> USE DEF TypeOK, account, lock, tx, clock, locals, history
<1>1. ASSUME NEW r \in Requests, RequestStep(r) \/ NextOperation(r) PROVE AbortsExplained'
  <2>1. CASE LockTimeout(r) \/ ReleaseFails(r)
    BY <2>1 DEF LockTimeout, ReleaseFails, LostWith, Carries, Goto, AbortsExplained
  <2>2. CASE StoreFails(r)
    <3>1. "secret" \notin writes[r]
      BY <2>2 DEF StoreFails, RowGone, SeenSecret, RotationParts, RequestsNeverDelete
    <3> QED
      BY <2>2, <3>1 DEF StoreFails, Goto, AbortsExplained
  <2>3. CASE ExchangeReplyLost(r) \/ ExchangeReplyUnusable(r)
    BY <2>3 DEF ExchangeReplyLost, ExchangeReplyUnusable, AbortsExplained
  <2>4. CASE ReleaseLock(r)
    BY <2>4 DEF ReleaseLock, Releasing, Goto, AbortsExplained
  <2>5. CASE StoreBundle(r)
    <3>1. /\ pc' = [pc EXCEPT ![r] = "refreshed"] /\ lost' = lost
          /\ \A s \in Requests \ {r} : writes'[s] = writes[s]
      BY <2>5 DEF StoreBundle, Goto
    <3> QED
      BY <3>1 DEF AbortsExplained
  <2>6. CASE MarkRequiresReauth(r)
    <3>1. /\ pc' = [pc EXCEPT ![r] = "failed"] /\ lost' = lost
          /\ \A s \in Requests \ {r} : writes'[s] = writes[s]
      BY <2>6 DEF MarkRequiresReauth, FlushStatus, Goto
    <3> QED
      BY <3>1 DEF AbortsExplained
  <2>7. CASE CommitRequest(r) \/ AbortRequest(r)
    BY <2>7 DEF CommitRequest, AbortRequest, CommitTx, RollbackTx, EndTx, EndRequest, Goto,
                AbortsExplained
  <2>8. CASE \/ Route(r) \/ LoadCredential(r) \/ LoadSecret(r) \/ LoadForReactiveRefresh(r)
             \/ AcquireLock(r) \/ ReadUnderLock(r) \/ ExchangeAccepted(r) \/ ExchangeRefused(r)
             \/ ExchangeUnavailable(r) \/ CallUpstream(r) \/ Resend(r) \/ NextOperation(r)
    <3>1. UNCHANGED <<writes, lost>>
      BY <2>8 DEF Route, LoadCredential, LoadSecret, LoadForReactiveRefresh, AcquireLock,
                  ReadUnderLock, ExchangeAccepted, ExchangeRefused, ExchangeUnavailable,
                  CallUpstream, Resend, NextOperation
    <3>2. \A q \in Requests : pc'[q] \in {"broken", "abort"} => pc'[q] = pc[q]
      BY <2>8 DEF Route, LoadCredential, LoadSecret, LoadForReactiveRefresh, AcquireLock,
                  ReadUnderLock, ExchangeAccepted, ExchangeRefused, ExchangeUnavailable,
                  RetryOrGiveUp, CallUpstream, Resend, NextOperation, Goto
    <3> QED
      BY <3>1, <3>2 DEF AbortsExplained
  <2> QED
    BY <1>1, <2>1, <2>2, <2>3, <2>4, <2>5, <2>6, <2>7, <2>8 DEF RequestStep
<1>2. ASSUME NEW r \in Requests, Crash(r) PROVE AbortsExplained'
  BY <1>2 DEF Crash, RollbackTx, EndTx, EndRequest, LostWith, Goto, AbortsExplained
<1>3. CASE TimePasses \/ LockExpires \/ AllEnded \/ UNCHANGED vars
  BY <1>3 DEF TimePasses, LockExpires, AllEnded, vars, AbortsExplained
<1>4. ASSUME NEW o \in Operators, OperatorStep(o) PROVE AbortsExplained'
  <2>1. UNCHANGED <<pc, lost>> /\ \A r \in Requests : writes'[r] = writes[r]
    BY <1>4, ProcessesAssumption
       DEF OperatorStep, LoadForOperator, Disable, Enable, NothingToSet, DeleteSecret, SetEnabled,
           FlushStatus, StampDeleted, CommitOperator, CommitTx, EndTx
  <2> QED
    BY <2>1 DEF AbortsExplained
<1> QED
  BY <1>1, <1>2, <1>3, <1>4 DEF Next

(* The inductive invariant holds initially, *)
LEMMA IInvInit == Init => IInv
BY TypesInit, DeleteInit, RotationInit DEF IInv

(* is kept by every step, and no step replaces a bundle by an older one. *)
LEMMA IInvNext == IInv /\ [Next]_vars => IInv' /\ (Rotates => secret' = 0 \/ secret' >= secret)
<1> SUFFICES ASSUME IInv, [Next]_vars
             PROVE  IInv' /\ (Rotates => secret' = 0 \/ secret' >= secret)
  OBVIOUS
<1>1. TypeOK' /\ DeleteInv'
  BY TypesNext, DeleteNext DEF IInv
<1>2. Rotates => RotationParts' /\ (secret' = 0 \/ secret' >= secret)
  BY <1>1, RotationNext DEF IInv, RotationInv, RotationParts
<1>3. Rotates => AbortsExplained'
  BY AbortsNext DEF IInv, RotationInv, RotationParts
<1> QED
  BY <1>1, <1>2, <1>3 DEF IInv, RotationInv, RotationParts

(* With a provider that spends refresh tokens, the token it honours is in  *)
(* the database, or in exactly the hands that will put it there, or it was *)
(* lost for a reason on record: a reply lost or unusable, a crash, or,     *)
(* without any fault, a lock that expired under its holder or could not be *)
(* had again.  Overlapping refreshes and late commits do not lose it.      *)
THEOREM NewestTokenAccounted == Spec => []RotationAccounted
<1>1. IInv => RotationAccounted
  BY DEF IInv, RotationInv, RotationAccounted
<1> QED
  BY IInvInit, IInvNext, <1>1, PTL DEF Spec

(* A stored bundle is never replaced by an older one.                      *)
THEOREM StoredTokenIsMonotonic == Spec => StoredNeverRegresses
<1>1. IInv /\ [Next]_vars => [Rotates => secret' = 0 \/ secret' >= secret]_vars
  BY IInvNext
<1> QED
  BY IInvInit, IInvNext, <1>1, PTL DEF Spec, StoredNeverRegresses
================================================================================
