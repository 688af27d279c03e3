-------------------------- MODULE SubscriptionRefresh --------------------------
(***************************************************************************)
(* One subscription account: gateway requests that renew its token lazily  *)
(* (before the call) or reactively (after a 401), console sessions that    *)
(* disable, enable or delete it, the Redis lock between the refreshes, the *)
(* database transactions around everything, and the provider.              *)
(*                                                                         *)
(* A bundle is its issue number: 0 is "no row", the provider honours the   *)
(* refresh token of bundle number `latest`.  READ COMMITTED: a transaction *)
(* reads what is committed under its own flushed writes, and a flushed     *)
(* write holds its row's lock until the transaction ends.  Whether a token *)
(* is due for renewal depends on the clock alone and is left open.         *)
(***************************************************************************)
EXTENDS Naturals, FiniteSets

CONSTANTS
    Requests,       \* gateway requests that may be routed to the account
    Operators,      \* console sessions acting on the account
    Rotates,        \* TRUE: accepting a refresh token spends it
    MaxAttempts,    \* upstream_max_attempts
    OperationTime,  \* upstream_request_timeout_seconds, in ticks
    BackoffTime,    \* the longest delay between two attempts, in ticks
    LockTTL,        \* _REFRESH_LOCK_TIMEOUT_SECONDS, in ticks
    MaxFaults,      \* bound: crashes, outages and lost or unusable replies
    NoOne           \* "the lock is free"

ASSUME ProcessesAssumption ==
    /\ Requests \cap Operators = {}
    /\ NoOne \notin Requests
ASSUME ParametersAssumption ==
    /\ Rotates \in BOOLEAN
    /\ MaxAttempts \in Nat \ {0}
    /\ OperationTime \in Nat /\ BackoffTime \in Nat
    /\ LockTTL \in Nat
    /\ MaxFaults \in Nat

VARIABLES
    status,         \* committed upstream_credentials.status
    deleted,        \* committed upstream_credentials.deleted_at is set
    secret,         \* committed subscription_secrets row: its bundle, 0 if none
    renewable,      \* the stored bundle has a refresh token (never changes)
    latest,         \* newest bundle the provider has issued
    lockOwner,      \* who holds acct:refresh_lock:<id>
    lockAge,        \* ticks since the lock was taken
    writes,         \* columns each open transaction has flushed
    newStatus,      \* ... the status among them
    newSecret,      \* ... and the bundle among them
    pc,             \* where each request is
    phase,          \* before, in or after its one reactive refresh
    seen,           \* the status of the credential it has loaded
    gen,            \* the bundle it has in hand
    tries,          \* exchange attempts that have failed
    waited,         \* ticks the current operation or delay has taken
    op,             \* the console sessions
    faults,         \* faults so far
    lost            \* why a newest bundle reached no one or went with its holder

account   == <<status, deleted, secret, renewable>>
lock      == <<lockOwner, lockAge>>
tx        == <<writes, newStatus, newSecret>>
clock     == <<tries, waited>>
locals    == <<phase, seen, gen, clock>>
history   == <<faults, lost>>
vars      == <<account, latest, lock, tx, pc, locals, op, history>>

Statuses  == {"active", "disabled", "reauth"}
Columns   == {"status", "deleted", "secret"}
Sessions  == Requests \cup Operators

RequestPCs ==
    {"start", "acquire", "secret", "reactive", "lock", "read", "exchange", "backoff", "store",
     "mark", "refreshed", "failed", "broken", "call", "commit", "abort", "done", "aborted"}
Releasing == {"refreshed", "failed", "broken"}   \* about to release the lock
Phases == {"first", "reactive", "again"}

OperatorPCs == {"idle", "loaded", "stamp", "commit", "done"}
Kinds == {"disable", "enable", "delete"}
Operator == [pc : OperatorPCs, kind : Kinds, status : Statuses]
NewOperator == [pc |-> "idle", kind |-> "disable", status |-> "active"]

Init ==
    /\ status \in {"active", "disabled"} /\ deleted = FALSE /\ secret = 1
    /\ renewable \in BOOLEAN
    /\ latest = 1
    /\ lockOwner = NoOne /\ lockAge = 0
    /\ writes = [t \in Sessions |-> {}]
    /\ newStatus = [t \in Sessions |-> "active"]
    /\ newSecret = [t \in Sessions |-> 0]
    /\ pc = [r \in Requests |-> "start"]
    /\ phase = [r \in Requests |-> "first"]
    /\ seen = [r \in Requests |-> "active"]
    /\ gen = [r \in Requests |-> 0]
    /\ tries = [r \in Requests |-> 0]
    /\ waited = [r \in Requests |-> 0]
    /\ op = [o \in Operators |-> NewOperator]
    /\ faults = 0 /\ lost = {}

--------------------------------------------------------------------------------
(* What a transaction sees, and which rows another one has locked. *)

SeenStatus(t)  == IF "status" \in writes[t] THEN newStatus[t] ELSE status
SeenSecret(t)  == IF "secret" \in writes[t] THEN newSecret[t] ELSE secret
CredentialRowFree(t) ==
    \A u \in Sessions \ {t} : writes[u] \cap {"status", "deleted"} = {}
SecretRowFree(t) ==
    \A u \in Sessions \ {t} : "secret" \notin writes[u]

EndTx(t) ==
    /\ writes' = [writes EXCEPT ![t] = {}]
    /\ newStatus' = [newStatus EXCEPT ![t] = "active"]
    /\ newSecret' = [newSecret EXCEPT ![t] = 0]

(* COMMIT publishes the flushed columns and frees the rows. *)
CommitTx(t) ==
    /\ EndTx(t)
    /\ status' = SeenStatus(t)
    /\ secret' = SeenSecret(t)
    /\ deleted' = (deleted \/ "deleted" \in writes[t])
    /\ UNCHANGED renewable

(* A bundle the provider counts as issued that only this request has: what *)
(* ends the request without a commit ends the bundle.                      *)
Carries(r) == pc[r] = "store" \/ "secret" \in writes[r]
LostWith(r, cause) == lost' = IF Carries(r) THEN lost \cup {cause} ELSE lost

(* Defect variant: the failed session is never rolled back. *)
LeakTx(r) == UNCHANGED <<account, tx>>

(* ROLLBACK forgets the flushed columns and frees the rows. *)
RollbackTx(r) == EndTx(r) /\ UNCHANGED account

FlushStatus(t, s) ==
    /\ writes' = [writes EXCEPT ![t] = @ \cup {"status"}]
    /\ newStatus' = [newStatus EXCEPT ![t] = s]
    /\ UNCHANGED newSecret

Goto(r, p) == pc' = [pc EXCEPT ![r] = p]

(* The coroutine's frame is gone. *)
EndRequest(r, p) ==
    /\ Goto(r, p)
    /\ phase' = [phase EXCEPT ![r] = "first"]
    /\ seen' = [seen EXCEPT ![r] = "active"]
    /\ gen' = [gen EXCEPT ![r] = 0]
    /\ tries' = [tries EXCEPT ![r] = 0]
    /\ waited' = [waited EXCEPT ![r] = 0]

--------------------------------------------------------------------------------
(* Acquiring the material: get_usable_token. *)

(* The routing snapshot offers the account only while it is active. *)
Route(r) ==
    /\ pc[r] = "start"
    /\ Goto(r, IF status = "active" /\ ~deleted THEN "acquire" ELSE "commit")
    /\ UNCHANGED <<account, latest, lock, tx, locals, op, history>>

(* NotFound and NoAvailableAccount are GozarErrors: the request goes on to *)
(* its commit.                                                             *)
LoadCredential(r) ==
    /\ pc[r] = "acquire"
    /\ seen' = [seen EXCEPT ![r] = SeenStatus(r)]
    /\ Goto(r, IF deleted \/ SeenStatus(r) = "reauth" THEN "commit" ELSE "secret")
    /\ UNCHANGED <<account, latest, lock, tx, phase, gen, clock, op, history>>

LoadSecret(r) ==
    /\ pc[r] = "secret"
    /\ gen' = [gen EXCEPT ![r] = SeenSecret(r)]
    /\ \/ SeenSecret(r) = 0 /\ Goto(r, "commit")
       \/ SeenSecret(r) # 0 /\ \E next \in {"lock", "call"} : Goto(r, next)
    /\ UNCHANGED <<account, latest, lock, tx, phase, seen, clock, op, history>>

(* refresh_subscription after an upstream 401 loads the credential anew.   *)
LoadForReactiveRefresh(r) ==
    /\ pc[r] = "reactive"
    /\ seen' = [seen EXCEPT ![r] = SeenStatus(r)]
    /\ Goto(r, IF deleted THEN "commit" ELSE "lock")
    /\ UNCHANGED <<account, latest, lock, tx, phase, gen, clock, op, history>>

--------------------------------------------------------------------------------
(* The locked section: refresh_subscription. *)

AcquireLock(r) ==
    /\ pc[r] = "lock" /\ lockOwner = NoOne
    /\ lockOwner' = r /\ lockAge' = 0
    /\ Goto(r, "read")
    /\ UNCHANGED <<account, latest, tx, locals, op, history>>

(* blocking_timeout ran out: LockError is no GozarError, so the request    *)
(* rolls back, with the bundle of its lazy refresh if this is the reactive *)
(* one.                                                                    *)
LockTimeout(r) ==
    /\ pc[r] = "lock" /\ lockOwner # NoOne
    /\ LostWith(r, "lock")
    /\ Goto(r, "abort")
    /\ UNCHANGED <<account, latest, lock, tx, locals, op, faults>>

(* session.get inside the lock.  On the lazy path the caller still holds   *)
(* the row it loaded before, and the identity map returns that object.     *)
SecretUnderLock(r) == IF phase[r] = "reactive" THEN SeenSecret(r) ELSE gen[r]

ReadUnderLock(r) ==
    /\ pc[r] = "read"
    /\ gen' = [gen EXCEPT ![r] = SecretUnderLock(r)]
    /\ \/ SecretUnderLock(r) = 0 /\ Goto(r, "failed")
       \/ SecretUnderLock(r) # 0 /\ Goto(r, IF renewable THEN "exchange" ELSE "mark")
    /\ UNCHANGED <<account, latest, lock, tx, phase, seen, clock, op, history>>

ResetClock(r) ==
    /\ tries' = [tries EXCEPT ![r] = 0]
    /\ waited' = [waited EXCEPT ![r] = 0]

(* UpstreamClient retries transport errors, 429 and 5xx with the same      *)
(* refresh token, after a delay, then raises UpstreamError.                *)
RetryOrGiveUp(r) ==
    \/ /\ tries[r] + 1 < MaxAttempts
       /\ tries' = [tries EXCEPT ![r] = @ + 1]
       /\ waited' = [waited EXCEPT ![r] = 0]
       /\ Goto(r, "backoff")
    \/ /\ tries[r] + 1 >= MaxAttempts
       /\ ResetClock(r)
       /\ Goto(r, "mark")

Resend(r) ==
    /\ pc[r] = "backoff"
    /\ waited' = [waited EXCEPT ![r] = 0]
    /\ Goto(r, "exchange")
    /\ UNCHANGED <<account, latest, lock, tx, phase, seen, gen, tries, op, history>>

(* Connected, the request written, a part of the reply read: httpx times   *)
(* each operation of an attempt alone, never the whole of it.              *)
NextOperation(r) ==
    /\ pc[r] = "exchange" /\ waited[r] > 0
    /\ waited' = [waited EXCEPT ![r] = 0]
    /\ UNCHANGED <<account, latest, lock, tx, pc, phase, seen, gen, tries, op, history>>

ProviderAccepts(r) == Rotates => gen[r] = latest

(* Defect variant: the old token takes precedence over the new one. *)
KeepOldRefreshToken(r) == gen[r]

(* The refresh token of the new bundle: the answer's, or else the old one. *)
NewBundle(r) == latest + 1

ExchangeAccepted(r) ==
    /\ pc[r] = "exchange" /\ ProviderAccepts(r)
    /\ latest' = latest + 1
    /\ gen' = [gen EXCEPT ![r] = NewBundle(r)]
    /\ ResetClock(r)
    /\ Goto(r, "store")
    /\ UNCHANGED <<account, lock, tx, phase, seen, op, history>>

(* A 4xx is an UpstreamError at once. *)
ExchangeRefused(r) ==
    /\ pc[r] = "exchange" /\ ~ProviderAccepts(r)
    /\ ResetClock(r)
    /\ Goto(r, "mark")
    /\ UNCHANGED <<account, latest, lock, tx, phase, seen, gen, op, history>>

Fault == faults < MaxFaults /\ faults' = faults + 1

ExchangeUnavailable(r) ==
    /\ pc[r] = "exchange" /\ Fault
    /\ RetryOrGiveUp(r)
    /\ UNCHANGED <<account, latest, lock, tx, phase, seen, gen, op, lost>>

ExchangeReplyLost(r) ==
    /\ pc[r] = "exchange" /\ ProviderAccepts(r) /\ Fault
    /\ latest' = latest + 1 /\ lost' = lost \cup {"fault"}
    /\ RetryOrGiveUp(r)
    /\ UNCHANGED <<account, lock, tx, phase, seen, gen, op>>

(* A 200 without an access token is a failed refresh; one that is not JSON *)
(* raises ValueError and aborts the request.                               *)
ExchangeReplyUnusable(r) ==
    /\ pc[r] = "exchange" /\ ProviderAccepts(r) /\ Fault
    /\ latest' = latest + 1 /\ lost' = lost \cup {"fault"}
    /\ ResetClock(r)
    /\ \E next \in {"mark", "broken"} : Goto(r, next)
    /\ UNCHANGED <<account, lock, tx, phase, seen, gen, op>>

(* Defect variant: the flush writes the row whether or not it is there. *)
RowAssumedPresent(r) == FALSE

(* An UPDATE of a secret that is gone raises StaleDataError. *)
RowGone(r) == SeenSecret(r) = 0

StoreFails(r) ==
    /\ pc[r] = "store" /\ SecretRowFree(r) /\ RowGone(r)
    /\ Goto(r, "broken")
    /\ UNCHANGED <<account, latest, lock, tx, locals, op, history>>

(* The flush updates the columns that differ from the rows as loaded: the  *)
(* status only if the loaded credential required reauthorization.          *)
StoreBundle(r) ==
    /\ pc[r] = "store" /\ SecretRowFree(r) /\ ~RowGone(r)
    /\ newSecret' = [newSecret EXCEPT ![r] = gen[r]]
    /\ \/ /\ seen[r] = "reauth" /\ CredentialRowFree(r)
          /\ writes' = [writes EXCEPT ![r] = @ \cup {"secret", "status"}]
          /\ newStatus' = [newStatus EXCEPT ![r] = "active"]
       \/ /\ seen[r] # "reauth"
          /\ writes' = [writes EXCEPT ![r] = @ \cup {"secret"}]
          /\ UNCHANGED newStatus
    /\ Goto(r, "refreshed")
    /\ UNCHANGED <<account, latest, lock, locals, op, history>>

(* Defect variant: a failed refresh also writes the bundle it had read. *)
MarkAndRewriteSecret(r) ==
    /\ pc[r] = "mark" /\ CredentialRowFree(r) /\ SecretRowFree(r)
    /\ writes' = [writes EXCEPT ![r] = @ \cup {"status", "secret"}]
    /\ newStatus' = [newStatus EXCEPT ![r] = "reauth"]
    /\ newSecret' = [newSecret EXCEPT ![r] = gen[r]]
    /\ Goto(r, "failed")
    /\ UNCHANGED <<account, latest, lock, locals, op, history>>

MarkRequiresReauth(r) ==
    /\ pc[r] = "mark"
    /\ \/ seen[r] = "reauth" /\ UNCHANGED tx
       \/ /\ seen[r] # "reauth" /\ CredentialRowFree(r)
          /\ FlushStatus(r, "reauth")
    /\ Goto(r, "failed")
    /\ UNCHANGED <<account, latest, lock, locals, op, history>>

(* After a lazy refresh the call follows; after a reactive one the material *)
(* is acquired again.                                                       *)
ReleaseLock(r) ==
    /\ pc[r] \in Releasing /\ lockOwner = r
    /\ lockOwner' = NoOne /\ lockAge' = 0
    /\ \/ pc[r] = "refreshed" /\ phase[r] # "reactive" /\ Goto(r, "call") /\ UNCHANGED phase
       \/ /\ pc[r] = "refreshed" /\ phase[r] = "reactive"
          /\ Goto(r, "acquire")
          /\ phase' = [phase EXCEPT ![r] = "again"]
       \/ pc[r] = "failed" /\ Goto(r, "commit") /\ UNCHANGED phase
       \/ pc[r] = "broken" /\ Goto(r, "abort") /\ UNCHANGED phase
    /\ UNCHANGED <<account, latest, tx, seen, gen, clock, op, history>>

(* Releasing a lock Redis has expired raises LockNotOwnedError: what was   *)
(* refreshed is rolled back.                                               *)
ReleaseFails(r) ==
    /\ pc[r] \in Releasing /\ lockOwner # r
    /\ LostWith(r, "lock")
    /\ Goto(r, "abort")
    /\ UNCHANGED <<account, latest, lock, tx, locals, op, faults>>

--------------------------------------------------------------------------------
(* The upstream call and the end of the request. *)

(* Success and every failure but a first 401 end the attempt. *)
CallUpstream(r) ==
    /\ pc[r] = "call"
    /\ \/ Goto(r, "commit") /\ UNCHANGED phase
       \/ /\ phase[r] = "first"
          /\ phase' = [phase EXCEPT ![r] = "reactive"]
          /\ Goto(r, "reactive")
    /\ UNCHANGED <<account, latest, lock, tx, seen, gen, clock, op, history>>

CommitRequest(r) ==
    /\ pc[r] = "commit"
    /\ CommitTx(r)
    /\ EndRequest(r, "done")
    /\ UNCHANGED <<latest, lock, op, history>>

AbortRequest(r) ==
    /\ pc[r] = "abort"
    /\ RollbackTx(r)
    /\ EndRequest(r, "aborted")
    /\ UNCHANGED <<latest, lock, op, history>>

(* The process dies: its transaction rolls back, its Redis lock stays.  A  *)
(* lost connection or any other unexpected error has the same effect.      *)
Crash(r) ==
    /\ pc[r] \notin {"start", "done", "aborted"} /\ Fault
    /\ LostWith(r, "fault")
    /\ RollbackTx(r)
    /\ EndRequest(r, "aborted")
    /\ UNCHANGED <<latest, lock, op>>

RequestStep(r) ==
    \/ Route(r) \/ LoadCredential(r) \/ LoadSecret(r) \/ LoadForReactiveRefresh(r)
    \/ AcquireLock(r) \/ LockTimeout(r) \/ ReadUnderLock(r)
    \/ ExchangeAccepted(r) \/ ExchangeRefused(r) \/ ExchangeUnavailable(r)
    \/ ExchangeReplyLost(r) \/ ExchangeReplyUnusable(r) \/ Resend(r)
    \/ StoreFails(r) \/ StoreBundle(r) \/ MarkRequiresReauth(r)
    \/ ReleaseLock(r) \/ ReleaseFails(r)
    \/ CallUpstream(r) \/ CommitRequest(r) \/ AbortRequest(r)

--------------------------------------------------------------------------------
(* Redis: time passes while the holder waits for the provider (each        *)
(* operation has its timeout), for its next attempt, for a locked row, or  *)
(* is dead; then the key expires.  Without the key nobody counts the time. *)

Patience(p) == IF p = "exchange" THEN OperationTime ELSE IF p = "backoff" THEN BackoffTime ELSE 0

HolderWaits(r) ==
    \/ waited[r] < Patience(pc[r])
    \/ pc[r] = "store" /\ ~SecretRowFree(r)
    \/ pc[r] \in {"store", "mark"} /\ ~CredentialRowFree(r)
    \/ pc[r] = "aborted"

TimePasses ==
    /\ lockOwner # NoOne /\ lockAge < LockTTL /\ HolderWaits(lockOwner)
    /\ lockAge' = lockAge + 1
    /\ waited' = [waited EXCEPT ![lockOwner] =
                    IF pc[lockOwner] \in {"exchange", "backoff"} THEN @ + 1 ELSE @]
    /\ UNCHANGED <<account, latest, lockOwner, tx, pc, phase, seen, gen, tries, op, history>>

(* Defect variant: the key has no TTL. *)
LockNeverExpires == FALSE /\ UNCHANGED vars

LockExpires ==
    /\ lockOwner # NoOne /\ lockAge = LockTTL
    /\ lockOwner' = NoOne /\ lockAge' = 0
    /\ UNCHANGED <<account, latest, tx, pc, locals, op, history>>

--------------------------------------------------------------------------------
(* Console sessions: set_enabled and delete, each in a transaction. *)

LoadForOperator(o, kind) ==
    /\ op[o].pc = "idle"
    /\ op' = [op EXCEPT ![o] = [pc |-> IF deleted THEN "done" ELSE "loaded",
                                kind |-> kind, status |-> status]]
    /\ UNCHANGED <<account, latest, lock, tx, pc, locals, history>>

SetEnabled(o, target) ==
    /\ FlushStatus(o, target)
    /\ CredentialRowFree(o)
    /\ op' = [op EXCEPT ![o].pc = "commit"]

Disable(o) ==
    /\ op[o].pc = "loaded" /\ op[o].kind = "disable" /\ op[o].status # "disabled"
    /\ SetEnabled(o, "disabled")
    /\ UNCHANGED <<account, latest, lock, pc, locals, history>>

Enable(o) ==
    /\ op[o].pc = "loaded" /\ op[o].kind = "enable" /\ op[o].status = "disabled"
    /\ SetEnabled(o, "active")
    /\ UNCHANGED <<account, latest, lock, pc, locals, history>>

(* The status already is what was asked for: nothing is flushed. *)
NothingToSet(o) ==
    /\ op[o].pc = "loaded"
    /\ \/ op[o].kind = "disable" /\ op[o].status = "disabled"
       \/ op[o].kind = "enable" /\ op[o].status # "disabled"
    /\ op' = [op EXCEPT ![o].pc = "commit"]
    /\ UNCHANGED <<account, latest, lock, tx, pc, locals, history>>

DeleteSecret(o) ==
    /\ op[o].pc = "loaded" /\ op[o].kind = "delete" /\ SecretRowFree(o)
    /\ writes' = [writes EXCEPT ![o] = {"secret"}]
    /\ newSecret' = [newSecret EXCEPT ![o] = 0]
    /\ op' = [op EXCEPT ![o].pc = "stamp"]
    /\ UNCHANGED <<account, latest, lock, newStatus, pc, locals, history>>

StampDeleted(o) ==
    /\ op[o].pc = "stamp" /\ CredentialRowFree(o)
    /\ writes' = [writes EXCEPT ![o] = @ \cup {"deleted"}]
    /\ op' = [op EXCEPT ![o].pc = "commit"]
    /\ UNCHANGED <<account, latest, lock, newStatus, newSecret, pc, locals, history>>

CommitOperator(o) ==
    /\ op[o].pc = "commit"
    /\ CommitTx(o)
    /\ op' = [op EXCEPT ![o].pc = "done"]
    /\ UNCHANGED <<latest, lock, pc, locals, history>>

OperatorStep(o) ==
    \/ \E kind \in Kinds : LoadForOperator(o, kind)
    \/ Disable(o) \/ Enable(o) \/ NothingToSet(o)
    \/ DeleteSecret(o) \/ StampDeleted(o) \/ CommitOperator(o)

Ended(r) == pc[r] \in {"done", "aborted"}

(* Every session has ended: the only states in which nothing more happens. *)
AllEnded ==
    /\ \A r \in Requests : Ended(r)
    /\ \A o \in Operators : op[o].pc = "done"
    /\ lockOwner = NoOne
    /\ UNCHANGED vars

Next ==
    \/ \E r \in Requests : RequestStep(r) \/ NextOperation(r) \/ Crash(r)
    \/ TimePasses \/ LockExpires
    \/ \E o \in Operators : OperatorStep(o)
    \/ AllEnded

(* Coroutines are scheduled, statements return, the clock advances.  No    *)
(* fairness is assumed of faults.                                          *)
Fairness ==
    /\ \A r \in Requests : WF_vars(RequestStep(r))
    /\ \A o \in Operators : WF_vars(OperatorStep(o))
    /\ WF_vars(TimePasses) /\ WF_vars(LockExpires)

Spec == Init /\ [][Next]_vars
FairSpec == Spec /\ Fairness

--------------------------------------------------------------------------------
(* Type invariant, with the bounds on retries and waiting; a request that  *)
(* has ended left no transaction open.                                      *)
TypeOK ==
    /\ status \in Statuses
    /\ deleted \in BOOLEAN
    /\ secret \in Nat
    /\ renewable \in BOOLEAN
    /\ latest \in Nat
    /\ lockOwner \in Requests \cup {NoOne}
    /\ lockAge \in 0..LockTTL
    /\ writes \in [Sessions -> SUBSET Columns]
    /\ newStatus \in [Sessions -> Statuses]
    /\ newSecret \in [Sessions -> Nat]
    /\ pc \in [Requests -> RequestPCs]
    /\ phase \in [Requests -> Phases]
    /\ seen \in [Requests -> Statuses]
    /\ gen \in [Requests -> Nat]
    /\ tries \in [Requests -> 0..(MaxAttempts - 1)]
    /\ waited \in [Requests -> Nat]
    /\ \A r \in Requests : waited[r] <= Patience(pc[r])
    /\ \A r \in Requests : Ended(r) => writes[r] = {}
    /\ op \in [Operators -> Operator]
    /\ faults \in 0..MaxFaults
    /\ lost \subseteq {"fault", "lock"}

(* delete: "no credential material remains".  A refresh in flight while the *)
(* account is deleted never brings the secret row back.                     *)
NoSecretAfterDelete == deleted => secret = 0

(* With a provider that spends refresh tokens, the one it honours is stored, *)
(* or a transaction in flight is about to store it, or it went for one of    *)
(* two reasons: a fault (a reply lost or unusable, a crash), or an error of  *)
(* the lock, which takes no fault: a holder that outlives the key's TTL has  *)
(* its refresh rolled back when it releases, and one that was refreshed and  *)
(* still got a 401 when it does not get the lock again in time.  Concurrency *)
(* and the late commit alone never lose it.                                  *)
Carried(r) ==
    \/ pc[r] = "store" /\ gen[r] = latest
    \/ "secret" \in writes[r] /\ newSecret[r] = latest
RotationAccounted ==
    Rotates /\ secret # 0 /\ lost = {} =>
        secret = latest \/ \E r \in Requests : Carried(r)

(* refresh_subscription: "observed rather than clobbered".  Whatever the    *)
(* interleaving, a stored bundle is never replaced by an older one.         *)
StoredNeverRegresses ==
    [][Rotates => secret' = 0 \/ secret' >= secret]_vars

(* _REFRESH_LOCK_TIMEOUT_SECONDS "comfortably covers a token exchange", so  *)
(* no two requests are in their exchanges at once.                          *)
ExchangeExclusive ==
    \A r, s \in Requests :
        {pc[r], pc[s]} \subseteq {"exchange", "backoff"} => r = s

(* refresh_subscription re-reads the bundle inside the lock "so a concurrent *)
(* refresh that already rotated the refresh token is observed": an account   *)
(* whose stored token the provider would accept is not sent to reauthorize.  *)
NoFalseReauth ==
    ~(status = "reauth" /\ renewable /\ secret # 0 /\ secret = latest)

(* Whatever happens to the lock, the rows or the other requests, every     *)
(* request is answered: blocking timeout and TTL break every wait.         *)
EveryRequestEnds == \A r \in Requests : <>Ended(r)

(* "A crashed holder cannot wedge an account forever." *)
LockEventuallyFree == \A r \in Requests : lockOwner = r ~> lockOwner # r
================================================================================
