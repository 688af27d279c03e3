----------------------------- MODULE PendingConnect -----------------------------
(***************************************************************************)
(* Connecting an upstream account: the OAuth redirect flow, the            *)
(* device-code flow and API keys.  Begin leaves a challenge in Redis       *)
(* under an opaque pending id; a completion reads it, redeems the          *)
(* operator's authorization code at the provider, adds the account to its  *)
(* transaction, deletes the challenge, and commits.  Nothing joins these   *)
(* steps: completions of one challenge overlap, the key expires between    *)
(* them, the provider's reply is lost, and any of them may fail.           *)
(*                                                                         *)
(* A call is made once: a repeated submission is another call.             *)
(***************************************************************************)
EXTENDS Naturals

CONSTANTS
    Calls,          \* completions and API-key connects
    Pendings,       \* pending ids, each drawn at random once
    Flow,           \* the flow each pending id is begun with
    Codes,          \* authorization codes
    Key,            \* an API key, where a call has no code
    NoChallenge,    \* ... and no pending id
    MaxAttempts     \* GOZAR_UPSTREAM_MAX_ATTEMPTS

Flows  == {"redirect", "device"}
Kinds  == Flows \cup {"key"}
States == {"right", "wrong", "none"}     \* the anti-CSRF state handed in

ASSUME FlowAssumption     == Flow \in [Pendings -> Flows]
ASSUME NoneAssumption     == Key \notin Codes /\ NoChallenge \notin Pendings
ASSUME AttemptsAssumption == MaxAttempts \in Nat \ {0}

VARIABLES
    begun,          \* pending ids handed out
    store,          \* those whose key acct:pending_connect:<id> is in Redis
    expired,        \* history: those whose key ran out
    grants,         \* provider: <<code, pending id>> it has issued a code for
    honoured,       \* provider: <<call, code>> it has said yes to
    pc, call,       \* where each call is, and what it was asked
    tries,          \* attempts of UpstreamClient.request so far
    accounts        \* committed acct_upstream_credential rows

challenge == <<begun, store, expired>>
provider  == <<grants, honoured>>
vars      == <<challenge, provider, pc, call, tries, accounts>>

Ended == {"connected",      \* 2xx with the account
          "pending",        \* 2xx, the operator has yet to approve
          "forged", "rejected", "refused", "unknown",   \* ValidationError
          "failed"}         \* anything else
PCs   == {"idle", "look", "poll", "send", "persist", "consume", "discard", "commit"}
         \cup Ended
Call  == [kind : Kinds, pending : Pendings \cup {NoChallenge},
          code : Codes \cup {Key}, state : States]
NoCall == [kind |-> "key", pending |-> NoChallenge, code |-> Key, state |-> "none"]

Kind(q)    == call[q].kind
Pending(q) == call[q].pending
Code(q)    == call[q].code
Open(q)    == pc[q] \notin Ended \cup {"idle"}
Paid(q)    == <<q, Code(q)>> \in honoured

Goto(q, label) == pc' = [pc EXCEPT ![q] = label]

Init ==
    /\ begun = {} /\ store = {} /\ expired = {}
    /\ grants = {} /\ honoured = {}
    /\ pc = [q \in Calls |-> "idle"]
    /\ call = [q \in Calls |-> NoCall]
    /\ tries = [q \in Calls |-> 0]
    /\ accounts = {}

--------------------------------------------------------------------------------
(* begin_subscription_connect and begin_device_subscription_connect: what   *)
(* fails before the put leaves nothing behind.                              *)
Begin(p) ==
    /\ p \notin begun
    /\ begun' = begun \cup {p}
    /\ store' = store \cup {p}
    /\ UNCHANGED <<expired, provider, pc, call, tries, accounts>>

(* The key's TTL: 600 s, or 900 s for a device code.                        *)
Expire(p) ==
    /\ p \in store
    /\ store' = store \ {p}
    /\ expired' = expired \cup {p}
    /\ UNCHANGED <<begun, provider, pc, call, tries, accounts>>

(* The operator consents at the provider, which issues a code bound to the  *)
(* challenge: one per device code, one per visit of an authorize URL.       *)
Consent(c, p) ==
    /\ p \in begun
    /\ \A g \in grants : g[1] # c /\ (Flow[p] = "device" => g[2] # p)
    /\ grants' = grants \cup {<<c, p>>}
    /\ UNCHANGED <<challenge, honoured, pc, call, tries, accounts>>

(* A completion names a pending id it was given and pastes a code, of this  *)
(* or another challenge or of none, with a state or without; a device       *)
(* completion has no code yet.                                              *)
Ask(q) ==
    /\ pc[q] = "idle"
    /\ \/ \E p \in begun, c \in Codes, st \in States :
            /\ call' = [call EXCEPT ![q] = [kind |-> "redirect", pending |-> p,
                                            code |-> c, state |-> st]]
            /\ Goto(q, "look")
       \/ \E p \in begun :
            /\ call' = [call EXCEPT ![q].kind = "device", ![q].pending = p]
            /\ Goto(q, "look")
       \/ Goto(q, "send") /\ UNCHANGED call
    /\ UNCHANGED <<challenge, provider, tries, accounts>>

--------------------------------------------------------------------------------
(* The completion's store.get and the checks on what it has read.  A device *)
(* challenge has no state: any state handed in with it is a mismatch.       *)
Matches(q) ==
    \/ call[q].state = "none"
    \/ call[q].state = "right" /\ Flow[Pending(q)] = "redirect"

Look(q) ==
    /\ pc[q] = "look"
    /\ \/ Pending(q) \notin store /\ Goto(q, "unknown")
       \/ /\ Pending(q) \in store
          /\ \/ Kind(q) = "redirect" /\ ~Matches(q) /\ Goto(q, "discard")
             \/ Kind(q) = "redirect" /\ Matches(q) /\ Goto(q, "send")
             \/ Kind(q) = "device" /\ Flow[Pending(q)] # "device" /\ Goto(q, "refused")
             \/ Kind(q) = "device" /\ Flow[Pending(q)] = "device" /\ Goto(q, "poll")
    /\ UNCHANGED <<challenge, provider, call, tries, accounts>>

(* The device endpoint: not approved yet; a code; or an error, which takes  *)
(* the challenge with it (as does an approval without a code).              *)
PollConsuming(q) ==                 \* defect variant: every answer consumes
    /\ pc[q] = "poll"
    /\ Goto(q, "pending")
    /\ store' = store \ {Pending(q)}
    /\ UNCHANGED <<begun, expired, provider, call, tries, accounts>>
Poll(q) ==
    /\ pc[q] = "poll"
    /\ \/ Goto(q, "pending") /\ UNCHANGED call
       \/ Goto(q, "discard") /\ UNCHANGED call
       \/ \E g \in grants :
            /\ g[2] = Pending(q)
            /\ call' = [call EXCEPT ![q].code = g[1]]
            /\ Goto(q, "send")
    /\ UNCHANGED <<challenge, provider, tries, accounts>>

(* A code is good once, with the verifier of the challenge it was issued    *)
(* for: the stored one, or the one the device endpoint hands out.           *)
Redeemable(q) ==
    /\ <<Code(q), Pending(q)>> \in grants
    /\ Kind(q) = Flow[Pending(q)]
    /\ \A h \in honoured : h[2] # Code(q)

(* What an exchange's failure does: the redirect flow keeps the challenge.  *)
GiveUpAnyway(q) == Goto(q, "persist")   \* defect variant: the error is swallowed
GiveUp(q) == Goto(q, IF Kind(q) = "device" THEN "discard" ELSE "refused")

RetryOnceMore(q) ==                 \* defect variant: one attempt too many
    /\ tries' = [tries EXCEPT ![q] = @ + 1]
    /\ \/ tries[q] + 1 <= MaxAttempts /\ UNCHANGED pc
       \/ tries[q] + 1 > MaxAttempts /\ GiveUp(q)
RetryForever(q) ==                  \* defect variant: attempts are never used up
    /\ tries' = [tries EXCEPT ![q] = IF @ + 1 < MaxAttempts THEN @ + 1 ELSE 0]
    /\ UNCHANGED pc
RetryOrGiveUp(q) ==
    /\ tries' = [tries EXCEPT ![q] = @ + 1]
    /\ \/ tries[q] + 1 < MaxAttempts /\ UNCHANGED pc
       \/ tries[q] + 1 >= MaxAttempts /\ GiveUp(q)

(* UpstreamClient.request with the code: the provider redeems it, and its   *)
(* reply comes through, has no access token (or is not JSON), or is lost.   *)
Exchange(q) ==
    /\ pc[q] = "send" /\ Kind(q) # "key"
    /\ Redeemable(q)
    /\ honoured' = honoured \cup {<<q, Code(q)>>}
    /\ \/ Goto(q, "persist") /\ UNCHANGED tries
       \/ \E l \in {"refused", "failed"} : Goto(q, l) /\ UNCHANGED tries
       \/ RetryOrGiveUp(q)
    /\ UNCHANGED <<challenge, grants, call, accounts>>

(* connect_api_key's models list.                                           *)
Validate(q) ==
    /\ pc[q] = "send" /\ Kind(q) = "key"
    /\ honoured' = honoured \cup {<<q, Key>>}
    /\ \/ Goto(q, "persist") /\ UNCHANGED tries
       \/ RetryOrGiveUp(q)
    /\ UNCHANGED <<challenge, grants, call, accounts>>

(* 4xx at once; 429, 5xx and connection errors after the last attempt.      *)
NotAccepted(q) ==
    /\ pc[q] = "send"
    /\ \/ GiveUp(q) /\ UNCHANGED tries
       \/ RetryOrGiveUp(q)
    /\ UNCHANGED <<challenge, provider, call, accounts>>

--------------------------------------------------------------------------------
(* The flushes of _persist_subscription_credential, or of connect_api_key.  *)
PersistOnly(q) ==                   \* defect variant: the challenge is kept
    /\ pc[q] = "persist"
    /\ Goto(q, "commit")
    /\ UNCHANGED <<challenge, provider, call, tries, accounts>>
Persist(q) ==
    /\ pc[q] = "persist"
    /\ Goto(q, IF Kind(q) = "key" THEN "commit" ELSE "consume")
    /\ UNCHANGED <<challenge, provider, call, tries, accounts>>

Consume(q) ==
    /\ pc[q] = "consume"
    /\ store' = store \ {Pending(q)}
    /\ Goto(q, "commit")
    /\ UNCHANGED <<begun, expired, provider, call, tries, accounts>>

Discard(q) ==
    /\ pc[q] = "discard"
    /\ store' = store \ {Pending(q)}
    /\ Goto(q, IF Kind(q) = "redirect" THEN "forged" ELSE "rejected")
    /\ UNCHANGED <<begun, expired, provider, call, tries, accounts>>

(* get_session's commit; the database's confirmation may be lost.           *)
CommitUnchecked(q) ==               \* defect variant: a failed commit is not noticed
    /\ pc[q] = "commit"
    /\ accounts' \in {accounts, accounts \cup {[by |-> q, code |-> Code(q)]}}
    /\ Goto(q, "connected")
    /\ UNCHANGED <<challenge, provider, call, tries>>
Commit(q) ==
    /\ pc[q] = "commit"
    /\ accounts' = accounts \cup {[by |-> q, code |-> Code(q)]}
    /\ \E l \in {"connected", "failed"} : Goto(q, l)
    /\ UNCHANGED <<challenge, provider, call, tries>>

(* Redis, the database, an HTTP call outside UpstreamClient, or the worker  *)
(* fails: get_session rolls back, nothing else is undone.                   *)
Fail(q) ==
    /\ Open(q)
    /\ Goto(q, "failed")
    /\ UNCHANGED <<challenge, provider, call, tries, accounts>>

Serve(q) ==
    \/ Look(q) \/ Poll(q) \/ Exchange(q) \/ Validate(q) \/ NotAccepted(q)
    \/ Persist(q) \/ Consume(q) \/ Discard(q) \/ Commit(q)

Next ==
    \/ \E p \in Pendings : Begin(p) \/ Expire(p) \/ \E c \in Codes : Consent(c, p)
    \/ \E q \in Calls : Ask(q) \/ Serve(q) \/ Fail(q)

Spec == Init /\ [][Next]_vars
FairSpec == Spec /\ \A q \in Calls : WF_vars(Serve(q))

--------------------------------------------------------------------------------
(* Every variable has its type.                                             *)
TypeOK ==
    /\ begun \subseteq Pendings /\ store \subseteq begun /\ expired \subseteq begun
    /\ grants \subseteq Codes \X Pendings
    /\ honoured \subseteq Calls \X (Codes \cup {Key})
    /\ pc \in [Calls -> PCs]
    /\ call \in [Calls -> Call]
    /\ tries \in [Calls -> 0..MaxAttempts]
    /\ accounts \subseteq [by : Calls, code : Codes \cup {Key}]

(* An account exists only because the provider said yes to the call that    *)
(* stored it, a subscription's with a code issued for that call's           *)
(* challenge; and one code makes one account, however often it is           *)
(* submitted and however often the exchange is retried.                     *)
PaidOnce ==
    \A a \in accounts :
      /\ <<a.by, a.code>> \in honoured
      /\ a.code # Key => /\ <<a.code, Pending(a.by)>> \in grants
                         /\ \A b \in accounts : b.code = a.code => b = a

ConsumedBySuccess ==
    \A a \in accounts : a.code # Key => Pending(a.by) \in begun \ store
ConsumedByRefusal ==
    \A q \in Calls : pc[q] \in {"forged", "rejected"} => Pending(q) \in begun \ store

(* complete_subscription_connect: "the pending state is consumed on         *)
(* success", and on a mismatched state or a rejected device code: once an   *)
(* account is stored, or a completion refused for good, its challenge is    *)
(* gone, so that a later completion is refused.                             *)
ConsumedForGood == ConsumedBySuccess /\ ConsumedByRefusal

(* A challenge goes for a reason only: it expired, a completion was caught  *)
(* forging or rejected, or one had its code redeemed.  Polling before the   *)
(* approval, another challenge's code or a refused exchange of the          *)
(* redirect flow leave it.  (That it is consumed "on a definitive           *)
(* validation failure" does not say whether a refused exchange is one: it   *)
(* may be an outage, and the code keeps the challenge.)                     *)
ConsumedForCause ==
    \A p \in begun \ store :
      \/ p \in expired
      \/ \E q \in Calls :
           /\ Pending(q) = p /\ Kind(q) # "key"
           /\ \/ pc[q] \in {"forged", "rejected"}
              \/ Paid(q) /\ pc[q] \in {"commit", "connected", "failed"}

(* The answer tells what was stored: "connected" only with the account      *)
(* committed, a ValidationError or "pending" only without one; and a call   *)
(* refused as forged never reached the provider.                            *)
AnswerIsTrue ==
    \A q \in Calls :
      /\ pc[q] = "connected" => \E a \in accounts : a.by = q
      /\ (\E a \in accounts : a.by = q) => pc[q] \in {"connected", "failed"}
      /\ pc[q] \in {"forged", "unknown", "pending"} => ~\E h \in honoured : h[1] = q

(* Every call is answered, whatever expires, is retried or fails.           *)
EveryCallEnds == \A q \in Calls : Open(q) ~> ~Open(q)
================================================================================
