------------------------------ MODULE ClientTokens ------------------------------
(***************************************************************************)
(* The API keys a console issues: calls that enable, disable, revoke and   *)
(* rotate a key, replace its usage limit, pin it to a fallback chain, and  *)
(* the deletion of that chain, each one transaction.                       *)
(*                                                                         *)
(* The database is READ COMMITTED: a call decides on the row it loaded,    *)
(* and its flush, which writes only the columns it changed, waits for the  *)
(* open transactions that hold the row, a unique key or a parent row.      *)
(* One chain stands for all of them.  A key is named by the call that      *)
(* issued it; `Seed` is a key from before.                                 *)
(***************************************************************************)
EXTENDS Naturals, FiniteSets, Relation

CONSTANTS
    Sessions,       \* console calls
    Ops,            \* the operations each call may be
    Metrics,        \* limit metrics
    Amounts,        \* limit values
    Specs,          \* the limits that are asked for
    Seed,           \* the key from before
    NoLimit         \* "no tok_usage_limit row"

Kinds  == {"create", "enable", "disable", "revoke", "rotate",
           "limit", "pin", "unpin", "drop"}
Tokens == Sessions \cup {Seed}
Limits == [metric : Metrics, amount : Amounts]

ASSUME NamesAssumption  == Seed \notin Sessions /\ NoLimit \notin Limits
ASSUME SpecsAssumption  == Specs \subseteq Limits
ASSUME OpsAssumption    == Ops \in [Sessions -> SUBSET Kinds]
ASSUME FiniteAssumption == IsFiniteSet(Sessions)

VARIABLES
    issued,         \* committed tok_client_token rows
    status,         \* ... their status
    pinned,         \* ... and whether they are assigned to the chain
    limit,          \* committed tok_usage_limit rows
    chain,          \* the committed route_fallback_chain row is there
    pc,             \* where each call is
    call,           \* what it was asked
    seen,           \* the columns it has loaded
    wrote,          \* what its open transaction has flushed
    overlap,        \* history: the calls that were open together with it
    revoked         \* history: keys a committed call has revoked

store   == <<issued, status, pinned, limit, chain>>
session == <<call, seen>>
vars    == <<store, pc, session, wrote, overlap, revoked>>

Statuses == {"active", "disabled", "revoked"}
Ended    == {"ok", "refused", "error"}
PCs      == {"idle", "load", "status", "readLimit", "requireChain", "issue",
             "limit", "pinRow", "pinParent", "drop", "unpinAll", "commit"} \cup Ended
Call     == [op : Kinds, token : Tokens, limit : Limits \cup {NoLimit}]
Seen     == [status : Statuses, pinned : BOOLEAN, limit : Limits \cup {NoLimit}]
Parts    == {"status", "pinned", "limit", "token", "chain", "unpinned"}

Unread   == [status |-> "active", pinned |-> FALSE, limit |-> NoLimit]

Open(s)   == pc[s] \notin Ended \cup {"idle"}
Token(s)  == call[s].token
Op(s)     == call[s].op
NewStatusUnmapped(s) == Op(s)       \* defect variant: stores the verb
NewStatus(s) == CASE Op(s) = "enable" -> "active"
                  [] Op(s) = "disable" -> "disabled"
                  [] OTHER -> "revoked"

Init ==
    /\ issued = {Seed}
    /\ \E st \in {"active", "disabled"} : status = [t \in Tokens |-> st]
    /\ \E p \in BOOLEAN : pinned = [t \in Tokens |-> t = Seed /\ p]
    /\ \E l \in Specs \cup {NoLimit} :
         limit = [t \in Tokens |-> IF t = Seed THEN l ELSE NoLimit]
    /\ chain = TRUE
    /\ pc = [s \in Sessions |-> "idle"]
    /\ call = [s \in Sessions |-> [op |-> "create", token |-> Seed, limit |-> NoLimit]]
    /\ seen = [s \in Sessions |-> Unread]
    /\ wrote = [s \in Sessions |-> {}]
    /\ overlap = [s \in Sessions |-> {}]
    /\ revoked = {}

--------------------------------------------------------------------------------
(* Which open transaction the next flush of s has to wait for. *)

HoldsRow(u, t) ==
    \/ Token(u) = t /\ wrote[u] \cap {"status", "pinned"} # {}
    \/ "unpinned" \in wrote[u] /\ pinned[t]
HoldsLimit(u, t) == Token(u) = t /\ "limit" \in wrote[u]
HoldsParent(u) ==                              \* KEY SHARE on the chain
    \/ Op(u) = "pin" /\ pc[u] = "commit" /\ "pinned" \in wrote[u]
    \/ "token" \in wrote[u] /\ seen[u].pinned

Blocks(u, s) ==
    \/ pc[s] \in {"status", "pinRow"} /\ HoldsRow(u, Token(s))
    \/ pc[s] = "limit" /\ HoldsLimit(u, Token(s))
    \/ pc[s] = "issue" /\ seen[s].pinned /\ "chain" \in wrote[u]
    \/ pc[s] = "pinParent" /\ "chain" \in wrote[u]
    \/ pc[s] = "drop" /\ (HoldsParent(u) \/ "chain" \in wrote[u])
    \/ pc[s] = "unpinAll" /\ \E t \in issued : pinned[t] /\ HoldsRow(u, t)

Free(s) == \A u \in Sessions \ {s} : ~Blocks(u, s)

Deadlocked(s) ==
    LET waitsFor == [p \in Sessions \X Sessions |-> p[1] # p[2] /\ Blocks(p[2], p[1])]
    IN  TransitiveClosure(waitsFor, Sessions)[s, s]

Goto(s, label)  == pc' = [pc EXCEPT ![s] = label]
Flush(s, parts) == wrote' = [wrote EXCEPT ![s] = @ \cup parts]

(* get_session: roll back when the handler raises. *)
EndWithoutRollback(s, outcome) ==   \* defect variant: the transaction stays open
    /\ Goto(s, outcome)
    /\ UNCHANGED <<store, session, wrote, overlap, revoked>>
End(s, outcome) ==
    /\ Goto(s, outcome)
    /\ wrote' = [wrote EXCEPT ![s] = {}]
    /\ seen' = [seen EXCEPT ![s] = Unread]
    /\ UNCHANGED <<store, call, overlap, revoked>>

DeadlockAbort(s) ==
    /\ ~Free(s)
    /\ Deadlocked(s)
    /\ End(s, "error")

(* _upsert_limit assigns every column; the flush writes those that differ   *)
(* from the row it loaded, or inserts a row if it found none.               *)
MergeKeepingMetric(current, s) ==   \* defect variant: the metric is not replaced
    IF seen[s].limit = NoLimit THEN call[s].limit
    ELSE [current EXCEPT !.amount = call[s].limit.amount]
Merge(current, s) ==
    LET new == call[s].limit  old == seen[s].limit
    IN  IF old = NoLimit THEN new
        ELSE [metric |-> IF new.metric # old.metric THEN new.metric ELSE current.metric,
              amount |-> IF new.amount # old.amount THEN new.amount ELSE current.amount]

Commit(s) ==
    LET w == wrote[s]  t == Token(s)
        new == IF "token" \in w THEN {s} ELSE {}
    IN  /\ pc[s] = "commit"
        /\ Goto(s, "ok")
        /\ issued' = issued \cup new
        /\ status' = [k \in Tokens |-> CASE k \in new -> "active"
                                         [] k = t /\ "status" \in w -> NewStatus(s)
                                         [] OTHER -> status[k]]
        /\ pinned' = [k \in Tokens |-> CASE "unpinned" \in w -> FALSE
                                         [] k \in new -> seen[s].pinned
                                         [] k = t /\ "pinned" \in w -> Op(s) = "pin"
                                         [] OTHER -> pinned[k]]
        /\ limit' = [k \in Tokens |-> CASE k \in new -> seen[s].limit
                                        [] k = t /\ "limit" \in w -> Merge(limit[k], s)
                                        [] OTHER -> limit[k]]
        /\ chain' = (chain /\ "chain" \notin w)
        /\ revoked' = IF "status" \in w /\ NewStatus(s) = "revoked"
                        THEN revoked \cup {t} ELSE revoked
        /\ wrote' = [wrote EXCEPT ![s] = {}]
        /\ seen' = [seen EXCEPT ![s] = Unread]
        /\ UNCHANGED <<call, overlap>>

--------------------------------------------------------------------------------
(* The calls of the console, each from its load to its commit.             *)

Ask(s) ==
    /\ pc[s] = "idle"
    /\ \E c \in [op : Ops[s], token : issued, limit : Specs \cup {NoLimit}] :
         /\ c.op = "limit" => c.limit # NoLimit
         /\ c.op # "limit" => c.limit = NoLimit
         /\ c.op \in {"create", "drop"} => c.token = Seed
         /\ call' = [call EXCEPT ![s] = c]
    /\ Goto(s, "load")
    /\ LET others == {u \in Sessions \ {s} : Open(u)}
       IN  overlap' = [u \in Sessions |->
                         IF u = s THEN others
                         ELSE IF u \in others THEN overlap[u] \cup {s} ELSE overlap[u]]
    /\ UNCHANGED <<store, seen, wrote, revoked>>

(* set_enabled, revoke: a write only if the loaded status differs.         *)
LoadForStatusUnguarded(s) ==        \* defect variant: revoked keys too
    LET old == status[Token(s)]
    IN  /\ pc[s] = "load" /\ Op(s) \in {"enable", "disable", "revoke"}
        /\ seen' = [seen EXCEPT ![s].status = old]
        /\ Goto(s, IF old = NewStatus(s) THEN "commit" ELSE "status")
        /\ UNCHANGED <<store, call, wrote, overlap, revoked>>
LoadForStatus(s) ==
    LET old == status[Token(s)]
    IN  /\ pc[s] = "load" /\ Op(s) \in {"enable", "disable", "revoke"}
        /\ seen' = [seen EXCEPT ![s].status = old]
        /\ Goto(s, IF old \in {"revoked", NewStatus(s)} THEN "commit" ELSE "status")
        /\ UNCHANGED <<store, call, wrote, overlap, revoked>>

FlushStatus(s) ==
    /\ pc[s] = "status"
    /\ Free(s)
    /\ Flush(s, {"status"})
    /\ Goto(s, "commit")
    /\ UNCHANGED <<store, session, overlap, revoked>>

(* rotate_token: the key, then its limit, then a replacement like it.      *)
LoadForRotationUnguarded(s) ==      \* defect variant: revoked keys too
    /\ pc[s] = "load" /\ Op(s) = "rotate"
    /\ seen' = [seen EXCEPT ![s].status = status[Token(s)], ![s].pinned = pinned[Token(s)]]
    /\ Goto(s, "readLimit")
    /\ UNCHANGED <<store, call, wrote, overlap, revoked>>
LoadForRotation(s) ==
    /\ pc[s] = "load" /\ Op(s) = "rotate"
    /\ status[Token(s)] # "revoked"
    /\ seen' = [seen EXCEPT ![s].status = status[Token(s)], ![s].pinned = pinned[Token(s)]]
    /\ Goto(s, "readLimit")
    /\ UNCHANGED <<store, call, wrote, overlap, revoked>>

RefuseRotation(s) ==
    /\ pc[s] = "load" /\ Op(s) = "rotate"
    /\ status[Token(s)] = "revoked"
    /\ End(s, "refused")

ReadLimitToReplace(s) ==            \* defect variant: a rotation drops the limit
    /\ pc[s] = "readLimit"
    /\ seen' = IF Op(s) = "limit" THEN [seen EXCEPT ![s].limit = limit[Token(s)]] ELSE seen
    /\ Goto(s, CASE Op(s) = "rotate" -> "requireChain"
                 [] Op(s) = "limit" /\ limit[Token(s)] # call[s].limit -> "limit"
                 [] OTHER -> "commit")
    /\ UNCHANGED <<store, call, wrote, overlap, revoked>>
ReadLimit(s) ==
    /\ pc[s] = "readLimit"
    /\ seen' = [seen EXCEPT ![s].limit = limit[Token(s)]]
    /\ Goto(s, CASE Op(s) = "rotate" -> "requireChain"
                 [] Op(s) = "limit" /\ limit[Token(s)] # call[s].limit -> "limit"
                 [] OTHER -> "commit")
    /\ UNCHANGED <<store, call, wrote, overlap, revoked>>

(* create_token: the chain must exist, then the key and its limit are      *)
(* inserted; nobody else sees the new rows before the commit (which limit  *)
(* a key is created with concerns no other call and is left out).          *)
LoadForCreation(s) ==
    /\ pc[s] = "load" /\ Op(s) = "create"
    /\ \E p \in BOOLEAN : seen' = [seen EXCEPT ![s].pinned = p]
    /\ Goto(s, "requireChain")
    /\ UNCHANGED <<store, call, wrote, overlap, revoked>>

NeedsChain(s) == Op(s) = "pin" \/ seen[s].pinned

RequireChain(s) ==
    /\ pc[s] = "requireChain"
    /\ NeedsChain(s) => chain
    /\ Goto(s, CASE Op(s) # "pin" -> "issue"
                 [] Op(s) = "pin" /\ ~seen[s].pinned -> "pinRow"
                 [] OTHER -> "commit")
    /\ UNCHANGED <<store, session, wrote, overlap, revoked>>

ChainNotFound(s) ==
    /\ pc[s] = "requireChain"
    /\ NeedsChain(s) /\ ~chain
    /\ End(s, "refused")

Issue(s) ==
    /\ pc[s] = "issue"
    /\ Free(s)
    /\ seen[s].pinned => chain
    /\ Flush(s, {"token"})
    /\ Goto(s, IF Op(s) = "rotate" THEN "status" ELSE "commit")
    /\ UNCHANGED <<store, session, overlap, revoked>>

IssueOrphan(s) ==
    /\ pc[s] = "issue"
    /\ Free(s)
    /\ seen[s].pinned /\ ~chain
    /\ End(s, "error")

(* set_usage_limit: inserting beside a row committed meanwhile is an error. *)
LoadForLimit(s) ==
    /\ pc[s] = "load" /\ Op(s) = "limit"
    /\ Goto(s, "readLimit")
    /\ UNCHANGED <<store, session, wrote, overlap, revoked>>

FlushLimit(s) ==
    /\ pc[s] = "limit"
    /\ Free(s)
    /\ seen[s].limit = NoLimit => limit[Token(s)] = NoLimit
    /\ Flush(s, {"limit"})
    /\ Goto(s, "commit")
    /\ UNCHANGED <<store, session, overlap, revoked>>

LimitConflict(s) ==
    /\ pc[s] = "limit"
    /\ Free(s)
    /\ seen[s].limit = NoLimit /\ limit[Token(s)] # NoLimit
    /\ End(s, "error")

(* set_assigned_chain: the row is written first, its parent checked next.  *)
LoadForPin(s) ==
    LET old == pinned[Token(s)]
    IN  /\ pc[s] = "load" /\ Op(s) \in {"pin", "unpin"}
        /\ seen' = [seen EXCEPT ![s].pinned = old]
        /\ Goto(s, CASE Op(s) = "pin" -> "requireChain"
                     [] Op(s) = "unpin" /\ old -> "pinRow"
                     [] OTHER -> "commit")
        /\ UNCHANGED <<store, call, wrote, overlap, revoked>>

FlushPin(s) ==
    /\ pc[s] = "pinRow"
    /\ Free(s)
    /\ Flush(s, {"pinned"})
    /\ Goto(s, IF Op(s) = "pin" THEN "pinParent" ELSE "commit")
    /\ UNCHANGED <<store, session, overlap, revoked>>

CheckParent(s) ==
    /\ pc[s] = "pinParent"
    /\ Free(s)
    /\ chain
    /\ Goto(s, "commit")
    /\ UNCHANGED <<store, session, wrote, overlap, revoked>>

ParentGone(s) ==
    /\ pc[s] = "pinParent"
    /\ Free(s)
    /\ ~chain
    /\ End(s, "error")

(* delete_chain: the row, then SET NULL in the keys that point to it.  A   *)
(* row another transaction has deleted meanwhile is no error.              *)
LoadForDrop(s) ==
    /\ pc[s] = "load" /\ Op(s) = "drop"
    /\ chain
    /\ Goto(s, "drop")
    /\ UNCHANGED <<store, session, wrote, overlap, revoked>>

DropNotFound(s) ==
    /\ pc[s] = "load" /\ Op(s) = "drop"
    /\ ~chain
    /\ End(s, "refused")

DropChain(s) ==
    /\ pc[s] = "drop"
    /\ Free(s)
    /\ Flush(s, IF chain THEN {"chain"} ELSE {})
    /\ Goto(s, IF chain THEN "unpinAll" ELSE "commit")
    /\ UNCHANGED <<store, session, overlap, revoked>>

UnpinAll(s) ==
    /\ pc[s] = "unpinAll"
    /\ Free(s)
    /\ Flush(s, {"unpinned"})
    /\ Goto(s, "commit")
    /\ UNCHANGED <<store, session, overlap, revoked>>

--------------------------------------------------------------------------------

Serve(s) ==
    \/ LoadForStatus(s) \/ FlushStatus(s)
    \/ LoadForRotation(s) \/ RefuseRotation(s) \/ ReadLimit(s)
    \/ LoadForCreation(s) \/ RequireChain(s) \/ ChainNotFound(s)
    \/ Issue(s) \/ IssueOrphan(s)
    \/ LoadForLimit(s) \/ FlushLimit(s) \/ LimitConflict(s)
    \/ LoadForPin(s) \/ FlushPin(s) \/ CheckParent(s) \/ ParentGone(s)
    \/ LoadForDrop(s) \/ DropNotFound(s) \/ DropChain(s) \/ UnpinAll(s)
    \/ Commit(s)

AllEnded == \A s \in Sessions : pc[s] \in Ended
Finish   == AllEnded /\ UNCHANGED vars

Next == \/ \E s \in Sessions : Ask(s) \/ Serve(s) \/ DeadlockAbort(s)
        \/ Finish

Spec     == Init /\ [][Next]_vars
Fairness == \A s \in Sessions : WF_vars(Serve(s)) /\ WF_vars(DeadlockAbort(s))
FairSpec == Spec /\ Fairness

--------------------------------------------------------------------------------

(* Every variable has its type. *)
TypeOK ==
    /\ issued \subseteq Tokens
    /\ status \in [Tokens -> Statuses]
    /\ pinned \in [Tokens -> BOOLEAN]
    /\ limit \in [Tokens -> Limits \cup {NoLimit}]
    /\ chain \in BOOLEAN
    /\ pc \in [Sessions -> PCs]
    /\ call \in [Sessions -> Call]
    /\ seen \in [Sessions -> Seen]
    /\ wrote \in [Sessions -> SUBSET Parts]
    /\ overlap \in [Sessions -> SUBSET Sessions]
    /\ revoked \subseteq Tokens

(* verify accepts the secret of a key that is there and active.            *)
Verifies(t) == t \in issued /\ status[t] = "active"

(* Some enable or disable of t that committed was open together with a     *)
(* revocation or rotation of t: it may have written over "revoked".        *)
Escaped(t) ==
    \E s \in Sessions, u \in Sessions :
        /\ Op(s) \in {"enable", "disable"} /\ Token(s) = t /\ pc[s] = "ok"
        /\ Op(u) \in {"revoke", "rotate"} /\ Token(u) = t /\ u \in overlap[s]

(* A revoked key stays revoked, through any later calls, unless an enable   *)
(* or disable was open together with its revocation.                       *)
RevokedUnlessRaced == \A t \in revoked : status[t] = "revoked" \/ Escaped(t)

(* A key is rotated at most once, so that it has one successor, unless two  *)
(* rotations of it were open together or the key escaped its revocation.   *)
OneSuccessor ==
    \A s, u \in Sessions :
        (/\ s # u /\ pc[s] = "ok" /\ pc[u] = "ok"
         /\ Op(s) = "rotate" /\ Op(u) = "rotate" /\ Token(s) = Token(u)) =>
            u \in overlap[s] \/ Escaped(Token(s))

(* When a rotation commits, the old key is revoked and the new one has its  *)
(* limit and chain as they are then, unless a call that changes that        *)
(* setting was open together with the rotation.                            *)
RacedBy(s, ops) == \E u \in overlap[s] : Op(u) \in ops /\ Token(u) = Token(s)
RotationKeepsSettings ==
    [][\A s \in Sessions :
         (pc[s] = "commit" /\ pc'[s] = "ok" /\ Op(s) = "rotate") =>
            /\ status'[Token(s)] = "revoked" /\ Verifies(s)'
            /\ limit'[s] = limit[Token(s)] \/ RacedBy(s, {"limit"})
            /\ pinned'[s] = pinned[Token(s)] \/ RacedBy(s, {"pin", "unpin"})]_vars

(* What a limit call commits is its whole limit, unless another limit call  *)
(* on the key was open together with it.                                   *)
LimitReplaced ==
    [][\A s \in Sessions :
         (pc[s] = "commit" /\ pc'[s] = "ok" /\ Op(s) = "limit") =>
            limit'[Token(s)] = call[s].limit \/ RacedBy(s, {"limit"})]_vars

(* No key is pinned to a chain that is gone, however pinning, rotating and  *)
(* deleting the chain interleave: requests of that key find their route.   *)
PinnedChainExists == \A t \in issued : pinned[t] => chain

(* Every call ends: no transaction waits for ever on the rows of another.   *)
EveryCallEnds == \A s \in Sessions : Open(s) ~> ~Open(s)

(* Expected to fail: "a revoked token is terminal and cannot be re-enabled" *)
(* (set_enabled).                                                           *)
RevocationIsTerminal == \A t \in revoked : status[t] = "revoked"
================================================================================
