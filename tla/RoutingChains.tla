----------------------------- MODULE RoutingChains -----------------------------
(***************************************************************************)
(* The fallback chains: console and API calls that create, upsert, edit    *)
(* and delete them, each one transaction, and gateway requests that choose *)
(* a chain and then load it.                                               *)
(*                                                                         *)
(* The database is READ COMMITTED.  A statement sees what was committed    *)
(* when it began, with its own transaction's writes.  It then waits for    *)
(* the open transactions that hold a row, a unique key or a parent row it  *)
(* needs; a cycle of waits ends with one of them aborted.                  *)
(*                                                                         *)
(* An entry row carries the call that wrote it (`by`) in place of its      *)
(* account, model and policy; a chain's selector is that of its last       *)
(* writer.  `Seed` is a chain from before, and the upsert that made it.    *)
(***************************************************************************)
EXTENDS Naturals, FiniteSets, Sequences

CONSTANTS
    Sessions,       \* calls that write chains; a chain is named by its creator
    Requests,       \* gateway requests in auto mode
    Lists,          \* entry lists a call may carry: the lane of each entry
    Ops,            \* which of the operations are tried
    Unknown,        \* where a list may name an account that does not exist
    Seed,           \* the chain, and the call, from before
    NoList          \* an edit that leaves the entries alone

Lanes   == {"chat", "embeddings"}
Writers == Sessions \cup {Seed}

ASSUME NamesAssumption  == Seed \notin Sessions /\ NoList \notin Lists
ASSUME ListsAssumption  == Lists \subseteq Seq(Lanes)
ASSUME OpsAssumption    == Ops \subseteq {"create", "upsert", "edit", "delete"}
ASSUME UnknownAssumption == Unknown \subseteq Nat \ {0}
ASSUME FiniteAssumption == IsFiniteSet(Sessions) /\ IsFiniteSet(Requests)

VARIABLES
    live,           \* committed route_fallback_chain rows
    selector,       \* whose selector each of them carries
    rows,           \* committed route_fallback_chain_entry rows
    pc,             \* where each writer is
    call,           \* what it was asked
    target,         \* the chain it works on
    snap,           \* the entry rows its DELETE statement saw
    tx,             \* what its open transaction has written
    overlap,        \* history: the calls that were open together with it
    at,             \* where each gateway request is
    listed,         \* chains whose entries it has still to list
    eligible,       \* chains it saw with an entry in its lane
    route,          \* the lane it is for, and the chain it chose
    touched         \* history: the chains written since it listed them

store    == <<live, selector, rows>>
gateways == <<at, listed, eligible, route>>
vars     == <<store, pc, call, target, snap, tx, overlap, gateways, touched>>

Ended   == {"ok", "notfound", "error"}
PCs     == {"idle", "load", "insertChain", "scan", "deleteRows", "update", "insert",
            "drop", "cascade", "commit"} \cup Ended
Call    == [op : {"create", "upsert", "edit", "delete"}, list : Lists \cup {NoList},
            chain : Writers, selects : BOOLEAN, unknown : Unknown \cup {0}]
Row     == [chain : Writers, lane : Lanes, pos : Nat, by : Writers]
Tx      == [dels : SUBSET Row, ins : SUBSET Row,
            created : BOOLEAN, updated : BOOLEAN, dropped : BOOLEAN]
Nothing == [dels |-> {}, ins |-> {},
            created |-> FALSE, updated |-> FALSE, dropped |-> FALSE]

NoRoute == [chain |-> Seed, lane |-> "chat"]

Open(s)      == pc[s] \notin Ended \cup {"idle"}
Keyed(c)     == call[c].op = "upsert"        \* c carries the client key
ReplacesNonEmpty(s) == call[s].list \notin {NoList, <<>>}   \* defect variant: `if account_ids`
Replaces(s)  == call[s].list # NoList        \* s carries entries
RowsOf(c)    == {r \in rows : r.chain = c}
Lane(c, l)   == {r \in RowsOf(c) : r.lane = l}
SameSlot(r, q) == r.chain = q.chain /\ r.lane = q.lane /\ r.pos = q.pos

(* _replace_entries numbers each lane of the list from 0. *)
Entry(s, i) ==
    LET list == call[s].list
    IN  [chain |-> target[s], lane |-> list[i], by |-> s,
         pos |-> Cardinality({j \in 1 .. i - 1 : list[j] = list[i]})]
Definition(s) == {Entry(s, i) : i \in DOMAIN call[s].list}
ToInsert(s)   == IF call[s].list = <<>> THEN "commit" ELSE "insert"
NextEntry(s)  == Entry(s, Cardinality(tx[s].ins) + 1)

Init ==
    /\ live \in SUBSET {Seed}
    /\ \E list \in Lists \cup {NoList} :
         /\ list = NoList <=> live = {}
         /\ call = [w \in Writers |->
                     [op |-> "upsert", list |-> list, chain |-> Seed, selects |-> TRUE,
                      unknown |-> 0]]
    /\ target = [w \in Writers |-> Seed]
    /\ pc = [w \in Writers |-> IF w = Seed THEN "ok" ELSE "idle"]
    /\ selector = [c \in Writers |-> c]
    /\ rows = IF Seed \in live THEN Definition(Seed) ELSE {}
    /\ snap = [s \in Sessions |-> {}]
    /\ tx = [s \in Sessions |-> Nothing]
    /\ overlap = [s \in Sessions |-> {}]
    /\ at = [g \in Requests |-> "idle"]
    /\ listed = [g \in Requests |-> {}]
    /\ eligible = [g \in Requests |-> {}]
    /\ route = [g \in Requests |-> NoRoute]
    /\ touched = [g \in Requests |-> {}]

--------------------------------------------------------------------------------
(* Which open transaction the statement of s has to wait for. *)

Blocks(t, s) ==
    \/ /\ pc[s] = "insertChain"              \* the unique client_key
       /\ Keyed(s)
       /\ \/ tx[t].created /\ Keyed(t)
          \/ tx[t].dropped /\ Keyed(target[t])
    \/ /\ pc[s] = "deleteRows"               \* rows t has deleted
       /\ snap[s] \cap tx[t].dels # {}
    \/ /\ pc[s] = "update"                   \* the chain row
       /\ target[t] = target[s]
       /\ tx[t].updated \/ tx[t].dropped
    \/ /\ pc[s] = "insert"                   \* the unique slot, the parent row
       /\ target[t] = target[s]
       /\ \/ \E r \in tx[t].ins \cup tx[t].dels : SameSlot(r, NextEntry(s))
          \/ tx[t].dropped
    \/ /\ pc[s] = "drop"                     \* the chain row, also as a parent
       /\ target[t] = target[s]
       /\ tx[t].updated \/ tx[t].dropped \/ tx[t].ins # {}
    \/ /\ pc[s] = "cascade"
       /\ RowsOf(target[s]) \cap tx[t].dels # {}

Free(s) == \A t \in Sessions \ {s} : ~Blocks(t, s)

(* A cycle of waits through s. *)
Deadlocked(s) ==
    \E n \in 2 .. Cardinality(Sessions) : \E cycle \in [0 .. n -> Sessions] :
        /\ cycle[0] = s /\ cycle[n] = s
        /\ \A i \in 1 .. n : cycle[i] # cycle[i - 1] /\ Blocks(cycle[i], cycle[i - 1])

Goto(s, label) == pc' = [pc EXCEPT ![s] = label]

(* get_session: commit when the handler returns, roll back when it raises. *)
EndWithoutRollback(s, outcome) ==         \* defect variant: the transaction stays open
    /\ Goto(s, outcome)
    /\ UNCHANGED <<store, call, target, snap, tx, overlap, gateways, touched>>
Rollback(s, outcome) ==
    /\ Goto(s, outcome)
    /\ tx' = [tx EXCEPT ![s] = Nothing]
    /\ snap' = [snap EXCEPT ![s] = {}]
    /\ UNCHANGED <<store, call, target, overlap, gateways, touched>>
Raise(s) == Rollback(s, "error")

Commit(s) ==
    /\ pc[s] = "commit"
    /\ Goto(s, "ok")
    /\ live' = (live \cup (IF tx[s].created THEN {s} ELSE {}))
                     \ (IF tx[s].dropped THEN {target[s]} ELSE {})
    /\ selector' = IF tx[s].updated \/ tx[s].created
                     THEN [selector EXCEPT ![target[s]] = s] ELSE selector
    /\ rows' = (rows \ tx[s].dels) \cup tx[s].ins
    /\ tx' = [tx EXCEPT ![s] = Nothing]
    /\ snap' = [snap EXCEPT ![s] = {}]
    /\ touched' = [g \in Requests |->
                     IF at[g] \in {"entries", "load"} THEN touched[g] \cup {target[s]}
                                                     ELSE touched[g]]
    /\ UNCHANGED <<call, target, overlap, gateways>>

DeadlockAbort(s) ==
    /\ ~Free(s)
    /\ Deadlocked(s)
    /\ Raise(s)

--------------------------------------------------------------------------------
(* create_chain, upsert_chain_by_key, edit_chain, delete_chain. *)

Ask(s) ==
    /\ pc[s] = "idle"
    /\ \E c \in [op : Ops, list : Lists \cup {NoList},
                 chain : live \cup {Seed}, selects : BOOLEAN, unknown : Unknown \cup {0}] :
         /\ c.unknown # 0 => c.list # NoList /\ c.unknown <= Len(c.list)
         /\ c.unknown # 0 => c.selects        \* a bound, which no guard needs
         /\ c.op \in {"create", "upsert"} => c.list # NoList /\ c.chain = Seed
         /\ c.op \in {"create", "delete"} => c.selects
         /\ c.op = "delete" => c.list = NoList
         /\ call' = [call EXCEPT ![s] = c]
    /\ Goto(s, "load")
    /\ LET others == {t \in Sessions \ {s} : Open(t)}
       IN  overlap' = [t \in Sessions |->
                         IF t = s THEN others
                         ELSE IF t \in others THEN overlap[t] \cup {s} ELSE overlap[t]]
    /\ UNCHANGED <<store, target, snap, tx, gateways, touched>>

(* Find the chain by its key, or by its id (_load_chain, NotFound). *)
KeyHolders == {c \in live : Keyed(c)}

LoadByKey(s) ==
    /\ pc[s] = "load"
    /\ call[s].op = "upsert"
    /\ \/ \E c \in KeyHolders : target' = [target EXCEPT ![s] = c] /\ Goto(s, "scan")
       \/ /\ KeyHolders = {}
          /\ target' = [target EXCEPT ![s] = s] /\ Goto(s, "insertChain")
    /\ UNCHANGED <<store, call, snap, tx, overlap, gateways, touched>>

AfterLoad(s) == CASE call[s].op = "delete" -> "drop"
                  [] call[s].op = "edit" /\ Replaces(s) -> "scan"
                  [] call[s].op = "edit" /\ ~Replaces(s) /\ call[s].selects -> "update"
                  [] OTHER -> "commit"

LoadById(s) ==
    /\ pc[s] = "load"
    /\ call[s].op \in {"edit", "delete"}
    /\ call[s].chain \in live
    /\ target' = [target EXCEPT ![s] = call[s].chain]
    /\ Goto(s, AfterLoad(s))
    /\ UNCHANGED <<store, call, snap, tx, overlap, gateways, touched>>

LoadMissing(s) ==
    /\ pc[s] = "load"
    /\ call[s].op \in {"edit", "delete"}
    /\ call[s].chain \notin live
    /\ Rollback(s, "notfound")

CreateWithoutKey(s) ==
    /\ pc[s] = "load"
    /\ call[s].op = "create"
    /\ target' = [target EXCEPT ![s] = s]
    /\ Goto(s, "insertChain")
    /\ UNCHANGED <<store, call, snap, tx, overlap, gateways, touched>>

(* The first flush of create_chain; its _replace_entries finds no old rows. *)
InsertChain(s) ==
    /\ pc[s] = "insertChain"
    /\ Free(s)
    /\ Keyed(s) => KeyHolders = {}
    /\ tx' = [tx EXCEPT ![s].created = TRUE]
    /\ Goto(s, "scan")
    /\ UNCHANGED <<store, call, target, snap, overlap, gateways, touched>>

InsertChainConflict(s) ==
    /\ pc[s] = "insertChain"
    /\ Free(s)
    /\ Keyed(s) /\ KeyHolders # {}
    /\ Raise(s)

(* _replace_entries: the DELETE takes its snapshot, then waits for the rows *)
(* and skips those that have gone; rows committed since are not in it.      *)
ScanEntries(s) ==
    /\ pc[s] = "scan"
    /\ snap' = [snap EXCEPT ![s] = RowsOf(target[s])]
    /\ Goto(s, "deleteRows")
    /\ UNCHANGED <<store, call, target, tx, overlap, gateways, touched>>

DeleteNothing(s) ==                       \* defect variant: the new rows come first
    /\ pc[s] = "deleteRows"
    /\ Goto(s, IF call[s].selects /\ ~tx[s].created THEN "update" ELSE ToInsert(s))
    /\ UNCHANGED <<store, call, target, snap, tx, overlap, gateways, touched>>
DeleteEntries(s) ==
    /\ pc[s] = "deleteRows"
    /\ Free(s)
    /\ tx' = [tx EXCEPT ![s].dels = snap[s] \cap rows]
    /\ Goto(s, IF call[s].selects /\ ~tx[s].created THEN "update" ELSE ToInsert(s))
    /\ UNCHANGED <<store, call, target, snap, overlap, gateways, touched>>

(* The flush writes the chain row if it changed (StaleDataError if gone). *)
UpdateChain(s) ==
    /\ pc[s] = "update"
    /\ Free(s)
    /\ target[s] \in live
    /\ tx' = [tx EXCEPT ![s].updated = TRUE]
    /\ Goto(s, IF Replaces(s) THEN ToInsert(s) ELSE "commit")
    /\ UNCHANGED <<store, call, target, snap, overlap, gateways, touched>>

UpdateStale(s) ==
    /\ pc[s] = "update"
    /\ Free(s)
    /\ target[s] \notin live
    /\ Raise(s)

(* The foreign keys: its account (which the API does not look up before, and *)
(* whose row no deletion removes) and its chain.                            *)
UnknownAccount(s) == call[s].unknown = Cardinality(tx[s].ins) + 1
Orphan(s)         == target[s] \notin live /\ ~tx[s].created

ConflictOnParentOnly(s) ==                \* defect variant: no unique constraint on the slot
    UnknownAccount(s) \/ Orphan(s)
Conflict(s) ==
    \/ \E r \in rows \ tx[s].dels : SameSlot(r, NextEntry(s))
    \/ UnknownAccount(s) \/ Orphan(s)

InsertEntry(s) ==
    /\ pc[s] = "insert"
    /\ Free(s)
    /\ ~Conflict(s)
    /\ tx' = [tx EXCEPT ![s].ins = @ \cup {NextEntry(s)}]
    /\ Goto(s, IF tx'[s].ins = Definition(s) THEN "commit" ELSE "insert")
    /\ UNCHANGED <<store, call, target, snap, overlap, gateways, touched>>

InsertConflict(s) ==
    /\ pc[s] = "insert"
    /\ Free(s)
    /\ Conflict(s)
    /\ Raise(s)

(* delete_chain: the row, then the rows the database cascades to.  A row    *)
(* another transaction has deleted meanwhile is no error.                   *)
DropChain(s) ==
    /\ pc[s] = "drop"
    /\ Free(s)
    /\ tx' = [tx EXCEPT ![s].dropped = target[s] \in live]
    /\ Goto(s, IF target[s] \in live THEN "cascade" ELSE "commit")
    /\ UNCHANGED <<store, call, target, snap, overlap, gateways, touched>>

Cascade(s) ==
    /\ pc[s] = "cascade"
    /\ Free(s)
    /\ tx' = [tx EXCEPT ![s].dels = RowsOf(target[s])]
    /\ Goto(s, "commit")
    /\ UNCHANGED <<store, call, target, snap, overlap, gateways, touched>>

--------------------------------------------------------------------------------
(* resolve_chain in auto mode: list the chains, list the entries of each,   *)
(* choose one with an entry in the lane, load its entries again.            *)
(* Which eligible chain matches the model is left open.                     *)

Pass(g, label) == at' = [at EXCEPT ![g] = label]

ListChains(g) ==
    /\ at[g] = "idle"
    /\ listed' = [listed EXCEPT ![g] = live]
    /\ \E l \in Lanes : route' = [route EXCEPT ![g].lane = l]
    /\ Pass(g, "entries")
    /\ UNCHANGED <<store, pc, call, target, snap, tx, overlap, eligible, touched>>

ListEveryChain(g) ==                      \* defect variant: the lane is not looked for
    /\ at[g] = "entries"
    /\ \E c \in listed[g] :
         /\ listed' = [listed EXCEPT ![g] = @ \ {c}]
         /\ eligible' = [eligible EXCEPT ![g] = @ \cup {c}]
    /\ UNCHANGED <<store, pc, call, target, snap, tx, overlap, at, route, touched>>
ListEntries(g) ==
    /\ at[g] = "entries"
    /\ \E c \in listed[g] :
         /\ listed' = [listed EXCEPT ![g] = @ \ {c}]
         /\ eligible' = IF Lane(c, route[g].lane) # {}
                          THEN [eligible EXCEPT ![g] = @ \cup {c}] ELSE eligible
    /\ UNCHANGED <<store, pc, call, target, snap, tx, overlap, at, route, touched>>

ChooseChain(g) ==
    /\ at[g] = "entries" /\ listed[g] = {}
    /\ \E c \in eligible[g] : route' = [route EXCEPT ![g].chain = c]
    /\ Pass(g, "load")
    /\ UNCHANGED <<store, pc, call, target, snap, tx, overlap, listed, eligible, touched>>

ResolveEnds(g) ==
    /\ Pass(g, "idle")
    /\ eligible' = [eligible EXCEPT ![g] = {}]
    /\ route' = [route EXCEPT ![g] = NoRoute]
    /\ touched' = [touched EXCEPT ![g] = {}]
    /\ UNCHANGED <<store, pc, call, target, snap, tx, overlap, listed>>

NoChain(g)   == at[g] = "entries" /\ listed[g] = {} /\ ResolveEnds(g)
LoadRoute(g) == at[g] = "load" /\ ResolveEnds(g)
Loaded(g)    == Lane(route[g].chain, route[g].lane)

--------------------------------------------------------------------------------

Serve(s) ==
    \/ LoadByKey(s) \/ LoadById(s) \/ LoadMissing(s) \/ CreateWithoutKey(s)
    \/ InsertChain(s) \/ InsertChainConflict(s)
    \/ ScanEntries(s) \/ DeleteEntries(s) \/ UpdateChain(s) \/ UpdateStale(s)
    \/ InsertEntry(s) \/ InsertConflict(s)
    \/ DropChain(s) \/ Cascade(s) \/ Commit(s)
Resolve(g) ==
    ListChains(g) \/ ListEntries(g) \/ ChooseChain(g) \/ NoChain(g) \/ LoadRoute(g)

Next == \/ \E s \in Sessions : Ask(s) \/ Serve(s) \/ DeadlockAbort(s)
        \/ \E g \in Requests : Resolve(g)

Spec     == Init /\ [][Next]_vars
Fairness == \A s \in Sessions : WF_vars(Serve(s)) /\ WF_vars(DeadlockAbort(s))
FairSpec == Spec /\ Fairness

--------------------------------------------------------------------------------

(* Every variable has its type. *)
TypeOK ==
    /\ live \subseteq Writers
    /\ selector \in [Writers -> Writers]
    /\ rows \subseteq Row
    /\ pc \in [Writers -> PCs]
    /\ call \in [Writers -> Call]
    /\ target \in [Writers -> Writers]
    /\ snap \in [Sessions -> SUBSET Row]
    /\ tx \in [Sessions -> Tx]
    /\ overlap \in [Sessions -> SUBSET Sessions]
    /\ at \in [Requests -> {"idle", "entries", "load"}]
    /\ listed \in [Requests -> SUBSET Writers]
    /\ eligible \in [Requests -> SUBSET Writers]
    /\ route \in [Requests -> [chain : Writers, lane : Lanes]]
    /\ touched \in [Requests -> SUBSET Writers]

(* However calls interleave, the committed entries of a lane are all the    *)
(* entries one call listed for it, in contiguous positions from 0: the      *)
(* fallback order of a lane is one that somebody asked for.                 *)
LaneIsOneDefinition ==
    \A c \in live, l \in Lanes : Lane(c, l) # {} =>
        /\ {r.pos : r \in Lane(c, l)} = 0 .. Cardinality(Lane(c, l)) - 1
        /\ \E w \in Writers :
              /\ pc[w] = "ok" /\ Replaces(w) /\ target[w] = c
              /\ Lane(c, l) = {r \in Definition(w) : r.lane = l}

(* A call that commits a list leaves exactly its entries in every lane it   *)
(* lists; in a lane it leaves empty only a call open together with it may   *)
(* have put the entries that remain.                                        *)
CommitHolds ==
    [][\A s \in Sessions :
         (pc[s] = "commit" /\ pc'[s] = "ok" /\ call[s].list # NoList) =>
            /\ Definition(s) # {} => target[s] \in live'
            /\ \A l \in Lanes :
                 LET mine == {r \in Definition(s) : r.lane = l}
                 IN  \/ Lane(target[s], l)' = mine
                     \/ /\ mine = {}
                        /\ \A r \in Lane(target[s], l)' : r.by \in overlap[s]]_vars

(* A call fails only against another one on the same chain or the same key  *)
(* that was open together with it, or because its list names an account     *)
(* that does not exist: replacing a list, repeating an upsert or editing     *)
(* twice in a row never collides with itself or with the past.              *)
Meets(s, t)     == target[t] = target[s] \/ (Keyed(s) /\ Keyed(t))
NamesUnknown(s) == Replaces(s) /\ call[s].unknown \in DOMAIN call[s].list
FailsOnlyAgainstAnother ==
    \A s \in Sessions : pc[s] = "error" =>
        NamesUnknown(s) \/ \E t \in overlap[s] : Meets(s, t)

(* A client key names at most one chain. *)
KeyNamesOneChain == Cardinality(KeyHolders) <= 1

(* A gateway request that chose a chain for its lane loads at least one     *)
(* entry of that lane, unless that chain was written while it was choosing. *)
RouteServesLane ==
    \A g \in Requests :
        at[g] = "load" => Loaded(g) # {} \/ route[g].chain \in touched[g]

(* Every call ends: no transaction waits for ever on the rows of another.   *)
EveryCallEnds == \A s \in Sessions : Open(s) ~> ~Open(s)

(* Expected to fail: upsert_chain_by_key "updates that resource             *)
(* atomically".  The stored entries are those of one call, in both lanes.   *)
DefinitionIsWhole ==
    \A c \in live : RowsOf(c) # {} =>
        \E w \in Writers :
            Replaces(w) /\ target[w] = c /\ RowsOf(c) = Definition(w)
================================================================================
