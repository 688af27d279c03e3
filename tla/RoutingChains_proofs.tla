-------------------------- MODULE RoutingChains_proofs --------------------------
(***************************************************************************)
(* For every number of calls and any lists: a stored lane is one call's    *)
(* list, a committed call left its own, a key names one chain, a call      *)
(* fails only against another, and the chain a request chose serves its    *)
(* lane.                                                                   *)
(*                                                                         *)
(* All steps of a call but its first and its commit touch only its own pc, *)
(* target, snapshot and open transaction: they are one Move.  An invariant *)
(* about a call (Own) or two calls (Pair) is shown for the call that moves *)
(* and carried over for the others; a commit disturbs them all through the *)
(* rows, and its heart is NoneRemain.                                      *)
(***************************************************************************)
EXTENDS RoutingChains, FiniteSetTheorems, TLAPS

SameLane(r, q) == r.chain = q.chain /\ r.lane = q.lane
Prefix(s, n)   == {Entry(s, i) : i \in 1..n}

--------------------------------------------------------------------------------
(* What a call has done when it is at a given step.                         *)
Progress(s) ==
    /\ pc[s] \in {"idle", "load", "insertChain", "drop"} \cup Ended => tx[s] = Nothing
    /\ pc[s] \in {"scan", "deleteRows", "update", "cascade"} => tx[s].ins = {}
    /\ pc[s] \in {"scan", "deleteRows", "cascade"} => tx[s].dels = {}
    /\ pc[s] \in {"insertChain", "scan", "deleteRows", "insert"} => Replaces(s)
    /\ pc[s] = "load" /\ call[s].op \in {"create", "upsert"} => Replaces(s)
    /\ pc[s] = "load" /\ call[s].op = "delete" => ~Replaces(s)
    /\ pc[s] \in {"drop", "cascade"} => ~Replaces(s)
    /\ pc[s] = "insertChain" \/ tx[s].created => target[s] = s
    /\ pc[s] = "update" => ~tx[s].created
    /\ tx[s].dropped => ~Replaces(s)
    /\ pc[s] = "insert" => \E n \in 0..(Len(call[s].list) - 1) : tx[s].ins = Prefix(s, n)
    /\ pc[s] = "commit" /\ Replaces(s) => tx[s].ins = Definition(s)

(* What the open transaction of a call has written fits the stored rows:    *)
(* it has deleted whole lanes of its chain, and no slot it fills is taken.  *)
Written(s) ==
    /\ tx[s].ins # {} => Replaces(s) /\ tx[s].ins \subseteq Definition(s)
    /\ tx[s].ins # {} => target[s] \in live \/ tx[s].created
    /\ tx[s].dels \subseteq RowsOf(target[s])
    /\ \A z \in tx[s].dels, q \in rows : SameLane(z, q) => q \in tx[s].dels
    /\ \A e \in tx[s].ins, q \in rows : SameSlot(e, q) => q \in tx[s].dels
    /\ tx[s].created /\ Keyed(s) => KeyHolders = {}

(* What its DELETE has seen, and who wrote the rows it misses.              *)
Scanned(s) ==
    /\ pc[s] = "deleteRows" =>
          /\ \A r \in snap[s] : r.chain = target[s] /\ pc[r.by] = "ok"
          /\ \A z \in snap[s] \cap rows, q \in rows : SameLane(z, q) => q \in snap[s]
          /\ \A q \in RowsOf(target[s]) \ snap[s] : q.by \in overlap[s]
    /\ pc[s] \in {"update", "insert", "commit"} /\ Replaces(s) =>
          \A q \in RowsOf(target[s]) \ tx[s].dels : q.by \in overlap[s]

Own(s) == Progress(s) /\ Written(s) /\ Scanned(s)

(* Two open calls know of each other and never write the same row.          *)
Pair(s, t) ==
    /\ Open(s) /\ Open(t) => t \in overlap[s]
    /\ tx[s].dels \cap tx[t].dels = {}
    /\ \A e \in tx[s].ins, q \in tx[t].ins : ~SameSlot(e, q)
    /\ tx[s].ins # {} /\ tx[t].dropped => target[s] # target[t]
    /\ tx[s].created /\ tx[t].created => ~(Keyed(s) /\ Keyed(t))

(* The stored rows: each is an entry of the call that wrote it, which has   *)
(* ended; a lane has one writer, all of whose entries for it are there.     *)
RowsWritten ==
    \A r \in rows : pc[r.by] = "ok" /\ Replaces(r.by) /\ r \in Definition(r.by)
OneWriter == \A q, r \in rows : SameLane(q, r) => q.by = r.by
Whole ==
    \A q \in rows : \A r \in Definition(q.by) : r.lane = q.lane => r \in rows

(* The chains that are there, and their keys.                               *)
Chains ==
    /\ \A c \in live : pc[c] = "ok"
    /\ \A c, d \in KeyHolders : c = d

(* What a gateway request has listed.                                       *)
Gate ==
    \A g \in Requests :
        /\ at[g] = "idle" => eligible[g] = {}
        /\ at[g] \in {"entries", "load"} =>
              \A c \in eligible[g] : Lane(c, route[g].lane) # {} \/ c \in touched[g]
        /\ at[g] = "load" => route[g].chain \in eligible[g]

Stored == RowsWritten /\ OneWriter /\ Whole /\ Chains
Calls  == /\ \A s \in Sessions : Own(s)
          /\ \A s \in Sessions : \A t \in Sessions \ {s} : Pair(s, t)
IInv   == TypeOK /\ Stored /\ Calls /\ Gate

(* Why a call may fail: its list names an account that does not exist, or   *)
(* somebody it met, past its own load, took the key or dropped the chain    *)
(* after this call had found the one free and the other there.              *)
Met(s) == {t \in overlap[s] : pc[t] \notin {"idle", "load"}}
Failing(s) ==
    /\ pc[s] = "insertChain" /\ Keyed(s) => KeyHolders \subseteq overlap[s]
    /\ pc[s] \in {"scan", "deleteRows", "update", "insert"} =>
          \/ target[s] \in live \/ tx[s].created
          \/ \E t \in Met(s) : target[t] = target[s]
    /\ pc[s] = "error" => NamesUnknown(s) \/ \E t \in Met(s) : Meets(s, t)
FailInv == \A s \in Sessions : Failing(s)
--------------------------------------------------------------------------------
(* The entries of a list: in each lane they are numbered from 0 without a   *)
(* gap (_replace_entries).                                                  *)

Earlier(list, i) == {j \in 1 .. i - 1 : list[j] = list[i]}
Index(list, l)   == {i \in DOMAIN list : list[i] = l}
Pos(list, i)     == Cardinality(Earlier(list, i))

LEMMA EarlierFinite ==
  ASSUME NEW list \in Seq(Lanes), NEW i \in DOMAIN list
  PROVE  /\ IsFiniteSet(Earlier(list, i)) /\ Pos(list, i) \in Nat
         /\ Earlier(list, i) \subseteq DOMAIN list /\ i \notin Earlier(list, i)
         /\ i \in Nat
PROOF
  <1>1. i \in Int /\ 1 \in Int /\ i - 1 \in Int /\ Len(list) \in Nat /\ DOMAIN list = 1..Len(list)
    OBVIOUS
  <1>2. IsFiniteSet(1 .. i - 1)
    BY <1>1, FS_Interval
  <1>3. Earlier(list, i) \in SUBSET (1 .. i - 1)
    BY DEF Earlier
  <1>4. IsFiniteSet(Earlier(list, i))
    BY <1>2, <1>3, FS_Subset
  <1>5. Pos(list, i) \in Nat
    BY <1>4, FS_CardinalityType DEF Pos
  <1> QED BY <1>1, <1>3, <1>4, <1>5 DEF Earlier

LEMMA PosGrows ==
  ASSUME NEW list \in Seq(Lanes), NEW i \in DOMAIN list, NEW j \in DOMAIN list,
         i < j, list[i] = list[j]
  PROVE  Pos(list, i) < Pos(list, j)
PROOF
  <1>1. /\ IsFiniteSet(Earlier(list, i)) /\ IsFiniteSet(Earlier(list, j))
        /\ Pos(list, i) \in Nat /\ Pos(list, j) \in Nat /\ i \notin Earlier(list, i)
    BY EarlierFinite
  <1>2. Earlier(list, i) \cup {i} \in SUBSET Earlier(list, j)
    BY DEF Earlier
  <1>3. Cardinality(Earlier(list, i) \cup {i}) = Pos(list, i) + 1
    BY <1>1, FS_AddElement DEF Pos
  <1>4. Cardinality(Earlier(list, i) \cup {i}) <= Pos(list, j)
    BY <1>1, <1>2, FS_Subset DEF Pos
  <1> QED BY <1>1, <1>3, <1>4

LEMMA PosInjective ==
  ASSUME NEW list \in Seq(Lanes), NEW i \in DOMAIN list, NEW j \in DOMAIN list,
         list[i] = list[j], Pos(list, i) = Pos(list, j)
  PROVE  i = j
PROOF
  <1>1. i \in Nat /\ j \in Nat /\ Pos(list, i) \in Nat /\ Pos(list, j) \in Nat
    BY EarlierFinite
  <1>2. ~(i < j) /\ ~(j < i)
    BY <1>1, PosGrows
  <1> QED BY <1>1, <1>2

LEMMA IndexFinite ==
  ASSUME NEW list \in Seq(Lanes), NEW l
  PROVE  IsFiniteSet(Index(list, l)) /\ Cardinality(Index(list, l)) \in Nat
PROOF
  <1>1. IsFiniteSet(1..Len(list))
    BY FS_Interval
  <1>2. Index(list, l) \in SUBSET (1..Len(list))
    BY DEF Index
  <1> QED BY <1>1, <1>2, FS_Subset, FS_CardinalityType

(* The positions of a lane are 0 to one less than the number of its         *)
(* entries.                                                                 *)
LEMMA PositionsContiguous ==
  ASSUME NEW list \in Seq(Lanes), NEW l
  PROVE  {Pos(list, i) : i \in Index(list, l)} = 0 .. Cardinality(Index(list, l)) - 1
PROOF
  <1> DEFINE I == Index(list, l)
             N == Cardinality(I)
             P == {Pos(list, i) : i \in I}
             T == 0 .. N - 1
             f == [i \in I |-> Pos(list, i)]
  <1>1. IsFiniteSet(I) /\ N \in Nat
    BY IndexFinite
  <1>2. \A i \in I : Pos(list, i) \in T
    <2> SUFFICES ASSUME NEW i \in I PROVE Pos(list, i) \in T
      OBVIOUS
    <2>1. i \in DOMAIN list /\ list[i] = l
      BY DEF Index
    <2>2. IsFiniteSet(Earlier(list, i)) /\ Pos(list, i) \in Nat /\ i \notin Earlier(list, i)
          /\ Earlier(list, i) \subseteq DOMAIN list
      BY <2>1, EarlierFinite
    <2>3. Earlier(list, i) \cup {i} \in SUBSET I
      BY <2>1, <2>2 DEF Earlier, Index
    <2>4. Cardinality(Earlier(list, i) \cup {i}) = Pos(list, i) + 1
      BY <2>2, FS_AddElement DEF Pos
    <2>5. Pos(list, i) + 1 <= N
      BY <1>1, <2>3, <2>4, FS_Subset
    <2> QED BY <1>1, <2>2, <2>5
  <1>3. P \in SUBSET T
    BY <1>2
  <1>4. IsFiniteSet(T) /\ Cardinality(T) = N
    <2>1. 0 \in Int /\ N - 1 \in Int
      BY <1>1
    <2>2. IsFiniteSet(T) /\ Cardinality(T) = IF 0 > N - 1 THEN 0 ELSE N - 1 - 0 + 1
      BY <2>1, FS_Interval
    <2> QED BY <1>1, <2>2
  <1>5. IsFiniteSet(P)
    BY <1>3, <1>4, FS_Subset
  <1>6. f \in Injection(I, P)
    <2>1. f \in [I -> P]
      OBVIOUS
    <2>2. \A i, j \in I : f[i] = f[j] => i = j
      BY PosInjective DEF Index
    <2> QED BY <2>1, <2>2 DEF Injection, IsInjective
  <1>7. N <= Cardinality(P)
    BY <1>5, <1>6, FS_Injection
  <1>8. Cardinality(P) <= Cardinality(T) /\ (Cardinality(T) = Cardinality(P) => T = P)
    BY <1>3, <1>4, FS_Subset
  <1>9. Cardinality(P) \in Nat
    BY <1>5, FS_CardinalityType
  <1> QED BY <1>1, <1>4, <1>7, <1>8, <1>9

LEMMA ListTyped ==
  ASSUME TypeOK, NEW w \in Writers, Replaces(w)
  PROVE  call[w].list \in Lists /\ call[w].list \in Seq(Lanes) /\ target[w] \in Writers
BY ListsAssumption DEF TypeOK, Call, Replaces

LEMMA EntryFields ==
  ASSUME TypeOK, NEW w \in Writers, Replaces(w), NEW i \in DOMAIN call[w].list
  PROVE  /\ Entry(w, i) \in Row
         /\ Entry(w, i).chain = target[w] /\ Entry(w, i).by = w
         /\ Entry(w, i).lane = call[w].list[i]
         /\ Entry(w, i).pos = Pos(call[w].list, i)
PROOF
  <1>1. call[w].list \in Seq(Lanes) /\ target[w] \in Writers
    BY ListTyped
  <1>2. Pos(call[w].list, i) \in Nat
    BY <1>1, EarlierFinite
  <1>3. call[w].list[i] \in Lanes
    BY <1>1
  <1>4. Entry(w, i) = [chain |-> target[w], lane |-> call[w].list[i], by |-> w,
                       pos |-> Pos(call[w].list, i)]
    BY DEF Entry, Pos, Earlier
  <1> QED BY <1>1, <1>2, <1>3, <1>4 DEF Row

LEMMA EntryInjective ==
  ASSUME TypeOK, NEW w \in Writers, Replaces(w),
         NEW i \in DOMAIN call[w].list, NEW j \in DOMAIN call[w].list,
         Entry(w, i).lane = Entry(w, j).lane, Entry(w, i).pos = Entry(w, j).pos
  PROVE  i = j
BY ListTyped, EntryFields, PosInjective

LEMMA DefinitionFields ==
  ASSUME TypeOK, NEW w \in Writers, Replaces(w), NEW e \in Definition(w)
  PROVE  e \in Row /\ e.chain = target[w] /\ e.by = w
BY EntryFields DEF Definition

(* Whoever lists a lane has an entry at its head. *)
LEMMA HeadOfLane ==
  ASSUME TypeOK, NEW w \in Writers, Replaces(w), NEW e \in Definition(w)
  PROVE  \E z \in Definition(w) : z.lane = e.lane /\ z.pos = 0
PROOF
  <1> DEFINE list == call[w].list
  <1>1. list \in Seq(Lanes)
    BY ListTyped
  <1>2. PICK k \in DOMAIN list : e = Entry(w, k)
    BY DEF Definition
  <1>3. e.lane = list[k] /\ k \in Index(list, e.lane)
    BY <1>2, EntryFields DEF Index
  <1> DEFINE I == Index(list, e.lane)
  <1>4. IsFiniteSet(I) /\ Cardinality(I) \in Nat
    BY <1>1, IndexFinite
  <1>5. Cardinality(I) # 0
    BY <1>3, <1>4, FS_EmptySet
  <1>6. 0 \in 0 .. Cardinality(I) - 1
    BY <1>4, <1>5
  <1>7. 0 \in {Pos(list, i) : i \in I}
    BY <1>1, <1>6, PositionsContiguous
  <1>8. PICK i \in I : Pos(list, i) = 0
    BY <1>7
  <1>9. i \in DOMAIN list /\ list[i] = e.lane
    BY <1>8 DEF Index
  <1> QED BY <1>8, <1>9, EntryFields DEF Definition

(* The rows a call has inserted so far are a prefix of its entries: the     *)
(* next is new, and after the last they are its definition.                 *)
LEMMA PrefixCounts ==
  ASSUME TypeOK, NEW w \in Writers, Replaces(w), NEW n \in 0..Len(call[w].list)
  PROVE  Cardinality(Prefix(w, n)) = n
PROOF
  <1> DEFINE list == call[w].list
             f == [i \in 1..n |-> Entry(w, i)]
  <1>1. list \in Seq(Lanes) /\ n \in Int /\ 1 \in Int /\ n \in Nat
    BY ListTyped
  <1>2. 1..n \subseteq DOMAIN list
    BY <1>1
  <1>3. IsFiniteSet(1..n) /\ Cardinality(1..n) = n
    <2>1. IsFiniteSet(1..n) /\ Cardinality(1..n) = IF 1 > n THEN 0 ELSE n - 1 + 1
      BY <1>1, FS_Interval
    <2> QED BY <1>1, <2>1
  <1>4. f \in Bijection(1..n, Prefix(w, n))
    <2>1. f \in [1..n -> Prefix(w, n)]
      BY DEF Prefix
    <2>2. \A i, j \in 1..n : f[i] = f[j] => i = j
      BY <1>2, EntryInjective
    <2>3. \A e \in Prefix(w, n) : \E i \in 1..n : f[i] = e
      BY DEF Prefix
    <2> QED BY <2>1, <2>2, <2>3 DEF Bijection, Injection, IsInjective, Surjection
  <1>5. ExistsBijection(1..n, Prefix(w, n))
    BY <1>4 DEF ExistsBijection
  <1> QED BY <1>3, <1>5, FS_Bijection

LEMMA NextIsNew ==
  ASSUME TypeOK, NEW w \in Sessions, Replaces(w),
         NEW n \in 0 .. Len(call[w].list) - 1, tx[w].ins = Prefix(w, n)
  PROVE  /\ n + 1 \in DOMAIN call[w].list
         /\ NextEntry(w) = Entry(w, n + 1)
         /\ NextEntry(w) \in Definition(w)
         /\ tx[w].ins \cup {NextEntry(w)} = Prefix(w, n + 1)
         /\ n + 1 \in 1..Len(call[w].list)
         /\ n + 1 = Len(call[w].list) => Prefix(w, n + 1) = Definition(w)
PROOF
  <1> DEFINE list == call[w].list
  <1>1. list \in Seq(Lanes) /\ Len(list) \in Nat /\ DOMAIN list = 1..Len(list) /\ w \in Writers
    BY ListTyped DEF Writers
  <1>2. n \in 0..Len(list) /\ n + 1 \in 1..Len(list)
    BY <1>1
  <1>3. Cardinality(tx[w].ins) = n
    BY <1>1, <1>2, PrefixCounts
  <1>4. NextEntry(w) = Entry(w, n + 1)
    BY <1>3 DEF NextEntry
  <1>5. 1 .. n + 1 = 1..n \cup {n + 1}
    BY <1>2
  <1>6. Prefix(w, n + 1) = Prefix(w, n) \cup {Entry(w, n + 1)}
    BY <1>5 DEF Prefix
  <1> QED BY <1>1, <1>2, <1>4, <1>6 DEF Definition, Prefix

(* The rows of a lane that are one call's entries for it.                   *)
LEMMA LanePositions ==
  ASSUME TypeOK, NEW w \in Writers, Replaces(w), NEW l, NEW L,
         L = {e \in Definition(w) : e.lane = l}
  PROVE  {r.pos : r \in L} = 0 .. Cardinality(L) - 1
PROOF
  <1> DEFINE list == call[w].list
             I == Index(list, l)
             f == [i \in I |-> Entry(w, i)]
  <1>1. list \in Seq(Lanes)
    BY ListTyped
  <1>2. \A i \in I : i \in DOMAIN list /\ Entry(w, i) \in L /\ Entry(w, i).pos = Pos(list, i)
    BY EntryFields DEF Index, Definition
  <1>3. \A e \in L : \E i \in I : e = Entry(w, i)
    BY EntryFields DEF Index, Definition
  <1>4. {r.pos : r \in L} = {Pos(list, i) : i \in I}
    BY <1>2, <1>3
  <1>5. f \in Bijection(I, L)
    <2>1. f \in [I -> L]
      BY <1>2
    <2>2. \A i, j \in I : f[i] = f[j] => i = j
      BY <1>2, EntryInjective
    <2>3. \A e \in L : \E i \in I : f[i] = e
      BY <1>3
    <2> QED BY <2>1, <2>2, <2>3 DEF Bijection, Injection, IsInjective, Surjection
  <1>6. IsFiniteSet(I) /\ ExistsBijection(I, L)
    BY <1>1, <1>5, IndexFinite DEF ExistsBijection
  <1>7. Cardinality(L) = Cardinality(I)
    BY <1>6, FS_Bijection
  <1> QED BY <1>1, <1>4, <1>7, PositionsContiguous

--------------------------------------------------------------------------------
(* The steps of a call between its first and its commit are Moves.          *)

Move(s) ==
    /\ Open(s)
    /\ UNCHANGED <<live, selector, rows, call, overlap, at, listed, eligible, route, touched>>
    /\ pc' = [pc EXCEPT ![s] = pc'[s]]
    /\ target' = [target EXCEPT ![s] = target'[s]]
    /\ snap' = [snap EXCEPT ![s] = snap'[s]]
    /\ tx' = [tx EXCEPT ![s] = tx'[s]]

LEMMA Names ==
  /\ Sessions \subseteq Writers /\ Seed \in Writers /\ Seed \notin Sessions
  /\ Ended \subseteq PCs /\ Nothing \in Tx
BY NamesAssumption DEF Writers, Ended, PCs, Nothing, Tx

LEMMA TypesInit == Init => TypeOK
PROOF
  <1> SUFFICES ASSUME Init PROVE TypeOK
    OBVIOUS
  <1>1. PICK list \in Lists \cup {NoList} :
          /\ list = NoList <=> live = {}
          /\ call = [w \in Writers |-> [op |-> "upsert", list |-> list, chain |-> Seed,
                                       selects |-> TRUE, unknown |-> 0]]
    BY DEF Init
  <1>2. call \in [Writers -> Call]
    BY <1>1, Names DEF Call
  <1>3. target \in [Writers -> Writers] /\ selector \in [Writers -> Writers]
        /\ live \subseteq Writers /\ pc \in [Writers -> PCs]
    BY Names DEF Init, PCs, Ended
  <1>4. rows \subseteq Row
    <2> SUFFICES ASSUME NEW r \in rows PROVE r \in Row
      OBVIOUS
    <2>1. r \in Definition(Seed)
      BY DEF Init
    <2>2. call[Seed].list = list /\ list \in Seq(Lanes) /\ target[Seed] = Seed
      BY <1>1, Names, ListsAssumption DEF Init
    <2>3. PICK i \in DOMAIN list : r = Entry(Seed, i)
      BY <2>1, <2>2 DEF Definition
    <2>4. Pos(list, i) \in Nat /\ list[i] \in Lanes
      BY <2>2, EarlierFinite
    <2>5. r = [chain |-> Seed, lane |-> list[i], by |-> Seed, pos |-> Pos(list, i)]
      BY <2>2, <2>3 DEF Entry, Pos, Earlier
    <2> QED BY <2>4, <2>5, Names DEF Row
  <1>5. /\ snap \in [Sessions -> SUBSET Row] /\ tx \in [Sessions -> Tx]
        /\ overlap \in [Sessions -> SUBSET Sessions]
    BY Names DEF Init
  <1>6. /\ at \in [Requests -> {"idle", "entries", "load"}]
        /\ listed \in [Requests -> SUBSET Writers] /\ eligible \in [Requests -> SUBSET Writers]
        /\ route \in [Requests -> [chain : Writers, lane : Lanes]]
        /\ touched \in [Requests -> SUBSET Writers]
    BY Names DEF Init, NoRoute, Lanes
  <1> QED BY <1>2, <1>3, <1>4, <1>5, <1>6 DEF TypeOK

LEMMA RollbackMoves ==
  ASSUME TypeOK, NEW s \in Sessions, Open(s), NEW label \in Ended, Rollback(s, label)
  PROVE  /\ TypeOK' /\ Move(s)
         /\ tx'[s] = Nothing /\ pc'[s] = label /\ target' = target
PROOF
  <1>1. /\ pc' = [pc EXCEPT ![s] = label] /\ tx' = [tx EXCEPT ![s] = Nothing]
        /\ snap' = [snap EXCEPT ![s] = {}]
        /\ UNCHANGED <<live, selector, rows, call, target, overlap, at, listed, eligible, route, touched>>
    BY DEF Rollback, Goto, store, gateways
  <1>2. s \in Writers /\ label \in PCs /\ Nothing \in Tx
    BY Names
  <1> QED BY <1>1, <1>2 DEF TypeOK, Move

LEMMA MoveTypes ==
  ASSUME TypeOK, NEW s \in Sessions, Move(s),
         pc'[s] \in PCs, target'[s] \in Writers, snap'[s] \subseteq Row, tx'[s] \in Tx
  PROVE  TypeOK'
PROOF
  <1>1. s \in Writers
    BY Names
  <1>2. pc' \in [Writers -> PCs]
    BY <1>1 DEF Move, TypeOK
  <1>3. target' \in [Writers -> Writers]
    BY <1>1 DEF Move, TypeOK
  <1>4. snap' \in [Sessions -> SUBSET Row] /\ tx' \in [Sessions -> Tx]
    BY DEF Move, TypeOK
  <1> QED BY <1>2, <1>3, <1>4 DEF Move, TypeOK

(* What a Move leaves as it was.                                            *)
LEMMA MoveFrame ==
  ASSUME TypeOK, NEW s \in Sessions, Move(s)
  PROVE  /\ s \in Writers /\ pc[s] \notin Ended /\ pc[s] # "idle"
         /\ rows' = rows /\ live' = live /\ overlap' = overlap /\ call' = call
         /\ \A c : RowsOf(c)' = RowsOf(c)
         /\ KeyHolders' = KeyHolders
         /\ \A w : Keyed(w)' = Keyed(w) /\ Replaces(w)' = Replaces(w)
         /\ \A w \in Writers \ {s} :
               /\ Definition(w)' = Definition(w) /\ pc'[w] = pc[w] /\ target'[w] = target[w]
               /\ \A n \in Nat : Prefix(w, n)' = Prefix(w, n)
         /\ \A t \in Sessions \ {s} : tx'[t] = tx[t] /\ snap'[t] = snap[t]
         /\ target' = target =>
               Definition(s)' = Definition(s) /\ \A n \in Nat : Prefix(s, n)' = Prefix(s, n)
PROOF
  <1>1. s \in Writers /\ pc[s] \notin Ended /\ pc[s] # "idle"
    BY Names DEF Move, Open
  <1>2. rows' = rows /\ live' = live /\ overlap' = overlap /\ call' = call
    BY DEF Move
  <1>3. \A c : RowsOf(c)' = RowsOf(c)
    BY <1>2 DEF RowsOf
  <1>4. \A w : Keyed(w)' = Keyed(w) /\ Replaces(w)' = Replaces(w)
    BY <1>2 DEF Keyed, Replaces
  <1>5. KeyHolders' = KeyHolders
    BY <1>2 DEF KeyHolders, Keyed
  <1>6. ASSUME NEW w \in Writers \ {s}
        PROVE  pc'[w] = pc[w] /\ target'[w] = target[w]
    BY <1>1 DEF Move, TypeOK
  <1>7. ASSUME NEW w \in Writers \ {s}
        PROVE  /\ Definition(w)' = Definition(w)
               /\ \A n \in Nat : Prefix(w, n)' = Prefix(w, n)
    BY <1>2, <1>6 DEF Definition, Prefix, Entry
  <1>8. ASSUME NEW t \in Sessions \ {s}
        PROVE  tx'[t] = tx[t] /\ snap'[t] = snap[t]
    BY DEF Move, TypeOK
  <1>9. ASSUME target' = target
        PROVE  Definition(s)' = Definition(s) /\ \A n \in Nat : Prefix(s, n)' = Prefix(s, n)
    BY <1>2, <1>9 DEF Definition, Prefix, Entry
  <1> QED BY <1>1, <1>2, <1>3, <1>4, <1>5, <1>6, <1>7, <1>8, <1>9

(* A Move preserves the invariant if it does so for its own call.           *)
LEMMA MoveKeeps ==
  ASSUME IInv, NEW s \in Sessions, Move(s), TypeOK', pc'[s] # "ok", Own(s)',
         \A t \in Sessions \ {s} : Pair(s, t)' /\ Pair(t, s)'
  PROVE  IInv'
PROOF
  <1> USE DEF IInv
  <1>0. TypeOK /\ Sessions \subseteq Writers
    BY Names
  <1>1. RowsWritten'
    <2> SUFFICES ASSUME NEW r \in rows
                 PROVE  pc'[r.by] = "ok" /\ Replaces(r.by)' /\ r \in Definition(r.by)'
      BY <1>0, MoveFrame DEF RowsWritten
    <2>1. pc[r.by] = "ok" /\ Replaces(r.by) /\ r \in Definition(r.by) /\ r.by \in Writers
      BY <1>0 DEF Stored, RowsWritten, TypeOK, Row
    <2>2. r.by # s
      BY <2>1, <1>0, MoveFrame DEF Ended
    <2> QED BY <1>0, <2>1, <2>2, MoveFrame
  <1>2. OneWriter'
    BY <1>0, MoveFrame DEF Stored, OneWriter
  <1>3. Whole'
    <2> SUFFICES ASSUME NEW q \in rows, NEW r \in Definition(q.by)', r.lane = q.lane
                 PROVE  r \in rows
      BY <1>0, MoveFrame DEF Whole
    <2>1. pc[q.by] = "ok" /\ q.by \in Writers
      BY <1>0 DEF Stored, RowsWritten, TypeOK, Row
    <2>2. q.by # s
      BY <2>1, <1>0, MoveFrame DEF Ended
    <2> QED BY <1>0, <2>1, <2>2, MoveFrame DEF Stored, Whole
  <1>4. Chains'
    <2>1. \A c \in live : pc'[c] = "ok"
      <3> SUFFICES ASSUME NEW c \in live PROVE pc'[c] = "ok"
        OBVIOUS
      <3>1. pc[c] = "ok" /\ c \in Writers
        BY <1>0 DEF Stored, Chains, TypeOK
      <3>2. c # s
        BY <3>1, <1>0, MoveFrame DEF Ended
      <3> QED BY <1>0, <3>1, <3>2, MoveFrame
    <2> QED BY <1>0, <2>1, MoveFrame DEF Stored, Chains
  <1>5. \A t \in Sessions : Own(t)'
    <2> SUFFICES ASSUME NEW t \in Sessions \ {s} PROVE Own(t)'
      OBVIOUS
    <2>1. /\ pc'[t] = pc[t] /\ tx'[t] = tx[t] /\ snap'[t] = snap[t] /\ target'[t] = target[t]
          /\ rows' = rows /\ live' = live /\ overlap' = overlap /\ call' = call
          /\ Replaces(t)' = Replaces(t) /\ Keyed(t)' = Keyed(t) /\ KeyHolders' = KeyHolders
          /\ Definition(t)' = Definition(t) /\ \A n \in Nat : Prefix(t, n)' = Prefix(t, n)
      BY <1>0, MoveFrame
    <2>2. Own(t)
      BY DEF Calls
    <2>3. Progress(t)'
      <3>1. pc[t] = "insert" =>
               \E n \in 0..(Len(call[t].list) - 1) : tx[t].ins = Prefix(t, n)'
        <4> SUFFICES ASSUME pc[t] = "insert"
                     PROVE  \E n \in 0..(Len(call[t].list) - 1) : tx[t].ins = Prefix(t, n)'
          OBVIOUS
        <4>1. PICK n \in 0..(Len(call[t].list) - 1) : tx[t].ins = Prefix(t, n)
          BY <2>2 DEF Own, Progress
        <4>2. n \in Nat
          OBVIOUS
        <4> QED BY <2>1, <4>1, <4>2
      <3> QED BY <2>1, <2>2, <3>1 DEF Own, Progress
    <2>4. Written(t)'
      BY <2>1, <2>2 DEF Own, Written, RowsOf
    <2>5. Scanned(t)'
      <3>1. ASSUME NEW r \in snap[t], pc[r.by] = "ok" PROVE pc'[r.by] = "ok"
        BY <1>0, <3>1, MoveFrame DEF TypeOK, Row, Ended
      <3> QED BY <2>1, <2>2, <3>1 DEF Own, Scanned, RowsOf
    <2> QED BY <2>3, <2>4, <2>5 DEF Own
  <1>6. \A t \in Sessions : \A u \in Sessions \ {t} : Pair(t, u)'
    <2> SUFFICES ASSUME NEW t \in Sessions \ {s}, NEW u \in Sessions \ {s, t} PROVE Pair(t, u)'
      OBVIOUS
    <2>1. /\ pc'[t] = pc[t] /\ tx'[t] = tx[t] /\ target'[t] = target[t]
          /\ pc'[u] = pc[u] /\ tx'[u] = tx[u] /\ target'[u] = target[u]
          /\ Keyed(t)' = Keyed(t) /\ Keyed(u)' = Keyed(u) /\ overlap' = overlap
      BY <1>0, MoveFrame
    <2>2. Pair(t, u)
      BY DEF Calls
    <2> QED BY <2>1, <2>2 DEF Pair, Open
  <1>7. Gate'
    <2>1. \A c, l : Lane(c, l)' = Lane(c, l)
      BY <1>0, MoveFrame DEF Lane, RowsOf
    <2> QED BY <2>1 DEF Gate, Move
  <1> QED BY <1>1, <1>2, <1>3, <1>4, <1>5, <1>6, <1>7 DEF Stored, Calls

LEMMA NothingIs ==
  /\ Nothing \in Tx /\ Nothing.ins = {} /\ Nothing.dels = {}
  /\ Nothing.created = FALSE /\ Nothing.dropped = FALSE
BY Names DEF Nothing

(* What two calls may never do, after a Move of one of them.                *)
LEMMA PairsKeep ==
  ASSUME IInv, NEW s \in Sessions, Move(s), NEW t \in Sessions \ {s},
         tx'[s].dels \cap tx[t].dels = {},
         \A e \in tx'[s].ins, q \in tx[t].ins : ~SameSlot(e, q),
         tx'[s].ins # {} /\ tx[t].dropped => target'[s] # target[t],
         tx[t].ins # {} /\ tx'[s].dropped => target'[s] # target[t],
         tx'[s].created /\ tx[t].created => ~(Keyed(s) /\ Keyed(t))
  PROVE  Pair(s, t)' /\ Pair(t, s)'
PROOF
  <1>1. /\ pc'[t] = pc[t] /\ tx'[t] = tx[t] /\ target'[t] = target[t] /\ overlap' = overlap
        /\ Keyed(t)' = Keyed(t) /\ Keyed(s)' = Keyed(s)
    BY Names, MoveFrame DEF IInv
  <1>2. Open(t)' = Open(t) /\ Open(s)
    BY <1>1 DEF Open, Move
  <1>3. Open(t) => t \in overlap[s] /\ s \in overlap[t]
    BY <1>2 DEF IInv, Calls, Pair
  <1>4. Pair(s, t)'
    BY <1>1, <1>2, <1>3 DEF Pair
  <1>5. Pair(t, s)'
    <2>1. \A e \in tx[t].ins, q \in tx'[s].ins : ~SameSlot(e, q)
      BY DEF SameSlot
    <2> QED BY <1>1, <1>2, <1>3, <2>1 DEF Pair
  <1> QED BY <1>4, <1>5

LEMMA QuietPairs ==
  ASSUME IInv, NEW s \in Sessions, Move(s), tx'[s] = Nothing, NEW t \in Sessions \ {s}
  PROVE  Pair(s, t)' /\ Pair(t, s)'
BY PairsKeep, NothingIs

--------------------------------------------------------------------------------
(* The operations, up to their commit.                                      *)

LEMMA RollbackKeeps ==
  ASSUME IInv, NEW s \in Sessions, Open(s), NEW label \in {"notfound", "error"},
         Rollback(s, label)
  PROVE  IInv'
PROOF
  <1>1. /\ TypeOK' /\ Move(s) /\ tx'[s] = Nothing /\ pc'[s] = label /\ target' = target
        /\ pc'[s] # "ok" /\ label \in Ended
    BY RollbackMoves DEF IInv, Ended
  <1>2. Own(s)'
    <2>1. Progress(s)'
      BY <1>1, NothingIs DEF Progress, Ended
    <2>2. Written(s)'
      BY <1>1, NothingIs DEF Written
    <2>3. Scanned(s)'
      BY <1>1 DEF Scanned
    <2> QED BY <2>1, <2>2, <2>3 DEF Own
  <1> QED BY <1>1, <1>2, MoveKeeps, QuietPairs

(* Finding the chain, or deciding to make one.                              *)
LEMMA LoadKeeps ==
  ASSUME IInv, NEW s \in Sessions, pc[s] = "load", NEW c \in Writers,
         NEW label \in {"insertChain", "scan", "drop", "update", "commit"},
         target' = [target EXCEPT ![s] = c], Goto(s, label),
         UNCHANGED <<store, call, snap, tx, overlap, gateways, touched>>,
         label = "insertChain" => c = s,
         label \in {"insertChain", "scan"} => Replaces(s),
         label \in {"drop", "update", "commit"} => ~Replaces(s)
  PROVE  IInv'
PROOF
  <1>1. /\ TypeOK /\ s \in Writers /\ Open(s) /\ label \in PCs /\ tx[s] = Nothing
        /\ label \notin Ended
    BY Names DEF IInv, Open, Ended, PCs, Calls, Own, Progress
  <1>2. /\ pc' = [pc EXCEPT ![s] = label] /\ tx' = tx /\ snap' = snap
        /\ UNCHANGED <<live, selector, rows, call, overlap, at, listed, eligible, route, touched>>
    BY DEF Goto, store, gateways
  <1>3. pc'[s] = label /\ target'[s] = c /\ tx'[s] = Nothing /\ snap'[s] = snap[s]
    BY <1>1, <1>2 DEF TypeOK
  <1>4. Move(s)
    BY <1>1, <1>2, <1>3 DEF Move, TypeOK
  <1>5. TypeOK'
    BY <1>1, <1>3, <1>4, MoveTypes DEF TypeOK, Tx
  <1>6. Replaces(s)' = Replaces(s)
    BY <1>1, <1>4, MoveFrame
  <1>7. Own(s)'
    <2>1. Progress(s)'
      BY <1>3, <1>6, NothingIs DEF Progress, Ended
    <2>2. Written(s)'
      BY <1>3, NothingIs DEF Written
    <2>3. Scanned(s)'
      BY <1>3, <1>6 DEF Scanned
    <2> QED BY <2>1, <2>2, <2>3 DEF Own
  <1> QED BY <1>1, <1>3, <1>4, <1>5, <1>7, MoveKeeps, QuietPairs DEF Ended

LEMMA InsertChainKeeps ==
  ASSUME IInv, NEW s \in Sessions, InsertChain(s)
  PROVE  IInv'
PROOF
  <1>1. /\ TypeOK /\ s \in Writers /\ Open(s) /\ tx[s] = Nothing /\ Replaces(s) /\ target[s] = s
        /\ pc[s] = "insertChain"
    BY Names DEF InsertChain, IInv, Open, Ended, PCs, Calls, Own, Progress
  <1>2. /\ pc' = [pc EXCEPT ![s] = "scan"] /\ tx' = [tx EXCEPT ![s].created = TRUE]
        /\ UNCHANGED <<live, selector, rows, call, target, snap, overlap, at, listed, eligible, route, touched>>
        /\ Free(s) /\ (Keyed(s) => KeyHolders = {})
    BY DEF InsertChain, Goto, store, gateways
  <1>3. /\ pc'[s] = "scan" /\ target'[s] = s /\ snap'[s] = snap[s] /\ tx'[s] \in Tx
        /\ tx'[s].ins = {} /\ tx'[s].dels = {} /\ tx'[s].created = TRUE /\ tx'[s].dropped = FALSE
    BY <1>1, <1>2, NothingIs DEF TypeOK, Tx
  <1>4. Move(s)
    BY <1>1, <1>2, <1>3 DEF Move, TypeOK
  <1>5. TypeOK'
    BY <1>1, <1>3, <1>4, MoveTypes DEF TypeOK, PCs
  <1>6. Replaces(s)' = Replaces(s) /\ Keyed(s)' = Keyed(s) /\ KeyHolders' = KeyHolders
    BY <1>1, <1>4, MoveFrame
  <1>7. Own(s)'
    <2>1. Progress(s)'
      BY <1>1, <1>3, <1>6 DEF Progress, Ended
    <2>2. Written(s)'
      BY <1>2, <1>3, <1>6 DEF Written
    <2>3. Scanned(s)'
      BY <1>3 DEF Scanned
    <2> QED BY <2>1, <2>2, <2>3 DEF Own
  <1>8. ASSUME NEW t \in Sessions \ {s} PROVE Pair(s, t)' /\ Pair(t, s)'
    <2>1. tx'[s].created /\ tx[t].created => ~(Keyed(s) /\ Keyed(t))
      BY <1>1, <1>2 DEF Free, Blocks
    <2> QED BY <1>3, <1>4, <2>1, PairsKeep
  <1> QED BY <1>3, <1>4, <1>5, <1>7, <1>8, MoveKeeps

LEMMA ScanKeeps ==
  ASSUME IInv, NEW s \in Sessions, ScanEntries(s)
  PROVE  IInv'
PROOF
  <1>1. /\ TypeOK /\ s \in Writers /\ Open(s) /\ Replaces(s) /\ pc[s] = "scan"
        /\ tx[s].ins = {} /\ tx[s].dels = {} /\ Own(s)
    BY Names DEF ScanEntries, IInv, Open, Ended, PCs, Calls, Own, Progress
  <1>2. /\ pc' = [pc EXCEPT ![s] = "deleteRows"] /\ snap' = [snap EXCEPT ![s] = RowsOf(target[s])]
        /\ UNCHANGED <<live, selector, rows, call, target, tx, overlap, at, listed, eligible, route, touched>>
    BY DEF ScanEntries, Goto, store, gateways
  <1>3. /\ pc'[s] = "deleteRows" /\ target'[s] = target[s] /\ snap'[s] = RowsOf(target[s])
        /\ tx'[s] = tx[s] /\ RowsOf(target[s]) \subseteq Row
    BY <1>1, <1>2 DEF TypeOK, RowsOf
  <1>4. Move(s)
    BY <1>1, <1>2, <1>3 DEF Move, TypeOK
  <1>5. TypeOK'
    BY <1>1, <1>3, <1>4, MoveTypes DEF TypeOK, PCs
  <1>6. Replaces(s)' = Replaces(s) /\ Keyed(s)' = Keyed(s) /\ KeyHolders' = KeyHolders
    BY <1>1, <1>4, MoveFrame
  <1>7. Own(s)'
    <2>1. Progress(s)'
      BY <1>1, <1>3, <1>6 DEF Own, Progress, Ended
    <2>2. Written(s)'
      BY <1>1, <1>2, <1>3, <1>6 DEF Own, Written
    <2>3. Scanned(s)'
      <3>1. ASSUME NEW r \in rows PROVE pc'[r.by] = "ok"
        <4>1. pc[r.by] = "ok" /\ r.by \in Writers
          BY <1>1 DEF IInv, Stored, RowsWritten, TypeOK, Row
        <4> QED BY <1>1, <1>4, <4>1, MoveFrame
      <3> QED BY <1>2, <1>3, <3>1 DEF Scanned, RowsOf, SameLane
    <2> QED BY <2>1, <2>2, <2>3 DEF Own
  <1>8. ASSUME NEW t \in Sessions \ {s} PROVE Pair(s, t)' /\ Pair(t, s)'
    <2>1. Pair(s, t) /\ Pair(t, s)
      BY DEF IInv, Calls
    <2> QED BY <1>1, <1>3, <1>4, <2>1, PairsKeep DEF Pair
  <1> QED BY <1>3, <1>4, <1>5, <1>7, <1>8, MoveKeeps

(* What inserting begins with.                                              *)
LEMMA StartOfInsertion ==
  ASSUME TypeOK, NEW s \in Sessions, Replaces(s)
  PROVE  /\ ToInsert(s) \in {"commit", "insert"}
         /\ ToInsert(s) = "commit" => Definition(s) = {}
         /\ ToInsert(s) = "insert" =>
               \E n \in 0..(Len(call[s].list) - 1) : Prefix(s, n) = {} /\ n \in Nat
PROOF
  <1>1. call[s].list \in Seq(Lanes)
    BY ListTyped, Names
  <1>2. ToInsert(s) = "commit" => Definition(s) = {}
    BY DEF ToInsert, Definition
  <1>3. ASSUME ToInsert(s) = "insert"
        PROVE  \E n \in 0..(Len(call[s].list) - 1) : Prefix(s, n) = {} /\ n \in Nat
    <2>1. call[s].list # <<>>
      BY <1>3 DEF ToInsert
    <2>2. 0 \in 0..(Len(call[s].list) - 1)
      BY <1>1, <2>1
    <2>3. Prefix(s, 0) = {}
      BY DEF Prefix
    <2> QED BY <2>2, <2>3
  <1> QED BY <1>2, <1>3 DEF ToInsert

LEMMA DeleteKeeps ==
  ASSUME IInv, NEW s \in Sessions, DeleteEntries(s)
  PROVE  IInv'
PROOF
  <1> DEFINE label == IF call[s].selects /\ ~tx[s].created THEN "update" ELSE ToInsert(s)
  <1>1. /\ TypeOK /\ s \in Writers /\ Open(s) /\ Replaces(s) /\ pc[s] = "deleteRows"
        /\ tx[s].ins = {} /\ tx[s].dropped = FALSE /\ Own(s)
    BY Names DEF DeleteEntries, IInv, Open, Ended, PCs, Calls, Own, Progress, TypeOK, Tx
  <1>2. /\ pc' = [pc EXCEPT ![s] = label] /\ tx' = [tx EXCEPT ![s].dels = snap[s] \cap rows]
        /\ UNCHANGED <<live, selector, rows, call, target, snap, overlap, at, listed, eligible, route, touched>>
        /\ Free(s)
    BY DEF DeleteEntries, Goto, store, gateways
  <1> HIDE DEF label
  <1>3. /\ label \in {"update", "insert", "commit"}
        /\ label # "update" => label = ToInsert(s)
        /\ label = "update" => ~tx[s].created
    BY <1>1, StartOfInsertion DEF label
  <1>4. /\ pc'[s] = label /\ target'[s] = target[s] /\ snap'[s] = snap[s] /\ tx'[s] \in Tx
        /\ tx'[s].ins = {} /\ tx'[s].dels = snap[s] \cap rows
        /\ tx'[s].created = tx[s].created /\ tx'[s].dropped = FALSE
    BY <1>1, <1>2 DEF TypeOK, Tx
  <1>5. Move(s)
    BY <1>1, <1>2, <1>4 DEF Move, TypeOK
  <1>6. TypeOK'
    BY <1>1, <1>3, <1>4, <1>5, MoveTypes DEF TypeOK, PCs
  <1>7. /\ Replaces(s)' = Replaces(s) /\ Keyed(s)' = Keyed(s) /\ KeyHolders' = KeyHolders
        /\ Definition(s)' = Definition(s) /\ \A n \in Nat : Prefix(s, n)' = Prefix(s, n)
    BY <1>1, <1>2, <1>5, MoveFrame
  <1>8. Own(s)'
    <2>1. Progress(s)'
      <3>1. label = "insert" =>
               \E n \in 0..(Len(call[s].list) - 1) : tx'[s].ins = Prefix(s, n)'
        BY <1>1, <1>3, <1>4, <1>7, StartOfInsertion
      <3>2. label = "commit" => tx'[s].ins = Definition(s)'
        BY <1>1, <1>3, <1>4, <1>7, StartOfInsertion
      <3>3. call' = call
        BY <1>2
      <3> QED BY <1>1, <1>3, <1>4, <1>7, <3>1, <3>2, <3>3 DEF Own, Progress, Ended
    <2>2. Written(s)'
      <3>1. \A r \in snap[s] : r.chain = target[s]
        BY <1>1 DEF Own, Scanned
      <3>2. tx'[s].dels \subseteq RowsOf(target[s])
        BY <1>4, <3>1 DEF RowsOf
      <3>3. \A z \in tx'[s].dels, q \in rows : SameLane(z, q) => q \in tx'[s].dels
        BY <1>1, <1>4 DEF Own, Scanned
      <3> QED BY <1>1, <1>2, <1>4, <1>7, <3>2, <3>3 DEF Own, Written, RowsOf
    <2>3. Scanned(s)'
      <3>1. \A q \in RowsOf(target[s]) \ tx'[s].dels : q.by \in overlap[s]
        BY <1>1, <1>4 DEF Own, Scanned, RowsOf
      <3> QED BY <1>2, <1>3, <1>4, <3>1 DEF Scanned, RowsOf
    <2> QED BY <2>1, <2>2, <2>3 DEF Own
  <1>9. ASSUME NEW t \in Sessions \ {s} PROVE Pair(s, t)' /\ Pair(t, s)'
    <2>1. Pair(s, t) /\ Pair(t, s)
      BY DEF IInv, Calls
    <2>2. tx'[s].dels \cap tx[t].dels = {}
      BY <1>1, <1>2, <1>4 DEF Free, Blocks
    <2> QED BY <1>1, <1>4, <1>5, <2>1, <2>2, PairsKeep DEF Pair
  <1> QED BY <1>3, <1>4, <1>5, <1>6, <1>8, <1>9, MoveKeeps

LEMMA UpdateKeeps ==
  ASSUME IInv, NEW s \in Sessions, UpdateChain(s)
  PROVE  IInv'
PROOF
  <1> DEFINE label == IF Replaces(s) THEN ToInsert(s) ELSE "commit"
  <1>1. /\ TypeOK /\ s \in Writers /\ Open(s) /\ pc[s] = "update"
        /\ tx[s].ins = {} /\ Own(s)
    BY Names DEF UpdateChain, IInv, Open, Ended, PCs, Calls, Own, Progress
  <1>2. /\ pc' = [pc EXCEPT ![s] = label] /\ tx' = [tx EXCEPT ![s].updated = TRUE]
        /\ UNCHANGED <<live, selector, rows, call, target, snap, overlap, at, listed, eligible, route, touched>>
    BY DEF UpdateChain, Goto, store, gateways
  <1> HIDE DEF label
  <1>3. /\ label \in {"insert", "commit"} /\ (label = "insert" => Replaces(s))
        /\ Replaces(s) => label = ToInsert(s)
    BY <1>1, StartOfInsertion DEF label
  <1>4. /\ pc'[s] = label /\ target'[s] = target[s] /\ snap'[s] = snap[s] /\ tx'[s] \in Tx
        /\ tx'[s].ins = {} /\ tx'[s].dels = tx[s].dels
        /\ tx'[s].created = tx[s].created /\ tx'[s].dropped = tx[s].dropped
    BY <1>1, <1>2 DEF TypeOK, Tx
  <1>5. Move(s)
    BY <1>1, <1>2, <1>4 DEF Move, TypeOK
  <1>6. TypeOK'
    BY <1>1, <1>3, <1>4, <1>5, MoveTypes DEF TypeOK, PCs
  <1>7. /\ Replaces(s)' = Replaces(s) /\ Keyed(s)' = Keyed(s) /\ KeyHolders' = KeyHolders
        /\ Definition(s)' = Definition(s) /\ \A n \in Nat : Prefix(s, n)' = Prefix(s, n)
    BY <1>1, <1>2, <1>5, MoveFrame
  <1>8. Own(s)'
    <2>1. Progress(s)'
      <3>1. label = "insert" =>
               \E n \in 0..(Len(call[s].list) - 1) : tx'[s].ins = Prefix(s, n)'
        BY <1>1, <1>3, <1>4, <1>7, StartOfInsertion
      <3>2. label = "commit" /\ Replaces(s) => tx'[s].ins = Definition(s)'
        BY <1>1, <1>3, <1>4, <1>7, StartOfInsertion
      <3>3. call' = call
        BY <1>2
      <3> QED BY <1>1, <1>3, <1>4, <1>7, <3>1, <3>2, <3>3 DEF Own, Progress, Ended
    <2>2. Written(s)'
      BY <1>1, <1>2, <1>4, <1>7 DEF Own, Written, RowsOf
    <2>3. Scanned(s)'
      BY <1>1, <1>2, <1>3, <1>4, <1>7 DEF Own, Scanned, RowsOf
    <2> QED BY <2>1, <2>2, <2>3 DEF Own
  <1>9. ASSUME NEW t \in Sessions \ {s} PROVE Pair(s, t)' /\ Pair(t, s)'
    <2>1. Pair(s, t) /\ Pair(t, s)
      BY DEF IInv, Calls
    <2> QED BY <1>1, <1>4, <1>5, <2>1, PairsKeep DEF Pair
  <1> QED BY <1>3, <1>4, <1>5, <1>6, <1>8, <1>9, MoveKeeps

LEMMA InsertKeeps ==
  ASSUME IInv, NEW s \in Sessions, InsertEntry(s)
  PROVE  IInv'
PROOF
  <1> DEFINE e     == NextEntry(s)
             ins   == tx[s].ins \cup {e}
             label == IF ins = Definition(s) THEN "commit" ELSE "insert"
  <1>1. /\ TypeOK /\ s \in Writers /\ Open(s) /\ Replaces(s) /\ pc[s] = "insert"
        /\ tx[s].dropped = FALSE /\ Own(s)
    BY Names DEF InsertEntry, IInv, Open, Ended, PCs, Calls, Own, Progress, TypeOK, Tx
  <1>2. PICK n \in 0 .. Len(call[s].list) - 1 : tx[s].ins = Prefix(s, n)
    BY <1>1 DEF Own, Progress
  <1>3. /\ e \in Definition(s) /\ ins = Prefix(s, n + 1) /\ n + 1 \in 1..Len(call[s].list)
        /\ n + 1 = Len(call[s].list) => Prefix(s, n + 1) = Definition(s)
    BY <1>1, <1>2, NextIsNew
  <1>4. e \in Row /\ e.chain = target[s]
    BY <1>1, <1>3, DefinitionFields
  <1>5. /\ tx' = [tx EXCEPT ![s].ins = ins] /\ pc' = [pc EXCEPT ![s] = label]
        /\ UNCHANGED <<live, selector, rows, call, target, snap, overlap, at, listed, eligible, route, touched>>
        /\ Free(s) /\ ~Conflict(s)
    <2>1. tx' = [tx EXCEPT ![s].ins = ins] /\ tx'[s].ins = ins
      BY <1>1 DEF InsertEntry, TypeOK, Tx
    <2> QED BY <2>1 DEF InsertEntry, Goto, store, gateways
  <1> HIDE DEF e, ins, label
  <1>6. /\ label \in {"insert", "commit"} /\ (label = "commit" <=> ins = Definition(s))
    BY DEF label
  <1>7. /\ pc'[s] = label /\ target'[s] = target[s] /\ snap'[s] = snap[s] /\ tx'[s] \in Tx
        /\ tx'[s].ins = ins /\ tx'[s].dels = tx[s].dels
        /\ tx'[s].created = tx[s].created /\ tx'[s].dropped = FALSE
    <2>1. ins \subseteq Row
      BY <1>1, <1>4 DEF ins, TypeOK, Tx
    <2> QED BY <1>1, <1>5, <2>1 DEF TypeOK, Tx
  <1>8. Move(s)
    BY <1>1, <1>5, <1>7 DEF Move, TypeOK
  <1>9. TypeOK'
    BY <1>1, <1>6, <1>7, <1>8, MoveTypes DEF TypeOK, PCs
  <1>10. /\ Replaces(s)' = Replaces(s) /\ Keyed(s)' = Keyed(s) /\ KeyHolders' = KeyHolders
         /\ Definition(s)' = Definition(s) /\ \A k \in Nat : Prefix(s, k)' = Prefix(s, k)
    BY <1>1, <1>5, <1>8, MoveFrame
  <1>11. Own(s)'
    <2>1. Progress(s)'
      <3>1. label = "insert" =>
               \E k \in 0..(Len(call[s].list) - 1) : ins = Prefix(s, k)'
        <4> SUFFICES ASSUME label = "insert"
                     PROVE  \E k \in 0..(Len(call[s].list) - 1) : ins = Prefix(s, k)'
          OBVIOUS
        <4>1. call[s].list \in Seq(Lanes)
          BY <1>1, ListTyped
        <4>2. n + 1 \in 0..(Len(call[s].list) - 1) /\ n + 1 \in Nat
          BY <1>3, <1>6, <4>1
        <4> QED BY <1>3, <1>10, <4>2
      <3>2. label = "commit" => ins = Definition(s)'
        BY <1>6, <1>10
      <3>3. call' = call
        BY <1>5
      <3> QED BY <1>1, <1>6, <1>7, <1>10, <3>1, <3>2, <3>3 DEF Own, Progress, Ended
    <2>2. Written(s)'
      <3>1. ins \subseteq Definition(s) /\ (target[s] \in live \/ tx[s].created)
        BY <1>1, <1>3, <1>5 DEF Own, Written, Conflict, Orphan, ins
      <3>2. \A x \in ins, q \in rows : SameSlot(x, q) => q \in tx[s].dels
        <4> SUFFICES ASSUME NEW x \in ins, NEW q \in rows, SameSlot(x, q), q \notin tx[s].dels
                     PROVE  FALSE
          OBVIOUS
        <4>1. CASE x \in tx[s].ins
          BY <1>1, <4>1 DEF Own, Written
        <4>2. CASE x = e
          BY <1>5, <4>2 DEF Conflict, SameSlot, e
        <4> QED BY <4>1, <4>2 DEF ins
      <3> QED BY <1>1, <1>5, <1>7, <1>10, <3>1, <3>2 DEF Own, Written, RowsOf
    <2>3. Scanned(s)'
      BY <1>1, <1>5, <1>6, <1>7, <1>10 DEF Own, Scanned, RowsOf
    <2> QED BY <2>1, <2>2, <2>3 DEF Own
  <1>12. ASSUME NEW t \in Sessions \ {s} PROVE Pair(s, t)' /\ Pair(t, s)'
    <2>1. Pair(s, t) /\ Pair(t, s) /\ ~Blocks(t, s)
      BY <1>5 DEF IInv, Calls, Free
    <2>2. \A x \in ins, q \in tx[t].ins : ~SameSlot(x, q)
      <3> SUFFICES ASSUME NEW x \in ins, NEW q \in tx[t].ins, SameSlot(x, q) PROVE FALSE
        OBVIOUS
      <3>1. CASE x \in tx[s].ins
        BY <2>1, <3>1 DEF Pair
      <3>2. CASE x = e
        <4>1. q \in Definition(t) /\ Replaces(t) /\ t \in Writers
          BY Names DEF IInv, Calls, Own, Written
        <4>2. q.chain = target[t]
          BY <1>1, <4>1, DefinitionFields
        <4>3. target[t] = target[s] /\ SameSlot(q, e)
          BY <1>4, <3>2, <4>2 DEF SameSlot
        <4> QED BY <1>1, <2>1, <4>3 DEF Blocks, e
      <3> QED BY <3>1, <3>2 DEF ins
    <2>3. tx[t].dropped => target[s] # target[t]
      BY <1>1, <2>1 DEF Blocks
    <2> QED BY <1>7, <1>8, <2>1, <2>2, <2>3, PairsKeep DEF Pair
  <1> QED BY <1>6, <1>7, <1>8, <1>9, <1>11, <1>12, MoveKeeps

LEMMA DropKeeps ==
  ASSUME IInv, NEW s \in Sessions, DropChain(s)
  PROVE  IInv'
PROOF
  <1> DEFINE there == target[s] \in live
             label == IF there THEN "cascade" ELSE "commit"
  <1>1. /\ TypeOK /\ s \in Writers /\ Open(s) /\ ~Replaces(s) /\ pc[s] = "drop"
        /\ tx[s] = Nothing
    BY Names DEF DropChain, IInv, Open, Ended, PCs, Calls, Own, Progress
  <1>2. /\ pc' = [pc EXCEPT ![s] = label] /\ tx' = [tx EXCEPT ![s].dropped = there]
        /\ UNCHANGED <<live, selector, rows, call, target, snap, overlap, at, listed, eligible, route, touched>>
        /\ Free(s)
    BY DEF DropChain, Goto, store, gateways
  <1>2a. there \in BOOLEAN /\ label \in {"cascade", "commit"}
    OBVIOUS
  <1> HIDE DEF there, label
  <1>3. /\ pc'[s] = label /\ label \in {"cascade", "commit"}
        /\ target'[s] = target[s] /\ snap'[s] = snap[s] /\ tx'[s] \in Tx
        /\ tx'[s].ins = {} /\ tx'[s].dels = {} /\ tx'[s].created = FALSE
    BY <1>1, <1>2, <1>2a, NothingIs DEF TypeOK, Tx
  <1>4. Move(s)
    BY <1>1, <1>2, <1>3 DEF Move, TypeOK
  <1>5. TypeOK'
    BY <1>1, <1>3, <1>4, MoveTypes DEF TypeOK, PCs
  <1>6. Replaces(s)' = Replaces(s)
    BY <1>1, <1>4, MoveFrame
  <1>7. Own(s)'
    <2>1. Progress(s)'
      BY <1>1, <1>3, <1>6 DEF Progress, Ended
    <2>2. Written(s)'
      BY <1>3 DEF Written
    <2>3. Scanned(s)'
      BY <1>1, <1>3, <1>6 DEF Scanned
    <2> QED BY <2>1, <2>2, <2>3 DEF Own
  <1>8. ASSUME NEW t \in Sessions \ {s} PROVE Pair(s, t)' /\ Pair(t, s)'
    <2>1. tx[t].ins # {} => target[s] # target[t]
      BY <1>1, <1>2 DEF Free, Blocks
    <2> QED BY <1>3, <1>4, <2>1, PairsKeep
  <1> QED BY <1>3, <1>4, <1>5, <1>7, <1>8, MoveKeeps

LEMMA CascadeKeeps ==
  ASSUME IInv, NEW s \in Sessions, Cascade(s)
  PROVE  IInv'
PROOF
  <1>1. /\ TypeOK /\ s \in Writers /\ Open(s) /\ ~Replaces(s) /\ pc[s] = "cascade"
        /\ tx[s].ins = {} /\ Own(s)
    BY Names DEF Cascade, IInv, Open, Ended, PCs, Calls, Own, Progress
  <1>2. /\ pc' = [pc EXCEPT ![s] = "commit"] /\ tx' = [tx EXCEPT ![s].dels = RowsOf(target[s])]
        /\ UNCHANGED <<live, selector, rows, call, target, snap, overlap, at, listed, eligible, route, touched>>
        /\ Free(s)
    BY DEF Cascade, Goto, store, gateways
  <1>3. /\ pc'[s] = "commit" /\ target'[s] = target[s] /\ snap'[s] = snap[s] /\ tx'[s] \in Tx
        /\ tx'[s].ins = {} /\ tx'[s].dels = RowsOf(target[s])
        /\ tx'[s].created = tx[s].created /\ tx'[s].dropped = tx[s].dropped
    <2>1. RowsOf(target[s]) \subseteq Row
      BY <1>1 DEF RowsOf, TypeOK
    <2> QED BY <1>1, <1>2, <2>1 DEF TypeOK, Tx
  <1>4. Move(s)
    BY <1>1, <1>2, <1>3 DEF Move, TypeOK
  <1>5. TypeOK'
    BY <1>1, <1>3, <1>4, MoveTypes DEF TypeOK, PCs
  <1>6. Replaces(s)' = Replaces(s) /\ Keyed(s)' = Keyed(s) /\ KeyHolders' = KeyHolders
    BY <1>1, <1>4, MoveFrame
  <1>7. Own(s)'
    <2>1. Progress(s)'
      BY <1>1, <1>3, <1>6 DEF Own, Progress, Ended
    <2>2. Written(s)'
      BY <1>1, <1>2, <1>3, <1>6 DEF Own, Written, RowsOf, SameLane
    <2>3. Scanned(s)'
      BY <1>1, <1>3, <1>6 DEF Scanned
    <2> QED BY <2>1, <2>2, <2>3 DEF Own
  <1>8. ASSUME NEW t \in Sessions \ {s} PROVE Pair(s, t)' /\ Pair(t, s)'
    <2>1. Pair(s, t) /\ Pair(t, s) /\ RowsOf(target[s]) \cap tx[t].dels = {}
      BY <1>1, <1>2 DEF IInv, Calls, Free, Blocks
    <2> QED BY <1>1, <1>3, <1>4, <2>1, PairsKeep DEF Pair
  <1> QED BY <1>3, <1>4, <1>5, <1>7, <1>8, MoveKeeps

--------------------------------------------------------------------------------
(* The commit.                                                              *)

(* Whoever commits entries for a lane has deleted all that were stored for  *)
(* it: theirs and its own both begin at position 0, so it had to delete     *)
(* that one, and it deletes whole lanes.                                    *)
LEMMA NoneRemain ==
  ASSUME IInv, NEW s \in Sessions, pc[s] = "commit",
         NEW e \in tx[s].ins, NEW q \in rows, SameLane(e, q)
  PROVE  q \in tx[s].dels
PROOF
  <1>1. /\ TypeOK /\ s \in Writers /\ Own(s) /\ Replaces(s) /\ tx[s].ins = Definition(s)
    BY Names DEF IInv, Calls, Own, Written, Progress
  <1>2. /\ q.by \in Writers /\ Replaces(q.by) /\ q \in Definition(q.by)
    BY DEF IInv, Stored, RowsWritten, TypeOK, Row
  <1>3. PICK y \in Definition(s) : y.lane = e.lane /\ y.pos = 0
    BY <1>1, HeadOfLane
  <1>4. PICK z \in Definition(q.by) : z.lane = q.lane /\ z.pos = 0
    BY <1>1, <1>2, HeadOfLane
  <1>5. z \in rows
    BY <1>4 DEF IInv, Stored, Whole
  <1>6. y.chain = e.chain /\ z.chain = q.chain
    BY <1>1, <1>2, <1>3, <1>4, DefinitionFields
  <1>7. SameSlot(y, z) /\ SameLane(z, q)
    BY <1>3, <1>4, <1>6 DEF SameSlot, SameLane
  <1>8. z \in tx[s].dels
    BY <1>1, <1>3, <1>5, <1>7 DEF Own, Written
  <1> QED BY <1>1, <1>7, <1>8 DEF Own, Written

LEMMA CommitFrame ==
  ASSUME IInv, NEW s \in Sessions, Commit(s)
  PROVE  /\ TypeOK /\ s \in Writers /\ pc[s] = "commit" /\ pc'[s] = "ok" /\ Own(s)
         /\ rows' = (rows \ tx[s].dels) \cup tx[s].ins
         /\ live' = (live \cup (IF tx[s].created THEN {s} ELSE {}))
                       \ (IF tx[s].dropped THEN {target[s]} ELSE {})
         /\ tx'[s] = Nothing /\ target' = target /\ call' = call /\ overlap' = overlap
         /\ \A w : Keyed(w)' = Keyed(w) /\ Replaces(w)' = Replaces(w) /\ Definition(w)' = Definition(w)
         /\ \A w, n : Prefix(w, n)' = Prefix(w, n)
         /\ \A w \in Writers \ {s} : pc'[w] = pc[w]
         /\ \A t \in Sessions \ {s} : tx'[t] = tx[t] /\ snap'[t] = snap[t]
PROOF
  <1>1. TypeOK /\ s \in Writers /\ Own(s) /\ pc[s] = "commit"
    BY Names DEF IInv, Calls, Commit
  <1>2. pc' = [pc EXCEPT ![s] = "ok"] /\ tx' = [tx EXCEPT ![s] = Nothing]
        /\ snap' = [snap EXCEPT ![s] = {}] /\ target' = target /\ call' = call /\ overlap' = overlap
    BY DEF Commit, Goto
  <1>3. /\ rows' = (rows \ tx[s].dels) \cup tx[s].ins
        /\ live' = (live \cup (IF tx[s].created THEN {s} ELSE {}))
                       \ (IF tx[s].dropped THEN {target[s]} ELSE {})
    BY DEF Commit
  <1>4. ASSUME NEW w
        PROVE  /\ Keyed(w)' = Keyed(w) /\ Replaces(w)' = Replaces(w) /\ Definition(w)' = Definition(w)
               /\ \A n : Prefix(w, n)' = Prefix(w, n)
    BY <1>2 DEF Keyed, Replaces, Definition, Prefix, Entry
  <1>5. pc'[s] = "ok" /\ tx'[s] = Nothing /\ \A w \in Writers \ {s} : pc'[w] = pc[w]
    BY <1>1, <1>2 DEF TypeOK
  <1>6. \A t \in Sessions \ {s} : tx'[t] = tx[t] /\ snap'[t] = snap[t]
    BY <1>1, <1>2 DEF TypeOK
  <1> QED BY <1>1, <1>2, <1>3, <1>4, <1>5, <1>6

LEMMA CommitTypes ==
  ASSUME IInv, NEW s \in Sessions, Commit(s)
  PROVE  TypeOK'
PROOF
  <1>1. TypeOK /\ s \in Writers /\ target[s] \in Writers /\ tx[s] \in Tx
    BY Names DEF IInv, TypeOK
  <1>2. live' \subseteq Writers /\ rows' \subseteq Row
    BY <1>1, CommitFrame DEF TypeOK, Tx
  <1>3. selector' \in [Writers -> Writers]
    BY <1>1 DEF Commit, TypeOK
  <1>4. pc' \in [Writers -> PCs]
    BY <1>1, Names DEF Commit, Goto, TypeOK, PCs, Ended
  <1>5. tx' \in [Sessions -> Tx] /\ snap' \in [Sessions -> SUBSET Row]
    BY <1>1, Names DEF Commit, TypeOK
  <1>6. touched' \in [Requests -> SUBSET Writers]
    <2>1. ASSUME NEW g \in Requests
          PROVE  (IF at[g] \in {"entries", "load"} THEN touched[g] \cup {target[s]}
                                                   ELSE touched[g]) \in SUBSET Writers
      BY <1>1 DEF TypeOK
    <2> QED BY <2>1 DEF Commit
  <1> QED BY <1>1, <1>2, <1>3, <1>4, <1>5, <1>6 DEF Commit, TypeOK, gateways

LEMMA CommitStored ==
  ASSUME IInv, NEW s \in Sessions, Commit(s)
  PROVE  Stored'
PROOF
  <1>1. /\ TypeOK /\ s \in Writers /\ pc[s] = "commit" /\ pc'[s] = "ok" /\ Own(s) /\ Stored
        /\ rows' = (rows \ tx[s].dels) \cup tx[s].ins
        /\ tx[s].ins # {} => Replaces(s) /\ tx[s].ins = Definition(s)
    BY CommitFrame DEF IInv, Own, Written, Progress
  <1>2. ASSUME NEW r \in tx[s].ins
        PROVE  r \in Definition(s) /\ Replaces(s) /\ r.by = s /\ r.chain = target[s]
    BY <1>1, <1>2, DefinitionFields
  <1>3. ASSUME NEW r \in rows
        PROVE  /\ r.by \in Writers /\ pc[r.by] = "ok" /\ Replaces(r.by) /\ r \in Definition(r.by)
               /\ r.by # s /\ r.chain = target[r.by]
    <2>1. r.by \in Writers /\ pc[r.by] = "ok" /\ Replaces(r.by) /\ r \in Definition(r.by)
      BY <1>1 DEF Stored, RowsWritten, TypeOK, Row
    <2> QED BY <1>1, <2>1, DefinitionFields
  <1>4. RowsWritten'
    <2> SUFFICES ASSUME NEW r \in rows'
                 PROVE  pc'[r.by] = "ok" /\ Replaces(r.by)' /\ r \in Definition(r.by)'
      BY DEF RowsWritten
    <2>1. CASE r \in rows
      BY <1>3, <2>1, CommitFrame
    <2>2. CASE r \in tx[s].ins
      BY <1>1, <1>2, <2>2, CommitFrame
    <2> QED BY <1>1, <2>1, <2>2
  <1>5. ASSUME NEW e \in tx[s].ins, NEW q \in rows \ tx[s].dels PROVE ~SameLane(e, q)
    BY <1>1, <1>5, NoneRemain
  <1>6. OneWriter'
    <2> SUFFICES ASSUME NEW q \in rows', NEW r \in rows', SameLane(q, r) PROVE q.by = r.by
      BY DEF OneWriter
    <2>1. SameLane(r, q)
      BY DEF SameLane
    <2>2. CASE q \in tx[s].ins
      BY <1>1, <1>2, <1>5, <2>2
    <2>3. CASE r \in tx[s].ins
      BY <1>1, <1>2, <1>5, <2>1, <2>3
    <2>4. CASE q \in rows /\ r \in rows
      BY <1>1, <2>4 DEF Stored, OneWriter
    <2> QED BY <1>1, <2>2, <2>3, <2>4
  <1>7. Whole'
    <2> SUFFICES ASSUME NEW q \in rows', NEW r \in Definition(q.by)', r.lane = q.lane
                 PROVE  r \in rows'
      BY DEF Whole
    <2>1. r \in Definition(q.by)
      BY CommitFrame
    <2>2. CASE q \in tx[s].ins
      BY <1>1, <1>2, <2>1, <2>2
    <2>3. CASE q \in rows \ tx[s].dels
      <3>1. r \in rows /\ r.chain = q.chain
        BY <1>1, <1>3, <2>1, <2>3, DefinitionFields DEF Stored, Whole
      <3>2. r \notin tx[s].dels
        BY <1>1, <2>3, <3>1 DEF Own, Written, SameLane
      <3> QED BY <1>1, <3>1, <3>2
    <2> QED BY <1>1, <2>2, <2>3
  <1>8. \A c \in live' : pc'[c] = "ok" /\ (c \in live \/ (c = s /\ tx[s].created))
    <2> SUFFICES ASSUME NEW c \in live'
                 PROVE  pc'[c] = "ok" /\ (c \in live \/ (c = s /\ tx[s].created))
      OBVIOUS
    <2>1. c \in live \/ (c = s /\ tx[s].created)
      BY CommitFrame
    <2>2. CASE c \in live
      <3>1. pc[c] = "ok" /\ c \in Writers
        BY <1>1, <2>2 DEF Stored, Chains, TypeOK
      <3> QED BY <1>1, <2>1, <3>1, CommitFrame
    <2> QED BY <1>1, <2>1, <2>2
  <1>9. \A c, d \in KeyHolders' : c = d
    <2>1. \A c \in KeyHolders' : c \in KeyHolders \/ (c = s /\ tx[s].created /\ Keyed(s))
      BY <1>8, CommitFrame DEF KeyHolders
    <2>2. tx[s].created /\ Keyed(s) => KeyHolders = {}
      BY <1>1 DEF Own, Written
    <2>3. \A c, d \in KeyHolders : c = d
      BY <1>1 DEF Stored, Chains
    <2> QED BY <2>1, <2>2, <2>3
  <1> QED BY <1>4, <1>6, <1>7, <1>8, <1>9 DEF Stored, Chains

LEMMA CommitOwn ==
  ASSUME IInv, NEW s \in Sessions, Commit(s), NEW t \in Sessions
  PROVE  Own(t)'
PROOF
  <1>1. /\ TypeOK /\ s \in Writers /\ pc[s] = "commit" /\ pc'[s] = "ok" /\ Own(t)
        /\ tx'[s] = Nothing /\ target' = target /\ call' = call /\ overlap' = overlap
        /\ rows' = (rows \ tx[s].dels) \cup tx[s].ins
        /\ t \in Writers
    BY CommitFrame, Names DEF IInv, Calls
  <1>2. CASE t = s
    <2>1. Progress(s)'
      BY <1>1, NothingIs DEF Progress, Ended
    <2>2. Written(s)'
      BY <1>1, NothingIs DEF Written
    <2>3. Scanned(s)'
      BY <1>1 DEF Scanned
    <2> QED BY <1>2, <2>1, <2>2, <2>3 DEF Own
  <1>3. CASE t # s
    <2>1. /\ pc'[t] = pc[t] /\ tx'[t] = tx[t] /\ snap'[t] = snap[t]
          /\ Keyed(t)' = Keyed(t) /\ Replaces(t)' = Replaces(t) /\ Definition(t)' = Definition(t)
          /\ \A n : Prefix(t, n)' = Prefix(t, n)
          /\ Pair(s, t) /\ Pair(t, s) /\ Own(s)
      BY <1>1, <1>3, CommitFrame DEF IInv, Calls
    <2>2. Progress(t)'
      BY <1>1, <2>1 DEF Own, Progress
    <2>3. ASSUME NEW e \in tx[s].ins, NEW q \in rows, SameLane(e, q) PROVE q \in tx[s].dels
      BY <1>1, <2>3, NoneRemain
    <2>4. Written(t)'
      <3>1. tx[t].ins # {} => target[t] \in live' \/ tx[t].created
        BY <1>1, <2>1, CommitFrame DEF Own, Written, Pair
      <3>2. \A z \in tx[t].dels : z \in rows /\ z.chain = target[t] /\ z \notin tx[s].dels
        BY <1>1, <2>1 DEF Own, Written, RowsOf, Pair
      <3>3. tx[t].dels \subseteq RowsOf(target[t])'
        BY <1>1, <3>2 DEF RowsOf
      <3>4. \A z \in tx[t].dels, q \in rows' : SameLane(z, q) => q \in tx[t].dels
        <4> SUFFICES ASSUME NEW z \in tx[t].dels, NEW q \in rows', SameLane(z, q)
                     PROVE  q \in tx[t].dels
          OBVIOUS
        <4>1. CASE q \in tx[s].ins
          BY <2>3, <3>2, <4>1 DEF SameLane
        <4>2. CASE q \in rows
          BY <1>1, <4>2 DEF Own, Written
        <4> QED BY <1>1, <4>1, <4>2
      <3>5. \A e \in tx[t].ins, q \in rows' : SameSlot(e, q) => q \in tx[t].dels
        BY <1>1, <2>1 DEF Own, Written, Pair
      <3>6. tx[t].created /\ Keyed(t) => KeyHolders' = {}
        <4>1. \A c \in KeyHolders' : c \in KeyHolders \/ (tx[s].created /\ Keyed(s))
          BY CommitFrame DEF KeyHolders
        <4> QED BY <1>1, <2>1, <4>1 DEF Own, Written, Pair
      <3> QED BY <1>1, <2>1, <3>1, <3>3, <3>4, <3>5, <3>6 DEF Own, Written
    <2>5. Scanned(t)'
      <3>1. Open(t) => \A q \in tx[s].ins : q.by \in overlap[t]
        <4> SUFFICES ASSUME Open(t), NEW q \in tx[s].ins PROVE q.by \in overlap[t]
          OBVIOUS
        <4>1. Open(s)
          BY <1>1 DEF Open, Ended
        <4>2. Replaces(s) /\ q \in Definition(s)
          BY <2>1 DEF Own, Written
        <4>3. q.by = s
          BY <1>1, <4>2, DefinitionFields
        <4> QED BY <2>1, <4>1, <4>3 DEF Pair
      <3>2. pc[t] = "deleteRows" =>
               /\ \A r \in snap[t] : r.chain = target[t] /\ pc'[r.by] = "ok"
               /\ \A z \in snap[t] \cap rows', q \in rows' : SameLane(z, q) => q \in snap[t]
               /\ \A q \in RowsOf(target[t])' \ snap[t] : q.by \in overlap[t]
        <4> SUFFICES ASSUME pc[t] = "deleteRows"
                     PROVE  /\ \A r \in snap[t] : r.chain = target[t] /\ pc'[r.by] = "ok"
                            /\ \A z \in snap[t] \cap rows', q \in rows' : SameLane(z, q) => q \in snap[t]
                            /\ \A q \in RowsOf(target[t])' \ snap[t] : q.by \in overlap[t]
          OBVIOUS
        <4>0. Open(t)
          BY DEF Open, Ended
        <4>1. \A r \in snap[t] : r.chain = target[t] /\ pc[r.by] = "ok" /\ r.by \in Writers
          BY <1>1 DEF Own, Scanned, TypeOK, Row
        <4>2. \A r \in snap[t] : pc'[r.by] = "ok" /\ r.by # s
          BY <1>1, <4>1, CommitFrame
        <4>3. \A r \in snap[t] : r \notin tx[s].ins
          BY <1>1, <2>1, <4>2, DefinitionFields DEF Own, Written
        <4>4. ASSUME NEW z \in snap[t] \cap rows', NEW q \in rows', SameLane(z, q)
              PROVE  q \in snap[t]
          <5>1. z \in rows /\ z \notin tx[s].dels
            BY <1>1, <4>3
          <5>2. CASE q \in tx[s].ins
            BY <2>3, <4>4, <5>1, <5>2 DEF SameLane
          <5>3. CASE q \in rows
            BY <1>1, <4>4, <5>1, <5>3 DEF Own, Scanned
          <5> QED BY <1>1, <5>2, <5>3
        <4>5. \A q \in RowsOf(target[t])' \ snap[t] : q.by \in overlap[t]
          BY <1>1, <3>1, <4>0 DEF Own, Scanned, RowsOf
        <4> QED BY <4>1, <4>2, <4>4, <4>5
      <3>3. pc[t] \in {"update", "insert", "commit"} /\ Replaces(t) =>
               \A q \in RowsOf(target[t])' \ tx[t].dels : q.by \in overlap[t]
        BY <1>1, <3>1 DEF Own, Scanned, RowsOf, Open, Ended
      <3> QED BY <1>1, <2>1, <3>2, <3>3 DEF Scanned
    <2> QED BY <2>2, <2>4, <2>5 DEF Own
  <1> QED BY <1>2, <1>3

LEMMA CommitKeeps ==
  ASSUME IInv, NEW s \in Sessions, Commit(s)
  PROVE  IInv'
PROOF
  <1>1. \A t \in Sessions : \A u \in Sessions \ {t} : Pair(t, u)'
    <2> SUFFICES ASSUME NEW t \in Sessions, NEW u \in Sessions \ {t} PROVE Pair(t, u)'
      OBVIOUS
    <2>1. /\ Pair(t, u) /\ t \in Writers /\ u \in Writers
          /\ target' = target /\ overlap' = overlap /\ tx'[s] = Nothing /\ pc'[s] = "ok"
          /\ Keyed(t)' = Keyed(t) /\ Keyed(u)' = Keyed(u)
      BY CommitFrame, Names DEF IInv, Calls
    <2>2. CASE t # s /\ u # s
      <3>1. pc'[t] = pc[t] /\ pc'[u] = pc[u] /\ tx'[t] = tx[t] /\ tx'[u] = tx[u]
        BY <2>1, <2>2, CommitFrame
      <3> QED BY <2>1, <3>1 DEF Pair, Open
    <2>3. CASE t = s \/ u = s
      BY <2>1, <2>3, NothingIs DEF Pair, Open, Ended
    <2> QED BY <2>2, <2>3
  <1>2. Gate'
    <2>1. /\ TypeOK /\ rows' = (rows \ tx[s].dels) \cup tx[s].ins /\ Own(s) /\ s \in Writers
      BY CommitFrame
    <2>2. \A r \in tx[s].ins \cup tx[s].dels : r.chain = target[s]
      BY <2>1, DefinitionFields DEF Own, Written, RowsOf
    <2>3. \A c, l : c # target[s] => Lane(c, l)' = Lane(c, l)
      BY <2>1, <2>2 DEF Lane, RowsOf
    <2>4. /\ UNCHANGED <<at, eligible, route>>
          /\ touched' = [g \in Requests |->
                           IF at[g] \in {"entries", "load"} THEN touched[g] \cup {target[s]}
                                                            ELSE touched[g]]
      BY DEF Commit, gateways
    <2> QED BY <2>3, <2>4 DEF Gate, IInv
  <1> QED BY <1>1, <1>2, CommitTypes, CommitStored, CommitOwn DEF IInv, Calls

--------------------------------------------------------------------------------
(* The first step of a call, and the gateway's requests.                    *)

LEMMA AskKeeps ==
  ASSUME IInv, NEW s \in Sessions, Ask(s)
  PROVE  IInv'
PROOF
  <1> DEFINE others == {t \in Sessions \ {s} : Open(t)}
  <1>1. PICK c \in [op : Ops, list : Lists \cup {NoList}, chain : live \cup {Seed}, selects : BOOLEAN,
                  unknown : Unknown \cup {0}] :
          /\ c.op \in {"create", "upsert"} => c.list # NoList
          /\ c.op = "delete" => c.list = NoList
          /\ call' = [call EXCEPT ![s] = c]
    BY DEF Ask
  <1>2. /\ TypeOK /\ s \in Writers /\ pc[s] = "idle" /\ tx[s] = Nothing /\ Own(s)
        /\ pc' = [pc EXCEPT ![s] = "load"]
        /\ overlap' = [t \in Sessions |->
                         IF t = s THEN others
                         ELSE IF t \in others THEN overlap[t] \cup {s} ELSE overlap[t]]
        /\ UNCHANGED <<live, selector, rows, target, snap, tx, at, listed, eligible, route, touched>>
    BY Names DEF Ask, Goto, store, gateways, IInv, Calls, Own, Progress
  <1>3. c \in Call
    BY <1>1, <1>2, Names, OpsAssumption DEF TypeOK, Call
  <1>4. TypeOK'
    <2>1. call' \in [Writers -> Call] /\ pc' \in [Writers -> PCs]
      BY <1>1, <1>2, <1>3 DEF TypeOK, PCs
    <2>2. overlap' \in [Sessions -> SUBSET Sessions]
      BY <1>2 DEF TypeOK
    <2> QED BY <1>2, <2>1, <2>2 DEF TypeOK
  <1>5. pc'[s] = "load" /\ call'[s] = c /\ overlap'[s] = others
    BY <1>1, <1>2 DEF TypeOK
  <1>6. ASSUME NEW w \in Writers \ {s}
        PROVE  /\ pc'[w] = pc[w] /\ call'[w] = call[w]
               /\ Keyed(w)' = Keyed(w) /\ Replaces(w)' = Replaces(w)
               /\ Definition(w)' = Definition(w) /\ \A n : Prefix(w, n)' = Prefix(w, n)
    <2>1. pc'[w] = pc[w] /\ call'[w] = call[w]
      BY <1>1, <1>2 DEF TypeOK
    <2> QED BY <1>2, <2>1 DEF Keyed, Replaces, Definition, Prefix, Entry
  <1>7. \A w \in Writers : pc[w] = "ok" => w # s
    BY <1>2
  <1>8. KeyHolders' = KeyHolders
    <2>1. \A w \in live : w \in Writers \ {s}
      BY <1>2, <1>7 DEF IInv, Stored, Chains, TypeOK
    <2> QED BY <1>2, <1>6, <2>1 DEF KeyHolders
  <1>9. Stored'
    <2>1. ASSUME NEW r \in rows
          PROVE  r.by \in Writers \ {s} /\ pc[r.by] = "ok" /\ Replaces(r.by) /\ r \in Definition(r.by)
      BY <1>2 DEF IInv, Stored, RowsWritten, TypeOK, Row
    <2>2. RowsWritten'
      BY <1>2, <1>6, <2>1 DEF RowsWritten
    <2>3. OneWriter' /\ Whole'
      BY <1>2, <1>6, <2>1 DEF IInv, Stored, OneWriter, Whole
    <2>4. Chains'
      BY <1>2, <1>6, <1>7, <1>8 DEF IInv, Stored, Chains, TypeOK
    <2> QED BY <2>2, <2>3, <2>4 DEF Stored
  <1>10. \A t \in Sessions : Own(t)'
    <2> SUFFICES ASSUME NEW t \in Sessions PROVE Own(t)'
      OBVIOUS
    <2>1. CASE t = s
      <3>1. Progress(s)'
        BY <1>1, <1>2, <1>5, NothingIs DEF Progress, Replaces, Ended
      <3>2. Written(s)' /\ Scanned(s)'
        BY <1>2, <1>5, NothingIs DEF Written, Scanned
      <3> QED BY <2>1, <3>1, <3>2 DEF Own
    <2>2. CASE t # s
      <3>1. /\ t \in Writers \ {s} /\ Own(t) /\ overlap[t] \subseteq overlap'[t]
        BY <1>2, <2>2, Names DEF IInv, Calls, TypeOK
      <3>2. /\ pc'[t] = pc[t] /\ call'[t] = call[t] /\ Keyed(t)' = Keyed(t)
            /\ Replaces(t)' = Replaces(t) /\ Definition(t)' = Definition(t)
            /\ \A n : Prefix(t, n)' = Prefix(t, n)
        BY <1>6, <3>1
      <3>3. Progress(t)'
        BY <1>2, <3>1, <3>2 DEF Own, Progress
      <3>4. Written(t)'
        BY <1>2, <1>8, <3>1, <3>2 DEF Own, Written, RowsOf
      <3>5. Scanned(t)'
        <4>1. ASSUME NEW r \in snap[t], pc[r.by] = "ok" PROVE pc'[r.by] = "ok"
          BY <1>2, <1>6, <1>7, <4>1 DEF TypeOK, Row
        <4> QED BY <1>2, <3>1, <3>2, <4>1 DEF Own, Scanned, RowsOf
      <3> QED BY <3>3, <3>4, <3>5 DEF Own
    <2> QED BY <2>1, <2>2
  <1>11. \A t \in Sessions : \A u \in Sessions \ {t} : Pair(t, u)'
    <2> SUFFICES ASSUME NEW t \in Sessions, NEW u \in Sessions \ {t} PROVE Pair(t, u)'
      OBVIOUS
    <2>1. Pair(t, u) /\ t \in Writers /\ u \in Writers
      BY Names DEF IInv, Calls
    <2>2. Open(t)' /\ Open(u)' => u \in overlap'[t]
      <3>1. \A w \in Sessions \ {s} : Open(w)' = Open(w)
        BY <1>6, Names DEF Open
      <3> QED BY <1>2, <2>1, <3>1 DEF Pair
    <2>3. CASE t # s /\ u # s
      BY <1>2, <1>6, <2>1, <2>2, <2>3 DEF Pair
    <2>4. CASE t = s \/ u = s
      BY <1>2, <2>2, <2>4, NothingIs DEF Pair
    <2> QED BY <2>3, <2>4
  <1>12. Gate'
    BY <1>2 DEF IInv, Gate, Lane, RowsOf
  <1> QED BY <1>4, <1>9, <1>10, <1>11, <1>12 DEF IInv, Calls

(* The rows and the calls stay as they are while a request resolves.        *)
LEMMA NoCallMoves ==
  ASSUME IInv, UNCHANGED <<live, selector, rows, pc, call, target, snap, tx, overlap>>
  PROVE  Stored' /\ Calls'
PROOF
  <1>1. \A w, n : /\ Keyed(w)' = Keyed(w) /\ Replaces(w)' = Replaces(w)
                 /\ Definition(w)' = Definition(w) /\ Prefix(w, n)' = Prefix(w, n)
                 /\ RowsOf(w)' = RowsOf(w) /\ Open(w)' = Open(w)
    BY DEF Keyed, Replaces, Definition, Prefix, Entry, RowsOf, Open
  <1>2. KeyHolders' = KeyHolders
    BY DEF KeyHolders, Keyed
  <1>3. Stored'
    BY <1>1, <1>2 DEF IInv, Stored, RowsWritten, OneWriter, Whole, Chains
  <1>4. ASSUME NEW t \in Sessions PROVE Own(t)'
    <2>1. Own(t)
      BY DEF IInv, Calls
    <2>2. Progress(t)'
      BY <1>1, <2>1 DEF Own, Progress
    <2>3. Written(t)' /\ Scanned(t)'
      BY <1>1, <1>2, <2>1 DEF Own, Written, Scanned, RowsOf
    <2> QED BY <2>2, <2>3 DEF Own
  <1>5. ASSUME NEW t \in Sessions, NEW u \in Sessions \ {t} PROVE Pair(t, u)'
    BY <1>1 DEF IInv, Calls, Pair
  <1> QED BY <1>3, <1>4, <1>5 DEF Calls

LEMMA RequestKeeps ==
  ASSUME IInv, NEW g \in Requests, Resolve(g)
  PROVE  IInv'
PROOF
  <1>1. TypeOK /\ Gate /\ Seed \in Writers
    BY Names DEF IInv
  <1>2. UNCHANGED <<live, selector, rows, pc, call, target, snap, tx, overlap>>
    BY DEF Resolve, ListChains, ListEntries, ChooseChain, NoChain, LoadRoute, ResolveEnds, store
  <1>3. \A c, l : Lane(c, l)' = Lane(c, l)
    BY <1>2 DEF Lane, RowsOf
  <1>4. TypeOK' /\ Gate'
    <2>1. CASE ListChains(g)
      <3>1. PICK l \in Lanes : route' = [route EXCEPT ![g].lane = l]
        BY <2>1 DEF ListChains
      <3>2. /\ at[g] = "idle" /\ at' = [at EXCEPT ![g] = "entries"]
            /\ listed' = [listed EXCEPT ![g] = live] /\ UNCHANGED <<eligible, touched>>
        BY <2>1 DEF ListChains, Pass
      <3>3. route' \in [Requests -> [chain : Writers, lane : Lanes]]
        BY <1>1, <3>1 DEF TypeOK
      <3>4. TypeOK'
        BY <1>1, <1>2, <3>2, <3>3 DEF TypeOK
      <3>5. Gate'
        BY <1>1, <1>3, <3>1, <3>2 DEF Gate, TypeOK
      <3> QED BY <3>4, <3>5
    <2>2. CASE ListEntries(g)
      <3>1. PICK c \in listed[g] :
              /\ listed' = [listed EXCEPT ![g] = @ \ {c}]
              /\ eligible' = IF Lane(c, route[g].lane) # {}
                               THEN [eligible EXCEPT ![g] = @ \cup {c}] ELSE eligible
        BY <2>2 DEF ListEntries
      <3>2. at[g] = "entries" /\ UNCHANGED <<at, route, touched>> /\ c \in Writers
        BY <1>1, <2>2 DEF ListEntries, TypeOK
      <3>3. TypeOK'
        BY <1>1, <1>2, <3>1, <3>2 DEF TypeOK
      <3>4. Gate'
        BY <1>1, <1>3, <3>1, <3>2 DEF Gate, TypeOK
      <3> QED BY <3>3, <3>4
    <2>3. CASE ChooseChain(g)
      <3>1. PICK c \in eligible[g] : route' = [route EXCEPT ![g].chain = c]
        BY <2>3 DEF ChooseChain
      <3>2. /\ at[g] = "entries" /\ at' = [at EXCEPT ![g] = "load"]
            /\ UNCHANGED <<listed, eligible, touched>> /\ c \in Writers
        BY <1>1, <2>3, <3>1 DEF ChooseChain, Pass, TypeOK
      <3>3. /\ route' \in [Requests -> [chain : Writers, lane : Lanes]]
            /\ route'[g].chain = c /\ route'[g].lane = route[g].lane
            /\ \A h \in Requests \ {g} : route'[h] = route[h]
        BY <1>1, <3>1, <3>2 DEF TypeOK
      <3>4. TypeOK'
        BY <1>1, <1>2, <3>2, <3>3 DEF TypeOK
      <3>5. Gate'
        BY <1>1, <1>3, <3>1, <3>2, <3>3 DEF Gate, TypeOK
      <3> QED BY <3>4, <3>5
    <2>4. CASE ResolveEnds(g)
      <3>1. /\ at' = [at EXCEPT ![g] = "idle"] /\ eligible' = [eligible EXCEPT ![g] = {}]
            /\ route' = [route EXCEPT ![g] = NoRoute] /\ touched' = [touched EXCEPT ![g] = {}]
            /\ UNCHANGED listed
        BY <2>4 DEF ResolveEnds, Pass
      <3>2. NoRoute \in [chain : Writers, lane : Lanes]
        BY <1>1 DEF NoRoute, Lanes
      <3>3. TypeOK'
        BY <1>1, <1>2, <3>1, <3>2 DEF TypeOK
      <3>4. Gate'
        BY <1>1, <1>3, <3>1 DEF Gate, TypeOK
      <3> QED BY <3>3, <3>4
    <2> QED BY <2>1, <2>2, <2>3, <2>4 DEF Resolve, NoChain, LoadRoute
  <1> QED BY <1>2, <1>4, NoCallMoves DEF IInv

--------------------------------------------------------------------------------
(* The invariant.                                                           *)

LEMMA InvInit == Init => IInv
PROOF
  <1> SUFFICES ASSUME Init PROVE IInv
    OBVIOUS
  <1>1. TypeOK
    BY TypesInit
  <1>2. PICK list \in Lists \cup {NoList} :
          /\ list = NoList <=> live = {}
          /\ call = [w \in Writers |-> [op |-> "upsert", list |-> list, chain |-> Seed,
                                       selects |-> TRUE, unknown |-> 0]]
    BY DEF Init
  <1>3. /\ Seed \in Writers /\ pc[Seed] = "ok" /\ target[Seed] = Seed /\ call[Seed].list = list
        /\ (Seed \in live => Replaces(Seed)) /\ live \in SUBSET {Seed} /\ (rows # {} => Seed \in live)
        /\ rows \subseteq Definition(Seed) /\ (rows # {} => rows = Definition(Seed))
    BY <1>2, Names, NamesAssumption DEF Init, Replaces
  <1>4. Seed \in live => \A r \in Definition(Seed) : r.by = Seed
    BY <1>1, <1>3, DefinitionFields
  <1>5. Stored
    BY <1>3, <1>4 DEF Stored, RowsWritten, OneWriter, Whole, Chains, KeyHolders
  <1>6. ASSUME NEW s \in Sessions PROVE Own(s) /\ pc[s] = "idle" /\ tx[s] = Nothing
    <2>1. pc[s] = "idle" /\ tx[s] = Nothing
      BY Names DEF Init
    <2>2. Progress(s)
      BY <2>1, NothingIs DEF Progress
    <2>3. Written(s) /\ Scanned(s)
      BY <2>1, NothingIs DEF Written, Scanned
    <2> QED BY <2>1, <2>2, <2>3 DEF Own
  <1>7. ASSUME NEW s \in Sessions, NEW t \in Sessions \ {s} PROVE Pair(s, t)
    BY <1>6, NothingIs DEF Pair, Open
  <1>8. Gate
    BY DEF Gate, Init
  <1> QED BY <1>1, <1>5, <1>6, <1>7, <1>8 DEF IInv, Calls

LEMMA ServeKeeps ==
  ASSUME IInv, NEW s \in Sessions, Serve(s)
  PROVE  IInv'
PROOF
  <1> DEFINE op == call[s].op
  <1>0. TypeOK /\ s \in Writers /\ Own(s) /\ Progress(s)
    BY Names DEF IInv, Calls, Own
  <1>1. op \in {"create", "upsert", "edit", "delete"}
    BY <1>0 DEF TypeOK, Call
  <1>2. CASE LoadByKey(s)
    <2>1. pc[s] = "load" /\ op = "upsert" /\ Replaces(s)
          /\ UNCHANGED <<store, call, snap, tx, overlap, gateways, touched>>
      BY <1>0, <1>2 DEF LoadByKey, Progress
    <2>2. CASE \E c \in KeyHolders : target' = [target EXCEPT ![s] = c] /\ Goto(s, "scan")
      <3>1. PICK c \in KeyHolders : target' = [target EXCEPT ![s] = c] /\ Goto(s, "scan")
        BY <2>2
      <3>2. c \in Writers
        BY <1>0, <3>1 DEF KeyHolders, TypeOK
      <3> QED BY <2>1, <3>1, <3>2, LoadKeeps
    <2>3. CASE target' = [target EXCEPT ![s] = s] /\ Goto(s, "insertChain")
      BY <1>0, <2>1, <2>3, LoadKeeps
    <2> QED BY <1>2, <2>2, <2>3 DEF LoadByKey
  <1>3. CASE LoadById(s)
    <2> DEFINE c == call[s].chain
    <2>1. /\ pc[s] = "load" /\ op \in {"edit", "delete"} /\ c \in Writers
          /\ target' = [target EXCEPT ![s] = c] /\ Goto(s, AfterLoad(s))
          /\ UNCHANGED <<store, call, snap, tx, overlap, gateways, touched>>
      BY <1>0, <1>3 DEF LoadById, TypeOK
    <2>2. /\ AfterLoad(s) \in {"insertChain", "scan", "drop", "update", "commit"}
          /\ AfterLoad(s) # "insertChain"
          /\ AfterLoad(s) = "scan" => Replaces(s)
          /\ AfterLoad(s) \in {"drop", "update", "commit"} => ~Replaces(s)
      <3>1. CASE op = "delete"
        <4>1. AfterLoad(s) = "drop"
          BY <3>1 DEF AfterLoad
        <4> QED BY <1>0, <2>1, <3>1, <4>1 DEF Progress
      <3>2. CASE op = "edit" /\ Replaces(s)
        BY <3>2 DEF AfterLoad
      <3>3. CASE op = "edit" /\ ~Replaces(s)
        BY <3>3 DEF AfterLoad
      <3> QED BY <2>1, <3>1, <3>2, <3>3
    <2> QED BY <2>1, <2>2, LoadKeeps
  <1>4. CASE CreateWithoutKey(s)
    BY <1>0, <1>4, LoadKeeps DEF CreateWithoutKey, Progress
  <1>5. CASE LoadMissing(s)
    BY <1>5, RollbackKeeps DEF LoadMissing, Open, Ended
  <1>6. CASE InsertChainConflict(s)
    BY <1>6, RollbackKeeps DEF InsertChainConflict, Raise, Open, Ended
  <1>7. CASE UpdateStale(s)
    BY <1>7, RollbackKeeps DEF UpdateStale, Raise, Open, Ended
  <1>8. CASE InsertConflict(s)
    BY <1>8, RollbackKeeps DEF InsertConflict, Raise, Open, Ended
  <1> QED BY <1>2, <1>3, <1>4, <1>5, <1>6, <1>7, <1>8, InsertChainKeeps, ScanKeeps, DeleteKeeps,
             UpdateKeeps, InsertKeeps, DropKeeps, CascadeKeeps, CommitKeeps DEF Serve

LEMMA InvNext == IInv /\ [Next]_vars => IInv'
PROOF
  <1> SUFFICES ASSUME IInv, [Next]_vars PROVE IInv'
    OBVIOUS
  <1>1. ASSUME NEW s \in Sessions, Ask(s) PROVE IInv'
    BY <1>1, AskKeeps
  <1>2. ASSUME NEW s \in Sessions, Serve(s) PROVE IInv'
    BY <1>2, ServeKeeps
  <1>3. ASSUME NEW s \in Sessions, DeadlockAbort(s) PROVE IInv'
    <2>1. Rollback(s, "error") /\ ~Free(s)
      BY <1>3 DEF DeadlockAbort, Raise
    <2>2. Open(s)
      BY <2>1 DEF Free, Blocks, Open, Ended
    <2> QED BY <2>1, <2>2, RollbackKeeps
  <1>4. ASSUME NEW g \in Requests, Resolve(g) PROVE IInv'
    BY <1>4, RequestKeeps
  <1>5. CASE UNCHANGED vars
    <2>1. UNCHANGED <<live, selector, rows, pc, call, target, snap, tx, overlap>>
          /\ UNCHANGED <<at, listed, eligible, route, touched>>
      BY <1>5 DEF vars, store, gateways
    <2>2. TypeOK' /\ Gate'
      BY <2>1 DEF IInv, TypeOK, Gate, Lane, RowsOf
    <2> QED BY <2>1, <2>2, NoCallMoves DEF IInv
  <1> QED BY <1>1, <1>2, <1>3, <1>4, <1>5 DEF Next

LEMMA Invariant == Spec => []IInv
PROOF
  <1> QED BY InvInit, InvNext, PTL DEF Spec

--------------------------------------------------------------------------------
(* Why a call fails.                                                        *)

(* What other calls see of a step before the commit.                        *)
Step(s) ==
    /\ UNCHANGED <<live, rows, call, overlap>>
    /\ pc' = [pc EXCEPT ![s] = pc'[s]] /\ pc'[s] \notin {"idle", "load"}
    /\ target' = [target EXCEPT ![s] = target'[s]] /\ (pc[s] = "load" \/ target' = target)
    /\ tx' = [tx EXCEPT ![s] = tx'[s]]

(* Calls that have been met stay met.                                       *)
LEMMA StillMet ==
  ASSUME IInv, NEW s \in Sessions, NEW u \in Sessions, Step(u), NEW t \in Met(s)
  PROVE  t \in Met(s)' /\ target'[t] = target[t] /\ Keyed(t)' = Keyed(t) /\ t \in Sessions
PROOF
  <1>1. TypeOK /\ t \in overlap[s] /\ t \in Sessions /\ t \in Writers /\ pc[t] \notin {"idle", "load"}
    BY Names DEF IInv, TypeOK, Met
  <1>2. pc'[t] \notin {"idle", "load"}
    BY <1>1, Names DEF Step, TypeOK
  <1>3. target'[t] = target[t]
    BY <1>1, Names DEF Step, TypeOK
  <1> QED BY <1>1, <1>2, <1>3 DEF Met, Step, Keyed

LEMMA StepKeepsOthers ==
  ASSUME IInv, NEW u \in Sessions, Step(u), NEW s \in Sessions \ {u}, Failing(s)
  PROVE  Failing(s)'
PROOF
  <1>1. /\ TypeOK /\ pc'[s] = pc[s] /\ target'[s] = target[s] /\ tx'[s] = tx[s]
        /\ live' = live /\ overlap' = overlap /\ Keyed(s)' = Keyed(s)
    BY Names DEF IInv, Step, TypeOK, Keyed
  <1>2. KeyHolders' = KeyHolders
    BY DEF Step, KeyHolders, Keyed
  <1>3. (\E t \in Met(s) : target[t] = target[s]) => \E t \in Met(s)' : target'[t] = target'[s]
    BY <1>1, StillMet
  <1>4. (\E t \in Met(s) : Meets(s, t)) => (\E t \in Met(s) : Meets(s, t))'
    <2> SUFFICES ASSUME NEW t \in Met(s), Meets(s, t) PROVE t \in Met(s)' /\ Meets(s, t)'
      OBVIOUS
    <2> QED BY <1>1, StillMet DEF Meets
  <1>5. call'[s] = call[s]
    BY Names DEF Step, TypeOK
  <1>6. NamesUnknown(s)' = NamesUnknown(s)
    BY <1>5 DEF NamesUnknown, Replaces
  <1> QED BY <1>1, <1>2, <1>3, <1>4, <1>6 DEF Failing

(* Who waits, waits for a call it knows of and meets.                       *)
LEMMA BlockersAreMet ==
  ASSUME IInv, NEW s \in Sessions, NEW t \in Sessions \ {s}, Blocks(t, s)
  PROVE  t \in Met(s) /\ Open(s) /\ (pc[s] # "insertChain" => target[t] = target[s])
PROOF
  <1>1. /\ TypeOK /\ Progress(t) /\ Pair(s, t) /\ Written(t)
        /\ \A r \in tx[t].dels : r.chain = target[t]
    BY DEF IInv, Calls, Own, Written, RowsOf
  <1>2. Open(s)
    BY DEF Blocks, Open, Ended
  <1>3. tx[t] # Nothing \/ tx[t].updated
    BY NothingIs DEF Blocks
  <1>4. Nothing.updated = FALSE
    BY DEF Nothing
  <1>5. tx[t] # Nothing
    BY <1>3, <1>4
  <1>6. pc[t] \notin {"idle", "load"} \cup Ended
    BY <1>1, <1>5 DEF Progress
  <1>7. t \in Met(s)
    BY <1>1, <1>2, <1>6 DEF Pair, Open, Met
  <1>8. ASSUME pc[s] # "insertChain" PROVE target[t] = target[s]
    <2>1. CASE pc[s] = "deleteRows"
      <3>1. PICK r \in snap[s] : r \in tx[t].dels
        BY <1>8, <2>1 DEF Blocks
      <3>2. r.chain = target[s]
        BY <2>1, <3>1 DEF IInv, Calls, Own, Scanned
      <3> QED BY <1>1, <3>1, <3>2
    <2>2. CASE pc[s] = "cascade"
      BY <1>1, <2>2 DEF Blocks, RowsOf
    <2> QED BY <1>8, <2>1, <2>2 DEF Blocks
  <1> QED BY <1>2, <1>7, <1>8

(* A call that waits on a key has written nothing, so nobody waits for it.  *)
LEMMA VictimsMeet ==
  ASSUME IInv, NEW s \in Sessions, Deadlocked(s)
  PROVE  \E t \in Met(s) : Meets(s, t)
PROOF
  <1>1. PICK n \in 2 .. Cardinality(Sessions) : \E cycle \in [0 .. n -> Sessions] :
          /\ cycle[0] = s /\ cycle[n] = s
          /\ \A i \in 1 .. n : cycle[i] # cycle[i - 1] /\ Blocks(cycle[i], cycle[i - 1])
    BY DEF Deadlocked
  <1>2. PICK cycle \in [0 .. n -> Sessions] :
          /\ cycle[0] = s /\ cycle[n] = s
          /\ \A i \in 1 .. n : cycle[i] # cycle[i - 1] /\ Blocks(cycle[i], cycle[i - 1])
    BY <1>1
  <1>3. n \in Nat /\ n >= 2
    BY <1>1, FS_CardinalityType, FiniteAssumption
  <1> DEFINE t == cycle[1]
             u == cycle[n - 1]
  <1>4. /\ 1 \in 1..n /\ n \in 1..n /\ n - 1 \in 0..n /\ 1 - 1 = 0 /\ 1 \in 0..n
    BY <1>3
  <1>5. t \in Sessions \ {s} /\ Blocks(t, s)
    BY <1>2, <1>4
  <1>6. u \in Sessions \ {s} /\ Blocks(s, u)
    BY <1>2, <1>4
  <1> HIDE DEF t, u
  <1>7. pc[s] # "insertChain"
    <2>1. tx[s] # Nothing
      <3>1. Nothing.updated = FALSE
        BY DEF Nothing
      <3> QED BY <1>6, <3>1, NothingIs DEF Blocks
    <2> QED BY <2>1 DEF IInv, Calls, Own, Progress
  <1> QED BY <1>5, <1>7, BlockersAreMet DEF Meets

LEMMA StepKeeps ==
  ASSUME IInv, FailInv, NEW s \in Sessions, Step(s), Failing(s)'
  PROVE  FailInv'
BY StepKeepsOthers DEF FailInv

(* A call that has found its chain, or has seen it go, and goes on.         *)
LEMMA GoingOn ==
  ASSUME IInv, FailInv, NEW s \in Sessions, Step(s), target' = target,
         pc[s] \in {"scan", "deleteRows", "update", "insert", "drop", "cascade"},
         pc'[s] \in {"deleteRows", "update", "insert", "cascade", "commit"},
         pc'[s] = "cascade" \/ pc'[s] = "commit" \/
             pc[s] \in {"scan", "deleteRows", "update", "insert"},
         tx'[s].created = tx[s].created
  PROVE  FailInv'
PROOF
  <1>1. Failing(s)
    BY DEF FailInv
  <1>2. (\E t \in Met(s) : target[t] = target[s]) => \E t \in Met(s)' : target'[t] = target'[s]
    BY StillMet
  <1>3. Failing(s)'
    BY <1>1, <1>2 DEF Failing, Step
  <1> QED BY <1>3, StepKeeps

LEMMA FailsForCause ==
  ASSUME IInv, FailInv, NEW s \in Sessions, Open(s), NEW label \in {"notfound", "error"},
         Rollback(s, label), label = "error" => NamesUnknown(s) \/ \E t \in Met(s) : Meets(s, t)
  PROVE  FailInv'
PROOF
  <1>1. /\ TypeOK /\ s \in Writers /\ pc' = [pc EXCEPT ![s] = label] /\ tx' = [tx EXCEPT ![s] = Nothing]
        /\ UNCHANGED <<live, rows, call, target, overlap>>
    BY Names DEF IInv, Rollback, Goto, store
  <1>2. pc'[s] = label
    BY <1>1 DEF TypeOK
  <1>3. Step(s)
    BY <1>1, <1>2 DEF Step, TypeOK
  <1>4. (\E t \in Met(s) : Meets(s, t)) => (\E t \in Met(s) : Meets(s, t))'
    <2> SUFFICES ASSUME NEW t \in Met(s), Meets(s, t) PROVE t \in Met(s)' /\ Meets(s, t)'
      OBVIOUS
    <2>1. Keyed(s)' = Keyed(s) /\ target' = target
      BY <1>1 DEF Keyed
    <2> QED BY <1>3, <2>1, StillMet DEF Meets
  <1>5. NamesUnknown(s)' = NamesUnknown(s)
    BY <1>1 DEF NamesUnknown, Replaces
  <1>6. Failing(s)'
    BY <1>2, <1>4, <1>5 DEF Failing
  <1> QED BY <1>3, <1>6, StepKeeps

(* What a call met in its way on the rows or its key.                       *)
LEMMA ConflictsAreMet ==
  ASSUME IInv, FailInv, NEW s \in Sessions
  PROVE  /\ pc[s] = "insertChain" /\ Keyed(s) /\ KeyHolders # {} => \E t \in Met(s) : Meets(s, t)
         /\ pc[s] = "update" /\ target[s] \notin live => \E t \in Met(s) : Meets(s, t)
         /\ pc[s] = "insert" /\ Conflict(s) => NamesUnknown(s) \/ \E t \in Met(s) : Meets(s, t)
PROOF
  <1>1. TypeOK /\ Own(s) /\ Failing(s) /\ s \in Writers
    BY Names DEF IInv, Calls, FailInv
  <1>2. ASSUME pc[s] = "insertChain", Keyed(s), KeyHolders # {}
        PROVE  \E t \in Met(s) : Meets(s, t)
    <2>1. PICK c \in KeyHolders : TRUE
      BY <1>2
    <2>2. c \in overlap[s] /\ pc[c] = "ok" /\ Keyed(c)
      BY <1>1, <1>2, <2>1 DEF Failing, KeyHolders, IInv, Stored, Chains
    <2> QED BY <1>2, <2>2 DEF Met, Meets
  <1>3. ASSUME pc[s] \in {"update", "insert"}, target[s] \notin live, ~tx[s].created
        PROVE  \E t \in Met(s) : Meets(s, t)
    BY <1>1, <1>3 DEF Failing, Meets
  <1>4. ASSUME pc[s] = "update", target[s] \notin live
        PROVE  \E t \in Met(s) : Meets(s, t)
    <2>1. CASE tx[s].created
      BY <1>1, <1>4, <2>1 DEF Own, Progress
    <2> QED BY <1>3, <1>4, <2>1
  <1>5. ASSUME pc[s] = "insert", NEW q \in rows \ tx[s].dels, SameSlot(q, NextEntry(s))
        PROVE  \E t \in Met(s) : Meets(s, t)
    <2>1. Replaces(s)
      BY <1>1, <1>5 DEF Own, Progress
    <2>2. q.chain = target[s]
      BY <1>5 DEF SameSlot, NextEntry, Entry
    <2>3. q.by \in overlap[s]
      BY <1>1, <1>5, <2>1, <2>2 DEF Own, Scanned, RowsOf
    <2>4. q.by \in Writers /\ pc[q.by] = "ok" /\ q.chain = target[q.by]
      <3>1. q.by \in Writers /\ pc[q.by] = "ok" /\ Replaces(q.by) /\ q \in Definition(q.by)
        BY <1>1 DEF IInv, Stored, RowsWritten, TypeOK, Row
      <3> QED BY <1>1, <3>1, DefinitionFields
    <2> QED BY <2>2, <2>3, <2>4 DEF Met, Meets
  <1>7. ASSUME pc[s] = "insert", UnknownAccount(s)
        PROVE  NamesUnknown(s)
    <2>1. Replaces(s)
      BY <1>1, <1>7 DEF Own, Progress
    <2>2. PICK n \in 0..(Len(call[s].list) - 1) : tx[s].ins = Prefix(s, n)
      BY <1>1, <1>7 DEF Own, Progress
    <2>3. call[s].list \in Seq(Lanes)
      BY <1>1, <2>1, ListTyped
    <2>4. n + 1 \in DOMAIN call[s].list /\ n \in 0..Len(call[s].list)
      BY <2>3
    <2>5. Cardinality(tx[s].ins) = n
      BY <1>1, <2>1, <2>2, <2>4, PrefixCounts
    <2> QED BY <1>7, <2>1, <2>4, <2>5 DEF UnknownAccount, NamesUnknown
  <1>6. pc[s] = "insert" /\ Conflict(s) => NamesUnknown(s) \/ \E t \in Met(s) : Meets(s, t)
    BY <1>3, <1>5, <1>7 DEF Conflict, Orphan
  <1> QED BY <1>2, <1>4, <1>6

LEMMA ServeFails ==
  ASSUME IInv, FailInv, NEW s \in Sessions, Serve(s), ~Commit(s)
  PROVE  FailInv'
PROOF
  <1>0. /\ TypeOK /\ s \in Writers /\ Progress(s) /\ Failing(s)
    BY Names DEF IInv, Calls, Own, FailInv
  <1>1. CASE LoadByKey(s)
    <2>1. /\ pc[s] = "load" /\ Keyed(s) /\ UNCHANGED <<live, rows, call, overlap, tx>>
      BY <1>1 DEF LoadByKey, Keyed, store
    <2>2. CASE \E c \in KeyHolders : target' = [target EXCEPT ![s] = c] /\ Goto(s, "scan")
      <3>1. PICK c \in KeyHolders : target' = [target EXCEPT ![s] = c] /\ Goto(s, "scan")
        BY <2>2
      <3>2. pc'[s] = "scan" /\ target'[s] = c /\ c \in live' /\ pc' = [pc EXCEPT ![s] = "scan"]
        BY <1>0, <2>1, <3>1 DEF Goto, TypeOK, KeyHolders
      <3>3. Step(s)
        BY <1>0, <2>1, <3>1, <3>2 DEF Step, TypeOK
      <3>4. Failing(s)'
        BY <3>2 DEF Failing
      <3> QED BY <3>3, <3>4, StepKeeps
    <2>3. CASE KeyHolders = {} /\ target' = [target EXCEPT ![s] = s] /\ Goto(s, "insertChain")
      <3>1. pc'[s] = "insertChain" /\ pc' = [pc EXCEPT ![s] = "insertChain"]
            /\ target'[s] = s
        BY <1>0, <2>3 DEF Goto, TypeOK
      <3>2. Step(s)
        BY <1>0, <2>1, <2>3, <3>1 DEF Step, TypeOK
      <3>3. KeyHolders' = {}
        BY <2>1, <2>3 DEF KeyHolders, Keyed
      <3>4. Failing(s)'
        BY <3>1, <3>3 DEF Failing
      <3> QED BY <3>2, <3>4, StepKeeps
    <2> QED BY <1>1, <2>2, <2>3 DEF LoadByKey
  <1>2. CASE LoadById(s)
    <2> DEFINE label == AfterLoad(s)
               c     == call[s].chain
    <2>1. /\ pc[s] = "load" /\ c \in live /\ pc' = [pc EXCEPT ![s] = label]
          /\ target' = [target EXCEPT ![s] = c] /\ UNCHANGED <<live, rows, call, overlap, tx>>
      BY <1>2 DEF LoadById, Goto, store
    <2>2. label \in {"drop", "scan", "update", "commit"}
      BY DEF AfterLoad
    <2> HIDE DEF label
    <2>3. pc'[s] = label /\ target'[s] = c
      BY <1>0, <2>1 DEF TypeOK
    <2>4. Step(s)
      BY <1>0, <2>1, <2>2, <2>3 DEF Step, TypeOK
    <2>5. Failing(s)'
      BY <2>1, <2>2, <2>3 DEF Failing
    <2> QED BY <2>4, <2>5, StepKeeps
  <1>3. CASE CreateWithoutKey(s)
    <2>1. /\ pc[s] = "load" /\ ~Keyed(s) /\ pc' = [pc EXCEPT ![s] = "insertChain"]
          /\ target' = [target EXCEPT ![s] = s] /\ UNCHANGED <<live, rows, call, overlap, tx>>
      BY <1>3 DEF CreateWithoutKey, Goto, Keyed, store
    <2>2. pc'[s] = "insertChain" /\ ~Keyed(s)' /\ target'[s] = s
      BY <1>0, <2>1 DEF TypeOK, Keyed
    <2>3. Step(s)
      BY <1>0, <2>1, <2>2 DEF Step, TypeOK
    <2>4. Failing(s)'
      BY <2>2 DEF Failing
    <2> QED BY <2>3, <2>4, StepKeeps
  <1>4. CASE InsertChain(s)
    <2>1. /\ pc' = [pc EXCEPT ![s] = "scan"] /\ tx' = [tx EXCEPT ![s].created = TRUE]
          /\ UNCHANGED <<live, rows, call, overlap, target>>
      BY <1>4 DEF InsertChain, Goto, store
    <2>2. pc'[s] = "scan" /\ tx'[s].created
      BY <1>0, <2>1 DEF TypeOK, Tx
    <2>3. Step(s)
      BY <1>0, <2>1, <2>2 DEF Step, TypeOK
    <2>4. Failing(s)'
      BY <2>2 DEF Failing
    <2> QED BY <2>3, <2>4, StepKeeps
  <1>5. ASSUME NEW label \in {"deleteRows", "update", "insert", "cascade", "commit"},
               pc[s] \in {"scan", "deleteRows", "update", "insert", "drop", "cascade"},
               label \in {"cascade", "commit"} \/ pc[s] \in {"scan", "deleteRows", "update", "insert"},
               Goto(s, label), UNCHANGED <<live, rows, call, target, overlap>>,
               tx' = [tx EXCEPT ![s] = tx'[s]], tx'[s].created = tx[s].created
        PROVE  FailInv'
    <2>1. pc' = [pc EXCEPT ![s] = label] /\ pc'[s] = label
      BY <1>0, <1>5 DEF Goto, TypeOK
    <2>2. Step(s)
      BY <1>0, <1>5, <2>1 DEF Step, TypeOK
    <2> QED BY <1>5, <2>1, <2>2, GoingOn
  <1>6. CASE ScanEntries(s)
    <2>1. pc[s] = "scan" /\ Goto(s, "deleteRows") /\ UNCHANGED <<live, rows, call, target, overlap, tx>>
      BY <1>6 DEF ScanEntries, store
    <2>2. tx' = [tx EXCEPT ![s] = tx'[s]]
      BY <1>0, <2>1 DEF TypeOK
    <2> QED BY <1>5, <2>1, <2>2
  <1>7. CASE DeleteEntries(s)
    <2> DEFINE label == IF call[s].selects /\ ~tx[s].created THEN "update" ELSE ToInsert(s)
    <2>1. /\ pc[s] = "deleteRows" /\ Goto(s, label) /\ UNCHANGED <<live, rows, call, target, overlap>>
          /\ tx' = [tx EXCEPT ![s].dels = snap[s] \cap rows]
      BY <1>7 DEF DeleteEntries, store
    <2>2. label \in {"update", "insert", "commit"}
      BY <1>0, <2>1, StartOfInsertion DEF Progress
    <2> HIDE DEF label
    <2>3. tx' = [tx EXCEPT ![s] = tx'[s]] /\ tx'[s].created = tx[s].created
      BY <1>0, <2>1 DEF TypeOK, Tx
    <2> QED BY <1>5, <2>1, <2>2, <2>3
  <1>8. CASE UpdateChain(s)
    <2> DEFINE label == IF Replaces(s) THEN ToInsert(s) ELSE "commit"
    <2>1. /\ pc[s] = "update" /\ Goto(s, label) /\ UNCHANGED <<live, rows, call, target, overlap>>
          /\ tx' = [tx EXCEPT ![s].updated = TRUE]
      BY <1>8 DEF UpdateChain, store
    <2>2. label \in {"insert", "commit"}
      BY <1>0, StartOfInsertion
    <2> HIDE DEF label
    <2>3. tx' = [tx EXCEPT ![s] = tx'[s]] /\ tx'[s].created = tx[s].created
      BY <1>0, <2>1 DEF TypeOK, Tx
    <2> QED BY <1>5, <2>1, <2>2, <2>3
  <1>9. CASE InsertEntry(s)
    <2> DEFINE label == IF tx'[s].ins = Definition(s) THEN "commit" ELSE "insert"
    <2>1. /\ pc[s] = "insert" /\ Goto(s, label) /\ UNCHANGED <<live, rows, call, target, overlap>>
          /\ tx' = [tx EXCEPT ![s].ins = @ \cup {NextEntry(s)}]
      BY <1>9 DEF InsertEntry, store
    <2>2. label \in {"insert", "commit"}
      OBVIOUS
    <2> HIDE DEF label
    <2>3. tx' = [tx EXCEPT ![s] = tx'[s]] /\ tx'[s].created = tx[s].created
      BY <1>0, <2>1 DEF TypeOK, Tx
    <2> QED BY <1>5, <2>1, <2>2, <2>3
  <1>10. CASE DropChain(s)
    <2> DEFINE label == IF target[s] \in live THEN "cascade" ELSE "commit"
    <2>1. /\ pc[s] = "drop" /\ Goto(s, label) /\ UNCHANGED <<live, rows, call, target, overlap>>
          /\ tx' = [tx EXCEPT ![s].dropped = target[s] \in live]
      BY <1>10 DEF DropChain, store
    <2>2. label \in {"cascade", "commit"}
      OBVIOUS
    <2> HIDE DEF label
    <2>3. tx' = [tx EXCEPT ![s] = tx'[s]] /\ tx'[s].created = tx[s].created
      BY <1>0, <2>1 DEF TypeOK, Tx
    <2> QED BY <1>5, <2>1, <2>2, <2>3
  <1>11. CASE Cascade(s)
    <2>1. /\ pc[s] = "cascade" /\ Goto(s, "commit") /\ UNCHANGED <<live, rows, call, target, overlap>>
          /\ tx' = [tx EXCEPT ![s].dels = RowsOf(target[s])]
      BY <1>11 DEF Cascade, store
    <2>2. tx' = [tx EXCEPT ![s] = tx'[s]] /\ tx'[s].created = tx[s].created
      BY <1>0, <2>1 DEF TypeOK, Tx
    <2> QED BY <1>5, <2>1, <2>2
  <1>12. CASE LoadMissing(s)
    BY <1>12, FailsForCause DEF LoadMissing, Open, Ended
  <1>13. CASE InsertChainConflict(s)
    BY <1>13, FailsForCause, ConflictsAreMet DEF InsertChainConflict, Raise, Open, Ended
  <1>14. CASE UpdateStale(s)
    BY <1>14, FailsForCause, ConflictsAreMet DEF UpdateStale, Raise, Open, Ended
  <1>15. CASE InsertConflict(s)
    BY <1>15, FailsForCause, ConflictsAreMet DEF InsertConflict, Raise, Open, Ended
  <1> QED BY <1>1, <1>2, <1>3, <1>4, <1>6, <1>7, <1>8, <1>9, <1>10, <1>11, <1>12, <1>13, <1>14,
             <1>15 DEF Serve

LEMMA CommitFails ==
  ASSUME IInv, FailInv, NEW u \in Sessions, Commit(u)
  PROVE  FailInv'
PROOF
  <1>1. /\ TypeOK /\ u \in Writers /\ pc[u] = "commit" /\ pc'[u] = "ok"
        /\ target' = target /\ call' = call /\ overlap' = overlap
        /\ live' = (live \cup (IF tx[u].created THEN {u} ELSE {}))
                      \ (IF tx[u].dropped THEN {target[u]} ELSE {})
    BY CommitFrame
  <1> SUFFICES ASSUME NEW s \in Sessions \ {u} PROVE Failing(s)'
    BY <1>1 DEF FailInv, Failing
  <1>2. /\ pc'[s] = pc[s] /\ tx'[s] = tx[s] /\ Keyed(s)' = Keyed(s) /\ Failing(s)
        /\ Pair(s, u) /\ Open(u)
    BY <1>1, CommitFrame, Names DEF IInv, Calls, FailInv, Open, Ended
  <1>3. ASSUME NEW t \in Met(s) PROVE t \in Met(s)' /\ (Meets(s, t) => Meets(s, t)')
    <2>1. t \in Writers /\ t \in overlap[s]
      BY <1>1, Names DEF Met, TypeOK
    <2>2. pc'[t] \notin {"idle", "load"}
      BY <1>1, <2>1, CommitFrame DEF Met
    <2> QED BY <1>1, <2>1, <2>2 DEF Met, Meets, Keyed
  <1>4. Open(s) => u \in Met(s) /\ u \in Met(s)'
    BY <1>1, <1>2 DEF Pair, Met
  <1>5. pc[s] = "insertChain" /\ Keyed(s) => KeyHolders' \subseteq overlap[s]
    <2>1. \A c \in KeyHolders' : c \in KeyHolders \/ c = u
      BY <1>1, CommitFrame DEF KeyHolders
    <2> QED BY <1>2, <1>4, <2>1 DEF Failing, Open, Ended, Met
  <1>6. pc[s] \in {"scan", "deleteRows", "update", "insert"} =>
            \/ target[s] \in live' \/ tx[s].created
            \/ \E t \in Met(s)' : target[t] = target[s]
    BY <1>1, <1>2, <1>3, <1>4 DEF Failing, Open, Ended
  <1>7. pc[s] = "error" => NamesUnknown(s)' \/ \E t \in Met(s)' : Meets(s, t)'
    BY <1>1, <1>2, <1>3 DEF Failing, NamesUnknown, Replaces
  <1> QED BY <1>1, <1>2, <1>5, <1>6, <1>7 DEF Failing

LEMMA AskFails ==
  ASSUME IInv, FailInv, NEW u \in Sessions, Ask(u)
  PROVE  FailInv'
PROOF
  <1>1. /\ TypeOK /\ u \in Writers /\ pc[u] = "idle" /\ pc' = [pc EXCEPT ![u] = "load"]
        /\ call' = [call EXCEPT ![u] = call'[u]] /\ pc'[u] = "load"
        /\ UNCHANGED <<live, target, tx>>
        /\ \A t \in Sessions \ {u} : overlap[t] \subseteq overlap'[t]
    BY Names DEF IInv, Ask, Goto, store, TypeOK
  <1> SUFFICES ASSUME NEW s \in Sessions \ {u} PROVE Failing(s)'
    BY <1>1 DEF FailInv, Failing
  <1>2. \A w \in Writers \ {u} : pc'[w] = pc[w] /\ call'[w] = call[w] /\ Keyed(w)' = Keyed(w)
    BY <1>1 DEF TypeOK, Keyed
  <1>3. KeyHolders' = KeyHolders
    <2>1. \A w \in live : w \in Writers \ {u}
      BY <1>1 DEF IInv, Stored, Chains, TypeOK
    <2> QED BY <1>1, <1>2, <2>1 DEF KeyHolders
  <1>4. s \in Writers \ {u} /\ Failing(s)
    BY Names DEF FailInv
  <1>5. ASSUME NEW t \in Met(s) PROVE t \in Met(s)' /\ (Meets(s, t) => Meets(s, t)')
    <2>1. t \in Writers \ {u}
      BY <1>1, Names DEF Met, TypeOK
    <2> QED BY <1>1, <1>2, <1>4, <2>1 DEF Met, Meets
  <1>6. overlap[s] \subseteq overlap'[s] /\ NamesUnknown(s)' = NamesUnknown(s)
    BY <1>1, <1>2, <1>4 DEF NamesUnknown, Replaces
  <1> QED BY <1>1, <1>2, <1>3, <1>4, <1>5, <1>6 DEF Failing

LEMMA FailNext == IInv /\ FailInv /\ [Next]_vars => FailInv'
PROOF
  <1> SUFFICES ASSUME IInv, FailInv, [Next]_vars PROVE FailInv'
    OBVIOUS
  <1>1. ASSUME NEW s \in Sessions, Ask(s) PROVE FailInv'
    BY <1>1, AskFails
  <1>2. ASSUME NEW s \in Sessions, Serve(s) PROVE FailInv'
    BY <1>2, ServeFails, CommitFails
  <1>3. ASSUME NEW s \in Sessions, DeadlockAbort(s) PROVE FailInv'
    <2>1. Rollback(s, "error") /\ ~Free(s) /\ Deadlocked(s)
      BY <1>3 DEF DeadlockAbort, Raise
    <2>2. Open(s)
      BY <2>1 DEF Free, Blocks, Open, Ended
    <2> QED BY <2>1, <2>2, VictimsMeet, FailsForCause
  <1>4. ASSUME UNCHANGED <<live, pc, call, target, tx, overlap>> PROVE FailInv'
    <2>1. KeyHolders' = KeyHolders
      BY <1>4 DEF KeyHolders, Keyed
    <2>2. \A s, t : /\ Met(s)' = Met(s) /\ Meets(s, t)' = Meets(s, t) /\ Keyed(s)' = Keyed(s)
                    /\ NamesUnknown(s)' = NamesUnknown(s)
      BY <1>4 DEF Met, Meets, Keyed, NamesUnknown, Replaces
    <2> QED BY <1>4, <2>1, <2>2 DEF FailInv, Failing
  <1>5. ASSUME NEW g \in Requests, Resolve(g) PROVE FailInv'
    BY <1>4, <1>5 DEF Resolve, ListChains, ListEntries, ChooseChain, NoChain, LoadRoute, ResolveEnds,
                      store
  <1>6. CASE UNCHANGED vars
    BY <1>4, <1>6 DEF vars, store
  <1> QED BY <1>1, <1>2, <1>3, <1>5, <1>6 DEF Next

--------------------------------------------------------------------------------
(* Every variable has its type. *)
THEOREM TypeCorrect == Spec => []TypeOK
PROOF
  <1>1. IInv => TypeOK
    BY DEF IInv
  <1> QED BY <1>1, Invariant, PTL

(* However many calls interleave, and whatever their lists, the entries     *)
(* stored for a lane are all those that one committed call listed for it,   *)
(* numbered from 0 without a gap (_replace_entries).                        *)
THEOREM LanesAreDefinitions == Spec => []LaneIsOneDefinition
PROOF
  <1>1. ASSUME IInv PROVE LaneIsOneDefinition
    <2> SUFFICES ASSUME NEW c \in live, NEW l \in Lanes, Lane(c, l) # {}
                 PROVE  /\ {r.pos : r \in Lane(c, l)} = 0 .. Cardinality(Lane(c, l)) - 1
                        /\ \E w \in Writers :
                              /\ pc[w] = "ok" /\ Replaces(w) /\ target[w] = c
                              /\ Lane(c, l) = {r \in Definition(w) : r.lane = l}
      BY DEF LaneIsOneDefinition
    <2>1. TypeOK /\ RowsWritten /\ OneWriter /\ Whole
      BY <1>1 DEF IInv, Stored
    <2>2. PICK q \in rows : q.chain = c /\ q.lane = l
      BY DEF Lane, RowsOf
    <2> DEFINE w == q.by
    <2>3. w \in Writers /\ pc[w] = "ok" /\ Replaces(w) /\ q \in Definition(w)
      BY <2>1, <2>2 DEF RowsWritten, TypeOK, Row
    <2>4. target[w] = c
      BY <2>1, <2>2, <2>3, DefinitionFields
    <2>5. Lane(c, l) = {r \in Definition(w) : r.lane = l}
      <3>1. ASSUME NEW r \in Lane(c, l) PROVE r \in Definition(w) /\ r.lane = l
        <4>1. r \in rows /\ r.chain = c /\ r.lane = l
          BY DEF Lane, RowsOf
        <4>2. r.by = w
          BY <2>1, <2>2, <4>1 DEF OneWriter, SameLane
        <4> QED BY <2>1, <4>1, <4>2 DEF RowsWritten
      <3>2. ASSUME NEW r \in Definition(w), r.lane = l PROVE r \in Lane(c, l)
        BY <2>1, <2>2, <2>3, <2>4, <3>2, DefinitionFields DEF Whole, Lane, RowsOf
      <3> QED BY <3>1, <3>2
    <2>6. {r.pos : r \in Lane(c, l)} = 0 .. Cardinality(Lane(c, l)) - 1
      <3> DEFINE L == Lane(c, l)
      <3>1. TypeOK /\ w \in Writers /\ Replaces(w) /\ L = {e \in Definition(w) : e.lane = l}
        BY <2>1, <2>3, <2>5
      <3> HIDE DEF L, w
      <3>2. {r.pos : r \in L} = 0 .. Cardinality(L) - 1
        BY <3>1, LanePositions
      <3> QED BY <3>2 DEF L
    <2> QED BY <2>3, <2>4, <2>5, <2>6
  <1> QED BY <1>1, Invariant, PTL

(* However many upserts of it race, a client key names at most one chain    *)
(* (the unique client_key of RouteFallbackChain).                           *)
THEOREM OneChainPerKey == Spec => []KeyNamesOneChain
PROOF
  <1>1. ASSUME IInv PROVE KeyNamesOneChain
    <2>1. \A c, d \in KeyHolders : c = d
      BY <1>1 DEF IInv, Stored, Chains
    <2>2. CASE KeyHolders = {}
      BY <2>2, FS_EmptySet DEF KeyNamesOneChain
    <2>3. CASE \E c \in KeyHolders : TRUE
      <3>1. PICK c \in KeyHolders : TRUE
        BY <2>3
      <3>2. KeyHolders = {c}
        BY <2>1, <3>1
      <3>3. Cardinality(KeyHolders) = 1
        BY <3>2, FS_Singleton
      <3> QED BY <3>3 DEF KeyNamesOneChain
    <2> QED BY <2>2, <2>3
  <1> QED BY <1>1, Invariant, PTL

(* For any number of chains and of calls that rewrite them, the chain that  *)
(* a request chose has an entry in its lane when it is loaded, unless it    *)
(* was written meanwhile (_select_chain, load_routing_chain).               *)
THEOREM RoutesServeLanes == Spec => []RouteServesLane
PROOF
  <1>1. IInv => RouteServesLane
    BY DEF IInv, Gate, RouteServesLane, Loaded
  <1> QED BY <1>1, Invariant, PTL

(* A call that commits a list leaves exactly its entries in every lane it   *)
(* lists, and in the others at most what overlapping calls put there.       *)
THEOREM CommitsHold == Spec => CommitHolds
PROOF
  <1> DEFINE Held(s) ==
        (pc[s] = "commit" /\ pc'[s] = "ok" /\ call[s].list # NoList) =>
            /\ Definition(s) # {} => target[s] \in live'
            /\ \A l \in Lanes :
                 LET mine == {r \in Definition(s) : r.lane = l}
                 IN  \/ Lane(target[s], l)' = mine
                     \/ /\ mine = {}
                        /\ \A r \in Lane(target[s], l)' : r.by \in overlap[s]
  <1>1. ASSUME IInv, Next, NEW s \in Sessions, pc[s] = "commit", pc'[s] = "ok"
        PROVE  Commit(s)
    <2>1. TypeOK /\ s \in Writers
      BY <1>1, Names DEF IInv
    <2>2. ASSUME NEW u \in Sessions, Ask(u) PROVE FALSE
      BY <1>1, <2>1, <2>2, Names DEF Ask, Goto, TypeOK
    <2>3. ASSUME NEW u \in Sessions, DeadlockAbort(u) PROVE FALSE
      BY <1>1, <2>1, <2>3, Names DEF DeadlockAbort, Raise, Rollback, Goto, TypeOK
    <2>4. ASSUME NEW g \in Requests, Resolve(g) PROVE FALSE
      BY <1>1, <2>4 DEF Resolve, ListChains, ListEntries, ChooseChain, NoChain, LoadRoute, ResolveEnds
    <2>5. ASSUME NEW u \in Sessions, Serve(u) PROVE Commit(s)
      <3>1. \E label : pc' = [pc EXCEPT ![u] = label]
        BY <2>5 DEF Serve, LoadByKey, LoadById, LoadMissing, CreateWithoutKey, InsertChain,
           InsertChainConflict, ScanEntries, DeleteEntries, UpdateChain, UpdateStale, InsertEntry,
           InsertConflict, DropChain, Cascade, Commit, Raise, Rollback, Goto
      <3>2. u = s
        BY <1>1, <2>1, <3>1, Names DEF TypeOK
      <3> QED BY <1>1, <2>5, <3>2 DEF Serve, LoadByKey, LoadById, LoadMissing, CreateWithoutKey,
             InsertChain, InsertChainConflict, ScanEntries, DeleteEntries, UpdateChain, UpdateStale,
             InsertEntry, InsertConflict, DropChain, Cascade
    <2> QED BY <1>1, <2>2, <2>3, <2>4, <2>5 DEF Next
  <1>2. ASSUME IInv, Next, NEW s \in Sessions PROVE Held(s)
    <2> SUFFICES ASSUME pc[s] = "commit", pc'[s] = "ok", call[s].list # NoList PROVE Held(s)
      OBVIOUS
    <2>1. /\ Commit(s) /\ TypeOK /\ s \in Writers /\ Own(s) /\ Replaces(s)
          /\ tx[s].ins = Definition(s) /\ tx[s].dropped = FALSE
          /\ rows' = (rows \ tx[s].dels) \cup tx[s].ins
          /\ live' = live \cup (IF tx[s].created THEN {s} ELSE {})
      <3>1. Commit(s)
        BY <1>1, <1>2
      <3>2. TypeOK /\ s \in Writers /\ Own(s) /\ Replaces(s)
        BY <1>2, <3>1, CommitFrame DEF Replaces
      <3>3. tx[s].ins = Definition(s) /\ tx[s].dropped = FALSE
        BY <3>2 DEF Own, Progress, TypeOK, Tx
      <3> QED BY <1>2, <3>1, <3>2, <3>3, CommitFrame
    <2>2. Definition(s) # {} => target[s] \in live'
      BY <2>1 DEF Own, Written, Progress
    <2>3. ASSUME NEW l \in Lanes
          PROVE  LET mine == {r \in Definition(s) : r.lane = l}
                 IN  \/ Lane(target[s], l)' = mine
                     \/ /\ mine = {}
                        /\ \A r \in Lane(target[s], l)' : r.by \in overlap[s]
      <3> DEFINE mine == {r \in Definition(s) : r.lane = l}
                 left == {r \in rows \ tx[s].dels : r.chain = target[s] /\ r.lane = l}
      <3>1. \A r \in Definition(s) : r.chain = target[s]
        BY <2>1, DefinitionFields
      <3>2. target' = target
        BY <1>2, <2>1, CommitFrame
      <3>3. Lane(target[s], l)' = left \cup mine
        BY <2>1, <3>1, <3>2 DEF Lane, RowsOf
      <3>4. CASE mine # {}
        <4>1. PICK e \in tx[s].ins : e.chain = target[s] /\ e.lane = l
          BY <2>1, <3>1, <3>4
        <4>2. left = {}
          BY <1>2, <4>1, NoneRemain DEF SameLane
        <4> QED BY <3>3, <4>2
      <3>5. CASE mine = {}
        <4>1. \A r \in left : r.by \in overlap[s]
          BY <2>1 DEF Own, Scanned, RowsOf
        <4> QED BY <3>3, <3>5, <4>1
      <3> QED BY <3>4, <3>5
    <2> QED BY <2>2, <2>3
  <1>3. ASSUME IInv, [Next]_vars PROVE [\A s \in Sessions : Held(s)]_vars
    BY <1>2, <1>3
  <1> QED BY <1>3, Invariant, PTL DEF Spec, CommitHolds

(* A call fails, as the victim of a deadlock or at a constraint, only        *)
(* against another one on the same chain or the same key that was open      *)
(* together with it, or because its list names an account that does not     *)
(* exist.                                                                    *)
THEOREM FailuresHaveCause == Spec => []FailsOnlyAgainstAnother
PROOF
  <1>1. Init => FailInv
    BY Names DEF Init, FailInv, Failing
  <1>2. FailInv => FailsOnlyAgainstAnother
    BY DEF FailInv, Failing, FailsOnlyAgainstAnother, Met
  <1> QED BY <1>1, <1>2, Invariant, FailNext, PTL DEF Spec
================================================================================
