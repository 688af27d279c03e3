-------------------------- MODULE ClientTokens_proofs --------------------------
(***************************************************************************)
(* For every number of calls: types, what may bring a revoked key back,    *)
(* how a key may come to have two successors, what a rotation carries over *)
(* and what a limit call leaves, and that no pin dangles.                  *)
(*                                                                         *)
(* All steps of a call but its first and its commit touch only the call's  *)
(* own pc, flushed columns and loaded columns: they are one Move, and each *)
(* invariant is shown for a Move, for Ask and for Commit.                  *)
(***************************************************************************)
EXTENDS ClientTokens, TLAPS

StatusOps == {"enable", "disable", "revoke", "rotate"}
Writing(s) == pc[s] = "status" \/ "status" \in wrote[s]
Race(s) == \E u \in overlap[s] : Op(u) \in {"revoke", "rotate"} /\ Token(u) = Token(s)
PastLoad(s) == pc[s] = "ok" \/ (Open(s) /\ pc[s] # "load")
LimitRead == {"requireChain", "issue", "status", "limit", "commit"}

--------------------------------------------------------------------------------
(* The base: who is named, who knows of whom, which steps belong to whom.  *)

Names ==
    /\ revoked \subseteq issued
    /\ \A s \in Sessions : /\ s \in issued => pc[s] = "ok"
                           /\ pc[s] # "idle" => Token(s) \in issued
Overlaps ==
    \A s, u \in Sessions :
        /\ u \in overlap[s] => s # u /\ pc[u] # "idle" /\ s \in overlap[u]
        /\ s # u /\ Open(s) /\ Open(u) => u \in overlap[s]
Fits(label, w, op) ==
    /\ label = "status" => op \in StatusOps
    /\ label = "limit" => op = "limit"
    /\ label = "readLimit" => op \in {"rotate", "limit"}
    /\ label = "requireChain" => op \in {"rotate", "create", "pin"}
    /\ label = "issue" => op \in {"rotate", "create"}
    /\ label \in {"pinRow", "pinParent"} => op \in {"pin", "unpin"}
    /\ label \in {"drop", "unpinAll"} => op = "drop"
    /\ "status" \in w => op \in StatusOps
    /\ "limit" \in w => op = "limit"
    /\ "pinned" \in w => op \in {"pin", "unpin"}
    /\ "token" \in w => op \in {"rotate", "create"}
    /\ w \cap {"chain", "unpinned"} # {} => op = "drop"
    /\ op = "rotate" /\ label \in {"status", "commit"} => "token" \in w
    /\ op = "rotate" /\ label = "commit" => "status" \in w
    /\ label = "unpinAll" \/ "unpinned" \in w => "chain" \in w
    /\ label = "commit" /\ "chain" \in w => "unpinned" \in w
    /\ label \in {"load", "readLimit", "requireChain", "issue", "drop", "limit"}
         \cup Ended \cup {"idle"} => w = {}
Writers == \A s \in Sessions : Fits(pc[s], wrote[s], Op(s))
LimitCalls ==
    \A s \in Sessions :
        /\ pc[s] = "idle" => seen[s].limit = NoLimit
        /\ Op(s) = "limit" => call[s].limit \in Limits
        /\ Op(s) = "limit" /\ seen[s].limit # NoLimit => limit[Token(s)] # NoLimit

Base == TypeOK /\ Names /\ Overlaps /\ Writers /\ LimitCalls

(* Revocation: who is about to write over "revoked" loaded the key before  *)
(* its revocation, hence was open together with it, or found it escaped.   *)
WritersRaced ==
    \A s \in Sessions :
        (Op(s) \in {"enable", "disable"} /\ Writing(s) /\ Token(s) \in revoked) =>
            Race(s) \/ Escaped(Token(s))
Rotators ==
    \A s, u \in Sessions :
        (/\ s # u /\ Op(s) = "rotate" /\ Op(u) = "rotate" /\ Token(s) = Token(u)
         /\ pc[s] = "ok" /\ PastLoad(u)) =>
            u \in overlap[s] \/ Escaped(Token(s))
Rotated == \A s \in Sessions : Op(s) = "rotate" /\ pc[s] = "ok" => Token(s) \in revoked
Revocations == RevokedUnlessRaced /\ WritersRaced /\ Rotators /\ Rotated

(* Pins: while a call holds the chain as a parent, nobody is deleting it.  *)
ParentsHeld ==
    \A s \in Sessions : HoldsParent(s) =>
        chain /\ \A u \in Sessions : "chain" \notin wrote[u]
Pins == PinnedChainExists /\ ParentsHeld

(* Settings: what a rotation or a limit call has loaded is still so, or    *)
(* somebody else is changing it, or the chain has gone.                    *)
LimitSeen ==
    \A s \in Sessions : Op(s) \in {"rotate", "limit"} /\ pc[s] \in LimitRead =>
        seen[s].limit = limit[Token(s)] \/ RacedBy(s, {"limit"})
LimitSame ==
    \A s \in Sessions : Op(s) = "limit" /\ pc[s] = "commit" /\ "limit" \notin wrote[s] =>
        seen[s].limit = call[s].limit
PinSeen ==
    \A s \in Sessions : Op(s) = "rotate" /\ Open(s) /\ pc[s] # "load" =>
        \/ seen[s].pinned = pinned[Token(s)]
        \/ RacedBy(s, {"pin", "unpin"})
        \/ seen[s].pinned /\ ~chain /\ "token" \notin wrote[s]
Settings == LimitSeen /\ LimitSame /\ PinSeen

IInv == Base /\ Revocations /\ Pins /\ Settings

--------------------------------------------------------------------------------
(* A Move of s: to label l, with w flushed and x loaded.                    *)

OwnMove(s, l, w, x) ==
    /\ Open(s)
    /\ l \in PCs \ {"idle", "load", "ok"}
    /\ w \in SUBSET Parts /\ x \in Seen
    /\ pc' = [pc EXCEPT ![s] = l]
    /\ wrote' = [wrote EXCEPT ![s] = w]
    /\ seen' = [seen EXCEPT ![s] = x]
    /\ UNCHANGED <<issued, status, pinned, limit, chain, call, overlap, revoked>>
    /\ Fits(l, w, Op(s))
    /\ Op(s) = "limit" /\ x.limit # NoLimit => limit[Token(s)] # NoLimit
StatusMove(s, l, w) ==
    /\ Op(s) = "rotate" /\ pc[s] = "load" /\ l \notin Ended => status[Token(s)] # "revoked"
    /\ Op(s) \in {"enable", "disable"} /\ (l = "status" \/ "status" \in w) =>
         Writing(s) \/ status[Token(s)] # "revoked"
ParentMove(s, l, w, x) ==
    /\ (Op(s) = "pin" /\ l = "commit" /\ "pinned" \in w) \/ ("token" \in w /\ x.pinned) =>
         HoldsParent(s) \/ (chain /\ \A u \in Sessions \ {s} : "chain" \notin wrote[u])
    /\ "chain" \in w => "chain" \in wrote[s] \/ \A u \in Sessions \ {s} : ~HoldsParent(u)
SettingMove(s, l, w, x) ==
    /\ Op(s) \in {"rotate", "limit"} /\ l \in LimitRead =>
         (x.limit = seen[s].limit /\ pc[s] \in LimitRead) \/ x.limit = limit[Token(s)]
    /\ Op(s) = "limit" /\ l = "commit" /\ "limit" \notin w => x.limit = call[s].limit
    /\ Op(s) = "rotate" /\ l \notin Ended =>
         \/ pc[s] = "load" /\ x.pinned = pinned[Token(s)]
         \/ pc[s] # "load" /\ x.pinned = seen[s].pinned
    /\ Op(s) = "rotate" /\ "token" \in w /\ "token" \notin wrote[s] /\ x.pinned => chain
Moves(s, l, w, x) ==
    /\ OwnMove(s, l, w, x)
    /\ StatusMove(s, l, w)
    /\ ParentMove(s, l, w, x)
    /\ SettingMove(s, l, w, x)
Move(s) == \E l \in PCs, w \in SUBSET Parts, x \in Seen : Moves(s, l, w, x)

--------------------------------------------------------------------------------
USE DEF Op, Token, Open

(* Every step of get_session's body and every roll-back is a Move.         *)
LEMMA EndMoves ==
    ASSUME NEW s \in Sessions, NEW l \in {"refused", "error"}, Base, Open(s), End(s, l)
    PROVE  Move(s)
<1>1. Unread \in Seen  BY DEF Unread, Seen, Statuses
<1>2. {} \in SUBSET Parts  OBVIOUS
<1>3. Fits(l, {}, call[s].op)  BY DEF Fits, Ended
<1>4. Unread.limit = NoLimit /\ Unread.pinned = FALSE  BY DEF Unread
<1>5. OwnMove(s, l, {}, Unread)
  BY <1>1, <1>2, <1>3, <1>4 DEF End, Goto, OwnMove, PCs, Ended, store
<1>6. StatusMove(s, l, {}) /\ ParentMove(s, l, {}, Unread) /\ SettingMove(s, l, {}, Unread)
  BY <1>4 DEF StatusMove, ParentMove, SettingMove, Ended, LimitRead
<1> QED  BY <1>1, <1>5, <1>6 DEF Move, Moves, PCs, Ended

(* The types of one call's own state, for the steps below. *)
LEMMA OwnTypes ==
    ASSUME NEW s \in Sessions, TypeOK
    PROVE  /\ call[s].token \in Tokens /\ call[s].op \in Kinds
           /\ call[s].limit \in Limits \cup {NoLimit}
           /\ status[call[s].token] \in Statuses
           /\ pinned[call[s].token] \in BOOLEAN
           /\ limit[call[s].token] \in Limits \cup {NoLimit}
           /\ seen[s] \in Seen /\ wrote[s] \in SUBSET Parts /\ pc[s] \in PCs
           /\ seen[s].limit \in Limits \cup {NoLimit} /\ seen[s].pinned \in BOOLEAN
           /\ \A b \in BOOLEAN : [seen[s] EXCEPT !.pinned = b] \in Seen
           /\ \A v \in Statuses : [seen[s] EXCEPT !.status = v] \in Seen
           /\ \A v \in Limits \cup {NoLimit} : [seen[s] EXCEPT !.limit = v] \in Seen
BY DEF TypeOK, Call, Seen

LEMMA LoadForStatusMoves ==
    ASSUME NEW s \in Sessions, Base, LoadForStatus(s)  PROVE  Move(s)
<1> DEFINE old == status[call[s].token]
           l == IF old \in {"revoked", NewStatus(s)} THEN "commit" ELSE "status"
           x == [seen[s] EXCEPT !.status = old]
<1>1. x \in Seen /\ x.limit = seen[s].limit /\ x.pinned = seen[s].pinned
  BY OwnTypes DEF Base, Seen
<1>2. /\ pc[s] = "load" /\ wrote[s] = {} /\ call[s].op \in {"enable", "disable", "revoke"}
      /\ wrote[s] \in SUBSET Parts /\ l \in PCs
  BY OwnTypes DEF LoadForStatus, Base, Writers, Fits, PCs
<1>3. Fits(l, wrote[s], call[s].op)  BY <1>2 DEF Fits, StatusOps, Ended
<1>4. OwnMove(s, l, wrote[s], x)
  BY <1>1, <1>2, <1>3 DEF LoadForStatus, Goto, OwnMove, PCs, Ended, store, Base, TypeOK, Kinds
<1>5. StatusMove(s, l, wrote[s]) /\ ParentMove(s, l, wrote[s], x) /\ SettingMove(s, l, wrote[s], x)
  BY <1>1, <1>2 DEF StatusMove, ParentMove, SettingMove, Writing
<1> QED  BY <1>1, <1>2, <1>4, <1>5 DEF Move, Moves

LEMMA FlushStatusMoves ==
    ASSUME NEW s \in Sessions, Base, FlushStatus(s)  PROVE  Move(s)
<1> DEFINE w == wrote[s] \cup {"status"}
<1>1. /\ pc[s] = "status" /\ w \in SUBSET Parts /\ seen[s] \in Seen
      /\ Fits(pc[s], wrote[s], call[s].op)
  BY OwnTypes DEF FlushStatus, Base, Writers, Parts
<1>2. Fits("commit", w, call[s].op)
  BY <1>1 DEF Fits, StatusOps, Ended
<1>3. OwnMove(s, "commit", w, seen[s])
  BY <1>1, <1>2 DEF FlushStatus, Goto, Flush, OwnMove, PCs, Ended, store, session, Base, TypeOK, LimitCalls
<1>4. StatusMove(s, "commit", w)  BY <1>1 DEF StatusMove, Writing
<1>5. ParentMove(s, "commit", w, seen[s])  BY <1>1, <1>2 DEF ParentMove, HoldsParent, Fits, StatusOps
<1>6. SettingMove(s, "commit", w, seen[s])
  BY <1>1 DEF SettingMove, LimitRead, Fits, StatusOps, Ended
<1> QED  BY <1>1, <1>3, <1>4, <1>5, <1>6 DEF Move, Moves, PCs

LEMMA LoadForRotationMoves ==
    ASSUME NEW s \in Sessions, Base, LoadForRotation(s)  PROVE  Move(s)
<1> DEFINE x == [seen[s] EXCEPT !.status = status[call[s].token],
                                !.pinned = pinned[call[s].token]]
<1>1. x \in Seen /\ x.limit = seen[s].limit /\ x.pinned = pinned[call[s].token]
  BY OwnTypes DEF Base, Seen
<1>2. /\ pc[s] = "load" /\ wrote[s] = {} /\ call[s].op = "rotate" /\ wrote[s] \in SUBSET Parts
      /\ status[call[s].token] # "revoked"
  BY OwnTypes DEF LoadForRotation, Base, Writers, Fits
<1>3. Fits("readLimit", wrote[s], call[s].op)  BY <1>2 DEF Fits, Ended
<1>4. OwnMove(s, "readLimit", wrote[s], x)
  BY <1>1, <1>2, <1>3 DEF LoadForRotation, Goto, OwnMove, PCs, Ended, store, Base, TypeOK, Kinds
<1>5. StatusMove(s, "readLimit", wrote[s]) /\ ParentMove(s, "readLimit", wrote[s], x)
      /\ SettingMove(s, "readLimit", wrote[s], x)
  BY <1>1, <1>2 DEF StatusMove, ParentMove, SettingMove, LimitRead, Ended
<1> QED  BY <1>1, <1>2, <1>4, <1>5 DEF Move, Moves, PCs

LEMMA ReadLimitMoves ==
    ASSUME NEW s \in Sessions, Base, ReadLimit(s)  PROVE  Move(s)
<1> DEFINE new == limit[call[s].token]
           l == CASE call[s].op = "rotate" -> "requireChain"
                  [] call[s].op = "limit" /\ new # call[s].limit -> "limit"
                  [] OTHER -> "commit"
           x == [seen[s] EXCEPT !.limit = new]
<1>1. x \in Seen /\ x.limit = new /\ x.pinned = seen[s].pinned
  BY OwnTypes DEF Base, Seen
<1>2. /\ pc[s] = "readLimit" /\ wrote[s] = {} /\ call[s].op \in {"rotate", "limit"}
      /\ wrote[s] \in SUBSET Parts
  BY OwnTypes DEF ReadLimit, Base, Writers, Fits
<1>3. /\ call[s].op = "rotate" => l = "requireChain"
      /\ call[s].op = "limit" => l = IF new # call[s].limit THEN "limit" ELSE "commit"
  BY <1>2
<1>4. l \in {"requireChain", "limit", "commit"}  BY <1>2, <1>3
<1>5. Fits(l, wrote[s], call[s].op)  BY <1>2, <1>3 DEF Fits, Ended, StatusOps
<1>6. OwnMove(s, l, wrote[s], x)
  BY <1>1, <1>2, <1>4, <1>5 DEF ReadLimit, Goto, OwnMove, PCs, Ended, store, Base, TypeOK
<1>7. StatusMove(s, l, wrote[s]) /\ ParentMove(s, l, wrote[s], x) /\ SettingMove(s, l, wrote[s], x)
  BY <1>1, <1>2, <1>3 DEF StatusMove, ParentMove, SettingMove, LimitRead, Ended
<1> QED  BY <1>1, <1>2, <1>4, <1>6, <1>7 DEF Move, Moves, PCs

LEMMA LoadForCreationMoves ==
    ASSUME NEW s \in Sessions, Base, LoadForCreation(s)  PROVE  Move(s)
<1>1. PICK p \in BOOLEAN : seen' = [seen EXCEPT ![s].pinned = p]  BY DEF LoadForCreation
<1> DEFINE x == [seen[s] EXCEPT !.pinned = p]
<1>2. x \in Seen  BY OwnTypes DEF Base
<1>3. /\ pc[s] = "load" /\ wrote[s] = {} /\ call[s].op = "create" /\ wrote[s] \in SUBSET Parts
  BY OwnTypes DEF LoadForCreation, Base, Writers, Fits
<1>4. Fits("requireChain", wrote[s], call[s].op)  BY <1>3 DEF Fits, Ended
<1>5. OwnMove(s, "requireChain", wrote[s], x)
  BY <1>1, <1>2, <1>3, <1>4 DEF LoadForCreation, Goto, OwnMove, PCs, Ended, store, Base, TypeOK
<1>6. StatusMove(s, "requireChain", wrote[s]) /\ ParentMove(s, "requireChain", wrote[s], x)
      /\ SettingMove(s, "requireChain", wrote[s], x)
  BY <1>3 DEF StatusMove, ParentMove, SettingMove
<1> QED  BY <1>2, <1>3, <1>5, <1>6 DEF Move, Moves, PCs

LEMMA RequireChainMoves ==
    ASSUME NEW s \in Sessions, Base, RequireChain(s)  PROVE  Move(s)
<1> DEFINE l == CASE call[s].op # "pin" -> "issue"
                  [] call[s].op = "pin" /\ ~seen[s].pinned -> "pinRow"
                  [] OTHER -> "commit"
<1>1. /\ pc[s] = "requireChain" /\ wrote[s] = {} /\ call[s].op \in {"rotate", "create", "pin"}
      /\ wrote[s] \in SUBSET Parts /\ seen[s] \in Seen /\ seen[s].pinned \in BOOLEAN
  BY OwnTypes DEF RequireChain, Base, Writers, Fits
<1>2. /\ call[s].op # "pin" => l = "issue"
      /\ call[s].op = "pin" => l \in {"pinRow", "commit"}
  OBVIOUS
<1>3. Fits(l, wrote[s], call[s].op)  BY <1>1, <1>2 DEF Fits, Ended, StatusOps
<1>4. l \in {"issue", "pinRow", "commit"}  BY <1>2
<1>5. OwnMove(s, l, wrote[s], seen[s])
  BY <1>1, <1>3, <1>4 DEF RequireChain, Goto, OwnMove, PCs, Ended, store, session, Base, TypeOK, LimitCalls
<1>6. StatusMove(s, l, wrote[s]) /\ ParentMove(s, l, wrote[s], seen[s])
      /\ SettingMove(s, l, wrote[s], seen[s])
  BY <1>1, <1>2 DEF StatusMove, ParentMove, SettingMove, LimitRead, Ended
<1> QED  BY <1>1, <1>4, <1>5, <1>6 DEF Move, Moves, PCs

LEMMA IssueMoves ==
    ASSUME NEW s \in Sessions, Base, Issue(s)  PROVE  Move(s)
<1> DEFINE l == IF call[s].op = "rotate" THEN "status" ELSE "commit"
           w == wrote[s] \cup {"token"}
<1>1. /\ pc[s] = "issue" /\ wrote[s] = {} /\ call[s].op \in {"rotate", "create"}
      /\ w \in SUBSET Parts /\ seen[s] \in Seen /\ l \in PCs \ (Ended \cup {"idle", "load"})
      /\ seen[s].pinned \in BOOLEAN
  BY OwnTypes DEF Issue, Base, Writers, Fits, Parts, PCs, Ended
<1>2. Fits(l, w, call[s].op)  BY <1>1 DEF Fits, Ended, StatusOps
<1>3. OwnMove(s, l, w, seen[s])
  BY <1>1, <1>2 DEF Issue, Goto, Flush, OwnMove, PCs, Ended, store, session, Base, TypeOK, LimitCalls
<1>4. StatusMove(s, l, w)  BY <1>1 DEF StatusMove
<1>5. seen[s].pinned => chain /\ \A u \in Sessions \ {s} : "chain" \notin wrote[u]
  BY <1>1 DEF Issue, Free, Blocks
<1>6. ParentMove(s, l, w, seen[s])  BY <1>1, <1>5 DEF ParentMove
<1>7. SettingMove(s, l, w, seen[s])  BY <1>1, <1>5 DEF SettingMove, LimitRead
<1> QED  BY <1>1, <1>3, <1>4, <1>6, <1>7 DEF Move, Moves

LEMMA LoadForLimitMoves ==
    ASSUME NEW s \in Sessions, Base, LoadForLimit(s)  PROVE  Move(s)
<1>1. /\ pc[s] = "load" /\ wrote[s] = {} /\ call[s].op = "limit" /\ wrote[s] \in SUBSET Parts
      /\ seen[s] \in Seen
  BY OwnTypes DEF LoadForLimit, Base, Writers, Fits
<1>2. Fits("readLimit", wrote[s], call[s].op)  BY <1>1 DEF Fits, Ended
<1>3. OwnMove(s, "readLimit", wrote[s], seen[s])
  BY <1>1, <1>2 DEF LoadForLimit, Goto, OwnMove, PCs, Ended, store, session, Base, TypeOK, LimitCalls
<1>4. StatusMove(s, "readLimit", wrote[s]) /\ ParentMove(s, "readLimit", wrote[s], seen[s])
      /\ SettingMove(s, "readLimit", wrote[s], seen[s])
  BY <1>1 DEF StatusMove, ParentMove, SettingMove, LimitRead
<1> QED  BY <1>1, <1>3, <1>4 DEF Move, Moves, PCs

LEMMA FlushLimitMoves ==
    ASSUME NEW s \in Sessions, Base, FlushLimit(s)  PROVE  Move(s)
<1> DEFINE w == wrote[s] \cup {"limit"}
<1>1. /\ pc[s] = "limit" /\ wrote[s] = {} /\ call[s].op = "limit" /\ w \in SUBSET Parts
      /\ seen[s] \in Seen
  BY OwnTypes DEF FlushLimit, Base, Writers, Fits, Parts
<1>2. Fits("commit", w, call[s].op)  BY <1>1 DEF Fits, Ended
<1>3. OwnMove(s, "commit", w, seen[s])
  BY <1>1, <1>2 DEF FlushLimit, Goto, Flush, OwnMove, PCs, Ended, store, session, Base, TypeOK, LimitCalls
<1>4. StatusMove(s, "commit", w) /\ ParentMove(s, "commit", w, seen[s])
      /\ SettingMove(s, "commit", w, seen[s])
  BY <1>1 DEF StatusMove, ParentMove, SettingMove, LimitRead
<1> QED  BY <1>1, <1>3, <1>4 DEF Move, Moves, PCs

LEMMA LoadForPinMoves ==
    ASSUME NEW s \in Sessions, Base, LoadForPin(s)  PROVE  Move(s)
<1> DEFINE old == pinned[call[s].token]
           l == CASE call[s].op = "pin" -> "requireChain"
                  [] call[s].op = "unpin" /\ old -> "pinRow"
                  [] OTHER -> "commit"
           x == [seen[s] EXCEPT !.pinned = old]
<1>1. x \in Seen  BY OwnTypes DEF Base
<1>2. /\ pc[s] = "load" /\ wrote[s] = {} /\ call[s].op \in {"pin", "unpin"}
      /\ wrote[s] \in SUBSET Parts
  BY OwnTypes DEF LoadForPin, Base, Writers, Fits
<1>3. /\ call[s].op = "pin" => l = "requireChain"
      /\ call[s].op = "unpin" => l \in {"pinRow", "commit"}
  OBVIOUS
<1>4. l \in {"requireChain", "pinRow", "commit"}  BY <1>2, <1>3
<1>5. Fits(l, wrote[s], call[s].op)  BY <1>2, <1>3 DEF Fits, Ended, StatusOps
<1>6. OwnMove(s, l, wrote[s], x)
  BY <1>1, <1>2, <1>4, <1>5 DEF LoadForPin, Goto, OwnMove, PCs, Ended, store, Base, TypeOK
<1>7. StatusMove(s, l, wrote[s]) /\ ParentMove(s, l, wrote[s], x) /\ SettingMove(s, l, wrote[s], x)
  BY <1>2 DEF StatusMove, ParentMove, SettingMove
<1> QED  BY <1>1, <1>2, <1>4, <1>6, <1>7 DEF Move, Moves, PCs

LEMMA FlushPinMoves ==
    ASSUME NEW s \in Sessions, Base, FlushPin(s)  PROVE  Move(s)
<1> DEFINE l == IF call[s].op = "pin" THEN "pinParent" ELSE "commit"
           w == wrote[s] \cup {"pinned"}
<1>1. /\ pc[s] = "pinRow" /\ call[s].op \in {"pin", "unpin"} /\ w \in SUBSET Parts
      /\ seen[s] \in Seen /\ l \in {"pinParent", "commit"} /\ Fits(pc[s], wrote[s], call[s].op)
  BY OwnTypes DEF FlushPin, Base, Writers, Fits, Parts
<1>2. Fits(l, w, call[s].op) /\ "token" \notin w /\ "chain" \notin w /\ "status" \notin w
  BY <1>1 DEF Fits, Ended, StatusOps
<1>3. OwnMove(s, l, w, seen[s])
  BY <1>1, <1>2 DEF FlushPin, Goto, Flush, OwnMove, PCs, Ended, store, session, Base, TypeOK
<1>4. StatusMove(s, l, w) /\ ParentMove(s, l, w, seen[s]) /\ SettingMove(s, l, w, seen[s])
  BY <1>1, <1>2 DEF StatusMove, ParentMove, SettingMove
<1> QED  BY <1>1, <1>3, <1>4 DEF Move, Moves, PCs

LEMMA CheckParentMoves ==
    ASSUME NEW s \in Sessions, Base, CheckParent(s)  PROVE  Move(s)
<1>1. /\ pc[s] = "pinParent" /\ call[s].op \in {"pin", "unpin"} /\ wrote[s] \in SUBSET Parts
      /\ seen[s] \in Seen /\ Fits(pc[s], wrote[s], call[s].op)
  BY OwnTypes DEF CheckParent, Base, Writers, Fits
<1>2. Fits("commit", wrote[s], call[s].op) /\ "token" \notin wrote[s] /\ "status" \notin wrote[s]
  BY <1>1 DEF Fits, Ended, StatusOps
<1>3. OwnMove(s, "commit", wrote[s], seen[s])
  BY <1>1, <1>2 DEF CheckParent, Goto, OwnMove, PCs, Ended, store, session, Base, TypeOK
<1>4. chain /\ \A u \in Sessions \ {s} : "chain" \notin wrote[u]
  BY <1>1 DEF CheckParent, Free, Blocks
<1>5. StatusMove(s, "commit", wrote[s]) /\ SettingMove(s, "commit", wrote[s], seen[s])
  BY <1>1, <1>2 DEF StatusMove, SettingMove
<1>6. ParentMove(s, "commit", wrote[s], seen[s])  BY <1>4 DEF ParentMove
<1> QED  BY <1>1, <1>3, <1>5, <1>6 DEF Move, Moves, PCs

LEMMA LoadForDropMoves ==
    ASSUME NEW s \in Sessions, Base, LoadForDrop(s)  PROVE  Move(s)
<1>1. /\ pc[s] = "load" /\ wrote[s] = {} /\ call[s].op = "drop" /\ wrote[s] \in SUBSET Parts
      /\ seen[s] \in Seen
  BY OwnTypes DEF LoadForDrop, Base, Writers, Fits
<1>2. Fits("drop", wrote[s], call[s].op)  BY <1>1 DEF Fits, Ended
<1>3. OwnMove(s, "drop", wrote[s], seen[s])
  BY <1>1, <1>2 DEF LoadForDrop, Goto, OwnMove, PCs, Ended, store, session, Base, TypeOK
<1>4. StatusMove(s, "drop", wrote[s]) /\ ParentMove(s, "drop", wrote[s], seen[s])
      /\ SettingMove(s, "drop", wrote[s], seen[s])
  BY <1>1 DEF StatusMove, ParentMove, SettingMove
<1> QED  BY <1>1, <1>3, <1>4 DEF Move, Moves, PCs

LEMMA DropChainMoves ==
    ASSUME NEW s \in Sessions, Base, DropChain(s)  PROVE  Move(s)
<1> DEFINE l == IF chain THEN "unpinAll" ELSE "commit"
           w == wrote[s] \cup (IF chain THEN {"chain"} ELSE {})
<1>1. /\ pc[s] = "drop" /\ call[s].op = "drop" /\ w \in SUBSET Parts /\ wrote[s] = {}
      /\ seen[s] \in Seen /\ l \in {"unpinAll", "commit"} /\ chain \in BOOLEAN
  BY OwnTypes DEF DropChain, Base, Writers, Fits, Parts, TypeOK
<1>2. Fits(l, w, call[s].op)  BY <1>1 DEF Fits, Ended, StatusOps
<1>3. OwnMove(s, l, w, seen[s])
  BY <1>1, <1>2 DEF DropChain, Goto, Flush, OwnMove, PCs, Ended, store, session, Base, TypeOK
<1>4. \A u \in Sessions \ {s} : ~HoldsParent(u)
  BY <1>1 DEF DropChain, Free, Blocks
<1>5. StatusMove(s, l, w) /\ SettingMove(s, l, w, seen[s])
  BY <1>1 DEF StatusMove, SettingMove
<1>6. ParentMove(s, l, w, seen[s])  BY <1>1, <1>4 DEF ParentMove
<1> QED  BY <1>1, <1>3, <1>5, <1>6 DEF Move, Moves, PCs

LEMMA UnpinAllMoves ==
    ASSUME NEW s \in Sessions, Base, UnpinAll(s)  PROVE  Move(s)
<1> DEFINE w == wrote[s] \cup {"unpinned"}
<1>1. /\ pc[s] = "unpinAll" /\ call[s].op = "drop" /\ w \in SUBSET Parts /\ seen[s] \in Seen
      /\ Fits(pc[s], wrote[s], call[s].op)
  BY OwnTypes DEF UnpinAll, Base, Writers, Fits, Parts
<1>2. Fits("commit", w, call[s].op) /\ "token" \notin w /\ "status" \notin w /\ "chain" \in wrote[s]
  BY <1>1 DEF Fits, Ended, StatusOps
<1>3. OwnMove(s, "commit", w, seen[s])
  BY <1>1, <1>2 DEF UnpinAll, Goto, Flush, OwnMove, PCs, Ended, store, session, Base, TypeOK
<1>4. StatusMove(s, "commit", w) /\ ParentMove(s, "commit", w, seen[s])
      /\ SettingMove(s, "commit", w, seen[s])
  BY <1>1, <1>2 DEF StatusMove, ParentMove, SettingMove
<1> QED  BY <1>1, <1>3, <1>4 DEF Move, Moves, PCs

(* Every step of a call between its first and its commit is a Move. *)
LEMMA StepMoves ==
    ASSUME NEW s \in Sessions, Base, Serve(s) \/ DeadlockAbort(s), ~Commit(s)
    PROVE  Move(s)
<1>1. CASE DeadlockAbort(s)
  <2>1. s \in Sessions /\ pc[s] \in {"status", "pinRow", "limit", "issue", "pinParent", "drop", "unpinAll"}
    BY <1>1 DEF DeadlockAbort, Free, Blocks
  <2> QED  BY <1>1, <2>1, EndMoves DEF DeadlockAbort, Ended
<1>2. CASE RefuseRotation(s)  BY <1>2, EndMoves DEF RefuseRotation, Ended
<1>3. CASE ChainNotFound(s)  BY <1>3, EndMoves DEF ChainNotFound, Ended
<1>4. CASE IssueOrphan(s)  BY <1>4, EndMoves DEF IssueOrphan, Ended
<1>5. CASE LimitConflict(s)  BY <1>5, EndMoves DEF LimitConflict, Ended
<1>6. CASE ParentGone(s)  BY <1>6, EndMoves DEF ParentGone, Ended
<1>7. CASE DropNotFound(s)  BY <1>7, EndMoves DEF DropNotFound, Ended
<1> QED
  BY <1>1, <1>2, <1>3, <1>4, <1>5, <1>6, <1>7, LoadForStatusMoves, FlushStatusMoves,
     LoadForRotationMoves, ReadLimitMoves, LoadForCreationMoves, RequireChainMoves, IssueMoves,
     LoadForLimitMoves, FlushLimitMoves, LoadForPinMoves, FlushPinMoves, CheckParentMoves,
     LoadForDropMoves, DropChainMoves, UnpinAllMoves
  DEF Serve

--------------------------------------------------------------------------------
(* The invariants hold at the start. *)

LEMMA InitBase == ASSUME Init PROVE Base
<1>1. TypeOK
  <2>1. PICK st \in {"active", "disabled"} : status = [t \in Tokens |-> st]  BY DEF Init
  <2>2. PICK p \in BOOLEAN : pinned = [t \in Tokens |-> t = Seed /\ p]  BY DEF Init
  <2>3. PICK v \in Specs \cup {NoLimit} :
          limit = [t \in Tokens |-> IF t = Seed THEN v ELSE NoLimit]  BY DEF Init
  <2>4. status \in [Tokens -> Statuses]  BY <2>1 DEF Statuses
  <2>5. pinned \in [Tokens -> BOOLEAN]  BY <2>2
  <2>6. limit \in [Tokens -> Limits \cup {NoLimit}]  BY <2>3, SpecsAssumption
  <2>7. [op |-> "create", token |-> Seed, limit |-> NoLimit] \in Call  BY DEF Call, Kinds, Tokens
  <2>8. Unread \in Seen  BY DEF Unread, Seen, Statuses
  <2> QED  BY <2>4, <2>5, <2>6, <2>7, <2>8 DEF Init, TypeOK, Tokens, PCs
<1>2. \A s \in Sessions : call[s].op = "create" /\ pc[s] = "idle" /\ wrote[s] = {} /\ overlap[s] = {}
  BY DEF Init
<1>3. Names  BY <1>2, NamesAssumption DEF Init, Names
<1>4. Overlaps  BY <1>2 DEF Overlaps
<1>5. Writers  BY <1>2 DEF Writers, Fits
<1>6. LimitCalls  BY <1>2 DEF Init, LimitCalls, Unread
<1> QED  BY <1>1, <1>3, <1>4, <1>5, <1>6 DEF Base

LEMMA InitRest == ASSUME Init PROVE Revocations /\ Pins /\ Settings
<1>1. \A s \in Sessions : call[s].op = "create" /\ pc[s] = "idle" /\ wrote[s] = {}
  BY DEF Init
<1>2. Revocations
  BY <1>1 DEF Init, Revocations, RevokedUnlessRaced, WritersRaced, Rotators, Rotated
<1>3. Pins  BY <1>1 DEF Init, Pins, PinnedChainExists, ParentsHeld, HoldsParent
<1>4. Settings  BY <1>1 DEF Settings, LimitSeen, LimitSame, PinSeen
<1> QED  BY <1>2, <1>3, <1>4

--------------------------------------------------------------------------------
(* A Move keeps them. *)

LEMMA MoveBase ==
    ASSUME NEW s \in Sessions, Base, Move(s)  PROVE  Base'
<1>1. PICK l \in PCs, w \in SUBSET Parts, x \in Seen : OwnMove(s, l, w, x)
  BY DEF Move, Moves
<1>2. TypeOK'  BY <1>1 DEF OwnMove, Base, TypeOK
<1>3. Names'  BY <1>1 DEF OwnMove, Base, TypeOK, Names, Ended
<1>4. Overlaps'  BY <1>1 DEF OwnMove, Base, TypeOK, Overlaps
<1>5. Writers'  BY <1>1 DEF OwnMove, Base, TypeOK, Writers
<1>6. LimitCalls'  BY <1>1 DEF OwnMove, Base, TypeOK, LimitCalls
<1> QED  BY <1>2, <1>3, <1>4, <1>5, <1>6 DEF Base

LEMMA MoveRevocations ==
    ASSUME NEW s \in Sessions, Base, Revocations, Move(s)  PROVE  Revocations'
<1>1. PICK l \in PCs, w \in SUBSET Parts, x \in Seen :
        OwnMove(s, l, w, x) /\ StatusMove(s, l, w)
  BY DEF Move, Moves
<1>2. /\ pc' = [pc EXCEPT ![s] = l] /\ wrote' = [wrote EXCEPT ![s] = w]
      /\ pc \in [Sessions -> PCs] /\ wrote \in [Sessions -> SUBSET Parts]
      /\ l \notin {"idle", "load", "ok"} /\ pc[s] \notin Ended \cup {"idle"}
      /\ UNCHANGED <<status, call, overlap, revoked>>
  BY <1>1 DEF OwnMove, Base, TypeOK
<1>3. \A u \in Sessions : (pc'[u] = "ok") = (pc[u] = "ok")  BY <1>2 DEF Ended
<1>4. \A t \in Tokens : Escaped(t) => Escaped(t)'  BY <1>2, <1>3 DEF Escaped
<1>5. RevokedUnlessRaced'
  BY <1>2, <1>4 DEF Revocations, RevokedUnlessRaced, Base, TypeOK
<1>6. \A u \in Sessions : Race(u) => Race(u)'  BY <1>2 DEF Race
<1>7. \A u \in Sessions : call[u].token \in Tokens  BY DEF Base, TypeOK, Call
<1>8. WritersRaced'
  <2> SUFFICES ASSUME NEW u \in Sessions, NEW t \in Tokens, t = call[u].token, t \in revoked,
                      call[u].op \in {"enable", "disable"}, Writing(u)'
               PROVE  Race(u)' \/ Escaped(t)'
    BY <1>2, <1>7 DEF WritersRaced
  <2>1. CASE Writing(u)  BY <2>1, <1>4, <1>6, <1>7 DEF Revocations, WritersRaced
  <2>2. CASE ~Writing(u)
    <3>1. u = s  BY <2>2, <1>2 DEF Writing
    <3>2. status[call[s].token] # "revoked"
      BY <2>2, <3>1, <1>1, <1>2 DEF StatusMove, Writing
    <3> QED  BY <3>1, <3>2, <1>4, <1>7 DEF Revocations, RevokedUnlessRaced
  <2> QED  BY <2>1, <2>2
<1>9. Rotators'
  <2> SUFFICES ASSUME NEW a \in Sessions, NEW b \in Sessions, a # b, pc'[a] = "ok", PastLoad(b)',
                      call[a].op = "rotate", call[b].op = "rotate",
                      NEW t \in Tokens, t = call[a].token, t = call[b].token
               PROVE  b \in overlap[a] \/ Escaped(t)'
    BY <1>2, <1>7 DEF Rotators
  <2>1. pc[a] = "ok"  BY <1>3
  <2>2. CASE PastLoad(b)  BY <2>1, <2>2, <1>4, <1>7 DEF Revocations, Rotators
  <2>3. CASE ~PastLoad(b)
    <3>1. b = s /\ pc[s] = "load" /\ l \notin Ended  BY <2>3, <1>2 DEF PastLoad, Ended
    <3>2. status[call[a].token] # "revoked"  BY <3>1, <1>1 DEF StatusMove
    <3>3. call[a].token \in revoked  BY <2>1 DEF Revocations, Rotated
    <3> QED  BY <3>2, <3>3, <1>4, <1>7 DEF Revocations, RevokedUnlessRaced
  <2> QED  BY <2>2, <2>3
<1>10. Rotated'  BY <1>2, <1>3 DEF Revocations, Rotated
<1> QED  BY <1>5, <1>8, <1>9, <1>10 DEF Revocations

LEMMA MovePins ==
    ASSUME NEW s \in Sessions, Base, Pins, Move(s)  PROVE  Pins'
<1>1. PICK l \in PCs, w \in SUBSET Parts, x \in Seen :
        OwnMove(s, l, w, x) /\ ParentMove(s, l, w, x)
  BY DEF Move, Moves
<1>2. /\ pc' = [pc EXCEPT ![s] = l] /\ wrote' = [wrote EXCEPT ![s] = w]
      /\ seen' = [seen EXCEPT ![s] = x] /\ Fits(l, w, call[s].op)
      /\ pc \in [Sessions -> PCs] /\ wrote \in [Sessions -> SUBSET Parts]
      /\ seen \in [Sessions -> Seen]
      /\ UNCHANGED <<issued, pinned, chain, call>>
  BY <1>1 DEF OwnMove, Base, TypeOK
<1>3. PinnedChainExists'  BY <1>2 DEF Pins, PinnedChainExists
<1>4. ASSUME NEW u \in Sessions, HoldsParent(u)', NEW v \in Sessions, "chain" \in wrote'[v]
      PROVE  FALSE
  <2>1. CASE u # s /\ v # s
    <3>1. HoldsParent(u) /\ "chain" \in wrote[v]  BY <1>2, <1>4, <2>1 DEF HoldsParent
    <3> QED  BY <3>1 DEF Pins, ParentsHeld
  <2>2. CASE u = s /\ v # s
    <3>1. "chain" \in wrote[v]  BY <1>2, <1>4, <2>2
    <3>2. HoldsParent(s) \/ \A q \in Sessions \ {s} : "chain" \notin wrote[q]
      BY <1>1, <1>2, <1>4, <2>2 DEF HoldsParent, ParentMove
    <3> QED  BY <2>2, <3>1, <3>2 DEF Pins, ParentsHeld
  <2>3. CASE u # s /\ v = s
    <3>1. HoldsParent(u)  BY <1>2, <1>4, <2>3 DEF HoldsParent
    <3>2. "chain" \in wrote[s]  BY <1>1, <1>2, <1>4, <2>3, <3>1 DEF ParentMove
    <3> QED  BY <3>1, <3>2 DEF Pins, ParentsHeld
  <2>4. CASE u = s /\ v = s
    BY <1>2, <1>4, <2>4 DEF HoldsParent, Fits
  <2> QED  BY <2>1, <2>2, <2>3, <2>4
<1>5. ASSUME NEW u \in Sessions, HoldsParent(u)'  PROVE  chain
  <2>1. CASE u # s
    <3>1. HoldsParent(u)  BY <1>2, <1>5, <2>1 DEF HoldsParent
    <3> QED  BY <3>1 DEF Pins, ParentsHeld
  <2>2. CASE u = s
    <3>1. HoldsParent(s) \/ chain
      BY <1>1, <1>2, <1>5, <2>2 DEF HoldsParent, ParentMove
    <3> QED  BY <3>1 DEF Pins, ParentsHeld
  <2> QED  BY <2>1, <2>2
<1> QED  BY <1>2, <1>3, <1>4, <1>5 DEF Pins, ParentsHeld

LEMMA MoveSettings ==
    ASSUME NEW s \in Sessions, Base, Settings, Move(s)  PROVE  Settings'
<1>1. PICK l \in PCs, w \in SUBSET Parts, x \in Seen :
        OwnMove(s, l, w, x) /\ SettingMove(s, l, w, x)
  BY DEF Move, Moves
<1>2. /\ pc' = [pc EXCEPT ![s] = l] /\ wrote' = [wrote EXCEPT ![s] = w]
      /\ seen' = [seen EXCEPT ![s] = x] /\ Open(s)
      /\ pc \in [Sessions -> PCs] /\ wrote \in [Sessions -> SUBSET Parts]
      /\ seen \in [Sessions -> Seen] /\ chain \in BOOLEAN
      /\ UNCHANGED <<pinned, limit, chain, call, overlap>>
  BY <1>1 DEF OwnMove, Base, TypeOK
<1>3. \A u \in Sessions : /\ RacedBy(u, {"limit"})' = RacedBy(u, {"limit"})
                          /\ RacedBy(u, {"pin", "unpin"})' = RacedBy(u, {"pin", "unpin"})
  BY <1>2 DEF RacedBy
<1>4. LimitSeen'
  <2> SUFFICES ASSUME NEW u \in Sessions, call[u].op \in {"rotate", "limit"}, pc'[u] \in LimitRead
               PROVE  seen'[u].limit = limit[call[u].token] \/ RacedBy(u, {"limit"})
    BY <1>2, <1>3 DEF LimitSeen
  <2>1. CASE u # s  BY <2>1, <1>2 DEF Settings, LimitSeen
  <2>2. CASE u = s  BY <2>2, <1>1, <1>2 DEF Settings, LimitSeen, SettingMove
  <2> QED  BY <2>1, <2>2
<1>5. LimitSame'  BY <1>1, <1>2 DEF Settings, LimitSame, SettingMove
<1>6. PinSeen'
  <2> SUFFICES ASSUME NEW u \in Sessions, call[u].op = "rotate", Open(u)', pc'[u] # "load"
               PROVE  \/ seen'[u].pinned = pinned[call[u].token]
                      \/ RacedBy(u, {"pin", "unpin"})
                      \/ seen'[u].pinned /\ ~chain /\ "token" \notin wrote'[u]
    BY <1>2, <1>3 DEF PinSeen
  <2>1. CASE u # s  BY <2>1, <1>2 DEF Settings, PinSeen
  <2>2. CASE u = s
    <3>1. CASE pc[s] = "load"  BY <3>1, <2>2, <1>1, <1>2 DEF SettingMove
    <3>2. CASE pc[s] # "load"
      <4>1. x.pinned = seen[s].pinned  BY <3>2, <2>2, <1>1, <1>2 DEF SettingMove
      <4>2. \/ seen[s].pinned = pinned[call[s].token]
            \/ RacedBy(s, {"pin", "unpin"})
            \/ seen[s].pinned /\ ~chain /\ "token" \notin wrote[s]
        BY <3>2, <2>2, <1>2 DEF Settings, PinSeen
      <4>3. "token" \in w /\ "token" \notin wrote[s] /\ x.pinned => chain
        BY <2>2, <1>1 DEF SettingMove
      <4> QED  BY <4>1, <4>2, <4>3, <2>2, <1>2
    <3> QED  BY <3>1, <3>2
  <2> QED  BY <2>1, <2>2
<1> QED  BY <1>4, <1>5, <1>6 DEF Settings
--------------------------------------------------------------------------------
(* Ask keeps them. *)

Others(s) == {u \in Sessions \ {s} : Open(u)}

LEMMA AskFacts ==
    ASSUME NEW s \in Sessions, Base, Ask(s)
    PROVE  /\ pc[s] = "idle" /\ pc' = [pc EXCEPT ![s] = "load"] /\ wrote[s] = {}
           /\ \A u \in Sessions : u # s => call'[u] = call[u]
           /\ call'[s] \in Call /\ call'[s].token \in issued
           /\ call'[s].op = "limit" => call'[s].limit \in Limits
           /\ overlap' = [u \in Sessions |-> IF u = s THEN Others(s)
                                             ELSE IF u \in Others(s) THEN overlap[u] \cup {s}
                                             ELSE overlap[u]]
           /\ call' \in [Sessions -> Call]
           /\ UNCHANGED <<store, seen, wrote, revoked>>
<1>1. PICK c \in [op : Ops[s], token : issued, limit : Specs \cup {NoLimit}] :
        /\ c.op = "limit" => c.limit # NoLimit
        /\ call' = [call EXCEPT ![s] = c]
  BY DEF Ask
<1>2. c \in Call
  BY OpsAssumption, SpecsAssumption DEF Call, Base, TypeOK
<1>3. c.token \in issued /\ (c.op = "limit" => c.limit \in Limits)
  BY <1>1, SpecsAssumption
<1>4. wrote[s] = {}  BY DEF Ask, Base, Writers, Fits
<1> QED  BY <1>1, <1>2, <1>3, <1>4 DEF Ask, Goto, Base, TypeOK, Others

LEMMA AskBase ==
    ASSUME NEW s \in Sessions, Base, Ask(s)  PROVE  Base'
<1> USE AskFacts
<1>1. TypeOK'
  <2>1. overlap' \in [Sessions -> SUBSET Sessions]  BY DEF Base, TypeOK, Others
  <2>2. pc' \in [Sessions -> PCs]  BY DEF Base, TypeOK, PCs
  <2> QED  BY <2>1, <2>2 DEF Base, TypeOK, store
<1>2. Names'  BY DEF Base, TypeOK, Names, store
<1>3. Overlaps'
  <2> SUFFICES ASSUME NEW a \in Sessions, NEW b \in Sessions
               PROVE  /\ b \in overlap'[a] => a # b /\ pc'[b] # "idle" /\ a \in overlap'[b]
                      /\ a # b /\ Open(a)' /\ Open(b)' => b \in overlap'[a]
    BY DEF Overlaps
  <2>1. pc \in [Sessions -> PCs]  BY DEF Base, TypeOK
  <2>2. /\ b \in overlap[a] => a # b /\ pc[b] # "idle" /\ a \in overlap[b]
        /\ a \in overlap[b] => pc[a] # "idle"
        /\ a # b /\ Open(a) /\ Open(b) => b \in overlap[a]
    BY DEF Base, Overlaps
  <2>3. CASE a = s  BY <2>1, <2>2, <2>3 DEF Others, Ended
  <2>4. CASE a # s /\ b = s  BY <2>1, <2>2, <2>4 DEF Others, Ended
  <2>5. CASE a # s /\ b # s  BY <2>1, <2>2, <2>5 DEF Others
  <2> QED  BY <2>3, <2>4, <2>5
<1>4. Writers'
  <2> SUFFICES ASSUME NEW u \in Sessions PROVE Fits(pc'[u], wrote'[u], call'[u].op)
    BY DEF Writers
  <2>1. CASE u = s
    <3>1. pc'[s] = "load" /\ wrote'[s] = {}  BY DEF Base, TypeOK
    <3> QED  BY <2>1, <3>1 DEF Fits
  <2>2. CASE u # s
    <3>1. pc'[u] = pc[u] /\ wrote'[u] = wrote[u] /\ call'[u] = call[u]  BY <2>2 DEF Base, TypeOK
    <3> QED  BY <3>1 DEF Base, Writers
  <2> QED  BY <2>1, <2>2
<1>5. LimitCalls'
  <2> SUFFICES ASSUME NEW u \in Sessions, call'[u].op = "limit"
               PROVE  /\ call'[u].limit \in Limits
                      /\ seen[u].limit # NoLimit => limit[call'[u].token] # NoLimit
    <3>1. \A u \in Sessions : pc'[u] = "idle" => pc[u] = "idle"  BY DEF Base, TypeOK
    <3> QED  BY <3>1 DEF LimitCalls, store, Base
  <2>1. CASE u # s  BY <2>1 DEF Base, LimitCalls
  <2>2. CASE u = s  BY <2>2 DEF Base, LimitCalls
  <2> QED  BY <2>1, <2>2
<1> QED  BY <1>1, <1>2, <1>3, <1>4, <1>5 DEF Base

LEMMA AskEscaped ==
    ASSUME NEW s \in Sessions, Base, Ask(s)
    PROVE  /\ \A t \in Tokens : Escaped(t) => Escaped(t)'
           /\ \A a, b \in Sessions : b \in overlap[a] => b \in overlap'[a] /\ b # s /\ a # s
<1> USE AskFacts
<1>1. \A a, b \in Sessions : b \in overlap[a] => b \in overlap'[a] /\ b # s /\ a # s
  BY DEF Base, Overlaps
<1>2. ASSUME NEW t \in Tokens, Escaped(t)  PROVE Escaped(t)'
  <2>1. PICK a \in Sessions, b \in Sessions :
          /\ call[a].op \in {"enable", "disable"} /\ call[a].token = t /\ pc[a] = "ok"
          /\ call[b].op \in {"revoke", "rotate"} /\ call[b].token = t /\ b \in overlap[a]
    BY <1>2 DEF Escaped
  <2>2. a # s /\ b # s /\ b \in overlap'[a]  BY <2>1, <1>1
  <2>3. call'[a] = call[a] /\ call'[b] = call[b] /\ pc'[a] = "ok"
    BY <2>1, <2>2 DEF Base, TypeOK
  <2> QED  BY <2>1, <2>2, <2>3 DEF Escaped
<1> QED  BY <1>1, <1>2

LEMMA AskRevocations ==
    ASSUME NEW s \in Sessions, Base, Revocations, Ask(s)  PROVE  Revocations'
<1> USE AskFacts
<1>1. RevokedUnlessRaced'
  BY AskEscaped DEF Revocations, RevokedUnlessRaced, store, Base, TypeOK
<1>2. /\ pc'[s] = "load" /\ wrote'[s] = {}
      /\ \A u \in Sessions : u # s => pc'[u] = pc[u] /\ call'[u] = call[u] /\ call[u].token \in Tokens
      /\ wrote' = wrote /\ revoked' = revoked
  BY DEF Base, TypeOK, Call
<1>3. WritersRaced'
  <2> SUFFICES ASSUME NEW u \in Sessions, call'[u].op \in {"enable", "disable"}, Writing(u)',
                      call'[u].token \in revoked
               PROVE  (Race(u) \/ Escaped(call[u].token))'
    BY <1>2 DEF WritersRaced
  <2>1. u # s  BY <1>2 DEF Writing
  <2>2. Race(u) => Race(u)'
    <3>1. \A v \in overlap[u] : v \in Sessions  BY DEF Base, TypeOK
    <3> QED  BY <2>1, <1>2, <3>1, AskEscaped DEF Race
  <2>3. Race(u) \/ Escaped(call[u].token)
    BY <2>1, <1>2 DEF Revocations, WritersRaced, Writing
  <2> QED  BY <2>1, <2>2, <2>3, <1>2, AskEscaped
<1>4. Rotators'
  <2> SUFFICES ASSUME NEW a \in Sessions, NEW b \in Sessions, a # b, pc'[a] = "ok", PastLoad(b)',
                      call'[a].op = "rotate", call'[b].op = "rotate",
                      call'[a].token = call'[b].token
               PROVE  (b \in overlap[a] \/ Escaped(call[a].token))'
    BY DEF Rotators
  <2>1. a # s /\ b # s  BY <1>2 DEF PastLoad
  <2>2. b \in overlap[a] \/ Escaped(call[a].token)
    BY <2>1, <1>2 DEF Revocations, Rotators, PastLoad
  <2> QED  BY <2>1, <2>2, <1>2, AskEscaped
<1>5. Rotated'  BY <1>2 DEF Revocations, Rotated
<1> QED  BY <1>1, <1>3, <1>4, <1>5 DEF Revocations

LEMMA AskPins ==
    ASSUME NEW s \in Sessions, Base, Pins, Ask(s)  PROVE  Pins'
<1>1. PinnedChainExists'  BY AskFacts DEF Pins, PinnedChainExists, store
<1>2. ASSUME NEW u \in Sessions, HoldsParent(u)'  PROVE HoldsParent(u)
  <2>1. CASE u = s  BY <1>2, <2>1, AskFacts DEF HoldsParent
  <2>2. CASE u # s  BY <1>2, <2>2, AskFacts DEF HoldsParent, Base, TypeOK
  <2> QED  BY <2>1, <2>2
<1> QED  BY <1>1, <1>2, AskFacts DEF Pins, ParentsHeld, store

LEMMA AskSettings ==
    ASSUME NEW s \in Sessions, Base, Settings, Ask(s)  PROVE  Settings'
<1>1. /\ pc'[s] = "load"
      /\ \A u \in Sessions : u # s => pc'[u] = pc[u] /\ call'[u] = call[u]
      /\ UNCHANGED <<pinned, limit, chain, seen, wrote>>
  BY AskFacts DEF Base, TypeOK, store
<1>2. ASSUME NEW u \in Sessions, u # s
      PROVE  /\ RacedBy(u, {"limit"}) => RacedBy(u, {"limit"})'
             /\ RacedBy(u, {"pin", "unpin"}) => RacedBy(u, {"pin", "unpin"})'
  <2>1. \A v \in overlap[u] : v \in Sessions  BY DEF Base, TypeOK
  <2> QED  BY <2>1, <1>1, <1>2, AskEscaped DEF RacedBy
<1>3. LimitSeen'  BY <1>1, <1>2 DEF Settings, LimitSeen, LimitRead
<1>4. LimitSame'  BY <1>1 DEF Settings, LimitSame
<1>5. PinSeen'  BY <1>1, <1>2 DEF Settings, PinSeen
<1> QED  BY <1>3, <1>4, <1>5 DEF Settings

--------------------------------------------------------------------------------
(* Commit keeps them. *)

LEMMA MergeType ==
    ASSUME NEW s, NEW current \in Limits, call[s].limit \in Limits
    PROVE  Merge(current, s) \in Limits
BY DEF Merge, Limits

(* What a commit leaves, part by part.  The key a call issues is not the    *)
(* one it is about, nor any that another call is about.                    *)
OwnCommit(s) ==
    /\ pc[s] = "commit" /\ pc' = [pc EXCEPT ![s] = "ok"]
    /\ wrote' = [wrote EXCEPT ![s] = {}] /\ seen' = [seen EXCEPT ![s] = Unread]
    /\ call[s].token \in issued /\ s \notin issued /\ call[s].token # s
    /\ UNCHANGED <<call, overlap>>
NewIssued(s) ==
    /\ issued' = issued \cup (IF "token" \in wrote[s] THEN {s} ELSE {})
    /\ "token" \in wrote[s] => status'[s] = "active" /\ limit'[s] = seen[s].limit
                                 /\ pinned'[s] = seen[s].pinned
NewStatuses(s) ==
    \A k \in Tokens : k # s =>
        status'[k] = IF k = call[s].token /\ "status" \in wrote[s] THEN NewStatus(s) ELSE status[k]
NewLimits(s) ==
    \A k \in Tokens : k # s =>
        limit'[k] = IF k = call[s].token /\ "limit" \in wrote[s] THEN Merge(limit[k], s) ELSE limit[k]
NewPins(s) ==
    /\ "unpinned" \in wrote[s] => \A k \in Tokens : pinned'[k] = FALSE
    /\ "unpinned" \notin wrote[s] => \A k \in Tokens : k # s => pinned'[k] =
         IF k = call[s].token /\ "pinned" \in wrote[s] THEN call[s].op = "pin" ELSE pinned[k]
    /\ chain' = (chain /\ "chain" \notin wrote[s])
NewRevoked(s) ==
    revoked' = IF "status" \in wrote[s] /\ NewStatus(s) = "revoked"
                 THEN revoked \cup {call[s].token} ELSE revoked

LEMMA CommitFacts ==
    ASSUME NEW s \in Sessions, Base, Commit(s)
    PROVE  OwnCommit(s) /\ NewIssued(s) /\ NewStatuses(s) /\ NewLimits(s) /\ NewPins(s) /\ NewRevoked(s)
<1> DEFINE new == IF "token" \in wrote[s] THEN {s} ELSE {}
<1>1. pc[s] = "commit" /\ call[s].token \in issued /\ s \notin issued /\ s \in Tokens
  BY DEF Commit, Base, Names, Tokens
<1>2. call[s].token # s  BY <1>1
<1>3. "token" \in wrote[s] => "unpinned" \notin wrote[s]
  BY DEF Base, Writers, Fits
<1>4. OwnCommit(s)  BY <1>1, <1>2 DEF Commit, Goto, OwnCommit
<1>5. NewStatuses(s)  BY DEF Commit, NewStatuses
<1>6. NewLimits(s)  BY DEF Commit, NewLimits
<1>7. NewIssued(s)  BY <1>1, <1>2, <1>3 DEF Commit, NewIssued
<1>8. "unpinned" \in wrote[s] => new = {} /\ "pinned" \notin wrote[s]
  BY DEF Base, Writers, Fits
<1>9. NewPins(s)
  <2>1. "unpinned" \in wrote[s] => \A k \in Tokens : pinned'[k] = FALSE  BY <1>8 DEF Commit
  <2>2. "unpinned" \notin wrote[s] => \A k \in Tokens : k # s => pinned'[k] =
          IF k = call[s].token /\ "pinned" \in wrote[s] THEN call[s].op = "pin" ELSE pinned[k]
    BY DEF Commit
  <2> QED  BY <2>1, <2>2 DEF Commit, NewPins
<1>10. NewRevoked(s)  BY DEF Commit, NewRevoked
<1> QED  BY <1>4, <1>5, <1>6, <1>7, <1>9, <1>10

LEMMA CommitTypes ==
    ASSUME NEW s \in Sessions, Base, Commit(s)  PROVE  TypeOK'
<1>1. /\ wrote[s] \in SUBSET Parts /\ seen[s] \in Seen /\ call[s] \in Call
      /\ s \in Tokens /\ Fits("commit", wrote[s], call[s].op) /\ call[s].token \in Tokens
  BY DEF Commit, Base, TypeOK, Tokens, Writers, Call
<1>2. seen[s].limit \in Limits \cup {NoLimit} /\ seen[s].pinned \in BOOLEAN  BY <1>1 DEF Seen
<1>3. "limit" \in wrote[s] => Merge(limit[call[s].token], s) \in Limits
  <2> SUFFICES ASSUME "limit" \in wrote[s]  PROVE Merge(limit[call[s].token], s) \in Limits
    OBVIOUS
  <2>1. call[s].op = "limit" /\ call[s].limit \in Limits  BY <1>1 DEF Fits, Base, LimitCalls
  <2>2. CASE seen[s].limit = NoLimit  BY <2>1, <2>2 DEF Merge
  <2>3. CASE seen[s].limit # NoLimit
    <3>1. limit[call[s].token] \in Limits
      BY <2>1, <2>3, <1>1 DEF Base, LimitCalls, TypeOK
    <3> QED  BY <2>1, <3>1, MergeType
  <2> QED  BY <2>2, <2>3
<1>4. status' \in [Tokens -> Statuses]
  <2>1. status \in [Tokens -> Statuses]  BY DEF Base, TypeOK
  <2>2. NewStatus(s) \in Statuses  BY DEF NewStatus, Statuses
  <2> QED  BY <2>1, <2>2 DEF Commit, Statuses
<1>5. pinned' \in [Tokens -> BOOLEAN]
  <2>1. pinned \in [Tokens -> BOOLEAN]  BY DEF Base, TypeOK
  <2> DEFINE val(k) == CASE "unpinned" \in wrote[s] -> FALSE
                         [] k \in (IF "token" \in wrote[s] THEN {s} ELSE {}) -> seen[s].pinned
                         [] k = call[s].token /\ "pinned" \in wrote[s] -> call[s].op = "pin"
                         [] OTHER -> pinned[k]
  <2>2. pinned' = [k \in Tokens |-> val(k)]  BY DEF Commit
  <2>3. ASSUME NEW k \in Tokens PROVE val(k) \in BOOLEAN
    <3>1. pinned[k] \in BOOLEAN  BY <2>1
    <3> QED  BY <3>1, <1>2
  <2> QED  BY <2>2, <2>3
<1>6. limit' \in [Tokens -> Limits \cup {NoLimit}]
  <2>1. limit \in [Tokens -> Limits \cup {NoLimit}]  BY DEF Base, TypeOK
  <2> QED  BY <2>1, <1>2, <1>3 DEF Commit
<1>7. issued' \subseteq Tokens /\ revoked' \subseteq Tokens  BY <1>1 DEF Commit, Base, TypeOK
<1>8. chain' \in BOOLEAN  BY DEF Commit, Base, TypeOK
<1>9. pc' \in [Sessions -> PCs]  BY DEF Commit, Goto, Base, TypeOK, PCs, Ended
<1>10. Unread \in Seen  BY DEF Unread, Seen, Statuses
<1>11. seen' \in [Sessions -> Seen]  BY <1>10 DEF Commit, Base, TypeOK
<1>12. wrote' \in [Sessions -> SUBSET Parts]  BY DEF Commit, Base, TypeOK
<1>13. UNCHANGED <<call, overlap>>  BY DEF Commit
<1> QED
  BY <1>4, <1>5, <1>6, <1>7, <1>8, <1>9, <1>11, <1>12, <1>13 DEF Base, TypeOK

(* Who else is open when s commits. *)
LEMMA CommitOthers ==
    ASSUME NEW s \in Sessions, Base, Commit(s)
    PROVE  /\ \A u \in Sessions : u # s => pc'[u] = pc[u] /\ wrote'[u] = wrote[u] /\ seen'[u] = seen[u]
           /\ pc'[s] = "ok" /\ wrote'[s] = {} /\ seen'[s] = Unread
           /\ pc[s] = "commit" /\ Open(s) /\ call' = call /\ overlap' = overlap
           /\ Fits("commit", wrote[s], call[s].op)
           /\ \A u \in Sessions : Open(u) /\ u # s => s \in overlap[u] /\ u \in overlap[s]
           /\ \A u \in Sessions : call[u].token \in Tokens
           /\ \A u \in Sessions : pc[u] # "idle" => call[u].token # s /\ call[u].token \in issued
           /\ s \notin issued /\ s \in Tokens
<1>1. OwnCommit(s)  BY CommitFacts
<1>2. Open(s)  BY <1>1 DEF OwnCommit, Ended
<1>3. Fits("commit", wrote[s], call[s].op)  BY <1>1 DEF OwnCommit, Base, Writers
<1>4. \A u \in Sessions : Open(u) /\ u # s => s \in overlap[u] /\ u \in overlap[s]
  BY <1>2 DEF Base, Overlaps
<1>5. \A u \in Sessions : pc[u] # "idle" => call[u].token # s /\ call[u].token \in issued
  BY <1>1 DEF OwnCommit, Base, Names
<1>6. \A u \in Sessions : call[u].token \in Tokens  BY DEF Base, TypeOK, Call
<1>7. pc \in [Sessions -> PCs] /\ wrote \in [Sessions -> SUBSET Parts] /\ seen \in [Sessions -> Seen]
  BY DEF Base, TypeOK
<1> QED  BY <1>1, <1>2, <1>3, <1>4, <1>5, <1>6, <1>7 DEF OwnCommit, Tokens

LEMMA CommitBase ==
    ASSUME NEW s \in Sessions, Base, Commit(s)  PROVE  Base'
<1>1. /\ \A u \in Sessions : u # s => pc'[u] = pc[u] /\ wrote'[u] = wrote[u] /\ seen'[u] = seen[u]
      /\ pc'[s] = "ok" /\ wrote'[s] = {} /\ seen'[s] = Unread
      /\ pc[s] = "commit" /\ Open(s) /\ call' = call /\ overlap' = overlap
  BY CommitOthers
<1>2. TypeOK'  BY CommitTypes
<1>3. Names'
  <2>1. NewIssued(s) /\ NewRevoked(s) /\ call[s].token \in issued  BY CommitFacts DEF OwnCommit
  <2> QED  BY <1>1, <2>1 DEF NewIssued, NewRevoked, Base, Names
<1>4. Overlaps'
  <2>1. \A u \in Sessions : (Open(u)' => Open(u)) /\ (pc[u] # "idle" => pc'[u] # "idle")
    BY <1>1 DEF Ended
  <2> QED  BY <1>1, <2>1 DEF Base, Overlaps
<1>5. Writers'
  <2>1. Fits("ok", {}, call[s].op)  BY DEF Fits
  <2> QED  BY <1>1, <2>1 DEF Base, Writers
<1>6. LimitCalls'
  <2> SUFFICES ASSUME NEW u \in Sessions
               PROVE  /\ pc'[u] = "idle" => seen'[u].limit = NoLimit
                      /\ call[u].op = "limit" => call[u].limit \in Limits
                      /\ call[u].op = "limit" /\ seen'[u].limit # NoLimit =>
                            limit'[call[u].token] # NoLimit
    BY <1>1 DEF LimitCalls
  <2>1. CASE u = s  BY <1>1, <2>1 DEF Base, LimitCalls, Unread
  <2>2. CASE u # s
    <3>1. ASSUME call[u].op = "limit", seen[u].limit # NoLimit
          PROVE  limit'[call[u].token] # NoLimit
      <4>1. pc[u] # "idle" /\ limit[call[u].token] # NoLimit
        BY <3>1 DEF Base, LimitCalls
      <4>2. call[u].token \in Tokens /\ call[u].token # s  BY <4>1, CommitOthers
      <4>3. CASE call[u].token = call[s].token /\ "limit" \in wrote[s]
        <5>1. limit'[call[u].token] = Merge(limit[call[s].token], s)
          BY <4>2, <4>3, CommitFacts DEF NewLimits
        <5>2. call[s].op = "limit" /\ call[s].limit \in Limits
          BY <4>3, CommitOthers DEF Fits, Base, LimitCalls
        <5>3. limit[call[s].token] \in Limits  BY <4>1, <4>2, <4>3 DEF Base, TypeOK
        <5>4. Merge(limit[call[s].token], s) \in Limits  BY <5>2, <5>3, MergeType
        <5> QED  BY <5>1, <5>4, NamesAssumption
      <4>4. CASE ~(call[u].token = call[s].token /\ "limit" \in wrote[s])
        <5>1. limit'[call[u].token] = limit[call[u].token]
          BY <4>2, <4>4, CommitFacts DEF NewLimits
        <5> QED  BY <5>1, <4>1
      <4> QED  BY <4>3, <4>4
    <3> QED  BY <1>1, <2>2, <3>1 DEF Base, LimitCalls
  <2> QED  BY <2>1, <2>2
<1> QED  BY <1>2, <1>3, <1>4, <1>5, <1>6 DEF Base

LEMMA CommitRevocations ==
    ASSUME NEW s \in Sessions, Base, Revocations, Commit(s)  PROVE  Revocations'
<1>1. /\ \A u \in Sessions : u # s => pc'[u] = pc[u] /\ wrote'[u] = wrote[u]
      /\ pc'[s] = "ok" /\ wrote'[s] = {} /\ pc[s] = "commit" /\ Open(s)
      /\ call' = call /\ overlap' = overlap
      /\ \A u \in Sessions : call[u].token \in Tokens
      /\ Fits("commit", wrote[s], call[s].op)
  BY CommitOthers
<1>2. \A u \in Sessions : Open(u) /\ u # s => s \in overlap[u] /\ u \in overlap[s]
  BY CommitOthers
<1>r. NewRevoked(s) /\ NewStatuses(s)  BY CommitFacts
<1>n. /\ issued \subseteq Tokens /\ revoked \subseteq issued
      /\ s \notin issued /\ call[s].token \in issued
  BY CommitFacts DEF OwnCommit, Base, TypeOK, Names
<1>3. ASSUME NEW t \in Tokens, Escaped(t)  PROVE Escaped(t)'
  BY <1>1, <1>3 DEF Escaped
<1>4. \A u \in Sessions : Race(u) => Race(u)'  BY <1>1 DEF Race
<1>5. "status" \in wrote[s] /\ NewStatus(s) # "revoked" => call[s].op \in {"enable", "disable"}
  BY DEF NewStatus
<1>6. "status" \in wrote[s] /\ NewStatus(s) = "revoked" => call[s].op \in {"revoke", "rotate"}
  BY <1>1 DEF NewStatus, Fits, StatusOps
<1>7. RevokedUnlessRaced'
  <2> SUFFICES ASSUME NEW t \in revoked', status'[t] # "revoked"  PROVE Escaped(t)'
    BY DEF RevokedUnlessRaced
  <2>1. t \in Tokens /\ t # s /\ t \in issued  BY <1>r, <1>n DEF NewRevoked
  <2>2. CASE t = call[s].token /\ "status" \in wrote[s]
    <3>1. status'[t] = NewStatus(s)  BY <2>1, <2>2, <1>r DEF NewStatuses
    <3>2. t \in revoked /\ call[s].op \in {"enable", "disable"} /\ Writing(s)
      BY <2>2, <3>1, <1>5, <1>r DEF Writing, NewRevoked
    <3>3. Race(s) \/ Escaped(t)  BY <2>2, <3>2 DEF Revocations, WritersRaced
    <3>4. CASE Race(s)
      <4>1. PICK u \in overlap[s] : call[u].op \in {"revoke", "rotate"} /\ call[u].token = t
        BY <3>4, <2>2 DEF Race
      <4>2. u \in Sessions  BY <4>1 DEF Base, TypeOK
      <4> QED  BY <2>2, <3>2, <4>1, <4>2, <1>1 DEF Escaped
    <3> QED  BY <3>3, <3>4, <2>1, <1>3
  <2>3. CASE ~(t = call[s].token /\ "status" \in wrote[s])
    <3>1. status'[t] = status[t] /\ t \in revoked
      BY <2>1, <2>3, <1>r DEF NewStatuses, NewRevoked
    <3>2. Escaped(t)  BY <3>1 DEF Revocations, RevokedUnlessRaced
    <3> QED  BY <3>2, <2>1, <1>3
  <2> QED  BY <2>2, <2>3
<1>8. WritersRaced'
  <2> SUFFICES ASSUME NEW u \in Sessions, NEW t \in Tokens, t = call[u].token, t \in revoked',
                      call[u].op \in {"enable", "disable"}, Writing(u)'
               PROVE  Race(u)' \/ Escaped(t)'
    BY <1>1 DEF WritersRaced
  <2>1. u # s /\ Writing(u)  BY <1>1 DEF Writing
  <2>2. CASE t \in revoked
    <3>1. Race(u) \/ Escaped(t)  BY <2>1, <2>2 DEF Revocations, WritersRaced
    <3> QED  BY <3>1, <1>3, <1>4
  <2>3. CASE t \notin revoked
    <3>1. t = call[s].token /\ call[s].op \in {"revoke", "rotate"}
      BY <2>3, <1>6, <1>r DEF NewRevoked
    <3>2. Open(u)
      <4>1. Fits(pc[u], wrote[u], call[u].op)  BY DEF Base, Writers
      <4> QED  BY <2>1, <4>1 DEF Writing, Fits, Ended
    <3>3. s \in overlap[u]  BY <2>1, <3>2, <1>2
    <3> QED  BY <3>1, <3>3, <1>1 DEF Race
  <2> QED  BY <2>2, <2>3
<1>9. Rotators'
  <2> SUFFICES ASSUME NEW a \in Sessions, NEW b \in Sessions, a # b, pc'[a] = "ok", PastLoad(b)',
                      call[a].op = "rotate", call[b].op = "rotate",
                      NEW t \in Tokens, t = call[a].token, t = call[b].token
               PROVE  b \in overlap[a] \/ Escaped(t)'
    BY <1>1 DEF Rotators
  <2>1. CASE a = s
    <3>1. CASE Open(b)  BY <2>1, <3>1, <1>2
    <3>2. CASE ~Open(b)
      <4>1. pc[b] = "ok" /\ PastLoad(s)
        BY <2>1, <3>2, <1>1 DEF PastLoad
      <4>2. s \in overlap[b] \/ Escaped(t)  BY <2>1, <4>1 DEF Revocations, Rotators
      <4> QED  BY <2>1, <4>2, <1>3 DEF Base, Overlaps
    <3> QED  BY <3>1, <3>2
  <2>2. CASE a # s
    <3>1. pc[a] = "ok"  BY <2>2, <1>1
    <3>2. PastLoad(b)
      <4>1. CASE b = s  BY <4>1, <1>1 DEF PastLoad
      <4>2. CASE b # s  BY <4>2, <1>1 DEF PastLoad
      <4> QED  BY <4>1, <4>2
    <3>3. b \in overlap[a] \/ Escaped(t)  BY <3>1, <3>2 DEF Revocations, Rotators
    <3> QED  BY <3>3, <1>3
  <2> QED  BY <2>1, <2>2
<1>10. Rotated'
  <2>1. call[s].op = "rotate" => "status" \in wrote[s] /\ NewStatus(s) = "revoked"
    BY <1>1 DEF Fits, NewStatus
  <2> QED  BY <2>1, <1>1, <1>r DEF Revocations, Rotated, NewRevoked
<1> QED  BY <1>7, <1>8, <1>9, <1>10 DEF Revocations

LEMMA CommitPins ==
    ASSUME NEW s \in Sessions, Base, Pins, Commit(s)  PROVE  Pins'
<1>1. /\ Fits("commit", wrote[s], call[s].op) /\ issued \subseteq Tokens /\ s \in Tokens
      /\ pc[s] = "commit" /\ s \notin issued
  BY CommitOthers DEF Base, TypeOK
<1>n. NewIssued(s) /\ NewPins(s)  BY CommitFacts
<1>o. /\ \A u \in Sessions : u # s => pc'[u] = pc[u] /\ wrote'[u] = wrote[u] /\ seen'[u] = seen[u]
      /\ pc'[s] = "ok" /\ wrote'[s] = {} /\ call' = call
  BY CommitOthers
<1>2. PinnedChainExists'
  <2> SUFFICES ASSUME NEW k \in issued', pinned'[k]  PROVE chain'
    BY DEF PinnedChainExists
  <2>1. k \in Tokens /\ "unpinned" \notin wrote[s] /\ "chain" \notin wrote[s]
    BY <1>1, <1>n DEF Fits, NewIssued, NewPins
  <2>2. CASE k = s
    <3>1. "token" \in wrote[s] /\ seen[s].pinned  BY <2>2, <1>1, <1>n DEF NewIssued
    <3>2. HoldsParent(s)  BY <3>1 DEF HoldsParent
    <3> QED  BY <2>1, <3>2, <1>n DEF Pins, ParentsHeld, NewPins
  <2>3. CASE k # s /\ k = call[s].token /\ "pinned" \in wrote[s]
    <3>1. call[s].op = "pin"  BY <2>1, <2>3, <1>n DEF NewPins
    <3>2. HoldsParent(s)  BY <3>1, <2>3, <1>1 DEF HoldsParent
    <3> QED  BY <2>1, <3>2, <1>n DEF Pins, ParentsHeld, NewPins
  <2>4. CASE k # s /\ ~(k = call[s].token /\ "pinned" \in wrote[s])
    <3>1. pinned[k] /\ k \in issued  BY <2>1, <2>4, <1>n DEF NewPins, NewIssued
    <3> QED  BY <2>1, <3>1, <1>n DEF Pins, PinnedChainExists, NewPins
  <2> QED  BY <2>2, <2>3, <2>4
<1>3. ASSUME NEW u \in Sessions, HoldsParent(u)'
      PROVE  chain' /\ \A v \in Sessions : "chain" \notin wrote'[v]
  <2>1. u # s  BY <1>3, <1>o DEF HoldsParent
  <2>2. HoldsParent(u)  BY <1>3, <2>1, <1>o DEF HoldsParent
  <2>3. chain /\ \A v \in Sessions : "chain" \notin wrote[v]  BY <2>2 DEF Pins, ParentsHeld
  <2> QED  BY <2>3, <1>n, <1>o DEF NewPins
<1> QED  BY <1>2, <1>3 DEF Pins, ParentsHeld

LEMMA CommitSettings ==
    ASSUME NEW s \in Sessions, Base, Pins, Settings, Commit(s)  PROVE  Settings'
<1>1. /\ \A u \in Sessions : u # s => pc'[u] = pc[u] /\ wrote'[u] = wrote[u] /\ seen'[u] = seen[u]
      /\ pc'[s] = "ok" /\ Open(s) /\ Fits("commit", wrote[s], call[s].op)
      /\ call' = call /\ overlap' = overlap
  BY CommitOthers
<1>2. \A u \in Sessions : Open(u) /\ u # s => s \in overlap[u]
  BY CommitOthers
<1>3. \A u \in Sessions : Open(u) => call[u].token \in Tokens /\ call[u].token # s
  BY CommitOthers
<1>n. NewLimits(s) /\ NewPins(s) /\ chain \in BOOLEAN  BY CommitFacts DEF Base, TypeOK
<1>4. \A u \in Sessions : /\ RacedBy(u, {"limit"})' = RacedBy(u, {"limit"})
                          /\ RacedBy(u, {"pin", "unpin"})' = RacedBy(u, {"pin", "unpin"})
  BY <1>1 DEF RacedBy
<1>5. LimitSeen'
  <2> SUFFICES ASSUME NEW u \in Sessions, call[u].op \in {"rotate", "limit"}, pc'[u] \in LimitRead
               PROVE  seen'[u].limit = limit'[call[u].token] \/ RacedBy(u, {"limit"})
    BY <1>1, <1>4 DEF LimitSeen
  <2>1. u # s /\ Open(u) /\ pc[u] \in LimitRead /\ seen'[u] = seen[u]
    BY <1>1 DEF LimitRead, Ended
  <2>2. CASE call[u].token = call[s].token /\ "limit" \in wrote[s]
    <3>1. s \in overlap[u] /\ call[s].op = "limit"  BY <2>1, <2>2, <1>1, <1>2 DEF Fits
    <3> QED  BY <2>2, <3>1 DEF RacedBy
  <2>3. CASE ~(call[u].token = call[s].token /\ "limit" \in wrote[s])
    <3>1. limit'[call[u].token] = limit[call[u].token]
      BY <2>1, <2>3, <1>3, <1>n DEF NewLimits
    <3> QED  BY <2>1, <3>1 DEF Settings, LimitSeen
  <2> QED  BY <2>2, <2>3
<1>6. LimitSame'  BY <1>1 DEF Settings, LimitSame
<1>7. PinSeen'
  <2> SUFFICES ASSUME NEW u \in Sessions, call[u].op = "rotate", Open(u)', pc'[u] # "load"
               PROVE  \/ seen'[u].pinned = pinned'[call[u].token]
                      \/ RacedBy(u, {"pin", "unpin"})
                      \/ seen'[u].pinned /\ ~chain' /\ "token" \notin wrote'[u]
    BY <1>1, <1>4 DEF PinSeen
  <2>1. u # s /\ Open(u) /\ pc[u] # "load" /\ seen'[u] = seen[u] /\ wrote'[u] = wrote[u]
    BY <1>1 DEF Ended
  <2>2. \/ seen[u].pinned = pinned[call[u].token]
        \/ RacedBy(u, {"pin", "unpin"})
        \/ seen[u].pinned /\ ~chain /\ "token" \notin wrote[u]
    BY <2>1 DEF Settings, PinSeen
  <2>3. call[u].token \in Tokens /\ call[u].token # s /\ seen[u].pinned \in BOOLEAN
    BY <2>1, <1>3 DEF Base, TypeOK, Seen
  <2>4. CASE "unpinned" \in wrote[s]
    <3>1. pinned'[call[u].token] = FALSE /\ "chain" \in wrote[s] /\ ~chain'
      BY <2>3, <2>4, <1>1, <1>n DEF Fits, NewPins
    <3>2. "token" \in wrote[u] => ~seen[u].pinned
      BY <3>1 DEF Pins, ParentsHeld, HoldsParent
    <3> QED  BY <2>1, <2>3, <3>1, <3>2
  <2>5. CASE call[u].token = call[s].token /\ "pinned" \in wrote[s] /\ "unpinned" \notin wrote[s]
    <3>1. s \in overlap[u] /\ call[s].op \in {"pin", "unpin"}  BY <2>1, <2>5, <1>1, <1>2 DEF Fits
    <3> QED  BY <2>5, <3>1 DEF RacedBy
  <2>6. CASE /\ ~(call[u].token = call[s].token /\ "pinned" \in wrote[s])
             /\ "unpinned" \notin wrote[s]
    <3>1. pinned'[call[u].token] = pinned[call[u].token]
      BY <2>3, <2>6, <1>n DEF NewPins
    <3> QED  BY <2>1, <2>2, <3>1, <1>n DEF NewPins
  <2> QED  BY <2>4, <2>5, <2>6
<1> QED  BY <1>5, <1>6, <1>7 DEF Settings

--------------------------------------------------------------------------------
(* The theorems. *)

LEMMA StutterIInv == ASSUME IInv, UNCHANGED vars PROVE IInv'
<1>1. Base'
  BY DEF vars, store, session, IInv, Base, TypeOK, Names, Overlaps, Writers, LimitCalls
<1>2. Revocations'
  BY DEF vars, store, session, IInv, Revocations, RevokedUnlessRaced, WritersRaced, Rotators,
         Rotated, Escaped, Writing, Race, PastLoad
<1>3. Pins'
  BY DEF vars, store, session, IInv, Pins, PinnedChainExists, ParentsHeld, HoldsParent
<1>4. Settings'
  BY DEF vars, store, session, IInv, Settings, LimitSeen, LimitSame, PinSeen, RacedBy
<1> QED  BY <1>1, <1>2, <1>3, <1>4 DEF IInv

(* The inductive invariant holds in every reachable state, for any number  *)
(* of calls, keys, limits and operations.                                  *)
THEOREM Invariance == Spec => []IInv
<1>1. Init => IInv  BY InitBase, InitRest DEF IInv
<1>2. IInv /\ [Next]_vars => IInv'
  <2> SUFFICES ASSUME IInv, [Next]_vars PROVE IInv'
    OBVIOUS
  <2>1. ASSUME NEW s \in Sessions, Ask(s)  PROVE IInv'
    BY <2>1, AskBase, AskRevocations, AskPins, AskSettings DEF IInv
  <2>2. ASSUME NEW s \in Sessions, Commit(s)  PROVE IInv'
    BY <2>2, CommitBase, CommitRevocations, CommitPins, CommitSettings DEF IInv
  <2>3. ASSUME NEW s \in Sessions, Serve(s) \/ DeadlockAbort(s), ~Commit(s)  PROVE IInv'
    <3>1. Move(s)  BY <2>3, StepMoves DEF IInv
    <3> QED  BY <3>1, MoveBase, MoveRevocations, MovePins, MoveSettings DEF IInv
  <2>4. CASE Finish  BY <2>4, StutterIInv DEF Finish
  <2>5. CASE UNCHANGED vars  BY <2>5, StutterIInv
  <2> QED  BY <2>1, <2>2, <2>3, <2>4, <2>5 DEF Next
<1> QED  BY <1>1, <1>2, PTL DEF Spec

(* Every variable has its type. *)
THEOREM TypeCorrect == Spec => []TypeOK
<1>1. IInv => TypeOK  BY DEF IInv, Base
<1> QED  BY <1>1, Invariance, PTL

(* A revoked key stays revoked, except where set_enabled loaded it before  *)
(* the revocation committed.                                               *)
THEOREM RevokedKeysStayRevoked == Spec => []RevokedUnlessRaced
<1>1. IInv => RevokedUnlessRaced  BY DEF IInv, Revocations
<1> QED  BY <1>1, Invariance, PTL

(* Two rotations of one key both succeed only if they overlapped, or the   *)
(* key had escaped its revocation.                                         *)
THEOREM RotatedOnce == Spec => []OneSuccessor
<1>1. IInv => OneSuccessor
  BY DEF IInv, Revocations, Rotators, OneSuccessor, PastLoad
<1> QED  BY <1>1, Invariance, PTL

(* The foreign key and the order of locks keep every pin on a chain that   *)
(* exists.                                                                 *)
THEOREM NoDanglingPin == Spec => []PinnedChainExists
<1>1. IInv => PinnedChainExists  BY DEF IInv, Pins
<1> QED  BY <1>1, Invariance, PTL

(* Only a commit takes a call to "ok". *)
LEMMA OkIsCommit ==
    ASSUME IInv, [Next]_vars, NEW s \in Sessions, pc[s] = "commit", pc'[s] = "ok"
    PROVE  Commit(s)
<1>1. pc \in [Sessions -> PCs]  BY DEF IInv, Base, TypeOK
<1>2. ASSUME NEW u \in Sessions, Ask(u)  PROVE FALSE
  BY <1>1, <1>2 DEF Ask, Goto
<1>3. ASSUME NEW u \in Sessions, Serve(u) \/ DeadlockAbort(u), ~Commit(u)  PROVE FALSE
  <2>1. Move(u)  BY <1>3, StepMoves DEF IInv
  <2> QED  BY <1>1, <2>1 DEF Move, Moves, OwnMove
<1>4. ASSUME NEW u \in Sessions, Commit(u)  PROVE u = s
  BY <1>1, <1>4 DEF Commit, Goto
<1>5. ~UNCHANGED vars  BY DEF vars
<1> QED  BY <1>2, <1>3, <1>4, <1>5 DEF Next, Finish

(* What rotate_token hands over: the old key is revoked, the new one       *)
(* verifies with its limit and chain, unless they were changed meanwhile.  *)
THEOREM RotationIsFaithful == Spec => RotationKeepsSettings
<1> DEFINE Kept(s) ==
      (pc[s] = "commit" /\ pc'[s] = "ok" /\ Op(s) = "rotate") =>
            /\ status'[Token(s)] = "revoked" /\ Verifies(s)'
            /\ limit'[s] = limit[Token(s)] \/ RacedBy(s, {"limit"})
            /\ pinned'[s] = pinned[Token(s)] \/ RacedBy(s, {"pin", "unpin"})
<1>1. IInv /\ [Next]_vars => [\A s \in Sessions : Kept(s)]_vars
  <2> SUFFICES ASSUME IInv, [Next]_vars, NEW s \in Sessions,
                      pc[s] = "commit", pc'[s] = "ok", call[s].op = "rotate"
               PROVE  /\ status'[call[s].token] = "revoked" /\ Verifies(s)'
                      /\ limit'[s] = limit[call[s].token] \/ RacedBy(s, {"limit"})
                      /\ pinned'[s] = pinned[call[s].token] \/ RacedBy(s, {"pin", "unpin"})
    OBVIOUS
  <2>1. Commit(s) /\ Base  BY OkIsCommit DEF IInv
  <2>2. "token" \in wrote[s] /\ "status" \in wrote[s]
    BY <2>1, CommitOthers DEF Fits
  <2>3. status'[call[s].token] = "revoked"
    <3>1. call[s].token \in Tokens /\ call[s].token # s
      BY <2>1, CommitOthers
    <3> QED  BY <2>1, <2>2, <3>1, CommitFacts DEF NewStatuses, NewStatus
  <2>4. /\ s \in issued' /\ status'[s] = "active"
        /\ limit'[s] = seen[s].limit /\ pinned'[s] = seen[s].pinned
    BY <2>1, <2>2, CommitFacts DEF NewIssued
  <2>5. Open(s)  BY DEF Ended
  <2>6. seen[s].limit = limit[call[s].token] \/ RacedBy(s, {"limit"})
    BY DEF IInv, Settings, LimitSeen, LimitRead
  <2>7. seen[s].pinned = pinned[call[s].token] \/ RacedBy(s, {"pin", "unpin"})
    BY <2>2, <2>5 DEF IInv, Settings, PinSeen
  <2> QED  BY <2>3, <2>4, <2>6, <2>7 DEF Verifies
<1> QED  BY <1>1, Invariance, PTL DEF Spec, RotationKeepsSettings

(* What _upsert_limit commits is the limit that was asked for, although    *)
(* only the columns that differ are written, unless two calls overlap.     *)
THEOREM LimitIsReplacedWhole == Spec => LimitReplaced
<1> DEFINE Whole(s) ==
      (pc[s] = "commit" /\ pc'[s] = "ok" /\ Op(s) = "limit") =>
            limit'[Token(s)] = call[s].limit \/ RacedBy(s, {"limit"})
<1>1. IInv /\ [Next]_vars => [\A s \in Sessions : Whole(s)]_vars
  <2> SUFFICES ASSUME IInv, [Next]_vars, NEW s \in Sessions,
                      pc[s] = "commit", pc'[s] = "ok", call[s].op = "limit",
                      ~RacedBy(s, {"limit"})
               PROVE  limit'[call[s].token] = call[s].limit
    OBVIOUS
  <2>1. Commit(s) /\ Base  BY OkIsCommit DEF IInv
  <2>2. call[s].token \in Tokens /\ call[s].token # s /\ call[s].limit \in Limits
    BY <2>1, CommitOthers DEF Base, LimitCalls
  <2>3. seen[s].limit = limit[call[s].token]
    BY DEF IInv, Settings, LimitSeen, LimitRead
  <2>4. CASE "limit" \notin wrote[s]
    <3>1. seen[s].limit = call[s].limit  BY <2>4 DEF IInv, Settings, LimitSame
    <3> QED  BY <2>1, <2>2, <2>3, <2>4, <3>1, CommitFacts DEF NewLimits
  <2>5. CASE "limit" \in wrote[s]
    <3>1. limit'[call[s].token] = Merge(limit[call[s].token], s)
      BY <2>1, <2>2, <2>5, CommitFacts DEF NewLimits
    <3>2. Merge(seen[s].limit, s) = call[s].limit
      BY <2>2 DEF Merge, Limits
    <3> QED  BY <2>3, <3>1, <3>2
  <2> QED  BY <2>4, <2>5
<1> QED  BY <1>1, Invariance, PTL DEF Spec, LimitReplaced
================================================================================
