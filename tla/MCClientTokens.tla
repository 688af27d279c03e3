----------------------------- MODULE MCClientTokens -----------------------------
(* One call deletes the chain while two others work on the keys: the fewest *)
(* in which waits can form a cycle.                                         *)
EXTENDS ClientTokens, TLC

CONSTANTS a, b, c

MCSpecs == {[metric |-> "request_count", amount |-> 1],
            [metric |-> "request_count", amount |-> 2],
            [metric |-> "token_count", amount |-> 1]}
MCSessions == {a, b, c}
MCOps == a :> {"revoke", "rotate", "limit", "pin", "create", "drop"} @@
         b :> {"enable", "disable", "rotate", "limit", "pin", "unpin"} @@
         c :> {"drop"}
MCRace == a :> {"enable", "disable"} @@ b :> {"revoke"} @@ c :> {"drop"}
================================================================================
