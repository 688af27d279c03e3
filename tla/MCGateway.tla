------------------------------- MODULE MCGateway -------------------------------
(* Two handlers, a chain of two accounts in which the first falls back on   *)
(* authorization and transient errors only, and a limit on the token and on *)
(* the second account.                                                      *)
EXTENDS Gateway, TLC

CONSTANTS h1, h2, a1, a2, token

MCHandlers == {h1, h2}
MCKinds    == {<<"chat", TRUE>>, <<"stream", FALSE>>}
MCAccounts == {a1, a2}
MCChain    == <<a1, a2>>
MCPolicy   == <<"auth_or_retryable", "any_error">>
MCLimits   == token :> 1 @@ a2 :> 1
MCSymmetry == Permutations(MCHandlers)
================================================================================
