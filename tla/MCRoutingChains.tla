---------------------------- MODULE MCRoutingChains ----------------------------
(* Lists that clear the chain or fill one lane, which two calls can mix. *)
EXTENDS RoutingChains, TLC

MCLists    == {<<>>, <<"chat">>, <<"embeddings", "embeddings">>}
MCUnit     == {<<"chat">>, <<"embeddings">>}
================================================================================
