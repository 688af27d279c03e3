------------------------------ MODULE MCStreaming ------------------------------
(* One conversation with every kind of content, over routes that start with *)
(* each adapter, fall back to two of them and renew each subscription,      *)
(* under each fallback policy.                                              *)
EXTENDS Streaming

Part(kind, id) == [kind |-> kind, id |-> id]
Message(role, parts, uses, answers) ==
    [role |-> role, parts |-> parts, calls |-> uses, answers |-> answers]
Conversation ==
    <<Message("system", <<Part("text", "s1")>>, <<>>, "none"),
      Message("user", <<Part("text", "u1"), Part("image", "u2"), Part("text", "u3")>>, <<>>, "none"),
      Message("assistant", <<Part("text", "a1")>>, <<"c1", "c2">>, "none"),
      Message("tool", <<Part("text", "t1")>>, <<>>, "c1"),
      Message("tool", <<Part("text", "t2")>>, <<>>, "c2"),
      Message("developer", <<Part("text", "s2")>>, <<>>, "none"),
      Message("user", <<Part("text", "u4")>>, <<>>, "none")>>

MCWords == {"s1", "u1", "u2", "u3", "a1", "c1", "c2", "t1", "t2", "s2", "u4", "none"}

To(adapter, policy, kind) == [adapter |-> adapter, policy |-> policy, kind |-> kind]
Asked(stream, targets) ==
    [messages |-> Conversation, limit |-> "unset", choice |-> "auto",
     targets |-> targets, stream |-> stream]
MCScenarios ==
    {Asked(TRUE, <<To("anthropic", "auth_or_retryable", "api_key"),
                   To("compat", "any_error", "api_key")>>),
     Asked(TRUE, <<To("codex", "any_error", "subscription")>>),
     Asked(FALSE, <<To("codex", "retryable", "subscription"),
                    To("anthropic", "retryable", "api_key")>>),
     Asked(FALSE, <<To("compat", "auth_or_retryable", "api_key"),
                    To("anthropic", "any_error", "subscription")>>)}

Block(kind, size) == [kind |-> kind, size |-> size]
Answer(blocks, stop, metered) == [blocks |-> blocks, stop |-> stop, metered |-> metered]
MCReplies ==
    {Answer(<<Block("reasoning", 1), Block("text", 2)>>, "max_tokens", TRUE),
     Answer(<<Block("text", 1), Block("tool", 2)>>, "tool_use", TRUE),
     Answer(<<Block("tool", 1), Block("tool", 1)>>, "tool_use", FALSE),
     Answer(<<Block("text", 1)>>, "failed", TRUE)}
================================================================================
