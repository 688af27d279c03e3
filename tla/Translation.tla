------------------------------ MODULE Translation ------------------------------
(***************************************************************************)
(* The format adapters, as functions: what an OpenAI chat request becomes  *)
(* at the Anthropic Messages API, at the Codex Responses API and at an     *)
(* OpenAI-compatible provider, what the answer and each event of a stream  *)
(* become on the way back, and what a client makes of the chunks.          *)
(*                                                                         *)
(* Text, arguments and identifiers are opaque.  A fragment of a reply is   *)
(* <<call, block, position>>: it tells which upstream call produced it.    *)
(***************************************************************************)
EXTENDS Naturals, SequencesExt

(* SelectSeq, put together with FlattenSeq: proofs can unfold the latter.   *)
Selected(s, Test(_)) ==
    FlattenSeq([i \in DOMAIN s |-> IF Test(s[i]) THEN <<s[i]>> ELSE <<>>])

Adapters    == {"anthropic", "codex", "compat"}
SystemRoles == {"system", "developer"}
Nothing     == [type |-> "nothing"]

--------------------------------------------------------------------------------
(* Requests.  A message is [role, parts, calls, answers]: its content parts *)
(* (text or image), the tool calls an assistant made, and the call that a   *)
(* tool message answers.                                                    *)

IsText(part)      == part.kind = "text"
IsSystem(message) == message.role \in SystemRoles
IsTurn(message)   == message.role \notin SystemRoles

TextOf(message) ==
    LET texts == Selected(message.parts, IsText)
    IN  [i \in DOMAIN texts |-> texts[i].id]

(* System and developer messages are hoisted out and joined. *)
SystemText(messages) ==
    LET system == Selected(messages, IsSystem)
    IN  FlattenSeq([i \in DOMAIN system |-> TextOf(system[i])])

ContentBlocks(message) ==
    [i \in DOMAIN message.parts |-> [kind |-> message.parts[i].kind, id |-> message.parts[i].id]]

ToolUses(message) ==
    [i \in DOMAIN message.calls |-> [kind |-> "tool_use", id |-> message.calls[i]]]

ToolResult(message) ==
    <<[kind |-> "tool_result", id |-> <<message.answers, TextOf(message)>>]>>

(* Defect variant: the blocks of an assistant turn are replaced by its calls. *)
CallsOrBlocks(message) ==
    [role   |-> IF message.role = "assistant" THEN "assistant" ELSE "user",
     blocks |-> IF message.role = "tool" THEN ToolResult(message)
                ELSE IF message.calls # <<>> THEN ToolUses(message)
                ELSE ContentBlocks(message)]

AnthropicTurn(message) ==
    [role   |-> IF message.role = "assistant" THEN "assistant" ELSE "user",
     blocks |-> IF message.role = "tool" THEN ToolResult(message)
                ELSE ContentBlocks(message) \o
                     (IF message.role = "assistant" THEN ToolUses(message) ELSE <<>>)]

(* What a client says of tools: it leaves the choice open or forbids,       *)
(* demands or names a call.                                                 *)
AnthropicChoice(choice) ==
    CASE choice = "required" -> "any"
      [] choice = "named"    -> "tool"
      [] choice = "auto"     -> "auto"
      [] OTHER               -> "unset"

AnthropicRequest(request) ==
    LET turns == Selected(request.messages, IsTurn)
    IN  [adapter |-> "anthropic",
         system  |-> SystemText(request.messages),
         turns   |-> [i \in DOMAIN turns |-> AnthropicTurn(turns[i])],
         limit   |-> IF request.limit = "unset" THEN "default" ELSE request.limit,
         choice  |-> AnthropicChoice(request.choice)]

(* An assistant's calls come before its text; images have no place in the   *)
(* Responses text shape.                                                    *)
CodexItems(message) ==
    LET text  == <<[role |-> message.role, kind |-> "message", id |-> TextOf(message)]>>
        calls == [i \in DOMAIN message.calls |->
                    [role |-> "assistant", kind |-> "function_call", id |-> message.calls[i]]]
    IN  CASE message.role = "assistant" ->
                 calls \o (IF TextOf(message) = <<>> THEN <<>> ELSE text)
          [] message.role = "tool" ->
                 <<[role |-> "tool", kind |-> "function_call_output",
                    id |-> <<message.answers, TextOf(message)>>]>>
          [] OTHER -> text

CodexRequest(request) ==
    LET turns == Selected(request.messages, IsTurn)
    IN  [adapter |-> "codex",
         system  |-> SystemText(request.messages),
         turns   |-> FlattenSeq([i \in DOMAIN turns |-> CodexItems(turns[i])]),
         limit   |-> request.limit,
         choice  |-> request.choice]

(* A compatible provider is sent the conversation as it came. *)
CompatRequest(request) ==
    [adapter |-> "compat",
     system  |-> <<>>,
     turns   |-> request.messages,
     limit   |-> request.limit,
     choice  |-> request.choice]

ToProvider(adapter, request) ==
    CASE adapter = "anthropic" -> AnthropicRequest(request)
      [] adapter = "codex"     -> CodexRequest(request)
      [] adapter = "compat"    -> CompatRequest(request)

--------------------------------------------------------------------------------
(* Answers.  A provider's response is [content, stop, usage]: blocks of     *)
(* text, tool calls or reasoning, why it stopped, what it metered.          *)

NoUsage == [call |-> 0, prompt |-> FALSE, completion |-> FALSE]

OfKind(blocks, kind) == Selected(blocks, LAMBDA b : b.kind = kind)

AnthropicFinish(stop) ==
    CASE stop = "max_tokens" -> "length"
      [] stop = "tool_use"   -> "tool_calls"
      [] OTHER               -> "stop"

CodexFinish(response) ==
    CASE response.stop = "max_tokens"                  -> "length"
      [] response.stop # "max_tokens"
         /\ OfKind(response.content, "tool") # <<>>    -> "tool_calls"
      [] OTHER                                         -> "stop"

(* Text is joined, tool calls keep their order, reasoning is dropped. *)
MessageOf(response, finish) ==
    LET texts == OfKind(response.content, "text")
        tools == OfKind(response.content, "tool")
    IN  [text   |-> FlattenSeq([i \in DOMAIN texts |-> texts[i].frags]),
         calls  |-> [i \in DOMAIN tools |-> [ids |-> <<tools[i].id>>, args |-> tools[i].frags]],
         finish |-> finish]

(* OpenAI providers say why they stopped in the words Anthropic's map to. *)
FromResponse(adapter, response) ==
    MessageOf(response, IF adapter = "codex" THEN CodexFinish(response)
                        ELSE AnthropicFinish(response.stop))

--------------------------------------------------------------------------------
(* Stream events. *)

Delta(kind, index, what) ==
    [delta |-> kind, index |-> index, what |-> what, finish |-> "none", usage |-> NoUsage]
NoChunk == Delta("dropped", 0, <<>>)
Final(finish, usage) ==
    [delta |-> "none", index |-> 0, what |-> <<>>, finish |-> finish, usage |-> usage]

(* Defect variant: the start of a tool call carries no client-facing content. *)
AnthropicChunkSansStart(event) ==
    CASE event.type = "message_start" -> Delta("role", 0, <<>>)
      [] event.type = "content_block_delta" /\ event.kind = "text" -> Delta("text", 0, event.what)
      [] event.type = "content_block_delta" /\ event.kind = "tool" ->
             Delta("args", event.index, event.what)
      [] event.type = "message_delta" -> Final(AnthropicFinish(event.body.stop), event.body.usage)
      [] OTHER -> NoChunk

(* A message_delta reports the completion; the prompt was reported by the   *)
(* message_start, whose usage is not read.                                  *)
AnthropicChunk(event) ==
    CASE event.type = "message_start" -> Delta("role", 0, <<>>)
      [] event.type = "content_block_delta" /\ event.kind = "text" -> Delta("text", 0, event.what)
      [] event.type = "content_block_delta" /\ event.kind = "tool" ->
             Delta("args", event.index, event.what)
      [] event.type = "content_block_start" /\ event.kind = "tool" ->
             Delta("call", event.index, event.what)
      [] event.type = "message_delta" -> Final(AnthropicFinish(event.body.stop), event.body.usage)
      [] OTHER -> NoChunk

(* Every tool call has index 0, every completed response finishes "stop",   *)
(* and a failed or incomplete response is an event without content.         *)
CodexChunk(event) ==
    CASE event.type = "output_text.delta" -> Delta("text", 0, event.what)
      [] event.type = "output_item.added" /\ event.kind = "tool" -> Delta("call", 0, event.what)
      [] event.type = "function_call_arguments.delta" -> Delta("args", 0, event.what)
      [] event.type = "completed" -> Final("stop", event.body.usage)
      [] OTHER -> NoChunk

(* What is no chunk, a provider's error object, fails its validation.       *)
CompatChunk(event) == event.body
IsChunk(adapter, event) == adapter = "compat" => event.type = "chunk"

FromEvent(adapter, event) ==
    CASE adapter = "anthropic" -> AnthropicChunk(event)
      [] adapter = "codex"     -> CodexChunk(event)
      [] adapter = "compat"    -> CompatChunk(event)

--------------------------------------------------------------------------------
(* The providers.  A reply is [blocks, stop, metered]: for each block its   *)
(* kind and number of fragments; a reply that stops as "failed" breaks off  *)
(* with the provider's own error event.                                     *)

Response(call, reply) ==
    [content |-> [b \in DOMAIN reply.blocks |->
                    [kind  |-> reply.blocks[b].kind,
                     id    |-> <<call, b>>,
                     frags |-> [i \in 1..reply.blocks[b].size |-> <<call, b, i>>]]],
     stop    |-> reply.stop,
     usage   |-> IF reply.metered
                 THEN [call |-> call, prompt |-> TRUE, completion |-> TRUE] ELSE NoUsage]

Event(type, block, index, what, body) ==
    [type |-> type, kind |-> block, index |-> index, what |-> what, body |-> body]
Lifecycle(type, body) == Event(type, "none", 0, <<>>, body)
BlockKinds == {"text", "tool", "reasoning"}

(* The events of each block: its start, its fragments, its end. *)
BlockEvents(response, start, delta, stop) ==
    FlattenSeq([b \in DOMAIN response.content |->
        LET block == response.content[b]
        IN  <<Event(start, block.kind, b, block.id, Nothing)>>
            \o [i \in DOMAIN block.frags |->
                  Event(delta[block.kind], block.kind, b, block.frags[i], Nothing)]
            \o <<Event(stop, block.kind, b, block.id, block)>>])

(* The prompt is reported at the start, the completion at the end. *)
AnthropicEvents(call, reply) ==
    LET response == Response(call, reply)
        delta == [kind \in BlockKinds |-> "content_block_delta"]
    IN  <<Lifecycle("message_start", [usage |-> [response.usage EXCEPT !.completion = FALSE]])>>
        \o BlockEvents(response, "content_block_start", delta, "content_block_stop")
        \o (IF reply.stop = "failed" THEN <<Lifecycle("error", Nothing)>>
            ELSE <<Lifecycle("message_delta",
                             [stop  |-> reply.stop,
                              usage |-> [response.usage EXCEPT !.prompt = FALSE]]),
                   Lifecycle("message_stop", Nothing)>>)

(* The last event's own output is empty.  A response that reached its token *)
(* limit is not completed but incomplete.                                   *)
CodexEvents(call, reply) ==
    LET response == Response(call, reply)
        delta == [text      |-> "output_text.delta",
                  tool      |-> "function_call_arguments.delta",
                  reasoning |-> "reasoning_summary_text.delta"]
    IN  <<Lifecycle("created", Nothing)>>
        \o BlockEvents(response, "output_item.added", delta, "output_item.done")
        \o <<CASE reply.stop = "failed"     -> Lifecycle("failed", Nothing)
               [] reply.stop = "max_tokens" ->
                      Lifecycle("incomplete", [response EXCEPT !.content = <<>>])
               [] OTHER -> Lifecycle("completed", [response EXCEPT !.content = <<>>])>>

CompatEvents(call, reply) ==
    LET response == Response(call, reply)
        index(b) == Cardinality({i \in 1..b : response.content[i].kind = "tool"})
        chunk(b, block, i) ==
            CASE block.kind = "text" -> Delta("text", 0, block.frags[i])
              [] block.kind = "tool" -> Delta("args", index(b), block.frags[i])
              [] OTHER               -> NoChunk
        chunks == FlattenSeq([b \in DOMAIN response.content |->
            LET block == response.content[b]
            IN  (IF block.kind = "tool" THEN <<Delta("call", index(b), block.id)>> ELSE <<>>)
                \o [i \in DOMAIN block.frags |-> chunk(b, block, i)]])
        all == <<Delta("role", 0, <<>>)>> \o chunks
               \o (IF reply.stop = "failed" THEN <<>>
                   ELSE <<Final(AnthropicFinish(reply.stop), NoUsage),
                          Final("none", response.usage)>>)
        last == IF reply.stop = "failed" THEN "error" ELSE "[DONE]"
    IN  [i \in DOMAIN all |-> Lifecycle("chunk", all[i])] \o <<Lifecycle(last, Nothing)>>

StreamEvents(adapter, call, reply) ==
    CASE adapter = "anthropic" -> AnthropicEvents(call, reply)
      [] adapter = "codex"     -> CodexEvents(call, reply)
      [] adapter = "compat"    -> CompatEvents(call, reply)

--------------------------------------------------------------------------------
(* A network chunk is decoded on its own, whatever is malformed in it        *)
(* replaced: one that ends inside a character alters the text it cuts.      *)

DeltaTypes == {"content_block_delta", "output_text.delta", "function_call_arguments.delta",
               "reasoning_summary_text.delta"}
HasText(event) ==
    \/ event.type \in DeltaTypes
    \/ event.type = "output_item.done" /\ event.body.frags # <<>>
    \/ event.type = "chunk" /\ event.body.delta \in {"text", "args"}

Replaced(frag) == <<"replaced", frag>>
Torn(event) ==
    CASE event.type = "output_item.done" ->
             [event EXCEPT !.body.frags = [i \in DOMAIN @ |-> Replaced(@[i])]]
      [] event.type = "chunk" -> [event EXCEPT !.body.what = Replaced(@)]
      [] OTHER                -> [event EXCEPT !.what = Replaced(@)]

--------------------------------------------------------------------------------
(* The client puts the chunks together: text is appended, fragments of tool *)
(* calls are merged by index, which no provider counts beyond the chunks;   *)
(* the last finish_reason stands.                                           *)

Whats(chunks) == [i \in DOMAIN chunks |-> chunks[i].what]

Assembled(chunks) ==
    LET of(kind, index) ==
            Whats(Selected(chunks, LAMBDA c : c.delta = kind /\ c.index = index))
        used     == {chunks[i].index : i \in {j \in DOMAIN chunks : chunks[j].delta \in {"call", "args"}}}
        indexes  == Selected([i \in 1..(Len(chunks) + 1) |-> i - 1], LAMBDA i : i \in used)
        finishes == Selected(chunks, LAMBDA c : c.finish # "none")
    IN  [text   |-> of("text", 0),
         calls  |-> [k \in DOMAIN indexes |->
                       [ids |-> of("call", indexes[k]), args |-> of("args", indexes[k])]],
         finish |-> IF finishes = <<>> THEN "none" ELSE Last(finishes).finish]
================================================================================
