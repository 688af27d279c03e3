------------------------------- MODULE Streaming -------------------------------
(***************************************************************************)
(* One chat completion, from the targets routing has chosen to the answer  *)
(* and its metering: acquire a credential, translate the request, call the *)
(* provider, retry, renew a rejected subscription once, fall back to the   *)
(* next target, read the provider's server-sent events out of arbitrarily  *)
(* cut byte chunks, translate them, and record what was used.              *)
(*                                                                         *)
(* The wire of a stream is a row of pieces, seven for each event: a        *)
(* comment line and its blank line (the keep-alives), a data line in two   *)
(* halves and its blank line.  Positions got and read are how much of it   *)
(* has arrived and how much of it the parser has taken out of its buffer;  *)
(* torn are the events in which a chunk ended inside a character.          *)
(***************************************************************************)
EXTENDS Translation, FiniteSets

CONSTANTS
    Words,          \* names of what a conversation holds: parts, tool calls
    Scenarios,      \* what is asked, of whom, streamed or not
    Replies,        \* what providers may answer
    ChunkSizes,     \* pieces a network chunk may hold
    MaxAttempts,    \* GOZAR_UPSTREAM_MAX_ATTEMPTS
    BackoffBase,    \* GOZAR_UPSTREAM_BACKOFF_BASE_SECONDS ...
    BackoffMax,     \* ... _MAX_SECONDS; delays count halves of their unit
    MaxTorn         \* a bound: events of one reply that chunks may alter

Policies == {"any_error", "auth_or_retryable", "retryable"}
Target   == [adapter : Adapters, policy : Policies, kind : {"subscription", "api_key"}]
Stops    == {"stop", "max_tokens", "tool_use", "failed"}
Reply    == [blocks : Seq([kind : BlockKinds, size : Nat]), stop : Stops, metered : BOOLEAN]

(* What a client may send: any role is accepted, with any parts and calls.  *)
ChatMessage == [role    : STRING,
                parts   : Seq([kind : {"text", "image"}, id : Words]),
                calls   : Seq(Words),
                answers : Words]

ASSUME ScenariosAssumption ==
    \A s \in Scenarios :
        s.targets \in Seq(Target) \ {<<>>} /\ s.stream \in BOOLEAN /\ s.messages \in Seq(ChatMessage)
ASSUME RepliesAssumption ==
    \A r \in Replies : r \in Reply
ASSUME ChunksAssumption   == ChunkSizes \subseteq Nat \ {0}
ASSUME AttemptsAssumption == MaxAttempts \in Nat \ {0}
ASSUME BackoffAssumption  == BackoffBase \in Nat /\ BackoffMax \in Nat
ASSUME TornAssumption     == MaxTorn \in Nat

VARIABLES
    scenario,               \* the request and its route
    target, renewed,        \* position in the route; its credential was renewed
    pc,
    tries, delay,           \* attempts of this upstream call, its delay before the next
    calls,                  \* HTTP requests made, over all targets
    sent,                   \* the body of the last of them
    reply,                  \* what its provider answers
    got, read, eof,         \* the wire: arrived, parsed, closed
    torn,                   \* events whose text has been altered in decoding
    data,                   \* data lines of the event being read
    chunks,                 \* what each event so far became for the client
    items,                  \* output items of a Codex stream being aggregated
    usage,                  \* the usage reported so far
    answer,                 \* the whole answer, when it is not streamed
    recorded,               \* what record_usage was given, and counted in Redis
    stored                  \* the usage event the database has committed

route   == <<scenario, target, renewed>>
attempt == <<tries, delay, calls, sent>>
metering == <<recorded, stored>>
wire    == <<reply, got, read, eof, torn, data>>
result  == <<chunks, items, usage, answer, metering>>
vars    == <<route, pc, attempt, wire, result>>

Ended == {"success", "failed",     \* answered; every allowed target failed
          "broken",                \* the stream broke off: the client is told
          "untyped",               \* an error that is not a GozarError
          "gone"}                  \* the client left
PCs   == {"acquire", "call", "wait", "body", "renew", "account"} \cup Ended

Current  == scenario.targets[target]
Adapter  == Current.adapter
Streamed == scenario.stream
Piped    == Streamed \/ Adapter = "codex"       \* Codex only serves events
Events   == StreamEvents(Adapter, calls, reply)

NoReply == [blocks |-> <<>>, stop |-> "stop", metered |-> FALSE]

Init ==
    /\ scenario \in Scenarios
    /\ target = 1 /\ renewed = FALSE /\ pc = "acquire"
    /\ tries = 0 /\ delay = 0 /\ calls = 0 /\ sent = Nothing
    /\ reply = NoReply /\ got = 0 /\ read = 0 /\ eof = FALSE /\ torn = {} /\ data = <<>>
    /\ chunks = <<>> /\ items = <<>> /\ usage = NoUsage
    /\ answer = Nothing /\ recorded = Nothing /\ stored = Nothing

--------------------------------------------------------------------------------
(* What a target's failure leads to.  "retryable" is an UpstreamError       *)
(* without a status or with 429 or 5xx; "reauth" a credential that needs    *)
(* its operator.                                                            *)

Errors     == {"retryable", "unauthorized", "forbidden", "reauth", "other"}
AuthErrors == {"unauthorized", "forbidden", "reauth"}

Allows(policy, error) ==
    \/ policy = "any_error"
    \/ error = "retryable"
    \/ policy = "auth_or_retryable" /\ error \in AuthErrors

(* Defect variant: the failed target is not checked to be the last. *)
NextTargetAnyway(error) ==
    /\ IF Allows(Current.policy, error)
       THEN target' = target + 1 /\ renewed' = FALSE /\ pc' = "acquire"
       ELSE pc' = "failed" /\ UNCHANGED <<target, renewed>>
    /\ UNCHANGED <<scenario, attempt, wire, result>>

TargetFails(error) ==
    /\ IF Allows(Current.policy, error) /\ target < Len(scenario.targets)
       THEN target' = target + 1 /\ renewed' = FALSE /\ pc' = "acquire"
       ELSE pc' = "failed" /\ UNCHANGED <<target, renewed>>
    /\ UNCHANGED <<scenario, attempt, wire, result>>

(* A rejected subscription is renewed once, and its target asked again.     *)
CallFails(error) ==
    IF error = "unauthorized" /\ Current.kind = "subscription" /\ ~renewed
    THEN pc' = "renew" /\ UNCHANGED <<route, attempt, wire, result>>
    ELSE TargetFails(error)

(* An error that is not a GozarError ends the request where it is raised.   *)
RaisesUntyped ==
    /\ pc' = "untyped"
    /\ UNCHANGED <<route, attempt, wire, result>>

(* The credential is found usable and the request translated, or not.  Both *)
(* it and a renewal may refresh: the Redis lock and the token endpoint's    *)
(* JSON raise errors of their own.                                          *)
Acquire ==
    /\ pc = "acquire"
    /\ \/ /\ sent' = ToProvider(Adapter, scenario)
          /\ tries' = 0 /\ delay' = 0
          /\ items' = <<>>
          /\ pc' = "call"
          /\ UNCHANGED <<route, calls, wire, chunks, usage, answer, metering>>
       \/ \E error \in {"reauth", "other"} : TargetFails(error)
       \/ RaisesUntyped

Renew ==
    /\ pc = "renew"
    /\ \/ /\ renewed' = TRUE /\ pc' = "acquire"
          /\ UNCHANGED <<scenario, target, attempt, wire, result>>
       \/ \E error \in {"unauthorized", "reauth"} : TargetFails(error)
       \/ RaisesUntyped

--------------------------------------------------------------------------------
(* The wire, and the lines of it that the parser's buffer holds.            *)

Frame   == <<"comment", "newline", "newline", "head", "tail", "newline", "newline">>
Pieces  == 7
Kind(k) == Frame[((k - 1) % Pieces) + 1]
Of(k)   == ((k - 1) \div Pieces) + 1
Garbled == 0                              \* no JSON: half of an event

Total      == Pieces * Len(Events)
LineEnds   == {k \in (read + 1)..got : Kind(k) = "newline"}
LineEnd(k) == k \in LineEnds /\ \A j \in LineEnds : k <= j
Starving   == pc = "body" /\ ~eof /\ LineEnds = {}

--------------------------------------------------------------------------------
(* UpstreamClient: request and stream.                                      *)

Exponential(n) == BackoffBase * 2^(n - 1)
Uncapped(n) == Exponential(n)             \* defect variant: no cap
Capped(n) ==
    IF BackoffMax > 0 /\ BackoffMax < Exponential(n) THEN BackoffMax ELSE Exponential(n)

Send ==
    /\ pc = "call"
    /\ tries' = tries + 1 /\ calls' = calls + 1 /\ delay' = 0
    /\ pc' = "wait"
    /\ reply' = NoReply /\ got' = 0 /\ read' = 0 /\ eof' = FALSE /\ torn' = {} /\ data' = <<>>
    /\ UNCHANGED <<route, sent, result>>

(* The delay has a floor of one half and a random other half.               *)
Again ==
    /\ delay' \in Capped(tries)..(2 * Capped(tries))
    /\ pc' = "call"
    /\ UNCHANGED <<route, tries, calls, sent, wire, result>>

(* Defect variant: attempts are counted from zero. *)
AgainOnceMore == IF tries <= MaxAttempts THEN Again ELSE CallFails("retryable")

AgainOrFail == IF tries < MaxAttempts THEN Again ELSE CallFails("retryable")

(* A timeout or a broken connection; a 429 or 5xx.                          *)
Unanswered == pc = "wait" /\ AgainOrFail

(* Any other status is final.                                               *)
Refused ==
    /\ pc = "wait"
    /\ \E error \in {"unauthorized", "forbidden", "other"} : CallFails(error)

(* httpx.RemoteProtocolError, the peer closing early, is no GozarError.     *)
ProtocolFails ==
    /\ pc = "wait" \/ Starving
    /\ RaisesUntyped

(* A response that is not piped is read whole.                              *)
Answered ==
    /\ pc = "wait"
    /\ \E r \in Replies :
        /\ reply' = r
        /\ IF Piped
           THEN pc' = "body" /\ UNCHANGED <<answer, usage>>
           ELSE /\ r.stop # "failed"
                /\ answer' = FromResponse(Adapter, Response(calls, r))
                /\ usage' = Response(calls, r).usage
                /\ pc' = "account"
    /\ UNCHANGED <<route, attempt, got, read, eof, torn, data, chunks, items, metering>>

--------------------------------------------------------------------------------
(* iter_sse_data over the bytes of UpstreamClient.stream.                   *)

(* The value of the data line between two positions, if it is one.          *)
Value(first, last) ==
    IF Kind(first) # "head" THEN <<>>
    ELSE IF Kind(last) = "tail" THEN <<Of(first)>> ELSE <<Garbled>>

(* A chunk may end inside a character of a data line. *)
Arrive ==
    /\ Starving
    /\ \E n \in ChunkSizes : got + n <= Total /\ got' = got + n
    /\ \/ torn' = torn
       \/ /\ Kind(got') = "head" /\ HasText(Events[Of(got')])
          /\ Cardinality(torn) < MaxTorn
          /\ torn' = torn \cup {Of(got')}
    /\ UNCHANGED <<route, pc, attempt, reply, read, eof, data, result>>

(* The connection is closed, here or at the end: a trailing line still      *)
(* counts.                                                                  *)
Eof ==
    /\ Starving
    /\ eof' = TRUE
    /\ read' = got
    /\ data' = data \o (IF read < got THEN Value(read + 1, got) ELSE <<>>)
    /\ UNCHANGED <<route, pc, attempt, reply, got, torn, result>>

(* Defect variant: a stream that broke off is asked for again. *)
BodyFailsAgain ==
    /\ Starving
    /\ IF tries < MaxAttempts THEN Again
       ELSE IF Streamed /\ got > 0
       THEN pc' = "broken" /\ UNCHANGED <<route, attempt, wire, result>>
       ELSE AgainOrFail

(* A transport error is retried only while no byte was passed on.  After    *)
(* that the client of a stream sees it break off.                           *)
BodyFails ==
    /\ Starving
    /\ IF got = 0 THEN AgainOrFail
       ELSE IF Streamed
       THEN pc' = "broken" /\ UNCHANGED <<route, attempt, wire, result>>
       ELSE CallFails("retryable")

(* A line, or a blank line that ends nothing.                               *)
Line ==
    /\ pc = "body"
    /\ \E k \in LineEnds :
        /\ LineEnd(k)
        /\ k > read + 1 \/ data = <<>>
        /\ read' = k
        /\ data' = IF k > read + 1 THEN data \o Value(read + 1, k - 1) ELSE data
    /\ UNCHANGED <<route, pc, attempt, reply, got, eof, torn, result>>

(* The blank line that ends an event; at the end of the wire, the flush.    *)
Dispatched ==
    /\ pc = "body" /\ data # <<>>
    /\ eof \/ LineEnd(read + 1)
    /\ data' = <<>>
    /\ read' = IF eof THEN read ELSE read + 1
    /\ UNCHANGED <<route, attempt, reply, got, eof, torn>>

IsEvent == Len(data) = 1 /\ data[1] # Garbled
Decoded(events, i) == IF i \in torn THEN Torn(events[i]) ELSE events[i]
Read == Decoded(Events, data[1])

Skip ==
    /\ Dispatched /\ ~IsEvent
    /\ UNCHANGED <<pc, result>>

(* Defect variant: the stream is over at its finish_reason. *)
ForwardUntilFinish ==
    /\ Dispatched /\ IsEvent /\ Streamed /\ Read.type # "[DONE]"
    /\ IsChunk(Adapter, Read)
    /\ LET chunk == FromEvent(Adapter, Read)
       IN  /\ chunks' = Append(chunks, chunk)
           /\ usage' = IF chunk.usage = NoUsage THEN usage ELSE chunk.usage
           /\ pc' = IF chunk.finish = "none" THEN "body" ELSE "account"
    /\ UNCHANGED <<items, answer, metering>>

(* Streamed: each event is translated; the upstream's [DONE] ends it.       *)
Forward ==
    /\ Dispatched /\ IsEvent /\ Streamed /\ Read.type # "[DONE]"
    /\ IsChunk(Adapter, Read)
    /\ LET chunk == FromEvent(Adapter, Read)
       IN  /\ chunks' = Append(chunks, chunk)
           /\ usage' = IF chunk.usage = NoUsage THEN usage ELSE chunk.usage
    /\ UNCHANGED <<pc, items, answer, metering>>

Invalid ==
    /\ Dispatched /\ IsEvent /\ Streamed /\ Read.type # "[DONE]"
    /\ ~IsChunk(Adapter, Read)
    /\ pc' = "untyped"
    /\ UNCHANGED result

Done ==
    /\ Dispatched /\ IsEvent /\ Streamed /\ Read.type = "[DONE]"
    /\ pc' = "account"
    /\ UNCHANGED result

(* Not streamed: the items of a Codex stream are collected until the        *)
(* response completes or fails.                                             *)
Aggregate ==
    /\ Dispatched /\ IsEvent /\ ~Streamed
    /\ Read.type # "failed"
    /\ items' = IF Read.type = "output_item.done" THEN Append(items, Read.body) ELSE items
    /\ IF Read.type = "completed"
       THEN /\ answer' = FromResponse(Adapter, [Read.body EXCEPT !.content = items])
            /\ usage' = Read.body.usage
            /\ pc' = "account"
       ELSE UNCHANGED <<answer, usage, pc>>
    /\ UNCHANGED <<chunks, metering>>

ReportsFailure ==
    /\ pc = "body" /\ data # <<>> /\ (eof \/ LineEnd(read + 1))
    /\ IsEvent /\ ~Streamed /\ Read.type = "failed"
    /\ CallFails("retryable")

(* Defect variant: only the upstream's [DONE] ends a stream. *)
EndNever ==
    /\ pc = "body" /\ eof /\ data = <<>> /\ ~Streamed
    /\ CallFails("retryable")

End ==
    /\ pc = "body" /\ eof /\ data = <<>>
    /\ IF Streamed
       THEN pc' = "account" /\ UNCHANGED <<route, attempt, wire, result>>
       ELSE CallFails("retryable")

(* The client of a stream leaves: the generator is closed where it is.      *)
Disconnect ==
    /\ Streamed
    /\ pc = "account" \/ (pc = "body" /\ got > 0)
    /\ pc' = "gone"
    /\ UNCHANGED <<route, attempt, wire, result>>

(* record_usage; without a report the event says that metering is missing.  *)
(* A stream's response is iterated after its request's session has been     *)
(* committed and closed: the event it adds is never committed.              *)
Account ==
    /\ pc = "account"
    /\ recorded' = usage
    /\ stored' = IF Streamed THEN stored ELSE usage
    /\ pc' = "success"
    /\ UNCHANGED <<route, attempt, wire, chunks, items, usage, answer>>

Over == pc \in Ended /\ UNCHANGED vars

Next ==
    \/ Acquire \/ Renew \/ Send \/ Unanswered \/ Refused \/ ProtocolFails \/ Answered
    \/ Arrive \/ Eof \/ BodyFails \/ Line \/ Skip \/ Forward \/ Invalid \/ Done
    \/ Aggregate \/ ReportsFailure \/ End \/ Disconnect \/ Account \/ Over

Spec     == Init /\ [][Next]_vars
(* A call that is not answered times out; everything else is local.         *)
FairSpec == Spec /\ WF_vars(Next)

--------------------------------------------------------------------------------
TypeOK ==
    /\ scenario \in Scenarios
    /\ target \in DOMAIN scenario.targets
    /\ renewed \in BOOLEAN /\ eof \in BOOLEAN
    /\ pc \in PCs
    /\ tries \in 0..MaxAttempts
    /\ delay \in Nat /\ calls \in Nat /\ got \in Nat
    /\ read \in 0..got /\ torn \subseteq Nat
    /\ data \in Seq(Nat)
    /\ reply \in Replies \cup {NoReply}

(* Whatever the chunk boundaries and the retries, what a client is sent is  *)
(* the events of one HTTP request, in order, each once, from the first on.  *)
(* A stream that has passed on a byte is never asked for again.  A boundary *)
(* inside a character alters the text of the event it falls in (see         *)
(* Reassembled), and nothing else.                                          *)
FromOneCall ==
    LET events == Events
    IN  chunks = [i \in 1..Len(chunks) |-> FromEvent(Adapter, Decoded(events, i))]

(* The provider has not cut its stream short. *)
Uncut == eof => got = Total

(* A whole answer is the reply of one call, none of its items taken from an *)
(* attempt that broke off, and a stream read to its end adds up to the      *)
(* answer the same reply would have been whole, as long as no chunk ended   *)
(* inside a character.  A streamed Codex reply of several tool calls is     *)
(* left out, and its finish_reason: its calls all have index 0, and it says *)
(* "stop" or, when it reached its token limit, nothing.                     *)
AnswerIsReply ==
    LET whole == FromResponse(Adapter, Response(calls, reply))
        parts == Assembled(chunks)
    IN  torn = {} =>
        /\ pc = "success" /\ ~Streamed => answer = whole
        /\ pc = "success" /\ Streamed /\ Uncut /\ reply.stop # "failed" =>
               IF Adapter # "codex" THEN parts = whole
               ELSE /\ parts.text = whole.text
                    /\ Len(whole.calls) <= 1 => parts.calls = whole.calls

(* Nothing is recorded that the one answering call has not reported, no     *)
(* attempt before it, and what is reported is recorded: all of it when the  *)
(* answer was whole, and then it is also committed.  Of a stream read to    *)
(* its end all of it too, except that an Anthropic stream may lose the      *)
(* prompt (see ReportRecorded) and that a failed or, with Codex, incomplete *)
(* one may lose the rest.                                                   *)
Metered ==
    LET reported == Response(calls, reply).usage
        complete == /\ Uncut /\ reply.stop # "failed"
                    /\ Adapter = "codex" => reply.stop # "max_tokens"
    IN  pc = "success" =>
            /\ recorded = NoUsage \/ recorded.call = calls
            /\ recorded.prompt => reported.prompt
            /\ recorded.completion => reported.completion
            /\ ~Streamed => recorded = reported /\ stored = reported
            /\ Streamed /\ complete =>
                  /\ recorded.completion = reported.completion
                  /\ Adapter # "anthropic" => recorded = reported

(* No target is asked more often than its attempts and one renewal allow,   *)
(* and no delay exceeds the cap (as a random half of it is added, twice in  *)
(* its unit), however often it has doubled.                                 *)
RetriesBounded ==
    /\ calls <= 2 * MaxAttempts * target
    /\ BackoffMax > 0 => delay <= 2 * BackoffMax

(* What a message says that an adapter has a place for.                     *)
As(kind, ids) == [i \in DOMAIN ids |-> <<kind, ids[i]>>]
Said(message) ==
    {<<"part", message.parts[i].id>> : i \in {j \in DOMAIN message.parts :
                                     message.parts[j].kind = "text" \/ Adapter # "codex"}}
    \cup ToSet(As("call", message.calls))
    \cup (IF message.role = "tool" THEN {<<"answers", message.answers>>} ELSE {})

Output(id) == <<<<"answers", id[1]>>>> \o As("part", id[2])

(* What a turn of the provider's request says, in order.                    *)
Heard(turn) ==
    CASE Adapter = "anthropic" ->
             FlattenSeq([i \in DOMAIN turn.blocks |->
                 LET block == turn.blocks[i]
                 IN  CASE block.kind = "tool_result" -> Output(block.id)
                       [] block.kind = "tool_use"    -> <<<<"call", block.id>>>>
                       [] OTHER                      -> <<<<"part", block.id>>>>])
      [] Adapter = "codex" ->
             CASE turn.kind = "message"       -> As("part", turn.id)
               [] turn.kind = "function_call" -> <<<<"call", turn.id>>>>
               [] OTHER                       -> Output(turn.id)
      [] Adapter = "compat" ->
             [i \in DOMAIN turn.parts |-> <<"part", turn.parts[i].id>>]
             \o As("call", turn.calls)
             \o (IF turn.role = "tool" THEN <<<<"answers", turn.answers>>>> ELSE <<>>)

(* A conversation as OpenAI's API has it: only assistants call tools, whose *)
(* results are text; every part and call has a name of its own, and no call *)
(* has two results.                                                         *)
WellFormed(messages) ==
    /\ \A i \in DOMAIN messages :
          /\ messages[i].role # "assistant" => messages[i].calls = <<>>
          /\ messages[i].role = "tool" => \A p \in DOMAIN messages[i].parts : IsText(messages[i].parts[p])
    /\ \A i, j \in DOMAIN messages :
          /\ \A p \in DOMAIN messages[i].parts, q \in DOMAIN messages[j].parts :
                messages[i].parts[p].id = messages[j].parts[q].id => i = j /\ p = q
          /\ \A p \in DOMAIN messages[i].calls, q \in DOMAIN messages[j].calls :
                messages[i].calls[p] = messages[j].calls[q] => i = j /\ p = q
          /\ messages[i].role = "tool" /\ messages[j].role = "tool"
             /\ messages[i].answers = messages[j].answers => i = j

(* The messages that are to reach the provider as turns of the conversation. *)
Owed == IF Adapter = "compat" THEN scenario.messages ELSE Selected(scenario.messages, IsTurn)

(* Whatever its provider, a well-formed conversation reaches it whole:      *)
(* every text, image, tool call and tool result once, in the order of the   *)
(* messages and in a turn of the same speaker, with the token limit that    *)
(* Anthropic requires.  Instructions are turns for a compatible provider.   *)
ConversationKept ==
    pc = "wait" /\ WellFormed(scenario.messages) =>
        LET heard    == FlattenSeq([t \in DOMAIN sent.turns |->
                            LET said == Heard(sent.turns[t])
                            IN  [i \in DOMAIN said |-> <<said[i], sent.turns[t].role>>]])
            owner(i) == CHOOSE m \in DOMAIN Owed : heard[i][1] \in Said(Owed[m])
        IN  /\ {heard[i][1] : i \in DOMAIN heard} = UNION {Said(Owed[m]) : m \in DOMAIN Owed}
            /\ \A i, j \in DOMAIN heard :
                   i < j => heard[i][1] # heard[j][1] /\ owner(i) <= owner(j)
            /\ \A i \in DOMAIN heard :
                   heard[i][2] = "assistant" <=> Owed[owner(i)].role = "assistant"
            /\ Adapter = "anthropic" => sent.limit # "unset"

(* Every request ends, however its providers answer.                        *)
EveryRequestEnds == <>(pc \in Ended)

--------------------------------------------------------------------------------
(* What is said of a stream that ends as a success and was not cut short.   *)

(* "An event split across two network chunks is reassembled correctly."     *)
Reassembled == chunks = [i \in 1..Len(chunks) |-> FromEvent(Adapter, Events[i])]

(* It "records the usage reported on the stream".                           *)
Reports(fact) ==
    \E i \in 1..Len(chunks) :
        "usage" \in DOMAIN Events[i].body /\ Events[i].body.usage[fact]
ReportRecorded ==
    \A fact \in {"prompt", "completion"} : Reports(fact) => recorded[fact]

(* Streams are "metered and traced just like non-streaming ones": what is   *)
(* recorded is committed.                                                   *)
StoredLikeWhole == stored = recorded

(* "A mid-stream failure finalizes the trace as a failed outcome": also one *)
(* that the provider reports in the stream.                                 *)
FailureTold == reply.stop # "failed"

(* Expected to fail: of such a stream at least one of the four holds.  One  *)
(* stream refutes them all.                                                 *)
SomePromiseKept ==
    pc = "success" /\ Streamed /\ Uncut =>
        Reassembled \/ ReportRecorded \/ StoredLikeWhole \/ FailureTold
================================================================================
