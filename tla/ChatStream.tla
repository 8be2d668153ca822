----------------------------- MODULE ChatStream -----------------------------
(***************************************************************************)
(* The language model providers and their callers: Chat encodes a          *)
(* conversation, a reader goroutine turns the lines of the response into   *)
(* events on a bounded channel, and the caller collects the events.        *)
(*                                                                         *)
(* An answer of the model is a sequence of blocks, each a text or a tool   *)
(* call whose text or arguments come in numbered fragments.  What the      *)
(* server sends is chosen from Answers; between server and reader a line   *)
(* can be garbled, the stream can end early, and the connection can break. *)
(* Time (Retry-After, back-off) is left out: a wait ends or is cancelled.  *)
(***************************************************************************)
EXTENDS Integers, Sequences, SequencesExt, FiniteSets

CONSTANTS
  Providers,      \* of "anthropic", "openai" (also ollama), "gemini"
  Callers,        \* of "turn", "subturn", "summary", "check"
  Answers,        \* the answers the model may give: sequences of blocks
  Buffer,         \* capacity of the event channel (64)
  LLMMaxRetries,  \* extra requests after a retryable status
  LLMMaxErrors,   \* failed calls or streams a turn survives
  MaxRounds       \* answers of one conversation (cap of the model)

ASSUME StreamAssumption ==
  /\ Providers \subseteq {"anthropic", "openai", "gemini"}
  /\ Callers \subseteq {"turn", "subturn", "summary", "check"}
  /\ Answers \subseteq Seq([call : BOOLEAN, name : STRING, frags : Nat])
  /\ {Buffer, MaxRounds} \subseteq Nat \ {0}
  /\ {LLMMaxRetries, LLMMaxErrors} \subseteq Nat

VARIABLES
  provider, caller,  \* the configured provider and who calls it
  cancelled,         \* the context of the call is done
  pc,                \* the caller: "chat", "recv", "ok", "failed"
  tries, errors,     \* attempt of chatWithRetry; llmErrors of the loop
  hist,              \* the conversation the next request carries
  answer, sent, tail,\* what the server sends: answer, lines per block, end lines
  damage,            \* what happened to the response on its way
  rd,                \* the reader: "off", "reading", "closing", "closed"
  tools, index,      \* its toolStates and callIndex
  pending, queue,    \* events it has yet to send; the channel
  text, calls, streamErr  \* what the caller collected of this response

vars == <<provider, caller, cancelled, pc, tries, errors, hist, answer, sent,
          tail, damage, rd, tools, index, pending, queue, text, calls, streamErr>>

response == <<answer, sent, tail, damage>>
reader == <<rd, tools, index, pending>>
collected == <<text, calls, streamErr>>

\* Only runAgenticLoop asks for a stream.
Streaming == caller = "turn"

\* The loops of turns and subturns retry; the others call the provider once.
Loops == caller \in {"turn", "subturn"}

-----------------------------------------------------------------------------
(* Requests: the conversation in the form of each provider's API.          *)

User == [role |-> "user", calls |-> <<>>, results |-> <<>>]
Assistant(cs) == [role |-> "assistant", results |-> <<>>,
                  calls |-> [i \in DOMAIN cs |-> [id |-> cs[i].id, name |-> cs[i].name]]]
Results(cs) == [role |-> "user", calls |-> <<>>,
                results |-> [i \in DOMAIN cs |-> cs[i].id]]

convertToAnthropicMessage(m) ==
  IF m.role = "assistant" /\ m.calls # <<>>
  THEN << [type |-> "tool_use", ids |-> [i \in DOMAIN m.calls |-> m.calls[i].id]] >>
  ELSE IF m.results # <<>>
       THEN << [type |-> "tool_result", ids |-> m.results] >>
       ELSE << [type |-> "text", ids |-> <<>>] >>

\* One message per tool result.
convertToOpenAIMessages(m) ==
  IF m.role = "assistant" /\ m.calls # <<>>
  THEN << [type |-> "tool_use", ids |-> [i \in DOMAIN m.calls |-> m.calls[i].id]] >>
  ELSE IF m.results # <<>>
       THEN [i \in DOMAIN m.results |->
               [type |-> "tool_result", ids |-> <<m.results[i]>>]]
       ELSE << [type |-> "text", ids |-> <<>>] >>

\* toolCallNames: the name a call ID had last, among the messages up to n.
ToolCallNames(h, n) ==
  LET all == FlattenSeq([i \in 1..n |-> h[i].calls])
  IN  [id \in {all[i].id : i \in DOMAIN all} |->
         all[CHOOSE i \in DOMAIN all :
               /\ all[i].id = id
               /\ \A j \in DOMAIN all : all[j].id = id => j <= i].name]

\* Mutant of convertToGeminiContent: responses go by the ID of the call.
convertToGeminiContent_byID(m, toolCallNames) ==
  IF m.role = "assistant" /\ m.calls # <<>>
  THEN << [type |-> "tool_use", ids |-> [i \in DOMAIN m.calls |-> m.calls[i].name]] >>
  ELSE IF m.results # <<>>
       THEN << [type |-> "tool_result", ids |-> m.results] >>
       ELSE << [type |-> "text", ids |-> <<>>] >>

\* Gemini has no IDs: calls and responses go by the function's name.
convertToGeminiContent(m, toolCallNames) ==
  IF m.role = "assistant" /\ m.calls # <<>>
  THEN << [type |-> "tool_use", ids |-> [i \in DOMAIN m.calls |-> m.calls[i].name]] >>
  ELSE IF m.results # <<>>
       THEN << [type |-> "tool_result",
                ids |-> [i \in DOMAIN m.results |->
                           IF m.results[i] \in DOMAIN toolCallNames
                           THEN toolCallNames[m.results[i]]
                           ELSE m.results[i]]] >>
       ELSE << [type |-> "text", ids |-> <<>>] >>

AnthropicRequest(h) == FlattenSeq([i \in DOMAIN h |-> convertToAnthropicMessage(h[i])])

OpenAIRequest(h) == FlattenSeq([i \in DOMAIN h |-> convertToOpenAIMessages(h[i])])

\* The names are collected on the way, message by message.
GeminiRequest(h) ==
  FlattenSeq([i \in DOMAIN h |-> convertToGeminiContent(h[i], ToolCallNames(h, i))])

Request(h) ==
  CASE provider = "anthropic" -> AnthropicRequest(h)
    [] provider = "openai" -> OpenAIRequest(h)
    [] provider = "gemini" -> GeminiRequest(h)

-----------------------------------------------------------------------------
(* The response on the wire.                                               *)

\* Lines that carry block b, for the API of the provider.
LinesOf(b) ==
  LET n == answer[b].frags IN
  CASE provider = "anthropic" -> n + 2             \* start, deltas, stop
    [] provider = "openai"    -> IF answer[b].call THEN n + 1 ELSE n
    [] provider = "gemini"    -> IF answer[b].call THEN 1 ELSE n

AllSent == \A b \in DOMAIN answer : sent[b] = LinesOf(b)

\* OpenAI may interleave the deltas of its calls, told apart by their index.
MaySend(b) ==
  /\ sent[b] < LinesOf(b)
  /\ \A c \in 1..(b - 1) :
       sent[c] = LinesOf(c) \/ (provider = "openai" /\ (answer[b].call \/ answer[c].call))

\* Lines after the blocks: OpenAI's finish_reason and [DONE], Anthropic's message_stop.
EndLines == CASE provider = "openai" -> 2 [] provider = "anthropic" -> 1
              [] provider = "gemini" -> 0

Token(b, k) == [type |-> "token", block |-> b, frags |-> <<k>>, id |-> <<>>, name |-> ""]
Call(b, id, name, frags) ==
  [type |-> "call", block |-> b, frags |-> frags, id |-> id, name |-> name]
Done == [type |-> "done", block |-> 0, frags |-> <<>>, id |-> <<>>, name |-> ""]
Error == [type |-> "error", block |-> 0, frags |-> <<>>, id |-> <<>>, name |-> ""]

\* The ID the server gave the call of block b; no two answers share one.
ServerID(b) == <<"id", Len(hist), errors, b>>

Frags(n) == [k \in 1..n |-> k]

-----------------------------------------------------------------------------
(* readStream: what each reader does with the k-th line of block b.        *)

SendEvents(evs) == pending' = pending \o evs

NoTool == [id |-> <<>>, name |-> "", frags |-> <<>>]

WithTool(b, tool) == [c \in DOMAIN tools \union {b} |-> IF c = b THEN tool ELSE tools[c]]

AnthropicLine(b, k) ==
  LET n == answer[b].frags IN
  CASE k = 1 ->                                   \* content_block_start
         /\ tools' = IF answer[b].call
                     THEN WithTool(b, [id |-> ServerID(b), name |-> answer[b].name,
                                       frags |-> <<>>])
                     ELSE tools
         /\ SendEvents(<<>>)
    [] k \in 2..(n + 1) ->                        \* content_block_delta
         IF answer[b].call
         THEN /\ tools' = IF b \in DOMAIN tools
                          THEN [tools EXCEPT ![b].frags = Append(@, k - 1)]
                          ELSE tools
              /\ SendEvents(<<>>)
         ELSE SendEvents(<<Token(b, k - 1)>>) /\ UNCHANGED tools
    [] k = n + 2 ->                               \* content_block_stop
         IF b \in DOMAIN tools
         THEN /\ SendEvents(<<Call(b, tools[b].id, tools[b].name, tools[b].frags)>>)
              /\ tools' = [c \in DOMAIN tools \ {b} |-> tools[c]]
         ELSE SendEvents(<<>>) /\ UNCHANGED tools

\* The state of an index is made by the first line read of it, the only one
\* of the server's lines that carries ID and name.
OpenAILine(b, k) ==
  IF answer[b].call
  THEN LET old == IF b \in DOMAIN tools THEN tools[b]
                  ELSE IF k = 1 THEN [id |-> ServerID(b), name |-> answer[b].name,
                                      frags |-> <<>>]
                  ELSE NoTool
       IN  /\ tools' = WithTool(b, [old EXCEPT !.frags = IF k = 1 THEN @
                                                         ELSE Append(@, k - 1)])
           /\ SendEvents(<<>>)
  ELSE SendEvents(<<Token(b, k)>>) /\ UNCHANGED tools

\* A function call comes whole; its ID is made from its name and a counter.
GeminiLine(b, k) ==
  /\ IF answer[b].call
     THEN /\ index' = index + 1
          /\ SendEvents(<<Call(b, <<answer[b].name, index + 1>>, answer[b].name,
                               Frags(answer[b].frags))>>)
     ELSE SendEvents(<<Token(b, k)>>) /\ UNCHANGED index
  /\ UNCHANGED tools

\* scanner.Scan returned a line and the context is not done.
Scanning == rd = "reading" /\ Streaming /\ pending = <<>> /\ ~cancelled

ReadLine ==
  /\ Scanning
  /\ \E b \in DOMAIN answer :
       /\ MaySend(b)
       /\ sent' = [sent EXCEPT ![b] = @ + 1]
       /\ \/ provider = "anthropic" /\ AnthropicLine(b, sent[b] + 1) /\ UNCHANGED index
          \/ provider = "openai" /\ OpenAILine(b, sent[b] + 1) /\ UNCHANGED index
          \/ provider = "gemini" /\ GeminiLine(b, sent[b] + 1)
  /\ UNCHANGED <<provider, caller, cancelled, pc, tries, errors, hist, answer, tail,
                 damage, rd, queue, text, calls, streamErr>>

\* A line that is not the JSON the reader expects is skipped.
SkipLine ==
  /\ Scanning
  /\ damage' = damage \union {"garbled"}
  /\ \/ /\ \E b \in DOMAIN answer : MaySend(b) /\ sent' = [sent EXCEPT ![b] = @ + 1]
        /\ UNCHANGED tail
     \/ AllSent /\ tail < EndLines /\ tail' = tail + 1 /\ UNCHANGED sent
  /\ UNCHANGED <<provider, caller, cancelled, pc, tries, errors, hist, answer, reader,
                 queue, collected>>

\* finish_reason: every tool state becomes a call, in the order of a map.
EmitToolStates ==
  \E order \in SetToSeqs(DOMAIN tools) :
    SendEvents([i \in DOMAIN order |->
      Call(order[i], tools[order[i]].id, tools[order[i]].name, tools[order[i]].frags)])

ReadEndLine ==
  /\ Scanning /\ AllSent /\ tail < EndLines
  /\ tail' = tail + 1
  /\ \/ provider = "openai" /\ tail = 0 /\ EmitToolStates /\ UNCHANGED rd
     \/ provider = "openai" /\ tail = 1 /\ SendEvents(<<Done>>) /\ rd' = "closing"
     \/ provider = "anthropic" /\ SendEvents(<<Done>>) /\ rd' = "closing"
  /\ UNCHANGED <<provider, caller, cancelled, pc, tries, errors, hist, answer, sent,
                 damage, tools, index, queue, collected>>

\* Mutant of EndOfBody: OpenAI's reader sends the calls it has so far.
EndOfBody_flushes(readErr) ==
  /\ IF provider = "openai" THEN EmitToolStates
     ELSE SendEvents(IF provider = "gemini" THEN <<Done>>
                     ELSE IF readErr THEN <<Error>> ELSE <<>>)
  /\ rd' = "closing"

\* The end of the body: Anthropic's reader reports only a read error, the
\* other two report Done whatever happened.
EndOfBody(readErr) ==
  /\ SendEvents(IF provider = "anthropic"
                THEN IF readErr THEN <<Error>> ELSE <<>>
                ELSE <<Done>>)
  /\ rd' = "closing"

\* The server ends the body, early or after its last line.
ReadEOF ==
  /\ Scanning
  /\ EndOfBody(FALSE)
  /\ damage' = damage \union (IF AllSent /\ tail = EndLines THEN {} ELSE {"short"})
  /\ UNCHANGED <<provider, caller, cancelled, pc, tries, errors, hist, answer, sent,
                 tail, tools, index, queue, collected>>

\* The connection breaks, or the cancelled context closes the body.
ReadBroken ==
  /\ rd = "reading" /\ Streaming /\ pending = <<>>
  /\ EndOfBody(TRUE)
  /\ damage' = damage \union {"broken"}
  /\ UNCHANGED <<provider, caller, cancelled, pc, tries, errors, hist, answer, sent,
                 tail, tools, index, queue, collected>>

\* A line arrives after the context is done.
ReadCancelled ==
  /\ rd = "reading" /\ Streaming /\ pending = <<>> /\ cancelled
  /\ SendEvents(<<Error>>)
  /\ rd' = "closing"
  /\ UNCHANGED <<provider, caller, cancelled, pc, tries, errors, hist, response,
                 tools, index, queue, collected>>

\* The ID of a call in a whole body: Gemini's are made up, as in a stream.
FullCallID(b) ==
  IF provider = "gemini"
  THEN <<answer[b].name, Cardinality({c \in 1..b : answer[c].call})>>
  ELSE ServerID(b)

\* The events of a whole body, as readFull sends them.
FullEvents ==
  FlattenSeq([b \in DOMAIN answer |->
    IF answer[b].call
    THEN << Call(b, FullCallID(b), answer[b].name, Frags(answer[b].frags)) >>
    ELSE [k \in 1..answer[b].frags |-> Token(b, k)]])

\* readFull decodes the whole body or reports an error.
ReadFull ==
  /\ rd = "reading" /\ ~Streaming
  /\ \/ ~cancelled /\ SendEvents(FullEvents \o <<Done>>) /\ UNCHANGED damage
     \/ SendEvents(<<Error>>) /\ damage' = damage \union {"broken"}
  /\ rd' = "closing"
  /\ UNCHANGED <<provider, caller, cancelled, pc, tries, errors, hist, answer, sent,
                 tail, tools, index, queue, collected>>

\* ch <- event: waits while the channel is full.
Emit ==
  /\ pending # <<>> /\ Len(queue) < Buffer
  /\ queue' = Append(queue, Head(pending))
  /\ pending' = Tail(pending)
  /\ UNCHANGED <<provider, caller, cancelled, pc, tries, errors, hist, response, rd,
                 tools, index, collected>>

\* Mutant of Close: readFull returns without closing the channel.
Close_streamOnly ==
  /\ rd = "closing" /\ pending = <<>> /\ Streaming
  /\ rd' = "closed"
  /\ UNCHANGED <<provider, caller, cancelled, pc, tries, errors, hist, response,
                 tools, index, pending, queue, collected>>

\* defer close(ch)
Close ==
  /\ rd = "closing" /\ pending = <<>>
  /\ rd' = "closed"
  /\ UNCHANGED <<provider, caller, cancelled, pc, tries, errors, hist, response,
                 tools, index, pending, queue, collected>>

-----------------------------------------------------------------------------
(* The callers.                                                            *)

\* Mutant of NoText: the text of a failed attempt stays in the builder.
NoText_kept == UNCHANGED text

\* The loop goes on: what it collected, the response and its reader are
\* those of one iteration.
NoText == text' = <<>>

NextIteration ==
  /\ pc' = "chat"
  /\ answer' = <<>> /\ sent' = <<>> /\ tail' = 0 /\ damage' = {}
  /\ rd' = "off" /\ tools' = << >> /\ index' = 0 /\ pending' = <<>>
  /\ NoText /\ calls' = <<>> /\ streamErr' = FALSE

\* The call or stream failed: a loop tries again up to LLMMaxErrors times.
FailedCall ==
  /\ errors' = errors + 1
  /\ tries' = 0
  /\ IF Loops /\ errors < LLMMaxErrors
     THEN NextIteration
     ELSE pc' = "failed" /\ UNCHANGED <<response, reader, collected>>

\* doLLMRequest succeeds: dispatchResponse starts the reader on a new channel.
ChatOK ==
  /\ pc = "chat" /\ ~cancelled
  /\ \E a \in Answers :
       /\ answer' = a
       /\ sent' = [b \in DOMAIN a |-> 0]
  /\ rd' = "reading"
  /\ pc' = "recv"
  /\ tries' = 0
  /\ UNCHANGED <<provider, caller, cancelled, errors, hist, tail, damage, tools, index,
                 pending, queue, collected>>

\* Status 429, 503 or 529: chatWithRetry waits and asks again, unless the
\* context is done meanwhile or this was the last attempt.
ChatRetryable ==
  /\ pc = "chat" /\ ~cancelled
  /\ IF Loops /\ tries < LLMMaxRetries
     THEN tries' = tries + 1 /\ UNCHANGED <<pc, errors, response, reader, collected>>
     ELSE FailedCall
  /\ UNCHANGED <<provider, caller, cancelled, hist, queue>>

\* Any other status, no connection, or a done context (also during the wait).
ChatError ==
  /\ pc = "chat"
  /\ FailedCall
  /\ UNCHANGED <<provider, caller, cancelled, hist, queue>>

\* for ev := range events
Receive ==
  /\ pc = "recv" /\ queue # <<>>
  /\ LET ev == Head(queue) IN
     /\ queue' = Tail(queue)
     /\ text' = IF ev.type = "token" THEN Append(text, <<ev.block, ev.frags[1]>>) ELSE text
     /\ calls' = IF ev.type = "call" /\ Loops THEN Append(calls, ev) ELSE calls
     /\ streamErr' = (streamErr \/ ev.type = "error")
     \* providerLLMChecker.Check and compaction return at the error event
     /\ pc' = IF ev.type = "error" /\ ~Loops THEN "failed" ELSE pc
  /\ UNCHANGED <<provider, caller, cancelled, tries, errors, hist, response, reader>>

Drained == pc = "recv" /\ queue = <<>> /\ rd = "closed"

\* The channel was closed and the stream had an error.
StreamFailed ==
  /\ Drained /\ streamErr
  /\ FailedCall
  /\ UNCHANGED <<provider, caller, cancelled, hist, queue>>

\* An answer without calls ends the turn, the subturn, the summary, the check.
AnswerText ==
  /\ Drained /\ ~streamErr /\ calls = <<>>
  /\ pc' = "ok"
  /\ errors' = 0 /\ tries' = 0
  /\ UNCHANGED <<provider, caller, cancelled, hist, response, reader, queue, collected>>

\* Arguments that lost a fragment need not be JSON, and then a turn cannot
\* persist the call (marshalToolCalls fails).
Holes(c) == c.frags # Frags(answer[c.block].frags)

MarshalFails ==
  /\ Drained /\ ~streamErr /\ caller = "turn"
  /\ \E i \in DOMAIN calls : Holes(calls[i])
  /\ pc' = "failed"
  /\ errors' = 0
  /\ UNCHANGED <<provider, caller, cancelled, tries, hist, response, reader, queue,
                 collected>>

\* The calls and, once they ran, their results go into the next request.
RunTools ==
  /\ Drained /\ ~streamErr /\ calls # <<>>
  /\ hist' = hist \o <<Assistant(calls), Results(calls)>>
  /\ IF Len(hist) < 2 * MaxRounds - 1
     THEN NextIteration
     ELSE pc' = "ok" /\ UNCHANGED <<response, reader, collected>>
  /\ errors' = 0 /\ tries' = 0
  /\ UNCHANGED <<provider, caller, cancelled, queue>>

CancelCtx ==
  /\ ~cancelled /\ pc \in {"chat", "recv"}
  /\ cancelled' = TRUE
  /\ UNCHANGED <<provider, caller, pc, tries, errors, hist, response, reader, queue,
                 collected>>

-----------------------------------------------------------------------------
Init ==
  /\ provider \in Providers /\ caller \in Callers
  /\ cancelled = FALSE /\ pc = "chat" /\ tries = 0 /\ errors = 0
  /\ hist = <<User>>
  /\ answer = <<>> /\ sent = <<>> /\ tail = 0 /\ damage = {}
  /\ rd = "off" /\ tools = << >> /\ index = 0 /\ pending = <<>> /\ queue = <<>>
  /\ text = <<>> /\ calls = <<>> /\ streamErr = FALSE

Reader ==
  \/ ReadLine \/ SkipLine \/ ReadEndLine \/ ReadEOF \/ ReadBroken \/ ReadCancelled
  \/ ReadFull \/ Emit \/ Close

Caller ==
  \/ ChatOK \/ ChatRetryable \/ ChatError \/ Receive \/ StreamFailed \/ AnswerText
  \/ MarshalFails \/ RunTools

Next == Reader \/ Caller \/ CancelCtx

\* The goroutines run, and the server sends a line or ends the body: the
\* HTTP client has no timeout, so without this a silent server stops the turn.
Spec == Init /\ [][Next]_vars /\ WF_vars(Reader) /\ WF_vars(Caller)

-----------------------------------------------------------------------------
(* Properties.                                                             *)

EventsInFlight == Range(calls) \union Range(queue) \union Range(pending)

\* A tool call that leaves a reader is one of the model's calls with all of
\* its arguments, and no two calls of an answer have one ID, wherever the
\* stream was cut and however the deltas of several calls were interleaved;
\* only a garbled line can damage a call.
CallsIntact ==
  "garbled" \notin damage =>
    LET cs == {e \in EventsInFlight : e.type = "call"} IN
    /\ \A c \in cs : ~Holes(c) /\ answer[c.block].call /\ c.name = answer[c.block].name
    /\ \A c, d \in cs : c.id = d.id => c = d

AllText == FlattenSeq([b \in DOMAIN answer |->
             IF answer[b].call THEN <<>> ELSE [k \in 1..answer[b].frags |-> <<b, k>>]])

AllCalls == FlattenSeq([b \in DOMAIN answer |-> IF answer[b].call THEN <<b>> ELSE <<>>])

\* The caller has the text and each call once, in the order of the answer
\* (OpenAI's stream reader walks a map).
Whole ==
  LET got == [i \in DOMAIN calls |-> calls[i].block] IN
  /\ text = AllText
  /\ Loops => IF provider = "openai" /\ Streaming
              THEN Range(got) = Range(AllCalls) /\ Len(got) = Len(AllCalls)
              ELSE got = AllCalls

\* What can happen to a response without its reader reporting an error.
Unnoticed ==
  CASE ~Streaming -> {}
    [] Streaming /\ provider = "anthropic" -> {"garbled", "short"}
    [] OTHER -> {"garbled", "short", "broken"}

\* A response the caller accepts is the whole answer of the last attempt,
\* unless the stream was damaged in one of the ways its reader does not
\* report; even then what it has is of this answer, in order and once, and
\* nothing of an attempt that failed before.
AnswerAccounted ==
  Drained /\ ~streamErr =>
    /\ Whole \/ damage \intersect Unnoticed # {}
    /\ \A i \in DOMAIN text : text[i] \in Range(AllText)
    /\ \A i, j \in DOMAIN text : i < j =>
         \/ text[i][1] < text[j][1]
         \/ text[i][1] = text[j][1] /\ text[i][2] < text[j][2]
    /\ \A i, j \in DOMAIN calls : calls[i].block = calls[j].block => i = j

\* In every request each message with tool calls is directly followed by
\* its results, by ID or, for Gemini, by name, and there are no others.
RequestPaired ==
  pc = "chat" =>
    LET r == Request(hist) IN
    \A i \in DOMAIN r :
      /\ r[i].type = "tool_use" =>
           \E j \in i..Len(r) :
             /\ \A k \in (i + 1)..j : r[k].type = "tool_result"
             /\ FlattenSeq([k \in 1..(j - i) |-> r[i + k].ids]) = r[i].ids
      /\ r[i].type = "tool_result" =>
           i > 1 /\ r[i - 1].type \in {"tool_use", "tool_result"}

\* Every call of the provider ends, and no reader goroutine stays behind,
\* whatever the server, the connection and the context do.
CallEnds == <>[](pc \in {"ok", "failed"} /\ rd \in {"off", "closed"})
=============================================================================
