-------------------------- MODULE ChatStreamProofs --------------------------
(***************************************************************************)
(* Theorems about ChatStream, for any providers, callers, answers and      *)
(* limits.  What a caller has of an answer and what is still on its way to *)
(* it are one sequence, of fragments (TextOut) or of calls (CallsOut): a   *)
(* reader appends to it, and the channel moves its elements along.         *)
(***************************************************************************)
EXTENDS ChatStream, SequenceFacts, FiniteSetTheorems

-----------------------------------------------------------------------------
(* Types.                                                                  *)

\* The provers do not know that a literal is in STRING.
Name == STRING \union {""}
ID == {<<>>} \union (Name \X Nat) \union ({"id"} \X Nat \X Nat \X Nat)
Block == [call : BOOLEAN, name : STRING, frags : Nat]
ToolState == [id : ID, name : Name, frags : Seq(Nat)]
Message == [role : {"user", "assistant"}, results : Seq(ID),
            calls : Seq([id : ID, name : Name])]

AnyEvent == [type : {"token", "call", "done", "error"}, block : Nat, frags : Seq(Nat),
             id : ID, name : Name]

Event == {e \in AnyEvent : e.type = "token" => e.frags # <<>>}

TypeOK ==
  /\ provider \in Providers /\ caller \in Callers /\ cancelled \in BOOLEAN
  /\ pc \in {"chat", "recv", "ok", "failed"} /\ tries \in Nat /\ errors \in Nat
  /\ hist \in Seq(Message)
  /\ answer \in Seq(Block) /\ sent \in [DOMAIN answer -> Nat] /\ tail \in Nat
  /\ damage \subseteq {"garbled", "short", "broken"}
  /\ rd \in {"off", "reading", "closing", "closed"}
  /\ DOMAIN tools \subseteq DOMAIN answer /\ tools \in [DOMAIN tools -> ToolState]
  /\ index \in Nat /\ pending \in Seq(Event) /\ queue \in Seq(Event)
  /\ text \in Seq(Nat \X Nat) /\ calls \in Seq(Event) /\ streamErr \in BOOLEAN

-----------------------------------------------------------------------------
(* What is on its way.                                                     *)

Flow == queue \o pending

TextOf == [e \in Event |-> IF e.type = "token" THEN << <<e.block, e.frags[1]>> >> ELSE <<>>]
CallOf == [e \in Event |-> IF e.type = "call" THEN <<e>> ELSE <<>>]

TextOut == text \o FlatMap(TextOf, Flow)
CallsOut == calls \o FlatMap(CallOf, Flow)

Errs == streamErr \/ \E e \in Range(Flow) : e.type = "error"

-----------------------------------------------------------------------------
(* The invariant.                                                          *)

\* Nothing is left of a response when no reader is there; before the whole
\* body is decoded nothing of it is on its way.
Phases ==
  /\ pc = "chat" => rd = "off"
  /\ rd = "off" =>
       /\ answer = <<>> /\ sent = <<>> /\ tail = 0 /\ damage = {}
       /\ tools = << >> /\ index = 0 /\ pending = <<>> /\ queue = <<>>
       /\ text = <<>> /\ calls = <<>> /\ streamErr = FALSE
  /\ rd = "closed" => pending = <<>>
  /\ ~Loops => calls = <<>>
  /\ ~Streaming => "garbled" \notin damage
  /\ ~Streaming /\ rd = "reading" => Flow = <<>> /\ text = <<>> /\ calls = <<>>

\* The lines of the server: a block begins when the ones before it are sent,
\* but for OpenAI's calls.
LinesInOrder ==
  /\ \A b \in DOMAIN answer : sent[b] <= LinesOf(b)
  /\ \A b, c \in DOMAIN answer :
       /\ b < c /\ sent[c] > 0
       /\ ~(provider = "openai" /\ (answer[b].call \/ answer[c].call))
       => sent[b] = LinesOf(b)

\* The line that carries fragment k of a text.
TokenLine(k) == IF provider = "anthropic" THEN k + 1 ELSE k

Fragments == UNION { {b} \X (IF answer[b].call THEN {} ELSE 1..answer[b].frags) :
                     b \in DOMAIN answer }

Before == {p \in (Nat \X Nat) \X (Nat \X Nat) :
             \/ p[1][1] < p[2][1]
             \/ p[1][1] = p[2][1] /\ p[1][2] < p[2][2]}

\* The text is of this answer and in its order, and nothing but a garbled
\* line is missing in it.
TextSound ==
  /\ Sorted(TextOut, Before)
  /\ \A x \in Range(TextOut) :
       x \in Fragments /\ (Streaming => TokenLine(x[2]) <= sent[x[1]])
  /\ Streaming /\ "garbled" \notin damage =>
       \A x \in Fragments : TokenLine(x[2]) <= sent[x[1]] => x \in Range(TextOut)

\* A block has one call, in the order of the answer unless a map was walked.
CallOrder == {p \in Event \X Event :
                IF provider = "openai" /\ Streaming
                THEN p[1].block # p[2].block
                ELSE p[1].block < p[2].block}

CallsSound ==
  /\ Sorted(CallsOut, CallOrder)
  /\ \A e \in Range(CallsOut) :
       /\ e.type = "call" /\ e.block \in DOMAIN answer /\ answer[e.block].call
       /\ Streaming => IF provider = "openai" THEN tail > 0
                       ELSE sent[e.block] = LinesOf(e.block)
       /\ "garbled" \notin damage =>
            e.name = answer[e.block].name /\ e.frags = Frags(answer[e.block].frags)

\* The tool states of a reader that read every line so far.
Kept(b) == answer[b].call /\ sent[b] > 0 /\ (provider = "anthropic" => sent[b] < LinesOf(b))

Known(b) == tools[b].name = answer[b].name /\ tools[b].frags = Frags(sent[b] - 1)

ToolsSound ==
  /\ provider = "openai" /\ tail > 0 => AllSent
  /\ \A b \in DOMAIN tools : answer[b].call
  /\ provider # "gemini" /\ Streaming /\ "garbled" \notin damage =>
       \A b \in DOMAIN answer :
         (b \in DOMAIN tools <=> Kept(b)) /\ (b \in DOMAIN tools => Known(b))
  /\ Streaming /\ "garbled" \notin damage =>
       \A b \in DOMAIN answer :
         answer[b].call /\ sent[b] = LinesOf(b) /\ (provider = "openai" => tail > 0)
           => \E e \in Range(CallsOut) : e.block = b

\* The server's IDs hold the number of their block.
ServerIDs ==
  /\ \A e \in Range(CallsOut) : e.id[4] = e.block
  /\ \A b \in DOMAIN tools : tools[b].id[4] = b

Numbered == {p \in Event \X Event : p[1].id[2] < p[2].id[2]}

IDsSound ==
  IF provider = "gemini"
  THEN /\ Sorted(CallsOut, Numbered)
       /\ \A e \in Range(CallsOut) :
            e.id[1] = e.name /\ e.id[2] \in Nat /\ (Streaming => e.id[2] <= index)
  ELSE "garbled" \notin damage => ServerIDs

\* What a reader that has ended without an error sent.
TextWhole == Fragments \subseteq Range(TextOut)
CallsWhole == \A b \in DOMAIN answer : answer[b].call => \E e \in Range(CallsOut) : e.block = b

Accounted ==
  rd \in {"closing", "closed"} /\ ~Errs /\ damage \intersect Unnoticed = {} =>
    IF Streaming THEN AllSent /\ (provider = "openai" => tail > 0)
    ELSE TextWhole /\ (Loops => CallsWhole)

\* The conversation.
Paired(r) ==
  \A i \in DOMAIN r :
    /\ r[i].type = "tool_use" =>
         \E j \in i..Len(r) :
           /\ \A k \in (i + 1)..j : r[k].type = "tool_result"
           /\ FlattenSeq([k \in 1..(j - i) |-> r[i + k].ids]) = r[i].ids
    /\ r[i].type = "tool_result" =>
         i > 1 /\ r[i - 1].type \in {"tool_use", "tool_result"}

NamesInIDs(h) == \A i \in DOMAIN h : \A c \in Range(h[i].calls) : c.id[1] = c.name

HistPaired ==
  /\ Paired(Request(hist))
  /\ provider = "gemini" => NamesInIDs(hist)

Response ==
  LinesInOrder /\ TextSound /\ CallsSound /\ ToolsSound /\ IDsSound /\ Accounted

IInv == TypeOK /\ Phases /\ Response /\ HistPaired

-----------------------------------------------------------------------------
(* Types.                                                                  *)

LEMMA BlockType ==
  ASSUME TypeOK, NEW b \in DOMAIN answer
  PROVE  /\ answer[b] \in Block /\ answer[b].call \in BOOLEAN /\ answer[b].name \in Name
         /\ answer[b].frags \in Nat /\ b \in Nat /\ b > 0 /\ sent[b] \in Nat
<1>1. answer[b] \in Block /\ b \in Nat /\ b > 0 /\ sent[b] \in Nat
  BY DEF TypeOK
<1> QED BY <1>1 DEF Block, Name

LEMMA ProviderIs ==
  ASSUME TypeOK
  PROVE  provider \in {"anthropic", "openai", "gemini"} /\ caller \in {"turn", "subturn", "summary", "check"}
BY StreamAssumption DEF TypeOK

LEMMA LinesIs ==
  ASSUME TypeOK, NEW b \in DOMAIN answer
  PROVE  /\ LinesOf(b) \in Nat
         /\ provider = "anthropic" => LinesOf(b) = answer[b].frags + 2
         /\ provider = "openai" => LinesOf(b) = IF answer[b].call THEN answer[b].frags + 1
                                                ELSE answer[b].frags
         /\ provider = "gemini" => LinesOf(b) = IF answer[b].call THEN 1 ELSE answer[b].frags
BY BlockType, ProviderIs DEF LinesOf

LEMMA FragsType == ASSUME NEW n \in Int PROVE Frags(n) \in Seq(Nat) /\ Len(Frags(n)) = IF n > 0 THEN n ELSE 0
<1>1. CASE n >= 0
  <2>1. Frags(n) \in [1..n -> Nat]
    BY <1>1 DEF Frags
  <2>2. n \in Nat
    BY <1>1
  <2> HIDE DEF Frags
  <2>3. Frags(n) \in Seq(Nat) /\ Len(Frags(n)) = n
    BY <2>1, <2>2
  <2> QED BY <1>1, <2>3
<1>2. CASE ~(n >= 0)
  <2>1. Frags(n) = << >>
    BY <1>2 DEF Frags
  <2> QED BY <1>2, <2>1
<1> QED BY <1>1, <1>2

LEMMA EventType ==
  /\ \A e \in Event :
       /\ e.type \in {"token", "call", "done", "error"} /\ e.block \in Nat
       /\ e.frags \in Seq(Nat) /\ e.id \in ID /\ e.name \in Name
       /\ e.type = "token" => e.frags[1] \in Nat
  /\ Done \in Event /\ Error \in Event
  /\ \A b \in Nat, k \in Nat : Token(b, k) \in Event
  /\ \A b \in Nat, id \in ID, name \in Name, frags \in Seq(Nat) :
       Call(b, id, name, frags) \in Event
<1>1. <<>> \in ID /\ "" \in Name
  BY DEF ID, Name
<1>2. \A e \in Event : e.type = "token" => e.frags[1] \in Nat
  <2> TAKE e \in Event
  <2> HAVE e.type = "token"
  <2>1. e.frags \in Seq(Nat) /\ e.frags # << >>
    BY DEF Event, AnyEvent
  <2> DEFINE f == e.frags
  <2> HIDE DEF f
  <2>2. f \in Seq(Nat) /\ f # << >>
    BY <2>1 DEF f
  <2>3. f[1] \in Nat
    BY <2>2
  <2> QED BY <2>3 DEF f
<1>3. \A e \in Event :
       /\ e.type \in {"token", "call", "done", "error"} /\ e.block \in Nat
       /\ e.frags \in Seq(Nat) /\ e.id \in ID /\ e.name \in Name
  BY DEF Event, AnyEvent
<1>4. Done \in Event /\ Error \in Event
  <2>1. Done \in AnyEvent /\ Error \in AnyEvent
    BY <1>1, EmptySeq DEF AnyEvent, Done, Error
  <2>2. Done.type # "token" /\ Error.type # "token"
    BY DEF Done, Error
  <2> QED BY <2>1, <2>2 DEF Event
<1>5. \A b \in Nat, k \in Nat : Token(b, k) \in Event
  <2> TAKE b \in Nat, k \in Nat
  <2>1. <<k>> \in Seq(Nat) /\ <<k>> # << >>
    OBVIOUS
  <2>2. Token(b, k) \in AnyEvent /\ Token(b, k).frags # << >>
    BY <1>1, <2>1 DEF AnyEvent, Token
  <2> QED BY <2>2 DEF Event
<1>6. \A b \in Nat, id \in ID, name \in Name, frags \in Seq(Nat) :
       Call(b, id, name, frags) \in Event
  <2> TAKE b \in Nat, id \in ID, name \in Name, frags \in Seq(Nat)
  <2>1. Call(b, id, name, frags) \in AnyEvent /\ Call(b, id, name, frags).type # "token"
    BY DEF AnyEvent, Call
  <2> QED BY <2>1 DEF Event
<1> QED BY <1>2, <1>3, <1>4, <1>5, <1>6

LEMMA IDType ==
  /\ <<>> \in ID
  /\ \A name \in Name, k \in Nat : <<name, k>> \in ID
  /\ \A h, n, b \in Nat : <<"id", h, n, b>> \in ID
<1>1. \A name \in Name, k \in Nat : <<name, k>> \in Name \X Nat
  OBVIOUS
<1>2. \A h, n, b \in Nat : <<"id", h, n, b>> \in {"id"} \X Nat \X Nat \X Nat
  OBVIOUS
<1> QED BY <1>1, <1>2 DEF ID

LEMMA GivesTexts == Gives(TextOf, Event, Nat \X Nat)
<1>1. \A e \in Event : TextOf[e] \in Seq(Nat \X Nat)
  <2> TAKE e \in Event
  <2>1. CASE e.type = "token"
    <3>1. <<e.block, e.frags[1]>> \in Nat \X Nat
      BY <2>1, EventType
    <3>2. TextOf[e] = << <<e.block, e.frags[1]>> >>
      BY <2>1 DEF TextOf
    <3> QED BY <3>1, <3>2
  <2>2. CASE e.type # "token"
    BY <2>2 DEF TextOf
  <2> QED BY <2>1, <2>2
<1>2. TextOf = [e \in Event |-> TextOf[e]]
  BY DEF TextOf
<1> HIDE DEF TextOf
<1> QED BY <1>1, <1>2 DEF Gives

LEMMA GivesCalls == Gives(CallOf, Event, Event)
<1>1. \A e \in Event : CallOf[e] \in Seq(Event)
  BY DEF CallOf
<1>2. CallOf = [e \in Event |-> CallOf[e]]
  BY DEF CallOf
<1> HIDE DEF CallOf
<1> QED BY <1>1, <1>2 DEF Gives

-----------------------------------------------------------------------------
(* What is on its way: sending appends to it, and the channel keeps it.    *)

LEMMA FlowTypes ==
  ASSUME TypeOK
  PROVE  /\ Flow \in Seq(Event) /\ TextOut \in Seq(Nat \X Nat) /\ CallsOut \in Seq(Event)
         /\ FlatMap(TextOf, Flow) \in Seq(Nat \X Nat) /\ FlatMap(CallOf, Flow) \in Seq(Event)
<1>1. /\ queue \in Seq(Event) /\ pending \in Seq(Event) /\ text \in Seq(Nat \X Nat)
      /\ calls \in Seq(Event)
  BY DEF TypeOK
<1>2. Flow \in Seq(Event)
  BY <1>1, ConcatProperties DEF Flow
<1>3. FlatMap(TextOf, Flow) \in Seq(Nat \X Nat) /\ FlatMap(CallOf, Flow) \in Seq(Event)
  BY <1>2, GivesTexts, GivesCalls, FlatMapType
<1>4. TextOut \in Seq(Nat \X Nat)
  <2> DEFINE P == Nat \X Nat
             f == FlatMap(TextOf, Flow)
  <2>1. text \in Seq(P) /\ f \in Seq(P)
    BY <1>1, <1>3
  <2> HIDE DEF P, f
  <2>2. text \o f \in Seq(P)
    BY <2>1, ConcatProperties
  <2> QED BY <2>2 DEF P, f, TextOut
<1>5. CallsOut \in Seq(Event)
  BY <1>1, <1>3, ConcatProperties DEF CallsOut
<1> QED BY <1>2, <1>3, <1>4, <1>5

\* What the events of a reader add.
Adds(evs) ==
  /\ Flow' = Flow \o evs
  /\ TextOut' = TextOut \o FlatMap(TextOf, evs)
  /\ CallsOut' = CallsOut \o FlatMap(CallOf, evs)
  /\ streamErr' = streamErr

LEMMA SendAdds ==
  ASSUME TypeOK, NEW evs \in Seq(Event), SendEvents(evs), UNCHANGED <<queue, text, calls, streamErr>>
  PROVE  Adds(evs)
<1>1. queue \in Seq(Event) /\ pending \in Seq(Event)
  BY DEF TypeOK
<1>2. Flow' = Flow \o evs /\ Flow \in Seq(Event)
  <2>1. Flow' = queue \o (pending \o evs)
    BY DEF SendEvents, Flow
  <2>2. queue \o (pending \o evs) = (queue \o pending) \o evs
    BY <1>1, ConcatAssociative, SMTT(30)
  <2> QED BY <2>1, <2>2, FlowTypes DEF Flow
<1>3. /\ FlatMap(TextOf, Flow \o evs) = FlatMap(TextOf, Flow) \o FlatMap(TextOf, evs)
      /\ FlatMap(CallOf, Flow \o evs) = FlatMap(CallOf, Flow) \o FlatMap(CallOf, evs)
  BY <1>2, GivesTexts, GivesCalls, FlatMapConcat
<1>4. TextOut' = TextOut \o FlatMap(TextOf, evs)
  <2> DEFINE P == Nat \X Nat
             f == FlatMap(TextOf, Flow)
             g == FlatMap(TextOf, evs)
  <2>1. text \in Seq(P) /\ f \in Seq(P) /\ g \in Seq(P)
    BY FlowTypes, GivesTexts, FlatMapType DEF TypeOK
  <2>2. TextOut = text \o f
    BY DEF TextOut
  <2>3. TextOut' = text \o (f \o g)
    BY <1>2, <1>3 DEF TextOut
  <2> HIDE DEF P, f, g
  <2>4. text \o (f \o g) = (text \o f) \o g
    BY <2>1, ConcatAssociative, SMTT(30)
  <2> QED BY <2>2, <2>3, <2>4 DEF g
<1>5. CallsOut' = CallsOut \o FlatMap(CallOf, evs)
  <2> DEFINE f == FlatMap(CallOf, Flow)
             g == FlatMap(CallOf, evs)
  <2>1. calls \in Seq(Event) /\ f \in Seq(Event) /\ g \in Seq(Event)
    BY FlowTypes, GivesCalls, FlatMapType DEF TypeOK
  <2>2. CallsOut = calls \o f
    BY DEF CallsOut
  <2>3. CallsOut' = calls \o (f \o g)
    BY <1>2, <1>3 DEF CallsOut
  <2> HIDE DEF f, g
  <2>4. calls \o (f \o g) = (calls \o f) \o g
    BY <2>1, ConcatAssociative, SMTT(30)
  <2> QED BY <2>2, <2>3, <2>4 DEF g
<1> QED BY <1>2, <1>4, <1>5 DEF Adds

LEMMA AddsNothing ==
  ASSUME TypeOK, Adds(<< >>)
  PROVE  Flow' = Flow /\ TextOut' = TextOut /\ CallsOut' = CallsOut /\ Errs' = Errs
<1>1. FlatMap(TextOf, << >>) = << >> /\ FlatMap(CallOf, << >>) = << >>
  BY FlatMapEmpty
<1> DEFINE P == Nat \X Nat
<1>2. Flow \in Seq(Event) /\ TextOut \in Seq(P) /\ CallsOut \in Seq(Event)
  BY FlowTypes
<1> HIDE DEF P
<1>3. Flow \o << >> = Flow /\ TextOut \o << >> = TextOut /\ CallsOut \o << >> = CallsOut
  BY <1>2, ConcatEmptySeq
<1> QED BY <1>1, <1>3 DEF Adds, Errs

LEMMA AddsErrors ==
  ASSUME TypeOK, NEW evs \in Seq(Event), Adds(evs)
  PROVE  Errs' <=> Errs \/ \E e \in Range(evs) : e.type = "error"
<1>1. Flow \in Seq(Event) /\ Flow' = Flow \o evs
  BY FlowTypes DEF Adds
<1>2. Range(Flow') = Range(Flow) \union Range(evs)
  BY <1>1, ConcatRange
<1> QED BY <1>2 DEF Errs, Adds

LEMMA AddsOne ==
  ASSUME TypeOK, NEW e \in Event, Adds(<<e>>)
  PROVE  /\ TextOut' = TextOut \o TextOf[e] /\ CallsOut' = CallsOut \o CallOf[e]
         /\ Errs' <=> (Errs \/ e.type = "error")
<1>1. FlatMap(TextOf, <<e>>) = TextOf[e] /\ FlatMap(CallOf, <<e>>) = CallOf[e]
  BY GivesTexts, GivesCalls, FlatMapOne
<1>2. <<e>> \in Seq(Event) /\ Range(<<e>>) = {e}
  BY DEF Range
<1>3. Errs' <=> Errs \/ \E x \in Range(<<e>>) : x.type = "error"
  BY <1>2, AddsErrors
<1> QED BY <1>1, <1>2, <1>3 DEF Adds

\* The three kinds of a single event.
LEMMA AddsToken ==
  ASSUME TypeOK, NEW b \in Nat, NEW k \in Nat, Adds(<<Token(b, k)>>)
  PROVE  TextOut' = TextOut \o << <<b, k>> >> /\ CallsOut' = CallsOut /\ Errs' = Errs
<1> DEFINE e == Token(b, k)
<1>1. e \in Event
  BY EventType
<1>2. TextOf[e] = << <<b, k>> >> /\ CallOf[e] = << >> /\ e.type # "error"
  BY <1>1 DEF TextOf, CallOf, Token
<1>3. CallsOut \in Seq(Event)
  BY FlowTypes
<1> HIDE DEF e
<1>4. /\ TextOut' = TextOut \o TextOf[e] /\ CallsOut' = CallsOut \o CallOf[e]
      /\ (Errs' <=> (Errs \/ e.type = "error"))
  BY <1>1, AddsOne DEF e
<1>5. CallsOut \o << >> = CallsOut
  BY <1>3, ConcatEmptySeq
<1> QED BY <1>2, <1>4, <1>5 DEF Errs

LEMMA AddsCall ==
  ASSUME TypeOK, NEW e \in Event, e.type = "call", Adds(<<e>>)
  PROVE  TextOut' = TextOut /\ CallsOut' = CallsOut \o <<e>> /\ Errs' = Errs
<1>1. TextOf[e] = << >> /\ CallOf[e] = <<e>>
  BY DEF TextOf, CallOf
<1> DEFINE P == Nat \X Nat
<1>2. TextOut \in Seq(P)
  BY FlowTypes
<1> HIDE DEF P
<1>3. TextOut \o << >> = TextOut
  BY <1>2, ConcatEmptySeq
<1>4. /\ TextOut' = TextOut \o TextOf[e] /\ CallsOut' = CallsOut \o CallOf[e]
      /\ (Errs' <=> (Errs \/ e.type = "error"))
  BY AddsOne
<1> QED BY <1>1, <1>3, <1>4 DEF Errs

LEMMA AddsEnd ==
  ASSUME TypeOK, NEW e \in {Done, Error}, Adds(<<e>>)
  PROVE  TextOut' = TextOut /\ CallsOut' = CallsOut /\ (Errs' <=> (Errs \/ e = Error))
<1>1. e \in Event /\ e.type \notin {"token", "call"} /\ (e.type = "error" <=> e = Error)
  BY EventType DEF Done, Error
<1>2. TextOf[e] = << >> /\ CallOf[e] = << >>
  BY <1>1 DEF TextOf, CallOf
<1> DEFINE P == Nat \X Nat
<1>3. TextOut \in Seq(P) /\ CallsOut \in Seq(Event)
  BY FlowTypes
<1> HIDE DEF P
<1>4. TextOut \o << >> = TextOut /\ CallsOut \o << >> = CallsOut
  BY <1>3, ConcatEmptySeq
<1>5. /\ TextOut' = TextOut \o TextOf[e] /\ CallsOut' = CallsOut \o CallOf[e]
      /\ (Errs' <=> (Errs \/ e.type = "error"))
  BY <1>1, AddsOne
<1> QED BY <1>1, <1>2, <1>4, <1>5

\* The channel takes the next event of the reader.
LEMMA EmitMoves ==
  ASSUME TypeOK, Emit
  PROVE  Flow' = Flow /\ TextOut' = TextOut /\ CallsOut' = CallsOut /\ Errs' = Errs
<1>1. queue \in Seq(Event) /\ pending \in Seq(Event) /\ pending # << >>
  BY DEF TypeOK, Emit
<1>2. queue' = Append(queue, Head(pending)) /\ pending' = Tail(pending)
  BY DEF Emit
<1>3. Append(queue, Head(pending)) \o Tail(pending) = queue \o pending
  BY <1>1, SMTT(30)
<1>4. Flow' = Flow
  BY <1>2, <1>3 DEF Flow
<1>5. UNCHANGED <<text, calls, streamErr>>
  BY DEF Emit, collected
<1> QED BY <1>4, <1>5 DEF TextOut, CallsOut, Errs

\* The caller takes an event; calls matter only to the loops.
LEMMA ReceiveMoves ==
  ASSUME TypeOK, Phases, Receive
  PROVE  /\ TextOut' = TextOut /\ (Errs' <=> Errs)
         /\ Loops => CallsOut' = CallsOut
         /\ \E s \in Seq(Event) : CallsOut = s \o CallsOut'
<1> DEFINE ev == Head(queue)
<1>1. queue \in Seq(Event) /\ pending \in Seq(Event) /\ queue # << >>
  BY DEF TypeOK, Receive
<1>2. Flow = <<ev>> \o Flow' /\ ev \in Event /\ Flow' \in Seq(Event)
  <2>1. queue = <<ev>> \o Tail(queue) /\ ev \in Event /\ Tail(queue) \in Seq(Event)
    BY <1>1
  <2>2. queue' = Tail(queue) /\ pending' = pending
    BY DEF Receive, reader
  <2> DEFINE t == Tail(queue)
  <2> HIDE DEF t, ev
  <2>3. queue = <<ev>> \o t /\ ev \in Event /\ t \in Seq(Event) /\ <<ev>> \in Seq(Event)
    BY <2>1 DEF t
  <2>4. (<<ev>> \o t) \o pending = <<ev>> \o (t \o pending)
    BY <1>1, <2>3, ConcatAssociative
  <2>5. t \o pending \in Seq(Event)
    BY <1>1, <2>3, ConcatProperties
  <2> QED BY <2>2, <2>3, <2>4, <2>5 DEF Flow, t
<1>3. /\ text' = IF ev.type = "token" THEN Append(text, <<ev.block, ev.frags[1]>>) ELSE text
      /\ calls' = IF ev.type = "call" /\ Loops THEN Append(calls, ev) ELSE calls
      /\ streamErr' = (streamErr \/ ev.type = "error")
  BY DEF Receive
<1> HIDE DEF ev
<1>4. /\ FlatMap(TextOf, Flow) = TextOf[ev] \o FlatMap(TextOf, Flow')
      /\ FlatMap(CallOf, Flow) = CallOf[ev] \o FlatMap(CallOf, Flow')
  <2> DEFINE h == <<ev>>
             t == Flow'
  <2> HIDE DEF h, t
  <2>1. h \in Seq(Event) /\ t \in Seq(Event)
    BY <1>2 DEF h, t
  <2>2. FlatMap(TextOf, h \o t) = FlatMap(TextOf, h) \o FlatMap(TextOf, t)
    BY <2>1, GivesTexts, FlatMapConcat
  <2>3. FlatMap(CallOf, h \o t) = FlatMap(CallOf, h) \o FlatMap(CallOf, t)
    BY <2>1, GivesCalls, FlatMapConcat
  <2>4. FlatMap(TextOf, <<ev>>) = TextOf[ev] /\ FlatMap(CallOf, <<ev>>) = CallOf[ev]
    BY <1>2, GivesTexts, GivesCalls, FlatMapOne
  <2> QED BY <1>2, <2>2, <2>3, <2>4 DEF h, t
<1> DEFINE P == Nat \X Nat
           f == FlatMap(TextOf, Flow')
           g == FlatMap(CallOf, Flow')
           x == TextOf[ev]
           y == CallOf[ev]
<1>5. f \in Seq(P) /\ g \in Seq(Event) /\ x \in Seq(P) /\ y \in Seq(Event)
  BY <1>2, GivesTexts, GivesCalls, FlatMapType DEF Gives
<1>6. text \in Seq(P) /\ calls \in Seq(Event)
  BY DEF TypeOK
<1>7. text' = text \o x
  <2>1. CASE ev.type = "token"
    <3>1. <<ev.block, ev.frags[1]>> \in P
      BY <1>2, <2>1, EventType
    <3>2. x = << <<ev.block, ev.frags[1]>> >>
      BY <1>2, <2>1 DEF TextOf
    <3> DEFINE z == <<ev.block, ev.frags[1]>>
    <3> HIDE DEF P, x, z
    <3>3. z \in P
      BY <3>1 DEF z
    <3>4. Append(text, z) = text \o <<z>>
      BY <1>6, <3>3
    <3> QED BY <1>3, <2>1, <3>2, <3>4 DEF z
  <2>2. CASE ev.type # "token"
    <3>1. x = << >>
      BY <1>2, <2>2 DEF TextOf
    <3> HIDE DEF P, x
    <3>2. text \o << >> = text
      BY <1>6, ConcatEmptySeq
    <3> QED BY <1>3, <2>2, <3>1, <3>2
  <2> QED BY <2>1, <2>2
<1>8. Loops => calls' = calls \o y
  <2> SUFFICES ASSUME Loops PROVE calls' = calls \o y
    OBVIOUS
  <2>1. CASE ev.type = "call"
    <3>1. y = <<ev>>
      BY <1>2, <2>1 DEF CallOf
    <3> HIDE DEF y
    <3>2. Append(calls, ev) = calls \o <<ev>>
      BY <1>2, <1>6
    <3> QED BY <1>3, <2>1, <3>1, <3>2
  <2>2. CASE ev.type # "call"
    <3>1. y = << >>
      BY <1>2, <2>2 DEF CallOf
    <3> HIDE DEF y
    <3>2. calls \o << >> = calls
      BY <1>6, ConcatEmptySeq
    <3> QED BY <1>3, <2>2, <3>1, <3>2
  <2> QED BY <2>1, <2>2
<1>9. /\ TextOut = text \o (x \o f) /\ TextOut' = text' \o f
      /\ CallsOut = calls \o (y \o g) /\ CallsOut' = calls' \o g
  BY <1>4 DEF TextOut, CallsOut
<1> HIDE DEF P, f, g, x, y
<1>10. (text \o x) \o f = text \o (x \o f) /\ (calls \o y) \o g = calls \o (y \o g)
  <2>1. (text \o x) \o f = text \o (x \o f)
    BY <1>5, <1>6, ConcatAssociative, SMTT(30)
  <2>2. (calls \o y) \o g = calls \o (y \o g)
    BY <1>5, <1>6, ConcatAssociative, SMTT(30)
  <2> QED BY <2>1, <2>2
<1>11. TextOut' = TextOut /\ (Loops => CallsOut' = CallsOut)
  BY <1>7, <1>8, <1>9, <1>10
<1>12. \E s \in Seq(Event) : CallsOut = s \o CallsOut'
  <2>1. CASE Loops
    <3>1. << >> \in Seq(Event) /\ << >> \o CallsOut = CallsOut
      BY FlowTypes, EmptySeq, ConcatEmptySeq
    <3> QED BY <1>11, <2>1, <3>1
  <2>2. CASE ~Loops
    <3>1. calls = << >> /\ calls' = << >>
      BY <1>3, <2>2 DEF Phases
    <3>2. << >> \o (y \o g) = y \o g /\ << >> \o g = g
      BY <1>5, ConcatEmptySeq, ConcatProperties
    <3> QED BY <1>5, <1>9, <3>1, <3>2
  <2> QED BY <2>1, <2>2
<1>13. Errs' <=> Errs
  <2>1. Range(Flow) = Range(<<ev>>) \union Range(Flow') /\ Range(<<ev>>) = {ev}
    <3>1. <<ev>> \in Seq(Event)
      BY <1>2
    <3>2. Range(<<ev>> \o Flow') = Range(<<ev>>) \union Range(Flow')
      BY <1>2, <3>1, ConcatRange, ZenonT(40)
    <3>3. Range(<<ev>>) = {ev}
      BY DEF Range
    <3> QED BY <1>2, <3>2, <3>3
  <2> QED BY <1>3, <2>1 DEF Errs
<1> QED BY <1>11, <1>12, <1>13

-----------------------------------------------------------------------------
(* The type invariant.                                                     *)

\* The events of a block of a whole body.
BlockEvents(b) ==
  IF answer[b].call
  THEN << Call(b, FullCallID(b), answer[b].name, Frags(answer[b].frags)) >>
  ELSE [k \in 1..answer[b].frags |-> Token(b, k)]

LEMMA RankType ==
  ASSUME TypeOK, NEW b \in DOMAIN answer
  PROVE  Cardinality({c \in 1..b : answer[c].call}) \in Nat
<1> DEFINE R == {c \in 1..b : answer[c].call}
<1>1. IsFiniteSet(1..b)
  BY BlockType, FS_Interval
<1>2. R \in SUBSET (1..b)
  OBVIOUS
<1> HIDE DEF R
<1>3. IsFiniteSet(R)
  BY <1>1, <1>2, FS_Subset
<1>4. Cardinality(R) \in Nat
  BY <1>3, FS_CardinalityType
<1> QED BY <1>4 DEF R

LEMMA FullCallType ==
  ASSUME TypeOK, NEW b \in DOMAIN answer
  PROVE  /\ FullCallID(b) \in ID
         /\ Call(b, FullCallID(b), answer[b].name, Frags(answer[b].frags)) \in Event
<1>1. /\ answer[b].name \in Name /\ answer[b].frags \in Nat /\ b \in Nat
      /\ hist \in Seq(Message) /\ errors \in Nat
  BY BlockType DEF TypeOK
<1>2. Len(hist) \in Nat /\ Frags(answer[b].frags) \in Seq(Nat)
  <2>1. Len(hist) \in Nat
    BY <1>1, LenProperties
  <2>2. Frags(answer[b].frags) \in Seq(Nat)
    BY <1>1, FragsType
  <2> QED BY <2>1, <2>2
<1>3. FullCallID(b) \in ID
  BY <1>1, <1>2, RankType, IDType DEF FullCallID, ServerID
<1> HIDE DEF FullCallID
<1> QED BY <1>1, <1>2, <1>3, EventType

LEMMA BlockEventsType ==
  ASSUME TypeOK, NEW b \in DOMAIN answer
  PROVE  BlockEvents(b) \in Seq(Event)
<1>1. CASE answer[b].call
  BY <1>1, FullCallType DEF BlockEvents
<1>2. CASE ~answer[b].call
  <2> DEFINE s == [k \in 1..answer[b].frags |-> Token(b, k)]
  <2>1. \A k \in 1..answer[b].frags : Token(b, k) \in Event
    BY BlockType, EventType
  <2>2. s \in [1..answer[b].frags -> Event] /\ answer[b].frags \in Nat
    BY <2>1, BlockType
  <2> HIDE DEF s
  <2>3. s \in Seq(Event)
    BY <2>2
  <2> QED BY <1>2, <2>3 DEF s, BlockEvents
<1> QED BY <1>1, <1>2

LEMMA FullEventsType ==
  ASSUME TypeOK
  PROVE  /\ FullEvents = FlattenSeq([b \in 1..Len(answer) |-> BlockEvents(b)])
         /\ [b \in 1..Len(answer) |-> BlockEvents(b)] \in Seq(Seq(Event))
         /\ Len([b \in 1..Len(answer) |-> BlockEvents(b)]) = Len(answer)
         /\ FullEvents \in Seq(Event)
<1> DEFINE s == [b \in 1..Len(answer) |-> BlockEvents(b)]
<1>1. DOMAIN answer = 1..Len(answer) /\ Len(answer) \in Nat
  BY LenProperties DEF TypeOK
<1>2. FullEvents = FlattenSeq(s)
  BY <1>1 DEF FullEvents, BlockEvents
<1>3. \A b \in 1..Len(answer) : BlockEvents(b) \in Seq(Event)
  BY <1>1, BlockEventsType
<1>4. s \in [1..Len(answer) -> Seq(Event)]
  BY <1>3
<1>5. s \in Seq(Seq(Event)) /\ Len(s) = Len(answer)
  <2> HIDE DEF s
  <2> QED BY <1>1, <1>4
<1>6. FlattenSeq(s) \in Seq(Event)
  <2> HIDE DEF s
  <2> QED BY <1>5, FlattenType
<1> QED BY <1>2, <1>5, <1>6

\* finish_reason: the tool states in some order.
ToolCall(b) == Call(b, tools[b].id, tools[b].name, tools[b].frags)

LEMMA ToolCallType ==
  ASSUME TypeOK, NEW b \in DOMAIN tools
  PROVE  /\ ToolCall(b) \in Event /\ b \in DOMAIN answer
         /\ tools[b].id \in ID /\ tools[b].name \in Name /\ tools[b].frags \in Seq(Nat)
<1>1. tools[b] \in ToolState /\ b \in DOMAIN answer
  BY DEF TypeOK
<1>2. tools[b].id \in ID /\ tools[b].name \in Name /\ tools[b].frags \in Seq(Nat)
  BY <1>1 DEF ToolState
<1> QED BY <1>1, <1>2, BlockType, EventType DEF ToolCall

ToolEvents(order) == [i \in DOMAIN order |-> ToolCall(order[i])]

LEMMA OrdersType ==
  ASSUME TypeOK, NEW order \in SetToSeqs(DOMAIN tools)
  PROVE  /\ order \in Seq(DOMAIN tools) /\ Range(order) = DOMAIN tools
         /\ \A i, j \in DOMAIN order : i # j => order[i] # order[j]
         /\ ToolEvents(order) \in Seq(Event) /\ Len(ToolEvents(order)) = Len(order)
<1> DEFINE D == DOMAIN tools
           n == Cardinality(D)
<1>1. IsFiniteSet(D) /\ n \in Nat
  <2>1. D \in SUBSET (1..Len(answer)) /\ Len(answer) \in Nat
    BY LenProperties DEF TypeOK
  <2>2. IsFiniteSet(1..Len(answer))
    BY <2>1, FS_Interval
  <2> HIDE DEF D
  <2> QED BY <2>1, <2>2, FS_Subset, FS_CardinalityType
<1>2. order \in [1..n -> D] /\ \A i, j \in 1..n : i # j => order[i] # order[j]
  BY DEF SetToSeqs
<1> HIDE DEF D, n
<1>3. order \in Seq(D) /\ Len(order) = n /\ DOMAIN order = 1..n
  BY <1>1, <1>2
<1>4. IsFiniteSet(1..n) /\ Cardinality(1..n) = n
  BY <1>1, FS_Interval
<1>5. order \in Injection(1..n, D)
  BY <1>2 DEF Injection, IsInjective
<1>6. order \in Surjection(1..n, D)
  BY <1>1, <1>4, <1>5, FS_Injection DEF n
<1>7. Range(order) = D
  BY <1>2, <1>3, <1>6 DEF Surjection, Range
<1>8. ToolEvents(order) \in [1..n -> Event]
  <2>1. \A i \in 1..n : ToolCall(order[i]) \in Event
    BY <1>2, ToolCallType DEF D
  <2> QED BY <1>3, <2>1 DEF ToolEvents
<1>9. ToolEvents(order) \in Seq(Event) /\ Len(ToolEvents(order)) = n
  <2> HIDE DEF ToolEvents
  <2> QED BY <1>1, <1>8
<1> QED BY <1>2, <1>3, <1>7, <1>9 DEF D

LEMMA TurnTypes ==
  ASSUME NEW cs \in Seq(Event)
  PROVE  Assistant(cs) \in Message /\ Results(cs) \in Message /\ User \in Message
<1>1. DOMAIN cs = 1..Len(cs) /\ Len(cs) \in Nat /\ \A i \in 1..Len(cs) : cs[i] \in Event
  BY LenProperties
<1>2. \A i \in 1..Len(cs) : cs[i].id \in ID /\ cs[i].name \in Name
  BY <1>1, EventType
<1> DEFINE a == [i \in DOMAIN cs |-> [id |-> cs[i].id, name |-> cs[i].name]]
           r == [i \in DOMAIN cs |-> cs[i].id]
           Pair == [id : ID, name : Name]
<1>3. a \in [1..Len(cs) -> Pair] /\ r \in [1..Len(cs) -> ID]
  BY <1>1, <1>2
<1> HIDE DEF a, r, Pair
<1>4. a \in Seq(Pair) /\ r \in Seq(ID)
  BY <1>1, <1>3
<1>5. << >> \in Seq([id : ID, name : Name]) /\ << >> \in Seq(ID)
  BY EmptySeq
<1> QED BY <1>4, <1>5 DEF Assistant, Results, User, Message, a, r, Pair

LEMMA TypeInit == Init => TypeOK
<1> SUFFICES ASSUME Init PROVE TypeOK
  OBVIOUS
<1>1. << >> \in Seq(Event)
  BY EmptySeq
<1>2. hist \in Seq(Message)
  <2>1. User \in Message
    BY <1>1, TurnTypes
  <2> QED BY <2>1 DEF Init
<1>3. DOMAIN << >> = {}
  OBVIOUS
<1>4. /\ DOMAIN tools \subseteq DOMAIN answer /\ tools \in [DOMAIN tools -> ToolState]
      /\ sent \in [DOMAIN answer -> Nat]
  BY <1>3 DEF Init
<1>5. /\ answer \in Seq(Block) /\ pending \in Seq(Event) /\ queue \in Seq(Event)
      /\ text \in Seq(Nat \X Nat) /\ calls \in Seq(Event)
  BY <1>1, EmptySeq DEF Init
<1> QED BY <1>2, <1>4, <1>5 DEF Init, TypeOK

\* The types of what one iteration keeps.
LEMMA NextIterationType ==
  ASSUME TypeOK, NextIteration
  PROVE  /\ pc' \in {"chat", "recv", "ok", "failed"}
         /\ answer' \in Seq(Block) /\ sent' \in [DOMAIN answer' -> Nat] /\ tail' \in Nat
         /\ damage' \subseteq {"garbled", "short", "broken"}
         /\ rd' \in {"off", "reading", "closing", "closed"}
         /\ DOMAIN tools' \subseteq DOMAIN answer' /\ tools' \in [DOMAIN tools' -> ToolState]
         /\ index' \in Nat /\ pending' \in Seq(Event)
         /\ text' \in Seq(Nat \X Nat) /\ calls' \in Seq(Event) /\ streamErr' \in BOOLEAN
<1>1. DOMAIN << >> = {}
  OBVIOUS
<1>2. DOMAIN tools' \subseteq DOMAIN answer' /\ tools' \in [DOMAIN tools' -> ToolState]
  BY <1>1 DEF NextIteration
<1>3. sent' \in [DOMAIN answer' -> Nat]
  BY <1>1 DEF NextIteration
<1> QED BY <1>2, <1>3, EmptySeq DEF NextIteration, NoText

LEMMA FailedCallType ==
  ASSUME TypeOK, FailedCall, UNCHANGED <<provider, caller, cancelled, hist, queue>>
  PROVE  TypeOK'
<1>1. errors' \in Nat /\ tries' \in Nat
  BY DEF FailedCall, TypeOK
<1>2. CASE Loops /\ errors < LLMMaxErrors
  <2>1. NextIteration
    BY <1>2 DEF FailedCall
  <2> QED BY <1>1, <2>1, NextIterationType DEF TypeOK
<1>3. CASE ~(Loops /\ errors < LLMMaxErrors)
  <2>1. pc' = "failed" /\ UNCHANGED <<response, reader, collected>>
    BY <1>3 DEF FailedCall
  <2> QED BY <1>1, <2>1 DEF TypeOK, response, reader, collected
<1> QED BY <1>2, <1>3

\* A reader that sends events and changes its own state.
LEMMA SendsType ==
  ASSUME TypeOK, NEW evs \in Seq(Event), SendEvents(evs)
  PROVE  pending' \in Seq(Event)
<1>1. pending \in Seq(Event)
  BY DEF TypeOK
<1> QED BY <1>1, ConcatProperties DEF SendEvents

\* A line changes the tool state of its own block only.
LEMMA ToolStateType ==
  ASSUME TypeOK, NEW b \in DOMAIN answer, NEW st \in ToolState
  PROVE  /\ DOMAIN WithTool(b, st) = DOMAIN tools \union {b}
         /\ DOMAIN WithTool(b, st) \subseteq DOMAIN answer
         /\ WithTool(b, st) \in [DOMAIN WithTool(b, st) -> ToolState]
         /\ WithTool(b, st)[b] = st
         /\ \A c \in DOMAIN tools : c # b => WithTool(b, st)[c] = tools[c]
<1>1. DOMAIN tools \subseteq DOMAIN answer /\ \A c \in DOMAIN tools : tools[c] \in ToolState
  BY DEF TypeOK
<1> QED BY <1>1 DEF WithTool

\* What the k-th line of block b does to the reader.
Line(b) ==
  \/ provider = "anthropic" /\ AnthropicLine(b, sent[b] + 1) /\ UNCHANGED index
  \/ provider = "openai" /\ OpenAILine(b, sent[b] + 1) /\ UNCHANGED index
  \/ provider = "gemini" /\ GeminiLine(b, sent[b] + 1)

ReadsLine(b) ==
  /\ Scanning /\ MaySend(b)
  /\ sent' = [sent EXCEPT ![b] = @ + 1]
  /\ Line(b)
  /\ UNCHANGED <<provider, caller, cancelled, pc, tries, errors, hist, answer, tail,
                 damage, rd, queue, text, calls, streamErr>>

LEMMA ReadLineIs == ReadLine <=> \E b \in DOMAIN answer : ReadsLine(b)
BY DEF ReadLine, ReadsLine, Line

\* The fragment of a text on line k, and the events of the k-th line of b.
FragOf(k) == IF provider = "anthropic" THEN k - 1 ELSE k

LineText(b, k) ==
  IF ~answer[b].call /\ FragOf(k) \in 1..answer[b].frags THEN <<Token(b, FragOf(k))>> ELSE <<>>

LineCall(b, k) ==
  IF provider = "anthropic" /\ k = answer[b].frags + 2 /\ b \in DOMAIN tools
  THEN <<ToolCall(b)>>
  ELSE IF provider = "gemini" /\ answer[b].call
  THEN <<Call(b, <<answer[b].name, index + 1>>, answer[b].name, Frags(answer[b].frags))>>
  ELSE <<>>

\* The tool state of b after its k-th line.
Fresh(b) == [id |-> ServerID(b), name |-> answer[b].name, frags |-> <<>>]

LineTool(b, k) ==
  IF b \in DOMAIN tools
  THEN IF k = 1 THEN IF provider = "openai" THEN tools[b] ELSE Fresh(b)
       ELSE [tools[b] EXCEPT !.frags = Append(@, k - 1)]
  ELSE IF k = 1 THEN Fresh(b) ELSE [NoTool EXCEPT !.frags = Append(@, k - 1)]

LineTools(b, k) ==
  IF ~answer[b].call \/ provider = "gemini" THEN tools
  ELSE IF provider = "anthropic" /\ k = LinesOf(b)
  THEN [c \in DOMAIN tools \ {b} |-> tools[c]]
  ELSE IF provider = "openai" \/ k = 1 \/ b \in DOMAIN tools
  THEN WithTool(b, LineTool(b, k))
  ELSE tools

OnlyCalls == \A c \in DOMAIN tools : answer[c].call

LEMMA LineEffect ==
  ASSUME TypeOK, OnlyCalls, NEW b \in DOMAIN answer, ReadsLine(b)
  PROVE  /\ sent[b] + 1 \in 1..LinesOf(b)
         /\ SendEvents(IF answer[b].call THEN LineCall(b, sent[b] + 1)
                       ELSE LineText(b, sent[b] + 1))
         /\ tools' = LineTools(b, sent[b] + 1)
         /\ index' = IF provider = "gemini" /\ answer[b].call THEN index + 1 ELSE index
<1> DEFINE k == sent[b] + 1
<1>1. /\ answer[b].call \in BOOLEAN /\ answer[b].frags \in Nat /\ sent[b] \in Nat
      /\ LinesOf(b) \in Nat /\ sent[b] < LinesOf(b) /\ Line(b)
  BY BlockType, LinesIs DEF ReadsLine, MaySend
<1>2. k \in 1..LinesOf(b) /\ k \in Nat /\ k >= 1
  BY <1>1
<1>3. provider \in {"anthropic", "openai", "gemini"}
  BY ProviderIs
<1>4. ~answer[b].call => b \notin DOMAIN tools
  BY DEF OnlyCalls
<1>5. CASE provider = "anthropic"
  <2>1. AnthropicLine(b, k) /\ index' = index /\ LinesOf(b) = answer[b].frags + 2
    BY <1>1, <1>5, LinesIs DEF Line
  <2> HIDE DEF k
  <2>2. CASE k = 1
    <3>1. /\ tools' = IF answer[b].call THEN WithTool(b, Fresh(b)) ELSE tools
          /\ SendEvents(<<>>)
      <4>1. k \notin 2..(answer[b].frags + 1) /\ k # answer[b].frags + 2
        BY <1>1, <2>2
      <4> QED BY ONLY <2>1, <2>2, <4>1, Zenon DEF AnthropicLine, Fresh
    <3>2. k # LinesOf(b) /\ FragOf(k) = 0 /\ LineTool(b, k) = Fresh(b)
      BY <1>1, <1>5, <2>1, <2>2 DEF FragOf, LineTool
    <3>3. LineCall(b, k) = <<>> /\ LineText(b, k) = <<>>
      BY <1>1, <1>5, <2>1, <3>2 DEF LineCall, LineText
    <3>4. tools' = LineTools(b, k)
      BY <1>5, <2>2, <3>1, <3>2 DEF LineTools
    <3> QED BY <1>2, <1>5, <2>1, <3>1, <3>3, <3>4 DEF k
  <2>3. CASE k \in 2..(answer[b].frags + 1)
    <3>1. IF answer[b].call
          THEN /\ tools' = IF b \in DOMAIN tools
                           THEN [tools EXCEPT ![b].frags = Append(@, k - 1)] ELSE tools
               /\ SendEvents(<<>>)
          ELSE SendEvents(<<Token(b, k - 1)>>) /\ tools' = tools
      <4>1. k # 1 /\ k # answer[b].frags + 2
        BY <1>1, <2>3
      <4> QED BY ONLY <2>1, <2>3, <4>1, Zenon DEF AnthropicLine
    <3>2. k # LinesOf(b) /\ k # 1 /\ FragOf(k) = k - 1 /\ k - 1 \in 1..answer[b].frags
      BY <1>1, <1>2, <1>5, <2>1, <2>3 DEF FragOf
    <3>3. LineCall(b, k) = <<>> /\ (~answer[b].call => LineText(b, k) = <<Token(b, k - 1)>>)
      BY <1>5, <2>1, <3>2 DEF LineCall, LineText
    <3>4. b \in DOMAIN tools =>
            [tools EXCEPT ![b].frags = Append(@, k - 1)] = WithTool(b, LineTool(b, k))
      BY <3>2 DEF TypeOK, WithTool, LineTool
    <3>5. tools' = LineTools(b, k)
      BY <1>5, <3>1, <3>2, <3>4 DEF LineTools
    <3> QED BY <1>2, <1>5, <2>1, <3>1, <3>3, <3>5 DEF k
  <2>4. CASE k = answer[b].frags + 2
    <3>1. IF b \in DOMAIN tools
          THEN SendEvents(<<ToolCall(b)>>) /\ tools' = [c \in DOMAIN tools \ {b} |-> tools[c]]
          ELSE SendEvents(<<>>) /\ tools' = tools
      <4>1. k \notin 2..(answer[b].frags + 1) /\ k # 1
        BY <1>1, <2>4
      <4> QED BY ONLY <2>1, <2>4, <4>1, Zenon DEF AnthropicLine, ToolCall
    <3>2. FragOf(k) = k - 1 /\ k - 1 \notin 1..answer[b].frags /\ k = LinesOf(b)
      BY <1>1, <1>5, <2>1, <2>4 DEF FragOf
    <3>3. LineText(b, k) = <<>> /\ LineCall(b, k) = IF b \in DOMAIN tools THEN <<ToolCall(b)>> ELSE <<>>
      BY <1>5, <2>4, <3>2 DEF LineCall, LineText
    <3>4. b \notin DOMAIN tools => tools = [c \in DOMAIN tools \ {b} |-> tools[c]]
      BY DEF TypeOK
    <3>5. tools' = LineTools(b, k)
      BY <1>4, <1>5, <3>1, <3>2, <3>4 DEF LineTools
    <3> QED BY <1>2, <1>4, <1>5, <2>1, <3>1, <3>3, <3>5 DEF k
  <2>5. k = 1 \/ k \in 2..(answer[b].frags + 1) \/ k = answer[b].frags + 2
    BY <1>1, <1>2, <2>1
  <2> QED BY <2>2, <2>3, <2>4, <2>5
<1>6. CASE provider = "openai"
  <2>1. OpenAILine(b, k) /\ index' = index
    BY <1>1, <1>6 DEF Line
  <2> HIDE DEF k
  <2>2. LineCall(b, k) = <<>>
    BY <1>6 DEF LineCall
  <2>3. CASE answer[b].call
    <3>1. SendEvents(<<>>) /\ tools' = WithTool(b, LineTool(b, k))
      <4>1. SendEvents(<<>>)
        BY <2>1, <2>3 DEF OpenAILine
      <4>2. CASE b \in DOMAIN tools /\ k = 1
        <5>1. tools[b] \in ToolState
          BY <4>2 DEF TypeOK
        <5>2. [tools[b] EXCEPT !.frags = tools[b].frags] = tools[b]
          BY <5>1 DEF ToolState
        <5> QED BY <1>6, <2>1, <2>3, <4>2, <5>2 DEF OpenAILine, LineTool
      <4>3. CASE b \in DOMAIN tools /\ k # 1
        BY <1>6, <2>1, <2>3, <4>3 DEF OpenAILine, LineTool
      <4>4. CASE b \notin DOMAIN tools /\ k = 1
        BY <1>6, <2>1, <2>3, <4>4 DEF OpenAILine, LineTool, Fresh
      <4>5. CASE b \notin DOMAIN tools /\ k # 1
        BY <1>6, <2>1, <2>3, <4>5 DEF OpenAILine, LineTool
      <4> QED BY <4>1, <4>2, <4>3, <4>4, <4>5
    <3>2. tools' = LineTools(b, k)
      BY <1>6, <2>3, <3>1 DEF LineTools
    <3> QED BY <1>2, <1>6, <2>1, <2>2, <2>3, <3>1, <3>2 DEF k
  <2>4. CASE ~answer[b].call
    <3>1. SendEvents(<<Token(b, k)>>) /\ tools' = tools
      BY <2>1, <2>4 DEF OpenAILine
    <3>2. FragOf(k) = k /\ k \in 1..answer[b].frags
      BY <1>2, <1>6, <2>4, LinesIs DEF FragOf, k
    <3>3. LineText(b, k) = <<Token(b, k)>>
      BY <2>4, <3>2 DEF LineText
    <3>4. tools' = LineTools(b, k)
      BY <2>4, <3>1 DEF LineTools
    <3> QED BY <1>2, <1>6, <2>1, <2>4, <3>1, <3>3, <3>4 DEF k
  <2> QED BY <2>3, <2>4
<1>7. CASE provider = "gemini"
  <2>1. GeminiLine(b, k)
    BY <1>1, <1>7 DEF Line
  <2> HIDE DEF k
  <2>2. tools' = LineTools(b, k)
    BY <1>7, <2>1 DEF GeminiLine, LineTools
  <2>3. CASE answer[b].call
    <3>1. /\ index' = index + 1
          /\ SendEvents(<<Call(b, <<answer[b].name, index + 1>>, answer[b].name,
                               Frags(answer[b].frags))>>)
      BY <2>1, <2>3 DEF GeminiLine
    <3> QED BY <1>2, <1>7, <2>2, <2>3, <3>1 DEF k, LineCall
  <2>4. CASE ~answer[b].call
    <3>1. SendEvents(<<Token(b, k)>>) /\ index' = index
      BY <2>1, <2>4 DEF GeminiLine
    <3>2. FragOf(k) = k /\ k \in 1..answer[b].frags
      BY <1>2, <1>7, <2>4, LinesIs DEF FragOf, k
    <3> QED BY <1>2, <2>2, <2>4, <3>1, <3>2 DEF k, LineText
  <2> QED BY <2>3, <2>4
<1> QED BY <1>3, <1>5, <1>6, <1>7

LEMMA LineTypes ==
  ASSUME TypeOK, OnlyCalls, NEW b \in DOMAIN answer, ReadsLine(b)
  PROVE  /\ LineTool(b, sent[b] + 1) \in ToolState
         /\ DOMAIN tools' \subseteq DOMAIN answer /\ tools' \in [DOMAIN tools' -> ToolState]
         /\ \A k \in 1..LinesOf(b) : LineText(b, k) \in Seq(Event) /\ LineCall(b, k) \in Seq(Event)
         /\ index' \in Nat /\ sent' \in [DOMAIN answer -> Nat]
<1> DEFINE k == sent[b] + 1
<1>1. /\ answer[b].call \in BOOLEAN /\ answer[b].frags \in Nat /\ sent[b] \in Nat
      /\ answer[b].name \in Name /\ b \in Nat /\ LinesOf(b) \in Nat /\ index \in Nat
  BY BlockType, LinesIs DEF TypeOK
<1>2. k \in Nat /\ k - 1 \in Nat
  BY <1>1
<1>3. Fresh(b) \in ToolState
  <2>1. ServerID(b) \in ID
    BY <1>1, IDType, LenProperties DEF ServerID, TypeOK
  <2>2. << >> \in Seq(Nat)
    BY EmptySeq
  <2> QED BY <1>1, <2>1, <2>2 DEF Fresh, ToolState
<1>4. NoTool \in ToolState
  BY IDType, EmptySeq DEF NoTool, ToolState, Name
<1> HIDE DEF k
<1>5. ASSUME NEW st \in ToolState
      PROVE  [st EXCEPT !.frags = Append(@, k - 1)] \in ToolState
  <2>1. st.frags \in Seq(Nat)
    BY <1>5 DEF ToolState
  <2>2. Append(st.frags, k - 1) \in Seq(Nat)
    BY <1>2, <2>1
  <2> QED BY <1>5, <2>2 DEF ToolState
<1>6. LineTool(b, k) \in ToolState
  <2>1. b \in DOMAIN tools => tools[b] \in ToolState
    BY DEF TypeOK
  <2>2. b \in DOMAIN tools => [tools[b] EXCEPT !.frags = Append(@, k - 1)] \in ToolState
    BY <1>5, <2>1
  <2>3. [NoTool EXCEPT !.frags = Append(@, k - 1)] \in ToolState
    BY <1>4, <1>5
  <2> QED BY <1>3, <2>1, <2>2, <2>3 DEF LineTool
<1>7. DOMAIN tools \subseteq DOMAIN answer /\ tools \in [DOMAIN tools -> ToolState]
  BY DEF TypeOK
<1>8. DOMAIN LineTools(b, k) \subseteq DOMAIN answer /\ LineTools(b, k) \in [DOMAIN LineTools(b, k) -> ToolState]
  BY <1>6, <1>7, ToolStateType DEF LineTools
<1>9. tools' = LineTools(b, k)
  BY LineEffect DEF k
<1>10. \A j \in 1..LinesOf(b) : LineText(b, j) \in Seq(Event) /\ LineCall(b, j) \in Seq(Event)
  <2> TAKE j \in 1..LinesOf(b)
  <2>1. LineText(b, j) \in Seq(Event)
    <3>1. CASE ~answer[b].call /\ FragOf(j) \in 1..answer[b].frags
      <4>1. Token(b, FragOf(j)) \in Event
        BY <1>1, <3>1, EventType
      <4> QED BY <3>1, <4>1 DEF LineText
    <3>2. CASE ~(~answer[b].call /\ FragOf(j) \in 1..answer[b].frags)
      BY <3>2, EmptySeq DEF LineText
    <3> QED BY <3>1, <3>2
  <2>2. b \in DOMAIN tools => <<ToolCall(b)>> \in Seq(Event)
    BY ToolCallType
  <2>3. <<Call(b, <<answer[b].name, index + 1>>, answer[b].name, Frags(answer[b].frags))>> \in Seq(Event)
    <3>1. index + 1 \in Nat /\ Frags(answer[b].frags) \in Seq(Nat)
      <4> DEFINE n == answer[b].frags
      <4>1. n \in Int /\ index + 1 \in Nat
        BY <1>1
      <4> HIDE DEF n
      <4>2. Frags(n) \in Seq(Nat)
        BY <4>1, FragsType
      <4> QED BY <4>1, <4>2 DEF n
    <3>2. <<answer[b].name, index + 1>> \in ID
      BY <1>1, <3>1, IDType
    <3> QED BY <1>1, <3>1, <3>2, EventType
  <2>4. LineCall(b, j) \in Seq(Event)
    BY <2>2, <2>3, EmptySeq DEF LineCall
  <2> QED BY <2>1, <2>4
<1>11. index' \in Nat /\ sent' \in [DOMAIN answer -> Nat]
  <2>1. sent \in [DOMAIN answer -> Nat] /\ sent' = [sent EXCEPT ![b] = @ + 1]
    BY DEF TypeOK, ReadsLine
  <2>2. sent' \in [DOMAIN answer -> Nat]
    BY <1>1, <2>1
  <2> QED BY <1>1, <2>2, LineEffect
<1> QED BY <1>6, <1>8, <1>9, <1>10, <1>11 DEF k

LEMMA ReadLineType ==
  ASSUME TypeOK, OnlyCalls, NEW b \in DOMAIN answer, ReadsLine(b)
  PROVE  TypeOK'
<1> DEFINE evs == IF answer[b].call THEN LineCall(b, sent[b] + 1) ELSE LineText(b, sent[b] + 1)
<1>1. evs \in Seq(Event) /\ SendEvents(evs)
  BY LineEffect, LineTypes
<1> HIDE DEF evs
<1>2. pending' \in Seq(Event)
  BY <1>1, SendsType
<1>3. UNCHANGED <<provider, caller, cancelled, pc, tries, errors, hist, answer, tail,
                 damage, rd, queue, text, calls, streamErr>>
  BY DEF ReadsLine
<1>4. /\ DOMAIN tools' \subseteq DOMAIN answer /\ tools' \in [DOMAIN tools' -> ToolState]
      /\ index' \in Nat /\ sent' \in [DOMAIN answer -> Nat]
  BY LineTypes
<1> QED BY <1>2, <1>3, <1>4 DEF TypeOK

LEMMA ReaderType ==
  ASSUME TypeOK, OnlyCalls, Reader
  PROVE  TypeOK'
<1> USE DEF response, reader, collected
<1>1. CASE ReadLine
  BY <1>1, ReadLineIs, ReadLineType
<1>2. CASE SkipLine
  <2>1. sent' \in [DOMAIN answer -> Nat] /\ tail' \in Nat
    <3>1. CASE \E b \in DOMAIN answer : MaySend(b) /\ sent' = [sent EXCEPT ![b] = @ + 1] /\ tail' = tail
      BY <3>1 DEF TypeOK
    <3>2. CASE tail' = tail + 1 /\ sent' = sent
      BY <3>2 DEF TypeOK
    <3> QED BY <1>2, <3>1, <3>2 DEF SkipLine
  <2>2. UNCHANGED <<provider, caller, cancelled, pc, tries, errors, hist, answer, reader,
                 queue, collected>> /\ damage' = damage \union {"garbled"}
    BY <1>2 DEF SkipLine
  <2> QED BY <2>1, <2>2 DEF TypeOK
<1>3. CASE ReadEndLine
  <2>1. pending' \in Seq(Event)
    <3>1. CASE EmitToolStates
      <4>1. PICK order \in SetToSeqs(DOMAIN tools) : SendEvents(ToolEvents(order))
        BY <3>1 DEF EmitToolStates, ToolEvents, ToolCall
      <4>2. ToolEvents(order) \in Seq(Event)
        BY OrdersType
      <4> QED BY <4>1, <4>2, SendsType
    <3>2. CASE SendEvents(<<Done>>)
      <4>1. <<Done>> \in Seq(Event)
        BY EventType
      <4> QED BY <3>2, <4>1, SendsType
    <3> QED BY <1>3, <3>1, <3>2 DEF ReadEndLine
  <2>2. tail' \in Nat /\ (rd' = rd \/ rd' = "closing")
    BY <1>3 DEF ReadEndLine, TypeOK
  <2>3. UNCHANGED <<provider, caller, cancelled, pc, tries, errors, hist, answer, sent,
                 damage, tools, index, queue, collected>>
    BY <1>3 DEF ReadEndLine
  <2> QED BY <2>1, <2>2, <2>3 DEF TypeOK
<1>4. ASSUME NEW r \in BOOLEAN, EndOfBody(r) PROVE pending' \in Seq(Event) /\ rd' = "closing"
  <2>1. <<Done>> \in Seq(Event) /\ <<Error>> \in Seq(Event) /\ <<>> \in Seq(Event)
    BY EventType, EmptySeq
  <2>2. PICK evs \in Seq(Event) : SendEvents(evs)
    BY <1>4, <2>1 DEF EndOfBody
  <2> QED BY <1>4, <2>2, SendsType DEF EndOfBody
<1>5. CASE ReadEOF
  <2>1. pending' \in Seq(Event) /\ rd' = "closing"
    BY <1>4, <1>5 DEF ReadEOF
  <2>2. damage' \subseteq {"garbled", "short", "broken"}
    BY <1>5 DEF ReadEOF, TypeOK
  <2>3. UNCHANGED <<provider, caller, cancelled, pc, tries, errors, hist, answer, sent,
                 tail, tools, index, queue, collected>>
    BY <1>5 DEF ReadEOF
  <2> QED BY <2>1, <2>2, <2>3 DEF TypeOK
<1>6. CASE ReadBroken
  <2>1. pending' \in Seq(Event) /\ rd' = "closing"
    BY <1>4, <1>6 DEF ReadBroken
  <2>2. damage' \subseteq {"garbled", "short", "broken"}
    BY <1>6 DEF ReadBroken, TypeOK
  <2>3. UNCHANGED <<provider, caller, cancelled, pc, tries, errors, hist, answer, sent,
                 tail, tools, index, queue, collected>>
    BY <1>6 DEF ReadBroken
  <2> QED BY <2>1, <2>2, <2>3 DEF TypeOK
<1>7. CASE ReadCancelled
  <2>1. pending' \in Seq(Event) /\ rd' = "closing"
    <3>1. <<Error>> \in Seq(Event)
      BY EventType
    <3> QED BY <1>7, <3>1, SendsType DEF ReadCancelled
  <2>2. UNCHANGED <<provider, caller, cancelled, pc, tries, errors, hist, response,
                 tools, index, queue, collected>>
    BY <1>7 DEF ReadCancelled
  <2> QED BY <2>1, <2>2 DEF TypeOK
<1>8. CASE ReadFull
  <2>1. pending' \in Seq(Event) /\ rd' = "closing"
    <3>1. <<Error>> \in Seq(Event) /\ <<Done>> \in Seq(Event)
      BY EventType
    <3>2. FullEvents \o <<Done>> \in Seq(Event)
      <4> DEFINE d == <<Done>>
      <4> HIDE DEF d
      <4>1. d \in Seq(Event)
        BY <3>1 DEF d
      <4>2. FullEvents \o d \in Seq(Event)
        BY <4>1, FullEventsType, ConcatProperties
      <4> QED BY <4>2 DEF d
    <3> QED BY <1>8, <3>1, <3>2, SendsType DEF ReadFull
  <2>2. damage' \subseteq {"garbled", "short", "broken"}
    BY <1>8 DEF ReadFull, TypeOK
  <2>3. UNCHANGED <<provider, caller, cancelled, pc, tries, errors, hist, answer, sent,
                 tail, tools, index, queue, collected>>
    BY <1>8 DEF ReadFull
  <2> QED BY <2>1, <2>2, <2>3 DEF TypeOK
<1>9. CASE Emit
  <2>1. queue' \in Seq(Event) /\ pending' \in Seq(Event)
    BY <1>9, HeadTailProperties, AppendProperties DEF Emit, TypeOK
  <2>2. UNCHANGED <<provider, caller, cancelled, pc, tries, errors, hist, response, rd,
                 tools, index, collected>>
    BY <1>9 DEF Emit
  <2> QED BY <2>1, <2>2 DEF TypeOK
<1>10. CASE Close
  BY <1>10 DEF Close, TypeOK
<1> QED BY <1>1, <1>2, <1>3, <1>5, <1>6, <1>7, <1>8, <1>9, <1>10 DEF Reader

LEMMA CallerType ==
  ASSUME TypeOK, Phases, Caller \/ CancelCtx \/ UNCHANGED vars
  PROVE  TypeOK'
<1> USE DEF response, reader, collected
<1>1. CASE ChatOK
  <2>1. PICK a \in Answers : answer' = a /\ sent' = [b \in DOMAIN a |-> 0]
    BY <1>1 DEF ChatOK
  <2>2. a \in Seq(Block)
    BY StreamAssumption DEF Block
  <2>3. DOMAIN tools' \subseteq DOMAIN answer' /\ tools' \in [DOMAIN tools' -> ToolState]
    <3>1. tools' = << >>
      BY <1>1 DEF ChatOK, Phases
    <3> QED BY <3>1
  <2>4. sent' \in [DOMAIN answer' -> Nat]
    BY <2>1
  <2>5. UNCHANGED <<provider, caller, cancelled, errors, hist, tail, damage, tools, index,
                 pending, queue, collected>> /\ rd' = "reading" /\ pc' = "recv" /\ tries' = 0
    BY <1>1 DEF ChatOK
  <2> QED BY <2>1, <2>2, <2>3, <2>4, <2>5 DEF TypeOK
<1>2. CASE ChatRetryable
  <2>1. CASE Loops /\ tries < LLMMaxRetries
    <3>1. tries' = tries + 1 /\ UNCHANGED <<provider, caller, cancelled, hist, queue, pc, errors, response, reader, collected>>
      BY <1>2, <2>1 DEF ChatRetryable
    <3> QED BY <3>1 DEF TypeOK
  <2>2. CASE ~(Loops /\ tries < LLMMaxRetries)
    <3>1. FailedCall /\ UNCHANGED <<provider, caller, cancelled, hist, queue>>
      BY <1>2, <2>2 DEF ChatRetryable
    <3> QED BY <3>1, FailedCallType
  <2> QED BY <2>1, <2>2
<1>3. CASE ChatError
  BY <1>3, FailedCallType DEF ChatError
<1>4. CASE Receive
  <2> DEFINE ev == Head(queue)
  <2>1. ev \in Event /\ queue' \in Seq(Event)
    BY <1>4 DEF Receive, TypeOK
  <2>2. /\ text' = IF ev.type = "token" THEN Append(text, <<ev.block, ev.frags[1]>>) ELSE text
        /\ calls' = IF ev.type = "call" /\ Loops THEN Append(calls, ev) ELSE calls
        /\ streamErr' = (streamErr \/ ev.type = "error")
        /\ pc' \in {"failed", pc}
        /\ UNCHANGED <<provider, caller, cancelled, tries, errors, hist, response, reader>>
    BY <1>4 DEF Receive
  <2> HIDE DEF ev
  <2>3. ev.type = "token" => <<ev.block, ev.frags[1]>> \in Nat \X Nat
    BY <2>1, EventType
  <2>4. text' \in Seq(Nat \X Nat) /\ calls' \in Seq(Event)
    <3> DEFINE P == Nat \X Nat
               z == <<ev.block, ev.frags[1]>>
    <3> HIDE DEF P, z
    <3>1. text \in Seq(P) /\ calls \in Seq(Event) /\ (ev.type = "token" => z \in P)
      BY <2>3 DEF TypeOK, P, z
    <3>2. /\ text' = IF ev.type = "token" THEN Append(text, z) ELSE text
          /\ calls' = IF ev.type = "call" /\ Loops THEN Append(calls, ev) ELSE calls
      BY <2>2 DEF z
    <3>3. text' \in Seq(P) /\ calls' \in Seq(Event)
      BY <2>1, <3>1, <3>2, AppendProperties
    <3> QED BY <3>3 DEF P
  <2>5. streamErr' \in BOOLEAN
    BY <2>2
  <2> QED BY <2>1, <2>2, <2>4, <2>5 DEF TypeOK
<1>5. CASE StreamFailed
  BY <1>5, FailedCallType DEF StreamFailed
<1>6. CASE AnswerText
  BY <1>6 DEF AnswerText, TypeOK
<1>7. CASE MarshalFails
  BY <1>7 DEF MarshalFails, TypeOK
<1>8. CASE RunTools
  <2>1. hist' \in Seq(Message)
    <3> DEFINE x == Assistant(calls)
               y == Results(calls)
    <3>1. hist' = hist \o <<x, y>> /\ x \in Message /\ y \in Message /\ hist \in Seq(Message)
      BY <1>8, TurnTypes DEF RunTools, TypeOK
    <3> HIDE DEF x, y
    <3>2. <<x, y>> \in Seq(Message)
      BY <3>1
    <3> QED BY <3>1, <3>2, ConcatProperties
  <2>2. errors' = 0 /\ tries' = 0 /\ UNCHANGED <<provider, caller, cancelled, queue>>
    BY <1>8 DEF RunTools
  <2>3. CASE NextIteration
    BY <2>1, <2>2, <2>3, NextIterationType DEF TypeOK
  <2>4. CASE pc' = "ok" /\ UNCHANGED <<response, reader, collected>>
    BY <2>1, <2>2, <2>4 DEF TypeOK
  <2> QED BY <1>8, <2>3, <2>4 DEF RunTools
<1>9. CASE CancelCtx
  BY <1>9 DEF CancelCtx, TypeOK
<1>10. CASE UNCHANGED vars
  BY <1>10 DEF vars, TypeOK
<1> QED BY <1>1, <1>2, <1>3, <1>4, <1>5, <1>6, <1>7, <1>8, <1>9, <1>10 DEF Caller

-----------------------------------------------------------------------------
(* The phases of a call.                                                   *)

LEMMA FailedCallPhases ==
  ASSUME TypeOK, Phases, FailedCall, UNCHANGED <<provider, caller, cancelled, hist, queue>>,
         pc = "chat" \/ Drained
  PROVE  Phases'
<1>1. queue = <<>> /\ rd # "reading"
  BY DEF Phases, Drained
<1>2. CASE Loops /\ errors < LLMMaxErrors
  <2>1. NextIteration
    BY <1>2 DEF FailedCall
  <2> QED BY <1>1, <2>1 DEF Phases, NextIteration, NoText
<1>3. CASE ~(Loops /\ errors < LLMMaxErrors)
  <2>1. pc' = "failed" /\ UNCHANGED <<response, reader, collected>>
    BY <1>3 DEF FailedCall
  <2> QED BY <1>1, <2>1 DEF Phases, response, reader, collected, Loops, Streaming, Flow
<1> QED BY <1>2, <1>3

LEMMA PhasesStep ==
  ASSUME TypeOK, Phases, [Next]_vars
  PROVE  Phases'
<1> USE DEF response, reader, collected, Loops, Streaming
<1>1. CASE ReadLine
  BY <1>1 DEF ReadLine, Scanning, Phases
<1>2. CASE SkipLine
  BY <1>2 DEF SkipLine, Scanning, Phases
<1>3. CASE ReadEndLine
  BY <1>3 DEF ReadEndLine, Scanning, Phases
<1>4. CASE ReadEOF
  BY <1>4 DEF ReadEOF, Scanning, EndOfBody, Phases
<1>5. CASE ReadBroken
  BY <1>5 DEF ReadBroken, EndOfBody, Phases
<1>6. CASE ReadCancelled
  BY <1>6 DEF ReadCancelled, Phases
<1>7. CASE ReadFull
  BY <1>7 DEF ReadFull, Phases
<1>8. CASE Emit
  <2>1. rd # "off" /\ rd # "closed"
    BY <1>8 DEF Emit, Phases
  <2>2. ~Streaming => rd # "reading"
    <3>1. pending \in Seq(Event) /\ queue \in Seq(Event) /\ pending # <<>>
      BY <1>8 DEF Emit, TypeOK
    <3>2. queue \o pending # <<>>
      BY <3>1, ConcatEmptySeq, SMTT(30)
    <3> QED BY <3>2 DEF Phases, Flow
  <2>3. UNCHANGED <<provider, caller, cancelled, pc, tries, errors, hist, response, rd,
                 tools, index, collected>>
    BY <1>8 DEF Emit
  <2> QED BY <2>1, <2>2, <2>3 DEF Phases
<1>9. CASE Close
  BY <1>9 DEF Close, Phases
<1>10. CASE ChatOK
  <2>1. /\ rd' = "reading" /\ pc' = "recv" /\ rd = "off"
        /\ UNCHANGED <<provider, caller, cancelled, errors, hist, tail, damage, tools, index,
                 pending, queue, collected>>
    BY <1>10 DEF ChatOK, Phases
  <2>2. <<>> \o <<>> = <<>>
    BY EmptySeq, ConcatEmptySeq
  <2> QED BY <2>1, <2>2 DEF Phases, Flow
<1>11. CASE ChatRetryable
  <2>1. CASE Loops /\ tries < LLMMaxRetries
    BY <1>11, <2>1 DEF ChatRetryable, Phases
  <2>2. CASE ~(Loops /\ tries < LLMMaxRetries)
    BY <1>11, <2>2, FailedCallPhases DEF ChatRetryable
  <2> QED BY <2>1, <2>2
<1>12. CASE ChatError
  BY <1>12, FailedCallPhases DEF ChatError
<1>13. CASE Receive
  <2>1. rd # "off" /\ (~Streaming => rd # "reading")
    <3>1. pending \in Seq(Event) /\ queue \in Seq(Event) /\ queue # <<>>
      BY <1>13 DEF Receive, TypeOK
    <3>2. queue \o pending # <<>>
      BY <3>1, ConcatEmptySeq, SMTT(30)
    <3> QED BY <3>1, <3>2 DEF Phases, Flow
  <2>2. /\ pc' = IF Head(queue).type = "error" /\ ~Loops THEN "failed" ELSE pc
        /\ pc = "recv"
        /\ ~Loops => calls' = calls
        /\ UNCHANGED <<provider, caller, cancelled, tries, errors, hist, response, reader>>
    BY <1>13 DEF Receive
  <2> QED BY <2>1, <2>2 DEF Phases
<1>14. CASE StreamFailed
  BY <1>14, FailedCallPhases DEF StreamFailed
<1>15. CASE AnswerText
  BY <1>15 DEF AnswerText, Drained, Phases
<1>16. CASE MarshalFails
  BY <1>16 DEF MarshalFails, Drained, Phases
<1>17. CASE RunTools
  <2>1. Drained /\ UNCHANGED <<provider, caller, cancelled, queue>>
    BY <1>17 DEF RunTools
  <2>2. CASE NextIteration
    BY <2>1, <2>2 DEF Drained, Phases, NextIteration, NoText
  <2>3. CASE pc' = "ok" /\ UNCHANGED <<response, reader, collected>>
    BY <2>1, <2>3 DEF Drained, Phases, Flow
  <2> QED BY <1>17, <2>2, <2>3 DEF RunTools
<1>18. CASE CancelCtx
  BY <1>18 DEF CancelCtx, Phases, Flow
<1>19. CASE UNCHANGED vars
  BY <1>19 DEF vars, Phases, Flow
<1> QED BY <1>1, <1>2, <1>3, <1>4, <1>5, <1>6, <1>7, <1>8, <1>9, <1>10, <1>11, <1>12, <1>13,
           <1>14, <1>15, <1>16, <1>17, <1>18, <1>19 DEF Next, Reader, Caller

-----------------------------------------------------------------------------
(* Steps that read nothing: no response, or the one there was.             *)

LEMMA OffResponse == Phases /\ rd = "off" => Response
<1> SUFFICES ASSUME Phases, rd = "off" PROVE Response
  OBVIOUS
<1>1. /\ answer = <<>> /\ sent = <<>> /\ tail = 0 /\ tools = << >>
      /\ pending = <<>> /\ queue = <<>> /\ text = <<>> /\ calls = <<>>
  BY DEF Phases
<1>2. <<>> \o <<>> = <<>>
  BY EmptySeq, ConcatEmptySeq
<1>3. Flow = <<>>
  BY <1>1, <1>2 DEF Flow
<1>4. FlatMap(TextOf, <<>>) = <<>> /\ FlatMap(CallOf, <<>>) = <<>>
  BY FlatMapEmpty
<1>5. TextOut = <<>> /\ CallsOut = <<>>
  BY <1>1, <1>2, <1>3, <1>4 DEF TextOut, CallsOut
<1>6. DOMAIN answer = {} /\ DOMAIN tools = {} /\ Range(TextOut) = {} /\ Range(CallsOut) = {}
  BY <1>1, <1>5 DEF Range
<1>7. Fragments = {}
  BY <1>6 DEF Fragments
<1>8. \A R : Sorted(<<>>, R)
  BY SortedShort
<1>9. LinesInOrder
  BY <1>6 DEF LinesInOrder
<1>10. TextSound
  BY <1>5, <1>6, <1>7, <1>8 DEF TextSound
<1>11. CallsSound
  BY <1>5, <1>6, <1>8 DEF CallsSound
<1>12. ToolsSound
  BY <1>1, <1>6 DEF ToolsSound
<1>13. IDsSound
  BY <1>5, <1>6, <1>8 DEF IDsSound, ServerIDs
<1>14. Accounted
  BY DEF Accounted
<1> QED BY <1>9, <1>10, <1>11, <1>12, <1>13, <1>14 DEF Response

LEMMA NextOffResponse == Phases' /\ rd' = "off" => Response'
<1>1. (Phases /\ rd = "off" => Response)'
  BY OffResponse, PTL
<1> QED BY <1>1

\* The suffix of a sorted sequence.
LEMMA CallsSuffix ==
  ASSUME TypeOK, TypeOK', NEW s \in Seq(Event), CallsOut = s \o CallsOut'
  PROVE  /\ Range(CallsOut') \subseteq Range(CallsOut)
         /\ \A R : Sorted(CallsOut, R) => Sorted(CallsOut', R)
<1> DEFINE c == CallsOut'
<1>1. c \in Seq(Event)
  <2>1. (TypeOK => CallsOut \in Seq(Event))'
    BY FlowTypes, PTL
  <2> QED BY <2>1
<1>2. CallsOut = s \o c
  OBVIOUS
<1> HIDE DEF c
<1>3. Range(s \o c) = Range(s) \union Range(c)
  BY <1>1, ConcatRange
<1>4. \A R : Sorted(s \o c, R) => Sorted(c, R)
  BY <1>1, SortedConcat
<1> QED BY <1>2, <1>3, <1>4 DEF c

\* A step that leaves the response and its reader alone, and moves at most
\* events along the channel.
Keeps ==
  /\ UNCHANGED <<provider, caller, response, tools, index>>
  /\ TextOut' = TextOut /\ (Errs' <=> Errs)
  /\ Loops => CallsOut' = CallsOut
  /\ \E s \in Seq(Event) : CallsOut = s \o CallsOut'
  /\ rd' = rd \/ (rd = "closing" /\ rd' = "closed")

LEMMA KeepsResponse ==
  ASSUME TypeOK, TypeOK', Response, Keeps
  PROVE  Response'
<1> USE DEF response, Streaming, Loops
<1>1. UNCHANGED <<provider, caller, answer, sent, tail, damage, tools, index>>
  BY DEF Keeps
<1>2. /\ TextOut' = TextOut /\ (Errs' <=> Errs) /\ (Loops => CallsOut' = CallsOut)
      /\ rd' = rd \/ (rd = "closing" /\ rd' = "closed")
  BY DEF Keeps
<1>3. /\ Range(CallsOut') \subseteq Range(CallsOut)
      /\ \A R : Sorted(CallsOut, R) => Sorted(CallsOut', R)
  <2>1. PICK s \in Seq(Event) : CallsOut = s \o CallsOut'
    BY DEF Keeps
  <2> QED BY <2>1, CallsSuffix
<1>4. /\ (\A b : LinesOf(b)' = LinesOf(b)) /\ AllSent' = AllSent /\ Fragments' = Fragments
      /\ CallOrder' = CallOrder /\ Unnoticed' = Unnoticed
      /\ (\A k : TokenLine(k)' = TokenLine(k)) /\ (\A b : Kept(b)' = Kept(b) /\ Known(b)' = Known(b))
  BY <1>1 DEF LinesOf, AllSent, Fragments, CallOrder, Unnoticed, TokenLine, Kept, Known
<1>5. LinesInOrder'
  BY <1>1, <1>4 DEF LinesInOrder, Response
<1>6. TextSound'
  BY <1>1, <1>2, <1>4 DEF TextSound, Response
<1>7. CallsSound'
  BY <1>1, <1>3, <1>4 DEF CallsSound, Response
<1>8. ToolsSound'
  BY <1>1, <1>2, <1>4 DEF ToolsSound, Response
<1>9. IDsSound'
  BY <1>1, <1>3 DEF IDsSound, ServerIDs, Numbered, Response
<1>10. Accounted'
  BY <1>1, <1>2, <1>4 DEF Accounted, TextWhole, CallsWhole, Response
<1> QED BY <1>5, <1>6, <1>7, <1>8, <1>9, <1>10 DEF Response

LEMMA StillKeeps ==
  ASSUME TypeOK, UNCHANGED <<provider, caller, response, tools, index, pending, queue, collected>>,
         rd' = rd \/ (rd = "closing" /\ rd' = "closed")
  PROVE  Keeps
<1>1. TextOut' = TextOut /\ CallsOut' = CallsOut /\ (Errs' <=> Errs)
  BY DEF collected, Flow, TextOut, CallsOut, Errs
<1>2. <<>> \in Seq(Event) /\ CallsOut = <<>> \o CallsOut
  BY FlowTypes, EmptySeq, ConcatEmptySeq
<1> QED BY <1>1, <1>2 DEF Keeps

LEMMA FailedCallResponse ==
  ASSUME TypeOK, Phases, Response, TypeOK', Phases', FailedCall,
         UNCHANGED <<provider, caller, cancelled, hist, queue>>
  PROVE  Response'
<1>1. CASE Loops /\ errors < LLMMaxErrors
  <2>1. rd' = "off"
    BY <1>1 DEF FailedCall, NextIteration
  <2> QED BY <2>1, NextOffResponse
<1>2. CASE ~(Loops /\ errors < LLMMaxErrors)
  <2>1. UNCHANGED <<response, reader, collected>>
    BY <1>2 DEF FailedCall
  <2>2. Keeps
    BY <2>1, StillKeeps DEF reader
  <2> QED BY <2>2, KeepsResponse
<1> QED BY <1>1, <1>2

\* A call has a line at least.
CallLines == \A b \in DOMAIN answer : LinesOf(b) \in Nat /\ (answer[b].call => LinesOf(b) # 0)

LEMMA HasCallLines == TypeOK => CallLines
BY LinesIs, BlockType, ProviderIs DEF CallLines

\* The caller starts to read an answer: nothing of it was sent yet.
LEMMA ChatOKResponse ==
  ASSUME TypeOK, Phases, Response, TypeOK', Phases', ChatOK
  PROVE  Response'
<1>1. /\ answer = <<>> /\ tail = 0 /\ tools = << >> /\ damage = {}
      /\ pending = <<>> /\ queue = <<>> /\ text = <<>> /\ calls = <<>>
  BY DEF Phases, ChatOK
<1>2. PICK a \in Answers : answer' = a /\ sent' = [b \in DOMAIN a |-> 0]
  BY DEF ChatOK
<1>3. /\ UNCHANGED <<provider, caller, cancelled, tail, damage, tools, index,
                     pending, queue, collected>> /\ rd' = "reading"
  BY DEF ChatOK
<1>4. <<>> \o <<>> = <<>>
  BY EmptySeq, ConcatEmptySeq
<1>5. Flow' = <<>>
  BY <1>1, <1>3, <1>4 DEF Flow
<1>6. FlatMap(TextOf, <<>>) = <<>> /\ FlatMap(CallOf, <<>>) = <<>>
  BY FlatMapEmpty
<1>7. TextOut' = <<>> /\ CallsOut' = <<>>
  BY <1>1, <1>3, <1>4, <1>5, <1>6 DEF TextOut, CallsOut, collected
<1>8. DOMAIN tools' = {} /\ Range(TextOut') = {} /\ Range(CallsOut') = {}
  BY <1>1, <1>3, <1>7 DEF Range
<1>9. \A R : Sorted(<<>>, R)
  BY SortedShort
<1>10. ASSUME NEW b \in DOMAIN answer'
       PROVE  sent'[b] = 0 /\ LinesOf(b)' \in Nat
  <2>1. sent'[b] = 0
    BY <1>2
  <2>2. (TypeOK => CallLines)'
    BY HasCallLines, PTL
  <2> QED BY <2>1, <2>2 DEF CallLines
<1>11. LinesInOrder'
  BY <1>10 DEF LinesInOrder
<1>12. TextSound'
  <2>1. \A k \in Nat : k > 0 => ~(TokenLine(k)' <= 0)
    BY DEF TokenLine
  <2>2. \A x \in Fragments' : ~(TokenLine(x[2])' <= sent'[x[1]])
    <3> TAKE x \in Fragments'
    <3>1. PICK b \in DOMAIN answer' : x \in {b} \X (IF answer'[b].call THEN {} ELSE 1..answer'[b].frags)
      BY DEF Fragments
    <3>2. x[1] = b /\ x[2] \in 1..answer'[b].frags
      BY <3>1
    <3>3. a[b].frags \in Nat
      <4>1. a \in Seq(Block) /\ b \in DOMAIN a
        BY <1>2 DEF TypeOK
      <4>2. a[b] \in Block
        BY <4>1
      <4> QED BY <4>2 DEF Block
    <3>4. x[2] \in Nat /\ x[2] > 0
      BY <1>2, <3>2, <3>3
    <3> QED BY <1>10, <2>1, <3>2, <3>4
  <2> QED BY <1>7, <1>8, <1>9, <2>2 DEF TextSound
<1>13. CallsSound'
  BY <1>7, <1>8, <1>9 DEF CallsSound
<1>14. ToolsSound'
  <2>1. \A b \in DOMAIN answer' : ~Kept(b)'
    BY <1>10 DEF Kept
  <2>2. \A b \in DOMAIN answer' : answer'[b].call => LinesOf(b)' # 0
    <3>1. (TypeOK => CallLines)'
      BY HasCallLines, PTL
    <3> QED BY <3>1 DEF CallLines
  <2> QED BY <1>1, <1>3, <1>8, <1>10, <2>1, <2>2 DEF ToolsSound
<1>15. IDsSound'
  BY <1>7, <1>8, <1>9 DEF IDsSound, ServerIDs
<1>16. Accounted'
  BY <1>3 DEF Accounted
<1> QED BY <1>11, <1>12, <1>13, <1>14, <1>15, <1>16 DEF Response

\* Every step but those of a reader that reads.
LEMMA QuietResponse ==
  ASSUME TypeOK, Phases, Response, TypeOK', Phases',
         Emit \/ Close \/ Caller \/ CancelCtx \/ UNCHANGED vars
  PROVE  Response'
<1>1. CASE Emit
  <2>1. Keeps
    <3>1. <<>> \in Seq(Event) /\ CallsOut = <<>> \o CallsOut
      BY FlowTypes, EmptySeq, ConcatEmptySeq
    <3>2. UNCHANGED <<provider, caller, response, tools, index, rd>>
      BY <1>1 DEF Emit
    <3>3. TextOut' = TextOut /\ CallsOut' = CallsOut /\ Errs' = Errs
      BY <1>1, EmitMoves
    <3>4. \E s \in Seq(Event) : CallsOut = s \o CallsOut'
      BY <3>1, <3>3
    <3> QED BY <3>2, <3>3, <3>4 DEF Keeps
  <2> QED BY <2>1, KeepsResponse
<1>2. CASE Close
  <2>1. Keeps
    BY <1>2, StillKeeps DEF Close
  <2> QED BY <2>1, KeepsResponse
<1>3. CASE ChatOK
  BY <1>3, ChatOKResponse
<1>4. CASE ChatRetryable
  <2>1. CASE Loops /\ tries < LLMMaxRetries
    <3>1. Keeps
      BY <1>4, <2>1, StillKeeps DEF ChatRetryable, reader
    <3> QED BY <3>1, KeepsResponse
  <2>2. CASE ~(Loops /\ tries < LLMMaxRetries)
    BY <1>4, <2>2, FailedCallResponse DEF ChatRetryable
  <2> QED BY <2>1, <2>2
<1>5. CASE ChatError
  BY <1>5, FailedCallResponse DEF ChatError
<1>6. CASE Receive
  <2>1. Keeps
    <3>1. UNCHANGED <<provider, caller, response, tools, index, rd>>
      BY <1>6 DEF Receive, reader
    <3> QED BY <1>6, <3>1, ReceiveMoves DEF Keeps
  <2> QED BY <2>1, KeepsResponse
<1>7. CASE StreamFailed
  BY <1>7, FailedCallResponse DEF StreamFailed
<1>8. CASE AnswerText
  <2>1. Keeps
    BY <1>8, StillKeeps DEF AnswerText, reader
  <2> QED BY <2>1, KeepsResponse
<1>9. CASE MarshalFails
  <2>1. Keeps
    BY <1>9, StillKeeps DEF MarshalFails, reader
  <2> QED BY <2>1, KeepsResponse
<1>10. CASE RunTools
  <2>1. CASE NextIteration
    <3>1. rd' = "off"
      BY <2>1 DEF NextIteration
    <3> QED BY <3>1, NextOffResponse
  <2>2. CASE pc' = "ok" /\ UNCHANGED <<response, reader, collected>>
    <3>1. Keeps
      BY <1>10, <2>2, StillKeeps DEF RunTools, reader
    <3> QED BY <3>1, KeepsResponse
  <2> QED BY <1>10, <2>1, <2>2 DEF RunTools
<1>11. CASE CancelCtx
  <2>1. Keeps
    BY <1>11, StillKeeps DEF CancelCtx, reader
  <2> QED BY <2>1, KeepsResponse
<1>12. CASE UNCHANGED vars
  <2>1. Keeps
    BY <1>12, StillKeeps DEF vars, response, collected
  <2> QED BY <2>1, KeepsResponse
<1> QED BY <1>1, <1>2, <1>3, <1>4, <1>5, <1>6, <1>7, <1>8, <1>9, <1>10, <1>11, <1>12 DEF Caller

-----------------------------------------------------------------------------
(* A line is read.                                                         *)

LEMMA FragmentsIs ==
  ASSUME TypeOK
  PROVE  \A x : x \in Fragments <=>
           /\ x \in Nat \X Nat /\ x[1] \in DOMAIN answer /\ ~answer[x[1]].call
           /\ x[2] \in 1..answer[x[1]].frags
<1> TAKE x
<1>1. ASSUME x \in Fragments
      PROVE  /\ x \in Nat \X Nat /\ x[1] \in DOMAIN answer /\ ~answer[x[1]].call
             /\ x[2] \in 1..answer[x[1]].frags
  <2>1. PICK b \in DOMAIN answer : x \in {b} \X (IF answer[b].call THEN {} ELSE 1..answer[b].frags)
    BY <1>1 DEF Fragments
  <2>2. ~answer[b].call /\ x \in {b} \X (1..answer[b].frags)
    BY <2>1
  <2>3. b \in Nat /\ answer[b].frags \in Nat
    BY BlockType
  <2> QED BY <2>2, <2>3
<1>2. ASSUME x \in Nat \X Nat, x[1] \in DOMAIN answer, ~answer[x[1]].call,
             x[2] \in 1..answer[x[1]].frags
      PROVE  x \in Fragments
  <2>1. x = <<x[1], x[2]>>
    BY <1>2
  <2>2. x \in {x[1]} \X (IF answer[x[1]].call THEN {} ELSE 1..answer[x[1]].frags)
    BY <1>2, <2>1
  <2> QED BY <1>2, <2>2 DEF Fragments
<1> QED BY <1>1, <1>2

\* The line that may be sent, and what the server sent before it.
SendsLine(b) ==
  /\ MaySend(b) /\ sent' = [sent EXCEPT ![b] = @ + 1]
  /\ UNCHANGED <<provider, caller, answer>>

LEMMA SendsLineIs ==
  ASSUME TypeOK, LinesInOrder, NEW b \in DOMAIN answer, SendsLine(b)
  PROVE  /\ LinesInOrder'
         /\ sent[b] \in Nat /\ LinesOf(b) \in Nat /\ sent[b] < LinesOf(b)
         /\ sent'[b] = sent[b] + 1 /\ \A c \in DOMAIN answer : c # b => sent'[c] = sent[c]
         /\ \A c : LinesOf(c)' = LinesOf(c)
         /\ Fragments' = Fragments /\ (\A j : TokenLine(j)' = TokenLine(j))
         /\ CallOrder' = CallOrder /\ (AllSent => FALSE)
<1>1. /\ sent[b] \in Nat /\ LinesOf(b) \in Nat /\ sent[b] < LinesOf(b) /\ b \in Nat
      /\ sent'[b] = sent[b] + 1 /\ \A c \in DOMAIN answer : c # b => sent'[c] = sent[c]
  BY BlockType, LinesIs DEF SendsLine, MaySend, TypeOK
<1>2. UNCHANGED <<provider, caller, answer>>
  BY DEF SendsLine
<1>3. /\ \A c : LinesOf(c)' = LinesOf(c)
      /\ Fragments' = Fragments /\ (\A j : TokenLine(j)' = TokenLine(j)) /\ CallOrder' = CallOrder
  BY <1>2 DEF LinesOf, Fragments, TokenLine, CallOrder, Streaming
<1>4. \A c \in DOMAIN answer : sent'[c] <= LinesOf(c)
  BY <1>1, LinesIs, BlockType DEF LinesInOrder
<1>5. ASSUME NEW c \in DOMAIN answer, NEW d \in DOMAIN answer, c < d, sent'[d] > 0,
             ~(provider = "openai" /\ (answer[c].call \/ answer[d].call))
      PROVE  sent'[c] = LinesOf(c)
  <2>1. CASE d = b
    <3>1. c \in 1..(b - 1) /\ c # b
      BY <1>5, <2>1, BlockType
    <3>2. sent[c] = LinesOf(c)
      BY <1>5, <2>1, <3>1 DEF SendsLine, MaySend
    <3> QED BY <1>1, <3>1, <3>2
  <2>2. CASE d # b
    <3>1. sent[d] > 0
      BY <1>1, <1>5, <2>2
    <3>2. sent[c] = LinesOf(c)
      BY <1>5, <3>1 DEF LinesInOrder
    <3> QED BY <1>1, <3>2
  <2> QED BY <2>1, <2>2
<1>6. LinesInOrder'
  BY <1>2, <1>3, <1>4, <1>5 DEF LinesInOrder
<1> QED BY <1>1, <1>3, <1>6 DEF AllSent

LEMMA SkipLineResponse ==
  ASSUME TypeOK, Phases, Response, TypeOK', SkipLine
  PROVE  Response'
<1> USE DEF response, reader, collected
<1>1. /\ UNCHANGED <<provider, caller, answer, rd, tools, index, pending, queue, text, calls, streamErr>>
      /\ damage' = damage \union {"garbled"} /\ rd = "reading" /\ Streaming
  BY DEF SkipLine, Scanning
<1>2. TextOut' = TextOut /\ CallsOut' = CallsOut
  BY <1>1 DEF TextOut, CallsOut, Flow
<1>3. "garbled" \in damage' /\ rd' = "reading" /\ Streaming'
  BY <1>1 DEF Streaming
<1>4. CASE \E b \in DOMAIN answer : SendsLine(b) /\ tail' = tail
  <2>1. PICK b \in DOMAIN answer : SendsLine(b) /\ tail' = tail
    BY <1>4
  <2>2. /\ LinesInOrder'
        /\ sent[b] \in Nat /\ LinesOf(b) \in Nat /\ sent[b] < LinesOf(b)
        /\ sent'[b] = sent[b] + 1 /\ \A c \in DOMAIN answer : c # b => sent'[c] = sent[c]
        /\ \A c : LinesOf(c)' = LinesOf(c)
        /\ Fragments' = Fragments /\ (\A j : TokenLine(j)' = TokenLine(j))
        /\ CallOrder' = CallOrder /\ (AllSent => FALSE)
    BY <2>1, SendsLineIs DEF Response
  <2>3. TextSound'
    <3>1. ASSUME NEW x \in Range(TextOut) PROVE x \in Fragments /\ TokenLine(x[2]) <= sent'[x[1]]
      <4>1. x \in Fragments /\ TokenLine(x[2]) <= sent[x[1]]
        BY <1>1 DEF Response, TextSound
      <4>2. x[1] \in DOMAIN answer /\ x[2] \in Nat
        BY <4>1, FragmentsIs
      <4> QED BY <2>2, <4>1, <4>2, BlockType DEF TokenLine
    <3> QED BY <1>2, <1>3, <2>2, <3>1 DEF Response, TextSound
  <2>4. CallsSound'
    <3>1. ASSUME NEW e \in Range(CallsOut)
          PROVE  /\ e.type = "call" /\ e.block \in DOMAIN answer /\ answer[e.block].call
                 /\ IF provider = "openai" THEN tail > 0 ELSE sent'[e.block] = LinesOf(e.block)
      BY <1>1, <2>2 DEF Response, CallsSound
    <3> QED BY <1>1, <1>2, <1>3, <2>1, <2>2, <3>1 DEF Response, CallsSound
  <2>5. ToolsSound'
    <3>1. ~(provider = "openai" /\ tail > 0)
      BY <2>2 DEF Response, ToolsSound
    <3> QED BY <1>1, <1>3, <2>1, <3>1 DEF Response, ToolsSound
  <2>6. IDsSound'
    BY <1>1, <1>2, <1>3 DEF Response, IDsSound, Numbered
  <2> QED BY <1>3, <2>2, <2>3, <2>4, <2>5, <2>6 DEF Response, Accounted
<1>5. CASE AllSent /\ tail' = tail + 1 /\ sent' = sent
  <2>1. /\ \A c : LinesOf(c)' = LinesOf(c)
        /\ Fragments' = Fragments /\ (\A j : TokenLine(j)' = TokenLine(j))
        /\ CallOrder' = CallOrder /\ AllSent'
    BY <1>1, <1>5 DEF LinesOf, Fragments, TokenLine, CallOrder, Streaming, AllSent
  <2>2. tail' > 0
    <3>1. tail \in Nat
      BY DEF TypeOK
    <3> QED BY <1>5, <3>1
  <2>3. LinesInOrder'
    BY <1>1, <1>5, <2>1 DEF Response, LinesInOrder
  <2>4. TextSound'
    BY <1>1, <1>2, <1>3, <1>5, <2>1 DEF Response, TextSound
  <2>5. CallsSound'
    BY <1>1, <1>2, <1>3, <1>5, <2>1, <2>2 DEF Response, CallsSound
  <2>6. ToolsSound'
    BY <1>1, <1>3, <2>1 DEF Response, ToolsSound
  <2>7. IDsSound'
    BY <1>1, <1>2, <1>3 DEF Response, IDsSound, Numbered
  <2> QED BY <1>3, <2>3, <2>4, <2>5, <2>6, <2>7 DEF Response, Accounted
<1>6. (\E b \in DOMAIN answer : SendsLine(b) /\ tail' = tail) \/ (AllSent /\ tail' = tail + 1 /\ sent' = sent)
  BY <1>1 DEF SkipLine, SendsLine
<1> QED BY <1>4, <1>5, <1>6

\* The line numbers of the fragments of a text.
LEMMA TokenLines ==
  /\ \A k \in Nat : TokenLine(k) \in Nat /\ (k > 0 => TokenLine(k) > 0)
  /\ \A j, k \in Nat : TokenLine(j) < TokenLine(k) <=> j < k
  /\ \A j, k \in Nat : TokenLine(j) = k <=> FragOf(k) = j
BY DEF TokenLine, FragOf

LEMMA ReadsLineIs ==
  ASSUME TypeOK, Response, NEW b \in DOMAIN answer, ReadsLine(b)
  PROVE  /\ OnlyCalls /\ SendsLine(b) /\ Streaming
         /\ rd = "reading" /\ rd' = "reading" /\ sent[b] + 1 \in 1..LinesOf(b)
         /\ ~answer[b].call =>
              /\ TextOut' = TextOut \o FlatMap(TextOf, LineText(b, sent[b] + 1))
              /\ CallsOut' = CallsOut
         /\ answer[b].call =>
              /\ TextOut' = TextOut
              /\ CallsOut' = CallsOut \o LineCall(b, sent[b] + 1)
<1>1. OnlyCalls
  BY DEF Response, ToolsSound, OnlyCalls
<1>2. SendsLine(b) /\ rd = "reading" /\ rd' = "reading" /\ Streaming
  BY DEF ReadsLine, SendsLine, Scanning
<1> DEFINE k == sent[b] + 1
<1>3. k \in 1..LinesOf(b)
  BY <1>1, LineEffect
<1>4. LineText(b, k) \in Seq(Event) /\ LineCall(b, k) \in Seq(Event)
  BY <1>1, <1>3, LineTypes
<1>5. UNCHANGED <<queue, text, calls, streamErr>>
  BY DEF ReadsLine
<1>6. SendEvents(IF answer[b].call THEN LineCall(b, k) ELSE LineText(b, k))
  BY <1>1, LineEffect
<1> HIDE DEF k
<1>7. CASE ~answer[b].call
  <2>1. Adds(LineText(b, k))
    BY <1>4, <1>5, <1>6, <1>7, SendAdds
  <2>2. CASE FragOf(k) \in 1..answer[b].frags
    <3>1. LineText(b, k) = <<Token(b, FragOf(k))>> /\ b \in Nat /\ FragOf(k) \in Nat
      BY <1>7, <2>2, BlockType DEF LineText
    <3>2. CallsOut' = CallsOut
      BY <2>1, <3>1, AddsToken
    <3> QED BY <1>1, <1>2, <1>3, <1>7, <2>1, <3>2 DEF k, Adds
  <2>3. CASE FragOf(k) \notin 1..answer[b].frags
    <3>1. LineText(b, k) = << >>
      BY <1>7, <2>3 DEF LineText
    <3>2. CallsOut' = CallsOut
      BY <2>1, <3>1, AddsNothing
    <3> QED BY <1>1, <1>2, <1>3, <1>7, <2>1, <3>2 DEF k, Adds
  <2> QED BY <2>2, <2>3
<1>8. CASE answer[b].call
  <2>1. Adds(LineCall(b, k))
    BY <1>4, <1>5, <1>6, <1>8, SendAdds
  <2>2. CASE LineCall(b, k) = << >>
    <3>1. TextOut' = TextOut /\ CallsOut' = CallsOut
      BY <2>1, <2>2, AddsNothing
    <3>2. CallsOut \o << >> = CallsOut
      BY FlowTypes, ConcatEmptySeq
    <3> QED BY <1>1, <1>2, <1>3, <1>8, <2>2, <3>1, <3>2 DEF k
  <2>3. CASE LineCall(b, k) # << >>
    <3>1. \E e : e.type = "call" /\ LineCall(b, k) = <<e>>
      BY <2>3 DEF LineCall, ToolCall, Call
    <3>2. PICK e : e.type = "call" /\ LineCall(b, k) = <<e>>
      BY <3>1
    <3>3. e \in Event
      <4>1. <<e>> \in Seq(Event)
        BY <1>4, <3>2
      <4> QED BY <4>1
    <3>4. TextOut' = TextOut /\ CallsOut' = CallsOut \o <<e>>
      BY <2>1, <3>2, <3>3, AddsCall
    <3> QED BY <1>1, <1>2, <1>3, <1>8, <3>2, <3>4 DEF k
  <2> QED BY <2>2, <2>3
<1> QED BY <1>7, <1>8

LEMMA ReadsLineText ==
  ASSUME TypeOK, Phases, Response, NEW b \in DOMAIN answer, ReadsLine(b)
  PROVE  TextSound'
<1> DEFINE k == sent[b] + 1
           z == <<b, FragOf(k)>>
<1>1. /\ sent[b] \in Nat /\ LinesOf(b) \in Nat /\ sent[b] < LinesOf(b)
      /\ sent'[b] = sent[b] + 1 /\ \A c \in DOMAIN answer : c # b => sent'[c] = sent[c]
      /\ Fragments' = Fragments /\ (\A j : TokenLine(j)' = TokenLine(j))
  BY ReadsLineIs, SendsLineIs DEF Response
<1>2. /\ Streaming /\ answer' = answer /\ damage' = damage /\ provider' = provider
      /\ Before' = Before /\ Streaming'
  BY ReadsLineIs DEF ReadsLine, Before, Streaming
<1>3. \A x \in Fragments : x \in Nat \X Nat /\ x[1] \in DOMAIN answer /\ x[2] \in Nat /\ x[2] > 0
  BY FragmentsIs, BlockType
<1>4. \A x \in Range(TextOut) : x \in Fragments /\ TokenLine(x[2]) <= sent[x[1]]
  BY <1>2 DEF Response, TextSound
<1>5. k \in Nat /\ k = sent'[b] /\ b \in Nat
  BY <1>1, BlockType
<1>6. \A x \in Fragments : TokenLine(x[2]) <= sent[x[1]] => TokenLine(x[2]) <= sent'[x[1]]
  BY <1>1, <1>3, TokenLines, BlockType
<1> HIDE DEF k
<1>7. CASE ~answer[b].call /\ FragOf(k) \in 1..answer[b].frags
  <2>1. LineText(b, k) = <<Token(b, FragOf(k))>> /\ FragOf(k) \in Nat /\ answer[b].frags \in Nat
    BY <1>7, BlockType DEF LineText
  <2>2. z \in Fragments /\ TokenLine(FragOf(k)) = k
    <3>1. z \in Nat \X Nat /\ z[1] = b /\ z[2] = FragOf(k)
      BY <1>5, <2>1
    <3> HIDE DEF z
    <3>2. z \in Fragments
      BY <1>7, <3>1, FragmentsIs
    <3>3. TokenLine(FragOf(k)) = k
      BY <1>5, <2>1, TokenLines
    <3> QED BY <3>2, <3>3
  <2>3. TextOut' = TextOut \o <<z>>
    <3>1. FlatMap(TextOf, <<Token(b, FragOf(k))>>) = <<z>>
      <4>1. Token(b, FragOf(k)) \in Event
        BY <1>5, <2>1, EventType
      <4>2. TextOf[Token(b, FragOf(k))] = <<z>>
        BY <4>1 DEF TextOf, Token
      <4> HIDE DEF z
      <4> QED BY <4>1, <4>2, GivesTexts, FlatMapOne
    <3> QED BY <1>7, <2>1, <3>1, ReadsLineIs DEF k
  <2>4. \A x \in Range(TextOut) : <<x, z>> \in Before
    <3> TAKE x \in Range(TextOut)
    <3>1. x \in Fragments /\ TokenLine(x[2]) <= sent[x[1]]
      BY <1>4
    <3>2. x \in Nat \X Nat /\ x[1] \in DOMAIN answer /\ x[2] \in Nat /\ x[2] > 0 /\ ~answer[x[1]].call
      BY <1>3, <3>1, FragmentsIs
    <3>3. TokenLine(x[2]) \in Nat /\ TokenLine(x[2]) > 0 /\ x[1] \in Nat /\ sent[x[1]] \in Nat
      BY <3>2, TokenLines, BlockType
    <3>4. ~(x[1] > b)
      <4> SUFFICES ASSUME x[1] > b PROVE FALSE
        OBVIOUS
      <4>1. b < x[1] /\ sent[x[1]] > 0
        BY <1>5, <3>1, <3>3
      <4>2. sent[b] = LinesOf(b)
        BY <1>7, <3>2, <4>1 DEF Response, LinesInOrder
      <4> QED BY <1>1, <4>2
    <3>5. x[1] = b => x[2] < FragOf(k)
      <4> SUFFICES ASSUME x[1] = b PROVE x[2] < FragOf(k)
        OBVIOUS
      <4>1. TokenLine(x[2]) < TokenLine(FragOf(k))
        BY <1>1, <2>2, <3>1, <3>3 DEF k
      <4> QED BY <2>1, <3>2, <4>1, TokenLines
    <3>6. z \in Nat \X Nat /\ z[1] = b /\ z[2] = FragOf(k)
      BY <1>5, <2>1
    <3> QED BY <1>5, <3>2, <3>3, <3>4, <3>5, <3>6 DEF Before
  <2> HIDE DEF z
  <2> DEFINE P == Nat \X Nat
  <2>5. TextOut \in Seq(P) /\ <<z>> \in Seq(P)
    BY <1>3, <2>2, FlowTypes
  <2> HIDE DEF P
  <2>6. Sorted(TextOut \o <<z>>, Before)
    <3>1. Sorted(TextOut, Before) /\ Sorted(<<z>>, Before)
      BY SortedShort DEF Response, TextSound
    <3>2. \A y \in Range(<<z>>) : y = z
      BY DEF Range
    <3> DEFINE t == <<z>>
    <3> HIDE DEF t
    <3>3. \A x \in Range(TextOut), y \in Range(t) : <<x, y>> \in Before
      BY <2>4, <3>2 DEF t
    <3>4. Sorted(TextOut \o t, Before)
      BY <2>5, <3>1, <3>3, SortedConcat DEF t
    <3> QED BY <3>4 DEF t
  <2>7. Range(TextOut') = Range(TextOut) \union {z}
    <3>1. Range(<<z>>) = {z}
      BY DEF Range
    <3> DEFINE t == <<z>>
    <3> HIDE DEF t
    <3>2. Range(TextOut \o t) = Range(TextOut) \union Range(t)
      BY <2>5, ConcatRange DEF t
    <3> QED BY <2>3, <3>1, <3>2 DEF t
  <2>8. z[1] = b /\ z[2] = FragOf(k)
    BY DEF z
  <2>9. \A x \in Range(TextOut') : x \in Fragments /\ TokenLine(x[2]) <= sent'[x[1]]
    BY <1>4, <1>5, <1>6, <2>2, <2>7, <2>8
  <2>10. \A x \in Fragments : TokenLine(x[2]) <= sent'[x[1]] => TokenLine(x[2]) <= sent[x[1]] \/ x = z
    <3> TAKE x \in Fragments
    <3>1. /\ x \in Nat \X Nat /\ x[1] \in DOMAIN answer /\ x[2] \in Nat /\ x[2] > 0
          /\ TokenLine(x[2]) \in Nat /\ sent[x[1]] \in Nat
      BY <1>3, TokenLines, BlockType
    <3>2. CASE x[1] # b
      BY <1>1, <3>1, <3>2
    <3>3. CASE x[1] = b /\ TokenLine(x[2]) = k
      <4>1. x[2] = FragOf(k)
        BY <1>5, <3>1, <3>3, TokenLines
      <4>2. x = <<x[1], x[2]>>
        BY <3>1
      <4> QED BY <3>3, <4>1, <4>2 DEF z
    <3>4. CASE x[1] = b /\ TokenLine(x[2]) # k
      BY <1>1, <3>1, <3>4 DEF k
    <3> QED BY <3>2, <3>3, <3>4
  <2> QED BY <1>1, <1>2, <2>3, <2>6, <2>7, <2>9, <2>10 DEF Response, TextSound
<1>8. CASE ~(~answer[b].call /\ FragOf(k) \in 1..answer[b].frags)
  <2>1. TextOut' = TextOut
    <3>1. CASE answer[b].call
      BY <3>1, ReadsLineIs
    <3>2. CASE ~answer[b].call
      <4>1. LineText(b, k) = << >>
        BY <1>8, <3>2 DEF LineText
      <4>2. FlatMap(TextOf, << >>) = << >>
        BY FlatMapEmpty
      <4> DEFINE P == Nat \X Nat
      <4>3. TextOut \in Seq(P)
        BY FlowTypes
      <4> HIDE DEF P
      <4>4. TextOut \o << >> = TextOut
        BY <4>3, ConcatEmptySeq
      <4> QED BY <3>2, <4>1, <4>2, <4>4, ReadsLineIs DEF k
    <3> QED BY <3>1, <3>2
  <2>2. \A x \in Fragments : TokenLine(x[2]) <= sent'[x[1]] => TokenLine(x[2]) <= sent[x[1]]
    <3> TAKE x \in Fragments
    <3>1. /\ x \in Nat \X Nat /\ x[1] \in DOMAIN answer /\ x[2] \in Nat /\ x[2] > 0
          /\ TokenLine(x[2]) \in Nat /\ sent[x[1]] \in Nat
          /\ ~answer[x[1]].call /\ x[2] \in 1..answer[x[1]].frags
      BY <1>3, FragmentsIs, TokenLines, BlockType
    <3>2. CASE x[1] # b
      BY <1>1, <3>1, <3>2
    <3>3. CASE x[1] = b
      <4>1. TokenLine(x[2]) # k
        BY <1>5, <1>8, <3>1, <3>3, TokenLines
      <4> QED BY <1>1, <3>1, <3>3, <4>1 DEF k
    <3> QED BY <3>2, <3>3
  <2> QED BY <1>1, <1>2, <1>4, <1>6, <2>1, <2>2 DEF Response, TextSound
<1> QED BY <1>7, <1>8

\* The arguments grow by the fragment of the line.
LEMMA FragsNext ==
  /\ Frags(0) = << >>
  /\ \A n \in Nat : Append(Frags(n), n + 1) = Frags(n + 1)
<1>1. Frags(0) = << >>
  BY DEF Frags
<1>2. ASSUME NEW n \in Nat PROVE Append(Frags(n), n + 1) = Frags(n + 1)
  <2>1. /\ Frags(n) \in Seq(Nat) /\ Len(Frags(n)) = n
        /\ Frags(n + 1) \in Seq(Nat) /\ Len(Frags(n + 1)) = n + 1
    BY FragsType
  <2>2. \A i \in 1..n : Frags(n)[i] = i
    BY DEF Frags
  <2>3. \A i \in 1..(n + 1) : Frags(n + 1)[i] = i
    BY DEF Frags
  <2> DEFINE s == Frags(n)
             t == Frags(n + 1)
  <2> HIDE DEF s, t
  <2>4. s \in Seq(Nat) /\ Len(s) = n /\ t \in Seq(Nat) /\ Len(t) = n + 1
    BY <2>1 DEF s, t
  <2>5. Append(s, n + 1) = t
    BY <2>2, <2>3, <2>4 DEF s, t
  <2> QED BY <2>5 DEF s, t
<1> QED BY <1>1, <1>2

\* The tool state of the line's block, when no line was lost.
LEMMA LineToolKnown ==
  ASSUME TypeOK, Phases, Response, NEW b \in DOMAIN answer, ReadsLine(b),
         "garbled" \notin damage, answer[b].call, provider # "gemini"
  PROVE  /\ b \in DOMAIN tools <=> sent[b] > 0
         /\ b \in DOMAIN tools => Known(b) /\ tools[b].id[4] = b
         /\ LineTool(b, sent[b] + 1).name = answer[b].name
         /\ LineTool(b, sent[b] + 1).frags = Frags(sent[b])
         /\ LineTool(b, sent[b] + 1).id[4] = b
<1>1. /\ sent[b] \in Nat /\ LinesOf(b) \in Nat /\ sent[b] < LinesOf(b) /\ Streaming
  BY ReadsLineIs, SendsLineIs DEF Response
<1>2. (b \in DOMAIN tools <=> Kept(b)) /\ (b \in DOMAIN tools => Known(b))
  BY <1>1 DEF Response, ToolsSound
<1>3. b \in DOMAIN tools <=> sent[b] > 0
  BY <1>1, <1>2 DEF Kept
<1>4. b \in DOMAIN tools => tools[b].id[4] = b
  BY DEF Response, IDsSound, ServerIDs
<1>5. CASE sent[b] = 0
  <2>1. LineTool(b, 1) = Fresh(b)
    BY <1>3, <1>5 DEF LineTool
  <2>2. ServerID(b)[4] = b
    BY DEF ServerID
  <2>3. sent[b] + 1 = 1 /\ b \notin DOMAIN tools
    BY <1>3, <1>5
  <2>4. Fresh(b).name = answer[b].name /\ Fresh(b).frags = Frags(0) /\ Fresh(b).id = ServerID(b)
    BY FragsNext DEF Fresh
  <2> QED BY <1>3, <1>5, <2>1, <2>2, <2>3, <2>4
<1>6. CASE sent[b] # 0
  <2>1. b \in DOMAIN tools /\ sent[b] - 1 \in Nat /\ sent[b] + 1 # 1
    BY <1>1, <1>3, <1>6
  <2>2. tools[b] \in ToolState
    BY <2>1 DEF TypeOK
  <2>3. LineTool(b, sent[b] + 1) = [tools[b] EXCEPT !.frags = Append(@, sent[b])]
    BY <1>1, <2>1, SMTT(30) DEF LineTool
  <2>4. tools[b].frags = Frags(sent[b] - 1) /\ tools[b].name = answer[b].name
    BY <1>2, <2>1 DEF Known
  <2>5. Append(Frags(sent[b] - 1), sent[b]) = Frags(sent[b])
    <3> DEFINE n == sent[b] - 1
    <3>1. n \in Nat /\ n + 1 = sent[b]
      BY <1>1, <2>1
    <3> HIDE DEF n
    <3> QED BY <3>1, FragsNext DEF n
  <2> QED BY <1>2, <1>3, <1>4, <2>1, <2>2, <2>3, <2>4, <2>5 DEF ToolState
<1> QED BY <1>1, <1>5, <1>6

LEMMA ReadsLineTools ==
  ASSUME TypeOK, Phases, Response, NEW b \in DOMAIN answer, ReadsLine(b)
  PROVE  /\ \A c \in DOMAIN answer : c # b => (c \in DOMAIN tools' <=> c \in DOMAIN tools)
         /\ \A c \in DOMAIN tools' : c # b => tools'[c] = tools[c]
         /\ \A c \in DOMAIN tools' : answer[c].call
         /\ provider # "gemini" /\ "garbled" \notin damage =>
              /\ b \in DOMAIN tools' <=> Kept(b)'
              /\ b \in DOMAIN tools' => Known(b)' /\ tools'[b].id[4] = b
<1> DEFINE k == sent[b] + 1
<1>1. /\ sent[b] \in Nat /\ LinesOf(b) \in Nat /\ sent[b] < LinesOf(b)
      /\ sent'[b] = k /\ k \in Nat /\ k > 0 /\ LinesOf(b)' = LinesOf(b)
  BY ReadsLineIs, SendsLineIs DEF Response
<1>2. answer' = answer /\ provider' = provider /\ OnlyCalls
  BY ReadsLineIs DEF ReadsLine
<1>3. tools' = LineTools(b, k)
  BY <1>2, LineEffect
<1>4. LineTool(b, k) \in ToolState
  BY <1>2, LineTypes
<1>5. /\ DOMAIN WithTool(b, LineTool(b, k)) = DOMAIN tools \union {b}
      /\ WithTool(b, LineTool(b, k))[b] = LineTool(b, k)
      /\ \A c \in DOMAIN tools : c # b => WithTool(b, LineTool(b, k))[c] = tools[c]
  BY <1>4, ToolStateType
<1>6. DOMAIN tools \subseteq DOMAIN answer
  BY DEF TypeOK
<1> HIDE DEF k
<1>7. /\ \A c \in DOMAIN answer : c # b => (c \in DOMAIN tools' <=> c \in DOMAIN tools)
      /\ \A c \in DOMAIN tools' : c # b => tools'[c] = tools[c]
      /\ \A c \in DOMAIN tools' : answer[c].call
  <2>1. CASE tools' = tools
    BY <1>2, <2>1 DEF OnlyCalls
  <2>2. CASE tools' = [c \in DOMAIN tools \ {b} |-> tools[c]]
    BY <1>2, <2>2 DEF OnlyCalls
  <2>3. CASE tools' = WithTool(b, LineTool(b, k)) /\ answer[b].call
    BY <1>2, <1>5, <2>3 DEF OnlyCalls
  <2> QED BY <1>3, <2>1, <2>2, <2>3 DEF LineTools
<1>8. ASSUME provider # "gemini", "garbled" \notin damage
      PROVE  /\ b \in DOMAIN tools' <=> Kept(b)'
             /\ b \in DOMAIN tools' => Known(b)' /\ tools'[b].id[4] = b
  <2>1. Kept(b)' <=> answer[b].call /\ (provider = "anthropic" => k < LinesOf(b))
    BY <1>1, <1>2 DEF Kept
  <2>2. CASE ~answer[b].call
    BY <1>2, <1>3, <2>1, <2>2 DEF LineTools, OnlyCalls
  <2>3. CASE answer[b].call /\ provider = "anthropic" /\ k = LinesOf(b)
    <3>1. tools' = [c \in DOMAIN tools \ {b} |-> tools[c]]
      BY <1>3, <2>3 DEF LineTools
    <3> QED BY <1>1, <2>1, <2>3, <3>1
  <2>4. CASE answer[b].call /\ ~(provider = "anthropic" /\ k = LinesOf(b))
    <3>1. /\ b \in DOMAIN tools <=> sent[b] > 0
          /\ LineTool(b, k).name = answer[b].name
          /\ LineTool(b, k).frags = Frags(sent[b])
          /\ LineTool(b, k).id[4] = b
      BY <1>8, <2>4, LineToolKnown DEF k
    <3>2. k = 1 \/ b \in DOMAIN tools
      BY <1>1, <3>1 DEF k
    <3>3. tools' = WithTool(b, LineTool(b, k))
      BY <1>3, <1>8, <2>4, <3>2 DEF LineTools
    <3>4. b \in DOMAIN tools' /\ tools'[b] = LineTool(b, k)
      BY <1>5, <3>3
    <3>5. sent'[b] - 1 = sent[b]
      BY <1>1 DEF k
    <3>6. Known(b)'
      BY <1>2, <3>1, <3>4, <3>5 DEF Known, Frags
    <3>7. Kept(b)'
      BY <1>1, <2>1, <2>4 DEF k
    <3> QED BY <3>1, <3>4, <3>6, <3>7
  <2> QED BY <2>2, <2>3, <2>4
<1> QED BY <1>7, <1>8

\* The call a line ends, if it ends one.
LEMMA LineCallIs ==
  ASSUME TypeOK, Phases, Response, NEW b \in DOMAIN answer, ReadsLine(b),
         NEW e, e \in Range(LineCall(b, sent[b] + 1)), answer[b].call
  PROVE  /\ LineCall(b, sent[b] + 1) = <<e>> /\ e \in Event /\ e.type = "call" /\ e.block = b
         /\ sent[b] + 1 = LinesOf(b) /\ provider # "openai"
         /\ "garbled" \notin damage =>
              e.name = answer[b].name /\ e.frags = Frags(answer[b].frags)
         /\ provider = "gemini" => e.id = <<e.name, index + 1>> /\ e.name = answer[b].name
         /\ provider # "gemini" /\ "garbled" \notin damage => e.id[4] = b
<1> DEFINE k == sent[b] + 1
<1>1. /\ sent[b] \in Nat /\ LinesOf(b) \in Nat /\ sent[b] < LinesOf(b) /\ Streaming
      /\ answer[b].frags \in Nat /\ k \in 1..LinesOf(b)
  BY ReadsLineIs, SendsLineIs, BlockType DEF Response
<1>2. LineCall(b, k) \in Seq(Event)
  BY <1>1, ReadsLineIs, LineTypes
<1>3. \A x : Range(<<x>>) = {x}
  BY DEF Range
<1>4. Range(<< >>) = {}
  BY DEF Range
<1>5. CASE provider = "anthropic"
  <2>1. k = answer[b].frags + 2 /\ b \in DOMAIN tools /\ LineCall(b, k) = <<ToolCall(b)>>
    BY <1>4, <1>5 DEF LineCall
  <2>2. e = ToolCall(b)
    BY <1>3, <2>1
  <2>3. /\ e \in Event /\ e.type = "call" /\ e.block = b /\ e.id = tools[b].id
        /\ e.name = tools[b].name /\ e.frags = tools[b].frags
    BY <2>1, <2>2, ToolCallType DEF ToolCall, Call
  <2>4. k = LinesOf(b)
    BY <1>5, <2>1, LinesIs
  <2>5. "garbled" \notin damage => Known(b) /\ tools[b].id[4] = b
    BY <1>5, <2>1, LineToolKnown
  <2>6. sent[b] - 1 = answer[b].frags
    BY <1>1, <2>1
  <2> QED BY <1>5, <2>1, <2>2, <2>3, <2>4, <2>5, <2>6 DEF Known
<1>6. CASE provider = "gemini"
  <2>1. LineCall(b, k) = <<Call(b, <<answer[b].name, index + 1>>, answer[b].name, Frags(answer[b].frags))>>
    BY <1>6 DEF LineCall
  <2>2. e = Call(b, <<answer[b].name, index + 1>>, answer[b].name, Frags(answer[b].frags))
    BY <1>3, <2>1
  <2>3. LinesOf(b) = 1 /\ k = LinesOf(b)
    <3>1. LinesOf(b) = 1
      BY <1>6, LinesIs
    <3> QED BY <1>1, <3>1
  <2>4. e \in Event
    <3>1. <<e>> \in Seq(Event)
      BY <1>2, <2>1, <2>2
    <3> QED BY <3>1
  <2>5. /\ e.type = "call" /\ e.block = b /\ e.id = <<answer[b].name, index + 1>>
        /\ e.name = answer[b].name /\ e.frags = Frags(answer[b].frags)
    BY <2>2 DEF Call
  <2> QED BY <1>6, <2>1, <2>2, <2>3, <2>4, <2>5
<1>7. CASE provider = "openai"
  <2>1. LineCall(b, k) = << >>
    BY <1>7 DEF LineCall
  <2> QED BY <1>4, <2>1
<1> QED BY <1>5, <1>6, <1>7, ProviderIs

LEMMA ReadsLineCalls ==
  ASSUME TypeOK, Phases, Response, NEW b \in DOMAIN answer, ReadsLine(b)
  PROVE  CallsSound' /\ IDsSound' /\ ToolsSound'
<1> DEFINE k == sent[b] + 1
           new == IF answer[b].call THEN LineCall(b, k) ELSE << >>
<1>1. /\ sent[b] \in Nat /\ LinesOf(b) \in Nat /\ sent[b] < LinesOf(b)
      /\ sent'[b] = k /\ \A c \in DOMAIN answer : c # b => sent'[c] = sent[c]
      /\ \A c : LinesOf(c)' = LinesOf(c)
      /\ CallOrder' = CallOrder /\ (AllSent => FALSE)
  BY ReadsLineIs, SendsLineIs DEF Response
<1>2. UNCHANGED <<provider, caller, answer, tail, damage>> /\ Streaming /\ Streaming'
  BY ReadsLineIs DEF ReadsLine, Streaming
<1>3. index' = (IF provider = "gemini" /\ answer[b].call THEN index + 1 ELSE index) /\ index \in Nat
  BY ReadsLineIs, LineEffect DEF TypeOK
<1>4. CallsOut' = CallsOut \o new /\ new \in Seq(Event) /\ CallsOut \in Seq(Event)
  <2>1. CallsOut \in Seq(Event) /\ CallsOut \o << >> = CallsOut /\ << >> \in Seq(Event)
    BY FlowTypes, ConcatEmptySeq, EmptySeq
  <2>2. LineCall(b, k) \in Seq(Event)
    BY ReadsLineIs, LineTypes
  <2> QED BY <2>1, <2>2, ReadsLineIs
<1>5. \A e \in Range(new) :
         /\ new = <<e>> /\ e \in Event /\ e.type = "call" /\ e.block = b /\ answer[b].call
         /\ k = LinesOf(b) /\ provider # "openai"
         /\ "garbled" \notin damage =>
              e.name = answer[b].name /\ e.frags = Frags(answer[b].frags)
         /\ provider = "gemini" => e.id = <<e.name, index + 1>> /\ e.name = answer[b].name
         /\ provider # "gemini" /\ "garbled" \notin damage => e.id[4] = b
  <2> TAKE e \in Range(new)
  <2>1. answer[b].call /\ e \in Range(LineCall(b, k)) /\ new = LineCall(b, k)
    BY DEF Range
  <2> HIDE DEF new
  <2> QED BY <2>1, LineCallIs
<1> HIDE DEF k, new
<1>6. Range(CallsOut') = Range(CallsOut) \union Range(new)
  BY <1>4, ConcatRange
<1>7. ~(provider = "openai" /\ tail > 0)
  BY <1>1 DEF Response, ToolsSound
<1>8. \A e \in Range(CallsOut) :
        /\ e \in Event /\ e.type = "call" /\ e.block \in DOMAIN answer /\ answer[e.block].call
        /\ provider # "openai" /\ sent[e.block] = LinesOf(e.block) /\ e.block # b
        /\ sent'[e.block] = LinesOf(e.block)
        /\ "garbled" \notin damage =>
             e.name = answer[e.block].name /\ e.frags = Frags(answer[e.block].frags)
  <2> TAKE e \in Range(CallsOut)
  <2>1. /\ e.type = "call" /\ e.block \in DOMAIN answer /\ answer[e.block].call
        /\ IF provider = "openai" THEN tail > 0 ELSE sent[e.block] = LinesOf(e.block)
        /\ "garbled" \notin damage =>
             e.name = answer[e.block].name /\ e.frags = Frags(answer[e.block].frags)
    BY <1>2 DEF Response, CallsSound
  <2>2. e \in Event
    BY <1>4 DEF Range
  <2> QED BY <1>1, <1>7, <2>1, <2>2
<1>9. Sorted(new, CallOrder) /\ Sorted(new, Numbered)
  <2>1. CASE new = << >>
    BY <2>1, SortedShort
  <2>2. CASE new # << >>
    <3>1. new[1] \in Range(new)
      BY <1>4, <2>2 DEF Range
    <3>2. new = <<new[1]>>
      BY <1>5, <3>1
    <3> QED BY <3>2, SortedShort
  <2> QED BY <2>1, <2>2
<1>10. \A x \in Range(CallsOut), y \in Range(new) : <<x, y>> \in CallOrder
  <2> TAKE x \in Range(CallsOut), y \in Range(new)
  <2>1. /\ x \in Event /\ y \in Event /\ y.block = b /\ x.block \in DOMAIN answer /\ x.block # b
        /\ provider # "openai" /\ sent[x.block] = LinesOf(x.block) /\ answer[x.block].call
    BY <1>5, <1>8
  <2>2. x.block \in Nat /\ b \in Nat /\ LinesOf(x.block) \in Nat /\ LinesOf(x.block) # 0
    BY <2>1, BlockType, HasCallLines DEF CallLines
  <2>3. ~(b < x.block)
    <3> SUFFICES ASSUME b < x.block PROVE FALSE
      OBVIOUS
    <3>1. sent[x.block] > 0
      BY <2>1, <2>2
    <3>2. sent[b] = LinesOf(b)
      BY <2>1, <3>1 DEF Response, LinesInOrder
    <3> QED BY <1>1, <3>2
  <2>4. x.block < y.block
    BY <2>1, <2>2, <2>3
  <2> QED BY <2>1, <2>4 DEF CallOrder
<1>11. Sorted(CallsOut', CallOrder)
  BY <1>4, <1>9, <1>10, SortedConcat DEF Response, CallsSound
<1>12. CallsSound'
  <2>1. \A e \in Range(CallsOut') :
         /\ e.type = "call" /\ e.block \in DOMAIN answer /\ answer[e.block].call
         /\ IF provider = "openai" THEN tail > 0 ELSE sent'[e.block] = LinesOf(e.block)
         /\ "garbled" \notin damage =>
              e.name = answer[e.block].name /\ e.frags = Frags(answer[e.block].frags)
    BY <1>1, <1>5, <1>6, <1>8
  <2> QED BY <1>1, <1>2, <1>11, <2>1 DEF CallsSound
<1>13. /\ \A c \in DOMAIN answer : c # b => (c \in DOMAIN tools' <=> c \in DOMAIN tools)
       /\ \A c \in DOMAIN tools' : c # b => tools'[c] = tools[c]
       /\ \A c \in DOMAIN tools' : answer[c].call
       /\ provider # "gemini" /\ "garbled" \notin damage =>
            /\ b \in DOMAIN tools' <=> Kept(b)'
            /\ b \in DOMAIN tools' => Known(b)' /\ tools'[b].id[4] = b
  BY ReadsLineTools
<1>14. DOMAIN tools' \subseteq DOMAIN answer
  BY ReadsLineIs, LineTypes
<1>15. IDsSound'
  <2>1. CASE provider = "gemini"
    <3>1. \A e \in Range(CallsOut) : e.id[1] = e.name /\ e.id[2] \in Nat /\ e.id[2] <= index
      BY <1>2, <2>1 DEF Response, IDsSound
    <3>2. \A e \in Range(new) : e.id[1] = e.name /\ e.id[2] = index + 1 /\ answer[b].call
      BY <1>5, <2>1
    <3>3. \A x \in Range(CallsOut), y \in Range(new) : <<x, y>> \in Numbered
      <4> TAKE x \in Range(CallsOut), y \in Range(new)
      <4>1. x \in Event /\ y \in Event
        BY <1>5, <1>8
      <4>2. x.id[2] < y.id[2]
        BY <1>3, <3>1, <3>2
      <4> QED BY <4>1, <4>2 DEF Numbered
    <3>4. Sorted(CallsOut', Numbered)
      BY <1>4, <1>9, <2>1, <3>3, SortedConcat DEF Response, IDsSound
    <3>5. Numbered' = Numbered
      BY DEF Numbered
    <3>6. \A e \in Range(CallsOut') : e.id[1] = e.name /\ e.id[2] \in Nat /\ e.id[2] <= index'
      BY <1>3, <1>6, <2>1, <3>1, <3>2
    <3> QED BY <1>2, <2>1, <3>4, <3>5, <3>6 DEF IDsSound
  <2>2. CASE provider # "gemini"
    <3> SUFFICES ASSUME "garbled" \notin damage PROVE ServerIDs'
      BY <1>2, <2>2 DEF IDsSound
    <3>1. \A e \in Range(CallsOut') : e.id[4] = e.block
      BY <1>5, <1>6, <2>2 DEF Response, IDsSound, ServerIDs
    <3>2. \A c \in DOMAIN tools' : tools'[c].id[4] = c
      BY <1>13, <1>14, <2>2 DEF Response, IDsSound, ServerIDs
    <3> QED BY <3>1, <3>2 DEF ServerIDs
  <2> QED BY <2>1, <2>2
<1>16. ToolsSound'
  <2>1. ~(provider' = "openai" /\ tail' > 0)
    BY <1>2, <1>7
  <2>2. ASSUME provider # "gemini", "garbled" \notin damage, NEW c \in DOMAIN answer
        PROVE  (c \in DOMAIN tools' <=> Kept(c)') /\ (c \in DOMAIN tools' => Known(c)')
    <3>1. CASE c = b
      BY <1>13, <2>2, <3>1
    <3>2. CASE c # b
      <4>1. (c \in DOMAIN tools <=> Kept(c)) /\ (c \in DOMAIN tools => Known(c))
        BY <1>2, <2>2 DEF Response, ToolsSound
      <4>2. Kept(c)' <=> Kept(c)
        BY <1>1, <1>2, <3>2 DEF Kept
      <4>3. c \in DOMAIN tools => (Known(c)' <=> Known(c))
        BY <1>1, <1>2, <1>13, <3>2 DEF Known
      <4> QED BY <1>13, <3>2, <4>1, <4>2, <4>3
    <3> QED BY <3>1, <3>2
  <2>3. ASSUME "garbled" \notin damage, NEW c \in DOMAIN answer, answer[c].call,
               sent'[c] = LinesOf(c), provider # "openai"
        PROVE  \E e \in Range(CallsOut') : e.block = c
    <3>1. CASE c # b
      <4>1. sent[c] = LinesOf(c)
        BY <1>1, <2>3, <3>1
      <4>2. \E e \in Range(CallsOut) : e.block = c
        BY <1>2, <2>3, <4>1 DEF Response, ToolsSound
      <4> QED BY <1>6, <4>2
    <3>2. CASE c = b
      <4>1. k = LinesOf(b) /\ answer[b].call /\ new = LineCall(b, k)
        BY <1>1, <2>3, <3>2 DEF new
      <4>2. new # << >>
        <5>1. CASE provider = "gemini"
          BY <4>1, <5>1 DEF LineCall
        <5>2. CASE provider = "anthropic"
          <6>1. k = answer[b].frags + 2 /\ answer[b].frags \in Nat
            BY <4>1, <5>2, LinesIs, BlockType
          <6>2. sent[b] > 0
            BY <1>1, <6>1 DEF k
          <6>3. b \in DOMAIN tools
            BY <2>3, <4>1, <5>2, <6>2, LineToolKnown
          <6> QED BY <4>1, <5>2, <6>1, <6>3 DEF LineCall
        <5> QED BY <2>3, <5>1, <5>2, ProviderIs
      <4>3. new[1] \in Range(new)
        BY <1>4, <4>2 DEF Range
      <4> QED BY <1>5, <1>6, <3>2, <4>3
    <3> QED BY <3>1, <3>2
  <2> QED BY <1>1, <1>2, <1>7, <1>13, <2>1, <2>2, <2>3 DEF ToolsSound
<1> QED BY <1>12, <1>15, <1>16

LEMMA ReadLineResponse ==
  ASSUME TypeOK, Phases, Response, ReadLine
  PROVE  Response'
<1>1. PICK b \in DOMAIN answer : ReadsLine(b)
  BY ReadLineIs
<1>2. LinesInOrder'
  BY <1>1, ReadsLineIs, SendsLineIs DEF Response
<1>3. Accounted'
  BY <1>1, ReadsLineIs DEF Accounted
<1> QED BY <1>1, <1>2, <1>3, ReadsLineText, ReadsLineCalls DEF Response

\* The end of a response: nothing more of the answer is sent.
Ends ==
  /\ UNCHANGED <<provider, caller, answer, sent, tools, index>>
  /\ tail' \in Nat /\ (provider = "openai" => (tail' > 0 <=> tail > 0))
  /\ damage \subseteq damage' /\ ("garbled" \in damage' => "garbled" \in damage)
  /\ TextOut' = TextOut /\ CallsOut' = CallsOut

LEMMA EndsResponse ==
  ASSUME TypeOK, Response, rd = "reading", Streaming, Ends, Accounted'
  PROVE  Response'
<1>1. UNCHANGED <<provider, caller, answer, sent, tools, index>>
  BY DEF Ends
<1>2. /\ provider = "openai" => (tail' > 0 <=> tail > 0)
      /\ ("garbled" \in damage' <=> "garbled" \in damage)
      /\ TextOut' = TextOut /\ CallsOut' = CallsOut
  BY DEF Ends
<1>3. /\ (\A b : LinesOf(b)' = LinesOf(b)) /\ AllSent' = AllSent /\ Fragments' = Fragments
      /\ CallOrder' = CallOrder /\ Streaming'
      /\ (\A k : TokenLine(k)' = TokenLine(k)) /\ (\A b : Kept(b)' = Kept(b) /\ Known(b)' = Known(b))
  BY <1>1 DEF LinesOf, AllSent, Fragments, CallOrder, Streaming, TokenLine, Kept, Known
<1>4. LinesInOrder'
  BY <1>1, <1>3 DEF LinesInOrder, Response
<1>5. TextSound'
  BY <1>1, <1>2, <1>3 DEF TextSound, Response
<1>6. CallsSound'
  BY <1>1, <1>2, <1>3 DEF CallsSound, Response
<1>7. ToolsSound'
  BY <1>1, <1>2, <1>3 DEF ToolsSound, Response
<1>8. IDsSound'
  BY <1>1, <1>2, <1>3 DEF IDsSound, ServerIDs, Numbered, Response
<1> QED BY <1>4, <1>5, <1>6, <1>7, <1>8 DEF Response

LEMMA SendsEnd ==
  ASSUME TypeOK, NEW e \in {Done, Error}, SendEvents(<<e>>),
         UNCHANGED <<queue, text, calls, streamErr>>
  PROVE  TextOut' = TextOut /\ CallsOut' = CallsOut /\ (Errs' <=> (Errs \/ e = Error))
<1>1. <<e>> \in Seq(Event)
  BY EventType
<1>2. Adds(<<e>>)
  BY <1>1, SendAdds
<1> QED BY <1>2, AddsEnd

LEMMA SendsNothing ==
  ASSUME TypeOK, SendEvents(<< >>), UNCHANGED <<queue, text, calls, streamErr>>
  PROVE  TextOut' = TextOut /\ CallsOut' = CallsOut
<1>1. << >> \in Seq(Event)
  BY EmptySeq
<1>2. Adds(<< >>)
  BY <1>1, SendAdds
<1> QED BY <1>2, AddsNothing

LEMMA EndOfBodyEnds ==
  ASSUME TypeOK, NEW r \in BOOLEAN, EndOfBody(r), UNCHANGED <<queue, text, calls, streamErr>>
  PROVE  /\ TextOut' = TextOut /\ CallsOut' = CallsOut /\ rd' = "closing"
         /\ provider = "anthropic" /\ r => Errs'
<1>1. /\ rd' = "closing"
      /\ SendEvents(IF provider = "anthropic" THEN IF r THEN <<Error>> ELSE <<>> ELSE <<Done>>)
  BY DEF EndOfBody
<1>2. CASE provider = "anthropic" /\ r
  <2>1. SendEvents(<<Error>>)
    BY <1>1, <1>2
  <2>2. TextOut' = TextOut /\ CallsOut' = CallsOut /\ (Errs' <=> (Errs \/ Error = Error))
    BY <2>1, SendsEnd
  <2> QED BY <1>1, <2>2
<1>3. CASE provider = "anthropic" /\ ~r
  <2>1. SendEvents(<< >>)
    BY <1>1, <1>3
  <2> QED BY <1>1, <1>3, <2>1, SendsNothing
<1>4. CASE provider # "anthropic"
  <2>1. SendEvents(<<Done>>)
    BY <1>1, <1>4
  <2>2. TextOut' = TextOut /\ CallsOut' = CallsOut
    BY <2>1, SendsEnd
  <2> QED BY <1>1, <1>4, <2>2
<1> QED BY <1>2, <1>3, <1>4

LEMMA StreamEndResponse ==
  ASSUME TypeOK, Phases, Response, TypeOK',
         ReadEOF \/ ReadBroken \/ ReadCancelled
  PROVE  Response'
<1> USE DEF response, collected
<1>1. /\ UNCHANGED <<provider, caller, answer, sent, tail, tools, index, queue, text, calls, streamErr>>
      /\ rd = "reading" /\ Streaming
  BY DEF ReadEOF, ReadBroken, ReadCancelled, Scanning
<1>2. tail' \in Nat /\ Streaming'
  BY <1>1 DEF TypeOK, Streaming
<1>3. CASE ReadEOF
  <2>1. EndOfBody(FALSE) /\ damage' = damage \union (IF AllSent /\ tail = EndLines THEN {} ELSE {"short"})
    BY <1>3 DEF ReadEOF
  <2>2. TextOut' = TextOut /\ CallsOut' = CallsOut
    BY <1>1, <2>1, EndOfBodyEnds
  <2>3. Accounted'
    <3>1. "short" \in Unnoticed'
      BY <1>1, <1>2, ProviderIs DEF Unnoticed
    <3>2. damage' \intersect Unnoticed' = {} => AllSent /\ tail = EndLines
      BY <2>1, <3>1
    <3>3. AllSent' = AllSent /\ (provider = "openai" => EndLines = 2)
      BY <1>1 DEF AllSent, LinesOf, EndLines
    <3> QED BY <1>1, <1>2, <3>2, <3>3 DEF Accounted
  <2>4. Ends
    BY <1>1, <1>2, <2>1, <2>2 DEF Ends
  <2> QED BY <1>1, <2>3, <2>4, EndsResponse
<1>4. CASE ReadBroken
  <2>1. EndOfBody(TRUE) /\ damage' = damage \union {"broken"}
    BY <1>4 DEF ReadBroken
  <2>2. TextOut' = TextOut /\ CallsOut' = CallsOut /\ (provider = "anthropic" => Errs')
    BY <1>1, <2>1, EndOfBodyEnds
  <2>3. Accounted'
    <3>1. provider # "anthropic" => "broken" \in Unnoticed'
      BY <1>1, <1>2 DEF Unnoticed
    <3> QED BY <2>1, <2>2, <3>1 DEF Accounted
  <2>4. Ends
    BY <1>1, <1>2, <2>1, <2>2 DEF Ends
  <2> QED BY <1>1, <2>3, <2>4, EndsResponse
<1>5. CASE ReadCancelled
  <2>1. SendEvents(<<Error>>) /\ damage' = damage
    BY <1>5 DEF ReadCancelled
  <2>2. TextOut' = TextOut /\ CallsOut' = CallsOut /\ (Errs' <=> (Errs \/ Error = Error))
    BY <1>1, <2>1, SendsEnd
  <2>3. Accounted'
    BY <2>2 DEF Accounted
  <2>4. Ends
    BY <1>1, <1>2, <2>1, <2>2 DEF Ends
  <2> QED BY <1>1, <2>3, <2>4, EndsResponse
<1> QED BY <1>3, <1>4, <1>5

\* Events that are all calls pass as they are.
LEMMA OnlyCallEvents ==
  ASSUME NEW evs \in Seq(Event), \A i \in 1..Len(evs) : evs[i].type = "call"
  PROVE  FlatMap(TextOf, evs) = << >> /\ FlatMap(CallOf, evs) = evs
<1>1. \A i \in 1..Len(evs) : evs[i] \in Event /\ TextOf[evs[i]] = << >> /\ CallOf[evs[i]] = <<evs[i]>>
  BY DEF TextOf, CallOf
<1>2. FlatMap(CallOf, evs) = evs
  BY <1>1, GivesCalls, FlatMapSame
<1>3. FlatMap(TextOf, evs) = << >>
  BY <1>1, GivesTexts, FlatMapNothing
<1> QED BY <1>2, <1>3

LEMMA EmitToolStatesResponse ==
  ASSUME TypeOK, Phases, Response, TypeOK', ReadEndLine, provider = "openai", tail = 0, EmitToolStates
  PROVE  Response'
<1>1. /\ UNCHANGED <<provider, caller, answer, sent, damage, tools, index, queue, text, calls, streamErr>>
      /\ rd = "reading" /\ Streaming /\ AllSent /\ tail' = 1
  BY DEF ReadEndLine, Scanning, collected
<1>2. PICK order \in SetToSeqs(DOMAIN tools) : SendEvents(ToolEvents(order))
  BY DEF EmitToolStates, ToolEvents, ToolCall
<1> DEFINE evs == ToolEvents(order)
<1>3. /\ order \in Seq(DOMAIN tools) /\ Range(order) = DOMAIN tools
      /\ \A i, j \in DOMAIN order : i # j => order[i] # order[j]
      /\ evs \in Seq(Event) /\ Len(evs) = Len(order)
  BY OrdersType
<1>4. \A i \in 1..Len(evs) : i \in DOMAIN order /\ evs[i] = ToolCall(order[i]) /\ order[i] \in DOMAIN tools
  BY <1>3 DEF ToolEvents, Range
<1>5. \A b \in DOMAIN tools :
        /\ ToolCall(b) \in Event /\ b \in DOMAIN answer /\ answer[b].call
        /\ ToolCall(b).type = "call" /\ ToolCall(b).block = b /\ ToolCall(b).id = tools[b].id
        /\ ToolCall(b).name = tools[b].name /\ ToolCall(b).frags = tools[b].frags
  BY ToolCallType DEF Response, ToolsSound, ToolCall, Call
<1>6. Adds(evs)
  BY <1>1, <1>2, <1>3, SendAdds
<1> HIDE DEF evs
<1>7. FlatMap(TextOf, evs) = << >> /\ FlatMap(CallOf, evs) = evs
  <2>1. \A i \in 1..Len(evs) : evs[i].type = "call"
    BY <1>4, <1>5
  <2> QED BY <1>3, <2>1, OnlyCallEvents
<1>8. TextOut' = TextOut /\ CallsOut' = CallsOut \o evs /\ CallsOut \in Seq(Event)
  <2> DEFINE P == Nat \X Nat
  <2>1. TextOut \in Seq(P) /\ CallsOut \in Seq(Event)
    BY FlowTypes
  <2> HIDE DEF P
  <2>2. TextOut \o << >> = TextOut
    BY <2>1, ConcatEmptySeq
  <2> QED BY <1>6, <1>7, <2>1, <2>2 DEF Adds
<1>9. Range(CallsOut) = {}
  BY <1>1 DEF Response, CallsSound
<1>10. Range(CallsOut') = Range(evs)
  <2>1. Range(CallsOut \o evs) = Range(CallsOut) \union Range(evs)
    BY <1>3, <1>8, ConcatRange
  <2> QED BY <1>8, <1>9, <2>1
<1>11. Range(evs) = {ToolCall(b) : b \in DOMAIN tools}
  <2>1. ASSUME NEW b \in DOMAIN tools PROVE ToolCall(b) \in Range(evs)
    <3>1. PICK i \in DOMAIN order : order[i] = b
      BY <1>3 DEF Range
    <3>2. i \in 1..Len(evs) /\ i \in DOMAIN evs
      BY <1>3
    <3> QED BY <1>4, <3>1, <3>2 DEF Range
  <2>2. ASSUME NEW e \in Range(evs) PROVE \E b \in DOMAIN tools : e = ToolCall(b)
    BY <1>3, <1>4 DEF Range
  <2> QED BY <2>1, <2>2
<1>12. Sorted(CallsOut', CallOrder)
  <2>1. Sorted(evs, CallOrder)
    <3>1. \A i, j \in 1..Len(evs) : i < j => <<evs[i], evs[j]>> \in CallOrder
      <4> TAKE i, j \in 1..Len(evs)
      <4> HAVE i < j
      <4>1. order[i] # order[j]
        <5>1. i # j /\ i \in DOMAIN order /\ j \in DOMAIN order
          BY <1>3, <1>4
        <5> QED BY <1>3, <5>1
      <4>2. evs[i] \in Event /\ evs[j] \in Event /\ evs[i].block # evs[j].block
        BY <1>4, <1>5, <4>1
      <4> QED BY <1>1, <4>2 DEF CallOrder
    <3> QED BY <1>3, <3>1 DEF Sorted
  <2> QED BY <1>3, <1>8, <1>9, <2>1, SortedConcat DEF Response, CallsSound
<1>13. /\ (\A b : LinesOf(b)' = LinesOf(b)) /\ AllSent' /\ Fragments' = Fragments
       /\ CallOrder' = CallOrder /\ Streaming' /\ tail' > 0
       /\ (\A k : TokenLine(k)' = TokenLine(k)) /\ (\A b : Kept(b)' = Kept(b) /\ Known(b)' = Known(b))
  BY <1>1 DEF LinesOf, AllSent, Fragments, CallOrder, Streaming, TokenLine, Kept, Known
<1>14. LinesInOrder'
  BY <1>1, <1>13 DEF LinesInOrder, Response
<1>15. TextSound'
  BY <1>1, <1>8, <1>13 DEF TextSound, Response
<1>16. CallsSound'
  <2>1. ASSUME NEW e \in Range(CallsOut')
        PROVE  /\ e.type = "call" /\ e.block \in DOMAIN answer /\ answer[e.block].call
               /\ "garbled" \notin damage =>
                    e.name = answer[e.block].name /\ e.frags = Frags(answer[e.block].frags)
    <3>1. PICK b \in DOMAIN tools : e = ToolCall(b)
      BY <1>10, <1>11, <2>1
    <3>2. "garbled" \notin damage => Known(b)
      BY <1>1, <1>5 DEF Response, ToolsSound
    <3>3. sent[b] - 1 = answer[b].frags
      <4>1. sent[b] = LinesOf(b) /\ answer[b].call
        BY <1>1, <1>5 DEF AllSent
      <4>2. LinesOf(b) = answer[b].frags + 1 /\ answer[b].frags \in Nat
        BY <1>5, LinesIs, BlockType
      <4> QED BY <4>1, <4>2
    <3> QED BY <1>5, <3>1, <3>2, <3>3 DEF Known
  <2> QED BY <1>1, <1>12, <1>13, <2>1 DEF CallsSound
<1>17. ToolsSound'
  <2>1. ASSUME "garbled" \notin damage, NEW b \in DOMAIN answer, answer[b].call, sent[b] = LinesOf(b)
        PROVE  \E e \in Range(CallsOut') : e.block = b
    <3>1. LinesOf(b) > 0
      BY <2>1, HasCallLines, LinesIs DEF CallLines
    <3>2. b \in DOMAIN tools
      BY <1>1, <2>1, <3>1 DEF Response, ToolsSound, Kept
    <3> QED BY <1>5, <1>10, <1>11, <3>2
  <2> QED BY <1>1, <1>13, <2>1 DEF Response, ToolsSound
<1>18. IDsSound'
  <2>1. "garbled" \notin damage => \A b \in DOMAIN tools : tools[b].id[4] = b
    BY <1>1 DEF Response, IDsSound, ServerIDs
  <2>2. "garbled" \notin damage => \A e \in Range(CallsOut') : e.id[4] = e.block
    BY <1>5, <1>10, <1>11, <2>1
  <2> QED BY <1>1, <2>1, <2>2 DEF IDsSound, ServerIDs
<1>19. Accounted'
  BY <1>1, <1>13, LinesIs DEF Accounted
<1> QED BY <1>14, <1>15, <1>16, <1>17, <1>18, <1>19 DEF Response

LEMMA ReadEndLineResponse ==
  ASSUME TypeOK, Phases, Response, TypeOK', ReadEndLine
  PROVE  Response'
<1>1. /\ UNCHANGED <<provider, caller, answer, sent, damage, tools, index, queue, text, calls, streamErr>>
      /\ rd = "reading" /\ Streaming /\ AllSent /\ tail' = tail + 1
  BY DEF ReadEndLine, Scanning, collected
<1>2. CASE provider = "openai" /\ tail = 0 /\ EmitToolStates
  BY <1>2, EmitToolStatesResponse
<1>3. CASE ((provider = "openai" /\ tail = 1) \/ provider = "anthropic") /\ SendEvents(<<Done>>)
  <2>1. TextOut' = TextOut /\ CallsOut' = CallsOut
    BY <1>1, <1>3, SendsEnd
  <2>2. tail' \in Nat /\ (provider = "openai" => (tail' > 0 <=> tail > 0))
    BY <1>1, <1>3, SMTT(20) DEF TypeOK
  <2>3. Ends
    BY <1>1, <2>1, <2>2 DEF Ends
  <2>4. Accounted'
    <3>1. AllSent' /\ Streaming' /\ (provider' = "openai" => tail' > 0)
      BY <1>1, <1>3 DEF AllSent, LinesOf, Streaming
    <3> QED BY <3>1 DEF Accounted
  <2> QED BY <1>1, <2>3, <2>4, EndsResponse
<1> QED BY <1>2, <1>3 DEF ReadEndLine

-----------------------------------------------------------------------------
(* A whole answer.                                                         *)

\* AllText, block by block.
BlockText(b) == IF answer[b].call THEN <<>> ELSE [k \in 1..answer[b].frags |-> <<b, k>>]

LEMMA BlockTextIs ==
  ASSUME TypeOK, NEW b \in DOMAIN answer
  PROVE  /\ BlockText(b) \in Seq(Nat \X Nat)
         /\ \A x : x \in Range(BlockText(b)) <=> x \in Fragments /\ x[1] = b
         /\ Sorted(BlockText(b), Before)
<1>1. answer[b].frags \in Nat /\ b \in Nat
  BY BlockType
<1>2. CASE answer[b].call
  <2>1. BlockText(b) = << >> /\ Range(<< >>) = {}
    BY <1>2 DEF BlockText, Range
  <2>2. \A x \in Fragments : x[1] # b
    BY <1>2, FragmentsIs
  <2> QED BY <2>1, <2>2, SortedShort, EmptySeq
<1>3. CASE ~answer[b].call
  <2> DEFINE n == answer[b].frags
             s == [k \in 1..n |-> <<b, k>>]
             P == Nat \X Nat
  <2>1. s \in [1..n -> P] /\ n \in Nat
    BY <1>1
  <2>2. \A i \in 1..n : s[i] = <<b, i>> /\ s[i][1] = b /\ s[i][2] = i
    OBVIOUS
  <2>3. \A x : x \in Fragments /\ x[1] = b <=> \E k \in 1..n : x = <<b, k>>
    <3> TAKE x
    <3>1. ASSUME x \in Fragments, x[1] = b PROVE \E k \in 1..n : x = <<b, k>>
      <4>1. x \in Nat \X Nat /\ x[2] \in 1..n
        BY <3>1, FragmentsIs
      <4>2. x = <<x[1], x[2]>>
        BY <4>1
      <4> QED BY <3>1, <4>1, <4>2
    <3>2. ASSUME NEW k \in 1..n, x = <<b, k>> PROVE x \in Fragments /\ x[1] = b
      <4>1. x \in Nat \X Nat /\ x[1] = b /\ x[2] = k
        BY <1>1, <3>2
      <4> QED BY <1>3, <3>2, <4>1, FragmentsIs
    <3> QED BY <3>1, <3>2
  <2> HIDE DEF s, P, n
  <2>4. s \in Seq(P) /\ Len(s) = n /\ DOMAIN s = 1..n
    BY <2>1
  <2>5. Sorted(s, Before)
    <3>1. \A i, j \in 1..n : i < j => <<s[i], s[j]>> \in Before
      <4> TAKE i, j \in 1..n
      <4> HAVE i < j
      <4>1. s[i] \in P /\ s[j] \in P
        BY <2>1
      <4>2. s[i][1] = b /\ s[i][2] = i /\ s[j][1] = b /\ s[j][2] = j
        BY <2>2
      <4> QED BY <4>1, <4>2 DEF Before, P
    <3> QED BY <2>4, <3>1 DEF Sorted
  <2>6. BlockText(b) = s
    BY <1>3 DEF BlockText, s, n
  <2>7. \A x : x \in Range(s) <=> \E k \in 1..n : x = <<b, k>>
    <3>1. Range(s) = {s[k] : k \in 1..n}
      BY <2>4 DEF Range
    <3> QED BY <2>2, <3>1
  <2> QED BY <2>3, <2>4, <2>5, <2>6, <2>7 DEF P
<1> QED BY <1>2, <1>3

LEMMA AllTextIs ==
  ASSUME TypeOK
  PROVE  /\ AllText \in Seq(Nat \X Nat) /\ Sorted(AllText, Before)
         /\ \A x : x \in Range(AllText) <=> x \in Fragments
<1> DEFINE n == Len(answer)
           s == [b \in 1..n |-> BlockText(b)]
           P == Nat \X Nat
<1>1. DOMAIN answer = 1..n /\ n \in Nat
  BY LenProperties DEF TypeOK
<1>2. AllText = FlattenSeq(s)
  BY <1>1 DEF AllText, BlockText
<1>3. \A b \in 1..n : /\ BlockText(b) \in Seq(P)
                      /\ \A x : x \in Range(BlockText(b)) <=> x \in Fragments /\ x[1] = b
                      /\ Sorted(BlockText(b), Before)
  BY <1>1, BlockTextIs
<1>4. s \in [1..n -> Seq(P)] /\ \A b \in 1..n : s[b] = BlockText(b)
  BY <1>3
<1> HIDE DEF s, n
<1>5. s \in Seq(Seq(P)) /\ Len(s) = n
  BY <1>1, <1>4
<1>6. \A x \in Fragments : x \in P /\ x[1] \in 1..n
  BY <1>1, FragmentsIs
<1> HIDE DEF P
<1>7. FlattenSeq(s) \in Seq(P)
  BY <1>5, FlattenType
<1>8. \A x : x \in Range(FlattenSeq(s)) <=> x \in Fragments
  <2>1. \A x : x \in Range(FlattenSeq(s)) <=> \E i \in 1..Len(s) : x \in Range(s[i])
    BY <1>5, FlattenRange
  <2> QED BY <1>3, <1>4, <1>5, <1>6, <2>1
<1>9. Sorted(FlattenSeq(s), Before)
  <2>1. \A i, j \in 1..n : i < j => \A x \in Range(s[i]), y \in Range(s[j]) : <<x, y>> \in Before
    <3> TAKE i, j \in 1..n
    <3> HAVE i < j
    <3> TAKE x \in Range(s[i]), y \in Range(s[j])
    <3>1. x \in P /\ y \in P /\ x[1] = i /\ y[1] = j
      BY <1>3, <1>4, <1>6
    <3>2. <<x, y>> \in P \X P /\ x[1] < y[1]
      BY <3>1
    <3> QED BY <3>2 DEF Before, P
  <2> QED BY <1>3, <1>4, <1>5, <2>1, FlattenSorted
<1> QED BY <1>2, <1>7, <1>8, <1>9 DEF P

FullCall(b) == Call(b, FullCallID(b), answer[b].name, Frags(answer[b].frags))
BlockCalls(b) == IF answer[b].call THEN <<FullCall(b)>> ELSE << >>
FullCalls == FlattenSeq([b \in 1..Len(answer) |-> BlockCalls(b)])

LEMMA FullCallsIs ==
  ASSUME TypeOK
  PROVE  /\ FullCalls \in Seq(Event)
         /\ \A e : e \in Range(FullCalls) <=> \E b \in DOMAIN answer : answer[b].call /\ e = FullCall(b)
         /\ \A R : (\A b, c \in DOMAIN answer : b < c /\ answer[b].call /\ answer[c].call
                       => <<FullCall(b), FullCall(c)>> \in R)
                    => Sorted(FullCalls, R)
<1> DEFINE n == Len(answer)
           s == [b \in 1..n |-> BlockCalls(b)]
<1>1. DOMAIN answer = 1..n /\ n \in Nat
  BY LenProperties DEF TypeOK
<1>2. \A b \in 1..n : BlockCalls(b) \in Seq(Event)
  BY <1>1, FullCallType DEF BlockCalls, FullCall
<1>3. s \in [1..n -> Seq(Event)] /\ \A b \in 1..n : s[b] = BlockCalls(b)
  BY <1>2
<1>4. FullCalls = FlattenSeq(s)
  BY DEF FullCalls
<1> HIDE DEF s, n
<1>5. s \in Seq(Seq(Event)) /\ Len(s) = n
  BY <1>1, <1>3
<1>6. \A b \in 1..n : \A e : e \in Range(s[b]) <=> answer[b].call /\ e = FullCall(b)
  <2>1. Range(<< >>) = {} /\ \A e : Range(<<e>>) = {e}
    BY DEF Range
  <2> QED BY <1>3, <2>1 DEF BlockCalls
<1>7. FlattenSeq(s) \in Seq(Event)
  BY <1>5, FlattenType
<1>8. \A e : e \in Range(FullCalls) <=> \E b \in DOMAIN answer : answer[b].call /\ e = FullCall(b)
  <2>1. \A x : x \in Range(FlattenSeq(s)) <=> \E i \in 1..Len(s) : x \in Range(s[i])
    BY <1>5, FlattenRange
  <2> QED BY <1>1, <1>4, <1>5, <1>6, <2>1
<1>9. ASSUME NEW R, \A b, c \in DOMAIN answer : b < c /\ answer[b].call /\ answer[c].call
                       => <<FullCall(b), FullCall(c)>> \in R
      PROVE  Sorted(FullCalls, R)
  <2>1. \A i \in 1..n : Sorted(s[i], R)
    BY <1>3, SortedShort DEF BlockCalls
  <2>2. \A i, j \in 1..n : i < j => \A x \in Range(s[i]), y \in Range(s[j]) : <<x, y>> \in R
    BY <1>1, <1>6, <1>9
  <2> QED BY <1>4, <1>5, <2>1, <2>2, FlattenSorted
<1> QED BY <1>4, <1>7, <1>8, <1>9

\* What the events of a whole body carry.
LEMMA FullOut ==
  ASSUME TypeOK
  PROVE  FlatMap(TextOf, FullEvents) = AllText /\ FlatMap(CallOf, FullEvents) = FullCalls
<1> DEFINE n == Len(answer)
           s == [b \in 1..n |-> BlockEvents(b)]
           P == Nat \X Nat
<1>1. DOMAIN answer = 1..n /\ n \in Nat
  BY LenProperties DEF TypeOK
<1>2. FullEvents = FlattenSeq(s) /\ s \in Seq(Seq(Event)) /\ Len(s) = n /\ \A b \in 1..n : s[b] = BlockEvents(b)
  BY FullEventsType
<1>3. ASSUME NEW b \in 1..n
      PROVE  FlatMap(TextOf, BlockEvents(b)) = BlockText(b) /\ FlatMap(CallOf, BlockEvents(b)) = BlockCalls(b)
  <2>1. b \in DOMAIN answer /\ b \in Nat /\ answer[b].frags \in Nat
    BY <1>1, BlockType
  <2>2. CASE answer[b].call
    <3>1. FullCall(b) \in Event /\ BlockEvents(b) = <<FullCall(b)>>
      BY <2>1, <2>2, FullCallType DEF BlockEvents, FullCall
    <3>2. TextOf[FullCall(b)] = << >> /\ CallOf[FullCall(b)] = <<FullCall(b)>>
      BY <3>1 DEF TextOf, CallOf, FullCall, Call
    <3>3. FlatMap(TextOf, <<FullCall(b)>>) = TextOf[FullCall(b)]
      BY <3>1, GivesTexts, FlatMapOne
    <3>4. FlatMap(CallOf, <<FullCall(b)>>) = CallOf[FullCall(b)]
      BY <3>1, GivesCalls, FlatMapOne
    <3> QED BY <2>2, <3>1, <3>2, <3>3, <3>4 DEF BlockText, BlockCalls
  <2>3. CASE ~answer[b].call
    <3> DEFINE m == answer[b].frags
               evs == [k \in 1..m |-> Token(b, k)]
               t == [k \in 1..m |-> <<b, k>>]
    <3>1. BlockEvents(b) = evs /\ BlockText(b) = t /\ BlockCalls(b) = << >>
      BY <2>3 DEF BlockEvents, BlockText, BlockCalls
    <3>2. evs \in [1..m -> Event] /\ t \in [1..m -> P] /\ m \in Nat
      BY <2>1, EventType
    <3>3. \A k \in 1..m : TextOf[evs[k]] = <<t[k]>> /\ CallOf[evs[k]] = << >>
      <4> TAKE k \in 1..m
      <4>1. evs[k] = Token(b, k) /\ t[k] = <<b, k>> /\ Token(b, k) \in Event
        BY <2>1, EventType
      <4> QED BY <4>1 DEF TextOf, CallOf, Token
    <3> HIDE DEF evs, t, m, P
    <3>4. evs \in Seq(Event) /\ t \in Seq(P) /\ Len(evs) = m /\ Len(t) = m
      BY <3>2
    <3>5. FlatMap(TextOf, evs) = t
      <4>1. Gives(TextOf, Event, P)
        BY GivesTexts DEF P
      <4> QED BY <3>3, <3>4, <4>1, FlatMapSame
    <3>6. FlatMap(CallOf, evs) = << >>
      BY <3>3, <3>4, GivesCalls, FlatMapNothing
    <3> QED BY <3>1, <3>5, <3>6
  <2> QED BY <2>2, <2>3
<1> HIDE DEF s, n, P
<1>4. FlatMap(TextOf, FlattenSeq(s)) = FlattenSeq([i \in 1..Len(s) |-> FlatMap(TextOf, s[i])])
  BY <1>2, GivesTexts, FlatMapFlatten
<1>5. FlatMap(CallOf, FlattenSeq(s)) = FlattenSeq([i \in 1..Len(s) |-> FlatMap(CallOf, s[i])])
  BY <1>2, GivesCalls, FlatMapFlatten
<1>6. /\ [i \in 1..Len(s) |-> FlatMap(TextOf, s[i])] = [b \in DOMAIN answer |-> BlockText(b)]
      /\ [i \in 1..Len(s) |-> FlatMap(CallOf, s[i])] = [b \in 1..Len(answer) |-> BlockCalls(b)]
  BY <1>1, <1>2, <1>3 DEF n
<1> QED BY <1>2, <1>4, <1>5, <1>6 DEF AllText, BlockText, FullCalls

\* The counter of Gemini's IDs grows from call to call.
LEMMA RankGrows ==
  ASSUME TypeOK, NEW b \in DOMAIN answer, NEW c \in DOMAIN answer, b < c, answer[c].call
  PROVE  Cardinality({d \in 1..b : answer[d].call}) < Cardinality({d \in 1..c : answer[d].call})
<1> DEFINE B == {d \in 1..b : answer[d].call}
           C == {d \in 1..c : answer[d].call}
<1>1. b \in Nat /\ c \in Nat /\ c > 0
  BY BlockType
<1>2. B \in SUBSET C /\ c \in C /\ c \notin B /\ C \in SUBSET (1..c)
  BY <1>1
<1>3. IsFiniteSet(1..c)
  BY <1>1, FS_Interval
<1> HIDE DEF B, C
<1>4. IsFiniteSet(C)
  BY <1>2, <1>3, FS_Subset
<1>5. Cardinality(B) <= Cardinality(C) /\ (Cardinality(B) = Cardinality(C) => B = C) /\ IsFiniteSet(B)
  BY <1>2, <1>4, FS_Subset
<1>6. Cardinality(B) \in Nat /\ Cardinality(C) \in Nat
  BY <1>4, <1>5, FS_CardinalityType
<1>7. Cardinality(B) < Cardinality(C)
  BY <1>2, <1>5, <1>6
<1> QED BY <1>7 DEF B, C

LEMMA FullCallIs ==
  ASSUME TypeOK, NEW b \in DOMAIN answer
  PROVE  /\ FullCall(b) \in Event /\ FullCall(b).type = "call" /\ FullCall(b).block = b
         /\ FullCall(b).name = answer[b].name /\ FullCall(b).frags = Frags(answer[b].frags)
         /\ FullCall(b).id = FullCallID(b)
BY FullCallType DEF FullCall, Call

LEMMA FullIDs ==
  ASSUME TypeOK, NEW b \in DOMAIN answer, answer[b].call
  PROVE  /\ provider = "gemini" =>
              FullCallID(b)[1] = answer[b].name
              /\ FullCallID(b)[2] = Cardinality({d \in 1..b : answer[d].call})
         /\ provider # "gemini" => FullCallID(b)[4] = b
BY DEF FullCallID, ServerID

LEMMA ReadFullEmpty ==
  ASSUME TypeOK, Phases, Response, ReadFull
  PROVE  /\ Flow = << >> /\ TextOut = << >> /\ CallsOut = << >> /\ ~Streaming
         /\ UNCHANGED <<provider, caller, answer, sent, tail, tools, index, queue, text, calls, streamErr>>
         /\ rd' = "closing"
<1>1. ~Streaming /\ rd = "reading"
  BY DEF ReadFull
<1>2. Flow = << >> /\ text = << >> /\ calls = << >>
  BY <1>1 DEF Phases
<1>3. FlatMap(TextOf, << >>) = << >> /\ FlatMap(CallOf, << >>) = << >>
  BY FlatMapEmpty
<1>4. << >> \o << >> = << >>
  BY EmptySeq, ConcatEmptySeq
<1> QED BY <1>1, <1>2, <1>3, <1>4 DEF TextOut, CallsOut, ReadFull, collected

LEMMA ReadFullWhole ==
  ASSUME TypeOK, Phases, Response, ReadFull, SendEvents(FullEvents \o <<Done>>)
  PROVE  TextOut' = AllText /\ CallsOut' = FullCalls
<1> DEFINE d == <<Done>>
           evs == FullEvents \o d
<1>1. d \in Seq(Event) /\ FullEvents \in Seq(Event)
  BY EventType, FullEventsType
<1>2. FlatMap(TextOf, d) = << >> /\ FlatMap(CallOf, d) = << >>
  <2>1. Done \in Event /\ TextOf[Done] = << >> /\ CallOf[Done] = << >>
    BY EventType DEF TextOf, CallOf, Done
  <2> QED BY <2>1, GivesTexts, GivesCalls, FlatMapOne
<1>3. UNCHANGED <<queue, text, calls, streamErr>> /\ TextOut = << >> /\ CallsOut = << >>
  BY ReadFullEmpty
<1> DEFINE P == Nat \X Nat
<1>4. AllText \in Seq(P) /\ FullCalls \in Seq(Event)
  BY AllTextIs, FullCallsIs
<1> HIDE DEF d, P
<1>5. evs \in Seq(Event)
  BY <1>1, ConcatProperties
<1>6. Adds(evs)
  <2>1. SendEvents(evs)
    BY DEF d
  <2> HIDE DEF evs
  <2> QED BY <1>3, <1>5, <2>1, SendAdds
<1>7. FlatMap(TextOf, evs) = AllText
  <2>1. FlatMap(TextOf, evs) = FlatMap(TextOf, FullEvents) \o FlatMap(TextOf, d)
    BY <1>1, GivesTexts, FlatMapConcat
  <2>2. AllText \o << >> = AllText
    BY <1>4, ConcatEmptySeq
  <2> QED BY <1>2, <2>1, <2>2, FullOut
<1>8. FlatMap(CallOf, evs) = FullCalls
  <2>1. FlatMap(CallOf, evs) = FlatMap(CallOf, FullEvents) \o FlatMap(CallOf, d)
    BY <1>1, GivesCalls, FlatMapConcat
  <2>2. FullCalls \o << >> = FullCalls
    BY <1>4, ConcatEmptySeq
  <2> QED BY <1>2, <2>1, <2>2, FullOut
<1>9. << >> \o AllText = AllText /\ << >> \o FullCalls = FullCalls
  BY <1>4, ConcatEmptySeq
<1> HIDE DEF evs
<1> QED BY <1>3, <1>6, <1>7, <1>8, <1>9 DEF Adds

LEMMA ReadFullResponse ==
  ASSUME TypeOK, Phases, Response, TypeOK', ReadFull
  PROVE  Response'
<1>1. /\ TextOut = << >> /\ CallsOut = << >> /\ ~Streaming /\ rd' = "closing"
      /\ UNCHANGED <<provider, caller, answer, sent, tail, tools, index, queue, text, calls, streamErr>>
  BY ReadFullEmpty
<1>2. /\ (\A b : LinesOf(b)' = LinesOf(b)) /\ AllSent' = AllSent /\ Fragments' = Fragments
      /\ CallOrder' = CallOrder /\ ~Streaming' /\ Loops' = Loops
  BY <1>1 DEF LinesOf, AllSent, Fragments, CallOrder, Streaming, Loops
<1>3. LinesInOrder'
  BY <1>1, <1>2 DEF LinesInOrder, Response
<1>4. ToolsSound'
  BY <1>1, <1>2 DEF ToolsSound, Response
<1>5. "garbled" \notin damage
  BY <1>1 DEF Phases
<1>6. provider # "gemini" => \A b \in DOMAIN tools : tools[b].id[4] = b
  BY <1>5 DEF Response, IDsSound, ServerIDs
<1>7. CASE SendEvents(FullEvents \o <<Done>>) /\ damage' = damage
  <2>1. TextOut' = AllText /\ CallsOut' = FullCalls
    BY <1>7, ReadFullWhole
  <2>2. /\ Sorted(AllText, Before) /\ \A x : x \in Range(AllText) <=> x \in Fragments
    BY AllTextIs
  <2>3. \A e : e \in Range(FullCalls) <=> \E b \in DOMAIN answer : answer[b].call /\ e = FullCall(b)
    BY FullCallsIs
  <2>4. TextSound'
    BY <1>2, <2>1, <2>2 DEF TextSound
  <2>5. CallsSound'
    <3>1. \A b, c \in DOMAIN answer : b < c /\ answer[b].call /\ answer[c].call
                  => <<FullCall(b), FullCall(c)>> \in CallOrder
      BY <1>1, FullCallIs DEF CallOrder
    <3>2. Sorted(FullCalls, CallOrder)
      BY <3>1, FullCallsIs
    <3>3. \A e \in Range(FullCalls) :
            /\ e.type = "call" /\ e.block \in DOMAIN answer /\ answer[e.block].call
            /\ e.name = answer[e.block].name /\ e.frags = Frags(answer[e.block].frags)
      BY <2>3, FullCallIs
    <3> QED BY <1>1, <1>2, <2>1, <3>2, <3>3 DEF CallsSound
  <2>6. IDsSound'
    <3>1. CASE provider = "gemini"
      <4>1. \A b, c \in DOMAIN answer : b < c /\ answer[b].call /\ answer[c].call
                  => <<FullCall(b), FullCall(c)>> \in Numbered
        <5> SUFFICES ASSUME NEW b \in DOMAIN answer, NEW c \in DOMAIN answer, b < c,
                            answer[b].call, answer[c].call
                     PROVE  <<FullCall(b), FullCall(c)>> \in Numbered
          OBVIOUS
        <5>1. /\ FullCall(b).id[2] = Cardinality({d \in 1..b : answer[d].call})
              /\ FullCall(c).id[2] = Cardinality({d \in 1..c : answer[d].call})
          BY <3>1, FullCallIs, FullIDs
        <5>2. FullCall(b).id[2] < FullCall(c).id[2]
          BY <5>1, RankGrows
        <5> QED BY <5>2, FullCallIs DEF Numbered
      <4>2. Sorted(FullCalls, Numbered)
        BY <4>1, FullCallsIs
      <4>3. \A e \in Range(FullCalls) : e.id[1] = e.name /\ e.id[2] \in Nat
        <5> TAKE e \in Range(FullCalls)
        <5>1. PICK b \in DOMAIN answer : answer[b].call /\ e = FullCall(b)
          BY <2>3
        <5>2. e.id = FullCallID(b) /\ e.name = answer[b].name
          BY <5>1, FullCallIs
        <5>3. FullCallID(b)[1] = answer[b].name /\ FullCallID(b)[2] \in Nat
          BY <3>1, <5>1, FullIDs, RankType
        <5> QED BY <5>2, <5>3
      <4>4. Numbered' = Numbered
        BY DEF Numbered
      <4> QED BY <1>1, <1>2, <2>1, <3>1, <4>2, <4>3, <4>4 DEF IDsSound
    <3>2. CASE provider # "gemini"
      <4>1. \A e \in Range(FullCalls) : e.id[4] = e.block
        <5> TAKE e \in Range(FullCalls)
        <5>1. PICK b \in DOMAIN answer : answer[b].call /\ e = FullCall(b)
          BY <2>3
        <5>2. e.id = FullCallID(b) /\ e.block = b
          BY <5>1, FullCallIs
        <5>3. FullCallID(b)[4] = b
          BY <3>2, <5>1, FullIDs
        <5> QED BY <5>2, <5>3
      <4> QED BY <1>1, <1>6, <2>1, <3>2, <4>1 DEF IDsSound, ServerIDs
    <3> QED BY <3>1, <3>2
  <2>7. Accounted'
    <3>1. TextWhole'
      BY <1>2, <2>1, <2>2 DEF TextWhole
    <3>2. CallsWhole'
      BY <1>1, <2>1, <2>3, FullCallIs DEF CallsWhole
    <3> QED BY <1>2, <3>1, <3>2 DEF Accounted
  <2> QED BY <1>3, <1>4, <2>4, <2>5, <2>6, <2>7 DEF Response
<1>8. CASE SendEvents(<<Error>>) /\ damage' = damage \union {"broken"}
  <2>1. TextOut' = TextOut /\ CallsOut' = CallsOut /\ Errs'
    <3>1. TextOut' = TextOut /\ CallsOut' = CallsOut /\ (Errs' <=> (Errs \/ Error = Error))
      BY <1>1, <1>8, SendsEnd
    <3> QED BY <3>1
  <2>2. Range(<< >>) = {} /\ \A R : Sorted(<< >>, R)
    BY SortedShort DEF Range
  <2>3. TextSound'
    BY <1>1, <1>2, <2>1, <2>2 DEF TextSound
  <2>4. CallsSound'
    BY <1>1, <1>2, <2>1, <2>2 DEF CallsSound
  <2>5. IDsSound'
    BY <1>1, <1>6, <2>1, <2>2 DEF IDsSound, ServerIDs
  <2>6. Accounted'
    BY <2>1 DEF Accounted
  <2> QED BY <1>3, <1>4, <2>3, <2>4, <2>5, <2>6 DEF Response
<1> QED BY <1>7, <1>8 DEF ReadFull

LEMMA ResponseStep ==
  ASSUME TypeOK, Phases, Response, TypeOK', Phases', [Next]_vars
  PROVE  Response'
<1>1. CASE ReadLine
  BY <1>1, ReadLineResponse
<1>2. CASE SkipLine
  BY <1>2, SkipLineResponse
<1>3. CASE ReadEndLine
  BY <1>3, ReadEndLineResponse
<1>4. CASE ReadEOF \/ ReadBroken \/ ReadCancelled
  BY <1>4, StreamEndResponse
<1>5. CASE ReadFull
  BY <1>5, ReadFullResponse
<1>6. CASE Emit \/ Close \/ Caller \/ CancelCtx \/ UNCHANGED vars
  BY <1>6, QuietResponse
<1> QED BY <1>1, <1>2, <1>3, <1>4, <1>5, <1>6 DEF Next, Reader

-----------------------------------------------------------------------------
(* The conversation.                                                       *)

\* What a request is made of.
Part == [type : {"text", "tool_use", "tool_result"}, ids : Seq(ID \union Name)]

LEMMA MessageType ==
  ASSUME NEW m \in Message
  PROVE  /\ m.role \in {"user", "assistant"} /\ m.results \in Seq(ID)
         /\ m.calls \in Seq([id : ID, name : Name])
         /\ [i \in DOMAIN m.calls |-> m.calls[i].id] \in Seq(ID \union Name)
         /\ [i \in DOMAIN m.calls |-> m.calls[i].name] \in Seq(ID \union Name)
<1> DEFINE Pair == [id : ID, name : Name]
           cs == m.calls
           a == [i \in DOMAIN cs |-> cs[i].id]
           c == [i \in DOMAIN cs |-> cs[i].name]
           V == ID \union Name
<1>1. m.role \in {"user", "assistant"} /\ m.results \in Seq(ID) /\ cs \in Seq(Pair)
  BY DEF Message
<1>2. DOMAIN cs = 1..Len(cs) /\ Len(cs) \in Nat /\ \A i \in 1..Len(cs) : cs[i] \in Pair
  <2> HIDE DEF cs, Pair
  <2> QED BY <1>1, Elements
<1>3. a \in [1..Len(cs) -> V] /\ c \in [1..Len(cs) -> V]
  BY <1>2
<1> HIDE DEF a, c, V
<1>4. a \in Seq(V) /\ c \in Seq(V)
  BY <1>2, <1>3
<1> QED BY <1>1, <1>4 DEF a, c, V

LEMMA PartTypes ==
  /\ \A ids \in Seq(ID \union Name), t \in {"text", "tool_use", "tool_result"} :
       [type |-> t, ids |-> ids] \in Part
  /\ << >> \in Seq(ID \union Name)
BY EmptySeq DEF Part

LEMMA AnthropicParts ==
  ASSUME NEW m \in Message
  PROVE  convertToAnthropicMessage(m) \in Seq(Part)
<1>1. m.results \in Seq(ID \union Name)
  <2> DEFINE V == ID \union Name
  <2>1. ID \subseteq V /\ m.results \in Seq(ID)
    BY MessageType
  <2> HIDE DEF V
  <2>2. m.results \in Seq(V)
    BY <2>1
  <2> QED BY <2>2 DEF V
<1>2. \A p \in Part : <<p>> \in Seq(Part)
  OBVIOUS
<1> QED BY <1>1, <1>2, MessageType, PartTypes DEF convertToAnthropicMessage

LEMMA OpenAIParts ==
  ASSUME NEW m \in Message
  PROVE  convertToOpenAIMessages(m) \in Seq(Part)
<1>1. \A p \in Part : <<p>> \in Seq(Part)
  OBVIOUS
<1>2. [i \in DOMAIN m.results |-> [type |-> "tool_result", ids |-> <<m.results[i]>>]] \in Seq(Part)
  <2> DEFINE s == m.results
             r == [i \in DOMAIN s |-> [type |-> "tool_result", ids |-> <<s[i]>>]]
  <2>1. DOMAIN s = 1..Len(s) /\ Len(s) \in Nat /\ \A i \in 1..Len(s) : s[i] \in ID
    <3>1. s \in Seq(ID)
      BY MessageType
    <3> HIDE DEF s
    <3> QED BY <3>1, Elements
  <2>2. \A x \in ID : <<x>> \in Seq(ID \union Name)
    OBVIOUS
  <2>3. r \in [1..Len(s) -> Part]
    BY <2>1, <2>2, PartTypes
  <2> HIDE DEF r
  <2>4. r \in Seq(Part)
    BY <2>1, <2>3
  <2> QED BY <2>4 DEF r
<1> QED BY <1>1, <1>2, MessageType, PartTypes DEF convertToOpenAIMessages

LEMMA GeminiParts ==
  ASSUME NEW m \in Message, NEW names, \A id \in DOMAIN names : names[id] \in Name
  PROVE  convertToGeminiContent(m, names) \in Seq(Part)
<1>1. \A p \in Part : <<p>> \in Seq(Part)
  OBVIOUS
<1>2. [i \in DOMAIN m.results |-> IF m.results[i] \in DOMAIN names THEN names[m.results[i]]
                                  ELSE m.results[i]] \in Seq(ID \union Name)
  <2> DEFINE s == m.results
             V == ID \union Name
             r == [i \in DOMAIN s |-> IF s[i] \in DOMAIN names THEN names[s[i]] ELSE s[i]]
  <2>1. DOMAIN s = 1..Len(s) /\ Len(s) \in Nat /\ \A i \in 1..Len(s) : s[i] \in ID
    <3>1. s \in Seq(ID)
      BY MessageType
    <3> HIDE DEF s
    <3> QED BY <3>1, Elements
  <2>2. r \in [1..Len(s) -> V]
    BY <2>1
  <2> HIDE DEF r, V
  <2>3. r \in Seq(V)
    BY <2>1, <2>2
  <2> QED BY <2>3 DEF r, V
<1> QED BY <1>1, <1>2, MessageType, PartTypes DEF convertToGeminiContent

\* The calls of the messages up to n.
CallsUpTo(h, n) == FlattenSeq([i \in 1..n |-> h[i].calls])

LEMMA CallsUpToIs ==
  ASSUME NEW h \in Seq(Message), NEW n \in 0..Len(h)
  PROVE  /\ CallsUpTo(h, n) \in Seq([id : ID, name : Name])
         /\ \A x : x \in Range(CallsUpTo(h, n)) <=> \E i \in 1..n : x \in Range(h[i].calls)
<1> DEFINE Pair == [id : ID, name : Name]
           s == [i \in 1..n |-> h[i].calls]
<1>1. n \in Nat /\ \A i \in 1..n : h[i] \in Message
  BY LenProperties
<1>2. \A i \in 1..n : h[i].calls \in Seq(Pair)
  BY <1>1, MessageType
<1>3. s \in [1..n -> Seq(Pair)] /\ \A i \in 1..n : s[i] = h[i].calls
  BY <1>2
<1>4. CallsUpTo(h, n) = FlattenSeq(s)
  BY DEF CallsUpTo
<1> HIDE DEF s, Pair
<1>5. s \in Seq(Seq(Pair)) /\ Len(s) = n
  BY <1>1, <1>3
<1>6. FlattenSeq(s) \in Seq(Pair)
  BY <1>5, FlattenType
<1>7. \A x : x \in Range(FlattenSeq(s)) <=> \E i \in 1..Len(s) : x \in Range(s[i])
  BY <1>5, FlattenRange
<1> QED BY <1>3, <1>4, <1>5, <1>6, <1>7 DEF Pair

\* The name a call ID had last is the one in it.
LEMMA LastName ==
  ASSUME NEW h \in Seq(Message), NEW n \in 0..Len(h), NamesInIDs(h)
  PROVE  /\ DOMAIN ToolCallNames(h, n) = {c.id : c \in Range(CallsUpTo(h, n))}
         /\ \A id \in DOMAIN ToolCallNames(h, n) :
              ToolCallNames(h, n)[id] = id[1] /\ ToolCallNames(h, n)[id] \in Name
<1> DEFINE all == CallsUpTo(h, n)
           Newest(id, i) == /\ all[i].id = id
                            /\ \A j \in DOMAIN all : all[j].id = id => j <= i
           Pair == [id : ID, name : Name]
<1>1. /\ all \in Seq(Pair)
      /\ \A x : x \in Range(all) <=> \E i \in 1..n : x \in Range(h[i].calls)
  BY CallsUpToIs
<1>2. ToolCallNames(h, n) = [id \in {all[i].id : i \in DOMAIN all} |->
                               all[CHOOSE i \in DOMAIN all : Newest(id, i)].name]
  BY DEF ToolCallNames, CallsUpTo
<1> HIDE DEF all
<1>3. DOMAIN all = 1..Len(all) /\ Len(all) \in Nat /\ \A i \in DOMAIN all : all[i] \in Pair
  <2> HIDE DEF Pair
  <2> QED BY <1>1, Elements
<1>4. {all[i].id : i \in DOMAIN all} = {c.id : c \in Range(all)}
  BY DEF Range
<1>5. \A i \in DOMAIN all : all[i].id[1] = all[i].name
  <2> TAKE i \in DOMAIN all
  <2>1. all[i] \in Range(all)
    BY DEF Range
  <2>2. PICK k \in 1..n : all[i] \in Range(h[k].calls)
    BY <1>1, <2>1
  <2>3. k \in DOMAIN h
    BY <2>2, LenProperties
  <2> QED BY <2>2, <2>3 DEF NamesInIDs
<1>6. ASSUME NEW id \in {all[i].id : i \in DOMAIN all} PROVE \E i \in DOMAIN all : Newest(id, i)
  <2> DEFINE T == {Len(all) - i : i \in {j \in DOMAIN all : all[j].id = id}}
  <2>1. T \subseteq Nat /\ T # {}
    BY <1>3
  <2> HIDE DEF T
  <2>2. PICK x \in T : \A y \in T : x <= y
    BY <2>1, Least
  <2>3. PICK i \in DOMAIN all : all[i].id = id /\ x = Len(all) - i
    BY <2>2 DEF T
  <2>4. \A j \in DOMAIN all : all[j].id = id => j <= i
    <3> TAKE j \in DOMAIN all
    <3> HAVE all[j].id = id
    <3>1. Len(all) - j \in T
      BY DEF T
    <3>2. Len(all) - i <= Len(all) - j
      BY <2>2, <2>3, <3>1
    <3> QED BY <1>3, <3>2
  <2> QED BY <2>3, <2>4
<1>7. ASSUME NEW id \in {all[i].id : i \in DOMAIN all}
      PROVE  LET i == CHOOSE j \in DOMAIN all : Newest(id, j)
             IN  all[i].name = id[1] /\ all[i].name \in Name
  <2> DEFINE i == CHOOSE j \in DOMAIN all : Newest(id, j)
  <2>1. i \in DOMAIN all /\ Newest(id, i)
    BY <1>6
  <2> HIDE DEF i
  <2>2. all[i].id = id /\ all[i] \in Pair
    BY <1>3, <2>1
  <2>3. all[i].name = id[1] /\ all[i].name \in Name
    BY <1>5, <2>1, <2>2
  <2> QED BY <2>3 DEF i
<1> HIDE DEF Newest
<1>8. \A id \in {all[i].id : i \in DOMAIN all} :
        ToolCallNames(h, n)[id] = id[1] /\ ToolCallNames(h, n)[id] \in Name
  BY <1>2, <1>7
<1> QED BY <1>2, <1>4, <1>8 DEF all

\* A message with calls and their results extend a paired request.
LEMMA PairedExtends ==
  ASSUME NEW r \in Seq(Part), NEW u \in Part, NEW res \in Seq(Part), Paired(r),
         u.type = "tool_use", \A k \in 1..Len(res) : res[k].type = "tool_result",
         FlattenSeq([k \in 1..Len(res) |-> res[k].ids]) = u.ids
  PROVE  Paired((r \o <<u>>) \o res)
<1> DEFINE m == Len(r)
           n == Len(res)
           q == (r \o <<u>>) \o res
<1>1. m \in Nat /\ n \in Nat /\ DOMAIN r = 1..m
  BY LenProperties
<1>2. r \o <<u>> \in Seq(Part) /\ Len(r \o <<u>>) = m + 1
      /\ \A i \in 1..(m + 1) : (r \o <<u>>)[i] = IF i <= m THEN r[i] ELSE u
  <2> DEFINE t == r \o <<u>>
  <2>1. <<u>> \in Seq(Part) /\ Len(<<u>>) = 1 /\ <<u>>[1] = u
    OBVIOUS
  <2>2. t \in Seq(Part) /\ Len(t) = m + 1
    BY <2>1, ConcatProperties
  <2>3. \A i \in 1..(m + 1) : t[i] = IF i <= m THEN r[i] ELSE u
    BY <2>1
  <2> QED BY <2>2, <2>3
<1>3. /\ q \in Seq(Part) /\ Len(q) = m + 1 + n /\ DOMAIN q = 1..(m + 1 + n)
      /\ \A i \in 1..(m + 1 + n) :
           q[i] = IF i <= m THEN r[i] ELSE IF i = m + 1 THEN u ELSE res[i - (m + 1)]
  <2> DEFINE t == r \o <<u>>
  <2>1. t \in Seq(Part) /\ Len(t) = m + 1
    BY <1>2
  <2>2. \A i \in 1..(m + 1) : t[i] = IF i <= m THEN r[i] ELSE u
    BY <1>2
  <2> HIDE DEF t
  <2>3. t \o res \in Seq(Part) /\ Len(t \o res) = m + 1 + n
    <3>1. t \o res \in Seq(Part) /\ Len(t \o res) = Len(t) + Len(res)
      BY <2>1, ConcatProperties
    <3> QED BY <2>1, <3>1
  <2>4. \A i \in 1..(m + 1 + n) : (t \o res)[i] = IF i <= m + 1 THEN t[i] ELSE res[i - (m + 1)]
    BY <1>1, <2>1
  <2>5. DOMAIN (t \o res) = 1..(m + 1 + n)
    BY <2>3, LenProperties
  <2> DEFINE w == t \o res
  <2>6. \A i \in 1..(m + 1 + n) : w[i] = IF i <= m + 1 THEN t[i] ELSE res[i - (m + 1)]
    BY <2>4
  <2> HIDE DEF w, m, n
  <2>7. \A i \in 1..(m + 1 + n) :
           w[i] = IF i <= m THEN r[i] ELSE IF i = m + 1 THEN u ELSE res[i - (m + 1)]
    <3> TAKE i \in 1..(m + 1 + n)
    <3>1. CASE i <= m + 1
      <4>1. w[i] = t[i]
        BY <2>6, <3>1
      <4>2. m \in Nat /\ i \in Nat /\ i >= 1
        BY <1>1
      <4>3. i \in 1..(m + 1) /\ (i <= m \/ i = m + 1) /\ ~(m + 1 <= m)
        BY <3>1, <4>2
      <4> QED BY <2>2, <4>1, <4>3
    <3>2. CASE ~(i <= m + 1)
      <4>1. w[i] = res[i - (m + 1)] /\ ~(i <= m) /\ i # m + 1
        BY <1>1, <2>6, <3>2
      <4> QED BY <4>1
    <3> QED BY <3>1, <3>2
  <2> QED BY <2>3, <2>5, <2>7 DEF t, w, m, n
<1> HIDE DEF q
<1>4. ASSUME NEW i \in DOMAIN q, q[i].type = "tool_use"
      PROVE  \E j \in i..Len(q) :
               /\ \A k \in (i + 1)..j : q[k].type = "tool_result"
               /\ FlattenSeq([k \in 1..(j - i) |-> q[i + k].ids]) = q[i].ids
  <2>1. CASE i <= m
    <3>1. i \in DOMAIN r /\ q[i] = r[i] /\ i \in Nat
      BY <1>1, <1>3, <2>1
    <3>2. PICK j \in i..m :
             /\ \A k \in (i + 1)..j : r[k].type = "tool_result"
             /\ FlattenSeq([k \in 1..(j - i) |-> r[i + k].ids]) = r[i].ids
      BY <1>4, <3>1 DEF Paired
    <3>3. j \in i..Len(q) /\ \A k \in i..j : q[k] = r[k]
      BY <1>1, <1>3, <3>1, <3>2
    <3>4. [k \in 1..(j - i) |-> q[i + k].ids] = [k \in 1..(j - i) |-> r[i + k].ids]
      <4>1. \A k \in 1..(j - i) : i + k \in i..j
        BY <3>1, <3>2
      <4> QED BY <3>3, <4>1
    <3>5. \A k \in (i + 1)..j : q[k].type = "tool_result"
      <4>1. \A k \in (i + 1)..j : k \in i..j
        BY <3>1, <3>2
      <4> QED BY <3>2, <3>3, <4>1
    <3>6. FlattenSeq([k \in 1..(j - i) |-> q[i + k].ids]) = q[i].ids
      BY <3>1, <3>2, <3>4
    <3> QED BY <3>3, <3>5, <3>6
  <2>2. CASE i = m + 1
    <3>1. q[i] = u /\ m + 1 + n \in i..Len(q)
      BY <1>1, <1>3, <2>2
    <3>2. \A k \in 1..n : q[i + k] = res[k]
      <4> TAKE k \in 1..n
      <4>1. /\ i + k \in 1..(m + 1 + n) /\ (i + k) - (m + 1) = k
            /\ ~(i + k <= m) /\ i + k # m + 1
        BY <1>1, <2>2
      <4> QED BY <1>3, <4>1
    <3>3. \A k \in (i + 1)..(m + 1 + n) : q[k].type = "tool_result"
      <4>1. \A k \in (i + 1)..(m + 1 + n) : k - i \in 1..n /\ i + (k - i) = k
        BY <1>1, <2>2
      <4> QED BY <3>2, <4>1
    <3>4. (m + 1 + n) - i = n
      BY <1>1, <2>2
    <3>5. [k \in 1..n |-> q[i + k].ids] = [k \in 1..n |-> res[k].ids]
      BY <3>2
    <3> DEFINE l == m + 1 + n
    <3>6. FlattenSeq([k \in 1..(l - i) |-> q[i + k].ids]) = q[i].ids
      BY <3>1, <3>4, <3>5
    <3>7. l \in i..Len(q) /\ \A k \in (i + 1)..l : q[k].type = "tool_result"
      BY <3>1, <3>3
    <3> HIDE DEF l
    <3> QED BY <3>6, <3>7
  <2>3. CASE i > m + 1
    <3>1. i - (m + 1) \in 1..n /\ q[i] = res[i - (m + 1)]
      BY <1>1, <1>3, <2>3
    <3> QED BY <1>4, <3>1
  <2>4. i <= m \/ i = m + 1 \/ i > m + 1
    BY <1>1, <1>3
  <2> QED BY <2>1, <2>2, <2>3, <2>4
<1>5. ASSUME NEW i \in DOMAIN q, q[i].type = "tool_result"
      PROVE  i > 1 /\ q[i - 1].type \in {"tool_use", "tool_result"}
  <2>1. CASE i <= m
    <3>1. i \in DOMAIN r /\ q[i] = r[i]
      BY <1>1, <1>3, <2>1
    <3>2. i > 1 /\ r[i - 1].type \in {"tool_use", "tool_result"}
      BY <1>5, <3>1 DEF Paired
    <3>3. q[i - 1] = r[i - 1]
      BY <1>1, <1>3, <2>1, <3>2
    <3> QED BY <3>2, <3>3
  <2>2. CASE i = m + 1
    BY <1>1, <1>3, <1>5, <2>2
  <2>3. CASE i > m + 1
    <3>1. i - 1 \in 1..(m + 1 + n) /\ i - 1 >= m + 1 /\ i > 1 /\ (i - 1 = m + 1 \/ (i - 1) - (m + 1) \in 1..n)
      BY <1>1, <1>3, <2>3
    <3>2. CASE i - 1 = m + 1
      <4>1. q[i - 1] = u
        BY <1>1, <1>3, <3>1, <3>2
      <4> QED BY <3>1, <4>1
    <3>3. CASE i - 1 # m + 1
      <4>1. q[i - 1] = res[(i - 1) - (m + 1)] /\ (i - 1) - (m + 1) \in 1..n
        BY <1>1, <1>3, <3>1, <3>3
      <4> QED BY <3>1, <4>1
    <3> QED BY <3>2, <3>3
  <2>4. i <= m \/ i = m + 1 \/ i > m + 1
    BY <1>1, <1>3
  <2> QED BY <2>1, <2>2, <2>3, <2>4
<1>6. Paired(q)
  BY <1>4, <1>5 DEF Paired
<1> QED BY <1>6 DEF q

LEMMA FlattenTwo ==
  ASSUME NEW S, NEW s \in Seq(Seq(S)), NEW x \in Seq(S), NEW y \in Seq(S),
         NEW t \in Seq(Seq(S)), Len(t) = Len(s) + 2, \A i \in 1..Len(s) : t[i] = s[i],
         t[Len(s) + 1] = x, t[Len(s) + 2] = y
  PROVE  FlattenSeq(t) = (FlattenSeq(s) \o x) \o y
<1> DEFINE Q == Seq(S)
           u == Append(s, x)
           v == Append(u, y)
<1>1. Len(s) \in Nat /\ s \in Seq(Q) /\ x \in Q /\ y \in Q /\ t \in Seq(Q)
  BY LenProperties
<1> HIDE DEF Q
<1>2. u \in Seq(Q) /\ Len(u) = Len(s) + 1 /\ u[Len(s) + 1] = x /\ \A i \in 1..Len(s) : u[i] = s[i]
  BY <1>1, AppendProperties
<1> HIDE DEF u
<1>3. v \in Seq(Q) /\ Len(v) = Len(u) + 1 /\ v[Len(u) + 1] = y /\ \A i \in 1..Len(u) : v[i] = u[i]
  BY <1>1, <1>2, AppendProperties
<1> HIDE DEF v
<1>4. v = t
  <2>1. \A i \in 1..(Len(s) + 2) : v[i] = t[i]
    <3> TAKE i \in 1..(Len(s) + 2)
    <3>1. \/ i \in 1..Len(s) /\ i \in 1..Len(u)
          \/ i = Len(s) + 1 /\ i \in 1..Len(u)
          \/ i = Len(s) + 2 /\ i = Len(u) + 1
      BY <1>1, <1>2
    <3> QED BY <1>2, <1>3, <3>1
  <2>2. Len(v) = Len(s) + 2 /\ Len(t) = Len(s) + 2
    BY <1>1, <1>2, <1>3
  <2>3. v = [i \in 1..Len(v) |-> v[i]] /\ t = [i \in 1..Len(t) |-> t[i]]
    BY <1>1, <1>3
  <2> DEFINE k == Len(s) + 2
  <2>4. v = [i \in 1..k |-> v[i]] /\ t = [i \in 1..k |-> t[i]] /\ \A i \in 1..k : v[i] = t[i]
    BY <2>1, <2>2, <2>3
  <2> HIDE DEF k
  <2> QED BY <2>4
<1>5. FlattenSeq(Append(u, y)) = FlattenSeq(u) \o y
  BY <1>1, <1>2, FlattenAppend DEF Q
<1>6. FlattenSeq(Append(s, x)) = FlattenSeq(s) \o x
  BY FlattenAppend
<1> QED BY <1>4, <1>5, <1>6 DEF u, v

\* The messages of a round of tools.
CallIDs(cs) == [i \in 1..Len(cs) |-> cs[i].id]
CallNames(cs) == [i \in 1..Len(cs) |-> cs[i].name]

LEMMA RoundIs ==
  ASSUME NEW cs \in Seq(Event), cs # << >>
  PROVE  /\ CallIDs(cs) \in Seq(ID \union Name) /\ Len(CallIDs(cs)) = Len(cs)
         /\ CallNames(cs) \in Seq(ID \union Name) /\ Len(CallNames(cs)) = Len(cs)
         /\ Assistant(cs).role = "assistant" /\ Assistant(cs).calls # << >>
         /\ [i \in DOMAIN Assistant(cs).calls |-> Assistant(cs).calls[i].id] = CallIDs(cs)
         /\ [i \in DOMAIN Assistant(cs).calls |-> Assistant(cs).calls[i].name] = CallNames(cs)
         /\ Results(cs).role = "user" /\ Results(cs).results = CallIDs(cs) /\ CallIDs(cs) # << >>
         /\ Results(cs).calls = << >>
         /\ \A x : x \in Range(Assistant(cs).calls) <=>
              \E i \in 1..Len(cs) : x = [id |-> cs[i].id, name |-> cs[i].name]
         /\ Len(cs) \in Nat /\ Len(cs) > 0 /\ DOMAIN cs = 1..Len(cs)
<1> DEFINE n == Len(cs)
           V == ID \union Name
           a == [i \in 1..n |-> cs[i].id]
           c == [i \in 1..n |-> cs[i].name]
           p == [i \in 1..n |-> [id |-> cs[i].id, name |-> cs[i].name]]
<1>1. n \in Nat /\ n > 0 /\ DOMAIN cs = 1..n /\ \A i \in 1..n : cs[i] \in Event
  <2>1. n \in Nat /\ DOMAIN cs = 1..n /\ \A i \in 1..n : cs[i] \in Event
    BY Elements
  <2>2. n # 0
    BY EmptySeq
  <2> QED BY <2>1, <2>2
<1>2. a \in [1..n -> V] /\ c \in [1..n -> V]
  BY <1>1, EventType
<1>3. /\ a = CallIDs(cs) /\ c = CallNames(cs) /\ Assistant(cs).calls = p
      /\ Assistant(cs).role = "assistant" /\ Results(cs).role = "user" /\ Results(cs).results = a
      /\ Results(cs).calls = << >>
  BY <1>1 DEF Assistant, Results, CallIDs, CallNames
<1>4. /\ DOMAIN p = 1..n /\ DOMAIN a = 1..n
      /\ [i \in 1..n |-> p[i].id] = a /\ [i \in 1..n |-> p[i].name] = c
      /\ \A x : x \in Range(p) <=> \E i \in 1..n : x = [id |-> cs[i].id, name |-> cs[i].name]
  BY DEF Range
<1>5. p # << >> /\ a # << >>
  <2>1. DOMAIN << >> = 1..0 /\ 1 \in 1..n
    BY <1>1
  <2> HIDE DEF p, a
  <2>2. 1 \in DOMAIN p /\ 1 \in DOMAIN a /\ 1 \notin DOMAIN << >>
    BY <1>4, <2>1
  <2> QED BY <2>2
<1> HIDE DEF a, c, V, p
<1>6. a \in Seq(V) /\ Len(a) = n /\ c \in Seq(V) /\ Len(c) = n
  BY <1>1, <1>2
<1> QED BY <1>1, <1>3, <1>4, <1>5, <1>6 DEF V

LEMMA HistIs ==
  ASSUME NEW h \in Seq(Message), NEW x \in Message, NEW y \in Message
  PROVE  /\ h \o <<x, y>> \in Seq(Message) /\ Len(h \o <<x, y>>) = Len(h) + 2 /\ Len(h) \in Nat
         /\ DOMAIN (h \o <<x, y>>) = 1..(Len(h) + 2)
         /\ \A i \in 1..(Len(h) + 2) :
              (h \o <<x, y>>)[i] = IF i <= Len(h) THEN h[i] ELSE IF i = Len(h) + 1 THEN x ELSE y
<1> DEFINE t == <<x, y>>
           n == Len(h)
<1>1. t \in Seq(Message) /\ Len(t) = 2 /\ t[1] = x /\ t[2] = y
  OBVIOUS
<1>2. n \in Nat
  BY LenProperties
<1> HIDE DEF t, n
<1> DEFINE w == h \o t
<1>3. w \in Seq(Message) /\ Len(w) = n + 2 /\ DOMAIN w = 1..(n + 2)
  <2>1. w \in Seq(Message) /\ Len(w) = Len(h) + Len(t)
    BY <1>1, ConcatProperties
  <2> HIDE DEF w
  <2>2. DOMAIN w = 1..Len(w)
    BY <2>1, LenProperties
  <2> QED BY <1>1, <2>1, <2>2 DEF n
<1>4. \A i \in 1..(n + 2) : w[i] = IF i <= n THEN h[i] ELSE t[i - n]
  <2>1. \A i \in 1..(Len(h) + Len(t)) : (h \o t)[i] = IF i <= Len(h) THEN h[i] ELSE t[i - Len(h)]
    BY <1>1, ConcatProperties
  <2> QED BY <1>1, <2>1 DEF n
<1> HIDE DEF w
<1>5. \A i \in 1..(n + 2) : w[i] = IF i <= n THEN h[i] ELSE IF i = n + 1 THEN x ELSE y
  <2> TAKE i \in 1..(n + 2)
  <2>1. i <= n \/ (i = n + 1 /\ i - n = 1 /\ ~(i <= n)) \/ (i = n + 2 /\ i - n = 2 /\ ~(i <= n) /\ i # n + 1)
    BY <1>2
  <2> QED BY <1>1, <1>4, <2>1
<1> QED BY <1>2, <1>3, <1>5 DEF w, t, n

Use(ids) == [type |-> "tool_use", ids |-> ids]
Result(ids) == [type |-> "tool_result", ids |-> ids]

LEMMA PairedGrows ==
  ASSUME NEW s \in Seq(Seq(Part)), Paired(FlattenSeq(s)), NEW ids \in Seq(ID \union Name),
         NEW res \in Seq(Part), \A k \in 1..Len(res) : res[k].type = "tool_result",
         FlattenSeq([k \in 1..Len(res) |-> res[k].ids]) = ids,
         NEW t \in Seq(Seq(Part)), Len(t) = Len(s) + 2, \A i \in 1..Len(s) : t[i] = s[i],
         t[Len(s) + 1] = <<Use(ids)>>, t[Len(s) + 2] = res
  PROVE  Paired(FlattenSeq(t))
<1> DEFINE u == Use(ids)
           r == FlattenSeq(s)
<1>1. u \in Part /\ u.type = "tool_use" /\ u.ids = ids
  BY PartTypes DEF Use
<1>2. r \in Seq(Part)
  BY FlattenType
<1>3. <<u>> \in Seq(Part)
  BY <1>1
<1>4. FlattenSeq(t) = (r \o <<u>>) \o res
  <2> DEFINE x == <<u>>
  <2>1. x \in Seq(Part)
    BY <1>3
  <2>2. t[Len(s) + 1] = x
    OBVIOUS
  <2> HIDE DEF x, r
  <2>3. FlattenSeq(t) = (FlattenSeq(s) \o x) \o res
    BY <2>1, <2>2, FlattenTwo, ZenonT(80)
  <2> QED BY <2>3 DEF x, r
<1> HIDE DEF u, r
<1>5. Paired((r \o <<u>>) \o res)
  <2>1. Paired(r)
    BY DEF r
  <2> QED BY <1>1, <1>2, <2>1, PairedExtends
<1> QED BY <1>4, <1>5

\* The results of a round in one message.
LEMMA OneResult ==
  ASSUME NEW ids \in Seq(ID \union Name)
  PROVE  /\ <<Result(ids)>> \in Seq(Part)
         /\ \A k \in 1..Len(<<Result(ids)>>) : <<Result(ids)>>[k].type = "tool_result"
         /\ FlattenSeq([k \in 1..Len(<<Result(ids)>>) |-> <<Result(ids)>>[k].ids]) = ids
<1>1. Result(ids) \in Part
  BY PartTypes DEF Result
<1>2. [k \in 1..Len(<<Result(ids)>>) |-> <<Result(ids)>>[k].ids] = <<ids>>
  BY DEF Result
<1>3. FlattenSeq(<<ids>>) = ids
  BY FlattenOne
<1> QED BY <1>1, <1>2, <1>3 DEF Result

\* The results of a round, a message each.
LEMMA EachResult ==
  ASSUME NEW ids \in Seq(ID \union Name), NEW res, DOMAIN res = 1..Len(ids),
         \A k \in 1..Len(ids) : res[k] = Result(<<ids[k]>>), res = [k \in DOMAIN res |-> res[k]]
  PROVE  /\ res \in Seq(Part) /\ \A k \in 1..Len(res) : res[k].type = "tool_result"
         /\ FlattenSeq([k \in 1..Len(res) |-> res[k].ids]) = ids
<1> DEFINE V == ID \union Name
           n == Len(ids)
<1>1. n \in Nat /\ \A k \in 1..n : ids[k] \in V
  <2> HIDE DEF V
  <2> QED BY Elements DEF V
<1>2. \A k \in 1..n : Result(<<ids[k]>>) \in Part
  <2> TAKE k \in 1..n
  <2>1. <<ids[k]>> \in Seq(V)
    BY <1>1
  <2> QED BY <2>1, PartTypes DEF Result
<1>3. res \in [1..n -> Part] /\ \A k \in 1..n : res[k].type = "tool_result" /\ res[k].ids = <<ids[k]>>
  BY <1>2 DEF Result
<1>4. res \in Seq(Part) /\ Len(res) = n
  <2> HIDE DEF n
  <2> QED BY <1>1, <1>3
<1>5. [k \in 1..n |-> res[k].ids] = [k \in 1..n |-> <<ids[k]>>]
  BY <1>3
<1>6. FlattenSeq([k \in 1..n |-> <<ids[k]>>]) = ids
  BY FlattenSingles
<1> QED BY <1>3, <1>4, <1>5, <1>6

\* The conversation after a round of tools.
Grown(h, cs) == h \o <<Assistant(cs), Results(cs)>>

LEMMA GrownIs ==
  ASSUME NEW h \in Seq(Message), NEW cs \in Seq(Event)
  PROVE  /\ Grown(h, cs) \in Seq(Message) /\ Len(h) \in Nat
         /\ DOMAIN Grown(h, cs) = 1..(Len(h) + 2) /\ DOMAIN h = 1..Len(h)
         /\ Len(Grown(h, cs)) = Len(h) + 2
         /\ \A i \in 1..(Len(h) + 2) :
              Grown(h, cs)[i] = IF i <= Len(h) THEN h[i]
                                ELSE IF i = Len(h) + 1 THEN Assistant(cs) ELSE Results(cs)
         /\ \A i \in 1..Len(h) : h[i] \in Message
BY TurnTypes, HistIs, Elements DEF Grown

LEMMA AnthropicGrows ==
  ASSUME NEW h \in Seq(Message), NEW cs \in Seq(Event), cs # << >>, Paired(AnthropicRequest(h))
  PROVE  Paired(AnthropicRequest(Grown(h, cs)))
<1> DEFINE n == Len(h)
           ids == CallIDs(cs)
           s == [i \in DOMAIN h |-> convertToAnthropicMessage(h[i])]
           t == [i \in DOMAIN Grown(h, cs) |-> convertToAnthropicMessage(Grown(h, cs)[i])]
           res == <<Result(ids)>>
<1>1. /\ n \in Nat /\ DOMAIN h = 1..n /\ \A i \in 1..n : h[i] \in Message
      /\ DOMAIN Grown(h, cs) = 1..(n + 2)
      /\ \A i \in 1..(n + 2) :
           Grown(h, cs)[i] = IF i <= n THEN h[i] ELSE IF i = n + 1 THEN Assistant(cs) ELSE Results(cs)
  BY GrownIs
<1>2. s \in [1..n -> Seq(Part)]
  BY <1>1, AnthropicParts
<1>3. convertToAnthropicMessage(Assistant(cs)) = <<Use(ids)>>
  BY RoundIs DEF convertToAnthropicMessage, Use
<1>4. convertToAnthropicMessage(Results(cs)) = res
  BY RoundIs DEF convertToAnthropicMessage, Result
<1>5. AnthropicRequest(h) = FlattenSeq(s) /\ AnthropicRequest(Grown(h, cs)) = FlattenSeq(t)
  BY DEF AnthropicRequest
<1>6. /\ t \in [1..(n + 2) -> Seq(Part)] /\ \A i \in 1..n : t[i] = s[i]
      /\ t[n + 1] = <<Use(ids)>> /\ t[n + 2] = res
  <2>1. /\ n + 1 \in 1..(n + 2) /\ ~(n + 1 <= n)
        /\ n + 2 \in 1..(n + 2) /\ ~(n + 2 <= n) /\ n + 2 # n + 1
        /\ \A i \in 1..n : i \in 1..(n + 2) /\ i <= n
    BY <1>1
  <2>2. t \in [1..(n + 2) -> Seq(Part)]
    <3>1. \A i \in 1..(n + 2) : Grown(h, cs)[i] \in Message
      BY <1>1, TurnTypes
    <3> QED BY <1>1, <3>1, AnthropicParts
  <2> QED BY <1>1, <1>3, <1>4, <2>1, <2>2
<1>7. ids \in Seq(ID \union Name)
  BY RoundIs
<1> HIDE DEF n, ids, s, t
<1>8. s \in Seq(Seq(Part)) /\ Len(s) = n
  BY <1>1, <1>2
<1>9. /\ res \in Seq(Part) /\ \A k \in 1..Len(res) : res[k].type = "tool_result"
      /\ FlattenSeq([k \in 1..Len(res) |-> res[k].ids]) = ids
  BY <1>7, OneResult
<1> HIDE DEF res
<1>10. /\ t \in Seq(Seq(Part)) /\ Len(t) = Len(s) + 2 /\ \A i \in 1..Len(s) : t[i] = s[i]
       /\ t[Len(s) + 1] = <<Use(ids)>> /\ t[Len(s) + 2] = res
  <2>1. n \in Nat /\ Len(s) = n /\ s \in Seq(Seq(Part)) /\ res \in Seq(Part)
    BY <1>1, <1>8, <1>9
  <2>2. t \in Seq(Seq(Part)) /\ Len(t) = n + 2
    <3> DEFINE Q == Seq(Part)
    <3> HIDE DEF Q
    <3>1. t \in [1..(n + 2) -> Q]
      BY <1>6 DEF Q
    <3>2. t \in Seq(Q) /\ Len(t) = n + 2
      BY <2>1, <3>1
    <3> QED BY <3>2 DEF Q
  <2> QED BY <1>6, <2>1, <2>2
<1>11. Paired(FlattenSeq(s))
  BY <1>5
<1>12. Paired(FlattenSeq(t))
  BY <1>7, <1>8, <1>9, <1>10, <1>11, PairedGrows
<1> QED BY <1>5, <1>12

LEMMA OpenAIGrows ==
  ASSUME NEW h \in Seq(Message), NEW cs \in Seq(Event), cs # << >>, Paired(OpenAIRequest(h))
  PROVE  Paired(OpenAIRequest(Grown(h, cs)))
<1> DEFINE n == Len(h)
           ids == CallIDs(cs)
           s == [i \in DOMAIN h |-> convertToOpenAIMessages(h[i])]
           t == [i \in DOMAIN Grown(h, cs) |-> convertToOpenAIMessages(Grown(h, cs)[i])]
           res == [k \in 1..Len(ids) |-> Result(<<ids[k]>>)]
<1>1. /\ n \in Nat /\ DOMAIN h = 1..n /\ \A i \in 1..n : h[i] \in Message
      /\ DOMAIN Grown(h, cs) = 1..(n + 2)
      /\ \A i \in 1..(n + 2) :
           Grown(h, cs)[i] = IF i <= n THEN h[i] ELSE IF i = n + 1 THEN Assistant(cs) ELSE Results(cs)
  BY GrownIs
<1>2. s \in [1..n -> Seq(Part)]
  BY <1>1, OpenAIParts
<1>3. convertToOpenAIMessages(Assistant(cs)) = <<Use(ids)>>
  BY RoundIs DEF convertToOpenAIMessages, Use
<1>4. convertToOpenAIMessages(Results(cs)) = res
  <2>1. ids \in Seq(ID \union Name) /\ DOMAIN ids = 1..Len(ids)
    BY RoundIs, LenProperties
  <2>2. Results(cs).role = "user" /\ Results(cs).results = ids /\ ids # << >>
    BY RoundIs
  <2> HIDE DEF ids
  <2> QED BY <2>1, <2>2 DEF convertToOpenAIMessages, Result
<1>5. OpenAIRequest(h) = FlattenSeq(s) /\ OpenAIRequest(Grown(h, cs)) = FlattenSeq(t)
  BY DEF OpenAIRequest
<1> HIDE DEF res
<1>6. /\ t \in [1..(n + 2) -> Seq(Part)] /\ \A i \in 1..n : t[i] = s[i]
      /\ t[n + 1] = <<Use(ids)>> /\ t[n + 2] = res
  <2>1. /\ n + 1 \in 1..(n + 2) /\ ~(n + 1 <= n)
        /\ n + 2 \in 1..(n + 2) /\ ~(n + 2 <= n) /\ n + 2 # n + 1
        /\ \A i \in 1..n : i \in 1..(n + 2) /\ i <= n
    BY <1>1
  <2>2. t \in [1..(n + 2) -> Seq(Part)]
    <3>1. \A i \in 1..(n + 2) : Grown(h, cs)[i] \in Message
      BY <1>1, TurnTypes
    <3> QED BY <1>1, <3>1, OpenAIParts
  <2> QED BY <1>1, <1>3, <1>4, <2>1, <2>2
<1>7. ids \in Seq(ID \union Name)
  BY RoundIs
<1> HIDE DEF n, ids, s, t
<1>8. s \in Seq(Seq(Part)) /\ Len(s) = n
  BY <1>1, <1>2
<1>9. /\ res \in Seq(Part) /\ \A k \in 1..Len(res) : res[k].type = "tool_result"
      /\ FlattenSeq([k \in 1..Len(res) |-> res[k].ids]) = ids
  <2>1. /\ DOMAIN res = 1..Len(ids) /\ res = [k \in DOMAIN res |-> res[k]]
        /\ \A k \in 1..Len(ids) : res[k] = Result(<<ids[k]>>)
    BY DEF res
  <2> QED BY <1>7, <2>1, EachResult
<1>10. /\ t \in Seq(Seq(Part)) /\ Len(t) = Len(s) + 2 /\ \A i \in 1..Len(s) : t[i] = s[i]
       /\ t[Len(s) + 1] = <<Use(ids)>> /\ t[Len(s) + 2] = res
  <2>1. n \in Nat /\ Len(s) = n /\ s \in Seq(Seq(Part)) /\ res \in Seq(Part)
    BY <1>1, <1>8, <1>9
  <2>2. t \in Seq(Seq(Part)) /\ Len(t) = n + 2
    <3> DEFINE Q == Seq(Part)
    <3> HIDE DEF Q
    <3>1. t \in [1..(n + 2) -> Q]
      BY <1>6 DEF Q
    <3>2. t \in Seq(Q) /\ Len(t) = n + 2
      BY <2>1, <3>1
    <3> QED BY <3>2 DEF Q
  <2> QED BY <1>6, <2>1, <2>2
<1>11. Paired(FlattenSeq(s))
  BY <1>5
<1>12. Paired(FlattenSeq(t))
  BY <1>7, <1>8, <1>9, <1>10, <1>11, PairedGrows
<1> QED BY <1>5, <1>12

\* The names of the calls of a conversation are those of its first messages.
LEMMA GrownNames ==
  ASSUME NEW h \in Seq(Message), NEW cs \in Seq(Event), cs # << >>, NamesInIDs(h),
         \A i \in 1..Len(cs) : cs[i].id[1] = cs[i].name
  PROVE  /\ NamesInIDs(Grown(h, cs))
         /\ \A i \in 1..Len(h) : ToolCallNames(Grown(h, cs), i) = ToolCallNames(h, i)
         /\ LET names == ToolCallNames(Grown(h, cs), Len(h) + 2) IN
            \A i \in 1..Len(cs) :
              cs[i].id \in DOMAIN names /\ names[cs[i].id] = cs[i].name
<1> DEFINE n == Len(h)
           g == Grown(h, cs)
           names == ToolCallNames(g, n + 2)
<1>1. /\ g \in Seq(Message) /\ n \in Nat /\ DOMAIN g = 1..(n + 2) /\ DOMAIN h = 1..n
      /\ Len(g) = n + 2
      /\ \A i \in 1..(n + 2) :
           g[i] = IF i <= n THEN h[i] ELSE IF i = n + 1 THEN Assistant(cs) ELSE Results(cs)
  BY GrownIs
<1> HIDE DEF g, n
<1>2. /\ \A i \in 1..n : i \in 1..(n + 2) /\ g[i] = h[i]
      /\ n + 1 \in 1..(n + 2) /\ g[n + 1] = Assistant(cs)
      /\ n + 2 \in 0..Len(g) /\ n + 2 \in 1..(n + 2) /\ g[n + 2] = Results(cs)
  <2>1. /\ \A i \in 1..n : i \in 1..(n + 2) /\ i <= n
        /\ n + 1 \in 1..(n + 2) /\ ~(n + 1 <= n)
        /\ n + 2 \in 0..(n + 2) /\ n + 2 \in 1..(n + 2) /\ ~(n + 2 <= n) /\ n + 2 # n + 1
    BY <1>1
  <2> QED BY <1>1, <2>1
<1>3. NamesInIDs(g)
  <2>1. ASSUME NEW i \in 1..(n + 2), NEW c \in Range(g[i].calls)
        PROVE  c.id[1] = c.name
    <3>1. CASE i \in 1..n
      <4>1. c \in Range(h[i].calls) /\ i \in DOMAIN h
        BY <1>1, <1>2, <2>1, <3>1
      <4> QED BY <4>1 DEF NamesInIDs
    <3>2. CASE i = n + 1
      <4>1. c \in Range(Assistant(cs).calls)
        BY <1>2, <2>1, <3>2
      <4>2. PICK j \in 1..Len(cs) : c = [id |-> cs[j].id, name |-> cs[j].name]
        BY <4>1, RoundIs
      <4> QED BY <4>2
    <3>3. CASE i = n + 2
      <4>1. c \in Range(<< >>)
        BY <1>2, <2>1, <3>3, RoundIs
      <4> QED BY <4>1 DEF Range
    <3>4. i \in 1..n \/ i = n + 1 \/ i = n + 2
      BY <1>1
    <3> QED BY <3>1, <3>2, <3>3, <3>4
  <2> QED BY <1>1, <2>1 DEF NamesInIDs
<1>4. ASSUME NEW i \in 1..n PROVE ToolCallNames(g, i) = ToolCallNames(h, i)
  <2>1. \A j \in 1..i : j \in 1..n
    BY <1>1
  <2>2. [j \in 1..i |-> g[j].calls] = [j \in 1..i |-> h[j].calls]
    BY <1>2, <2>1
  <2> DEFINE F(all) ==
               [id \in {all[k].id : k \in DOMAIN all} |->
                  all[CHOOSE k \in DOMAIN all :
                        /\ all[k].id = id
                        /\ \A j \in DOMAIN all : all[j].id = id => j <= k].name]
  <2>3. \A x : ToolCallNames(x, i) = F(CallsUpTo(x, i))
    BY DEF ToolCallNames, CallsUpTo
  <2>4. CallsUpTo(g, i) = CallsUpTo(h, i)
    BY <2>2 DEF CallsUpTo
  <2> HIDE DEF F
  <2> QED BY <2>3, <2>4
<1>5. ASSUME NEW i \in 1..Len(cs)
      PROVE  cs[i].id \in DOMAIN names /\ names[cs[i].id] = cs[i].name
  <2> DEFINE c == [id |-> cs[i].id, name |-> cs[i].name]
  <2>1. c \in Range(Assistant(cs).calls)
    BY RoundIs
  <2>2. c \in Range(CallsUpTo(g, n + 2))
    BY <1>1, <1>2, <2>1, CallsUpToIs
  <2>3. DOMAIN names = {d.id : d \in Range(CallsUpTo(g, n + 2))}
    BY <1>1, <1>2, <1>3, LastName
  <2>4. cs[i].id \in DOMAIN names
    BY <2>2, <2>3
  <2>5. \A id \in DOMAIN names : names[id] = id[1]
    BY <1>1, <1>2, <1>3, LastName
  <2> QED BY <2>4, <2>5
<1> QED BY <1>3, <1>4, <1>5 DEF g, n

LEMMA GeminiGrows ==
  ASSUME NEW h \in Seq(Message), NEW cs \in Seq(Event), cs # << >>, NamesInIDs(h),
         \A i \in 1..Len(cs) : cs[i].id[1] = cs[i].name, Paired(GeminiRequest(h))
  PROVE  Paired(GeminiRequest(Grown(h, cs)))
<1> DEFINE n == Len(h)
           g == Grown(h, cs)
           ids == CallNames(cs)
           s == [i \in DOMAIN h |-> convertToGeminiContent(h[i], ToolCallNames(h, i))]
           t == [i \in DOMAIN g |-> convertToGeminiContent(g[i], ToolCallNames(g, i))]
           res == <<Result(ids)>>
<1>1. /\ n \in Nat /\ DOMAIN h = 1..n /\ \A i \in 1..n : h[i] \in Message
      /\ DOMAIN g = 1..(n + 2) /\ g \in Seq(Message) /\ Len(g) = n + 2
      /\ \A i \in 1..(n + 2) :
           g[i] = IF i <= n THEN h[i] ELSE IF i = n + 1 THEN Assistant(cs) ELSE Results(cs)
  BY GrownIs
<1>2. s \in [1..n -> Seq(Part)]
  <2>1. \A i \in 1..n : i \in 0..Len(h)
    BY <1>1
  <2>2. \A i \in 1..n : \A id \in DOMAIN ToolCallNames(h, i) : ToolCallNames(h, i)[id] \in Name
    BY <2>1, LastName
  <2> QED BY <1>1, <2>2, GeminiParts
<1>3. convertToGeminiContent(Assistant(cs), ToolCallNames(g, n + 1)) = <<Use(ids)>>
  BY RoundIs DEF convertToGeminiContent, Use
<1>4. convertToGeminiContent(Results(cs), ToolCallNames(g, n + 2)) = res
  <2> DEFINE names == ToolCallNames(g, n + 2)
             r == CallIDs(cs)
             m == Results(cs)
  <2>1. r # << >> /\ m.role = "user" /\ m.results = r
    BY RoundIs
  <2>2. DOMAIN r = 1..Len(cs) /\ DOMAIN ids = 1..Len(cs) /\ \A i \in 1..Len(cs) : r[i] = cs[i].id /\ ids[i] = cs[i].name
    BY DEF CallIDs, CallNames
  <2>3. \A i \in 1..Len(cs) : cs[i].id \in DOMAIN names /\ names[cs[i].id] = cs[i].name
    BY GrownNames
  <2>4. ids = [i \in 1..Len(cs) |-> ids[i]]
    BY DEF CallNames
  <2> HIDE DEF r, ids, names, m
  <2>5. [i \in DOMAIN r |-> IF r[i] \in DOMAIN names THEN names[r[i]] ELSE r[i]] = ids
    BY <2>2, <2>3, <2>4
  <2>6. [i \in DOMAIN m.results |-> IF m.results[i] \in DOMAIN names THEN names[m.results[i]]
                                     ELSE m.results[i]] = ids
    BY <2>1, <2>5
  <2>7. convertToGeminiContent(m, names) = << [type |-> "tool_result", ids |-> ids] >>
    BY <2>1, <2>6 DEF convertToGeminiContent
  <2> QED BY <2>7 DEF Result, m, names
<1>5. GeminiRequest(h) = FlattenSeq(s) /\ GeminiRequest(g) = FlattenSeq(t)
  BY DEF GeminiRequest
<1>6. /\ t \in [1..(n + 2) -> Seq(Part)] /\ \A i \in 1..n : t[i] = s[i]
      /\ t[n + 1] = <<Use(ids)>> /\ t[n + 2] = res
  <2>1. /\ n + 1 \in 1..(n + 2) /\ ~(n + 1 <= n)
        /\ n + 2 \in 1..(n + 2) /\ ~(n + 2 <= n) /\ n + 2 # n + 1
        /\ \A i \in 1..n : i \in 1..(n + 2) /\ i <= n
    BY <1>1
  <2>2. t \in [1..(n + 2) -> Seq(Part)]
    <3>1. \A i \in 1..(n + 2) : g[i] \in Message
      BY <1>1, TurnTypes
    <3>2. \A i \in 1..(n + 2) : i \in 0..Len(g)
      BY <1>1
    <3>3. NamesInIDs(g)
      BY GrownNames
    <3> HIDE DEF g
    <3>4. \A i \in 1..(n + 2) : \A id \in DOMAIN ToolCallNames(g, i) : ToolCallNames(g, i)[id] \in Name
      BY <1>1, <3>2, <3>3, LastName
    <3> QED BY <1>1, <3>1, <3>4, GeminiParts
  <2>3. \A i \in 1..n : ToolCallNames(g, i) = ToolCallNames(h, i)
    BY GrownNames
  <2>4. \A i \in 1..n : t[i] = s[i]
    BY <1>1, <2>1, <2>3
  <2> QED BY <1>1, <1>3, <1>4, <2>1, <2>2, <2>4
<1>7. ids \in Seq(ID \union Name)
  BY RoundIs
<1> HIDE DEF n, ids, s, t
<1>8. s \in Seq(Seq(Part)) /\ Len(s) = n
  <2> DEFINE Q == Seq(Part)
  <2>1. s \in [1..n -> Q] /\ n \in Nat
    BY <1>1, <1>2
  <2> HIDE DEF Q
  <2>2. s \in Seq(Q) /\ Len(s) = n
    BY <2>1
  <2> QED BY <2>2 DEF Q
<1>9. /\ res \in Seq(Part) /\ \A k \in 1..Len(res) : res[k].type = "tool_result"
      /\ FlattenSeq([k \in 1..Len(res) |-> res[k].ids]) = ids
  BY <1>7, OneResult
<1> HIDE DEF res
<1>10. /\ t \in Seq(Seq(Part)) /\ Len(t) = Len(s) + 2 /\ \A i \in 1..Len(s) : t[i] = s[i]
       /\ t[Len(s) + 1] = <<Use(ids)>> /\ t[Len(s) + 2] = res
  <2>1. n \in Nat /\ Len(s) = n /\ s \in Seq(Seq(Part)) /\ res \in Seq(Part)
    BY <1>1, <1>8, <1>9
  <2>2. t \in Seq(Seq(Part)) /\ Len(t) = n + 2
    <3> DEFINE Q == Seq(Part)
    <3> HIDE DEF Q
    <3>1. t \in [1..(n + 2) -> Q]
      BY <1>6 DEF Q
    <3>2. t \in Seq(Q) /\ Len(t) = n + 2
      BY <2>1, <3>1
    <3> QED BY <3>2 DEF Q
  <2> QED BY <1>6, <2>1, <2>2
<1>11. Paired(FlattenSeq(s))
  BY <1>5
<1>12. Paired(FlattenSeq(t))
  BY <1>7, <1>8, <1>9, <1>10, <1>11, PairedGrows
<1> QED BY <1>5, <1>12

Requests(p, h) ==
  CASE p = "anthropic" -> AnthropicRequest(h)
    [] p = "openai" -> OpenAIRequest(h)
    [] p = "gemini" -> GeminiRequest(h)

LEMMA RequestsGrow ==
  ASSUME NEW p \in {"anthropic", "openai", "gemini"}, NEW h \in Seq(Message),
         NEW cs \in Seq(Event), cs # << >>, Paired(Requests(p, h)),
         p = "gemini" => /\ NamesInIDs(h)
                         /\ \A i \in 1..Len(cs) : cs[i].id[1] = cs[i].name
  PROVE  /\ Paired(Requests(p, Grown(h, cs)))
         /\ p = "gemini" => NamesInIDs(Grown(h, cs))
<1>1. CASE p = "anthropic"
  <2>1. \A x : Requests(p, x) = AnthropicRequest(x)
    BY <1>1 DEF Requests
  <2> QED BY <1>1, <2>1, AnthropicGrows
<1>2. CASE p = "openai"
  <2>1. \A x : Requests(p, x) = OpenAIRequest(x)
    BY <1>2 DEF Requests
  <2> QED BY <1>2, <2>1, OpenAIGrows
<1>3. CASE p = "gemini"
  <2>1. \A x : Requests(p, x) = GeminiRequest(x)
    BY <1>3 DEF Requests
  <2> QED BY <1>3, <2>1, GeminiGrows, GrownNames
<1> QED BY <1>1, <1>2, <1>3

\* The first request is the user's message.
LEMMA HistPairedInit == Init => HistPaired
<1> SUFFICES ASSUME Init PROVE HistPaired
  OBVIOUS
<1> DEFINE first == [type |-> "text", ids |-> << >>]
<1>1. hist = <<User>> /\ DOMAIN hist = {1} /\ hist[1] = User
  BY DEF Init
<1>2. /\ convertToAnthropicMessage(User) = <<first>>
      /\ convertToOpenAIMessages(User) = <<first>>
      /\ \A names : convertToGeminiContent(User, names) = <<first>>
  BY DEF User, convertToAnthropicMessage, convertToOpenAIMessages, convertToGeminiContent
<1>3. FlattenSeq(<< <<first>> >>) = <<first>>
  <2>1. first \in Part
    BY PartTypes
  <2> HIDE DEF first
  <2>2. <<first>> \in Seq(Part)
    BY <2>1
  <2> QED BY <2>2, FlattenOne
<1>4. /\ AnthropicRequest(hist) = <<first>> /\ OpenAIRequest(hist) = <<first>>
      /\ GeminiRequest(hist) = <<first>>
  <2>1. [i \in DOMAIN hist |-> convertToAnthropicMessage(hist[i])] = << <<first>> >>
    BY <1>1, <1>2
  <2>2. [i \in DOMAIN hist |-> convertToOpenAIMessages(hist[i])] = << <<first>> >>
    BY <1>1, <1>2
  <2>3. [i \in DOMAIN hist |-> convertToGeminiContent(hist[i], ToolCallNames(hist, i))]
          = << <<first>> >>
    BY <1>1, <1>2
  <2> HIDE DEF first
  <2> QED BY <1>3, <2>1, <2>2, <2>3 DEF AnthropicRequest, OpenAIRequest, GeminiRequest
<1>5. Request(hist) = <<first>>
  <2>1. provider \in {"anthropic", "openai", "gemini"}
    BY StreamAssumption DEF Init
  <2> QED BY <1>4, <2>1 DEF Request
<1>6. Paired(Request(hist))
  BY <1>5 DEF Paired
<1>7. NamesInIDs(hist)
  BY <1>1 DEF NamesInIDs, User, Range
<1> QED BY <1>6, <1>7 DEF HistPaired

LEMMA HistPairedStep ==
  ASSUME TypeOK, Response, HistPaired, [Next]_vars
  PROVE  HistPaired'
<1>1. provider' = provider /\ provider \in {"anthropic", "openai", "gemini"}
  <2>1. provider' = provider
    BY DEF Next, Reader, Caller, vars, ReadLine, SkipLine, ReadEndLine, ReadEOF, ReadBroken,
           ReadCancelled, ReadFull, Emit, Close, ChatOK, ChatRetryable, ChatError, Receive,
           StreamFailed, AnswerText, MarshalFails, RunTools, CancelCtx
  <2> QED BY <2>1, ProviderIs
<1>2. /\ Paired(Requests(provider, hist)) /\ (provider = "gemini" => NamesInIDs(hist))
      /\ HistPaired' <=> /\ Paired(Requests(provider, hist'))
                         /\ provider = "gemini" => NamesInIDs(hist')
  BY <1>1 DEF HistPaired, Request, Requests
<1>3. CASE hist' = hist
  BY <1>2, <1>3
<1>4. CASE RunTools
  <2>1. calls # << >> /\ hist' = Grown(hist, calls)
    BY <1>4 DEF RunTools, Grown
  <2>2. hist \in Seq(Message) /\ calls \in Seq(Event)
    BY DEF TypeOK
  <2>3. ASSUME provider = "gemini", NEW i \in 1..Len(calls)
        PROVE  calls[i].id[1] = calls[i].name
    <3>1. calls[i] \in Range(calls)
      BY <2>2, LenProperties DEF Range
    <3>2. calls[i] \in Range(CallsOut)
      BY <2>2, <3>1, FlowTypes, ConcatRange DEF CallsOut
    <3> QED BY <2>3, <3>2 DEF Response, IDsSound
  <2> QED BY <1>1, <1>2, <2>1, <2>2, <2>3, RequestsGrow
<1> QED BY <1>3, <1>4
        DEF Next, Reader, Caller, vars, ReadLine, SkipLine, ReadEndLine, ReadEOF, ReadBroken,
            ReadCancelled, ReadFull, Emit, Close, ChatOK, ChatRetryable, ChatError, Receive,
            StreamFailed, AnswerText, MarshalFails, CancelCtx

-----------------------------------------------------------------------------
(* The invariant is inductive.                                             *)

LEMMA Initially == Init => IInv
<1> SUFFICES ASSUME Init PROVE IInv
  OBVIOUS
<1>1. TypeOK
  BY TypeInit
<1>2. Phases
  <2>1. Flow = << >>
    BY EmptySeq, ConcatEmptySeq DEF Init, Flow
  <2> QED BY <2>1 DEF Init, Phases
<1>3. Response
  BY <1>2, OffResponse DEF Init
<1> QED BY <1>1, <1>2, <1>3, HistPairedInit DEF IInv

LEMMA Inductive == IInv /\ [Next]_vars => IInv'
<1> SUFFICES ASSUME IInv, [Next]_vars PROVE IInv'
  OBVIOUS
<1>1. TypeOK /\ Phases /\ Response /\ HistPaired /\ OnlyCalls
  BY DEF IInv, Response, ToolsSound, OnlyCalls
<1>2. TypeOK'
  BY <1>1, ReaderType, CallerType DEF Next
<1>3. Phases'
  BY <1>1, PhasesStep
<1>4. Response'
  BY <1>1, <1>2, <1>3, ResponseStep
<1>5. HistPaired'
  BY <1>1, HistPairedStep
<1> QED BY <1>2, <1>3, <1>4, <1>5 DEF IInv

\* The reachable states satisfy the invariant.
LEMMA Invariant == Spec => []IInv
BY Initially, Inductive, PTL DEF Spec

-----------------------------------------------------------------------------
(* Theorems.                                                               *)

\* What a provider and its caller hold is well-formed: in particular every
\* partial tool call is one of a block of the answer being read, and a token
\* on the channel has its fragment.
THEOREM TypeCorrect == Spec => []TypeOK
BY Invariant, PTL DEF IInv

\* A call on its way is one of CallsOut.
LEMMA InFlightCalls ==
  ASSUME TypeOK
  PROVE  \A e \in EventsInFlight : e.type = "call" => e \in Range(CallsOut)
<1>1. /\ queue \in Seq(Event) /\ pending \in Seq(Event) /\ calls \in Seq(Event)
      /\ Flow \in Seq(Event) /\ FlatMap(CallOf, Flow) \in Seq(Event)
  BY FlowTypes DEF TypeOK
<1>2. Range(CallsOut) = Range(calls) \union Range(FlatMap(CallOf, Flow))
  BY <1>1, ConcatRange DEF CallsOut
<1>3. Range(Flow) = Range(queue) \union Range(pending)
  BY <1>1, ConcatRange DEF Flow
<1>4. ASSUME NEW e \in Range(Flow), e.type = "call" PROVE e \in Range(FlatMap(CallOf, Flow))
  <2>1. PICK i \in 1..Len(Flow) : Flow[i] = e
    BY <1>1, Elements DEF Range
  <2>2. e \in Event
    BY <1>1, <2>1, Elements
  <2>3. CallOf[e] = <<e>>
    BY <1>4, <2>2 DEF CallOf
  <2>4. e \in Range(CallOf[Flow[i]])
    BY <2>1, <2>3 DEF Range
  <2> QED BY <1>1, <2>1, <2>4, GivesCalls, FlatMapRange
<1> QED BY <1>2, <1>3, <1>4 DEF EventsInFlight

LEMMA IntactCalls == IInv => CallsIntact
<1> SUFFICES ASSUME IInv, "garbled" \notin damage,
                    NEW c \in EventsInFlight, c.type = "call",
                    NEW d \in EventsInFlight, d.type = "call"
             PROVE  /\ ~Holes(c) /\ answer[c.block].call /\ c.name = answer[c.block].name
                    /\ c.id = d.id => c = d
  BY DEF CallsIntact
<1>1. /\ TypeOK /\ CallsSound /\ IDsSound /\ CallsOut \in Seq(Event)
      /\ c \in Range(CallsOut) /\ d \in Range(CallsOut)
  BY InFlightCalls, FlowTypes DEF IInv, Response
<1>2. ~Holes(c) /\ answer[c.block].call /\ c.name = answer[c.block].name
  BY <1>1 DEF CallsSound, Holes
<1>3. PICK i \in DOMAIN CallsOut : c = CallsOut[i]
  BY <1>1 DEF Range
<1>4. PICK j \in DOMAIN CallsOut : d = CallsOut[j]
  BY <1>1 DEF Range
<1>5. i \in Nat /\ j \in Nat /\ c.block \in Nat /\ d.block \in Nat
  BY <1>1, <1>3, <1>4, LenProperties, EventType
<1>6. CASE provider = "gemini"
  <2>1. Sorted(CallsOut, Numbered) /\ c.id[2] \in Nat /\ d.id[2] \in Nat
    BY <1>1, <1>6 DEF IDsSound
  <2>2. /\ i < j => c.id[2] < d.id[2]
        /\ j < i => d.id[2] < c.id[2]
    BY <1>3, <1>4, <2>1 DEF Sorted, Numbered
  <2>3. c.id = d.id => i = j
    BY <1>5, <2>1, <2>2
  <2> QED BY <1>2, <1>3, <1>4, <2>3
<1>7. CASE provider # "gemini"
  <2>1. c.id[4] = c.block /\ d.id[4] = d.block /\ Sorted(CallsOut, CallOrder)
    BY <1>1, <1>7 DEF IDsSound, ServerIDs, CallsSound
  <2>2. i < j \/ j < i => c.block # d.block
    <3>1. \A p \in CallOrder : p[1].block \in Nat /\ p[2].block \in Nat => p[1].block # p[2].block
      BY DEF CallOrder
    <3>2. /\ i < j => <<c, d>> \in CallOrder
          /\ j < i => <<d, c>> \in CallOrder
      BY <1>3, <1>4, <2>1 DEF Sorted
    <3>3. <<c, d>>[1] = c /\ <<c, d>>[2] = d /\ <<d, c>>[1] = d /\ <<d, c>>[2] = c
      OBVIOUS
    <3> QED BY <1>5, <3>1, <3>2, <3>3
  <2>3. c.id = d.id => i = j
    BY <1>5, <2>1, <2>2
  <2> QED BY <1>2, <1>3, <1>4, <2>3
<1> QED BY <1>6, <1>7

\* A tool call that is on its way from a reader to the loop, or with it, has
\* its name and every fragment of its arguments, and no two of an answer have
\* one ID, wherever the body ended and however the deltas came (the readStream
\* of each provider: content_block_start/delta/stop, toolStates, callIndex).
THEOREM CallsArriveIntact == Spec => []CallsIntact
BY Invariant, IntactCalls, PTL

-----------------------------------------------------------------------------
(* What a caller has of an answer it accepts.                              *)

Increasing == {p \in Nat \X Nat : p[1] < p[2]}

CallBlocks == {b \in DOMAIN answer : answer[b].call}

LEMMA AllCallsIs ==
  ASSUME TypeOK
  PROVE  /\ AllCalls \in Seq(Nat) /\ Sorted(AllCalls, Increasing)
         /\ Range(AllCalls) = CallBlocks
<1> DEFINE n == Len(answer)
           s == [b \in 1..n |-> IF answer[b].call THEN <<b>> ELSE << >>]
<1>1. DOMAIN answer = 1..n /\ n \in Nat
  BY LenProperties DEF TypeOK
<1>2. AllCalls = FlattenSeq(s)
  BY <1>1 DEF AllCalls
<1>3. s \in [1..n -> Seq(Nat)] /\ \A b \in 1..n : s[b] = IF answer[b].call THEN <<b>> ELSE << >>
  BY <1>1
<1> HIDE DEF s, n
<1>4. s \in Seq(Seq(Nat)) /\ Len(s) = n
  BY <1>1, <1>3
<1>5. \A b \in 1..n : \A x : x \in Range(s[b]) <=> answer[b].call /\ x = b
  <2>1. Range(<< >>) = {} /\ \A e : Range(<<e>>) = {e}
    BY DEF Range
  <2> QED BY <1>3, <2>1
<1>6. FlattenSeq(s) \in Seq(Nat)
  BY <1>4, FlattenType
<1>7. Range(FlattenSeq(s)) = CallBlocks
  <2>1. \A x : x \in Range(FlattenSeq(s)) <=> \E i \in 1..Len(s) : x \in Range(s[i])
    BY <1>4, FlattenRange
  <2>2. \A x : x \in Range(FlattenSeq(s)) <=> x \in CallBlocks
    BY <1>1, <1>4, <1>5, <2>1 DEF CallBlocks
  <2> QED BY <2>2
<1>8. Sorted(FlattenSeq(s), Increasing)
  <2>1. \A i \in 1..n : Sorted(s[i], Increasing)
    BY <1>3, SortedShort
  <2>2. \A i, j \in 1..n : i < j => \A x \in Range(s[i]), y \in Range(s[j]) : <<x, y>> \in Increasing
    BY <1>1, <1>5 DEF Increasing
  <2> QED BY <1>4, <2>1, <2>2, FlattenSorted
<1> QED BY <1>2, <1>6, <1>7, <1>8

\* When the channel is closed and empty the caller has all that was sent.
LEMMA DrainedOut ==
  ASSUME TypeOK, Phases, Drained
  PROVE  TextOut = text /\ CallsOut = calls /\ (Errs <=> streamErr)
<1>1. queue = << >> /\ pending = << >>
  BY DEF Drained, Phases
<1>2. Flow = << >>
  BY <1>1, EmptySeq, ConcatEmptySeq DEF Flow
<1>3. FlatMap(TextOf, Flow) = << >> /\ FlatMap(CallOf, Flow) = << >>
  BY <1>2, FlatMapEmpty
<1>4. TextOut = text
  <2> DEFINE P == Nat \X Nat
  <2>1. text \in Seq(P)
    BY DEF TypeOK
  <2> HIDE DEF P
  <2> QED BY <1>3, <2>1, ConcatEmptySeq DEF TextOut
<1>5. CallsOut = calls
  <2>1. calls \in Seq(Event)
    BY DEF TypeOK
  <2> QED BY <1>3, <2>1, ConcatEmptySeq DEF CallsOut
<1>6. Errs <=> streamErr
  <2>1. Range(Flow) = {}
    BY <1>2 DEF Range
  <2> QED BY <2>1 DEF Errs
<1> QED BY <1>4, <1>5, <1>6

\* A response that was damaged in no unnoticed way has all its fragments and
\* all its calls.
LEMMA Complete ==
  ASSUME TypeOK, Phases, Response, Drained, ~streamErr, damage \intersect Unnoticed = {}
  PROVE  TextWhole /\ (Loops => CallsWhole)
<1>1. rd = "closed" /\ ~Errs
  BY DrainedOut DEF Drained
<1>2. IF Streaming THEN AllSent /\ (provider = "openai" => tail > 0)
      ELSE TextWhole /\ (Loops => CallsWhole)
  BY <1>1 DEF Response, Accounted
<1>3. ASSUME Streaming PROVE TextWhole /\ CallsWhole
  <2>1. "garbled" \notin damage
    BY <1>3 DEF Unnoticed
  <2>2. AllSent /\ (provider = "openai" => tail > 0)
    BY <1>2, <1>3
  <2>3. ASSUME NEW x \in Fragments PROVE x \in Range(TextOut)
    <3>1. /\ x \in Nat \X Nat /\ x[1] \in DOMAIN answer /\ ~answer[x[1]].call
          /\ x[2] \in 1..answer[x[1]].frags
      BY FragmentsIs
    <3>2. sent[x[1]] = LinesOf(x[1]) /\ answer[x[1]].frags \in Nat
      BY <2>2, <3>1, BlockType DEF AllSent
    <3>3. TokenLine(x[2]) <= LinesOf(x[1])
      BY <3>1, <3>2, LinesIs, ProviderIs DEF TokenLine
    <3> QED BY <1>3, <2>1, <3>2, <3>3 DEF Response, TextSound
  <2>4. ASSUME NEW b \in DOMAIN answer, answer[b].call
        PROVE  \E e \in Range(CallsOut) : e.block = b
    BY <1>3, <2>1, <2>2, <2>4 DEF Response, ToolsSound, AllSent
  <2> QED BY <2>3, <2>4 DEF TextWhole, CallsWhole
<1> QED BY <1>2, <1>3

\* The blocks of the calls a caller collected.
Got == [i \in DOMAIN calls |-> calls[i].block]

LEMMA GotIs ==
  ASSUME TypeOK, Phases, Response, Drained
  PROVE  /\ Got \in Seq(Nat) /\ Len(Got) = Len(calls) /\ DOMAIN Got = DOMAIN calls
         /\ \A i \in DOMAIN calls : Got[i] = calls[i].block
         /\ \A i, j \in DOMAIN Got : i < j => Got[i] # Got[j]
         /\ ~(provider = "openai" /\ Streaming) => Sorted(Got, Increasing)
         /\ Range(Got) \subseteq CallBlocks
         /\ CallsWhole => CallBlocks \subseteq Range(Got)
<1>1. CallsOut = calls /\ calls \in Seq(Event) /\ CallsSound
  BY DrainedOut DEF TypeOK, Response
<1>2. DOMAIN calls = 1..Len(calls) /\ Len(calls) \in Nat /\ \A i \in DOMAIN calls : calls[i] \in Event
  BY <1>1, Elements
<1>3. \A i \in DOMAIN calls : calls[i].block \in Nat /\ calls[i] \in Range(calls)
  BY <1>2, EventType DEF Range
<1>4. Got \in [1..Len(calls) -> Nat] /\ \A i \in DOMAIN calls : Got[i] = calls[i].block
  BY <1>2, <1>3 DEF Got
<1>5. Got \in Seq(Nat) /\ Len(Got) = Len(calls) /\ DOMAIN Got = DOMAIN calls
  BY <1>2, <1>4
<1>6. ASSUME NEW i \in DOMAIN calls, NEW j \in DOMAIN calls, i < j
      PROVE  /\ Got[i] # Got[j] /\ Got[i] \in Nat /\ Got[j] \in Nat
             /\ ~(provider = "openai" /\ Streaming) => Got[i] < Got[j]
  <2>1. <<calls[i], calls[j]>> \in CallOrder
    BY <1>1, <1>6 DEF CallsSound, Sorted
  <2> DEFINE p == <<calls[i], calls[j]>>
  <2>2. p[1] = calls[i] /\ p[2] = calls[j]
    OBVIOUS
  <2>3. IF provider = "openai" /\ Streaming THEN p[1].block # p[2].block
                                            ELSE p[1].block < p[2].block
    BY <2>1 DEF CallOrder
  <2> HIDE DEF p
  <2> QED BY <1>3, <1>4, <2>2, <2>3
<1>7. ~(provider = "openai" /\ Streaming) => Sorted(Got, Increasing)
  BY <1>5, <1>6 DEF Sorted, Increasing
<1>8. Range(Got) = {calls[i].block : i \in DOMAIN calls}
  BY <1>4, <1>5 DEF Range
<1>9. Range(Got) \subseteq CallBlocks
  <2>1. \A e \in Range(calls) : e.block \in DOMAIN answer /\ answer[e.block].call
    BY <1>1 DEF CallsSound
  <2> QED BY <1>3, <1>8, <2>1 DEF CallBlocks
<1>10. ASSUME CallsWhole PROVE CallBlocks \subseteq Range(Got)
  <2>1. \A b \in CallBlocks : \E e \in Range(calls) : e.block = b
    BY <1>1, <1>10 DEF CallsWhole, CallBlocks
  <2> QED BY <1>8, <2>1 DEF Range
<1> QED BY <1>4, <1>5, <1>6, <1>7, <1>9, <1>10

LEMMA AccountedAnswer == IInv => AnswerAccounted
<1> SUFFICES ASSUME IInv, Drained, ~streamErr
             PROVE  /\ Whole \/ damage \intersect Unnoticed # {}
                    /\ \A i \in DOMAIN text : text[i] \in Range(AllText)
                    /\ \A i, j \in DOMAIN text : i < j =>
                         \/ text[i][1] < text[j][1]
                         \/ text[i][1] = text[j][1] /\ text[i][2] < text[j][2]
                    /\ \A i, j \in DOMAIN calls : calls[i].block = calls[j].block => i = j
  BY DEF AnswerAccounted
<1> DEFINE P == Nat \X Nat
<1>1. /\ TypeOK /\ Phases /\ Response
      /\ TextOut = text /\ CallsOut = calls /\ text \in Seq(P) /\ calls \in Seq(Event)
  BY DrainedOut DEF IInv, TypeOK
<1>2. /\ Sorted(text, Before) /\ \A x \in Range(text) : x \in Fragments
  BY <1>1 DEF Response, TextSound
<1>3. /\ AllText \in Seq(P) /\ Sorted(AllText, Before)
      /\ \A x : x \in Range(AllText) <=> x \in Fragments
  BY <1>1, AllTextIs
<1>4. \A i \in DOMAIN text : text[i] \in Range(AllText)
  BY <1>2, <1>3 DEF Range
<1>5. ASSUME NEW i \in DOMAIN text, NEW j \in DOMAIN text, i < j
      PROVE  \/ text[i][1] < text[j][1]
             \/ text[i][1] = text[j][1] /\ text[i][2] < text[j][2]
  <2>1. <<text[i], text[j]>> \in Before
    BY <1>2, <1>5 DEF Sorted
  <2> QED BY <2>1 DEF Before
<1>6. ASSUME NEW i \in DOMAIN calls, NEW j \in DOMAIN calls, calls[i].block = calls[j].block
      PROVE  i = j
  <2>1. i \in Nat /\ j \in Nat
    BY <1>1, LenProperties
  <2>2. ~(i < j) /\ ~(j < i)
    BY <1>1, <1>6, GotIs
  <2> QED BY <2>1, <2>2
<1>7. ASSUME damage \intersect Unnoticed = {} PROVE Whole
  <2>1. TextWhole /\ (Loops => CallsWhole)
    BY <1>1, <1>7, Complete
  <2>2. text = AllText
    <3>1. Range(text) = Range(AllText)
      BY <1>1, <1>2, <1>3, <2>1 DEF TextWhole
    <3>2. Asymmetric(Before)
      BY DEF Asymmetric, Before
    <3> HIDE DEF P
    <3> QED BY <1>1, <1>2, <1>3, <3>1, <3>2, SortedUnique
  <2>3. ASSUME Loops
        PROVE  IF provider = "openai" /\ Streaming
               THEN Range(Got) = Range(AllCalls) /\ Len(Got) = Len(AllCalls)
               ELSE Got = AllCalls
    <3>1. Range(Got) = Range(AllCalls)
      BY <1>1, <2>1, <2>3, GotIs, AllCallsIs
    <3>2. Got \in Seq(Nat) /\ AllCalls \in Seq(Nat) /\ Sorted(AllCalls, Increasing)
      BY <1>1, GotIs, AllCallsIs
    <3>3. CASE provider = "openai" /\ Streaming
      <4>1. Cardinality(Range(Got)) = Len(Got)
        <5>1. \A i, j \in DOMAIN Got : i < j => Got[i] # Got[j]
          BY <1>1, GotIs
        <5> QED BY <3>2, <5>1, DistinctLength
      <4>2. Cardinality(Range(AllCalls)) = Len(AllCalls)
        <5>1. \A i, j \in DOMAIN AllCalls : i < j => AllCalls[i] # AllCalls[j]
          <6> TAKE i, j \in DOMAIN AllCalls
          <6> HAVE i < j
          <6>1. <<AllCalls[i], AllCalls[j]>> \in Increasing
            BY <3>2 DEF Sorted
          <6>2. AllCalls[i] \in Nat /\ AllCalls[i] < AllCalls[j]
            BY <6>1 DEF Increasing
          <6> QED BY <6>2
        <5> QED BY <3>2, <5>1, DistinctLength
      <4> QED BY <3>1, <3>3, <4>1, <4>2
    <3>4. CASE ~(provider = "openai" /\ Streaming)
      <4>1. Sorted(Got, Increasing)
        BY <1>1, <3>4, GotIs
      <4>2. Asymmetric(Increasing)
        BY DEF Asymmetric, Increasing
      <4>3. Got = AllCalls
        BY <3>1, <3>2, <4>1, <4>2, SortedUnique
      <4> QED BY <3>4, <4>3
    <3> QED BY <3>3, <3>4
  <2> QED BY <2>2, <2>3 DEF Whole, Got
<1> QED BY <1>4, <1>5, <1>6, <1>7

\* A response whose events end without an error is the whole answer, its text
\* and its calls in their order, unless it was damaged in a way its reader
\* does not report; and even then nothing of it is twice, out of order or of
\* an attempt that failed before (the loops over the event channel in
\* runAgenticLoop, the subagents, compaction and the LLM checker).
THEOREM AnswersAreAccounted == Spec => []AnswerAccounted
BY Invariant, AccountedAnswer, PTL

\* Every request a provider sends has the results of each message of calls
\* right behind it, by ID or by name (convertToAnthropicMessage,
\* convertToOpenAIMessages, convertToGeminiContent), for any number of rounds
\* and whatever the streams lost.
THEOREM RequestsStayPaired == Spec => []RequestPaired
<1>1. IInv => RequestPaired
  BY DEF IInv, HistPaired, Paired, RequestPaired
<1> QED BY <1>1, Invariant, PTL

=============================================================================
