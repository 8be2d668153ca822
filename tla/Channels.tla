------------------------------ MODULE Channels ------------------------------
(***************************************************************************)
(* A chat channel (Telegram, Discord, Slack, Matrix or WhatsApp), the      *)
(* ChannelRouter between its adapter and the agent, and the background     *)
(* work the agent's tools start for a chat: spawned agents, scheduled      *)
(* turns and immediate notifications.                                      *)
(*                                                                         *)
(* A turn is seen through its session lock, its approvals and its answer   *)
(* (module AgentTurn has its inside, and what turns and notifications      *)
(* store).  A chat stands for its session: SessionMap derives one from the *)
(* other.  (WhatsApp derives it from the sender, so there a chat is the    *)
(* private chat of somebody, and what he writes to a group, too, belongs   *)
(* to it and is answered in it.)  The adapters differ in what they can show; each has a router    *)
(* goroutine, a SessionMap and an inbound channel of its own, so one of    *)
(* them is modelled.  Web sessions belong to no adapter of the router.     *)
(***************************************************************************)
EXTENDS Naturals, Sequences, FiniteSets, Split

CONSTANTS
  Adapters,     \* of the adapters' names
  Chats, Web,   \* chats of the channel; sessions of the webchat
  Order,        \* messages users send, in the order they come
  Timers,       \* scheduled turns
  Tasks,        \* spawned agents and notifications
  Replies,      \* texts the model answers with, and their chunks
  MaxLen,       \* longest message of the channel
  InboundCap,   \* capacity of the inbound channel (256)
  MaxAsks,      \* turns that ask for approval (cap of the model)
  MaxRestarts   \* restarts of the process (cap of the model)

Msgs == Range(Order)
Jobs == Msgs \union Timers \union Tasks
Sessions == Chats \union Web
None == "none"

\* Messages, timers and background tasks have identifiers of their own, and so
\* have the sessions of chats and of websockets.  Answers are decoded from JSON,
\* which leaves only valid UTF-8, and an empty one is not sent.
ASSUME ChannelsAssumption ==
  /\ Adapters \subseteq {"telegram", "discord", "slack", "matrix", "whatsapp"}
  /\ {MaxLen, InboundCap} \subseteq Nat \ {0}
  /\ \A r \in Replies :
       ValidText(r.text) /\ r.text # <<>> /\ r.chunks = SplitMessage(r.text, MaxLen)
  /\ {MaxAsks, MaxRestarts} \subseteq Nat
  /\ Chats \intersect Web = {} /\ None \notin Sessions \union Jobs
  /\ Msgs \intersect Timers = {} /\ Tasks \intersect (Msgs \union Timers) = {}

VARIABLES
  adapter,   \* which adapter this is
  restarts,  \* how often it was started again
  sessions,  \* SessionMap: the chats it knows
  row,       \* session -> channel of its row in the store
  inbound,   \* the adapter's inbound channel
  phase,     \* job -> how far it is
  chat,      \* job -> its session
  parent,    \* notification -> job whose tool call waits for it
  typing,    \* jobs whose typing loop runs
  approval,  \* message -> state of its turn's approval request
  cards,     \* messages whose approval request the chat shows
  text,      \* job -> its answer
  chunks,    \* job -> chunks of the answer not sent yet
  shown,     \* chat -> job -> chunks of it the platform shows
  results,   \* spawnResults: task -> "running", "done"
  age,       \* task -> "old" once it is done for longer than spawnResultTTL
  taken      \* task -> how often a check returned its result

vars == <<adapter, restarts, sessions, row, inbound, phase, chat,
          parent, typing, approval, cards, text, chunks, shown, results, age, taken>>

process == <<adapter, restarts>>
incoming == <<sessions, inbound>>
approvals == <<approval, cards>>
answers == <<text, chunks, shown>>
spawns == <<results, age, taken>>

\* What an adapter implements: TypingIndicator, ApprovalSender.
HasTyping == adapter # "slack"
HasButtons == adapter \in {"telegram", "discord", "slack"}

Goto(j, p) == phase' = [phase EXCEPT ![j] = p]

Over(j) == phase[j] \in {"ended", "lost"}

-----------------------------------------------------------------------------
(* The adapter: messages and answers of users.                             *)

\* The next message somebody sends.
Fresh(m) ==
  /\ phase[m] = "none"
  /\ \E i \in DOMAIN Order : Order[i] = m /\ \A k \in 1..(i - 1) : phase[Order[k]] # "none"

\* GetOrCreate is one step: its second look is under the write lock.
GetOrCreate(c) == sessions' = sessions \union {c}

\* handleUpdate, handleMessage, handleEvent, handleEventsAPI: the handler
\* waits, with the chat already known, while the channel is full.  c is the chat
\* of the message, or for WhatsApp that of its sender.
HandleMessage(m, c) ==
  /\ Fresh(m) /\ Len(inbound) < InboundCap
  /\ GetOrCreate(c)
  /\ inbound' = Append(inbound, [type |-> "message", msg |-> m])
  /\ chat' = [chat EXCEPT ![m] = c]
  /\ Goto(m, "queued")
  /\ UNCHANGED <<process, row, parent, typing, approvals, answers, spawns>>

\* The bot's own messages, those without text and, for WhatsApp, those of
\* senders outside the allow list.
IgnoreMessage(m) ==
  /\ Fresh(m)
  /\ Goto(m, "ended")
  /\ UNCHANGED <<process, incoming, row, chat, parent, typing, approvals, answers, spawns>>

\* The user answers a request the chat shows; a text "approve <id>" comes as a
\* message, so that its chat gets known.
Answer(m) ==
  /\ m \in cards /\ Len(inbound) < InboundCap
  /\ inbound' = Append(inbound, [type |-> "answer", msg |-> m])
  /\ IF HasButtons THEN UNCHANGED sessions ELSE GetOrCreate(chat[m])
  /\ UNCHANGED <<process, row, phase, chat, parent, typing, approval,
                 answers, spawns>>

\* Telegram takes the buttons away first, unless that fails.
handleCallbackQuery(m) ==
  adapter = "telegram" /\ Answer(m) /\ cards' \in {cards, cards \ {m}}

\* So does Discord, in its response to the interaction.
handleInteraction(m) ==
  adapter = "discord" /\ Answer(m) /\ cards' \in {cards, cards \ {m}}

\* Slack's buttons, and the text of the others, can be used again.
AnswerAgain(m) ==
  adapter \notin {"telegram", "discord"} /\ Answer(m) /\ UNCHANGED cards

-----------------------------------------------------------------------------
(* The router: listenAdapter and handleMessage.                            *)

\* Approver.Respond: only a registered request takes an answer, and one.
Respond(m) ==
  approval' = IF approval[m] = "open" THEN [approval EXCEPT ![m] = "answered"] ELSE approval

startTypingLoop(j) == typing' = IF HasTyping THEN typing \union {j} ELSE typing

stopTyping(j) == typing' = typing \ {j}

\* ensureSession points the row at the adapter, or fails; the message is
\* handled all the same.
EnsureSession(c) == row' = [row EXCEPT ![c] = "channel"] \/ UNCHANGED row

\* An answer is passed on at once; a message gets a goroutine, which runs
\* handleMessage, here up to its call of RunTurn.
Listen ==
  /\ inbound # <<>>
  /\ inbound' = Tail(inbound)
  /\ LET msg == Head(inbound) IN
     \/ msg.type = "answer" /\ Respond(msg.msg) /\ UNCHANGED <<phase, row, typing>>
     \/ /\ msg.type = "message"
        /\ EnsureSession(chat[msg.msg])
        /\ startTypingLoop(msg.msg)
        /\ Goto(msg.msg, "starting")
        /\ UNCHANGED approval
  /\ UNCHANGED <<process, sessions, chat, parent, cards, answers, spawns>>

InTurn(j) == j \in Msgs \union Timers /\ phase[j] = "turn"

\* RunTurn, getOrCreateSession: the row of every session is pointed at the
\* webchat.
ResolveSession(j) ==
  /\ phase[j] = "starting"
  /\ row' = [row EXCEPT ![chat[j]] = "webchat"]
  /\ Goto(j, "locking")
  /\ UNCHANGED <<process, incoming, chat, parent, typing, approvals, answers, spawns>>

\* RunTurn: one turn of a session at a time.
RunTurn(j) ==
  /\ phase[j] = "locking"
  /\ \A k \in Jobs : InTurn(k) => chat[k] # chat[j]
  /\ Goto(j, "turn")
  /\ UNCHANGED <<process, incoming, row, chat, parent, typing, approvals, answers, spawns>>

\* Mutant of RunTurnFails: the typing loop goes on.
RunTurnFails_typing(j) ==
  /\ phase[j] \in {"starting", "locking"}
  /\ Goto(j, "ended")
  /\ UNCHANGED <<process, incoming, row, chat, parent, typing, approvals, answers, spawns>>

\* The row cannot be updated or the message not be stored.
RunTurnFails(j) ==
  /\ phase[j] \in {"starting", "locking"}
  /\ stopTyping(j)
  /\ Goto(j, "ended")
  /\ UNCHANGED <<process, incoming, row, chat, parent, approvals, answers, spawns>>

\* A turn of a websocket (module WebChat): nothing of it passes the router.
WebTurn(m, w) ==
  /\ Fresh(m)
  /\ \A k \in Jobs : InTurn(k) => chat[k] # w
  /\ chat' = [chat EXCEPT ![m] = w]
  /\ row' = [row EXCEPT ![w] = "webchat"]
  /\ Goto(m, "turn")
  /\ UNCHANGED <<process, incoming, parent, typing, approvals, answers, spawns>>

-----------------------------------------------------------------------------
(* Events of a turn: consumeTurnEvents.                                    *)

\* TurnApprovalNeeded: sendApprovalRequest, or the text without buttons; the
\* chat may not get it.  Scheduled turns approve by themselves.
AskApproval(m) ==
  /\ m \in Msgs /\ InTurn(m) /\ chat[m] \in Chats /\ approval[m] = "no"
  /\ Cardinality({n \in Msgs : approval[n] # "no"}) < MaxAsks
  /\ approval' = [approval EXCEPT ![m] = "asked"]
  /\ \/ chat[m] \in sessions /\ cards' = cards \union {m}
     \/ UNCHANGED cards
  /\ UNCHANGED <<process, incoming, row, phase, chat, parent, typing, answers, spawns>>

\* RequestApproval registers the request after the event was sent.
RequestApproval(m) ==
  /\ approval[m] = "asked"
  /\ approval' = [approval EXCEPT ![m] = "open"]
  /\ UNCHANGED <<process, incoming, row, phase, chat, parent, typing, cards, answers,
                 spawns>>

\* An answer, the tool's timeout or the context ends the wait.
ApprovalEnds(m) ==
  /\ approval[m] \in {"open", "answered"}
  /\ approval' = [approval EXCEPT ![m] = "over"]
  /\ UNCHANGED <<process, incoming, row, phase, chat, parent, typing, cards, answers,
                 spawns>>

\* adapter.Send: the chunks of the text.
StartSend(j, reply) ==
  /\ text' = [text EXCEPT ![j] = reply.text]
  /\ chunks' = [chunks EXCEPT ![j] = reply.chunks]
  /\ UNCHANGED shown

\* The turn ends: TurnDone brings the answer, TurnError nothing.
TurnEnds(j) ==
  /\ InTurn(j) /\ (j \in Msgs => approval[j] \in {"no", "over"})
  /\ \A n \in Tasks : parent[n] = j => Over(n)
  /\ stopTyping(j)
  /\ \/ \E reply \in Replies :
          chat[j] \in Chats /\ StartSend(j, reply) /\ Goto(j, "send")
     \/ Goto(j, "ended") /\ UNCHANGED answers
  /\ UNCHANGED <<process, incoming, row, chat, parent, approvals, spawns>>

\* Mutant of SendChunk: a chunk that is refused is skipped.
SendChunk_skips(j) ==
  /\ phase[j] = "send" /\ chat[j] \in sessions
  /\ \/ shown' = [shown EXCEPT ![chat[j]][j] = Append(@, Head(chunks[j]))]
     \/ UNCHANGED shown
  /\ chunks' = [chunks EXCEPT ![j] = Tail(@)]
  /\ Goto(j, IF Len(chunks[j]) = 1 THEN "sent" ELSE "send")
  /\ UNCHANGED <<process, incoming, row, chat, parent, typing, approvals, text, spawns>>

\* One chunk after the other; the first error ends the loop.
SendChunk(j) ==
  /\ phase[j] = "send" /\ chat[j] \in sessions
  /\ shown' = [shown EXCEPT ![chat[j]][j] = Append(@, Head(chunks[j]))]
  /\ chunks' = [chunks EXCEPT ![j] = Tail(@)]
  /\ Goto(j, IF Len(chunks[j]) = 1 THEN "sent" ELSE "send")
  /\ UNCHANGED <<process, incoming, row, chat, parent, typing, approvals, text, spawns>>

\* Send returns, with or without an error that is only logged; what it showed
\* is not followed any further.
SendReturns(j) ==
  /\ phase[j] \in {"send", "sent"}
  /\ Goto(j, "ended")
  /\ text' = [text EXCEPT ![j] = <<>>] /\ chunks' = [chunks EXCEPT ![j] = <<>>]
  /\ shown' = [c \in Chats |-> [shown[c] EXCEPT ![j] = <<>>]]
  /\ UNCHANGED <<process, incoming, row, chat, parent, typing, approvals, spawns>>

-----------------------------------------------------------------------------
(* The tools spawn and notify.                                             *)

\* RunSpawnAgent: the entry first, then a goroutine with a context of its own.
\* A spawned agent has no spawn tool.
RunSpawnAgent(j, s) ==
  /\ InTurn(j) /\ phase[s] = "none"
  /\ results' = [t \in DOMAIN results \union {s} |-> IF t = s THEN "running" ELSE results[t]]
  /\ chat' = [chat EXCEPT ![s] = chat[j]]
  /\ Goto(s, "working")
  /\ UNCHANGED <<process, incoming, row, parent, typing, approvals, answers, age, taken>>

\* RunSubturn returns, after ten minutes at the latest; the result is kept
\* before it is delivered, and an error is only kept.
SpawnDone(s) ==
  /\ phase[s] = "working"
  /\ results' = [t \in DOMAIN results \union {s} |-> IF t = s THEN "done" ELSE results[t]]
  /\ \E next \in {"deliver", "ended"} : Goto(s, next)
  /\ UNCHANGED <<process, incoming, row, chat, parent, typing, approvals, answers, age,
                 taken>>

\* CheckSpawn; an ID it does not know or that still runs changes nothing.
CheckSpawn(j, s) ==
  /\ InTurn(j)
  /\ s \in DOMAIN results /\ results[s] = "done"
  /\ results' = [t \in DOMAIN results \ {s} |-> results[t]]
  /\ taken' = [taken EXCEPT ![s] = @ + 1]
  /\ UNCHANGED <<process, incoming, row, phase, chat, parent, typing, approvals, answers,
                 age>>

Expire(s) ==
  /\ s \in DOMAIN results /\ results[s] = "done" /\ age[s] # "old"
  /\ age' = [age EXCEPT ![s] = "old"]
  /\ UNCHANGED <<process, incoming, row, phase, chat, parent, typing, approvals, answers,
                 results, taken>>

\* Mutant of cleanupSpawnResults: it does not look whether the agent is done.
cleanupSpawnResults_running ==
  LET old == {s \in DOMAIN results : results[s] = "running" \/ age[s] = "old"} IN
  /\ old # {}
  /\ results' = [s \in DOMAIN results \ old |-> results[s]]
  /\ UNCHANGED <<process, incoming, row, phase, chat, parent, typing, approvals, answers,
                 age, taken>>

\* A tick of cleanupSpawnResults.
cleanupSpawnResults ==
  LET old == {s \in DOMAIN results : results[s] = "done" /\ age[s] = "old"} IN
  /\ old # {}
  /\ results' = [s \in DOMAIN results \ old |-> results[s]]
  /\ UNCHANGED <<process, incoming, row, phase, chat, parent, typing, approvals, answers,
                 age, taken>>

\* notify, action send, of a turn or of a spawned agent, which waits for it.
NotifySend(j, n) ==
  /\ InTurn(j) \/ phase[j] = "working"
  /\ phase[n] = "none"
  /\ chat' = [chat EXCEPT ![n] = chat[j]]
  /\ parent' = [parent EXCEPT ![n] = j]
  /\ Goto(n, "deliver")
  /\ UNCHANGED <<process, incoming, row, typing, approvals, answers, spawns>>

\* Mutant of AdapterForSession: the only adapter gets everything.
AdapterForSession_any(c) == TRUE

\* adapterForSession: the adapter named by the session's row.
AdapterForSession(c) == row[c] = "channel"

SendToSession(n) ==
  /\ phase[n] = "deliver"
  /\ \/ /\ AdapterForSession(chat[n])
        /\ \E reply \in Replies : StartSend(n, reply)
        /\ Goto(n, "send")
     \/ Goto(n, "ended") /\ UNCHANGED answers     \* no row, no adapter, no store
  /\ UNCHANGED <<process, incoming, row, chat, parent, typing, approvals, spawns>>

\* notify, action schedule: time.AfterFunc.
NotifySchedule(j, t) ==
  /\ InTurn(j) \/ phase[j] = "working"
  /\ phase[t] = "none"
  /\ chat' = [chat EXCEPT ![t] = chat[j]]
  /\ Goto(t, "armed")
  /\ UNCHANGED <<process, incoming, row, parent, typing, approvals, answers, spawns>>

\* The timer fires: RunAndDeliver up to RunTurn.
RunAndDeliver(t) ==
  /\ phase[t] = "armed"
  /\ \/ AdapterForSession(chat[t]) /\ startTypingLoop(t) /\ Goto(t, "starting")
     \/ ~AdapterForSession(chat[t]) /\ Goto(t, "ended") /\ UNCHANGED typing
  /\ UNCHANGED <<process, incoming, row, chat, parent, approvals, answers, spawns>>

-----------------------------------------------------------------------------
(* The process.                                                            *)

NoText == [j \in Jobs |-> <<>>]

\* The process ends and starts again.  The store is left, the approval
\* requests in the chats, and the answers there, which are not followed any
\* further: nothing of the new process belongs to them.  (A signal first
\* cancels the contexts of everything but the spawned agents, so that jobs
\* fail as they may at any time here.)
Restart ==
  /\ restarts < MaxRestarts
  /\ restarts' = restarts + 1
  /\ sessions' = {} /\ inbound' = <<>> /\ typing' = {}
  /\ text' = NoText /\ chunks' = NoText /\ shown' = [c \in Chats |-> NoText]
  /\ results' = << >> /\ age' = [s \in Tasks |-> "new"] /\ taken' = [s \in Tasks |-> 0]
  /\ phase' = [j \in Jobs |-> IF phase[j] = "none" THEN "none" ELSE "lost"]
  /\ parent' = [n \in Tasks |-> None]
  /\ approval' = [m \in Msgs |-> IF approval[m] = "no" THEN "no" ELSE "over"]
  /\ chat' = [j \in Jobs |-> IF j \in cards THEN chat[j] ELSE None]
  /\ UNCHANGED <<adapter, row, cards>>

Init ==
  /\ adapter \in Adapters /\ restarts = 0
  /\ sessions = {} /\ row = [c \in Sessions |-> None]
  /\ inbound = <<>>
  /\ phase = [j \in Jobs |-> "none"] /\ chat = [j \in Jobs |-> None]
  /\ parent = [n \in Tasks |-> None] /\ typing = {}
  /\ approval = [m \in Msgs |-> "no"] /\ cards = {}
  /\ text = NoText /\ chunks = NoText /\ shown = [c \in Chats |-> NoText]
  /\ results = << >> /\ age = [s \in Tasks |-> "new"] /\ taken = [s \in Tasks |-> 0]

User ==
  \/ \E m \in Msgs, c \in Chats : HandleMessage(m, c)
  \/ \E m \in Msgs :
       IgnoreMessage(m) \/ handleCallbackQuery(m) \/ handleInteraction(m) \/ AnswerAgain(m)
  \/ \E m \in Msgs, w \in Web : WebTurn(m, w)

Tools(j) ==
  \/ \E s \in Tasks : RunSpawnAgent(j, s) \/ CheckSpawn(j, s) \/ NotifySend(j, s)
  \/ \E t \in Timers : NotifySchedule(j, t)

\* The goroutines a job runs in, and the approvals of its turn.
Goroutine(j) ==
  \/ j \in Msgs /\ (RequestApproval(j) \/ ApprovalEnds(j))
  \/ ResolveSession(j) \/ RunTurn(j) \/ RunTurnFails(j) \/ TurnEnds(j) \/ SendChunk(j) \/ SendReturns(j)
  \/ j \in Tasks /\ (SpawnDone(j) \/ SendToSession(j))

Next ==
  \/ User \/ Listen \/ cleanupSpawnResults \/ Restart
  \/ \E j \in Jobs : Goroutine(j) \/ Tools(j)
  \/ \E m \in Msgs : AskApproval(m)
  \/ \E s \in Tasks : Expire(s)
  \/ \E t \in Timers : RunAndDeliver(t)

\* The goroutines run, a turn and a spawned agent end (modules AgentTurn and
\* ToolBatch), the platform's calls return.  Users, signals, timers and the
\* choice of tools are left free.
Spec ==
  /\ Init /\ [][Next]_vars
  /\ WF_vars(Listen)
  /\ \A j \in Jobs : WF_vars(Goroutine(j))

-----------------------------------------------------------------------------
(* Properties.                                                             *)

\* What a chat shows of an answer is a beginning of it, without gaps and in
\* order, in the chat that asked (for WhatsApp: that of who asked), also when several answers go to one chat at
\* once, a chunk is refused or the process restarts; an answer is whole once
\* its last chunk left.
ChunksHome ==
  \A c \in Chats, j \in Jobs :
    /\ shown[c][j] # <<>> => chat[j] = c /\ IsPrefix(FlattenSeq(shown[c][j]), text[j])
    /\ phase[j] = "sent" /\ chat[j] = c => FlattenSeq(shown[c][j]) = text[j]

\* An answer or a notification never fails because its session is unknown to
\* the adapter: whoever sends to a chat was started from it by this process,
\* and only a session the router made a row for is sent to.
SendFindsChat == \A j \in Jobs : phase[j] = "send" => chat[j] \in sessions

Spawned(s) == parent[s] = None /\ phase[s] \notin {"none", "lost"}

\* The result of a spawned agent can be asked for until it was taken, once,
\* or has expired: no check of a known ID fails for another reason.
SpawnAccounted ==
  \A s \in Tasks :
    /\ taken[s] <= 1
    /\ Spawned(s) => s \in DOMAIN results \/ taken[s] = 1 \/ age[s] = "old"

\* All messages and the work they started come to an end, with their typing
\* indicators, so that the router is at rest again and again: no turn waits
\* for a listener that waits for it, and no loop is left behind.
WorkSettles ==
  []<>(\A j \in Jobs : phase[j] \in {"none", "armed", "ended", "lost"} /\ j \notin typing)
=============================================================================
