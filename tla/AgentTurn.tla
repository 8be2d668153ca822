------------------------------ MODULE AgentTurn ------------------------------
(***************************************************************************)
(* One agent turn, from the call of Runtime.RunTurn to the release of the  *)
(* session lock, for any number of turns that run concurrently over a set  *)
(* of sessions and share the message store (pkg/agent/agent.go,            *)
(* compaction.go, pkg/store/store.go), together with the two callers of    *)
(* the gateway that touch the same session rows: handleMessage, which      *)
(* registers the channel of a message before it calls RunTurn, and         *)
(* SendToSession, which appends to the conversation without the lock.      *)
(*                                                                         *)
(* The store is durable and everything else lives in memory, so Crash      *)
(* keeps log, channel and the summaries and forgets the rest.  Message     *)
(* bodies are abstracted to who wrote them and in which iteration; the     *)
(* token budget of the context builder is abstracted to the length of the  *)
(* suffix of the history that fits in it.  A tool batch is one step here   *)
(* (module ToolBatch opens it).                                            *)
(***************************************************************************)
EXTENDS FiniteSets, Transcript

CONSTANTS
  Sessions,               \* session identifiers
  Turns,                  \* calls of RunTurn
  Adapters,               \* names of the channel adapters of the router
  NoTurn, NoSession,      \* "nobody" and "no session yet"
  MaxToolIter,            \* Runtime.maxToolIter
  LLMMaxErrors,           \* config.LLMMaxErrors
  VerifyMaxAttempts,      \* config.DefaultVerificationMaxAttempts
  CompactionThreshold,    \* config.CompactionThreshold
  CompactionKeepRecent,   \* config.CompactionKeepRecent
  RecentMessagesLimit,    \* config.RecentMessagesLimit
  MaxCrashes,             \* bound: process crashes in a behaviour
  MaxNotifies             \* bound: messages sent by SendToSession

Webchat == "webchat"      \* the channel RunTurn registers for every session
NoRow   == "none"         \* channel of a session that has no row yet

ASSUME TurnAssumption ==
  /\ NoTurn \notin Turns
  /\ NoSession \notin Sessions
  /\ Webchat \notin Adapters /\ NoRow \notin Adapters

ASSUME LimitAssumption ==
  /\ MaxToolIter \in Nat \ {0}
  /\ LLMMaxErrors \in Nat
  /\ VerifyMaxAttempts \in Nat
  /\ CompactionKeepRecent \in Nat \ {0}
  /\ CompactionThreshold \in Nat
  /\ CompactionKeepRecent <= CompactionThreshold
  /\ RecentMessagesLimit \in Nat \ {0}
  /\ MaxCrashes \in Nat
  /\ MaxNotifies \in Nat

VARIABLES
  \* the store (durable)
  log,          \* [Sessions -> Seq(Message)], messages in created_at order
  channel,      \* [Sessions -> channel of the session row, or NoRow]
  dropped,      \* messages that DeleteMessages removed (history variable)
  raced,        \* sessions in which a compaction passed over older messages
                \* (history variable)
  \* the runtime (in memory)
  lock,         \* Runtime.sessionLocks: [Sessions -> holder or NoTurn]
  pc,           \* where each turn is
  session,      \* the session each turn runs in
  via,          \* the channel each turn came from
  cancelled,    \* the turn's context is done
  iteration, llmErrors, verificationAttempts, history,   \* runAgenticLoop
  counted, skipped, oldMessages,                         \* CompactSession
  terminal,     \* the TurnDone / TurnError event the turn has emitted
  \* bounds
  crashes, notifies

store   == <<log, channel, dropped, raced>>
loop    == <<iteration, llmErrors, verificationAttempts, history>>
caller  == <<session, via, cancelled>>
compaction == <<counted, skipped, oldMessages>>
bounds  == <<crashes, notifies>>
vars    == <<store, lock, pc, caller, loop, compaction, terminal, bounds>>

-----------------------------------------------------------------------------
(* Messages *)

Kinds   == {"user", "text", "calls", "results", "summary", "notify"}
Message == [kind : Kinds, turn : Turns \cup {NoTurn}, iter : Nat]

Msg(k, t, i) == [kind |-> k, turn |-> t, iter |-> i]

\* Mutant of KeptAt: tool results are kept whatever they follow.
KeptAt_orphans(seq, i) ==
  seq[i].kind = "calls" => i < Len(seq) /\ seq[i+1].kind = "results"

\* sanitizeToolPairs keeps an assistant message with tool calls only together
\* with the tool results that follow it, and drops tool results that follow
\* anything else.  The loop looks at one message and its neighbour, so a message
\* stays or goes by its position alone.
KeptAt(seq, i) ==
  CASE seq[i].kind = "calls"   -> i < Len(seq) /\ seq[i+1].kind = "results"
    [] seq[i].kind = "results" -> i > 1 /\ seq[i-1].kind = "calls"
    [] OTHER                   -> TRUE

-----------------------------------------------------------------------------
(* Program counters *)

Outside  == {"idle", "ensure", "ensureCreate", "resolve", "resolveCreate", "lock"}
Critical == {"append", "count", "compact", "delete", "summary", "load", "chat",
             "answer", "touch", "verify", "calls", "tools", "results",
             "exhausted", "unlock"}
Ended    == {"refused", "done", "dead"}

TypeOK ==
  /\ log \in [Sessions -> Seq(Message)]
  /\ channel \in [Sessions -> Adapters \cup {Webchat, NoRow}]
  /\ dropped \subseteq Message
  /\ raced \subseteq Sessions
  /\ lock \in [Sessions -> Turns \cup {NoTurn}]
  /\ pc \in [Turns -> Outside \cup Critical \cup Ended]
  /\ session \in [Turns -> Sessions \cup {NoSession}]
  /\ via \in [Turns -> Adapters \cup {Webchat, NoRow}]
  /\ cancelled \in [Turns -> BOOLEAN]
  /\ iteration \in [Turns -> 0 .. MaxToolIter - 1]
  /\ llmErrors \in [Turns -> 0 .. LLMMaxErrors]
  /\ verificationAttempts \in [Turns -> 0 .. VerifyMaxAttempts]
  /\ history \in [Turns -> Seq(Message)]
  /\ counted \in [Turns -> Nat]
  /\ skipped \in [Turns -> Nat]
  /\ oldMessages \in [Turns -> Seq(Message)]
  /\ terminal \in [Turns -> {"none", "done", "exhausted", "error"}]
  /\ crashes \in 0 .. MaxCrashes
  /\ notifies \in 0 .. MaxNotifies

Init ==
  /\ log = [s \in Sessions |-> << >>]
  /\ channel = [s \in Sessions |-> NoRow]
  /\ dropped = {} /\ raced = {}
  /\ lock = [s \in Sessions |-> NoTurn]
  /\ pc = [t \in Turns |-> "idle"]
  /\ session = [t \in Turns |-> NoSession]
  /\ via = [t \in Turns |-> NoRow]
  /\ cancelled = [t \in Turns |-> FALSE]
  /\ iteration = [t \in Turns |-> 0]
  /\ llmErrors = [t \in Turns |-> 0]
  /\ verificationAttempts = [t \in Turns |-> 0]
  /\ history = [t \in Turns |-> << >>]
  /\ counted = [t \in Turns |-> 0] /\ skipped = [t \in Turns |-> 0]
  /\ oldMessages = [t \in Turns |-> << >>]
  /\ terminal = [t \in Turns |-> "none"]
  /\ crashes = 0 /\ notifies = 0

At(t, from)     == pc[t] = from
Goto(t, to)     == pc' = [pc EXCEPT ![t] = to]
Append2Log(s, m) == log' = [log EXCEPT ![s] = Append(@, m)]

-----------------------------------------------------------------------------
(* Callers *)

\* A client that calls RunTurn directly (websocket, A2A, terminal).
CallDirect(t, s) ==
  /\ At(t, "idle") /\ Goto(t, "resolve")
  /\ session' = [session EXCEPT ![t] = s]
  /\ via' = [via EXCEPT ![t] = Webchat]
  /\ UNCHANGED <<store, lock, cancelled, loop, compaction, terminal, bounds>>

\* ChannelRouter.handleMessage: a message that came in on adapter a.
HandleMessage(t, s, a) ==
  /\ At(t, "idle") /\ Goto(t, "ensure")
  /\ session' = [session EXCEPT ![t] = s]
  /\ via' = [via EXCEPT ![t] = a]
  /\ UNCHANGED <<store, lock, cancelled, loop, compaction, terminal, bounds>>

\* ChannelRouter.RunAndDeliver: a scheduled turn; it gives up at once unless the
\* session row names an adapter.
RunAndDeliver(t, s) ==
  /\ At(t, "idle")
  /\ channel[s] # NoRow                    \* a turn of the session scheduled it
  /\ Goto(t, IF channel[s] \in Adapters THEN "resolve" ELSE "refused")
  /\ session' = [session EXCEPT ![t] = s]
  /\ via' = [via EXCEPT ![t] = channel[s]]
  /\ UNCHANGED <<store, lock, cancelled, loop, compaction, terminal, bounds>>

\* The turn's context is cancelled: the client went away or the process is asked
\* to stop.
Cancel(t) ==
  /\ pc[t] \notin {"idle"} \cup Ended
  /\ ~cancelled[t]
  /\ cancelled' = [cancelled EXCEPT ![t] = TRUE]
  /\ UNCHANGED <<store, lock, pc, session, via, loop, compaction, terminal, bounds>>

\* Store.GetOrCreateSession(session[t], ch, _).  A row that is there is pointed
\* at channel ch; otherwise the caller goes on to "create", a second statement
\* that fails when another turn created the row in between.  A cancelled context
\* makes GetSession fail, which the code takes for "not found", and Create fail
\* too.  (A failed UpdateSessionChannel ends where a failed Create does.)
GetSession(t, ch, next, create) ==
  LET s == session[t] IN
  \/ /\ ~cancelled[t] /\ channel[s] # NoRow
     /\ channel' = [channel EXCEPT ![s] = ch]
     /\ Goto(t, next)
  \/ /\ channel' = channel
     /\ Goto(t, create)

CreateSession(t, ch, next, failed) ==
  LET s == session[t] IN
  \/ /\ ~cancelled[t] /\ channel[s] = NoRow
     /\ channel' = [channel EXCEPT ![s] = ch]
     /\ Goto(t, next)
  \/ /\ channel' = channel
     /\ Goto(t, failed)

\* ensureSession: the error of GetOrCreateSession is only logged.
EnsureSession(t) ==
  /\ \/ At(t, "ensure") /\ GetSession(t, via[t], "resolve", "ensureCreate")
     \/ At(t, "ensureCreate") /\ CreateSession(t, via[t], "resolve", "resolve")
  /\ UNCHANGED <<log, dropped, raced, lock, caller, loop, compaction, terminal, bounds>>

\* RunTurn, getOrCreateSession: every session is (re)registered as webchat.
ResolveSession(t) ==
  /\ \/ At(t, "resolve") /\ GetSession(t, Webchat, "lock", "resolveCreate")
     \/ At(t, "resolveCreate") /\ CreateSession(t, Webchat, "lock", "refused")
  /\ UNCHANGED <<log, dropped, raced, lock, caller, loop, compaction, terminal, bounds>>

-----------------------------------------------------------------------------
(* RunTurn: the session lock and the user's message *)

\* Mutant of LockSession: sessionLock hands out a fresh mutex every time.
LockSession_fresh(t) ==
  /\ At(t, "lock")
  /\ lock' = [lock EXCEPT ![session[t]] = t]
  /\ Goto(t, "append")
  /\ UNCHANGED <<store, caller, loop, compaction, terminal, bounds>>

\* mu.Lock() does not look at the context.
LockSession(t) ==
  /\ At(t, "lock") /\ lock[session[t]] = NoTurn
  /\ lock' = [lock EXCEPT ![session[t]] = t]
  /\ Goto(t, "append")
  /\ UNCHANGED <<store, caller, loop, compaction, terminal, bounds>>

\* Mutant of PersistUser: the error return forgets mu.Unlock().
PersistUser_keepsLock(t) ==
  /\ At(t, "append")
  /\ \/ /\ ~cancelled[t]
        /\ Append2Log(session[t], Msg("user", t, 0))
        /\ Goto(t, "count")
     \/ /\ Goto(t, "refused")
        /\ UNCHANGED log
  /\ UNCHANGED <<channel, dropped, raced, lock, caller, loop, compaction, terminal, bounds>>

\* AppendMessage of the user's message; on error RunTurn unlocks and returns it.
PersistUser(t) ==
  /\ At(t, "append")
  /\ \/ /\ ~cancelled[t]
        /\ Append2Log(session[t], Msg("user", t, 0))
        /\ Goto(t, "count")
        /\ UNCHANGED lock
     \/ /\ Goto(t, "refused")
        /\ lock' = [lock EXCEPT ![session[t]] = NoTurn]
        /\ UNCHANGED log
  /\ UNCHANGED <<channel, dropped, raced, caller, loop, compaction, terminal, bounds>>

\* The turn emits its last event and closes its channel; Unlock follows.
Finish(t, event) ==
  /\ terminal' = [terminal EXCEPT ![t] = event]
  /\ Goto(t, "unlock")

Unlock(t) ==
  /\ At(t, "unlock") /\ Goto(t, "done")
  /\ lock' = [lock EXCEPT ![session[t]] = NoTurn]
  /\ UNCHANGED <<store, caller, loop, compaction, terminal, bounds>>

-----------------------------------------------------------------------------
(* CompactSession *)

\* GetSession at the head of runAgenticLoop, then MessageCount.
CountMessages(t) ==
  LET count == Len(log[session[t]]) IN
  /\ At(t, "count")
  /\ \/ /\ Finish(t, "error")                                  \* loading session
        /\ UNCHANGED counted
     \/ /\ ~cancelled[t] /\ count > CompactionThreshold
        /\ counted' = [counted EXCEPT ![t] = count]
        /\ Goto(t, "compact")
        /\ UNCHANGED terminal
     \/ /\ ~cancelled[t]                                        \* short, or an error
        /\ Goto(t, "load")
        /\ UNCHANGED <<counted, terminal>>
  /\ UNCHANGED <<store, lock, caller, loop, skipped, oldMessages, bounds>>

\* RecentMessages(count), the split, and the summary call.  A message that came in
\* after the count pushes the oldest one out of what is read.  Every failure of the
\* compaction is logged and the turn goes on with the history as it is.
SelectOld(t) ==
  LET s == session[t]
      messages == Suffix(log[s], counted[t])
      splitIdx == Len(messages) - CompactionKeepRecent
  IN
  /\ At(t, "compact")
  /\ \/ /\ ~cancelled[t] /\ splitIdx > 0
        /\ oldMessages' = [oldMessages EXCEPT ![t] = SubSeq(messages, 1, splitIdx)]
        /\ skipped' = [skipped EXCEPT ![t] = Len(log[s]) - Len(messages)]
        /\ Goto(t, "delete")
     \/ /\ Goto(t, "load")
        /\ UNCHANGED <<skipped, oldMessages>>
  /\ UNCHANGED <<store, lock, caller, loop, counted, terminal, bounds>>

\* Mutant of DeleteOld: the split index is one too large.
DeleteOld_oneMore(t) ==
  LET s == session[t]
      n == Len(oldMessages[t])
  IN
  /\ At(t, "delete") /\ Goto(t, "summary")
  /\ log' = [log EXCEPT ![s] = Cut(@, skipped[t], n + 1)]
  /\ dropped' = dropped \cup {log[s][skipped[t] + i] : i \in 1 .. n + 1}
  /\ UNCHANGED <<channel, raced, lock, caller, loop, compaction, terminal, bounds>>

\* DeleteMessages(oldMessages), one transaction.  The ids it deletes are still
\* where they were read: they were read under the lock, and whoever does not hold
\* the lock only appends.
DeleteOld(t) ==
  LET s == session[t]
      n == Len(oldMessages[t])
  IN
  /\ At(t, "delete")
  /\ \/ /\ ~cancelled[t]
        /\ log' = [log EXCEPT ![s] = Cut(@, skipped[t], n)]
        /\ dropped' = dropped \cup ToSet(oldMessages[t])
        /\ raced' = IF skipped[t] > 0 THEN raced \cup {s} ELSE raced
        /\ Goto(t, "summary")
     \/ /\ Goto(t, "load")
        /\ UNCHANGED <<log, dropped, raced>>
  /\ UNCHANGED <<channel, lock, caller, loop, compaction, terminal, bounds>>

\* Mutant of InsertSummary: the summary is dated now.
InsertSummary_atEnd(t) ==
  /\ At(t, "summary") /\ Goto(t, "load")
  /\ Append2Log(session[t], Msg("summary", t, 0))
  /\ UNCHANGED <<channel, dropped, raced, lock, caller, loop, compaction, terminal, bounds>>

\* AppendMessage(summaryMsg), dated one second before the oldest message kept: in
\* front of it and, among the messages passed over, anywhere.
InsertSummary(t) ==
  /\ At(t, "summary") /\ Goto(t, "load")
  /\ \/ /\ ~cancelled[t]
        /\ \E p \in 1 .. skipped[t] + 1 :
             log' = [log EXCEPT ![session[t]] = InsertAt(@, p, Msg("summary", t, 0))]
     \/ UNCHANGED log
  /\ UNCHANGED <<channel, dropped, raced, lock, caller, loop, compaction, terminal, bounds>>

-----------------------------------------------------------------------------
(* runAgenticLoop *)

\* Mutants of LoadHistory: the oldest messages instead of the newest, and an error
\* return that emits nothing.
LoadHistory_oldest(t) ==
  /\ At(t, "load") /\ Goto(t, "chat")
  /\ history' = [history EXCEPT ![t] =
       SubSeq(log[session[t]], 1, Len(Suffix(log[session[t]], RecentMessagesLimit)))]
  /\ UNCHANGED <<store, lock, caller, iteration, llmErrors, verificationAttempts,
                 compaction, terminal, bounds>>
LoadHistory_silent(t) ==
  /\ At(t, "load")
  /\ \/ /\ ~cancelled[t]
        /\ history' = [history EXCEPT ![t] = Suffix(log[session[t]], RecentMessagesLimit)]
        /\ Goto(t, "chat")
     \/ /\ Goto(t, "unlock")
        /\ UNCHANGED history
  /\ UNCHANGED <<store, lock, caller, iteration, llmErrors, verificationAttempts,
                 compaction, terminal, bounds>>

\* RecentMessages(RecentMessagesLimit): the history the whole turn works on.
LoadHistory(t) ==
  /\ At(t, "load")
  /\ \/ /\ ~cancelled[t]
        /\ history' = [history EXCEPT ![t] = Suffix(log[session[t]], RecentMessagesLimit)]
        /\ Goto(t, "chat")
        /\ UNCHANGED terminal
     \/ /\ Finish(t, "error")
        /\ UNCHANGED history
  /\ UNCHANGED <<store, lock, caller, iteration, llmErrors, verificationAttempts,
                 compaction, bounds>>

\* Mutant of NextIteration: the loop runs once too often.
NextIteration_onceMore(t) ==
  IF iteration[t] + 1 <= MaxToolIter
  THEN /\ iteration' = [iteration EXCEPT ![t] = @ + 1]
       /\ Goto(t, "chat")
  ELSE /\ Goto(t, "exhausted")
       /\ UNCHANGED iteration

\* "continue" in the loop: the next iteration, or the end of the loop.
NextIteration(t) ==
  IF iteration[t] + 1 < MaxToolIter
  THEN /\ iteration' = [iteration EXCEPT ![t] = @ + 1]
       /\ Goto(t, "chat")
  ELSE /\ Goto(t, "exhausted")
       /\ UNCHANGED iteration

\* After the loop: TurnDone with the notice that the iterations are used up.
ReportExhausted(t) ==
  /\ At(t, "exhausted") /\ Finish(t, "exhausted")
  /\ UNCHANGED <<store, lock, caller, loop, compaction, bounds>>

\* The indices of the history that reach the model when the budget fits the last
\* n messages: selectHistory followed by sanitizeToolPairs.
SelectHistory(t, n) ==
  {i \in 1 .. n : KeptAt(Suffix(history[t], n), i)}

\* One call of the model.  Its outcome is an error of the call or of the stream,
\* an answer, or tool calls; under a cancelled context it is an error.
Chat(t) ==
  /\ At(t, "chat")
  /\ \/ \* no message fits the budget: the turn ends
        /\ \E n \in 0 .. Len(history[t]) : SelectHistory(t, n) = {}
        /\ Finish(t, "error")
        /\ UNCHANGED <<iteration, llmErrors>>
     \/ \* error, retried in the next iteration or given up
        IF llmErrors[t] + 1 > LLMMaxErrors
        THEN /\ Finish(t, "error")
             /\ UNCHANGED <<iteration, llmErrors>>
        ELSE /\ llmErrors' = [llmErrors EXCEPT ![t] = @ + 1]
             /\ NextIteration(t)
             /\ UNCHANGED terminal
     \/ /\ ~cancelled[t]
        /\ llmErrors' = [llmErrors EXCEPT ![t] = 0]
        /\ \E to \in {"answer", "calls"} : Goto(t, to)
        /\ UNCHANGED <<iteration, terminal>>
  /\ UNCHANGED <<store, lock, caller, verificationAttempts, history, compaction, bounds>>

\* Mutant of PersistAnswer: the error of AppendMessage is ignored.
PersistAnswer_ignoresError(t) ==
  /\ At(t, "answer") /\ Goto(t, "touch")
  /\ \/ ~cancelled[t] /\ Append2Log(session[t], Msg("text", t, iteration[t]))
     \/ UNCHANGED log
  /\ UNCHANGED <<channel, dropped, raced, lock, caller, loop, compaction, terminal, bounds>>

\* persistAssistantMessage: the message, then TouchSession, whose failure ends
\* the turn with an error although the answer is stored.
PersistAnswer(t) ==
  /\ At(t, "answer")
  /\ \/ /\ ~cancelled[t]
        /\ Append2Log(session[t], Msg("text", t, iteration[t]))
        /\ Goto(t, "touch")
        /\ UNCHANGED terminal
     \/ /\ Finish(t, "error")
        /\ UNCHANGED log
  /\ UNCHANGED <<channel, dropped, raced, lock, caller, loop, compaction, bounds>>

TouchSession(t) ==
  /\ At(t, "touch")
  /\ \/ ~cancelled[t] /\ Goto(t, "verify") /\ UNCHANGED terminal
     \/ Finish(t, "error")
  /\ UNCHANGED <<store, lock, caller, loop, compaction, bounds>>

\* The verification gates; without gates they pass.
Verify(t) ==
  /\ At(t, "verify")
  /\ \/ /\ Finish(t, "done")
        /\ UNCHANGED <<iteration, verificationAttempts>>
     \/ /\ verificationAttempts[t] < VerifyMaxAttempts
        /\ verificationAttempts' = [verificationAttempts EXCEPT ![t] = @ + 1]
        /\ NextIteration(t)
        /\ UNCHANGED terminal
  /\ UNCHANGED <<store, lock, caller, llmErrors, history, compaction, bounds>>

\* The assistant message with the tool calls, stored before any tool runs.
PersistCalls(t) ==
  /\ At(t, "calls")
  /\ \/ /\ ~cancelled[t]
        /\ Append2Log(session[t], Msg("calls", t, iteration[t]))
        /\ Goto(t, "tools")
        /\ UNCHANGED terminal
     \/ /\ Finish(t, "error")
        /\ UNCHANGED log
  /\ UNCHANGED <<channel, dropped, raced, lock, caller, loop, compaction, bounds>>

\* RunBatch and the recovery of its failed tools.  When the strategy rotation
\* waits for its cooldown and the context is done, the loop returns without a
\* terminal event.
RunTools(t) ==
  /\ At(t, "tools")
  /\ \/ Goto(t, "results")
     \/ cancelled[t] /\ Goto(t, "unlock")
  /\ UNCHANGED <<store, lock, caller, loop, compaction, terminal, bounds>>

\* The tool results; the history of the turn grows by the pair.
PersistResults(t) ==
  /\ At(t, "results")
  /\ \/ /\ ~cancelled[t]
        /\ Append2Log(session[t], Msg("results", t, iteration[t]))
        /\ history' = [history EXCEPT ![t] =
             @ \o <<Msg("calls", t, iteration[t]), Msg("results", t, iteration[t])>>]
        /\ NextIteration(t)
        /\ UNCHANGED terminal
     \/ /\ Finish(t, "error")
        /\ UNCHANGED <<log, history, iteration>>
  /\ UNCHANGED <<channel, dropped, raced, lock, caller, llmErrors,
                 verificationAttempts, compaction, bounds>>

-----------------------------------------------------------------------------
(* The rest of the system *)

\* ChannelRouter.SendToSession, called by the notify tool and by a finished
\* background agent: appends to the conversation without the session lock, and
\* only when the session row names an adapter.
SendToSession(s) ==
  /\ notifies < MaxNotifies
  /\ channel[s] \in Adapters
  /\ Append2Log(s, Msg("notify", NoTurn, notifies))
  /\ notifies' = notifies + 1
  /\ UNCHANGED <<channel, dropped, raced, lock, pc, caller, loop, compaction,
                 terminal, crashes>>

\* The process dies and is started again.
Crash ==
  /\ crashes < MaxCrashes
  /\ crashes' = crashes + 1
  /\ pc' = [t \in Turns |-> IF pc[t] \in {"idle"} \cup Ended THEN pc[t] ELSE "dead"]
  /\ lock' = [s \in Sessions |-> NoTurn]
  /\ UNCHANGED <<store, caller, loop, compaction, terminal, notifies>>

TurnStep(t) ==
  \/ EnsureSession(t) \/ ResolveSession(t) \/ LockSession(t) \/ PersistUser(t)
  \/ CountMessages(t) \/ SelectOld(t) \/ DeleteOld(t) \/ InsertSummary(t) \/ LoadHistory(t)
  \/ Chat(t) \/ PersistAnswer(t) \/ TouchSession(t) \/ Verify(t) \/ PersistCalls(t) \/ RunTools(t)
  \/ PersistResults(t) \/ ReportExhausted(t) \/ Unlock(t)

Next ==
  \/ \E t \in Turns : TurnStep(t) \/ Cancel(t)
  \/ \E t \in Turns, s \in Sessions :
       \/ CallDirect(t, s) \/ RunAndDeliver(t, s)
       \/ \E a \in Adapters : HandleMessage(t, s, a)
  \/ \E s \in Sessions : SendToSession(s)
  \/ Crash

\* Every goroutine keeps running: the store and the model answer or fail, tools
\* return or time out, and a free lock is handed to a waiter.
Fairness == \A t \in Turns : WF_vars(TurnStep(t))

Spec == Init /\ [][Next]_vars /\ Fairness

-----------------------------------------------------------------------------
(* Properties *)

\* The session lock is what serialises a conversation: a turn that is past
\* mu.Lock() in RunTurn holds the lock of its session, and a lock that is taken
\* belongs to a turn that is still on its way to Unlock (no early return, error
\* path or crash leaves it held).
LockOwnership ==
  /\ \A t \in Turns : pc[t] \in Critical => session[t] \in Sessions /\ lock[session[t]] = t
  /\ \A s \in Sessions : lock[s] # NoTurn => pc[lock[s]] \in Critical /\ session[lock[s]] = s

\* What the model is sent is well formed whatever the budget lets through: every
\* tool call is followed by its own results and every result follows its own
\* call (a request that breaks this is rejected by the providers).  sanitizeToolPairs
\* compares positions and never identifiers; crashes between the two writes,
\* compactions that cut a pair and notifications that land inside one must not
\* let it join two halves.  (Where a notification came between the MessageCount
\* and the RecentMessages of a compaction, the cut is not at the front and may.)
ModelInputPaired ==
  \A t \in Turns : pc[t] = "chat" /\ session[t] \notin raced =>
    \A n \in 0 .. Len(history[t]) :
      LET h == Suffix(history[t], n)
          kept == SelectHistory(t, n)
      IN \A i \in kept :
           /\ h[i].kind = "calls" =>
                i + 1 \in kept /\ h[i+1] = Msg("results", h[i].turn, h[i].iter)
           /\ h[i].kind = "results" =>
                i - 1 \in kept /\ h[i-1] = Msg("calls", h[i].turn, h[i].iter)

\* The messages of two turns of a session never interleave in the store: between
\* two messages of a turn there are only messages of that turn, notifications and
\* summaries.
TurnsContiguous == \A s \in Sessions : Contiguous(log[s])

\* What a turn adds to its history, or finds there behind its prompt.
AfterPrompt(m, t) == m.kind = "notify" \/ (m.kind \in {"calls", "results"} /\ m.turn = t)

\* Compaction, RecentMessagesLimit and sanitizeToolPairs never take the prompt
\* from a turn; only the token budget can.  It is in the history with nothing but
\* the turn's own calls and results, and notifications, behind it, and every
\* request whose budget reaches it contains it.  (As long as fewer notifications
\* come than a compaction keeps and than RecentMessagesLimit.)
PromptReachesModel ==
  \A t \in Turns : pc[t] = "chat" =>
    \E k \in 1 .. Len(history[t]) :
      LET behind == Len(history[t]) - k IN
      /\ history[t][k] = Msg("user", t, 0)
      /\ \A i \in k + 1 .. Len(history[t]) : AfterPrompt(history[t][i], t)
      /\ \A n \in behind + 1 .. Len(history[t]) : n - behind \in SelectHistory(t, n)

\* An answer that was announced with TurnDone, and the prompt it answers, are in
\* the store or were handed to a compaction, across crashes too.
AnswerDurable ==
  \A t \in Turns : terminal[t] = "done" =>
    {Msg("user", t, 0), Msg("text", t, iteration[t])}
      \subseteq ToSet(log[session[t]]) \cup dropped

\* A turn whose context was never cancelled ends with TurnDone or TurnError; the
\* consumers (router, websocket, A2A) wait for nothing else.
NoSilentEnd ==
  \A t \in Turns : pc[t] \in {"unlock", "done"} /\ ~cancelled[t] => terminal[t] # "none"

\* Messages leave the store only by the compaction of the turn that holds the
\* lock, and never one of the newest CompactionKeepRecent it counted.
OnlyOldDeleted ==
  [][\A s \in Sessions : ~ ToSet(log[s]) \subseteq ToSet(log'[s]) =>
       /\ lock[s] # NoTurn /\ pc[lock[s]] = "delete"
       /\ ToSet(Suffix(log[s], CompactionKeepRecent)) \subseteq ToSet(log'[s])]_vars

\* Every turn that waits for the lock of its session ends: it is refused, runs to
\* its end, or dies with the process.
TurnEnds == \A t \in Turns : pc[t] = "lock" ~> pc[t] \in Ended

\* The conversation of a session as SessionLog describes it: a turn owns it from
\* its user message to its terminal event, tool calls are open while the tools run,
\* and a turn that left the callers' code without storing its message never begins.
Owner ==
  [s \in Sessions |->
     IF lock[s] # NoTurn /\ pc[lock[s]] \notin {"append", "unlock"} THEN lock[s] ELSE NoTurn]
OpenCalls ==
  [s \in Sessions |->
     IF lock[s] # NoTurn /\ pc[lock[s]] \in {"tools", "results"}
     THEN {Msg("calls", lock[s], iteration[lock[s]])} ELSE {}]
Retired == {t \in Turns : pc[t] \notin Outside \cup {"append"}}

Conversation == INSTANCE SessionLog WITH
  KeepRecent <- CompactionKeepRecent,
  Stamps     <- 0 .. MaxToolIter + MaxNotifies,
  owner      <- Owner,
  open       <- OpenCalls,
  retired    <- Retired

\* Whatever turns, cancellations, crashes, failed writes and notifications do, the
\* stored conversations evolve as SessionLog allows.
ConversationSpec == Conversation!Spec

\* What the notify tool's description promises (tools/notify.go, "send
\* (immediately send a message to the current session)"): while a turn of an
\* adapter runs its tools, the session row names that adapter.
SendReachesCurrentSession ==
  \A t \in Turns : pc[t] = "tools" /\ via[t] \in Adapters =>
    channel[session[t]] = via[t]
=============================================================================
