------------------------------ MODULE A2ATasks ------------------------------
(***************************************************************************)
(* The agent-to-agent endpoint (pkg/a2a): requests that send a message to  *)
(* a task, over REST, as a stream or over JSON-RPC, and requests that      *)
(* cancel a task, against the TaskStore they share.  Every call of the     *)
(* store is one critical section of its lock; between two of them anything *)
(* may happen.  A task is the object that a request created, and the store *)
(* maps identifiers to objects, so that two requests may hold different    *)
(* objects for one identifier.                                             *)
(*                                                                         *)
(* A turn is one run of Runtime.RunTurn for the session of the task, and   *)
(* ends as module AgentTurn says: with an answer, with an error, or        *)
(* silently when its client is gone.  Requests that are malformed, or that *)
(* only read, change nothing and are left out.                             *)
(***************************************************************************)
EXTENDS Naturals, FiniteSets, Sequences

CONSTANTS
  Tasks,        \* task identifiers
  Requests,     \* requests to the endpoint
  Nobody        \* no task object, no turn

ASSUME RequestAssumption == Nobody \notin Requests

VARIABLES
  tasks,      \* TaskStore.tasks: [Tasks -> the request that created the object, or Nobody]
  state,      \* Task.State of the object each request created
  messages,   \* Task.Messages of it: <<role, request>>
  runner,     \* the request whose turn runs in the session of a task
  pc, target, verb,
  held,       \* the *Task the request works with
  outcome,    \* how the request ended
  raced,      \* tasks whose object was replaced by a second Create (history variable)
  cancels     \* tasks that were cancelled when nobody worked on them, since the last
              \* message came in (history variable)

store    == <<tasks, state, messages>>
request  == <<target, verb, held>>
history  == <<raced, cancels>>
taskVars == <<store, runner, pc, request, outcome, history>>

States == {"submitted", "working", "completed", "failed", "canceled"}
Sends  == {"rest", "stream", "rpc"}
Idle   == {"idle", "end"}
NoState == "none"

A2AInit ==
  /\ tasks = [t \in Tasks |-> Nobody]
  /\ state = [r \in Requests |-> NoState]
  /\ messages = [r \in Requests |-> << >>]
  /\ runner = [t \in Tasks |-> Nobody]
  /\ pc = [r \in Requests |-> "idle"]
  /\ target \in [Requests -> Tasks]
  /\ verb \in [Requests -> Sends \cup {"cancel"}]
  /\ held = [r \in Requests |-> Nobody]
  /\ outcome = [r \in Requests |-> "none"]
  /\ raced = {} /\ cancels = {}

Goto(r, l) == pc' = [pc EXCEPT ![r] = l]
Active(r)  == pc[r] \notin Idle
Busy(t)    == \E r \in Requests : Active(r) /\ target[r] = t /\ verb[r] \in Sends

\* TaskStore.Update and AppendMessage work on the object the identifier stands for
\* at that moment.
Update(t, s) ==
  state' = IF tasks[t] = Nobody THEN state ELSE [state EXCEPT ![tasks[t]] = s]
AppendMessage(t, role, r) ==
  messages' = IF tasks[t] = Nobody THEN messages
              ELSE [messages EXCEPT ![tasks[t]] = Append(@, <<role, r>>)]

-----------------------------------------------------------------------------
(* getOrCreateTask *)

\* A message arrives for a task the client names.
Receive(r) ==
  /\ pc[r] = "idle" /\ verb[r] \in Sends
  /\ cancels' = cancels \ {target[r]}
  /\ Goto(r, "get")
  /\ UNCHANGED <<store, runner, request, outcome, raced>>

Get(r) ==
  /\ pc[r] = "get"
  /\ IF tasks[target[r]] = Nobody
     THEN Goto(r, "create") /\ UNCHANGED held
     ELSE Goto(r, "append") /\ held' = [held EXCEPT ![r] = tasks[target[r]]]
  /\ UNCHANGED <<store, runner, target, verb, outcome, history>>

\* Mutant of AppendUser: the message is only given to the agent.
AppendUser_skipped(r) ==
  /\ pc[r] = "append"
  /\ Goto(r, "working")
  /\ UNCHANGED <<store, runner, request, outcome, history>>

AppendUser(r) ==
  /\ pc[r] = "append"
  /\ AppendMessage(target[r], "user", r)
  /\ Goto(r, "working")
  /\ UNCHANGED <<tasks, state, runner, request, outcome, history>>

\* Create does not look whether somebody created the task since Get.
Create(r) ==
  /\ tasks' = [tasks EXCEPT ![target[r]] = r]
  /\ state' = [state EXCEPT ![r] = "submitted"]
  /\ messages' = [messages EXCEPT ![r] = << <<"user", r>> >>]
  /\ held' = [held EXCEPT ![r] = r]
  /\ raced' = IF tasks[target[r]] = Nobody THEN raced ELSE raced \cup {target[r]}
  /\ Goto(r, "working")
  /\ UNCHANGED <<runner, target, verb, outcome, cancels>>

\* The task was not found.
CreateNamed(r) == pc[r] = "create" /\ Create(r)

\* A message arrives without a task and gets a new identifier, which nobody else
\* has used; clients learn it from the response and may use it afterwards.
ReceiveNew(r) ==
  /\ pc[r] = "idle" /\ verb[r] \in Sends
  /\ \A x \in Requests \ {r} : target[x] = target[r] => pc[x] = "idle"
  /\ Create(r)

-----------------------------------------------------------------------------
(* processMessage and handleSendMessageStream *)

SetWorking(r) ==
  /\ pc[r] = "working"
  /\ Update(target[r], "working")
  /\ Goto(r, "run")
  /\ UNCHANGED <<tasks, messages, runner, request, outcome, history>>

\* RunTurn waits for the turns of the session in front of it; it may return an error
\* before it waits (the session) or after (the user message).
StartTurn(r) ==
  /\ pc[r] = "run"
  /\ \/ /\ runner[target[r]] = Nobody
        /\ runner' = [runner EXCEPT ![target[r]] = r] /\ Goto(r, "turn") /\ UNCHANGED outcome
     \/ Goto(r, "finish") /\ outcome' = [outcome EXCEPT ![r] = "failed"] /\ UNCHANGED runner
  /\ UNCHANGED <<store, request, history>>

\* The events of the turn: TurnDone, TurnError, or, if the client is gone, perhaps
\* nothing, which counts as success; a client that disconnects makes the turn end
\* in one of these ways.  The session may be free before the task is updated.
EndTurn(r) ==
  /\ pc[r] = "turn"
  /\ runner' = [runner EXCEPT ![target[r]] = Nobody]
  /\ \E o \in {"ok", "failed"} : outcome' = [outcome EXCEPT ![r] = o]
  /\ Goto(r, "finish")
  /\ UNCHANGED <<store, request, history>>

\* Mutant of Finish: a failed turn leaves the task as it is.
Finish_onSuccess(r) ==
  /\ pc[r] = "finish"
  /\ IF outcome[r] = "ok"
     THEN Update(target[r], "completed") /\ Goto(r, IF verb[r] = "rpc" THEN "respond" ELSE "answer")
     ELSE Goto(r, "end") /\ UNCHANGED state
  /\ UNCHANGED <<tasks, messages, runner, request, outcome, history>>

Finish(r) ==
  /\ pc[r] = "finish"
  /\ IF outcome[r] = "ok"
     THEN Update(target[r], "completed") /\ Goto(r, IF verb[r] = "rpc" THEN "respond" ELSE "answer")
     ELSE Update(target[r], "failed") /\ Goto(r, "end")
  /\ UNCHANGED <<tasks, messages, runner, request, outcome, history>>

\* The answer becomes a message of the task, except over JSON-RPC.
AppendAnswer(r) ==
  /\ pc[r] = "answer"
  /\ AppendMessage(target[r], "assistant", r)
  /\ Goto(r, "respond")
  /\ UNCHANGED <<tasks, state, runner, request, outcome, history>>

\* The response: REST gets the task again, JSON-RPC sends the object it holds, and a
\* stream ends with a status of its own.
WriteResponse(r) ==
  /\ pc[r] = "respond"
  /\ Goto(r, "end")
  /\ UNCHANGED <<store, runner, request, outcome, history>>

-----------------------------------------------------------------------------
(* handleCancelTask and rpcCancelTask *)

ReceiveCancel(r) ==
  /\ pc[r] = "idle" /\ verb[r] = "cancel"
  /\ IF tasks[target[r]] = Nobody
     THEN /\ outcome' = [outcome EXCEPT ![r] = "notFound"]
          /\ Goto(r, "end") /\ UNCHANGED held
     ELSE /\ held' = [held EXCEPT ![r] = tasks[target[r]]]
          /\ Goto(r, "cancel") /\ UNCHANGED outcome
  /\ UNCHANGED <<store, runner, target, verb, history>>

Cancel(r) ==
  /\ pc[r] = "cancel"
  /\ Update(target[r], "canceled")
  /\ Goto(r, "assign")
  /\ UNCHANGED <<tasks, messages, runner, request, outcome, history>>

\* Mutant of Assign: the cancelled state is only put into the response.
Assign_responseOnly(r) ==
  /\ pc[r] = "assign"
  /\ outcome' = [outcome EXCEPT ![r] = "ok"]
  /\ cancels' = IF Busy(target[r]) THEN cancels ELSE cancels \cup {target[r]}
  /\ Goto(r, "end")
  /\ UNCHANGED <<state, tasks, messages, runner, request, raced>>

\* task.State = TaskStateCanceled, on the object and without the lock; the response.
Assign(r) ==
  /\ pc[r] = "assign"
  /\ state' = [state EXCEPT ![held[r]] = "canceled"]
  /\ outcome' = [outcome EXCEPT ![r] = "ok"]
  /\ cancels' = IF Busy(target[r]) THEN cancels ELSE cancels \cup {target[r]}
  /\ Goto(r, "end")
  /\ UNCHANGED <<tasks, messages, runner, request, raced>>

-----------------------------------------------------------------------------
TaskStep(r) ==
  \/ Get(r) \/ AppendUser(r) \/ CreateNamed(r) \/ SetWorking(r) \/ StartTurn(r) \/ EndTurn(r)
  \/ Finish(r) \/ AppendAnswer(r) \/ WriteResponse(r) \/ Cancel(r) \/ Assign(r)

A2ANext == \E r \in Requests : Receive(r) \/ ReceiveNew(r) \/ ReceiveCancel(r) \/ TaskStep(r)

A2ASpec == A2AInit /\ [][A2ANext]_taskVars

-----------------------------------------------------------------------------
(* Properties *)

\* However messages and cancellations of a task interleave, a task that nobody
\* works on any more is in a final state, never "submitted" or "working"
\* (processMessage updates the task on every way out).
QuiescentIsFinal ==
  \A t \in Tasks :
    tasks[t] # Nobody /\ (\A r \in Requests : Active(r) => target[r] # t) =>
      state[tasks[t]] \in {"completed", "failed", "canceled"}

\* Unless two first messages of a task raced, the task keeps every message that was
\* processed, and the answer behind its question.
ConversationKept ==
  \A r \in Requests : outcome[r] = "ok" /\ pc[r] = "end" /\ verb[r] \in Sends
                      /\ target[r] \notin raced =>
    LET m == messages[tasks[target[r]]] IN
    \E i \in 1 .. Len(m) : /\ m[i] = <<"user", r>>
                           /\ verb[r] # "rpc" => \E j \in i + 1 .. Len(m) : m[j] = <<"assistant", r>>

\* A task that nobody worked on when its cancellation was acknowledged stays
\* cancelled until the next message, although the cancel handlers change the state
\* twice, once without the lock, and messages come and go in between.  (A turn that
\* is under way is not stopped and overwrites the state.)
CancelAtRestStays == \A t \in cancels \ raced : state[tasks[t]] = "canceled"
=============================================================================
