------------------------------ MODULE ToolBatch ------------------------------
(***************************************************************************)
(* The tools of a turn: Executor.RunBatch with the semaphore that all      *)
(* batches of the process share, the Approver, executeTool and runTool,    *)
(* the recovery loop of runAgenticLoop, and RunSubturn, whose batches run  *)
(* inside the tool call of the subagent that started them (or in a         *)
(* background agent).                                                      *)
(*                                                                         *)
(* A tool is abstracted to the ways it can end.  A user who is asked for   *)
(* approval may answer at any time, several times, late or never.          *)
(***************************************************************************)
EXTENDS Integers, FiniteSets, Sequences

CONSTANTS
  Calls,            \* tool calls
  Batches,          \* batches of tool calls
  CallsOf,          \* [Batches -> Seq(Calls)], the calls of a batch in order
  HostOf,           \* [Batches -> the subagent call that runs the batch, or NoCall]
  Background,       \* the batches of background agents (spawn)
  NoCall,
  Concurrency,      \* Executor.concurrency
  MaxRetries,       \* DefaultRecovery.MaxRetries
  LLMMaxErrors,     \* config.LLMMaxErrors
  MaxSubIter,       \* Runtime.maxToolIter, for subagents
  MaxAnswers        \* bound: answers the user gives

Nested(b) == HostOf[b] # NoCall
TurnBatches == {b \in Batches : ~Nested(b) /\ b \notin Background}
Members(b)  == {CallsOf[b][i] : i \in 1 .. Len(CallsOf[b])}
BatchOf(c)  == CHOOSE b \in Batches : c \in Members(b)
Hosts       == {HostOf[b] : b \in {x \in Batches : Nested(x)}}
HostedBy(c) == CHOOSE b \in Batches : HostOf[b] = c

\* Every call is in one batch, and a subagent has no subagents (RunSubturn takes
\* "subagent" and "spawn" out of the registry).
ASSUME BatchAssumption ==
  /\ IsFiniteSet(Calls) /\ NoCall \notin Calls
  /\ CallsOf \in [Batches -> Seq(Calls)]
  /\ HostOf \in [Batches -> Calls \cup {NoCall}]
  /\ Background \subseteq Batches
  /\ \A b \in Background : ~Nested(b)
  /\ \A c \in Calls : \E b \in Batches : c \in Members(b)
  /\ \A b1, b2 \in Batches : b1 # b2 => Members(b1) \cap Members(b2) = {}
  /\ \A b1, b2 \in Batches : Nested(b1) /\ HostOf[b1] = HostOf[b2] => b1 = b2
  /\ \A b \in Batches : Nested(b) => BatchOf(HostOf[b]) \in TurnBatches
ASSUME LimitAssumption ==
  /\ Concurrency \in Nat \ {0} /\ MaxRetries \in Nat /\ LLMMaxErrors \in Nat
  /\ MaxSubIter \in Nat \ {0} /\ MaxAnswers \in Nat

VARIABLES
  sem,          \* slots taken from Executor.sem
  mode,         \* Approver.mode
  bpc,          \* where each batch is
  autoApprove,  \* the batch's context carries WithAutoApprove
  cancelled,    \* the context of the turn, or of the background agent, is done
  cursor, attempts, replan,   \* the recovery loop
  iteration, llmErrors,       \* RunSubturn
  cpc,          \* where each tool call is
  expired,      \* the call's own deadline has passed
  toolResult,   \* toolResults[idx]: what the model will be told
  kind,         \* the ErrorKind runTool gave the last error
  outcome,      \* br.Results[idx]
  asked,        \* approval requests a call has made; the last is the current one
  pending,      \* Approver.pending
  answer,       \* the channel of a call's current request
  responding,   \* Respond calls between the look-up and the send
  granted,      \* requests that were answered with approval (history variable)
  answers       \* answers given so far

recovery == <<cursor, attempts, replan>>
subturn  == <<iteration, llmErrors>>
results  == <<toolResult, kind, outcome>>
approver == <<asked, pending, answer, responding, granted, answers>>
context  == <<mode, autoApprove, cancelled, expired>>
vars     == <<sem, bpc, recovery, subturn, cpc, results, approver, context>>

Request(c) == <<c, asked[c]>>

\* Positions at which a call holds a slot of the semaphore.
Holding == {"started", "asking", "waiting", "running"}

TypeOK ==
  /\ sem \in Nat
  /\ mode \in {"auto", "ask", "deny"}
  /\ bpc \in [Batches -> {"idle", "running", "recover", "retrying", "chat", "done"}]
  /\ autoApprove \in [Batches -> BOOLEAN]
  /\ cancelled \in [Batches -> BOOLEAN]
  /\ cursor \in [Batches -> Nat \ {0}]
  /\ attempts \in [Batches -> 0 .. MaxRetries]
  /\ replan \in [Batches -> SUBSET Calls]
  /\ iteration \in [Batches -> 0 .. MaxSubIter]
  /\ llmErrors \in [Batches -> 0 .. LLMMaxErrors]
  /\ cpc \in [Calls -> {"idle", "slot", "done"} \cup Holding]
  /\ expired \in [Calls -> BOOLEAN]
  /\ toolResult \in [Calls -> {"empty", "ok", "error"}]
  /\ kind \in [Calls -> {"permanent", "transient"}]
  /\ outcome \in [Calls -> {"none", "ok", "permanent", "transient"}]
  /\ asked \in [Calls -> Nat]
  /\ pending \subseteq Calls \X Nat
  /\ answer \in [Calls -> {"empty", "yes", "no"}]
  /\ responding \subseteq (Calls \X Nat) \X {"yes", "no"}
  /\ granted \subseteq Calls \X Nat
  /\ answers \in 0 .. MaxAnswers

Init ==
  /\ sem = 0
  /\ mode \in {"auto", "ask", "deny"}
  /\ bpc = [b \in Batches |-> "idle"]
  /\ autoApprove \in [Batches -> BOOLEAN]       \* RunAndDeliver sets it, RunSubturn too
  /\ \A b \in Batches \ TurnBatches : autoApprove[b]
  /\ cancelled = [b \in Batches |-> FALSE]
  /\ cursor = [b \in Batches |-> 1] /\ attempts = [b \in Batches |-> 0]
  /\ replan = [b \in Batches |-> {}]
  /\ iteration = [b \in Batches |-> 0] /\ llmErrors = [b \in Batches |-> 0]
  /\ cpc = [c \in Calls |-> "idle"]
  /\ expired = [c \in Calls |-> FALSE]
  /\ toolResult = [c \in Calls |-> "empty"]
  /\ kind = [c \in Calls |-> "permanent"]
  /\ outcome = [c \in Calls |-> "none"]
  /\ asked = [c \in Calls |-> 0]
  /\ pending = {} /\ answer = [c \in Calls |-> "empty"]
  /\ responding = {} /\ granted = {} /\ answers = 0

-----------------------------------------------------------------------------
(* Contexts *)

\* The context of a batch is the turn's, or the context of the subagent's call.
BatchDone(b) ==
  \/ cancelled[b]
  \/ Nested(b) /\ (expired[HostOf[b]] \/ cancelled[BatchOf(HostOf[b])])

\* The context of a call has the deadline of RunBatch on top of it.
CallDone(c) == expired[c] \/ BatchDone(BatchOf(c))

\* The client goes away, the process is asked to stop, or the background agent
\* runs out of its ten minutes.
Cancel(b) ==
  /\ ~Nested(b) /\ ~cancelled[b]
  /\ cancelled' = [cancelled EXCEPT ![b] = TRUE]
  /\ UNCHANGED <<sem, bpc, recovery, subturn, cpc, results, approver, mode, autoApprove, expired>>

\* context.WithTimeout(ctx, t.Timeout) fires.
Expire(c) ==
  /\ cpc[c] \in Holding \ {"started"} /\ ~expired[c]
  /\ expired' = [expired EXCEPT ![c] = TRUE]
  /\ UNCHANGED <<sem, bpc, recovery, subturn, cpc, results, approver, mode, autoApprove, cancelled>>

-----------------------------------------------------------------------------
(* RunBatch *)

\* The goroutines of a batch are started; toolResults is a new slice.
StartBatch(b, calls) ==
  /\ bpc' = [bpc EXCEPT ![b] = "running"]
  /\ cpc' = [c \in Calls |-> IF c \in calls THEN "slot" ELSE cpc[c]]
  /\ toolResult' = [c \in Calls |-> IF c \in calls THEN "empty" ELSE toolResult[c]]
  /\ UNCHANGED <<kind, outcome>>

\* runAgenticLoop has stored the tool calls and runs them.
RunBatch(b) ==
  /\ b \in TurnBatches /\ bpc[b] = "idle"
  /\ StartBatch(b, Members(b))
  /\ UNCHANGED <<sem, recovery, subturn, approver, context>>

\* e.sem <- struct{}{}, OnStart and the deadline of the task.
AcquireSlot(c) ==
  /\ cpc[c] = "slot" /\ sem < Concurrency
  /\ sem' = sem + 1
  /\ cpc' = [cpc EXCEPT ![c] = "started"]
  /\ expired' = [expired EXCEPT ![c] = FALSE]
  /\ UNCHANGED <<bpc, recovery, subturn, results, approver, mode, autoApprove, cancelled>>

\* Mutant of GiveUpSlot: the result of a call that got no slot is a success.
GiveUpSlot_ok(c) ==
  /\ cpc[c] = "slot" /\ BatchDone(BatchOf(c))
  /\ cpc' = [cpc EXCEPT ![c] = "done"]
  /\ outcome' = [outcome EXCEPT ![c] = "ok"]
  /\ UNCHANGED <<sem, bpc, recovery, subturn, toolResult, kind, approver, context>>

\* The other branch of the select: toolResults[idx] is left as it is.
GiveUpSlot(c) ==
  /\ cpc[c] = "slot" /\ BatchDone(BatchOf(c))
  /\ cpc' = [cpc EXCEPT ![c] = "done"]
  /\ outcome' = [outcome EXCEPT ![c] = "transient"]
  /\ UNCHANGED <<sem, bpc, recovery, subturn, toolResult, kind, approver, context>>

\* Fn returns: the result, then the deferred release of the slot.
Return(c, told, errorKind, err) ==
  /\ cpc' = [cpc EXCEPT ![c] = "done"]
  /\ sem' = sem - 1
  /\ toolResult' = [toolResult EXCEPT ![c] = told]
  /\ kind' = [kind EXCEPT ![c] = errorKind]
  /\ outcome' = [outcome EXCEPT ![c] = err]

-----------------------------------------------------------------------------
(* executeTool: approval *)

NeedsApproval(c) == ~autoApprove[BatchOf(c)]

\* A denial is a tool result with the default error kind.
Deny(c) == Return(c, "error", "permanent", "permanent")

\* Without need of approval, or decided by the mode.
Start(c) ==
  /\ cpc[c] = "started"
  /\ \/ /\ ~NeedsApproval(c) \/ mode = "auto"
        /\ cpc' = [cpc EXCEPT ![c] = "running"]
        /\ UNCHANGED <<sem, results, asked>>
     \/ /\ NeedsApproval(c) /\ mode = "deny"
        /\ Deny(c)
        /\ asked' = [asked EXCEPT ![c] = @ + 1]
     \/ \* the request gets an id and is shown to the user
        /\ NeedsApproval(c) /\ mode = "ask"
        /\ asked' = [asked EXCEPT ![c] = @ + 1]
        /\ cpc' = [cpc EXCEPT ![c] = "asking"]
        /\ UNCHANGED <<sem, results>>
  /\ UNCHANGED <<bpc, recovery, subturn, pending, answer, responding, granted, answers, context>>

\* Mutant of Register: the channel of an earlier request is used again.
Register_reuse(c) ==
  /\ cpc[c] = "asking"
  /\ cpc' = [cpc EXCEPT ![c] = "waiting"]
  /\ pending' = pending \cup {Request(c)}
  /\ UNCHANGED <<sem, bpc, recovery, subturn, results, asked, answer, responding, granted, answers,
                 context>>

\* RequestApproval puts a new channel into the map of pending requests.
Register(c) ==
  /\ cpc[c] = "asking"
  /\ cpc' = [cpc EXCEPT ![c] = "waiting"]
  /\ pending' = pending \cup {Request(c)}
  /\ answer' = [answer EXCEPT ![c] = "empty"]
  /\ UNCHANGED <<sem, bpc, recovery, subturn, results, asked, responding, granted, answers, context>>

\* Mutant of Decided: only an answer removes the request from the map.
Decided_keepsPending(c) ==
  /\ cpc[c] = "waiting"
  /\ \/ /\ answer[c] = "yes"
        /\ cpc' = [cpc EXCEPT ![c] = "running"]
        /\ pending' = pending \ {Request(c)}
        /\ UNCHANGED <<sem, results>>
     \/ answer[c] = "no" /\ Deny(c) /\ pending' = pending \ {Request(c)}
     \/ CallDone(c) /\ Deny(c) /\ UNCHANGED pending
  /\ UNCHANGED <<bpc, recovery, subturn, asked, answer, responding, granted, answers, context>>

\* The select of RequestApproval, and the deferred delete.
Decided(c) ==
  /\ cpc[c] = "waiting"
  /\ pending' = pending \ {Request(c)}
  /\ \/ /\ answer[c] = "yes"
        /\ cpc' = [cpc EXCEPT ![c] = "running"]
        /\ UNCHANGED <<sem, results>>
     \/ (answer[c] = "no" \/ CallDone(c)) /\ Deny(c)
  /\ UNCHANGED <<bpc, recovery, subturn, asked, answer, responding, granted, answers, context>>

\* Respond: the user answers a request that was shown, the current one or an
\* earlier one.  The channel is looked up under the lock ...
Respond(c, n, v) ==
  /\ answers < MaxAnswers /\ answers' = answers + 1
  /\ n \in 1 .. asked[c]
  /\ granted' = IF v = "yes" THEN granted \cup {<<c, n>>} ELSE granted
  /\ responding' = IF <<c, n>> \in pending THEN responding \cup {<< <<c, n>>, v>>} ELSE responding
  /\ UNCHANGED <<sem, bpc, recovery, subturn, cpc, results, asked, pending, answer, context>>

\* ... and written to after it was released, unless it is full.  The channel of a
\* request that is over is read by nobody.
Deliver(r) ==
  LET c == r[1][1] IN
  /\ r \in responding
  /\ responding' = responding \ {r}
  /\ answer' = IF r[1] = Request(c) /\ answer[c] = "empty"
               THEN [answer EXCEPT ![c] = r[2]] ELSE answer
  /\ UNCHANGED <<sem, bpc, recovery, subturn, cpc, results, asked, pending, granted, answers, context>>

-----------------------------------------------------------------------------
(* runTool *)

\* Mutant of Execute: the slot of a tool that fails is not given back.
Execute_leaks(c) ==
  /\ cpc[c] = "running" /\ c \notin Hosts
  /\ \/ Return(c, "ok", "permanent", "ok")
     \/ /\ cpc' = [cpc EXCEPT ![c] = "done"]
        /\ toolResult' = [toolResult EXCEPT ![c] = "error"]
        /\ kind' = [kind EXCEPT ![c] = "permanent"]
        /\ outcome' = [outcome EXCEPT ![c] = "permanent"]
        /\ UNCHANGED sem
  /\ UNCHANGED <<bpc, recovery, subturn, approver, context>>

\* Execute of a tool returns.  runTool classifies the error; Fn then passes on
\* its text only, so a deadline, whose text has none of the words ClassifyError
\* looks for, is permanent from there on.
Failures(c) ==
  \/ Return(c, "error", "permanent", "permanent")      \* or an unknown tool
  \/ Return(c, "error", "transient", "transient")      \* "timeout", "connection refused"
  \/ CallDone(c) /\ Return(c, "error", "transient", "permanent")    \* deadline exceeded

Execute(c) ==
  /\ cpc[c] = "running" /\ c \notin Hosts
  /\ Return(c, "ok", "permanent", "ok") \/ Failures(c)
  /\ UNCHANGED <<bpc, recovery, subturn, approver, context>>

-----------------------------------------------------------------------------
(* RunSubturn, in the call of a subagent or in a background agent *)

BeginSubturn(b) ==
  /\ b \notin TurnBatches /\ bpc[b] = "idle"
  /\ Nested(b) => cpc[HostOf[b]] = "running"
  /\ bpc' = [bpc EXCEPT ![b] = "chat"]
  /\ iteration' = [iteration EXCEPT ![b] = 0]
  /\ llmErrors' = [llmErrors EXCEPT ![b] = 0]
  /\ UNCHANGED <<sem, recovery, cpc, results, approver, context>>

\* The loop returns, and with it the subagent's call.
EndSubturn(b, failed) ==
  /\ bpc' = [bpc EXCEPT ![b] = IF Nested(b) THEN "idle" ELSE "done"]
  /\ IF ~Nested(b) THEN UNCHANGED <<sem, cpc, results>>
     ELSE IF failed THEN Failures(HostOf[b])
     ELSE Return(HostOf[b], "ok", "permanent", "ok")
  /\ UNCHANGED subturn

\* One iteration: the model answers, calls tools, or fails; a failure is put into
\* the conversation of the subagent and the loop goes on.
SubturnChat(b) ==
  /\ bpc[b] = "chat"
  /\ \/ /\ iteration[b] = MaxSubIter \/ ~BatchDone(b)
        /\ EndSubturn(b, FALSE)
     \/ /\ iteration[b] < MaxSubIter /\ llmErrors[b] = LLMMaxErrors
        /\ EndSubturn(b, TRUE)
     \/ /\ iteration[b] < MaxSubIter /\ llmErrors[b] < LLMMaxErrors
        /\ iteration' = [iteration EXCEPT ![b] = @ + 1]
        /\ llmErrors' = [llmErrors EXCEPT ![b] = @ + 1]
        /\ UNCHANGED <<sem, bpc, cpc, results>>
     \/ /\ iteration[b] < MaxSubIter /\ ~BatchDone(b)
        /\ StartBatch(b, Members(b))
        /\ iteration' = [iteration EXCEPT ![b] = @ + 1]
        /\ llmErrors' = [llmErrors EXCEPT ![b] = 0]
        /\ UNCHANGED sem
  /\ UNCHANGED <<recovery, approver, context>>

-----------------------------------------------------------------------------
(* The end of a batch, and the recovery loop of runAgenticLoop *)

\* wg.Wait() returns.  A subagent hands the results to its model as they are.
Collect(b) ==
  /\ bpc[b] = "running" /\ \A c \in Members(b) : cpc[c] = "done"
  /\ bpc' = [bpc EXCEPT ![b] = IF b \in TurnBatches THEN "recover" ELSE "chat"]
  /\ UNCHANGED <<sem, recovery, subturn, cpc, results, approver, context>>

\* Mutants of Recover: one retry too many, and retries of tools that succeeded.
Recover_onceMore(b) ==
  LET c == CallsOf[b][cursor[b]] IN
  /\ bpc[b] = "recover" /\ cursor[b] <= Len(CallsOf[b])
  /\ IF outcome[c] = "transient" /\ attempts[b] <= MaxRetries
     THEN /\ attempts' = [attempts EXCEPT ![b] = @ + 1]
          /\ bpc' = [bpc EXCEPT ![b] = "retrying"]
          /\ cpc' = [cpc EXCEPT ![c] = "slot"]
          /\ UNCHANGED <<cursor, replan, outcome>>
     ELSE /\ cursor' = [cursor EXCEPT ![b] = @ + 1]
          /\ attempts' = [attempts EXCEPT ![b] = 0]
          /\ UNCHANGED <<bpc, cpc, outcome, replan>>
  /\ UNCHANGED <<sem, subturn, toolResult, kind, approver, context>>
Recover_retriesAll(b) ==
  LET c == CallsOf[b][cursor[b]] IN
  /\ bpc[b] = "recover" /\ cursor[b] <= Len(CallsOf[b])
  /\ IF attempts[b] < MaxRetries
     THEN /\ attempts' = [attempts EXCEPT ![b] = @ + 1]
          /\ bpc' = [bpc EXCEPT ![b] = "retrying"]
          /\ cpc' = [cpc EXCEPT ![c] = "slot"]
          /\ UNCHANGED <<cursor, replan, outcome>>
     ELSE /\ cursor' = [cursor EXCEPT ![b] = @ + 1]
          /\ attempts' = [attempts EXCEPT ![b] = 0]
          /\ UNCHANGED <<bpc, cpc, outcome, replan>>
  /\ UNCHANGED <<sem, subturn, toolResult, kind, approver, context>>

\* Decide for the result under the cursor: retry a transient error, up to the
\* limit, after a delay in which the context may end; otherwise go on to the next.
Recover(b) ==
  LET c == CallsOf[b][cursor[b]] IN
  /\ bpc[b] = "recover" /\ cursor[b] <= Len(CallsOf[b])
  /\ IF outcome[c] = "transient" /\ attempts[b] < MaxRetries
     THEN /\ attempts' = [attempts EXCEPT ![b] = @ + 1]
          /\ \/ /\ bpc' = [bpc EXCEPT ![b] = "retrying"]
                /\ cpc' = [cpc EXCEPT ![c] = "slot"]
             \/ BatchDone(b) /\ UNCHANGED <<bpc, cpc>>       \* the error is ctx.Err()
          /\ UNCHANGED <<cursor, replan>>
     ELSE /\ cursor' = [cursor EXCEPT ![b] = @ + 1]
          /\ attempts' = [attempts EXCEPT ![b] = 0]
          /\ replan' = IF outcome[c] = "transient" THEN [replan EXCEPT ![b] = @ \cup {c}]
                       ELSE replan
          /\ UNCHANGED <<bpc, cpc>>
  /\ UNCHANGED <<sem, subturn, results, approver, context>>

\* RunBatch of the one task that is retried returns.
Retried(b) ==
  /\ bpc[b] = "retrying" /\ cpc[CallsOf[b][cursor[b]]] = "done"
  /\ bpc' = [bpc EXCEPT ![b] = "recover"]
  /\ UNCHANGED <<sem, recovery, subturn, cpc, results, approver, context>>

FinishBatch(b) ==
  /\ bpc[b] = "recover" /\ cursor[b] > Len(CallsOf[b])
  /\ bpc' = [bpc EXCEPT ![b] = "done"]
  /\ UNCHANGED <<sem, recovery, subturn, cpc, results, approver, context>>

-----------------------------------------------------------------------------
BatchStep(b) ==
  BeginSubturn(b) \/ SubturnChat(b) \/ Collect(b) \/ Recover(b) \/ Retried(b) \/ FinishBatch(b)
CallStep(c) ==
  AcquireSlot(c) \/ GiveUpSlot(c) \/ Start(c) \/ Register(c) \/ Decided(c) \/ Execute(c)

Next ==
  \/ \E b \in Batches : RunBatch(b) \/ BatchStep(b) \/ Cancel(b)
  \/ \E c \in Calls : CallStep(c) \/ Expire(c)
  \/ \E c \in Calls, n \in 1 .. MaxRetries + 1, v \in {"yes", "no"} : Respond(c, n, v)
  \/ \E r \in responding : Deliver(r)

\* The goroutines run, deadlines pass, the model answers or fails.  A tool need
\* not return before its context is done, a user need not answer, and nobody need
\* cancel.
Fairness ==
  /\ \A b \in Batches : WF_vars(BatchStep(b))
  /\ \A c \in Calls : /\ WF_vars(cpc[c] # "running" /\ CallStep(c))
                      /\ WF_vars(CallDone(c) /\ Execute(c))
                      /\ WF_vars(Expire(c))

Spec == Init /\ [][Next]_vars /\ Fairness

-----------------------------------------------------------------------------
(* Properties *)

\* In mode "ask" a tool of an interactive turn runs only after the user has
\* approved this very request: an answer to an earlier attempt of the same call, a
\* late or a repeated answer, or a deadline never stands in for it.
ApprovedBeforeRun ==
  \A c \in Calls :
    cpc[c] = "running" /\ BatchOf(c) \in TurnBatches /\ ~autoApprove[BatchOf(c)] =>
      mode = "auto" \/ (mode = "ask" /\ <<c, asked[c]>> \in granted)

\* The slots taken from the semaphore are those of the calls that run or wait for
\* approval; none is lost or given back twice on any path, and there are never
\* more than Concurrency, over all turns, subagents and background agents.
SlotsConserved ==
  /\ sem = Cardinality({c \in Calls : cpc[c] \in Holding})
  /\ sem <= Concurrency

\* The map of pending approvals holds the requests that somebody waits for, and
\* nothing else: no exit of RequestApproval leaves an entry behind.
PendingIsWaiting == pending = {Request(c) : c \in {x \in Calls : cpc[x] = "waiting"}}

\* When a batch of a turn is over, the model is told the truth about every call:
\* success exactly if the last attempt succeeded, and nothing at all only if the
\* turn's context is done (and storing the results is bound to fail).
ResultsComplete ==
  \A b \in TurnBatches : bpc[b] = "done" =>
    \A c \in Members(b) : /\ toolResult[c] = "ok" <=> outcome[c] = "ok"
                          /\ toolResult[c] = "empty" => BatchDone(b)

\* A tool of a turn that has succeeded is not run again by the recovery loop.
SuccessKept ==
  [][\A c \in Calls : BatchOf(c) \in TurnBatches /\ toolResult[c] = "ok" =>
       cpc'[c] = "done" /\ toolResult'[c] = "ok"]_vars

\* A batch of a turn that was started comes to its end although users may never
\* answer, tools may hang until their deadline, and subagents compete with their
\* own callers for slots.
BatchEnds == \A b \in TurnBatches : bpc[b] = "running" ~> bpc[b] = "done"
=============================================================================
