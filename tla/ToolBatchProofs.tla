--------------------------- MODULE ToolBatchProofs ---------------------------
(***************************************************************************)
(* Proofs about ToolBatch, for any calls, batches, limits and users.       *)
(*                                                                         *)
(* The invariants of a single call (a slot for every call that runs, a     *)
(* pending entry for every call that waits) are not inductive by           *)
(* themselves: they need to know that a batch is only restarted when none  *)
(* of its calls is under way (Quiet), that a subagent's call stays where   *)
(* it is while its own batch runs (HostRuns), and that every approval that *)
(* is on its way comes from the user (Honest).                             *)
(***************************************************************************)
EXTENDS ToolBatch, FiniteSetTheorems, TLAPS

Hold    == {c \in Calls : cpc[c] \in Holding}
Waiting == {c \in Calls : cpc[c] = "waiting"}
AtRest  == {"idle", "done"}

\* The calls of a batch that nobody runs are at rest.
Quiet ==
  \A b \in Batches :
    /\ bpc[b] \in {"idle", "chat", "recover", "done"} =>
         \A c \in Members(b) : cpc[c] \in AtRest
    /\ bpc[b] = "retrying" =>
         /\ cursor[b] <= Len(CallsOf[b])
         /\ \A c \in Members(b) : c # CallsOf[b][cursor[b]] => cpc[c] \in AtRest

\* While a subagent works, its call is in Execute of the subagent tool.
HostRuns == \A b \in Batches : Nested(b) /\ bpc[b] # "idle" => cpc[HostOf[b]] = "running"

\* Approval is asked for only when it is needed; an approval in a channel, or on
\* its way there, was given by the user.
Honest ==
  /\ \A c \in Calls : cpc[c] \in {"asking", "waiting"} => NeedsApproval(c) /\ mode = "ask"
  /\ \A c \in Calls : cpc[c] = "waiting" /\ answer[c] = "yes" => Request(c) \in granted
  /\ \A r \in responding : r[2] = "yes" => r[1] \in granted

\* What the model would be told about the calls of a turn, at any time.
Told ==
  \A b \in TurnBatches :
    /\ bpc[b] # "chat"
    /\ bpc[b] = "idle" => \A c \in Members(b) : cpc[c] = "idle"
    /\ bpc[b] \in {"recover", "done"} => \A c \in Members(b) : cpc[c] = "done"
    /\ bpc[b] = "retrying" => \A c \in Members(b) :
         c # CallsOf[b][cursor[b]] => cpc[c] = "done"
    /\ \A c \in Members(b) :
         /\ cpc[c] # "done" => toolResult[c] # "ok"
         /\ cpc[c] = "done" => /\ toolResult[c] = "ok" <=> outcome[c] = "ok"
                               /\ toolResult[c] = "empty" => cancelled[b]

ToolInv ==
  /\ TypeOK /\ SlotsConserved /\ PendingIsWaiting
  /\ Quiet /\ HostRuns /\ Honest /\ Told /\ ApprovedBeforeRun
-----------------------------------------------------------------------------
(* The batches and their hosts *)

\* The calls of a batch are calls, and know their batch.
LEMMA MemberFacts ==
  ASSUME NEW b \in Batches, NEW c \in Members(b)
  PROVE  c \in Calls /\ BatchOf(c) = b
<1>1. c \in Calls
  BY BatchAssumption DEF BatchAssumption, Members
<1>2. \A x \in Batches : c \in Members(x) => x = b
  BY BatchAssumption DEF BatchAssumption
<1>3. BatchOf(c) = b
  BY <1>2 DEF BatchOf
<1> QED BY <1>1, <1>3

\* Every call has a batch.
LEMMA BatchFacts ==
  ASSUME NEW c \in Calls
  PROVE  BatchOf(c) \in Batches /\ c \in Members(BatchOf(c))
<1>1. \E b \in Batches : c \in Members(b)
  BY BatchAssumption DEF BatchAssumption
<1> QED BY <1>1 DEF BatchOf

\* The call that hosts a batch is a call of a turn and hosts no other batch.
LEMMA HostFacts ==
  ASSUME NEW b \in Batches, Nested(b)
  PROVE  /\ HostOf[b] \in Calls /\ HostOf[b] \in Hosts
         /\ BatchOf(HostOf[b]) \in TurnBatches /\ b \notin TurnBatches
         /\ \A x \in Batches : Nested(x) /\ HostOf[x] = HostOf[b] => x = b
BY BatchAssumption DEF BatchAssumption, Nested, Hosts, TurnBatches

\* A subagent, or a background agent, has no subagents.
LEMMA NoNestedHosts ==
  ASSUME NEW b \in Batches, b \notin TurnBatches, NEW c \in Members(b)
  PROVE  c \notin Hosts
<1> SUFFICES ASSUME NEW x \in Batches, Nested(x), c = HostOf[x] PROVE FALSE
  BY DEF Hosts
<1>1. BatchOf(c) \in TurnBatches
  BY HostFacts
<1> QED BY <1>1, MemberFacts

\* The call under the cursor of the recovery loop is a call of the batch.
LEMMA CursorFacts ==
  ASSUME TypeOK, NEW b \in Batches, cursor[b] <= Len(CallsOf[b])
  PROVE  CallsOf[b][cursor[b]] \in Members(b)
<1>1. CallsOf[b] \in Seq(Calls) /\ cursor[b] \in Nat \ {0}
  BY BatchAssumption DEF BatchAssumption, TypeOK
<1>2. cursor[b] \in 1 .. Len(CallsOf[b])
  BY <1>1
<1> QED BY <1>2 DEF Members

LEMMA TurnBatchFacts ==
  ASSUME NEW b \in TurnBatches
  PROVE  b \in Batches /\ ~Nested(b) /\ (BatchDone(b) <=> cancelled[b])
BY DEF TurnBatches, BatchDone

-----------------------------------------------------------------------------
(* How a step moves calls *)

\* A call that holds a slot ends, with a result that is a success or an error for
\* the model and for the recovery loop alike.
Finishes(c) ==
  \E told \in {"ok", "error"}, k \in {"permanent", "transient"},
     e \in {"ok", "permanent", "transient"} :
    (told = "ok" <=> e = "ok") /\ Return(c, told, k, e)

LEMMA FailureFinishes ==
  ASSUME NEW c, Failures(c) PROVE Finishes(c)
BY DEF Failures, Finishes

LEMMA DenyFinishes ==
  ASSUME NEW c, Deny(c) PROVE Finishes(c)
BY DEF Deny, Finishes

LEMMA ExecuteFinishes ==
  ASSUME NEW c, Execute(c) PROVE Finishes(c)
<1>1. CASE Return(c, "ok", "permanent", "ok") BY <1>1 DEF Finishes
<1>2. CASE Failures(c) BY <1>2, FailureFinishes
<1> QED BY <1>1, <1>2 DEF Execute

\* What an iteration of a subagent does: it ends, and with it the call that hosts
\* it; it counts an error; or it starts a batch.
SubEnds(b) ==
  /\ bpc' = [bpc EXCEPT ![b] = IF Nested(b) THEN "idle" ELSE "done"]
  /\ IF Nested(b) THEN Finishes(HostOf[b]) ELSE UNCHANGED <<sem, cpc, results>>
  /\ UNCHANGED subturn
SubStarts(b) ==
  /\ StartBatch(b, Members(b)) /\ UNCHANGED sem
  /\ iteration[b] < MaxSubIter /\ iteration' = [iteration EXCEPT ![b] = @ + 1]
  /\ llmErrors' = [llmErrors EXCEPT ![b] = 0]
SubErrs(b) ==
  /\ iteration[b] < MaxSubIter /\ iteration' = [iteration EXCEPT ![b] = @ + 1]
  /\ llmErrors[b] < LLMMaxErrors /\ llmErrors' = [llmErrors EXCEPT ![b] = @ + 1]
  /\ UNCHANGED <<sem, bpc, cpc, results>>

LEMMA SubturnKinds ==
  ASSUME NEW b \in Batches, SubturnChat(b)
  PROVE  /\ bpc[b] = "chat" /\ (SubEnds(b) \/ SubStarts(b) \/ SubErrs(b))
         /\ UNCHANGED <<recovery, approver, context>>
<1>1. ASSUME NEW f \in BOOLEAN, EndSubturn(b, f) PROVE SubEnds(b)
  <2>1. CASE ~Nested(b) BY <1>1, <2>1 DEF EndSubturn, SubEnds
  <2>2. CASE Nested(b) /\ f BY <1>1, <2>2, FailureFinishes DEF EndSubturn, SubEnds
  <2>3. CASE Nested(b) /\ ~f
    <3>1. Return(HostOf[b], "ok", "permanent", "ok") BY <1>1, <2>3 DEF EndSubturn
    <3>2. Finishes(HostOf[b]) BY <3>1 DEF Finishes
    <3> QED BY <1>1, <2>3, <3>2 DEF EndSubturn, SubEnds
  <2> QED BY <2>1, <2>2, <2>3
<1> QED BY <1>1 DEF SubturnChat, SubStarts, SubErrs

-----------------------------------------------------------------------------
(* Slots *)

LEMMA HoldFinite == IsFiniteSet(Hold) /\ Cardinality(Hold) \in Nat
BY BatchAssumption, FS_Subset, FS_CardinalityType DEF BatchAssumption, Hold

LEMMA HoldFinitePrime == IsFiniteSet(Hold') /\ Cardinality(Hold') \in Nat
BY BatchAssumption, FS_Subset, FS_CardinalityType DEF BatchAssumption, Hold

Takes(c) == /\ sem < Concurrency /\ sem' = sem + 1
            /\ cpc[c] \notin Holding /\ cpc' = [cpc EXCEPT ![c] = "started"]
Gives(c) == /\ sem' = sem - 1
            /\ cpc[c] \in Holding /\ cpc' = [cpc EXCEPT ![c] = "done"]
Keeps    == sem' = sem /\ Hold' = Hold

LEMMA TakesSlot ==
  ASSUME TypeOK, SlotsConserved, NEW c \in Calls, Takes(c)
  PROVE  SlotsConserved' /\ sem' \in Nat
<1>1. Hold' = Hold \cup {c} /\ c \notin Hold
  BY DEF TypeOK, Takes, Hold, Holding
<1>2. Cardinality(Hold') = Cardinality(Hold) + 1
  BY <1>1, HoldFinite, FS_AddElement
<1>3. sem = Cardinality(Hold) /\ sem \in Nat
  BY HoldFinite DEF SlotsConserved, Hold
<1>4. sem' = Cardinality(Hold') /\ sem' <= Concurrency /\ sem' \in Nat
  BY <1>2, <1>3, LimitAssumption DEF LimitAssumption, Takes
<1> QED BY <1>4 DEF SlotsConserved, Hold

LEMMA GivesSlot ==
  ASSUME TypeOK, SlotsConserved, NEW c \in Calls, Gives(c)
  PROVE  SlotsConserved' /\ sem' \in Nat
<1>1. Hold' = Hold \ {c} /\ c \in Hold
  BY DEF TypeOK, Gives, Hold, Holding
<1>2. Cardinality(Hold') = Cardinality(Hold) - 1
  BY <1>1, HoldFinite, FS_RemoveElement
<1>3. sem = Cardinality(Hold) /\ sem \in Nat /\ sem <= Concurrency
  BY HoldFinite DEF SlotsConserved, Hold
<1>4. sem' = Cardinality(Hold') /\ sem' <= Concurrency /\ sem' \in Nat
  BY <1>2, <1>3, HoldFinitePrime, LimitAssumption DEF LimitAssumption, Gives
<1> QED BY <1>4 DEF SlotsConserved, Hold

LEMMA KeepsSlot ==
  ASSUME TypeOK, SlotsConserved, Keeps
  PROVE  SlotsConserved' /\ sem' \in Nat
BY HoldFinite DEF SlotsConserved, Keeps, Hold, TypeOK

LEMMA FinishGives ==
  ASSUME NEW c, cpc[c] \in Holding, Finishes(c) PROVE Gives(c)
BY DEF Finishes, Return, Gives

LEMMA StartKeeps ==
  ASSUME TypeOK, NEW b \in Batches, StartBatch(b, Members(b)), sem' = sem,
         \A c \in Members(b) : cpc[c] \in AtRest
  PROVE  Keeps
BY MemberFacts DEF StartBatch, Keeps, Hold, Holding, AtRest

\* Every step takes one slot, gives one back, or leaves the slots alone.
LEMMA SlotKinds ==
  ASSUME ToolInv, Next PROVE (\E c \in Calls : Takes(c) \/ Gives(c)) \/ Keeps
<1> USE DEF ToolInv
<1>1. ASSUME NEW b \in Batches, RunBatch(b) PROVE Keeps
  BY <1>1, StartKeeps DEF RunBatch, Quiet
<1>2. ASSUME NEW b \in Batches, SubturnChat(b) PROVE (\E c \in Calls : Gives(c)) \/ Keeps
  <2>1. CASE SubEnds(b) /\ Nested(b)
    <3>1. HostOf[b] \in Calls /\ cpc[HostOf[b]] \in Holding /\ Finishes(HostOf[b])
      BY <1>2, <2>1, HostFacts, SubturnKinds DEF HostRuns, SubEnds, Holding
    <3> QED BY <3>1, FinishGives
  <2>2. CASE SubEnds(b) /\ ~Nested(b) BY <2>2 DEF SubEnds, Keeps, Hold
  <2>3. CASE SubStarts(b)
    BY <1>2, <2>3, StartKeeps, SubturnKinds DEF SubStarts, Quiet
  <2>4. CASE SubErrs(b) BY <2>4 DEF SubErrs, Keeps, Hold
  <2> QED BY <1>2, <2>1, <2>2, <2>3, <2>4, SubturnKinds
<1>3. ASSUME NEW b \in Batches, Recover(b) PROVE Keeps
  <2> DEFINE c == CallsOf[b][cursor[b]]
  <2>1. c \in Calls /\ cpc[c] \in AtRest
    BY <1>3, CursorFacts, MemberFacts DEF Recover, Quiet
  <2>2. CASE UNCHANGED cpc BY <1>3, <2>2 DEF Recover, Keeps, Hold
  <2>3. CASE cpc' = [cpc EXCEPT ![c] = "slot"]
    BY <1>3, <2>1, <2>3 DEF Recover, Keeps, Hold, Holding, AtRest, TypeOK
  <2> QED BY <1>3, <2>2, <2>3 DEF Recover
<1>4. ASSUME NEW b \in Batches,
             BeginSubturn(b) \/ Collect(b) \/ Retried(b) \/ FinishBatch(b) \/ Cancel(b)
      PROVE Keeps
  BY <1>4 DEF BeginSubturn, Collect, Retried, FinishBatch, Cancel, Keeps, Hold
<1>5. ASSUME NEW c \in Calls, AcquireSlot(c) PROVE Takes(c)
  BY <1>5 DEF AcquireSlot, Takes, Holding
<1>6. ASSUME NEW c \in Calls, GiveUpSlot(c) \/ Register(c) PROVE Keeps
  BY <1>6 DEF GiveUpSlot, Register, Keeps, Hold, Holding, TypeOK
<1>7. ASSUME NEW c \in Calls, Start(c) PROVE Gives(c) \/ Keeps
  <2>1. CASE Deny(c) BY <1>7, <2>1, DenyFinishes, FinishGives DEF Start, Holding
  <2>2. CASE sem' = sem /\ cpc' = [cpc EXCEPT ![c] = "running"]
    BY <1>7, <2>2 DEF Start, Keeps, Hold, Holding, TypeOK
  <2>3. CASE sem' = sem /\ cpc' = [cpc EXCEPT ![c] = "asking"]
    BY <1>7, <2>3 DEF Start, Keeps, Hold, Holding, TypeOK
  <2> QED BY <1>7, <2>1, <2>2, <2>3 DEF Start
<1>8. ASSUME NEW c \in Calls, Decided(c) PROVE Gives(c) \/ Keeps
  <2>1. CASE Deny(c) BY <1>8, <2>1, DenyFinishes, FinishGives DEF Decided, Holding
  <2>2. CASE sem' = sem /\ cpc' = [cpc EXCEPT ![c] = "running"]
    BY <1>8, <2>2 DEF Decided, Keeps, Hold, Holding, TypeOK
  <2> QED BY <1>8, <2>1, <2>2 DEF Decided
<1>9. ASSUME NEW c \in Calls, Execute(c) PROVE Gives(c)
  BY <1>9, ExecuteFinishes, FinishGives DEF Execute, Holding
<1>10. ASSUME NEW c \in Calls, Expire(c) PROVE Keeps
  BY <1>10 DEF Expire, Keeps, Hold
<1>11. ASSUME NEW c \in Calls, NEW n, NEW v, Respond(c, n, v) PROVE Keeps
  BY <1>11 DEF Respond, Keeps, Hold
<1>12. ASSUME NEW r \in responding, Deliver(r) PROVE Keeps
  BY <1>12 DEF Deliver, Keeps, Hold
<1> QED
  BY <1>1, <1>2, <1>3, <1>4, <1>5, <1>6, <1>7, <1>8, <1>9, <1>10, <1>11, <1>12
     DEF Next, BatchStep, CallStep

LEMMA SlotsStep ==
  ASSUME ToolInv, Next PROVE SlotsConserved' /\ sem' \in Nat
BY SlotKinds, TakesSlot, GivesSlot, KeepsSlot DEF ToolInv

-----------------------------------------------------------------------------
(* Types *)

\* TypeOK without the semaphore.
LEMMA ReturnType ==
  ASSUME TypeOK, NEW c \in Calls, Finishes(c)
  PROVE  /\ cpc' \in [Calls -> {"idle", "slot", "done"} \cup Holding]
         /\ toolResult' \in [Calls -> {"empty", "ok", "error"}]
         /\ kind' \in [Calls -> {"permanent", "transient"}]
         /\ outcome' \in [Calls -> {"none", "ok", "permanent", "transient"}]
BY DEF TypeOK, Finishes, Return

LEMMA StartType ==
  ASSUME TypeOK, NEW b \in Batches, StartBatch(b, Members(b))
  PROVE  /\ bpc' \in [Batches -> {"idle", "running", "recover", "retrying", "chat", "done"}]
         /\ cpc' \in [Calls -> {"idle", "slot", "done"} \cup Holding]
         /\ toolResult' \in [Calls -> {"empty", "ok", "error"}]
         /\ UNCHANGED <<kind, outcome>>
BY DEF TypeOK, StartBatch

LEMMA TypeStep ==
  ASSUME ToolInv, Next PROVE TypeOK'
<1> USE DEF ToolInv
<1>0. sem' \in Nat
  BY SlotsStep
<1>1. ASSUME NEW b \in Batches, RunBatch(b) PROVE TypeOK'
  BY <1>0, <1>1, StartType DEF TypeOK, RunBatch, recovery, subturn, results, approver, context
<1>2. ASSUME NEW b \in Batches, SubturnChat(b) PROVE TypeOK'
  <2> USE DEF recovery, subturn, results, approver, context
  <2>0. UNCHANGED <<recovery, approver, context>>
    BY <1>2, SubturnKinds
  <2>1. CASE SubEnds(b) /\ Nested(b)
    BY <1>0, <2>0, <2>1, HostFacts, ReturnType DEF TypeOK, SubEnds
  <2>2. CASE SubEnds(b) /\ ~Nested(b)
    BY <1>0, <2>0, <2>2 DEF TypeOK, SubEnds
  <2>3. CASE SubStarts(b)
    BY <1>0, <2>0, <2>3, StartType, LimitAssumption DEF TypeOK, SubStarts, LimitAssumption
  <2>4. CASE SubErrs(b)
    BY <1>0, <2>0, <2>4, LimitAssumption DEF TypeOK, SubErrs, LimitAssumption
  <2> QED BY <1>2, <2>1, <2>2, <2>3, <2>4, SubturnKinds
<1>3. ASSUME NEW b \in Batches, Recover(b) PROVE TypeOK'
  <2>1. CallsOf[b][cursor[b]] \in Calls
    BY <1>3, CursorFacts, MemberFacts DEF Recover
  <2>2. attempts' \in [Batches -> 0 .. MaxRetries]
    <3>1. attempts[b] \in 0 .. MaxRetries /\ MaxRetries \in Nat
      BY LimitAssumption DEF TypeOK, LimitAssumption
    <3>2. attempts' = [attempts EXCEPT ![b] = 0]
            \/ (attempts[b] < MaxRetries /\ attempts' = [attempts EXCEPT ![b] = @ + 1])
      BY <1>3 DEF Recover
    <3> QED BY <3>1, <3>2 DEF TypeOK
  <2>3. cursor' \in [Batches -> Nat \ {0}] /\ replan' \in [Batches -> SUBSET Calls]
    <3>1. cursor' = cursor \/ cursor' = [cursor EXCEPT ![b] = @ + 1]
      BY <1>3 DEF Recover
    <3>2. replan' = replan \/ replan' = [replan EXCEPT ![b] = @ \cup {CallsOf[b][cursor[b]]}]
      BY <1>3 DEF Recover
    <3>3. cursor' \in [Batches -> Nat \ {0}]
      BY <3>1 DEF TypeOK
    <3>4. replan[b] \cup {CallsOf[b][cursor[b]]} \in SUBSET Calls
      BY <2>1 DEF TypeOK
    <3>5. replan' \in [Batches -> SUBSET Calls]
      BY <3>2, <3>4 DEF TypeOK
    <3> QED BY <3>3, <3>5
  <2>4. /\ bpc' \in [Batches -> {"idle", "running", "recover", "retrying", "chat", "done"}]
        /\ cpc' \in [Calls -> {"idle", "slot", "done"} \cup Holding]
    BY <1>3, <2>1 DEF TypeOK, Recover
  <2> QED BY <1>0, <1>3, <2>2, <2>3, <2>4
          DEF TypeOK, Recover, subturn, results, approver, context
<1>4. ASSUME NEW b \in Batches, BeginSubturn(b) PROVE TypeOK'
  BY <1>0, <1>4, LimitAssumption
     DEF TypeOK, BeginSubturn, LimitAssumption, recovery, results, approver, context
<1>5. ASSUME NEW b \in Batches, Collect(b) \/ Retried(b) \/ FinishBatch(b) PROVE TypeOK'
  BY <1>0, <1>5 DEF TypeOK, Collect, Retried, FinishBatch, recovery, subturn, results, approver, context
<1>6. ASSUME NEW b \in Batches, Cancel(b) PROVE TypeOK'
  BY <1>0, <1>6 DEF TypeOK, Cancel, recovery, subturn, results, approver
<1>7. ASSUME NEW c \in Calls, AcquireSlot(c) PROVE TypeOK'
  BY <1>0, <1>7 DEF TypeOK, AcquireSlot, Holding, recovery, subturn, results, approver
<1>8. ASSUME NEW c \in Calls, GiveUpSlot(c) PROVE TypeOK'
  BY <1>0, <1>8 DEF TypeOK, GiveUpSlot, recovery, subturn, approver, context
<1>9. ASSUME NEW c \in Calls, Start(c) PROVE TypeOK'
  <2> USE DEF recovery, subturn, results, context
  <2>1. CASE Deny(c)
    <3>1. asked' \in [Calls -> Nat]
      BY <1>9 DEF TypeOK, Start
    <3> QED BY <1>0, <1>9, <2>1, <3>1, DenyFinishes, ReturnType DEF TypeOK, Start
  <2>2. CASE ~Deny(c)
    BY <1>0, <1>9, <2>2 DEF TypeOK, Start, Holding
  <2> QED BY <2>1, <2>2
<1>10. ASSUME NEW c \in Calls, Register(c) PROVE TypeOK'
  BY <1>0, <1>10 DEF TypeOK, Register, Request, Holding, recovery, subturn, results, context
<1>11. ASSUME NEW c \in Calls, Decided(c) PROVE TypeOK'
  <2> USE DEF recovery, subturn, results, context
  <2>1. CASE Deny(c)
    BY <1>0, <1>11, <2>1, DenyFinishes, ReturnType DEF TypeOK, Decided
  <2>2. CASE ~Deny(c)
    BY <1>0, <1>11, <2>2 DEF TypeOK, Decided, Holding
  <2> QED BY <2>1, <2>2
<1>12. ASSUME NEW c \in Calls, Execute(c) PROVE TypeOK'
  BY <1>0, <1>12, ExecuteFinishes, ReturnType
     DEF TypeOK, Execute, recovery, subturn, approver, context
<1>13. ASSUME NEW c \in Calls, Expire(c) PROVE TypeOK'
  BY <1>0, <1>13 DEF TypeOK, Expire, recovery, subturn, results, approver
<1>14. ASSUME NEW c \in Calls, NEW n \in 1 .. MaxRetries + 1, NEW v \in {"yes", "no"},
              Respond(c, n, v)
       PROVE TypeOK'
  <2>1. <<c, n>> \in Calls \X Nat /\ << <<c, n>>, v>> \in (Calls \X Nat) \X {"yes", "no"}
    BY LimitAssumption DEF LimitAssumption
  <2> QED BY <1>0, <1>14, <2>1, LimitAssumption
          DEF TypeOK, Respond, LimitAssumption, recovery, subturn, results, context
<1>15. ASSUME NEW r \in responding, Deliver(r) PROVE TypeOK'
  <2>1. r[1][1] \in Calls /\ r[2] \in {"yes", "no"}
    BY DEF TypeOK
  <2> QED BY <1>0, <1>15, <2>1 DEF TypeOK, Deliver, recovery, subturn, results, context
<1> QED
  BY <1>1, <1>2, <1>3, <1>4, <1>5, <1>6, <1>7, <1>8, <1>9, <1>10, <1>11, <1>12, <1>13,
     <1>14, <1>15 DEF Next, BatchStep, CallStep

-----------------------------------------------------------------------------
(* Batches and the calls in them *)

\* A call that is under way may move without disturbing its batch.
LEMMA MoveQuiet ==
  ASSUME ToolInv, NEW c \in Calls, cpc[c] \notin AtRest, NEW v, cpc' = [cpc EXCEPT ![c] = v],
         UNCHANGED <<bpc, cursor>>
  PROVE  Quiet'
BY MemberFacts DEF ToolInv, TypeOK, Quiet

LEMMA MoveHostRuns ==
  ASSUME ToolInv, NEW c \in Calls, cpc[c] # "running" \/ c \notin Hosts, NEW v,
         cpc' = [cpc EXCEPT ![c] = v], UNCHANGED bpc
  PROVE  HostRuns'
BY HostFacts DEF ToolInv, TypeOK, HostRuns

LEMMA StillQuiet ==
  ASSUME ToolInv, UNCHANGED <<cpc, bpc, cursor>> PROVE Quiet' /\ HostRuns'
BY DEF ToolInv, Quiet, HostRuns

\* The start of a batch touches only calls that are at rest, hence no host.
LEMMA StartQuiet ==
  ASSUME ToolInv, NEW b \in Batches, bpc[b] \in {"idle", "chat"}, StartBatch(b, Members(b)),
         Nested(b) => cpc[HostOf[b]] = "running", UNCHANGED cursor
  PROVE  Quiet' /\ HostRuns'
<1> USE DEF ToolInv
<1>1. \A c \in Members(b) : c \in Calls /\ cpc[c] \in AtRest
  BY MemberFacts DEF Quiet
<1>2. \A x \in Batches : x # b => bpc'[x] = bpc[x] /\ \A c \in Members(x) : cpc'[c] = cpc[c]
  BY MemberFacts DEF StartBatch, TypeOK
<1>3. bpc'[b] = "running"
  BY DEF StartBatch, TypeOK
<1>4. Quiet'
  BY <1>2, <1>3 DEF Quiet
<1>5. ASSUME NEW x \in Batches, Nested(x), bpc'[x] # "idle" PROVE cpc'[HostOf[x]] = "running"
  <2>1. HostOf[x] \in Calls /\ cpc[HostOf[x]] = "running"
    BY <1>2, <1>5, HostFacts DEF HostRuns
  <2>2. HostOf[x] \notin Members(b)
    BY <1>1, <2>1 DEF AtRest
  <2> QED BY <2>1, <2>2 DEF StartBatch
<1> QED BY <1>4, <1>5 DEF HostRuns

LEMMA QuietStep ==
  ASSUME ToolInv, Next PROVE Quiet' /\ HostRuns'
<1> USE DEF ToolInv, AtRest
<1>1. ASSUME NEW b \in Batches, RunBatch(b) PROVE Quiet' /\ HostRuns'
  BY <1>1, StartQuiet, TurnBatchFacts DEF RunBatch, recovery
<1>2. ASSUME NEW b \in Batches, SubturnChat(b) PROVE Quiet' /\ HostRuns'
  <2>0. bpc[b] = "chat" /\ UNCHANGED cursor
    BY <1>2, SubturnKinds DEF recovery
  <2>1. CASE SubEnds(b) /\ Nested(b)
    <3>1. /\ HostOf[b] \in Calls /\ cpc[HostOf[b]] = "running"
          /\ cpc' = [cpc EXCEPT ![HostOf[b]] = "done"] /\ bpc' = [bpc EXCEPT ![b] = "idle"]
      BY <2>0, <2>1, HostFacts DEF HostRuns, SubEnds, Finishes, Return
    <3>2. Quiet'
      BY <2>0, <3>1, MemberFacts DEF TypeOK, Quiet
    <3>3. HostRuns'
      BY <2>0, <2>1, <3>1, HostFacts DEF TypeOK, HostRuns
    <3> QED BY <3>2, <3>3
  <2>2. CASE SubEnds(b) /\ ~Nested(b)
    BY <2>0, <2>2 DEF SubEnds, TypeOK, Quiet, HostRuns
  <2>3. CASE SubStarts(b)
    BY <2>0, <2>3, StartQuiet DEF SubStarts, HostRuns
  <2>4. CASE SubErrs(b)
    BY <2>0, <2>4, StillQuiet DEF SubErrs
  <2> QED BY <1>2, <2>1, <2>2, <2>3, <2>4, SubturnKinds
<1>3. ASSUME NEW b \in Batches, BeginSubturn(b) PROVE Quiet' /\ HostRuns'
  BY <1>3 DEF BeginSubturn, recovery, TypeOK, Quiet, HostRuns
<1>4. ASSUME NEW b \in Batches, Collect(b) PROVE Quiet' /\ HostRuns'
  BY <1>4 DEF Collect, recovery, TypeOK, Quiet, HostRuns
<1>5. ASSUME NEW b \in Batches, Recover(b) PROVE Quiet' /\ HostRuns'
  <2> DEFINE c == CallsOf[b][cursor[b]]
  <2>1. c \in Members(b) /\ c \in Calls /\ cpc[c] \in AtRest
    BY <1>5, CursorFacts, MemberFacts DEF Recover, Quiet
  <2>2. CASE bpc' = [bpc EXCEPT ![b] = "retrying"]
    <3>1. cpc' = [cpc EXCEPT ![c] = "slot"] /\ UNCHANGED cursor
      BY <1>5, <2>2 DEF Recover, TypeOK
    <3>2. Quiet'
      <4>1. ASSUME NEW x \in Batches, x # b
            PROVE  bpc'[x] = bpc[x] /\ \A y \in Members(x) : cpc'[y] = cpc[y]
        BY <2>1, <2>2, <3>1, <4>1, MemberFacts DEF TypeOK
      <4>2. \A y \in Members(b) : y # c => cpc'[y] \in AtRest
        BY <1>5, <2>1, <3>1, MemberFacts DEF TypeOK, Recover, Quiet
      <4>3. bpc'[b] = "retrying" /\ cursor'[b] <= Len(CallsOf[b])
        BY <1>5, <2>2, <3>1 DEF TypeOK, Recover
      <4> QED BY <3>1, <4>1, <4>2, <4>3 DEF Quiet
    <3>3. HostRuns'
      BY <1>5, <2>1, <2>2, <3>1, HostFacts DEF TypeOK, HostRuns, Recover
    <3> QED BY <3>2, <3>3
  <2>3. CASE UNCHANGED <<bpc, cpc>>
    <3>1. \A x \in Batches : x # b => cursor'[x] = cursor[x]
      BY <1>5 DEF Recover, TypeOK
    <3> QED BY <1>5, <2>3, <3>1 DEF Recover, Quiet, HostRuns
  <2> QED BY <1>5, <2>2, <2>3 DEF Recover
<1>6. ASSUME NEW b \in Batches, Retried(b) PROVE Quiet' /\ HostRuns'
  <2>1. bpc' = [bpc EXCEPT ![b] = "recover"] /\ UNCHANGED <<cpc, cursor>>
    BY <1>6 DEF Retried, recovery
  <2>2. \A c \in Members(b) : cpc[c] \in AtRest
    BY <1>6 DEF Retried, Quiet
  <2> QED BY <1>6, <2>1, <2>2 DEF Retried, TypeOK, Quiet, HostRuns
<1>7. ASSUME NEW b \in Batches, FinishBatch(b) PROVE Quiet' /\ HostRuns'
  BY <1>7 DEF FinishBatch, recovery, TypeOK, Quiet, HostRuns
<1>8. ASSUME NEW c \in Calls, AcquireSlot(c) \/ GiveUpSlot(c) \/ Register(c) PROVE Quiet' /\ HostRuns'
  <2>1. /\ cpc[c] \in {"slot", "asking"} /\ UNCHANGED <<bpc, cursor>>
        /\ \E v \in {"started", "done", "waiting"} : cpc' = [cpc EXCEPT ![c] = v]
    BY <1>8 DEF AcquireSlot, GiveUpSlot, Register, recovery
  <2> QED BY <2>1, MoveQuiet, MoveHostRuns
<1>9. ASSUME NEW c \in Calls, Start(c) \/ Decided(c) PROVE Quiet' /\ HostRuns'
  <2>1. /\ cpc[c] \in {"started", "waiting"} /\ UNCHANGED <<bpc, cursor>>
        /\ \E v \in {"running", "asking", "done"} : cpc' = [cpc EXCEPT ![c] = v]
    BY <1>9 DEF Start, Decided, Deny, Return, recovery
  <2> QED BY <2>1, MoveQuiet, MoveHostRuns
<1>10. ASSUME NEW c \in Calls, Execute(c) PROVE Quiet' /\ HostRuns'
  <2>1. /\ cpc[c] = "running" /\ c \notin Hosts /\ UNCHANGED <<bpc, cursor>>
        /\ cpc' = [cpc EXCEPT ![c] = "done"]
    BY <1>10, ExecuteFinishes DEF Execute, Finishes, Return, recovery
  <2> QED BY <2>1, MoveQuiet, MoveHostRuns
<1>11. ASSUME NEW b \in Batches, Cancel(b) PROVE Quiet' /\ HostRuns'
  BY <1>11, StillQuiet DEF Cancel, recovery
<1>12. ASSUME NEW c \in Calls, Expire(c) PROVE Quiet' /\ HostRuns'
  BY <1>12, StillQuiet DEF Expire, recovery
<1>13. ASSUME NEW c \in Calls, NEW n, NEW v, Respond(c, n, v) PROVE Quiet' /\ HostRuns'
  BY <1>13, StillQuiet DEF Respond, recovery
<1>14. ASSUME NEW r \in responding, Deliver(r) PROVE Quiet' /\ HostRuns'
  BY <1>14, StillQuiet DEF Deliver, recovery
<1> QED
  BY <1>1, <1>2, <1>3, <1>4, <1>5, <1>6, <1>7, <1>8, <1>9, <1>10, <1>11, <1>12, <1>13,
     <1>14 DEF Next, BatchStep, CallStep

-----------------------------------------------------------------------------
(* Approval *)

\* A step that neither asks nor waits keeps the approvals as they are.
Silent == /\ UNCHANGED <<asked, pending, answer, responding, granted, mode, autoApprove>>
          /\ \A c \in Calls : cpc'[c] \in {"asking", "waiting", "running"} => cpc'[c] = cpc[c]
          /\ Waiting' = Waiting

LEMMA SilentStep ==
  ASSUME ToolInv, Silent PROVE PendingIsWaiting' /\ Honest' /\ ApprovedBeforeRun'
<1> USE DEF ToolInv, Silent
<1>1. PendingIsWaiting'
  BY DEF PendingIsWaiting, Waiting, Request
<1>2. \A c \in Calls : NeedsApproval(c)' <=> NeedsApproval(c)
  BY DEF NeedsApproval
<1>3. Honest'
  BY <1>2 DEF Honest, Request
<1>4. ApprovedBeforeRun'
  BY DEF ApprovedBeforeRun
<1> QED BY <1>1, <1>3, <1>4

LEMMA FinishSilent ==
  ASSUME ToolInv, NEW c \in Calls, cpc[c] # "waiting", Finishes(c), UNCHANGED approver,
         UNCHANGED context
  PROVE  Silent
BY DEF ToolInv, TypeOK, Finishes, Return, Silent, Waiting, approver, context

LEMMA StartSilent ==
  ASSUME ToolInv, NEW b \in Batches, StartBatch(b, Members(b)),
         \A c \in Members(b) : cpc[c] \in AtRest, UNCHANGED approver, UNCHANGED context
  PROVE  Silent
BY MemberFacts DEF StartBatch, Silent, Waiting, AtRest, approver, context

LEMMA ApprovalStep ==
  ASSUME ToolInv, Next PROVE PendingIsWaiting' /\ Honest' /\ ApprovedBeforeRun'
<1> USE DEF ToolInv
<1> DEFINE Goal == PendingIsWaiting' /\ Honest' /\ ApprovedBeforeRun'
<1>1. ASSUME NEW b \in Batches, RunBatch(b) PROVE Silent
  BY <1>1, StartSilent DEF RunBatch, Quiet
<1>2. ASSUME NEW b \in Batches, SubturnChat(b) PROVE Silent
  <2>0. bpc[b] = "chat" /\ UNCHANGED approver /\ UNCHANGED context
    BY <1>2, SubturnKinds
  <2>1. CASE SubEnds(b) /\ Nested(b)
    BY <2>0, <2>1, HostFacts, FinishSilent DEF SubEnds, HostRuns
  <2>2. CASE SubEnds(b) /\ ~Nested(b)
    BY <2>0, <2>2 DEF SubEnds, Silent, Waiting, approver, context
  <2>3. CASE SubStarts(b)
    BY <2>0, <2>3, StartSilent DEF SubStarts, Quiet
  <2>4. CASE SubErrs(b)
    BY <2>0, <2>4 DEF SubErrs, Silent, Waiting, approver, context
  <2> QED BY <1>2, <2>1, <2>2, <2>3, <2>4, SubturnKinds
<1>3. ASSUME NEW b \in Batches, Recover(b) PROVE Silent
  <2> DEFINE c == CallsOf[b][cursor[b]]
  <2>1. c \in Calls /\ cpc[c] \in AtRest
    BY <1>3, CursorFacts, MemberFacts DEF Recover, Quiet
  <2>2. UNCHANGED cpc \/ cpc' = [cpc EXCEPT ![c] = "slot"]
    BY <1>3 DEF Recover
  <2>3. \A d \in Calls : cpc'[d] = cpc[d] \/ (cpc[d] \in AtRest /\ cpc'[d] = "slot")
    BY <2>1, <2>2 DEF TypeOK
  <2>4. Waiting' = Waiting
    BY <2>3 DEF AtRest, Waiting
  <2>5. UNCHANGED approver /\ UNCHANGED context
    BY <1>3 DEF Recover
  <2> QED BY <2>3, <2>4, <2>5 DEF Silent, approver, context
<1>4. ASSUME NEW b \in Batches,
             BeginSubturn(b) \/ Collect(b) \/ Retried(b) \/ FinishBatch(b) \/ Cancel(b)
      PROVE Silent
  BY <1>4 DEF BeginSubturn, Collect, Retried, FinishBatch, Cancel, Silent, Waiting,
              approver, context
<1>5. ASSUME NEW c \in Calls, AcquireSlot(c) \/ GiveUpSlot(c) PROVE Silent
  BY <1>5 DEF AcquireSlot, GiveUpSlot, TypeOK, Silent, Waiting, approver, context
<1>6. ASSUME NEW c \in Calls, Execute(c) PROVE Silent
  BY <1>6, ExecuteFinishes, FinishSilent DEF Execute
<1>7. ASSUME NEW c \in Calls, Expire(c) PROVE Silent
  BY <1>7 DEF Expire, Silent, Waiting, approver
<1>8. ASSUME NEW c \in Calls, Start(c) PROVE Goal
  <2>1. /\ cpc[c] = "started" /\ UNCHANGED <<pending, answer, responding, granted, mode, autoApprove>>
        /\ \E v \in {"running", "asking", "done"} :
             /\ cpc' = [cpc EXCEPT ![c] = v]
             /\ v = "running" => ~NeedsApproval(c) \/ mode = "auto"
             /\ v = "asking" => NeedsApproval(c) /\ mode = "ask"
        /\ \A x \in Calls : x # c => asked'[x] = asked[x]
    BY <1>8 DEF Start, Deny, Return, context, TypeOK
  <2>2. PendingIsWaiting'
    <3>1. Waiting' = Waiting /\ \A x \in Waiting : asked'[x] = asked[x]
      BY <2>1 DEF TypeOK, Waiting
    <3>2. {<<x, asked'[x]>> : x \in Waiting'} = {<<x, asked[x]>> : x \in Waiting}
      BY <3>1
    <3> QED BY <2>1, <3>2 DEF PendingIsWaiting, Request, Waiting
  <2>3. Honest'
    BY <2>1 DEF TypeOK, Honest, Request, NeedsApproval
  <2>4. ApprovedBeforeRun'
    BY <2>1 DEF TypeOK, ApprovedBeforeRun, NeedsApproval
  <2> QED BY <2>2, <2>3, <2>4
<1>9. ASSUME NEW c \in Calls, Register(c) PROVE Goal
  <2>1. /\ cpc[c] = "asking" /\ cpc' = [cpc EXCEPT ![c] = "waiting"]
        /\ answer' = [answer EXCEPT ![c] = "empty"]
        /\ pending' = pending \cup {<<c, asked[c]>>}
        /\ UNCHANGED <<asked, responding, granted, mode, autoApprove>>
    BY <1>9 DEF Register, Request, context
  <2>2. Waiting' = Waiting \cup {c}
    BY <2>1 DEF TypeOK, Waiting
  <2>3. PendingIsWaiting'
    BY <2>1, <2>2 DEF PendingIsWaiting, Request, Waiting
  <2>4. Honest'
    BY <2>1 DEF TypeOK, Honest, Request, NeedsApproval
  <2>5. ApprovedBeforeRun'
    BY <2>1 DEF TypeOK, ApprovedBeforeRun
  <2> QED BY <2>3, <2>4, <2>5
<1>10. ASSUME NEW c \in Calls, Decided(c) PROVE Goal
  <2>1. /\ cpc[c] = "waiting" /\ pending' = pending \ {<<c, asked[c]>>}
        /\ \E v \in {"running", "done"} :
             /\ cpc' = [cpc EXCEPT ![c] = v]
             /\ v = "running" => answer[c] = "yes"
        /\ UNCHANGED <<asked, answer, responding, granted, mode, autoApprove>>
    BY <1>10 DEF Decided, Deny, Return, Request, context
  <2>2. Waiting' = Waiting \ {c}
    BY <2>1 DEF TypeOK, Waiting
  <2>3. PendingIsWaiting'
    BY <2>1, <2>2 DEF PendingIsWaiting, Request, Waiting
  <2>4. Honest'
    BY <2>1 DEF TypeOK, Honest, Request, NeedsApproval
  <2>5. cpc'[c] = "running" => mode = "ask" /\ <<c, asked[c]>> \in granted
    BY <2>1 DEF TypeOK, Honest, Request
  <2>6. ApprovedBeforeRun'
    BY <2>1, <2>5 DEF TypeOK, ApprovedBeforeRun
  <2> QED BY <2>3, <2>4, <2>6
<1>11. ASSUME NEW c \in Calls, NEW n, NEW v, Respond(c, n, v) PROVE Goal
  <2>1. /\ granted \subseteq granted' /\ (v = "yes" => <<c, n>> \in granted')
        /\ responding' \subseteq responding \cup {<< <<c, n>>, v>>}
        /\ UNCHANGED <<cpc, asked, pending, answer, mode, autoApprove>>
    BY <1>11 DEF Respond, context
  <2>2. PendingIsWaiting'
    BY <2>1 DEF PendingIsWaiting, Request
  <2>3. Honest'
    BY <2>1 DEF Honest, Request, NeedsApproval
  <2>4. ApprovedBeforeRun'
    BY <2>1 DEF ApprovedBeforeRun
  <2> QED BY <2>2, <2>3, <2>4
<1>12. ASSUME NEW r \in responding, Deliver(r) PROVE Goal
  <2>1. /\ responding' \subseteq responding
        /\ UNCHANGED <<cpc, asked, pending, granted, mode, autoApprove>>
    BY <1>12 DEF Deliver, context
  <2>2. \A x \in Calls : answer'[x] = answer[x] \/ (r[1] = <<x, asked[x]>> /\ answer'[x] = r[2])
    BY <1>12 DEF Deliver, Request, TypeOK
  <2>3. PendingIsWaiting'
    BY <2>1 DEF PendingIsWaiting, Request
  <2>4. Honest'
    BY <2>1, <2>2 DEF Honest, Request, NeedsApproval
  <2>5. ApprovedBeforeRun'
    BY <2>1 DEF ApprovedBeforeRun
  <2> QED BY <2>3, <2>4, <2>5
<1> QED
  BY <1>1, <1>2, <1>3, <1>4, <1>5, <1>6, <1>7, <1>8, <1>9, <1>10, <1>11, <1>12, SilentStep
     DEF Next, BatchStep, CallStep

-----------------------------------------------------------------------------
(* Results *)

\* Told, for one call and for one batch.
CallTold(b, c) ==
  /\ cpc[c] # "done" => toolResult[c] # "ok"
  /\ cpc[c] = "done" => /\ toolResult[c] = "ok" <=> outcome[c] = "ok"
                        /\ toolResult[c] = "empty" => cancelled[b]
BatchTold(b) ==
  /\ bpc[b] # "chat"
  /\ bpc[b] = "idle" => \A c \in Members(b) : cpc[c] = "idle"
  /\ bpc[b] \in {"recover", "done"} => \A c \in Members(b) : cpc[c] = "done"
  /\ bpc[b] = "retrying" => \A c \in Members(b) :
       c # CallsOf[b][cursor[b]] => cpc[c] = "done"
  /\ \A c \in Members(b) : CallTold(b, c)

LEMMA ToldByBatch == /\ Told <=> \A b \in TurnBatches : BatchTold(b)
                     /\ Told' <=> \A b \in TurnBatches : BatchTold(b)'
BY DEF Told, BatchTold, CallTold

\* A call that is under way moves, and what it says of itself stays true.
LEMMA MoveTold ==
  ASSUME ToolInv, NEW c \in Calls, cpc[c] \notin AtRest, NEW v,
         cpc' = [cpc EXCEPT ![c] = v],
         \A x \in Calls : x # c => UNCHANGED <<toolResult[x], outcome[x]>>,
         \A b \in TurnBatches : /\ bpc'[b] = bpc[b] /\ cursor'[b] = cursor[b]
                                /\ cancelled'[b] = cancelled[b]
                                /\ c \in Members(b) => CallTold(b, c)'
  PROVE  Told'
<1> SUFFICES ASSUME NEW b \in TurnBatches PROVE BatchTold(b)'
  BY ToldByBatch
<1>1. BatchTold(b)
  BY ToldByBatch DEF ToolInv
<1>2. \A x \in Members(b) : x \in Calls /\ (x # c => cpc'[x] = cpc[x])
  BY MemberFacts, TurnBatchFacts DEF ToolInv, TypeOK
<1>3. \A x \in Members(b) : CallTold(b, x)'
  BY <1>1, <1>2 DEF BatchTold, CallTold
<1> QED BY <1>1, <1>2, <1>3 DEF BatchTold, AtRest

LEMMA FinishTold ==
  ASSUME ToolInv, NEW c \in Calls, cpc[c] \notin AtRest, Finishes(c),
         \A b \in TurnBatches : /\ bpc'[b] = bpc[b] /\ cursor'[b] = cursor[b]
                                /\ cancelled'[b] = cancelled[b]
  PROVE  Told'
<1>1. /\ cpc' = [cpc EXCEPT ![c] = "done"]
      /\ \A x \in Calls : x # c => UNCHANGED <<toolResult[x], outcome[x]>>
      /\ cpc'[c] = "done" /\ toolResult'[c] # "empty"
      /\ toolResult'[c] = "ok" <=> outcome'[c] = "ok"
  BY DEF ToolInv, TypeOK, Finishes, Return
<1>2. \A b \in TurnBatches : CallTold(b, c)'
  BY <1>1 DEF CallTold
<1> QED BY <1>1, <1>2, MoveTold

\* A call of a turn that is under way has no success to tell.
LEMMA UnderWay ==
  ASSUME ToolInv, NEW c \in Calls, cpc[c] \notin AtRest, NEW b \in TurnBatches, c \in Members(b)
  PROVE  toolResult[c] # "ok"
BY DEF ToolInv, Told, AtRest

\* Steps of a call that is not over.
LEMMA MoveOnTold ==
  ASSUME ToolInv, NEW c \in Calls, cpc[c] \notin AtRest, NEW v \in Holding,
         cpc' = [cpc EXCEPT ![c] = v], UNCHANGED <<toolResult, outcome, bpc, cursor, cancelled>>
  PROVE  Told'
<1>1. cpc'[c] # "done"
  BY DEF ToolInv, TypeOK, Holding
<1>2. \A b \in TurnBatches : c \in Members(b) => CallTold(b, c)'
  BY <1>1, UnderWay DEF CallTold
<1> QED BY <1>2, MoveTold

LEMMA StillTold ==
  ASSUME ToolInv, UNCHANGED <<cpc, toolResult, outcome, cursor>>,
         \A b \in TurnBatches : bpc'[b] = bpc[b] /\ (cancelled[b] => cancelled'[b])
  PROVE  Told'
BY DEF ToolInv, Told

LEMMA ToldStep ==
  ASSUME ToolInv, Next PROVE Told'
<1> USE DEF ToolInv, AtRest
<1>1. ASSUME NEW b \in Batches, RunBatch(b) PROVE Told'
  <2>1. bpc' = [bpc EXCEPT ![b] = "running"] /\ UNCHANGED <<outcome, cursor, cancelled>>
    BY <1>1 DEF RunBatch, StartBatch, recovery, context
  <2>2. \A c \in Members(b) : cpc'[c] = "slot" /\ toolResult'[c] = "empty"
    BY <1>1, MemberFacts DEF RunBatch, StartBatch
  <2>3. ASSUME NEW x \in Batches, x # b
        PROVE \A c \in Members(x) : UNCHANGED <<cpc[c], toolResult[c]>>
    BY <1>1, <2>3, MemberFacts DEF RunBatch, StartBatch
  <2>4. \A x \in Batches : bpc'[x] = IF x = b THEN "running" ELSE bpc[x]
    BY <2>1 DEF TypeOK
  <2>5. \A x \in TurnBatches : x \in Batches
    BY TurnBatchFacts
  <2> QED BY <2>1, <2>2, <2>3, <2>4, <2>5 DEF Told
<1>2. ASSUME NEW b \in Batches, SubturnChat(b) PROVE Told'
  <2>0. /\ bpc[b] = "chat" /\ b \notin TurnBatches /\ UNCHANGED <<cursor, cancelled>>
    BY <1>2, SubturnKinds DEF recovery, context, Told
  <2>1. CASE SubEnds(b) /\ Nested(b)
    <3>1. HostOf[b] \in Calls /\ cpc[HostOf[b]] = "running" /\ Finishes(HostOf[b])
      BY <2>0, <2>1, HostFacts DEF HostRuns, SubEnds
    <3>2. \A x \in TurnBatches : bpc'[x] = bpc[x]
      BY <2>0, <2>1, TurnBatchFacts DEF SubEnds, TypeOK
    <3> QED BY <2>0, <3>1, <3>2, FinishTold
  <2>2. CASE SubEnds(b) /\ ~Nested(b)
    BY <2>0, <2>2, StillTold, TurnBatchFacts DEF SubEnds, TypeOK, results
  <2>3. CASE SubStarts(b)
    <3>1. bpc' = [bpc EXCEPT ![b] = "running"] /\ UNCHANGED outcome
      BY <2>3 DEF SubStarts, StartBatch
    <3>2. ASSUME NEW x \in TurnBatches
          PROVE bpc'[x] = bpc[x] /\ \A c \in Members(x) : UNCHANGED <<cpc[c], toolResult[c]>>
      BY <2>0, <2>3, <3>1, MemberFacts, TurnBatchFacts DEF SubStarts, StartBatch, TypeOK
    <3> QED BY <2>0, <3>1, <3>2 DEF Told
  <2>4. CASE SubErrs(b)
    BY <2>0, <2>4, StillTold DEF SubErrs, results
  <2> QED BY <1>2, <2>1, <2>2, <2>3, <2>4, SubturnKinds
<1>3. ASSUME NEW b \in Batches, BeginSubturn(b) PROVE Told'
  BY <1>3, StillTold, TurnBatchFacts DEF BeginSubturn, TypeOK, recovery, results, context
<1>4. ASSUME NEW b \in Batches, Collect(b) PROVE Told'
  BY <1>4, TurnBatchFacts DEF Collect, TypeOK, Told, recovery, results, context
<1>5. ASSUME NEW b \in Batches, Recover(b) PROVE Told'
  <2> DEFINE c == CallsOf[b][cursor[b]]
  <2>1. c \in Members(b) /\ c \in Calls
    BY <1>5, CursorFacts, MemberFacts DEF Recover
  <2>2. UNCHANGED <<toolResult, outcome, cancelled>>
    BY <1>5 DEF Recover, results, context
  <2>3. CASE bpc' = [bpc EXCEPT ![b] = "retrying"]
    <3>1. cpc' = [cpc EXCEPT ![c] = "slot"] /\ UNCHANGED cursor /\ outcome[c] = "transient"
      BY <1>5, <2>3 DEF Recover, TypeOK
    <3>2. ASSUME NEW x \in Batches, x # b
          PROVE bpc'[x] = bpc[x] /\ \A y \in Members(x) : cpc'[y] = cpc[y]
      BY <2>1, <2>3, <3>1, <3>2, MemberFacts DEF TypeOK
    <3>3. b \in TurnBatches => BatchTold(b)'
      <4>1. SUFFICES ASSUME b \in TurnBatches PROVE BatchTold(b)'
        OBVIOUS
      <4>2. BatchTold(b) /\ bpc[b] = "recover"
        BY <1>5, <4>1, ToldByBatch DEF Recover
      <4>3. bpc'[b] = "retrying" /\ cpc'[c] = "slot" /\ toolResult'[c] # "ok"
        BY <2>1, <2>2, <2>3, <3>1, <4>2 DEF TypeOK, BatchTold, CallTold
      <4>4. \A y \in Members(b) : y # c => cpc'[y] = cpc[y]
        BY <3>1, MemberFacts DEF TypeOK
      <4>5. \A y \in Members(b) : CallTold(b, y)'
        BY <2>2, <4>2, <4>3, <4>4 DEF BatchTold, CallTold
      <4> QED BY <3>1, <4>2, <4>3, <4>4, <4>5 DEF BatchTold
    <3>4. ASSUME NEW x \in TurnBatches, x # b PROVE BatchTold(x)'
      BY <2>2, <3>1, <3>2, <3>4, ToldByBatch, TurnBatchFacts DEF BatchTold, CallTold
    <3> QED BY <3>3, <3>4, ToldByBatch
  <2>4. CASE UNCHANGED <<bpc, cpc>>
    <3>1. \A x \in Batches : x # b => cursor'[x] = cursor[x]
      BY <1>5 DEF Recover, TypeOK
    <3> QED BY <1>5, <2>2, <2>4, <3>1, TurnBatchFacts DEF Recover, Told
  <2> QED BY <1>5, <2>3, <2>4 DEF Recover
<1>6. ASSUME NEW b \in Batches, Retried(b) PROVE Told'
  BY <1>6, TurnBatchFacts DEF Retried, TypeOK, Told, recovery, results, context
<1>7. ASSUME NEW b \in Batches, FinishBatch(b) PROVE Told'
  BY <1>7, TurnBatchFacts DEF FinishBatch, TypeOK, Told, recovery, results, context
<1>8. ASSUME NEW b \in Batches, Cancel(b) PROVE Told'
  BY <1>8, StillTold, TurnBatchFacts DEF Cancel, TypeOK, recovery, results
<1>9. ASSUME NEW c \in Calls, AcquireSlot(c) PROVE Told'
  BY <1>9, MoveOnTold DEF AcquireSlot, Holding, recovery, results
<1>10. ASSUME NEW c \in Calls, GiveUpSlot(c) PROVE Told'
  <2>1. /\ cpc[c] = "slot" /\ cpc' = [cpc EXCEPT ![c] = "done"] /\ BatchDone(BatchOf(c))
        /\ UNCHANGED <<bpc, cursor, cancelled, toolResult>>
        /\ cpc'[c] = "done" /\ outcome'[c] = "transient"
        /\ \A x \in Calls : x # c => outcome'[x] = outcome[x]
    BY <1>10 DEF GiveUpSlot, TypeOK, recovery, context
  <2>2. ASSUME NEW b \in TurnBatches, c \in Members(b) PROVE CallTold(b, c)'
    BY <2>1, <2>2, UnderWay, MemberFacts, TurnBatchFacts DEF CallTold
  <2> QED BY <2>1, <2>2, MoveTold
<1>11. ASSUME NEW c \in Calls, Register(c) PROVE Told'
  BY <1>11, MoveOnTold DEF Register, Holding, recovery, results, context
<1>12. ASSUME NEW c \in Calls, Start(c) PROVE Told'
  <2>1. cpc[c] = "started" /\ UNCHANGED <<bpc, cursor, cancelled>>
    BY <1>12 DEF Start, recovery, context
  <2>2. CASE Deny(c) BY <2>1, <2>2, DenyFinishes, FinishTold
  <2>3. CASE UNCHANGED results /\ \E v \in {"running", "asking"} : cpc' = [cpc EXCEPT ![c] = v]
    BY <2>1, <2>3, MoveOnTold DEF Holding, results
  <2> QED BY <1>12, <2>2, <2>3 DEF Start
<1>13. ASSUME NEW c \in Calls, Decided(c) PROVE Told'
  <2>1. cpc[c] = "waiting" /\ UNCHANGED <<bpc, cursor, cancelled>>
    BY <1>13 DEF Decided, recovery, context
  <2>2. CASE Deny(c) BY <2>1, <2>2, DenyFinishes, FinishTold
  <2>3. CASE UNCHANGED results /\ cpc' = [cpc EXCEPT ![c] = "running"]
    BY <2>1, <2>3, MoveOnTold DEF Holding, results
  <2> QED BY <1>13, <2>2, <2>3 DEF Decided
<1>14. ASSUME NEW c \in Calls, Execute(c) PROVE Told'
  BY <1>14, ExecuteFinishes, FinishTold DEF Execute, recovery, context
<1>15. ASSUME NEW c \in Calls, Expire(c) PROVE Told'
  BY <1>15, StillTold DEF Expire, recovery, results
<1>16. ASSUME NEW c \in Calls, NEW n, NEW v, Respond(c, n, v) PROVE Told'
  BY <1>16, StillTold DEF Respond, recovery, results, context
<1>17. ASSUME NEW r \in responding, Deliver(r) PROVE Told'
  BY <1>17, StillTold DEF Deliver, recovery, results, context
<1> QED
  BY <1>1, <1>2, <1>3, <1>4, <1>5, <1>6, <1>7, <1>8, <1>9, <1>10, <1>11, <1>12, <1>13,
     <1>14, <1>15, <1>16, <1>17 DEF Next, BatchStep, CallStep

-----------------------------------------------------------------------------
(* The invariant *)

LEMMA InitInv == Init => ToolInv
<1> SUFFICES ASSUME Init PROVE ToolInv
  OBVIOUS
<1>1. TypeOK
  BY LimitAssumption DEF Init, TypeOK, LimitAssumption
<1>2. SlotsConserved
  <2>1. {c \in Calls : cpc[c] \in Holding} = {}
    BY DEF Init, Holding
  <2>2. Cardinality({c \in Calls : cpc[c] \in Holding}) = 0
    BY ONLY <2>1, FS_EmptySet
  <2>3. sem = 0 /\ sem <= Concurrency
    BY LimitAssumption DEF Init, LimitAssumption
  <2> QED BY <2>2, <2>3 DEF SlotsConserved
<1>3. PendingIsWaiting
  BY DEF Init, PendingIsWaiting
<1>4. Quiet /\ HostRuns
  BY MemberFacts DEF Init, Quiet, HostRuns, AtRest
<1>5. Honest /\ ApprovedBeforeRun
  BY DEF Init, Honest, ApprovedBeforeRun
<1>6. Told
  BY MemberFacts, TurnBatchFacts DEF Init, Told
<1> QED BY <1>1, <1>2, <1>3, <1>4, <1>5, <1>6 DEF ToolInv

LEMMA StutterInv == ASSUME ToolInv, UNCHANGED vars PROVE ToolInv'
<1> USE DEF ToolInv, vars, recovery, subturn, results, approver, context
<1>1. TypeOK' BY DEF TypeOK
<1>2. SlotsConserved' BY DEF SlotsConserved
<1>3. Quiet' /\ HostRuns' BY StillQuiet
<1>4. Silent BY DEF Silent, Waiting
<1>5. Told' BY StillTold
<1> QED BY <1>1, <1>2, <1>3, <1>4, <1>5, SilentStep

LEMMA Invariance == Spec => []ToolInv
<1>1. ToolInv /\ [Next]_vars => ToolInv'
  BY TypeStep, SlotsStep, QuietStep, ApprovalStep, ToldStep, StutterInv DEF ToolInv
<1> QED BY InitInv, <1>1, PTL DEF Spec

-----------------------------------------------------------------------------
(* The theorems *)

\* Every variable keeps its type and the loops of the recovery and of the
\* subagents keep their limits (MaxRetries, maxToolIter, LLMMaxErrors).
THEOREM TypeCorrect == Spec => []TypeOK
<1>1. ToolInv => TypeOK BY DEF ToolInv
<1> QED BY <1>1, Invariance, PTL

\* No tool of an interactive turn runs without the user's approval of this very
\* request (executeTool, RequestApproval, Respond).
THEOREM ApprovalPrecedesRun == Spec => []ApprovedBeforeRun
<1>1. ToolInv => ApprovedBeforeRun BY DEF ToolInv
<1> QED BY <1>1, Invariance, PTL

\* The shared semaphore of the executor neither leaks slots nor exceeds its size.
THEOREM SlotsAreConserved == Spec => []SlotsConserved
<1>1. ToolInv => SlotsConserved BY DEF ToolInv
<1> QED BY <1>1, Invariance, PTL

\* The Approver's map holds exactly the requests somebody waits for.
THEOREM PendingIsExact == Spec => []PendingIsWaiting
<1>1. ToolInv => PendingIsWaiting BY DEF ToolInv
<1> QED BY <1>1, Invariance, PTL

\* When the batch of a turn is over, the stored results are true of every call.
THEOREM ResultsAreComplete == Spec => []ResultsComplete
<1>1. ToolInv => ResultsComplete
  BY TurnBatchFacts DEF ToolInv, Told, ResultsComplete
<1> QED BY <1>1, Invariance, PTL

\* The recovery loop never repeats a call that succeeded.
THEOREM SuccessIsKept == Spec => SuccessKept
<1> DEFINE Kept == \A c \in Calls : BatchOf(c) \in TurnBatches /\ toolResult[c] = "ok" =>
                     cpc'[c] = "done" /\ toolResult'[c] = "ok"
<1>1. ASSUME ToolInv, Next PROVE Kept
  <2> USE DEF ToolInv
  <2> SUFFICES ASSUME NEW c \in Calls, BatchOf(c) \in TurnBatches, toolResult[c] = "ok"
               PROVE  cpc'[c] = "done" /\ toolResult'[c] = "ok"
    OBVIOUS
  <2>0. /\ BatchOf(c) \in Batches /\ c \in Members(BatchOf(c))
        /\ cpc[c] = "done" /\ outcome[c] = "ok" /\ bpc[BatchOf(c)] # "idle"
    BY <1>1, BatchFacts DEF Told
  <2> DEFINE Same == cpc'[c] = cpc[c] /\ toolResult'[c] = toolResult[c]
  <2>1. ASSUME NEW x \in Calls, cpc[x] # "done", Finishes(x) PROVE Same
    BY <2>0, <2>1 DEF Finishes, Return, TypeOK
  <2>2. ASSUME NEW b \in Batches, RunBatch(b) PROVE Same
    BY <1>1, <2>0, <2>2, MemberFacts DEF RunBatch, StartBatch
  <2>3. ASSUME NEW b \in Batches, SubturnChat(b) PROVE Same
    <3>0. bpc[b] = "chat" /\ b \notin TurnBatches
      BY <1>1, <2>3, SubturnKinds DEF Told
    <3>1. CASE SubEnds(b) /\ Nested(b)
      BY <1>1, <2>1, <3>0, <3>1, HostFacts DEF SubEnds, HostRuns
    <3>2. CASE SubEnds(b) /\ ~Nested(b) BY <3>2 DEF SubEnds, results
    <3>3. CASE SubStarts(b) BY <3>0, <3>3, MemberFacts DEF SubStarts, StartBatch
    <3>4. CASE SubErrs(b) BY <3>4 DEF SubErrs, results
    <3> QED BY <2>3, <3>1, <3>2, <3>3, <3>4, SubturnKinds
  <2>4. ASSUME NEW b \in Batches, Recover(b) PROVE Same
    <3>1. /\ UNCHANGED toolResult
          /\ \/ UNCHANGED cpc
             \/ /\ outcome[CallsOf[b][cursor[b]]] = "transient"
                /\ cpc' = [cpc EXCEPT ![CallsOf[b][cursor[b]]] = "slot"]
      BY <2>4 DEF Recover, results
    <3> QED BY <1>1, <2>0, <3>1 DEF TypeOK
  <2>5. ASSUME NEW b \in Batches,
               BeginSubturn(b) \/ Collect(b) \/ Retried(b) \/ FinishBatch(b) \/ Cancel(b)
        PROVE Same
    BY <2>5 DEF BeginSubturn, Collect, Retried, FinishBatch, Cancel, results
  <2>6. ASSUME NEW x \in Calls, AcquireSlot(x) \/ GiveUpSlot(x) \/ Register(x) PROVE Same
    BY <1>1, <2>0, <2>6 DEF AcquireSlot, GiveUpSlot, Register, TypeOK, results
  <2>7. ASSUME NEW x \in Calls, Start(x) \/ Decided(x) PROVE Same
    <3>1. CASE Deny(x) BY <2>1, <2>7, <3>1, DenyFinishes DEF Start, Decided
    <3>2. CASE ~Deny(x) BY <1>1, <2>0, <2>7, <3>2 DEF Start, Decided, TypeOK, results
    <3> QED BY <3>1, <3>2
  <2>8. ASSUME NEW x \in Calls, Execute(x) PROVE Same
    BY <2>1, <2>8, ExecuteFinishes DEF Execute
  <2>9. ASSUME NEW x \in Calls, Expire(x) PROVE Same
    BY <2>9 DEF Expire, results
  <2>10. ASSUME NEW x \in Calls, NEW n, NEW v, Respond(x, n, v) PROVE Same
    BY <2>10 DEF Respond, results
  <2>11. ASSUME NEW r \in responding, Deliver(r) PROVE Same
    BY <2>11 DEF Deliver, results
  <2>12. Same
    BY <1>1, <2>2, <2>3, <2>4, <2>5, <2>6, <2>7, <2>8, <2>9, <2>10, <2>11
       DEF Next, BatchStep, CallStep
  <2> QED BY <2>0, <2>12
<1>2. ToolInv /\ [Next]_vars => [Kept]_vars
  BY <1>1
<1> QED BY <1>2, Invariance, PTL DEF Spec, SuccessKept
=============================================================================
