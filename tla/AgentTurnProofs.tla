--------------------------- MODULE AgentTurnProofs ---------------------------
(***************************************************************************)
(* Theorems about AgentTurn, for any sessions, turns, limits and number of *)
(* crashes and notifications.  The inductive invariant is TypeOK, lock     *)
(* ownership, and what a turn knows about the conversation while it        *)
(* compacts it.  On it rest, in this order: what leaves a conversation,    *)
(* where a prompt and an answer are (Durable), the refinement of           *)
(* SessionLog, the pairing of the history a turn works on (HistoryPaired), *)
(* and how far a prompt is from the end of its conversation (HasPrompt).   *)
(***************************************************************************)
EXTENDS AgentTurn, SequenceTheorems, TLAPS

\* The invariant of SessionLog and the lemmas about the operators of Transcript, for
\* the conversation that AgentTurn implements.
Log == INSTANCE SessionLogProofs WITH
  KeepRecent <- CompactionKeepRecent,
  Stamps     <- 0 .. MaxToolIter + MaxNotifies,
  owner      <- Owner,
  open       <- OpenCalls,
  retired    <- Retired

\* A slice of a conversation that lies inside it.
LEMMA SliceProperties ==
  ASSUME NEW S, NEW q \in Seq(S), NEW a \in Nat, NEW b \in Nat,
         a >= 1, b <= Len(q), a <= b + 1
  PROVE  /\ SubSeq(q, a, b) \in Seq(S)
         /\ Len(SubSeq(q, a, b)) = b - a + 1
         /\ \A i \in 1 .. b - a + 1 : SubSeq(q, a, b)[i] = q[a + i - 1]
BY Log!SliceProperties

\* A suffix of a conversation has its newest messages.
LEMMA SuffixProperties ==
  ASSUME NEW S, NEW q \in Seq(S), NEW n \in Nat
  PROVE  /\ Suffix(q, n) \in Seq(S)
         /\ Len(Suffix(q, n)) \in Nat
         /\ Len(Suffix(q, n)) = IF n >= Len(q) THEN Len(q) ELSE n
         /\ \A i \in 1 .. Len(Suffix(q, n)) :
              Suffix(q, n)[i] = q[Len(q) - Len(Suffix(q, n)) + i]
BY Log!SuffixProperties DEF Log!Suffix, Suffix

\* A cut leaves what is in front of it and moves the rest down.
LEMMA CutProperties ==
  ASSUME NEW S, NEW q \in Seq(S), NEW k \in Nat, NEW n \in Nat, k + n <= Len(q)
  PROVE  /\ Cut(q, k, n) \in Seq(S)
         /\ Len(Cut(q, k, n)) = Len(q) - n
         /\ \A i \in 1 .. Len(q) - n :
              Cut(q, k, n)[i] = IF i <= k THEN q[i] ELSE q[i + n]
<1> DEFINE r == Cut(q, k, n)
           x == Log!Cut(q, k, n)
<1>1. x = r
  BY DEF Log!Cut, Cut
<1>2. /\ x \in Seq(S)
      /\ Len(x) = Len(q) - n
      /\ \A i \in 1 .. Len(q) - n : x[i] = IF i <= k THEN q[i] ELSE q[i + n]
  BY Log!CutProperties
<1> HIDE DEF r, x
<1>3. /\ r \in Seq(S)
      /\ Len(r) = Len(q) - n
      /\ \A i \in 1 .. Len(q) - n : r[i] = IF i <= k THEN q[i] ELSE q[i + n]
  BY <1>1, <1>2
<1> QED BY <1>3 DEF r

LEMMA CutLength ==
  ASSUME NEW S, NEW q \in Seq(S), NEW k \in Nat, NEW n \in Nat, k + n <= Len(q)
  PROVE  Len(Cut(q, k, n)) = Len(q) - n
BY CutProperties

\* An insertion moves what is behind it up.
LEMMA InsertProperties ==
  ASSUME NEW S, NEW q \in Seq(S), NEW m \in S, NEW p \in 1 .. Len(q) + 1
  PROVE  /\ InsertAt(q, p, m) \in Seq(S)
         /\ Len(InsertAt(q, p, m)) = Len(q) + 1
         /\ \A i \in 1 .. Len(q) + 1 :
              InsertAt(q, p, m)[i] =
                IF i < p THEN q[i] ELSE IF i = p THEN m ELSE q[i - 1]
<1> DEFINE r == InsertAt(q, p, m)
           x == Log!InsertAt(q, p, m)
<1>1. x = r
  BY DEF Log!InsertAt, InsertAt
<1>2. /\ x \in Seq(S)
      /\ Len(x) = Len(q) + 1
      /\ \A i \in 1 .. Len(q) + 1 : x[i] = IF i < p THEN q[i] ELSE IF i = p THEN m ELSE q[i - 1]
  BY Log!InsertProperties
<1> HIDE DEF r, x
<1>3. /\ r \in Seq(S)
      /\ Len(r) = Len(q) + 1
      /\ \A i \in 1 .. Len(q) + 1 : r[i] = IF i < p THEN q[i] ELSE IF i = p THEN m ELSE q[i - 1]
  BY <1>1, <1>2
<1> QED BY <1>3 DEF r

\* A turn that was called runs in a session.
SessionKnown == \A t \in Turns : pc[t] # "idle" => session[t] \in Sessions

\* Between its steps a compaction knows where the messages are that it works on:
\* it has counted no more than there are; the messages it is about to delete are
\* where it read them, with enough newer ones behind them; and it has passed over
\* older ones only in a session that is marked for it.
Knows(t) ==
  LET l == log[session[t]]
      n == Len(oldMessages[t])
  IN /\ pc[t] = "compact" => counted[t] <= Len(l)
     /\ pc[t] = "delete" =>
          /\ n >= 1 /\ skipped[t] + n + CompactionKeepRecent <= Len(l)
          /\ \A i \in 1 .. n : l[skipped[t] + i] = oldMessages[t][i]
     /\ pc[t] = "summary" =>
          /\ skipped[t] <= Len(l)
          /\ skipped[t] > 0 => session[t] \in raced
CompactionKnows == \A t \in Turns : Knows(t)

\* Unless the session is marked, a summary is the first message, and a turn that
\* is about to insert one has removed it.
HasNoSummary(t) ==
  pc[t] = "summary" /\ session[t] \notin raced =>
    \A i \in 1 .. Len(log[session[t]]) : log[session[t]][i].kind # "summary"
SummaryFirst ==
  /\ \A s \in Sessions : s \notin raced => SummaryAtHead(log[s])
  /\ \A t \in Turns : HasNoSummary(t)

Base == TypeOK /\ SessionKnown /\ LockOwnership
IInv == Base /\ CompactionKnows /\ SummaryFirst

\* A message made by Msg is a message with the fields it was given.
LEMMA MsgType ==
  ASSUME NEW k \in Kinds, NEW t \in Turns \cup {NoTurn}, NEW i \in Nat
  PROVE  /\ Msg(k, t, i) \in Message
         /\ Msg(k, t, i).kind = k /\ Msg(k, t, i).turn = t /\ Msg(k, t, i).iter = i
BY DEF Msg, Message

\* The state of the program with no turn started satisfies the invariant.
LEMMA InitIInv == Init => IInv
<1> USE TurnAssumption, LimitAssumption
<1>1. Init => TypeOK
  BY EmptySeq DEF Init, TypeOK, Outside, Critical, Ended
<1>2. Init => SessionKnown /\ LockOwnership /\ CompactionKnows
  BY DEF Init, SessionKnown, LockOwnership, CompactionKnows, Knows, Critical
<1>3. Init => SummaryFirst
  BY EmptySeq DEF Init, SummaryFirst, HasNoSummary, SummaryAtHead
<1> QED BY <1>1, <1>2, <1>3 DEF IInv, Base

\* Appending to one conversation, and counting one iteration, respect the types.
LEMMA AppendType ==
  ASSUME NEW l \in [Sessions -> Seq(Message)], NEW s \in Sessions, NEW m \in Message
  PROVE  [l EXCEPT ![s] = Append(@, m)] \in [Sessions -> Seq(Message)]
<1>1. Append(l[s], m) \in Seq(Message)
  BY AppendProperties
<1> QED BY <1>1

LEMMA IncrementType ==
  ASSUME NEW f \in [Turns -> 0 .. MaxToolIter - 1], NEW t \in Turns, f[t] + 1 < MaxToolIter
  PROVE  [f EXCEPT ![t] = @ + 1] \in [Turns -> 0 .. MaxToolIter - 1]
<1>1. f[t] + 1 \in 0 .. MaxToolIter - 1
  BY LimitAssumption
<1> QED BY <1>1

\* Types are preserved by every step.
LEMMA TypeStep ==
  ASSUME TypeOK, SessionKnown, CompactionKnows, [Next]_vars
  PROVE  TypeOK'
<1> USE DEF At, Goto
<1>a. /\ log \in [Sessions -> Seq(Message)] /\ oldMessages \in [Turns -> Seq(Message)]
      /\ history \in [Turns -> Seq(Message)]
      /\ dropped \subseteq Message
      /\ counted \in [Turns -> Nat] /\ skipped \in [Turns -> Nat] /\ raced \subseteq Sessions
  BY DEF TypeOK
<1>b. /\ channel \in [Sessions -> Adapters \cup {Webchat, NoRow}]
      /\ lock \in [Sessions -> Turns \cup {NoTurn}]
      /\ session \in [Turns -> Sessions \cup {NoSession}]
      /\ via \in [Turns -> Adapters \cup {Webchat, NoRow}]
      /\ cancelled \in [Turns -> BOOLEAN]
  BY DEF TypeOK
<1>c. /\ iteration \in [Turns -> 0 .. MaxToolIter - 1]
      /\ llmErrors \in [Turns -> 0 .. LLMMaxErrors]
      /\ verificationAttempts \in [Turns -> 0 .. VerifyMaxAttempts]
      /\ crashes \in 0 .. MaxCrashes /\ notifies \in 0 .. MaxNotifies
  BY DEF TypeOK
<1>d. pc \in [Turns -> Outside \cup Critical \cup Ended]
  BY DEF TypeOK
<1>e. terminal \in [Turns -> {"none", "done", "exhausted", "error"}]
  BY DEF TypeOK
<1>f. \A t \in Turns : pc[t] # "idle" => session[t] \in Sessions
  BY DEF SessionKnown
<1>g. \A t \in Turns : iteration[t] \in Nat
  BY <1>c, LimitAssumption
<1>1. ASSUME NEW t \in Turns, NEW s \in Sessions, CallDirect(t, s)
      PROVE  TypeOK'
  <2>1. pc' \in [Turns -> Outside \cup Critical \cup Ended]
    BY <1>1, <1>d DEF CallDirect, Outside, Critical, Ended
  <2>2. /\ session' \in [Turns -> Sessions \cup {NoSession}]
        /\ via' \in [Turns -> Adapters \cup {Webchat, NoRow}]
    BY <1>1, <1>b DEF CallDirect
  <2> QED BY <1>1, <2>1, <2>2 DEF TypeOK, CallDirect, store, loop, caller, compaction, bounds
<1>2. ASSUME NEW t \in Turns, NEW s \in Sessions, NEW a \in Adapters, HandleMessage(t, s, a)
      PROVE  TypeOK'
  <2>1. pc' \in [Turns -> Outside \cup Critical \cup Ended]
    BY <1>2, <1>d DEF HandleMessage, Outside, Critical, Ended
  <2>2. /\ session' \in [Turns -> Sessions \cup {NoSession}]
        /\ via' \in [Turns -> Adapters \cup {Webchat, NoRow}]
    BY <1>2, <1>b DEF HandleMessage
  <2> QED BY <1>2, <2>1, <2>2 DEF TypeOK, HandleMessage, store, loop, caller, compaction, bounds
<1>3. ASSUME NEW t \in Turns, NEW s \in Sessions, RunAndDeliver(t, s)
      PROVE  TypeOK'
  <2>1. pc' \in [Turns -> Outside \cup Critical \cup Ended]
    BY <1>3, <1>d DEF RunAndDeliver, Outside, Critical, Ended
  <2>2. /\ session' \in [Turns -> Sessions \cup {NoSession}]
        /\ via' \in [Turns -> Adapters \cup {Webchat, NoRow}]
    BY <1>3, <1>b DEF RunAndDeliver
  <2> QED BY <1>3, <2>1, <2>2 DEF TypeOK, RunAndDeliver, store, loop, caller, compaction, bounds
<1>4. ASSUME NEW t \in Turns, Cancel(t)
      PROVE  TypeOK'
  <2>1. cancelled' \in [Turns -> BOOLEAN]
    BY <1>4, <1>b DEF Cancel
  <2> QED BY <1>4, <2>1 DEF TypeOK, Cancel, store, loop, caller, compaction, bounds
<1>5. ASSUME NEW t \in Turns, EnsureSession(t)
      PROVE  TypeOK'
  <2>1. pc' \in [Turns -> Outside \cup Critical \cup Ended]
    BY <1>5, <1>d DEF EnsureSession, GetSession, CreateSession, Outside, Critical, Ended
  <2>2. channel' \in [Sessions -> Adapters \cup {Webchat, NoRow}]
    BY <1>5, <1>b DEF EnsureSession, GetSession, CreateSession
  <2> QED BY <1>5, <2>1, <2>2 DEF TypeOK, EnsureSession, store, loop, caller, compaction, bounds
<1>6. ASSUME NEW t \in Turns, ResolveSession(t)
      PROVE  TypeOK'
  <2>1. pc' \in [Turns -> Outside \cup Critical \cup Ended]
    BY <1>6, <1>d DEF ResolveSession, GetSession, CreateSession, Outside, Critical, Ended
  <2>2. channel' \in [Sessions -> Adapters \cup {Webchat, NoRow}]
    BY <1>6, <1>b DEF ResolveSession, GetSession, CreateSession
  <2> QED BY <1>6, <2>1, <2>2 DEF TypeOK, ResolveSession, store, loop, caller, compaction, bounds
<1>7. ASSUME NEW t \in Turns, LockSession(t)
      PROVE  TypeOK'
  <2>1. pc' \in [Turns -> Outside \cup Critical \cup Ended]
    BY <1>7, <1>d DEF LockSession, Outside, Critical, Ended
  <2>2. lock' \in [Sessions -> Turns \cup {NoTurn}]
    BY <1>7, <1>b DEF LockSession
  <2> QED BY <1>7, <2>1, <2>2 DEF TypeOK, LockSession, store, loop, caller, compaction, bounds
<1>8. ASSUME NEW t \in Turns, PersistUser(t)
      PROVE  TypeOK'
  <2>1. session[t] \in Sessions
    BY <1>8, <1>f DEF PersistUser
  <2>2. Msg("user", t, 0) \in Message
    BY <1>g, MsgType DEF Kinds
  <2>3. log' \in [Sessions -> Seq(Message)]
    <3>1. [log EXCEPT ![session[t]] = Append(@, Msg("user", t, 0))] \in [Sessions -> Seq(Message)]
      BY <1>a, <2>1, <2>2, AppendType
    <3>2. log' = log \/ log' = [log EXCEPT ![session[t]] = Append(@, Msg("user", t, 0))]
      BY <1>8 DEF PersistUser, Append2Log
    <3> QED BY <1>a, <3>1, <3>2
  <2>4. pc' \in [Turns -> Outside \cup Critical \cup Ended]
    BY <1>8, <1>d DEF PersistUser, Outside, Critical, Ended
  <2>5. lock' \in [Sessions -> Turns \cup {NoTurn}]
    BY <1>8, <1>b, <2>1 DEF PersistUser
  <2> QED BY <1>8, <2>3, <2>4, <2>5 DEF TypeOK, PersistUser, store, loop, caller, compaction, bounds
<1>9. ASSUME NEW t \in Turns, CountMessages(t)
      PROVE  TypeOK'
  <2>1. Len(log[session[t]]) \in Nat
    BY <1>9, <1>a, <1>f, LenProperties DEF CountMessages
  <2>2. counted' \in [Turns -> Nat]
    BY <1>9, <1>a, <2>1 DEF CountMessages
  <2>3. pc' \in [Turns -> Outside \cup Critical \cup Ended]
    BY <1>9, <1>d DEF CountMessages, Finish, Outside, Critical, Ended
  <2>4. terminal' \in [Turns -> {"none", "done", "exhausted", "error"}]
    BY <1>9, <1>e DEF CountMessages, Finish
  <2> QED BY <1>9, <2>2, <2>3, <2>4 DEF TypeOK, CountMessages, store, loop, caller, compaction, bounds
<1>25. ASSUME NEW t \in Turns, SelectOld(t)
      PROVE  TypeOK'
  <2> DEFINE m == Suffix(log[session[t]], counted[t])
             n == Len(m) - CompactionKeepRecent
  <2>1. /\ m \in Seq(Message) /\ Len(m) \in Nat /\ Len(log[session[t]]) - Len(m) \in Nat
    <3>1. log[session[t]] \in Seq(Message) /\ counted[t] \in Nat /\ Len(log[session[t]]) \in Nat
      BY <1>25, <1>a, <1>f, LenProperties DEF SelectOld
    <3>2. /\ m \in Seq(Message) /\ Len(m) \in Nat
          /\ Len(m) = IF counted[t] >= Len(log[session[t]]) THEN Len(log[session[t]]) ELSE counted[t]
      BY <3>1, SuffixProperties
    <3> QED BY <3>1, <3>2
  <2>2. ASSUME n > 0
        PROVE  SubSeq(m, 1, n) \in Seq(Message)
    <3>1. 1 \in Nat /\ n \in Nat /\ 1 >= 1 /\ n <= Len(m) /\ 1 <= n + 1
      BY <2>1, <2>2, LimitAssumption
    <3> HIDE DEF m, n
    <3> QED BY <2>1, <3>1, SliceProperties
  <2>3. \/ oldMessages' = oldMessages /\ skipped' = skipped
        \/ /\ n > 0 /\ oldMessages' = [oldMessages EXCEPT ![t] = SubSeq(m, 1, n)]
           /\ skipped' = [skipped EXCEPT ![t] = Len(log[session[t]]) - Len(m)]
    BY <1>25 DEF SelectOld
  <2>4. pc' \in [Turns -> Outside \cup Critical \cup Ended]
    BY <1>25, <1>d DEF SelectOld, Outside, Critical, Ended
  <2> HIDE DEF m, n
  <2>5. oldMessages' \in [Turns -> Seq(Message)] /\ skipped' \in [Turns -> Nat]
    BY <1>a, <2>1, <2>2, <2>3
  <2> QED BY <1>25, <2>4, <2>5 DEF TypeOK, SelectOld, store, loop, caller, compaction, bounds
<1>10. ASSUME NEW t \in Turns, DeleteOld(t)
      PROVE  TypeOK'
  <2> DEFINE s == session[t]
             k == skipped[t]
             n == Len(oldMessages[t])
  <2>1. /\ s \in Sessions /\ log[s] \in Seq(Message) /\ Len(log[s]) \in Nat
        /\ k \in Nat /\ n \in Nat /\ pc[t] = "delete"
    BY <1>10, <1>a, <1>f, LenProperties DEF DeleteOld
  <2>2. ToSet(oldMessages[t]) \subseteq Message
    BY <1>a, ElementOfSeq, LenProperties DEF ToSet
  <2>3. k + n <= Len(log[s])
    BY <2>1, LimitAssumption DEF CompactionKnows, Knows
  <2>4. \/ log' = log /\ dropped' = dropped /\ raced' = raced
        \/ /\ log' = [log EXCEPT ![s] = Cut(log[s], k, n)]
           /\ dropped' = dropped \cup ToSet(oldMessages[t])
           /\ raced' = IF k > 0 THEN raced \cup {s} ELSE raced
    BY <1>10 DEF DeleteOld
  <2>5. pc' \in [Turns -> Outside \cup Critical \cup Ended]
    BY <1>10, <1>d DEF DeleteOld, Outside, Critical, Ended
  <2> HIDE DEF s, k, n
  <2>6. Cut(log[s], k, n) \in Seq(Message)
    BY <2>1, <2>3, CutProperties
  <2>7. log' \in [Sessions -> Seq(Message)]
    BY <1>a, <2>1, <2>4, <2>6
  <2>8. dropped' \subseteq Message /\ raced' \subseteq Sessions
    BY <1>a, <2>1, <2>2, <2>4
  <2> QED BY <1>10, <2>5, <2>7, <2>8 DEF TypeOK, DeleteOld, store, loop, caller, compaction, bounds
<1>11. ASSUME NEW t \in Turns, InsertSummary(t)
      PROVE  TypeOK'
  <2> DEFINE s == session[t]
             m == Msg("summary", t, 0)
  <2>1. s \in Sessions /\ log[s] \in Seq(Message) /\ Len(log[s]) \in Nat /\ pc[t] = "summary"
    BY <1>11, <1>a, <1>f, LenProperties DEF InsertSummary
  <2>2. m \in Message
    BY <1>g, MsgType DEF Kinds
  <2>4. skipped[t] \in Nat /\ skipped[t] <= Len(log[s])
    BY <1>a, <2>1 DEF CompactionKnows, Knows
  <2>5. \/ log' = log
        \/ \E p \in 1 .. skipped[t] + 1 : log' = [log EXCEPT ![s] = InsertAt(log[s], p, m)]
    BY <1>11 DEF InsertSummary
  <2>6. pc' \in [Turns -> Outside \cup Critical \cup Ended]
    BY <1>11, <1>d DEF InsertSummary, Outside, Critical, Ended
  <2>7. \A p \in 1 .. skipped[t] + 1 : InsertAt(log[s], p, m) \in Seq(Message)
    <3> DEFINE l == log[s]
               M == Message
    <3> SUFFICES ASSUME NEW p \in 1 .. skipped[t] + 1
                 PROVE  InsertAt(l, p, m) \in Seq(M)
      OBVIOUS
    <3>1. l \in Seq(M) /\ m \in M /\ p \in 1 .. Len(l) + 1
      BY <2>1, <2>2, <2>4
    <3> HIDE DEF l, m, M
    <3> QED BY <3>1, InsertProperties
  <2> HIDE DEF s, m
  <2>8. log' \in [Sessions -> Seq(Message)]
    BY <1>a, <2>1, <2>5, <2>7
  <2> QED BY <1>11, <2>6, <2>8 DEF TypeOK, InsertSummary, store, loop, caller, compaction, bounds
<1>12. ASSUME NEW t \in Turns, LoadHistory(t)
      PROVE  TypeOK'
  <2>1. Suffix(log[session[t]], RecentMessagesLimit) \in Seq(Message)
    BY <1>12, <1>a, <1>f, SuffixProperties, LimitAssumption DEF LoadHistory
  <2>2. history' \in [Turns -> Seq(Message)]
    BY <1>12, <1>a, <2>1 DEF LoadHistory
  <2>3. pc' \in [Turns -> Outside \cup Critical \cup Ended]
    BY <1>12, <1>d DEF LoadHistory, Finish, Outside, Critical, Ended
  <2>4. terminal' \in [Turns -> {"none", "done", "exhausted", "error"}]
    BY <1>12, <1>e DEF LoadHistory, Finish
  <2> QED BY <1>12, <2>2, <2>3, <2>4 DEF TypeOK, LoadHistory, store, loop, caller, compaction, bounds
<1>13. ASSUME NEW t \in Turns, Chat(t)
      PROVE  TypeOK'
  <2>1. iteration' \in [Turns -> 0 .. MaxToolIter - 1]
    <3>1. iteration' = iteration \/ (iteration[t] + 1 < MaxToolIter /\ iteration' = [iteration EXCEPT ![t] = @ + 1])
      BY <1>13 DEF Chat, NextIteration
    <3> QED BY <1>c, <3>1, IncrementType
  <2>2. llmErrors' \in [Turns -> 0 .. LLMMaxErrors]
    <3>1. \/ llmErrors' = llmErrors \/ llmErrors' = [llmErrors EXCEPT ![t] = 0]
          \/ llmErrors[t] + 1 <= LLMMaxErrors /\ llmErrors' = [llmErrors EXCEPT ![t] = @ + 1]
      BY <1>13, <1>c, LimitAssumption DEF Chat
    <3>2. llmErrors[t] \in Nat
      BY <1>c
    <3>3. 0 \in 0 .. LLMMaxErrors
      BY LimitAssumption
    <3> QED BY <1>c, <3>1, <3>2, <3>3
  <2>3. pc' \in [Turns -> Outside \cup Critical \cup Ended]
    BY <1>13, <1>d DEF Chat, Finish, NextIteration, Outside, Critical, Ended
  <2>4. terminal' \in [Turns -> {"none", "done", "exhausted", "error"}]
    BY <1>13, <1>e DEF Chat, Finish
  <2> QED BY <1>13, <2>1, <2>2, <2>3, <2>4 DEF TypeOK, Chat, store, loop, caller, compaction, bounds
<1>14. ASSUME NEW t \in Turns, PersistAnswer(t)
      PROVE  TypeOK'
  <2>1. session[t] \in Sessions
    BY <1>14, <1>f DEF PersistAnswer
  <2>2. Msg("text", t, iteration[t]) \in Message
    BY <1>g, MsgType DEF Kinds
  <2>3. log' \in [Sessions -> Seq(Message)]
    <3>1. [log EXCEPT ![session[t]] = Append(@, Msg("text", t, iteration[t]))] \in [Sessions -> Seq(Message)]
      BY <1>a, <2>1, <2>2, AppendType
    <3>2. log' = log \/ log' = [log EXCEPT ![session[t]] = Append(@, Msg("text", t, iteration[t]))]
      BY <1>14 DEF PersistAnswer, Append2Log
    <3> QED BY <1>a, <3>1, <3>2
  <2>4. pc' \in [Turns -> Outside \cup Critical \cup Ended]
    BY <1>14, <1>d DEF PersistAnswer, Finish, Outside, Critical, Ended
  <2>5. terminal' \in [Turns -> {"none", "done", "exhausted", "error"}]
    BY <1>14, <1>e DEF PersistAnswer, Finish
  <2> QED BY <1>14, <2>3, <2>4, <2>5 DEF TypeOK, PersistAnswer, store, loop, caller, compaction, bounds
<1>15. ASSUME NEW t \in Turns, TouchSession(t)
      PROVE  TypeOK'
  <2>1. pc' \in [Turns -> Outside \cup Critical \cup Ended]
    BY <1>15, <1>d DEF TouchSession, Finish, Outside, Critical, Ended
  <2>2. terminal' \in [Turns -> {"none", "done", "exhausted", "error"}]
    BY <1>15, <1>e DEF TouchSession, Finish
  <2> QED BY <1>15, <2>1, <2>2 DEF TypeOK, TouchSession, store, loop, caller, compaction, bounds
<1>16. ASSUME NEW t \in Turns, Verify(t)
      PROVE  TypeOK'
  <2>1. iteration' \in [Turns -> 0 .. MaxToolIter - 1]
    <3>1. iteration' = iteration \/ (iteration[t] + 1 < MaxToolIter /\ iteration' = [iteration EXCEPT ![t] = @ + 1])
      BY <1>16 DEF Verify, NextIteration
    <3> QED BY <1>c, <3>1, IncrementType
  <2>2. verificationAttempts' \in [Turns -> 0 .. VerifyMaxAttempts]
    BY <1>16, <1>c, LimitAssumption DEF Verify
  <2>3. pc' \in [Turns -> Outside \cup Critical \cup Ended]
    BY <1>16, <1>d DEF Verify, Finish, NextIteration, Outside, Critical, Ended
  <2>4. terminal' \in [Turns -> {"none", "done", "exhausted", "error"}]
    BY <1>16, <1>e DEF Verify, Finish
  <2> QED BY <1>16, <2>1, <2>2, <2>3, <2>4 DEF TypeOK, Verify, store, loop, caller, compaction, bounds
<1>17. ASSUME NEW t \in Turns, PersistCalls(t)
      PROVE  TypeOK'
  <2>1. session[t] \in Sessions
    BY <1>17, <1>f DEF PersistCalls
  <2>2. Msg("calls", t, iteration[t]) \in Message
    BY <1>g, MsgType DEF Kinds
  <2>3. log' \in [Sessions -> Seq(Message)]
    <3>1. [log EXCEPT ![session[t]] = Append(@, Msg("calls", t, iteration[t]))] \in [Sessions -> Seq(Message)]
      BY <1>a, <2>1, <2>2, AppendType
    <3>2. log' = log \/ log' = [log EXCEPT ![session[t]] = Append(@, Msg("calls", t, iteration[t]))]
      BY <1>17 DEF PersistCalls, Append2Log
    <3> QED BY <1>a, <3>1, <3>2
  <2>4. pc' \in [Turns -> Outside \cup Critical \cup Ended]
    BY <1>17, <1>d DEF PersistCalls, Finish, Outside, Critical, Ended
  <2>5. terminal' \in [Turns -> {"none", "done", "exhausted", "error"}]
    BY <1>17, <1>e DEF PersistCalls, Finish
  <2> QED BY <1>17, <2>3, <2>4, <2>5 DEF TypeOK, PersistCalls, store, loop, caller, compaction, bounds
<1>18. ASSUME NEW t \in Turns, RunTools(t)
      PROVE  TypeOK'
  <2>1. pc' \in [Turns -> Outside \cup Critical \cup Ended]
    BY <1>18, <1>d DEF RunTools, Outside, Critical, Ended
  <2> QED BY <1>18, <2>1 DEF TypeOK, RunTools, store, loop, caller, compaction, bounds
<1>19. ASSUME NEW t \in Turns, PersistResults(t)
      PROVE  TypeOK'
  <2>1. session[t] \in Sessions
    BY <1>19, <1>f DEF PersistResults
  <2>2. Msg("results", t, iteration[t]) \in Message
    BY <1>g, MsgType DEF Kinds
  <2>3. Msg("calls", t, iteration[t]) \in Message
    BY <1>g, MsgType DEF Kinds
  <2>4. history[t] \o <<Msg("calls", t, iteration[t]), Msg("results", t, iteration[t])>>
          \in Seq(Message)
    BY <1>a, <2>2, <2>3, ConcatProperties
  <2>5. log' \in [Sessions -> Seq(Message)]
    <3>1. [log EXCEPT ![session[t]] = Append(@, Msg("results", t, iteration[t]))] \in [Sessions -> Seq(Message)]
      BY <1>a, <2>1, <2>2, AppendType
    <3>2. log' = log \/ log' = [log EXCEPT ![session[t]] = Append(@, Msg("results", t, iteration[t]))]
      BY <1>19 DEF PersistResults, Append2Log
    <3> QED BY <1>a, <3>1, <3>2
  <2>6. history' \in [Turns -> Seq(Message)]
    BY <1>19, <1>a, <2>4 DEF PersistResults
  <2>7. iteration' \in [Turns -> 0 .. MaxToolIter - 1]
    <3>1. iteration' = iteration \/ (iteration[t] + 1 < MaxToolIter /\ iteration' = [iteration EXCEPT ![t] = @ + 1])
      BY <1>19 DEF PersistResults, NextIteration
    <3> QED BY <1>c, <3>1, IncrementType
  <2>8. pc' \in [Turns -> Outside \cup Critical \cup Ended]
    BY <1>19, <1>d DEF PersistResults, Finish, NextIteration, Outside, Critical, Ended
  <2>9. terminal' \in [Turns -> {"none", "done", "exhausted", "error"}]
    BY <1>19, <1>e DEF PersistResults, Finish
  <2> QED BY <1>19, <2>5, <2>6, <2>7, <2>8, <2>9 DEF TypeOK, PersistResults, store, loop, caller, compaction, bounds
<1>20. ASSUME NEW t \in Turns, ReportExhausted(t)
      PROVE  TypeOK'
  <2>1. pc' \in [Turns -> Outside \cup Critical \cup Ended]
    BY <1>20, <1>d DEF ReportExhausted, Finish, Outside, Critical, Ended
  <2>2. terminal' \in [Turns -> {"none", "done", "exhausted", "error"}]
    BY <1>20, <1>e DEF ReportExhausted, Finish
  <2> QED BY <1>20, <2>1, <2>2 DEF TypeOK, ReportExhausted, store, loop, caller, compaction, bounds
<1>21. ASSUME NEW t \in Turns, Unlock(t)
      PROVE  TypeOK'
  <2>1. pc' \in [Turns -> Outside \cup Critical \cup Ended]
    BY <1>21, <1>d DEF Unlock, Outside, Critical, Ended
  <2>2. lock' \in [Sessions -> Turns \cup {NoTurn}]
    BY <1>21, <1>b DEF Unlock
  <2> QED BY <1>21, <2>1, <2>2 DEF TypeOK, Unlock, store, loop, caller, compaction, bounds
<1>22. ASSUME NEW s \in Sessions, SendToSession(s)
      PROVE  TypeOK'
  <2>1. Msg("notify", NoTurn, notifies) \in Message
    <3>1. notifies \in Nat
      BY <1>c, LimitAssumption
    <3> QED BY <3>1, MsgType DEF Kinds
  <2>2. log' \in [Sessions -> Seq(Message)]
    BY <1>22, <1>a, <2>1, AppendType DEF SendToSession, Append2Log
  <2>3. notifies' \in 0 .. MaxNotifies
    BY <1>22, <1>c, LimitAssumption DEF SendToSession
  <2> QED BY <1>22, <2>2, <2>3 DEF TypeOK, SendToSession, store, loop, caller, compaction, bounds
<1>23. ASSUME Crash
      PROVE  TypeOK'
  <2>1. pc' \in [Turns -> Outside \cup Critical \cup Ended]
    BY <1>23, <1>d DEF Crash, Outside, Critical, Ended
  <2>2. lock' \in [Sessions -> Turns \cup {NoTurn}]
    BY <1>23, <1>b DEF Crash
  <2>3. crashes' \in 0 .. MaxCrashes
    BY <1>23, <1>c, LimitAssumption DEF Crash
  <2> QED BY <1>23, <2>1, <2>2, <2>3 DEF TypeOK, Crash, store, loop, caller, compaction, bounds
<1>24. CASE UNCHANGED vars
  BY <1>24 DEF TypeOK, vars, store, loop, caller, compaction, bounds
<1> QED
  BY <1>1, <1>2, <1>3, <1>4, <1>5, <1>6, <1>7, <1>8, <1>9, <1>10, <1>11, <1>12, <1>13, <1>14, <1>15, <1>16, <1>17, <1>18, <1>19, <1>20, <1>21, <1>22, <1>23, <1>24, <1>25 DEF Next, TurnStep

-----------------------------------------------------------------------------
(* The lock.  Seen from it, a turn does one of five things. *)

Called(t, s) ==
  /\ pc[t] = "idle"
  /\ \E p \in (Outside \ {"idle"}) \cup Ended : pc' = [pc EXCEPT ![t] = p]
  /\ session' = [session EXCEPT ![t] = s] /\ lock' = lock
Waits(t) ==
  /\ pc[t] \in Outside \ {"idle"}
  /\ \E p \in (Outside \ {"idle"}) \cup Ended : pc' = [pc EXCEPT ![t] = p]
  /\ session' = session /\ lock' = lock
Acquires(t) ==
  /\ pc[t] = "lock" /\ lock[session[t]] = NoTurn
  /\ pc' = [pc EXCEPT ![t] = "append"] /\ lock' = [lock EXCEPT ![session[t]] = t]
  /\ session' = session
Inside(t) ==
  /\ pc[t] \in Critical
  /\ \E p \in Critical \ {"append"} : pc' = [pc EXCEPT ![t] = p]
  /\ session' = session /\ lock' = lock
Releases(t) ==
  /\ pc[t] \in Critical
  /\ \E p \in Ended : pc' = [pc EXCEPT ![t] = p]
  /\ lock' = [lock EXCEPT ![session[t]] = NoTurn] /\ session' = session

\* Every step is one of these, a crash, or leaves the lock and the program
\* counters alone.
LEMMA StepKinds ==
  ASSUME [Next]_vars
  PROVE  \/ \E t \in Turns : Waits(t) \/ Acquires(t) \/ Inside(t) \/ Releases(t)
         \/ \E t \in Turns, s \in Sessions : Called(t, s)
         \/ Crash
         \/ UNCHANGED <<pc, session, lock>>
<1> USE DEF At, Goto, caller
<1>1. ASSUME NEW t \in Turns, NEW s \in Sessions, CallDirect(t, s)
      PROVE  Called(t, s)
  BY <1>1 DEF CallDirect, Called, Outside, Critical, Ended
<1>2. ASSUME NEW t \in Turns, NEW s \in Sessions, NEW a \in Adapters, HandleMessage(t, s, a)
      PROVE  Called(t, s)
  BY <1>2 DEF HandleMessage, Called, Outside, Critical, Ended
<1>3. ASSUME NEW t \in Turns, NEW s \in Sessions, RunAndDeliver(t, s)
      PROVE  Called(t, s)
  BY <1>3 DEF RunAndDeliver, Called, Outside, Critical, Ended
<1>4. ASSUME NEW t \in Turns, Cancel(t)
      PROVE  UNCHANGED <<pc, session, lock>>
  BY <1>4 DEF Cancel
<1>5. ASSUME NEW t \in Turns, EnsureSession(t)
      PROVE  Waits(t)
  BY <1>5 DEF EnsureSession, GetSession, CreateSession, Waits, Outside, Critical, Ended
<1>6. ASSUME NEW t \in Turns, ResolveSession(t)
      PROVE  Waits(t)
  BY <1>6 DEF ResolveSession, GetSession, CreateSession, Waits, Outside, Critical, Ended
<1>7. ASSUME NEW t \in Turns, LockSession(t)
      PROVE  Acquires(t)
  BY <1>7 DEF LockSession, Acquires, Outside, Critical, Ended
<1>8. ASSUME NEW t \in Turns, PersistUser(t)
      PROVE  Inside(t) \/ Releases(t)
  BY <1>8 DEF PersistUser, Inside, Releases, Outside, Critical, Ended
<1>9. ASSUME NEW t \in Turns, CountMessages(t)
      PROVE  Inside(t)
  BY <1>9 DEF CountMessages, Finish, Inside, Outside, Critical, Ended
<1>24. ASSUME NEW t \in Turns, SelectOld(t)
      PROVE  Inside(t)
  BY <1>24 DEF SelectOld, Inside, Outside, Critical, Ended
<1>10. ASSUME NEW t \in Turns, DeleteOld(t)
      PROVE  Inside(t)
  BY <1>10 DEF DeleteOld, Inside, Outside, Critical, Ended
<1>11. ASSUME NEW t \in Turns, InsertSummary(t)
      PROVE  Inside(t)
  BY <1>11 DEF InsertSummary, Inside, Outside, Critical, Ended
<1>12. ASSUME NEW t \in Turns, LoadHistory(t)
      PROVE  Inside(t)
  BY <1>12 DEF LoadHistory, Finish, Inside, Outside, Critical, Ended
<1>13. ASSUME NEW t \in Turns, Chat(t)
      PROVE  Inside(t)
  BY <1>13 DEF Chat, Finish, NextIteration, Inside, Outside, Critical, Ended
<1>14. ASSUME NEW t \in Turns, PersistAnswer(t)
      PROVE  Inside(t)
  BY <1>14 DEF PersistAnswer, Finish, Inside, Outside, Critical, Ended
<1>15. ASSUME NEW t \in Turns, TouchSession(t)
      PROVE  Inside(t)
  BY <1>15 DEF TouchSession, Finish, Inside, Outside, Critical, Ended
<1>16. ASSUME NEW t \in Turns, Verify(t)
      PROVE  Inside(t)
  BY <1>16 DEF Verify, Finish, NextIteration, Inside, Outside, Critical, Ended
<1>17. ASSUME NEW t \in Turns, PersistCalls(t)
      PROVE  Inside(t)
  BY <1>17 DEF PersistCalls, Finish, Inside, Outside, Critical, Ended
<1>18. ASSUME NEW t \in Turns, RunTools(t)
      PROVE  Inside(t)
  BY <1>18 DEF RunTools, Inside, Outside, Critical, Ended
<1>19. ASSUME NEW t \in Turns, PersistResults(t)
      PROVE  Inside(t)
  BY <1>19 DEF PersistResults, Finish, NextIteration, Inside, Outside, Critical, Ended
<1>20. ASSUME NEW t \in Turns, ReportExhausted(t)
      PROVE  Inside(t)
  BY <1>20 DEF ReportExhausted, Finish, Inside, Outside, Critical, Ended
<1>21. ASSUME NEW t \in Turns, Unlock(t)
      PROVE  Releases(t)
  BY <1>21 DEF Unlock, Releases, Outside, Critical, Ended
<1>22. ASSUME NEW s \in Sessions, SendToSession(s)
      PROVE  UNCHANGED <<pc, session, lock>>
  BY <1>22 DEF SendToSession
<1>23. CASE UNCHANGED vars
  BY <1>23 DEF vars
<1> QED
  BY <1>1, <1>2, <1>3, <1>4, <1>5, <1>6, <1>7, <1>8, <1>9, <1>10, <1>11, <1>12, <1>13, <1>14, <1>15, <1>16, <1>17, <1>18, <1>19, <1>20, <1>21, <1>22, <1>23, <1>24 DEF Next, TurnStep

\* The sets of program counters do not overlap.
LEMMA ControlDisjoint ==
  /\ \A p \in Critical : p \notin Outside /\ p \notin Ended
  /\ \A p \in Ended : p \notin Outside /\ p # "idle"
  /\ "lock" \in Outside /\ "idle" \in Outside /\ "append" \in Critical
BY DEF Outside, Critical, Ended

\* Lock ownership is preserved by every step.
LEMMA BaseStep ==
  ASSUME Base, CompactionKnows, [Next]_vars
  PROVE  Base'
<1>1. TypeOK'
  BY TypeStep DEF Base
<1>2. /\ pc \in [Turns -> Outside \cup Critical \cup Ended]
      /\ session \in [Turns -> Sessions \cup {NoSession}]
      /\ lock \in [Sessions -> Turns \cup {NoTurn}]
  BY DEF Base, TypeOK
<1>3. SessionKnown /\ LockOwnership
  BY DEF Base
<1> USE TurnAssumption, ControlDisjoint
<1>4. ASSUME NEW t \in Turns, NEW s \in Sessions, Called(t, s)
      PROVE  SessionKnown' /\ LockOwnership'
  BY <1>2, <1>3, <1>4 DEF Called, SessionKnown, LockOwnership
<1>5. ASSUME NEW t \in Turns, Waits(t)
      PROVE  SessionKnown' /\ LockOwnership'
  BY <1>2, <1>3, <1>5 DEF Waits, SessionKnown, LockOwnership
<1>6. ASSUME NEW t \in Turns, Acquires(t)
      PROVE  SessionKnown' /\ LockOwnership'
  BY <1>2, <1>3, <1>6 DEF Acquires, SessionKnown, LockOwnership
<1>7. ASSUME NEW t \in Turns, Inside(t)
      PROVE  SessionKnown' /\ LockOwnership'
  BY <1>2, <1>3, <1>7 DEF Inside, SessionKnown, LockOwnership
<1>8. ASSUME NEW t \in Turns, Releases(t)
      PROVE  SessionKnown' /\ LockOwnership'
  BY <1>2, <1>3, <1>8 DEF Releases, SessionKnown, LockOwnership
<1>9. CASE Crash
  <2>1. /\ session' = session /\ lock' = [s \in Sessions |-> NoTurn]
        /\ pc' = [t \in Turns |-> IF pc[t] \in {"idle"} \cup Ended THEN pc[t] ELSE "dead"]
    BY <1>9 DEF Crash, caller
  <2>2. \A t \in Turns : pc'[t] \notin Critical /\ (pc'[t] # "idle" => pc[t] # "idle")
    BY <1>2, <2>1 DEF Critical, Ended, Outside
  <2>3. SessionKnown'
    BY <1>3, <2>1, <2>2 DEF SessionKnown
  <2>4. LockOwnership'
    BY <2>1, <2>2 DEF LockOwnership
  <2> QED BY <1>1, <2>3, <2>4 DEF Base
<1>10. CASE UNCHANGED <<pc, session, lock>>
  <2>1. pc' = pc /\ session' = session /\ lock' = lock
    BY <1>10
  <2>2. SessionKnown'
    BY <1>3, <2>1 DEF SessionKnown
  <2>3. LockOwnership'
    BY <1>3, <2>1 DEF LockOwnership
  <2> QED BY <1>1, <2>2, <2>3 DEF Base
<1> QED BY <1>1, <1>4, <1>5, <1>6, <1>7, <1>8, <1>9, <1>10, StepKinds DEF Base

-----------------------------------------------------------------------------
(* Compaction. *)

\* A step that is not a step of CompactSession leaves the compactions of all turns
\* alone and at most appends a message.
Appends ==
  /\ \/ log' = log
     \/ \E s \in Sessions, m \in Message :
          m.kind # "summary" /\ log' = [log EXCEPT ![s] = Append(@, m)]
  /\ UNCHANGED <<raced, counted, skipped, oldMessages>>
  /\ \A u \in Turns : pc'[u] \in {"compact", "delete", "summary"} =>
       pc[u] = pc'[u] /\ session'[u] = session[u]

LEMMA OtherSteps ==
  ASSUME TypeOK, SessionKnown, [Next]_vars
  PROVE  \/ Appends
         \/ \E t \in Turns : CountMessages(t) \/ SelectOld(t) \/ DeleteOld(t) \/ InsertSummary(t)
<1> USE DEF At, Goto, store, caller, compaction
<1>a. pc \in [Turns -> Outside \cup Critical \cup Ended] /\ iteration \in [Turns -> 0 .. MaxToolIter - 1]
      /\ session \in [Turns -> Sessions \cup {NoSession}] /\ notifies \in 0 .. MaxNotifies
  BY DEF TypeOK
<1>b. \A t \in Turns : iteration[t] \in Nat
  BY <1>a, LimitAssumption
<1>c. \A t \in Turns : pc[t] # "idle" => session[t] \in Sessions
  BY DEF SessionKnown
<1>1. ASSUME NEW t \in Turns, NEW s \in Sessions, CallDirect(t, s)
      PROVE  Appends
  BY <1>1, <1>a DEF CallDirect, Appends
<1>2. ASSUME NEW t \in Turns, NEW s \in Sessions, NEW a \in Adapters, HandleMessage(t, s, a)
      PROVE  Appends
  BY <1>2, <1>a DEF HandleMessage, Appends
<1>3. ASSUME NEW t \in Turns, NEW s \in Sessions, RunAndDeliver(t, s)
      PROVE  Appends
  BY <1>3, <1>a DEF RunAndDeliver, Appends
<1>4. ASSUME NEW t \in Turns, Cancel(t)
      PROVE  Appends
  BY <1>4, <1>a DEF Cancel, Appends
<1>5. ASSUME NEW t \in Turns, EnsureSession(t)
      PROVE  Appends
  BY <1>5, <1>a DEF EnsureSession, GetSession, CreateSession, Appends
<1>6. ASSUME NEW t \in Turns, ResolveSession(t)
      PROVE  Appends
  BY <1>6, <1>a DEF ResolveSession, GetSession, CreateSession, Appends
<1>7. ASSUME NEW t \in Turns, LockSession(t)
      PROVE  Appends
  BY <1>7, <1>a DEF LockSession, Appends
<1>8. ASSUME NEW t \in Turns, LoadHistory(t)
      PROVE  Appends
  BY <1>8, <1>a DEF LoadHistory, Finish, Appends
<1>9. ASSUME NEW t \in Turns, Chat(t)
      PROVE  Appends
  BY <1>9, <1>a DEF Chat, Finish, NextIteration, Appends
<1>10. ASSUME NEW t \in Turns, TouchSession(t)
      PROVE  Appends
  BY <1>10, <1>a DEF TouchSession, Finish, Appends
<1>11. ASSUME NEW t \in Turns, Verify(t)
      PROVE  Appends
  BY <1>11, <1>a DEF Verify, Finish, NextIteration, Appends
<1>12. ASSUME NEW t \in Turns, RunTools(t)
      PROVE  Appends
  BY <1>12, <1>a DEF RunTools, Appends
<1>13. ASSUME NEW t \in Turns, ReportExhausted(t)
      PROVE  Appends
  BY <1>13, <1>a DEF ReportExhausted, Finish, Appends
<1>14. ASSUME NEW t \in Turns, Unlock(t)
      PROVE  Appends
  BY <1>14, <1>a DEF Unlock, Appends
<1>15. ASSUME NEW t \in Turns, PersistUser(t)
      PROVE  Appends
  <2>1. session[t] \in Sessions
    BY <1>15, <1>c DEF PersistUser
  <2>2. Msg("user", t, 0) \in Message /\ Msg("user", t, 0).kind # "summary"
    BY <1>b, MsgType DEF Kinds
  <2>3. log' = log \/ log' = [log EXCEPT ![session[t]] = Append(@, Msg("user", t, 0))]
    BY <1>15 DEF PersistUser, Append2Log
  <2>4. /\ UNCHANGED <<raced, counted, skipped, oldMessages>>
        /\ \A u \in Turns : pc'[u] \in {"compact", "delete", "summary"} =>
             pc[u] = pc'[u] /\ session'[u] = session[u]
    BY <1>15, <1>a DEF PersistUser
  <2> QED BY <2>1, <2>2, <2>3, <2>4 DEF Appends
<1>16. ASSUME NEW t \in Turns, PersistAnswer(t)
      PROVE  Appends
  <2>1. session[t] \in Sessions
    BY <1>16, <1>c DEF PersistAnswer
  <2>2. Msg("text", t, iteration[t]) \in Message /\ Msg("text", t, iteration[t]).kind # "summary"
    BY <1>b, MsgType DEF Kinds
  <2>3. log' = log \/ log' = [log EXCEPT ![session[t]] = Append(@, Msg("text", t, iteration[t]))]
    BY <1>16 DEF PersistAnswer, Append2Log
  <2>4. /\ UNCHANGED <<raced, counted, skipped, oldMessages>>
        /\ \A u \in Turns : pc'[u] \in {"compact", "delete", "summary"} =>
             pc[u] = pc'[u] /\ session'[u] = session[u]
    BY <1>16, <1>a DEF PersistAnswer, Finish
  <2> QED BY <2>1, <2>2, <2>3, <2>4 DEF Appends
<1>17. ASSUME NEW t \in Turns, PersistCalls(t)
      PROVE  Appends
  <2>1. session[t] \in Sessions
    BY <1>17, <1>c DEF PersistCalls
  <2>2. Msg("calls", t, iteration[t]) \in Message /\ Msg("calls", t, iteration[t]).kind # "summary"
    BY <1>b, MsgType DEF Kinds
  <2>3. log' = log \/ log' = [log EXCEPT ![session[t]] = Append(@, Msg("calls", t, iteration[t]))]
    BY <1>17 DEF PersistCalls, Append2Log
  <2>4. /\ UNCHANGED <<raced, counted, skipped, oldMessages>>
        /\ \A u \in Turns : pc'[u] \in {"compact", "delete", "summary"} =>
             pc[u] = pc'[u] /\ session'[u] = session[u]
    BY <1>17, <1>a DEF PersistCalls, Finish
  <2> QED BY <2>1, <2>2, <2>3, <2>4 DEF Appends
<1>18. ASSUME NEW t \in Turns, PersistResults(t)
      PROVE  Appends
  <2>1. session[t] \in Sessions
    BY <1>18, <1>c DEF PersistResults
  <2>2. Msg("results", t, iteration[t]) \in Message /\ Msg("results", t, iteration[t]).kind # "summary"
    BY <1>b, MsgType DEF Kinds
  <2>3. log' = log \/ log' = [log EXCEPT ![session[t]] = Append(@, Msg("results", t, iteration[t]))]
    BY <1>18 DEF PersistResults, Append2Log
  <2>4. /\ UNCHANGED <<raced, counted, skipped, oldMessages>>
        /\ \A u \in Turns : pc'[u] \in {"compact", "delete", "summary"} =>
             pc[u] = pc'[u] /\ session'[u] = session[u]
    BY <1>18, <1>a DEF PersistResults, Finish, NextIteration
  <2> QED BY <2>1, <2>2, <2>3, <2>4 DEF Appends
<1>19. ASSUME NEW s \in Sessions, SendToSession(s)
      PROVE  Appends
  <2>1. notifies \in Nat
    BY <1>a, LimitAssumption
  <2>2. Msg("notify", NoTurn, notifies) \in Message /\ Msg("notify", NoTurn, notifies).kind # "summary"
    BY <2>1, MsgType DEF Kinds
  <2> QED BY <1>19, <2>2 DEF SendToSession, Append2Log, Appends
<1>20. CASE Crash
  <2>1. log' = log /\ UNCHANGED <<raced, counted, skipped, oldMessages>> /\ session' = session
    BY <1>20 DEF Crash
  <2>2. \A u \in Turns : pc'[u] \in {"compact", "delete", "summary"} => pc[u] = pc'[u]
    BY <1>20, <1>a DEF Crash
  <2> QED BY <2>1, <2>2 DEF Appends
<1>21. CASE UNCHANGED vars
  BY <1>21 DEF vars, Appends
<1> QED
  BY <1>1, <1>2, <1>3, <1>4, <1>5, <1>6, <1>7, <1>8, <1>9, <1>10, <1>11, <1>12, <1>13, <1>14, <1>15, <1>16, <1>17, <1>18, <1>19, <1>20, <1>21 DEF Next, TurnStep

\* The compactions of other turns do not see a step of a turn that holds the lock
\* of its session.
LEMMA OthersKept ==
  ASSUME IInv, NEW t \in Turns, pc[t] \in Critical, session' = session,
         \A u \in Turns : u # t =>
           /\ pc'[u] = pc[u] /\ counted'[u] = counted[u] /\ skipped'[u] = skipped[u]
           /\ oldMessages'[u] = oldMessages[u],
         \A q \in Sessions : q # session[t] => log'[q] = log[q] /\ (q \in raced' <=> q \in raced)
  PROVE  /\ \A u \in Turns : u # t => Knows(u)' /\ HasNoSummary(u)'
         /\ \A q \in Sessions : q # session[t] /\ q \notin raced' => SummaryAtHead(log'[q])
<1>1. ASSUME NEW u \in Turns, u # t, pc[u] \in {"compact", "delete", "summary"}
      PROVE  session[u] \in Sessions /\ session[u] # session[t]
  BY <1>1 DEF IInv, Base, LockOwnership, Critical
<1>2. Knows(t) /\ \A u \in Turns : Knows(u) /\ HasNoSummary(u)
  BY DEF IInv, CompactionKnows, SummaryFirst
<1>3. ASSUME NEW u \in Turns, u # t
      PROVE  Knows(u)' /\ HasNoSummary(u)'
  <2>1. pc'[u] = pc[u] /\ session'[u] = session[u] /\ Knows(u) /\ HasNoSummary(u)
    BY <1>2, <1>3
  <2>2. CASE pc[u] \in {"compact", "delete", "summary"}
    <3>1. log'[session[u]] = log[session[u]] /\ (session[u] \in raced' <=> session[u] \in raced)
      BY <1>1, <1>3, <2>2
    <3> QED BY <1>3, <2>1, <3>1 DEF Knows, HasNoSummary
  <2>3. CASE pc[u] \notin {"compact", "delete", "summary"}
    BY <2>1, <2>3 DEF Knows, HasNoSummary
  <2> QED BY <2>2, <2>3
<1>4. ASSUME NEW q \in Sessions, q # session[t], q \notin raced'
      PROVE  SummaryAtHead(log'[q])
  BY <1>4 DEF IInv, SummaryFirst
<1> QED BY <1>3, <1>4

\* The knowledge of a compaction survives every step.
LEMMA CompactionStep ==
  ASSUME IInv, [Next]_vars
  PROVE  CompactionKnows' /\ SummaryFirst'
<1>a. /\ pc \in [Turns -> Outside \cup Critical \cup Ended] /\ log \in [Sessions -> Seq(Message)]
      /\ session \in [Turns -> Sessions \cup {NoSession}]
      /\ counted \in [Turns -> Nat] /\ skipped \in [Turns -> Nat]
      /\ oldMessages \in [Turns -> Seq(Message)]
  BY DEF IInv, Base, TypeOK
<1>b. \A t \in Turns : pc[t] # "idle" => session[t] \in Sessions
  BY DEF IInv, Base, SessionKnown
<1>c. \A s \in Sessions : Len(log[s]) \in Nat /\ \A i \in 1 .. Len(log[s]) : log[s][i] \in Message
  BY <1>a, LenProperties, ElementOfSeq
<1>d. \A t \in Turns : Len(oldMessages[t]) \in Nat
  BY <1>a, LenProperties
<1>e. \A t \in Turns : Knows(t) /\ HasNoSummary(t)
  BY DEF IInv, CompactionKnows, SummaryFirst
<1>f. \A s \in Sessions : s \notin raced => SummaryAtHead(log[s])
  BY DEF IInv, SummaryFirst
<1>1. CASE Appends
  <2> DEFINE Grown(s) ==
        /\ Len(log'[s]) \in Nat /\ Len(log'[s]) >= Len(log[s])
        /\ \A i \in 1 .. Len(log[s]) : log'[s][i] = log[s][i]
        /\ \A i \in Len(log[s]) + 1 .. Len(log'[s]) : log'[s][i].kind # "summary"
  <2>1. ASSUME NEW s \in Sessions
        PROVE  Grown(s)
    <3>1. CASE log' = log
      BY <1>c, <3>1
    <3>2. ASSUME NEW q \in Sessions, NEW m \in Message, m.kind # "summary",
                 log' = [log EXCEPT ![q] = Append(@, m)]
          PROVE  Grown(s)
      <4>1. CASE q = s
        <5>1. log'[s] = Append(log[s], m)
          BY <1>a, <3>2, <4>1
        <5>2. /\ Len(log'[s]) = Len(log[s]) + 1 /\ log'[s][Len(log[s]) + 1] = m
              /\ \A i \in 1 .. Len(log[s]) : log'[s][i] = log[s][i]
          BY <1>a, <5>1, AppendProperties
        <5> QED BY <1>c, <3>2, <5>2
      <4>2. CASE q # s
        BY <1>a, <1>c, <3>2, <4>2
      <4> QED BY <4>1, <4>2
    <3> QED BY <1>1, <3>1, <3>2 DEF Appends
  <2>2. /\ raced' = raced /\ counted' = counted /\ skipped' = skipped /\ oldMessages' = oldMessages
        /\ \A u \in Turns : pc'[u] \in {"compact", "delete", "summary"} =>
             pc[u] = pc'[u] /\ session'[u] = session[u] /\ session[u] \in Sessions
    BY <1>1, <1>b DEF Appends
  <2>3. ASSUME NEW t \in Turns
        PROVE  Knows(t)' /\ HasNoSummary(t)'
    <3>1. CASE pc'[t] = "compact"
      <4>1. pc[t] = "compact" /\ session'[t] = session[t] /\ session[t] \in Sessions
        BY <2>2, <3>1
      <4>2. counted[t] <= Len(log[session[t]])
        BY <1>e, <4>1 DEF Knows
      <4>3. counted'[t] <= Len(log'[session'[t]])
        BY <1>a, <1>c, <2>1, <2>2, <4>1, <4>2
      <4> QED BY <3>1, <4>3 DEF Knows, HasNoSummary
    <3>2. CASE pc'[t] = "delete"
      <4> DEFINE l == log[session[t]]
                 n == Len(oldMessages[t])
                 k == skipped[t]
                 x == log'[session[t]]
      <4>1. pc[t] = "delete" /\ session'[t] = session[t] /\ session[t] \in Sessions
        BY <2>2, <3>2
      <4>2. /\ n \in Nat /\ k \in Nat /\ n >= 1 /\ k + n + CompactionKeepRecent <= Len(l)
            /\ \A i \in 1 .. n : l[k + i] = oldMessages[t][i]
        BY <1>a, <1>d, <1>e, <4>1 DEF Knows
      <4>3. /\ Len(l) \in Nat /\ Len(x) \in Nat /\ Len(x) >= Len(l)
            /\ \A i \in 1 .. Len(l) : x[i] = l[i]
        BY <1>c, <2>1, <4>1
      <4>k. CompactionKeepRecent \in Nat
        BY LimitAssumption
      <4> HIDE DEF l, n, k, x
      <4>4. k + n + CompactionKeepRecent <= Len(x)
        BY <4>2, <4>3, <4>k
      <4>5. ASSUME NEW i \in 1 .. n
            PROVE  x[k + i] = oldMessages[t][i]
        <5>1. k + i \in 1 .. Len(l)
          BY <4>2, <4>3, <4>k
        <5>2. x[k + i] = l[k + i]
          BY <4>3, <5>1
        <5> QED BY <4>2, <5>2
      <4>6. /\ skipped'[t] = k /\ Len(oldMessages'[t]) = n /\ oldMessages'[t] = oldMessages[t]
        BY <2>2 DEF k, n
      <4>7. x = log'[session[t]]
        BY DEF x
      <4> QED BY <3>2, <4>1, <4>2, <4>4, <4>5, <4>6, <4>7 DEF Knows, HasNoSummary
    <3>3. CASE pc'[t] = "summary"
      <4>1. pc[t] = "summary" /\ session'[t] = session[t] /\ session[t] \in Sessions
        BY <2>2, <3>3
      <4>2. skipped[t] <= Len(log[session[t]]) /\ (skipped[t] > 0 => session[t] \in raced)
        BY <1>e, <4>1 DEF Knows
      <4>3. skipped'[t] <= Len(log'[session'[t]]) /\ (skipped'[t] > 0 => session'[t] \in raced')
        BY <1>a, <1>c, <2>1, <2>2, <4>1, <4>2
      <4>4. ASSUME session'[t] \notin raced', NEW i \in 1 .. Len(log'[session'[t]])
            PROVE  log'[session'[t]][i].kind # "summary"
        <5>1. \A j \in 1 .. Len(log[session[t]]) : log[session[t]][j].kind # "summary"
          BY <1>e, <2>2, <4>1, <4>4 DEF HasNoSummary
        <5>2. i \in 1 .. Len(log[session[t]]) \/ i \in Len(log[session[t]]) + 1 .. Len(log'[session[t]])
          BY <1>c, <2>1, <4>1
        <5> QED BY <2>1, <4>1, <5>1, <5>2
      <4> QED BY <3>3, <4>3, <4>4 DEF Knows, HasNoSummary
    <3>4. CASE pc'[t] \notin {"compact", "delete", "summary"}
      BY <3>4 DEF Knows, HasNoSummary
    <3> QED BY <3>1, <3>2, <3>3, <3>4
  <2>4. ASSUME NEW s \in Sessions, s \notin raced'
        PROVE  SummaryAtHead(log'[s])
    <3>1. \A i \in 1 .. Len(log[s]) : log[s][i].kind = "summary" => i = 1
      BY <1>f, <2>2, <2>4 DEF SummaryAtHead
    <3>2. \A i \in 1 .. Len(log'[s]) : i \in 1 .. Len(log[s]) \/ i \in Len(log[s]) + 1 .. Len(log'[s])
      BY <1>c, <2>1
    <3> QED BY <2>1, <3>1, <3>2 DEF SummaryAtHead
  <2> QED BY <2>3, <2>4 DEF CompactionKnows, SummaryFirst
<1>2. ASSUME NEW t \in Turns, CountMessages(t)
      PROVE  CompactionKnows' /\ SummaryFirst'
  <2>1. /\ pc[t] = "count" /\ session' = session /\ log' = log /\ raced' = raced
        /\ session[t] \in Sessions
        /\ \A u \in Turns : u # t => /\ pc'[u] = pc[u] /\ counted'[u] = counted[u]
                                    /\ skipped'[u] = skipped[u] /\ oldMessages'[u] = oldMessages[u]
        /\ pc'[t] \notin {"delete", "summary"}
        /\ pc'[t] = "compact" => counted'[t] = Len(log[session[t]])
    BY <1>2, <1>a, <1>b DEF CountMessages, Finish, At, Goto, store, caller
  <2>2. /\ \A u \in Turns : u # t => Knows(u)' /\ HasNoSummary(u)'
    BY <2>1, OthersKept DEF Critical
  <2>3. Knows(t)' /\ HasNoSummary(t)'
    BY <1>c, <2>1 DEF Knows, HasNoSummary
  <2> QED BY <1>f, <2>1, <2>2, <2>3 DEF CompactionKnows, SummaryFirst
<1>3. ASSUME NEW t \in Turns, SelectOld(t)
      PROVE  CompactionKnows' /\ SummaryFirst'
  <2> DEFINE l == log[session[t]]
             m == Suffix(l, counted[t])
             k == Len(l) - Len(m)
             n == Len(m) - CompactionKeepRecent
  <2>1. /\ pc[t] = "compact" /\ session' = session /\ log' = log /\ raced' = raced
        /\ session[t] \in Sessions
        /\ \A u \in Turns : u # t => /\ pc'[u] = pc[u] /\ counted'[u] = counted[u]
                                    /\ skipped'[u] = skipped[u] /\ oldMessages'[u] = oldMessages[u]
        /\ pc'[t] \notin {"compact", "summary"}
        /\ pc'[t] = "delete" => n > 0 /\ skipped'[t] = k /\ oldMessages'[t] = SubSeq(m, 1, n)
    BY <1>3, <1>a, <1>b DEF SelectOld, At, Goto, store, caller
  <2>2. /\ \A u \in Turns : u # t => Knows(u)' /\ HasNoSummary(u)'
    BY <2>1, OthersKept DEF Critical
  <2>3. /\ l \in Seq(Message) /\ Len(l) \in Nat /\ counted[t] \in Nat
    BY <1>a, <1>c, <2>1
  <2>4. /\ m \in Seq(Message) /\ Len(m) \in Nat /\ Len(m) <= Len(l)
        /\ \A i \in 1 .. Len(m) : m[i] = l[k + i]
    <3> DEFINE M == Message
               c == counted[t]
    <3>1. l \in Seq(M) /\ c \in Nat
      BY <2>3
    <3> HIDE DEF l, M, c
    <3>2. /\ Suffix(l, c) \in Seq(M) /\ Len(Suffix(l, c)) \in Nat
          /\ Len(Suffix(l, c)) = IF c >= Len(l) THEN Len(l) ELSE c
          /\ \A i \in 1 .. Len(Suffix(l, c)) : Suffix(l, c)[i] = l[Len(l) - Len(Suffix(l, c)) + i]
      BY <3>1, SuffixProperties
    <3> QED BY <2>3, <3>2 DEF M, c
  <2>5. ASSUME pc'[t] = "delete"
        PROVE  /\ Len(SubSeq(m, 1, n)) = n /\ n >= 1 /\ k + n + CompactionKeepRecent <= Len(l)
               /\ \A i \in 1 .. n : l[k + i] = SubSeq(m, 1, n)[i]
    <3>1. 1 \in Nat /\ n \in Nat /\ 1 >= 1 /\ n <= Len(m) /\ 1 <= n + 1 /\ n >= 1
          /\ k + n + CompactionKeepRecent <= Len(l)
      BY <2>1, <2>3, <2>4, <2>5, LimitAssumption
    <3> HIDE DEF l, m, n, k
    <3>2. /\ Len(SubSeq(m, 1, n)) = n - 1 + 1
          /\ \A i \in 1 .. n - 1 + 1 : SubSeq(m, 1, n)[i] = m[1 + i - 1]
      BY <2>4, <3>1, SliceProperties
    <3>3. Len(SubSeq(m, 1, n)) = n /\ \A i \in 1 .. n : SubSeq(m, 1, n)[i] = m[i]
      BY <3>1, <3>2
    <3>4. \A i \in 1 .. n : i \in 1 .. Len(m)
      BY <2>4, <3>1
    <3> QED BY <2>4, <3>1, <3>3, <3>4
  <2>6. Knows(t)' /\ HasNoSummary(t)'
    <3>1. log'[session'[t]] = l
      BY <2>1
    <3> HIDE DEF l, m, n, k
    <3> QED BY <2>1, <2>5, <3>1 DEF Knows, HasNoSummary
  <2> QED BY <1>f, <2>1, <2>2, <2>6 DEF CompactionKnows, SummaryFirst
<1>4. ASSUME NEW t \in Turns, DeleteOld(t)
      PROVE  CompactionKnows' /\ SummaryFirst'
  <2> DEFINE s == session[t]
             l == log[s]
             k == skipped[t]
             n == Len(oldMessages[t])
  <2>1. /\ pc[t] = "delete" /\ session' = session /\ UNCHANGED <<counted, skipped, oldMessages>>
        /\ s \in Sessions
        /\ \A u \in Turns : u # t => pc'[u] = pc[u]
        /\ pc'[t] \in {"summary", "load"}
        /\ \A q \in Sessions : q # s => log'[q] = log[q] /\ (q \in raced' <=> q \in raced)
        /\ \/ log'[s] = l /\ raced' = raced /\ pc'[t] = "load"
           \/ /\ log'[s] = Cut(l, k, n) /\ pc'[t] = "summary"
              /\ raced' = IF k > 0 THEN raced \cup {s} ELSE raced
    BY <1>4, <1>a, <1>b DEF DeleteOld, At, Goto, store, caller, compaction
  <2>2. /\ \A u \in Turns : u # t => Knows(u)' /\ HasNoSummary(u)'
        /\ \A q \in Sessions : q # s /\ q \notin raced' => SummaryAtHead(log'[q])
    BY <2>1, OthersKept DEF Critical
  <2>3. /\ l \in Seq(Message) /\ Len(l) \in Nat /\ k \in Nat /\ n \in Nat /\ n >= 1 /\ k + n <= Len(l)
    BY <1>a, <1>c, <1>d, <1>e, <2>1, LimitAssumption DEF Knows
  <2>4. /\ Len(Cut(l, k, n)) = Len(l) - n
        /\ \A i \in 1 .. Len(l) - n : Cut(l, k, n)[i] = IF i <= k THEN l[i] ELSE l[i + n]
    <3> DEFINE M == Message
    <3>1. l \in Seq(M) /\ k \in Nat /\ n \in Nat /\ k + n <= Len(l)
      BY <2>3
    <3> HIDE DEF l, M, k, n
    <3> QED BY <3>1, CutProperties
  <2>5. s \notin raced => \A i \in 1 .. Len(l) : l[i].kind = "summary" => i = 1
    BY <1>f, <2>1 DEF SummaryAtHead
  <2>6. ASSUME pc'[t] = "summary", s \notin raced', NEW i \in 1 .. Len(log'[s])
        PROVE  log'[s][i].kind # "summary"
    <3>1. s \notin raced /\ k = 0 /\ log'[s] = Cut(l, k, n)
      BY <2>1, <2>3, <2>6
    <3>2. i \in 1 .. Len(l) - n
      BY <2>4, <2>6, <3>1
    <3> HIDE DEF l, n, k, s
    <3>3. i + n \in 1 .. Len(l) /\ i + n # 1 /\ ~ i <= k
      BY <2>3, <3>1, <3>2
    <3>4. log'[s][i] = l[i + n]
      BY <2>4, <3>1, <3>2, <3>3
    <3> QED BY <2>5, <3>1, <3>3, <3>4
  <2>7. HasNoSummary(t)'
    BY <2>1, <2>6 DEF HasNoSummary
  <2>8. Knows(t)'
    <3>1. pc'[t] = "summary" => k <= Len(log'[s]) /\ (k > 0 => s \in raced')
      <4>1. pc'[t] = "summary" =>
              log'[s] = Cut(l, k, n) /\ raced' = IF k > 0 THEN raced \cup {s} ELSE raced
        BY <2>1
      <4> HIDE DEF l, n, k, s
      <4>2. k <= Len(l) - n
        BY <2>3
      <4> QED BY <2>4, <4>1, <4>2
    <3>2. /\ pc'[t] # "compact" /\ pc'[t] # "delete"
          /\ skipped'[t] = k /\ log'[session'[t]] = log'[s] /\ session'[t] = s
      BY <2>1
    <3> HIDE DEF l, n, k, s
    <3> QED BY <3>1, <3>2 DEF Knows
  <2>9. s \notin raced' => SummaryAtHead(log'[s])
    <3>1. CASE pc'[t] = "load"
      BY <1>f, <2>1, <3>1
    <3>2. CASE pc'[t] = "summary"
      BY <2>6, <3>2 DEF SummaryAtHead
    <3> QED BY <2>1, <3>1, <3>2
  <2> QED BY <2>2, <2>7, <2>8, <2>9 DEF CompactionKnows, SummaryFirst
<1>5. ASSUME NEW t \in Turns, InsertSummary(t)
      PROVE  CompactionKnows' /\ SummaryFirst'
  <2> DEFINE s == session[t]
             l == log[s]
             m == Msg("summary", t, 0)
  <2>1. /\ pc[t] = "summary" /\ session' = session /\ UNCHANGED <<raced, counted, skipped, oldMessages>>
        /\ s \in Sessions
        /\ \A u \in Turns : u # t => pc'[u] = pc[u]
        /\ pc'[t] = "load"
        /\ \A q \in Sessions : q # s => log'[q] = log[q]
        /\ log'[s] = l \/ \E p \in 1 .. skipped[t] + 1 : log'[s] = InsertAt(l, p, m)
    BY <1>5, <1>a, <1>b DEF InsertSummary, At, Goto, store, caller, compaction
  <2>2. /\ \A u \in Turns : u # t => Knows(u)' /\ HasNoSummary(u)'
        /\ \A q \in Sessions : q # s /\ q \notin raced' => SummaryAtHead(log'[q])
    BY <2>1, OthersKept DEF Critical
  <2>3. Knows(t)' /\ HasNoSummary(t)'
    BY <2>1 DEF Knows, HasNoSummary
  <2>4. ASSUME s \notin raced'
        PROVE  SummaryAtHead(log'[s])
    <3>1. /\ s \notin raced /\ skipped[t] = 0 /\ l \in Seq(Message) /\ Len(l) \in Nat
          /\ \A i \in 1 .. Len(l) : l[i].kind # "summary"
      BY <1>a, <1>c, <1>e, <2>1, <2>4 DEF Knows, HasNoSummary
    <3>2. log'[s] = l \/ log'[s] = InsertAt(l, 1, m)
      BY <2>1, <3>1
    <3>3. m \in Message
      BY MsgType DEF Kinds
    <3>4. /\ Len(InsertAt(l, 1, m)) = Len(l) + 1
          /\ \A i \in 1 .. Len(l) + 1 :
               InsertAt(l, 1, m)[i] = IF i < 1 THEN l[i] ELSE IF i = 1 THEN m ELSE l[i - 1]
      <4> DEFINE M == Message
      <4>1. l \in Seq(M) /\ m \in M /\ 1 \in 1 .. Len(l) + 1
        BY <3>1, <3>3
      <4> HIDE DEF l, m, M
      <4> QED BY <4>1, InsertProperties
    <3> HIDE DEF l, m, s
    <3>5. ASSUME NEW i \in 1 .. Len(l) + 1, i # 1
          PROVE  InsertAt(l, 1, m)[i].kind # "summary"
      <4>1. i - 1 \in 1 .. Len(l) /\ ~ i < 1
        BY <3>1, <3>5
      <4>2. InsertAt(l, 1, m)[i] = l[i - 1]
        BY <3>4, <3>5, <4>1
      <4> QED BY <3>1, <4>1, <4>2
    <3> QED BY <3>1, <3>2, <3>4, <3>5 DEF SummaryAtHead
  <2> QED BY <2>2, <2>3, <2>4 DEF CompactionKnows, SummaryFirst
<1> QED BY <1>1, <1>2, <1>3, <1>4, <1>5, OtherSteps DEF IInv, Base

\* The inductive invariant holds throughout.
LEMMA Invariance == Spec => []IInv
<1>1. IInv /\ [Next]_vars => IInv'
  BY BaseStep, CompactionStep DEF IInv, Base
<1> QED BY <1>1, InitIInv, PTL DEF Spec

\* Type correctness of AgentTurn.
THEOREM TypeCorrect == Spec => []TypeOK
<1>1. IInv => TypeOK
  BY DEF IInv, Base
<1> QED BY <1>1, Invariance, PTL

\* The session lock is held by exactly the turns between mu.Lock() and
\* mu.Unlock(), and by one of them per session, whatever errors, cancellations
\* and crashes happen.
THEOREM LockIsOwned == Spec => []LockOwnership
<1>1. IInv => LockOwnership
  BY DEF IInv, Base
<1> QED BY <1>1, Invariance, PTL

-----------------------------------------------------------------------------
(* What a step does to one turn. *)

\* A turn whose message is stored, one that has not loaded its history, and one
\* that has.
Working == Critical \ {"append"}
Compacting == {"count", "compact", "delete", "summary", "load"}
Looping == {"chat", "answer", "touch", "verify", "calls", "tools", "results"}

\* Contexts stay cancelled; the terminal event is emitted on the way to Unlock, and
\* TurnDone only by a turn whose answer was verified; a turn gets to work by storing
\* its message, and to the verification of an answer by storing the answer; the
\* history is loaded on entry of the loop and grows by a pair of calls and results.
Moves(u) ==
  /\ session'[u] = session[u] \/ pc[u] = "idle"
  /\ cancelled[u] => cancelled'[u]
  /\ \/ terminal'[u] = terminal[u]
     \/ pc'[u] = "unlock" /\ terminal'[u] # "none" /\ (terminal'[u] = "done" => pc[u] = "verify")
  /\ pc'[u] = "unlock" => pc[u] = "unlock" \/ terminal'[u] # "none" \/ cancelled[u]
  /\ pc'[u] = "done" => pc[u] \in {"unlock", "done"}
  /\ pc[u] \in Ended => pc'[u] = pc[u]
  /\ pc[u] = "unlock" => pc'[u] \in {"unlock", "done", "dead"}
  /\ iteration'[u] = iteration[u] \/ (pc'[u] = "chat" /\ pc[u] \in Looping)
  /\ pc'[u] \in Working => \/ pc[u] \in Working
                           \/ /\ pc[u] = "append" /\ pc'[u] = "count"
                              /\ log' = [log EXCEPT ![session[u]] = Append(@, Msg("user", u, 0))]
  /\ pc'[u] = "touch" => \/ pc[u] = "touch"
                         \/ /\ pc[u] = "answer"
                            /\ log' = [log EXCEPT ![session[u]] = Append(@, Msg("text", u, iteration[u]))]
  /\ pc'[u] = "verify" => pc[u] \in {"touch", "verify"}
  /\ pc'[u] \in Compacting => pc[u] \in Compacting \cup {"append"}
  /\ \/ history'[u] = history[u] /\ (pc'[u] \in Looping => pc[u] \in Looping)
     \/ /\ pc[u] = "load" /\ ~cancelled[u]
        /\ history'[u] = Suffix(log[session[u]], RecentMessagesLimit)
     \/ /\ pc[u] = "results"
        /\ history'[u] = history[u] \o <<Msg("calls", u, iteration[u]), Msg("results", u, iteration[u])>>

LEMMA TurnMoves ==
  ASSUME TypeOK, [Next]_vars
  PROVE  \A u \in Turns : Moves(u)
<1> USE DEF At, Goto, store, caller, loop, Append2Log
<1>a. /\ pc \in [Turns -> Outside \cup Critical \cup Ended]
      /\ session \in [Turns -> Sessions \cup {NoSession}]
      /\ cancelled \in [Turns -> BOOLEAN]
      /\ terminal \in [Turns -> {"none", "done", "exhausted", "error"}]
      /\ iteration \in [Turns -> 0 .. MaxToolIter - 1]
      /\ history \in [Turns -> Seq(Message)]
  BY DEF TypeOK
<1>b. ASSUME NEW u \in Turns, pc'[u] = pc[u], session'[u] = session[u], cancelled'[u] = cancelled[u],
             terminal'[u] = terminal[u], iteration'[u] = iteration[u], history'[u] = history[u]
      PROVE  Moves(u)
  BY <1>b DEF Moves
\* A turn that takes a step leaves the other turns alone.
<1>c. ASSUME NEW t \in Turns, Moves(t), UNCHANGED session, UNCHANGED cancelled,
             \A u \in Turns : u # t =>
               /\ pc'[u] = pc[u] /\ terminal'[u] = terminal[u]
               /\ iteration'[u] = iteration[u] /\ history'[u] = history[u]
      PROVE  \A u \in Turns : Moves(u)
  BY <1>b, <1>c
<1>1. ASSUME NEW t \in Turns, NEW s \in Sessions,
             CallDirect(t, s) \/ RunAndDeliver(t, s) \/ \E a \in Adapters : HandleMessage(t, s, a)
      PROVE  \A u \in Turns : Moves(u)
  <2>1. /\ pc[t] = "idle" /\ pc'[t] \in {"resolve", "refused", "ensure"}
        /\ \A u \in Turns : u # t => pc'[u] = pc[u] /\ session'[u] = session[u]
        /\ UNCHANGED <<cancelled, terminal, iteration, history>>
    BY <1>1, <1>a DEF CallDirect, RunAndDeliver, HandleMessage
  <2>2. Moves(t)
    BY <2>1 DEF Moves, Working, Critical, Compacting, Looping, Ended
  <2> QED BY <1>b, <2>1, <2>2
<1>2. ASSUME NEW t \in Turns, Cancel(t)
      PROVE  \A u \in Turns : Moves(u)
  <2>1. /\ cancelled'[t] = TRUE /\ \A u \in Turns : u # t => cancelled'[u] = cancelled[u]
        /\ UNCHANGED <<pc, session, terminal, iteration, history>>
    BY <1>2, <1>a DEF Cancel
  <2>2. Moves(t)
    BY <2>1 DEF Moves
  <2> QED BY <1>b, <2>1, <2>2
<1>3. ASSUME NEW t \in Turns, EnsureSession(t) \/ ResolveSession(t)
      PROVE  \A u \in Turns : Moves(u)
  <2>1. /\ pc[t] \in Outside /\ pc'[t] \in {"resolve", "ensureCreate", "lock", "resolveCreate", "refused"}
        /\ \A u \in Turns : u # t => pc'[u] = pc[u]
        /\ UNCHANGED <<session, cancelled, terminal, iteration, history>>
    BY <1>3, <1>a DEF EnsureSession, ResolveSession, GetSession, CreateSession, Outside
  <2>2. Moves(t)
    BY <2>1 DEF Moves, Working, Critical, Compacting, Looping, Ended, Outside
  <2> QED BY <1>c, <2>1, <2>2
<1>4. ASSUME NEW t \in Turns, LockSession(t)
      PROVE  \A u \in Turns : Moves(u)
  <2>1. Moves(t)
    BY <1>4, <1>a DEF LockSession, Moves, Working, Critical, Compacting, Looping, Ended
  <2> QED BY <1>4, <1>a, <1>c, <2>1 DEF LockSession
<1>5. ASSUME NEW t \in Turns, PersistUser(t)
      PROVE  \A u \in Turns : Moves(u)
  <2>1. Moves(t)
    BY <1>5, <1>a DEF PersistUser, Moves, Working, Critical, Compacting, Looping, Ended
  <2> QED BY <1>5, <1>a, <1>c, <2>1 DEF PersistUser
<1>6. ASSUME NEW t \in Turns, CountMessages(t)
      PROVE  \A u \in Turns : Moves(u)
  <2>1. Moves(t)
    BY <1>6, <1>a DEF CountMessages, Finish, Moves, Working, Critical, Compacting, Looping, Ended
  <2> QED BY <1>6, <1>a, <1>c, <2>1 DEF CountMessages, Finish
<1>7. ASSUME NEW t \in Turns, SelectOld(t)
      PROVE  \A u \in Turns : Moves(u)
  <2>1. Moves(t)
    BY <1>7, <1>a DEF SelectOld, Moves, Working, Critical, Compacting, Looping, Ended
  <2> QED BY <1>7, <1>a, <1>c, <2>1 DEF SelectOld
<1>8. ASSUME NEW t \in Turns, DeleteOld(t)
      PROVE  \A u \in Turns : Moves(u)
  <2>1. Moves(t)
    BY <1>8, <1>a DEF DeleteOld, Moves, Working, Critical, Compacting, Looping, Ended
  <2> QED BY <1>8, <1>a, <1>c, <2>1 DEF DeleteOld
<1>9. ASSUME NEW t \in Turns, InsertSummary(t)
      PROVE  \A u \in Turns : Moves(u)
  <2>1. Moves(t)
    BY <1>9, <1>a DEF InsertSummary, Moves, Working, Critical, Compacting, Looping, Ended
  <2> QED BY <1>9, <1>a, <1>c, <2>1 DEF InsertSummary
<1>10. ASSUME NEW t \in Turns, LoadHistory(t)
      PROVE  \A u \in Turns : Moves(u)
  <2>1. Moves(t)
    BY <1>10, <1>a DEF LoadHistory, Finish, Moves, Working, Critical, Compacting, Looping, Ended
  <2> QED BY <1>10, <1>a, <1>c, <2>1 DEF LoadHistory, Finish
<1>11. ASSUME NEW t \in Turns, Chat(t)
      PROVE  \A u \in Turns : Moves(u)
  <2>1. Moves(t)
    BY <1>11, <1>a DEF Chat, Finish, NextIteration, Moves, Working, Critical, Compacting, Looping, Ended
  <2> QED BY <1>11, <1>a, <1>c, <2>1 DEF Chat, Finish, NextIteration
<1>12. ASSUME NEW t \in Turns, PersistAnswer(t)
      PROVE  \A u \in Turns : Moves(u)
  <2>1. Moves(t)
    BY <1>12, <1>a DEF PersistAnswer, Finish, Moves, Working, Critical, Compacting, Looping, Ended
  <2> QED BY <1>12, <1>a, <1>c, <2>1 DEF PersistAnswer, Finish
<1>13. ASSUME NEW t \in Turns, TouchSession(t)
      PROVE  \A u \in Turns : Moves(u)
  <2>1. Moves(t)
    BY <1>13, <1>a DEF TouchSession, Finish, Moves, Working, Critical, Compacting, Looping, Ended
  <2> QED BY <1>13, <1>a, <1>c, <2>1 DEF TouchSession, Finish
<1>14. ASSUME NEW t \in Turns, Verify(t)
      PROVE  \A u \in Turns : Moves(u)
  <2>1. Moves(t)
    BY <1>14, <1>a DEF Verify, Finish, NextIteration, Moves, Working, Critical, Compacting, Looping, Ended
  <2> QED BY <1>14, <1>a, <1>c, <2>1 DEF Verify, Finish, NextIteration
<1>15. ASSUME NEW t \in Turns, PersistCalls(t)
      PROVE  \A u \in Turns : Moves(u)
  <2>1. Moves(t)
    BY <1>15, <1>a DEF PersistCalls, Finish, Moves, Working, Critical, Compacting, Looping, Ended
  <2> QED BY <1>15, <1>a, <1>c, <2>1 DEF PersistCalls, Finish
<1>16. ASSUME NEW t \in Turns, RunTools(t)
      PROVE  \A u \in Turns : Moves(u)
  <2>1. Moves(t)
    BY <1>16, <1>a DEF RunTools, Moves, Working, Critical, Compacting, Looping, Ended
  <2> QED BY <1>16, <1>a, <1>c, <2>1 DEF RunTools
<1>17. ASSUME NEW t \in Turns, PersistResults(t)
      PROVE  \A u \in Turns : Moves(u)
  <2>1. Moves(t)
    BY <1>17, <1>a DEF PersistResults, Finish, NextIteration, Moves, Working, Critical, Compacting, Looping, Ended
  <2> QED BY <1>17, <1>a, <1>c, <2>1 DEF PersistResults, Finish, NextIteration
<1>18. ASSUME NEW t \in Turns, ReportExhausted(t)
      PROVE  \A u \in Turns : Moves(u)
  <2>1. Moves(t)
    BY <1>18, <1>a DEF ReportExhausted, Finish, Moves, Working, Critical, Compacting, Looping, Ended
  <2> QED BY <1>18, <1>a, <1>c, <2>1 DEF ReportExhausted, Finish
<1>19. ASSUME NEW t \in Turns, Unlock(t)
      PROVE  \A u \in Turns : Moves(u)
  <2>1. Moves(t)
    BY <1>19, <1>a DEF Unlock, Moves, Working, Critical, Compacting, Looping, Ended
  <2> QED BY <1>19, <1>a, <1>c, <2>1 DEF Unlock
<1>20. ASSUME NEW s \in Sessions, SendToSession(s)
      PROVE  \A u \in Turns : Moves(u)
  BY <1>20, <1>b DEF SendToSession
<1>21. CASE Crash
  <2>1. /\ UNCHANGED <<session, cancelled, terminal, iteration, history>>
        /\ \A u \in Turns : pc'[u] = pc[u] \/ (pc[u] \notin Ended /\ pc'[u] = "dead")
    BY <1>21, <1>a DEF Crash
  <2>2. ASSUME NEW u \in Turns, pc[u] \notin Ended, pc'[u] = "dead"
        PROVE  Moves(u)
    BY <2>1, <2>2 DEF Moves, Working, Critical, Compacting, Looping, Ended
  <2> QED BY <1>b, <2>1, <2>2
<1>22. CASE UNCHANGED vars
  BY <1>22, <1>b DEF vars
<1> QED
  BY <1>1, <1>2, <1>3, <1>4, <1>5, <1>6, <1>7, <1>8, <1>9, <1>10, <1>11, <1>12, <1>13, <1>14,
     <1>15, <1>16, <1>17, <1>18, <1>19, <1>20, <1>21, <1>22 DEF Next, TurnStep

-----------------------------------------------------------------------------
(* What becomes of a stored message. *)

\* Appending, inserting and cutting, as sets of messages.
LEMMA AppendSet ==
  ASSUME NEW S, NEW q \in Seq(S), NEW m \in S
  PROVE  ToSet(Append(q, m)) = ToSet(q) \cup {m}
<1>1. /\ Append(q, m) \in Seq(S) /\ Len(Append(q, m)) = Len(q) + 1 /\ Len(q) \in Nat
      /\ Append(q, m)[Len(q) + 1] = m
      /\ \A i \in 1 .. Len(q) : Append(q, m)[i] = q[i]
  BY AppendProperties, LenProperties
<1>2. DOMAIN q = 1 .. Len(q) /\ DOMAIN Append(q, m) = 1 .. Len(q) + 1
  BY <1>1, LenProperties
<1>3. \A i \in 1 .. Len(q) + 1 : i \in 1 .. Len(q) \/ i = Len(q) + 1
  BY <1>1
<1>4. \A i \in 1 .. Len(q) : i \in 1 .. Len(q) + 1
  BY <1>1
<1>5. Len(q) + 1 \in 1 .. Len(q) + 1
  BY <1>1
<1> QED BY <1>1, <1>2, <1>3, <1>4, <1>5 DEF ToSet

LEMMA InsertSet ==
  ASSUME NEW S, NEW q \in Seq(S), NEW m \in S, NEW p \in 1 .. Len(q) + 1
  PROVE  ToSet(q) \subseteq ToSet(InsertAt(q, p, m))
<1> DEFINE r == InsertAt(q, p, m)
<1>1. /\ r \in Seq(S) /\ Len(r) = Len(q) + 1
      /\ \A i \in 1 .. Len(q) + 1 : r[i] = IF i < p THEN q[i] ELSE IF i = p THEN m ELSE q[i - 1]
  BY InsertProperties
<1>2. DOMAIN q = 1 .. Len(q) /\ DOMAIN r = 1 .. Len(q) + 1 /\ Len(q) \in Nat
  BY <1>1, LenProperties
<1> HIDE DEF r
<1>3. ASSUME NEW i \in 1 .. Len(q)
      PROVE  \E j \in 1 .. Len(q) + 1 : r[j] = q[i]
  <2>1. CASE i < p
    BY <1>1, <1>2, <2>1
  <2>2. CASE ~ i < p
    <3>1. i + 1 \in 1 .. Len(q) + 1 /\ ~ i + 1 < p /\ i + 1 # p /\ (i + 1) - 1 = i
      BY <1>2, <2>2
    <3>2. r[i + 1] = q[(i + 1) - 1]
      BY <1>1, <3>1
    <3> QED BY <3>1, <3>2
  <2> QED BY <2>1, <2>2
<1>4. ToSet(q) \subseteq ToSet(r)
  BY <1>2, <1>3 DEF ToSet
<1> QED BY <1>4 DEF r

\* A cut loses the messages it cuts and nothing else, and none of the newest ones
\* if there are at least as many behind it.
LEMMA CutSet ==
  ASSUME NEW S, NEW q \in Seq(S), NEW k \in Nat, NEW n \in Nat, NEW keep \in Nat,
         k + n + keep <= Len(q)
  PROVE  /\ \A i \in 1 .. Len(q) : \/ i \in k + 1 .. k + n
                                   \/ q[i] \in ToSet(Cut(q, k, n))
         /\ ToSet(Suffix(q, keep)) \subseteq ToSet(Cut(q, k, n))
<1> DEFINE r == Cut(q, k, n)
           x == Suffix(q, keep)
<1>0. Len(q) \in Nat /\ k + n <= Len(q)
  BY LenProperties
<1>1. /\ r \in Seq(S) /\ Len(r) = Len(q) - n
      /\ \A i \in 1 .. Len(q) - n : r[i] = IF i <= k THEN q[i] ELSE q[i + n]
  BY <1>0, CutProperties
<1>2. /\ x \in Seq(S) /\ Len(x) \in Nat /\ Len(x) = IF keep >= Len(q) THEN Len(q) ELSE keep
      /\ \A i \in 1 .. Len(x) : x[i] = q[Len(q) - Len(x) + i]
  BY SuffixProperties
<1>3. DOMAIN r = 1 .. Len(q) - n /\ DOMAIN x = 1 .. Len(x)
  BY <1>1, <1>2, LenProperties
<1> HIDE DEF r, x
<1>4. ASSUME NEW i \in 1 .. Len(q), i \notin k + 1 .. k + n
      PROVE  q[i] \in ToSet(r)
  <2>1. CASE i <= k
    <3>1. i \in 1 .. Len(q) - n /\ r[i] = q[i]
      BY <1>0, <1>1, <2>1
    <3> QED BY <1>3, <3>1 DEF ToSet
  <2>2. CASE ~ i <= k
    <3>1. i - n \in 1 .. Len(q) - n /\ ~ i - n <= k /\ (i - n) + n = i
      BY <1>0, <1>4, <2>2
    <3>2. r[i - n] = q[(i - n) + n]
      BY <1>1, <3>1
    <3> QED BY <1>3, <3>1, <3>2 DEF ToSet
  <2> QED BY <2>1, <2>2
<1>5. ASSUME NEW i \in 1 .. Len(x)
      PROVE  x[i] \in ToSet(r)
  <2>1. Len(x) = keep
    BY <1>0, <1>2
  <2> DEFINE j == Len(q) - Len(x) + i
  <2>2. j \in 1 .. Len(q) /\ j \notin k + 1 .. k + n
    <3>1. i \in 1 .. keep /\ j = Len(q) - keep + i
      BY <2>1
    <3>2. j \in Int /\ j >= k + n + 1 /\ j <= Len(q)
      BY <1>0, <3>1
    <3> HIDE DEF j
    <3> QED BY <1>0, <3>2
  <2>3. x[i] = q[j]
    BY <1>2
  <2> HIDE DEF j
  <2>4. q[j] \in ToSet(r)
    BY <1>4, <2>2
  <2> QED BY <2>3, <2>4
<1>6. ToSet(x) \subseteq ToSet(r)
  BY <1>3, <1>5 DEF ToSet
<1> QED BY <1>4, <1>6 DEF r, x

\* A step takes messages out of a conversation only by the compaction of the turn
\* that holds its lock, hands them to the compaction, and leaves the newest ones.
LEMMA StoreSteps ==
  ASSUME IInv, [Next]_vars, NEW s \in Sessions
  PROVE  \/ ToSet(log[s]) \subseteq ToSet(log'[s]) /\ dropped \subseteq dropped'
         \/ /\ lock[s] # NoTurn /\ pc[lock[s]] = "delete"
            /\ ToSet(log[s]) \subseteq ToSet(log'[s]) \cup dropped' /\ dropped \subseteq dropped'
            /\ ToSet(Suffix(log[s], CompactionKeepRecent)) \subseteq ToSet(log'[s])
<1>a. /\ log \in [Sessions -> Seq(Message)] /\ session \in [Turns -> Sessions \cup {NoSession}]
      /\ oldMessages \in [Turns -> Seq(Message)] /\ skipped \in [Turns -> Nat]
      /\ lock \in [Sessions -> Turns \cup {NoTurn}]
  BY DEF IInv, Base, TypeOK
<1>b. SessionKnown /\ LockOwnership /\ CompactionKnows
  BY DEF IInv, Base
<1>c. log[s] \in Seq(Message) /\ Len(log[s]) \in Nat
  BY <1>a, LenProperties
<1>1. ASSUME NEW t \in Turns, DeleteOld(t)
      PROVE  \/ ToSet(log[s]) \subseteq ToSet(log'[s]) /\ dropped \subseteq dropped'
             \/ /\ lock[s] # NoTurn /\ pc[lock[s]] = "delete"
                /\ ToSet(log[s]) \subseteq ToSet(log'[s]) \cup dropped' /\ dropped \subseteq dropped'
                /\ ToSet(Suffix(log[s], CompactionKeepRecent)) \subseteq ToSet(log'[s])
  <2> DEFINE k == skipped[t]
             n == Len(oldMessages[t])
  <2>1. /\ pc[t] = "delete" /\ session[t] \in Sessions /\ lock[session[t]] = t
        /\ dropped \subseteq dropped'
        /\ \/ log' = log
           \/ /\ log' = [log EXCEPT ![session[t]] = Cut(@, k, n)]
              /\ dropped' = dropped \cup ToSet(oldMessages[t])
    BY <1>1, <1>b DEF DeleteOld, At, SessionKnown, LockOwnership, Critical
  <2>2. CASE log' = log
    BY <2>1, <2>2
  <2>3. CASE s # session[t]
    BY <1>a, <2>1, <2>3
  <2>4. CASE s = session[t] /\ log' # log
    <3>1. log'[s] = Cut(log[s], k, n) /\ dropped' = dropped \cup ToSet(oldMessages[t])
      BY <1>a, <2>1, <2>4
    <3>2. /\ k \in Nat /\ n \in Nat /\ k + n + CompactionKeepRecent <= Len(log[s])
          /\ \A i \in 1 .. n : log[s][k + i] = oldMessages[t][i]
      BY <1>a, <1>b, <2>1, <2>4, LenProperties DEF CompactionKnows, Knows
    <3>3. \A i \in 1 .. n : oldMessages[t][i] \in ToSet(oldMessages[t])
      <4>1. DOMAIN oldMessages[t] = 1 .. n
        BY <1>a, LenProperties
      <4> QED BY <4>1 DEF ToSet
    <3> DEFINE l == log[s]
               keep == CompactionKeepRecent
    <3>4. /\ \A i \in 1 .. Len(l) : i \in k + 1 .. k + n \/ l[i] \in ToSet(Cut(l, k, n))
          /\ ToSet(Suffix(l, keep)) \subseteq ToSet(Cut(l, k, n))
      <4> DEFINE M == Message
      <4>1. l \in Seq(M) /\ k \in Nat /\ n \in Nat /\ keep \in Nat /\ k + n + keep <= Len(l)
        BY <1>c, <3>2, LimitAssumption
      <4> HIDE DEF l, M, k, n, keep
      <4> QED BY <4>1, CutSet
    <3>5. ASSUME NEW i \in 1 .. Len(l), i \in k + 1 .. k + n
          PROVE  l[i] \in ToSet(oldMessages[t])
      <4>1. i - k \in 1 .. n /\ k + (i - k) = i
        BY <3>2, <3>5
      <4>2. l[k + (i - k)] = oldMessages[t][i - k]
        BY <3>2, <4>1
      <4> QED BY <3>3, <4>1, <4>2
    <3>6. ToSet(l) \subseteq ToSet(Cut(l, k, n)) \cup ToSet(oldMessages[t])
      <4>1. DOMAIN l = 1 .. Len(l)
        BY <1>c, LenProperties
      <4> HIDE DEF l
      <4> QED BY <3>4, <3>5, <4>1 DEF ToSet
    <3> QED BY <2>1, <2>4, <3>1, <3>4, <3>6, TurnAssumption
  <2> QED BY <2>2, <2>3, <2>4
<1>2. ASSUME NEW t \in Turns, InsertSummary(t)
      PROVE  ToSet(log[s]) \subseteq ToSet(log'[s])
  <2>1. /\ pc[t] = "summary" /\ session[t] \in Sessions
        /\ \/ log' = log
           \/ \E p \in 1 .. skipped[t] + 1 :
                log' = [log EXCEPT ![session[t]] = InsertAt(@, p, Msg("summary", t, 0))]
    BY <1>2, <1>b DEF InsertSummary, At, SessionKnown
  <2>2. CASE log' = log \/ s # session[t]
    BY <1>a, <2>1, <2>2
  <2>3. ASSUME s = session[t], NEW p \in 1 .. skipped[t] + 1,
               log' = [log EXCEPT ![session[t]] = InsertAt(@, p, Msg("summary", t, 0))]
        PROVE  ToSet(log[s]) \subseteq ToSet(log'[s])
    <3>1. skipped[t] \in Nat /\ skipped[t] <= Len(log[s])
      BY <1>a, <1>b, <2>1, <2>3 DEF CompactionKnows, Knows
    <3> DEFINE l == log[s]
               M == Message
               m == Msg("summary", t, 0)
    <3>2. l \in Seq(M) /\ m \in M /\ p \in 1 .. Len(l) + 1
      BY <1>c, <3>1, MsgType DEF Kinds
    <3>3. log'[s] = InsertAt(l, p, m)
      BY <1>a, <2>3
    <3> HIDE DEF l, M, m
    <3>4. ToSet(l) \subseteq ToSet(InsertAt(l, p, m))
      BY <3>2, InsertSet
    <3> QED BY <3>3, <3>4 DEF l
  <2> QED BY <2>1, <2>2, <2>3
<1>3. ASSUME NEW t \in Turns, CountMessages(t) \/ SelectOld(t)
      PROVE  log' = log
  BY <1>3 DEF CountMessages, SelectOld, store
<1>4. ASSUME Appends
      PROVE  ToSet(log[s]) \subseteq ToSet(log'[s])
  <2>1. ASSUME NEW q \in Sessions, NEW m \in Message, log' = [log EXCEPT ![q] = Append(@, m)]
        PROVE  ToSet(log[s]) \subseteq ToSet(log'[s])
    <3>1. CASE q = s
      <4>1. log'[s] = Append(log[s], m)
        BY <1>a, <2>1, <3>1
      <4>2. ToSet(Append(log[s], m)) = ToSet(log[s]) \cup {m}
        BY <1>c, AppendSet
      <4> QED BY <4>1, <4>2
    <3>2. CASE q # s
      BY <1>a, <2>1, <3>2
    <3> QED BY <3>1, <3>2
  <2> QED BY <1>4, <2>1 DEF Appends
<1>5. (~ \E t \in Turns : DeleteOld(t)) => dropped' = dropped
  <2> USE DEF store
  <2>1. (\E t \in Turns : DeleteOld(t)) \/ dropped' = dropped
    BY DEF Next, TurnStep, EnsureSession, ResolveSession, LockSession, PersistUser, CountMessages,
       SelectOld, InsertSummary, LoadHistory, Chat, PersistAnswer, TouchSession, Verify,
       PersistCalls, RunTools, PersistResults, ReportExhausted, Unlock, Cancel, CallDirect,
       RunAndDeliver, HandleMessage, SendToSession, Crash, vars
  <2> QED BY <2>1
<1>6. CASE \E t \in Turns : DeleteOld(t)
  BY <1>1, <1>6
<1>7. CASE ~ \E t \in Turns : DeleteOld(t)
  <2>1. \/ Appends \/ \E t \in Turns : CountMessages(t) \/ SelectOld(t) \/ InsertSummary(t)
    BY <1>7, OtherSteps DEF IInv, Base
  <2>2. ToSet(log[s]) \subseteq ToSet(log'[s])
    BY <1>2, <1>3, <1>4, <2>1
  <2> QED BY <1>5, <1>7, <2>2
<1> QED BY <1>6, <1>7

\* Messages leave a conversation only by the compaction of the turn that holds its
\* lock, and never one of the newest CompactionKeepRecent, however many turns,
\* notifications and crashes there are.
THEOREM OnlyOldLeave == Spec => OnlyOldDeleted
<1>1. IInv /\ [Next]_vars =>
        [\A s \in Sessions : ~ ToSet(log[s]) \subseteq ToSet(log'[s]) =>
           /\ lock[s] # NoTurn /\ pc[lock[s]] = "delete"
           /\ ToSet(Suffix(log[s], CompactionKeepRecent)) \subseteq ToSet(log'[s])]_vars
  BY StoreSteps
<1> QED BY <1>1, Invariance, PTL DEF Spec, OnlyOldDeleted

-----------------------------------------------------------------------------
(* Answers and endings. *)

\* The prompt of a turn that works, and the answer of one that is about to announce
\* it, were stored and have not been lost; a turn announces its end once.
Kept(s) == ToSet(log[s]) \cup dropped
Durable(t) ==
  /\ pc[t] \in Working \/ terminal[t] = "done" => Msg("user", t, 0) \in Kept(session[t])
  /\ pc[t] \in {"touch", "verify"} \/ terminal[t] = "done" =>
       Msg("text", t, iteration[t]) \in Kept(session[t])
  /\ terminal[t] # "none" => pc[t] \in {"unlock", "done", "dead"}
AllDurable == \A t \in Turns : Durable(t)

LEMMA DurableStep ==
  ASSUME IInv, AllDurable, [Next]_vars
  PROVE  AllDurable'
<1> SUFFICES ASSUME NEW t \in Turns
             PROVE  Durable(t)'
  BY DEF AllDurable
<1>a. /\ log \in [Sessions -> Seq(Message)] /\ session \in [Turns -> Sessions \cup {NoSession}]
      /\ iteration \in [Turns -> 0 .. MaxToolIter - 1]
      /\ pc \in [Turns -> Outside \cup Critical \cup Ended]
      /\ terminal \in [Turns -> {"none", "done", "exhausted", "error"}]
      /\ pc' \in [Turns -> Outside \cup Critical \cup Ended]
  BY BaseStep DEF IInv, Base, TypeOK
<1>b. pc[t] # "idle" => session[t] \in Sessions
  BY DEF IInv, Base, SessionKnown
<1>c. Moves(t)
  BY TurnMoves DEF IInv, Base
<1>d. Durable(t)
  BY DEF AllDurable
<1>e. pc[t] # "idle" => session'[t] = session[t] /\ session[t] \in Sessions
                        /\ Kept(session[t]) \subseteq Kept(session[t])'
  BY <1>b, <1>c, StoreSteps DEF Moves, Kept
<1>f. ASSUME NEW m \in Message, pc[t] # "idle", log' = [log EXCEPT ![session[t]] = Append(@, m)]
      PROVE  m \in Kept(session[t])'
  <2>1. log'[session[t]] = Append(log[session[t]], m) /\ log[session[t]] \in Seq(Message)
    BY <1>a, <1>b, <1>f
  <2>2. ToSet(log'[session[t]]) = ToSet(log[session[t]]) \cup {m}
    BY <2>1, AppendSet
  <2> QED BY <1>e, <1>f, <2>2 DEF Kept
<1>g. /\ "idle" \notin Working /\ "dead" \notin Working /\ "done" \notin Working
      /\ \A p \in Looping : p \notin {"idle", "unlock", "done", "dead"}
      /\ "touch" \in Working /\ "verify" \in Working
  BY DEF Working, Critical, Looping
<1>h. Msg("user", t, 0) \in Message /\ Msg("text", t, iteration[t]) \in Message
  <2>1. iteration[t] \in Nat
    BY <1>a, LimitAssumption
  <2> QED BY <2>1, MsgType DEF Kinds
<1>1. ASSUME terminal'[t] = "done"
      PROVE  \/ terminal[t] = "done" /\ pc[t] \in {"unlock", "done", "dead"}
             \/ pc[t] = "verify" /\ pc'[t] = "unlock"
  BY <1>1, <1>c, <1>d DEF Moves, Durable
<1>2. ASSUME pc'[t] \in Working \/ terminal'[t] = "done"
      PROVE  Msg("user", t, 0) \in Kept(session[t])'
  <2>1. CASE pc[t] \in Working \/ terminal[t] = "done"
    <3>1. pc[t] # "idle"
      BY <1>d, <1>g, <2>1 DEF Durable
    <3> QED BY <1>d, <1>e, <2>1, <3>1 DEF Durable
  <2>2. CASE /\ pc[t] = "append"
             /\ log' = [log EXCEPT ![session[t]] = Append(@, Msg("user", t, 0))]
    BY <1>f, <1>h, <2>2
  <2> QED BY <1>1, <1>2, <1>c, <1>g, <2>1, <2>2 DEF Moves
<1>3. ASSUME pc'[t] \in {"touch", "verify"} \/ terminal'[t] = "done"
      PROVE  Msg("text", t, iteration'[t]) \in Kept(session[t])'
  <2>1. iteration'[t] = iteration[t]
    BY <1>1, <1>3, <1>c, <1>g DEF Moves
  <2>2. CASE pc[t] \in {"touch", "verify"} \/ terminal[t] = "done"
    <3>1. pc[t] # "idle"
      BY <1>d, <2>2 DEF Durable
    <3> QED BY <1>d, <1>e, <2>1, <2>2, <3>1 DEF Durable
  <2>3. CASE /\ pc[t] = "answer"
             /\ log' = [log EXCEPT ![session[t]] = Append(@, Msg("text", t, iteration[t]))]
    BY <1>f, <1>h, <2>1, <2>3
  <2> QED BY <1>1, <1>3, <1>c, <2>2, <2>3 DEF Moves
<1>4. terminal'[t] # "none" => pc'[t] \in {"unlock", "done", "dead"}
  BY <1>c, <1>d DEF Moves, Durable, Ended
<1>5. /\ pc'[t] \in Working \/ terminal'[t] = "done" => session'[t] = session[t]
      /\ pc'[t] \in {"touch", "verify"} \/ terminal'[t] = "done" => session'[t] = session[t]
  BY <1>1, <1>c, <1>g DEF Moves
<1>6. Kept(session[t])' = ToSet(log'[session'[t]]) \cup dropped'
  BY DEF Kept
<1> QED BY <1>2, <1>3, <1>4, <1>5 DEF Durable, Kept

-----------------------------------------------------------------------------
(* The conversation. *)

\* A step in which turn t writes message m at the end of its conversation and goes
\* from one place to one of the others.
Writes(t, m, from, to) ==
  /\ pc[t] = from /\ \E p \in to : pc' = [pc EXCEPT ![t] = p]
  /\ log' = [log EXCEPT ![session[t]] = Append(@, m)]
  /\ UNCHANGED <<lock, session, raced>>
  /\ \A u \in Turns : u # t => iteration'[u] = iteration[u]

\* A step that writes nothing: tools and their results belong to one iteration, a
\* turn that has not stored its message, or has emitted its last event, gets no
\* further than its end, and a lock that changes hands goes to a turn that has
\* stored nothing.
QuietMove(u) ==
  /\ pc'[u] \in {"tools", "results"} => pc[u] \in {"tools", "results"} /\ iteration'[u] = iteration[u]
  /\ pc[u] \in {"tools", "results"} => pc'[u] \in {"tools", "results", "unlock", "dead"}
  /\ pc[u] \in {"append", "unlock"} => pc'[u] \in {"append", "unlock"} \cup Ended
  /\ pc[u] \notin Outside \cup {"append"} => pc'[u] \notin Outside \cup {"append"}
Quiet == UNCHANGED <<log, raced>> /\ \A u \in Turns : QuietMove(u)

LEMMA QuietOrWrites ==
  ASSUME TypeOK, [Next]_vars
  PROVE  \/ Quiet
         \/ \E t \in Turns :
              \/ Writes(t, Msg("user", t, 0), "append", {"count"})
              \/ Writes(t, Msg("text", t, iteration[t]), "answer", {"touch"})
              \/ Writes(t, Msg("calls", t, iteration[t]), "calls", {"tools"}) /\ iteration' = iteration
              \/ Writes(t, Msg("results", t, iteration[t]), "results", {"chat", "exhausted"})
              \/ DeleteOld(t) /\ log' = [log EXCEPT ![session[t]] = Cut(@, skipped[t], Len(oldMessages[t]))]
                 /\ raced' = IF skipped[t] > 0 THEN raced \cup {session[t]} ELSE raced
              \/ InsertSummary(t) /\ \E p \in 1 .. skipped[t] + 1 :
                   log' = [log EXCEPT ![session[t]] = InsertAt(@, p, Msg("summary", t, 0))]
         \/ \E s \in Sessions : SendToSession(s)
<1> USE DEF At, Goto, store, caller, loop, Append2Log
<1>a. /\ pc \in [Turns -> Outside \cup Critical \cup Ended]
      /\ iteration \in [Turns -> 0 .. MaxToolIter - 1]
  BY DEF TypeOK
\* It is enough to look at the turn that takes the step.
<1>b. ASSUME NEW t \in Turns, QuietMove(t), UNCHANGED <<log, raced>>,
             \A u \in Turns : u # t => pc'[u] = pc[u] /\ iteration'[u] = iteration[u]
      PROVE  Quiet
  BY <1>b DEF Quiet, QuietMove
<1> USE DEF Outside, Ended
<1>1. ASSUME NEW t \in Turns, NEW s \in Sessions,
             CallDirect(t, s) \/ RunAndDeliver(t, s) \/ \E a \in Adapters : HandleMessage(t, s, a)
      PROVE  Quiet
  <2>1. QuietMove(t)
    BY <1>1, <1>a DEF CallDirect, RunAndDeliver, HandleMessage, QuietMove
  <2> QED BY <1>1, <1>a, <1>b, <2>1 DEF CallDirect, RunAndDeliver, HandleMessage
<1>2. ASSUME NEW t \in Turns, Cancel(t)
      PROVE  Quiet
  BY <1>2 DEF Cancel, Quiet, QuietMove
<1>3. ASSUME NEW t \in Turns, EnsureSession(t) \/ ResolveSession(t)
      PROVE  Quiet
  <2>1. QuietMove(t)
    BY <1>3, <1>a DEF EnsureSession, ResolveSession, GetSession, CreateSession, QuietMove
  <2> QED BY <1>3, <1>a, <1>b, <2>1 DEF EnsureSession, ResolveSession, GetSession, CreateSession
<1>4. ASSUME NEW t \in Turns, LockSession(t) \/ RunTools(t) \/ Unlock(t) \/ SelectOld(t)
      PROVE  Quiet
  <2>1. QuietMove(t)
    BY <1>4, <1>a DEF LockSession, RunTools, Unlock, SelectOld, QuietMove
  <2> QED BY <1>4, <1>a, <1>b, <2>1 DEF LockSession, RunTools, Unlock, SelectOld
<1>5. ASSUME NEW t \in Turns, CountMessages(t) \/ LoadHistory(t) \/ TouchSession(t) \/ ReportExhausted(t)
      PROVE  Quiet
  <2>1. QuietMove(t)
    BY <1>5, <1>a DEF CountMessages, LoadHistory, TouchSession, ReportExhausted, Finish, QuietMove
  <2> QED BY <1>5, <1>a, <1>b, <2>1 DEF CountMessages, LoadHistory, TouchSession, ReportExhausted, Finish
<1>6. ASSUME NEW t \in Turns, Chat(t) \/ Verify(t)
      PROVE  Quiet
  <2>1. QuietMove(t)
    BY <1>6, <1>a DEF Chat, Verify, Finish, NextIteration, QuietMove
  <2> QED BY <1>6, <1>a, <1>b, <2>1 DEF Chat, Verify, Finish, NextIteration
<1>7. ASSUME NEW t \in Turns, PersistUser(t)
      PROVE  Quiet \/ Writes(t, Msg("user", t, 0), "append", {"count"})
  <2>1. CASE pc' = [pc EXCEPT ![t] = "refused"] /\ log' = log
    <3>1. QuietMove(t)
      BY <1>7, <1>a, <2>1 DEF PersistUser, QuietMove
    <3> QED BY <1>7, <1>a, <1>b, <2>1, <3>1 DEF PersistUser
  <2> QED BY <1>7, <2>1 DEF PersistUser, Writes
<1>8. ASSUME NEW t \in Turns, PersistAnswer(t)
      PROVE  Quiet \/ Writes(t, Msg("text", t, iteration[t]), "answer", {"touch"})
  <2>1. CASE pc' = [pc EXCEPT ![t] = "unlock"] /\ log' = log
    <3>1. QuietMove(t)
      BY <1>8, <1>a, <2>1 DEF PersistAnswer, QuietMove
    <3> QED BY <1>8, <1>a, <1>b, <2>1, <3>1 DEF PersistAnswer
  <2> QED BY <1>8, <2>1 DEF PersistAnswer, Finish, Writes
<1>9. ASSUME NEW t \in Turns, PersistCalls(t)
      PROVE  Quiet \/ (Writes(t, Msg("calls", t, iteration[t]), "calls", {"tools"}) /\ iteration' = iteration)
  <2>1. CASE pc' = [pc EXCEPT ![t] = "unlock"] /\ log' = log
    <3>1. QuietMove(t)
      BY <1>9, <1>a, <2>1 DEF PersistCalls, QuietMove
    <3> QED BY <1>9, <1>a, <1>b, <2>1, <3>1 DEF PersistCalls
  <2> QED BY <1>9, <2>1 DEF PersistCalls, Finish, Writes
<1>10. ASSUME NEW t \in Turns, PersistResults(t)
      PROVE  Quiet \/ Writes(t, Msg("results", t, iteration[t]), "results", {"chat", "exhausted"})
  <2>1. CASE pc' = [pc EXCEPT ![t] = "unlock"] /\ log' = log /\ iteration' = iteration
    <3>1. QuietMove(t)
      BY <1>10, <1>a, <2>1 DEF PersistResults, QuietMove
    <3> QED BY <1>10, <1>a, <1>b, <2>1, <3>1 DEF PersistResults
  <2> QED BY <1>10, <1>a, <2>1 DEF PersistResults, Finish, NextIteration, Writes
<1>11. ASSUME NEW t \in Turns, DeleteOld(t)
      PROVE  \/ Quiet
             \/ /\ log' = [log EXCEPT ![session[t]] = Cut(@, skipped[t], Len(oldMessages[t]))]
                /\ raced' = IF skipped[t] > 0 THEN raced \cup {session[t]} ELSE raced
  <2>1. CASE pc' = [pc EXCEPT ![t] = "load"] /\ log' = log /\ raced' = raced
    <3>1. QuietMove(t)
      BY <1>11, <1>a, <2>1 DEF DeleteOld, QuietMove
    <3> QED BY <1>11, <1>a, <1>b, <2>1, <3>1 DEF DeleteOld
  <2> QED BY <1>11, <2>1 DEF DeleteOld
<1>12. ASSUME NEW t \in Turns, InsertSummary(t)
      PROVE  \/ Quiet
             \/ \E p \in 1 .. skipped[t] + 1 :
                  log' = [log EXCEPT ![session[t]] = InsertAt(@, p, Msg("summary", t, 0))]
  <2>1. CASE log' = log
    <3>1. QuietMove(t)
      BY <1>12, <1>a, <2>1 DEF InsertSummary, QuietMove
    <3> QED BY <1>12, <1>a, <1>b, <2>1, <3>1 DEF InsertSummary
  <2> QED BY <1>12, <2>1 DEF InsertSummary
<1>13. CASE Crash
  <2>1. UNCHANGED <<log, raced, iteration>>
    BY <1>13 DEF Crash
  <2>2. \A u \in Turns : QuietMove(u)
    BY <1>13, <1>a, <2>1 DEF Crash, QuietMove
  <2> QED BY <2>1, <2>2 DEF Quiet
<1>14. CASE UNCHANGED vars
  BY <1>14 DEF vars, Quiet, QuietMove
<1> QED
  BY <1>1, <1>2, <1>3, <1>4, <1>5, <1>6, <1>7, <1>8, <1>9, <1>10, <1>11, <1>12, <1>13, <1>14
  DEF Next, TurnStep

\* A quiet step is at most the end of ownerships.
LEMMA QuietLeaves ==
  ASSUME Base, Base', Quiet, [Next]_vars
  PROVE  \E E \in SUBSET Sessions, T \in SUBSET Turns : Conversation!Leave(E, T)
<1>a. /\ pc \in [Turns -> Outside \cup Critical \cup Ended] /\ lock \in [Sessions -> Turns \cup {NoTurn}]
      /\ session \in [Turns -> Sessions \cup {NoSession}]
      /\ pc' \in [Turns -> Outside \cup Critical \cup Ended]
      /\ lock' \in [Sessions -> Turns \cup {NoTurn}]
  BY DEF Base, TypeOK
<1>b. \A s \in Sessions : lock[s] # NoTurn => lock[s] \in Turns /\ pc[lock[s]] \in Critical
  BY <1>a DEF Base, LockOwnership
<1>c. \A s \in Sessions : lock'[s] # NoTurn => lock'[s] \in Turns /\ pc'[lock'[s]] \in Critical
  BY <1>a DEF Base, LockOwnership
<1>d. \A s \in Sessions : \/ lock'[s] = lock[s] \/ lock'[s] = NoTurn
                          \/ lock'[s] \in Turns /\ pc'[lock'[s]] = "append"
  BY <1>a, StepKinds DEF Waits, Called, Acquires, Inside, Releases, Crash
<1>e. \A u \in Turns : QuietMove(u)
  BY DEF Quiet
<1> DEFINE Same(s) == Owner'[s] = Owner[s] /\ OpenCalls'[s] = OpenCalls[s]
           Ends(s) == Owner'[s] = NoTurn /\ OpenCalls'[s] = {}
<1>1. ASSUME NEW s \in Sessions
      PROVE  Same(s) \/ Ends(s)
  <2>1. CASE lock'[s] = NoTurn
    BY <2>1 DEF Owner, OpenCalls
  <2>2. CASE lock'[s] \in Turns /\ pc'[lock'[s]] \in {"append", "unlock"}
    BY <2>2 DEF Owner, OpenCalls
  <2>3. CASE lock'[s] = lock[s] /\ lock[s] # NoTurn /\ pc'[lock[s]] \notin {"append", "unlock"}
    <3> DEFINE u == lock[s]
    <3>1. u \in Turns /\ QuietMove(u) /\ pc'[u] \in Critical
      BY <1>b, <1>c, <1>e, <2>3
    <3>2. /\ pc[u] \notin {"append", "unlock"}
          /\ pc'[u] \in {"tools", "results"} <=> pc[u] \in {"tools", "results"}
          /\ pc'[u] \in {"tools", "results"} => iteration'[u] = iteration[u]
      BY <2>3, <3>1 DEF QuietMove, Critical, Ended
    <3> QED BY <2>3, <3>1, <3>2 DEF Owner, OpenCalls
  <2> QED BY <1>a, <1>c, <1>d, <2>1, <2>2, <2>3
<1>2. Retired \subseteq Retired' /\ Retired' \in SUBSET Turns
  BY <1>e DEF Retired, QuietMove
<1> DEFINE E == {s \in Sessions : Ends(s)}
<1>3. /\ Owner' = [s \in Sessions |-> IF s \in E THEN NoTurn ELSE Owner[s]]
      /\ OpenCalls' = [s \in Sessions |-> IF s \in E THEN {} ELSE OpenCalls[s]]
  <2>1. /\ Owner' = [s \in Sessions |-> Owner'[s]] /\ OpenCalls' = [s \in Sessions |-> OpenCalls'[s]]
    BY DEF Owner, OpenCalls
  <2>2. \A s \in Sessions : /\ Owner'[s] = IF s \in E THEN NoTurn ELSE Owner[s]
                            /\ OpenCalls'[s] = IF s \in E THEN {} ELSE OpenCalls[s]
    BY <1>1
  <2> HIDE DEF E
  <2> QED BY <2>1, <2>2
<1>4. Retired' = Retired \cup Retired' /\ E \in SUBSET Sessions
  BY <1>2
<1> HIDE DEF E
<1>5. Conversation!Leave(E, Retired')
  BY <1>3, <1>4 DEF Conversation!Leave, Quiet
<1> QED BY <1>2, <1>4, <1>5

\* A step of the turn that holds the lock of a session, seen from the conversation.
LEMMA HolderMaps ==
  ASSUME Base, NEW t \in Turns, pc[t] \in Critical, lock' = lock,
         NEW p \in Critical \ {"append"}, pc' = [pc EXCEPT ![t] = p],
         \A u \in Turns : u # t => iteration'[u] = iteration[u]
  PROVE  /\ session[t] \in Sessions
         /\ Owner[session[t]] = IF pc[t] \in {"append", "unlock"} THEN NoTurn ELSE t
         /\ OpenCalls[session[t]] = IF pc[t] \in {"tools", "results"}
                                    THEN {Msg("calls", t, iteration[t])} ELSE {}
         /\ Owner' = [Owner EXCEPT ![session[t]] = IF p = "unlock" THEN NoTurn ELSE t]
         /\ OpenCalls' = [OpenCalls EXCEPT ![session[t]] =
              IF p \in {"tools", "results"} THEN {Msg("calls", t, iteration'[t])} ELSE {}]
         /\ Retired' = Retired \cup {t}
         /\ t \in Retired <=> pc[t] # "append"
<1>a. /\ pc \in [Turns -> Outside \cup Critical \cup Ended] /\ lock \in [Sessions -> Turns \cup {NoTurn}]
      /\ NoTurn \notin Turns
  BY TurnAssumption DEF Base, TypeOK
<1>b. session[t] \in Sessions /\ lock[session[t]] = t
  BY DEF Base, LockOwnership
<1>c. \A s \in Sessions : s # session[t] => lock[s] # t
  BY <1>a DEF Base, LockOwnership
<1>d. pc'[t] = p /\ \A u \in Turns : u # t => pc'[u] = pc[u]
  BY <1>a
<1>1. /\ Owner[session[t]] = IF pc[t] \in {"append", "unlock"} THEN NoTurn ELSE t
      /\ OpenCalls[session[t]] = IF pc[t] \in {"tools", "results"}
                                 THEN {Msg("calls", t, iteration[t])} ELSE {}
  BY <1>a, <1>b DEF Owner, OpenCalls
<1>2. ASSUME NEW s \in Sessions
      PROVE  /\ Owner'[s] = IF s = session[t] THEN (IF p = "unlock" THEN NoTurn ELSE t) ELSE Owner[s]
             /\ OpenCalls'[s] = IF s = session[t]
                  THEN (IF p \in {"tools", "results"} THEN {Msg("calls", t, iteration'[t])} ELSE {})
                  ELSE OpenCalls[s]
  <2>1. CASE s = session[t]
    BY <1>a, <1>b, <1>d, <2>1 DEF Owner, OpenCalls
  <2>2. CASE s # session[t]
    <3>1. lock[s] = NoTurn \/ (lock[s] \in Turns /\ lock[s] # t)
      BY <1>a, <1>c, <2>2
    <3> QED BY <1>a, <1>d, <2>2, <3>1 DEF Owner, OpenCalls
  <2> QED BY <2>1, <2>2
<1>3. /\ Owner' = [s \in Sessions |-> Owner'[s]] /\ OpenCalls' = [s \in Sessions |-> OpenCalls'[s]]
      /\ Owner = [s \in Sessions |-> Owner[s]] /\ OpenCalls = [s \in Sessions |-> OpenCalls[s]]
  BY DEF Owner, OpenCalls
<1>4. /\ Owner' = [Owner EXCEPT ![session[t]] = IF p = "unlock" THEN NoTurn ELSE t]
      /\ OpenCalls' = [OpenCalls EXCEPT ![session[t]] =
           IF p \in {"tools", "results"} THEN {Msg("calls", t, iteration'[t])} ELSE {}]
  BY <1>2, <1>3
<1>5. Retired' = Retired \cup {t} /\ (t \in Retired <=> pc[t] # "append")
  BY <1>a, <1>d, ControlDisjoint DEF Retired
<1> QED BY <1>1, <1>4, <1>5, <1>b

\* Every step of AgentTurn is a step of SessionLog or changes nothing of it.
LEMMA ConversationStep ==
  ASSUME IInv, IInv', [Next]_vars
  PROVE  Conversation!Next
<1>a. Base /\ Base' /\ TypeOK /\ CompactionKnows /\ SummaryFirst
  BY DEF IInv, Base
<1>b. /\ iteration \in [Turns -> 0 .. MaxToolIter - 1] /\ notifies \in 0 .. MaxNotifies
      /\ log \in [Sessions -> Seq(Message)] /\ skipped \in [Turns -> Nat]
      /\ oldMessages \in [Turns -> Seq(Message)]
      /\ lock \in [Sessions -> Turns \cup {NoTurn}] /\ NoTurn \notin Turns
  BY <1>a, TurnAssumption DEF TypeOK
<1>c. /\ 0 \in 0 .. MaxToolIter + MaxNotifies
      /\ notifies \in 0 .. MaxToolIter + MaxNotifies
      /\ \A t \in Turns : iteration[t] \in 0 .. MaxToolIter + MaxNotifies
  BY <1>b, LimitAssumption
<1>d. Owner = [s \in Sessions |-> Owner[s]] /\ OpenCalls = [s \in Sessions |-> OpenCalls[s]]
  BY DEF Owner, OpenCalls
\* Steps after which the owner is the one before and no calls are open, as before.
<1>e. ASSUME NEW t \in Turns, NEW s \in Sessions, Owner[s] = t, t \in Retired, OpenCalls[s] = {},
             Owner' = [Owner EXCEPT ![s] = t], Retired' = Retired \cup {t},
             OpenCalls' = [OpenCalls EXCEPT ![s] = {}]
      PROVE  Owner' = Owner /\ Retired' = Retired /\ OpenCalls' = OpenCalls
  <2>1. Retired' = Retired
    BY <1>e
  <2>2. Owner' = Owner
    BY <1>d, <1>e
  <2>3. OpenCalls' = OpenCalls
    BY <1>d, <1>e
  <2> QED BY <2>1, <2>2, <2>3
<1>1. CASE Quiet
  BY <1>1, <1>a, QuietLeaves DEF Conversation!Next
<1>2. ASSUME NEW t \in Turns, Writes(t, Msg("user", t, 0), "append", {"count"})
      PROVE  Conversation!Next
  <2> DEFINE s == session[t]
  <2>1. /\ s \in Sessions /\ Owner[s] = NoTurn /\ t \notin Retired /\ OpenCalls[s] = {}
        /\ Owner' = [Owner EXCEPT ![s] = t] /\ Retired' = Retired \cup {t}
        /\ OpenCalls' = [OpenCalls EXCEPT ![s] = {}]
    BY <1>2, <1>a, HolderMaps DEF Writes, Critical
  <2>2. OpenCalls' = OpenCalls
    <3> HIDE DEF s
    <3> QED BY <1>d, <2>1
  <2>3. log' = [log EXCEPT ![s] = Append(@, Conversation!Msg("user", t, 0))]
    BY <1>2 DEF Writes, Conversation!Msg, Msg
  <2>4. Conversation!Begin(s, t)
    BY <1>2, <1>c, <2>1, <2>2, <2>3 DEF Writes, Conversation!Begin, Conversation!Add
  <2> QED BY <2>1, <2>4 DEF Conversation!Next
<1>3. ASSUME NEW t \in Turns, Writes(t, Msg("text", t, iteration[t]), "answer", {"touch"})
      PROVE  Conversation!Next
  <2> DEFINE s == session[t]
  <2>1. /\ s \in Sessions /\ Owner[s] = t /\ t \in Retired /\ OpenCalls[s] = {}
        /\ Owner' = [Owner EXCEPT ![s] = t] /\ Retired' = Retired \cup {t}
        /\ OpenCalls' = [OpenCalls EXCEPT ![s] = {}]
    BY <1>3, <1>a, HolderMaps DEF Writes, Critical
  <2>2. OpenCalls' = OpenCalls /\ Owner' = Owner /\ Retired' = Retired
    BY <1>e, <2>1
  <2>3. log' = [log EXCEPT ![s] = Append(@, Conversation!Msg("text", Owner[s], iteration[t]))]
    <3>1. Conversation!Msg("text", Owner[s], iteration[t]) = Msg("text", t, iteration[t])
      BY <2>1 DEF Conversation!Msg, Msg
    <3>2. log' = [log EXCEPT ![s] = Append(@, Msg("text", t, iteration[t]))]
      BY <1>3 DEF Writes
    <3> HIDE DEF s
    <3> QED BY <3>1, <3>2
  <2>4. iteration[t] \in 0 .. MaxToolIter + MaxNotifies /\ raced' = raced /\ Owner[s] # NoTurn
    BY <1>3, <1>b, <1>c, <2>1 DEF Writes
  <2>5. Conversation!Say(s)
    <3> HIDE DEF s
    <3> QED BY <2>1, <2>2, <2>3, <2>4 DEF Conversation!Say, Conversation!Add
  <2> QED BY <2>1, <2>5 DEF Conversation!Next
<1>4. ASSUME NEW t \in Turns, Writes(t, Msg("calls", t, iteration[t]), "calls", {"tools"}),
             UNCHANGED iteration
      PROVE  Conversation!Next
  <2> DEFINE s == session[t]
  <2>1. /\ s \in Sessions /\ Owner[s] = t /\ t \in Retired /\ OpenCalls[s] = {}
        /\ Owner' = [Owner EXCEPT ![s] = t] /\ Retired' = Retired \cup {t}
        /\ OpenCalls' = [OpenCalls EXCEPT ![s] = {Msg("calls", t, iteration[t])}]
    <3>1. /\ pc[t] = "calls" /\ lock' = lock /\ pc' = [pc EXCEPT ![t] = "tools"]
          /\ iteration' = iteration
      BY <1>4 DEF Writes
    <3>2. pc[t] \in Critical /\ "tools" \in Critical \ {"append"}
      BY <3>1 DEF Critical
    <3>3. \A u \in Turns : u # t => iteration'[u] = iteration[u]
      BY <3>1
    <3>4. /\ s \in Sessions
          /\ Owner[s] = IF pc[t] \in {"append", "unlock"} THEN NoTurn ELSE t
          /\ OpenCalls[s] = IF pc[t] \in {"tools", "results"}
                            THEN {Msg("calls", t, iteration[t])} ELSE {}
          /\ Owner' = [Owner EXCEPT ![s] = IF "tools" = "unlock" THEN NoTurn ELSE t]
          /\ OpenCalls' = [OpenCalls EXCEPT ![s] =
               IF "tools" \in {"tools", "results"} THEN {Msg("calls", t, iteration'[t])} ELSE {}]
          /\ Retired' = Retired \cup {t}
          /\ t \in Retired <=> pc[t] # "append"
      BY <1>a, <3>1, <3>2, <3>3, HolderMaps
    <3> HIDE DEF s
    <3> QED BY <3>1, <3>4
  <2>2. Owner' = Owner /\ Retired' = Retired
    <3> HIDE DEF s
    <3>1. Owner' = Owner
      BY <1>d, <2>1
    <3> QED BY <2>1, <3>1
  <2>3. /\ log' = [log EXCEPT ![s] = Append(@, Conversation!Msg("calls", Owner[s], iteration[t]))]
        /\ OpenCalls' = [OpenCalls EXCEPT ![s] = {Conversation!Msg("calls", Owner[s], iteration[t])}]
    <3>1. Conversation!Msg("calls", Owner[s], iteration[t]) = Msg("calls", t, iteration[t])
      BY <2>1 DEF Conversation!Msg, Msg
    <3> QED BY <1>4, <2>1, <3>1 DEF Writes
  <2>4. raced' = raced
    BY <1>4 DEF Writes
  <2> HIDE DEF s
  <2>5. Conversation!CallTools(s)
    BY <1>b, <1>c, <2>1, <2>2, <2>3, <2>4 DEF Conversation!CallTools, Conversation!Add
  <2> QED BY <2>1, <2>5 DEF Conversation!Next
<1>5. ASSUME NEW t \in Turns, Writes(t, Msg("results", t, iteration[t]), "results", {"chat", "exhausted"})
      PROVE  Conversation!Next
  <2> DEFINE s == session[t]
             c == Msg("calls", t, iteration[t])
  <2>0. PICK p \in {"chat", "exhausted"} : pc' = [pc EXCEPT ![t] = p]
    BY <1>5 DEF Writes
  <2>1. /\ s \in Sessions /\ Owner[s] = t /\ t \in Retired /\ OpenCalls[s] = {c}
        /\ Owner' = [Owner EXCEPT ![s] = t] /\ Retired' = Retired \cup {t}
        /\ OpenCalls' = [OpenCalls EXCEPT ![s] = {}]
    BY <1>5, <1>a, <2>0, HolderMaps DEF Writes, Critical
  <2>2. Owner' = Owner /\ Retired' = Retired
    <3> HIDE DEF s
    <3>1. Owner' = Owner
      BY <1>d, <2>1
    <3> QED BY <2>1, <3>1
  <2>3. c.turn = t /\ c.iter = iteration[t]
    BY DEF Msg
  <2>4. log' = [log EXCEPT ![s] = Append(@, Conversation!Msg("results", c.turn, c.iter))]
    <3>1. Conversation!Msg("results", c.turn, c.iter) = Msg("results", t, iteration[t])
      BY <2>3 DEF Conversation!Msg, Msg
    <3> QED BY <1>5, <3>1 DEF Writes
  <2> HIDE DEF c
  <2>5. Conversation!AnswerCalls(s)
    BY <1>5, <2>1, <2>2, <2>4 DEF Writes, Conversation!AnswerCalls, Conversation!Add
  <2> QED BY <2>1, <2>5 DEF Conversation!Next
<1>6. ASSUME NEW t \in Turns, DeleteOld(t),
             log' = [log EXCEPT ![session[t]] = Cut(@, skipped[t], Len(oldMessages[t]))],
             raced' = IF skipped[t] > 0 THEN raced \cup {session[t]} ELSE raced
      PROVE  Conversation!Next
  <2> DEFINE s == session[t]
             k == skipped[t]
             n == Len(oldMessages[t])
  <2>0. PICK p \in {"summary", "load"} : pc' = [pc EXCEPT ![t] = p]
    BY <1>6 DEF DeleteOld, Goto
  <2>1. /\ s \in Sessions /\ Owner[s] = t /\ t \in Retired /\ OpenCalls[s] = {}
        /\ Owner' = [Owner EXCEPT ![s] = t] /\ Retired' = Retired \cup {t}
        /\ OpenCalls' = [OpenCalls EXCEPT ![s] = {}]
    BY <1>6, <1>a, <2>0, HolderMaps DEF DeleteOld, At, loop, Critical
  <2>2. Owner' = Owner /\ Retired' = Retired /\ OpenCalls' = OpenCalls
    BY <1>e, <2>1
  <2>3. /\ k \in Nat /\ n \in Nat /\ n >= 1 /\ k + n + CompactionKeepRecent <= Len(log[s])
        /\ Len(log[s]) \in Nat
    BY <1>6, <1>a, <1>b, <2>1, LenProperties DEF CompactionKnows, Knows, DeleteOld, At
  <2>4. k \in 0 .. Len(log[s]) /\ n \in 1 .. Len(log[s])
    BY <2>3, LimitAssumption
  <2>5. log' = [log EXCEPT ![s] = Conversation!Cut(@, k, n)]
    BY <1>6 DEF Conversation!Cut, Cut
  <2>6. raced' = IF k > 0 THEN raced \cup {s} ELSE raced
    BY <1>6
  <2> HIDE DEF k, n, s
  <2>7. Conversation!Forget(s)
    BY <1>b, <2>1, <2>2, <2>3, <2>4, <2>5, <2>6 DEF Conversation!Forget
  <2> QED BY <2>1, <2>7 DEF Conversation!Next
<1>7. ASSUME NEW t \in Turns, InsertSummary(t), NEW q \in 1 .. skipped[t] + 1,
             log' = [log EXCEPT ![session[t]] = InsertAt(@, q, Msg("summary", t, 0))]
      PROVE  Conversation!Next
  <2> DEFINE s == session[t]
  <2>1. /\ s \in Sessions /\ Owner[s] = t /\ t \in Retired /\ OpenCalls[s] = {}
        /\ Owner' = [Owner EXCEPT ![s] = t] /\ Retired' = Retired \cup {t}
        /\ OpenCalls' = [OpenCalls EXCEPT ![s] = {}]
    <3>1. pc[t] = "summary" /\ lock' = lock /\ pc' = [pc EXCEPT ![t] = "load"] /\ iteration' = iteration
      BY <1>7 DEF InsertSummary, At, Goto, loop
    <3>2. pc[t] \in Critical /\ "load" \in Critical \ {"append"}
      BY <3>1 DEF Critical
    <3>3. \A u \in Turns : u # t => iteration'[u] = iteration[u]
      BY <3>1
    <3>4. /\ s \in Sessions
          /\ Owner[s] = IF pc[t] \in {"append", "unlock"} THEN NoTurn ELSE t
          /\ OpenCalls[s] = IF pc[t] \in {"tools", "results"}
                            THEN {Msg("calls", t, iteration[t])} ELSE {}
          /\ Owner' = [Owner EXCEPT ![s] = IF "load" = "unlock" THEN NoTurn ELSE t]
          /\ OpenCalls' = [OpenCalls EXCEPT ![s] =
               IF "load" \in {"tools", "results"} THEN {Msg("calls", t, iteration'[t])} ELSE {}]
          /\ Retired' = Retired \cup {t}
          /\ t \in Retired <=> pc[t] # "append"
      BY <1>a, <3>1, <3>2, <3>3, HolderMaps
    <3> HIDE DEF s
    <3> QED BY <3>1, <3>4
  <2>2. Owner' = Owner /\ Retired' = Retired /\ OpenCalls' = OpenCalls /\ raced' = raced
    BY <1>7, <1>e, <2>1 DEF InsertSummary
  <2>3. /\ skipped[t] \in Nat /\ skipped[t] <= Len(log[s]) /\ Len(log[s]) \in Nat
        /\ skipped[t] > 0 => s \in raced
        /\ s \notin raced => \A i \in 1 .. Len(log[s]) : log[s][i].kind # "summary"
    BY <1>7, <1>a, <1>b, <2>1, LenProperties
       DEF CompactionKnows, Knows, SummaryFirst, HasNoSummary, InsertSummary, At
  <2>4. /\ q \in 1 .. Len(log[s]) + 1
        /\ s \in raced \/ (q = 1 /\ \A j \in 1 .. Len(log[s]) : log[s][j].kind # "summary")
    BY <2>3
  <2>5. log' = [log EXCEPT ![s] = Conversation!InsertAt(@, q, Conversation!Msg("summary", Owner[s], 0))]
    <3>1. Conversation!Msg("summary", Owner[s], 0) = Msg("summary", t, 0)
      BY <2>1 DEF Conversation!Msg, Msg
    <3> QED BY <1>7, <3>1 DEF Conversation!InsertAt, InsertAt
  <2> HIDE DEF s
  <2>6. Conversation!Summarise(s)
    BY <1>b, <1>c, <2>1, <2>2, <2>4, <2>5 DEF Conversation!Summarise
  <2> QED BY <2>1, <2>6 DEF Conversation!Next
<1>8. ASSUME NEW s \in Sessions, SendToSession(s)
      PROVE  Conversation!Next
  <2>1. UNCHANGED <<Owner, OpenCalls, Retired, raced>>
    BY <1>8 DEF SendToSession, loop, Owner, OpenCalls, Retired
  <2>2. log' = [log EXCEPT ![s] = Append(@, Conversation!Msg("notify", NoTurn, notifies))]
    BY <1>8 DEF SendToSession, Append2Log, Conversation!Msg, Msg
  <2>3. Conversation!Notify(s)
    BY <1>c, <2>1, <2>2 DEF Conversation!Notify, Conversation!Add
  <2> QED BY <2>3 DEF Conversation!Next
<1> QED BY <1>1, <1>2, <1>3, <1>4, <1>5, <1>6, <1>7, <1>8, <1>a, QuietOrWrites

\* Whatever turns, cancellations, failed writes, crashes and notifications do, the
\* stored conversations evolve as SessionLog allows: AgentTurn implements it.
THEOREM ImplementsConversation == Spec => ConversationSpec
<1>1. Init => Conversation!Init
  BY DEF Init, Conversation!Init, Owner, OpenCalls, Retired, Outside
<1>2. IInv /\ IInv' /\ [Next]_vars => [Conversation!Next]_Conversation!vars
  BY ConversationStep
<1> QED BY <1>1, <1>2, Invariance, PTL DEF Spec, ConversationSpec, Conversation!Spec

\* The invariant of SessionLog, as AgentTurn implements it.
LEMMA ConversationInv == Spec => []Log!IInv
<1>1. Init => Log!IInv
  <2>1. Init => Log!Init /\ 0 \in 0 .. MaxToolIter + MaxNotifies
    BY LimitAssumption DEF Init, Log!Init, Owner, OpenCalls, Retired, Outside
  <2> QED BY <2>1, Log!InitInv
<1>2. Conversation!Next => Log!Next
  BY DEF Conversation!Next, Log!Next, Conversation!Begin, Log!Begin, Conversation!Say, Log!Say,
     Conversation!CallTools, Log!CallTools, Conversation!AnswerCalls, Log!AnswerCalls,
     Conversation!Notify, Log!Notify, Conversation!Forget, Log!Forget,
     Conversation!Summarise, Log!Summarise, Conversation!Leave, Log!Leave,
     Conversation!Add, Log!Add, Conversation!Msg, Log!Msg, Conversation!Cut, Log!Cut,
     Conversation!InsertAt, Log!InsertAt
<1>3. IInv /\ IInv' /\ Log!IInv /\ [Next]_vars => Log!IInv'
  <2>1. NoTurn \notin Turns /\ CompactionKeepRecent \in Nat
    BY TurnAssumption, LimitAssumption
  <2> SUFFICES ASSUME IInv, IInv', Log!IInv, [Next]_vars
               PROVE  Log!IInv'
    OBVIOUS
  <2>2. Log!Next
    BY <1>2, ConversationStep
  <2> QED BY <2>1, <2>2, Log!StepInv
<1> QED BY <1>1, <1>3, Invariance, PTL DEF Spec

\* Between two messages of a turn there are only messages of that turn,
\* notifications and summaries, for any number of turns, crashes and notifications.
THEOREM TurnsStayContiguous == Spec => []TurnsContiguous
<1>1. Log!IInv => TurnsContiguous
  BY DEF Log!IInv, Log!Serial, Log!Contiguous, TurnsContiguous, Contiguous
<1> QED BY <1>1, ConversationInv, PTL

\* A turn whose context was never cancelled ends with an event, on every path.
THEOREM EndsAreAnnounced == Spec => []NoSilentEnd
<1>1. Init => NoSilentEnd
  BY DEF Init, NoSilentEnd
<1>2. ASSUME IInv, NoSilentEnd, [Next]_vars
      PROVE  NoSilentEnd'
  <2> SUFFICES ASSUME NEW t \in Turns, pc'[t] \in {"unlock", "done"}, ~ cancelled'[t]
               PROVE  terminal'[t] # "none"
    BY DEF NoSilentEnd
  <2>1. Moves(t)
    BY <1>2, TurnMoves DEF IInv, Base
  <2> QED BY <1>2, <2>1 DEF Moves, NoSilentEnd
<1> QED BY <1>1, <1>2, Invariance, PTL DEF Spec

\* An announced answer and its prompt are in the store or were handed to a
\* compaction, whatever happens afterwards.
THEOREM AnswersAreDurable == Spec => []AnswerDurable
<1>1. Init => AllDurable
  BY DEF Init, AllDurable, Durable, Working, Critical
<1>2. IInv /\ AllDurable /\ [Next]_vars => AllDurable'
  BY DurableStep
<1>3. AllDurable => AnswerDurable
  BY DEF AllDurable, Durable, AnswerDurable, Kept
<1> QED BY <1>1, <1>2, <1>3, Invariance, PTL DEF Spec

-----------------------------------------------------------------------------
(* What the model is sent. *)

\* Suffixes, and sequences with a pair of calls and results behind them, are well
\* paired.
LEMMA SuffixPaired ==
  ASSUME NEW q \in Seq(Message), NEW n \in Nat, WellPaired(q)
  PROVE  WellPaired(Suffix(q, n))
<1> DEFINE x == Suffix(q, n)
<1>1. /\ x \in Seq(Message) /\ Len(x) \in Nat /\ Len(x) = IF n >= Len(q) THEN Len(q) ELSE n
      /\ \A i \in 1 .. Len(x) : x[i] = q[Len(q) - Len(x) + i]
  BY SuffixProperties
<1>2. Len(q) \in Nat
  BY LenProperties
<1> HIDE DEF x
<1>3. ASSUME NEW i \in 2 .. Len(x), x[i].kind = "results", x[i-1].kind = "calls"
      PROVE  x[i].turn = x[i-1].turn /\ x[i].iter = x[i-1].iter
  <2> DEFINE j == Len(q) - Len(x) + i
  <2>1. i \in 1 .. Len(x) /\ i - 1 \in 1 .. Len(x) /\ j \in 2 .. Len(q)
        /\ Len(q) - Len(x) + (i - 1) = j - 1
    BY <1>1, <1>2
  <2>2. x[i] = q[j]
    BY <1>1, <2>1
  <2>3. x[i-1] = q[j-1]
    BY <1>1, <2>1
  <2> HIDE DEF j
  <2> QED BY <1>3, <2>1, <2>2, <2>3 DEF WellPaired
<1>4. WellPaired(x)
  BY <1>3 DEF WellPaired
<1> QED BY <1>4 DEF x

LEMMA PairPaired ==
  ASSUME NEW q \in Seq(Message), NEW c \in Message, NEW r \in Message, WellPaired(q),
         c.kind = "calls", r.kind = "results", c.turn = r.turn, c.iter = r.iter
  PROVE  WellPaired(q \o <<c, r>>)
<1> DEFINE x == q \o <<c, r>>
<1>1. /\ Len(q) \in Nat /\ Len(x) = Len(q) + 2
      /\ \A i \in 1 .. Len(q) : x[i] = q[i]
      /\ x[Len(q) + 1] = c /\ x[Len(q) + 2] = r
  <2>1. <<c, r>> \in Seq(Message) /\ Len(<<c, r>>) = 2 /\ <<c, r>>[1] = c /\ <<c, r>>[2] = r
    OBVIOUS
  <2> DEFINE p == <<c, r>>
  <2>2. p \in Seq(Message) /\ Len(p) = 2 /\ p[1] = c /\ p[2] = r
    BY <2>1
  <2> HIDE DEF p
  <2>3. /\ Len(q) \in Nat /\ Len(q \o p) = Len(q) + Len(p)
        /\ \A i \in 1 .. Len(q) + Len(p) : (q \o p)[i] = IF i <= Len(q) THEN q[i] ELSE p[i - Len(q)]
    BY <2>2, ConcatProperties, LenProperties
  <2>4. Len(q) + 1 \in 1 .. Len(q) + Len(p) /\ ~ Len(q) + 1 <= Len(q) /\ (Len(q) + 1) - Len(q) = 1
    BY <2>2, <2>3
  <2>5. Len(q) + 2 \in 1 .. Len(q) + Len(p) /\ ~ Len(q) + 2 <= Len(q) /\ (Len(q) + 2) - Len(q) = 2
    BY <2>2, <2>3
  <2>6. (q \o p)[Len(q) + 1] = p[(Len(q) + 1) - Len(q)] /\ (q \o p)[Len(q) + 2] = p[(Len(q) + 2) - Len(q)]
    BY <2>3, <2>4, <2>5
  <2>7. \A i \in 1 .. Len(q) : i \in 1 .. Len(q) + Len(p) /\ i <= Len(q)
    BY <2>2, <2>3
  <2>8. (q \o p)[Len(q) + 1] = c /\ (q \o p)[Len(q) + 2] = r
    BY <2>2, <2>4, <2>5, <2>6
  <2> QED BY <2>2, <2>3, <2>7, <2>8 DEF p
<1> HIDE DEF x
<1>2. ASSUME NEW i \in 2 .. Len(x), x[i].kind = "results", x[i-1].kind = "calls"
      PROVE  x[i].turn = x[i-1].turn /\ x[i].iter = x[i-1].iter
  <2>1. CASE i <= Len(q)
    <3>1. i \in 2 .. Len(q) /\ i \in 1 .. Len(q) /\ i - 1 \in 1 .. Len(q)
      BY <1>1, <2>1
    <3>2. x[i] = q[i] /\ x[i-1] = q[i-1]
      BY <1>1, <3>1
    <3> QED BY <1>2, <3>1, <3>2 DEF WellPaired
  <2>2. CASE i = Len(q) + 1
    BY <1>1, <1>2, <2>2
  <2>3. CASE i = Len(q) + 2
    <3>1. i - 1 = Len(q) + 1
      BY <1>1, <2>3
    <3> QED BY <1>1, <2>3, <3>1
  <2> QED BY <1>1, <2>1, <2>2, <2>3
<1>3. WellPaired(x)
  BY <1>2 DEF WellPaired
<1> QED BY <1>3 DEF x

\* The history a turn works on is well paired, unless the session is marked.
HistoryPaired ==
  \A t \in Turns : pc[t] \in Looping /\ session[t] \notin raced => WellPaired(history[t])

LEMMA HistoryStep ==
  ASSUME IInv, Log!IInv, HistoryPaired, [Next]_vars
  PROVE  HistoryPaired'
<1> SUFFICES ASSUME NEW t \in Turns, pc'[t] \in Looping, session'[t] \notin raced'
             PROVE  WellPaired(history'[t])
  BY DEF HistoryPaired
<1>a. /\ log \in [Sessions -> Seq(Message)] /\ history \in [Turns -> Seq(Message)]
      /\ iteration \in [Turns -> 0 .. MaxToolIter - 1]
  BY DEF IInv, Base, TypeOK
<1>b. Moves(t)
  BY TurnMoves DEF IInv, Base
<1>c. raced \subseteq raced'
  BY OtherSteps DEF IInv, Base, Appends, CountMessages, SelectOld, DeleteOld, InsertSummary, store
<1>d. pc[t] # "idle" => session[t] \in Sessions /\ session'[t] = session[t] /\ session[t] \notin raced
  BY <1>b, <1>c DEF Moves, IInv, Base, SessionKnown
<1>1. CASE history'[t] = history[t] /\ pc[t] \in Looping
  BY <1>1, <1>d DEF HistoryPaired, Looping
<1>2. CASE pc[t] = "load" /\ history'[t] = Suffix(log[session[t]], RecentMessagesLimit)
  <2>1. WellPaired(log[session[t]])
    BY <1>2, <1>d DEF Log!IInv, Log!Serial, Log!WellPaired, WellPaired
  <2> QED BY <1>2, <1>a, <1>d, <2>1, SuffixPaired, LimitAssumption
<1>3. CASE /\ pc[t] = "results"
           /\ history'[t] = history[t] \o <<Msg("calls", t, iteration[t]), Msg("results", t, iteration[t])>>
  <2>1. WellPaired(history[t])
    BY <1>3, <1>d DEF HistoryPaired, Looping
  <2> DEFINE c == Msg("calls", t, iteration[t])
             r == Msg("results", t, iteration[t])
  <2>2. iteration[t] \in Nat
    BY <1>a, LimitAssumption
  <2>3. /\ c \in Message /\ r \in Message /\ c.kind = "calls" /\ r.kind = "results"
        /\ c.turn = r.turn /\ c.iter = r.iter
    BY <2>2, MsgType DEF Kinds
  <2> HIDE DEF c, r
  <2>4. WellPaired(history[t] \o <<c, r>>)
    BY <1>a, <2>1, <2>3, PairPaired
  <2> QED BY <1>3, <2>4 DEF c, r
<1> QED BY <1>1, <1>2, <1>3, <1>b DEF Moves

\* A message is the record of its fields.
LEMMA MsgFields ==
  ASSUME NEW m \in Message
  PROVE  m = Msg(m.kind, m.turn, m.iter)
BY DEF Message, Msg

\* A well-paired history stays well formed after selectHistory and
\* sanitizeToolPairs, whatever the budget lets through.
LEMMA SelectionPaired ==
  ASSUME NEW t \in Turns, history[t] \in Seq(Message), WellPaired(history[t]),
         NEW n \in 0 .. Len(history[t])
  PROVE  LET h == Suffix(history[t], n)
             kept == SelectHistory(t, n)
         IN \A i \in kept :
              /\ h[i].kind = "calls" =>
                   i + 1 \in kept /\ h[i+1] = Msg("results", h[i].turn, h[i].iter)
              /\ h[i].kind = "results" =>
                   i - 1 \in kept /\ h[i-1] = Msg("calls", h[i].turn, h[i].iter)
<1> DEFINE h == Suffix(history[t], n)
           kept == SelectHistory(t, n)
<1>1. h \in Seq(Message) /\ Len(h) = n /\ n \in Nat
  <2>1. Len(history[t]) \in Nat /\ n \in Nat
    BY LenProperties
  <2> QED BY <2>1, SuffixProperties
<1>2. WellPaired(h)
  BY <1>1, SuffixPaired
<1>3. kept = {i \in 1 .. n : KeptAt(h, i)}
  BY DEF SelectHistory
<1>4. \A i \in 1 .. n : h[i] \in Message
  BY <1>1, ElementOfSeq
<1> HIDE DEF h, kept
<1>5. ASSUME NEW i \in kept, h[i].kind = "calls"
      PROVE  i + 1 \in kept /\ h[i+1] = Msg("results", h[i].turn, h[i].iter)
  <2>1. i \in 1 .. n /\ i < n /\ h[i+1].kind = "results"
    BY <1>1, <1>3, <1>5 DEF KeptAt
  <2>2. i + 1 \in 2 .. n /\ i + 1 \in 1 .. n /\ (i + 1) - 1 = i /\ i + 1 > 1
    BY <1>1, <2>1
  <2>3. h[i+1].turn = h[i].turn /\ h[i+1].iter = h[i].iter
    BY <1>1, <1>2, <1>5, <2>1, <2>2 DEF WellPaired
  <2>4. KeptAt(h, i + 1)
    BY <1>5, <2>1, <2>2 DEF KeptAt
  <2> QED BY <1>3, <1>4, <2>1, <2>2, <2>3, <2>4, MsgFields
<1>6. ASSUME NEW i \in kept, h[i].kind = "results"
      PROVE  i - 1 \in kept /\ h[i-1] = Msg("calls", h[i].turn, h[i].iter)
  <2>1. i \in 1 .. n /\ i > 1 /\ h[i-1].kind = "calls"
    BY <1>1, <1>3, <1>6 DEF KeptAt
  <2>2. i \in 2 .. n /\ i - 1 \in 1 .. n /\ (i - 1) + 1 = i /\ i - 1 < n
    BY <1>1, <2>1
  <2>3. h[i].turn = h[i-1].turn /\ h[i].iter = h[i-1].iter
    BY <1>1, <1>2, <1>6, <2>1, <2>2 DEF WellPaired
  <2>4. KeptAt(h, i - 1)
    BY <1>1, <1>6, <2>1, <2>2 DEF KeptAt
  <2> QED BY <1>3, <1>4, <2>1, <2>2, <2>3, <2>4, MsgFields
<1> QED BY <1>5, <1>6 DEF h, kept

\* Every request of every turn pairs tool calls with their own results, unless a
\* compaction of its session was raced.
THEOREM RequestsArePaired == Spec => []ModelInputPaired
<1>1. Init => HistoryPaired
  BY DEF Init, HistoryPaired, Looping
<1>2. IInv /\ Log!IInv /\ HistoryPaired /\ [Next]_vars => HistoryPaired'
  BY HistoryStep
<1>3. IInv /\ HistoryPaired => ModelInputPaired
  <2> SUFFICES ASSUME IInv, HistoryPaired
               PROVE  ModelInputPaired
    OBVIOUS
  <2>1. \A t \in Turns : history[t] \in Seq(Message)
    BY DEF IInv, Base, TypeOK
  <2> QED BY <2>1, SelectionPaired DEF HistoryPaired, ModelInputPaired, Looping
<1> QED BY <1>1, <1>2, <1>3, Invariance, ConversationInv, PTL DEF Spec

-----------------------------------------------------------------------------
(* The prompt. *)

\* Until the history is loaded the prompt is in the conversation, with nothing but
\* notifications behind it, and no more than there have been; a compaction that
\* inserts its summary does so in front of the messages it kept.  From then on the
\* prompt is in the history, and the turn's calls and results come behind it.
NearEnd(l, m, d) ==
  \E i \in 1 .. Len(l) :
    l[i] = m /\ Len(l) - i <= d /\ \A j \in i + 1 .. Len(l) : l[j].kind = "notify"
PromptIn(h, t) ==
  \E k \in 1 .. Len(h) :
    h[k] = Msg("user", t, 0) /\ \A i \in k + 1 .. Len(h) : AfterPrompt(h[i], t)
HasPrompt(t) ==
  /\ pc[t] \in Compacting => NearEnd(log[session[t]], Msg("user", t, 0), notifies)
  /\ pc[t] = "summary" => skipped[t] + CompactionKeepRecent <= Len(log[session[t]])
  /\ pc[t] \in Looping => PromptIn(history[t], t)
AllHavePrompt == \A t \in Turns : HasPrompt(t)

\* A message near the end stays near it when one is appended, when older ones are
\* cut and when one is inserted in front of the newest, and is in the suffix.
LEMMA NearAppend ==
  ASSUME NEW S, NEW l \in Seq(S), NEW m \in S, NEW x \in S, NEW d \in Nat
  PROVE  /\ NearEnd(l, m, d) /\ x.kind = "notify" => NearEnd(Append(l, x), m, d + 1)
         /\ NearEnd(Append(l, m), m, d)
<1>1. /\ Len(l) \in Nat /\ Len(Append(l, x)) = Len(l) + 1 /\ \A i \in 1 .. Len(l) : Append(l, x)[i] = l[i]
      /\ Append(l, x)[Len(l) + 1] = x
      /\ Len(Append(l, m)) = Len(l) + 1 /\ Append(l, m)[Len(l) + 1] = m
  BY AppendProperties, LenProperties
<1>2. ASSUME NEW i \in 1 .. Len(l), l[i] = m, Len(l) - i <= d, x.kind = "notify",
             \A j \in i + 1 .. Len(l) : l[j].kind = "notify"
      PROVE  NearEnd(Append(l, x), m, d + 1)
  <2>1. i \in 1 .. Len(l) + 1 /\ Len(l) + 1 - i <= d + 1 /\ Append(l, x)[i] = m
    BY <1>1, <1>2
  <2>2. ASSUME NEW j \in i + 1 .. Len(l) + 1
        PROVE  Append(l, x)[j].kind = "notify"
    <3>1. CASE j = Len(l) + 1
      BY <1>1, <1>2, <3>1
    <3>2. CASE j # Len(l) + 1
      <4>1. j \in i + 1 .. Len(l) /\ j \in 1 .. Len(l)
        BY <1>1, <3>2
      <4> QED BY <1>1, <1>2, <4>1
    <3> QED BY <3>1, <3>2
  <2> DEFINE r == Append(l, x)
  <2>3. i \in 1 .. Len(r) /\ r[i] = m /\ Len(r) - i <= d + 1 /\ \A j \in i + 1 .. Len(r) : r[j].kind = "notify"
    BY <1>1, <2>1, <2>2
  <2> HIDE DEF r
  <2>4. NearEnd(r, m, d + 1)
    BY <2>3 DEF NearEnd
  <2> QED BY <2>4 DEF r
<1>3. NearEnd(Append(l, m), m, d)
  <2>1. Len(l) + 1 \in 1 .. Len(l) + 1 /\ Len(l) + 1 - (Len(l) + 1) <= d
        /\ Len(l) + 1 + 1 .. Len(l) + 1 = {}
    BY <1>1
  <2> QED BY <1>1, <2>1 DEF NearEnd
<1> QED BY <1>2, <1>3 DEF NearEnd

LEMMA NearCut ==
  ASSUME NEW S, NEW l \in Seq(S), NEW m, NEW d \in Nat, NEW k \in Nat, NEW n \in Nat,
         NEW keep \in Nat, k + n + keep <= Len(l), d < keep
  PROVE  NearEnd(l, m, d) => NearEnd(Cut(l, k, n), m, d)
<1>0. Len(l) \in Nat
  BY LenProperties
<1>a. k + n <= Len(l)
  BY <1>0
<1>1. /\ Len(Cut(l, k, n)) = Len(l) - n
      /\ \A i \in 1 .. Len(l) - n : Cut(l, k, n)[i] = IF i <= k THEN l[i] ELSE l[i + n]
  <2>1. \A q \in Seq(S) : k + n <= Len(q) =>
          /\ Len(Cut(q, k, n)) = Len(q) - n
          /\ \A i \in 1 .. Len(q) - n : Cut(q, k, n)[i] = IF i <= k THEN q[i] ELSE q[i + n]
    BY CutProperties
  <2> QED BY <1>a, <2>1
<1>2. SUFFICES ASSUME NEW i \in 1 .. Len(l), l[i] = m, Len(l) - i <= d,
                      \A j \in i + 1 .. Len(l) : l[j].kind = "notify"
               PROVE  NearEnd(Cut(l, k, n), m, d)
  BY DEF NearEnd
<1>3. i - n \in 1 .. Len(l) - n /\ ~ i - n <= k /\ (i - n) + n = i /\ (Len(l) - n) - (i - n) <= d
  BY <1>0, <1>2
<1>4. Cut(l, k, n)[i - n] = l[(i - n) + n]
  BY <1>1, <1>3
<1>5. ASSUME NEW j \in (i - n) + 1 .. Len(l) - n
      PROVE  Cut(l, k, n)[j].kind = "notify"
  <2>1. j \in 1 .. Len(l) - n /\ ~ j <= k /\ j + n \in i + 1 .. Len(l)
    BY <1>0, <1>3
  <2>2. Cut(l, k, n)[j] = l[j + n]
    BY <1>1, <2>1
  <2> QED BY <1>2, <2>1, <2>2
<1> QED BY <1>1, <1>2, <1>3, <1>4, <1>5 DEF NearEnd

LEMMA NearInsert ==
  ASSUME NEW S, NEW l \in Seq(S), NEW m, NEW x \in S, NEW d \in Nat, NEW k \in Nat,
         NEW keep \in Nat, k + keep <= Len(l), d < keep, NEW p \in 1 .. k + 1, NearEnd(l, m, d)
  PROVE  NearEnd(InsertAt(l, p, x), m, d)
<1> DEFINE r == InsertAt(l, p, x)
<1>0. Len(l) \in Nat
    BY LenProperties
<1>a. p \in 1 .. Len(l) + 1
  BY <1>0
<1>1. /\ Len(r) = Len(l) + 1
      /\ \A i \in 1 .. Len(l) + 1 : r[i] = IF i < p THEN l[i] ELSE IF i = p THEN x ELSE l[i - 1]
  BY <1>a, InsertProperties DEF NearEnd
<1>2. PICK i \in 1 .. Len(l) :
        l[i] = m /\ Len(l) - i <= d /\ \A j \in i + 1 .. Len(l) : l[j].kind = "notify"
  BY DEF NearEnd
<1>3. i + 1 \in 1 .. Len(l) + 1 /\ ~ i + 1 < p /\ i + 1 # p /\ (i + 1) - 1 = i
      /\ (Len(l) + 1) - (i + 1) <= d
  BY <1>0, <1>2
<1> HIDE DEF r
<1>4. r[i + 1] = l[(i + 1) - 1]
  BY <1>1, <1>3
<1>5. ASSUME NEW j \in (i + 1) + 1 .. Len(l) + 1
      PROVE  r[j].kind = "notify"
  <2>1. j \in 1 .. Len(l) + 1 /\ ~ j < p /\ j # p /\ j - 1 \in i + 1 .. Len(l)
    BY <1>0, <1>2, <1>3
  <2>2. r[j] = l[j - 1]
    BY <1>1, <2>1
  <2> QED BY <1>2, <2>1, <2>2
<1>6. NearEnd(r, m, d)
  BY <1>1, <1>2, <1>3, <1>4, <1>5 DEF NearEnd
<1> QED BY <1>6 DEF r

LEMMA NearSuffix ==
  ASSUME NEW S, NEW l \in Seq(S), NEW m, NEW d \in Nat, NEW n \in Nat, d < n, NearEnd(l, m, d)
  PROVE  NearEnd(Suffix(l, n), m, d)
<1> DEFINE x == Suffix(l, n)
<1>0. Len(l) \in Nat
  BY LenProperties
<1>1. /\ x \in Seq(S) /\ Len(x) \in Nat /\ Len(x) = IF n >= Len(l) THEN Len(l) ELSE n
      /\ \A i \in 1 .. Len(x) : x[i] = l[Len(l) - Len(x) + i]
  BY SuffixProperties
<1> HIDE DEF x
<1>3. PICK i \in 1 .. Len(l) :
        l[i] = m /\ Len(l) - i <= d /\ \A j \in i + 1 .. Len(l) : l[j].kind = "notify"
  BY DEF NearEnd
<1> DEFINE k == i - (Len(l) - Len(x))
<1>4. k \in 1 .. Len(x) /\ Len(l) - Len(x) + k = i
  <2>1. Len(x) = Len(l) \/ Len(x) = n
    BY <1>0, <1>1
  <2>2. Len(x) <= Len(l) /\ Len(l) - Len(x) < i
    BY <1>0, <1>1, <1>3, <2>1
  <2>3. Len(x) \in Nat /\ i \in Nat /\ i <= Len(l)
    BY <1>0, <1>1, <1>3
  <2> QED BY <1>0, <2>2, <2>3
<1>5. x[k] = l[Len(l) - Len(x) + k]
  BY <1>1, <1>4
<1> HIDE DEF k
<1>6. Len(x) - k <= d
  BY <1>0, <1>1, <1>3, <1>4
<1>7. ASSUME NEW j \in k + 1 .. Len(x)
      PROVE  x[j].kind = "notify"
  <2>a. Len(x) \in Nat /\ Len(l) \in Nat /\ k \in Int /\ 1 <= k /\ j \in Int /\ k + 1 <= j /\ j <= Len(x)
    BY <1>0, <1>1, <1>4
  <2>b. Len(l) - Len(x) + j \in Int /\ Len(l) - Len(x) + j <= Len(l) /\ i + 1 <= Len(l) - Len(x) + j
    BY <1>4, <2>a
  <2>1. j \in 1 .. Len(x) /\ Len(l) - Len(x) + j \in i + 1 .. Len(l)
    BY <2>a, <2>b
  <2> QED BY <1>1, <1>3, <2>1
<1>8. NearEnd(x, m, d)
  BY <1>3, <1>4, <1>5, <1>6, <1>7 DEF NearEnd
<1> QED BY <1>8 DEF x

\* The prompt stays in a history to which the turn adds a pair.
LEMMA PromptStays ==
  ASSUME NEW S, NEW h \in Seq(S), NEW p \in Seq(S), NEW t, PromptIn(h, t),
         \A i \in 1 .. Len(p) : AfterPrompt(p[i], t)
  PROVE  PromptIn(h \o p, t)
<1>1. /\ Len(h \o p) = Len(h) + Len(p) /\ Len(h) \in Nat /\ Len(p) \in Nat
      /\ \A i \in 1 .. Len(h) + Len(p) : (h \o p)[i] = IF i <= Len(h) THEN h[i] ELSE p[i - Len(h)]
  BY ConcatProperties, LenProperties
<1>2. PICK k \in 1 .. Len(h) :
        h[k] = Msg("user", t, 0) /\ \A i \in k + 1 .. Len(h) : AfterPrompt(h[i], t)
  BY DEF PromptIn
<1>3. k \in 1 .. Len(h) + Len(p) /\ k <= Len(h)
  BY <1>1
<1>4. ASSUME NEW i \in k + 1 .. Len(h) + Len(p)
      PROVE  AfterPrompt((h \o p)[i], t)
  <2>1. CASE i <= Len(h)
    <3>1. i \in k + 1 .. Len(h) /\ i \in 1 .. Len(h) + Len(p)
      BY <1>1, <2>1
    <3>2. (h \o p)[i] = h[i]
      BY <1>1, <2>1, <3>1
    <3> QED BY <1>2, <3>1, <3>2
  <2>2. CASE ~ i <= Len(h)
    <3>1. i - Len(h) \in 1 .. Len(p) /\ i \in 1 .. Len(h) + Len(p)
      BY <1>1, <2>2
    <3>2. (h \o p)[i] = p[i - Len(h)]
      BY <1>1, <2>2, <3>1
    <3> QED BY <3>1, <3>2
  <2> QED BY <2>1, <2>2
<1>5. (h \o p)[k] = Msg("user", t, 0)
  BY <1>1, <1>2, <1>3
<1> QED BY <1>1, <1>3, <1>4, <1>5 DEF PromptIn

LEMMA PlaceInSuffix ==
  ASSUME NEW a \in Nat, NEW k \in 1 .. a, NEW n \in (a - k) + 1 .. a
  PROVE  n - (a - k) \in 1 .. n /\ a - n + (n - (a - k)) = k
OBVIOUS

\* sanitizeToolPairs keeps a prompt that the budget reaches.
LEMMA PromptKept ==
  ASSUME NEW t, history[t] \in Seq(Message), NEW k \in 1 .. Len(history[t]),
         history[t][k] = Msg("user", t, 0), NEW n \in (Len(history[t]) - k) + 1 .. Len(history[t])
  PROVE  n - (Len(history[t]) - k) \in SelectHistory(t, n)
<1> DEFINE h == history[t]
           x == Suffix(h, n)
           i == n - (Len(h) - k)
<1>1. Len(h) \in Nat /\ n \in Nat /\ n <= Len(h)
  BY LenProperties
<1>2. /\ Len(x) = n
      /\ \A j \in 1 .. n : x[j] = h[Len(h) - n + j]
  <2>1. /\ Len(x) = IF n >= Len(h) THEN Len(h) ELSE n
        /\ \A j \in 1 .. Len(x) : x[j] = h[Len(h) - Len(x) + j]
    BY <1>1, SuffixProperties
  <2> HIDE DEF x
  <2>2. Len(x) = n
    BY <1>1, <2>1
  <2> QED BY <2>1, <2>2
<1> HIDE DEF x
<1>3. i \in 1 .. n /\ Len(h) - n + i = k
  BY <1>1, PlaceInSuffix
<1> HIDE DEF i
<1>4. x[i] = Msg("user", t, 0)
  BY <1>2, <1>3
<1>5. x[i].kind = "user"
  BY <1>4 DEF Msg
<1>6. KeptAt(x, i)
  BY <1>5 DEF KeptAt
<1>7. i \in SelectHistory(t, n)
  BY <1>3, <1>6 DEF SelectHistory, x
<1> QED BY <1>7 DEF i

\* While a turn compacts its conversation, only it and SendToSession touch it.
LEMMA CompactingStep ==
  ASSUME IInv, [Next]_vars, NEW t \in Turns, pc[t] \in Compacting, pc'[t] \in Compacting \cup Looping
  PROVE  LET s == session[t] IN
         \/ log'[s] = log[s] /\ notifies' = notifies
              /\ (pc'[t] = "summary" => pc[t] = "summary" /\ skipped'[t] = skipped[t])
         \/ /\ notifies' = notifies + 1 /\ pc'[t] = pc[t] /\ skipped'[t] = skipped[t]
            /\ log'[s] = log[s] \/ \E m \in Message : m.kind = "notify" /\ log'[s] = Append(log[s], m)
         \/ /\ pc[t] = "delete" /\ notifies' = notifies /\ skipped'[t] = skipped[t]
            /\ log'[s] = Cut(log[s], skipped[t], Len(oldMessages[t]))
         \/ /\ pc[t] = "summary" /\ pc'[t] = "load" /\ notifies' = notifies
            /\ \E p \in 1 .. skipped[t] + 1 : log'[s] = InsertAt(log[s], p, Msg("summary", t, 0))
<1> USE DEF At, Goto, store, caller, loop, compaction, bounds, Append2Log
<1> DEFINE s == session[t]
<1>a. /\ log \in [Sessions -> Seq(Message)] /\ pc \in [Turns -> Outside \cup Critical \cup Ended]
      /\ skipped \in [Turns -> Nat] /\ session \in [Turns -> Sessions \cup {NoSession}]
      /\ notifies \in 0 .. MaxNotifies
  BY DEF IInv, Base, TypeOK
<1>b. pc[t] \in Critical /\ s \in Sessions
  BY DEF IInv, Base, SessionKnown, Compacting, Critical
\* A turn that writes under a lock is this turn or writes elsewhere.
<1>c. \A u \in Turns : u # t /\ pc[u] \in Critical => session[u] # s
  BY <1>b DEF IInv, Base, LockOwnership
<1>1. ASSUME NEW u \in Turns, TurnStep(u), u # t
      PROVE  log'[s] = log[s] /\ notifies' = notifies /\ pc'[t] = pc[t] /\ skipped'[t] = skipped[t]
  <2>1. CASE EnsureSession(u) \/ ResolveSession(u)
    BY <1>1, <1>a, <2>1 DEF EnsureSession, ResolveSession, GetSession, CreateSession
  <2>2. CASE LockSession(u) \/ PersistUser(u) \/ Unlock(u) \/ RunTools(u)
    BY <1>1, <1>a, <1>b, <1>c, <2>2 DEF LockSession, PersistUser, Unlock, RunTools, Critical
  <2>3. CASE CountMessages(u) \/ SelectOld(u) \/ LoadHistory(u) \/ TouchSession(u) \/ ReportExhausted(u)
    BY <1>1, <1>a, <2>3 DEF CountMessages, SelectOld, LoadHistory, TouchSession, ReportExhausted, Finish
  <2>4. CASE Chat(u) \/ Verify(u)
    BY <1>1, <1>a, <2>4 DEF Chat, Verify, Finish, NextIteration
  <2>5. CASE DeleteOld(u) \/ InsertSummary(u)
    <3>1. session[u] # s
      BY <1>1, <1>c, <2>5 DEF DeleteOld, InsertSummary, Critical
    <3> QED BY <1>1, <1>a, <1>b, <2>5, <3>1 DEF DeleteOld, InsertSummary
  <2>6. CASE PersistAnswer(u) \/ PersistCalls(u)
    <3>1. session[u] # s
      BY <1>1, <1>c, <2>6 DEF PersistAnswer, PersistCalls, Critical
    <3> QED BY <1>1, <1>a, <1>b, <2>6, <3>1 DEF PersistAnswer, PersistCalls, Finish
  <2>7. CASE PersistResults(u)
    <3>1. session[u] # s
      BY <1>1, <1>c, <2>7 DEF PersistResults, Critical
    <3> QED BY <1>1, <1>a, <1>b, <2>7, <3>1 DEF PersistResults, Finish, NextIteration
  <2> QED BY <1>1, <2>1, <2>2, <2>3, <2>4, <2>5, <2>6, <2>7 DEF TurnStep
<1>2. CASE CountMessages(t) \/ SelectOld(t) \/ LoadHistory(t)
  BY <1>2, <1>a DEF CountMessages, SelectOld, LoadHistory, Finish
<1>3. CASE DeleteOld(t)
  BY <1>3, <1>a, <1>b DEF DeleteOld
<1>4. CASE InsertSummary(t)
  BY <1>4, <1>a, <1>b DEF InsertSummary
<1>5. ASSUME TurnStep(t)
      PROVE  CountMessages(t) \/ SelectOld(t) \/ LoadHistory(t) \/ DeleteOld(t) \/ InsertSummary(t)
  BY <1>5 DEF TurnStep, Compacting, EnsureSession, ResolveSession, LockSession, PersistUser, Chat,
     PersistAnswer, TouchSession, Verify, PersistCalls, RunTools, PersistResults, ReportExhausted, Unlock
<1>6. ASSUME NEW q \in Sessions, SendToSession(q)
      PROVE  /\ notifies' = notifies + 1 /\ pc'[t] = pc[t] /\ skipped'[t] = skipped[t]
             /\ log'[s] = log[s] \/ \E m \in Message : m.kind = "notify" /\ log'[s] = Append(log[s], m)
  <2>1. Msg("notify", NoTurn, notifies) \in Message /\ Msg("notify", NoTurn, notifies).kind = "notify"
    <3>1. notifies \in Nat
      BY <1>a, LimitAssumption
    <3>2. Msg("notify", NoTurn, notifies).kind = "notify"
      BY DEF Msg
    <3> QED BY <3>1, <3>2, MsgType DEF Kinds
  <2>2. log' = [log EXCEPT ![q] = Append(@, Msg("notify", NoTurn, notifies))]
    BY <1>6 DEF SendToSession
  <2>3. log'[s] = log[s] \/ log'[s] = Append(log[s], Msg("notify", NoTurn, notifies))
    BY <1>a, <1>b, <2>2
  <2> QED BY <1>6, <2>1, <2>3 DEF SendToSession
<1>7. ASSUME NEW u \in Turns, NEW q \in Sessions,
             CallDirect(u, q) \/ RunAndDeliver(u, q) \/ \E a \in Adapters : HandleMessage(u, q, a)
      PROVE  log' = log /\ notifies' = notifies /\ pc'[t] = pc[t] /\ skipped'[t] = skipped[t]
  BY <1>7, <1>a DEF CallDirect, RunAndDeliver, HandleMessage, Compacting
<1>8. ASSUME NEW u \in Turns, Cancel(u)
      PROVE  log' = log /\ notifies' = notifies /\ pc'[t] = pc[t] /\ skipped'[t] = skipped[t]
  BY <1>8 DEF Cancel
<1>9. ~ Crash
  BY <1>a DEF Crash, Compacting, Looping, Ended
<1>10. CASE UNCHANGED vars
  BY <1>10 DEF vars
<1>11. CASE Next
  BY <1>1, <1>2, <1>3, <1>4, <1>5, <1>6, <1>7, <1>8, <1>9, <1>11 DEF Next
<1> QED BY <1>10, <1>11

LEMMA PromptStep ==
  ASSUME MaxNotifies < CompactionKeepRecent, MaxNotifies < RecentMessagesLimit,
         IInv, IInv', AllHavePrompt, [Next]_vars
  PROVE  AllHavePrompt'
<1> SUFFICES ASSUME NEW t \in Turns
             PROVE  HasPrompt(t)'
  BY DEF AllHavePrompt
<1> DEFINE s == session[t]
           l == log[s]
           m == Msg("user", t, 0)
<1>a. /\ log \in [Sessions -> Seq(Message)] /\ session \in [Turns -> Sessions \cup {NoSession}]
      /\ skipped \in [Turns -> Nat] /\ history \in [Turns -> Seq(Message)]
      /\ oldMessages \in [Turns -> Seq(Message)] /\ notifies \in 0 .. MaxNotifies
      /\ notifies' \in 0 .. MaxNotifies /\ log' \in [Sessions -> Seq(Message)]
      /\ iteration \in [Turns -> 0 .. MaxToolIter - 1]
      /\ pc \in [Turns -> Outside \cup Critical \cup Ended]
  BY DEF IInv, Base, TypeOK
<1>b. HasPrompt(t) /\ Knows(t) /\ Moves(t)
  BY TurnMoves DEF AllHavePrompt, IInv, Base, CompactionKnows
<1>c. pc[t] # "idle" => s \in Sessions /\ session'[t] = s
  BY <1>b DEF Moves, IInv, Base, SessionKnown
<1>d. m \in Message
  BY MsgType DEF Kinds
<1>e. notifies \in Nat /\ notifies' \in Nat /\ notifies < CompactionKeepRecent
      /\ notifies < RecentMessagesLimit /\ CompactionKeepRecent \in Nat /\ RecentMessagesLimit \in Nat
  BY <1>a, LimitAssumption
<1>f. pc'[t] \in Compacting => pc[t] \in Compacting \cup {"append"}
  BY <1>b DEF Moves
<1>1. ASSUME pc[t] \in Compacting, pc'[t] \in Compacting
      PROVE  HasPrompt(t)'
  <2>0. s \in Sessions /\ session'[t] = s /\ l \in Seq(Message) /\ Len(l) \in Nat
        /\ NearEnd(l, m, notifies)
    BY <1>1, <1>a, <1>b, <1>c, LenProperties DEF HasPrompt, Compacting
  <2>1. NearEnd(log'[s], m, notifies')
        /\ (pc'[t] = "summary" => skipped'[t] + CompactionKeepRecent <= Len(log'[s]))
    <3>1. CASE log'[s] = l /\ notifies' = notifies
                 /\ (pc'[t] = "summary" => pc[t] = "summary" /\ skipped'[t] = skipped[t])
      BY <1>b, <2>0, <3>1 DEF HasPrompt
    <3>2. CASE /\ notifies' = notifies + 1 /\ pc'[t] = pc[t] /\ skipped'[t] = skipped[t]
               /\ log'[s] = l \/ \E x \in Message : x.kind = "notify" /\ log'[s] = Append(l, x)
      <4>1. CASE log'[s] = l
        <5>1. NearEnd(l, m, notifies + 1)
          <6>1. PICK i \in 1 .. Len(l) :
                  l[i] = m /\ Len(l) - i <= notifies /\ \A j \in i + 1 .. Len(l) : l[j].kind = "notify"
            BY <2>0 DEF NearEnd
          <6>2. Len(l) - i <= notifies + 1
            BY <1>e, <2>0, <6>1
          <6> QED BY <6>1, <6>2 DEF NearEnd
        <5> QED BY <1>b, <3>2, <4>1, <5>1 DEF HasPrompt
      <4>2. ASSUME NEW x \in Message, x.kind = "notify", log'[s] = Append(l, x)
            PROVE  NearEnd(log'[s], m, notifies') /\ Len(log'[s]) = Len(l) + 1
        <5> HIDE DEF l, m, s
        <5>1. NearEnd(Append(l, x), m, notifies + 1)
          BY <1>d, <1>e, <2>0, <4>2, NearAppend
        <5>2. Len(Append(l, x)) = Len(l) + 1
          BY <2>0, AppendProperties
        <5> QED BY <3>2, <4>2, <5>1, <5>2
      <4>3. Len(log'[s]) = Len(l) + 1 /\ pc[t] = "summary" =>
              skipped[t] + CompactionKeepRecent <= Len(log'[s])
        BY <1>a, <1>b, <1>e, <2>0 DEF HasPrompt
      <4> QED BY <3>2, <4>1, <4>2, <4>3
    <3>3. CASE /\ pc[t] = "delete" /\ notifies' = notifies /\ skipped'[t] = skipped[t]
               /\ log'[s] = Cut(l, skipped[t], Len(oldMessages[t]))
      <4> DEFINE k == skipped[t]
                 n == Len(oldMessages[t])
                 keep == CompactionKeepRecent
                 M == Message
      <4>1. k \in Nat /\ n \in Nat /\ k + n + keep <= Len(l) /\ keep \in Nat /\ notifies < keep
            /\ l \in Seq(M)
        BY <1>a, <1>b, <1>e, <2>0, <3>3, LenProperties DEF Knows
      <4>2. log'[s] = Cut(l, k, n) /\ skipped'[t] = k /\ NearEnd(l, m, notifies)
        BY <2>0, <3>3
      <4> HIDE DEF l, k, n, keep, m, M, s
      <4>3. NearEnd(Cut(l, k, n), m, notifies)
        BY <1>e, <4>1, <4>2, NearCut
      <4>4. k + n <= Len(l) /\ Len(l) \in Nat
        BY <2>0, <4>1
      <4>6. Len(Cut(l, k, n)) = Len(l) - n
        BY <4>1, <4>4, CutLength
      <4>7. k + keep <= Len(log'[s])
        BY <4>1, <4>2, <4>4, <4>6
      <4> QED BY <3>3, <4>2, <4>3, <4>7 DEF keep
    <3>4. ASSUME pc[t] = "summary", pc'[t] = "load", notifies' = notifies,
                 NEW p \in 1 .. skipped[t] + 1, log'[s] = InsertAt(l, p, Msg("summary", t, 0))
          PROVE  NearEnd(log'[s], m, notifies')
      <4> DEFINE x == Msg("summary", t, 0)
                 k == skipped[t]
                 keep == CompactionKeepRecent
                 M == Message
      <4>1. k \in Nat /\ k + keep <= Len(l) /\ keep \in Nat /\ notifies < keep /\ l \in Seq(M)
            /\ x \in M /\ p \in 1 .. k + 1 /\ NearEnd(l, m, notifies)
        BY <1>a, <1>b, <1>e, <2>0, <3>4, MsgType DEF HasPrompt, Kinds
      <4>2. log'[s] = InsertAt(l, p, x)
        BY <3>4
      <4> HIDE DEF l, k, x, keep, m, M, s
      <4>3. NearEnd(InsertAt(l, p, x), m, notifies)
        BY <1>e, <4>1, NearInsert
      <4> QED BY <3>4, <4>2, <4>3
    <3> QED BY <1>1, <3>1, <3>2, <3>3, <3>4, CompactingStep
  <2>2. pc'[t] \notin Looping
    BY <1>1 DEF Compacting, Looping
  <2> QED BY <2>0, <2>1, <2>2 DEF HasPrompt
<1>2. ASSUME pc'[t] \in Looping
      PROVE  HasPrompt(t)'
  <2>1. PromptIn(history'[t], t)
    <3>1. CASE history'[t] = history[t] /\ pc[t] \in Looping
      BY <1>b, <3>1 DEF HasPrompt
    <3>2. CASE pc[t] = "load" /\ history'[t] = Suffix(l, RecentMessagesLimit)
      <4> DEFINE M == Message
                 n == RecentMessagesLimit
      <4>1. l \in Seq(M) /\ NearEnd(l, m, notifies) /\ n \in Nat /\ notifies < n
        BY <1>a, <1>b, <1>c, <1>e, <3>2 DEF HasPrompt, Compacting
      <4> HIDE DEF l, M, n, m
      <4>2. NearEnd(Suffix(l, n), m, notifies)
        BY <1>e, <4>1, NearSuffix
      <4>3. history'[t] = Suffix(l, n)
        BY <3>2 DEF n
      <4>4. NearEnd(history'[t], Msg("user", t, 0), notifies)
        BY <4>2, <4>3 DEF m
      <4> QED BY <4>4 DEF NearEnd, PromptIn, AfterPrompt
    <3>3. CASE /\ pc[t] = "results"
               /\ history'[t] = history[t] \o <<Msg("calls", t, iteration[t]), Msg("results", t, iteration[t])>>
      <4>1. PromptIn(history[t], t)
        BY <1>b, <3>3 DEF HasPrompt, Looping
      <4> DEFINE p == <<Msg("calls", t, iteration[t]), Msg("results", t, iteration[t])>>
                 q == history[t]
                 M == Message
      <4>2. p \in Seq(M) /\ q \in Seq(M)
        <5>1. iteration[t] \in Nat
          BY <1>a, LimitAssumption
        <5>2. Msg("calls", t, iteration[t]) \in Message /\ Msg("results", t, iteration[t]) \in Message
          BY <5>1, MsgType DEF Kinds
        <5> QED BY <1>a, <5>2
      <4>3. \A i \in 1 .. Len(p) : AfterPrompt(p[i], t)
        <5>1. p[1] = Msg("calls", t, iteration[t]) /\ p[2] = Msg("results", t, iteration[t]) /\ Len(p) = 2
          OBVIOUS
        <5> HIDE DEF p
        <5>2. AfterPrompt(p[1], t) /\ AfterPrompt(p[2], t)
          BY <5>1 DEF AfterPrompt, Msg
        <5>3. \A i \in 1 .. Len(p) : i = 1 \/ i = 2
          BY <5>1
        <5> QED BY <5>2, <5>3
      <4>4. history'[t] = q \o p
        BY <3>3
      <4>5. PromptIn(q, t)
        BY <4>1
      <4> HIDE DEF p, q, M
      <4> QED BY <4>2, <4>3, <4>4, <4>5, PromptStays
    <3> QED BY <1>2, <1>b, <3>1, <3>2, <3>3 DEF Moves
  <2>2. pc'[t] \notin Compacting
    BY <1>2 DEF Compacting, Looping
  <2> QED BY <1>2, <2>1, <2>2 DEF HasPrompt, Compacting
<1>3. ASSUME pc[t] = "append", pc'[t] \in Compacting
      PROVE  HasPrompt(t)'
  <2>1. /\ pc'[t] = "count" /\ s \in Sessions /\ session'[t] = s /\ l \in Seq(Message)
        /\ log' = [log EXCEPT ![s] = Append(@, m)]
    BY <1>3, <1>a, <1>b, <1>c DEF Moves, Working, Compacting, Critical
  <2>2. log'[s] = Append(l, m)
    BY <1>a, <2>1
  <2> HIDE DEF l, m, s
  <2>3. NearEnd(Append(l, m), m, notifies')
    BY <1>d, <1>e, <2>1, NearAppend
  <2> QED BY <2>1, <2>2, <2>3 DEF HasPrompt, Looping, m, s
<1>4. CASE pc'[t] \notin Compacting \cup Looping
  BY <1>4 DEF HasPrompt, Compacting
<1> QED BY <1>1, <1>2, <1>3, <1>4, <1>f

\* Only the token budget can keep the prompt of a turn from the model: every request
\* whose budget reaches it contains it, with nothing behind it but notifications and
\* the turn's own calls and results, as long as fewer notifications arrive than
\* messages are kept by a compaction and read back.
THEOREM PromptsReachTheModel ==
  ASSUME MaxNotifies < CompactionKeepRecent, MaxNotifies < RecentMessagesLimit
  PROVE  Spec => []PromptReachesModel
<1>1. Init => AllHavePrompt
  BY DEF Init, AllHavePrompt, HasPrompt, Compacting, Looping
<1>2. IInv /\ IInv' /\ AllHavePrompt /\ [Next]_vars => AllHavePrompt'
  BY PromptStep
<1>3. IInv /\ AllHavePrompt => PromptReachesModel
  <2> SUFFICES ASSUME IInv, AllHavePrompt, NEW t \in Turns, pc[t] = "chat"
               PROVE  \E k \in 1 .. Len(history[t]) :
                        /\ history[t][k] = Msg("user", t, 0)
                        /\ \A i \in k + 1 .. Len(history[t]) : AfterPrompt(history[t][i], t)
                        /\ \A n \in (Len(history[t]) - k) + 1 .. Len(history[t]) :
                             n - (Len(history[t]) - k) \in SelectHistory(t, n)
    BY DEF PromptReachesModel
  <2>1. PromptIn(history[t], t)
    BY DEF AllHavePrompt, HasPrompt, Looping
  <2>2. PICK k \in 1 .. Len(history[t]) :
          /\ history[t][k] = Msg("user", t, 0)
          /\ \A i \in k + 1 .. Len(history[t]) : AfterPrompt(history[t][i], t)
    BY <2>1 DEF PromptIn
  <2>3. history[t] \in Seq(Message)
    BY DEF IInv, Base, TypeOK
  <2>4. \A n \in (Len(history[t]) - k) + 1 .. Len(history[t]) :
          n - (Len(history[t]) - k) \in SelectHistory(t, n)
    BY <2>2, <2>3, PromptKept
  <2> QED BY <2>2, <2>4
<1> QED BY <1>1, <1>2, <1>3, Invariance, PTL DEF Spec
=============================================================================
