------------------------------ MODULE SessionLog ------------------------------
(***************************************************************************)
(* What the agent promises about the stored conversation of a session:     *)
(* turns own it one after the other, each turn opens with the user's       *)
(* message, an owner answers the tool calls it wrote before it writes      *)
(* anything else, a compaction forgets a prefix and puts at most one       *)
(* summary in front of the rest, and anybody may leave a notification at   *)
(* the end.  A compaction that a notification interfered with may instead  *)
(* pass over the oldest messages; the session counts as raced from then    *)
(* on.  AgentTurn is shown to implement this specification.                *)
(***************************************************************************)
EXTENDS Transcript

CONSTANTS Sessions, Turns, NoTurn,
          KeepRecent,   \* a compaction leaves at least this many messages
          Stamps        \* iteration numbers a message can carry

VARIABLES
  log,      \* [Sessions -> Seq(Message)]
  owner,    \* [Sessions -> the turn that is writing, or NoTurn]
  open,     \* [Sessions -> the tool calls that still wait for results, {} or {m}]
  retired,  \* turns that have begun, or never will
  raced     \* sessions in which a compaction passed over older messages

vars == <<log, owner, open, retired, raced>>

Message == [kind : {"user", "text", "calls", "results", "summary", "notify"},
            turn : Turns \cup {NoTurn}, iter : Stamps]

Msg(k, t, i) == [kind |-> k, turn |-> t, iter |-> i]

Add(s, m) == log' = [log EXCEPT ![s] = Append(@, m)]

Init ==
  /\ log = [s \in Sessions |-> << >>]
  /\ owner = [s \in Sessions |-> NoTurn]
  /\ open = [s \in Sessions |-> {}]
  /\ retired = {} /\ raced = {}

Begin(s, t) ==
  /\ owner[s] = NoTurn /\ t \notin retired
  /\ owner' = [owner EXCEPT ![s] = t]
  /\ retired' = retired \cup {t}
  /\ \E i \in Stamps : Add(s, Msg("user", t, i))
  /\ UNCHANGED <<open, raced>>

Say(s) ==
  /\ owner[s] # NoTurn /\ open[s] = {}
  /\ \E i \in Stamps : Add(s, Msg("text", owner[s], i))
  /\ UNCHANGED <<owner, open, retired, raced>>

CallTools(s) ==
  /\ owner[s] # NoTurn /\ open[s] = {}
  /\ \E i \in Stamps :
       /\ Add(s, Msg("calls", owner[s], i))
       /\ open' = [open EXCEPT ![s] = {Msg("calls", owner[s], i)}]
  /\ UNCHANGED <<owner, retired, raced>>

AnswerCalls(s) ==
  /\ \E m \in open[s] : Add(s, Msg("results", m.turn, m.iter))
  /\ open' = [open EXCEPT ![s] = {}]
  /\ UNCHANGED <<owner, retired, raced>>

Notify(s) ==
  /\ \E i \in Stamps : Add(s, Msg("notify", NoTurn, i))
  /\ UNCHANGED <<owner, open, retired, raced>>

\* n messages leave; those that stay in front of them make the session raced.
Forget(s) ==
  /\ owner[s] # NoTurn /\ open[s] = {}
  /\ \E k \in 0 .. Len(log[s]), n \in 1 .. Len(log[s]) :
       /\ k + n + KeepRecent <= Len(log[s])
       /\ log' = [log EXCEPT ![s] = Cut(@, k, n)]
       /\ raced' = IF k > 0 THEN raced \cup {s} ELSE raced
  /\ UNCHANGED <<owner, open, retired>>

Summarise(s) ==
  /\ owner[s] # NoTurn /\ open[s] = {}
  /\ \E p \in 1 .. Len(log[s]) + 1, i \in Stamps :
       /\ s \in raced \/ (p = 1 /\ \A j \in 1 .. Len(log[s]) : log[s][j].kind # "summary")
       /\ log' = [log EXCEPT ![s] = InsertAt(@, p, Msg("summary", owner[s], i))]
  /\ UNCHANGED <<owner, open, retired, raced>>

\* Owners of the sessions in E end, and the turns in T will not begin any more.
Leave(E, T) ==
  /\ owner' = [s \in Sessions |-> IF s \in E THEN NoTurn ELSE owner[s]]
  /\ open' = [s \in Sessions |-> IF s \in E THEN {} ELSE open[s]]
  /\ retired' = retired \cup T
  /\ UNCHANGED <<log, raced>>

Next ==
  \/ \E s \in Sessions :
       \/ \E t \in Turns : Begin(s, t)
       \/ Say(s) \/ CallTools(s) \/ AnswerCalls(s)
       \/ Notify(s) \/ Forget(s) \/ Summarise(s)
  \/ \E E \in SUBSET Sessions, T \in SUBSET Turns : Leave(E, T)

\* An owner that waits for results may drop them: the turn failed or its process
\* died, which is a Leave; it cannot go on without them.
Spec == Init /\ [][Next]_vars

-----------------------------------------------------------------------------
\* The promises, for every session.
Serial ==
  \A s \in Sessions :
    /\ Contiguous(log[s])
    /\ s \notin raced => WellPaired(log[s]) /\ SummaryAtHead(log[s])

(* The parts of the inductive invariant that carry them. *)

TypeOK ==
  /\ log \in [Sessions -> Seq(Message)]
  /\ owner \in [Sessions -> Turns \cup {NoTurn}]
  /\ open \in [Sessions -> SUBSET Message]
  /\ retired \subseteq Turns
  /\ raced \subseteq Sessions

\* A turn that may still begin has written nothing; owners have begun.
Fresh ==
  /\ \A s \in Sessions : owner[s] # NoTurn => owner[s] \in retired
  /\ \A s \in Sessions : \A i \in 1 .. Len(log[s]) :
       \/ log[s][i].turn \in retired
       \/ log[s][i].turn = NoTurn /\ log[s][i].kind = "notify"

\* What the owner wrote is at the end of the conversation.
OwnerAtTail ==
  \A s \in Sessions : owner[s] # NoTurn =>
    \A i, j \in 1 .. Len(log[s]) :
      i < j /\ log[s][i].turn = owner[s] /\ log[s][i].kind # "summary" =>
        log[s][j].turn = owner[s] \/ log[s][j].kind \in {"summary", "notify"}

\* Open tool calls are the owner's, and if the last message is tool calls they
\* are the open ones.
OpenAtTail ==
  \A s \in Sessions : \A m \in open[s] :
    /\ owner[s] # NoTurn
    /\ m.kind = "calls" /\ m.turn = owner[s]
    /\ Len(log[s]) > 0 /\ log[s][Len(log[s])].kind = "calls" => log[s][Len(log[s])] = m

IInv == TypeOK /\ Fresh /\ OwnerAtTail /\ OpenAtTail /\ Serial
=============================================================================
