------------------------------- MODULE Memory -------------------------------
(***************************************************************************)
(* The agent's memory: a table of keys and values that the memory tool     *)
(* changes, that the soul seeds at every start, and whose changes go into  *)
(* the system prompt of each session's next turn.                          *)
(*                                                                         *)
(* All sessions belong to the agent "default".  A hash stands for the      *)
(* value it is made of.  Set looks for an immutable key and writes in a    *)
(* second statement; every other operation of the store is one step.  A    *)
(* turn reads the memory under one lock and builds its prompt under the    *)
(* next.                                                                   *)
(***************************************************************************)

CONSTANTS
  Keys, Immutable,  \* keys; those the configuration makes immutable
  Values,           \* values
  NoValue,          \* a key that is not set
  Conversations,    \* sessions
  Setters,          \* tool calls that can run at the same time
  Seeds,            \* the soul's memory_seeds: a function from keys to values
  Large             \* keys whose value does not fit into half of the budget

ASSUME MemoryAssumption ==
  /\ Immutable \subseteq Keys /\ NoValue \notin Keys /\ NoValue \notin Values
  /\ DOMAIN Seeds \subseteq Keys /\ \A k \in DOMAIN Seeds : Seeds[k] \in Values
  /\ Large \subseteq Keys

Table == [Keys -> Values \union {NoValue}]
Empty == [k \in Keys |-> NoValue]

VARIABLES
  table,     \* the rows of the agent
  setter,    \* tool call -> what it is about to write, and whether its look found a row
  seeding,   \* keys the starting process has yet to seed
  hashes,    \* memoryHashes: session -> hashes of its last prompt
  static,    \* staticHash["memory"]: the text the context builder put out last
  prompt,    \* session -> memory text of the turn that runs
  running,   \* sessions with a turn that has yet to ask the model
  building,  \* those of them with a text that Build has yet to look at
  seen,      \* session -> per key the last value its model was shown
  excused    \* session -> changes that never got into a request

memoryVars == <<table, setter, seeding, hashes, static, prompt, running, building,
                seen, excused>>

context == <<hashes, static, prompt, running, building, seen, excused>>

Idle == [key |-> NoValue, value |-> NoValue, found |-> FALSE]

Started == seeding = {}

-----------------------------------------------------------------------------
(* Store.Set and Store.Delete.                                             *)

\* What the look of Set may find; the query may fail.
Looks(k) == {"failed", IF table[k] = NoValue THEN "absent" ELSE "present"}

\* Mutant of Refuses: what Set found does not stop it.
Refuses_never(look) == FALSE

\* Only a row that was found stops Set; a failed query does not.
Refuses(look) == look = "present"

LookFor(w, k, v) ==
  /\ setter[w] = Idle /\ k \in Immutable
  /\ \E look \in Looks(k) :
       /\ ~Refuses(look)
       /\ setter' = [setter EXCEPT ![w] = [key |-> k, value |-> v, found |-> look = "present"]]

\* The tool's action set: of an immutable key up to the upsert, of another one
\* all of it.
SetImmutable(w, k, v) ==
  /\ Started
  /\ LookFor(w, k, v)
  /\ UNCHANGED <<table, seeding, context>>

Set(k, v) ==
  /\ Started /\ k \notin Immutable
  /\ table' = [table EXCEPT ![k] = v]
  /\ UNCHANGED <<setter, seeding, context>>

\* SeedMemory, one seed after the other: a key that may be changed gets the
\* soul's value again at every start, an immutable one that is set is passed.
Seed(w, k) ==
  /\ k \in seeding /\ \A x \in Setters : setter[x] = Idle
  /\ \/ LookFor(w, k, Seeds[k]) /\ UNCHANGED <<table, seeding>>
     \/ /\ k \in Immutable /\ \E look \in Looks(k) : Refuses(look)
        /\ seeding' = seeding \ {k}
        /\ UNCHANGED <<table, setter>>
     \/ /\ k \notin Immutable
        /\ table' = [table EXCEPT ![k] = Seeds[k]]
        /\ seeding' = seeding \ {k}
        /\ UNCHANGED setter
     \/ seeding' = {} /\ UNCHANGED <<table, setter>>     \* another error ends it
  /\ UNCHANGED context

\* The upsert of an immutable key; if it fails, that ends the seeding.
Upsert(w) ==
  /\ setter[w] # Idle
  /\ \/ /\ table' = [table EXCEPT ![setter[w].key] = setter[w].value]
        /\ seeding' = seeding \ {setter[w].key}
     \/ UNCHANGED table /\ seeding' = {}
  /\ setter' = [setter EXCEPT ![w] = Idle]
  /\ UNCHANGED context

Delete(k) ==
  /\ Started /\ k \notin Immutable /\ table[k] # NoValue
  /\ table' = [table EXCEPT ![k] = NoValue]
  /\ UNCHANGED <<setter, seeding, context>>

-----------------------------------------------------------------------------
(* buildSmartContext and the turn that uses its prompt.                    *)

KeysOf(text) == {k \in Keys : text[k] # NoValue}

\* BuildContext: entries whose hash the session has already are left out.
Changed(last) == [k \in Keys |-> IF table[k] = last[k] THEN NoValue ELSE table[k]]

\* Mutant of LastHashes: one map for all sessions.
LastHashes_shared(s) ==
  IF \E t \in Conversations : hashes[t] # Empty
  THEN hashes[CHOOSE t \in Conversations : hashes[t] # Empty] ELSE Empty

LastHashes(s) == hashes[s]

Gone == Keys \ KeysOf(table)

\* Build leaves the memory out when it is the text it put out last, for
\* whichever session, and the budget is short.
Skips(text) == text = static /\ KeysOf(text) \intersect Large # {}

\* What the model was told counts until the key has changed.
Unchanged(s, told) == [k \in Keys |-> IF table[k] = hashes[s][k] THEN told[k] ELSE NoValue]

\* BuildContext, under memoryMu; one turn of a session at a time.  The hashes are
\* those of the table, whatever becomes of the text.
BuildContext(s) ==
  /\ Started /\ s \notin running
  /\ running' = running \union {s}
  /\ prompt' = [prompt EXCEPT ![s] = Changed(LastHashes(s))]
  /\ building' = IF prompt'[s] = Empty THEN building ELSE building \union {s}
  /\ hashes' = [hashes EXCEPT ![s] = table]
  /\ seen' = [seen EXCEPT ![s] = Unchanged(s, @)]
  /\ excused' = [excused EXCEPT ![s] = @ \ Gone]
  /\ UNCHANGED <<table, setter, seeding, static>>

\* The store cannot be read: the turn goes on without memory.
BuildContextFails(s) ==
  /\ Started /\ s \notin running
  /\ running' = running \union {s}
  /\ prompt' = [prompt EXCEPT ![s] = Empty]
  /\ UNCHANGED <<table, setter, seeding, hashes, static, building, seen, excused>>

\* ContextBuilder.Build, after the unlock: other turns may have come between.
Build(s) ==
  /\ s \in building
  /\ building' = building \ {s}
  /\ \/ /\ ~Skips(prompt[s])
        /\ static' = prompt[s]
        /\ UNCHANGED <<prompt, excused>>
     \/ /\ Skips(prompt[s])
        /\ excused' = [excused EXCEPT ![s] = @ \union KeysOf(prompt[s])]
        /\ prompt' = [prompt EXCEPT ![s] = Empty]
        /\ UNCHANGED static
  /\ UNCHANGED <<table, setter, seeding, hashes, running, seen>>

\* The first request of the turn that the model answers.
ModelSees(s) ==
  /\ s \in running \ building
  /\ running' = running \ {s}
  /\ seen' = [seen EXCEPT ![s] = [k \in Keys |-> IF k \in KeysOf(prompt[s]) THEN prompt[s][k]
                                                ELSE @[k]]]
  /\ excused' = [excused EXCEPT ![s] = @ \ KeysOf(prompt[s])]
  /\ prompt' = [prompt EXCEPT ![s] = Empty]
  /\ UNCHANGED <<table, setter, seeding, hashes, static, building>>

\* No request of the turn is answered: its prompt is gone, the hashes stay.
TurnFails(s) ==
  /\ s \in running \ building
  /\ running' = running \ {s}
  /\ excused' = [excused EXCEPT ![s] = @ \union KeysOf(prompt[s])]
  /\ prompt' = [prompt EXCEPT ![s] = Empty]
  /\ UNCHANGED <<table, setter, seeding, hashes, static, building, seen>>

-----------------------------------------------------------------------------
\* Only the table is left; the new process seeds it before anything else.
Restart ==
  /\ seeding' = DOMAIN Seeds
  /\ setter' = [w \in Setters |-> Idle]
  /\ hashes' = [s \in Conversations |-> Empty] /\ static' = Empty
  /\ prompt' = [s \in Conversations |-> Empty] /\ running' = {} /\ building' = {}
  /\ excused' = [s \in Conversations |-> {}]
  /\ seen' = [s \in Conversations |-> Empty]
  /\ UNCHANGED table

MemoryInit ==
  /\ table = Empty
  /\ setter = [w \in Setters |-> Idle]
  /\ seeding = DOMAIN Seeds
  /\ hashes = [s \in Conversations |-> Empty] /\ static = Empty
  /\ prompt = [s \in Conversations |-> Empty] /\ running = {} /\ building = {}
  /\ seen = [s \in Conversations |-> Empty] /\ excused = [s \in Conversations |-> {}]

MemoryNext ==
  \/ \E k \in Keys, v \in Values :
       Set(k, v) \/ \E w \in Setters : SetImmutable(w, k, v)
  \/ \E w \in Setters, k \in Keys : Seed(w, k)
  \/ \E w \in Setters : Upsert(w)
  \/ \E k \in Keys : Delete(k)
  \/ \E s \in Conversations :
       \/ BuildContext(s) \/ BuildContextFails(s) \/ Build(s)
       \/ ModelSees(s) \/ TurnFails(s)
  \/ Restart

MemorySpec == MemoryInit /\ [][MemoryNext]_memoryVars

-----------------------------------------------------------------------------
(* Properties.                                                             *)

MemoryTypeOK ==
  /\ table \in Table /\ static \in Table
  /\ setter \in [Setters -> [key : Keys \union {NoValue}, value : Values \union {NoValue},
                             found : BOOLEAN]]
  /\ seeding \subseteq DOMAIN Seeds
  /\ hashes \in [Conversations -> Table] /\ prompt \in [Conversations -> Table]
  /\ seen \in [Conversations -> Table]
  /\ running \subseteq Conversations /\ building \subseteq running /\ excused \in [Conversations -> SUBSET Keys]

\* A step that changes an immutable key that is set.
BySetInFlight ==
  \A k \in Immutable : table[k] # NoValue /\ table'[k] # table[k] =>
    \E w \in Setters : /\ setter[w].key = k /\ ~setter[w].found
                      /\ setter'[w] = Idle /\ table'[k] = setter[w].value

\* An immutable key that is set changes only when a Set that is past its look
\* writes it, and that look found no row or failed: neither the tool, nor
\* Delete, nor the seeds of a later start change it in any other way.  (Two
\* first writers that look at the same time both write.)
ImmutableSettles == [][BySetInFlight]_memoryVars

\* What a session's hashes say its model has been told, the model was told,
\* in this session and with this value, however often the key was changed,
\* deleted and set again, and whatever other sessions were shown: except for
\* a text the budget left out and one of a turn no request of which was
\* answered, which the model never gets.
ChangesReachModel ==
  \A s \in Conversations, k \in Keys :
    hashes[s][k] # NoValue =>
      \/ seen[s][k] = hashes[s][k]
      \/ s \in running /\ prompt[s][k] = hashes[s][k]
      \/ k \in excused[s]
=============================================================================
