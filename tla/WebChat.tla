------------------------------ MODULE WebChat ------------------------------
(***************************************************************************)
(* The webchat: the page in the browser, its websocket, and per connection *)
(* the handler's read loop, the turns it starts and the goroutines that    *)
(* forward their events.                                                   *)
(*                                                                         *)
(* The client is the page of webchat_page.go or any other websocket client *)
(* of the gateway ("api"), which may send a message at any time.  A turn   *)
(* is seen through its session lock, its events and its approvals; module  *)
(* AgentTurn has its inside.  Every connection is a session of its own.    *)
(***************************************************************************)
EXTENDS Naturals, Sequences

CONSTANTS
  MaxConns,  \* connections the client opens, one after the other
  MaxMsgs,   \* messages the user sends
  Clients    \* of "page", "api"

ASSUME WebChatAssumption ==
  MaxConns \in Nat /\ MaxMsgs \in Nat /\ Clients \subseteq {"page", "api"}

Conns == 1..MaxConns
Msgs == 1..MaxMsgs   \* a message and the turn it starts
NoConn == 0
NoMsg == 0

VARIABLES
  client,   \* which client this is
  conn,     \* the client's connection, NoConn while it has none
  input,    \* the page lets the user send
  running,  \* tool cards of the page that still spin
  cards,    \* approval cards the user has not answered
  link,     \* connection -> "none", "open", "closed"
  up, down, \* frames on their way to and from the server
  handler,  \* connection -> "none", "read", "lock" (in RunTurn), "ended"
  current,  \* connection -> message RunTurn was called with
  clients,  \* connections registered in the webchat adapter
  lock,     \* connection -> turn that holds its session
  turn,     \* message -> state of its turn
  of,       \* message -> connection it was sent on
  events,   \* message -> events of the turn not yet forwarded
  pending   \* turn -> its approval channel: "none", "open", "yes", "no"

vars == <<client, conn, input, running, cards, link, up, down, handler, current,
          clients, lock, turn, of, events, pending>>

page == <<conn, input, running, cards>>
net == <<link, up, down>>
server == <<handler, current, clients>>
turns == <<lock, turn, events, pending>>

Done(c) == handler[c] = "ended"   \* the context of the connection is cancelled

\* wsWrite: the errors of a closed connection are ignored.
Wrote(c, f) == IF link[c] = "open" THEN [down EXCEPT ![c] = Append(@, f)] ELSE down

Frame(type, m) == [type |-> type, m |-> m]

-----------------------------------------------------------------------------
(* The client.                                                             *)

\* handleWebSocket up to its read loop.
Register(c) ==
  /\ clients' = clients \union {c}
  /\ handler' = [handler EXCEPT ![c] = "read"]
  /\ down' = [down EXCEPT ![c] = <<Frame("session", NoMsg)>>]

\* connect(), and the handler it starts.  Only the page is taken to connect
\* again.
Connect(c) ==
  /\ conn = NoConn /\ link[c] = "none"
  /\ \A d \in 1..(c - 1) : link[d] = "closed" /\ client = "page"
  /\ conn' = c
  /\ link' = [link EXCEPT ![c] = "open"]
  /\ Register(c)
  /\ UNCHANGED <<client, input, running, cards, up, current, turns, of>>

\* The connection is lost: frames in flight may be lost with it.  The page
\* connects again after two seconds; nothing else of it changes.
Lose ==
  /\ conn # NoConn
  /\ link' = [link EXCEPT ![conn] = "closed"]
  /\ \E n \in 0..Len(up[conn]) : up' = [up EXCEPT ![conn] = SubSeq(@, 1, n)]
  /\ down' = [down EXCEPT ![conn] = <<>>]
  /\ conn' = NoConn
  /\ UNCHANGED <<client, input, running, cards, server, turns, of>>

Post(f) == up' = [up EXCEPT ![conn] = Append(@, f)]

\* Mutant of SetInputEnabled: the page does not disable its input.
SetInputEnabled_always(enabled) == input' = TRUE

SetInputEnabled(enabled) == input' = (enabled \/ client # "page")

\* The page can send() only while its input is enabled.
Send(m) ==
  /\ conn # NoConn /\ of[m] = NoConn
  /\ \A n \in 1..(m - 1) : of[n] # NoConn
  /\ client = "page" => input
  /\ Post(Frame("message", m))
  /\ of' = [of EXCEPT ![m] = conn]
  /\ SetInputEnabled(FALSE)
  /\ UNCHANGED <<client, conn, running, cards, link, down, server, turns>>

\* The user answers a card; without a connection nobody hears it.
Click(m) ==
  /\ m \in cards
  /\ cards' = cards \ {m}
  /\ IF conn = NoConn THEN UNCHANGED up
     ELSE \E ans \in {"yes", "no"} : Post(Frame(ans, m))
  /\ UNCHANGED <<client, conn, input, running, link, down, server, turns, of>>

\* A frame that is no JSON; the page never sends one (here only while
\* nothing else goes on, a bound of the model).
SendJunk ==
  /\ conn # NoConn /\ client = "api"
  /\ up[conn] = <<>> /\ down[conn] = <<>> /\ \A m \in Msgs : turn[m] \in {"none", "ended"}
  /\ Post(Frame("junk", NoMsg))
  /\ UNCHANGED <<client, page, link, down, server, turns, of>>

ResetTurnState == running' = <<>>

\* Spinning cards are the page's.
AddCard(m) == running' = IF client = "page" THEN Append(running, m) ELSE running

\* The result of a call ends the card shown first.
MarkFirstCardDone == running' = IF running = <<>> THEN running ELSE Tail(running)

\* ws.onmessage
OnMessage ==
  /\ conn # NoConn /\ down[conn] # <<>>
  /\ down' = [down EXCEPT ![conn] = Tail(@)]
  /\ LET f == Head(down[conn]) IN
     \/ f.type = "session" /\ UNCHANGED <<input, running, cards>>
     \/ f.type = "tool_call" /\ AddCard(f.m) /\ UNCHANGED <<input, cards>>
     \/ f.type = "tool_result" /\ MarkFirstCardDone /\ UNCHANGED <<input, cards>>
     \/ f.type = "approval_request" /\ cards' = cards \union {f.m} /\ UNCHANGED <<input, running>>
     \/ /\ f.type \in {"done", "error"}
        /\ ResetTurnState
        /\ SetInputEnabled(TRUE)
        /\ UNCHANGED cards
  /\ UNCHANGED <<client, conn, link, up, server, turns, of>>

-----------------------------------------------------------------------------
(* handleWebSocket: the read loop.                                         *)

\* Mutant of ReadError: the client stays registered.
ReadError_registered(c) ==
  /\ handler[c] = "read" /\ link[c] = "closed" /\ up[c] = <<>>
  /\ handler' = [handler EXCEPT ![c] = "ended"]
  /\ UNCHANGED <<client, page, net, current, clients, turns, of>>

Unregister(c) == clients' = clients \ {c}

\* conn.Read fails: the handler returns, its deferred calls run.
ReadError(c) ==
  /\ handler[c] = "read" /\ link[c] = "closed" /\ up[c] = <<>>
  /\ handler' = [handler EXCEPT ![c] = "ended"]
  /\ Unregister(c)
  /\ UNCHANGED <<client, page, net, current, turns, of>>

\* Approver.Respond: an answer nobody waits for, and a second one, is dropped.
Respond(m, ans) ==
  pending' = IF pending[m] = "open" THEN [pending EXCEPT ![m] = ans] ELSE pending

ReadFrame(c) ==
  /\ handler[c] = "read" /\ up[c] # <<>>
  /\ up' = [up EXCEPT ![c] = Tail(@)]
  /\ LET f == Head(up[c]) IN
     \/ /\ f.type = "junk"
        /\ down' = Wrote(c, Frame("error", NoMsg))
        /\ UNCHANGED <<handler, current, pending>>
     \/ /\ f.type \in {"yes", "no"}
        /\ Respond(f.m, f.type)
        /\ UNCHANGED <<down, handler, current>>
     \/ /\ f.type = "message"
        /\ handler' = [handler EXCEPT ![c] = "lock"]
        /\ current' = [current EXCEPT ![c] = f.m]
        /\ UNCHANGED <<down, pending>>
  /\ UNCHANGED <<client, page, link, clients, lock, turn, events, of>>

\* Mutant of RunTurnFails: the error is only logged.
RunTurnFails_silent(c) ==
  /\ handler[c] = "lock"
  /\ handler' = [handler EXCEPT ![c] = "read"]
  /\ turn' = [turn EXCEPT ![current[c]] = "ended"]
  /\ current' = [current EXCEPT ![c] = NoMsg]
  /\ UNCHANGED <<client, page, net, clients, lock, events, pending, of>>

\* RunTurn returns an error: before the lock, or with it when the message
\* cannot be stored.
RunTurnFails(c) ==
  /\ handler[c] = "lock"
  /\ down' = Wrote(c, Frame("error", current[c]))
  /\ handler' = [handler EXCEPT ![c] = "read"]
  /\ turn' = [turn EXCEPT ![current[c]] = "ended"]
  /\ current' = [current EXCEPT ![c] = NoMsg]
  /\ UNCHANGED <<client, page, link, up, clients, lock, events, pending, of>>

\* RunTurn takes the session lock, which no context interrupts, stores the
\* message and starts the loop.
RunTurn(c) ==
  /\ handler[c] = "lock" /\ lock[c] = NoMsg
  /\ lock' = [lock EXCEPT ![c] = current[c]]
  /\ turn' = [turn EXCEPT ![current[c]] = "run"]
  /\ handler' = [handler EXCEPT ![c] = "read"]
  /\ current' = [current EXCEPT ![c] = NoMsg]
  /\ UNCHANGED <<client, page, net, clients, events, pending, of>>

\* Mutant of Forward: each event is written by a goroutine of its own.
Forward_unordered(m) ==
  /\ \E i \in DOMAIN events[m] :
       /\ events' = [events EXCEPT ![m] = SubSeq(@, 1, i - 1) \o SubSeq(@, i + 1, Len(@))]
       /\ down' = Wrote(of[m], Frame(events[m][i], m))
  /\ UNCHANGED <<client, page, link, up, server, lock, turn, pending, of>>

\* The forwarding goroutine writes the turn's next event.
Forward(m) ==
  /\ events[m] # <<>>
  /\ events' = [events EXCEPT ![m] = Tail(@)]
  /\ down' = Wrote(of[m], Frame(Head(events[m]), m))
  /\ UNCHANGED <<client, page, link, up, server, lock, turn, pending, of>>

-----------------------------------------------------------------------------
(* A turn, with at most one tool call.                                     *)

Out(m, es) == events' = [events EXCEPT ![m] = @ \o es]

Step(m, from, to) == turn[m] = from /\ turn' = [turn EXCEPT ![m] = to]

\* The call, and executeTool, which tells the client before RequestApproval
\* has made its channel.
AskApproval(m) ==
  /\ Step(m, "run", "asked")
  /\ Out(m, <<"tool_call", "approval_request">>)
  /\ UNCHANGED <<client, page, net, server, lock, pending, of>>

RequestApproval(m) ==
  /\ Step(m, "asked", "waiting")
  /\ pending' = [pending EXCEPT ![m] = "open"]
  /\ UNCHANGED <<client, page, net, server, lock, events, of>>

\* An answer, the tool's timeout or the cancelled context: the call is over.
ApprovalEnds(m) ==
  /\ Step(m, "waiting", "finishing")
  /\ pending' = [pending EXCEPT ![m] = "none"]
  /\ Out(m, <<"tool_result">>)
  /\ UNCHANGED <<client, page, net, server, lock, of>>

\* The last event of a turn; a cancelled turn may end without one.
LastEvent(m) ==
  /\ Step(m, turn[m], "last") /\ turn[m] \in {"run", "finishing"}
  /\ \/ \E e \in {"done", "error"} : Out(m, <<e>>)
     \/ Done(of[m]) /\ UNCHANGED events
  /\ UNCHANGED <<client, page, net, server, lock, pending, of>>

\* close(out), then the session is unlocked.
Unlock(m) ==
  /\ Step(m, "last", "ended")
  /\ lock' = [lock EXCEPT ![of[m]] = NoMsg]
  /\ UNCHANGED <<client, page, net, server, events, pending, of>>

-----------------------------------------------------------------------------
Init ==
  /\ client \in Clients
  /\ conn = NoConn /\ input = TRUE /\ running = <<>> /\ cards = {}
  /\ link = [c \in Conns |-> "none"]
  /\ up = [c \in Conns |-> <<>>] /\ down = [c \in Conns |-> <<>>]
  /\ handler = [c \in Conns |-> "none"] /\ current = [c \in Conns |-> NoMsg]
  /\ clients = {}
  /\ lock = [c \in Conns |-> NoMsg]
  /\ turn = [m \in Msgs |-> "none"] /\ of = [m \in Msgs |-> NoConn]
  /\ events = [m \in Msgs |-> <<>>]
  /\ pending = [m \in Msgs |-> "none"]

User ==
  \/ \E c \in Conns : Connect(c)
  \/ \E m \in Msgs : Send(m) \/ Click(m)
  \/ Lose \/ SendJunk

Server(c) == ReadError(c) \/ ReadFrame(c) \/ RunTurnFails(c) \/ RunTurn(c)

Turn(m) ==
  \/ AskApproval(m) \/ RequestApproval(m) \/ ApprovalEnds(m)
  \/ LastEvent(m) \/ Unlock(m)

Next ==
  \/ User \/ OnMessage
  \/ \E c \in Conns : Server(c)
  \/ \E m \in Msgs : Turn(m) \/ Forward(m)

\* The page and the goroutines run; a turn ends (module AgentTurn), an
\* approval by its timeout at the latest.  The user need not do anything.
Spec ==
  /\ Init /\ [][Next]_vars
  /\ WF_vars(OnMessage)
  /\ \A c \in Conns : WF_vars(Server(c))
  /\ \A m \in Msgs : WF_vars(Turn(m)) /\ WF_vars(Forward(m))

-----------------------------------------------------------------------------
(* Properties.                                                             *)

\* The page never makes the read loop wait behind a turn of its own that
\* still works: while a turn asks for approval, the loop reads, and hears the
\* answer or the end of the connection.  (A client that sends a second
\* message during a turn loses that.)
ReadLoopFree ==
  client = "page" =>
    \A c \in Conns : handler[c] = "lock" /\ lock[c] # NoMsg => turn[lock[c]] = "last"

\* A page that lets the user send shows no spinning tool card, and no turn of
\* its connection works, has events on their way, or is about to start.
IdlePage ==
  client = "page" /\ input /\ conn # NoConn =>
    /\ running = <<>>
    /\ \A m \in Msgs : of[m] = conn => turn[m] \in {"last", "ended"} /\ events[m] = <<>>

\* The user of the page can send again after every message, unless the
\* connection was lost meanwhile.  (After a loss the page connects again with
\* its input still disabled: only the last frame of a turn enables it.)
InputReturns ==
  \A c \in Conns :
    (conn = c /\ ~input /\ \E m \in Msgs : of[m] = c) ~> (input \/ conn # c)

\* A lost connection is cleaned up: its handler returns, its client is
\* unregistered, its turns end and release the session, also when the read
\* loop was waiting behind a turn and could not notice.
LostIsCleanedUp ==
  \A c \in Conns :
    link[c] = "closed" ~>
      /\ handler[c] = "ended" /\ c \notin clients /\ lock[c] = NoMsg
      /\ \A m \in Msgs : of[m] = c => turn[m] \in {"none", "ended"} /\ events[m] = <<>>
=============================================================================
