---------------------------- MODULE GatewayProofs ----------------------------
(***************************************************************************)
(* Theorems about what the gateway serves: the agent-to-agent endpoint     *)
(* (A2ATasks), for any tasks and any number of requests, and the webchat   *)
(* page with its read loop (WebChat), for any number of connections and    *)
(* messages.                                                               *)
(***************************************************************************)
EXTENDS A2ATasks, WebChat, SequenceTheorems, TLAPS

-----------------------------------------------------------------------------
(* Webchat.  The invariant says how far a message has got: in a frame on   *)
(* its way up, in the hands of the read loop, in a turn, in the events of  *)
(* the turn and in the frames on their way down; and that the page has     *)
(* only the newest message of a connection under way.                      *)

UpFrame   == [type : {"message", "yes", "no", "junk"}, m : Msgs \cup {NoMsg}]
DownFrame == [type : {"session", "tool_call", "tool_result", "approval_request", "done", "error"},
              m : Msgs \cup {NoMsg}]
Event     == {"tool_call", "tool_result", "approval_request", "done", "error"}
Final     == {"done", "error"}
Working   == {"run", "asked", "waiting", "finishing"}
Finished  == {"last", "ended"}

TypeOK ==
  /\ client \in {"page", "api"}
  /\ conn \in Conns \cup {NoConn} /\ input \in BOOLEAN
  /\ running \in Seq(Msgs \cup {NoMsg}) /\ cards \subseteq Msgs \cup {NoMsg}
  /\ link \in [Conns -> {"none", "open", "closed"}]
  /\ up \in [Conns -> Seq(UpFrame)] /\ down \in [Conns -> Seq(DownFrame)]
  /\ handler \in [Conns -> {"none", "read", "lock", "ended"}]
  /\ current \in [Conns -> Msgs \cup {NoMsg}]
  /\ clients \subseteq Conns
  /\ lock \in [Conns -> Msgs \cup {NoMsg}]
  /\ turn \in [Msgs -> {"none"} \cup Working \cup Finished]
  /\ of \in [Msgs -> Conns \cup {NoConn}]
  /\ events \in [Msgs -> Seq(Event)]
  /\ pending \in [Msgs -> {"none", "open", "yes", "no"}]

\* A connection that was not opened carries nothing, and the client's is open.
LinkInv ==
  /\ conn # NoConn => link[conn] = "open"
  /\ \A c \in Conns : link[c] = "none" =>
       up[c] = <<>> /\ down[c] = <<>> /\ \A m \in Msgs : of[m] # c

\* A message that is on its way up, once, or that the read loop waits with has no
\* turn yet, and a turn that holds a session is not over.
Queue(q, o, t, x, c) ==
  \A i \in 1 .. Len(q) : q[i].type = "message" =>
    /\ q[i].m \in Msgs /\ o[q[i].m] = c /\ t[q[i].m] = "none" /\ q[i].m # x
    /\ \A j \in 1 .. Len(q) : q[j].type = "message" /\ q[j].m = q[i].m => j = i
Waiting(c) ==
  /\ handler[c] = "lock" <=> current[c] # NoMsg
  /\ current[c] # NoMsg => of[current[c]] = c /\ turn[current[c]] = "none"
Locked(c) == lock[c] # NoMsg => of[lock[c]] = c /\ turn[lock[c]] \in Working \cup {"last"}
Unsent(m) ==
  /\ of[m] = NoConn => turn[m] = "none"
  /\ turn[m] = "none" => events[m] = <<>>
MessageInv ==
  /\ \A m \in Msgs : Unsent(m)
  /\ \A c \in Conns : Queue(up[c], of, turn, current[c], c) /\ Waiting(c) /\ Locked(c)

\* The final event of a turn is its last.
Ends(q, t) == \A i \in 1 .. Len(q) : q[i] \in Final => i = Len(q) /\ t \in Finished
EventInv == \A m \in Msgs : Ends(events[m], turn[m])

\* The frames of a page's connection belong to its messages, and behind a final frame
\* there is nothing, neither on the connection nor of its message.
NoJunk(q) == \A i \in 1 .. Len(q) : q[i].type # "junk"
Belongs(f, c, last, o, t, es) ==
  \/ f.type = "session" /\ f.m = NoMsg
  \/ /\ f.m \in Msgs /\ o[f.m] = c
     /\ f.type \in Final => last /\ t[f.m] \in Finished /\ es[f.m] = <<>>
FrameInv ==
  client = "page" =>
    \A c \in Conns :
      /\ NoJunk(up[c])
      /\ \A i \in 1 .. Len(down[c]) : Belongs(down[c][i], c, i = Len(down[c]), of, turn, events)

\* The client has heard everything of a message.
Over(m) ==
  /\ turn[m] \in Finished /\ events[m] = <<>>
  /\ \A i \in 1 .. Len(down[of[m]]) : down[of[m]][i].m # m

\* A page sends a message only when those before it on the connection are over.
PageInv ==
  client = "page" =>
    /\ \A m, n \in Msgs : m < n /\ of[n] # NoConn => of[m] # NoConn /\ (of[m] = of[n] => Over(m))
    /\ input => /\ running = <<>>
                /\ conn # NoConn => \A m \in Msgs : of[m] = conn => Over(m)

IInv == TypeOK /\ LinkInv /\ MessageInv /\ EventInv /\ FrameInv /\ PageInv

-----------------------------------------------------------------------------
(* Sequences of frames and events. *)

\* A sequence that is part of another one, some elements further on.
Part(p, q) ==
  \E k \in Nat : Len(p) + k <= Len(q) /\ \A i \in 1 .. Len(p) : i + k \in 1 .. Len(q) /\ p[i] = q[i + k]

LEMMA AppendAt ==
  ASSUME NEW S, NEW q \in Seq(S), NEW x \in S
  PROVE  /\ Append(q, x) \in Seq(S) /\ Len(Append(q, x)) = Len(q) + 1 /\ Len(q) \in Nat
         /\ Append(q, x)[Len(q) + 1] = x
         /\ \A i \in 1 .. Len(q) : Append(q, x)[i] = q[i]
BY AppendProperties, LenProperties

LEMMA TailAt ==
  ASSUME NEW S, NEW q \in Seq(S), q # <<>>
  PROVE  /\ Head(q) = q[1] /\ Head(q) \in S /\ Len(q) \in Nat /\ Len(q) >= 1
         /\ Tail(q) \in Seq(S) /\ Len(Tail(q)) = Len(q) - 1
         /\ \A i \in 1 .. Len(q) - 1 : Tail(q)[i] = q[i + 1]
         /\ Part(Tail(q), q)
<1>1. /\ Head(q) = q[1] /\ Head(q) \in S /\ Len(q) \in Nat /\ Len(q) >= 1
      /\ Tail(q) \in Seq(S) /\ Len(Tail(q)) = Len(q) - 1
      /\ \A i \in 1 .. Len(q) - 1 : Tail(q)[i] = q[i + 1]
  BY HeadTailProperties, EmptySeq, LenProperties, ElementOfSeq
<1>2. Part(Tail(q), q)
  BY <1>1 DEF Part
<1> QED BY <1>1, <1>2

LEMMA TailOfOne ==
  ASSUME NEW S, NEW q \in Seq(S), Len(q) = 1
  PROVE  Tail(q) = <<>>
<1>1. Tail(q) \in Seq(S) /\ Len(Tail(q)) = 0
  <2>1. q # <<>>
    BY EmptySeq
  <2> QED BY <2>1, HeadTailProperties
<1> QED BY <1>1, EmptySeq

LEMMA PrefixAt ==
  ASSUME NEW S, NEW q \in Seq(S), NEW n \in 0 .. Len(q)
  PROVE  SubSeq(q, 1, n) \in Seq(S) /\ Part(SubSeq(q, 1, n), q)
<1>1. Len(q) \in Nat /\ \A i \in 1 .. Len(q) : q[i] \in S
  BY LenProperties, ElementOfSeq
<1>2. 1 \in Int /\ n \in Int /\ \A i \in 1 .. n : q[i] \in S
  BY <1>1
<1>3. /\ SubSeq(q, 1, n) \in Seq(S)
      /\ Len(SubSeq(q, 1, n)) = IF 1 <= n THEN n - 1 + 1 ELSE 0
      /\ \A i \in 1 .. n - 1 + 1 : SubSeq(q, 1, n)[i] = q[1 + i - 1]
  BY <1>2, SubSeqProperties
<1> DEFINE p == SubSeq(q, 1, n)
<1> HIDE DEF p
<1>4. Len(p) = n /\ \A i \in 1 .. n : p[i] = q[i]
  BY <1>1, <1>3 DEF p
<1>a. \A i \in 1 .. n : i + 0 \in 1 .. Len(q) /\ i + 0 = i
  BY <1>1
<1>b. 0 \in Nat /\ Len(p) + 0 <= Len(q) /\ \A i \in 1 .. Len(p) : i + 0 \in 1 .. Len(q) /\ p[i] = q[i + 0]
  BY <1>1, <1>4, <1>a
<1>5. Part(p, q)
  BY <1>b DEF Part
<1> QED BY <1>3, <1>5 DEF p

LEMMA WholeAt ==
  ASSUME NEW S, NEW q \in Seq(S)
  PROVE  Part(q, q) /\ Part(<<>>, q)
<1>1. Len(q) \in Nat
  BY LenProperties
<1>2. \A i \in 1 .. Len(q) : i + 0 = i
  BY <1>1
<1>3. 0 \in Nat /\ Len(q) + 0 <= Len(q) /\ \A i \in 1 .. Len(q) : i + 0 \in 1 .. Len(q) /\ q[i] = q[i + 0]
  BY <1>1, <1>2
<1>4. Part(q, q)
  BY <1>3 DEF Part
<1>5. 0 \in Nat /\ Len(<<>>) + 0 <= Len(q) /\ 1 .. Len(<<>>) = {}
  BY <1>1
<1>6. Part(<<>>, q)
  BY <1>5 DEF Part
<1> QED BY <1>4, <1>6

-----------------------------------------------------------------------------
(* Types. *)

LEMMA FrameType ==
  ASSUME NEW m \in Msgs \cup {NoMsg}
  PROVE  /\ \A t \in {"message", "yes", "no", "junk"} : Frame(t, m) \in UpFrame
         /\ \A t \in Event \cup {"session"} : Frame(t, m) \in DownFrame
<1>1. ASSUME NEW t \in {"message", "yes", "no", "junk"} PROVE Frame(t, m) \in UpFrame
  BY DEF Frame, UpFrame
<1>2. ASSUME NEW t \in Event \cup {"session"} PROVE Frame(t, m) \in DownFrame
  BY DEF Frame, DownFrame, Event
<1> QED BY <1>1, <1>2

LEMMA WroteType ==
  ASSUME TypeOK, NEW c \in Conns, NEW f \in DownFrame
  PROVE  Wrote(c, f) \in [Conns -> Seq(DownFrame)]
<1> DEFINE a == Append(down[c], f)
<1>1. a \in Seq(DownFrame)
  BY AppendAt DEF TypeOK
<1>2. Wrote(c, f) = IF link[c] = "open" THEN [down EXCEPT ![c] = a] ELSE down
  BY DEF Wrote
<1> HIDE DEF a
<1> QED BY <1>1, <1>2 DEF TypeOK

\* A frame the client posts.
LEMMA PostType ==
  ASSUME TypeOK, conn # NoConn, NEW f \in UpFrame, Post(f)
  PROVE  /\ up' \in [Conns -> Seq(UpFrame)]
         /\ up' = [up EXCEPT ![conn] = Append(up[conn], f)]
<1> DEFINE a == Append(up[conn], f)
<1>1. conn \in Conns
  BY DEF TypeOK
<1>2. a \in Seq(UpFrame)
  BY <1>1, AppendAt DEF TypeOK
<1>3. up' = [up EXCEPT ![conn] = a]
  BY DEF Post
<1> HIDE DEF a
<1>4. up' \in [Conns -> Seq(UpFrame)]
  BY <1>2, <1>3 DEF TypeOK
<1> QED BY <1>3, <1>4 DEF a

LEMMA OutType ==
  ASSUME TypeOK, NEW m \in Msgs, NEW es \in Seq(Event), Out(m, es)
  PROVE  events' \in [Msgs -> Seq(Event)]
<1> DEFINE a == events[m] \o es
<1>1. a \in Seq(Event)
  BY ConcatProperties DEF TypeOK
<1>2. events' = [events EXCEPT ![m] = a]
  BY DEF Out
<1> HIDE DEF a
<1> QED BY <1>1, <1>2 DEF TypeOK

LEMMA InitTypes == Init => TypeOK
BY WebChatAssumption DEF WebChatAssumption, Init, TypeOK, NoConn, NoMsg

LEMMA TypeStep ==
  ASSUME TypeOK, MessageInv, [Next]_vars
  PROVE  TypeOK'
<1> USE DEF page, net, server, turns, NoMsg, NoConn
<1>0. conn # NoConn => conn \in Conns
  BY DEF TypeOK
<1>1. ASSUME NEW c \in Conns, Connect(c) PROVE TypeOK'
  <2> DEFINE q == <<Frame("session", NoMsg)>>
  <2>1. q \in Seq(DownFrame)
    BY FrameType
  <2>2. down' = [down EXCEPT ![c] = q]
    BY <1>1 DEF Connect, Register
  <2> HIDE DEF q
  <2>3. down' \in [Conns -> Seq(DownFrame)]
    BY <2>1, <2>2 DEF TypeOK
  <2> QED BY <1>1, <2>3 DEF Connect, Register, TypeOK
<1>2. CASE Lose
  <2>1. PICK n \in 0 .. Len(up[conn]) : up' = [up EXCEPT ![conn] = SubSeq(up[conn], 1, n)]
    BY <1>2 DEF Lose
  <2>2. up' \in [Conns -> Seq(UpFrame)]
    <3> DEFINE q == SubSeq(up[conn], 1, n)
    <3>1. q \in Seq(UpFrame)
      BY <1>0, <1>2, PrefixAt DEF Lose, TypeOK
    <3> HIDE DEF q
    <3> QED BY <2>1, <3>1 DEF TypeOK, q
  <2>3. <<>> \in Seq(DownFrame)
    OBVIOUS
  <2> QED BY <1>2, <2>2, <2>3 DEF Lose, TypeOK
<1>3. ASSUME NEW m \in Msgs, Send(m) PROVE TypeOK'
  <2>1. up' \in [Conns -> Seq(UpFrame)]
    BY <1>3, FrameType, PostType DEF Send
  <2> QED BY <1>0, <1>3, <2>1 DEF Send, TypeOK, SetInputEnabled
<1>4. ASSUME NEW m \in Msgs, Click(m) PROVE TypeOK'
  <2>1. up' \in [Conns -> Seq(UpFrame)]
    BY <1>4, FrameType, PostType DEF Click, TypeOK
  <2> QED BY <1>4, <2>1 DEF Click, TypeOK
<1>5. CASE SendJunk
  <2>1. up' \in [Conns -> Seq(UpFrame)]
    BY <1>5, FrameType, PostType DEF SendJunk
  <2> QED BY <1>5, <2>1 DEF SendJunk, TypeOK
<1>6. CASE OnMessage
  <2> DEFINE q == Tail(down[conn])
             f == Head(down[conn])
  <2>1. q \in Seq(DownFrame) /\ f \in DownFrame
    BY <1>0, <1>6, TailAt DEF OnMessage, TypeOK
  <2>2. down' = [down EXCEPT ![conn] = q]
    BY <1>6 DEF OnMessage
  <2>3. f.m \in Msgs \cup {NoMsg}
    BY <2>1 DEF DownFrame
  <2>4. running' \in Seq(Msgs \cup {NoMsg}) /\ input' \in BOOLEAN /\ cards' \subseteq Msgs \cup {NoMsg}
    <3>1. ASSUME AddCard(f.m) PROVE running' \in Seq(Msgs \cup {NoMsg})
      BY <2>3, <3>1, AppendAt DEF AddCard, TypeOK
    <3>2. ASSUME MarkFirstCardDone PROVE running' \in Seq(Msgs \cup {NoMsg})
      BY <3>2, TailAt DEF MarkFirstCardDone, TypeOK
    <3>3. ASSUME ResetTurnState PROVE running' \in Seq(Msgs \cup {NoMsg})
      BY <3>3 DEF ResetTurnState
    <3> HIDE DEF f
    <3>4. \/ UNCHANGED <<input, running, cards>>
          \/ AddCard(f.m) /\ UNCHANGED <<input, cards>>
          \/ MarkFirstCardDone /\ UNCHANGED <<input, cards>>
          \/ cards' = cards \union {f.m} /\ UNCHANGED <<input, running>>
          \/ ResetTurnState /\ SetInputEnabled(TRUE) /\ UNCHANGED cards
      BY <1>6 DEF OnMessage, f
    <3> QED BY <2>3, <3>1, <3>2, <3>3, <3>4 DEF TypeOK, SetInputEnabled
  <2> HIDE DEF q, f
  <2> QED BY <1>6, <2>1, <2>2, <2>4 DEF OnMessage, TypeOK
<1>7. ASSUME NEW c \in Conns, ReadError(c) PROVE TypeOK'
  BY <1>7 DEF ReadError, Unregister, TypeOK
<1>8. ASSUME NEW c \in Conns, ReadFrame(c) PROVE TypeOK'
  <2> DEFINE q == Tail(up[c])
             f == Head(up[c])
  <2>1. q \in Seq(UpFrame) /\ f \in UpFrame
    BY <1>8, TailAt DEF ReadFrame, TypeOK
  <2>2. up' = [up EXCEPT ![c] = q]
    BY <1>8 DEF ReadFrame
  <2>3. f.m \in Msgs \cup {NoMsg} /\ f.type \in {"message", "yes", "no", "junk"}
    BY <2>1 DEF UpFrame
  <2>6. f.type \in {"yes", "no"} /\ Respond(f.m, f.type) =>
          pending' \in [Msgs -> {"none", "open", "yes", "no"}]
    <3>1. ASSUME NEW x, NEW ans \in {"yes", "no"}, Respond(x, ans)
          PROVE  pending' \in [Msgs -> {"none", "open", "yes", "no"}]
      BY <3>1 DEF TypeOK, Respond
    <3> QED BY <3>1
  <2>4. Wrote(c, Frame("error", NoMsg)) \in [Conns -> Seq(DownFrame)]
    BY FrameType, WroteType DEF Event
  <2> HIDE DEF q, f
  <2>5. /\ \/ down' = Wrote(c, Frame("error", NoMsg)) /\ UNCHANGED <<handler, current, pending>>
           \/ f.type \in {"yes", "no"} /\ Respond(f.m, f.type) /\ UNCHANGED <<down, handler, current>>
           \/ /\ handler' = [handler EXCEPT ![c] = "lock"] /\ current' = [current EXCEPT ![c] = f.m]
              /\ UNCHANGED <<down, pending>>
        /\ UNCHANGED <<client, page, link, clients, lock, turn, events, of>>
    BY <1>8 DEF ReadFrame, f
  <2>7. pending' \in [Msgs -> {"none", "open", "yes", "no"}] /\ down' \in [Conns -> Seq(DownFrame)]
    BY <2>4, <2>5, <2>6 DEF TypeOK
  <2>8. handler' \in [Conns -> {"none", "read", "lock", "ended"}] /\ current' \in [Conns -> Msgs \cup {NoMsg}]
    BY <2>3, <2>5 DEF TypeOK
  <2>9. up' \in [Conns -> Seq(UpFrame)]
    BY <2>1, <2>2 DEF TypeOK
  <2> QED BY <2>5, <2>7, <2>8, <2>9 DEF TypeOK
<1>9. ASSUME NEW c \in Conns, RunTurnFails(c) PROVE TypeOK'
  <2>1. down' \in [Conns -> Seq(DownFrame)]
    BY <1>9, FrameType, WroteType DEF RunTurnFails, TypeOK, Event
  <2> QED BY <1>9, <2>1 DEF RunTurnFails, TypeOK, Finished
<1>10. ASSUME NEW c \in Conns, RunTurn(c) PROVE TypeOK'
  BY <1>10 DEF RunTurn, TypeOK, Working
<1>11. ASSUME NEW m \in Msgs, Forward(m) PROVE TypeOK'
  <2> DEFINE q == Tail(events[m])
             e == Head(events[m])
  <2>1. q \in Seq(Event) /\ e \in Event
    BY <1>11, TailAt DEF Forward, TypeOK
  <2>2. events' = [events EXCEPT ![m] = q] /\ down' = Wrote(of[m], Frame(e, m))
    BY <1>11 DEF Forward
  <2> HIDE DEF q, e
  <2>a. of[m] # NoConn
    BY <1>11 DEF Forward, MessageInv, Unsent
  <2>3. down' \in [Conns -> Seq(DownFrame)]
    BY <1>11, <2>a, <2>1, <2>2, FrameType, WroteType DEF TypeOK
  <2> QED BY <1>11, <2>1, <2>2, <2>3 DEF Forward, TypeOK
<1>12. ASSUME NEW m \in Msgs, Turn(m) PROVE TypeOK'
  <2>1. ASSUME NEW es \in Seq(Event), Out(m, es) PROVE events' \in [Msgs -> Seq(Event)]
    BY <2>1, OutType
  <2>2. ASSUME NEW to \in Working \cup Finished, turn' = [turn EXCEPT ![m] = to]
        PROVE  turn' \in [Msgs -> {"none"} \cup Working \cup Finished]
    BY <2>2 DEF TypeOK
  <2>3. CASE AskApproval(m)
    <3>1. <<"tool_call", "approval_request">> \in Seq(Event)
      BY DEF Event
    <3>2. events' \in [Msgs -> Seq(Event)]
      BY <2>1, <2>3, <3>1 DEF AskApproval
    <3> QED BY <2>2, <2>3, <3>2 DEF AskApproval, Step, TypeOK, Working
  <2>4. CASE RequestApproval(m)
    BY <2>2, <2>4 DEF RequestApproval, Step, TypeOK, Working
  <2>5. CASE ApprovalEnds(m)
    <3>1. <<"tool_result">> \in Seq(Event)
      BY DEF Event
    <3>2. events' \in [Msgs -> Seq(Event)]
      BY <2>1, <2>5, <3>1 DEF ApprovalEnds
    <3> QED BY <2>2, <2>5, <3>2 DEF ApprovalEnds, Step, TypeOK, Working
  <2>6. CASE LastEvent(m)
    <3>1. \A e \in Final : <<e>> \in Seq(Event)
      BY DEF Event, Final
    <3>2. events' \in [Msgs -> Seq(Event)]
      BY <2>1, <2>6, <3>1 DEF LastEvent, Final, TypeOK
    <3> QED BY <2>2, <2>6, <3>2 DEF LastEvent, Step, TypeOK, Finished
  <2>7. CASE Unlock(m)
    BY <2>2, <2>7 DEF Unlock, Step, TypeOK, Finished
  <2> QED BY <1>12, <2>3, <2>4, <2>5, <2>6, <2>7 DEF Turn
<1>13. CASE UNCHANGED vars
  BY <1>13 DEF vars, TypeOK
<1> QED
  BY <1>1, <1>2, <1>3, <1>4, <1>5, <1>6, <1>7, <1>8, <1>9, <1>10, <1>11, <1>12, <1>13
  DEF Next, User, Server

-----------------------------------------------------------------------------
(* Connections. *)

LEMMA LinkStep ==
  ASSUME TypeOK, LinkInv, [Next]_vars
  PROVE  LinkInv'
<1> USE DEF page, net, server, turns, NoConn
<1>0. conn # NoConn => conn \in Conns
  BY DEF TypeOK
<1>1. ASSUME NEW c \in Conns, Connect(c) PROVE LinkInv'
  BY <1>1 DEF Connect, Register, TypeOK, LinkInv
<1>2. CASE Lose
  BY <1>0, <1>2 DEF Lose, TypeOK, LinkInv
<1>3. ASSUME NEW f, conn # NoConn, Post(f), UNCHANGED <<conn, link, down>>,
             of' = of \/ \E m \in Msgs : of' = [of EXCEPT ![m] = conn]
      PROVE  LinkInv'
  BY <1>0, <1>3 DEF Post, TypeOK, LinkInv
<1>4. ASSUME NEW m \in Msgs, Send(m) PROVE LinkInv'
  BY <1>3, <1>4 DEF Send
<1>5. ASSUME NEW m \in Msgs, Click(m) PROVE LinkInv'
  <2>1. CASE conn = NoConn
    BY <1>5, <2>1 DEF Click, LinkInv
  <2>2. CASE conn # NoConn
    BY <1>3, <1>5, <2>2 DEF Click
  <2> QED BY <2>1, <2>2
<1>6. CASE SendJunk
  BY <1>3, <1>6 DEF SendJunk
<1>7. CASE OnMessage
  BY <1>0, <1>7 DEF OnMessage, TypeOK, LinkInv
<1>8. ASSUME NEW c \in Conns, NEW f, down' = down \/ down' = Wrote(c, f),
             up' = up \/ (up[c] # <<>> /\ up' = [up EXCEPT ![c] = Tail(up[c])]),
             UNCHANGED <<conn, link, of>>
      PROVE  LinkInv'
  BY <1>8 DEF Wrote, TypeOK, LinkInv
<1>9. ASSUME NEW c \in Conns, ReadError(c) \/ RunTurn(c) PROVE LinkInv'
  BY <1>9 DEF ReadError, RunTurn, LinkInv
<1>10. ASSUME NEW c \in Conns, ReadFrame(c) PROVE LinkInv'
  <2>1. /\ down' = down \/ down' = Wrote(c, Frame("error", NoMsg))
        /\ up[c] # <<>> /\ up' = [up EXCEPT ![c] = Tail(up[c])] /\ UNCHANGED <<conn, link, of>>
    BY <1>10 DEF ReadFrame
  <2> QED BY <1>8, <2>1
<1>11. ASSUME NEW c \in Conns, RunTurnFails(c) PROVE LinkInv'
  BY <1>8, <1>11 DEF RunTurnFails
<1>12. ASSUME NEW m \in Msgs, Forward(m) PROVE LinkInv'
  BY <1>12 DEF Forward, Wrote, TypeOK, LinkInv
<1>13. ASSUME NEW m \in Msgs, Turn(m) PROVE LinkInv'
  BY <1>13 DEF Turn, AskApproval, RequestApproval, ApprovalEnds, LastEvent, Unlock, LinkInv
<1>14. CASE UNCHANGED vars
  BY <1>14 DEF vars, LinkInv
<1> QED
  BY <1>1, <1>2, <1>4, <1>5, <1>6, <1>7, <1>9, <1>10, <1>11, <1>12, <1>13, <1>14
  DEF Next, User, Server

-----------------------------------------------------------------------------
(* Where a message is. *)

\* A queue that loses elements is still one when its messages stay as they are.
LEMMA QueuePart ==
  ASSUME NEW c, NEW q \in Seq(UpFrame), NEW p \in Seq(UpFrame), Part(p, q),
         NEW o, NEW t, NEW x, NEW o2, NEW t2, NEW x2, Queue(q, o, t, x, c),
         \A i \in 1 .. Len(p) : p[i].type = "message" =>
           LET m == p[i].m IN
             m \in Msgs /\ o[m] = c /\ t[m] = "none" /\ m # x => o2[m] = c /\ t2[m] = "none" /\ m # x2
  PROVE  Queue(p, o2, t2, x2, c)
<1>0. Len(p) \in Nat
  BY LenProperties
<1>1. PICK k \in Nat : Len(p) + k <= Len(q) /\ \A i \in 1 .. Len(p) : i + k \in 1 .. Len(q) /\ p[i] = q[i + k]
  BY DEF Part
<1>2. ASSUME NEW i \in 1 .. Len(p), p[i].type = "message"
      PROVE  /\ p[i].m \in Msgs /\ o2[p[i].m] = c /\ t2[p[i].m] = "none" /\ p[i].m # x2
             /\ \A j \in 1 .. Len(p) : p[j].type = "message" /\ p[j].m = p[i].m => j = i
  <2>1. i + k \in 1 .. Len(q) /\ p[i] = q[i + k]
    BY <1>1
  <2>2. /\ p[i].m \in Msgs /\ o[p[i].m] = c /\ t[p[i].m] = "none" /\ p[i].m # x
        /\ \A j \in 1 .. Len(q) : q[j].type = "message" /\ q[j].m = p[i].m => j = i + k
    BY <1>2, <2>1 DEF Queue
  <2>3. ASSUME NEW j \in 1 .. Len(p), p[j].type = "message", p[j].m = p[i].m PROVE j = i
    <3>1. j + k = i + k
      BY <1>1, <2>2, <2>3
    <3>2. i \in Nat /\ j \in Nat
      BY <1>0
    <3> QED BY <3>1, <3>2
  <2>4. o2[p[i].m] = c /\ t2[p[i].m] = "none" /\ p[i].m # x2
    BY <1>2, <2>2
  <2> QED BY <2>2, <2>3, <2>4
<1> QED BY <1>2 DEF Queue

\* A frame that is appended and is no message, or one that was not sent yet.
LEMMA QueueAppend ==
  ASSUME NEW c, NEW q \in Seq(UpFrame), NEW f \in UpFrame, NEW o, NEW t, NEW x, NEW o2,
         Queue(q, o, t, x, c),
         \A m \in Msgs : o[m] = c => o2[m] = c,
         f.type = "message" => f.m \in Msgs /\ o[f.m] # c /\ o2[f.m] = c /\ t[f.m] = "none" /\ f.m # x
  PROVE  Queue(Append(q, f), o2, t, x, c)
<1> DEFINE p == Append(q, f)
<1>1. /\ Len(q) \in Nat /\ Len(p) = Len(q) + 1 /\ p[Len(q) + 1] = f
      /\ \A i \in 1 .. Len(q) : p[i] = q[i]
  BY AppendAt
<1> HIDE DEF p
<1>2. ASSUME NEW i \in 1 .. Len(p), p[i].type = "message"
      PROVE  /\ p[i].m \in Msgs /\ o2[p[i].m] = c /\ t[p[i].m] = "none" /\ p[i].m # x
             /\ \A j \in 1 .. Len(p) : p[j].type = "message" /\ p[j].m = p[i].m => j = i
  <2>1. CASE i \in 1 .. Len(q)
    <3>1. /\ p[i] = q[i] /\ p[i].m \in Msgs /\ o[p[i].m] = c /\ t[p[i].m] = "none" /\ p[i].m # x
          /\ \A j \in 1 .. Len(q) : q[j].type = "message" /\ q[j].m = q[i].m => j = i
      BY <1>1, <1>2, <2>1 DEF Queue
    <3>2. ASSUME NEW j \in 1 .. Len(p), p[j].type = "message", p[j].m = p[i].m PROVE j = i
      <4>1. CASE j \in 1 .. Len(q)
        BY <1>1, <3>1, <3>2, <4>1
      <4>2. CASE j = Len(q) + 1
        BY <1>1, <3>1, <3>2, <4>2
      <4> QED BY <1>1, <4>1, <4>2
    <3> QED BY <3>1, <3>2
  <2>2. CASE i = Len(q) + 1
    <3>1. p[i] = f
      BY <1>1, <2>2
    <3>2. ASSUME NEW j \in 1 .. Len(p), p[j].type = "message", p[j].m = p[i].m PROVE j = i
      <4>1. CASE j \in 1 .. Len(q)
        <5>1. o[p[j].m] = c
          BY <1>1, <3>2, <4>1 DEF Queue
        <5> QED BY <1>2, <3>1, <3>2, <5>1
      <4>2. CASE j = Len(q) + 1
        BY <2>2, <4>2
      <4> QED BY <1>1, <4>1, <4>2
    <3> QED BY <1>2, <3>1, <3>2
  <2> QED BY <1>1, <2>1, <2>2
<1> QED BY <1>2 DEF Queue, p

\* A queue that stays as it is.
LEMMA QueueSame ==
  ASSUME NEW c, NEW q \in Seq(UpFrame), NEW o, NEW t, NEW x, NEW o2, NEW t2, NEW x2,
         Queue(q, o, t, x, c),
         \A m \in Msgs : o[m] = c /\ t[m] = "none" /\ m # x => o2[m] = c /\ t2[m] = "none" /\ m # x2
  PROVE  Queue(q, o2, t2, x2, c)
<1>1. Part(q, q)
  BY WholeAt
<1> QED BY <1>1, QueuePart

LEMMA MessageStep ==
  ASSUME TypeOK, TypeOK', LinkInv, MessageInv, [Next]_vars
  PROVE  MessageInv'
<1> USE DEF page, net, server, turns, NoConn, NoMsg
<1> DEFINE Queues == \A d \in Conns : Queue(up'[d], of', turn', current'[d], d)
           Others == (\A m \in Msgs : Unsent(m)') /\ \A d \in Conns : Waiting(d)' /\ Locked(d)'
<1>0. conn # NoConn => conn \in Conns
  BY DEF TypeOK
<1>a. \A c \in Conns : up[c] \in Seq(UpFrame) /\ up'[c] \in Seq(UpFrame) /\ Part(up[c], up[c])
  BY WholeAt DEF TypeOK
<1>b. \A c \in Conns : Queue(up[c], of, turn, current[c], c)
  BY DEF MessageInv
<1>c. \A c \in Conns :
        /\ current[c] # 0 <=> handler[c] = "lock"
        /\ current[c] # 0 => current[c] \in Msgs /\ of[current[c]] = c /\ turn[current[c]] = "none"
        /\ lock[c] # 0 => lock[c] \in Msgs /\ of[lock[c]] = c /\ turn[lock[c]] \in Working \cup {"last"}
  BY DEF MessageInv, Waiting, Locked, TypeOK
<1>d. \A m \in Msgs : (of[m] = 0 => turn[m] = "none") /\ (turn[m] = "none" => events[m] = <<>>)
  BY DEF MessageInv, Unsent
<1>e. 0 \notin Conns /\ 0 \notin Msgs
  BY WebChatAssumption DEF WebChatAssumption, Conns, Msgs
<1>q. Queues /\ Others => MessageInv'
  BY DEF MessageInv
<1>s. UNCHANGED <<up, of, turn, current>> => Queues
  BY <1>b
<1>o. UNCHANGED <<of, turn, handler, current, lock, events>> => Others
  BY DEF MessageInv, Waiting, Locked, Unsent
<1>1. ASSUME NEW c \in Conns, Connect(c) PROVE MessageInv'
  <2>1. Queues
    BY <1>1, <1>s DEF Connect, Register
  <2>2. Others
    BY <1>1, <1>c, <1>d DEF Connect, Register, Waiting, Locked, Unsent, TypeOK, LinkInv
  <2> QED BY <1>q, <2>1, <2>2
<1>2. CASE Lose
  <2>1. PICK n \in 0 .. Len(up[conn]) : up' = [up EXCEPT ![conn] = SubSeq(up[conn], 1, n)]
    BY <1>2 DEF Lose
  <2>2. Part(SubSeq(up[conn], 1, n), up[conn])
    BY <1>0, <1>2, <1>a, PrefixAt DEF Lose
  <2>3. \A d \in Conns : Part(up'[d], up[d])
    BY <1>a, <2>1, <2>2 DEF TypeOK
  <2>4. UNCHANGED <<of, turn, handler, current, lock, events>>
    BY <1>2 DEF Lose
  <2>5. ASSUME NEW d \in Conns PROVE Queue(up'[d], of', turn', current'[d], d)
    BY <1>a, <1>b, <2>3, <2>4, QueuePart
  <2> QED BY <1>q, <1>o, <2>4, <2>5
<1>3. ASSUME NEW f \in UpFrame, conn # NoConn, Post(f),
             UNCHANGED <<turn, handler, current, lock, events>>,
             \A m \in Msgs : of[m] # 0 => of'[m] = of[m],
             f.type = "message" => f.m \in Msgs /\ of[f.m] = 0 /\ of'[f.m] = conn
      PROVE  Queues
  <2>1. up' = [up EXCEPT ![conn] = Append(up[conn], f)]
    BY <1>3 DEF Post
  <2>2. f.type = "message" => f.m \in Msgs /\ of[f.m] # conn /\ of'[f.m] = conn /\ turn[f.m] = "none"
                              /\ f.m # current[conn]
    BY <1>0, <1>3, <1>c, <1>d, <1>e
  <2>3. Queue(Append(up[conn], f), of', turn, current[conn], conn)
    BY <1>0, <1>3, <1>a, <1>b, <1>e, <2>2, QueueAppend
  <2>4. ASSUME NEW d \in Conns, d # conn PROVE Queue(up[d], of', turn, current[d], d)
    BY <1>3, <1>a, <1>b, <1>e, QueueSame
  <2> QED BY <1>3, <2>1, <2>3, <2>4 DEF TypeOK
<1>4. ASSUME NEW m \in Msgs, Send(m) PROVE MessageInv'
  <2>1. /\ Post(Frame("message", m)) /\ of[m] = 0 /\ of' = [of EXCEPT ![m] = conn] /\ conn # NoConn
        /\ UNCHANGED <<turn, handler, current, lock, events>>
    BY <1>4 DEF Send
  <2>a. /\ Frame("message", m) \in UpFrame /\ Frame("message", m).type = "message"
        /\ Frame("message", m).m = m
    BY FrameType DEF Frame
  <2>b. of'[m] = conn /\ \A n \in Msgs : of[n] # 0 => of'[n] = of[n]
    BY <2>1 DEF TypeOK
  <2> DEFINE f == Frame("message", m)
  <2> HIDE DEF f, Queues
  <2>2. Queues
    BY <1>3, <2>1, <2>a, <2>b DEF f
  <2>3. Others
    BY <1>c, <1>d, <1>e, <2>1 DEF Waiting, Locked, Unsent, TypeOK
  <2> QED BY <1>q, <2>2, <2>3
<1>5. ASSUME NEW m \in Msgs, Click(m) PROVE MessageInv'
  <2>1. UNCHANGED <<of, turn, handler, current, lock, events>>
    BY <1>5 DEF Click
  <2>a. ASSUME NEW ans \in {"yes", "no"}, conn # 0, Post(Frame(ans, m)) PROVE Queues
    <3>1. Frame(ans, m) \in UpFrame /\ Frame(ans, m).type # "message"
      BY FrameType DEF Frame
    <3> DEFINE f == Frame(ans, m)
    <3> HIDE DEF f, Queues
    <3> QED BY <1>3, <2>1, <2>a, <3>1 DEF f
  <2> HIDE DEF Queues
  <2>2. Queues
    BY <1>5, <1>s, <2>1, <2>a DEF Click
  <2> QED BY <1>q, <1>o, <2>1, <2>2
<1>6. CASE SendJunk
  <2>1. UNCHANGED <<of, turn, handler, current, lock, events>>
    BY <1>6 DEF SendJunk
  <2>a. /\ Frame("junk", NoMsg) \in UpFrame /\ Frame("junk", NoMsg).type # "message"
        /\ conn # 0 /\ Post(Frame("junk", NoMsg))
    BY <1>6, FrameType DEF SendJunk, Frame
  <2> DEFINE f == Frame("junk", NoMsg)
  <2> HIDE DEF f, Queues
  <2>2. Queues
    BY <1>3, <2>1, <2>a DEF f
  <2> QED BY <1>q, <1>o, <2>1, <2>2
<1>7. CASE OnMessage
  BY <1>7, <1>q, <1>s, <1>o DEF OnMessage
<1>8. ASSUME NEW c \in Conns, ReadError(c) PROVE MessageInv'
  <2>1. Others
    BY <1>8, <1>c, <1>d DEF ReadError, Waiting, Locked, Unsent, TypeOK
  <2> QED BY <1>8, <1>q, <1>s, <2>1 DEF ReadError
<1>9. ASSUME NEW c \in Conns, ReadFrame(c) PROVE MessageInv'
  <2> DEFINE q == up[c]
             f == Head(up[c])
             p == Tail(up[c])
  <2>1. /\ p \in Seq(UpFrame) /\ Part(p, q) /\ f = q[1] /\ Len(q) \in Nat /\ Len(q) >= 1
        /\ Len(p) = Len(q) - 1 /\ \A i \in 1 .. Len(q) - 1 : p[i] = q[i + 1]
    BY <1>9, <1>a, TailAt DEF ReadFrame
  <2>2. up' = [up EXCEPT ![c] = p] /\ UNCHANGED <<of, turn, lock, events>>
    BY <1>9 DEF ReadFrame
  <2>3. \/ f.type # "message" /\ UNCHANGED <<handler, current>>
        \/ /\ f.type = "message" /\ handler[c] = "read"
           /\ handler' = [handler EXCEPT ![c] = "lock"] /\ current' = [current EXCEPT ![c] = f.m]
    BY <1>9 DEF ReadFrame
  <2> HIDE DEF p, f
  <2>4. \A d \in Conns : d # c => Queue(up'[d], of', turn', current'[d], d)
    BY <1>b, <2>2, <2>3 DEF TypeOK
  <2>5. CASE f.type # "message" /\ UNCHANGED <<handler, current>>
    <3>1. Queue(p, of, turn, current[c], c)
      BY <1>a, <1>b, <2>1, QueuePart
    <3> QED BY <1>q, <1>o, <2>2, <2>4, <2>5, <3>1 DEF TypeOK
  <2>6. CASE /\ f.type = "message" /\ handler[c] = "read"
             /\ handler' = [handler EXCEPT ![c] = "lock"] /\ current' = [current EXCEPT ![c] = f.m]
    <3>1. f.m \in Msgs /\ of[f.m] = c /\ turn[f.m] = "none"
      BY <1>b, <2>1, <2>6 DEF Queue
    <3>2. \A i \in 1 .. Len(p) : p[i].type = "message" => p[i].m # f.m
      <4> SUFFICES ASSUME NEW i \in 1 .. Len(p), p[i].type = "message", p[i].m = f.m PROVE FALSE
        OBVIOUS
      <4>1. p[i] = q[i + 1] /\ i + 1 \in 1 .. Len(q) /\ 1 \in 1 .. Len(q) /\ i + 1 # 1
        BY <2>1
      <4>2. i + 1 = 1
        BY <1>b, <2>1, <2>6, <4>1 DEF Queue
      <4> QED BY <4>1, <4>2
    <3>3. Queue(p, of, turn, f.m, c)
      BY <1>a, <1>b, <2>1, <3>2, QueuePart
    <3>4. Queues
      <4>1. up'[c] = p /\ current'[c] = f.m /\ of' = of /\ turn' = turn
        BY <2>2, <2>6 DEF TypeOK
      <4>2. Queue(up'[c], of', turn', current'[c], c)
        BY ONLY <3>3, <4>1
      <4> QED BY <2>4, <4>2
    <3>5. \A m \in Msgs : Unsent(m)'
      BY <1>d, <2>2 DEF Unsent
    <3>6. ASSUME NEW d \in Conns PROVE Waiting(d)'
      <4>1. CASE d = c
        BY <1>e, <2>2, <2>6, <3>1, <4>1 DEF Waiting, TypeOK
      <4>2. CASE d # c
        BY <1>c, <2>2, <2>6, <4>2 DEF Waiting, TypeOK
      <4> QED BY <4>1, <4>2
    <3>7. \A d \in Conns : Locked(d)'
      BY <1>c, <2>2 DEF Locked
    <3>8. Others
      BY <3>5, <3>6, <3>7
    <3> QED BY <1>q, <3>4, <3>8
  <2> QED BY <2>3, <2>5, <2>6
<1>10. ASSUME NEW c \in Conns, RunTurnFails(c) \/ RunTurn(c) PROVE MessageInv'
  <2>1. /\ handler[c] = "lock" /\ handler' = [handler EXCEPT ![c] = "read"]
        /\ current' = [current EXCEPT ![c] = 0] /\ UNCHANGED <<up, of, events>>
        /\ \/ turn' = [turn EXCEPT ![current[c]] = "ended"] /\ lock' = lock
           \/ turn' = [turn EXCEPT ![current[c]] = "run"] /\ lock' = [lock EXCEPT ![c] = current[c]]
    BY <1>10 DEF RunTurnFails, RunTurn
  <2>2. current[c] \in Msgs /\ of[current[c]] = c /\ turn[current[c]] = "none"
    BY <1>c, <2>1
  <2>3. ASSUME NEW d \in Conns PROVE Queue(up'[d], of', turn', current'[d], d)
    <3>1. ASSUME NEW m \in Msgs, of[m] = d, turn[m] = "none", m # current[d]
          PROVE  of'[m] = d /\ turn'[m] = "none" /\ m # current'[d]
      <4>1. m # current[c]
        BY <2>2, <3>1
      <4>2. turn'[m] = turn[m]
        BY <2>1, <4>1 DEF TypeOK
      <4>3. current'[d] = current[d] \/ current'[d] = 0
        BY <2>1 DEF TypeOK
      <4>4. m # 0 /\ of' = of
        BY <1>e, <2>1
      <4> QED BY <3>1, <4>2, <4>3, <4>4
    <3> QED BY <1>a, <1>b, <2>1, <3>1, QueueSame
  <2> DEFINE k == current[c]
  <2>a. /\ handler'[c] = "read" /\ current'[c] = 0 /\ turn'[k] \in Working \cup Finished /\ turn'[k] # "none"
        /\ \A d \in Conns : d # c => handler'[d] = handler[d] /\ current'[d] = current[d] /\ lock'[d] = lock[d]
        /\ \A m \in Msgs : m # k => turn'[m] = turn[m]
        /\ lock'[c] = lock[c] \/ (lock'[c] = k /\ turn'[k] = "run")
    BY <2>1, <2>2 DEF TypeOK, Working, Finished
  <2> HIDE DEF k
  <2>b. k \in Msgs /\ of[k] = c /\ turn[k] = "none" /\ of' = of /\ events' = events
    BY <2>1, <2>2 DEF k
  <2>c. ASSUME NEW m \in Msgs PROVE Unsent(m)'
    BY <1>d, <1>e, <2>a, <2>b DEF Unsent
  <2>d. ASSUME NEW d \in Conns PROVE Waiting(d)'
    <3>1. CASE d = c
      BY <2>a, <3>1 DEF Waiting
    <3>2. CASE d # c
      BY <1>c, <2>a, <2>b, <3>2 DEF Waiting
    <3> QED BY <3>1, <3>2
  <2>e. ASSUME NEW d \in Conns PROVE Locked(d)'
    <3>1. CASE d = c
      BY <1>c, <2>a, <2>b, <3>1 DEF Locked, Working
    <3>2. CASE d # c
      BY <1>c, <2>a, <2>b, <3>2 DEF Locked, Working
    <3> QED BY <3>1, <3>2
  <2>4. Others
    BY <2>c, <2>d, <2>e
  <2> QED BY <1>q, <2>3, <2>4
<1>11. ASSUME NEW m \in Msgs, Forward(m) PROVE MessageInv'
  <2>1. UNCHANGED <<up, of, turn, handler, current, lock>> /\ events' = [events EXCEPT ![m] = Tail(events[m])]
        /\ events[m] # <<>>
    BY <1>11 DEF Forward
  <2>2. ASSUME NEW n \in Msgs PROVE Unsent(n)'
    <3>1. CASE n = m
      BY <1>d, <2>1, <3>1 DEF Unsent
    <3>2. CASE n # m
      BY <1>d, <2>1, <3>2 DEF Unsent, TypeOK
    <3> QED BY <3>1, <3>2
  <2>3. ASSUME NEW d \in Conns PROVE Waiting(d)' /\ Locked(d)'
    BY <1>c, <2>1, <2>3 DEF Waiting, Locked
  <2>4. Others
    BY <2>2, <2>3
  <2> QED BY <1>q, <1>s, <2>1, <2>4
<1>12. ASSUME NEW m \in Msgs, Turn(m) PROVE MessageInv'
  <2>1. /\ UNCHANGED <<up, of, handler, current>>
        /\ turn[m] \in Working \cup {"last"} /\ \A n \in Msgs : n # m => turn'[n] = turn[n]
        /\ \/ lock' = lock /\ turn'[m] \in Working \cup {"last"}
           \/ lock' = [lock EXCEPT ![of[m]] = 0] /\ turn'[m] = "ended"
        /\ \A n \in Msgs : n # m => events'[n] = events[n]
    <3> USE DEF TypeOK, Step, Out, Working
    <3>1. CASE AskApproval(m)
      BY <3>1 DEF AskApproval
    <3>2. CASE RequestApproval(m) \/ ApprovalEnds(m)
      BY <3>2 DEF RequestApproval, ApprovalEnds
    <3>3. CASE LastEvent(m)
      BY <3>3 DEF LastEvent
    <3>4. CASE Unlock(m)
      BY <3>4 DEF Unlock
    <3> QED BY <1>12, <3>1, <3>2, <3>3, <3>4 DEF Turn
  <2>2. ASSUME NEW d \in Conns PROVE Queue(up'[d], of', turn', current'[d], d)
    <3>1. \A n \in Msgs : of[n] = d /\ turn[n] = "none" /\ n # current[d] =>
                            of'[n] = d /\ turn'[n] = "none" /\ n # current'[d]
      BY <2>1 DEF Working
    <3> QED BY <1>a, <1>b, <2>1, <3>1, QueueSame
  <2>a. of[m] # 0 /\ turn[m] # "none" /\ turn'[m] # "none"
    BY <1>d, <2>1 DEF Working
  <2>b. ASSUME NEW n \in Msgs PROVE Unsent(n)'
    <3>1. CASE n = m
      BY <2>1, <2>a, <3>1 DEF Unsent
    <3>2. CASE n # m
      BY <1>d, <2>1, <3>2 DEF Unsent
    <3> QED BY <3>1, <3>2
  <2>c. ASSUME NEW d \in Conns PROVE Waiting(d)'
    BY <1>c, <2>1, <2>a DEF Waiting
  <2>d. ASSUME NEW d \in Conns PROVE Locked(d)'
    <3>1. lock'[d] # 0 => lock'[d] = lock[d]
      BY <2>1 DEF TypeOK
    <3>2. lock'[d] # 0 /\ lock[d] = m => turn'[m] # "ended"
      <4>1. lock[d] = m /\ m # 0 => of[m] = d
        BY <1>c
      <4>2. \/ lock' = [lock EXCEPT ![of[m]] = 0]
            \/ turn'[m] # "ended"
        BY <2>1 DEF Working
      <4>3. lock' = [lock EXCEPT ![of[m]] = 0] /\ of[m] = d => lock'[d] = 0
        BY DEF TypeOK
      <4> QED BY <1>e, <4>1, <4>2, <4>3
    <3>3. CASE lock[d] = m
      BY <1>c, <2>1, <3>1, <3>2, <3>3 DEF Locked, Working
    <3>4. CASE lock[d] # m
      BY <1>c, <2>1, <3>1, <3>4 DEF Locked
    <3> QED BY <3>3, <3>4
  <2>3. Others
    BY <2>b, <2>c, <2>d
  <2> QED BY <1>q, <2>2, <2>3
<1>13. CASE UNCHANGED vars
  BY <1>13, <1>q, <1>s, <1>o DEF vars
<1> QED
  BY <1>1, <1>2, <1>4, <1>5, <1>6, <1>7, <1>8, <1>9, <1>10, <1>11, <1>12, <1>13
  DEF Next, User, Server
-----------------------------------------------------------------------------
(* Events. *)

LEMMA EndsTail ==
  ASSUME NEW q \in Seq(Event), q # <<>>, NEW t, Ends(q, t)
  PROVE  Ends(Tail(q), t)
<1> DEFINE p == Tail(q)
<1>1. Len(q) \in Nat /\ Len(p) = Len(q) - 1 /\ \A i \in 1 .. Len(q) - 1 : p[i] = q[i + 1]
  BY TailAt
<1> HIDE DEF p
<1>2. ASSUME NEW i \in 1 .. Len(p), p[i] \in Final PROVE i = Len(p) /\ t \in Finished
  <2>1. i + 1 \in 1 .. Len(q) /\ q[i + 1] \in Final
    BY <1>1, <1>2
  <2>2. i + 1 = Len(q) /\ t \in Finished
    BY <2>1 DEF Ends
  <2> QED BY <1>1, <2>2
<1> QED BY <1>2 DEF Ends, p

LEMMA EndsConcat ==
  ASSUME NEW q \in Seq(Event), NEW es \in Seq(Event), NEW t, NEW t2,
         Ends(q, t), t \notin Finished, Ends(es, t2)
  PROVE  Ends(q \o es, t2)
<1> DEFINE p == q \o es
<1>1. /\ Len(q) \in Nat /\ Len(es) \in Nat /\ Len(p) = Len(q) + Len(es)
      /\ \A i \in 1 .. Len(p) : p[i] = IF i <= Len(q) THEN q[i] ELSE es[i - Len(q)]
  BY ConcatProperties, LenProperties
<1> HIDE DEF p
<1>2. ASSUME NEW i \in 1 .. Len(p), p[i] \in Final PROVE i = Len(p) /\ t2 \in Finished
  <2>1. CASE i <= Len(q)
    BY <1>1, <1>2, <2>1 DEF Ends
  <2>2. CASE i > Len(q)
    <3>1. i - Len(q) \in 1 .. Len(es) /\ es[i - Len(q)] \in Final
      BY <1>1, <1>2, <2>2
    <3>2. i - Len(q) = Len(es) /\ t2 \in Finished
      BY <3>1 DEF Ends
    <3> QED BY <1>1, <3>2
  <2> QED BY <1>1, <2>1, <2>2
<1> QED BY <1>2 DEF Ends, p

\* A turn goes on, and what comes out of it comes before its final event.
LEMMA EventStep ==
  ASSUME TypeOK, MessageInv, EventInv, [Next]_vars
  PROVE  EventInv'
<1> USE DEF page, net, server, turns
<1>0. \A m \in Msgs : /\ events[m] \in Seq(Event) /\ Ends(events[m], turn[m])
                      /\ turn[m] = "none" => events[m] = <<>>
  BY DEF TypeOK, EventInv, MessageInv, Unsent
<1>a. UNCHANGED <<turn, events>> => EventInv'
  BY DEF EventInv
<1>e. \A t : Ends(<<>>, t)
  BY DEF Ends
<1>1. CASE User \/ OnMessage \/ UNCHANGED vars
  BY <1>1, <1>a DEF User, Connect, Register, Send, Click, Lose, SendJunk, OnMessage, vars
<1>2. ASSUME NEW c \in Conns, ReadError(c) \/ ReadFrame(c) PROVE EventInv'
  BY <1>2, <1>a DEF ReadError, ReadFrame
<1>3. ASSUME NEW c \in Conns, RunTurnFails(c) \/ RunTurn(c) PROVE EventInv'
  <2>a. /\ handler[c] = "lock" /\ events' = events
        /\ \/ turn' = [turn EXCEPT ![current[c]] = "ended"]
           \/ turn' = [turn EXCEPT ![current[c]] = "run"]
    BY <1>3 DEF RunTurnFails, RunTurn
  <2>1. /\ current[c] \in Msgs /\ turn[current[c]] = "none" /\ events' = events
    BY <2>a DEF MessageInv, Waiting, TypeOK
  <2>2. ASSUME NEW m \in Msgs PROVE Ends(events'[m], turn'[m])
    <3>1. CASE m = current[c]
      BY <1>0, <1>e, <2>1, <3>1
    <3>2. CASE m # current[c]
      BY <1>0, <2>1, <2>a, <3>2 DEF TypeOK
    <3> QED BY <3>1, <3>2
  <2> QED BY <2>2 DEF EventInv
<1>4. ASSUME NEW m \in Msgs, Forward(m) PROVE EventInv'
  <2> DEFINE p == Tail(events[m])
  <2>1. events[m] # <<>> /\ events' = [events EXCEPT ![m] = p] /\ turn' = turn
    BY <1>4 DEF Forward
  <2>2. Ends(p, turn[m])
    BY <1>0, <2>1, EndsTail
  <2> HIDE DEF p
  <2> QED BY <1>0, <2>1, <2>2 DEF EventInv, TypeOK
<1>5. ASSUME NEW m \in Msgs, NEW to, NEW es \in Seq(Event), Step(m, turn[m], to), turn[m] \in Working,
             Out(m, es), Ends(es, to)
      PROVE  EventInv'
  <2> DEFINE p == events[m] \o es
  <2>1. events' = [events EXCEPT ![m] = p] /\ turn' = [turn EXCEPT ![m] = to]
    BY <1>5 DEF Out, Step
  <2>2. Ends(p, to)
    BY <1>0, <1>5, EndsConcat DEF Working, Finished
  <2> HIDE DEF p
  <2> QED BY <1>0, <2>1, <2>2 DEF EventInv, TypeOK
<1>6. ASSUME NEW m \in Msgs, NEW to, Step(m, turn[m], to), UNCHANGED events,
             turn[m] \in Working \/ to \in Finished
      PROVE  EventInv'
  <2>1. turn' = [turn EXCEPT ![m] = to]
    BY <1>6 DEF Step
  <2>2. Ends(events[m], to)
    BY <1>0, <1>6 DEF Ends, Working, Finished
  <2> QED BY <1>0, <1>6, <2>1, <2>2 DEF EventInv, TypeOK
<1>7. ASSUME NEW m \in Msgs, AskApproval(m) PROVE EventInv'
  <2> DEFINE es == <<"tool_call", "approval_request">>
  <2>1. es \in Seq(Event) /\ Ends(es, "asked")
    BY DEF Event, Ends, Final
  <2>2. Step(m, turn[m], "asked") /\ turn[m] \in Working /\ Out(m, es)
    BY <1>7 DEF AskApproval, Step, Working
  <2> HIDE DEF es
  <2> QED BY <1>5, <2>1, <2>2
<1>8. ASSUME NEW m \in Msgs, ApprovalEnds(m) PROVE EventInv'
  <2> DEFINE es == <<"tool_result">>
  <2>1. es \in Seq(Event) /\ Ends(es, "finishing")
    BY DEF Event, Ends, Final
  <2>2. Step(m, turn[m], "finishing") /\ turn[m] \in Working /\ Out(m, es)
    BY <1>8 DEF ApprovalEnds, Step, Working
  <2> HIDE DEF es
  <2> QED BY <1>5, <2>1, <2>2
<1>9. ASSUME NEW m \in Msgs, LastEvent(m) PROVE EventInv'
  <2>1. Step(m, turn[m], "last") /\ turn[m] \in Working
    BY <1>9 DEF LastEvent, Working
  <2>2. CASE \E e \in Final : Out(m, <<e>>)
    <3>1. PICK e \in Final : Out(m, <<e>>)
      BY <2>2
    <3> DEFINE es == <<e>>
    <3>2. es \in Seq(Event) /\ Ends(es, "last")
      BY <3>1 DEF Event, Ends, Final, Finished
    <3>3. Out(m, es)
      BY <3>1
    <3> HIDE DEF es
    <3> QED BY <1>5, <2>1, <3>2, <3>3
  <2>3. CASE UNCHANGED events
    BY <1>6, <2>1, <2>3
  <2> QED BY <1>9, <2>2, <2>3 DEF LastEvent, Final
<1>10. ASSUME NEW m \in Msgs, RequestApproval(m) PROVE EventInv'
  <2>1. Step(m, turn[m], "waiting") /\ turn[m] \in Working /\ UNCHANGED events
    BY <1>10 DEF RequestApproval, Step, Working
  <2> QED BY <1>6, <2>1
<1>11. ASSUME NEW m \in Msgs, Unlock(m) PROVE EventInv'
  <2>1. Step(m, turn[m], "ended") /\ "ended" \in Finished /\ UNCHANGED events
    BY <1>11 DEF Unlock, Step, Finished
  <2> QED BY <1>6, <2>1
<1> QED
  BY <1>1, <1>2, <1>3, <1>4, <1>7, <1>8, <1>9, <1>10, <1>11 DEF Next, Server, Turn
-----------------------------------------------------------------------------
(* Frames. *)

\* The server sends the client a frame: the error of a turn that could not start, or the
\* next event of a turn.
Hears(d, t, m) ==
  /\ down'[d] = Append(down[d], Frame(t, m)) /\ of[m] = d
  /\ \/ t \in Final /\ turn[m] = "none" /\ turn'[m] = "ended" /\ events'[m] = <<>>
     \/ events[m] # <<>> /\ t = events[m][1] /\ events'[m] = Tail(events[m]) /\ turn'[m] = turn[m]

LEMMA WroteAt ==
  ASSUME TypeOK, NEW c \in Conns, NEW f \in DownFrame, NEW d \in Conns, down' = Wrote(c, f)
  PROVE  down'[d] = down[d] \/ (d = c /\ down'[d] = Append(down[d], f))
<1> DEFINE a == Append(down[c], f)
<1>1. down' = [down EXCEPT ![c] = a] \/ down' = down
  BY DEF Wrote
<1> HIDE DEF a
<1>2. down'[d] = down[d] \/ (d = c /\ down'[d] = a)
  BY <1>1 DEF TypeOK
<1> QED BY <1>2 DEF a

\* What becomes of the frames on their way to the page.
LEMMA DownStep ==
  ASSUME TypeOK, LinkInv, MessageInv, FrameInv, client = "page", [Next]_vars, NEW d \in Conns
  PROVE  \/ Part(down'[d], down[d])
         \/ down'[d] = <<Frame("session", NoMsg)>>
         \/ \E m \in Msgs, t \in Event : Hears(d, t, m)
<1> USE DEF page, net, server, turns, NoConn, NoMsg
<1>0. down[d] \in Seq(DownFrame) /\ Part(down[d], down[d]) /\ Part(<<>>, down[d])
  BY WholeAt DEF TypeOK
<1>1. ASSUME NEW c \in Conns, Connect(c)
      PROVE  Part(down'[d], down[d]) \/ down'[d] = <<Frame("session", NoMsg)>>
  <2> DEFINE q == <<Frame("session", NoMsg)>>
  <2>1. down' = [down EXCEPT ![c] = q]
    BY <1>1 DEF Connect, Register
  <2> HIDE DEF q
  <2>2. down'[d] = q \/ down'[d] = down[d]
    BY <2>1 DEF TypeOK
  <2> QED BY <1>0, <2>2 DEF q
<1>2. CASE Lose
  <2>1. down' = [down EXCEPT ![conn] = <<>>]
    BY <1>2 DEF Lose
  <2>2. down'[d] = <<>> \/ down'[d] = down[d]
    BY <2>1 DEF TypeOK
  <2> QED BY <1>0, <2>2
<1>3. CASE OnMessage
  <2> DEFINE q == Tail(down[conn])
  <2>1. down' = [down EXCEPT ![conn] = q] /\ conn \in Conns /\ down[conn] # <<>>
    BY <1>3 DEF OnMessage, TypeOK
  <2>2. Part(q, down[conn])
    BY <2>1, TailAt DEF TypeOK
  <2> HIDE DEF q
  <2>3. down'[d] = down[d] \/ (d = conn /\ down'[d] = q)
    BY <2>1 DEF TypeOK
  <2> QED BY <1>0, <2>2, <2>3
<1>4. ASSUME NEW c \in Conns, ReadFrame(c) PROVE Part(down'[d], down[d])
  <2>1. up[c] # <<>> /\ (Head(up[c]).type = "junk" \/ down' = down)
    BY <1>4 DEF ReadFrame
  <2>2. Head(up[c]) = up[c][1] /\ Len(up[c]) \in Nat /\ Len(up[c]) >= 1
    BY <2>1, TailAt DEF TypeOK
  <2>3. up[c][1].type # "junk"
    BY <2>2 DEF FrameInv, NoJunk
  <2> QED BY <1>0, <2>1, <2>2, <2>3
<1>5. ASSUME NEW c \in Conns, RunTurnFails(c)
      PROVE  Part(down'[d], down[d]) \/ \E m \in Msgs, t \in Event : Hears(d, t, m)
  <2> DEFINE k == current[c]
  <2>1. /\ handler[c] = "lock" /\ down' = Wrote(c, Frame("error", k))
        /\ turn' = [turn EXCEPT ![k] = "ended"] /\ UNCHANGED events
    BY <1>5 DEF RunTurnFails
  <2>2. k \in Msgs /\ of[k] = c /\ turn[k] = "none" /\ events[k] = <<>>
    BY <2>1 DEF MessageInv, Waiting, Unsent, TypeOK
  <2> HIDE DEF k
  <2>3. Frame("error", k) \in DownFrame /\ "error" \in Event /\ "error" \in Final
    BY <2>2, FrameType DEF Event, Final
  <2>4. down'[d] = down[d] \/ (d = c /\ down'[d] = Append(down[d], Frame("error", k)))
    BY <2>1, <2>3, WroteAt
  <2>5. turn'[k] = "ended" /\ events'[k] = <<>>
    BY <2>1, <2>2 DEF TypeOK
  <2>6. d = c /\ down'[d] = Append(down[d], Frame("error", k)) => Hears(d, "error", k)
    BY <2>2, <2>3, <2>5 DEF Hears
  <2> QED BY <1>0, <2>2, <2>3, <2>4, <2>6
<1>6. ASSUME NEW m \in Msgs, Forward(m)
      PROVE  Part(down'[d], down[d]) \/ \E n \in Msgs, t \in Event : Hears(d, t, n)
  <2> DEFINE e == Head(events[m])
             p == Tail(events[m])
  <2>1. /\ events[m] # <<>> /\ events' = [events EXCEPT ![m] = p] /\ turn' = turn
        /\ down' = Wrote(of[m], Frame(e, m))
    BY <1>6 DEF Forward
  <2>2. e \in Event /\ e = events[m][1]
    BY <2>1, TailAt DEF TypeOK
  <2>3. of[m] \in Conns
    BY <2>1 DEF MessageInv, Unsent, TypeOK
  <2> HIDE DEF e, p
  <2>4. Frame(e, m) \in DownFrame
    BY <2>2, FrameType
  <2>5. down'[d] = down[d] \/ (d = of[m] /\ down'[d] = Append(down[d], Frame(e, m)))
    BY <2>1, <2>3, <2>4, WroteAt
  <2>6. turn'[m] = turn[m] /\ events'[m] = p
    BY <2>1 DEF TypeOK
  <2>7. d = of[m] /\ down'[d] = Append(down[d], Frame(e, m)) => Hears(d, e, m)
    BY <2>1, <2>2, <2>6 DEF Hears, p
  <2> QED BY <1>0, <2>2, <2>5, <2>7
<1>7. ASSUME down' = down PROVE Part(down'[d], down[d])
  BY <1>0, <1>7
<1>8. ASSUME NEW m \in Msgs, Send(m) \/ Click(m) \/ Turn(m) PROVE down' = down
  BY <1>8 DEF Send, Click, Turn, AskApproval, RequestApproval, ApprovalEnds, LastEvent, Unlock
<1>9. ASSUME NEW c \in Conns, ReadError(c) \/ RunTurn(c) PROVE down' = down
  BY <1>9 DEF ReadError, RunTurn
<1>10. SendJunk \/ UNCHANGED vars => down' = down
  BY DEF SendJunk, vars
<1> QED
  BY <1>1, <1>2, <1>3, <1>4, <1>5, <1>6, <1>7, <1>8, <1>9, <1>10 DEF Next, User, Server

\* A message stays on its connection, and a turn that is over stays over.
LEMMA TurnStep ==
  ASSUME TypeOK, MessageInv, [Next]_vars, NEW m \in Msgs
  PROVE  /\ client' = client
         /\ of[m] # NoConn => of'[m] = of[m]
         /\ turn[m] \in Finished => turn'[m] \in Finished
         /\ turn[m] \in Finished /\ events[m] = <<>> => events'[m] = <<>>
<1> USE DEF page, net, server, turns, NoConn, NoMsg
<1>1. CASE User \/ OnMessage \/ UNCHANGED vars
  BY <1>1 DEF User, Connect, Register, Send, Click, Lose, SendJunk, OnMessage, vars, TypeOK
<1>2. ASSUME NEW c \in Conns, ReadError(c) \/ ReadFrame(c)
      PROVE  UNCHANGED <<client, of, turn, events>>
  BY <1>2 DEF ReadError, ReadFrame
<1>3. ASSUME NEW c \in Conns, RunTurnFails(c) \/ RunTurn(c)
      PROVE  UNCHANGED <<client, of, events>> /\ (turn[m] # "none" => turn'[m] = turn[m])
  <2>1. /\ handler[c] = "lock" /\ UNCHANGED <<client, of, events>>
        /\ \/ turn' = [turn EXCEPT ![current[c]] = "ended"]
           \/ turn' = [turn EXCEPT ![current[c]] = "run"]
    BY <1>3 DEF RunTurnFails, RunTurn
  <2>2. turn[current[c]] = "none"
    BY <2>1 DEF MessageInv, Waiting
  <2> QED BY <2>1, <2>2 DEF TypeOK
<1>4. ASSUME NEW n \in Msgs, Forward(n)
      PROVE  UNCHANGED <<client, of, turn>> /\ (events[m] = <<>> => events'[m] = <<>>)
  BY <1>4 DEF Forward, TypeOK
<1>5. ASSUME NEW n \in Msgs, Turn(n)
      PROVE  /\ UNCHANGED <<client, of>>
             /\ turn[m] \in Finished => turn'[m] \in Finished /\ events'[m] = events[m]
  <2> USE DEF TypeOK, Step, Out, Finished
  <2>1. CASE AskApproval(n)
    BY <2>1 DEF AskApproval
  <2>2. CASE RequestApproval(n)
    BY <2>2 DEF RequestApproval
  <2>3. CASE ApprovalEnds(n)
    BY <2>3 DEF ApprovalEnds
  <2>4. CASE LastEvent(n)
    BY <2>4 DEF LastEvent
  <2>5. CASE Unlock(n)
    BY <2>5 DEF Unlock
  <2> QED BY <1>5, <2>1, <2>2, <2>3, <2>4, <2>5 DEF Turn
<1> QED BY <1>1, <1>2, <1>3, <1>4, <1>5 DEF Next, Server, Finished

\* The page sends messages and answers, and the server takes them.
LEMMA UpStep ==
  ASSUME TypeOK, client = "page", [Next]_vars, NEW d \in Conns
  PROVE  \/ Part(up'[d], up[d])
         \/ \E m \in Msgs \cup {NoMsg}, t \in {"message", "yes", "no"} : up'[d] = Append(up[d], Frame(t, m))
<1> USE DEF page, net, server, turns, NoConn, NoMsg
<1>0. up[d] \in Seq(UpFrame) /\ Part(up[d], up[d])
  BY WholeAt DEF TypeOK
<1>1. ASSUME NEW m \in Msgs \cup {NoMsg}, NEW t \in {"message", "yes", "no"}, Post(Frame(t, m)), conn # NoConn
      PROVE  up'[d] = up[d] \/ up'[d] = Append(up[d], Frame(t, m))
  <2>1. up' = [up EXCEPT ![conn] = Append(up[conn], Frame(t, m))]
    BY <1>1 DEF Post
  <2> QED BY <2>1 DEF TypeOK
<1>2. ASSUME NEW m \in Msgs, Send(m)
      PROVE  up'[d] = up[d] \/ \E t \in {"message", "yes", "no"} : up'[d] = Append(up[d], Frame(t, m))
  BY <1>1, <1>2 DEF Send
<1>3. ASSUME NEW m \in Msgs, Click(m)
      PROVE  up'[d] = up[d] \/ \E t \in {"message", "yes", "no"} : up'[d] = Append(up[d], Frame(t, m))
  BY <1>1, <1>3 DEF Click
<1>4. CASE Lose
  <2>1. PICK n \in 0 .. Len(up[conn]) : up' = [up EXCEPT ![conn] = SubSeq(up[conn], 1, n)]
    BY <1>4 DEF Lose
  <2>2. conn \in Conns
    BY <1>4 DEF Lose, TypeOK
  <2> DEFINE q == SubSeq(up[conn], 1, n)
  <2>3. Part(q, up[conn])
    BY <2>2, PrefixAt DEF TypeOK
  <2> HIDE DEF q
  <2>4. up'[d] = up[d] \/ (d = conn /\ up'[d] = q)
    BY <2>1 DEF TypeOK, q
  <2> QED BY <1>0, <2>3, <2>4
<1>5. ASSUME NEW c \in Conns, ReadFrame(c) PROVE Part(up'[d], up[d])
  <2> DEFINE q == Tail(up[c])
  <2>1. up[c] # <<>> /\ up' = [up EXCEPT ![c] = q]
    BY <1>5 DEF ReadFrame
  <2>2. Part(q, up[c])
    BY <2>1, TailAt DEF TypeOK
  <2> HIDE DEF q
  <2>3. up'[d] = up[d] \/ (d = c /\ up'[d] = q)
    BY <2>1 DEF TypeOK
  <2> QED BY <1>0, <2>2, <2>3
<1>6. ASSUME NEW c \in Conns, Connect(c) \/ ReadError(c) \/ RunTurnFails(c) \/ RunTurn(c) PROVE up' = up
  BY <1>6 DEF Connect, ReadError, RunTurnFails, RunTurn
<1>7. ASSUME NEW m \in Msgs, Forward(m) \/ Turn(m) PROVE up' = up
  BY <1>7 DEF Forward, Turn, AskApproval, RequestApproval, ApprovalEnds, LastEvent, Unlock
<1>8. OnMessage \/ UNCHANGED vars => up' = up
  BY DEF OnMessage, vars
<1>9. ~SendJunk
  BY DEF SendJunk
<1>10. up' = up => Part(up'[d], up[d])
  BY <1>0
<1> QED BY <1>0, <1>2, <1>3, <1>4, <1>5, <1>6, <1>7, <1>8, <1>9, <1>10 DEF Next, User, Server

\* When the client is to hear something of a message, it has not heard the end of one of
\* the connection.
LEMMA NoFinalYet ==
  ASSUME TypeOK, PageInv, client = "page", NEW d \in Conns, NEW m \in Msgs, NEW n \in Msgs,
         of[m] = d, turn[m] = "none" \/ events[m] # <<>>,
         NEW i \in 1 .. Len(down[d]), down[d][i].m = n, of[n] = d
  PROVE  ~(turn[n] \in Finished /\ events[n] = <<>>)
<1>1. d # NoConn /\ m \in Nat /\ n \in Nat
  BY WebChatAssumption DEF WebChatAssumption, Conns, Msgs, NoConn
<1>2. ASSUME n < m PROVE FALSE
  BY <1>1, <1>2 DEF PageInv, Over
<1>3. ASSUME m < n PROVE FALSE
  BY <1>1, <1>3 DEF PageInv, Over, Finished
<1>4. n = m
  BY <1>1, <1>2, <1>3
<1> QED BY <1>4 DEF Finished

LEMMA FrameStep ==
  ASSUME TypeOK, TypeOK', LinkInv, MessageInv, EventInv, FrameInv, PageInv, [Next]_vars
  PROVE  FrameInv'
<1> USE DEF NoConn, NoMsg
<1> SUFFICES ASSUME client' = "page", NEW d \in Conns
             PROVE  /\ NoJunk(up'[d])
                    /\ \A i \in 1 .. Len(down'[d]) :
                         Belongs(down'[d][i], d, i = Len(down'[d]), of', turn', events')
  BY DEF FrameInv
<1>0. client = "page" /\ 0 \notin Conns /\ 0 \notin Msgs
  <2>1. client' = client
    BY DEF Next, User, Server, Turn, Connect, Register, Send, Click, Lose, SendJunk, OnMessage, ReadError,
      ReadFrame, RunTurnFails, RunTurn, Forward, AskApproval, RequestApproval, ApprovalEnds, LastEvent, Unlock, vars
  <2> QED BY <2>1, WebChatAssumption DEF WebChatAssumption, Conns, Msgs
<1>1. NoJunk(up'[d])
  <2>1. NoJunk(up[d]) /\ up[d] \in Seq(UpFrame)
    BY <1>0 DEF FrameInv, TypeOK
  <2>2. CASE Part(up'[d], up[d])
    BY <2>1, <2>2 DEF Part, NoJunk
  <2>3. CASE \E m \in Msgs \cup {0}, t \in {"message", "yes", "no"} : up'[d] = Append(up[d], Frame(t, m))
    <3>1. PICK m \in Msgs \cup {0}, t \in {"message", "yes", "no"} : up'[d] = Append(up[d], Frame(t, m))
      BY <2>3
    <3> DEFINE f == Frame(t, m)
    <3>2. f \in UpFrame /\ f.type # "junk"
      BY FrameType DEF Frame
    <3> HIDE DEF f
    <3>3. /\ Len(up[d]) \in Nat /\ Len(up'[d]) = Len(up[d]) + 1 /\ up'[d][Len(up[d]) + 1] = f
          /\ \A i \in 1 .. Len(up[d]) : up'[d][i] = up[d][i]
      BY <2>1, <3>1, <3>2, AppendAt DEF f
    <3>4. \A i \in 1 .. Len(up'[d]) : i \in 1 .. Len(up[d]) \/ i = Len(up[d]) + 1
      BY <3>3
    <3> QED BY <2>1, <3>2, <3>3, <3>4 DEF NoJunk
  <2> QED BY <1>0, <2>2, <2>3, UpStep
<1>q. /\ down[d] \in Seq(DownFrame) /\ Len(down[d]) \in Nat
      /\ down'[d] \in Seq(DownFrame) /\ Len(down'[d]) \in Nat
  BY LenProperties DEF TypeOK
<1>b. \A i \in 1 .. Len(down[d]) : Belongs(down[d][i], d, i = Len(down[d]), of, turn, events)
  BY <1>0 DEF FrameInv
<1>s. ASSUME NEW f, NEW last \in BOOLEAN, NEW last2 \in BOOLEAN, Belongs(f, d, last, of, turn, events),
             f.type \in Final /\ last => last2
      PROVE  Belongs(f, d, last2, of', turn', events')
  <2>1. CASE f.type = "session" /\ f.m = NoMsg
    BY <2>1 DEF Belongs
  <2>2. CASE f.m \in Msgs /\ of[f.m] = d /\ (f.type \in Final => last /\ turn[f.m] \in Finished /\ events[f.m] = <<>>)
    BY <1>0, <1>s, <2>2, TurnStep DEF Belongs
  <2> QED BY <1>s, <2>1, <2>2 DEF Belongs
<1>2. CASE Part(down'[d], down[d])
  <2>1. PICK k \in Nat : /\ Len(down'[d]) + k <= Len(down[d])
                        /\ \A i \in 1 .. Len(down'[d]) : i + k \in 1 .. Len(down[d]) /\ down'[d][i] = down[d][i + k]
    BY <1>2 DEF Part
  <2>2. ASSUME NEW i \in 1 .. Len(down'[d]) PROVE Belongs(down'[d][i], d, i = Len(down'[d]), of', turn', events')
    <3>1. Belongs(down'[d][i], d, i + k = Len(down[d]), of, turn, events)
      BY <1>b, <2>1
    <3>2. i + k = Len(down[d]) => i = Len(down'[d])
      BY <1>q, <2>1
    <3> QED BY <1>s, <3>1, <3>2
  <2> QED BY <1>1, <2>2
<1>3. CASE down'[d] = <<Frame("session", NoMsg)>>
  <2>1. Len(down'[d]) = 1 /\ down'[d][1].type = "session" /\ down'[d][1].m = NoMsg
    BY <1>3 DEF Frame
  <2> QED BY <1>1, <2>1 DEF Belongs
<1>4. CASE \E m \in Msgs, t \in Event : Hears(d, t, m)
  <2>1. PICK m \in Msgs, t \in Event : Hears(d, t, m)
    BY <1>4
  <2> DEFINE f == Frame(t, m)
  <2>2. f \in DownFrame /\ f.type = t /\ f.m = m
    BY FrameType DEF Frame
  <2> HIDE DEF f
  <2>3. /\ Len(down'[d]) = Len(down[d]) + 1 /\ down'[d][Len(down[d]) + 1] = f
        /\ \A i \in 1 .. Len(down[d]) : down'[d][i] = down[d][i]
    BY <1>q, <2>1, <2>2, AppendAt DEF Hears, f
  <2>4. ASSUME NEW i \in 1 .. Len(down[d]) PROVE Belongs(down[d][i], d, FALSE, of', turn', events')
    <3>1. Belongs(down[d][i], d, i = Len(down[d]), of, turn, events)
      BY <1>b
    <3>2. ~(down[d][i].type \in Final /\ i = Len(down[d]))
      <4> SUFFICES ASSUME down[d][i].type \in Final PROVE FALSE
        OBVIOUS
      <4> DEFINE n == down[d][i].m
      <4>1. n \in Msgs /\ of[n] = d /\ turn[n] \in Finished /\ events[n] = <<>>
        BY <3>1 DEF Belongs, Final
      <4>2. of[m] = d /\ (turn[m] = "none" \/ events[m] # <<>>)
        BY <2>1 DEF Hears
      <4> HIDE DEF n
      <4>3. down[d][i].m = n
        BY DEF n
      <4> QED BY <1>0, <4>1, <4>2, <4>3, NoFinalYet
    <3> QED BY <1>s, <3>1, <3>2
  <2>5. Belongs(f, d, TRUE, of', turn', events')
    <3>1. of'[m] = d
      BY <1>0, <2>1, TurnStep DEF Hears
    <3>2. ASSUME t \in Final PROVE turn'[m] \in Finished /\ events'[m] = <<>>
      <4>1. CASE turn'[m] = "ended" /\ events'[m] = <<>>
        BY <4>1 DEF Finished
      <4>2. CASE events[m] # <<>> /\ t = events[m][1] /\ events'[m] = Tail(events[m]) /\ turn'[m] = turn[m]
        <5>1. events[m] \in Seq(Event) /\ events'[m] \in Seq(Event) /\ Ends(events[m], turn[m])
          BY DEF TypeOK, EventInv
        <5>2. Len(events[m]) \in Nat /\ Len(events[m]) >= 1 /\ Len(events'[m]) = Len(events[m]) - 1
          BY <4>2, <5>1, TailAt
        <5> DEFINE q == events[m]
        <5>3. 1 \in 1 .. Len(q) /\ q[1] \in Final /\ Ends(q, turn[m])
          BY <3>2, <4>2, <5>1, <5>2
        <5> HIDE DEF q
        <5>5. 1 = Len(q) /\ turn[m] \in Finished
          BY <5>3 DEF Ends
        <5>6. Tail(q) = <<>>
          BY <5>1, <5>5, TailOfOne DEF q
        <5> QED BY <4>2, <5>5, <5>6 DEF q
      <4> QED BY <2>1, <4>1, <4>2 DEF Hears
    <3> QED BY <2>2, <3>1, <3>2 DEF Belongs
  <2>6. ASSUME NEW i \in 1 .. Len(down'[d]) PROVE Belongs(down'[d][i], d, i = Len(down'[d]), of', turn', events')
    <3>1. CASE i \in 1 .. Len(down[d])
      <4>1. (i = Len(down'[d])) = FALSE /\ down'[d][i] = down[d][i]
        BY <1>q, <2>3, <3>1
      <4> QED BY <2>4, <3>1, <4>1
    <3>2. CASE i = Len(down[d]) + 1
      <4>1. (i = Len(down'[d])) = TRUE /\ down'[d][i] = f
        BY <1>q, <2>3, <3>2
      <4> QED BY <2>5, <4>1
    <3> QED BY <1>q, <2>3, <3>1, <3>2
  <2> QED BY <1>1, <2>6
<1> QED BY <1>0, <1>2, <1>3, <1>4, DownStep

-----------------------------------------------------------------------------
(* The page. *)

\* What the client has heard to the end stays so.
LEMMA OverStep ==
  ASSUME TypeOK, TypeOK', LinkInv, MessageInv, FrameInv, client = "page", [Next]_vars,
         NEW m \in Msgs, of[m] # NoConn, Over(m)
  PROVE  Over(m)' /\ of'[m] = of[m]
<1> DEFINE d == of[m]
<1>1. d \in Conns /\ of'[m] = d
  BY TurnStep DEF TypeOK
<1>2. turn'[m] \in Finished /\ events'[m] = <<>>
  BY TurnStep DEF Over
<1>3. turn[m] \in Finished /\ events[m] = <<>> /\ \A i \in 1 .. Len(down[d]) : down[d][i].m # m
  BY DEF Over
<1>4. m # NoMsg
  BY DEF Msgs, NoMsg
<1> HIDE DEF d
<1>5. CASE Part(down'[d], down[d])
  <2>1. \A i \in 1 .. Len(down'[d]) : down'[d][i].m # m
    BY <1>3, <1>5 DEF Part
  <2> QED BY <1>1, <1>2, <2>1 DEF Over, d
<1>6. CASE down'[d] = <<Frame("session", NoMsg)>>
  <2>1. \A i \in 1 .. Len(down'[d]) : down'[d][i].m # m
    BY <1>4, <1>6 DEF Frame
  <2> QED BY <1>1, <1>2, <2>1 DEF Over, d
<1>7. CASE \E n \in Msgs, t \in Event : Hears(d, t, n)
  <2>1. PICK n \in Msgs, t \in Event : Hears(d, t, n)
    BY <1>7
  <2>2. n # m
    BY <1>3, <2>1 DEF Hears, Finished
  <2> DEFINE f == Frame(t, n)
  <2>3. f \in DownFrame /\ f.m = n
    BY FrameType DEF Frame
  <2> HIDE DEF f
  <2>4. down[d] \in Seq(DownFrame) /\ down'[d] = Append(down[d], f)
    BY <1>1, <2>1 DEF Hears, f, TypeOK
  <2>5. /\ Len(down[d]) \in Nat /\ Len(down'[d]) = Len(down[d]) + 1 /\ down'[d][Len(down[d]) + 1] = f
        /\ \A i \in 1 .. Len(down[d]) : down'[d][i] = down[d][i]
    BY <2>3, <2>4, AppendAt
  <2>6. \A i \in 1 .. Len(down'[d]) : i \in 1 .. Len(down[d]) \/ i = Len(down[d]) + 1
    BY <2>5
  <2>7. \A i \in 1 .. Len(down'[d]) : down'[d][i].m # m
    BY <1>3, <2>2, <2>3, <2>5, <2>6
  <2> QED BY <1>1, <1>2, <2>7 DEF Over, d
<1> QED BY <1>1, <1>5, <1>6, <1>7, DownStep

LEMMA PageStep ==
  ASSUME TypeOK, TypeOK', LinkInv, MessageInv, FrameInv, PageInv, [Next]_vars
  PROVE  PageInv'
<1> USE DEF page, net, server, turns, NoConn, NoMsg
<1> SUFFICES ASSUME client' = "page"
             PROVE  /\ \A m, n \in Msgs : m < n /\ of'[n] # 0 => of'[m] # 0 /\ (of'[m] = of'[n] => Over(m)')
                    /\ input' => running' = <<>>
                    /\ input' /\ conn' # 0 => \A m \in Msgs : of'[m] = conn' => Over(m)'
  BY DEF PageInv
<1>0. client = "page" /\ 0 \notin Conns /\ 0 \notin Msgs
  <2>1. client' = client
    BY DEF Next, User, Server, Turn, Connect, Register, Send, Click, Lose, SendJunk, OnMessage, ReadError,
      ReadFrame, RunTurnFails, RunTurn, Forward, AskApproval, RequestApproval, ApprovalEnds, LastEvent, Unlock, vars
  <2> QED BY <2>1, WebChatAssumption DEF WebChatAssumption, Conns, Msgs
<1>p. /\ \A m, n \in Msgs : m < n /\ of[n] # 0 => of[m] # 0 /\ (of[m] = of[n] => Over(m))
      /\ input => running = <<>>
      /\ input /\ conn # 0 => \A m \in Msgs : of[m] = conn => Over(m)
  BY <1>0 DEF PageInv
<1>o. \A m \in Msgs : of[m] # 0 => of'[m] = of[m] /\ (Over(m) => Over(m)')
  BY <1>0, TurnStep, OverStep
<1>n. of' = of \/ \E n \in Msgs : Send(n)
  BY DEF Next, User, Server, Turn, Connect, Register, Click, Lose, SendJunk, OnMessage, ReadError,
    ReadFrame, RunTurnFails, RunTurn, Forward, AskApproval, RequestApproval, ApprovalEnds, LastEvent, Unlock, vars
<1>1. ASSUME NEW m \in Msgs, NEW n \in Msgs, m < n, of'[n] # 0
      PROVE  of'[m] # 0 /\ (of'[m] = of'[n] => Over(m)')
  <2>1. CASE of[n] # 0
    BY <1>1, <1>o, <1>p, <2>1
  <2>2. CASE of[n] = 0
    <3>1. PICK k \in Msgs : Send(k)
      BY <1>1, <1>n, <2>2
    <3>2. k = n
      BY <1>1, <2>2, <3>1 DEF Send, TypeOK
    <3>3. of'[n] = conn /\ conn # 0 /\ input /\ \A j \in 1 .. n - 1 : of[j] # 0
      BY <1>0, <3>1, <3>2 DEF Send, TypeOK
    <3>4. m \in 1 .. n - 1
      BY <1>1, WebChatAssumption DEF WebChatAssumption, Msgs
    <3> QED BY <1>o, <1>p, <3>3, <3>4
  <2> QED BY <2>1, <2>2
<1>2. ASSUME input' => input /\ running' = running, conn' = conn \/ conn' = 0, of' = of
      PROVE  /\ input' => running' = <<>>
             /\ input' /\ conn' # 0 => \A m \in Msgs : of'[m] = conn' => Over(m)'
  BY <1>2, <1>o, <1>p
<1>3. ASSUME NEW c \in Conns, Connect(c)
      PROVE  /\ input' => running' = <<>>
             /\ input' /\ conn' # 0 => \A m \in Msgs : of'[m] = conn' => Over(m)'
  <2>1. conn' = c /\ of' = of /\ UNCHANGED <<input, running>> /\ \A m \in Msgs : of[m] # c
    BY <1>3 DEF Connect, LinkInv
  <2> QED BY <1>p, <2>1
<1>4. ASSUME NEW n \in Msgs, Send(n) PROVE ~input'
  BY <1>0, <1>4 DEF Send, SetInputEnabled
<1>5. ASSUME OnMessage
      PROVE  /\ input' => running' = <<>>
             /\ input' /\ conn' # 0 => \A m \in Msgs : of'[m] = conn' => Over(m)'
  <2> DEFINE f == down[conn][1]
  <2>1. /\ conn \in Conns /\ down[conn] \in Seq(DownFrame) /\ down[conn] # <<>>
        /\ down' = [down EXCEPT ![conn] = Tail(down[conn])] /\ of' = of /\ conn' = conn
    BY <1>5 DEF OnMessage, TypeOK
  <2>2. Head(down[conn]) = f /\ Len(down[conn]) \in Nat /\ 1 \in 1 .. Len(down[conn]) /\ f \in DownFrame
    BY <2>1, TailAt
  <2>3. Belongs(f, conn, 1 = Len(down[conn]), of, turn, events)
    BY <1>0, <2>1, <2>2 DEF FrameInv
  <2>4. f.type # "session" => f.m \in Msgs /\ of[f.m] = conn /\ ~Over(f.m)
    <3>1. f.type # "session" => f.m \in Msgs /\ of[f.m] = conn
      BY <2>3 DEF Belongs
    <3>2. f.m \in Msgs /\ of[f.m] = conn => ~Over(f.m)
      BY <2>2 DEF Over
    <3> QED BY <3>1, <3>2
  <2> HIDE DEF f
  <2>5. \/ UNCHANGED <<input, running>>
        \/ f.type = "tool_call" /\ UNCHANGED input
        \/ MarkFirstCardDone /\ UNCHANGED input
        \/ f.type \in {"done", "error"} /\ ResetTurnState /\ SetInputEnabled(TRUE)
    BY <1>5, <2>2 DEF OnMessage
  <2>6. CASE UNCHANGED <<input, running>>
    <3>1. input' => input /\ running' = running
      BY <2>6
    <3> QED BY <1>2, <2>1, <3>1
  <2>7. CASE f.type = "tool_call" /\ UNCHANGED input
    <3>1. f.m \in Msgs /\ of[f.m] = conn /\ ~Over(f.m) /\ conn # 0
      BY <1>0, <2>1, <2>4, <2>7
    <3>2. ~input
      BY <1>p, <3>1
    <3>3. ~input'
      BY <2>7, <3>2
    <3> QED BY <3>3
  <2>8. CASE MarkFirstCardDone /\ UNCHANGED input
    <3>1. running = <<>> => running' = running
      BY <2>8 DEF MarkFirstCardDone
    <3>2. input' => input
      BY <2>8
    <3>3. input' => input /\ running' = running
      BY <1>p, <3>1, <3>2
    <3> QED BY <1>2, <2>1, <3>3
  <2>9. CASE f.type \in {"done", "error"} /\ ResetTurnState /\ SetInputEnabled(TRUE)
    <3> DEFINE k == f.m
    <3>1. /\ k \in Msgs /\ of[k] = conn /\ ~Over(k) /\ 1 = Len(down[conn])
          /\ turn[k] \in Finished /\ events[k] = <<>>
      BY <2>3, <2>4, <2>9 DEF Belongs, Final
    <3> HIDE DEF k
    <3>2. down'[conn] = <<>>
      <4>1. Tail(down[conn]) = <<>>
        BY <2>1, <3>1, TailOfOne
      <4> QED BY <2>1, <4>1 DEF TypeOK
    <3>3. ASSUME NEW m \in Msgs, of'[m] = conn' PROVE Over(m)'
      <4>1. of[m] = conn /\ conn # 0 /\ of'[m] = conn
        BY <1>0, <2>1, <3>3
      <4>2. m < k \/ m = k \/ k < m
        BY <3>1 DEF Msgs
      <4>3. CASE m = k
        <5>1. turn'[m] \in Finished /\ events'[m] = <<>>
          BY <3>1, <4>3, TurnStep
        <5>2. \A i \in 1 .. Len(down'[of'[m]]) : FALSE
          BY <3>2, <4>1
        <5> QED BY <5>1, <5>2 DEF Over
      <4>4. CASE m < k
        BY <1>o, <1>p, <3>1, <4>1, <4>4
      <4>5. CASE k < m
        BY <1>p, <3>1, <4>1, <4>5
      <4> QED BY <4>2, <4>3, <4>4, <4>5
    <3>4. running' = <<>>
      BY <2>9 DEF ResetTurnState
    <3> QED BY <3>3, <3>4
  <2> QED BY <2>5, <2>6, <2>7, <2>8, <2>9
<1>6. Lose \/ UNCHANGED vars => UNCHANGED <<input, running, of>> /\ (conn' = conn \/ conn' = 0)
  BY DEF Lose, vars
<1>7. ASSUME NEW m \in Msgs, Click(m) \/ Turn(m) \/ Forward(m) PROVE UNCHANGED <<input, running, of, conn>>
  BY <1>7 DEF Click, Turn, Forward, AskApproval, RequestApproval, ApprovalEnds, LastEvent, Unlock
<1>8. ASSUME NEW c \in Conns, Server(c) PROVE UNCHANGED <<input, running, of, conn>>
  BY <1>8 DEF Server, ReadError, ReadFrame, RunTurnFails, RunTurn
<1>9. ~SendJunk
  BY <1>0 DEF SendJunk
<1>10. /\ input' => running' = <<>>
       /\ input' /\ conn' # 0 => \A m \in Msgs : of'[m] = conn' => Over(m)'
  BY <1>2, <1>3, <1>4, <1>5, <1>6, <1>7, <1>8, <1>9 DEF Next, User
<1> QED BY <1>1, <1>10

LEMMA InitInv == Init => IInv
<1> SUFFICES ASSUME Init PROVE IInv
  OBVIOUS
<1> USE DEF NoConn, NoMsg
<1>0. 0 \notin Conns /\ 0 \notin Msgs
  BY WebChatAssumption DEF WebChatAssumption, Conns, Msgs
<1>1. TypeOK
  BY InitTypes
<1>2. LinkInv
  BY <1>0 DEF Init, LinkInv
<1>3. MessageInv
  BY <1>0 DEF Init, MessageInv, Unsent, Queue, Waiting, Locked
<1>4. EventInv
  BY DEF Init, EventInv, Ends
<1>5. FrameInv
  BY DEF Init, FrameInv, NoJunk
<1>6. PageInv
  BY DEF Init, PageInv
<1> QED BY <1>1, <1>2, <1>3, <1>4, <1>5, <1>6 DEF IInv

LEMMA InvStep == IInv /\ [Next]_vars => IInv'
<1> SUFFICES ASSUME IInv, [Next]_vars PROVE IInv'
  OBVIOUS
<1>1. TypeOK /\ LinkInv /\ MessageInv /\ EventInv /\ FrameInv /\ PageInv
  BY DEF IInv
<1>2. TypeOK'
  BY <1>1, TypeStep
<1> QED BY <1>1, <1>2, LinkStep, MessageStep, EventStep, FrameStep, PageStep DEF IInv

LEMMA Invariance == Spec => []IInv
BY InitInv, InvStep, PTL DEF Spec

-----------------------------------------------------------------------------
(* What the page can rely on. *)

\* ReadLoopFree: the read loop of handleWebSocket never waits for the session lock behind
\* a turn of the page that still works, so it is there for the page's answers.
THEOREM ReadLoopReads == Spec => []ReadLoopFree
<1>1. IInv => ReadLoopFree
  <2> SUFFICES ASSUME IInv, client = "page", NEW c \in Conns, handler[c] = "lock", lock[c] # NoMsg
               PROVE  turn[lock[c]] = "last"
    BY DEF ReadLoopFree
  <2> DEFINE k == current[c]
             m == lock[c]
  <2>1. k \in Msgs /\ of[k] = c /\ turn[k] = "none"
    BY DEF IInv, TypeOK, MessageInv, Waiting, NoMsg
  <2>a. c # NoConn
    BY WebChatAssumption DEF WebChatAssumption, Conns, NoConn
  <2>2. m \in Msgs /\ of[m] = c /\ turn[m] \in Working \cup {"last"} /\ c # NoConn
    BY <2>a DEF IInv, TypeOK, MessageInv, Locked, NoMsg
  <2>3. k \in Int /\ m \in Int /\ m # k
    BY <2>1, <2>2 DEF Msgs, Working
  <2> HIDE DEF k, m
  <2>4. CASE m < k
    <3>1. Over(m)
      BY <2>1, <2>2, <2>4 DEF IInv, PageInv
    <3> QED BY <2>2, <3>1 DEF Over, Finished, Working, m
  <2>5. CASE k < m
    <3>1. Over(k)
      BY <2>1, <2>2, <2>5 DEF IInv, PageInv
    <3> QED BY <2>1, <3>1 DEF Over, Finished
  <2> QED BY <2>3, <2>4, <2>5 DEF m
<1> QED BY <1>1, Invariance, PTL

\* IdlePage: a page whose input is enabled shows no spinning card, and every turn of its
\* connection is over and heard to its end.
THEOREM IdlePageIsIdle == Spec => []IdlePage
<1>1. IInv => IdlePage
  BY DEF IInv, PageInv, IdlePage, Over, Finished
<1> QED BY <1>1, Invariance, PTL

-----------------------------------------------------------------------------
(* Tasks.  The inductive invariant says which object a request works on,   *)
(* and adds to each property the requests that still have something to do  *)
(* for it.                                                                 *)

\* Where a request is: before it has a task, with one, or in the cancel handler.
Arriving   == {"idle", "get", "create"}
Processing == {"working", "run", "turn", "finish"}
Answering  == {"answer", "respond"}
Cancelling == {"cancel", "assign"}

Entry == {"user", "assistant"} \X Requests
FinalState == {"completed", "failed", "canceled"}

A2ATypeOK ==
  /\ tasks \in [Tasks -> Requests \cup {Nobody}]
  /\ state \in [Requests -> States \cup {NoState}]
  /\ messages \in [Requests -> Seq(Entry)]
  /\ runner \in [Tasks -> Requests \cup {Nobody}]
  /\ pc \in [Requests -> Arriving \cup {"append"} \cup Processing \cup Answering
                           \cup Cancelling \cup {"end"}]
  /\ target \in [Requests -> Tasks]
  /\ verb \in [Requests -> Sends \cup {"cancel"}]
  /\ held \in [Requests -> Requests \cup {Nobody}]
  /\ outcome \in [Requests -> {"none", "ok", "failed", "notFound"}]
  /\ raced \subseteq Tasks /\ cancels \subseteq Tasks

\* An identifier stands for an object that a request for that identifier created.
\* A request that found or created its task holds an object, and a request that
\* works on a task, or has, finds one there; unless the task was created twice,
\* what it holds is what the identifier stands for.
Objects ==
  /\ \A t \in Tasks : tasks[t] # Nobody =>
       target[tasks[t]] = t /\ pc[tasks[t]] \notin Arriving
  /\ \A r \in Requests :
       /\ pc[r] \in {"get", "create", "append"} \cup Processing \cup Answering => verb[r] \in Sends
       /\ pc[r] \in Cancelling => verb[r] = "cancel" /\ held[r] # Nobody
       /\ pc[r] \in {"append"} \cup Processing \cup Answering \cup Cancelling => tasks[target[r]] # Nobody
       /\ pc[r] = "end" /\ verb[r] \in Sends => tasks[target[r]] # Nobody
       /\ held[r] # Nobody =>
            /\ target[held[r]] = target[r] /\ tasks[target[r]] # Nobody
            /\ target[r] \notin raced => held[r] = tasks[target[r]]

Base == A2ATypeOK /\ Objects

LEMMA BaseInit == A2AInit => Base
<1> SUFFICES ASSUME A2AInit PROVE Base
  OBVIOUS
<1>1. \A r \in Requests : messages[r] \in Seq(Entry)
  BY DEF A2AInit
<1>2. A2ATypeOK
  BY <1>1 DEF A2AInit, A2ATypeOK, Arriving, NoState
<1>3. Objects
  BY RequestAssumption, <1>2 DEF A2AInit, A2ATypeOK, Objects, Arriving, Processing, Answering, Cancelling
<1> QED BY <1>2, <1>3 DEF Base

LEMMA BaseStep ==
  ASSUME Base, [A2ANext]_taskVars
  PROVE  Base'
<1> USE RequestAssumption DEF Base, Goto, store, request, history
<1>t. ASSUME NEW r \in Requests, Receive(r) \/ ReceiveNew(r) \/ ReceiveCancel(r) \/ TaskStep(r)
      PROVE  A2ATypeOK'
  <2> USE DEF A2ATypeOK, Arriving, Processing, Answering, Cancelling, States, Sends
  <2>1. CASE Receive(r) \/ Get(r) \/ ReceiveCancel(r) \/ WriteResponse(r)
    BY <1>t, <2>1 DEF Receive, Get, ReceiveCancel, WriteResponse
  <2>2. CASE StartTurn(r)
    <3>1. target[r] \in Tasks
      BY <1>t
    <3>2. CASE runner' = [runner EXCEPT ![target[r]] = r] /\ Goto(r, "turn") /\ UNCHANGED outcome
      BY <1>t, <2>2, <3>1, <3>2 DEF StartTurn
    <3>3. CASE Goto(r, "finish") /\ outcome' = [outcome EXCEPT ![r] = "failed"] /\ UNCHANGED runner
      BY <1>t, <2>2, <3>3 DEF StartTurn
    <3> QED BY <2>2, <3>2, <3>3 DEF StartTurn
  <2>2a. CASE EndTurn(r)
    BY <1>t, <2>2a DEF EndTurn
  <2>2b. CASE Assign(r)
    BY <1>t, <2>2b DEF Assign, Objects
  <2>3. CASE SetWorking(r) \/ Finish(r) \/ Cancel(r)
    BY <1>t, <2>3 DEF SetWorking, Finish, Cancel, Update
  <2>4. CASE AppendUser(r) \/ AppendAnswer(r)
    <3>1. ASSUME NEW role \in {"user", "assistant"}, AppendMessage(target[r], role, r)
          PROVE  messages' \in [Requests -> Seq(Entry)]
      <4>1. <<role, r>> \in Entry
        BY DEF Entry
      <4> QED BY <3>1, <4>1, AppendProperties DEF AppendMessage
    <3> QED BY <1>t, <2>4, <3>1 DEF AppendUser, AppendAnswer
  <2>5. CASE CreateNamed(r) \/ ReceiveNew(r)
    <3>1. << <<"user", r>> >> \in Seq(Entry)
      BY DEF Entry
    <3>2. /\ tasks' = [tasks EXCEPT ![target[r]] = r] /\ state' = [state EXCEPT ![r] = "submitted"]
          /\ messages' = [messages EXCEPT ![r] = << <<"user", r>> >>]
          /\ held' = [held EXCEPT ![r] = r] /\ pc' = [pc EXCEPT ![r] = "working"]
          /\ UNCHANGED <<runner, target, verb, outcome, cancels>>
          /\ raced' = raced \/ raced' = raced \cup {target[r]}
      BY <2>5 DEF CreateNamed, ReceiveNew, Create
    <3>3. messages' \in [Requests -> Seq(Entry)]
      BY <3>1, <3>2
    <3>4. target[r] \in Tasks
      BY <1>t
    <3> QED BY <1>t, <3>2, <3>3, <3>4
  <2> QED BY <1>t, <2>1, <2>2, <2>2a, <2>2b, <2>3, <2>4, <2>5 DEF TaskStep
<1>o. ASSUME NEW r \in Requests, Receive(r) \/ ReceiveNew(r) \/ ReceiveCancel(r) \/ TaskStep(r)
      PROVE  Objects'
  <2> USE DEF A2ATypeOK, Objects, Arriving, Processing, Answering, Cancelling, Sends
  <2>1. CASE Receive(r)
    BY <1>o, <2>1 DEF Receive
  <2>2. CASE Get(r)
    BY <1>o, <2>2 DEF Get
  <2>3. CASE ReceiveCancel(r)
    BY <1>o, <2>3 DEF ReceiveCancel
  <2>4. CASE WriteResponse(r) \/ Assign(r)
    BY <1>o, <2>4 DEF WriteResponse, Assign
  <2>5. CASE StartTurn(r) \/ EndTurn(r)
    BY <1>o, <2>5 DEF StartTurn, EndTurn
  <2>6. CASE SetWorking(r) \/ Cancel(r) \/ Finish(r)
    BY <1>o, <2>6 DEF SetWorking, Finish, Cancel
  <2>7. CASE AppendUser(r) \/ AppendAnswer(r)
    BY <1>o, <2>7 DEF AppendUser, AppendAnswer
  <2>8. CASE CreateNamed(r) \/ ReceiveNew(r)
    <3>1. /\ pc[r] \in Arriving /\ verb[r] \in Sends
          /\ tasks' = [tasks EXCEPT ![target[r]] = r] /\ held' = [held EXCEPT ![r] = r]
          /\ pc' = [pc EXCEPT ![r] = "working"] /\ target' = target /\ verb' = verb
          /\ raced' = IF tasks[target[r]] = Nobody THEN raced ELSE raced \cup {target[r]}
      BY <2>8 DEF CreateNamed, ReceiveNew, Create
    <3> QED BY <1>o, <3>1
  <2> QED BY <1>o, <2>1, <2>2, <2>3, <2>4, <2>5, <2>6, <2>7, <2>8 DEF TaskStep
<1>u. CASE UNCHANGED taskVars
  BY <1>u DEF taskVars, A2ATypeOK, Objects
<1> QED BY <1>t, <1>o, <1>u DEF A2ANext

-----------------------------------------------------------------------------
(* The steps of a request. *)

\* Where a request goes; a step of one leaves the others where they are.
Follows(from, to, isCancel) ==
  \/ from = "idle" /\ to \in {"get", "working"} /\ ~ isCancel
  \/ from = "idle" /\ to \in {"cancel", "end"} /\ isCancel
  \/ from = "get" /\ to \in {"create", "append"}
  \/ from \in {"create", "append"} /\ to = "working"
  \/ from = "working" /\ to = "run"
  \/ from = "run" /\ to \in {"turn", "finish"}
  \/ from = "turn" /\ to = "finish"
  \/ from = "finish" /\ to \in {"answer", "respond", "end"}
  \/ from = "answer" /\ to = "respond"
  \/ from = "respond" /\ to = "end"
  \/ from = "cancel" /\ to = "assign"
  \/ from = "assign" /\ to = "end"

LEMMA RequestStep ==
  ASSUME A2ATypeOK, NEW r \in Requests, Receive(r) \/ ReceiveNew(r) \/ ReceiveCancel(r) \/ TaskStep(r)
  PROVE  /\ target' = target /\ verb' = verb
         /\ Follows(pc[r], pc'[r], verb[r] = "cancel")
         /\ \A q \in Requests : q # r => pc'[q] = pc[q] /\ outcome'[q] = outcome[q]
         /\ pc[r] = "respond" => outcome'[r] = outcome[r]
         /\ pc[r] = "finish" /\ pc'[r] # "answer" => verb[r] = "rpc" \/ outcome'[r] # "ok"
<1> USE DEF A2ATypeOK, Follows, Goto, request, Sends
<1>1. CASE Receive(r) \/ Get(r) \/ ReceiveCancel(r) \/ WriteResponse(r)
  BY <1>1 DEF Receive, Get, ReceiveCancel, WriteResponse
<1>2. CASE StartTurn(r)
  <2>1. target' = target /\ verb' = verb /\ pc[r] = "run"
    BY <1>2 DEF StartTurn
  <2>2. \/ pc' = [pc EXCEPT ![r] = "turn"] /\ outcome' = outcome
        \/ pc' = [pc EXCEPT ![r] = "finish"] /\ outcome' = [outcome EXCEPT ![r] = "failed"]
    BY <1>2 DEF StartTurn
  <2> QED BY <2>1, <2>2
<1>3. CASE EndTurn(r) \/ Assign(r) \/ Cancel(r) \/ SetWorking(r)
  BY <1>3 DEF EndTurn, Assign, Cancel, SetWorking
<1>4. CASE Finish(r) \/ AppendUser(r) \/ AppendAnswer(r)
  BY <1>4 DEF Finish, AppendUser, AppendAnswer
<1>5. CASE CreateNamed(r) \/ ReceiveNew(r)
  BY <1>5 DEF CreateNamed, ReceiveNew, Create
<1> QED BY <1>1, <1>2, <1>3, <1>4, <1>5 DEF TaskStep

-----------------------------------------------------------------------------
(* What a step does to the object an identifier stands for. *)

\* A step of request r creates an object for its own task, or leaves the objects in
\* their place and changes at most the state of, or appends to, the object of its own
\* task or the one it holds.
LEMMA ObjectStep ==
  ASSUME Base, NEW r \in Requests, Receive(r) \/ ReceiveNew(r) \/ ReceiveCancel(r) \/ TaskStep(r),
         NEW t \in Tasks, tasks[t] # Nobody
  PROVE  LET o == tasks[t] IN
         \/ /\ target[r] = t /\ pc[r] \in Arriving /\ t \in raced'
            /\ tasks'[t] = r /\ state'[r] = "submitted" /\ pc'[r] = "working"
         \/ /\ tasks'[t] = o /\ state'[o] = state[o] /\ messages'[o] = messages[o]
            /\ pc[r] \in {"append", "working", "finish", "answer"} \/ pc'[r] = "working" => target[r] # t
         \/ /\ target[r] = t /\ tasks'[t] = o /\ messages'[o] = messages[o]
            /\ \/ pc[r] = "working" /\ pc'[r] = "run" /\ state'[o] = "working"
               \/ pc[r] = "finish" /\ pc'[r] \in Answering \cup {"end"} /\ state'[o] \in {"completed", "failed"}
               \/ pc[r] \in Cancelling /\ state'[o] = "canceled"
         \/ /\ target[r] = t /\ tasks'[t] = o /\ state'[o] = state[o]
            /\ \/ pc[r] = "append" /\ pc'[r] = "working" /\ messages'[o] = Append(messages[o], <<"user", r>>)
               \/ pc[r] = "answer" /\ pc'[r] = "respond" /\ messages'[o] = Append(messages[o], <<"assistant", r>>)
<1> USE RequestAssumption DEF Goto, store, request, history, Base, A2ATypeOK
<1> DEFINE o == tasks[t]
<1>a. o \in Requests /\ target[o] = t /\ pc[o] \notin Arriving
  BY DEF Objects
<1>1. CASE CreateNamed(r) \/ ReceiveNew(r)
  <2>1. /\ pc[r] \in Arriving
        /\ tasks' = [tasks EXCEPT ![target[r]] = r] /\ state' = [state EXCEPT ![r] = "submitted"]
        /\ messages' = [messages EXCEPT ![r] = << <<"user", r>> >>] /\ pc' = [pc EXCEPT ![r] = "working"]
        /\ raced' = IF tasks[target[r]] = Nobody THEN raced ELSE raced \cup {target[r]}
    BY <1>1 DEF CreateNamed, ReceiveNew, Create, Arriving
  <2>2. CASE target[r] = t
    BY <2>1, <2>2
  <2>3. CASE target[r] # t
    BY <1>a, <2>1, <2>3
  <2> QED BY <2>2, <2>3
<1>2. CASE Receive(r) \/ Get(r) \/ ReceiveCancel(r) \/ StartTurn(r) \/ EndTurn(r) \/ WriteResponse(r)
  BY <1>2 DEF Receive, Get, ReceiveCancel, StartTurn, EndTurn, WriteResponse
<1>3. CASE AppendUser(r) \/ AppendAnswer(r)
  <2>1. tasks' = tasks /\ state' = state
    BY <1>3 DEF AppendUser, AppendAnswer
  <2>2. CASE target[r] = t
    BY <1>3, <1>a, <2>2 DEF AppendUser, AppendAnswer, AppendMessage
  <2>3. CASE target[r] # t
    <3>1. tasks[target[r]] # Nobody => target[tasks[target[r]]] = target[r]
      BY DEF Objects
    <3>2. messages'[o] = messages[o]
      BY <1>3, <1>a, <2>3, <3>1 DEF AppendUser, AppendAnswer, AppendMessage
    <3> QED BY <2>1, <2>3, <3>2
  <2> QED BY <2>2, <2>3
<1>4. CASE SetWorking(r) \/ Finish(r) \/ Cancel(r)
  <2>1. tasks' = tasks /\ messages' = messages
    BY <1>4 DEF SetWorking, Finish, Cancel
  <2>2. CASE target[r] = t
    BY <1>4, <1>a, <2>2 DEF SetWorking, Finish, Cancel, Update, Answering, Cancelling
  <2>3. CASE target[r] # t
    <3>1. tasks[target[r]] # Nobody => target[tasks[target[r]]] = target[r]
      BY DEF Objects
    <3>2. state'[o] = state[o]
      BY <1>4, <1>a, <2>3, <3>1 DEF SetWorking, Finish, Cancel, Update
    <3> QED BY <2>1, <2>3, <3>2
  <2> QED BY <2>2, <2>3
<1>5. CASE Assign(r)
  <2>1. tasks' = tasks /\ messages' = messages /\ state' = [state EXCEPT ![held[r]] = "canceled"]
        /\ pc[r] = "assign" /\ pc'[r] = "end"
    BY <1>5 DEF Assign
  <2>2. CASE target[r] = t
    BY <1>a, <2>1, <2>2 DEF Cancelling
  <2>3. CASE target[r] # t
    BY <1>a, <2>1, <2>3 DEF Objects, Cancelling
  <2> QED BY <2>2, <2>3
<1> QED BY <1>1, <1>2, <1>3, <1>4, <1>5 DEF TaskStep

-----------------------------------------------------------------------------
(* A task that nobody works on is in a final state. *)

\* A task that is in no final state has a request that will update it.
Attended ==
  \A t \in Tasks : tasks[t] # Nobody =>
    state[tasks[t]] \in FinalState \/ \E r \in Requests : target[r] = t /\ pc[r] \in Processing

LEMMA AttendedStep ==
  ASSUME Base, Base', Attended, [A2ANext]_taskVars
  PROVE  Attended'
<1>1. ASSUME NEW r \in Requests, Receive(r) \/ ReceiveNew(r) \/ ReceiveCancel(r) \/ TaskStep(r),
             NEW t \in Tasks, tasks'[t] # Nobody
      PROVE  state'[tasks'[t]] \in FinalState \/ \E q \in Requests : target'[q] = t /\ pc'[q] \in Processing
  <2>a. /\ target' = target /\ \A q \in Requests : q # r => pc'[q] = pc[q]
        /\ pc[r] \in Processing \ {"finish"} => pc'[r] \in Processing
    BY <1>1, RequestStep DEF Base, Follows, Processing
  <2>1. CASE tasks[t] = Nobody
    <3>1. target[r] = t /\ pc'[r] = "working"
      BY <1>1, <2>1 DEF Receive, ReceiveNew, ReceiveCancel, TaskStep, Get, AppendUser, CreateNamed, Create,
         SetWorking, StartTurn, EndTurn, Finish, AppendAnswer, WriteResponse, Cancel, Assign, Goto, store, Base, A2ATypeOK
    <3> QED BY <1>1, <2>a, <3>1 DEF Processing
  <2>2. CASE tasks[t] # Nobody
    <3>1. CASE target[r] = t /\ pc'[r] \in Processing
      BY <2>a, <3>1
    <3>2. CASE tasks'[t] = tasks[t] /\ state'[tasks[t]] \in FinalState
      BY <3>2
    <3>3. CASE /\ tasks'[t] = tasks[t] /\ state'[tasks[t]] = state[tasks[t]]
               /\ target[r] = t /\ pc[r] \in Processing => pc'[r] \in Processing
      BY <2>2, <2>a, <3>3 DEF Attended
    <3>4. \/ target[r] = t /\ pc'[r] \in Processing
          \/ tasks'[t] = tasks[t] /\ state'[tasks[t]] \in FinalState
          \/ /\ tasks'[t] = tasks[t] /\ state'[tasks[t]] = state[tasks[t]]
             /\ target[r] = t /\ pc[r] \in Processing => pc'[r] \in Processing
      BY <1>1, <2>2, <2>a, ObjectStep DEF Processing, FinalState, Answering
    <3> QED BY <3>1, <3>2, <3>3, <3>4
  <2> QED BY <2>1, <2>2
<1>2. CASE UNCHANGED taskVars
  BY <1>2 DEF taskVars, store, request, Attended
<1> QED BY <1>1, <1>2 DEF A2ANext, Attended

\* A task that nobody works on any more is in a final state.
THEOREM QuiescentTasksAreFinal == A2ASpec => []QuiescentIsFinal
<1>1. A2AInit => Attended
  BY DEF A2AInit, Attended
<1>2. Base /\ Attended => QuiescentIsFinal
  BY DEF Attended, QuiescentIsFinal, FinalState, Active, Idle, Processing
<1>3. Base /\ [A2ANext]_taskVars => Base'
  BY BaseStep
<1>4. Base /\ Base' /\ Attended /\ [A2ANext]_taskVars => Attended'
  BY AttendedStep
<1> QED BY <1>1, <1>2, <1>3, <1>4, BaseInit, PTL DEF A2ASpec

-----------------------------------------------------------------------------
(* A cancellation at rest stays. *)

\* A task that was cancelled at rest has been used, nobody sends to it, and the
\* object its identifier stands for is cancelled, unless there were two.
AtRest(t) ==
  /\ tasks[t] # Nobody
  /\ \E x \in Requests : target[x] = t /\ pc[x] = "end"
  /\ \A r \in Requests : target[r] = t /\ verb[r] \in Sends => pc[r] \in Idle
  /\ t \notin raced => state[tasks[t]] = "canceled"
CancelsAtRest == \A t \in cancels : AtRest(t)

LEMMA CancelStep ==
  ASSUME Base, Base', CancelsAtRest, [A2ANext]_taskVars
  PROVE  CancelsAtRest'
<1>1. ASSUME NEW r \in Requests, Receive(r) \/ ReceiveNew(r) \/ ReceiveCancel(r) \/ TaskStep(r),
             NEW t \in cancels'
      PROVE  AtRest(t)'
  <2>a. /\ target' = target /\ verb' = verb /\ \A q \in Requests : q # r => pc'[q] = pc[q]
        /\ Follows(pc[r], pc'[r], verb[r] = "cancel")
    BY <1>1, RequestStep DEF Base
  <2>b. t \in Tasks
    BY <1>1 DEF Base, A2ATypeOK
  \* The cancel that puts the task to rest.
  <2>1. CASE t \notin cancels
    <3>1. Assign(r) /\ t = target[r] /\ ~ Busy(t)
      BY <1>1, <2>1 DEF Receive, ReceiveNew, ReceiveCancel, TaskStep, Get, AppendUser, CreateNamed, Create,
         SetWorking, StartTurn, EndTurn, Finish, AppendAnswer, WriteResponse, Cancel, Assign, history
    <3>2. /\ tasks' = tasks /\ raced' = raced /\ state' = [state EXCEPT ![held[r]] = "canceled"]
          /\ pc' = [pc EXCEPT ![r] = "end"] /\ pc[r] = "assign"
      BY <3>1 DEF Assign, Goto
    <3>3. /\ tasks[t] # Nobody /\ held[r] \in Requests
          /\ t \notin raced => held[r] = tasks[t]
      BY <3>1, <3>2 DEF Base, A2ATypeOK, Objects, Cancelling
    <3>4. pc'[r] = "end" /\ (t \notin raced' => state'[tasks'[t]] = "canceled")
      BY <3>2, <3>3 DEF Base, A2ATypeOK
    <3>5. \A q \in Requests : target[q] = t /\ verb[q] \in Sends => pc'[q] \in Idle
      BY <2>a, <3>1, <3>4 DEF Busy, Active, Idle
    <3> QED BY <2>a, <3>1, <3>2, <3>3, <3>4, <3>5 DEF AtRest
  \* A task at rest.
  <2>2. CASE t \in cancels
    <3>1. PICK x \in Requests : target[x] = t /\ pc[x] = "end"
      BY <2>2 DEF CancelsAtRest, AtRest
    <3>2. tasks[t] # Nobody /\ (t \notin raced => state[tasks[t]] = "canceled")
          /\ \A q \in Requests : target[q] = t /\ verb[q] \in Sends => pc[q] \in Idle
      BY <2>2 DEF CancelsAtRest, AtRest
    <3>3. x # r /\ pc'[x] = "end"
      BY <2>a, <3>1 DEF Follows
    <3>4. ~ (target[r] = t /\ verb[r] \in Sends)
      <4> SUFFICES ASSUME target[r] = t, verb[r] \in Sends PROVE FALSE
        OBVIOUS
      <4>1. pc[r] = "idle"
        BY <2>a, <3>2 DEF Idle, Follows
      <4>2. Receive(r) \/ ReceiveNew(r)
        BY <1>1, <4>1 DEF ReceiveCancel, TaskStep, Get, AppendUser, CreateNamed, SetWorking, StartTurn, EndTurn,
           Finish, AppendAnswer, WriteResponse, Cancel, Assign, Sends
      <4>3. ~ Receive(r)
        BY <1>1 DEF Receive
      <4>4. ~ ReceiveNew(r)
        BY <3>1, <3>3 DEF ReceiveNew
      <4> QED BY <4>2, <4>3, <4>4
    <3>5. \A q \in Requests : target[q] = t /\ verb[q] \in Sends => pc'[q] \in Idle
      BY <2>a, <3>2, <3>4
    <3>6. target[r] = t => pc[r] \notin Arriving \cup {"append", "working", "finish", "answer"} \/ pc[r] = "idle"
      BY <3>4 DEF Base, Objects, Processing, Answering, Arriving
    <3>7. target[r] = t => ~ (pc[r] \in Arriving /\ pc'[r] = "working")
      BY <2>a, <3>4, <3>6 DEF Follows, Arriving, Base, A2ATypeOK
    <3>8. tasks'[t] = tasks[t] /\ (state'[tasks[t]] = state[tasks[t]] \/ state'[tasks[t]] = "canceled")
      BY <1>1, <2>b, <3>2, <3>6, <3>7, ObjectStep
    <3>9. t \notin raced' => t \notin raced
      BY <1>1 DEF Receive, ReceiveNew, ReceiveCancel, TaskStep, Get, AppendUser, CreateNamed, Create, history,
         SetWorking, StartTurn, EndTurn, Finish, AppendAnswer, WriteResponse, Cancel, Assign
    <3> QED BY <2>a, <3>1, <3>2, <3>3, <3>5, <3>8, <3>9 DEF AtRest
  <2> QED BY <2>1, <2>2
<1>2. CASE UNCHANGED taskVars
  BY <1>2 DEF taskVars, store, request, history, CancelsAtRest, AtRest
<1> QED BY <1>1, <1>2 DEF A2ANext, CancelsAtRest

\* A task that was cancelled while nobody worked on it stays cancelled until the
\* next message, whatever other cancellations do to it.
THEOREM CancelsStay == A2ASpec => []CancelAtRestStays
<1>1. A2AInit => CancelsAtRest
  BY DEF A2AInit, CancelsAtRest
<1>2. CancelsAtRest => CancelAtRestStays
  BY DEF CancelsAtRest, AtRest, CancelAtRestStays
<1>3. Base /\ [A2ANext]_taskVars => Base'
  BY BaseStep
<1>4. Base /\ Base' /\ CancelsAtRest /\ [A2ANext]_taskVars => CancelsAtRest'
  BY CancelStep
<1> QED BY <1>1, <1>2, <1>3, <1>4, BaseInit, PTL DEF A2ASpec

-----------------------------------------------------------------------------
(* A task keeps its conversation. *)

\* A conversation has the message of a request, and its answer behind it.
HasMessage(m, r) == \E i \in 1 .. Len(m) : m[i] = <<"user", r>>
HasAnswer(m, r) ==
  \E i \in 1 .. Len(m) : /\ m[i] = <<"user", r>>
                         /\ \E j \in i + 1 .. Len(m) : m[j] = <<"assistant", r>>

\* The task has the message of every request that sent one, from the moment the
\* request has its task, and the answer from the moment it is stored.
Recorded(r) ==
  verb[r] \in Sends /\ target[r] \notin raced =>
    LET m == messages[tasks[target[r]]] IN
    /\ pc[r] \in Processing \cup Answering \cup {"end"} => HasMessage(m, r)
    /\ pc[r] \in {"respond", "end"} /\ outcome[r] = "ok" /\ verb[r] # "rpc" => HasAnswer(m, r)
AllRecorded == \A r \in Requests : Recorded(r)

\* Nothing that is appended takes a message away.
LEMMA AppendKeeps ==
  ASSUME NEW m \in Seq(Entry), NEW e \in Entry, NEW r
  PROVE  /\ HasMessage(m, r) => HasMessage(Append(m, e), r)
         /\ HasAnswer(m, r) => HasAnswer(Append(m, e), r)
         /\ e = <<"user", r>> => HasMessage(Append(m, e), r)
         /\ e = <<"assistant", r>> /\ HasMessage(m, r) => HasAnswer(Append(m, e), r)
<1> DEFINE n == Append(m, e)
<1>1. /\ Len(m) \in Nat /\ Len(n) = Len(m) + 1 /\ n[Len(m) + 1] = e
      /\ \A i \in 1 .. Len(m) : n[i] = m[i]
  BY AppendProperties, LenProperties
<1> HIDE DEF n
<1>2. /\ \A i \in 1 .. Len(m) : i \in 1 .. Len(n) /\ Len(m) + 1 \in i + 1 .. Len(n)
      /\ Len(m) + 1 \in 1 .. Len(n)
  BY <1>1
<1>3. \A i \in 1 .. Len(m) : \A j \in i + 1 .. Len(m) : j \in i + 1 .. Len(n) /\ j \in 1 .. Len(m)
  BY <1>1
<1>4. HasMessage(m, r) => HasMessage(n, r)
  BY <1>1, <1>2 DEF HasMessage
<1>5. HasAnswer(m, r) => HasAnswer(n, r)
  BY <1>1, <1>2, <1>3 DEF HasAnswer
<1>6. e = <<"user", r>> => HasMessage(n, r)
  BY <1>1, <1>2 DEF HasMessage
<1>7. e = <<"assistant", r>> /\ HasMessage(m, r) => HasAnswer(n, r)
  BY <1>1, <1>2 DEF HasMessage, HasAnswer
<1> QED BY <1>4, <1>5, <1>6, <1>7 DEF n

LEMMA RecordedStep ==
  ASSUME Base, Base', AllRecorded, [A2ANext]_taskVars
  PROVE  AllRecorded'
<1>1. ASSUME NEW r \in Requests, Receive(r) \/ ReceiveNew(r) \/ ReceiveCancel(r) \/ TaskStep(r),
             NEW q \in Requests, verb'[q] \in Sends, target'[q] \notin raced'
      PROVE  Recorded(q)'
  <2> DEFINE t == target[q]
             o == tasks[t]
             with == Processing \cup Answering \cup {"end"}
  <2>a. /\ target' = target /\ verb' = verb
        /\ \A x \in Requests : x # r => pc'[x] = pc[x] /\ outcome'[x] = outcome[x]
        /\ Follows(pc[r], pc'[r], verb[r] = "cancel")
        /\ verb[q] \in Sends /\ t \notin raced'
    BY <1>1, RequestStep DEF Base
  <2>b. t \in Tasks /\ t \notin raced
    BY <1>1, <2>a DEF Receive, ReceiveNew, ReceiveCancel, TaskStep, Get, AppendUser, CreateNamed, Create, history,
       SetWorking, StartTurn, EndTurn, Finish, AppendAnswer, WriteResponse, Cancel, Assign, Base, A2ATypeOK
  <2>c. /\ pc[q] \in with => HasMessage(messages[o], q)
        /\ pc[q] \in {"respond", "end"} /\ outcome[q] = "ok" /\ verb[q] # "rpc" => HasAnswer(messages[o], q)
    BY <2>a, <2>b DEF AllRecorded, Recorded
  \* The task does not exist yet.
  <2>1. CASE o = Nobody
    <3>1. pc[q] \in Arriving
      BY <2>a, <2>1 DEF Base, A2ATypeOK, Objects, Cancelling, Sends
    <3>2. CASE q # r \/ pc'[r] # "working"
      <4>1. pc'[q] \notin with
        BY <1>1, <2>a, <3>1, <3>2 DEF Follows, Arriving, Processing, Answering, Sends
      <4> QED BY <2>a, <4>1 DEF Recorded, Answering
    <3>3. CASE q = r /\ pc'[r] = "working"
      <4>1. CreateNamed(r) \/ ReceiveNew(r)
        BY <1>1, <3>1, <3>3 DEF Receive, ReceiveCancel, TaskStep, Get, AppendUser, SetWorking, Arriving,
           StartTurn, EndTurn, Finish, AppendAnswer, WriteResponse, Cancel, Assign, Goto, Base, A2ATypeOK
      <4>2. tasks'[t] = q /\ messages'[q] = << <<"user", q>> >>
        BY <1>1, <2>b, <3>3, <4>1 DEF CreateNamed, ReceiveNew, Create, Base, A2ATypeOK
      <4>3. HasMessage(<< <<"user", q>> >>, q)
        BY DEF HasMessage
      <4> QED BY <2>a, <3>3, <4>2, <4>3 DEF Recorded
    <3> QED BY <3>2, <3>3
  \* The task exists and is not replaced.
  <2>2. CASE o # Nobody
    <3>1. \/ tasks'[t] = o /\ messages'[o] = messages[o]
             /\ (pc[r] = "answer" \/ pc'[r] = "working" => target[r] # t)
          \/ /\ target[r] = t /\ tasks'[t] = o /\ pc[r] = "append" /\ pc'[r] = "working"
             /\ messages'[o] = Append(messages[o], <<"user", r>>)
          \/ /\ target[r] = t /\ tasks'[t] = o /\ pc[r] = "answer" /\ pc'[r] = "respond"
             /\ messages'[o] = Append(messages[o], <<"assistant", r>>)
      <4>1. t \in Tasks /\ tasks[t] # Nobody /\ t \notin raced' /\ target' = target
        BY <2>2, <2>a, <2>b
      <4>2. \/ tasks'[t] = o /\ messages'[o] = messages[o]
               /\ (pc[r] \in {"append", "working", "finish", "answer"} \/ pc'[r] = "working" => target[r] # t)
            \/ /\ target[r] = t /\ tasks'[t] = o /\ messages'[o] = messages[o]
               /\ \/ pc[r] = "working" /\ pc'[r] = "run"
                  \/ pc[r] = "finish" /\ pc'[r] \in Answering \cup {"end"}
                  \/ pc[r] \in Cancelling
            \/ /\ target[r] = t /\ tasks'[t] = o
               /\ \/ pc[r] = "append" /\ pc'[r] = "working" /\ messages'[o] = Append(messages[o], <<"user", r>>)
                  \/ pc[r] = "answer" /\ pc'[r] = "respond" /\ messages'[o] = Append(messages[o], <<"assistant", r>>)
        BY <1>1, <4>1, ObjectStep
      <4>3. pc[r] \in Cancelling => pc'[r] # "working"
        BY <2>a DEF Follows, Cancelling
      <4> HIDE DEF o, t
      <4> QED BY <4>2, <4>3 DEF Answering, Cancelling
    <3>2. o \in Requests /\ messages[o] \in Seq(Entry)
      BY <2>2, <2>b DEF Base, A2ATypeOK
    <3>3. <<"user", r>> \in Entry /\ <<"assistant", r>> \in Entry
      BY DEF Entry
    <3>4. /\ HasMessage(messages[o], q) => HasMessage(messages'[o], q)
          /\ HasAnswer(messages[o], q) => HasAnswer(messages'[o], q)
      <4>1. CASE messages'[o] = messages[o]
        BY <4>1
      <4>2. ASSUME NEW e \in Entry, messages'[o] = Append(messages[o], e)
            PROVE  /\ HasMessage(messages[o], q) => HasMessage(messages'[o], q)
                   /\ HasAnswer(messages[o], q) => HasAnswer(messages'[o], q)
        BY <3>2, <4>2, AppendKeeps
      <4> QED BY <3>1, <3>3, <4>1, <4>2
    <3>5. pc'[q] \in with => HasMessage(messages'[o], q)
      <4>1. CASE pc[q] \in with
        BY <2>c, <3>4, <4>1
      <4>2. CASE pc[q] \notin with /\ pc'[q] \in with
        <5>1. q = r /\ pc'[r] = "working"
          BY <2>a, <4>2 DEF Follows, Processing, Answering, Cancelling, Sends, Base, Objects
        <5>2. messages'[o] = Append(messages[o], <<"user", q>>)
          BY <3>1, <5>1
        <5>3. HasMessage(Append(messages[o], <<"user", q>>), q)
          BY ONLY <3>2, <3>3, <5>1, AppendKeeps
        <5> QED BY <5>2, <5>3
      <4> QED BY <4>1, <4>2
    <3>6. pc'[q] \in {"respond", "end"} /\ outcome'[q] = "ok" /\ verb[q] # "rpc" => HasAnswer(messages'[o], q)
      <4> SUFFICES ASSUME pc'[q] \in {"respond", "end"}, outcome'[q] = "ok", verb[q] # "rpc"
                   PROVE  HasAnswer(messages'[o], q)
        OBVIOUS
      <4>1. CASE pc[q] \in {"respond", "end"} /\ outcome[q] = "ok"
        BY <2>c, <3>4, <4>1
      <4>2. CASE ~ (pc[q] \in {"respond", "end"} /\ outcome[q] = "ok")
        <5>1. q = r /\ pc[r] = "answer"
          BY <1>1, <2>a, <4>2, RequestStep DEF Follows, Cancelling, Sends, Base, Objects
        <5>2. messages'[o] = Append(messages[o], <<"assistant", q>>) /\ HasMessage(messages[o], q)
          BY <2>c, <3>1, <5>1 DEF Answering
        <5> QED BY <3>2, <3>3, <5>1, <5>2, AppendKeeps
      <4> QED BY <4>1, <4>2
    <3>7. tasks'[t] = o
      BY <3>1
    <3> QED BY <2>a, <3>5, <3>6, <3>7 DEF Recorded
  <2> QED BY <2>1, <2>2
<1>2. CASE UNCHANGED taskVars
  BY <1>2 DEF taskVars, store, request, history, AllRecorded, Recorded
<1> QED BY <1>1, <1>2 DEF A2ANext, AllRecorded, Recorded

\* Unless two first messages of a task raced, the task keeps the message of every
\* request that was answered and, except over JSON-RPC, the answer behind it.
THEOREM ConversationsAreKept == A2ASpec => []ConversationKept
<1>1. A2AInit => AllRecorded
  BY DEF A2AInit, AllRecorded, Recorded, Processing, Answering
<1>2. AllRecorded => ConversationKept
  BY DEF AllRecorded, Recorded, HasMessage, HasAnswer, ConversationKept
<1>3. Base /\ [A2ANext]_taskVars => Base'
  BY BaseStep
<1>4. Base /\ Base' /\ AllRecorded /\ [A2ANext]_taskVars => AllRecorded'
  BY RecordedStep
<1> QED BY <1>1, <1>2, <1>3, <1>4, BaseInit, PTL DEF A2ASpec
=============================================================================
