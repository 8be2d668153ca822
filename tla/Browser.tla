------------------------------- MODULE Browser -------------------------------
(***************************************************************************)
(* The browser tool: one chromedp allocator per session, shared by all     *)
(* calls of the session (the calls of a batch run at the same time), a     *)
(* callback that follows new tabs, a goroutine that evicts idle sessions,  *)
(* and the screenshots that wait to be attached to a tool result.          *)
(*                                                                         *)
(* A context is a pair <<allocator, n>> and has a Chrome process of its    *)
(* own: n = 0 is the one getOrCreateSession starts.  The callback for a    *)
(* new tab makes its context from allocCtx, which has no browser, so       *)
(* chromedp starts a further process for it.  Cancelling a context ends    *)
(* its process, cancelling the allocator ends all of its processes.        *)
(***************************************************************************)
EXTENDS Naturals

CONSTANTS
  Sessions,     \* sessions that use the tool
  Calls,        \* tool calls
  NoSession,    \* stands for the session of a call that was not made
  MaxBrowsers,  \* allocators made (cap of the model)
  MaxTabs       \* tabs followed in each (cap of the model)

ASSUME BrowserAssumption ==
  MaxBrowsers \in Nat /\ MaxTabs \in Nat /\ NoSession \notin Sessions

Browsers == 1..MaxBrowsers
Contexts == Browsers \X (0..MaxTabs)
NoCtx == <<0, 0>>
NoEntry == [alloc |-> 0, ctx |-> NoCtx, idle |-> FALSE]

VARIABLES
  sessions,  \* t.sessions: session -> its allocator, current context, idle or not
  started,   \* allocators made so far
  allocs,    \* those not cancelled
  live,      \* contexts that are not done: their Chrome runs
  owner,     \* allocator -> session its callback was registered for
  tabs,      \* new tabs the callback attached to and has yet to switch to
  call,      \* call -> phase, session and the context it works on
  pending,   \* t.pendingImages: session -> screenshots, named by their call
  attached,  \* call -> screenshots its result carries
  closed     \* the process is stopping: BaseCtx is done

vars == <<sessions, started, allocs, live, owner, tabs, call, pending, attached, closed>>

chrome == <<sessions, started, allocs, live, owner, tabs>>
images == <<pending, attached>>

\* ctxCancel and allocCancel of the entries es.
AllocsWithout(es) == allocs \ {e.alloc : e \in es}

LiveWithout(es) == {c \in live : \A e \in es : c # e.ctx /\ c[1] # e.alloc}

\* Mutant of Cancel: ctxCancel alone, which leaves the process of an earlier tab.
Cancel_contextOnly(es) ==
  UNCHANGED allocs /\ live' = {c \in live : \A e \in es : c # e.ctx}

Cancel(es) == allocs' = AllocsWithout(es) /\ live' = LiveWithout(es)

SetCall(c, phase) == call' = [call EXCEPT ![c].phase = phase]

\* A phase in which the call no longer uses the context it got.
Leave(c, phase) == call' = [call EXCEPT ![c].phase = phase, ![c].ctx = NoCtx]

-----------------------------------------------------------------------------
(* getOrCreateSession: all of it under t.mu, the start of Chrome too.      *)

Usable(s) == sessions[s] # NoEntry /\ sessions[s].ctx \in live

Begin(c, s, phase, ctx) ==
  /\ call[c].phase = "none"
  /\ call' = [call EXCEPT ![c] = [phase |-> phase, session |-> s, ctx |-> ctx]]

\* The action screenshot has nothing to run.
FirstPhases == {"run", "screenshot"}

UseSession(c, s, first) ==
  /\ Usable(s)
  /\ sessions' = [sessions EXCEPT ![s].idle = FALSE]
  /\ Begin(c, s, first, sessions[s].ctx)
  /\ UNCHANGED <<started, allocs, live, owner, tabs, images, closed>>

\* An entry whose context is done is cancelled and replaced.
CreateSession(c, s, first) ==
  LET b == started + 1 IN
  /\ ~Usable(s) /\ ~closed /\ b \in Browsers
  /\ started' = b
  /\ allocs' = AllocsWithout({sessions[s]}) \union {b}
  /\ live' = LiveWithout({sessions[s]}) \union {<<b, 0>>}
  /\ owner' = [owner EXCEPT ![b] = s]
  /\ sessions' = [sessions EXCEPT ![s] = [alloc |-> b, ctx |-> <<b, 0>>, idle |-> FALSE]]
  /\ Begin(c, s, first, <<b, 0>>)
  /\ UNCHANGED <<tabs, images, closed>>

\* Chrome does not start, or not within 30 seconds.
CreateFails(c, s) ==
  /\ ~Usable(s)
  /\ Cancel({sessions[s]})
  /\ sessions' = [sessions EXCEPT ![s] = NoEntry]
  /\ Begin(c, s, "ended", NoCtx)
  /\ UNCHANGED <<started, owner, tabs, images, closed>>

-----------------------------------------------------------------------------
(* The steps of a call.                                                    *)

\* navigate, click, back and forward go on to wait for a stable URL.
ThenStableURL(c) == Leave(c, "settle")

\* type, scroll and select go on to take a screenshot.
ThenScreenshot(c) == SetCall(c, "capture")

\* get_text, get_html, wait and evaluate return.
ThenReturn(c) == Leave(c, "return")

\* runWithTimeout
RunActions(c) ==
  /\ call[c].phase = "run" /\ call[c].ctx \in live
  /\ ThenStableURL(c) \/ ThenScreenshot(c) \/ ThenReturn(c)
  /\ UNCHANGED <<chrome, images, closed>>

RunFails(c) ==
  /\ call[c].phase = "run"
  /\ Leave(c, "ended")
  /\ UNCHANGED <<chrome, images, closed>>

\* waitForStableURL ends with the session's context of the moment.  Without
\* an entry, closed meanwhile, that is nil, and the next chromedp call panics.
WaitForStableURL(c) ==
  LET e == sessions[call[c].session] IN
  /\ call[c].phase = "settle"
  /\ call' = [call EXCEPT ![c].ctx = e.ctx,
                          ![c].phase = IF e = NoEntry THEN "panic" ELSE "capture"]
  /\ UNCHANGED <<chrome, images, closed>>

\* captureScreenshot, then the call returns its text.
Capture(c) ==
  /\ call[c].phase \in {"capture", "screenshot"} /\ call[c].ctx \in live
  /\ pending' = [pending EXCEPT ![call[c].session] = @ \union {c}]
  /\ Leave(c, "return")
  /\ UNCHANGED <<chrome, attached, closed>>

\* Mutant of CaptureFails: the image is kept before its file is written.
CaptureFails_keeps(c) ==
  /\ pending' = [pending EXCEPT ![call[c].session] = @ \union {c}]
  /\ \/ call[c].phase = "screenshot" /\ Leave(c, "ended")
     \/ call[c].phase = "capture" /\ Leave(c, "return")
  /\ UNCHANGED <<chrome, attached, closed>>

\* Only the action screenshot reports that there is none.
CaptureFails(c) ==
  /\ \/ call[c].phase = "screenshot" /\ Leave(c, "ended")
     \/ call[c].phase = "capture" /\ Leave(c, "return")
  /\ UNCHANGED <<chrome, images, closed>>

\* runTool: a call that succeeded takes all screenshots of the session.
ConsumeImages(c) ==
  LET s == call[c].session IN
  /\ call[c].phase = "return"
  /\ attached' = [attached EXCEPT ![c] = pending[s]]
  /\ pending' = [pending EXCEPT ![s] = {}]
  /\ Leave(c, "ended")
  /\ UNCHANGED <<chrome, closed>>

-----------------------------------------------------------------------------
(* What happens to sessions meanwhile.                                     *)

doClose(c, s) ==
  /\ Begin(c, s, "return", NoCtx)
  /\ Cancel({sessions[s]})
  /\ sessions' = [sessions EXCEPT ![s] = NoEntry]
  /\ UNCHANGED <<started, owner, tabs, images, closed>>

\* The callback: a page opened a tab, and the new Chrome attached to it (a
\* failed attempt is cancelled and changes nothing).
NewTab(b) ==
  /\ b \in allocs
  /\ \E t \in 1..MaxTabs :
       /\ <<b, t>> \notin live \union tabs
       /\ live' = live \union {<<b, t>>} /\ tabs' = tabs \union {<<b, t>>}
  /\ UNCHANGED <<sessions, started, allocs, owner, call, images, closed>>

\* Its second half, under the lock: whatever entry the session has by now.
SwitchTab(t) ==
  LET s == owner[t[1]] IN
  /\ t \in tabs
  /\ tabs' = tabs \ {t}
  /\ sessions' = IF sessions[s] = NoEntry THEN sessions
                 ELSE [sessions EXCEPT ![s].ctx = t, ![s].idle = FALSE]
  /\ UNCHANGED <<started, allocs, live, owner, call, images, closed>>

ChromeDies(ctx) ==
  /\ ctx \in live
  /\ live' = live \ {ctx}
  /\ UNCHANGED <<sessions, started, allocs, owner, tabs, call, images, closed>>

\* IdleTimeout passes since lastUsed, which only getOrCreateSession and a new
\* tab renew: also during a long call.
BecomeIdle(s) ==
  /\ sessions[s] # NoEntry /\ ~sessions[s].idle
  /\ sessions' = [sessions EXCEPT ![s].idle = TRUE]
  /\ UNCHANGED <<started, allocs, live, owner, tabs, call, images, closed>>

CancelAll(ss) ==
  /\ Cancel({sessions[s] : s \in ss})
  /\ sessions' = [s \in Sessions |-> IF s \in ss THEN NoEntry ELSE sessions[s]]

cleanIdleSessions ==
  LET idle == {s \in Sessions : sessions[s].idle} IN
  /\ idle # {} /\ ~closed
  /\ CancelAll(idle)
  /\ UNCHANGED <<started, owner, tabs, call, images, closed>>

\* Shutdown: Close, and BaseCtx is done.
Close ==
  /\ ~closed
  /\ closed' = TRUE
  /\ CancelAll(Sessions)
  /\ UNCHANGED <<started, owner, tabs, call, images>>

-----------------------------------------------------------------------------
Init ==
  /\ sessions = [s \in Sessions |-> NoEntry]
  /\ started = 0 /\ allocs = {} /\ live = {} /\ owner = [b \in Browsers |-> NoSession]
  /\ tabs = {}
  /\ call = [c \in Calls |-> [phase |-> "none", session |-> NoSession, ctx |-> NoCtx]]
  /\ pending = [s \in Sessions |-> {}] /\ attached = [c \in Calls |-> {}]
  /\ closed = FALSE

Execute(c) ==
  \/ \E s \in Sessions : doClose(c, s) \/ CreateFails(c, s)
  \/ \E s \in Sessions, first \in FirstPhases :
       UseSession(c, s, first) \/ CreateSession(c, s, first)
  \/ RunActions(c) \/ RunFails(c) \/ WaitForStableURL(c)
  \/ Capture(c) \/ CaptureFails(c) \/ ConsumeImages(c)

\* A panic ends the process: nothing recovers it.
Next ==
  /\ \A c \in Calls : call[c].phase # "panic"
  /\ \/ \E c \in Calls : Execute(c)
     \/ \E b \in Browsers : NewTab(b)
     \/ \E t \in Contexts : SwitchTab(t) \/ ChromeDies(t)
     \/ \E s \in Sessions : BecomeIdle(s)
     \/ cleanIdleSessions \/ Close

Spec == Init /\ [][Next]_vars

-----------------------------------------------------------------------------
(* Properties.                                                             *)

Phases == {"none", "run", "settle", "capture", "screenshot", "return", "ended", "panic"}

TypeOK ==
  /\ sessions \in [Sessions -> [alloc : 0..MaxBrowsers, ctx : Contexts \union {NoCtx},
                                idle : BOOLEAN]]
  /\ started \in 0..MaxBrowsers /\ allocs \subseteq Browsers
  /\ live \subseteq Contexts /\ tabs \subseteq Contexts
  /\ owner \in [Browsers -> Sessions \union {NoSession}]
  /\ call \in [Calls -> [phase : Phases, session : Sessions \union {NoSession},
                         ctx : Contexts \union {NoCtx}]]
  /\ pending \in [Sessions -> SUBSET Calls] /\ attached \in [Calls -> SUBSET Calls]
  /\ closed \in BOOLEAN

\* Every Chrome process that runs belongs to the entry of exactly one
\* session, also after the entry followed new tabs, was replaced, evicted or
\* closed, and after a late callback of an old process wrote its tab into the
\* entry of a new one.
NoStrayChrome ==
  \A c \in live : \E s \in Sessions :
    \A t \in Sessions : (sessions[t].alloc = c[1]) <=> (t = s)

\* A screenshot waits only while a successful call of its session is about to
\* collect it, and no two results carry it: no turn is shown a picture of an
\* earlier one.  (Calls of one session at the same time may swap theirs.)
ScreenshotsAccounted ==
  /\ \A s \in Sessions, i \in Calls : i \in pending[s] =>
       /\ call[i].session = s
       /\ \E c \in Calls : call[c].session = s /\ call[c].phase = "return"
  /\ \A c, d, i \in Calls : i \in attached[c] =>
       /\ call[i].session = call[c].session
       /\ i \in attached[d] => c = d
       /\ i \notin pending[call[i].session]
=============================================================================
