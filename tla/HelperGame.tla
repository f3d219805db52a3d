----------------------------- MODULE HelperGame -----------------------------
(***************************************************************************)
(* The app's side of the isolation helper, composed with CoreHost:         *)
(*   HelperSession.swift      the client of one connection                 *)
(*   HelperDisplayLoop.swift  the loop thread that drives it               *)
(*   App.swift                the main thread: startGame, stopGame, the    *)
(*                            loss report and the probe of a user's core   *)
(* A game is one connection and the thread and window that go with it.     *)
(*                                                                         *)
(* Threads that interleave here: the main thread; the loop thread of each  *)
(* game; each connection's queue, on which replies and the interruption    *)
(* are handled; and the helper.  A call that blocks its caller is two      *)
(* steps, the send and the answer or the timeout.                          *)
(***************************************************************************)
EXTENDS CoreHost, SequencesExt

CONSTANTS
  Probe,       \* the connection of probeUserCore, None if nobody probes
  Persisted,   \* the games that belong to a library entry, hence have saves
  MaxPending   \* bound: an optional call is not made with this many waiting

ASSUME ProbeAssumption == Probe \in (Conns \ Sessions) \union {None}
ASSUME PersistedAssumption == Persisted \subseteq Sessions
ASSUME MaxPendingAssumption == MaxPending \in Nat \ {0}

VARIABLES
  pc,         \* game -> where its loop thread is
  alive,      \* game -> HelperSession.alive
  inFlight,   \* game -> HelperSession.inFlight
  packed,     \* game -> HelperSession.packedFrameSize, None before open
  handling,   \* game -> a run reply has stored its size, not yet released
  reported,   \* game -> HelperDisplayLoop.reportedSessionLost
  game,       \* App.displayLoop, which has its window
  main,       \* the main thread is "idle", or "stopping" the game
  next,       \* the game startGame starts once the running one has stopped
  mainQueue,  \* loss reports waiting for the main queue, by game
  probing,    \* "off", "asked" or "done"
  stored      \* history: <<game whose save was written, session it is from>>

clientVars == <<pc, alive, inFlight, packed, handling, reported>>
appVars == <<game, main, next, mainQueue, probing>>
hostOnly == <<core, session, frameSurface, contentHandles, environment, drawn, crashes>>
vars == <<serviceVars, clientVars, appVars, stored>>

(* Where a loop thread may wait for a reply, and for the reply to what. *)
AwaitedOp ==
  [open |-> "open", attach |-> "attach", options |-> "options", restore |-> "restore",
   flush |-> "saveRAM", serialize |-> "serialize", unserialize |-> "unserialize",
   endFlush |-> "saveRAM", endClose |-> "close"]
Waits == DOMAIN AwaitedOp

(* The other places: no thread yet; in its run loop with the display link  *)
(* armed; past runFrame's isAlive check; in its run loop after a failed    *)
(* load, with a teardown to perform; gone after the teardown; gone after a *)
(* failed load, its window and connection still there.                     *)
Places == Waits \union {"unborn", "armed", "sending", "failed", "exited", "stranded"}

Gone(c) == pc[c] \in {"exited", "stranded"}
Running(c) == pc[c] # "unborn" /\ ~Gone(c)

Init ==
  /\ HostInit
  /\ pc = [c \in Sessions |-> "unborn"]
  /\ alive = [c \in Sessions |-> TRUE]
  /\ inFlight = [c \in Sessions |-> FALSE]
  /\ packed = [c \in Sessions |-> None]
  /\ handling = [c \in Sessions |-> FALSE]
  /\ reported = [c \in Sessions |-> FALSE]
  /\ game = None /\ main = "idle" /\ next = None /\ mainQueue = <<>>
  /\ probing = "off"
  /\ stored = {}

(* The calls of connection c that no block has run for yet. *)
Pending(c) == Len(wire[c]) + Len(SelectSeq(coreQueue, LAMBDA b : b.from = c))
-----------------------------------------------------------------------------
(* The loop thread of c goes on to a call, on a wire that holds w, or to a *)
(* place where it waits for nothing.                                       *)
GoTo(c, place, w) ==
  /\ pc' = [pc EXCEPT ![c] = place]
  /\ wire' = [wire EXCEPT
       ![c] = IF place \in Waits THEN Append(w, Call(AwaitedOp[place])) ELSE w]

(* connection.invalidate(), or the last reference to it going: a helper    *)
(* that has heard of the connection is told after all the calls on it.     *)
Invalidated(c, w) ==
  IF c \in peer \/ w # <<>> THEN Append(w, Notice("invalidate")) ELSE w

Forgotten(w, ops) == [i \in DOMAIN w |->
  IF w[i].op \in ops THEN [w[i] EXCEPT !.awaited = FALSE] ELSE w[i]]
ForgottenBlocks(c, ops) == [i \in DOMAIN coreQueue |->
  IF coreQueue[i].from = c /\ coreQueue[i].call.op \in ops
  THEN [coreQueue[i] EXCEPT !.call.awaited = FALSE] ELSE coreQueue[i]]

(* The reply to a call that was given up on goes unheard; there is one at  *)
(* most, as a thread makes one call at a time and hears its reply or gives *)
(* it up before the next.                                                  *)
Unheard(q, ops) ==
  LET late == {i \in DOMAIN q : q[i].op \in ops}
  IN IF late = {} THEN q ELSE RemoveAt(q, CHOOSE i \in late : TRUE)

(* setUpOnLoopThread returned early: with nothing in its run loop the      *)
(* thread ends, unless stop() has already asked it for the teardown.       *)
LoadFailed(c, w) ==
  GoTo(c, IF main = "stopping" /\ game = c THEN "failed" ELSE "stranded", w)

(* The rest of setUpOnLoopThread: optionsSnapshot and restoreSaveRAM ask   *)
(* nothing of a session that is not alive; a save is restored when the     *)
(* game has one.                                                           *)
Restoring(c, w) ==
  \/ c \in Persisted /\ alive[c] /\ GoTo(c, "restore", w)
  \/ GoTo(c, "armed", w)
Optioning(c, w) == IF alive[c] THEN GoTo(c, "options", w) ELSE Restoring(c, w)

(* close, and the rest of tearDownOnLoopThread up to the invalidation. *)
Closing(c, w) ==
  IF alive[c] THEN GoTo(c, "endClose", w)
  ELSE GoTo(c, "exited", Invalidated(c, w))

(* flushSaveRAM of tearDownOnLoopThread.  saveIdentity is only set once    *)
(* the session is open.                                                    *)
Ending(c, w) ==
  IF c \in Persisted /\ pc[c] = "armed" /\ alive[c]
  THEN GoTo(c, "endFlush", w)
  ELSE Closing(c, w)

(* What the loop thread does when the reply it waits for is there, or when *)
(* it has waited too long (ok is FALSE, and by is None).                   *)
Resume(c, ok, by, w) ==
  \/ /\ pc[c] = "open"
     /\ \/ ok /\ GoTo(c, "attach", w)
        \/ LoadFailed(c, w)             \* also when no surface can be made
     /\ UNCHANGED <<packed, stored>>
  \/ /\ pc[c] = "attach" /\ ok
     /\ \E size \in Sizes : packed' = [packed EXCEPT ![c] = size]
     /\ Optioning(c, w)
     /\ UNCHANGED stored
  \/ /\ pc[c] = "attach" /\ ~ok
     /\ LoadFailed(c, w)
     /\ UNCHANGED <<packed, stored>>
  \/ /\ pc[c] = "options" /\ Restoring(c, w)
     /\ UNCHANGED <<packed, stored>>
  \/ /\ pc[c] \in {"restore", "serialize", "unserialize"} /\ GoTo(c, "armed", w)
     /\ UNCHANGED <<packed, stored>>
  \/ /\ pc[c] \in {"flush", "endFlush"}
     /\ stored' = IF ok THEN stored \union {<<c, by>>} ELSE stored
     /\ IF pc[c] = "flush" THEN GoTo(c, "armed", w) ELSE Closing(c, w)
     /\ UNCHANGED packed
  \/ /\ pc[c] = "endClose" /\ GoTo(c, "exited", Invalidated(c, w))
     /\ UNCHANGED <<packed, stored>>
-----------------------------------------------------------------------------
(* The reply the loop thread waits for. *)
Answer(c) ==
  /\ replies[c] # <<>> /\ pc[c] \in Waits
  /\ LET r == Head(replies[c]) IN
       /\ r.op = AwaitedOp[pc[c]]
       /\ Resume(c, r.ok, r.by, wire[c])
  /\ replies' = [replies EXCEPT ![c] = Tail(@)]
  /\ UNCHANGED <<coreQueue, peer, hostOnly, alive, inFlight, handling,
                 reported, appVars>>

\* Mutant: close waits for its reply without a timeout.
TimeOutNotOnClose(c) ==
  /\ pc[c] \in Waits \ {"endClose"}
  /\ LET ops == {AwaitedOp[pc[c]]} IN
       /\ coreQueue' = ForgottenBlocks(c, ops)
       /\ replies' = [replies EXCEPT ![c] = Unheard(@, ops)]
       /\ Resume(c, FALSE, None, Forgotten(wire[c], ops))
  /\ UNCHANGED <<peer, hostOnly, alive, inFlight, handling, reported, appVars>>

(* replyTimeout: the call may still be executed, and its reply is ignored. *)
TimeOut(c) ==
  /\ pc[c] \in Waits
  /\ LET ops == {AwaitedOp[pc[c]]} IN
       /\ coreQueue' = ForgottenBlocks(c, ops)
       /\ replies' = [replies EXCEPT ![c] = Unheard(@, ops)]
       /\ Resume(c, FALSE, None, Forgotten(wire[c], ops))
  /\ UNCHANGED <<peer, hostOnly, alive, inFlight, handling, reported, appVars>>

\* Mutants: the guard is released before the size is stored; the size of a
\* reply that ran nothing is stored; a lost connection only releases the guard.

HandleRunReplySwapped(c) ==
  /\ replies[c] # <<>> /\ Head(replies[c]).op = "run"
  /\ LET r == Head(replies[c]) IN
       IF ~handling[c]
       THEN /\ inFlight' = [inFlight EXCEPT ![c] = FALSE]
            /\ handling' = [handling EXCEPT ![c] = TRUE]
            /\ UNCHANGED <<replies, packed>>
       ELSE /\ packed' = IF r.ok THEN [packed EXCEPT ![c] = r.size] ELSE packed
            /\ handling' = [handling EXCEPT ![c] = FALSE]
            /\ replies' = [replies EXCEPT ![c] = Tail(@)]
            /\ UNCHANGED inFlight
  /\ UNCHANGED <<wire, coreQueue, peer, hostOnly, pc, alive, reported,
                 appVars, stored>>

HandleRunReplyAnySize(c) ==
  /\ replies[c] # <<>> /\ Head(replies[c]).op = "run"
  /\ IF ~handling[c]
     THEN /\ packed' = [packed EXCEPT ![c] = Head(replies[c]).size]
          /\ handling' = [handling EXCEPT ![c] = TRUE]
          /\ UNCHANGED <<replies, inFlight>>
     ELSE /\ inFlight' = [inFlight EXCEPT ![c] = FALSE]
          /\ handling' = [handling EXCEPT ![c] = FALSE]
          /\ replies' = [replies EXCEPT ![c] = Tail(@)]
          /\ UNCHANGED packed
  /\ UNCHANGED <<wire, coreQueue, peer, hostOnly, pc, alive, reported,
                 appVars, stored>>

ConnectionLostStaysAlive(c) ==
  /\ replies[c] # <<>> /\ Head(replies[c]).op = "interrupted"
  /\ replies' = [replies EXCEPT ![c] = Tail(@)]
  /\ inFlight' = [inFlight EXCEPT ![c] = FALSE]
  /\ UNCHANGED <<wire, coreQueue, peer, hostOnly, pc, alive, packed, handling,
                 reported, appVars, stored>>

(* The reply of runFramesShared: the size is stored, then the guard is     *)
(* released, with other threads running in between.                        *)
HandleRunReply(c) ==
  /\ replies[c] # <<>> /\ Head(replies[c]).op = "run"
  /\ LET r == Head(replies[c]) IN
       IF ~handling[c]
       THEN /\ packed' = IF r.ok THEN [packed EXCEPT ![c] = r.size] ELSE packed
            /\ handling' = [handling EXCEPT ![c] = TRUE]
            /\ UNCHANGED <<replies, inFlight>>
       ELSE /\ inFlight' = [inFlight EXCEPT ![c] = FALSE]
            /\ handling' = [handling EXCEPT ![c] = FALSE]
            /\ replies' = [replies EXCEPT ![c] = Tail(@)]
            /\ UNCHANGED packed
  /\ UNCHANGED <<wire, coreQueue, peer, hostOnly, pc, alive, reported,
                 appVars, stored>>

(* connectionLost, in its turn among the replies.                          *)
ConnectionLost(c) ==
  /\ replies[c] # <<>> /\ Head(replies[c]).op = "interrupted"
  /\ replies' = [replies EXCEPT ![c] = Tail(@)]
  /\ alive' = [alive EXCEPT ![c] = FALSE]
  /\ inFlight' = [inFlight EXCEPT ![c] = FALSE]
  /\ UNCHANGED <<wire, coreQueue, peer, hostOnly, pc, packed, handling, reported,
                 appVars, stored>>
-----------------------------------------------------------------------------
(* The display link's callback, up to runFrame's isAlive check.            *)
CallbackAlive(c) ==
  /\ pc[c] = "armed" /\ ~reported[c] /\ alive[c]
  /\ pc' = [pc EXCEPT ![c] = "sending"]
  /\ UNCHANGED <<serviceVars, alive, inFlight, packed, handling, reported, appVars, stored>>

(* sessionLost: reportSessionLost hands the failure to the main queue.     *)
CallbackLost(c) ==
  /\ pc[c] = "armed" /\ ~reported[c] /\ ~alive[c]
  /\ reported' = [reported EXCEPT ![c] = TRUE]
  /\ mainQueue' = Append(mainQueue, c)
  /\ UNCHANGED <<serviceVars, pc, alive, inFlight, packed, handling, game, main, next,
                 probing, stored>>

(* The callback goes on to present the frame, or first to a flush of the   *)
(* save RAM, which every 600th callback with a frame due makes.            *)
Presenting(c, w) ==
  \/ GoTo(c, "armed", w)
  \/ /\ c \in Persisted /\ alive[c] /\ Pending(c) < MaxPending
     /\ GoTo(c, "flush", w)

\* Mutant: a batch is sent while another is in flight.
SendWhileBusy(c) ==
  /\ pc[c] = "sending"
  /\ inFlight' = [inFlight EXCEPT ![c] = TRUE]
  /\ Pending(c) < MaxPending
  /\ Presenting(c, Append(wire[c], Call("run")))
  /\ UNCHANGED <<coreQueue, replies, peer, hostOnly, alive, packed, handling,
                 reported, appVars, stored>>

(* The rest of runFrame: busy, or one batch sent. *)
SendBatch(c) ==
  /\ pc[c] = "sending"
  /\ inFlight' = [inFlight EXCEPT ![c] = TRUE]
  /\ Presenting(c, IF inFlight[c] THEN wire[c] ELSE Append(wire[c], Call("run")))
  /\ UNCHANGED <<coreQueue, replies, peer, hostOnly, alive, packed, handling,
                 reported, appVars, stored>>

(* performSaveState and performLoadState, between two callbacks. *)
PerformState(c) ==
  /\ pc[c] = "armed" /\ c \in Persisted /\ alive[c] /\ Pending(c) < MaxPending
  /\ \E place \in {"serialize", "unserialize"} : GoTo(c, place, wire[c])
  /\ UNCHANGED <<coreQueue, replies, peer, hostOnly, alive, inFlight, packed,
                 handling, reported, appVars, stored>>

(* tearDownOnLoopThread, while the main thread waits in stop(). *)
TearDown(c) ==
  /\ main = "stopping" /\ game = c /\ pc[c] \in {"armed", "failed"}
  /\ Ending(c, wire[c])
  /\ UNCHANGED <<coreQueue, replies, peer, hostOnly, alive, inFlight, packed,
                 handling, reported, appVars, stored>>

LoopThread(c) ==
  \/ Answer(c) \/ TimeOut(c) \/ HandleRunReply(c) \/ ConnectionLost(c)
  \/ CallbackAlive(c) \/ CallbackLost(c) \/ SendBatch(c) \/ PerformState(c) \/ TearDown(c)
-----------------------------------------------------------------------------
(* The user starts a game: startGame stops the running one first.          *)
StartGame(c) ==
  /\ main = "idle" /\ pc[c] = "unborn"
  /\ main' = "stopping" /\ next' = c
  /\ UNCHANGED <<serviceVars, clientVars, game, mainQueue, probing, stored>>

(* The user closes the window, or stops the game. *)
StopGame ==
  /\ main = "idle" /\ game # None
  /\ main' = "stopping" /\ next' = None
  /\ UNCHANGED <<serviceVars, clientVars, game, mainQueue, probing, stored>>

(* onSessionLost, on the main queue: whichever game is running is stopped. *)
HandleLoss ==
  /\ main = "idle" /\ mainQueue # <<>>
  /\ mainQueue' = Tail(mainQueue)
  /\ main' = IF game = None THEN "idle" ELSE "stopping"
  /\ next' = None
  /\ UNCHANGED <<serviceVars, clientVars, game, probing, stored>>

(* The loop of game c is released, with its connection; next is launched,  *)
(* and its loop thread calls openSession.                                  *)
Replaced(released) ==
  LET freed == IF released THEN [wire EXCEPT ![game] = Invalidated(game, @)] ELSE wire IN
  /\ main' = "idle" /\ game' = next /\ next' = None
  /\ IF next = None
     THEN wire' = freed /\ UNCHANGED pc
     ELSE /\ wire' = [freed EXCEPT ![next] = <<Call("open")>>]
          /\ pc' = [pc EXCEPT ![next] = "open"]
  /\ UNCHANGED <<coreQueue, replies, peer, hostOnly, alive, inFlight, packed,
                 handling, reported, mainQueue, probing, stored>>

\* Mutant: stop() asks for the teardown and does not wait for it.
ReplaceAtOnce == main = "stopping" /\ Replaced(game # None /\ pc[game] = "stranded")

(* stop() returns when the teardown has been performed, at once when the   *)
(* loop thread is gone; stopGame drops the loop and startGame goes on.     *)
Replace ==
  /\ main = "stopping" /\ (game # None => Gone(game))
  /\ Replaced(game # None /\ pc[game] = "stranded")

(* probeUserCore asks the helper to load a library, on a connection of its *)
(* own; finishProbe invalidates it, on the reply or on the error handler.  *)
StartProbe ==
  /\ Probe # None /\ main = "idle" /\ probing = "off"
  /\ probing' = "asked"
  /\ wire' = [wire EXCEPT ![Probe] = <<Call("probe")>>]
  /\ UNCHANGED <<coreQueue, replies, peer, hostOnly, clientVars, game, main, next,
                 mainQueue, stored>>

FinishProbe ==
  /\ main = "idle" /\ probing = "asked"
  /\ replies[Probe] # <<>>
  /\ probing' = "done"
  /\ wire' = [wire EXCEPT ![Probe] = Invalidated(Probe, @)]
  /\ replies' = [replies EXCEPT ![Probe] = <<>>]
  /\ UNCHANGED <<coreQueue, peer, hostOnly, clientVars, game, main, next, mainQueue, stored>>

App ==
  \/ (\E c \in Sessions : StartGame(c)) \/ StopGame \/ HandleLoss \/ Replace
  \/ StartProbe \/ FinishProbe

Next ==
  \/ (\E c \in Sessions : LoopThread(c))
  \/ App
  \/ HostNext /\ UNCHANGED <<clientVars, appVars, stored>>

(* Threads and queues that have something to do get to do it; the display  *)
(* link keeps calling back; timeouts expire; and a run loop that turns     *)
(* serves every source, so callbacks cannot keep a teardown waiting for    *)
(* ever.  The user need not do anything, and nothing need crash.           *)
ClientFairness(c) ==
  /\ WF_vars(Answer(c)) /\ WF_vars(TimeOut(c))
  /\ WF_vars(HandleRunReply(c)) /\ WF_vars(ConnectionLost(c))
  /\ WF_vars(CallbackAlive(c)) /\ WF_vars(CallbackLost(c))
  /\ WF_vars(SendBatch(c)) /\ SF_vars(TearDown(c))

Spec == Init /\ [][Next]_vars

FairSpec ==
  /\ Spec
  /\ \A c \in Conns : WF_vars(Deliver(c) /\ UNCHANGED <<clientVars, appVars, stored>>)
  /\ WF_vars((\E c \in Conns : Execute(c)) /\ UNCHANGED <<clientVars, appVars, stored>>)
  /\ \A c \in Sessions : ClientFairness(c)
  /\ WF_vars(HandleLoss) /\ WF_vars(Replace) /\ WF_vars(FinishProbe)
-----------------------------------------------------------------------------
(* Every variable has its type, and from the time its display link is      *)
(* armed a game has a size to present its surface with.                    *)
TypeOK ==
  /\ HostTypeOK
  /\ pc \in [Sessions -> Places]
  /\ alive \in [Sessions -> BOOLEAN] /\ inFlight \in [Sessions -> BOOLEAN]
  /\ handling \in [Sessions -> BOOLEAN] /\ reported \in [Sessions -> BOOLEAN]
  /\ packed \in [Sessions -> Sizes \union {None}]
  /\ \A c \in Sessions : pc[c] \in {"armed", "sending"} => packed[c] # None
  /\ game \in Sessions \union {None} /\ next \in Sessions \union {None}
  /\ main \in {"idle", "stopping"} /\ mainQueue \in Seq(Sessions)
  /\ probing \in {"off", "asked", "done"}
  /\ stored \subseteq Sessions \X (Sessions \union {None})

(* Games take turns: stop() returns only when the thread it stops is done, *)
(* so two threads never drive the helper at once, whatever is lost, late   *)
(* or given up on; and no window closes while its thread is running.       *)
Lifecycle == INSTANCE GameLifecycle WITH
  Games <- Sessions, NoGame <- None,
  shown <- game,
  running <- {c \in Sessions : Running(c)},
  over <- {c \in Sessions : Gone(c)}
GamesTakeTurns == Lifecycle!Spec

(* While its session is alive a game has at most one batch of frames with  *)
(* the helper (runFrame's inFlight guard), whatever replies, crashes and   *)
(* callbacks cross.  Not after: a batch sent between the crash and the     *)
(* interruption is still out when the interruption releases the guard, and *)
(* a runFrame past its isAlive check then sends another.                   *)
Batches(c) ==   \* the places they are at
  {<<"called", i>> : i \in {j \in DOMAIN wire[c] : wire[c][j].op = "run"}} \union
  {<<"queued", i>> : i \in {j \in DOMAIN coreQueue :
                              coreQueue[j].from = c /\ coreQueue[j].call.op = "run"}} \union
  {<<"answered", i>> : i \in {j \in DOMAIN replies[c] : replies[c][j].op = "run"}}
OneBatch == \A c \in Sessions : alive[c] => \A a, b \in Batches(c) : a = b

(* With nothing in flight, the size the display loop presents with is that *)
(* of the pixels in the surface: a reply stores it before it releases the  *)
(* guard.                                                                  *)
QuiescentGeometry ==
  \A c \in Sessions :
    (pc[c] = "armed" /\ game = c /\ alive[c] /\ ~inFlight[c] /\ drawn[c] # None)
      => packed[c] = drawn[c]

(* What is written to a game's save file was read from that game's         *)
(* session, whichever session the helper holds when the call runs.  This   *)
(* holds for two connections.  With a third it does not: the end of a      *)
(* probe closes the session of the second game, an open of the first that  *)
(* was given up on arrives at last and makes a session of its own, and the *)
(* second game's flush stores the save RAM it finds there.                 *)
NoForeignSave == \A s \in stored : s[2] = s[1]

(* A game whose helper died while its loop was running ends: the next      *)
(* callback reports the loss and the main queue closes the window.         *)
LossIsReported ==
  \A c \in Sessions :
    (Interruption \in ToSet(replies[c]) /\ pc[c] \in {"armed", "sending"}) ~> (game # c)

(* The main thread never waits for good in stop(), even on a helper that   *)
(* answers nothing: each call the teardown makes times out.                *)
StopReturns == (main = "stopping") ~> (main = "idle")

(* The helper does not keep the session of a game that is gone: teardown   *)
(* closes it, and when the close was lost, the invalidation does.          *)
OrphanClosed ==
  \A c \in Sessions : (pc[c] # "unborn" /\ game # c) ~> (session # c)

(* CoreHostXPC/main.swift:15-17 closes the session when a connection goes, *)
(* since "a session it opened could otherwise never be closed": the        *)
(* session that is shut down, its descriptors with it, is the one which    *)
(* that connection opened.                                                 *)
ClosedByItsOwn ==
  [][(session # None /\ session' = None /\ crashes' = crashes)
       => Head(coreQueue).from = session]_vars
=============================================================================
