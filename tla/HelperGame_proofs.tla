-------------------------- MODULE HelperGame_proofs --------------------------
(***************************************************************************)
(* Proofs about games hosted by the helper: for any number of games and    *)
(* other connections, of crashes of the helper, and whatever times out.    *)
(***************************************************************************)
EXTENDS HelperGame, TLAPS

Block == [from : Conns, call : CallRecord]

CoreTypes ==
  /\ wire \in [Conns -> Seq(CallRecord)] /\ coreQueue \in Seq(Block)
  /\ core \in CoreStates /\ session \in Sessions \union {None}

(* Only the games' connections do more than probe a core. *)
OnlyGamesPlay ==
  /\ \A c \in Conns \ Sessions : \A i \in DOMAIN wire[c] : wire[c][i].op \in {"probe", "invalidate"}
  /\ \A i \in DOMAIN coreQueue :
       coreQueue[i].from \in Sessions \/ coreQueue[i].call.op \in {"probe", "close"}

(* Only the game behind the window runs, and the game about to be started  *)
(* has never run.                                                          *)
TurnsInv ==
  /\ pc \in [Sessions -> Places]
  /\ game \in Sessions \union {None} /\ next \in Sessions \union {None}
  /\ \A c \in Sessions : Running(c) => game = c
  /\ next # None => main = "stopping" /\ pc[next] = "unborn"

IInv == CoreTypes /\ OnlyGamesPlay /\ SessionIsLoaded /\ TurnsInv

(* Replies, and whether a batch that was run says what it drew. *)
ReplyTypes ==
  /\ replies \in [Conns -> Seq(ReplyRecord)]
  /\ \A c \in Conns : \A i \in DOMAIN replies[c] :
       replies[c][i].op = "run" /\ replies[c][i].ok => replies[c][i].size # None
HelperTypes ==
  /\ peer \subseteq Conns /\ crashes \in 0..MaxCrashes
  /\ frameSurface \in Sessions \union {None} /\ contentHandles \in Sessions \union {None}
  /\ environment \in Sessions \union {None} /\ drawn \in [Sessions -> Sizes \union {None}]
AppTypes ==
  /\ main \in {"idle", "stopping"} /\ mainQueue \in Seq(Sessions)
  /\ probing \in {"off", "asked", "done"}
  /\ stored \subseteq Sessions \X (Sessions \union {None})

(* A thread whose surface is attached knows a size from there on. *)
Driving == {"options", "restore", "armed", "sending", "flush", "serialize", "unserialize"}
ClientTypes ==
  /\ alive \in [Sessions -> BOOLEAN] /\ inFlight \in [Sessions -> BOOLEAN]
  /\ handling \in [Sessions -> BOOLEAN] /\ reported \in [Sessions -> BOOLEAN]
  /\ packed \in [Sessions -> Sizes \union {None}]
  /\ \A c \in Sessions : pc[c] \in Driving => packed[c] # None

TypeInv == ReplyTypes /\ HelperTypes /\ AppTypes /\ ClientTypes

(* Where the batches of game c are, and that there is one or none. *)
Runs(q) == {i \in DOMAIN q : q[i].op = "run"}
RunBlocks(c) == {i \in DOMAIN coreQueue : coreQueue[i].from = c /\ coreQueue[i].call.op = "run"}
Single(S) == \A i, j \in S : i = j
NoBatch(c) == Runs(wire[c]) = {} /\ RunBlocks(c) = {} /\ Runs(replies[c]) = {}
OneAtMost(c) ==
  /\ Single(Runs(wire[c])) /\ Single(RunBlocks(c)) /\ Single(Runs(replies[c]))
  /\ Runs(wire[c]) = {} \/ RunBlocks(c) = {}
  /\ Runs(wire[c]) = {} \/ Runs(replies[c]) = {}
  /\ RunBlocks(c) = {} \/ Runs(replies[c]) = {}

(* The guard is set as long as a batch is out; a reply is handled while it *)
(* is the next one.                                                        *)
Early == {"unborn", "open", "attach"}
BatchOf(c) ==
  /\ alive[c] => OneAtMost(c) /\ (NoBatch(c) \/ inFlight[c])
  /\ handling[c] => replies[c] # <<>> /\ Head(replies[c]).op = "run"
  /\ pc[c] \in Early => NoBatch(c)
BatchInv == \A c \in Sessions : BatchOf(c)

(* The size that game c presents with is that of its pixels, if there are  *)
(* any: when no batch is out, when its reply is handled, and until it is   *)
(* run.  Its reply, once it was run, has the size.                         *)
Settled(c) == drawn[c] \in {None, packed[c]}
GeometryOf(c) ==
  /\ pc[c] \in Early => drawn[c] = None
  /\ pc[c] \in Driving /\ alive[c] =>
       /\ ~inFlight[c] \/ handling[c] => Settled(c)
       /\ Runs(wire[c]) # {} \/ RunBlocks(c) # {} => Settled(c)
       /\ ~handling[c] => \A i \in Runs(replies[c]) :
            IF replies[c][i].ok THEN replies[c][i].size = drawn[c] ELSE Settled(c)
GeometryInv == \A c \in Sessions : GeometryOf(c)

-----------------------------------------------------------------------------
(* Calls are records, before and after their caller gave them up. *)

LEMMA CallTypes ==
  /\ \A op \in {"open", "attach", "options", "restore", "saveRAM", "serialize", "unserialize",
                "run", "close", "probe", "invalidate"} :
       Call(op) \in CallRecord /\ Notice(op) \in CallRecord
  /\ \A place \in Waits : Call(AwaitedOp[place]) \in CallRecord
BY DEF Call, Notice, CallRecord, Waits, AwaitedOp

LEMMA Appending ==
  ASSUME NEW S, NEW q \in Seq(S), NEW x \in S
  PROVE  /\ Append(q, x) \in Seq(S)
         /\ \A i \in DOMAIN Append(q, x) :
              \/ i = Len(q) + 1 /\ Append(q, x)[i] = x
              \/ i \in DOMAIN q /\ Append(q, x)[i] = q[i]
OBVIOUS

LEMMA TakingOne ==
  ASSUME NEW S, NEW q \in Seq(S), q # <<>>
  PROVE  /\ Tail(q) \in Seq(S) /\ Head(q) \in S /\ 1 \in DOMAIN q /\ Head(q) = q[1]
         /\ \A i \in DOMAIN Tail(q) : i + 1 \in DOMAIN q /\ Tail(q)[i] = q[i + 1]
OBVIOUS

LEMMA GivenUp ==
  ASSUME NEW w \in Seq(CallRecord), NEW ops
  PROVE  Forgotten(w, ops) \in Seq(CallRecord)
<1> DEFINE f(i) == IF w[i].op \in ops THEN [w[i] EXCEPT !.awaited = FALSE] ELSE w[i]
<1>1. DOMAIN w = 1..Len(w) /\ Len(w) \in Nat
  OBVIOUS
<1>2. \A i \in 1..Len(w) : f(i) \in CallRecord
  <2>1. ASSUME NEW i \in 1..Len(w) PROVE [w[i] EXCEPT !.awaited = FALSE] \in CallRecord /\ w[i] \in CallRecord
    <3>1. w[i] \in CallRecord
      OBVIOUS
    <3>2. QED
      BY <3>1 DEF CallRecord
  <2>2. QED
    BY <2>1
<1>3. [i \in 1..Len(w) |-> f(i)] \in Seq(CallRecord)
  BY <1>1, <1>2
<1>4. QED
  BY <1>1, <1>3 DEF Forgotten

LEMMA BlocksGivenUp ==
  ASSUME coreQueue \in Seq(Block), NEW c, NEW ops
  PROVE  LET q == ForgottenBlocks(c, ops) IN
         /\ q \in Seq(Block)
         /\ DOMAIN q = DOMAIN coreQueue
         /\ \A i \in DOMAIN q : q[i].from = coreQueue[i].from /\ q[i].call.op = coreQueue[i].call.op
<1> DEFINE b(i) == coreQueue[i]
           f(i) == IF b(i).from = c /\ b(i).call.op \in ops
                   THEN [b(i) EXCEPT !.call.awaited = FALSE] ELSE b(i)
           q == ForgottenBlocks(c, ops)
<1>1. DOMAIN coreQueue = 1..Len(coreQueue) /\ Len(coreQueue) \in Nat
  OBVIOUS
<1>2. ASSUME NEW i \in 1..Len(coreQueue)
      PROVE  f(i) \in Block /\ f(i).from = b(i).from /\ f(i).call.op = b(i).call.op
  <2>1. b(i) \in Block
    OBVIOUS
  <2>2. QED
    BY <2>1 DEF Block, CallRecord
<1>3. q = [i \in 1..Len(coreQueue) |-> f(i)]
  BY <1>1 DEF ForgottenBlocks
<1>4. q \in Seq(Block)
  <2> HIDE DEF f
  <2> QED
    BY <1>1, <1>2, <1>3
<1>5. QED
  <2> HIDE DEF f
  <2> QED
    BY <1>1, <1>2, <1>3, <1>4

LEMMA Invalidating ==
  ASSUME NEW c, NEW w \in Seq(CallRecord)
  PROVE  Invalidated(c, w) \in Seq(CallRecord)
BY CallTypes DEF Invalidated

-----------------------------------------------------------------------------
(* A loop thread that moves from one place to another. *)
Moves(c) == \E place \in Places \ {"unborn"}, w \in Seq(CallRecord) : GoTo(c, place, w)

LEMMA Resuming ==
  ASSUME NEW c \in Sessions, NEW ok, NEW by, NEW w \in Seq(CallRecord), Resume(c, ok, by, w)
  PROVE  Moves(c)
<1> USE Invalidating DEF Moves, Places, Waits, AwaitedOp
<1>1. ASSUME LoadFailed(c, w) PROVE Moves(c)
  BY <1>1 DEF LoadFailed
<1>2. ASSUME Restoring(c, w) PROVE Moves(c)
  BY <1>2 DEF Restoring
<1>3. ASSUME Optioning(c, w) PROVE Moves(c)
  BY <1>2, <1>3 DEF Optioning
<1>4. ASSUME Closing(c, w) PROVE Moves(c)
  BY <1>4 DEF Closing
<1>5. ASSUME \/ GoTo(c, "attach", w) \/ GoTo(c, "armed", w) \/ GoTo(c, "exited", Invalidated(c, w))
      PROVE  Moves(c)
  BY <1>5
<1>6. QED
  BY <1>1, <1>2, <1>3, <1>4, <1>5 DEF Resume

LEMMA MovingIInv ==
  ASSUME IInv, NEW c \in Sessions, Running(c), Moves(c),
         coreQueue' \in Seq(Block), DOMAIN coreQueue' = DOMAIN coreQueue,
         \A i \in DOMAIN coreQueue : coreQueue'[i].from = coreQueue[i].from
                                     /\ coreQueue'[i].call.op = coreQueue[i].call.op,
         UNCHANGED <<core, session, game, main, next>>
  PROVE  IInv'
<1>1. PICK place \in Places \ {"unborn"} : \E w \in Seq(CallRecord) : GoTo(c, place, w)
  BY DEF Moves
<1>2. PICK w \in Seq(CallRecord) : GoTo(c, place, w)
  BY <1>1
<1>3. pc' = [pc EXCEPT ![c] = place]
  BY <1>2 DEF GoTo
<1>4. wire' \in [Conns -> Seq(CallRecord)] /\ \A d \in Conns \ {c} : wire'[d] = wire[d]
  <2>1. (IF place \in Waits THEN Append(w, Call(AwaitedOp[place])) ELSE w) \in Seq(CallRecord)
    BY CallTypes
  <2>2. wire' = [wire EXCEPT ![c] = IF place \in Waits THEN Append(w, Call(AwaitedOp[place])) ELSE w]
    BY <1>2 DEF GoTo
  <2>3. QED
    BY <2>1, <2>2 DEF IInv, CoreTypes
<1>5. CoreTypes'
  BY <1>4 DEF IInv, CoreTypes
<1>6. OnlyGamesPlay'
  BY <1>4 DEF IInv, OnlyGamesPlay
<1>7. SessionIsLoaded'
  BY DEF IInv, SessionIsLoaded
<1>8. TurnsInv'
  BY <1>3 DEF IInv, TurnsInv, Running, Gone
<1>9. QED
  BY <1>5, <1>6, <1>7, <1>8 DEF IInv

(* A step that moves no thread, makes no call and changes no session. *)
LEMMA QuietIInv ==
  ASSUME IInv, UNCHANGED <<wire, coreQueue, core, session, pc, game, main, next>>
  PROVE  IInv'
BY DEF IInv, CoreTypes, OnlyGamesPlay, SessionIsLoaded, TurnsInv, Running, Gone
-----------------------------------------------------------------------------
(* The loop threads. *)

(* Every step of a loop thread is quiet or moves that thread, and leaves   *)
(* the helper and the main thread alone.                                   *)
LEMMA ThreadSteps ==
  ASSUME IInv, NEW c \in Sessions, LoopThread(c)
  PROVE  /\ UNCHANGED <<core, session, game, main, next>>
         /\ \/ UNCHANGED <<wire, coreQueue, pc>>
            \/ /\ Running(c) /\ Moves(c)
               /\ coreQueue' \in Seq(Block) /\ DOMAIN coreQueue' = DOMAIN coreQueue
               /\ \A i \in DOMAIN coreQueue :
                    coreQueue'[i].from = coreQueue[i].from
                    /\ coreQueue'[i].call.op = coreQueue[i].call.op
<1> DEFINE SameQueue ==
      /\ coreQueue' \in Seq(Block) /\ DOMAIN coreQueue' = DOMAIN coreQueue
      /\ \A i \in DOMAIN coreQueue :
           coreQueue'[i].from = coreQueue[i].from /\ coreQueue'[i].call.op = coreQueue[i].call.op
<1>1. wire[c] \in Seq(CallRecord) /\ coreQueue \in Seq(Block)
  BY ConnsAssumption DEF IInv, CoreTypes
<1>2. coreQueue' = coreQueue => SameQueue
  BY <1>1
<1>3. pc[c] \in Waits \union {"armed", "sending", "failed"} => Running(c)
  BY DEF Running, Gone, Waits, AwaitedOp
<1>4. CASE Answer(c)
  <2>1. \E ok, by : Resume(c, ok, by, wire[c])
    BY <1>4 DEF Answer
  <2>2. Moves(c)
    BY <1>1, <2>1, Resuming
  <2>3. QED
    BY <1>2, <1>3, <1>4, <2>2 DEF Answer, hostOnly, appVars
<1>5. CASE TimeOut(c)
  <2>1. PICK ops : /\ coreQueue' = ForgottenBlocks(c, ops)
                   /\ Resume(c, FALSE, None, Forgotten(wire[c], ops))
    BY <1>5 DEF TimeOut
  <2>2. Moves(c)
    BY <1>1, <2>1, GivenUp, Resuming
  <2>3. SameQueue
    BY <1>1, <2>1, BlocksGivenUp
  <2>4. QED
    BY <1>3, <1>5, <2>2, <2>3 DEF TimeOut, hostOnly, appVars
<1>6. CASE HandleRunReply(c) \/ ConnectionLost(c) \/ CallbackLost(c)
  BY <1>6 DEF HandleRunReply, ConnectionLost, CallbackLost, hostOnly, appVars, serviceVars
<1>7. CASE CallbackAlive(c)
  <2>1. GoTo(c, "sending", wire[c])
    BY <1>1, <1>7, ConnsAssumption
       DEF CallbackAlive, GoTo, serviceVars, Waits, AwaitedOp, IInv, CoreTypes
  <2>2. Moves(c)
    BY <1>1, <2>1 DEF Moves, Places
  <2>3. QED
    BY <1>2, <1>3, <1>7, <2>2 DEF CallbackAlive, serviceVars, appVars
<1>8. CASE SendBatch(c)
  <2>1. PICK w : w = (IF inFlight[c] THEN wire[c] ELSE Append(wire[c], Call("run"))) /\ Presenting(c, w)
    BY <1>8 DEF SendBatch
  <2>2. w \in Seq(CallRecord)
    BY <1>1, <2>1, CallTypes
  <2>3. Moves(c)
    BY <2>1, <2>2 DEF Presenting, Moves, Places, Waits, AwaitedOp
  <2>4. QED
    BY <1>2, <1>3, <1>8, <2>3 DEF SendBatch, hostOnly, appVars
<1>9. CASE PerformState(c)
  <2>1. Moves(c)
    BY <1>1, <1>9 DEF PerformState, Moves, Places, Waits, AwaitedOp
  <2>2. QED
    BY <1>2, <1>3, <1>9, <2>1 DEF PerformState, hostOnly, appVars
<1>10. CASE TearDown(c)
  <2>1. Moves(c)
    BY <1>1, <1>10, Invalidating DEF TearDown, Ending, Closing, Moves, Places, Waits, AwaitedOp
  <2>2. QED
    BY <1>2, <1>3, <1>10, <2>1 DEF TearDown, hostOnly, appVars
<1>11. QED
  BY <1>4, <1>5, <1>6, <1>7, <1>8, <1>9, <1>10 DEF LoopThread

LEMMA ThreadIInv == ASSUME IInv, NEW c \in Sessions, LoopThread(c) PROVE IInv'
BY ThreadSteps, MovingIInv, QuietIInv

-----------------------------------------------------------------------------
(* The main thread. *)

LEMMA StopsFirstIInv ==
  ASSUME IInv, (\E c \in Sessions : StartGame(c)) \/ StopGame \/ HandleLoss
  PROVE  IInv'
<1>1. /\ UNCHANGED <<wire, coreQueue, core, session, pc, game>>
      /\ next' # None => main' = "stopping" /\ pc[next'] = "unborn" /\ next' \in Sessions
  BY DEF StartGame, StopGame, HandleLoss, serviceVars, clientVars
<1>2. CoreTypes' /\ OnlyGamesPlay' /\ SessionIsLoaded'
  BY <1>1 DEF IInv, CoreTypes, OnlyGamesPlay, SessionIsLoaded
<1>3. TurnsInv'
  BY <1>1 DEF IInv, TurnsInv, Running, Gone
<1>4. QED
  BY <1>2, <1>3 DEF IInv

LEMMA ReplaceIInv == ASSUME IInv, Replace PROVE IInv'
<1> USE NoneAssumption
<1>1. PICK released : Replaced(released)
  BY DEF Replace
<1>2. \A c \in Sessions : ~Running(c)
  BY DEF IInv, TurnsInv, Replace, Running
<1>3. PICK freed : /\ freed = IF released THEN [wire EXCEPT ![game] = Invalidated(game, @)] ELSE wire
                   /\ wire' = IF next = None THEN freed ELSE [freed EXCEPT ![next] = <<Call("open")>>]
                   /\ pc' = IF next = None THEN pc ELSE [pc EXCEPT ![next] = "open"]
                   /\ game' = next /\ next' = None
                   /\ UNCHANGED <<coreQueue, core, session>>
  BY <1>1 DEF Replaced, hostOnly
<1>4. freed \in [Conns -> Seq(CallRecord)] /\ \A d \in Conns \ Sessions : freed[d] = wire[d]
  <2>1. CASE game \in Sessions
    <3>1. Invalidated(game, wire[game]) \in Seq(CallRecord)
      BY <2>1, Invalidating, ConnsAssumption DEF IInv, CoreTypes
    <3>2. QED
      BY <1>3, <2>1, <3>1 DEF IInv, CoreTypes
  <2>2. CASE game = None
    BY <1>3, <2>2, ConnsAssumption DEF IInv, CoreTypes
  <2>3. QED
    BY <2>1, <2>2 DEF IInv, TurnsInv
<1>5. wire' \in [Conns -> Seq(CallRecord)] /\ \A d \in Conns \ Sessions : wire'[d] = wire[d]
  <2>1. <<Call("open")>> \in Seq(CallRecord)
    BY CallTypes
  <2>2. QED
    BY <1>3, <1>4, <2>1 DEF IInv, TurnsInv
<1>6. CoreTypes' /\ OnlyGamesPlay' /\ SessionIsLoaded'
  BY <1>3, <1>5 DEF IInv, CoreTypes, OnlyGamesPlay, SessionIsLoaded
<1>7. TurnsInv'
  BY <1>2, <1>3 DEF IInv, TurnsInv, Running, Gone, Places, Waits, AwaitedOp
<1>8. QED
  BY <1>6, <1>7 DEF IInv

LEMMA ProbeIInv == ASSUME IInv, StartProbe \/ FinishProbe PROVE IInv'
<1>1. /\ UNCHANGED <<coreQueue, core, session, pc, game, main, next>>
      /\ Probe \notin Sessions
  BY ProbeAssumption, NoneAssumption DEF StartProbe, FinishProbe, hostOnly, clientVars
<1>2. wire \in [Conns -> Seq(CallRecord)]
  BY DEF IInv, CoreTypes
<1>3. PICK w : wire' = [wire EXCEPT ![Probe] = w] /\ w \in {<<Call("probe")>>, Invalidated(Probe, wire[Probe])}
  BY DEF StartProbe, FinishProbe
<1>4. CASE Probe \in Conns
  <2>1. /\ w \in Seq(CallRecord)
        /\ \A i \in DOMAIN w : w[i].op \in {"probe", "invalidate"}
    <3>1. CASE w = <<Call("probe")>>
      <4>1. <<Call("probe")>> \in Seq(CallRecord) /\ \A i \in DOMAIN <<Call("probe")>> : <<Call("probe")>>[i].op = "probe"
        BY CallTypes DEF Call
      <4>2. QED
        BY <3>1, <4>1
    <3>2. CASE w = Invalidated(Probe, wire[Probe])
      <4>1. wire[Probe] \in Seq(CallRecord) /\ Notice("invalidate") \in CallRecord
            /\ Notice("invalidate").op = "invalidate"
            /\ \A i \in DOMAIN wire[Probe] : wire[Probe][i].op \in {"probe", "invalidate"}
        BY <1>1, <1>2, <1>4, CallTypes DEF Notice, IInv, OnlyGamesPlay
      <4>2. CASE w = wire[Probe]
        BY <4>1, <4>2
      <4>3. CASE w = Append(wire[Probe], Notice("invalidate"))
        <5>1. \A i \in DOMAIN w :
                 \/ i = Len(wire[Probe]) + 1 /\ w[i] = Notice("invalidate")
                 \/ i \in DOMAIN wire[Probe] /\ w[i] = wire[Probe][i]
          <6>1. PICK q \in Seq(CallRecord) : q = wire[Probe]
            BY <4>1
          <6>2. PICK x \in CallRecord : x = Notice("invalidate")
            BY <4>1
          <6>3. \A i \in DOMAIN Append(q, x) :
                   \/ i = Len(q) + 1 /\ Append(q, x)[i] = x
                   \/ i \in DOMAIN q /\ Append(q, x)[i] = q[i]
            BY Appending
          <6>4. QED
            BY <4>3, <6>1, <6>2, <6>3
        <5>2. w \in Seq(CallRecord)
          BY <4>1, <4>3
        <5>3. QED
          BY <4>1, <5>1, <5>2
      <4>4. QED
        BY <3>2, <4>2, <4>3 DEF Invalidated
    <3>3. QED
      BY <1>3, <3>1, <3>2
  <2>2. CoreTypes'
    BY <1>1, <1>2, <1>3, <2>1 DEF IInv, CoreTypes
  <2>3. OnlyGamesPlay'
    BY <1>1, <1>2, <1>3, <1>4, <2>1 DEF IInv, OnlyGamesPlay
  <2>4. SessionIsLoaded' /\ TurnsInv'
    BY <1>1 DEF IInv, SessionIsLoaded, TurnsInv, Running, Gone
  <2>5. QED
    BY <2>2, <2>3, <2>4 DEF IInv
<1>5. CASE Probe \notin Conns
  BY <1>1, <1>2, <1>3, <1>5, QuietIInv
<1>6. QED
  BY <1>4, <1>5

LEMMA AppIInv == ASSUME IInv, App PROVE IInv'
BY StopsFirstIInv, ReplaceIInv, ProbeIInv DEF App
-----------------------------------------------------------------------------
(* The helper. *)

LEMMA DeliverIInv ==
  ASSUME IInv, NEW c \in Conns, Deliver(c), UNCHANGED <<pc, game, main, next>>
  PROVE  IInv'
<1>1. wire \in [Conns -> Seq(CallRecord)] /\ coreQueue \in Seq(Block) /\ wire[c] # <<>>
  BY DEF IInv, CoreTypes, Deliver
<1>2. wire[c] \in Seq(CallRecord)
  BY <1>1
<1>3. PICK b : /\ b = [from |-> c, call |-> IF Head(wire[c]).op = "invalidate" THEN Notice("close") ELSE Head(wire[c])]
               /\ coreQueue' = Append(coreQueue, b)
  BY DEF Deliver
<1>4. b \in Block /\ (c \in Sessions \/ b.call.op \in {"probe", "close"}) /\ b.from = c
  <2>1. Head(wire[c]) \in CallRecord /\ 1 \in DOMAIN wire[c] /\ Head(wire[c]) = wire[c][1]
    BY <1>1, <1>2, TakingOne
  <2>2. Notice("close") \in CallRecord /\ Notice("close").op = "close"
    BY CallTypes DEF Notice
  <2>3. c \in Sessions \/ Head(wire[c]).op \in {"probe", "invalidate"}
    BY <2>1 DEF IInv, OnlyGamesPlay
  <2>4. QED
    BY <1>3, <2>1, <2>2, <2>3 DEF Block
<1>5. wire' = [wire EXCEPT ![c] = Tail(wire[c])] /\ UNCHANGED <<core, session>>
  BY DEF Deliver, hostVars
<1>6. /\ Tail(wire[c]) \in Seq(CallRecord)
      /\ \A i \in DOMAIN Tail(wire[c]) : i + 1 \in DOMAIN wire[c] /\ Tail(wire[c])[i] = wire[c][i + 1]
  BY <1>1, <1>2, TakingOne
<1>7. /\ coreQueue' \in Seq(Block)
      /\ \A i \in DOMAIN coreQueue' :
           \/ coreQueue'[i] = b
           \/ i \in DOMAIN coreQueue /\ coreQueue'[i] = coreQueue[i]
  BY <1>1, <1>3, <1>4, Appending
<1>8. CoreTypes'
  BY <1>1, <1>5, <1>6, <1>7 DEF IInv, CoreTypes
<1>9. OnlyGamesPlay'
  <2>1. ASSUME NEW d \in Conns \ Sessions, NEW i \in DOMAIN wire'[d]
        PROVE  wire'[d][i].op \in {"probe", "invalidate"}
    <3>1. CASE d = c
      BY <1>1, <1>5, <1>6, <2>1, <3>1 DEF IInv, OnlyGamesPlay
    <3>2. CASE d # c
      BY <1>1, <1>5, <2>1, <3>2 DEF IInv, OnlyGamesPlay
    <3>3. QED
      BY <3>1, <3>2
  <2>2. ASSUME NEW i \in DOMAIN coreQueue'
        PROVE  coreQueue'[i].from \in Sessions \/ coreQueue'[i].call.op \in {"probe", "close"}
    BY <1>4, <1>7, <2>2 DEF IInv, OnlyGamesPlay
  <2>3. QED
    BY <2>1, <2>2 DEF OnlyGamesPlay
<1>10. SessionIsLoaded' /\ TurnsInv'
  BY <1>5 DEF IInv, SessionIsLoaded, TurnsInv, Running, Gone
<1>11. QED
  BY <1>8, <1>9, <1>10 DEF IInv

(* A block leaves a loaded session, or none, in the service. *)
LEMMA BlockKeepsSession ==
  ASSUME IInv, NEW c \in Conns, Execute(c)
  PROVE  /\ core' \in CoreStates /\ session' \in Sessions \union {None} /\ SessionIsLoaded'
         /\ coreQueue # <<>> /\ coreQueue' = Tail(coreQueue) /\ wire' = wire
<1> USE NoneAssumption DEF Reply
<1>1. core \in CoreStates /\ session \in Sessions \union {None} /\ SessionIsLoaded
  BY DEF IInv, CoreTypes
<1>2. CASE OpenConstructs(c)
  <2>1. c \in Sessions
    <3>1. coreQueue # <<>> /\ Head(coreQueue).from = c /\ Head(coreQueue).call.op = "open"
      BY <1>2 DEF OpenConstructs, NextBlock
    <3>2. 1 \in DOMAIN coreQueue /\ Head(coreQueue) = coreQueue[1]
      BY <3>1, TakingOne DEF IInv, CoreTypes
    <3>3. QED
      BY <3>1, <3>2 DEF IInv, OnlyGamesPlay
  <2>2. session = None
    BY <1>1, <1>2 DEF OpenConstructs, SlotIsFree, SessionIsLoaded
  <2>3. PICK outcome \in LoadOutcomes :
          /\ core' = AfterLoad(Constructed(core, c), c, outcome)
          /\ session' = IF outcome = "loaded" THEN c ELSE session
    BY <1>2 DEF OpenConstructs
  <2>4. core' \in CoreStates /\ (outcome = "loaded" => core'.current = c /\ core'.phase[c] = "loaded")
    BY <1>1, <2>1, <2>3 DEF AfterLoad, Constructed, CoreStates, LoadOutcomes, Phases
  <2>5. QED
    BY <1>2, <2>1, <2>2, <2>3, <2>4 DEF SessionIsLoaded, OpenConstructs, NextBlock
<1>3. CASE CloseSession(c)
  <2>1. core' \in CoreStates
    BY <1>1, <1>3 DEF CloseSession, ShutDown, CoreStates, Phases
  <2>2. QED
    BY <1>3, <2>1 DEF CloseSession, NextBlock, SessionIsLoaded
<1>4. CASE OpenFailsStaging(c) \/ OpenFailsConstructing(c) \/ AttachFrameSurface(c)
           \/ RunFramesShared(c) \/ QuerySession(c)
  BY <1>1, <1>4 DEF OpenFailsStaging, OpenFailsConstructing, AttachFrameSurface, RunFramesShared,
     QuerySession, NextBlock, SessionIsLoaded, hostVars
<1>5. QED
  BY <1>2, <1>3, <1>4 DEF Execute, OpenSession

LEMMA ExecuteIInv ==
  ASSUME IInv, NEW c \in Conns, Execute(c), UNCHANGED <<pc, game, main, next>>
  PROVE  IInv'
<1>1. /\ core' \in CoreStates /\ session' \in Sessions \union {None} /\ SessionIsLoaded'
      /\ coreQueue # <<>> /\ coreQueue' = Tail(coreQueue) /\ wire' = wire
  BY BlockKeepsSession
<1>2. /\ coreQueue' \in Seq(Block)
      /\ \A i \in DOMAIN coreQueue' : i + 1 \in DOMAIN coreQueue /\ coreQueue'[i] = coreQueue[i + 1]
  BY <1>1, TakingOne DEF IInv, CoreTypes
<1>3. CoreTypes'
  BY <1>1, <1>2 DEF IInv, CoreTypes
<1>4. OnlyGamesPlay'
  BY <1>1, <1>2 DEF IInv, OnlyGamesPlay
<1>5. TurnsInv'
  BY DEF IInv, TurnsInv, Running, Gone
<1>6. QED
  BY <1>1, <1>3, <1>4, <1>5 DEF IInv

LEMMA CrashIInv == ASSUME IInv, Crash, UNCHANGED <<pc, game, main, next>> PROVE IInv'
<1>1. CoreTypes' /\ OnlyGamesPlay' /\ SessionIsLoaded'
  BY NoneAssumption DEF Crash, CoreTypes, OnlyGamesPlay, SessionIsLoaded, NoCore, CoreStates, Phases
<1>2. TurnsInv'
  BY DEF IInv, TurnsInv, Running, Gone
<1>3. QED
  BY <1>1, <1>2 DEF IInv

-----------------------------------------------------------------------------
(* The invariant. *)

LEMMA InitIInv == Init => IInv
<1> SUFFICES ASSUME Init PROVE IInv
  OBVIOUS
<1> USE NoneAssumption DEF Init, HostInit
<1>1. CoreTypes /\ OnlyGamesPlay /\ SessionIsLoaded
  BY DEF CoreTypes, OnlyGamesPlay, SessionIsLoaded, NoCore, CoreStates, Phases
<1>2. TurnsInv
  BY DEF TurnsInv, Running, Places
<1>3. QED
  BY <1>1, <1>2 DEF IInv

LEMMA StepIInv == ASSUME IInv, [Next]_vars PROVE IInv'
<1>1. ASSUME HostNext, UNCHANGED <<clientVars, appVars, stored>> PROVE IInv'
  BY <1>1, DeliverIInv, ExecuteIInv, CrashIInv DEF HostNext, clientVars, appVars
<1>2. ASSUME UNCHANGED vars PROVE IInv'
  BY <1>2, QuietIInv DEF vars, serviceVars, clientVars, appVars
<1>3. QED
  BY <1>1, <1>2, ThreadIInv, AppIInv DEF Next

(* IInv is an invariant of the games the helper hosts. *)
THEOREM Inductive == Spec => []IInv
BY InitIInv, StepIInv, PTL DEF Spec

(* No call reaches a core that is not loaded, with any number of games,    *)
(* probes and crashes.                                                     *)
THEOREM SessionAlwaysLoaded == Spec => []SessionIsLoaded
BY Inductive, PTL DEF IInv
-----------------------------------------------------------------------------
(* Games take turns. *)

LEMMA StepsTakeTurns == ASSUME IInv, [Next]_vars PROVE [Lifecycle!Next]_(Lifecycle!vars)
<1> DEFINE running == {c \in Sessions : Running(c)}
           over == {c \in Sessions : Gone(c)}
<1> USE NoneAssumption DEF Lifecycle!Next, Lifecycle!vars
<1>1. pc \in [Sessions -> Places] /\ \A c \in Sessions : Running(c) => game = c
  BY DEF IInv, TurnsInv
<1>2. ASSUME UNCHANGED <<pc, game>> PROVE [Lifecycle!Next]_(Lifecycle!vars)
  BY <1>2 DEF Running, Gone
<1>3. ASSUME NEW c \in Sessions, Running(c), Moves(c), game' = game
      PROVE  [Lifecycle!Next]_(Lifecycle!vars)
  <2>1. PICK place \in Places \ {"unborn"} : pc' = [pc EXCEPT ![c] = place]
    BY <1>3 DEF Moves, GoTo
  <2>2. running = {c}
    BY <1>1, <1>3
  <2>3. CASE place \in {"stranded", "exited"}
    <3>1. running' = {} /\ over' = over \union {c}
      BY <1>1, <1>3, <2>1, <2>2, <2>3 DEF Running, Gone
    <3>2. Lifecycle!End(c)
      BY <1>3, <2>2, <3>1 DEF Lifecycle!End
    <3>3. QED
      BY <3>2
  <2>4. CASE place \notin {"stranded", "exited"}
    BY <1>1, <1>3, <2>1, <2>4 DEF Running, Gone
  <2>5. QED
    BY <2>3, <2>4
<1>4. ASSUME NEW c \in Sessions, LoopThread(c) PROVE [Lifecycle!Next]_(Lifecycle!vars)
  BY <1>2, <1>3, <1>4, ThreadSteps
<1>5. ASSUME Replace PROVE [Lifecycle!Next]_(Lifecycle!vars)
  <2>1. running = {}
    BY <1>1, <1>5 DEF Replace, Running
  <2>2. CASE next = None
    <3>1. pc' = pc /\ game' = None
      BY <1>5, <2>2 DEF Replace, Replaced
    <3>2. Lifecycle!Close
      BY <2>1, <3>1 DEF Lifecycle!Close, Running, Gone
    <3>3. QED
      BY <3>2
  <2>3. CASE next # None
    <3>1. pc[next] = "unborn" /\ next \in Sessions
      BY <2>3 DEF IInv, TurnsInv
    <3>2. pc' = [pc EXCEPT ![next] = "open"] /\ game' = next
      BY <1>5, <2>3 DEF Replace, Replaced
    <3>3. running' = {next} /\ over' = over
      BY <1>1, <2>1, <3>1, <3>2 DEF Running, Gone
    <3>4. Lifecycle!Launch(next)
      BY <2>1, <3>1, <3>2, <3>3 DEF Lifecycle!Launch, Gone
    <3>5. QED
      BY <3>1, <3>4
  <2>4. QED
    BY <2>2, <2>3
<1>6. ASSUME App, ~Replace PROVE [Lifecycle!Next]_(Lifecycle!vars)
  BY <1>2, <1>6 DEF App, StartGame, StopGame, HandleLoss, StartProbe, FinishProbe, clientVars
<1>7. QED
  BY <1>2, <1>4, <1>5, <1>6 DEF Next, vars, clientVars, appVars

(* Games hosted by the helper take turns, whatever is lost or late. *)
THEOREM TurnsTaken == Spec => GamesTakeTurns
<1>1. Init => Lifecycle!Init
  BY DEF Init, Lifecycle!Init, Running, Gone
<1>2. IInv /\ [Next]_vars => [Lifecycle!Next]_(Lifecycle!vars)
  BY StepsTakeTurns
<1>3. QED
  BY <1>1, <1>2, Inductive, PTL DEF Spec, GamesTakeTurns, Lifecycle!Spec

-----------------------------------------------------------------------------
(* Where the batches are in what a step makes of a queue. *)

(* S has no more members than T, as far as none and one go. *)
Fewer(S, T) == (T = {} => S = {}) /\ (Single(T) => Single(S))

LEMMA AppendedRuns ==
  ASSUME NEW S, NEW q \in Seq(S), NEW x \in S
  PROVE  /\ Append(q, x) \in Seq(S) /\ Append(q, x) # <<>>
         /\ Runs(Append(q, x)) = Runs(q) \union (IF x.op = "run" THEN {Len(q) + 1} ELSE {})
         /\ \A i \in DOMAIN q : i # Len(q) + 1 /\ Append(q, x)[i] = q[i]
         /\ Append(q, x)[Len(q) + 1] = x
         /\ q # <<>> => Head(Append(q, x)) = Head(q)
BY DEF Runs

LEMMA TailRuns ==
  ASSUME NEW S, NEW q \in Seq(S), q # <<>>
  PROVE  /\ \A i \in Runs(Tail(q)) : i + 1 \in Runs(q) /\ Tail(q)[i] = q[i + 1] /\ i \in Nat
         /\ Fewer(Runs(Tail(q)), Runs(q))
         /\ Head(q).op = "run" => 1 \in Runs(q) /\ Head(q) = q[1]
         /\ Head(q).op = "run" /\ Single(Runs(q)) => Runs(Tail(q)) = {}
<1>1. \A i \in Runs(Tail(q)) : i + 1 \in Runs(q) /\ Tail(q)[i] = q[i + 1] /\ i \in Nat /\ i + 1 # 1
  BY DEF Runs
<1>2. Fewer(Runs(Tail(q)), Runs(q))
  BY <1>1 DEF Fewer, Single
<1>3. Head(q).op = "run" => 1 \in Runs(q) /\ Head(q) = q[1]
  BY DEF Runs
<1>4. QED
  BY <1>1, <1>2, <1>3 DEF Single

LEMMA CutAt ==
  ASSUME NEW S, NEW q \in Seq(S), NEW n \in Nat, n = Len(q), NEW x \in 1..n
  PROVE  /\ RemoveAt(q, x) \in Seq(S) /\ Len(RemoveAt(q, x)) = n - 1
         /\ \A k \in 1..(n - 1) : RemoveAt(q, x)[k] = IF k < x THEN q[k] ELSE q[k + 1]
<1>1. PICK a \in Seq(S) : a = SubSeq(q, 1, x - 1) /\ Len(a) = x - 1 /\ \A k \in 1..(x - 1) : a[k] = q[k]
  <2>1. PICK m \in 0..(n - 1) : m = x - 1
    OBVIOUS
  <2>2. SubSeq(q, 1, m) \in Seq(S) /\ Len(SubSeq(q, 1, m)) = m /\ \A k \in 1..m : SubSeq(q, 1, m)[k] = q[k]
    OBVIOUS
  <2>3. QED
    BY <2>1, <2>2
<1>2. PICK b \in Seq(S) : b = SubSeq(q, x + 1, n) /\ Len(b) = n - x /\ \A k \in 1..(n - x) : b[k] = q[x + k]
  <2>1. DOMAIN q = 1..n /\ \A k \in 1..(n - x) : x + k \in 1..n
    OBVIOUS
  <2>2. /\ SubSeq(q, x + 1, n) \in Seq(S) /\ Len(SubSeq(q, x + 1, n)) = n - x
        /\ \A k \in 1..(n - x) : SubSeq(q, x + 1, n)[k] = q[x + k]
    BY <2>1
  <2>3. QED
    BY <2>2
<1>3. /\ a \o b \in Seq(S) /\ Len(a \o b) = n - 1
      /\ \A k \in 1..(n - 1) : (a \o b)[k] = IF k < x THEN a[k] ELSE b[k - (x - 1)]
  <2>1. Len(a) = x - 1 /\ Len(b) = n - x
    BY <1>1, <1>2
  <2>2. QED
    BY <2>1
<1>4. RemoveAt(q, x) = a \o b
  BY <1>1, <1>2 DEF RemoveAt
<1>5. ASSUME NEW k \in 1..(n - 1) PROVE (a \o b)[k] = IF k < x THEN q[k] ELSE q[k + 1]
  <2>1. CASE k < x
    BY <1>1, <1>3, <2>1
  <2>2. CASE k >= x
    <3>1. PICK l \in 1..(n - x) : l = k - (x - 1) /\ x + l = k + 1
      BY <2>2
    <3>2. QED
      BY <1>2, <1>3, <2>2, <3>1
  <2>3. k < x \/ k >= x
    OBVIOUS
  <2>4. QED
    BY <2>1, <2>2, <2>3
<1>6. QED
  BY <1>3, <1>4, <1>5

LEMMA Removing ==
  ASSUME NEW S, NEW q \in Seq(S), NEW i \in DOMAIN q
  PROVE  /\ RemoveAt(q, i) \in Seq(S)
         /\ \A k \in DOMAIN RemoveAt(q, i) :
              \/ k < i /\ k \in DOMAIN q /\ RemoveAt(q, i)[k] = q[k]
              \/ k >= i /\ k + 1 \in DOMAIN q /\ RemoveAt(q, i)[k] = q[k + 1]
         /\ i # 1 => RemoveAt(q, i) # <<>> /\ Head(RemoveAt(q, i)) = Head(q)
<1>1. PICK n \in Nat : n = Len(q) /\ DOMAIN q = 1..n
  OBVIOUS
<1>2. PICK x \in 1..n : x = i
  BY <1>1
<1>3. PICK r \in Seq(S) :
        /\ r = RemoveAt(q, x) /\ Len(r) = n - 1
        /\ \A k \in 1..(n - 1) : r[k] = IF k < x THEN q[k] ELSE q[k + 1]
  <2>1. /\ RemoveAt(q, x) \in Seq(S) /\ Len(RemoveAt(q, x)) = n - 1
        /\ \A k \in 1..(n - 1) : RemoveAt(q, x)[k] = IF k < x THEN q[k] ELSE q[k + 1]
    BY <1>1, <1>2, CutAt, Zenon
  <2>2. QED
    BY <2>1
<1>4. DOMAIN r = 1..(n - 1)
  BY <1>1, <1>3
<1>5. \A k \in 1..(n - 1) : k \in 1..n /\ k + 1 \in 1..n /\ (k < x \/ k >= x)
  OBVIOUS
<1>6. x # 1 => 1 \in 1..(n - 1) /\ 1 < x /\ r # <<>> /\ Head(r) = r[1] /\ Head(q) = q[1]
  BY <1>1, <1>3, <1>4
<1>7. QED
  BY <1>1, <1>2, <1>3, <1>4, <1>5, <1>6

(* A reply that goes unheard takes no batch with it. *)
LEMMA UnheardRuns ==
  ASSUME NEW S, NEW q \in Seq(S), NEW ops, "run" \notin ops
  PROVE  /\ Unheard(q, ops) \in Seq(S)
         /\ \A i \in DOMAIN Unheard(q, ops) : \E j \in DOMAIN q : Unheard(q, ops)[i] = q[j]
         /\ \A i \in Runs(Unheard(q, ops)) : \E j \in Runs(q) : Unheard(q, ops)[i] = q[j]
         /\ Fewer(Runs(Unheard(q, ops)), Runs(q))
         /\ q # <<>> /\ Head(q).op = "run" =>
              Unheard(q, ops) # <<>> /\ Head(Unheard(q, ops)) = Head(q)
<1> DEFINE late == {i \in DOMAIN q : q[i].op \in ops}
<1>1. CASE late = {}
  BY <1>1 DEF Unheard, Fewer
<1>2. CASE late # {}
  <2>1. PICK i : i = (CHOOSE k \in late : TRUE)
    BY Zenon
  <2>2. i \in DOMAIN q /\ q[i].op # "run"
    BY <1>2, <2>1
  <2>3. Unheard(q, ops) = RemoveAt(q, i)
    BY <1>2, <2>1 DEF Unheard
  <2>4. PICK r \in Seq(S) : r = RemoveAt(q, i)
    BY <2>2, Removing
  <2>5. \A k \in DOMAIN r :
          \/ k < i /\ k \in DOMAIN q /\ r[k] = q[k]
          \/ k >= i /\ k + 1 \in DOMAIN q /\ r[k] = q[k + 1]
    BY <2>2, <2>4, Removing
  <2>6. i # 1 => r # <<>> /\ Head(r) = Head(q)
    BY <2>2, <2>4, Removing
  <2>7. \A k \in DOMAIN r : k \in Nat
    OBVIOUS
  <2>8. \A k, l \in Runs(r) : \E m, n \in Runs(q) : r[k] = q[m] /\ r[l] = q[n] /\ (m = n => k = l)
    BY <2>2, <2>5, <2>7 DEF Runs
  <2>9. Fewer(Runs(r), Runs(q))
    BY <2>8 DEF Fewer, Single
  <2>10. \A k \in DOMAIN r : \E j \in DOMAIN q : r[k] = q[j]
    BY <2>5
  <2>11. q # <<>> /\ Head(q).op = "run" => i # 1
    BY <2>2
  <2>12. QED
    BY <2>3, <2>4, <2>6, <2>8, <2>9, <2>10, <2>11
<1>3. QED
  BY <1>1, <1>2

(* A loop thread that moves on makes no batch of it. *)
Goes(c, place, w) ==
  /\ pc' = [pc EXCEPT ![c] = place]
  /\ \E v \in Seq(CallRecord) : wire' = [wire EXCEPT ![c] = v] /\ Runs(v) = Runs(w)

LEMMA OtherCalls ==
  ASSUME NEW w \in Seq(CallRecord), NEW x \in CallRecord, x.op # "run"
  PROVE  Append(w, x) \in Seq(CallRecord) /\ Runs(Append(w, x)) = Runs(w)
<1>1. /\ Append(w, x) \in Seq(CallRecord)
      /\ Runs(Append(w, x)) = Runs(w) \union (IF x.op = "run" THEN {Len(w) + 1} ELSE {})
  BY DEF Runs
<1>2. QED
  BY <1>1

LEMMA InvalidatedRuns ==
  ASSUME NEW c, NEW w \in Seq(CallRecord)
  PROVE  Invalidated(c, w) \in Seq(CallRecord) /\ Runs(Invalidated(c, w)) = Runs(w)
<1>1. PICK x \in CallRecord : x = Notice("invalidate") /\ x.op # "run"
  BY CallTypes DEF Notice
<1>2. Append(w, x) \in Seq(CallRecord) /\ Runs(Append(w, x)) = Runs(w)
  BY <1>1, OtherCalls, Zenon
<1>3. QED
  BY <1>1, <1>2 DEF Invalidated

LEMMA CalledRuns ==
  ASSUME NEW w \in Seq(CallRecord), NEW place \in Waits
  PROVE  /\ Append(w, Call(AwaitedOp[place])) \in Seq(CallRecord)
         /\ Runs(Append(w, Call(AwaitedOp[place]))) = Runs(w)
<1>1. PICK x \in CallRecord : x = Call(AwaitedOp[place]) /\ x.op # "run"
  BY CallTypes DEF Call, Waits, AwaitedOp
<1>2. Append(w, x) \in Seq(CallRecord) /\ Runs(Append(w, x)) = Runs(w)
  BY <1>1, OtherCalls, Zenon
<1>3. QED
  BY <1>1, <1>2

LEMMA GoesTo ==
  ASSUME NEW c, NEW place, NEW w \in Seq(CallRecord)
  PROVE  /\ GoTo(c, place, w) => Goes(c, place, w)
         /\ GoTo(c, place, Invalidated(c, w)) => Goes(c, place, w)
<1>1. ASSUME NEW u \in Seq(CallRecord), GoTo(c, place, u) PROVE Goes(c, place, u)
  <2>1. PICK v : v = IF place \in Waits THEN Append(u, Call(AwaitedOp[place])) ELSE u
    OBVIOUS
  <2>2. v \in Seq(CallRecord) /\ Runs(v) = Runs(u)
    BY <2>1, CalledRuns
  <2>3. pc' = [pc EXCEPT ![c] = place] /\ wire' = [wire EXCEPT ![c] = v]
    BY <1>1, <2>1 DEF GoTo
  <2>4. QED
    BY <2>2, <2>3 DEF Goes
<1>2. Goes(c, place, Invalidated(c, w)) => Goes(c, place, w)
  BY InvalidatedRuns DEF Goes
<1>3. QED
  BY <1>1, <1>2, InvalidatedRuns

(* What a thread that resumes does, for the sizes and the saves. *)
Resumes(c, ok, by, w) ==
  \E place \in Places :
    /\ Goes(c, place, w)
    /\ place \notin {"unborn", "open"} /\ (place = "attach" => pc[c] = "open")
    /\ \/ packed' = packed /\ (place \in Driving => pc[c] \in Driving)
       \/ pc[c] = "attach" /\ \E size \in Sizes : packed' = [packed EXCEPT ![c] = size]
    /\ stored' = stored \/ (ok /\ stored' = stored \union {<<c, by>>})

LEMMA ResumingEffect ==
  ASSUME NEW c \in Sessions, NEW ok, NEW by, NEW w \in Seq(CallRecord), Resume(c, ok, by, w)
  PROVE  Resumes(c, ok, by, w)
<1> USE GoesTo DEF Places, Waits, AwaitedOp, Driving
<1>1. ASSUME LoadFailed(c, w)
      PROVE  \E place \in {"failed", "stranded"} : Goes(c, place, w)
  BY <1>1 DEF LoadFailed
<1>2. ASSUME Restoring(c, w)
      PROVE  \E place \in {"restore", "armed"} : Goes(c, place, w)
  BY <1>2 DEF Restoring
<1>3. ASSUME Optioning(c, w)
      PROVE  \E place \in {"options", "restore", "armed"} : Goes(c, place, w)
  BY <1>2, <1>3 DEF Optioning
<1>4. ASSUME Closing(c, w)
      PROVE  \E place \in {"endClose", "exited"} : Goes(c, place, w)
  BY <1>4 DEF Closing
<1>5. CASE pc[c] = "open" /\ ((ok /\ GoTo(c, "attach", w)) \/ LoadFailed(c, w)) /\ UNCHANGED <<packed, stored>>
  <2>1. \E place \in {"attach", "failed", "stranded"} : Goes(c, place, w)
    BY <1>1, <1>5
  <2>2. QED
    BY <1>5, <2>1 DEF Resumes
<1>6. CASE pc[c] = "attach" /\ (\E size \in Sizes : packed' = [packed EXCEPT ![c] = size])
           /\ Optioning(c, w) /\ UNCHANGED stored
  BY <1>3, <1>6 DEF Resumes
<1>7. CASE pc[c] = "attach" /\ LoadFailed(c, w) /\ UNCHANGED <<packed, stored>>
  BY <1>1, <1>7 DEF Resumes
<1>8. CASE pc[c] = "options" /\ Restoring(c, w) /\ UNCHANGED <<packed, stored>>
  BY <1>2, <1>8 DEF Resumes
<1>9. CASE pc[c] \in {"restore", "serialize", "unserialize"} /\ GoTo(c, "armed", w)
           /\ UNCHANGED <<packed, stored>>
  <2>1. Goes(c, "armed", w)
    BY <1>9
  <2>2. QED
    BY <1>9, <2>1 DEF Resumes
<1>10. CASE /\ pc[c] \in {"flush", "endFlush"}
            /\ stored' = IF ok THEN stored \union {<<c, by>>} ELSE stored
            /\ IF pc[c] = "flush" THEN GoTo(c, "armed", w) ELSE Closing(c, w)
            /\ UNCHANGED packed
  <2>1. stored' = stored \/ (ok /\ stored' = stored \union {<<c, by>>})
    BY <1>10
  <2>2. CASE pc[c] = "flush"
    <3>1. Goes(c, "armed", w)
      BY <1>10, <2>2
    <3>2. QED
      BY <1>10, <2>1, <2>2, <3>1 DEF Resumes
  <2>3. CASE pc[c] = "endFlush"
    <3>1. PICK place \in {"endClose", "exited"} : Goes(c, place, w)
      BY <1>4, <1>10, <2>3
    <3>2. QED
      BY <1>10, <2>1, <3>1 DEF Resumes
  <2>4. QED
    BY <1>10, <2>2, <2>3
<1>11. CASE pc[c] = "endClose" /\ GoTo(c, "exited", Invalidated(c, w)) /\ UNCHANGED <<packed, stored>>
  <2>1. Goes(c, "exited", w)
    BY <1>11
  <2>2. QED
    BY <1>11, <2>1 DEF Resumes
<1>12. QED
  <2> HIDE DEF Places, Waits, AwaitedOp, Driving
  <2>1. QED
    BY <1>5, <1>6, <1>7, <1>8, <1>9, <1>10, <1>11 DEF Resume

-----------------------------------------------------------------------------
(* Types: of the replies, the helper, the threads and the app. *)

LEMMA FewerReplies ==
  ASSUME ReplyTypes, NEW c \in Conns, NEW q \in Seq(ReplyRecord),
         \A i \in DOMAIN q : \E j \in DOMAIN replies[c] : q[i] = replies[c][j],
         replies' = [replies EXCEPT ![c] = q]
  PROVE  ReplyTypes'
BY DEF ReplyTypes

LEMMA MoreReplies ==
  ASSUME ReplyTypes, NEW c \in Conns, NEW r \in ReplyRecord,
         r.op = "run" /\ r.ok => r.size # None,
         replies' = [replies EXCEPT ![c] = Append(@, r)]
  PROVE  ReplyTypes'
<1>1. PICK q \in Seq(ReplyRecord) : q = replies[c]
  BY DEF ReplyTypes
<1>2. /\ Append(q, r) \in Seq(ReplyRecord)
      /\ \A i \in DOMAIN Append(q, r) :
           \/ i = Len(q) + 1 /\ Append(q, r)[i] = r
           \/ i \in DOMAIN q /\ Append(q, r)[i] = q[i]
  BY Appending
<1>3. replies' = [replies EXCEPT ![c] = Append(q, r)]
  BY <1>1
<1>4. QED
  BY <1>1, <1>2, <1>3 DEF ReplyTypes

LEMMA ResumesTypes ==
  ASSUME IInv, ClientTypes, AppTypes, NEW c \in Sessions, NEW ok, NEW by, NEW w,
         Resumes(c, ok, by, w), ok => by \in Sessions \union {None},
         UNCHANGED <<alive, inFlight, handling, reported, appVars>>
  PROVE  ClientTypes' /\ AppTypes'
<1> USE ConnsAssumption
<1>1. PICK place \in Places :
        /\ pc' = [pc EXCEPT ![c] = place]
        /\ \/ packed' = packed /\ (place \in Driving => pc[c] \in Driving)
           \/ pc[c] = "attach" /\ \E size \in Sizes : packed' = [packed EXCEPT ![c] = size]
        /\ stored' = stored \/ (ok /\ stored' = stored \union {<<c, by>>})
  BY DEF Resumes, Goes
<1>2. pc \in [Sessions -> Places]
  BY DEF IInv, TurnsInv
<1>3. AppTypes'
  BY <1>1 DEF AppTypes, appVars
<1>4. \A d \in Sessions : d # c => pc'[d] = pc[d]
  BY <1>1, <1>2
<1>5. pc'[c] = place
  BY <1>1, <1>2
<1>6. CASE packed' = packed /\ (place \in Driving => pc[c] \in Driving)
  <2>1. \A d \in Sessions : pc'[d] \in Driving => pc[d] \in Driving
    BY <1>4, <1>5, <1>6, Zenon
  <2>2. QED
    BY <1>3, <1>6, <2>1 DEF ClientTypes
<1>7. CASE \E size \in Sizes : packed' = [packed EXCEPT ![c] = size]
  <2>1. PICK size \in Sizes : packed' = [packed EXCEPT ![c] = size]
    BY <1>7
  <2>2. size # None
    OBVIOUS
  <2>3. /\ packed' \in [Sessions -> Sizes \union {None}]
        /\ packed'[c] = size /\ \A d \in Sessions : d # c => packed'[d] = packed[d]
    BY <2>1 DEF ClientTypes
  <2>4. \A d \in Sessions : pc'[d] \in Driving => packed'[d] # None
    <3>1. \A d \in Sessions : pc[d] \in Driving => packed[d] # None
      BY DEF ClientTypes
    <3>2. QED
      BY <1>4, <2>2, <2>3, <3>1, Zenon
  <2>5. QED
    BY <1>3, <2>3, <2>4 DEF ClientTypes
<1>8. QED
  BY <1>1, <1>3, <1>6, <1>7

LEMMA ThreadTypes ==
  ASSUME IInv, TypeInv, NEW c \in Sessions, LoopThread(c)
  PROVE  TypeInv'
<1> USE ConnsAssumption
<1>1. ReplyTypes /\ HelperTypes /\ AppTypes /\ ClientTypes
  BY DEF TypeInv
<1>2. c \in Conns /\ wire[c] \in Seq(CallRecord) /\ pc \in [Sessions -> Places]
      /\ replies[c] \in Seq(ReplyRecord)
  BY <1>1 DEF IInv, CoreTypes, TurnsInv, ReplyTypes
<1>3. HelperTypes'
  <2>1. UNCHANGED <<peer, frameSurface, contentHandles, environment, drawn, crashes>>
    BY DEF LoopThread, Answer, TimeOut, HandleRunReply, ConnectionLost, CallbackAlive, CallbackLost,
           SendBatch, PerformState, TearDown, serviceVars, hostOnly
  <2>2. QED
    BY <1>1, <2>1 DEF HelperTypes
<1>4. replies[c] # <<>> =>
        /\ Head(replies[c]) \in ReplyRecord /\ Tail(replies[c]) \in Seq(ReplyRecord)
        /\ 1 \in DOMAIN replies[c] /\ Head(replies[c]) = replies[c][1]
        /\ \A i \in DOMAIN Tail(replies[c]) : \E j \in DOMAIN replies[c] : Tail(replies[c])[i] = replies[c][j]
  <2>1. PICK q \in Seq(ReplyRecord) : q = replies[c]
    BY <1>2
  <2>2. q # <<>> =>
        /\ Tail(q) \in Seq(ReplyRecord) /\ Head(q) \in ReplyRecord /\ 1 \in DOMAIN q /\ Head(q) = q[1]
        /\ \A i \in DOMAIN Tail(q) : i + 1 \in DOMAIN q /\ Tail(q)[i] = q[i + 1]
    BY TakingOne
  <2>3. QED
    BY <2>1, <2>2
<1>5. ASSUME replies' = replies \/ (replies[c] # <<>> /\ replies' = [replies EXCEPT ![c] = Tail(@)])
      PROVE  ReplyTypes'
  <2>1. CASE replies' = replies
    BY <1>1, <2>1 DEF ReplyTypes
  <2>2. CASE replies[c] # <<>> /\ replies' = [replies EXCEPT ![c] = Tail(@)]
    <3>1. PICK q \in Seq(ReplyRecord) : q = Tail(replies[c])
      BY <1>4, <2>2
    <3>2. \A i \in DOMAIN q : \E j \in DOMAIN replies[c] : q[i] = replies[c][j]
      BY <1>4, <2>2, <3>1
    <3>3. QED
      BY <1>1, <1>2, <2>2, <3>1, <3>2, FewerReplies
  <2>3. QED
    BY <1>5, <2>1, <2>2
<1>6. ASSUME NEW place, pc' = [pc EXCEPT ![c] = place], place \in Driving => pc[c] \in Driving,
             UNCHANGED <<alive, handling, reported, packed, appVars, stored>>,
             inFlight' \in [Sessions -> BOOLEAN]
      PROVE  ClientTypes' /\ AppTypes'
  <2>1. \A d \in Sessions : pc'[d] \in Driving => pc[d] \in Driving
    BY <1>2, <1>6
  <2>2. QED
    BY <1>1, <1>6, <2>1 DEF ClientTypes, AppTypes, appVars
<1>7. CASE Answer(c)
  <2>1. PICK r : /\ r = Head(replies[c]) /\ Resume(c, r.ok, r.by, wire[c]) /\ replies[c] # <<>>
                 /\ replies' = [replies EXCEPT ![c] = Tail(@)]
                 /\ UNCHANGED <<alive, inFlight, handling, reported, appVars>>
    BY <1>7 DEF Answer
  <2>2. r \in ReplyRecord
    BY <1>4, <2>1
  <2>3. r.by \in Sessions \union {None}
    BY <2>2 DEF ReplyRecord
  <2>4. Resumes(c, r.ok, r.by, wire[c])
    BY <1>2, <2>1, ResumingEffect
  <2>5. ClientTypes' /\ AppTypes'
    BY <1>1, <2>1, <2>3, <2>4, ResumesTypes
  <2>6. QED
    BY <1>3, <1>5, <2>1, <2>5 DEF TypeInv
<1>8. CASE TimeOut(c)
  <2>1. PICK ops : /\ ops = {AwaitedOp[pc[c]]} /\ pc[c] \in Waits
                   /\ replies' = [replies EXCEPT ![c] = Unheard(@, ops)]
                   /\ Resume(c, FALSE, None, Forgotten(wire[c], ops))
                   /\ UNCHANGED <<alive, inFlight, handling, reported, appVars>>
    BY <1>8 DEF TimeOut
  <2>2. "run" \notin ops
    BY <2>1 DEF Waits, AwaitedOp
  <2>3. PICK w \in Seq(CallRecord) : w = Forgotten(wire[c], ops)
    BY <1>2, GivenUp
  <2>4. Resumes(c, FALSE, None, w)
    BY <2>1, <2>3, ResumingEffect
  <2>5. ClientTypes' /\ AppTypes'
    BY <1>1, <2>1, <2>4, ResumesTypes
  <2>6. PICK q \in Seq(ReplyRecord) :
          q = Unheard(replies[c], ops) /\ \A i \in DOMAIN q : \E j \in DOMAIN replies[c] : q[i] = replies[c][j]
    BY <1>2, <2>2, UnheardRuns
  <2>7. ReplyTypes'
    BY <1>1, <1>2, <2>1, <2>6, FewerReplies
  <2>8. QED
    BY <1>3, <2>5, <2>7 DEF TypeInv
<1>9. CASE HandleRunReply(c)
  <2>1. PICK r \in ReplyRecord : r = Head(replies[c]) /\ r = replies[c][1] /\ 1 \in DOMAIN replies[c]
                                 /\ replies[c] # <<>> /\ r.op = "run"
    BY <1>4, <1>9 DEF HandleRunReply
  <2>2. (r.ok => r.size # None) /\ r.size \in Sizes \union {None}
    BY <1>1, <1>2, <2>1 DEF ReplyTypes, ReplyRecord
  <2>3. /\ packed' = packed \/ (r.ok /\ packed' = [packed EXCEPT ![c] = r.size])
        /\ inFlight' \in [Sessions -> BOOLEAN] /\ handling' \in [Sessions -> BOOLEAN]
        /\ replies' = replies \/ replies' = [replies EXCEPT ![c] = Tail(@)]
        /\ UNCHANGED <<pc, alive, reported, appVars, stored>>
    BY <1>1, <1>9, <2>1 DEF HandleRunReply, ClientTypes
  <2>4. /\ packed' \in [Sessions -> Sizes \union {None}]
        /\ \A d \in Sessions : packed[d] # None => packed'[d] # None
    BY <1>1, <2>2, <2>3 DEF ClientTypes
  <2>5. ClientTypes' /\ AppTypes'
    BY <1>1, <2>3, <2>4 DEF ClientTypes, AppTypes, appVars
  <2>6. QED
    BY <1>3, <1>5, <2>1, <2>3, <2>5 DEF TypeInv
<1>10. CASE ConnectionLost(c)
  <2>1. /\ alive' \in [Sessions -> BOOLEAN] /\ inFlight' \in [Sessions -> BOOLEAN]
        /\ replies[c] # <<>> /\ replies' = [replies EXCEPT ![c] = Tail(@)]
        /\ UNCHANGED <<pc, packed, handling, reported, appVars, stored>>
    BY <1>1, <1>10 DEF ConnectionLost, ClientTypes
  <2>2. QED
    BY <1>1, <1>3, <1>5, <2>1 DEF TypeInv, ClientTypes, AppTypes, appVars
<1>11. CASE CallbackAlive(c)
  <2>1. /\ pc' = [pc EXCEPT ![c] = "sending"] /\ pc[c] \in Driving
        /\ UNCHANGED <<alive, handling, reported, packed, appVars, stored>>
        /\ inFlight' \in [Sessions -> BOOLEAN] /\ replies' = replies
    BY <1>1, <1>11 DEF CallbackAlive, Driving, ClientTypes, serviceVars
  <2>2. QED
    BY <1>3, <1>5, <1>6, <2>1 DEF TypeInv
<1>12. CASE CallbackLost(c)
  <2>1. /\ reported' \in [Sessions -> BOOLEAN] /\ mainQueue' \in Seq(Sessions) /\ replies' = replies
        /\ UNCHANGED <<pc, alive, inFlight, packed, handling, main, probing, stored>>
    BY <1>1, <1>12 DEF CallbackLost, ClientTypes, AppTypes, serviceVars
  <2>2. QED
    BY <1>1, <1>3, <1>5, <2>1 DEF TypeInv, ClientTypes, AppTypes
<1>13. CASE SendBatch(c)
  <2>1. /\ \E place \in {"armed", "flush"} : pc' = [pc EXCEPT ![c] = place]
        /\ pc[c] \in Driving /\ replies' = replies
        /\ UNCHANGED <<alive, handling, reported, packed, appVars, stored>>
        /\ inFlight' \in [Sessions -> BOOLEAN]
    BY <1>1, <1>13 DEF SendBatch, Presenting, GoTo, Driving, ClientTypes
  <2>2. QED
    BY <1>3, <1>5, <1>6, <2>1 DEF TypeInv
<1>14. CASE PerformState(c)
  <2>1. /\ \E place \in {"serialize", "unserialize"} : pc' = [pc EXCEPT ![c] = place]
        /\ pc[c] \in Driving /\ replies' = replies
        /\ UNCHANGED <<alive, handling, reported, packed, appVars, stored>>
        /\ inFlight' \in [Sessions -> BOOLEAN]
    BY <1>1, <1>14 DEF PerformState, GoTo, Driving, ClientTypes
  <2>2. QED
    BY <1>3, <1>5, <1>6, <2>1 DEF TypeInv
<1>15. CASE TearDown(c)
  <2>1. /\ \E place \in {"endFlush", "endClose", "exited"} :
             pc' = [pc EXCEPT ![c] = place] /\ place \notin Driving
        /\ replies' = replies
        /\ UNCHANGED <<alive, handling, reported, packed, appVars, stored>>
        /\ inFlight' \in [Sessions -> BOOLEAN]
    BY <1>1, <1>15 DEF TearDown, Ending, Closing, GoTo, Driving, ClientTypes
  <2>2. QED
    BY <1>3, <1>5, <1>6, <2>1 DEF TypeInv
<1>16. QED
  BY <1>7, <1>8, <1>9, <1>10, <1>11, <1>12, <1>13, <1>14, <1>15 DEF LoopThread

LEMMA AppMovesTypes ==
  ASSUME IInv, TypeInv, App
  PROVE  TypeInv'
<1> USE NoneAssumption, ConnsAssumption
<1>1. ReplyTypes /\ HelperTypes /\ AppTypes /\ ClientTypes /\ pc \in [Sessions -> Places]
  BY DEF TypeInv, IInv, TurnsInv
<1>2. CASE (\E c \in Sessions : StartGame(c)) \/ StopGame \/ HandleLoss
  <2>1. /\ main' \in {"idle", "stopping"} /\ mainQueue' \in Seq(Sessions)
        /\ UNCHANGED <<serviceVars, clientVars, probing, stored>>
    BY <1>1, <1>2 DEF StartGame, StopGame, HandleLoss, AppTypes
  <2>2. QED
    BY <1>1, <2>1 DEF TypeInv, ReplyTypes, HelperTypes, AppTypes, ClientTypes, serviceVars, clientVars
<1>3. CASE Replace
  <2>1. /\ main' = "idle"
        /\ pc' = pc \/ pc' = [pc EXCEPT ![next] = "open"]
        /\ UNCHANGED <<coreQueue, replies, peer, hostOnly, alive, inFlight, packed,
                       handling, reported, mainQueue, probing, stored>>
    BY <1>3 DEF Replace, Replaced
  <2>2. \A c \in Sessions : pc'[c] \in Driving => pc[c] \in Driving
    BY <1>1, <2>1 DEF Driving
  <2>3. QED
    BY <1>1, <2>1, <2>2 DEF TypeInv, ReplyTypes, HelperTypes, AppTypes, ClientTypes, hostOnly
<1>4. CASE StartProbe \/ FinishProbe
  <2>1. /\ probing' \in {"off", "asked", "done"}
        /\ replies' = replies \/ replies' = [replies EXCEPT ![Probe] = <<>>]
        /\ UNCHANGED <<peer, hostOnly, clientVars, main, mainQueue, stored>>
    BY <1>4 DEF StartProbe, FinishProbe
  <2>2. ReplyTypes'
    <3>1. CASE Probe \in Conns /\ replies' = [replies EXCEPT ![Probe] = <<>>]
      <4>1. /\ <<>> \in Seq(ReplyRecord)
            /\ \A i \in DOMAIN <<>> : \E j \in DOMAIN replies[Probe] : <<>>[i] = replies[Probe][j]
        OBVIOUS
      <4>2. QED
        BY <1>1, <3>1, <4>1, FewerReplies
    <3>2. CASE replies' = replies
      BY <1>1, <3>2 DEF ReplyTypes
    <3>3. Probe \notin Conns => [replies EXCEPT ![Probe] = <<>>] = replies
      BY <1>1 DEF ReplyTypes
    <3>4. QED
      BY <2>1, <3>1, <3>2, <3>3
  <2>3. QED
    BY <1>1, <2>1, <2>2 DEF TypeInv, HelperTypes, AppTypes, ClientTypes, hostOnly, clientVars
<1>5. QED
  BY <1>2, <1>3, <1>4 DEF App

LEMMA ReplyTyped ==
  ASSUME IInv, ReplyTypes, NEW c \in Conns, NEW ok \in BOOLEAN, NEW size \in Sizes \union {None},
         coreQueue # <<>>, Head(coreQueue).call.op # "invalidate",
         Head(coreQueue).call.op = "run" /\ ok => size # None,
         Reply(c, ok, size)
  PROVE  ReplyTypes'
<1>1. coreQueue \in Seq(Block) /\ session \in Sessions \union {None}
  BY DEF IInv, CoreTypes
<1>2. Head(coreQueue) \in Block
  BY <1>1, TakingOne
<1>3. Head(coreQueue).call \in CallRecord
  BY <1>2 DEF Block
<1>4. PICK r : r = [op |-> Head(coreQueue).call.op, ok |-> ok, by |-> session, size |-> size]
  OBVIOUS
<1>5. r \in ReplyRecord /\ r.op = Head(coreQueue).call.op /\ r.ok = ok /\ r.size = size
  BY <1>1, <1>3, <1>4 DEF ReplyRecord, CallRecord
<1>6. replies' = replies \/ replies' = [replies EXCEPT ![c] = Append(@, r)]
  BY <1>4 DEF Reply
<1>7. ReplyTypes' \/ replies' = replies
  BY <1>5, <1>6, MoreReplies
<1>8. QED
  BY <1>7 DEF ReplyTypes

LEMMA ExecuteTypes ==
  ASSUME IInv, TypeInv, NEW c \in Conns, Execute(c), UNCHANGED <<clientVars, appVars, stored>>
  PROVE  TypeInv'
<1> USE NoneAssumption, ConnsAssumption
<1>1. ReplyTypes /\ HelperTypes /\ AppTypes /\ ClientTypes
  BY DEF TypeInv
<1>2. AppTypes' /\ ClientTypes'
  BY <1>1 DEF AppTypes, ClientTypes, appVars, clientVars
<1>3. ASSUME NEW op, op \notin {"probe", "close"}, NextBlock(c, op) PROVE c \in Sessions
  <2>1. 1 \in DOMAIN coreQueue /\ Head(coreQueue) = coreQueue[1]
    BY <1>3, TakingOne DEF IInv, CoreTypes, NextBlock
  <2>2. QED
    BY <1>3, <2>1 DEF IInv, OnlyGamesPlay, NextBlock
<1>5. ASSUME NEW op, op # "invalidate", NextBlock(c, op), NEW ok \in BOOLEAN, NEW size \in Sizes \union {None},
             op = "run" /\ ok => size # None, Reply(c, ok, size)
      PROVE  ReplyTypes'
  BY <1>1, <1>5, ReplyTyped DEF NextBlock
<1>6. CASE OpenSession(c)
  <2>1. NextBlock(c, "open") /\ \E ok \in BOOLEAN : Reply(c, ok, None)
    BY <1>6 DEF OpenSession, OpenFailsStaging, OpenFailsConstructing, OpenConstructs
  <2>2. /\ contentHandles' = c /\ environment' \in {c, environment} /\ UNCHANGED <<peer, frameSurface, drawn, crashes>>
    BY <1>6 DEF OpenSession, OpenFailsStaging, OpenFailsConstructing, OpenConstructs, Reply
  <2>3. ReplyTypes'
    BY <1>5, <2>1
  <2>4. c \in Sessions
    BY <1>3, <2>1
  <2>5. HelperTypes'
    BY <1>1, <2>2, <2>4 DEF HelperTypes
  <2>6. QED
    BY <1>2, <2>3, <2>5 DEF TypeInv
<1>7. CASE AttachFrameSurface(c)
  <2>1. NextBlock(c, "attach") /\ (\E ok \in BOOLEAN : Reply(c, ok, None)) /\ c \in Sessions
    BY <1>3, <1>7 DEF AttachFrameSurface
  <2>2. ReplyTypes'
    BY <1>5, <2>1
  <2>3. HelperTypes'
    BY <1>1, <1>7, <2>1 DEF HelperTypes, AttachFrameSurface, Reply
  <2>4. QED
    BY <1>2, <2>2, <2>3 DEF TypeInv
<1>8. CASE CloseSession(c)
  <2>1. NextBlock(c, "close") /\ \E ok \in BOOLEAN : Reply(c, ok, None)
    BY <1>8 DEF CloseSession
  <2>2. ReplyTypes'
    BY <1>5, <2>1
  <2>3. HelperTypes'
    BY <1>1, <1>8 DEF HelperTypes, CloseSession, Reply
  <2>4. QED
    BY <1>2, <2>2, <2>3 DEF TypeInv
<1>9. CASE RunFramesShared(c)
  <2>1. NextBlock(c, "run") /\ UNCHANGED <<hostVars, peer, crashes>>
    BY <1>9 DEF RunFramesShared, Reply
  <2>2. \/ Reply(c, FALSE, None) /\ drawn' = drawn
        \/ \E size \in Sizes : drawn' = [drawn EXCEPT ![frameSurface] = size] /\ Reply(c, TRUE, size)
    BY <1>9 DEF RunFramesShared
  <2>3. ReplyTypes'
    <3>1. \E ok \in BOOLEAN, size \in Sizes \union {None} : (ok => size # None) /\ Reply(c, ok, size)
      BY <2>2
    <3>2. QED
      BY <1>5, <2>1, <3>1
  <2>4. HelperTypes'
    BY <1>1, <2>1, <2>2 DEF HelperTypes, hostVars
  <2>5. QED
    BY <1>2, <2>3, <2>4 DEF TypeInv
<1>10. CASE QuerySession(c)
  <2>1. /\ \E op \in {"options", "restore", "saveRAM", "serialize", "unserialize", "probe"}, ok \in BOOLEAN :
             NextBlock(c, op) /\ Reply(c, ok, None)
        /\ UNCHANGED <<hostVars, drawn, peer, crashes>>
    BY <1>10 DEF QuerySession, SessionQueries, Reply
  <2>2. ReplyTypes'
    BY <1>5, <2>1
  <2>3. HelperTypes'
    BY <1>1, <2>1 DEF HelperTypes, hostVars
  <2>4. QED
    BY <1>2, <2>2, <2>3 DEF TypeInv
<1>11. QED
  BY <1>6, <1>7, <1>8, <1>9, <1>10 DEF Execute

LEMMA HostTypes ==
  ASSUME IInv, TypeInv, HostNext, UNCHANGED <<clientVars, appVars, stored>>
  PROVE  TypeInv'
<1>1. ReplyTypes /\ HelperTypes /\ AppTypes /\ ClientTypes
  BY DEF TypeInv
<1>2. AppTypes' /\ ClientTypes'
  BY <1>1 DEF AppTypes, ClientTypes, appVars, clientVars
<1>3. ASSUME NEW c \in Conns, Deliver(c) PROVE TypeInv'
  BY <1>1, <1>2, <1>3 DEF TypeInv, ReplyTypes, HelperTypes, Deliver, hostVars
<1>4. CASE Crash
  <2>1. Interruption \in ReplyRecord /\ Interruption.op # "run"
    BY DEF Interruption, ReplyRecord
  <2>2. \A c \in Conns : /\ Append(replies[c], Interruption) \in Seq(ReplyRecord)
                         /\ \A i \in DOMAIN Append(replies[c], Interruption) :
                              \/ Append(replies[c], Interruption)[i] = Interruption
                              \/ i \in DOMAIN replies[c] /\ Append(replies[c], Interruption)[i] = replies[c][i]
    <3>1. ASSUME NEW c \in Conns
          PROVE  /\ Append(replies[c], Interruption) \in Seq(ReplyRecord)
                 /\ \A i \in DOMAIN Append(replies[c], Interruption) :
                      \/ Append(replies[c], Interruption)[i] = Interruption
                      \/ i \in DOMAIN replies[c] /\ Append(replies[c], Interruption)[i] = replies[c][i]
      <4>1. PICK q \in Seq(ReplyRecord) : q = replies[c]
        BY <1>1 DEF ReplyTypes
      <4>2. PICK r \in ReplyRecord : r = Interruption
        BY <2>1
      <4>3. QED
        BY <4>1, <4>2, Appending
    <3>2. QED
      BY <3>1
  <2>3. ReplyTypes'
    <3>1. \A c \in Conns : replies'[c] \in {replies[c], Append(replies[c], Interruption)}
      BY <1>4 DEF Crash
    <3>2. replies' \in [Conns -> Seq(ReplyRecord)]
      BY <1>1, <1>4, <2>2 DEF Crash, ReplyTypes
    <3>3. ASSUME NEW c \in Conns, NEW i \in DOMAIN replies'[c], replies'[c][i].op = "run", replies'[c][i].ok
          PROVE  replies'[c][i].size # None
      <4>1. i \in DOMAIN replies[c] /\ replies'[c][i] = replies[c][i]
        BY <2>1, <2>2, <3>1, <3>3
      <4>2. QED
        BY <1>1, <3>3, <4>1 DEF ReplyTypes
    <3>4. QED
      BY <3>2, <3>3 DEF ReplyTypes
  <2>4. HelperTypes'
    BY <1>1, <1>4, MaxCrashesAssumption DEF HelperTypes, Crash
  <2>5. QED
    BY <1>2, <2>3, <2>4 DEF TypeInv
<1>5. QED
  BY <1>3, <1>4, ExecuteTypes DEF HostNext

LEMMA InitTypes == Init => TypeInv
BY NoneAssumption, MaxCrashesAssumption
   DEF Init, HostInit, TypeInv, ReplyTypes, HelperTypes, AppTypes, ClientTypes, Driving

LEMMA StepTypes == ASSUME IInv, TypeInv, [Next]_vars PROVE TypeInv'
<1>1. ASSUME UNCHANGED vars PROVE TypeInv'
  BY <1>1 DEF TypeInv, ReplyTypes, HelperTypes, AppTypes, ClientTypes, vars, serviceVars, clientVars, appVars
<1>2. QED
  BY <1>1, ThreadTypes, AppMovesTypes, HostTypes DEF Next

THEOREM Typed == Spec => []TypeInv
BY InitTypes, StepTypes, Inductive, PTL DEF Spec

(* Every variable has its type, and a game that is about to present a      *)
(* frame knows its size, with any number of games and of crashes.          *)
THEOREM TypeCorrect == Spec => []TypeOK
<1>1. IInv /\ TypeInv => TypeOK
  <2> SUFFICES ASSUME IInv, TypeInv PROVE TypeOK
    OBVIOUS
  <2>1. HostTypeOK
    BY DEF HostTypeOK, IInv, TypeInv, CoreTypes, ReplyTypes, HelperTypes, Block
  <2>2. QED
    BY <2>1 DEF TypeOK, IInv, TypeInv, TurnsInv, AppTypes, ClientTypes, Driving
<1>2. QED
  BY <1>1, Inductive, Typed, PTL

-----------------------------------------------------------------------------
(* One batch at a time.  All steps but four keep the batches of a game, or *)
(* lose some of them.                                                      *)
KeptCalls(c) == Fewer(Runs(wire[c])', Runs(wire[c])) /\ Fewer(RunBlocks(c)', RunBlocks(c))
KeptReplies(c) ==
  /\ Fewer(Runs(replies[c])', Runs(replies[c]))
  /\ \A i \in Runs(replies[c])' : \E j \in Runs(replies[c]) : replies'[c][i] = replies[c][j]
  /\ handling[c] => replies'[c] # <<>> /\ Head(replies'[c]) = Head(replies[c])
KeptThread(c) ==
  /\ alive'[c] => alive[c] /\ inFlight'[c] = inFlight[c]
  /\ handling'[c] = handling[c]
  /\ pc'[c] \in Early => pc[c] \in Early
  /\ pc'[c] \in Driving => (pc[c] \in Driving /\ packed'[c] = packed[c]) \/ pc[c] = "attach"
Kept(c) == KeptCalls(c) /\ KeptReplies(c) /\ KeptThread(c)

LEMMA KeptBatch == ASSUME NEW c, BatchOf(c), Kept(c) PROVE BatchOf(c)'
<1>1. NoBatch(c) => NoBatch(c)'
  BY DEF NoBatch, Kept, KeptCalls, KeptReplies, Fewer
<1>2. OneAtMost(c) => OneAtMost(c)'
  BY DEF OneAtMost, Kept, KeptCalls, KeptReplies, Fewer
<1>3. QED
  BY <1>1, <1>2 DEF BatchOf, Kept, KeptReplies, KeptThread

LEMMA KeptGeometry ==
  ASSUME NEW c, BatchOf(c), GeometryOf(c), Kept(c), drawn'[c] = drawn[c]
  PROVE  GeometryOf(c)'
<1>1. pc'[c] \in Early => drawn'[c] = None
  BY DEF GeometryOf, Kept, KeptThread
<1>2. /\ Runs(wire[c])' # {} => Runs(wire[c]) # {}
      /\ RunBlocks(c)' # {} => RunBlocks(c) # {}
      /\ Runs(replies[c])' # {} => Runs(replies[c]) # {}
      /\ alive'[c] => alive[c] /\ inFlight'[c] = inFlight[c]
      /\ handling'[c] = handling[c]
  BY DEF Kept, KeptCalls, KeptReplies, KeptThread, Fewer
<1>3. CASE pc[c] \in Driving /\ packed'[c] = packed[c]
  <2>1. Settled(c)' <=> Settled(c)
    BY <1>3 DEF Settled
  <2>2. \A i \in Runs(replies[c])' : \E j \in Runs(replies[c]) : replies'[c][i] = replies[c][j]
    BY DEF Kept, KeptReplies
  <2>3. QED
    BY <1>1, <1>2, <1>3, <2>1, <2>2 DEF GeometryOf
<1>4. CASE pc[c] = "attach"
  <2>1. drawn[c] = None /\ NoBatch(c)
    BY <1>4 DEF BatchOf, GeometryOf, Early
  <2>2. Settled(c)' /\ Runs(replies[c])' = {}
    BY <1>2, <2>1 DEF Settled, NoBatch
  <2>3. QED
    BY <1>1, <2>2 DEF GeometryOf
<1>5. CASE pc'[c] \notin Driving
  BY <1>1, <1>5 DEF GeometryOf
<1>6. QED
  BY <1>3, <1>4, <1>5 DEF Kept, KeptThread

LEMMA SameIsFewer == \A S : Fewer(S, S) /\ Fewer({}, S)
BY DEF Fewer, Single

LEMMA StillOut ==
  ASSUME NEW c
  PROVE  /\ wire'[c] = wire[c] => Fewer(Runs(wire[c])', Runs(wire[c]))
         /\ coreQueue' = coreQueue => Fewer(RunBlocks(c)', RunBlocks(c))
         /\ replies'[c] = replies[c] /\ BatchOf(c) => KeptReplies(c)
<1>1. replies'[c] = replies[c] => Runs(replies[c])' = Runs(replies[c])
  BY DEF Runs
<1>2. wire'[c] = wire[c] => Runs(wire[c])' = Runs(wire[c])
  BY DEF Runs
<1>3. coreQueue' = coreQueue => RunBlocks(c)' = RunBlocks(c)
  BY DEF RunBlocks
<1>4. QED
  BY <1>1, <1>2, <1>3, SameIsFewer DEF KeptReplies, BatchOf

(* Handling a reply that is not of a batch. *)
LEMMA OtherReply ==
  ASSUME TypeInv, NEW c \in Sessions, BatchOf(c), replies[c] # <<>>, Head(replies[c]).op # "run",
         replies'[c] = Tail(replies[c])
  PROVE  ~handling[c] /\ KeptReplies(c)
<1>1. PICK q \in Seq(ReplyRecord) : q = replies[c]
  BY ConnsAssumption DEF TypeInv, ReplyTypes
<1>2. /\ \A i \in Runs(Tail(q)) : i + 1 \in Runs(q) /\ Tail(q)[i] = q[i + 1]
      /\ Fewer(Runs(Tail(q)), Runs(q))
  BY <1>1, TailRuns
<1>3. Runs(replies[c])' = Runs(Tail(q)) /\ replies'[c] = Tail(q)
  BY <1>1
<1>4. QED
  BY <1>1, <1>2, <1>3 DEF BatchOf, KeptReplies

LEMMA GivenUpRuns ==
  ASSUME NEW w \in Seq(CallRecord), NEW ops
  PROVE  Runs(Forgotten(w, ops)) = Runs(w)
<1>1. ASSUME NEW i \in DOMAIN w PROVE [w[i] EXCEPT !.awaited = FALSE].op = w[i].op
  <2>1. w[i] \in CallRecord
    OBVIOUS
  <2>2. QED
    BY <2>1 DEF CallRecord
<1>2. QED
  BY <1>1 DEF Forgotten, Runs

LEMMA SameBlocks ==
  ASSUME NEW c, DOMAIN coreQueue' = DOMAIN coreQueue,
         \A i \in DOMAIN coreQueue : coreQueue'[i].from = coreQueue[i].from
                                     /\ coreQueue'[i].call.op = coreQueue[i].call.op
  PROVE  Fewer(RunBlocks(c)', RunBlocks(c))
<1>1. RunBlocks(c)' = RunBlocks(c)
  BY DEF RunBlocks
<1>2. QED
  BY <1>1, SameIsFewer

(* A thread that goes on and leaves its guard alone. *)
LEMMA GoesKept ==
  ASSUME IInv, NEW c \in Sessions, NEW place, NEW w, Goes(c, place, w), Runs(w) = Runs(wire[c]),
         Fewer(RunBlocks(c)', RunBlocks(c)), KeptReplies(c),
         alive' = alive, handling' = handling, inFlight'[c] = inFlight[c],
         place \in Early => pc[c] \in Early,
         place \in Driving => (pc[c] \in Driving /\ packed'[c] = packed[c]) \/ pc[c] = "attach"
  PROVE  Kept(c)
<1>1. PICK v : wire' = [wire EXCEPT ![c] = v] /\ Runs(v) = Runs(wire[c])
  BY DEF Goes
<1>2. Runs(wire[c])' = Runs(wire[c])
  <2>1. wire'[c] = v
    BY <1>1, ConnsAssumption DEF IInv, CoreTypes
  <2>2. QED
    BY <1>1, <2>1
<1>3. pc'[c] = place
  BY DEF Goes, IInv, TurnsInv
<1>4. QED
  BY <1>2, <1>3, SameIsFewer DEF Kept, KeptCalls, KeptThread

(* The thread of another game. *)
LEMMA OtherThread ==
  ASSUME IInv, TypeInv, NEW c \in Sessions, BatchOf(c), NEW d \in Sessions, d # c, LoopThread(d)
  PROVE  Kept(c)
<1>1. /\ pc \in [Sessions -> Places] /\ wire \in [Conns -> Seq(CallRecord)]
      /\ replies \in [Conns -> Seq(ReplyRecord)] /\ packed \in [Sessions -> Sizes \union {None}]
      /\ alive \in [Sessions -> BOOLEAN] /\ inFlight \in [Sessions -> BOOLEAN]
      /\ handling \in [Sessions -> BOOLEAN]
  BY DEF IInv, CoreTypes, TurnsInv, TypeInv, ReplyTypes, ClientTypes
<1>2. Fewer(RunBlocks(c)', RunBlocks(c))
  BY ThreadSteps, SameBlocks, StillOut
<1>3. wire'[c] = wire[c] /\ pc'[c] = pc[c]
  <2>1. UNCHANGED <<wire, pc>> \/ Moves(d)
    BY ThreadSteps
  <2>2. CASE Moves(d)
    <3>1. PICK place, w : GoTo(d, place, w)
      BY <2>2 DEF Moves
    <3>2. PICK v : pc' = [pc EXCEPT ![d] = place] /\ wire' = [wire EXCEPT ![d] = v]
      BY <3>1 DEF GoTo
    <3>3. QED
      BY <1>1, <3>2, ConnsAssumption
  <2>3. QED
    BY <2>1, <2>2
<1>4. packed'[c] = packed[c]
  <2>1. ASSUME NEW ok, NEW by, NEW w \in Seq(CallRecord), Resume(d, ok, by, w)
        PROVE  packed'[c] = packed[c]
    <3>1. packed' = packed \/ \E size : packed' = [packed EXCEPT ![d] = size]
      BY <2>1, ResumingEffect DEF Resumes
    <3>2. QED
      BY <1>1, <3>1
  <2>2. wire[d] \in Seq(CallRecord)
    BY <1>1, ConnsAssumption
  <2>3. CASE Answer(d)
    BY <2>1, <2>2, <2>3 DEF Answer
  <2>4. CASE TimeOut(d)
    <3>1. PICK ops : Resume(d, FALSE, None, Forgotten(wire[d], ops))
      BY <2>4 DEF TimeOut
    <3>2. Forgotten(wire[d], ops) \in Seq(CallRecord)
      BY <2>2, GivenUp
    <3>3. QED
      BY <2>1, <3>1, <3>2
  <2>5. CASE ~Answer(d) /\ ~TimeOut(d)
    BY <1>1, <2>5 DEF LoopThread, HandleRunReply, ConnectionLost, CallbackAlive, CallbackLost, SendBatch,
       PerformState, TearDown
  <2>6. QED
    BY <2>3, <2>4, <2>5
<1>5. /\ replies'[c] = replies[c] /\ inFlight'[c] = inFlight[c] /\ handling'[c] = handling[c]
      /\ alive'[c] = alive[c]
  <2>1. \/ replies' = replies
        \/ \E q : replies' = [replies EXCEPT ![d] = q]
    BY <1>1 DEF LoopThread, Answer, TimeOut, HandleRunReply, ConnectionLost, CallbackAlive, CallbackLost,
       SendBatch, PerformState, TearDown, serviceVars
  <2>2. \/ inFlight' = inFlight
        \/ \E b : inFlight' = [inFlight EXCEPT ![d] = b]
    BY <1>1 DEF LoopThread, Answer, TimeOut, HandleRunReply, ConnectionLost, CallbackAlive, CallbackLost,
       SendBatch, PerformState, TearDown
  <2>3. \/ handling' = handling
        \/ \E b : handling' = [handling EXCEPT ![d] = b]
    BY <1>1 DEF LoopThread, Answer, TimeOut, HandleRunReply, ConnectionLost, CallbackAlive, CallbackLost,
       SendBatch, PerformState, TearDown
  <2>4. \/ alive' = alive
        \/ \E b : alive' = [alive EXCEPT ![d] = b]
    BY <1>1 DEF LoopThread, Answer, TimeOut, HandleRunReply, ConnectionLost, CallbackAlive, CallbackLost,
       SendBatch, PerformState, TearDown
  <2>5. QED
    BY <1>1, <2>1, <2>2, <2>3, <2>4, ConnsAssumption
<1>6. QED
  BY <1>2, <1>3, <1>4, <1>5, StillOut DEF Kept, KeptCalls, KeptThread

(* The game's own thread, but for the end of a batch and the next one.     *)
LEMMA ResumesKept ==
  ASSUME IInv, NEW c \in Sessions, NEW ok, NEW by, NEW w, Resumes(c, ok, by, w),
         Runs(w) = Runs(wire[c]), Fewer(RunBlocks(c)', RunBlocks(c)), KeptReplies(c),
         alive' = alive, handling' = handling, inFlight' = inFlight
  PROVE  Kept(c)
<1>1. PICK place \in Places :
        /\ Goes(c, place, w)
        /\ place \notin {"unborn", "open"} /\ (place = "attach" => pc[c] = "open")
        /\ \/ packed' = packed /\ (place \in Driving => pc[c] \in Driving)
           \/ pc[c] = "attach"
  BY DEF Resumes
<1>2. place \in Early => pc[c] \in Early
  BY <1>1 DEF Early
<1>3. QED
  BY <1>1, <1>2, GoesKept

LEMMA OwnThread ==
  ASSUME IInv, TypeInv, NEW c \in Sessions, BatchOf(c), LoopThread(c),
         ~HandleRunReply(c), ~(SendBatch(c) /\ ~inFlight[c])
  PROVE  Kept(c)
<1>1. /\ pc \in [Sessions -> Places] /\ wire[c] \in Seq(CallRecord)
      /\ replies \in [Conns -> Seq(ReplyRecord)] /\ c \in Conns
      /\ alive \in [Sessions -> BOOLEAN] /\ inFlight \in [Sessions -> BOOLEAN]
  BY ConnsAssumption DEF IInv, CoreTypes, TurnsInv, TypeInv, ReplyTypes, ClientTypes
<1>2. Fewer(RunBlocks(c)', RunBlocks(c))
  BY ThreadSteps, SameBlocks, StillOut
<1>3. \A place \in Waits : AwaitedOp[place] # "run"
  BY DEF Waits, AwaitedOp
<1>4. CASE Answer(c)
  <2>1. PICK r : /\ r = Head(replies[c]) /\ r.op # "run" /\ Resume(c, r.ok, r.by, wire[c])
    BY <1>3, <1>4 DEF Answer
  <2>2. replies[c] # <<>> /\ replies'[c] = Tail(replies[c])
    BY <1>1, <1>4 DEF Answer
  <2>3. KeptReplies(c)
    BY <2>1, <2>2, OtherReply
  <2>4. Resumes(c, r.ok, r.by, wire[c])
    BY <1>1, <2>1, ResumingEffect
  <2>5. QED
    BY <1>2, <1>4, <2>3, <2>4, ResumesKept DEF Answer
<1>5. CASE TimeOut(c)
  <2>1. PICK ops : /\ "run" \notin ops
                   /\ replies' = [replies EXCEPT ![c] = Unheard(@, ops)]
                   /\ Resume(c, FALSE, None, Forgotten(wire[c], ops))
    BY <1>3, <1>5 DEF TimeOut
  <2>2. PICK q \in Seq(ReplyRecord) : q = replies[c]
    BY <1>1
  <2>3. /\ \A i \in Runs(Unheard(q, ops)) : \E j \in Runs(q) : Unheard(q, ops)[i] = q[j]
        /\ Fewer(Runs(Unheard(q, ops)), Runs(q))
        /\ q # <<>> /\ Head(q).op = "run" =>
             Unheard(q, ops) # <<>> /\ Head(Unheard(q, ops)) = Head(q)
    BY <2>1, UnheardRuns
  <2>4. replies'[c] = Unheard(q, ops)
    BY <1>1, <2>1, <2>2
  <2>5. KeptReplies(c)
    BY <2>2, <2>3, <2>4 DEF KeptReplies, BatchOf
  <2>6. PICK w \in Seq(CallRecord) : w = Forgotten(wire[c], ops) /\ Runs(w) = Runs(wire[c])
    BY <1>1, GivenUp, GivenUpRuns
  <2>7. Resumes(c, FALSE, None, w)
    BY <2>1, <2>6, ResumingEffect
  <2>8. QED
    BY <1>2, <1>5, <2>5, <2>6, <2>7, ResumesKept DEF TimeOut
<1>6. CASE ConnectionLost(c)
  <2>1. /\ replies[c] # <<>> /\ Head(replies[c]).op # "run" /\ replies'[c] = Tail(replies[c])
        /\ ~alive'[c] /\ UNCHANGED <<wire, handling, pc, packed>>
    BY <1>1, <1>6 DEF ConnectionLost
  <2>2. KeptReplies(c)
    BY <2>1, OtherReply
  <2>3. KeptThread(c)
    BY <2>1 DEF KeptThread
  <2>4. QED
    BY <1>2, <2>1, <2>2, <2>3, StillOut DEF Kept, KeptCalls
<1>7. ASSUME replies' = replies, NEW place, NEW w \in Seq(CallRecord), Runs(w) = Runs(wire[c]), Goes(c, place, w),
             alive' = alive, handling' = handling, inFlight'[c] = inFlight[c],
             place \notin Early, place \in Driving => pc[c] \in Driving, packed' = packed
      PROVE  Kept(c)
  <2>1. KeptReplies(c)
    BY <1>7, StillOut
  <2>2. QED
    BY <1>2, <1>7, <2>1, GoesKept
<1>8. CASE CallbackAlive(c)
  <2>1. GoTo(c, "sending", wire[c])
    BY <1>1, <1>8, ConnsAssumption
       DEF CallbackAlive, GoTo, serviceVars, Waits, AwaitedOp, IInv, CoreTypes
  <2>2. Goes(c, "sending", wire[c])
    BY <1>1, <2>1, GoesTo
  <2>3. pc[c] \in Driving /\ UNCHANGED <<replies, alive, inFlight, handling, packed>>
    BY <1>8 DEF CallbackAlive, Driving, serviceVars
  <2>4. QED
    BY <1>1, <1>7, <2>2, <2>3 DEF Early
<1>9. CASE CallbackLost(c)
  <2>1. UNCHANGED <<wire, replies, alive, inFlight, handling, packed, pc>>
    BY <1>9 DEF CallbackLost, serviceVars
  <2>2. KeptThread(c)
    BY <2>1 DEF KeptThread
  <2>3. QED
    BY <1>2, <2>1, <2>2, StillOut DEF Kept, KeptCalls
<1>10. CASE SendBatch(c) /\ inFlight[c]
  <2>1. PICK place \in {"armed", "flush"} : GoTo(c, place, wire[c])
    BY <1>10 DEF SendBatch, Presenting
  <2>2. Goes(c, place, wire[c])
    BY <1>1, <2>1, GoesTo
  <2>3. pc[c] \in Driving /\ UNCHANGED <<replies, alive, handling, packed>> /\ inFlight'[c] = inFlight[c]
    BY <1>1, <1>10 DEF SendBatch, Driving
  <2>4. QED
    BY <1>1, <1>7, <2>2, <2>3 DEF Early
<1>11. CASE PerformState(c)
  <2>1. PICK place \in {"serialize", "unserialize"} : GoTo(c, place, wire[c])
    BY <1>11 DEF PerformState
  <2>2. Goes(c, place, wire[c])
    BY <1>1, <2>1, GoesTo
  <2>3. pc[c] \in Driving /\ UNCHANGED <<replies, alive, handling, packed, inFlight>>
    BY <1>11 DEF PerformState, Driving
  <2>4. QED
    BY <1>1, <1>7, <2>2, <2>3 DEF Early
<1>12. CASE TearDown(c)
  <2>1. PICK place \in {"endFlush", "endClose", "exited"} :
          GoTo(c, place, wire[c]) \/ GoTo(c, place, Invalidated(c, wire[c]))
    BY <1>12 DEF TearDown, Ending, Closing
  <2>2. Goes(c, place, wire[c])
    BY <1>1, <2>1, GoesTo
  <2>3. UNCHANGED <<replies, alive, handling, packed, inFlight>>
    BY <1>12 DEF TearDown
  <2>4. QED
    BY <1>1, <1>7, <2>2, <2>3 DEF Early, Driving
<1>13. QED
  BY <1>4, <1>5, <1>6, <1>8, <1>9, <1>10, <1>11, <1>12 DEF LoopThread

-----------------------------------------------------------------------------
(* The main thread and the helper keep the batches of a game, but for a    *)
(* batch that is delivered or run.                                         *)
LEMMA AppKept ==
  ASSUME IInv, TypeInv, NEW c \in Sessions, BatchOf(c), App
  PROVE  Kept(c)
<1> USE NoneAssumption, ConnsAssumption
<1>1. /\ pc \in [Sessions -> Places] /\ wire \in [Conns -> Seq(CallRecord)] /\ wire[c] \in Seq(CallRecord)
      /\ replies \in [Conns -> Seq(ReplyRecord)] /\ c \in Conns
  BY DEF IInv, CoreTypes, TurnsInv, TypeInv, ReplyTypes
<1>2. CASE (\E d \in Sessions : StartGame(d)) \/ StopGame \/ HandleLoss
  <2>1. UNCHANGED <<serviceVars, clientVars>>
    BY <1>2 DEF StartGame, StopGame, HandleLoss
  <2>2. KeptThread(c)
    BY <2>1 DEF KeptThread, clientVars
  <2>3. QED
    BY <2>1, <2>2, StillOut DEF Kept, KeptCalls, serviceVars
<1>3. CASE Replace
  <2>1. PICK released : Replaced(released)
    BY <1>3 DEF Replace
  <2>2. PICK freed : /\ freed = IF released THEN [wire EXCEPT ![game] = Invalidated(game, @)] ELSE wire
                     /\ wire' = IF next = None THEN freed ELSE [freed EXCEPT ![next] = <<Call("open")>>]
                     /\ pc' = IF next = None THEN pc ELSE [pc EXCEPT ![next] = "open"]
                     /\ UNCHANGED <<coreQueue, replies, alive, inFlight, packed, handling>>
    BY <2>1 DEF Replaced
  <2>3. freed[c] \in {wire[c], Invalidated(c, wire[c])} /\ DOMAIN freed = Conns
    BY <1>1, <2>2
  <2>4. Runs(freed[c]) = Runs(wire[c])
    BY <1>1, <2>3, InvalidatedRuns
  <2>5. CASE c = next
    <3>1. wire'[c] = <<Call("open")>> /\ pc'[c] = "open" /\ pc[c] = "unborn"
      BY <1>1, <2>2, <2>3, <2>5 DEF IInv, TurnsInv
    <3>2. Runs(wire[c])' = {}
      <4>1. Call("open").op # "run"
        BY DEF Call
      <4>2. Runs(<<Call("open")>>) = {}
        BY <4>1 DEF Runs
      <4>3. QED
        BY <3>1, <4>2
    <3>3. KeptThread(c)
      BY <2>2, <3>1 DEF KeptThread, Early, Driving
    <3>4. QED
      BY <2>2, <3>2, <3>3, StillOut, SameIsFewer DEF Kept, KeptCalls
  <2>6. CASE c # next
    <3>1. wire'[c] = freed[c] /\ pc'[c] = pc[c]
      BY <1>1, <2>2, <2>3, <2>6
    <3>2. Runs(wire[c])' = Runs(wire[c])
      BY <2>4, <3>1
    <3>3. KeptThread(c)
      BY <2>2, <3>1 DEF KeptThread
    <3>4. QED
      BY <2>2, <3>2, <3>3, StillOut, SameIsFewer DEF Kept, KeptCalls
  <2>7. QED
    BY <2>5, <2>6
<1>4. CASE StartProbe \/ FinishProbe
  <2>1. /\ wire'[c] = wire[c] /\ replies'[c] = replies[c]
        /\ UNCHANGED <<coreQueue, clientVars>>
    BY <1>1, <1>4, ProbeAssumption DEF StartProbe, FinishProbe
  <2>2. KeptThread(c)
    BY <2>1 DEF KeptThread, clientVars
  <2>3. QED
    BY <2>1, <2>2, StillOut DEF Kept, KeptCalls
<1>5. QED
  BY <1>2, <1>3, <1>4 DEF App

(* Where a block that is queued, or that was run, leaves the others. *)
LEMMA QueuedRuns ==
  ASSUME coreQueue \in Seq(Block), NEW b \in Block, coreQueue' = Append(coreQueue, b), NEW c
  PROVE  RunBlocks(c)' = RunBlocks(c) \union
           (IF b.from = c /\ b.call.op = "run" THEN {Len(coreQueue) + 1} ELSE {})
BY DEF RunBlocks

LEMMA ExecutedRuns ==
  ASSUME coreQueue \in Seq(Block), coreQueue # <<>>, coreQueue' = Tail(coreQueue), NEW c
  PROVE  /\ Fewer(RunBlocks(c)', RunBlocks(c))
         /\ Head(coreQueue).from = c /\ Head(coreQueue).call.op = "run" =>
              1 \in RunBlocks(c) /\ (Single(RunBlocks(c)) => RunBlocks(c)' = {})
<1>1. \A i \in RunBlocks(c)' : i + 1 \in RunBlocks(c) /\ i \in Nat /\ i + 1 # 1
  BY DEF RunBlocks
<1>2. Fewer(RunBlocks(c)', RunBlocks(c))
  BY <1>1 DEF Fewer, Single
<1>3. Head(coreQueue).from = c /\ Head(coreQueue).call.op = "run" => 1 \in RunBlocks(c)
  BY DEF RunBlocks
<1>4. QED
  BY <1>1, <1>2, <1>3 DEF Single

LEMMA DeliverKept ==
  ASSUME IInv, TypeInv, NEW c \in Sessions, BatchOf(c), NEW d \in Conns, Deliver(d),
         UNCHANGED clientVars, d # c \/ Head(wire[c]).op # "run"
  PROVE  Kept(c)
<1>1. /\ wire \in [Conns -> Seq(CallRecord)] /\ coreQueue \in Seq(Block) /\ c \in Conns
      /\ wire[c] \in Seq(CallRecord) /\ wire[d] \in Seq(CallRecord) /\ wire[d] # <<>>
  BY ConnsAssumption DEF IInv, CoreTypes, Deliver
<1>2. PICK b \in Block :
        /\ b.from = d /\ (b.call.op = "run" => Head(wire[d]).op = "run")
        /\ coreQueue' = Append(coreQueue, b)
  <2>1. PICK b : /\ b = [from |-> d, call |-> IF Head(wire[d]).op = "invalidate"
                                             THEN Notice("close") ELSE Head(wire[d])]
                 /\ coreQueue' = Append(coreQueue, b)
    BY DEF Deliver
  <2>2. Head(wire[d]) \in CallRecord /\ Notice("close") \in CallRecord /\ Notice("close").op # "run"
    BY <1>1, TakingOne, CallTypes DEF Notice
  <2>3. b \in Block
    BY <2>1, <2>2 DEF Block
  <2>4. QED
    BY <2>1, <2>2, <2>3
<1>3. RunBlocks(c)' = RunBlocks(c)
  BY <1>1, <1>2, QueuedRuns
<1>4. Fewer(Runs(wire[c])', Runs(wire[c]))
  <2>1. wire' = [wire EXCEPT ![d] = Tail(@)]
    BY DEF Deliver
  <2>2. CASE d = c
    <3>1. Fewer(Runs(Tail(wire[c])), Runs(wire[c]))
      BY <1>1, <2>2, TailRuns
    <3>2. wire'[c] = Tail(wire[c])
      BY <1>1, <2>1, <2>2
    <3>3. QED
      BY <3>1, <3>2
  <2>3. CASE d # c
    BY <1>1, <2>1, <2>3, StillOut
  <2>4. QED
    BY <2>2, <2>3
<1>5. KeptThread(c) /\ replies' = replies
  BY DEF KeptThread, clientVars, Deliver
<1>6. QED
  BY <1>3, <1>4, <1>5, StillOut, SameIsFewer DEF Kept, KeptCalls

(* What a block does, for the batches: its reply, and a frame if it is run. *)
Called == {"open", "attach", "options", "restore", "saveRAM", "serialize", "unserialize",
           "run", "close", "probe"}

LEMMA Executing ==
  ASSUME NEW d, Execute(d)
  PROVE  \E op \in Called, ok \in BOOLEAN, size \in Sizes \union {None} :
           /\ NextBlock(d, op) /\ Reply(d, ok, size)
           /\ RunFramesShared(d) \/ (op # "run" /\ drawn' = drawn)
<1>1. CASE OpenSession(d)
  <2>1. NextBlock(d, "open") /\ (\E ok \in BOOLEAN : Reply(d, ok, None)) /\ drawn' = drawn
    BY <1>1 DEF OpenSession, OpenFailsStaging, OpenFailsConstructing, OpenConstructs
  <2>2. QED
    BY <2>1 DEF Called
<1>2. CASE AttachFrameSurface(d)
  <2>1. NextBlock(d, "attach") /\ (\E ok \in BOOLEAN : Reply(d, ok, None)) /\ drawn' = drawn
    BY <1>2 DEF AttachFrameSurface
  <2>2. QED
    BY <2>1 DEF Called
<1>3. CASE CloseSession(d)
  <2>1. NextBlock(d, "close") /\ (\E ok \in BOOLEAN : Reply(d, ok, None)) /\ drawn' = drawn
    BY <1>3 DEF CloseSession
  <2>2. QED
    BY <2>1 DEF Called
<1>4. CASE RunFramesShared(d)
  <2>1. NextBlock(d, "run") /\ \E ok \in BOOLEAN, size \in Sizes \union {None} : Reply(d, ok, size)
    BY <1>4 DEF RunFramesShared
  <2>2. PICK ok \in BOOLEAN, size \in Sizes \union {None} : Reply(d, ok, size)
    BY <2>1
  <2>3. "run" \in Called
    BY DEF Called
  <2>4. QED
    BY <1>4, <2>1, <2>2, <2>3, Zenon
<1>5. CASE QuerySession(d)
  <2>1. /\ \E op \in {"options", "restore", "saveRAM", "serialize", "unserialize", "probe"}, ok \in BOOLEAN :
             NextBlock(d, op) /\ Reply(d, ok, None)
        /\ drawn' = drawn
    BY <1>5 DEF QuerySession, SessionQueries
  <2>2. QED
    BY <2>1 DEF Called
<1>6. QED
  BY <1>1, <1>2, <1>3, <1>4, <1>5 DEF Execute

LEMMA Replying ==
  ASSUME IInv, NEW d \in Conns, NEW op \in Called, NEW ok \in BOOLEAN,
         NEW size \in Sizes \union {None}, NextBlock(d, op), Reply(d, ok, size)
  PROVE  \/ replies' = replies
         \/ \E r \in ReplyRecord : /\ r.op = op /\ r.ok = ok /\ r.size = size
                                   /\ replies' = [replies EXCEPT ![d] = Append(@, r)]
<1>1. coreQueue \in Seq(Block) /\ session \in Sessions \union {None} /\ coreQueue # <<>>
      /\ Head(coreQueue).call.op = op
  BY DEF IInv, CoreTypes, NextBlock
<1>2. session \in Sessions \union {None}
  BY <1>1
<1>3. PICK r : r = [op |-> op, ok |-> ok, by |-> session, size |-> size]
  OBVIOUS
<1>4. r \in ReplyRecord /\ r.op = op /\ r.ok = ok /\ r.size = size
  BY <1>2, <1>3 DEF ReplyRecord, Called
<1>5. QED
  BY <1>1, <1>3, <1>4 DEF Reply

(* A reply or an interruption that is no batch. *)
LEMMA MoreKept ==
  ASSUME TypeInv, NEW c \in Sessions, BatchOf(c), NEW r \in ReplyRecord, r.op # "run",
         replies'[c] = Append(replies[c], r)
  PROVE  KeptReplies(c)
<1>1. PICK q \in Seq(ReplyRecord) : q = replies[c]
  BY ConnsAssumption DEF TypeInv, ReplyTypes
<1>2. /\ Append(q, r) # <<>> /\ q # <<>> => Head(Append(q, r)) = Head(q)
      /\ Runs(Append(q, r)) = Runs(q) \union (IF r.op = "run" THEN {Len(q) + 1} ELSE {})
      /\ \A i \in DOMAIN q : Append(q, r)[i] = q[i]
  BY AppendedRuns
<1>3. Runs(Append(q, r)) = Runs(q)
  BY <1>2
<1>4. Runs(replies[c])' = Runs(replies[c]) /\ replies'[c] = Append(q, r)
  BY <1>1, <1>3
<1>5. \A i \in Runs(q) : i \in DOMAIN q
  BY DEF Runs
<1>6. QED
  BY <1>1, <1>2, <1>4, <1>5, SameIsFewer DEF KeptReplies, BatchOf

LEMMA ExecuteKept ==
  ASSUME IInv, TypeInv, NEW c \in Sessions, BatchOf(c), NEW d \in Conns, Execute(d),
         UNCHANGED clientVars, d # c \/ ~RunFramesShared(d)
  PROVE  Kept(c)
<1>1. coreQueue \in Seq(Block) /\ c \in Conns /\ replies \in [Conns -> Seq(ReplyRecord)]
  BY ConnsAssumption DEF IInv, CoreTypes, TypeInv, ReplyTypes
<1>2. PICK op \in Called, ok \in BOOLEAN, size \in Sizes \union {None} :
        /\ NextBlock(d, op) /\ Reply(d, ok, size)
        /\ RunFramesShared(d) \/ op # "run"
  BY Executing
<1>3. coreQueue # <<>> /\ coreQueue' = Tail(coreQueue) /\ wire' = wire
  BY <1>2 DEF NextBlock, Reply
<1>4. KeptCalls(c)
  BY <1>1, <1>3, ExecutedRuns, StillOut DEF KeptCalls
<1>5. \/ replies' = replies
      \/ \E r \in ReplyRecord : r.op = op /\ replies' = [replies EXCEPT ![d] = Append(@, r)]
  BY <1>2, Replying
<1>6. KeptReplies(c)
  <2>1. CASE replies'[c] = replies[c]
    BY <2>1, StillOut
  <2>2. CASE replies'[c] # replies[c]
    <3>1. PICK r \in ReplyRecord : r.op = op /\ replies' = [replies EXCEPT ![d] = Append(@, r)]
      BY <1>5, <2>2
    <3>2. d = c /\ replies'[c] = Append(replies[c], r)
      BY <1>1, <2>2, <3>1
    <3>3. r.op # "run"
      BY <1>2, <3>1, <3>2
    <3>4. QED
      BY <3>2, <3>3, MoreKept
  <2>3. QED
    BY <2>1, <2>2
<1>7. KeptThread(c)
  BY DEF KeptThread, clientVars
<1>8. QED
  BY <1>4, <1>6, <1>7 DEF Kept

LEMMA CrashKept ==
  ASSUME IInv, TypeInv, NEW c \in Sessions, BatchOf(c), Crash, UNCHANGED clientVars
  PROVE  Kept(c)
<1> USE ConnsAssumption
<1>1. KeptCalls(c)
  <2>1. wire'[c] = <<>> /\ coreQueue' = <<>>
    BY DEF Crash
  <2>2. Runs(wire[c])' = {} /\ RunBlocks(c)' = {}
    BY <2>1 DEF Runs, RunBlocks
  <2>3. QED
    BY <2>2, SameIsFewer DEF KeptCalls
<1>2. KeptReplies(c)
  <2>1. replies'[c] = replies[c] \/ replies'[c] = Append(replies[c], Interruption)
    BY DEF Crash
  <2>2. Interruption \in ReplyRecord /\ Interruption.op # "run"
    BY DEF Interruption, ReplyRecord
  <2>3. QED
    BY <2>1, <2>2, StillOut, MoreKept
<1>3. KeptThread(c)
  BY DEF KeptThread, clientVars
<1>4. QED
  BY <1>1, <1>2, <1>3 DEF Kept

(* The four steps that are about a batch of c: it is sent, delivered, run, *)
(* and its reply is handled.                                               *)
BatchStep(c) ==
  \/ SendBatch(c) /\ ~inFlight[c]
  \/ Deliver(c) /\ Head(wire[c]).op = "run" /\ UNCHANGED clientVars
  \/ RunFramesShared(c) /\ UNCHANGED clientVars
  \/ HandleRunReply(c)

LEMMA KeptOrBatch ==
  ASSUME IInv, TypeInv, NEW c \in Sessions, BatchOf(c), [Next]_vars
  PROVE  Kept(c) \/ BatchStep(c)
<1>1. CASE \E d \in Sessions : LoopThread(d)
  BY <1>1, OtherThread, OwnThread DEF BatchStep
<1>2. CASE HostNext /\ UNCHANGED clientVars
  BY <1>2, DeliverKept, ExecuteKept, CrashKept DEF HostNext, BatchStep
<1>3. CASE UNCHANGED vars
  <2>1. KeptThread(c)
    BY <1>3 DEF KeptThread, vars, clientVars
  <2>2. QED
    BY <1>3, <2>1, StillOut DEF Kept, KeptCalls, vars, serviceVars
<1>4. QED
  BY <1>1, <1>2, <1>3, AppKept DEF Next

LEMMA Sending ==
  ASSUME IInv, TypeInv, NEW c \in Sessions, BatchOf(c), SendBatch(c), ~inFlight[c]
  PROVE  BatchOf(c)' /\ (GeometryOf(c) => GeometryOf(c)')
<1>1. /\ wire \in [Conns -> Seq(CallRecord)] /\ wire[c] \in Seq(CallRecord) /\ c \in Conns
      /\ pc \in [Sessions -> Places] /\ inFlight \in [Sessions -> BOOLEAN]
  BY ConnsAssumption DEF IInv, CoreTypes, TurnsInv, TypeInv, ClientTypes
<1>2. PICK x \in CallRecord : x = Call("run") /\ x.op = "run"
  BY CallTypes DEF Call
<1>3. PICK w \in Seq(CallRecord) : w = Append(wire[c], x) /\ Runs(w) = Runs(wire[c]) \union {Len(wire[c]) + 1}
  <2>1. PICK q \in Seq(CallRecord) : q = wire[c]
    BY <1>1
  <2>2. /\ Append(q, x) \in Seq(CallRecord)
        /\ Runs(Append(q, x)) = Runs(q) \union (IF x.op = "run" THEN {Len(q) + 1} ELSE {})
    BY AppendedRuns
  <2>3. QED
    BY <1>2, <2>1, <2>2
<1>4. PICK place \in {"armed", "flush"} : GoTo(c, place, w)
  BY <1>2, <1>3 DEF SendBatch, Presenting
<1>5. Goes(c, place, w)
  BY <1>4, GoesTo
<1>6. PICK v : wire' = [wire EXCEPT ![c] = v] /\ Runs(v) = Runs(w) /\ pc' = [pc EXCEPT ![c] = place]
  BY <1>5 DEF Goes
<1>7. Runs(wire[c])' = Runs(wire[c]) \union {Len(wire[c]) + 1}
  <2>1. wire'[c] = v
    BY <1>1, <1>6
  <2>2. QED
    BY <1>3, <1>6, <2>1
<1>8. /\ pc[c] = "sending" /\ pc'[c] = place /\ inFlight'[c]
      /\ UNCHANGED <<coreQueue, replies, alive, handling, packed, drawn>>
  BY <1>1, <1>6 DEF SendBatch, hostOnly
<1>9. RunBlocks(c)' = RunBlocks(c) /\ Runs(replies[c])' = Runs(replies[c])
  BY <1>8 DEF RunBlocks
<1>10. alive[c] => NoBatch(c) /\ OneAtMost(c)'
  <2>1. ASSUME alive[c] PROVE NoBatch(c) /\ OneAtMost(c)'
    <3>1. NoBatch(c)
      BY <2>1 DEF BatchOf
    <3>2. Runs(wire[c])' = {Len(wire[c]) + 1} /\ RunBlocks(c)' = {} /\ Runs(replies[c])' = {}
      BY <1>7, <1>9, <3>1 DEF NoBatch
    <3>3. QED
      BY <3>1, <3>2 DEF OneAtMost, Single
  <2>2. QED
    BY <2>1
<1>11. pc'[c] \notin Early /\ pc[c] \in Driving
  BY <1>8 DEF Early, Driving
<1>12. BatchOf(c)'
  BY <1>8, <1>10, <1>11 DEF BatchOf
<1>13. ASSUME GeometryOf(c) PROVE GeometryOf(c)'
  <2>1. Settled(c)' <=> Settled(c)
    BY <1>8 DEF Settled
  <2>2. alive[c] => Settled(c)
    BY <1>11, <1>13 DEF GeometryOf
  <2>3. alive[c] => Runs(replies[c])' = {}
    BY <1>9, <1>10 DEF NoBatch
  <2>4. QED
    BY <1>8, <1>11, <2>1, <2>2, <2>3 DEF GeometryOf
<1>14. QED
  BY <1>12, <1>13

LEMMA Delivering ==
  ASSUME IInv, TypeInv, NEW c \in Sessions, BatchOf(c), Deliver(c), Head(wire[c]).op = "run",
         UNCHANGED clientVars
  PROVE  BatchOf(c)' /\ (GeometryOf(c) => GeometryOf(c)')
<1>1. /\ wire \in [Conns -> Seq(CallRecord)] /\ wire[c] \in Seq(CallRecord) /\ c \in Conns
      /\ wire[c] # <<>> /\ coreQueue \in Seq(Block)
  BY ConnsAssumption DEF IInv, CoreTypes, Deliver
<1>2. PICK q \in Seq(CallRecord) : q = wire[c] /\ q # <<>>
  BY <1>1
<1>3. PICK b : b = [from |-> c, call |-> Head(q)] /\ coreQueue' = Append(coreQueue, b)
  BY <1>2 DEF Deliver
<1>4. b \in Block /\ b.from = c /\ b.call.op = "run"
  <2>1. Head(q) \in CallRecord
    BY <1>2, TakingOne
  <2>2. QED
    BY <1>1, <1>2, <1>3, <2>1 DEF Block
<1>5. RunBlocks(c)' = RunBlocks(c) \union {Len(coreQueue) + 1}
  BY <1>1, <1>3, <1>4, QueuedRuns
<1>6. 1 \in Runs(wire[c]) /\ (Single(Runs(wire[c])) => Runs(wire[c])' = {})
  <2>1. 1 \in Runs(q) /\ (Single(Runs(q)) => Runs(Tail(q)) = {})
    BY <1>2, TailRuns
  <2>2. wire'[c] = Tail(q)
    BY <1>1, <1>2 DEF Deliver
  <2>3. QED
    BY <1>2, <2>1, <2>2
<1>7. UNCHANGED <<replies, drawn, pc, alive, inFlight, packed, handling>>
  BY DEF Deliver, clientVars
<1>8. Runs(replies[c])' = Runs(replies[c])
  BY <1>7 DEF Runs
<1>9. pc[c] \notin Early
  BY <1>6 DEF BatchOf, NoBatch
<1>10. ASSUME alive[c]
       PROVE  OneAtMost(c)' /\ inFlight[c] /\ Runs(wire[c])' = {} /\ Runs(replies[c]) = {}
  <2>1. RunBlocks(c) = {} /\ Runs(replies[c]) = {} /\ Single(Runs(wire[c])) /\ inFlight[c]
    BY <1>6, <1>10 DEF BatchOf, OneAtMost, NoBatch
  <2>2. RunBlocks(c)' = {Len(coreQueue) + 1} /\ Runs(wire[c])' = {}
    BY <1>5, <1>6, <2>1
  <2>3. QED
    BY <1>8, <2>1, <2>2 DEF OneAtMost, Single
<1>11. BatchOf(c)'
  BY <1>7, <1>9, <1>10 DEF BatchOf
<1>12. ASSUME GeometryOf(c) PROVE GeometryOf(c)'
  <2>1. Settled(c)' <=> Settled(c)
    BY <1>7 DEF Settled
  <2>2. pc[c] \in Driving /\ alive[c] => Settled(c)
    BY <1>6, <1>12 DEF GeometryOf
  <2>3. QED
    BY <1>7, <1>8, <1>9, <1>10, <2>1, <2>2 DEF GeometryOf
<1>13. QED
  BY <1>11, <1>12

(* A batch that was run is in the surface that is attached: that of the    *)
(* game, as long as there is one game.                                     *)
SingleGame == \A a, b \in Sessions : a = b

LEMMA RunsOne ==
  ASSUME IInv, TypeInv, NEW c \in Sessions, BatchOf(c), RunFramesShared(c), UNCHANGED clientVars
  PROVE  BatchOf(c)' /\ (SingleGame /\ GeometryOf(c) => GeometryOf(c)')
<1> USE NoneAssumption, ConnsAssumption
<1>1. /\ replies \in [Conns -> Seq(ReplyRecord)] /\ c \in Conns /\ coreQueue \in Seq(Block)
      /\ frameSurface \in Sessions \union {None} /\ drawn \in [Sessions -> Sizes \union {None}]
  BY DEF IInv, CoreTypes, TypeInv, ReplyTypes, HelperTypes
<1>2. NextBlock(c, "run") /\ coreQueue # <<>> /\ Head(coreQueue).from = c /\ Head(coreQueue).call.op = "run"
  BY DEF RunFramesShared, NextBlock
<1>3. PICK ok \in BOOLEAN, size \in Sizes \union {None} :
        /\ Reply(c, ok, size)
        /\ IF ok THEN frameSurface # None /\ drawn' = [drawn EXCEPT ![frameSurface] = size]
                 ELSE drawn' = drawn
  BY DEF RunFramesShared
<1>4. /\ coreQueue' = Tail(coreQueue) /\ wire' = wire
      /\ UNCHANGED <<pc, alive, inFlight, packed, handling>>
  BY <1>3 DEF Reply, clientVars
<1>5. 1 \in RunBlocks(c) /\ (Single(RunBlocks(c)) => RunBlocks(c)' = {})
  BY <1>1, <1>2, <1>4, ExecutedRuns
<1>6. Runs(wire[c])' = Runs(wire[c])
  BY <1>4 DEF Runs
<1>7. \/ replies' = replies
      \/ \E r \in ReplyRecord : /\ r.op = "run" /\ r.ok = ok /\ r.size = size
                                /\ replies' = [replies EXCEPT ![c] = Append(@, r)]
  <2>1. "run" \in Called
    BY DEF Called
  <2>2. QED
    BY <1>2, <1>3, <2>1, Replying
<1>8. /\ handling[c] => replies'[c] # <<>> /\ Head(replies'[c]) = Head(replies[c])
      /\ Runs(replies[c]) = {} => /\ Single(Runs(replies[c])')
                                  /\ \A i \in Runs(replies[c])' : replies'[c][i].ok = ok /\ replies'[c][i].size = size
  <2>1. CASE replies' = replies
    <3>1. Runs(replies[c])' = Runs(replies[c])
      BY <2>1 DEF Runs
    <3>2. QED
      BY <2>1, <3>1 DEF BatchOf, Single
  <2>2. CASE replies' # replies
    <3>1. PICK r \in ReplyRecord : /\ r.op = "run" /\ r.ok = ok /\ r.size = size
                                   /\ replies' = [replies EXCEPT ![c] = Append(@, r)]
      BY <1>7, <2>2
    <3>2. PICK q \in Seq(ReplyRecord) : q = replies[c]
      BY <1>1
    <3>3. /\ Append(q, r) # <<>> /\ (q # <<>> => Head(Append(q, r)) = Head(q))
          /\ Runs(Append(q, r)) = Runs(q) \union (IF r.op = "run" THEN {Len(q) + 1} ELSE {})
          /\ Append(q, r)[Len(q) + 1] = r
      BY AppendedRuns
    <3>4. replies'[c] = Append(q, r)
      BY <1>1, <3>1, <3>2
    <3>5. Runs(replies[c])' = Runs(q) \union {Len(q) + 1}
      BY <3>1, <3>3, <3>4
    <3>6. QED
      BY <3>1, <3>2, <3>3, <3>4, <3>5 DEF BatchOf, Single
  <2>3. QED
    BY <2>1, <2>2
<1>9. pc[c] \notin Early
  BY <1>5 DEF BatchOf, NoBatch
<1>10. ASSUME alive[c]
       PROVE  /\ inFlight[c] /\ ~handling[c] /\ Runs(replies[c]) = {}
              /\ Runs(wire[c])' = {} /\ RunBlocks(c)' = {} /\ OneAtMost(c)'
  <2>1. Runs(wire[c]) = {} /\ Runs(replies[c]) = {} /\ Single(RunBlocks(c)) /\ inFlight[c]
    BY <1>5, <1>10 DEF BatchOf, OneAtMost, NoBatch
  <2>2. Runs(wire[c])' = {} /\ RunBlocks(c)' = {} /\ Single(Runs(replies[c])')
    BY <1>5, <1>6, <1>8, <2>1
  <2>3. ~handling[c]
    <3>1. PICK q \in Seq(ReplyRecord) : q = replies[c]
      BY <1>1
    <3>2. q # <<>> /\ Head(q).op = "run" => Runs(q) # {}
      BY TailRuns
    <3>3. QED
      BY <2>1, <3>1, <3>2 DEF BatchOf
  <2>4. QED
    BY <2>1, <2>2, <2>3 DEF OneAtMost, Single
<1>11. BatchOf(c)'
  BY <1>4, <1>8, <1>9, <1>10 DEF BatchOf
<1>12. ASSUME SingleGame, GeometryOf(c) PROVE GeometryOf(c)'
  <2>1. ok => drawn'[c] = size
    BY <1>1, <1>3, <1>12 DEF SingleGame
  <2>2. ~ok /\ pc[c] \in Driving /\ alive[c] => Settled(c)'
    BY <1>3, <1>4, <1>5, <1>12 DEF GeometryOf, Settled
  <2>3. \A i \in Runs(replies[c])' :
          pc[c] \in Driving /\ alive[c] =>
             IF replies'[c][i].ok THEN replies'[c][i].size = drawn'[c] ELSE Settled(c)'
    BY <1>8, <1>10, <2>1, <2>2
  <2>4. QED
    BY <1>4, <1>9, <1>10, <2>3 DEF GeometryOf
<1>13. QED
  BY <1>11, <1>12

LEMMA Handling ==
  ASSUME IInv, TypeInv, NEW c \in Sessions, BatchOf(c), HandleRunReply(c)
  PROVE  BatchOf(c)' /\ (GeometryOf(c) => GeometryOf(c)')
<1>1. /\ replies \in [Conns -> Seq(ReplyRecord)] /\ c \in Conns
      /\ packed \in [Sessions -> Sizes \union {None}]
      /\ inFlight \in [Sessions -> BOOLEAN] /\ handling \in [Sessions -> BOOLEAN]
  BY ConnsAssumption DEF TypeInv, ReplyTypes, ClientTypes
<1>2. PICK q \in Seq(ReplyRecord) : q = replies[c] /\ q # <<>> /\ Head(q).op = "run"
  BY <1>1 DEF HandleRunReply
<1>3. 1 \in Runs(q) /\ Head(q) = q[1] /\ (Single(Runs(q)) => Runs(Tail(q)) = {})
  BY <1>2, TailRuns
<1>4. UNCHANGED <<wire, coreQueue, pc, alive, drawn>>
  BY DEF HandleRunReply, hostOnly
<1>5. Runs(wire[c])' = Runs(wire[c]) /\ RunBlocks(c)' = RunBlocks(c)
  BY <1>4 DEF Runs, RunBlocks
<1>6. pc[c] \notin Early
  BY <1>2, <1>3 DEF BatchOf, NoBatch
<1>7. ASSUME alive[c]
      PROVE  inFlight[c] /\ Runs(wire[c]) = {} /\ RunBlocks(c) = {} /\ Single(Runs(q)) /\ OneAtMost(c)
  BY <1>2, <1>3, <1>7 DEF BatchOf, OneAtMost, NoBatch
<1>8. CASE ~handling[c]
  <2>1. /\ packed' = IF Head(q).ok THEN [packed EXCEPT ![c] = Head(q).size] ELSE packed
        /\ handling' = [handling EXCEPT ![c] = TRUE] /\ UNCHANGED <<replies, inFlight>>
    BY <1>2, <1>8 DEF HandleRunReply
  <2>2. Runs(replies[c])' = Runs(replies[c]) /\ handling'[c]
    BY <1>1, <2>1 DEF Runs
  <2>3. alive[c] => OneAtMost(c)'
    BY <1>5, <1>7, <2>2 DEF OneAtMost
  <2>4. BatchOf(c)'
    BY <1>2, <1>4, <1>6, <1>7, <2>1, <2>3 DEF BatchOf
  <2>5. ASSUME GeometryOf(c) PROVE GeometryOf(c)'
    <3>1. packed'[c] = IF Head(q).ok THEN Head(q).size ELSE packed[c]
      BY <1>1, <2>1
    <3>2. ASSUME pc[c] \in Driving, alive[c] PROVE Settled(c)'
      <4>1. IF q[1].ok THEN q[1].size = drawn[c] ELSE Settled(c)
        BY <1>2, <1>3, <1>8, <2>5, <3>2 DEF GeometryOf
      <4>2. QED
        BY <1>3, <1>4, <3>1, <4>1 DEF Settled
    <3>3. QED
      BY <1>4, <1>6, <2>2, <3>2 DEF GeometryOf
  <2>6. QED
    BY <2>4, <2>5
<1>9. CASE handling[c]
  <2>1. /\ handling'[c] = FALSE /\ replies'[c] = Tail(q) /\ packed' = packed
    BY <1>1, <1>2, <1>9 DEF HandleRunReply
  <2>2. alive[c] => NoBatch(c)'
    BY <1>3, <1>5, <1>7, <2>1 DEF NoBatch
  <2>3. alive[c] => OneAtMost(c)'
    BY <2>2 DEF OneAtMost, NoBatch, Single
  <2>4. BatchOf(c)'
    BY <1>4, <1>6, <2>1, <2>2, <2>3 DEF BatchOf
  <2>5. ASSUME GeometryOf(c) PROVE GeometryOf(c)'
    <3>1. pc[c] \in Driving /\ alive[c] => Settled(c)'
      BY <1>4, <1>9, <2>1, <2>5 DEF GeometryOf, Settled
    <3>2. QED
      BY <1>4, <1>6, <2>2, <3>1 DEF GeometryOf, NoBatch
  <2>6. QED
    BY <2>4, <2>5
<1>10. QED
  BY <1>8, <1>9

(* A step that draws is a batch that runs. *)
LEMMA Drawing ==
  ASSUME IInv, [Next]_vars, drawn' # drawn
  PROVE  \E d \in Sessions : RunFramesShared(d) /\ UNCHANGED clientVars
<1>1. \E d \in Conns : Execute(d) /\ UNCHANGED clientVars
  BY DEF Next, vars, serviceVars, hostOnly, LoopThread, Answer, TimeOut, HandleRunReply, ConnectionLost,
     CallbackAlive, CallbackLost, SendBatch, PerformState, TearDown, App, StartGame, StopGame, HandleLoss,
     Replace, Replaced, StartProbe, FinishProbe, HostNext, Deliver, Crash
<1>2. PICK d \in Conns : Execute(d) /\ UNCHANGED clientVars
  BY <1>1
<1>3. RunFramesShared(d)
  BY <1>2, Executing
<1>4. d \in Sessions
  <2>1. coreQueue # <<>> /\ Head(coreQueue).from = d /\ Head(coreQueue).call.op = "run"
    BY <1>3 DEF RunFramesShared, NextBlock
  <2>2. 1 \in DOMAIN coreQueue /\ Head(coreQueue) = coreQueue[1]
    BY <2>1, TakingOne DEF IInv, CoreTypes
  <2>3. QED
    BY <2>1, <2>2 DEF IInv, OnlyGamesPlay
<1>5. QED
  BY <1>2, <1>3, <1>4

LEMMA StepBatch == ASSUME IInv, TypeInv, BatchInv, [Next]_vars PROVE BatchInv'
<1>1. ASSUME NEW c \in Sessions PROVE BatchOf(c)'
  <2>1. BatchOf(c)
    BY DEF BatchInv
  <2>2. QED
    BY <2>1, KeptOrBatch, KeptBatch, Sending, Delivering, RunsOne, Handling DEF BatchStep
<1>2. QED
  BY <1>1 DEF BatchInv

LEMMA StepGeometry ==
  ASSUME IInv, TypeInv, BatchInv, GeometryInv, SingleGame, [Next]_vars
  PROVE  GeometryInv'
<1>1. ASSUME NEW c \in Sessions PROVE GeometryOf(c)'
  <2>1. BatchOf(c) /\ GeometryOf(c)
    BY DEF BatchInv, GeometryInv
  <2>2. CASE BatchStep(c)
    BY <2>1, <2>2, Sending, Delivering, RunsOne, Handling DEF BatchStep
  <2>3. CASE ~BatchStep(c)
    <3>1. drawn' = drawn
      BY <2>3, Drawing DEF SingleGame, BatchStep
    <3>2. Kept(c)
      BY <2>1, <2>3, KeptOrBatch
    <3>3. QED
      BY <2>1, <3>1, <3>2, KeptGeometry
  <2>4. QED
    BY <2>2, <2>3
<1>2. QED
  BY <1>1 DEF GeometryInv

LEMMA InitBatch == Init => BatchInv /\ GeometryInv
<1> SUFFICES ASSUME Init, NEW c \in Sessions PROVE BatchOf(c) /\ GeometryOf(c)
  BY DEF BatchInv, GeometryInv
<1>1. wire[c] = <<>> /\ replies[c] = <<>> /\ coreQueue = <<>> /\ ~handling[c] /\ pc[c] = "unborn"
      /\ drawn[c] = None
  BY ConnsAssumption DEF Init, HostInit
<1>2. Runs(wire[c]) = {} /\ RunBlocks(c) = {} /\ Runs(replies[c]) = {}
  BY <1>1 DEF Runs, RunBlocks
<1>3. QED
  BY <1>1, <1>2 DEF BatchOf, GeometryOf, NoBatch, OneAtMost, Single, Driving

THEOREM OnlyOneBatch == Spec => []BatchInv
<1>1. Init => BatchInv
  BY InitBatch
<1>2. IInv /\ TypeInv /\ BatchInv /\ [Next]_vars => BatchInv'
  BY StepBatch
<1>3. QED
  BY <1>1, <1>2, Inductive, Typed, PTL DEF Spec

(* A game whose session is alive has one batch out at most, with any       *)
(* number of games, probes, crashes and timeouts.                          *)
THEOREM AlwaysOneBatch == Spec => []OneBatch
<1>1. BatchInv => OneBatch
  <2> SUFFICES ASSUME BatchInv, NEW c \in Sessions, alive[c], NEW a \in Batches(c), NEW b \in Batches(c)
               PROVE  a = b
    BY DEF OneBatch
  <2>1. OneAtMost(c)
    BY DEF BatchInv, BatchOf
  <2>2. Batches(c) = {<<"called", i>> : i \in Runs(wire[c])} \union
                     {<<"queued", i>> : i \in RunBlocks(c)} \union
                     {<<"answered", i>> : i \in Runs(replies[c])}
    BY DEF Batches, Runs, RunBlocks
  <2>3. QED
    BY <2>1, <2>2 DEF OneAtMost, Single
<1>2. QED
  BY <1>1, OnlyOneBatch, PTL

(* With one game, the size it presents with is that of its pixels whenever *)
(* no batch is out, whatever crashes, is late or is probed.                *)
THEOREM AlwaysItsGeometry == ASSUME SingleGame PROVE Spec => []QuiescentGeometry
<1>1. Init => GeometryInv
  BY InitBatch
<1>2. IInv /\ TypeInv /\ BatchInv /\ GeometryInv /\ [Next]_vars => GeometryInv'
  BY StepGeometry
<1>3. GeometryInv => QuiescentGeometry
  BY DEF GeometryInv, GeometryOf, QuiescentGeometry, Settled, Driving
<1>4. QED
  BY <1>1, <1>2, <1>3, Inductive, Typed, OnlyOneBatch, PTL DEF Spec

-----------------------------------------------------------------------------
(* Whose session a save is from.  Of the calls that a loop thread waits    *)
(* for there is one, in one place: on its wire, in the queue, or answered. *)
OnlyOne(A, B, C) ==
  /\ Single(A) /\ Single(B) /\ Single(C)
  /\ A = {} \/ B = {}
  /\ A = {} \/ C = {}
  /\ B = {} \/ C = {}
Asks(q) == {i \in DOMAIN q : q[i].awaited /\ q[i].op # "run"}
AskBlocks(c) == {i \in DOMAIN coreQueue :
  coreQueue[i].from = c /\ coreQueue[i].call.awaited /\ coreQueue[i].call.op # "run"}
Answers(q) == {i \in DOMAIN q : q[i].op \notin {"run", "interrupted"}}
Wanted(c, op) == pc[c] \in Waits /\ op = AwaitedOp[pc[c]]
CallOf(c) ==
  /\ OnlyOne(Asks(wire[c]), AskBlocks(c), Answers(replies[c]))
  /\ \A i \in Asks(wire[c]) : Wanted(c, wire[c][i].op)
  /\ \A i \in AskBlocks(c) : Wanted(c, coreQueue[i].call.op)
  /\ \A i \in Answers(replies[c]) : Wanted(c, replies[c][i].op)

(* The open of a game is its first call; it closes when it has ended.      *)
From(c) == {i \in DOMAIN coreQueue : coreQueue[i].from = c}
Opens(q) == {i \in DOMAIN q : q[i].op = "open"}
OpenBlocks(c) == {i \in From(c) : coreQueue[i].call.op = "open"}
NoOpen(c) == Opens(wire[c]) = {} /\ OpenBlocks(c) = {}
Ended == {"endClose", "exited", "stranded"}
NoClose(c) ==
  /\ \A i \in DOMAIN wire[c] : wire[c][i].op \notin {"close", "invalidate"}
  /\ \A i \in From(c) : coreQueue[i].call.op # "close"
OrderOf(c) ==
  /\ pc[c] = "unborn" => wire[c] = <<>> /\ replies[c] = <<>> /\ From(c) = {} /\ c \notin peer
  /\ \A i \in Opens(wire[c]) : i = 1 /\ From(c) = {}
  /\ \A i \in From(c), j \in OpenBlocks(c) : j <= i
  /\ pc[c] \in Ended \/ NoClose(c)

(* A game that has opened its session has it, as long as nobody else is    *)
(* about to open one; what it is told to save is from its session.         *)
Keeping == Driving \union {"attach", "endFlush"}
Told(c) == \E i \in DOMAIN replies[c] : replies[c][i].op = "open" /\ replies[c][i].ok
Opened(c) == pc[c] \in Keeping \/ (pc[c] = "open" /\ Told(c))
Owns(c) == session = c \/ (session = None /\ \A d \in Conns \ {c} : NoOpen(d))
OwnSaves(c) ==
  \A i \in DOMAIN replies[c] :
    replies[c][i].op = "saveRAM" /\ replies[c][i].ok => replies[c][i].by = c
OwnerOf(c) == (Opened(c) => Owns(c)) /\ OwnSaves(c)

CallInv == \A c \in Sessions : CallOf(c) /\ OrderOf(c)
OwnerInv == \A c \in Sessions : OwnerOf(c)

(* No third connection, whose call may come between those of two games.    *)
TwoConnections == \A a, b, d \in Conns : a = b \/ b = d \/ a = d

LEMMA FewerAsked ==
  ASSUME NEW A, NEW B, NEW C, OnlyOne(A, B, C), NEW D, NEW E, NEW F, Fewer(D, A), Fewer(E, B), Fewer(F, C)
  PROVE  OnlyOne(D, E, F)
BY DEF OnlyOne, Fewer

LEMMA ForgottenAsks ==
  ASSUME NEW w \in Seq(CallRecord), NEW ops
  PROVE  LET q == Forgotten(w, ops) IN
         /\ DOMAIN q = DOMAIN w
         /\ \A i \in DOMAIN w : q[i].op = w[i].op /\ (q[i].awaited => w[i].awaited /\ w[i].op \notin ops)
<1>1. ASSUME NEW i \in DOMAIN w
      PROVE  [w[i] EXCEPT !.awaited = FALSE].op = w[i].op /\ ~[w[i] EXCEPT !.awaited = FALSE].awaited
  <2>1. w[i] \in CallRecord
    OBVIOUS
  <2>2. QED
    BY <2>1 DEF CallRecord
<1>2. QED
  BY <1>1 DEF Forgotten

LEMMA ForgottenBlockAsks ==
  ASSUME coreQueue \in Seq(Block), NEW c, NEW ops
  PROVE  LET q == ForgottenBlocks(c, ops) IN
         /\ DOMAIN q = DOMAIN coreQueue
         /\ \A i \in DOMAIN q :
              /\ q[i].from = coreQueue[i].from /\ q[i].call.op = coreQueue[i].call.op
              /\ q[i].from # c => q[i] = coreQueue[i]
              /\ q[i].call.awaited => coreQueue[i].call.awaited /\ (q[i].from = c => q[i].call.op \notin ops)
<1> DEFINE b(i) == coreQueue[i]
           f(i) == IF b(i).from = c /\ b(i).call.op \in ops
                   THEN [b(i) EXCEPT !.call.awaited = FALSE] ELSE b(i)
<1>1. ASSUME NEW i \in DOMAIN coreQueue
      PROVE  /\ f(i).from = b(i).from /\ f(i).call.op = b(i).call.op
             /\ f(i).from # c => f(i) = b(i)
             /\ f(i).call.awaited => b(i).call.awaited /\ (f(i).from = c => f(i).call.op \notin ops)
  <2>1. b(i) \in Block
    OBVIOUS
  <2>2. QED
    BY <2>1 DEF Block, CallRecord
<1>2. ForgottenBlocks(c, ops) = [i \in DOMAIN coreQueue |-> f(i)]
  BY DEF ForgottenBlocks
<1>3. QED
  <2> HIDE DEF f, b
  <2>1. /\ DOMAIN ForgottenBlocks(c, ops) = DOMAIN coreQueue
        /\ \A i \in DOMAIN coreQueue : ForgottenBlocks(c, ops)[i] = f(i)
    BY <1>2
  <2>2. \A i \in DOMAIN coreQueue : b(i) = coreQueue[i]
    BY DEF b
  <2>3. QED
    BY <1>1, <2>1, <2>2

(* The reply to the one call a thread gives up on is the one that goes unheard. *)
LEMMA AllUnheard ==
  ASSUME NEW q \in Seq(ReplyRecord), NEW op, op \notin {"run", "interrupted"}, Single(Answers(q)),
         \A i \in Answers(q) : q[i].op = op
  PROVE  Answers(Unheard(q, {op})) = {}
<1> DEFINE late == {i \in DOMAIN q : q[i].op \in {op}}
<1>1. late = Answers(q)
  BY DEF Answers
<1>2. CASE late = {}
  BY <1>1, <1>2 DEF Unheard
<1>3. CASE late # {}
  <2>1. PICK i : i = (CHOOSE k \in late : TRUE)
    BY Zenon
  <2>2. i \in late /\ i \in DOMAIN q
    BY <1>3, <2>1
  <2>3. Unheard(q, {op}) = RemoveAt(q, i)
    BY <1>3, <2>1 DEF Unheard
  <2>4. PICK r \in Seq(ReplyRecord) : r = RemoveAt(q, i)
    BY <2>2, Removing
  <2>5. \A k \in DOMAIN r :
          \/ k < i /\ k \in DOMAIN q /\ r[k] = q[k]
          \/ k >= i /\ k + 1 \in DOMAIN q /\ r[k] = q[k + 1]
    BY <2>2, <2>4, Removing
  <2>6. \A k \in DOMAIN r : \E j \in DOMAIN q : j # i /\ r[k] = q[j]
    <3>1. \A k \in DOMAIN r : k \in Nat
      OBVIOUS
    <3>2. \A k \in DOMAIN q : k \in Nat
      OBVIOUS
    <3>3. QED
      BY <2>2, <2>5, <3>1, <3>2
  <2>7. \A j \in Answers(q) : j = i
    BY <1>1, <2>2 DEF Single
  <2>8. Answers(r) = {}
    BY <2>6, <2>7 DEF Answers
  <2>9. QED
    BY <2>3, <2>4, <2>8
<1>4. QED
  BY <1>2, <1>3

(* A loop thread moves on, and makes the call it waits at its place for. *)
Posts(c, place, w) ==
  /\ pc' = [pc EXCEPT ![c] = place]
  /\ \/ place \in Waits /\ wire' = [wire EXCEPT ![c] = Append(w, Call(AwaitedOp[place]))]
     \/ place \notin Waits /\ wire' = [wire EXCEPT ![c] = w]
     \/ place = "exited" /\ wire' = [wire EXCEPT ![c] = Append(w, Notice("invalidate"))]
Leaves(c, place, ok) ==
  /\ place \in Places \ {"unborn", "open"}
  /\ place \in Keeping => pc[c] \in Keeping \/ (pc[c] = "open" /\ ok)
  /\ pc[c] \notin {"unborn", "exited", "stranded"} /\ (pc[c] = "endClose" => place = "exited")

LEMMA Posting ==
  ASSUME NEW c, NEW w, NEW place
  PROVE  /\ GoTo(c, place, w) => Posts(c, place, w)
         /\ GoTo(c, "exited", Invalidated(c, w)) => Posts(c, "exited", w)
BY DEF GoTo, Posts, Invalidated, Waits, AwaitedOp

LEMMA ResumePosts ==
  ASSUME NEW c \in Sessions, NEW ok \in BOOLEAN, NEW by, NEW w, Resume(c, ok, by, w)
  PROVE  /\ \E place : Posts(c, place, w) /\ Leaves(c, place, ok)
         /\ \/ stored' = stored
            \/ ok /\ pc[c] \in {"flush", "endFlush"} /\ stored' = stored \union {<<c, by>>}
<1> DEFINE Done == \E place : Posts(c, place, w) /\ Leaves(c, place, ok)
<1> USE DEF Places, Waits, AwaitedOp, Driving, Keeping, Leaves
<1>1. ASSUME LoadFailed(c, w), pc[c] \in {"open", "attach"} PROVE Done
  <2>1. PICK place \in {"failed", "stranded"} : Posts(c, place, w)
    BY <1>1, Posting DEF LoadFailed
  <2>2. QED
    BY <1>1, <2>1
<1>2. ASSUME Restoring(c, w), pc[c] \in Keeping PROVE Done
  <2>1. PICK place \in {"restore", "armed"} : Posts(c, place, w)
    BY <1>2, Posting DEF Restoring
  <2>2. Leaves(c, place, ok)
    BY <1>2, <2>1
  <2>3. QED
    BY <2>1, <2>2
<1>3. ASSUME Optioning(c, w), pc[c] = "attach" PROVE Done
  <2>1. CASE Restoring(c, w)
    BY <1>2, <1>3, <2>1
  <2>2. CASE GoTo(c, "options", w)
    <3>1. Posts(c, "options", w)
      BY <2>2, Posting
    <3>2. Leaves(c, "options", ok)
      BY <1>3
    <3>3. QED
      BY <3>1, <3>2
  <2>3. QED
    BY <1>3, <2>1, <2>2 DEF Optioning
<1>4. ASSUME Closing(c, w), pc[c] = "endFlush" PROVE Done
  <2>1. PICK place \in {"endClose", "exited"} : Posts(c, place, w)
    BY <1>4, Posting DEF Closing
  <2>2. QED
    BY <1>4, <2>1
<1>5. ASSUME GoTo(c, "armed", w), pc[c] \in Keeping PROVE Done
  <2>1. Posts(c, "armed", w)
    BY <1>5, Posting
  <2>2. Leaves(c, "armed", ok)
    BY <1>5
  <2>3. QED
    BY <2>1, <2>2
<1>6. ASSUME GoTo(c, "attach", w), pc[c] = "open", ok PROVE Done
  <2>1. Posts(c, "attach", w)
    BY <1>6, Posting
  <2>2. Leaves(c, "attach", ok)
    BY <1>6
  <2>3. QED
    BY <2>1, <2>2
<1>7. ASSUME GoTo(c, "exited", Invalidated(c, w)), pc[c] = "endClose" PROVE Done
  <2>1. Posts(c, "exited", w)
    BY <1>7, Posting
  <2>2. Leaves(c, "exited", ok)
    BY <1>7
  <2>3. QED
    BY <2>1, <2>2
<1>8. pc[c] \in {"options", "restore", "serialize", "unserialize", "flush", "attach"} => pc[c] \in Keeping
  OBVIOUS
<1> HIDE DEF Places, Waits, AwaitedOp, Driving, Keeping, Leaves, Done
<1>9. Done
  BY <1>1, <1>2, <1>3, <1>4, <1>5, <1>6, <1>7, <1>8 DEF Resume
<1>10. \/ stored' = stored
       \/ ok /\ pc[c] \in {"flush", "endFlush"} /\ stored' = stored \union {<<c, by>>}
  BY DEF Resume
<1>11. QED
  BY <1>9, <1>10 DEF Done

(* Nothing is waited for, and what is on the wire is what was there.       *)
Quieted(c, w) ==
  /\ w \in Seq(CallRecord) /\ Asks(w) = {} /\ AskBlocks(c)' = {} /\ Answers(replies[c])' = {}
  /\ Opens(w) = Opens(wire[c])
  /\ \A i \in DOMAIN w : w[i].op \in {"close", "invalidate"} =>
       i \in DOMAIN wire[c] /\ wire[c][i].op = w[i].op

(* What was made of a wire. *)
LEMMA PostedCalls ==
  ASSUME wire \in [Conns -> Seq(CallRecord)], NEW c \in Conns, NEW w \in Seq(CallRecord), Asks(w) = {},
         NEW place, place \notin {"unborn", "open"}, Posts(c, place, w)
  PROVE  /\ Single(Asks(wire'[c])) /\ Opens(wire'[c]) = Opens(w)
         /\ \A i \in Asks(wire'[c]) : place \in Waits /\ wire'[c][i].op = AwaitedOp[place]
         /\ \A i \in DOMAIN wire'[c] : wire'[c][i].op \in {"close", "invalidate"} =>
              place \in {"endClose", "exited"} \/ (i \in DOMAIN w /\ wire'[c][i] = w[i])
         /\ \A d \in Conns \ {c} : wire'[d] = wire[d]
<1>1. PICK v : wire' = [wire EXCEPT ![c] = v] /\ v = wire'[c]
  BY DEF Posts
<1>2. \A d \in Conns \ {c} : wire'[d] = wire[d]
  BY <1>1
<1>3. CASE wire'[c] = w
  BY <1>2, <1>3 DEF Single
<1>4. ASSUME NEW x \in CallRecord, wire'[c] = Append(w, x), x.op # "open",
             x.awaited => place \in Waits /\ x.op = AwaitedOp[place],
             x.op \in {"close", "invalidate"} => place \in {"endClose", "exited"}
      PROVE  /\ Single(Asks(wire'[c])) /\ Opens(wire'[c]) = Opens(w)
             /\ \A i \in Asks(wire'[c]) : place \in Waits /\ wire'[c][i].op = AwaitedOp[place]
             /\ \A i \in DOMAIN wire'[c] : wire'[c][i].op \in {"close", "invalidate"} =>
                  place \in {"endClose", "exited"} \/ (i \in DOMAIN w /\ wire'[c][i] = w[i])
  <2>1. PICK q \in Seq(CallRecord) : q = Append(w, x)
    BY Appending
  <2>2. \A i \in DOMAIN q : \/ i = Len(w) + 1 /\ q[i] = x
                            \/ i \in DOMAIN w /\ q[i] = w[i]
    BY <2>1, Appending
  <2>3. \A i \in DOMAIN w : i \in DOMAIN q /\ q[i] = w[i]
    BY <2>1
  <2>4. \A i \in Asks(q) : i = Len(w) + 1 /\ q[i] = x
    BY <2>2 DEF Asks
  <2>5. Opens(q) = Opens(w)
    BY <1>4, <2>2, <2>3 DEF Opens
  <2>6. \A i \in Asks(q) : q[i].awaited
    BY DEF Asks
  <2>7. QED
    BY <1>4, <2>1, <2>2, <2>4, <2>5, <2>6 DEF Single
<1>5. CASE place \in Waits /\ wire'[c] = Append(w, Call(AwaitedOp[place]))
  <2>1. PICK x \in CallRecord : x = Call(AwaitedOp[place]) /\ x.op = AwaitedOp[place]
    BY <1>5, CallTypes DEF Call
  <2>2. x.op # "open" /\ (x.op \in {"close", "invalidate"} => place \in {"endClose", "exited"})
    BY <1>5, <2>1 DEF Waits, AwaitedOp
  <2>3. QED
    BY <1>2, <1>4, <1>5, <2>1, <2>2
<1>6. CASE place = "exited" /\ wire'[c] = Append(w, Notice("invalidate"))
  <2>1. PICK x \in CallRecord : x = Notice("invalidate") /\ x.op = "invalidate" /\ ~x.awaited
    BY CallTypes DEF Notice
  <2>2. QED
    BY <1>2, <1>4, <1>6, <2>1
<1>7. QED
  BY <1>3, <1>5, <1>6 DEF Posts

LEMMA FreeToPost ==
  ASSUME NEW c, CallOf(c), pc[c] \notin Waits, UNCHANGED <<coreQueue, replies>>,
         NEW q \in Seq(CallRecord), q = wire[c]
  PROVE  Quieted(c, q) /\ Quieted(c, Append(q, Call("run")))
<1>1. Asks(q) = {} /\ AskBlocks(c) = {} /\ Answers(replies[c]) = {}
  BY DEF CallOf, Wanted
<1>2. AskBlocks(c)' = {} /\ Answers(replies[c])' = {}
  BY <1>1 DEF AskBlocks, Answers
<1>3. PICK x \in CallRecord : x = Call("run") /\ x.op = "run"
  BY CallTypes DEF Call
<1>4. PICK v \in Seq(CallRecord) : v = Append(q, x)
  BY Appending
<1>5. \A i \in DOMAIN v : \/ i = Len(q) + 1 /\ v[i] = x
                          \/ i \in DOMAIN q /\ v[i] = q[i]
  BY <1>4, Appending
<1>6. \A i \in DOMAIN q : i \in DOMAIN v /\ v[i] = q[i]
  BY <1>4
<1>7. Opens(v) = Opens(q) /\ Asks(v) = {}
  BY <1>1, <1>3, <1>5, <1>6 DEF Opens, Asks
<1>8. \A i \in DOMAIN v : v[i].op \in {"close", "invalidate"} => i \in DOMAIN q /\ q[i].op = v[i].op
  BY <1>3, <1>5
<1>9. QED
  BY <1>1, <1>2, <1>3, <1>4, <1>7, <1>8 DEF Quieted

ThreadMoves(c) ==
  \/ UNCHANGED <<pc, wire, coreQueue>> /\ Fewer(Answers(replies[c])', Answers(replies[c]))
  \/ \E place, w : \E ok \in BOOLEAN :
       /\ Posts(c, place, w) /\ Leaves(c, place, ok) /\ Quieted(c, w)
       /\ pc[c] = "open" /\ ok => Told(c)
Heard(c) ==
  \A i \in DOMAIN replies'[c] : \E j \in DOMAIN replies[c] : replies'[c][i] = replies[c][j]
Stores(c) ==
  \/ stored' = stored
  \/ \E i \in DOMAIN replies[c] :
       /\ replies[c][i].op = "saveRAM" /\ replies[c][i].ok
       /\ stored' = stored \union {<<c, replies[c][i].by>>}

LEMMA HeadHeard ==
  ASSUME NEW c, NEW q \in Seq(ReplyRecord), q = replies[c], q # <<>>, replies'[c] = Tail(q)
  PROVE  /\ Heard(c) /\ Head(q) \in ReplyRecord /\ 1 \in DOMAIN replies[c] /\ Head(q) = replies[c][1]
         /\ Fewer(Answers(replies[c])', Answers(replies[c]))
         /\ Head(q).op \notin {"run", "interrupted"} /\ Single(Answers(replies[c])) =>
              1 \in Answers(replies[c]) /\ Answers(replies[c])' = {}
<1>1. /\ Tail(q) \in Seq(ReplyRecord) /\ Head(q) \in ReplyRecord /\ 1 \in DOMAIN q /\ Head(q) = q[1]
      /\ \A i \in DOMAIN Tail(q) : i + 1 \in DOMAIN q /\ Tail(q)[i] = q[i + 1]
  BY TakingOne
<1>2. \A i \in DOMAIN Tail(q) : i \in Nat /\ i + 1 # 1
  OBVIOUS
<1>3. \A i \in Answers(Tail(q)) : i + 1 \in Answers(q) /\ i \in Nat /\ i + 1 # 1
  BY <1>1, <1>2 DEF Answers
<1>4. Fewer(Answers(Tail(q)), Answers(q))
  BY <1>3 DEF Fewer, Single
<1>5. Head(q).op \notin {"run", "interrupted"} => 1 \in Answers(q)
  BY <1>1 DEF Answers
<1>6. 1 \in Answers(q) /\ Single(Answers(q)) => Answers(Tail(q)) = {}
  BY <1>3 DEF Single
<1>7. Answers(replies[c])' = Answers(Tail(q)) /\ Answers(replies[c]) = Answers(q)
  OBVIOUS
<1>8. Heard(c)
  BY <1>1 DEF Heard
<1>9. QED
  BY <1>1, <1>4, <1>5, <1>6, <1>7, <1>8

LEMMA AnswerMoves ==
  ASSUME IInv, TypeInv, NEW c \in Sessions, CallOf(c), Answer(c)
  PROVE  ThreadMoves(c) /\ Heard(c) /\ Stores(c)
<1>1. /\ replies \in [Conns -> Seq(ReplyRecord)] /\ wire[c] \in Seq(CallRecord) /\ c \in Conns
  BY ConnsAssumption DEF IInv, CoreTypes, TypeInv, ReplyTypes
<1>2. PICK q \in Seq(ReplyRecord) : q = replies[c] /\ q # <<>> /\ replies'[c] = Tail(q)
  BY <1>1 DEF Answer
<1>3. PICK r : /\ r = Head(q) /\ pc[c] \in Waits /\ r.op = AwaitedOp[pc[c]]
               /\ Resume(c, r.ok, r.by, wire[c]) /\ coreQueue' = coreQueue
  BY <1>2 DEF Answer
<1>4. /\ Heard(c) /\ r \in ReplyRecord /\ 1 \in DOMAIN replies[c] /\ r = replies[c][1]
      /\ r.op \notin {"run", "interrupted"} /\ Single(Answers(replies[c])) =>
           1 \in Answers(replies[c]) /\ Answers(replies[c])' = {}
  BY <1>2, <1>3, HeadHeard
<1>5. r.op \notin {"run", "interrupted"}
  BY <1>3 DEF Waits, AwaitedOp
<1>6. /\ Asks(wire[c]) = {} /\ AskBlocks(c) = {} /\ Answers(replies[c])' = {}
  BY <1>4, <1>5 DEF CallOf, OnlyOne
<1>7. AskBlocks(c)' = {}
  BY <1>3, <1>6 DEF AskBlocks
<1>8. Quieted(c, wire[c])
  BY <1>1, <1>6, <1>7 DEF Quieted
<1>9. r.ok \in BOOLEAN
  BY <1>4 DEF ReplyRecord
<1>10. /\ \E place : Posts(c, place, wire[c]) /\ Leaves(c, place, r.ok)
       /\ \/ stored' = stored
          \/ r.ok /\ pc[c] \in {"flush", "endFlush"} /\ stored' = stored \union {<<c, r.by>>}
  BY <1>3, <1>9, ResumePosts
<1>11. pc[c] = "open" /\ r.ok => Told(c)
  BY <1>3, <1>4 DEF Told, AwaitedOp
<1>12. ThreadMoves(c)
  BY <1>8, <1>9, <1>10, <1>11 DEF ThreadMoves
<1>13. Stores(c)
  BY <1>3, <1>4, <1>10 DEF Stores, AwaitedOp
<1>14. QED
  BY <1>4, <1>12, <1>13

LEMMA TimeOutMoves ==
  ASSUME IInv, TypeInv, NEW c \in Sessions, CallOf(c), TimeOut(c)
  PROVE  ThreadMoves(c) /\ Heard(c) /\ Stores(c)
<1>1. /\ replies \in [Conns -> Seq(ReplyRecord)] /\ wire[c] \in Seq(CallRecord) /\ c \in Conns
      /\ coreQueue \in Seq(Block)
  BY ConnsAssumption DEF IInv, CoreTypes, TypeInv, ReplyTypes
<1>2. PICK op : op = AwaitedOp[pc[c]] /\ pc[c] \in Waits
  BY DEF TimeOut
<1>3. op \notin {"run", "interrupted"}
  BY <1>2 DEF Waits, AwaitedOp
<1>4. /\ coreQueue' = ForgottenBlocks(c, {op})
      /\ replies' = [replies EXCEPT ![c] = Unheard(@, {op})]
      /\ Resume(c, FALSE, None, Forgotten(wire[c], {op}))
  BY <1>2 DEF TimeOut
<1>5. PICK q \in Seq(ReplyRecord) : q = replies[c] /\ replies'[c] = Unheard(q, {op})
  BY <1>1, <1>4
<1>6. Heard(c)
  BY <1>3, <1>5, UnheardRuns DEF Heard
<1>7. Answers(replies[c])' = {}
  <2>1. Single(Answers(q)) /\ \A i \in Answers(q) : q[i].op = op
    BY <1>2, <1>5 DEF CallOf, OnlyOne, Wanted
  <2>2. Answers(Unheard(q, {op})) = {}
    BY <1>3, <2>1, AllUnheard
  <2>3. QED
    BY <1>5, <2>2
<1>8. PICK w \in Seq(CallRecord) : w = Forgotten(wire[c], {op})
  BY <1>1, GivenUp
<1>9. DOMAIN w = DOMAIN wire[c] /\ \A i \in DOMAIN w :
        w[i].op = wire[c][i].op /\ (w[i].awaited => wire[c][i].awaited /\ w[i].op # op)
  <2>1. DOMAIN w = DOMAIN wire[c] /\ \A i \in DOMAIN wire[c] :
          w[i].op = wire[c][i].op /\ (w[i].awaited => wire[c][i].awaited /\ wire[c][i].op \notin {op})
    BY <1>1, <1>8, ForgottenAsks
  <2>2. QED
    BY <2>1
<1>10. Asks(w) = {}
  <2>1. \A i \in Asks(wire[c]) : wire[c][i].op = op
    BY <1>2 DEF CallOf, Wanted
  <2>2. QED
    BY <1>9, <2>1 DEF Asks
<1>11. AskBlocks(c)' = {}
  <2>1. \A i \in AskBlocks(c) : coreQueue[i].call.op = op
    BY <1>2 DEF CallOf, Wanted
  <2>2. DOMAIN coreQueue' = DOMAIN coreQueue /\ \A i \in DOMAIN coreQueue' :
          /\ coreQueue'[i].from = coreQueue[i].from /\ coreQueue'[i].call.op = coreQueue[i].call.op
          /\ coreQueue'[i].call.awaited =>
               coreQueue[i].call.awaited /\ (coreQueue'[i].from = c => coreQueue'[i].call.op \notin {op})
    BY <1>1, <1>4, ForgottenBlockAsks
  <2>3. QED
    BY <2>1, <2>2 DEF AskBlocks
<1>12. Quieted(c, w)
  BY <1>7, <1>9, <1>10, <1>11 DEF Quieted, Opens
<1>13. /\ \E place : Posts(c, place, w) /\ Leaves(c, place, FALSE)
       /\ stored' = stored
  BY <1>4, <1>8, ResumePosts
<1>14. ThreadMoves(c) /\ Stores(c)
  BY <1>12, <1>13 DEF ThreadMoves, Stores
<1>15. QED
  BY <1>6, <1>14

LEMMA QuietMoves ==
  ASSUME IInv, TypeInv, NEW c \in Sessions, CallOf(c), HandleRunReply(c) \/ ConnectionLost(c) \/ CallbackLost(c)
  PROVE  ThreadMoves(c) /\ Heard(c) /\ Stores(c)
<1>1. replies \in [Conns -> Seq(ReplyRecord)] /\ c \in Conns
  BY ConnsAssumption DEF TypeInv, ReplyTypes
<1>2. UNCHANGED <<pc, wire, coreQueue, stored>>
  BY DEF HandleRunReply, ConnectionLost, CallbackLost, serviceVars
<1>3. \/ replies' = replies
      \/ replies[c] # <<>> /\ replies' = [replies EXCEPT ![c] = Tail(@)]
  BY DEF HandleRunReply, ConnectionLost, CallbackLost, serviceVars
<1>4. Heard(c) /\ Fewer(Answers(replies[c])', Answers(replies[c]))
  <2>1. CASE replies' = replies
    BY <2>1, SameIsFewer DEF Heard
  <2>2. CASE replies[c] # <<>> /\ replies' = [replies EXCEPT ![c] = Tail(@)]
    <3>1. PICK q \in Seq(ReplyRecord) : q = replies[c] /\ q # <<>> /\ replies'[c] = Tail(q)
      BY <1>1, <2>2
    <3>2. QED
      BY <3>1, HeadHeard
  <2>3. QED
    BY <1>3, <2>1, <2>2
<1>5. QED
  BY <1>2, <1>4 DEF ThreadMoves, Stores

LEMMA FreeMoves ==
  ASSUME IInv, TypeInv, NEW c \in Sessions, CallOf(c),
         CallbackAlive(c) \/ SendBatch(c) \/ PerformState(c) \/ TearDown(c)
  PROVE  ThreadMoves(c) /\ Heard(c) /\ Stores(c)
<1>1. wire \in [Conns -> Seq(CallRecord)] /\ wire[c] \in Seq(CallRecord) /\ c \in Conns
  BY ConnsAssumption DEF IInv, CoreTypes
<1>2. UNCHANGED <<coreQueue, replies, stored>>
  BY DEF CallbackAlive, SendBatch, PerformState, TearDown, serviceVars
<1>3. pc[c] \in {"armed", "sending", "failed"}
  BY DEF CallbackAlive, SendBatch, PerformState, TearDown
<1>4. pc[c] \notin Waits
  BY <1>3 DEF Waits, AwaitedOp
<1>5. PICK q \in Seq(CallRecord) : q = wire[c]
  BY <1>1
<1>6. Quieted(c, q) /\ Quieted(c, Append(q, Call("run")))
  BY <1>2, <1>4, <1>5, FreeToPost
<1>7. Heard(c) /\ Stores(c)
  BY <1>2 DEF Heard, Stores
<1>8. ASSUME NEW place, NEW w, Posts(c, place, w), w \in {q, Append(q, Call("run"))},
             place \in {"sending", "armed", "flush", "serialize", "unserialize", "endFlush", "endClose", "exited"},
             place \in Keeping => pc[c] \in Keeping
      PROVE  ThreadMoves(c)
  <2>1. Leaves(c, place, FALSE)
    BY <1>3, <1>8 DEF Leaves, Places, Waits, AwaitedOp
  <2>2. Quieted(c, w)
    BY <1>6, <1>8
  <2>3. pc[c] # "open"
    BY <1>3
  <2>4. QED
    BY <1>8, <2>1, <2>2, <2>3 DEF ThreadMoves
<1>9. CASE CallbackAlive(c)
  <2>1. Posts(c, "sending", q)
    BY <1>1, <1>5, <1>9 DEF CallbackAlive, serviceVars, Posts, Waits, AwaitedOp
  <2>2. pc[c] \in Keeping
    BY <1>9 DEF CallbackAlive, Keeping, Driving
  <2>3. QED
    BY <1>7, <1>8, <2>1, <2>2
<1>10. CASE SendBatch(c)
  <2>1. PICK w \in {q, Append(q, Call("run"))}, place \in {"armed", "flush"} : GoTo(c, place, w)
    <3>1. PICK w : w = (IF inFlight[c] THEN q ELSE Append(q, Call("run"))) /\ Presenting(c, w)
      BY <1>5, <1>10 DEF SendBatch
    <3>2. QED
      BY <3>1 DEF Presenting
  <2>2. Posts(c, place, w)
    BY <2>1, Posting
  <2>3. pc[c] \in Keeping
    BY <1>10 DEF SendBatch, Keeping, Driving
  <2>4. QED
    BY <1>7, <1>8, <2>1, <2>2, <2>3
<1>11. CASE PerformState(c)
  <2>1. PICK place \in {"serialize", "unserialize"} : GoTo(c, place, q)
    BY <1>5, <1>11 DEF PerformState
  <2>2. Posts(c, place, q)
    BY <2>1, Posting
  <2>3. pc[c] \in Keeping
    BY <1>11 DEF PerformState, Keeping, Driving
  <2>4. QED
    BY <1>7, <1>8, <2>1, <2>2, <2>3
<1>12. CASE TearDown(c)
  <2>1. \/ pc[c] = "armed" /\ GoTo(c, "endFlush", q)
        \/ GoTo(c, "endClose", q) \/ GoTo(c, "exited", Invalidated(c, q))
    BY <1>5, <1>12 DEF TearDown, Ending, Closing
  <2>2. PICK place \in {"endFlush", "endClose", "exited"} :
          Posts(c, place, q) /\ (place = "endFlush" => pc[c] = "armed")
    BY <2>1, Posting
  <2>3. place \in Keeping => pc[c] \in Keeping
    BY <2>2 DEF Keeping, Driving
  <2>4. QED
    BY <1>7, <1>8, <2>2, <2>3
<1>13. QED
  BY <1>9, <1>10, <1>11, <1>12

LEMMA AnyMoves ==
  ASSUME IInv, TypeInv, NEW c \in Sessions, CallOf(c), LoopThread(c)
  PROVE  ThreadMoves(c) /\ Heard(c) /\ Stores(c)
BY AnswerMoves, TimeOutMoves, QuietMoves, FreeMoves DEF LoopThread

-----------------------------------------------------------------------------
(* A step that leaves the calls of c where they are, or drops some. *)
Within(S, p, T, q) == (\A i \in S : \E j \in T : p[i] = q[j]) /\ (Single(T) => Single(S))
LEMMA KeptCallOf ==
  ASSUME NEW c, CallOf(c), pc'[c] = pc[c], Within(Asks(wire[c])', wire'[c], Asks(wire[c]), wire[c]),
         Within(AskBlocks(c)', coreQueue', AskBlocks(c), coreQueue),
         Within(Answers(replies[c])', replies'[c], Answers(replies[c]), replies[c])
  PROVE  CallOf(c)'
<1>1. /\ Fewer(Asks(wire[c])', Asks(wire[c])) /\ Fewer(AskBlocks(c)', AskBlocks(c))
      /\ Fewer(Answers(replies[c])', Answers(replies[c]))
  BY DEF Within, Fewer
<1>2. OnlyOne(Asks(wire[c])', AskBlocks(c)', Answers(replies[c])')
  BY <1>1, FewerAsked DEF CallOf
<1>3. \A op : Wanted(c, op) => pc'[c] \in Waits /\ op = AwaitedOp[pc'[c]]
  BY DEF Wanted
<1>4. /\ \A i \in Asks(wire[c])' : \E j \in Asks(wire[c]) : wire'[c][i] = wire[c][j]
      /\ \A i \in AskBlocks(c)' : \E j \in AskBlocks(c) : coreQueue'[i] = coreQueue[j]
      /\ \A i \in Answers(replies[c])' : \E j \in Answers(replies[c]) : replies'[c][i] = replies[c][j]
  BY DEF Within
<1>5. QED
  BY <1>2, <1>3, <1>4 DEF CallOf, Wanted

LEMMA SameCalls ==
  ASSUME NEW c
  PROVE  /\ wire'[c] = wire[c] => Within(Asks(wire[c])', wire'[c], Asks(wire[c]), wire[c])
         /\ replies'[c] = replies[c] => Within(Answers(replies[c])', replies'[c], Answers(replies[c]), replies[c])
         /\ coreQueue' = coreQueue => Within(AskBlocks(c)', coreQueue', AskBlocks(c), coreQueue)
<1>1. wire'[c] = wire[c] => Asks(wire[c])' = Asks(wire[c])
  BY DEF Asks
<1>2. replies'[c] = replies[c] => Answers(replies[c])' = Answers(replies[c])
  BY DEF Answers
<1>3. coreQueue' = coreQueue => AskBlocks(c)' = AskBlocks(c)
  BY DEF AskBlocks
<1>4. QED
  BY <1>1, <1>2, <1>3 DEF Within, Single

(* The game's own thread. *)
NoNewOpen == \A e \in Conns : NoOpen(e) => NoOpen(e)'
SameOrigins(c) == From(c)' = From(c) /\ OpenBlocks(c)' = OpenBlocks(c)
                  /\ \A i \in From(c) : coreQueue'[i].call.op = coreQueue[i].call.op

LEMMA ThreadOrigins ==
  ASSUME IInv, NEW d \in Sessions, LoopThread(d), NEW c
  PROVE  SameOrigins(c)
<1>1. DOMAIN coreQueue' = DOMAIN coreQueue /\ \A i \in DOMAIN coreQueue :
        coreQueue'[i].from = coreQueue[i].from /\ coreQueue'[i].call.op = coreQueue[i].call.op
  BY ThreadSteps
<1>2. QED
  BY <1>1 DEF SameOrigins, From, OpenBlocks

LEMMA OwnThreadCall ==
  ASSUME IInv, TypeInv, NEW c \in Sessions, CallOf(c), LoopThread(c)
  PROVE  CallOf(c)'
<1>1. /\ wire \in [Conns -> Seq(CallRecord)] /\ pc \in [Sessions -> Places] /\ c \in Conns
  BY ConnsAssumption DEF IInv, CoreTypes, TurnsInv
<1>2. ThreadMoves(c) /\ Heard(c)
  BY AnyMoves
<1>3. CASE UNCHANGED <<pc, wire, coreQueue>> /\ Fewer(Answers(replies[c])', Answers(replies[c]))
  <2>1. \A i \in Answers(replies[c])' : \E j \in Answers(replies[c]) : replies'[c][i] = replies[c][j]
    BY <1>2 DEF Heard, Answers
  <2>2. Within(Answers(replies[c])', replies'[c], Answers(replies[c]), replies[c])
    BY <1>3, <2>1 DEF Within, Fewer
  <2>3. QED
    BY <1>3, <2>2, SameCalls, KeptCallOf
<1>4. CASE \E place, w : \E ok \in BOOLEAN : Posts(c, place, w) /\ Leaves(c, place, ok) /\ Quieted(c, w)
  <2>1. PICK place, w : Posts(c, place, w) /\ Quieted(c, w) /\ place \notin {"unborn", "open"}
    BY <1>4 DEF Leaves
  <2>2. w \in Seq(CallRecord) /\ Asks(w) = {} /\ AskBlocks(c)' = {} /\ Answers(replies[c])' = {}
    BY <2>1 DEF Quieted
  <2>3. Single(Asks(wire'[c])) /\ \A i \in Asks(wire'[c]) : place \in Waits /\ wire'[c][i].op = AwaitedOp[place]
    BY <1>1, <2>1, <2>2, PostedCalls
  <2>4. pc'[c] = place
    BY <1>1, <2>1 DEF Posts
  <2>5. QED
    BY <2>2, <2>3, <2>4 DEF CallOf, OnlyOne, Wanted, Single
<1>5. QED
  BY <1>2, <1>3, <1>4 DEF ThreadMoves

LEMMA OwnThreadOrder ==
  ASSUME IInv, TypeInv, NEW c \in Sessions, CallOf(c), OrderOf(c), LoopThread(c)
  PROVE  OrderOf(c)'
<1>1. /\ wire \in [Conns -> Seq(CallRecord)] /\ pc \in [Sessions -> Places] /\ c \in Conns
  BY ConnsAssumption DEF IInv, CoreTypes, TurnsInv
<1>2. ThreadMoves(c) /\ SameOrigins(c)
  BY AnyMoves, ThreadOrigins
<1>3. CASE UNCHANGED <<pc, wire, coreQueue>>
  <2>1. pc[c] # "unborn"
    <3>1. replies[c] # <<>> \/ pc[c] \in Waits \union {"armed", "sending", "failed"}
      BY DEF LoopThread, Answer, TimeOut, HandleRunReply, ConnectionLost, CallbackAlive, CallbackLost,
         SendBatch, PerformState, TearDown
    <3>2. QED
      BY <3>1 DEF OrderOf, Waits, AwaitedOp
  <2>2. QED
    BY <1>3, <2>1 DEF OrderOf, Opens, From, OpenBlocks, NoClose
<1>4. CASE \E place, w : \E ok \in BOOLEAN : Posts(c, place, w) /\ Leaves(c, place, ok) /\ Quieted(c, w)
  <2>1. PICK place, w : Posts(c, place, w) /\ Quieted(c, w) /\ \E ok \in BOOLEAN : Leaves(c, place, ok)
    BY <1>4
  <2>2. /\ w \in Seq(CallRecord) /\ Asks(w) = {} /\ Opens(w) = Opens(wire[c])
        /\ \A i \in DOMAIN w : w[i].op \in {"close", "invalidate"} =>
             i \in DOMAIN wire[c] /\ wire[c][i].op = w[i].op
    BY <2>1 DEF Quieted
  <2>3. /\ place \notin {"unborn", "open"} /\ pc[c] \notin {"exited", "stranded"}
        /\ pc[c] = "endClose" => place = "exited"
    BY <2>1 DEF Leaves
  <2>4. /\ Opens(wire'[c]) = Opens(w)
        /\ \A i \in DOMAIN wire'[c] : wire'[c][i].op \in {"close", "invalidate"} =>
             place \in {"endClose", "exited"} \/ (i \in DOMAIN w /\ wire'[c][i] = w[i])
    BY <1>1, <2>1, <2>2, <2>3, PostedCalls
  <2>5. pc'[c] = place
    BY <1>1, <2>1 DEF Posts
  <2>6. (pc[c] \in Ended \/ NoClose(c))' 
    <3>1. CASE place \in Ended
      BY <2>5, <3>1
    <3>2. CASE place \notin Ended
      <4>1. pc[c] \notin Ended /\ place \notin {"endClose", "exited"}
        BY <2>3, <3>2 DEF Ended
      <4>2. NoClose(c)
        BY <4>1 DEF OrderOf
      <4>3. \A i \in DOMAIN wire'[c] : wire'[c][i].op \notin {"close", "invalidate"}
        BY <2>2, <2>4, <4>1, <4>2 DEF NoClose
      <4>4. \A i \in From(c)' : coreQueue'[i].call.op # "close"
        BY <1>2, <4>2 DEF NoClose, SameOrigins
      <4>5. QED
        BY <4>3, <4>4 DEF NoClose
    <3>3. QED
      BY <3>1, <3>2
  <2>7. QED
    BY <1>2, <2>2, <2>3, <2>4, <2>5, <2>6 DEF OrderOf, SameOrigins
<1>5. QED
  BY <1>2, <1>3, <1>4 DEF ThreadMoves

LEMMA ThreadOpensNothing ==
  ASSUME IInv, TypeInv, NEW c \in Sessions, CallOf(c), LoopThread(c)
  PROVE  NoNewOpen
<1>1. wire \in [Conns -> Seq(CallRecord)] /\ c \in Conns
  BY ConnsAssumption DEF IInv, CoreTypes
<1>2. ThreadMoves(c)
  BY AnyMoves
<1>3. ASSUME NEW e \in Conns PROVE Opens(wire[e])' = Opens(wire[e]) /\ OpenBlocks(e)' = OpenBlocks(e)
  <2>1. OpenBlocks(e)' = OpenBlocks(e)
    BY ThreadOrigins DEF SameOrigins
  <2>2. CASE wire' = wire
    BY <2>1, <2>2 DEF Opens
  <2>3. CASE \E place, w : \E ok \in BOOLEAN : Posts(c, place, w) /\ Leaves(c, place, ok) /\ Quieted(c, w)
    <3>1. PICK place, w : Posts(c, place, w) /\ Quieted(c, w) /\ place \notin {"unborn", "open"}
      BY <2>3 DEF Leaves
    <3>2. w \in Seq(CallRecord) /\ Asks(w) = {} /\ Opens(w) = Opens(wire[c])
      BY <3>1 DEF Quieted
    <3>3. Opens(wire'[c]) = Opens(w) /\ \A d \in Conns \ {c} : wire'[d] = wire[d]
      BY <1>1, <3>1, <3>2, PostedCalls
    <3>4. QED
      BY <2>1, <3>2, <3>3 DEF Opens
  <2>4. QED
    BY <1>2, <2>2, <2>3 DEF ThreadMoves
<1>4. QED
  BY <1>3 DEF NoNewOpen, NoOpen

LEMMA OwnThreadOwns ==
  ASSUME IInv, TypeInv, NEW c \in Sessions, CallOf(c), OwnerOf(c), LoopThread(c)
  PROVE  OwnerOf(c)'
<1>1. pc \in [Sessions -> Places] /\ session' = session
  BY ThreadSteps DEF IInv, TurnsInv
<1>2. ThreadMoves(c) /\ Heard(c) /\ NoNewOpen
  BY AnyMoves, ThreadOpensNothing
<1>3. Told(c)' => Told(c)
  BY <1>2 DEF Told, Heard
<1>4. Opened(c)' => Opened(c)
  <2>1. CASE pc' = pc
    BY <1>3, <2>1 DEF Opened
  <2>2. CASE \E place, w : \E ok \in BOOLEAN : /\ Posts(c, place, w) /\ Leaves(c, place, ok)
                                               /\ pc[c] = "open" /\ ok => Told(c)
    <3>1. PICK place : /\ pc' = [pc EXCEPT ![c] = place] /\ place # "open"
                       /\ place \in Keeping => pc[c] \in Keeping \/ (pc[c] = "open" /\ Told(c))
      BY <2>2 DEF Posts, Leaves
    <3>2. QED
      BY <1>1, <3>1 DEF Opened
  <2>3. QED
    BY <1>2, <2>1, <2>2 DEF ThreadMoves
<1>5. Owns(c) => Owns(c)'
  BY <1>1, <1>2 DEF Owns, NoNewOpen
<1>6. OwnSaves(c)'
  BY <1>2 DEF OwnerOf, OwnSaves, Heard
<1>7. QED
  BY <1>4, <1>5, <1>6 DEF OwnerOf

-----------------------------------------------------------------------------
(* A step that is none of game c's. *)
Elsewhere(c) ==
  /\ pc'[c] = pc[c] /\ wire'[c] = wire[c] /\ replies'[c] = replies[c] /\ session' = session
  /\ c \in peer' => c \in peer
  /\ From(c)' = From(c) /\ \A i \in From(c) : coreQueue'[i] = coreQueue[i]

LEMMA ElsewhereKept ==
  ASSUME NEW c, CallOf(c), OrderOf(c), Elsewhere(c)
  PROVE  /\ CallOf(c)' /\ OrderOf(c)'
         /\ NoNewOpen /\ OwnerOf(c) => OwnerOf(c)'
<1>1. AskBlocks(c)' = AskBlocks(c) /\ OpenBlocks(c)' = OpenBlocks(c)
  BY DEF Elsewhere, From, AskBlocks, OpenBlocks
<1>2. \A i \in AskBlocks(c) : coreQueue'[i] = coreQueue[i]
  BY DEF Elsewhere, From, AskBlocks
<1>3. Within(AskBlocks(c)', coreQueue', AskBlocks(c), coreQueue)
  BY <1>1, <1>2 DEF Within
<1>4. CallOf(c)'
  BY <1>3, SameCalls, KeptCallOf DEF Elsewhere
<1>5. NoClose(c) => NoClose(c)'
  BY DEF Elsewhere, NoClose
<1>6. OrderOf(c)'
  BY <1>1, <1>5 DEF Elsewhere, OrderOf, Opens
<1>7. NoNewOpen /\ Owns(c) => Owns(c)'
  BY DEF Elsewhere, NoNewOpen, Owns
<1>8. (Opened(c)' <=> Opened(c)) /\ (OwnSaves(c)' <=> OwnSaves(c))
  BY DEF Elsewhere, Opened, Told, OwnSaves
<1>9. QED
  BY <1>4, <1>6, <1>7, <1>8 DEF OwnerOf

LEMMA OtherThreadElsewhere ==
  ASSUME IInv, TypeInv, NEW c \in Sessions, NEW d \in Sessions, d # c, CallOf(d), LoopThread(d)
  PROVE  Elsewhere(c)
<1>1. /\ pc \in [Sessions -> Places] /\ wire \in [Conns -> Seq(CallRecord)] /\ c \in Conns /\ d \in Conns
      /\ replies \in [Conns -> Seq(ReplyRecord)] /\ coreQueue \in Seq(Block)
  BY ConnsAssumption DEF IInv, CoreTypes, TurnsInv, TypeInv, ReplyTypes
<1>2. pc'[c] = pc[c] /\ wire'[c] = wire[c]
  <2>1. \/ UNCHANGED <<pc, wire>>
        \/ \E place, w : Posts(d, place, w)
    BY AnyMoves DEF ThreadMoves
  <2>2. CASE \E place, w : Posts(d, place, w)
    <3>1. PICK place, v : pc' = [pc EXCEPT ![d] = place] /\ wire' = [wire EXCEPT ![d] = v]
      BY <2>2 DEF Posts
    <3>2. QED
      BY <1>1, <3>1
  <2>3. QED
    BY <2>1, <2>2
<1>3. replies'[c] = replies[c] /\ peer' = peer
  <2>1. /\ replies' = replies \/ \E q : replies' = [replies EXCEPT ![d] = q]
        /\ peer' = peer
    BY <1>1 DEF LoopThread, Answer, TimeOut, HandleRunReply, ConnectionLost, CallbackAlive, CallbackLost,
       SendBatch, PerformState, TearDown, serviceVars
  <2>2. QED
    BY <1>1, <2>1
<1>4. session' = session /\ From(c)' = From(c)
  BY ThreadSteps, ThreadOrigins DEF SameOrigins
<1>5. \A i \in From(c) : coreQueue'[i] = coreQueue[i]
  <2>1. \/ coreQueue' = coreQueue
        \/ \E ops : coreQueue' = ForgottenBlocks(d, ops)
    BY DEF LoopThread, Answer, TimeOut, HandleRunReply, ConnectionLost, CallbackAlive, CallbackLost,
       SendBatch, PerformState, TearDown, serviceVars
  <2>2. CASE \E ops : coreQueue' = ForgottenBlocks(d, ops)
    <3>1. PICK ops : coreQueue' = ForgottenBlocks(d, ops)
      BY <2>2
    <3>2. DOMAIN coreQueue' = DOMAIN coreQueue /\ \A i \in DOMAIN coreQueue' :
            coreQueue'[i].from = coreQueue[i].from /\ (coreQueue'[i].from # d => coreQueue'[i] = coreQueue[i])
      BY <1>1, <3>1, ForgottenBlockAsks
    <3>3. QED
      BY <3>2 DEF From
  <2>3. QED
    BY <2>1, <2>2
<1>6. QED
  BY <1>2, <1>3, <1>4, <1>5 DEF Elsewhere

(* The main thread: an invalidation is the last call of a game that has    *)
(* ended, and an open the first of the next.                               *)
LEMMA SentLast ==
  ASSUME NEW w \in Seq(CallRecord), NEW c, NEW v, v \in {w, Invalidated(c, w)}
  PROVE  /\ Opens(v) = Opens(w) /\ Asks(v) = Asks(w)
         /\ \A i \in Asks(v) : v[i] = w[i]
<1>1. PICK x \in CallRecord : x = Notice("invalidate") /\ x.op = "invalidate" /\ ~x.awaited
  BY CallTypes DEF Notice
<1>2. CASE v = w
  BY <1>2
<1>3. CASE v = Append(w, x)
  <2>1. PICK q \in Seq(CallRecord) : q = v
    BY <1>3, Appending
  <2>2. \A i \in DOMAIN q : \/ i = Len(w) + 1 /\ q[i] = x
                            \/ i \in DOMAIN w /\ q[i] = w[i]
    BY <1>3, <2>1, Appending
  <2>3. \A i \in DOMAIN w : i \in DOMAIN q /\ q[i] = w[i]
    BY <1>3, <2>1
  <2>4. QED
    BY <1>1, <2>1, <2>2, <2>3 DEF Opens, Asks
<1>4. QED
  BY <1>1, <1>2, <1>3 DEF Invalidated

LEMMA NobodyOpened ==
  ASSUME NEW c, ~Running(c)
  PROVE  ~Opened(c)
BY DEF Running, Gone, Opened, Keeping, Driving

LEMMA FirstCall ==
  ASSUME NEW c, OrderOf(c), pc[c] = "unborn", pc'[c] = "open", wire'[c] = <<Call("open")>>,
         UNCHANGED <<coreQueue, replies>>
  PROVE  CallOf(c)' /\ OrderOf(c)'
<1>1. /\ DOMAIN wire'[c] = {1} /\ wire'[c][1].op = "open" /\ wire'[c][1].awaited
      /\ replies'[c] = <<>> /\ From(c)' = {}
  BY DEF Call, OrderOf, From
<1>2. Answers(replies[c])' = {} /\ AskBlocks(c)' = {} /\ OpenBlocks(c)' = {}
  BY <1>1 DEF Answers, AskBlocks, From, OpenBlocks
<1>3. Asks(wire[c])' = {1} /\ Opens(wire[c])' = {1}
  BY <1>1 DEF Asks, Opens
<1>4. CallOf(c)'
  BY <1>1, <1>2, <1>3 DEF CallOf, OnlyOne, Single, Wanted, Waits, AwaitedOp
<1>5. OrderOf(c)'
  BY <1>1, <1>2, <1>3 DEF OrderOf, NoClose
<1>6. QED
  BY <1>4, <1>5

LEMMA LastCall ==
  ASSUME NEW c, CallOf(c), OrderOf(c), NEW w \in Seq(CallRecord), w = wire[c], pc'[c] = pc[c],
         wire'[c] = w \/ (pc[c] = "stranded" /\ wire'[c] = Invalidated(c, w)),
         UNCHANGED <<coreQueue, replies, peer>>
  PROVE  CallOf(c)' /\ OrderOf(c)'
<1>1. PICK v : v = wire'[c] /\ v \in {w, Invalidated(c, w)}
  OBVIOUS
<1>2. Opens(v) = Opens(w) /\ Asks(v) = Asks(w) /\ \A i \in Asks(v) : v[i] = w[i]
  <2>1. CASE v = w
    BY <2>1
  <2>2. CASE v = Invalidated(c, w)
    BY <2>2, SentLast
  <2>3. QED
    BY <1>1, <2>1, <2>2
<1>3. Within(Asks(wire[c])', wire'[c], Asks(wire[c]), wire[c])
  BY <1>1, <1>2 DEF Within
<1>4. CallOf(c)'
  BY <1>3, SameCalls, KeptCallOf
<1>5. From(c)' = From(c) /\ OpenBlocks(c)' = OpenBlocks(c) /\ Opens(wire[c])' = Opens(wire[c])
  BY <1>1, <1>2 DEF From, OpenBlocks
<1>6. (pc[c] \in Ended \/ NoClose(c))'
  BY <1>5 DEF OrderOf, NoClose, Ended
<1>7. (pc[c] = "unborn") => wire'[c] = wire[c]
  OBVIOUS
<1>8. QED
  BY <1>4, <1>5, <1>6, <1>7 DEF OrderOf

LEMMA ReplaceOwner ==
  ASSUME IInv, TypeInv, NEW c \in Sessions, CallOf(c), OrderOf(c), Replace
  PROVE  CallOf(c)' /\ OrderOf(c)' /\ (OwnerOf(c) => OwnerOf(c)')
<1> USE NoneAssumption, ConnsAssumption
<1>1. /\ pc \in [Sessions -> Places] /\ wire \in [Conns -> Seq(CallRecord)] /\ wire[c] \in Seq(CallRecord)
      /\ replies \in [Conns -> Seq(ReplyRecord)] /\ c \in Conns
  BY DEF IInv, CoreTypes, TurnsInv, TypeInv, ReplyTypes
<1>2. ~Running(c)
  BY DEF IInv, TurnsInv, Replace, Running
<1>3. PICK released : Replaced(released) /\ (released => pc[game] = "stranded")
  BY DEF Replace
<1>4. PICK freed : /\ freed = IF released THEN [wire EXCEPT ![game] = Invalidated(game, @)] ELSE wire
                   /\ wire' = IF next = None THEN freed ELSE [freed EXCEPT ![next] = <<Call("open")>>]
                   /\ pc' = IF next = None THEN pc ELSE [pc EXCEPT ![next] = "open"]
                   /\ UNCHANGED <<coreQueue, replies, peer, session>>
  BY <1>3 DEF Replaced, hostOnly
<1>5. /\ freed[c] = wire[c] \/ (pc[c] = "stranded" /\ freed[c] = Invalidated(c, wire[c]))
      /\ DOMAIN freed = Conns
  BY <1>1, <1>3, <1>4
<1>6. CASE c = next
  <2>1. wire'[c] = <<Call("open")>> /\ pc'[c] = "open" /\ pc[c] = "unborn"
    BY <1>1, <1>4, <1>5, <1>6 DEF IInv, TurnsInv
  <2>2. CallOf(c)' /\ OrderOf(c)'
    BY <1>4, <2>1, FirstCall
  <2>3. replies'[c] = <<>>
    BY <1>4, <2>1 DEF OrderOf
  <2>4. OwnerOf(c)'
    BY <2>1, <2>3 DEF OwnerOf, Opened, Keeping, Driving, Told, OwnSaves
  <2>5. QED
    BY <2>2, <2>4
<1>7. CASE c # next
  <2>1. wire'[c] = freed[c] /\ pc'[c] = pc[c]
    BY <1>1, <1>4, <1>5, <1>7
  <2>2. CallOf(c)' /\ OrderOf(c)'
    BY <1>1, <1>4, <1>5, <2>1, LastCall
  <2>3. ~Opened(c)' 
    BY <1>2, <1>4, <2>1, NobodyOpened DEF Opened, Told
  <2>4. OwnerOf(c) => OwnerOf(c)'
    BY <1>4, <2>3 DEF OwnerOf, OwnSaves
  <2>5. QED
    BY <2>2, <2>4
<1>8. QED
  BY <1>6, <1>7

LEMMA AppOwner ==
  ASSUME IInv, TypeInv, NEW c \in Sessions, CallOf(c), OrderOf(c), App
  PROVE  CallOf(c)' /\ OrderOf(c)' /\ (OwnerOf(c) => OwnerOf(c)')
<1>1. CASE Replace
  BY <1>1, ReplaceOwner
<1>2. CASE (\E d \in Sessions : StartGame(d)) \/ StopGame \/ HandleLoss \/ StartProbe \/ FinishProbe
  <2>1. /\ wire'[c] = wire[c] /\ replies'[c] = replies[c]
        /\ UNCHANGED <<pc, session, peer, coreQueue>>
    <3>1. CASE (\E d \in Sessions : StartGame(d)) \/ StopGame \/ HandleLoss
      BY <3>1 DEF StartGame, StopGame, HandleLoss, serviceVars, clientVars
    <3>2. CASE StartProbe \/ FinishProbe
      <4>1. /\ \E w : wire' = [wire EXCEPT ![Probe] = w]
            /\ replies' = replies \/ replies' = [replies EXCEPT ![Probe] = <<>>]
            /\ UNCHANGED <<pc, session, peer, coreQueue>>
        BY <3>2 DEF StartProbe, FinishProbe, clientVars, hostOnly
      <4>2. Probe # c /\ wire \in [Conns -> Seq(CallRecord)] /\ replies \in [Conns -> Seq(ReplyRecord)] /\ c \in Conns
        BY ProbeAssumption, NoneAssumption, ConnsAssumption DEF IInv, CoreTypes, TypeInv, ReplyTypes
      <4>3. QED
        BY <4>1, <4>2
    <3>3. QED
      BY <1>2, <3>1, <3>2
  <2>2. From(c)' = From(c)
    BY <2>1 DEF From
  <2>3. Elsewhere(c)
    BY <2>1, <2>2 DEF Elsewhere
  <2>4. ASSUME NEW e \in Conns, NoOpen(e) PROVE NoOpen(e)'
    <3>1. OpenBlocks(e)' = OpenBlocks(e)
      BY <2>1 DEF OpenBlocks, From
    <3>2. CASE wire'[e] = wire[e]
      BY <2>4, <3>1, <3>2 DEF NoOpen, Opens
    <3>3. CASE wire'[e] # wire[e]
      <4>1. wire \in [Conns -> Seq(CallRecord)] /\ wire[e] \in Seq(CallRecord)
        BY DEF IInv, CoreTypes
      <4>2. e = Probe /\ (wire'[e] = <<Call("probe")>> \/ wire'[e] = Invalidated(e, wire[e]))
        BY <1>2, <3>3, <4>1 DEF StartGame, StopGame, HandleLoss, StartProbe, FinishProbe, serviceVars
      <4>3. Opens(<<Call("probe")>>) = {}
        BY DEF Opens, Call
      <4>4. Opens(Invalidated(e, wire[e])) = Opens(wire[e])
        BY <4>1, SentLast
      <4>5. Opens(wire[e])' = {}
        BY <2>4, <4>2, <4>3, <4>4 DEF NoOpen
      <4>6. QED
        BY <2>4, <3>1, <4>5 DEF NoOpen
    <3>4. QED
      BY <3>2, <3>3
  <2>5. QED
    BY <2>3, <2>4, ElsewhereKept DEF NoNewOpen
<1>3. QED
  BY <1>1, <1>2 DEF App

-----------------------------------------------------------------------------
(* A call is delivered: it goes from the head of its wire to the end of    *)
(* the queue.                                                              *)
LEMMA DeliveredBlock ==
  ASSUME IInv, NEW d \in Conns, Deliver(d)
  PROVE  \E m \in CallRecord, b \in Block :
           /\ 1 \in DOMAIN wire[d] /\ m = wire[d][1] /\ wire' = [wire EXCEPT ![d] = Tail(wire[d])]
           /\ b.from = d /\ coreQueue' = Append(coreQueue, b)
           /\ IF m.op = "invalidate" THEN b.call.op = "close" /\ ~b.call.awaited ELSE b.call = m
           /\ peer' \subseteq peer \union {d} /\ UNCHANGED <<replies, session>>
<1>1. wire[d] \in Seq(CallRecord) /\ wire[d] # <<>>
  BY DEF IInv, CoreTypes, Deliver
<1>2. PICK m \in CallRecord : m = Head(wire[d]) /\ 1 \in DOMAIN wire[d] /\ m = wire[d][1]
  BY <1>1, TakingOne
<1>3. PICK b : /\ b = [from |-> d, call |-> IF m.op = "invalidate" THEN Notice("close") ELSE m]
               /\ coreQueue' = Append(coreQueue, b)
  BY <1>2 DEF Deliver
<1>4. PICK x \in CallRecord : x = Notice("close") /\ x.op = "close" /\ ~x.awaited
  BY CallTypes DEF Notice
<1>5. b \in Block /\ b.from = d
  BY <1>3, <1>4 DEF Block
<1>6. IF m.op = "invalidate" THEN b.call.op = "close" /\ ~b.call.awaited ELSE b.call = m
  BY <1>3, <1>4
<1>7. /\ wire' = [wire EXCEPT ![d] = Tail(wire[d])]
      /\ peer' \subseteq peer \union {d} /\ UNCHANGED <<replies, session>>
  BY DEF Deliver, hostVars
<1>8. QED
  BY <1>2, <1>3, <1>5, <1>6, <1>7

LEMMA QueuedLast ==
  ASSUME coreQueue \in Seq(Block), NEW b \in Block, coreQueue' = Append(coreQueue, b), NEW c
  PROVE  /\ \A i \in From(c) : i \in From(c)' /\ i < Len(coreQueue) + 1 /\ coreQueue'[i] = coreQueue[i]
         /\ \A i \in From(c)' : \/ i \in From(c)
                                \/ i = Len(coreQueue) + 1 /\ b.from = c /\ coreQueue'[i] = b
BY DEF From

LEMMA TakenCalls ==
  ASSUME NEW w \in Seq(CallRecord), 1 \in DOMAIN w
  PROVE  /\ \A i \in DOMAIN Tail(w) : i \in Nat /\ i # 0 /\ i + 1 \in DOMAIN w /\ Tail(w)[i] = w[i + 1]
         /\ Within(Asks(Tail(w)), Tail(w), Asks(w), w)
         /\ 1 \in Asks(w) /\ Single(Asks(w)) => Asks(Tail(w)) = {}
<1>1. \A i \in DOMAIN Tail(w) : i \in Nat /\ i # 0 /\ i + 1 \in DOMAIN w /\ Tail(w)[i] = w[i + 1]
  OBVIOUS
<1>2. \A i \in Asks(Tail(w)) : i \in Nat /\ i + 1 # 1 /\ i + 1 \in Asks(w) /\ Tail(w)[i] = w[i + 1]
  BY <1>1 DEF Asks
<1>3. Single(Asks(w)) => Single(Asks(Tail(w)))
  BY <1>2 DEF Single
<1>4. QED
  BY <1>1, <1>2, <1>3 DEF Within, Single

LEMMA DeliverOther ==
  ASSUME IInv, NEW c \in Sessions, NEW d \in Conns, d # c, Deliver(d), UNCHANGED <<pc, game>>
  PROVE  Elsewhere(c)
<1>1. wire \in [Conns -> Seq(CallRecord)] /\ coreQueue \in Seq(Block) /\ c \in Conns
  BY ConnsAssumption DEF IInv, CoreTypes
<1>2. PICK b \in Block : /\ wire' = [wire EXCEPT ![d] = Tail(wire[d])]
                         /\ b.from = d /\ coreQueue' = Append(coreQueue, b)
                         /\ peer' \subseteq peer \union {d} /\ UNCHANGED <<replies, session>>
  BY DeliveredBlock
<1>3. From(c)' = From(c) /\ \A i \in From(c) : coreQueue'[i] = coreQueue[i]
  <2>1. /\ \A i \in From(c) : i \in From(c)' /\ coreQueue'[i] = coreQueue[i]
        /\ \A i \in From(c)' : i \in From(c) \/ b.from = c
    BY <1>1, <1>2, QueuedLast
  <2>2. QED
    BY <1>2, <2>1
<1>4. QED
  BY <1>1, <1>2, <1>3 DEF Elsewhere

LEMMA DeliverOwn ==
  ASSUME IInv, TypeInv, NEW c \in Sessions, CallOf(c), OrderOf(c), Deliver(c), UNCHANGED <<pc, game>>
  PROVE  CallOf(c)' /\ OrderOf(c)'
<1>1. /\ wire \in [Conns -> Seq(CallRecord)] /\ coreQueue \in Seq(Block) /\ c \in Conns
      /\ wire[c] \in Seq(CallRecord)
  BY ConnsAssumption DEF IInv, CoreTypes
<1>2. PICK m \in CallRecord, b \in Block :
        /\ 1 \in DOMAIN wire[c] /\ m = wire[c][1] /\ wire' = [wire EXCEPT ![c] = Tail(wire[c])]
        /\ b.from = c /\ coreQueue' = Append(coreQueue, b)
        /\ IF m.op = "invalidate" THEN b.call.op = "close" /\ ~b.call.awaited ELSE b.call = m
        /\ UNCHANGED <<replies, session>>
  BY <1>1, DeliveredBlock
<1>3. PICK n : n = Len(coreQueue) + 1 /\ coreQueue'[n] = b
  BY <1>1, <1>2
<1>4. /\ \A i \in From(c) : i \in From(c)' /\ i < n /\ coreQueue'[i] = coreQueue[i]
      /\ \A i \in From(c)' : i \in From(c) \/ (i = n /\ coreQueue'[i] = b)
  BY <1>1, <1>2, <1>3, QueuedLast
<1>5. PICK w \in Seq(CallRecord) : w = wire[c]
  BY <1>1
<1>6. /\ wire'[c] = Tail(w)
      /\ \A i \in DOMAIN Tail(w) : i \in Nat /\ i # 0 /\ i + 1 \in DOMAIN w /\ Tail(w)[i] = w[i + 1]
      /\ Within(Asks(Tail(w)), Tail(w), Asks(w), w)
      /\ 1 \in Asks(w) /\ Single(Asks(w)) => Asks(Tail(w)) = {}
  BY <1>1, <1>2, <1>5, TakenCalls
<1>7. /\ \A i \in AskBlocks(c) : i \in AskBlocks(c)' /\ coreQueue'[i] = coreQueue[i]
      /\ \A i \in AskBlocks(c)' : i \in AskBlocks(c) \/ (i = n /\ b.call.awaited /\ b.call.op # "run")
  BY <1>4 DEF AskBlocks, From
<1>8. CallOf(c)'
  <2>1. CASE b.call.awaited /\ b.call.op # "run"
    <3>1. b.call = m /\ 1 \in Asks(w)
      BY <1>2, <1>5, <2>1 DEF Asks
    <3>2. AskBlocks(c) = {} /\ Answers(replies[c]) = {} /\ Asks(Tail(w)) = {} /\ Wanted(c, m.op)
      BY <1>2, <1>5, <1>6, <3>1 DEF CallOf, OnlyOne
    <3>3. \A i \in AskBlocks(c)' : i = n /\ coreQueue'[i].call.op = m.op
      BY <1>3, <1>7, <3>1, <3>2
    <3>4. Asks(wire[c])' = {} /\ Answers(replies[c])' = {}
      BY <1>2, <1>6, <3>2 DEF Answers
    <3>5. QED
      BY <3>2, <3>3, <3>4 DEF CallOf, OnlyOne, Single, Wanted
  <2>2. CASE ~(b.call.awaited /\ b.call.op # "run")
    <3>1. AskBlocks(c)' = AskBlocks(c) /\ \A i \in AskBlocks(c) : coreQueue'[i] = coreQueue[i]
      BY <1>7, <2>2
    <3>2. Within(AskBlocks(c)', coreQueue', AskBlocks(c), coreQueue)
      BY <3>1 DEF Within
    <3>3. Within(Asks(wire[c])', wire'[c], Asks(wire[c]), wire[c])
      BY <1>5, <1>6
    <3>4. QED
      BY <1>2, <3>2, <3>3, SameCalls, KeptCallOf
  <2>3. QED
    BY <2>1, <2>2
<1>9. OrderOf(c)'
  <2>1. pc'[c] # "unborn"
    BY <1>2 DEF OrderOf
  <2>2. Opens(wire[c])' = {}
    <3>1. \A i \in Opens(Tail(w)) : i \in Nat /\ i # 0 /\ i + 1 \in Opens(w)
      BY <1>6 DEF Opens
    <3>2. \A i \in Opens(w) : i = 1
      BY <1>5 DEF OrderOf
    <3>3. Opens(Tail(w)) = {}
      BY <3>1, <3>2
    <3>4. QED
      BY <1>6, <3>3
  <2>3. \A i \in From(c)', j \in OpenBlocks(c)' : j <= i
    <3>1. \A i \in From(c) : i \in Nat
      BY <1>1 DEF From
    <3>2. n \in Nat
      BY <1>1, <1>3
    <3>3. \A j \in OpenBlocks(c)' : j \in OpenBlocks(c) \/ (j = n /\ b.call.op = "open")
      BY <1>4 DEF OpenBlocks
    <3>4. b.call.op = "open" => From(c) = {}
      <4>1. b.call.op = "open" => 1 \in Opens(wire[c])
        BY <1>2 DEF Opens
      <4>2. QED
        BY <4>1 DEF OrderOf
    <3>5. \A j \in OpenBlocks(c) : j \in From(c)
      BY DEF OpenBlocks
    <3>6. QED
      BY <1>4, <3>1, <3>2, <3>3, <3>4, <3>5 DEF OrderOf
  <2>4. (pc[c] \in Ended \/ NoClose(c))'
    <3>1. CASE NoClose(c)
      <4>1. b.call.op # "close"
        BY <1>2, <3>1 DEF NoClose
      <4>2. \A i \in DOMAIN wire'[c] : wire'[c][i].op \notin {"close", "invalidate"}
        BY <1>5, <1>6, <3>1 DEF NoClose
      <4>3. \A i \in From(c)' : coreQueue'[i].call.op # "close"
        BY <1>4, <3>1, <4>1 DEF NoClose
      <4>4. QED
        BY <4>2, <4>3 DEF NoClose
    <3>2. QED
      BY <3>1 DEF OrderOf
  <2>5. QED
    BY <2>1, <2>2, <2>3, <2>4 DEF OrderOf
<1>10. QED
  BY <1>8, <1>9

LEMMA DeliverOpensNothing ==
  ASSUME IInv, NEW d \in Conns, Deliver(d)
  PROVE  NoNewOpen
<1>1. wire \in [Conns -> Seq(CallRecord)] /\ coreQueue \in Seq(Block)
  BY DEF IInv, CoreTypes
<1>2. PICK m \in CallRecord, b \in Block :
        /\ 1 \in DOMAIN wire[d] /\ m = wire[d][1] /\ wire' = [wire EXCEPT ![d] = Tail(wire[d])]
        /\ b.from = d /\ coreQueue' = Append(coreQueue, b)
        /\ IF m.op = "invalidate" THEN b.call.op = "close" /\ ~b.call.awaited ELSE b.call = m
  BY DeliveredBlock
<1>3. ASSUME NEW e \in Conns, NoOpen(e) PROVE NoOpen(e)'
  <2>1. \A i \in From(e)' : \/ i \in From(e) /\ coreQueue'[i] = coreQueue[i]
                            \/ b.from = e /\ coreQueue'[i] = b
    <3>1. coreQueue' = Append(coreQueue, b)
      BY <1>2
    <3>2. /\ \A i \in From(e) : i \in From(e)' /\ i < Len(coreQueue) + 1 /\ coreQueue'[i] = coreQueue[i]
          /\ \A i \in From(e)' : \/ i \in From(e)
                                 \/ i = Len(coreQueue) + 1 /\ b.from = e /\ coreQueue'[i] = b
      BY <1>1, <3>1, QueuedLast
    <3>3. QED
      BY <3>2
  <2>2. b.from = e => b.call.op # "open"
    BY <1>2, <1>3 DEF NoOpen, Opens
  <2>3. OpenBlocks(e)' = {}
    BY <1>3, <2>1, <2>2 DEF NoOpen, OpenBlocks
  <2>4. Opens(wire[e])' = {}
    <3>1. CASE e = d
      <4>1. PICK w \in Seq(CallRecord) : w = wire[d]
        BY <1>1
      <4>2. \A i \in DOMAIN Tail(w) : i + 1 \in DOMAIN w /\ Tail(w)[i] = w[i + 1]
        BY <1>2, <4>1, TakenCalls
      <4>3. Opens(Tail(w)) = {}
        BY <1>3, <3>1, <4>1, <4>2 DEF NoOpen, Opens
      <4>4. wire'[e] = Tail(w)
        BY <1>1, <1>2, <3>1, <4>1
      <4>5. QED
        BY <4>3, <4>4
    <3>2. CASE e # d
      BY <1>1, <1>2, <1>3, <3>2 DEF NoOpen
    <3>3. QED
      BY <3>1, <3>2
  <2>5. QED
    BY <2>3, <2>4 DEF NoOpen
<1>4. QED
  BY <1>3 DEF NoNewOpen

LEMMA DeliverOwner ==
  ASSUME IInv, TypeInv, NEW c \in Sessions, CallOf(c), OrderOf(c), NEW d \in Conns,
         Deliver(d), UNCHANGED <<pc, game>>
  PROVE  CallOf(c)' /\ OrderOf(c)' /\ (OwnerOf(c) => OwnerOf(c)')
<1>1. CASE d = c
  <2>1. CallOf(c)' /\ OrderOf(c)'
    BY <1>1, DeliverOwn
  <2>2. UNCHANGED <<pc, replies, session>>
    BY DEF Deliver, hostVars
  <2>3. (Opened(c)' <=> Opened(c)) /\ (OwnSaves(c)' <=> OwnSaves(c))
    BY <2>2 DEF Opened, Told, OwnSaves
  <2>4. Owns(c) => Owns(c)'
    BY <2>2, DeliverOpensNothing DEF Owns, NoNewOpen
  <2>5. QED
    BY <2>1, <2>3, <2>4 DEF OwnerOf
<1>2. CASE d # c
  BY <1>2, DeliverOther, DeliverOpensNothing, ElsewhereKept
<1>3. QED
  BY <1>1, <1>2

-----------------------------------------------------------------------------
(* A block runs: it is the first, its reply goes to a caller that waits,   *)
(* and the session is made by an open that found none, or closed.          *)
Ran(d, b) ==
  /\ coreQueue # <<>> /\ coreQueue' = Tail(coreQueue) /\ UNCHANGED <<wire, peer>>
  /\ 1 \in DOMAIN coreQueue /\ b = coreQueue[1] /\ b.from = d
  /\ \/ replies' = replies
     \/ /\ b.call.awaited
        /\ \E r \in ReplyRecord :
             /\ r.op = b.call.op /\ r.by = session /\ replies' = [replies EXCEPT ![d] = Append(@, r)]
             /\ r.op = "open" /\ r.ok => session' = d
             /\ r.op = "saveRAM" /\ r.ok => session # None
  /\ \/ session' = session
     \/ b.call.op = "open" /\ session = None /\ session' = d
     \/ b.call.op = "close" /\ session' = None

LEMMA RepliesRan ==
  ASSUME IInv, NEW d \in Conns, NEW op \in Called, NEW ok \in BOOLEAN, NEW size \in Sizes \union {None},
         NextBlock(d, op), Reply(d, ok, size),
         op = "open" /\ ok => session' = d, op = "saveRAM" /\ ok => session # None,
         \/ session' = session
         \/ op = "open" /\ session = None /\ session' = d
         \/ op = "close" /\ session' = None
  PROVE  \E b \in Block : Ran(d, b)
<1>1. coreQueue \in Seq(Block) /\ coreQueue # <<>> /\ session \in Sessions \union {None}
  BY DEF IInv, CoreTypes, NextBlock
<1>2. PICK b \in Block : b = Head(coreQueue) /\ 1 \in DOMAIN coreQueue /\ b = coreQueue[1]
  BY <1>1, TakingOne
<1>3. b.from = d /\ b.call.op = op
  BY <1>2 DEF NextBlock
<1>4. PICK r : r = [op |-> op, ok |-> ok, by |-> session, size |-> size]
  OBVIOUS
<1>5. r \in ReplyRecord /\ r.op = op /\ r.ok = ok /\ r.by = session
  BY <1>1, <1>4 DEF ReplyRecord, Called
<1>6. /\ coreQueue' = Tail(coreQueue) /\ UNCHANGED <<wire, peer>>
      /\ \/ replies' = replies
         \/ b.call.awaited /\ replies' = [replies EXCEPT ![d] = Append(@, r)]
  BY <1>2, <1>3, <1>4 DEF Reply
<1>7. Ran(d, b)
  BY <1>1, <1>2, <1>3, <1>5, <1>6 DEF Ran
<1>8. QED
  BY <1>7

LEMMA ExecuteRan ==
  ASSUME IInv, NEW d \in Conns, Execute(d)
  PROVE  \E b \in Block : Ran(d, b)
<1> USE DEF Called
<1>1. CASE OpenFailsStaging(d) \/ OpenFailsConstructing(d)
  <2>1. NextBlock(d, "open") /\ Reply(d, FALSE, None) /\ session' = session
    BY <1>1 DEF OpenFailsStaging, OpenFailsConstructing
  <2>2. QED
    BY <2>1, RepliesRan
<1>2. CASE OpenConstructs(d)
  <2>1. session = None
    BY <1>2 DEF OpenConstructs, SlotIsFree, IInv, SessionIsLoaded
  <2>2. PICK outcome : /\ NextBlock(d, "open") /\ Reply(d, outcome = "loaded", None)
                       /\ session' = IF outcome = "loaded" THEN d ELSE session
    BY <1>2 DEF OpenConstructs
  <2>3. PICK ok \in BOOLEAN : ok = (outcome = "loaded")
    OBVIOUS
  <2>4. Reply(d, ok, None) /\ session' = IF ok THEN d ELSE session
    BY <2>2, <2>3
  <2>5. QED
    BY <2>1, <2>2, <2>4, RepliesRan
<1>3. CASE AttachFrameSurface(d)
  <2>1. NextBlock(d, "attach") /\ Reply(d, TRUE, None) /\ session' = session
    BY <1>3 DEF AttachFrameSurface
  <2>2. QED
    BY <2>1, RepliesRan
<1>4. CASE CloseSession(d)
  <2>1. NextBlock(d, "close") /\ Reply(d, TRUE, None) /\ session' = None
    BY <1>4 DEF CloseSession
  <2>2. QED
    BY <2>1, RepliesRan
<1>5. CASE RunFramesShared(d)
  <2>1. /\ NextBlock(d, "run") /\ session' = session
        /\ \E ok \in BOOLEAN, size \in Sizes \union {None} : Reply(d, ok, size)
    BY <1>5 DEF RunFramesShared, hostVars
  <2>2. PICK ok \in BOOLEAN, size \in Sizes \union {None} : Reply(d, ok, size)
    BY <2>1
  <2>3. QED
    BY <2>1, <2>2, RepliesRan
<1>6. CASE QuerySession(d)
  <2>1. /\ \E op \in {"options", "restore", "saveRAM", "serialize", "unserialize", "probe"} :
             \E ok \in BOOLEAN :
                NextBlock(d, op) /\ Reply(d, ok, None) /\ (op = "saveRAM" /\ ok => session # None)
        /\ session' = session
    BY <1>6 DEF QuerySession, SessionQueries, hostVars
  <2>2. PICK op \in {"options", "restore", "saveRAM", "serialize", "unserialize", "probe"}, ok \in BOOLEAN :
          NextBlock(d, op) /\ Reply(d, ok, None) /\ (op = "saveRAM" /\ ok => session # None)
    BY <2>1
  <2>3. QED
    BY <2>1, <2>2, RepliesRan
<1>7. QED
  BY <1>1, <1>2, <1>3, <1>4, <1>5, <1>6 DEF Execute, OpenSession

LEMMA LeftBlocks ==
  ASSUME coreQueue \in Seq(Block), coreQueue # <<>>, coreQueue' = Tail(coreQueue), NEW c
  PROVE  /\ \A i \in From(c)' : i \in Nat /\ i # 0 /\ i + 1 \in From(c) /\ coreQueue'[i] = coreQueue[i + 1]
         /\ Within(AskBlocks(c)', coreQueue', AskBlocks(c), coreQueue)
         /\ 1 \in AskBlocks(c) /\ Single(AskBlocks(c)) => AskBlocks(c)' = {}
<1>1. \A i \in From(c)' : i \in Nat /\ i # 0 /\ i + 1 \in From(c) /\ coreQueue'[i] = coreQueue[i + 1]
  BY DEF From
<1>2. \A i \in AskBlocks(c)' : i \in Nat /\ i + 1 # 1 /\ i + 1 \in AskBlocks(c) /\ coreQueue'[i] = coreQueue[i + 1]
  BY <1>1 DEF AskBlocks, From
<1>3. Single(AskBlocks(c)) => Single(AskBlocks(c)')
  BY <1>2 DEF Single
<1>4. QED
  BY <1>1, <1>2, <1>3 DEF Within, Single

LEMMA AnsweredLast ==
  ASSUME NEW q \in Seq(ReplyRecord), NEW r \in ReplyRecord
  PROVE  /\ \A i \in DOMAIN Append(q, r) : \/ i = Len(q) + 1 /\ Append(q, r)[i] = r
                                           \/ i \in DOMAIN q /\ Append(q, r)[i] = q[i]
         /\ \A i \in DOMAIN q : i \in DOMAIN Append(q, r) /\ Append(q, r)[i] = q[i]
         /\ r.op \in {"run", "interrupted"} => Within(Answers(Append(q, r)), Append(q, r), Answers(q), q)
<1>1. PICK p \in Seq(ReplyRecord) : p = Append(q, r)
  BY Appending
<1>2. \A i \in DOMAIN p : \/ i = Len(q) + 1 /\ p[i] = r
                          \/ i \in DOMAIN q /\ p[i] = q[i]
  BY <1>1, Appending
<1>3. \A i \in DOMAIN q : i \in DOMAIN p /\ p[i] = q[i]
  BY <1>1
<1>4. r.op \in {"run", "interrupted"} => \A i \in Answers(p) : i \in Answers(q) /\ p[i] = q[i]
  BY <1>2 DEF Answers
<1>5. r.op \in {"run", "interrupted"} => Within(Answers(p), p, Answers(q), q)
  BY <1>4 DEF Within, Single
<1>6. QED
  BY <1>1, <1>2, <1>3, <1>5

LEMMA ExecuteCall ==
  ASSUME IInv, TypeInv, NEW c \in Sessions, CallOf(c), NEW d \in Conns, NEW b \in Block, Ran(d, b), pc' = pc
  PROVE  CallOf(c)'
<1>1. coreQueue \in Seq(Block) /\ replies \in [Conns -> Seq(ReplyRecord)] /\ c \in Conns
  BY ConnsAssumption DEF IInv, CoreTypes, TypeInv, ReplyTypes
<1>2. /\ coreQueue # <<>> /\ coreQueue' = Tail(coreQueue) /\ wire' = wire
      /\ 1 \in DOMAIN coreQueue /\ b = coreQueue[1] /\ b.from = d
  BY DEF Ran
<1>3. /\ Within(AskBlocks(c)', coreQueue', AskBlocks(c), coreQueue)
      /\ 1 \in AskBlocks(c) /\ Single(AskBlocks(c)) => AskBlocks(c)' = {}
  BY <1>1, <1>2, LeftBlocks
<1>4. CASE replies'[c] = replies[c]
  BY <1>2, <1>3, <1>4, SameCalls, KeptCallOf
<1>5. CASE replies'[c] # replies[c]
  <2>1. PICK r \in ReplyRecord : /\ b.call.awaited /\ r.op = b.call.op
                                 /\ replies' = [replies EXCEPT ![d] = Append(@, r)]
    BY <1>5 DEF Ran
  <2>2. PICK q \in Seq(ReplyRecord) : q = replies[c]
    BY <1>1
  <2>3. d = c /\ replies'[c] = Append(q, r)
    BY <1>1, <1>5, <2>1, <2>2
  <2>4. /\ \A i \in DOMAIN Append(q, r) : \/ i = Len(q) + 1 /\ Append(q, r)[i] = r
                                          \/ i \in DOMAIN q /\ Append(q, r)[i] = q[i]
        /\ r.op \in {"run", "interrupted"} => Within(Answers(Append(q, r)), Append(q, r), Answers(q), q)
    BY AnsweredLast
  <2>5. CASE r.op \in {"run", "interrupted"}
    <3>1. Within(Answers(replies[c])', replies'[c], Answers(replies[c]), replies[c])
      BY <2>2, <2>3, <2>4, <2>5
    <3>2. QED
      BY <1>2, <1>3, <3>1, SameCalls, KeptCallOf
  <2>6. CASE r.op \notin {"run", "interrupted"}
    <3>1. 1 \in AskBlocks(c) /\ coreQueue[1].call.op = r.op
      BY <1>2, <2>1, <2>3, <2>6 DEF AskBlocks
    <3>2. AskBlocks(c)' = {} /\ Asks(wire[c]) = {} /\ Answers(q) = {} /\ Wanted(c, r.op)
      BY <1>3, <2>2, <3>1 DEF CallOf, OnlyOne
    <3>3. \A i \in Answers(replies'[c]) : i = Len(q) + 1 /\ replies'[c][i] = r
      BY <2>3, <2>4, <3>2 DEF Answers
    <3>4. Asks(wire[c])' = {}
      BY <1>2, <3>2
    <3>5. QED
      BY <3>2, <3>3, <3>4 DEF CallOf, OnlyOne, Single, Wanted
  <2>7. QED
    BY <2>5, <2>6
<1>6. QED
  BY <1>4, <1>5

LEMMA ExecuteOrder ==
  ASSUME IInv, TypeInv, NEW c \in Sessions, OrderOf(c), NEW d \in Conns, NEW b \in Block, Ran(d, b), pc' = pc
  PROVE  OrderOf(c)'
<1>1. coreQueue \in Seq(Block) /\ replies \in [Conns -> Seq(ReplyRecord)] /\ c \in Conns
  BY ConnsAssumption DEF IInv, CoreTypes, TypeInv, ReplyTypes
<1>2. /\ coreQueue # <<>> /\ coreQueue' = Tail(coreQueue) /\ UNCHANGED <<wire, peer>>
      /\ 1 \in DOMAIN coreQueue /\ b = coreQueue[1] /\ b.from = d
  BY DEF Ran
<1>3. \A i \in From(c)' : i \in Nat /\ i # 0 /\ i + 1 \in From(c) /\ coreQueue'[i] = coreQueue[i + 1]
  BY <1>1, <1>2, LeftBlocks
<1>4. From(c) = {} => From(c)' = {}
  BY <1>3
<1>5. pc[c] = "unborn" => replies'[c] = <<>>
  <2>1. d = c => From(c) # {}
    BY <1>2 DEF From
  <2>2. d # c => replies'[c] = replies[c]
    BY <1>1 DEF Ran
  <2>3. QED
    BY <2>1, <2>2 DEF OrderOf
<1>6. \A i \in From(c)', j \in OpenBlocks(c)' : j <= i
  <2>1. \A j \in OpenBlocks(c)' : j \in Nat /\ j + 1 \in OpenBlocks(c)
    BY <1>3 DEF OpenBlocks
  <2>2. ASSUME NEW i \in From(c)', NEW j \in OpenBlocks(c)' PROVE j <= i
    <3>1. i \in Nat /\ j \in Nat /\ j + 1 <= i + 1
      BY <1>3, <2>1 DEF OrderOf
    <3>2. QED
      BY <3>1
  <2>3. QED
    BY <2>2
<1>7. NoClose(c) => NoClose(c)'
  BY <1>2, <1>3 DEF NoClose
<1>8. QED
  BY <1>2, <1>4, <1>5, <1>6, <1>7 DEF OrderOf, Opens

LEMMA ExecuteOpensNothing ==
  ASSUME IInv, NEW d \in Conns, NEW b \in Block, Ran(d, b)
  PROVE  NoNewOpen
<1>1. coreQueue \in Seq(Block) /\ coreQueue # <<>> /\ coreQueue' = Tail(coreQueue) /\ wire' = wire
  BY DEF IInv, CoreTypes, Ran
<1>2. ASSUME NEW e \in Conns, NoOpen(e) PROVE NoOpen(e)'
  <2>1. \A i \in From(e)' : i \in Nat /\ i + 1 \in From(e) /\ coreQueue'[i] = coreQueue[i + 1]
    BY <1>1, LeftBlocks
  <2>2. OpenBlocks(e)' = {}
    BY <1>2, <2>1 DEF NoOpen, OpenBlocks
  <2>3. QED
    BY <1>1, <1>2, <2>2 DEF NoOpen
<1>3. QED
  BY <1>2 DEF NoNewOpen

(* A connection that has something to close has nothing left to open. *)
LEMMA ClosedAfterOpen ==
  ASSUME IInv, CallInv, NEW d \in Conns, NEW b \in Block, Ran(d, b), b.call.op = "close"
  PROVE  NoOpen(d)'
<1>1. /\ coreQueue \in Seq(Block) /\ coreQueue # <<>> /\ coreQueue' = Tail(coreQueue) /\ wire' = wire
      /\ 1 \in DOMAIN coreQueue /\ b = coreQueue[1] /\ b.from = d
  BY DEF IInv, CoreTypes, Ran
<1>2. \A i \in From(d)' : i \in Nat /\ i # 0 /\ i + 1 \in From(d) /\ coreQueue'[i] = coreQueue[i + 1]
  BY <1>1, LeftBlocks
<1>3. CASE d \in Sessions
  <2>1. OrderOf(d) /\ 1 \in From(d)
    BY <1>1, <1>3 DEF CallInv, From
  <2>2. Opens(wire[d]) = {}
    BY <2>1 DEF OrderOf
  <2>3. \A j \in OpenBlocks(d)' : j \in Nat /\ j # 0 /\ j + 1 \in OpenBlocks(d)
    BY <1>2 DEF OpenBlocks
  <2>4. \A j \in OpenBlocks(d) : j <= 1
    BY <2>1 DEF OrderOf
  <2>5. \A j \in Nat : j # 0 => ~(j + 1 <= 1)
    OBVIOUS
  <2>6. OpenBlocks(d)' = {}
    BY <2>3, <2>4, <2>5
  <2>7. QED
    BY <1>1, <2>2, <2>6 DEF NoOpen
<1>4. CASE d \notin Sessions
  <2>1. NoOpen(d)
    <3>1. Opens(wire[d]) = {}
      BY <1>4 DEF IInv, OnlyGamesPlay, Opens
    <3>2. OpenBlocks(d) = {}
      BY <1>4 DEF IInv, OnlyGamesPlay, OpenBlocks, From
    <3>3. QED
      BY <3>1, <3>2 DEF NoOpen
  <2>2. QED
    BY <2>1, ExecuteOpensNothing DEF NoNewOpen
<1>5. QED
  BY <1>3, <1>4

LEMMA ExecuteKeepsOwner ==
  ASSUME IInv, CallInv, OwnerInv, TwoConnections, NEW c \in Sessions, Opened(c), NEW d \in Conns, NEW b \in Block,
         Ran(d, b)
  PROVE  Owns(c)'
<1>1. /\ CallOf(c) /\ OrderOf(c) /\ Owns(c) /\ c \in Conns /\ NoNewOpen
      /\ 1 \in DOMAIN coreQueue /\ b = coreQueue[1] /\ b.from = d
  BY ExecuteOpensNothing, ConnsAssumption DEF CallInv, OwnerInv, OwnerOf, Ran
<1>2. CASE session' = session
  BY <1>1, <1>2 DEF Owns, NoNewOpen
<1>3. CASE b.call.op = "open" /\ session = None /\ session' = d
  <2>1. 1 \in OpenBlocks(d)
    BY <1>1, <1>3 DEF OpenBlocks, From
  <2>2. c # None
    BY NoneAssumption
  <2>3. d = c
    BY <1>1, <1>3, <2>1, <2>2 DEF Owns, NoOpen
  <2>4. QED
    BY <1>3, <2>3 DEF Owns
<1>4. CASE b.call.op = "close" /\ session' = None
  <2>1. d # c
    <3>1. d = c => ~NoClose(c)
      BY <1>1, <1>4 DEF NoClose, From
    <3>2. pc[c] \notin Ended
      BY DEF Opened, Keeping, Driving, Ended
    <3>3. QED
      BY <1>1, <3>1, <3>2 DEF OrderOf
  <2>2. \A e \in Conns \ {c} : e = d
    BY <1>1, <2>1 DEF TwoConnections
  <2>3. NoOpen(d)'
    BY <1>4, ClosedAfterOpen
  <2>4. \A e \in Conns \ {c} : NoOpen(e)'
    BY <2>2, <2>3
  <2>5. QED
    BY <1>4, <2>4 DEF Owns
<1>5. QED
  BY <1>2, <1>3, <1>4 DEF Ran

LEMMA ExecuteOwns ==
  ASSUME IInv, TypeInv, CallInv, OwnerInv, TwoConnections, NEW c \in Sessions, NEW d \in Conns, NEW b \in Block,
         Ran(d, b), pc' = pc
  PROVE  OwnerOf(c)'
<1>1. /\ replies \in [Conns -> Seq(ReplyRecord)] /\ c \in Conns
      /\ CallOf(c) /\ OwnerOf(c)
      /\ 1 \in DOMAIN coreQueue /\ b = coreQueue[1] /\ b.from = d
  BY ConnsAssumption DEF TypeInv, ReplyTypes, CallInv, OwnerInv, Ran
<1>2. Opened(c) => Owns(c)'
  BY ExecuteKeepsOwner
<1>3. CASE replies'[c] = replies[c]
  <2>1. (Opened(c)' <=> Opened(c)) /\ (OwnSaves(c)' <=> OwnSaves(c))
    BY <1>3 DEF Opened, Told, OwnSaves
  <2>2. QED
    BY <1>1, <1>2, <2>1 DEF OwnerOf
<1>4. CASE replies'[c] # replies[c]
  <2>1. PICK r \in ReplyRecord : /\ b.call.awaited /\ r.op = b.call.op /\ r.by = session
                                 /\ replies' = [replies EXCEPT ![d] = Append(@, r)]
                                 /\ r.op = "open" /\ r.ok => session' = d
                                 /\ r.op = "saveRAM" /\ r.ok => session # None
    BY <1>4 DEF Ran
  <2>2. PICK q \in Seq(ReplyRecord) : q = replies[c]
    BY <1>1
  <2>3. d = c /\ replies'[c] = Append(q, r)
    BY <1>1, <1>4, <2>1, <2>2
  <2>4. \A i \in DOMAIN replies'[c] : \/ replies'[c][i] = r
                                      \/ i \in DOMAIN q /\ replies'[c][i] = q[i]
    BY <2>3, AnsweredLast
  <2>5. Opened(c)' => Owns(c)'
    <3>1. CASE Told(c)' => Told(c)
      BY <1>2, <3>1 DEF Opened
    <3>2. CASE r.op = "open" /\ r.ok
      BY <2>1, <2>3, <3>2 DEF Owns
    <3>3. Told(c)' => Told(c) \/ (r.op = "open" /\ r.ok)
      BY <2>2, <2>4 DEF Told
    <3>4. QED
      BY <3>1, <3>2, <3>3
  <2>6. r.op = "saveRAM" /\ r.ok => r.by = c
    <3>1. SUFFICES ASSUME r.op = "saveRAM", r.ok PROVE r.by = c
      OBVIOUS
    <3>2. 1 \in AskBlocks(c)
      BY <1>1, <2>1, <2>3, <3>1 DEF AskBlocks
    <3>3. Wanted(c, "saveRAM")
      BY <1>1, <2>1, <3>1, <3>2 DEF CallOf
    <3>4. pc[c] \in Keeping
      BY <3>3 DEF Wanted, Waits, AwaitedOp, Keeping, Driving
    <3>5. QED
      BY <1>1, <2>1, <3>1, <3>4 DEF OwnerOf, Opened, Owns
  <2>7. OwnSaves(c)'
    BY <1>1, <2>2, <2>4, <2>6 DEF OwnSaves, OwnerOf
  <2>8. QED
    BY <2>5, <2>7 DEF OwnerOf
<1>5. QED
  BY <1>3, <1>4

LEMMA CrashOwner ==
  ASSUME IInv, TypeInv, NEW c \in Sessions, CallOf(c), OrderOf(c), Crash, pc' = pc
  PROVE  CallOf(c)' /\ OrderOf(c)' /\ (OwnerOf(c) => OwnerOf(c)')
<1> USE ConnsAssumption
<1>1. /\ \A e \in Conns : wire'[e] = <<>>
      /\ coreQueue' = <<>> /\ peer' = {} /\ session' = None /\ c \in Conns
      /\ replies'[c] = IF c \in peer \/ wire[c] # <<>> THEN Append(replies[c], Interruption) ELSE replies[c]
  BY DEF Crash
<1>2. /\ Asks(wire[c])' = {} /\ From(c)' = {} /\ AskBlocks(c)' = {} /\ OpenBlocks(c)' = {}
      /\ Opens(wire[c])' = {} /\ NoClose(c)'
  BY <1>1 DEF Asks, From, AskBlocks, OpenBlocks, Opens, NoClose
<1>3. PICK q \in Seq(ReplyRecord) : q = replies[c]
  BY DEF TypeInv, ReplyTypes
<1>4. PICK r \in ReplyRecord : r = Interruption /\ r.op = "interrupted"
  <2>1. Interruption \in ReplyRecord /\ Interruption.op = "interrupted"
    BY DEF Interruption, ReplyRecord
  <2>2. QED
    BY <2>1
<1>5. /\ Within(Answers(replies[c])', replies'[c], Answers(replies[c]), replies[c])
      /\ \A i \in DOMAIN replies'[c] : replies'[c][i] = r \/ (i \in DOMAIN q /\ replies'[c][i] = q[i])
  <2>1. CASE replies'[c] = replies[c]
    BY <1>3, <2>1, SameCalls
  <2>2. CASE replies'[c] = Append(q, r)
    <3>1. /\ \A i \in DOMAIN Append(q, r) : \/ Append(q, r)[i] = r
                                            \/ i \in DOMAIN q /\ Append(q, r)[i] = q[i]
          /\ Within(Answers(Append(q, r)), Append(q, r), Answers(q), q)
      BY <1>4, AnsweredLast
    <3>2. QED
      BY <1>3, <2>2, <3>1
  <2>3. QED
    BY <1>1, <1>3, <1>4, <2>1, <2>2
<1>6. CallOf(c)'
  <2>1. /\ Within(Asks(wire[c])', wire'[c], Asks(wire[c]), wire[c])
        /\ Within(AskBlocks(c)', coreQueue', AskBlocks(c), coreQueue)
    BY <1>2 DEF Within, Single
  <2>2. QED
    BY <1>5, <2>1, KeptCallOf
<1>7. OrderOf(c)'
  <2>1. pc[c] = "unborn" => replies'[c] = <<>>
    BY <1>1 DEF OrderOf
  <2>2. QED
    BY <1>1, <1>2, <2>1 DEF OrderOf
<1>8. Owns(c)'
  <2>1. \A e \in Conns : Opens(wire'[e]) = {} /\ OpenBlocks(e)' = {}
    BY <1>1 DEF Opens, OpenBlocks, From
  <2>2. QED
    BY <1>1, <2>1 DEF Owns, NoOpen
<1>9. OwnSaves(c) => OwnSaves(c)'
  BY <1>3, <1>4, <1>5 DEF OwnSaves
<1>10. QED
  BY <1>6, <1>7, <1>8, <1>9 DEF OwnerOf

-----------------------------------------------------------------------------
LEMMA StepCalls ==
  ASSUME IInv, TypeInv, CallInv, [Next]_vars
  PROVE  /\ CallInv'
         /\ OwnerInv /\ TwoConnections => OwnerInv'
<1>1. ASSUME NEW c \in Sessions
      PROVE  /\ CallOf(c)' /\ OrderOf(c)'
             /\ OwnerInv /\ TwoConnections => OwnerOf(c)'
  <2> DEFINE Keeps == /\ CallOf(c)' /\ OrderOf(c)'
                      /\ OwnerInv /\ TwoConnections => OwnerOf(c)'
  <2>1. CallOf(c) /\ OrderOf(c) /\ (OwnerInv => OwnerOf(c))
    BY DEF CallInv, OwnerInv
  <2>2. CASE LoopThread(c)
    BY <2>1, <2>2, OwnThreadCall, OwnThreadOrder, OwnThreadOwns
  <2>3. ASSUME NEW d \in Sessions, d # c, LoopThread(d) PROVE Keeps
    <3>1. CallOf(d)
      BY DEF CallInv
    <3>2. Elsewhere(c) /\ NoNewOpen
      BY <2>3, <3>1, OtherThreadElsewhere, ThreadOpensNothing
    <3>3. QED
      BY <2>1, <3>2, ElsewhereKept
  <2>4. CASE App
    BY <2>1, <2>4, AppOwner
  <2>5. ASSUME NEW d \in Conns, Deliver(d), UNCHANGED <<clientVars, appVars, stored>> PROVE Keeps
    BY <2>1, <2>5, DeliverOwner DEF clientVars, appVars
  <2>6. ASSUME NEW d \in Conns, Execute(d), UNCHANGED <<clientVars, appVars, stored>> PROVE Keeps
    <3>1. PICK b \in Block : Ran(d, b)
      BY <2>6, ExecuteRan
    <3>2. pc' = pc
      BY <2>6 DEF clientVars
    <3>3. QED
      BY <2>1, <3>1, <3>2, ExecuteCall, ExecuteOrder, ExecuteOwns
  <2>7. CASE Crash /\ UNCHANGED <<clientVars, appVars, stored>>
    BY <2>1, <2>7, CrashOwner DEF clientVars
  <2>8. CASE UNCHANGED vars
    <3>1. Elsewhere(c) /\ NoNewOpen
      BY <2>8 DEF vars, serviceVars, clientVars, Elsewhere, NoNewOpen, NoOpen, From, Opens, OpenBlocks
    <3>2. QED
      BY <2>1, <3>1, ElsewhereKept
  <2>9. QED
    BY <2>2, <2>3, <2>4, <2>5, <2>6, <2>7, <2>8 DEF Next, HostNext
<1>2. QED
  BY <1>1 DEF CallInv, OwnerInv

LEMMA InitOwner == Init => CallInv /\ OwnerInv
<1> SUFFICES ASSUME Init, NEW c \in Sessions PROVE CallOf(c) /\ OrderOf(c) /\ OwnerOf(c)
  BY DEF CallInv, OwnerInv
<1>1. wire[c] = <<>> /\ replies[c] = <<>> /\ coreQueue = <<>> /\ peer = {} /\ pc[c] = "unborn"
  BY ConnsAssumption DEF Init, HostInit
<1>2. /\ Asks(wire[c]) = {} /\ From(c) = {} /\ AskBlocks(c) = {} /\ OpenBlocks(c) = {}
      /\ Opens(wire[c]) = {} /\ Answers(replies[c]) = {} /\ NoClose(c)
  BY <1>1 DEF Asks, From, AskBlocks, OpenBlocks, Opens, Answers, NoClose
<1>3. CallOf(c) /\ OrderOf(c)
  BY <1>1, <1>2 DEF CallOf, OnlyOne, Single, OrderOf
<1>4. OwnerOf(c)
  BY <1>1 DEF OwnerOf, Opened, Keeping, Driving, OwnSaves
<1>5. QED
  BY <1>3, <1>4

(* Only a flush writes a save, from a reply of the game's own session. *)
LEMMA StepSaves ==
  ASSUME IInv, TypeInv, CallInv, OwnerInv, NoForeignSave, [Next]_vars
  PROVE  NoForeignSave'
<1>1. stored' = stored \/ \E c \in Sessions : LoopThread(c)
  BY DEF Next, App, StartGame, StopGame, HandleLoss, Replace, Replaced, StartProbe, FinishProbe, vars
<1>2. ASSUME NEW c \in Sessions, LoopThread(c) PROVE NoForeignSave'
  <2>1. CallOf(c) /\ OwnSaves(c)
    BY DEF CallInv, OwnerInv, OwnerOf
  <2>2. Stores(c)
    BY <1>2, <2>1, AnyMoves
  <2>3. stored' = stored \/ stored' = stored \union {<<c, c>>}
    BY <2>1, <2>2 DEF Stores, OwnSaves
  <2>4. QED
    BY <2>3 DEF NoForeignSave
<1>3. QED
  BY <1>1, <1>2 DEF NoForeignSave

(* A loop thread has one call out at most, and hears no reply but the one  *)
(* it waits for, with any number of games, probes, crashes and timeouts:   *)
(* so there is one reply at most to leave unheard.                         *)
THEOREM OneCallOut == Spec => []CallInv
<1>1. Init => CallInv
  BY InitOwner
<1>2. IInv /\ TypeInv /\ CallInv /\ [Next]_vars => CallInv'
  BY StepCalls
<1>3. QED
  BY <1>1, <1>2, Inductive, Typed, PTL DEF Spec

(* With two connections, what is written to a game's save file was read    *)
(* from that game's session, whatever is late, lost or given up on.        *)
THEOREM AlwaysOwnSaves == ASSUME TwoConnections PROVE Spec => []NoForeignSave
<1>1. Init => OwnerInv /\ NoForeignSave
  BY InitOwner DEF Init, NoForeignSave
<1>2. IInv /\ TypeInv /\ CallInv /\ OwnerInv /\ [Next]_vars => OwnerInv'
  BY StepCalls
<1>3. IInv /\ TypeInv /\ CallInv /\ OwnerInv /\ NoForeignSave /\ [Next]_vars => NoForeignSave'
  BY StepSaves
<1>4. QED
  BY <1>1, <1>2, <1>3, Inductive, Typed, OneCallOut, PTL DEF Spec
=============================================================================
