-------------------------- MODULE CoreDisplayLoop --------------------------
(***************************************************************************)
(* A game hosted in the app itself: CoreDisplayLoop.swift with the session *)
(* of CoreSession.swift, the stores SaveRAMStore.swift and                 *)
(* SaveStateStore.swift, and startGame and stopGame of App.swift.          *)
(*                                                                         *)
(* Two threads: the main thread and the core thread of the running game,   *)
(* which does the setup, the display link's callbacks, the save and load   *)
(* of states and the teardown, one at a time.  The app may also be killed  *)
(* at any moment; what it had written to disk remains.                     *)
(*                                                                         *)
(* Save RAM is abstracted to the game it belongs to and a serial number    *)
(* that grows with every change the core makes.                            *)
(***************************************************************************)
EXTENDS CoreSession, Naturals, SequencesExt

CONSTANTS
  Entries,     \* library entries
  FlushEvery,  \* 600 in the code: callbacks with a frame due between flushes
  MaxWrites,   \* bound: changes of save RAM
  MaxFailures, \* bound: writes to disk that fail
  MaxKills     \* bound: times the app is killed

ASSUME EntriesAssumption == None \notin Entries
ASSUME FlushAssumption == FlushEvery \in Nat \ {0}
ASSUME BoundsAssumption == MaxWrites \in Nat /\ MaxFailures \in Nat /\ MaxKills \in Nat

VARIABLES
  core,         \* CoreSession's static slot and the phase of each session
  pc,           \* loop -> where its core thread is
  entry,        \* loop -> its entryID, or None
  saveIdentity, \* loop -> saveIdentity
  ram,          \* loop -> the core's save RAM, None if it exposes none
  lastFlushed,  \* loop -> lastFlushedSaveRAM
  sinceFlush,   \* loop -> framesSinceFlush
  saveFile,     \* entry -> save.srm
  slotFile,     \* entry -> a save-state slot
  game, main, next, \* the main thread, as in HelperGame
  clock,        \* serial number of the last change of save RAM
  failures, kills,
  seen,         \* history: loop -> save RAM after each of its last callbacks
  missed        \* history: loop -> its last flush failed

disk == <<saveFile, slotFile>>
loopVars == <<core, pc, entry, saveIdentity, ram, lastFlushed, sinceFlush, seen, missed>>
mainVars == <<game, main, next>>
vars == <<loopVars, disk, mainVars, clock, failures, kills>>

Data == [of : Entries \union {None}, at : 0..MaxWrites]
ASSUME DataAssumption == None \notin Data

Places == {"unborn", "loading", "restoring", "armed", "failed", "stranded", "exited"}
Gone(c) == pc[c] \in {"stranded", "exited"}
Running(c) == pc[c] # "unborn" /\ ~Gone(c)

Init ==
  /\ core = NoCore
  /\ pc = [c \in Sessions |-> "unborn"]
  /\ entry = [c \in Sessions |-> None] /\ saveIdentity = [c \in Sessions |-> None]
  /\ ram = [c \in Sessions |-> None] /\ lastFlushed = [c \in Sessions |-> None]
  /\ sinceFlush = [c \in Sessions |-> 0]
  /\ seen = [c \in Sessions |-> <<>>] /\ missed = [c \in Sessions |-> FALSE]
  /\ saveFile = [e \in Entries |-> None] /\ slotFile = [e \in Entries |-> None]
  /\ game = None /\ main = "idle" /\ next = None
  /\ clock = 0 /\ failures = 0 /\ kills = 0
-----------------------------------------------------------------------------
\* Mutant: no alreadyActive guard.
LoadIgnoringSlot(c) ==
  /\ pc[c] = "loading"
  /\ \E outcome \in LoadOutcomes :
       /\ core' = AfterLoad(Constructed(core, c), c, outcome)
       /\ pc' = [pc EXCEPT ![c] = IF outcome = "loaded" THEN "restoring" ELSE "stranded"]
       /\ \E r \in {None, [of |-> entry[c], at |-> 0]} :
            ram' = [ram EXCEPT ![c] = IF outcome = "loaded" THEN r ELSE None]
  /\ UNCHANGED <<entry, saveIdentity, lastFlushed, sinceFlush, seen, missed, disk, mainVars,
                 clock, failures, kills>>

(* setUpOnCoreThread, to the end of its do block: the slot is taken, the   *)
(* library cannot be loaded, or the game is loaded or refused.  After a    *)
(* failure the thread has nothing in its run loop and ends, unless stop()  *)
(* has already asked it for the teardown.                                  *)
Load(c) ==
  /\ pc[c] = "loading"
  /\ LET gaveUp == IF main = "stopping" /\ game = c THEN "failed" ELSE "stranded" IN
     \/ /\ pc' = [pc EXCEPT ![c] = gaveUp]
        /\ UNCHANGED <<core, ram>>
     \/ /\ SlotIsFree(core)
        /\ \E outcome \in LoadOutcomes :
             /\ core' = AfterLoad(Constructed(core, c), c, outcome)
             /\ pc' = [pc EXCEPT ![c] = IF outcome = "loaded" THEN "restoring" ELSE gaveUp]
             /\ \E r \in {None, [of |-> entry[c], at |-> 0]} :
                  ram' = [ram EXCEPT ![c] = IF outcome = "loaded" THEN r ELSE None]
  /\ UNCHANGED <<entry, saveIdentity, lastFlushed, sinceFlush, seen, missed, disk, mainVars,
                 clock, failures, kills>>

(* The rest of setUpOnCoreThread: the save is restored, unless the core's  *)
(* save RAM has another size; then the display link is armed.              *)
Restore(c) ==
  /\ pc[c] = "restoring"
  /\ pc' = [pc EXCEPT ![c] = "armed"]
  /\ saveIdentity' = [saveIdentity EXCEPT ![c] = entry[c]]
  /\ \/ UNCHANGED <<ram, lastFlushed>>
     \/ /\ entry[c] # None /\ ram[c] # None
        /\ saveFile[entry[c]] # None
        /\ ram' = [ram EXCEPT ![c] = saveFile[entry[c]]]
        /\ lastFlushed' = [lastFlushed EXCEPT ![c] = saveFile[entry[c]]]
  /\ UNCHANGED <<core, entry, sinceFlush, seen, missed, disk, mainVars, clock, failures, kills>>

\* Mutant: the cache is updated although the write failed.
FlushForgetsFailure(c, now) ==
  LET e == saveIdentity[c] IN
  IF e = None \/ now = None \/ now = lastFlushed[c]
  THEN UNCHANGED <<saveFile, lastFlushed, missed, failures>>
  ELSE /\ lastFlushed' = [lastFlushed EXCEPT ![c] = now]
       /\ \/ /\ saveFile' = [saveFile EXCEPT ![e] = now]
             /\ missed' = [missed EXCEPT ![c] = FALSE]
             /\ UNCHANGED failures
          \/ /\ failures < MaxFailures /\ failures' = failures + 1
             /\ missed' = [missed EXCEPT ![c] = TRUE]
             /\ UNCHANGED saveFile

(* flushSaveRAM, the save RAM being now: the write is atomic and may fail. *)
Flush(c, now) ==
  LET e == saveIdentity[c] IN
  IF e = None \/ now = None \/ now = lastFlushed[c]
  THEN UNCHANGED <<saveFile, lastFlushed, missed, failures>>
  ELSE \/ /\ saveFile' = [saveFile EXCEPT ![e] = now]
          /\ lastFlushed' = [lastFlushed EXCEPT ![c] = now]
          /\ missed' = [missed EXCEPT ![c] = FALSE]
          /\ UNCHANGED failures
       \/ /\ failures < MaxFailures /\ failures' = failures + 1
          /\ missed' = [missed EXCEPT ![c] = TRUE]
          /\ UNCHANGED <<saveFile, lastFlushed>>

\* Mutant: the comparison with the flush interval is off by one.
FlushIsDueLate(n) == n > FlushEvery

FlushIsDue(n) == n >= FlushEvery

(* What the core leaves in its save RAM after running the frames due. *)
RAMAfterRun(c) ==
  {ram[c]} \union
  IF ram[c] # None /\ clock < MaxWrites THEN {[of |-> entry[c], at |-> clock + 1]} ELSE {}

(* A callback of the display link that has frames due. *)
Callback(c) ==
  /\ pc[c] = "armed"
  /\ \E now \in RAMAfterRun(c) :
       LET due == FlushIsDue(sinceFlush[c] + 1) IN
       /\ ram' = [ram EXCEPT ![c] = now]
       /\ clock' = IF now = ram[c] THEN clock ELSE clock + 1
       /\ sinceFlush' = [sinceFlush EXCEPT ![c] = IF due THEN 0 ELSE @ + 1]
       /\ IF due THEN Flush(c, now) ELSE UNCHANGED <<saveFile, lastFlushed, missed, failures>>
       /\ seen' = [seen EXCEPT ![c] =
            LET all == Append(@, now) IN
            IF Len(all) > FlushEvery THEN Tail(all) ELSE all]
  /\ UNCHANGED <<core, pc, entry, saveIdentity, slotFile, mainVars, kills>>

(* performSaveState; serialize may fail, and so may the write. *)
SaveState(c) ==
  /\ pc[c] = "armed" /\ saveIdentity[c] # None
  /\ slotFile' = [slotFile EXCEPT ![saveIdentity[c]] = ram[c]]
  /\ UNCHANGED <<loopVars, saveFile, mainVars, clock, failures, kills>>

(* performLoadState: a state brings the save RAM it was taken with. *)
LoadState(c) ==
  /\ pc[c] = "armed" /\ saveIdentity[c] # None
  /\ slotFile[saveIdentity[c]] # None /\ ram[c] # None
  /\ ram' = [ram EXCEPT ![c] = slotFile[saveIdentity[c]]]
  /\ UNCHANGED <<core, pc, entry, saveIdentity, lastFlushed, sinceFlush, seen, missed, disk,
                 mainVars, clock, failures, kills>>

\* Mutant: the session is shut down, and dropped, before the flush.
TearDownShutsFirst(c) ==
  /\ main = "stopping" /\ game = c /\ pc[c] \in {"armed", "failed"}
  /\ core' = IF pc[c] = "armed" THEN ShutDown(core, c) ELSE core
  /\ Flush(c, None)
  /\ pc' = [pc EXCEPT ![c] = "exited"]
  /\ ram' = [ram EXCEPT ![c] = None] /\ seen' = [seen EXCEPT ![c] = <<>>]
  /\ UNCHANGED <<entry, saveIdentity, sinceFlush, slotFile, mainVars, clock, kills>>

(* tearDownOnCoreThread, while the main thread waits in stop(). *)
TearDown(c) ==
  /\ main = "stopping" /\ game = c /\ pc[c] \in {"armed", "failed"}
  /\ Flush(c, IF pc[c] = "armed" THEN ram[c] ELSE None)
  /\ core' = IF pc[c] = "armed" THEN ShutDown(core, c) ELSE core
  /\ pc' = [pc EXCEPT ![c] = "exited"]
  /\ ram' = [ram EXCEPT ![c] = None] /\ seen' = [seen EXCEPT ![c] = <<>>]
  /\ UNCHANGED <<entry, saveIdentity, sinceFlush, slotFile, mainVars, clock, kills>>

CoreThread(c) ==
  Load(c) \/ Restore(c) \/ Callback(c) \/ SaveState(c) \/ LoadState(c) \/ TearDown(c)
-----------------------------------------------------------------------------
(* startGame: the running game is stopped first. *)
StartGame(c) ==
  /\ main = "idle" /\ pc[c] = "unborn"
  /\ main' = "stopping" /\ next' = c
  /\ \E e \in Entries \union {None} : entry' = [entry EXCEPT ![c] = e]
  /\ UNCHANGED <<core, pc, saveIdentity, ram, lastFlushed, sinceFlush, seen, missed, disk, game,
                 clock, failures, kills>>

StopGame ==
  /\ main = "idle" /\ game # None
  /\ main' = "stopping" /\ next' = None
  /\ UNCHANGED <<loopVars, disk, game, clock, failures, kills>>

Replaced ==
  /\ main' = "idle" /\ game' = next /\ next' = None
  /\ pc' = IF next = None THEN pc ELSE [pc EXCEPT ![next] = "loading"]
  /\ UNCHANGED <<core, entry, saveIdentity, ram, lastFlushed, sinceFlush, seen, missed, disk,
                 clock, failures, kills>>

\* Mutant: stop() asks for the teardown and does not wait for it.
ReplaceAtOnce == main = "stopping" /\ Replaced

(* stop() returns when the teardown has been performed, at once when the   *)
(* thread is gone; stopGame drops the loop and startGame starts the next.  *)
Replace == main = "stopping" /\ (game # None => Gone(game)) /\ Replaced

(* The app is killed and opened again. *)
Kill ==
  /\ kills < MaxKills /\ kills' = kills + 1
  /\ core' = NoCore
  /\ pc' = [c \in Sessions |-> IF Running(c) THEN "exited" ELSE pc[c]]
  /\ ram' = [c \in Sessions |-> None] /\ seen' = [c \in Sessions |-> <<>>]
  /\ game' = None /\ main' = "idle" /\ next' = None
  /\ UNCHANGED <<entry, saveIdentity, lastFlushed, sinceFlush, missed, disk, clock, failures>>

Next ==
  \/ \E c \in Sessions : CoreThread(c) \/ StartGame(c)
  \/ StopGame \/ Replace \/ Kill

Spec == Init /\ [][Next]_vars
-----------------------------------------------------------------------------
(* Every variable has its type. *)
TypeOK ==
  /\ core \in CoreStates
  /\ pc \in [Sessions -> Places]
  /\ entry \in [Sessions -> Entries \union {None}]
  /\ saveIdentity \in [Sessions -> Entries \union {None}]
  /\ ram \in [Sessions -> Data \union {None}]
  /\ lastFlushed \in [Sessions -> Data \union {None}]
  /\ sinceFlush \in [Sessions -> 0..FlushEvery - 1]
  /\ seen \in [Sessions -> Seq(Data \union {None})]
  /\ missed \in [Sessions -> BOOLEAN]
  /\ saveFile \in [Entries -> Data \union {None}]
  /\ slotFile \in [Entries -> Data \union {None}]
  /\ game \in Sessions \union {None} /\ next \in Sessions \union {None}
  /\ main \in {"idle", "stopping"}
  /\ clock \in 0..MaxWrites /\ failures \in 0..MaxFailures /\ kills \in 0..MaxKills

(* libretro cores are singletons of the process: never is more than one    *)
(* session between retro_init and retro_deinit, and a game is only driven  *)
(* through the slot that the core's callbacks go to.                       *)
OneActiveCore ==
  /\ \A c, d \in Sessions : IsActive(core, c) /\ IsActive(core, d) => c = d
  /\ \A c \in Sessions : pc[c] \in {"restoring", "armed"} =>
       core.current = c /\ core.phase[c] = "loaded"

(* Games take turns, also when the app is killed: one core thread at a     *)
(* time, and its window is there for as long as it runs.                   *)
Lifecycle == INSTANCE GameLifecycle WITH
  Games <- Sessions, NoGame <- None,
  shown <- game,
  running <- {c \in Sessions : Running(c)},
  over <- {c \in Sessions : Gone(c)}
GamesTakeTurns == Lifecycle!Spec

(* lastFlushedSaveRAM, by which flushSaveRAM decides that there is nothing *)
(* to write, is what the file holds: not a failed write, nor another       *)
(* game's or an earlier loop's, may leave it stale.                        *)
CacheIsFile ==
  \A c \in Sessions : pc[c] = "armed" /\ lastFlushed[c] # None =>
    saveFile[saveIdentity[c]] = lastFlushed[c]

(* A hard exit loses little: unless writing fails, the file holds what the *)
(* save RAM held after one of the last FlushEvery callbacks.               *)
BoundedLoss ==
  \A c \in Sessions :
    (pc[c] = "armed" /\ saveIdentity[c] # None /\ ram[c] # None /\ ~missed[c]
     /\ Len(seen[c]) = FlushEvery)
      => saveFile[saveIdentity[c]] \in ToSet(seen[c])

(* A clean stop loses nothing: once the teardown is done the file holds    *)
(* the save RAM as it was, unless writing it failed.                       *)
StopKeepsProgress ==
  [][\A c \in Sessions :
       (pc[c] = "armed" /\ pc'[c] = "exited" /\ kills' = kills
        /\ saveIdentity[c] # None /\ ram[c] # None /\ ~missed'[c])
         => saveFile'[saveIdentity[c]] = ram[c]]_vars

(* ADR 0001, design constraint 4, "a fallible, restartable session         *)
(* lifecycle": with no loop running, the next session can be made.         *)
Restartable == (\A c \in Sessions : ~Running(c)) => SlotIsFree(core)
=============================================================================
