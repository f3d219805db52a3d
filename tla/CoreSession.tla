---------------------------- MODULE CoreSession ----------------------------
(***************************************************************************)
(* One running libretro core: CoreHost/CoreSession.swift.  libretro's      *)
(* callbacks are context-free C functions, so the session they belong to   *)
(* is found through one static slot of the process, CoreSession.current.   *)
(*                                                                         *)
(* The state is a record, [current, phase], so that a caller that makes    *)
(* several calls without giving up its thread is one step:                 *)
(*   current   the session in the static slot, or None; the slot is a      *)
(*             strong reference, so a session in it is never deinited      *)
(*   phase     "none"     not constructed                                  *)
(*             "made"     retro_init has run, no game is loaded            *)
(*             "loaded"   retro_load_game has succeeded                    *)
(*             "unloaded" the game was loaded and unloaded again, because  *)
(*                        it asked for hardware rendering                  *)
(*             "shut"     shut down: unloaded, deinited, isActive = false  *)
(***************************************************************************)

CONSTANTS
  Sessions,   \* the sessions a process may construct
  None        \* no session

ASSUME NoneAssumption == None \notin Sessions

Phases == {"none", "made", "loaded", "unloaded", "shut"}
CoreStates == [current : Sessions \union {None}, phase : [Sessions -> Phases]]

NoCore == [current |-> None, phase |-> [s \in Sessions |-> "none"]]

SlotIsFree(core) == core.current = None

(* init, once the guard and the library load have passed. *)
Constructed(core, s) == [current |-> s, phase |-> [core.phase EXCEPT ![s] = "made"]]

(* How loadGame can end: loaded, gameRejected, hardwareRenderUnsupported.  *)
LoadOutcomes == {"loaded", "rejected", "hardware"}

(* loadGame; only the first outcome returns, the other two throw. *)
AfterLoad(core, s, outcome) ==
  CASE outcome = "loaded"   -> [core EXCEPT !.phase[s] = "loaded"]
    [] outcome = "rejected" -> core
    [] outcome = "hardware" -> [core EXCEPT !.phase[s] = "unloaded"]

(* isActive: from the constructor until shutdown. *)
IsActive(core, s) == core.phase[s] \in {"made", "loaded", "unloaded"}

(* shutdown: a second one does nothing. *)
ShutDown(core, s) ==
  IF IsActive(core, s)
  THEN [current |-> IF core.current = s THEN None ELSE core.current,
        phase   |-> [core.phase EXCEPT ![s] = "shut"]]
  ELSE core
=============================================================================
