------------------------------ MODULE Libretro ------------------------------
(***************************************************************************)
(* The contract of libretro.h between a frontend and its cores: which      *)
(* entry points of a core may be called when, and what calling them does.  *)
(* Each core is a dynamic library with one state for the whole process.    *)
(***************************************************************************)
EXTENDS LibretroCommands

CONSTANT Cores  \* the libraries

VARIABLES
  given,   \* core -> the entry points that have handed it their callback
  stage,   \* core -> "idle", "inited" or "loaded"
  inside   \* core -> the entry point in progress, or Outside

vars == <<given, stage, inside>>

Outside == "outside"

Stages == {"idle", "inited", "loaded"}

Init ==
  /\ given = [c \in Cores |-> {}]
  /\ stage = [c \in Cores |-> "idle"]
  /\ inside = [c \in Cores |-> Outside]

(* What is asked of a loaded game.  The header says so of                  *)
(* get_system_av_info and of the size of a state; for the others it is     *)
(* what "the game" in their comments can mean.                             *)
OfTheGame ==
  {"get_system_av_info", "serialize_size", "serialize", "unserialize",
   "get_memory_size", "get_memory_data"}

(* May entry point e of a core be called that has been given the callbacks *)
(* g and is in stage st?                                                   *)
Allowed(g, st, e) ==
  \/ e \in Setters \union {"api_version", "get_system_info"}
  \/ e = "init" /\ st = "idle" /\ "set_environment" \in g
  \/ e = "load_game" /\ st = "inited"
  \/ e \in OfTheGame \union {"unload_game"} /\ st = "loaded"
  \/ e = "run" /\ st = "loaded" /\ Setters \subseteq g
  \/ e = "deinit" /\ st = "inited"

(* A core that is deinited forgets everything, callbacks included. *)
GivenAfter(g, e) ==
  CASE e \in Setters -> g \union {e}
    [] e = "deinit"  -> {}
    [] OTHER         -> g

(* ok: what retro_load_game returned. *)
StageAfter(st, e, ok) ==
  CASE e = "init"             -> "inited"
    [] e = "load_game" /\ ok  -> "loaded"
    [] e = "unload_game"      -> "inited"
    [] e = "deinit"           -> "idle"
    [] OTHER                  -> st

(* A core may ask its frontend for something within any entry point that   *)
(* the command allows, once it knows whom to ask.                          *)
MayAsk(g, e, cmd) ==
  /\ e \in cmd.within
  /\ "set_environment" \in GivenAfter(g, e) \union g

Call(c, e) ==
  /\ inside[c] = Outside /\ Allowed(given[c], stage[c], e)
  /\ inside' = [inside EXCEPT ![c] = e]
  /\ UNCHANGED <<given, stage>>

Return(c) ==
  /\ inside[c] # Outside
  /\ inside' = [inside EXCEPT ![c] = Outside]
  /\ given' = [given EXCEPT ![c] = GivenAfter(@, inside[c])]
  /\ \E ok \in BOOLEAN : stage' = [stage EXCEPT ![c] = StageAfter(@, inside[c], ok)]

Next == \E c \in Cores : Return(c) \/ \E e \in EntryPoints : Call(c, e)

Spec == Init /\ [][Next]_vars
=============================================================================
