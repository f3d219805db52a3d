--------------------------- MODULE GameLifecycle ---------------------------
(***************************************************************************)
(* What App.swift promises of its games, wherever their cores run: games   *)
(* take turns.  Each game has a loop, a thread that drives its core, and a *)
(* window; a loop starts when no other is running, a window outlives its   *)
(* loop, and a game that is over does not start again.                     *)
(*                                                                         *)
(* HelperGame and CoreDisplayLoop implement this.                          *)
(***************************************************************************)
CONSTANTS Games, NoGame

VARIABLES
  shown,    \* the game whose window is open, or NoGame
  running,  \* the games whose loop is running
  over      \* the games whose loop has ended

vars == <<shown, running, over>>

Init == shown = NoGame /\ running = {} /\ over = {}

(* The game before, if any, has ended; its window is closed on the way. *)
Launch(g) ==
  /\ running = {} /\ g \notin over
  /\ shown' = g /\ running' = {g}
  /\ UNCHANGED over

(* A loop ends: it was stopped, or could not load its game. *)
End(g) ==
  /\ running = {g}
  /\ running' = {} /\ over' = over \union {g}
  /\ UNCHANGED shown

Close ==
  /\ running = {} /\ shown' = NoGame
  /\ UNCHANGED <<running, over>>

(* The process dies, and is started again. *)
Die ==
  /\ shown' = NoGame /\ running' = {} /\ over' = over \union running

Next == (\E g \in Games : Launch(g) \/ End(g)) \/ Close \/ Die

Spec == Init /\ [][Next]_vars
=============================================================================
