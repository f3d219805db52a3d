---------------------------- MODULE SaveMigration ----------------------------
(***************************************************************************)
(* The saves of library entries on disk and the migration that carries     *)
(* them over from the old layout: Content/SaveMigration.swift, run by      *)
(* applicationDidFinishLaunching of App.swift at every launch, and the     *)
(* writes of SaveRAMStore.swift and SaveStateStore.swift.                  *)
(*                                                                         *)
(* An old save is filed under the name of the core and the file, KeyOf,    *)
(* which several entries may share; a new one under the id of the entry.   *)
(* The copies are made one at a time and the app may be killed between     *)
(* any two of them; one copy, and one write of the stores, is atomic.      *)
(***************************************************************************)
EXTENDS Naturals, Sequences

CONSTANTS
  Entries,     \* the ids the library may give out
  Keys,        \* old keys: core and file name
  KeyOf,       \* id -> the old key its name and core spell
  FileOrder,   \* the files of a game: the save RAM, then the slots
  None,        \* no file
  MaxLaunches, \* bound
  MaxSaves     \* bound: saves a core makes

Files == {FileOrder[i] : i \in DOMAIN FileOrder}
ASSUME KeyOfAssumption == KeyOf \in [Entries -> Keys]
ASSUME FileOrderAssumption == FileOrder \in Seq(Files)
ASSUME NoneAssumption == None \notin {"old", "played"} \X (Keys \union Nat)
ASSUME BoundsAssumption == MaxLaunches \in Nat /\ MaxSaves \in Nat

VARIABLES
  old,      \* key -> the files there are in the old layout
  dir,      \* id -> file -> None, <<"old", key>> or <<"played", n>>
  library,  \* the ids of library.entries
  given,    \* the ids ever given out
  atLaunch, \* history: the library this launch migrated
  phase,    \* "off", "migrating" or "running"
  todo,     \* id -> the files migrate has yet to come to
  failed,   \* history: a copy failed in this launch
  launches, saves

vars == <<old, dir, library, given, atLaunch, phase, todo, failed, launches, saves>>

Init ==
  /\ old \in [Keys -> SUBSET Files]
  /\ dir = [e \in Entries |-> [f \in Files |-> None]]
  /\ library \in SUBSET Entries /\ given = library /\ atLaunch = {}
  /\ phase = "off" /\ todo = [e \in Entries |-> <<>>]
  /\ failed = FALSE
  /\ launches = 0 /\ saves = 0

(* SaveMigration.run begins, over the entries of the library. *)
Launch ==
  /\ phase = "off" /\ launches < MaxLaunches
  /\ launches' = launches + 1 /\ phase' = "migrating" /\ failed' = FALSE
  /\ todo' = [e \in Entries |-> IF e \in library THEN FileOrder ELSE <<>>]
  /\ atLaunch' = library
  /\ UNCHANGED <<old, dir, library, given, saves>>

\* Mutants: the destination is not looked at; moved || copy(...) instead of
\* copy(...) || moved, so that the first copy of an entry is its last.
WantedAlways(e, f) == f \in old[KeyOf[e]]

(* The condition under which copy copies. *)
Wanted(e, f) == f \in old[KeyOf[e]] /\ dir[e][f] = None

MigrateShortCircuit(e) ==
  /\ phase = "migrating" /\ todo[e] # <<>>
  /\ LET f == Head(todo[e]) IN
       /\ dir' = IF Wanted(e, f) THEN [dir EXCEPT ![e][f] = <<"old", KeyOf[e]>>] ELSE dir
       /\ todo' = [todo EXCEPT ![e] = IF Wanted(e, f) THEN <<>> ELSE Tail(@)]
  /\ UNCHANGED <<old, library, given, atLaunch, phase, failed, launches, saves>>

(* migrate comes to the next file of an entry; the copy may fail, which    *)
(* is reported to nobody.                                                  *)
Migrate(e) ==
  /\ phase = "migrating" /\ todo[e] # <<>>
  /\ todo' = [todo EXCEPT ![e] = Tail(@)]
  /\ LET f == Head(todo[e]) IN
       \/ /\ dir' = IF Wanted(e, f) THEN [dir EXCEPT ![e][f] = <<"old", KeyOf[e]>>] ELSE dir
          /\ UNCHANGED failed
       \/ Wanted(e, f) /\ failed' = TRUE /\ UNCHANGED dir
  /\ UNCHANGED <<old, library, given, atLaunch, phase, launches, saves>>

Migrated ==
  /\ phase = "migrating" /\ \A e \in Entries : todo[e] = <<>>
  /\ phase' = "running"
  /\ UNCHANGED <<old, dir, library, given, atLaunch, todo, failed, launches, saves>>

(* A scan or a play gives out a new id, of a file that has the name of an  *)
(* old one, perhaps; a scan drops an entry, whose saves stay on disk.      *)
AddEntry(e) ==
  /\ phase = "running" /\ e \notin given
  /\ library' = library \union {e} /\ given' = given \union {e}
  /\ UNCHANGED <<old, dir, atLaunch, phase, todo, failed, launches, saves>>

DropEntry(e) ==
  /\ phase = "running" /\ e \in library
  /\ library' = library \ {e}
  /\ UNCHANGED <<old, dir, given, atLaunch, phase, todo, failed, launches, saves>>

(* SaveRAMStore.save, SaveStateStore.save. *)
Save(e, f) ==
  /\ phase = "running" /\ e \in library /\ saves < MaxSaves
  /\ saves' = saves + 1
  /\ dir' = [dir EXCEPT ![e][f] = <<"played", saves + 1>>]
  /\ UNCHANGED <<old, library, given, atLaunch, phase, todo, failed, launches>>

(* The app quits, or is killed. *)
Quit ==
  /\ phase # "off"
  /\ phase' = "off" /\ todo' = [e \in Entries |-> <<>>]
  /\ UNCHANGED <<old, dir, library, given, atLaunch, failed, launches, saves>>

Next ==
  \/ Launch \/ Migrated \/ Quit
  \/ \E e \in Entries : Migrate(e) \/ AddEntry(e) \/ DropEntry(e) \/ \E f \in Files : Save(e, f)

Spec == Init /\ [][Next]_vars
-----------------------------------------------------------------------------
(* Only a later save replaces a save: no launch, and no retry of a         *)
(* migration that was cut short, puts an old save over a played one (copy).*)
NewerKept ==
  [][\A e \in Entries, f \in Files :
       dir'[e][f] # dir[e][f] /\ dir[e][f] # None => dir'[e][f] = <<"played", saves'>>]_vars

(* Once a launch is past its migration, each entry that was in the library *)
(* by then has a save for every old one its name spells, unless a copy     *)
(* failed, however often earlier launches were killed in the middle and    *)
(* whoever shares the old save (run, migrate).                             *)
CarriedOver ==
  phase = "running" /\ ~failed =>
    \A e \in library \intersect atLaunch : \A f \in old[KeyOf[e]] : dir[e][f] # None

(* Every variable has its type, and only a file that is in the old layout  *)
(* is ever carried into the new one.                                       *)
TypeOK ==
  /\ library \subseteq given /\ given \subseteq Entries /\ atLaunch \subseteq given
  /\ phase \in {"off", "migrating", "running"} /\ failed \in BOOLEAN
  /\ launches \in 0..MaxLaunches /\ saves \in 0..MaxSaves
  /\ \A e \in Entries, f \in Files :
       dir[e][f] \in {None} \union ({"played"} \X (1..saves))
                     \union {<<"old", k>> : k \in {l \in Keys : l = KeyOf[e] /\ f \in old[l]}}
=============================================================================
