------------------------ MODULE SaveMigration_proofs ------------------------
(***************************************************************************)
(* Proofs about the migration of saves: for any entries, old keys shared   *)
(* between them in any way, files of a game, and any number of launches.   *)
(***************************************************************************)
EXTENDS SaveMigration, TLAPS

Kept == {"old", "played"} \X (Keys \union Nat)

MigrationTypes ==
  /\ old \in [Keys -> SUBSET Files]
  /\ dir \in [Entries -> [Files -> {None} \union Kept]]
  /\ library \subseteq Entries /\ atLaunch \subseteq Entries
  /\ todo \in [Entries -> Seq(Files)]
  /\ saves \in Nat /\ failed \in BOOLEAN

(* An old save of an entry this launch migrates is carried over, or is one *)
(* of the files the migration has yet to come to.                          *)
OldSavesSeen ==
  phase # "off" /\ ~failed =>
    \A e \in atLaunch : \A f \in old[KeyOf[e]] :
      \/ dir[e][f] # None
      \/ phase = "migrating" /\ \E i \in DOMAIN todo[e] : todo[e][i] = f

IInv == MigrationTypes /\ OldSavesSeen

-----------------------------------------------------------------------------
LEMMA TakingOne ==
  ASSUME NEW S, NEW q \in Seq(S), q # <<>>
  PROVE  /\ Tail(q) \in Seq(S) /\ Head(q) \in S
         /\ \A i \in DOMAIN q : q[i] = Head(q) \/ \E j \in DOMAIN Tail(q) : Tail(q)[j] = q[i]
<1>1. Tail(q) \in Seq(S) /\ Head(q) \in S
  OBVIOUS
<1>2. ASSUME NEW i \in DOMAIN q, i # 1 PROVE i - 1 \in DOMAIN Tail(q) /\ Tail(q)[i - 1] = q[i]
  BY <1>2
<1>3. Head(q) = q[1]
  OBVIOUS
<1>4. QED
  BY <1>1, <1>2, <1>3

LEMMA EveryFile == FileOrder \in Seq(Files) /\ \A f \in Files : \E i \in DOMAIN FileOrder : FileOrder[i] = f
BY FileOrderAssumption DEF Files

LEMMA Filing ==
  ASSUME MigrationTypes, NEW e \in Entries, NEW f \in Files, NEW content \in Kept
  PROVE  LET filed == [dir EXCEPT ![e][f] = content] IN
         /\ filed \in [Entries -> [Files -> {None} \union Kept]]
         /\ filed[e][f] = content /\ content # None
         /\ \A d \in Entries, g \in Files : filed[d][g] # dir[d][g] => d = e /\ g = f
BY NoneAssumption DEF MigrationTypes, Kept

-----------------------------------------------------------------------------
LEMMA InitIInv == Init => IInv
<1>1. <<>> \in Seq(Files)
  OBVIOUS
<1>2. ASSUME Init PROVE MigrationTypes
  <2>1. dir \in [Entries -> [Files -> {None} \union Kept]]
    BY <1>2 DEF Init
  <2>2. todo \in [Entries -> Seq(Files)]
    BY <1>1, <1>2 DEF Init
  <2>3. QED
    BY <1>2, <2>1, <2>2 DEF Init, MigrationTypes
<1>3. QED
  BY <1>2 DEF Init, IInv, OldSavesSeen

LEMMA LaunchIInv == ASSUME IInv, Launch PROVE IInv'
<1>1. MigrationTypes'
  <2>1. <<>> \in Seq(Files)
    OBVIOUS
  <2>2. QED
    BY <2>1, EveryFile DEF IInv, MigrationTypes, Launch
<1>2. ASSUME NEW e \in atLaunch', NEW f \in old'[KeyOf[e]]
      PROVE  phase' = "migrating" /\ \E i \in DOMAIN todo'[e] : todo'[e][i] = f
  <2>1. e \in library /\ e \in Entries /\ KeyOf[e] \in Keys /\ f \in Files
    BY KeyOfAssumption DEF IInv, MigrationTypes, Launch
  <2>2. todo'[e] = FileOrder
    BY <2>1 DEF Launch
  <2>3. QED
    BY <2>1, <2>2, EveryFile DEF Launch
<1>3. QED
  BY <1>1, <1>2 DEF IInv, OldSavesSeen

(* A copy that is made leaves the file there; one that fails is failed.    *)
LEMMA MigrateIInv == ASSUME IInv, NEW e \in Entries, Migrate(e) PROVE IInv'
<1> DEFINE f == Head(todo[e])
<1>1. /\ todo[e] \in Seq(Files) /\ todo[e] # <<>> /\ todo' = [todo EXCEPT ![e] = Tail(todo[e])]
      /\ UNCHANGED <<old, library, atLaunch, phase, saves>> /\ phase = "migrating"
  BY DEF IInv, MigrationTypes, Migrate
<1>2. /\ Tail(todo[e]) \in Seq(Files) /\ f \in Files
      /\ \A i \in DOMAIN todo[e] :
           todo[e][i] = f \/ \E j \in DOMAIN Tail(todo[e]) : Tail(todo[e])[j] = todo[e][i]
  BY <1>1, TakingOne
<1>3. <<"old", KeyOf[e]>> \in Kept
  BY KeyOfAssumption DEF Kept
<1>4. PICK filed : /\ filed = [dir EXCEPT ![e][f] = <<"old", KeyOf[e]>>]
                   /\ filed \in [Entries -> [Files -> {None} \union Kept]]
                   /\ filed[e][f] # None
                   /\ \A d \in Entries, g \in Files : filed[d][g] # dir[d][g] => d = e /\ g = f
  <2>1. PICK g \in Files : g = f
    BY <1>2
  <2>2. PICK content \in Kept : content = <<"old", KeyOf[e]>>
    BY <1>3
  <2>3. PICK filed : filed = [dir EXCEPT ![e][g] = content]
    OBVIOUS
  <2>4. /\ filed \in [Entries -> [Files -> {None} \union Kept]]
        /\ filed[e][g] = content /\ content # None
        /\ \A d \in Entries, h \in Files : filed[d][h] # dir[d][h] => d = e /\ h = g
    BY <2>3, Filing DEF IInv
  <2>5. QED
    BY <2>1, <2>2, <2>3, <2>4
<1>5. \/ Wanted(e, f) /\ dir' = filed /\ failed' = failed
      \/ ~Wanted(e, f) /\ dir' = dir /\ failed' = failed
      \/ dir' = dir /\ failed' = TRUE
  BY <1>4 DEF Migrate
<1>6. MigrationTypes'
  BY <1>1, <1>2, <1>4, <1>5 DEF IInv, MigrationTypes
<1>7. ASSUME ~failed'
      PROVE  /\ ~failed /\ (f \in old[KeyOf[e]] => dir'[e][f] # None)
             /\ \A d \in Entries, g \in Files : dir[d][g] # None => dir'[d][g] # None
  BY <1>2, <1>4, <1>5, <1>7 DEF Wanted
<1>8. ASSUME ~failed', NEW d \in atLaunch, NEW g \in old[KeyOf[d]], dir'[d][g] = None
      PROVE  \E i \in DOMAIN todo'[d] : todo'[d][i] = g
  <2>1. d \in Entries /\ g \in Files
    BY KeyOfAssumption DEF IInv, MigrationTypes
  <2>2. PICK i \in DOMAIN todo[d] : todo[d][i] = g
    BY <1>1, <1>7, <1>8, <2>1 DEF IInv, OldSavesSeen
  <2>3. CASE d = e
    BY <1>1, <1>2, <1>7, <1>8, <2>1, <2>2, <2>3 DEF IInv, MigrationTypes
  <2>4. CASE d # e
    BY <1>1, <2>1, <2>2, <2>4 DEF IInv, MigrationTypes
  <2>5. QED
    BY <2>3, <2>4
<1>9. QED
  BY <1>1, <1>6, <1>8 DEF IInv, OldSavesSeen

LEMMA MigratedIInv == ASSUME IInv, Migrated PROVE IInv'
<1>1. MigrationTypes'
  BY DEF IInv, MigrationTypes, Migrated
<1>2. \A e \in Entries : DOMAIN todo[e] = {}
  BY DEF Migrated
<1>3. QED
  BY <1>1, <1>2 DEF IInv, MigrationTypes, OldSavesSeen, Migrated

LEMMA SaveIInv == ASSUME IInv, NEW e \in Entries, NEW f \in Files, Save(e, f) PROVE IInv'
<1>1. <<"played", saves + 1>> \in Kept /\ saves + 1 \in Nat
  BY DEF IInv, MigrationTypes, Kept
<1>2. MigrationTypes'
  BY <1>1, Filing DEF IInv, MigrationTypes, Save
<1>3. \A d \in Entries, g \in Files : dir[d][g] # None => dir'[d][g] # None
  BY <1>1, Filing DEF IInv, Save
<1>4. \A d \in atLaunch : d \in Entries /\ \A g \in old[KeyOf[d]] : g \in Files
  BY KeyOfAssumption DEF IInv, MigrationTypes
<1>5. QED
  BY <1>2, <1>3, <1>4 DEF IInv, OldSavesSeen, Save

LEMMA OtherIInv ==
  ASSUME IInv, NEW e \in Entries, AddEntry(e) \/ DropEntry(e) \/ Quit
  PROVE  IInv'
<1>1. <<>> \in Seq(Files)
  OBVIOUS
<1>2. QED
  BY <1>1 DEF IInv, MigrationTypes, OldSavesSeen, AddEntry, DropEntry, Quit

LEMMA NextIInv == ASSUME IInv, [Next]_vars PROVE IInv'
<1>1. CASE Launch
  BY <1>1, LaunchIInv
<1>2. CASE Migrated
  BY <1>2, MigratedIInv
<1>3. CASE Quit
  BY <1>3 DEF IInv, MigrationTypes, OldSavesSeen, Quit
<1>4. ASSUME NEW e \in Entries, Migrate(e) PROVE IInv'
  BY <1>4, MigrateIInv
<1>5. ASSUME NEW e \in Entries, AddEntry(e) \/ DropEntry(e) PROVE IInv'
  BY <1>5, OtherIInv
<1>6. ASSUME NEW e \in Entries, NEW f \in Files, Save(e, f) PROVE IInv'
  BY <1>6, SaveIInv
<1>7. CASE UNCHANGED vars
  BY <1>7 DEF IInv, MigrationTypes, OldSavesSeen, vars
<1>8. QED
  BY <1>1, <1>2, <1>3, <1>4, <1>5, <1>6, <1>7 DEF Next
-----------------------------------------------------------------------------
(* In every reachable state, an old save of an entry that is migrated has  *)
(* been carried over or is still to come (SaveMigration.run, migrate).     *)
THEOREM Inductive == Spec => []IInv
<1>1. QED
  BY InitIInv, NextIInv, PTL DEF Spec

(* A launch that is past its migration, and in which no copy failed, has   *)
(* carried over every old save of the entries it found, however often      *)
(* earlier launches were cut short (run, migrate, copy).                   *)
THEOREM AllCarriedOver == Spec => []CarriedOver
<1>1. IInv => CarriedOver
  BY DEF IInv, OldSavesSeen, CarriedOver
<1>2. QED
  BY <1>1, Inductive, PTL

(* Only a later save replaces a save (copy, which leaves alone what is     *)
(* there; SaveRAMStore.save and SaveStateStore.save).                      *)
THEOREM NewerAlwaysKept == Spec => NewerKept
<1> DEFINE Step == \A e \in Entries, f \in Files :
                     dir'[e][f] # dir[e][f] /\ dir[e][f] # None => dir'[e][f] = <<"played", saves'>>
<1>1. ASSUME IInv, [Next]_vars PROVE Step
  <2>1. ASSUME NEW e \in Entries, Migrate(e) PROVE Step
    <3>1. Head(todo[e]) \in Files /\ <<"old", KeyOf[e]>> \in Kept
      BY <1>1, <2>1, TakingOne, KeyOfAssumption DEF IInv, MigrationTypes, Migrate, Kept
    <3>2. PICK g : g = Head(todo[e])
      OBVIOUS
    <3>3. /\ g \in Files
          /\ dir' # dir => dir' = [dir EXCEPT ![e][g] = <<"old", KeyOf[e]>>] /\ dir[e][g] = None
      BY <2>1, <3>1, <3>2 DEF Migrate, Wanted
    <3>4. ASSUME NEW d \in Entries, NEW h \in Files, dir'[d][h] # dir[d][h] PROVE dir[d][h] = None
      BY <1>1, <3>1, <3>3, <3>4 DEF IInv, MigrationTypes
    <3>5. QED
      BY <3>4
  <2>2. ASSUME NEW e \in Entries, NEW f \in Files, Save(e, f) PROVE Step
    <3>1. <<"played", saves + 1>> \in Kept
      BY <1>1 DEF IInv, MigrationTypes, Kept
    <3>2. QED
      BY <1>1, <2>2, <3>1, Filing DEF IInv, Save
  <2>3. ASSUME dir' = dir PROVE Step
    BY <2>3
  <2>4. QED
    BY <1>1, <2>1, <2>2, <2>3
    DEF Next, vars, Launch, Migrated, Quit, AddEntry, DropEntry
<1>2. QED
  BY <1>1, Inductive, PTL DEF Spec, NewerKept
=============================================================================
