----------------------- MODULE CoreDisplayLoop_proofs -----------------------
(***************************************************************************)
(* Proofs about games hosted in the app: for any number of games, of       *)
(* library entries, of failed writes and of kills of the app.              *)
(***************************************************************************)
EXTENDS CoreDisplayLoop, TLAPS

(* The loop that runs is the one behind the window, and the game about to  *)
(* be started has never run.                                               *)
TurnsInv ==
  /\ \A c \in Sessions : Running(c) => game = c
  /\ next # None => main = "stopping" /\ pc[next] = "unborn"

(* A session between its constructor and its shutdown is in the slot. *)
SlotInv ==
  /\ \A c \in Sessions : IsActive(core, c) => core.current = c
  /\ \A c \in Sessions : pc[c] \in {"restoring", "armed"} =>
       core.current = c /\ core.phase[c] = "loaded"

CacheInv ==
  \A c \in Sessions :
    /\ pc[c] \in {"unborn", "loading", "restoring"} => lastFlushed[c] = None
    /\ pc[c] = "armed" /\ lastFlushed[c] # None =>
         saveIdentity[c] # None /\ saveFile[saveIdentity[c]] = lastFlushed[c]

(* sinceFlush callbacks ago the file and the save RAM were the same. *)
SeenInv ==
  \A c \in Sessions :
    /\ pc[c] \in {"unborn", "loading", "restoring"} => seen[c] = <<>> /\ sinceFlush[c] = 0
    /\ pc[c] = "armed" =>
         /\ Len(seen[c]) \in 0..FlushEvery
         /\ Len(seen[c]) < FlushEvery => sinceFlush[c] = Len(seen[c])
         /\ Len(seen[c]) = FlushEvery /\ saveIdentity[c] # None /\ ram[c] # None /\ ~missed[c] =>
              saveFile[saveIdentity[c]] = seen[c][FlushEvery - sinceFlush[c]]

IInv == TypeOK /\ TurnsInv /\ SlotInv /\ CacheInv /\ SeenInv

-----------------------------------------------------------------------------
(* What a flush leaves. *)
LEMMA Flushing ==
  ASSUME IInv, NEW c \in Sessions, NEW now \in Data \union {None}, Flush(c, now), pc[c] = "armed"
  PROVE  /\ saveFile' \in [Entries -> Data \union {None}]
         /\ lastFlushed' \in [Sessions -> Data \union {None}]
         /\ missed' \in [Sessions -> BOOLEAN] /\ failures' \in 0..MaxFailures
         /\ \A d \in Sessions \ {c} : lastFlushed'[d] = lastFlushed[d] /\ missed'[d] = missed[d]
         /\ lastFlushed'[c] # None =>
              saveIdentity[c] # None /\ saveFile'[saveIdentity[c]] = lastFlushed'[c]
         /\ saveIdentity[c] # None /\ now # None /\ ~missed'[c] =>
              saveFile'[saveIdentity[c]] = now
<1> DEFINE e == saveIdentity[c]
<1>1. /\ e \in Entries \union {None} /\ saveFile \in [Entries -> Data \union {None}]
      /\ lastFlushed \in [Sessions -> Data \union {None}] /\ missed \in [Sessions -> BOOLEAN]
      /\ failures \in 0..MaxFailures
      /\ lastFlushed[c] # None => e # None /\ saveFile[e] = lastFlushed[c]
  BY DEF IInv, TypeOK, CacheInv
<1>2. CASE e = None \/ now = None \/ now = lastFlushed[c]
  BY <1>1, <1>2 DEF Flush
<1>3. CASE /\ e # None /\ now # None /\ saveFile' = [saveFile EXCEPT ![e] = now]
           /\ lastFlushed' = [lastFlushed EXCEPT ![c] = now]
           /\ missed' = [missed EXCEPT ![c] = FALSE] /\ failures' = failures
  BY <1>1, <1>3
<1>4. CASE /\ failures < MaxFailures /\ failures' = failures + 1
           /\ missed' = [missed EXCEPT ![c] = TRUE]
           /\ UNCHANGED <<saveFile, lastFlushed>>
  BY <1>1, <1>4, BoundsAssumption
<1>5. QED
  BY <1>2, <1>3, <1>4 DEF Flush

LEMMA InitIInv == Init => IInv
<1> SUFFICES ASSUME Init PROVE IInv
  OBVIOUS
<1> USE NoneAssumption, FlushAssumption, BoundsAssumption DEF Init
<1>1. TypeOK
  BY DEF TypeOK, CoreStates, NoCore, Phases, Places
<1>2. TurnsInv /\ SlotInv /\ CacheInv /\ SeenInv
  BY DEF TurnsInv, SlotInv, CacheInv, SeenInv, Running, NoCore, IsActive
<1>3. QED
  BY <1>1, <1>2 DEF IInv

LEMMA LoadIInv == ASSUME IInv, NEW c \in Sessions, Load(c) PROVE IInv'
<1> USE NoneAssumption DEF IInv
<1>1. /\ pc[c] = "loading" /\ core \in CoreStates /\ pc \in [Sessions -> Places]
      /\ UNCHANGED <<entry, saveIdentity, lastFlushed, sinceFlush, seen, missed, disk, mainVars,
                     clock, failures, kills>>
  BY DEF Load, TypeOK
<1>2. ASSUME NEW place \in {"failed", "stranded"}, pc' = [pc EXCEPT ![c] = place],
             UNCHANGED <<core, ram>>
      PROVE  IInv'
  <2>1. TypeOK'
    BY <1>1, <1>2 DEF TypeOK, Places, disk, mainVars
  <2>2. TurnsInv' /\ SlotInv'
    BY <1>1, <1>2 DEF TurnsInv, SlotInv, Running, Gone, IsActive, mainVars
  <2>3. CacheInv' /\ SeenInv'
    BY <1>1, <1>2 DEF CacheInv, SeenInv, disk
  <2>4. QED
    BY <2>1, <2>2, <2>3
<1>3. ASSUME NEW outcome \in LoadOutcomes, SlotIsFree(core),
             core' = AfterLoad(Constructed(core, c), c, outcome),
             NEW place \in {"restoring", "failed", "stranded"},
             place = "restoring" <=> outcome = "loaded",
             pc' = [pc EXCEPT ![c] = place],
             NEW r \in {None, [of |-> entry[c], at |-> 0]},
             ram' = [ram EXCEPT ![c] = IF outcome = "loaded" THEN r ELSE None]
      PROVE  IInv'
  <2>1. /\ core'.current = c /\ core' \in CoreStates
        /\ \A d \in Sessions \ {c} : core'.phase[d] = core.phase[d]
        /\ place = "restoring" => core'.phase[c] = "loaded"
    BY <1>1, <1>3 DEF AfterLoad, Constructed, CoreStates, LoadOutcomes, Phases
  <2>2. [of |-> entry[c], at |-> 0] \in Data
    BY BoundsAssumption DEF TypeOK, Data
  <2>3. TypeOK'
    BY <1>1, <1>3, <2>1, <2>2 DEF TypeOK, Places, disk, mainVars
  <2>4. SlotInv'
    BY <1>1, <1>3, <2>1 DEF SlotInv, SlotIsFree, IsActive
  <2>5. TurnsInv'
    BY <1>1, <1>3 DEF TurnsInv, Running, Gone, mainVars
  <2>6. CacheInv' /\ SeenInv'
    BY <1>1, <1>3 DEF CacheInv, SeenInv, disk
  <2>7. QED
    BY <2>3, <2>4, <2>5, <2>6
<1>4. QED
  BY <1>1, <1>2, <1>3 DEF Load

LEMMA RestoreIInv == ASSUME IInv, NEW c \in Sessions, Restore(c) PROVE IInv'
<1> USE NoneAssumption, EntriesAssumption DEF IInv
<1>1. /\ pc[c] = "restoring" /\ pc' = [pc EXCEPT ![c] = "armed"]
      /\ saveIdentity' = [saveIdentity EXCEPT ![c] = entry[c]]
      /\ UNCHANGED <<core, entry, sinceFlush, seen, missed, disk, mainVars, clock, failures, kills>>
  BY DEF Restore
<1>2. \/ UNCHANGED <<ram, lastFlushed>>
      \/ /\ entry[c] # None /\ ram[c] # None
         /\ saveFile[entry[c]] # None
         /\ ram' = [ram EXCEPT ![c] = saveFile[entry[c]]]
         /\ lastFlushed' = [lastFlushed EXCEPT ![c] = saveFile[entry[c]]]
  BY DEF Restore
<1>3. TypeOK'
  BY <1>1, <1>2 DEF TypeOK, Places, disk, mainVars
<1>4. TurnsInv' /\ SlotInv'
  BY <1>1 DEF TypeOK, TurnsInv, SlotInv, Running, Gone, IsActive, mainVars
<1>5. CacheInv'
  BY <1>1, <1>2 DEF TypeOK, CacheInv, disk
<1>6. SeenInv'
  BY <1>1, <1>2, FlushAssumption DEF TypeOK, SeenInv, disk
<1>7. QED
  BY <1>3, <1>4, <1>5, <1>6

(* The history of the last callbacks, with one more. *)
LEMMA SeenGrows ==
  ASSUME NEW q \in Seq(Data \union {None}), NEW now \in Data \union {None}, Len(q) \in 0..FlushEvery,
         NEW q2, q2 = LET all == Append(q, now) IN IF Len(all) > FlushEvery THEN Tail(all) ELSE all
  PROVE  /\ q2 \in Seq(Data \union {None})
         /\ Len(q) < FlushEvery => Len(q2) = Len(q) + 1
         /\ Len(q) = FlushEvery => Len(q2) = FlushEvery
         /\ Len(q2) \in 1..FlushEvery
         /\ q2[Len(q2)] = now
         /\ Len(q) = FlushEvery => \A i \in 1..FlushEvery - 1 : q2[i] = q[i + 1]
<1> DEFINE all == Append(q, now)
<1>1. /\ all \in Seq(Data \union {None}) /\ Len(all) = Len(q) + 1 /\ all[Len(q) + 1] = now
      /\ \A i \in 1..Len(q) : all[i] = q[i]
  OBVIOUS
<1>2. CASE Len(q) < FlushEvery
  BY <1>1, <1>2, FlushAssumption
<1>3. CASE Len(q) = FlushEvery
  <2>1. q2 = Tail(all) /\ all # <<>>
    BY <1>1, <1>3, FlushAssumption
  <2>2. /\ q2 \in Seq(Data \union {None}) /\ Len(q2) = FlushEvery
        /\ \A i \in 1..FlushEvery : q2[i] = all[i + 1]
    BY <1>1, <1>3, <2>1, FlushAssumption
  <2>3. QED
    BY <1>1, <1>3, <2>2, FlushAssumption
<1>4. QED
  BY <1>2, <1>3, FlushAssumption

LEMMA CallbackIInv == ASSUME IInv, NEW c \in Sessions, Callback(c) PROVE IInv'
<1> USE NoneAssumption, FlushAssumption DEF IInv
<1>1. PICK now \in RAMAfterRun(c) :
        LET due == FlushIsDue(sinceFlush[c] + 1) IN
        /\ ram' = [ram EXCEPT ![c] = now]
        /\ clock' = IF now = ram[c] THEN clock ELSE clock + 1
        /\ sinceFlush' = [sinceFlush EXCEPT ![c] = IF due THEN 0 ELSE @ + 1]
        /\ IF due THEN Flush(c, now) ELSE UNCHANGED <<saveFile, lastFlushed, missed, failures>>
        /\ seen' = [seen EXCEPT ![c] =
             LET all == Append(@, now) IN IF Len(all) > FlushEvery THEN Tail(all) ELSE all]
  BY DEF Callback
<1>2. /\ pc[c] = "armed" /\ UNCHANGED <<core, pc, entry, saveIdentity, slotFile, mainVars, kills>>
      /\ seen \in [Sessions -> Seq(Data \union {None})] /\ sinceFlush \in [Sessions -> 0..FlushEvery - 1]
      /\ ram \in [Sessions -> Data \union {None}] /\ clock \in 0..MaxWrites
  BY DEF Callback, TypeOK
<1>3. now \in Data \union {None} /\ (ram[c] # None <=> now # None) /\ clock' \in 0..MaxWrites
  <2>1. CASE now = ram[c]
    BY <2>1, <1>1, <1>2
  <2>2. CASE now # ram[c]
    <3>1. ram[c] # None /\ clock < MaxWrites /\ now = [of |-> entry[c], at |-> clock + 1]
      BY <2>2, <1>1 DEF RAMAfterRun
    <3>2. clock' = clock + 1 /\ clock + 1 \in 0..MaxWrites
      BY <1>1, <1>2, <2>2, <3>1, BoundsAssumption
    <3>3. now \in Data
      BY <3>1, <3>2 DEF Data, TypeOK
    <3>4. QED
      BY <3>1, <3>2, <3>3, DataAssumption
  <2>3. QED
    BY <2>1, <2>2
<1> DEFINE due == FlushIsDue(sinceFlush[c] + 1)
<1>4. /\ saveFile' \in [Entries -> Data \union {None}]
      /\ lastFlushed' \in [Sessions -> Data \union {None}]
      /\ missed' \in [Sessions -> BOOLEAN] /\ failures' \in 0..MaxFailures
      /\ \A d \in Sessions \ {c} : lastFlushed'[d] = lastFlushed[d] /\ missed'[d] = missed[d]
      /\ lastFlushed'[c] # None =>
           saveIdentity[c] # None /\ saveFile'[saveIdentity[c]] = lastFlushed'[c]
      /\ due /\ saveIdentity[c] # None /\ now # None /\ ~missed'[c] =>
           saveFile'[saveIdentity[c]] = now
      /\ ~due => UNCHANGED <<saveFile, missed>>
  BY <1>1, <1>2, <1>3, Flushing DEF TypeOK, CacheInv
<1>5. sinceFlush'[c] = IF due THEN 0 ELSE sinceFlush[c] + 1
  BY <1>1, <1>2
<1>6. due <=> sinceFlush[c] = FlushEvery - 1
  <2>1. sinceFlush[c] \in 0..FlushEvery - 1 /\ (due <=> sinceFlush[c] + 1 >= FlushEvery)
    BY <1>2 DEF FlushIsDue
  <2>2. QED
    BY <2>1
<1>7. sinceFlush' \in [Sessions -> 0..FlushEvery - 1]
  BY <1>1, <1>2, <1>6
<1>8. Len(seen[c]) \in 0..FlushEvery /\ seen[c] \in Seq(Data \union {None})
  BY <1>2 DEF SeenInv
<1>9. /\ seen'[c] = LET all == Append(seen[c], now) IN IF Len(all) > FlushEvery THEN Tail(all) ELSE all
      /\ \A d \in Sessions \ {c} : seen'[d] = seen[d] /\ sinceFlush'[d] = sinceFlush[d]
      /\ seen' \in [Sessions -> Seq(Data \union {None})]
  <2>1. seen' = [seen EXCEPT ![c] =
             LET all == Append(seen[c], now) IN IF Len(all) > FlushEvery THEN Tail(all) ELSE all]
    BY <1>1
  <2>2. (LET all == Append(seen[c], now) IN IF Len(all) > FlushEvery THEN Tail(all) ELSE all)
          \in Seq(Data \union {None})
    BY <1>3, <1>8, SeenGrows
  <2>3. QED
    BY <1>1, <1>2, <2>1, <2>2
<1>10. /\ Len(seen[c]) < FlushEvery => Len(seen'[c]) = Len(seen[c]) + 1
       /\ Len(seen[c]) = FlushEvery => Len(seen'[c]) = FlushEvery
       /\ Len(seen'[c]) \in 1..FlushEvery
       /\ seen'[c][Len(seen'[c])] = now
       /\ Len(seen[c]) = FlushEvery => \A i \in 1..FlushEvery - 1 : seen'[c][i] = seen[c][i + 1]
  BY <1>3, <1>8, <1>9, SeenGrows
<1>11. TypeOK'
  BY <1>1, <1>2, <1>3, <1>4, <1>7, <1>9 DEF TypeOK, mainVars
<1>12. TurnsInv' /\ SlotInv'
  BY <1>2 DEF TurnsInv, SlotInv, Running, Gone, IsActive, mainVars
<1>13. \A d \in Sessions : pc[d] = "armed" => d = c
  BY <1>2 DEF TurnsInv, Running, Gone
<1>14. CacheInv'
  BY <1>2, <1>4, <1>13 DEF CacheInv
<1>15. SeenInv'
  <2>1. \A d \in Sessions : pc[d] \in {"unborn", "loading", "restoring"} => seen'[d] = <<>> /\ sinceFlush'[d] = 0
    BY <1>2, <1>9 DEF SeenInv
  <2>2. Len(seen'[c]) < FlushEvery => sinceFlush'[c] = Len(seen'[c])
    BY <1>2, <1>5, <1>6, <1>8, <1>10 DEF SeenInv
  <2>3. ASSUME Len(seen'[c]) = FlushEvery, saveIdentity[c] # None, ram'[c] # None, ~missed'[c]
        PROVE  saveFile'[saveIdentity[c]] = seen'[c][FlushEvery - sinceFlush'[c]]
    <3>1. now # None /\ ram[c] # None
      BY <1>1, <1>2, <1>3, <2>3
    <3>2. CASE due
      BY <1>4, <1>5, <1>10, <2>3, <3>1, <3>2
    <3>3. CASE ~due
      <4>1. sinceFlush[c] < FlushEvery - 1 /\ sinceFlush[c] \in 0..FlushEvery - 1
        <5>1. sinceFlush[c] \in 0..FlushEvery - 1 /\ sinceFlush[c] # FlushEvery - 1
          BY <1>2, <1>6, <3>3
        <5>2. QED
          BY <5>1
      <4>2. Len(seen[c]) = FlushEvery
        BY <1>2, <1>8, <1>10, <2>3, <4>1 DEF SeenInv
      <4>3. saveFile[saveIdentity[c]] = seen[c][FlushEvery - sinceFlush[c]]
        BY <1>2, <1>4, <2>3, <3>1, <3>3, <4>2 DEF SeenInv
      <4>4. FlushEvery - sinceFlush'[c] \in 1..FlushEvery - 1 /\ FlushEvery - sinceFlush'[c] + 1 = FlushEvery - sinceFlush[c]
        BY <1>5, <3>3, <4>1
      <4>5. QED
        BY <1>4, <1>10, <3>3, <4>2, <4>3, <4>4
    <3>4. QED
      BY <3>2, <3>3
  <2>4. QED
    BY <1>2, <1>10, <1>13, <2>1, <2>2, <2>3 DEF SeenInv
<1>16. QED
  BY <1>11, <1>12, <1>14, <1>15

LEMMA SaveStateIInv == ASSUME IInv, NEW c \in Sessions, SaveState(c) PROVE IInv'
<1> USE DEF IInv, SaveState, loopVars, mainVars
<1>1. TypeOK'
  BY DEF TypeOK
<1>2. TurnsInv' /\ SlotInv' /\ CacheInv' /\ SeenInv'
  BY DEF TurnsInv, SlotInv, CacheInv, SeenInv, Running, Gone, IsActive
<1>3. QED
  BY <1>1, <1>2

LEMMA LoadStateIInv == ASSUME IInv, NEW c \in Sessions, LoadState(c) PROVE IInv'
<1> USE DEF IInv, LoadState, disk, mainVars
<1>1. TypeOK'
  BY DEF TypeOK
<1>2. TurnsInv' /\ SlotInv' /\ CacheInv'
  BY DEF TurnsInv, SlotInv, CacheInv, Running, Gone, IsActive
<1>3. SeenInv'
  BY DEF SeenInv, TypeOK
<1>4. QED
  BY <1>1, <1>2, <1>3

LEMMA TearDownIInv == ASSUME IInv, NEW c \in Sessions, TearDown(c) PROVE IInv'
<1> USE NoneAssumption DEF IInv
<1>1. /\ pc[c] \in {"armed", "failed"} /\ pc' = [pc EXCEPT ![c] = "exited"]
      /\ core' = IF pc[c] = "armed" THEN ShutDown(core, c) ELSE core
      /\ ram' = [ram EXCEPT ![c] = None] /\ seen' = [seen EXCEPT ![c] = <<>>]
      /\ UNCHANGED <<entry, saveIdentity, sinceFlush, slotFile, mainVars, clock, kills>>
  BY DEF TearDown
<1>2. /\ saveFile' \in [Entries -> Data \union {None}]
      /\ lastFlushed' \in [Sessions -> Data \union {None}]
      /\ missed' \in [Sessions -> BOOLEAN] /\ failures' \in 0..MaxFailures
      /\ \A d \in Sessions \ {c} : lastFlushed'[d] = lastFlushed[d] /\ missed'[d] = missed[d]
  <2>1. CASE pc[c] = "armed"
    <3>1. Flush(c, ram[c]) /\ ram[c] \in Data \union {None}
      BY <2>1 DEF TearDown, TypeOK
    <3>2. QED
      BY <2>1, <3>1, Flushing
  <2>2. CASE pc[c] = "failed"
    BY <2>2, <1>1 DEF TearDown, Flush, TypeOK
  <2>3. QED
    BY <1>1, <2>1, <2>2
<1>3. core' \in CoreStates
  BY <1>1 DEF TypeOK, ShutDown, CoreStates, Phases
<1>4. TypeOK'
  <2>1. seen' \in [Sessions -> Seq(Data \union {None})]
    BY <1>1 DEF TypeOK
  <2>2. pc' \in [Sessions -> Places] /\ ram' \in [Sessions -> Data \union {None}]
    BY <1>1 DEF TypeOK, Places
  <2>3. QED
    BY <1>1, <1>2, <1>3, <2>1, <2>2 DEF TypeOK, mainVars
<1>5. \A d \in Sessions : pc[d] \in {"loading", "restoring", "armed", "failed"} => d = c
  BY <1>1 DEF TurnsInv, Running, Gone
<1>6. TurnsInv'
  BY <1>1 DEF TypeOK, TurnsInv, Running, Gone, mainVars
<1>7. SlotInv'
  <2>1. CASE pc[c] = "armed"
    <3>1. core.current = c /\ core \in CoreStates /\ \A d \in Sessions : IsActive(core, d) => d = c
      BY <2>1 DEF SlotInv, TypeOK
    <3>2. core' = [current |-> None, phase |-> [core.phase EXCEPT ![c] = "shut"]]
      BY <1>1, <2>1, <3>1 DEF ShutDown, SlotInv, IsActive
    <3>3. \A d \in Sessions : ~IsActive(core', d)
      BY <3>1, <3>2 DEF IsActive, CoreStates
    <3>4. QED
      BY <1>1, <1>5, <3>3 DEF SlotInv, TypeOK
  <2>2. CASE pc[c] = "failed"
    BY <1>1, <1>5, <2>2 DEF SlotInv, TypeOK, IsActive
  <2>3. QED
    BY <1>1, <2>1, <2>2
<1>8. CacheInv'
  BY <1>1, <1>2, <1>5 DEF CacheInv, TypeOK
<1>9. SeenInv'
  BY <1>1, <1>5 DEF SeenInv, TypeOK
<1>10. QED
  BY <1>4, <1>6, <1>7, <1>8, <1>9

LEMMA StartGameIInv == ASSUME IInv, NEW c \in Sessions, StartGame(c) PROVE IInv'
<1> USE DEF IInv, StartGame, disk
<1>1. TypeOK'
  BY DEF TypeOK
<1>2. TurnsInv' /\ SlotInv' /\ CacheInv' /\ SeenInv'
  BY DEF TurnsInv, SlotInv, CacheInv, SeenInv, Running, Gone, IsActive
<1>3. QED
  BY <1>1, <1>2

LEMMA StopGameIInv == ASSUME IInv, StopGame PROVE IInv'
<1> USE DEF IInv, StopGame, disk, loopVars
<1>1. TypeOK'
  BY DEF TypeOK
<1>2. TurnsInv' /\ SlotInv' /\ CacheInv' /\ SeenInv'
  BY DEF TurnsInv, SlotInv, CacheInv, SeenInv, Running, Gone, IsActive
<1>3. QED
  BY <1>1, <1>2

LEMMA ReplaceIInv == ASSUME IInv, Replace PROVE IInv'
<1> USE NoneAssumption DEF IInv, Replace, Replaced, disk
<1>1. \A c \in Sessions : ~Running(c)
  BY DEF TurnsInv, Running
<1>2. TypeOK'
  BY DEF TypeOK, Places
<1>3. TurnsInv'
  BY <1>1 DEF TypeOK, TurnsInv, Running, Gone
<1>4. SlotInv' /\ CacheInv' /\ SeenInv'
  BY <1>1 DEF TypeOK, TurnsInv, SlotInv, CacheInv, SeenInv, Running, Gone, IsActive
<1>5. QED
  BY <1>2, <1>3, <1>4

LEMMA KillIInv == ASSUME IInv, Kill PROVE IInv'
<1> USE NoneAssumption, BoundsAssumption DEF IInv, Kill, disk
<1>1. \A c \in Sessions : pc'[c] \in {"unborn", "stranded", "exited"}
                          /\ (pc'[c] = "unborn" => pc[c] = "unborn")
  BY DEF TypeOK, Places, Running, Gone
<1>2. TypeOK'
  BY DEF TypeOK, Places, CoreStates, NoCore, Phases
<1>3. TurnsInv' /\ SlotInv'
  BY <1>1 DEF TurnsInv, SlotInv, Running, Gone, NoCore, IsActive
<1>4. CacheInv' /\ SeenInv'
  BY <1>1 DEF CacheInv, SeenInv
<1>5. QED
  BY <1>2, <1>3, <1>4

LEMMA StutterIInv == ASSUME IInv, UNCHANGED vars PROVE IInv'
BY DEF IInv, vars, loopVars, disk, mainVars, TypeOK, TurnsInv, SlotInv, CacheInv, SeenInv, Running,
   Gone, IsActive

(* IInv is an invariant of the games hosted in the app. *)
THEOREM Inductive == Spec => []IInv
<1>1. ASSUME IInv, [Next]_vars PROVE IInv'
  <2> USE <1>1
  <2>1. ASSUME NEW c \in Sessions, CoreThread(c) PROVE IInv'
    BY <2>1, LoadIInv, RestoreIInv, CallbackIInv, SaveStateIInv, LoadStateIInv, TearDownIInv
       DEF CoreThread
  <2>2. QED
    BY <1>1, <2>1, StartGameIInv, StopGameIInv, ReplaceIInv, KillIInv, StutterIInv DEF Next
<1>2. QED
  BY <1>1, InitIInv, PTL DEF Spec
-----------------------------------------------------------------------------
(* Every variable has its type. *)
THEOREM TypeCorrect == Spec => []TypeOK
BY Inductive, PTL DEF IInv

(* At most one session is between retro_init and retro_deinit, and a game  *)
(* is only driven through the slot.                                        *)
THEOREM OneCoreActive == Spec => []OneActiveCore
<1>1. IInv => OneActiveCore
  BY DEF IInv, SlotInv, OneActiveCore
<1>2. QED
  BY <1>1, Inductive, PTL

(* The flush cache agrees with the file. *)
THEOREM CacheAgrees == Spec => []CacheIsFile
<1>1. IInv => CacheIsFile
  BY DEF IInv, CacheInv, CacheIsFile
<1>2. QED
  BY <1>1, Inductive, PTL

(* A hard exit loses at most the changes of FlushEvery callbacks. *)
THEOREM LossBounded == Spec => []BoundedLoss
<1>1. ASSUME IInv PROVE BoundedLoss
  <2> SUFFICES ASSUME NEW c \in Sessions, pc[c] = "armed", saveIdentity[c] # None, ram[c] # None,
                      ~missed[c], Len(seen[c]) = FlushEvery
               PROVE  saveFile[saveIdentity[c]] \in ToSet(seen[c])
    BY DEF BoundedLoss
  <2>1. saveFile[saveIdentity[c]] = seen[c][FlushEvery - sinceFlush[c]]
    BY <1>1 DEF IInv, SeenInv
  <2>2. seen[c] \in Seq(Data \union {None}) /\ sinceFlush[c] \in 0..FlushEvery - 1
    BY <1>1 DEF IInv, TypeOK
  <2>3. FlushEvery - sinceFlush[c] \in 1..FlushEvery
    BY <2>2, FlushAssumption
  <2>4. QED
    BY <2>1, <2>2, <2>3 DEF ToSet
<1>2. QED
  BY <1>1, Inductive, PTL

(* A clean stop loses nothing, unless the last write fails. *)
THEOREM ProgressKept == Spec => StopKeepsProgress
<1> DEFINE Keeps ==
      \A c \in Sessions :
       (pc[c] = "armed" /\ pc'[c] = "exited" /\ kills' = kills
        /\ saveIdentity[c] # None /\ ram[c] # None /\ ~missed'[c])
         => saveFile'[saveIdentity[c]] = ram[c]
<1>1. ASSUME IInv, [Next]_vars PROVE [Keeps]_vars
  <2> SUFFICES ASSUME NEW c \in Sessions, Next, pc[c] = "armed", pc'[c] = "exited", kills' = kills,
                      saveIdentity[c] # None, ram[c] # None, ~missed'[c]
               PROVE  saveFile'[saveIdentity[c]] = ram[c]
    BY <1>1
  <2>1. \A d \in Sessions \ {c} : ~Running(d)
    BY <1>1 DEF IInv, TurnsInv, Running, Gone
  <2>2. game = c
    BY <1>1 DEF IInv, TurnsInv, Running, Gone
  <2>3. TearDown(c)
    <3>1. ~Kill
      BY <1>1 DEF Kill, IInv, TypeOK
    <3>2. ~Replace
      BY <2>2, NoneAssumption DEF Replace, Gone
    <3>3. ~StopGame /\ \A d \in Sessions : ~StartGame(d)
      BY DEF StopGame, StartGame, loopVars
    <3>4. \A d \in Sessions : pc' # pc /\ CoreThread(d) => Load(d) \/ Restore(d) \/ TearDown(d)
      BY DEF CoreThread, Callback, SaveState, LoadState, loopVars
    <3>5. \A d \in Sessions : Load(d) \/ Restore(d) => d # c /\ Running(d)
      BY DEF Load, Restore, Running, Gone
    <3>6. \A d \in Sessions : TearDown(d) => d = c
      BY <2>2 DEF TearDown
    <3>7. QED
      BY <2>1, <3>1, <3>2, <3>3, <3>4, <3>5, <3>6 DEF Next
  <2>4. Flush(c, ram[c]) /\ ram[c] \in Data \union {None}
    BY <1>1, <2>3 DEF TearDown, IInv, TypeOK
  <2>5. QED
    BY <1>1, <2>4, Flushing
<1>2. QED
  BY <1>1, Inductive, PTL DEF Spec, StopKeepsProgress
-----------------------------------------------------------------------------
(* Games take turns. *)

LEMMA StepsTakeTurns == ASSUME IInv, IInv', [Next]_vars PROVE [Lifecycle!Next]_(Lifecycle!vars)
<1> DEFINE running == {c \in Sessions : Running(c)}
           over == {c \in Sessions : Gone(c)}
<1> USE NoneAssumption DEF Lifecycle!Next, Lifecycle!vars
<1>1. pc \in [Sessions -> Places] /\ \A c \in Sessions : Running(c) => game = c
  BY DEF IInv, TypeOK, TurnsInv
<1>2. ASSUME NEW c \in Sessions, Running(c), NEW place \in Places \ {"unborn"},
             pc' = [pc EXCEPT ![c] = place], game' = game
      PROVE  [Lifecycle!Next]_(Lifecycle!vars)
  <2>1. running = {c}
    BY <1>1, <1>2
  <2>2. CASE place \in {"stranded", "exited"}
    <3>1. running' = {} /\ over' = over \union {c}
      BY <1>1, <1>2, <2>1, <2>2 DEF Running, Gone
    <3>2. Lifecycle!End(c)
      BY <1>2, <2>1, <3>1 DEF Lifecycle!End
    <3>3. QED
      BY <3>2
  <2>3. CASE place \notin {"stranded", "exited"}
    BY <1>1, <1>2, <2>3 DEF Running, Gone
  <2>4. QED
    BY <2>2, <2>3
<1>3. ASSUME UNCHANGED <<pc, game>> PROVE [Lifecycle!Next]_(Lifecycle!vars)
  BY <1>3 DEF Running, Gone
<1>4. ASSUME NEW c \in Sessions, CoreThread(c) PROVE [Lifecycle!Next]_(Lifecycle!vars)
  <2>1. CASE Load(c)
    <3>1. PICK place \in {"failed", "stranded", "restoring"} : pc' = [pc EXCEPT ![c] = place]
      BY <2>1 DEF Load
    <3>2. Running(c) /\ game' = game
      BY <2>1 DEF Load, Running, Gone, mainVars
    <3>3. QED
      BY <1>2, <3>1, <3>2 DEF Places
  <2>2. CASE Restore(c)
    BY <1>2, <2>2 DEF Restore, Running, Gone, Places, mainVars
  <2>3. CASE TearDown(c)
    BY <1>2, <2>3 DEF TearDown, Running, Gone, Places, mainVars
  <2>4. CASE Callback(c) \/ SaveState(c) \/ LoadState(c)
    BY <1>3, <2>4 DEF Callback, SaveState, LoadState, loopVars, mainVars
  <2>5. QED
    BY <1>4, <2>1, <2>2, <2>3, <2>4 DEF CoreThread
<1>5. ASSUME NEW c \in Sessions, StartGame(c) PROVE [Lifecycle!Next]_(Lifecycle!vars)
  BY <1>3, <1>5 DEF StartGame
<1>6. ASSUME StopGame PROVE [Lifecycle!Next]_(Lifecycle!vars)
  BY <1>3, <1>6 DEF StopGame, loopVars
<1>7. ASSUME Replace PROVE [Lifecycle!Next]_(Lifecycle!vars)
  <2>1. running = {}
    BY <1>1, <1>7 DEF Replace, Running
  <2>2. CASE next = None
    <3>1. pc' = pc /\ game' = None
      BY <1>7, <2>2 DEF Replace, Replaced
    <3>2. Lifecycle!Close
      BY <2>1, <3>1 DEF Lifecycle!Close, Running, Gone
    <3>3. QED
      BY <3>2
  <2>3. CASE next # None
    <3>1. pc[next] = "unborn" /\ next \in Sessions
      BY <2>3 DEF IInv, TurnsInv, TypeOK
    <3>2. pc' = [pc EXCEPT ![next] = "loading"] /\ game' = next
      BY <1>7, <2>3 DEF Replace, Replaced
    <3>3. running' = {next} /\ over' = over
      BY <1>1, <2>1, <3>1, <3>2 DEF Running, Gone
    <3>4. next \notin over
      BY <3>1 DEF Gone
    <3>5. Lifecycle!Launch(next)
      BY <2>1, <3>2, <3>3, <3>4 DEF Lifecycle!Launch
    <3>6. QED
      BY <3>1, <3>5
  <2>4. QED
    BY <2>2, <2>3
<1>8. ASSUME Kill PROVE [Lifecycle!Next]_(Lifecycle!vars)
  <2>1. pc' = [c \in Sessions |-> IF Running(c) THEN "exited" ELSE pc[c]] /\ game' = None
    BY <1>8 DEF Kill
  <2>2. running' = {} /\ over' = over \union running
    BY <1>1, <2>1 DEF Running, Gone
  <2>3. Lifecycle!Die
    BY <2>1, <2>2 DEF Lifecycle!Die
  <2>4. QED
    BY <2>3
<1>9. QED
  BY <1>3, <1>4, <1>5, <1>6, <1>7, <1>8 DEF Next, vars, loopVars, mainVars

(* Games hosted in the app take turns, kills of the app included. *)
THEOREM TurnsTaken == Spec => GamesTakeTurns
<1>1. Init => Lifecycle!Init
  BY DEF Init, Lifecycle!Init, Running, Gone
<1>2. IInv /\ IInv' /\ [Next]_vars => [Lifecycle!Next]_(Lifecycle!vars)
  BY StepsTakeTurns
<1>3. QED
  BY <1>1, <1>2, Inductive, PTL DEF Spec, GamesTakeTurns, Lifecycle!Spec
=============================================================================
