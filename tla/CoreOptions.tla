---------------------------- MODULE CoreOptions ----------------------------
(***************************************************************************)
(* The options a core declares, the values chosen for them, the C strings  *)
(* handed to the core, and the selections kept on disk between sessions:   *)
(* CoreOptions and CoreOptionsStore of CoreHost/CoreOptions.swift, reached *)
(* by the core through EnvironmentHandler.swift.                           *)
(*                                                                         *)
(* Everything here runs on the thread that owns the session.  What is hard *)
(* is the order of calls: a core declares its options again whenever it    *)
(* likes, asks for values with or without asking for updates first, and    *)
(* keeps every pointer it was ever given.                                  *)
(*                                                                         *)
(* A C string is a position in heap, which only grows until the session    *)
(* ends; a freed one holds None.                                           *)
(***************************************************************************)
EXTENDS Naturals, Sequences

CONSTANTS
  Keys, Values, None,
  MaxValues,   \* RETRO_NUM_CORE_OPTION_VALUES_MAX, 128 in the header
  MaxStrings,  \* bound: C strings created in one session
  MaxSessions  \* bound: sessions in one behaviour

ASSUME NoneAssumption == None \notin Values
ASSUME BoundsAssumption == MaxValues \in Nat \ {0} /\ MaxStrings \in Nat /\ MaxSessions \in Nat

VARIABLES
  phase,    \* "none", or of the session: "loading", "running"
  offered,  \* key -> the values it is declared with, {} if it is not
  selected, \* key -> its value, None if the key is not declared
  preferred,\* key -> the value restored from disk
  buffers,  \* key -> the string handed out for its value, 0 if none
  retired,  \* strings handed out for earlier values
  changedSinceQuery,
  heap,     \* the strings created, in order
  handed,   \* history: the strings the core has been given
  told,     \* history: the update flag has covered every user's choice
  file,     \* key -> the value on disk
  sessions

declared == <<offered, selected, preferred>>
strings == <<buffers, retired, heap, handed>>
vars == <<phase, declared, strings, changedSinceQuery, told, file, sessions>>

Nothing == [k \in Keys |-> None]

\* Mutant: the handed out strings of the session before stay in use.
FreshKeepsBuffers(stored) ==
  /\ offered' = [k \in Keys |-> {}] /\ selected' = Nothing
  /\ preferred' = stored
  /\ retired' = {} /\ heap' = <<>> /\ handed' = {}
  /\ changedSinceQuery' = FALSE /\ told' = TRUE
  /\ UNCHANGED buffers

(* A freshly constructed CoreOptions, with the stored values preferred. *)
Fresh(stored) ==
  /\ offered' = [k \in Keys |-> {}] /\ selected' = Nothing
  /\ preferred' = stored
  /\ buffers' = [k \in Keys |-> 0] /\ retired' = {} /\ heap' = <<>> /\ handed' = {}
  /\ changedSinceQuery' = FALSE /\ told' = TRUE

Init ==
  /\ phase = "none"
  /\ offered = [k \in Keys |-> {}] /\ selected = Nothing
  /\ preferred = Nothing
  /\ buffers = [k \in Keys |-> 0] /\ retired = {} /\ heap = <<>> /\ handed = {}
  /\ changedSinceQuery = FALSE /\ told = TRUE
  /\ file = Nothing /\ sessions = 0
-----------------------------------------------------------------------------
(* How a core declares its options: per key, the values it offers, in      *)
(* order, and a default.  What cannot be used declares nothing.            *)

NoOption == [values |-> {}, default |-> None]

(* A retro_variable: "Title; a|b|c", where an empty value is None here.    *)
VariableSpecs == [title : BOOLEAN, list : [1..MaxValues -> Values \union {None}]]

(* SET_VARIABLES: without a ';' or a value there is no option; empty       *)
(* values are skipped and the first of the others is the default.          *)
FromVariable(spec) ==
  LET named == {i \in DOMAIN spec.list : spec.list[i] # None} IN
  IF ~spec.title \/ named = {} THEN NoOption
  ELSE [values  |-> {spec.list[i] : i \in named},
        default |-> spec.list[CHOOSE i \in named : \A j \in named : i <= j]]

(* The array of retro_core_option_value of a definition ends with a NULL   *)
(* value, or is full.                                                      *)
Arrays == [1..MaxValues -> Values \union {None}]

ReadValues(array) == {array[i] : i \in {j \in DOMAIN array : \A l \in 1..j : array[l] # None}}

(* A definition of version 1 or 2: a description, values, and a default    *)
(* that may be NULL, or none of the values.                                *)
OptionDefinitions == [desc : BOOLEAN, values : Arrays, default : Values \union {None}]

\* Mutant: a default outside the value list is taken at its word.
FromDefinitionAnyDefault(def) ==
  LET values == ReadValues(def.values) IN
  IF ~def.desc \/ values = {} THEN NoOption
  ELSE [values |-> values, default |-> IF def.default = None THEN def.values[1] ELSE def.default]

(* SET_CORE_OPTIONS and _V2: the option is ignored if its default is none  *)
(* of its values; without a default it is the first.                       *)
FromDefinition(def) ==
  LET values == ReadValues(def.values) IN
  IF ~def.desc \/ values = {} \/ (def.default # None /\ def.default \notin values)
  THEN NoOption
  ELSE [values |-> values, default |-> IF def.default = None THEN def.values[1] ELSE def.default]

(* The four commands with definitions declare no options if they come      *)
(* without data, or an _INTL one without its English half.                 *)
OptionsOrNone(definitions) ==
  {[k \in Keys |-> FromDefinition(defs[k])] : defs \in [Keys -> definitions]}
    \union {[k \in Keys |-> NoOption]}

(* Everything a core can declare with one command: each key once, or not.  *)
Declarations ==
  {[k \in Keys |-> FromVariable(specs[k])] : specs \in [Keys -> VariableSpecs]}
    \union OptionsOrNone(OptionDefinitions)
-----------------------------------------------------------------------------
(* Setup: the stored selections are preferred before the core declares.    *)
StartSession ==
  /\ phase = "none" /\ sessions < MaxSessions
  /\ phase' = "loading" /\ sessions' = sessions + 1
  /\ Fresh(file)
  /\ UNCHANGED file

(* What declare keeps for key k: the first of the value it has and the     *)
(* stored one that is still offered, else the default.                     *)
Kept(k, option) ==
  IF selected[k] \in option.values THEN selected[k]
  ELSE IF preferred[k] \in option.values THEN preferred[k]
  ELSE option.default

(* ... and whether a value was dropped for another default. *)
Reverted(k, option) ==
  /\ option # NoOption /\ selected[k] \notin option.values /\ preferred[k] \notin option.values
  /\ selected[k] # None /\ selected[k] # option.default

\* Mutants of declare's last part: every buffer is retired; buffers are
\* retired and stay in use.
RetireAll(kept) ==
  /\ retired' = retired \union {buffers[k] : k \in {j \in Keys : buffers[j] # 0}}
  /\ buffers' = [k \in Keys |-> 0]
RetireTwice(kept) ==
  /\ retired' = retired \union {buffers[k] : k \in {j \in Keys :
                                  buffers[j] # 0 /\ kept[j] # selected[j]}}
  /\ UNCHANGED buffers

(* Only the buffers whose value moved are retired. *)
Retire(kept) ==
  LET moved == {k \in Keys : buffers[k] # 0 /\ kept[k] # selected[k]} IN
  /\ retired' = retired \union {buffers[k] : k \in moved}
  /\ buffers' = [k \in Keys |-> IF k \in moved THEN 0 ELSE buffers[k]]

(* declare: the declaration replaces the one before. *)
Declare(options) ==
  /\ phase # "none"
  /\ LET kept == [k \in Keys |-> Kept(k, options[k])] IN
       /\ Retire(kept)
       /\ selected' = kept
       /\ changedSinceQuery' =
            (changedSinceQuery \/ \E k \in Keys : Reverted(k, options[k]))
  /\ offered' = [k \in Keys |-> options[k].values]
  /\ UNCHANGED <<phase, preferred, heap, handed, told, file, sessions>>

\* Mutant: the old string is freed.
SetValueFrees(k, v) ==
  /\ phase # "none" /\ v \in offered[k] /\ selected[k] # v
  /\ selected' = [selected EXCEPT ![k] = v]
  /\ buffers' = [buffers EXCEPT ![k] = 0]
  /\ heap' = IF buffers[k] = 0 THEN heap ELSE [heap EXCEPT ![buffers[k]] = None]
  /\ changedSinceQuery' = TRUE /\ told' = FALSE
  /\ UNCHANGED <<phase, offered, preferred, retired, handed, file, sessions>>

(* setValue, for an offered value that is not the selected one. *)
SetValue(k, v) ==
  /\ phase # "none" /\ v \in offered[k] /\ selected[k] # v
  /\ selected' = [selected EXCEPT ![k] = v]
  /\ buffers' = [buffers EXCEPT ![k] = 0]
  /\ retired' = IF buffers[k] = 0 THEN retired ELSE retired \union {buffers[k]}
  /\ changedSinceQuery' = TRUE /\ told' = FALSE
  /\ UNCHANGED <<phase, offered, preferred, heap, handed, file, sessions>>

\* Mutant: reading a value clears the flag, as the header words it.
GetVariableClears(k) ==
  /\ phase # "none" /\ selected[k] # None
  /\ IF buffers[k] # 0
     THEN /\ handed' = handed \union {buffers[k]}
          /\ UNCHANGED <<heap, buffers>>
     ELSE /\ Len(heap) < MaxStrings
          /\ heap' = Append(heap, selected[k])
          /\ buffers' = [buffers EXCEPT ![k] = Len(heap) + 1]
          /\ handed' = handed \union {Len(heap) + 1}
  /\ changedSinceQuery' = FALSE
  /\ UNCHANGED <<phase, declared, retired, told, file, sessions>>

(* GET_VARIABLE of a declared key: cString makes the string at most once   *)
(* per value.                                                              *)
GetVariable(k) ==
  /\ phase # "none" /\ selected[k] # None
  /\ IF buffers[k] # 0
     THEN /\ handed' = handed \union {buffers[k]}
          /\ UNCHANGED <<heap, buffers>>
     ELSE /\ Len(heap) < MaxStrings
          /\ heap' = Append(heap, selected[k])
          /\ buffers' = [buffers EXCEPT ![k] = Len(heap) + 1]
          /\ handed' = handed \union {Len(heap) + 1}
  /\ UNCHANGED <<phase, declared, retired, changedSinceQuery, told, file, sessions>>

(* GET_VARIABLE_UPDATE: takeUpdateFlag. *)
TakeUpdateFlag ==
  /\ phase # "none"
  /\ changedSinceQuery' = FALSE
  /\ told' = (told \/ changedSinceQuery)
  /\ UNCHANGED <<phase, declared, strings, file, sessions>>

\* Mutant: the file is written with this session's selections alone.
SaveReplaces ==
  /\ phase = "loading"
  /\ phase' = "running"
  /\ file' = selected
  /\ UNCHANGED <<declared, strings, changedSinceQuery, told, sessions>>

(* The game is loaded, and the selections are merged over the stored ones; *)
(* the file is as it was if it cannot be written, or if the helper does    *)
(* not answer with them.                                                   *)
SaveOptions ==
  /\ phase = "loading"
  /\ phase' = "running"
  /\ \/ file' = [k \in Keys |-> IF selected[k] # None THEN selected[k] ELSE file[k]]
     \/ UNCHANGED file
  /\ UNCHANGED <<declared, strings, changedSinceQuery, told, sessions>>

(* The session is over, or its game was never loaded: deinit frees what is *)
(* in buffers and retired.                                                 *)
EndSession ==
  /\ phase # "none"
  /\ phase' = "none"
  /\ Fresh(Nothing)
  /\ UNCHANGED <<file, sessions>>

(* The user edits the file between sessions; an unreadable one is empty.   *)
EditFile ==
  /\ phase = "none" /\ sessions < MaxSessions
  /\ \/ \E k \in Keys, v \in Values \union {None} : file' = [file EXCEPT ![k] = v]
     \/ file' = Nothing
  /\ UNCHANGED <<phase, declared, strings, changedSinceQuery, told, sessions>>

Next ==
  \/ StartSession \/ SaveOptions \/ EndSession \/ EditFile \/ TakeUpdateFlag
  \/ \E options \in Declarations : Declare(options)
  \/ \E k \in Keys : GetVariable(k) \/ \E v \in Values : SetValue(k, v)

Spec == Init /\ [][Next]_vars
-----------------------------------------------------------------------------
(* Every variable has its type; a declared key has a value. *)
TypeOK ==
  /\ phase \in {"none", "loading", "running"}
  /\ offered \in [Keys -> SUBSET Values]
  /\ selected \in [Keys -> Values \union {None}]
  /\ preferred \in [Keys -> Values \union {None}]
  /\ buffers \in [Keys -> 0..Len(heap)]
  /\ retired \subseteq DOMAIN heap /\ handed \subseteq DOMAIN heap
  /\ heap \in Seq(Values \union {None})
  /\ changedSinceQuery \in BOOLEAN /\ told \in BOOLEAN
  /\ file \in [Keys -> Values \union {None}]
  /\ sessions \in 0..MaxSessions

(* "A stale stored setting can never reach a core" (setValue): whatever    *)
(* the order of declarations and choices, a declared key has one of the    *)
(* values it is offered with now, and the string a core is handed for it   *)
(* is that value.                                                          *)
NothingStale ==
  \A k \in Keys :
    /\ IF offered[k] = {} THEN selected[k] = None ELSE selected[k] \in offered[k]
    /\ buffers[k] # 0 => heap[buffers[k]] = selected[k]

(* Every pointer the core was given can still be read. *)
NoDangling == \A p \in handed : heap[p] # None

(* deinit frees each string exactly once: each is in buffers, under one    *)
(* key, or in retired, never in both.                                      *)
FreedOnce ==
  LET used == {k \in Keys : buffers[k] # 0} IN
  /\ \A j, k \in used : buffers[j] = buffers[k] => j = k
  /\ {buffers[k] : k \in used} \intersect retired = {}
  /\ {buffers[k] : k \in used} \union retired = DOMAIN heap

(* A choice of the user's is announced: until GET_VARIABLE_UPDATE has      *)
(* reported it, the flag stays up, whatever the core reads or declares.    *)
ChoiceAnnounced == ~told => changedSinceQuery

(* "A re-declaration that changes nothing must not grow the retired list." *)
RetiredForAReason ==
  [][~(retired' \subseteq retired) => selected' # selected]_vars

(* "A session must not drop the rest": writing the selections back leaves  *)
(* alone what is stored for keys this core did not declare.                *)
RestIsKept ==
  [][(phase = "loading" /\ phase' = "running")
       => \A k \in Keys : offered[k] = {} => file'[k] = file[k]]_vars
=============================================================================
