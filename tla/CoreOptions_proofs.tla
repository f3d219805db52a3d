------------------------- MODULE CoreOptions_proofs -------------------------
(***************************************************************************)
(* Proofs about the options of cores: for any keys and values, any number  *)
(* of values per option, of strings, of sessions and of re-declarations.   *)
(***************************************************************************)
EXTENDS CoreOptions, WellFoundedInduction, TLAPS

(* What a declaration offers for one key: nothing, or values with a        *)
(* default among them.                                                     *)
WellFormed(option) ==
  /\ option.values \subseteq Values
  /\ IF option.values = {} THEN option = NoOption ELSE option.default \in option.values

(* No string that is handed out has been freed. *)
AllStringsLive == heap \in Seq(Values)

ValueTypes ==
  /\ phase \in {"none", "loading", "running"}
  /\ offered \in [Keys -> SUBSET Values]
  /\ selected \in [Keys -> Values \union {None}]
  /\ preferred \in [Keys -> Values \union {None}]
  /\ buffers \in [Keys -> 0..Len(heap)]
  /\ retired \subseteq DOMAIN heap /\ handed \subseteq DOMAIN heap
  /\ file \in [Keys -> Values \union {None}]
  /\ sessions \in 0..MaxSessions

FlagTypes == changedSinceQuery \in BOOLEAN /\ told \in BOOLEAN

(* FreedOnce, one string at a time. *)
EachStringOnce ==
  /\ \A j, k \in Keys : buffers[j] # 0 /\ buffers[j] = buffers[k] => j = k
  /\ \A k \in Keys : buffers[k] \notin retired
  /\ \A p \in DOMAIN heap : p \in retired \/ \E k \in Keys : buffers[k] = p

IInv ==
  /\ ValueTypes /\ FlagTypes /\ NothingStale /\ EachStringOnce /\ ChoiceAnnounced /\ AllStringsLive

-----------------------------------------------------------------------------
(* What each command declares. *)

LEMMA FirstOne ==
  ASSUME NEW S \in SUBSET Nat, S # {}
  PROVE  \E i \in S : \A j \in S : i <= j
<1>1. PICK x \in S : \A y \in S : ~(<<y, x>> \in OpToRel(<, Nat))
  BY WFMin, NatLessThanWellFounded, Zenon
<1>2. \A y \in S : ~(y < x)
  BY <1>1, Zenon DEF OpToRel
<1>3. QED
  BY <1>2

LEMMA VariableWellFormed == \A spec \in VariableSpecs : WellFormed(FromVariable(spec))
<1>1. SUFFICES ASSUME NEW spec \in VariableSpecs PROVE WellFormed(FromVariable(spec))
  OBVIOUS
<1>2. spec.list \in [1..MaxValues -> Values \union {None}]
  BY DEF VariableSpecs
<1>3. PICK named : named = {i \in DOMAIN spec.list : spec.list[i] # None}
  OBVIOUS
<1>4. CASE ~spec.title \/ named = {}
  BY <1>3, <1>4 DEF FromVariable, WellFormed, NoOption
<1>5. CASE spec.title /\ named # {}
  <2>1. PICK first : first = CHOOSE i \in named : \A j \in named : i <= j
    OBVIOUS
  <2>2. named \in SUBSET Nat
    BY <1>2, <1>3, BoundsAssumption
  <2>3. first \in named
    BY <1>5, <2>1, <2>2, FirstOne
  <2>4. FromVariable(spec) = [values |-> {spec.list[i] : i \in named}, default |-> spec.list[first]]
    BY <1>3, <1>5, <2>1 DEF FromVariable
  <2>5. {spec.list[i] : i \in named} \subseteq Values /\ spec.list[first] \in {spec.list[i] : i \in named}
    BY <1>2, <1>3, <2>3
  <2>6. PICK option : option = FromVariable(spec)
    OBVIOUS
  <2>7. option.values \subseteq Values /\ option.default \in option.values
    BY <2>4, <2>5, <2>6
  <2>8. QED
    BY <2>6, <2>7 DEF WellFormed
<1>6. QED
  BY <1>4, <1>5

LEMMA DefinitionWellFormed == \A def \in OptionDefinitions : WellFormed(FromDefinition(def))
<1>1. SUFFICES ASSUME NEW def \in OptionDefinitions PROVE WellFormed(FromDefinition(def))
  OBVIOUS
<1>2. def.values \in [1..MaxValues -> Values \union {None}]
  BY DEF OptionDefinitions, Arrays
<1>3. PICK values : values = ReadValues(def.values)
  OBVIOUS
<1>4. values \subseteq Values
  <2>1. ASSUME NEW i \in 1..MaxValues, \A l \in 1..i : def.values[l] # None
        PROVE  def.values[i] \in Values
    BY <1>2, <2>1, BoundsAssumption
  <2>2. QED
    BY <1>2, <1>3, <2>1 DEF ReadValues
<1>5. values # {} => def.values[1] \in values
  BY <1>2, <1>3, BoundsAssumption DEF ReadValues
<1>6. QED
  BY <1>3, <1>4, <1>5 DEF FromDefinition, WellFormed, NoOption

LEMMA DeclaresWellFormed ==
  \A options \in Declarations : \A k \in Keys : WellFormed(options[k])
<1>1. WellFormed(NoOption)
  BY DEF WellFormed, NoOption
<1>2. QED
  BY <1>1, VariableWellFormed, DefinitionWellFormed DEF Declarations, OptionsOrNone

-----------------------------------------------------------------------------
LEMMA FreshIInv ==
  ASSUME NEW stored \in [Keys -> Values \union {None}], Fresh(stored),
         phase' \in {"none", "loading", "running"},
         file' \in [Keys -> Values \union {None}], sessions' \in 0..MaxSessions
  PROVE  IInv'
<1>1. <<>> \in Seq(Values) /\ <<>> \in Seq(Values \union {None}) /\ Len(<<>>) = 0 /\ DOMAIN <<>> = {}
  OBVIOUS
<1>2. ValueTypes'
  <2>1. heap' = <<>> /\ retired' = {} /\ handed' = {} /\ preferred' = stored
    BY DEF Fresh
  <2>2. offered' \in [Keys -> SUBSET Values] /\ selected' \in [Keys -> Values \union {None}]
    BY DEF Fresh, Nothing
  <2>3. buffers' \in [Keys -> 0..Len(heap')]
    BY <1>1 DEF Fresh
  <2>4. QED
    BY <1>1, <2>1, <2>2, <2>3 DEF ValueTypes
<1>3. NothingStale' /\ AllStringsLive'
  BY <1>1 DEF Fresh, NothingStale, AllStringsLive, Nothing
<1>4. EachStringOnce'
  BY <1>1 DEF Fresh, EachStringOnce
<1>5. FlagTypes' /\ ChoiceAnnounced'
  BY DEF Fresh, FlagTypes, ChoiceAnnounced
<1>6. QED
  BY <1>2, <1>3, <1>4, <1>5 DEF IInv

LEMMA DeclareIInv == ASSUME IInv, NEW options \in Declarations, Declare(options) PROVE IInv'
<1>1. \A k \in Keys : WellFormed(options[k])
  BY DeclaresWellFormed
<1>2. PICK kept : kept = [k \in Keys |-> Kept(k, options[k])]
  OBVIOUS
<1>3. PICK moved : moved = {k \in Keys : buffers[k] # 0 /\ kept[k] # selected[k]}
  OBVIOUS
<1>4. /\ retired' = retired \union {buffers[k] : k \in moved}
      /\ buffers' = [k \in Keys |-> IF k \in moved THEN 0 ELSE buffers[k]]
      /\ selected' = kept /\ offered' = [k \in Keys |-> options[k].values]
      /\ UNCHANGED <<phase, preferred, heap, handed, told, file, sessions>>
  BY <1>2, <1>3 DEF Declare, Retire
<1>5. \A k \in Keys : IF options[k].values = {} THEN kept[k] = None ELSE kept[k] \in options[k].values
  <2>1. ASSUME NEW k \in Keys
        PROVE  IF options[k].values = {} THEN kept[k] = None ELSE kept[k] \in options[k].values
    <3>1. PICK option : option = options[k] /\ WellFormed(option)
      BY <1>1
    <3>2. kept[k] = IF selected[k] \in option.values THEN selected[k]
                    ELSE IF preferred[k] \in option.values THEN preferred[k] ELSE option.default
      BY <1>2, <3>1 DEF Kept
    <3>3. CASE option.values = {}
      BY <3>1, <3>2, <3>3 DEF WellFormed, NoOption
    <3>4. CASE option.values # {}
      BY <3>1, <3>2, <3>4 DEF WellFormed
    <3>5. QED
      BY <3>3, <3>4
  <2>2. QED
    BY <2>1
<1>6. ValueTypes'
  <2>1. kept \in [Keys -> Values \union {None}]
    BY <1>1, <1>2, <1>5 DEF WellFormed
  <2>2. offered' \in [Keys -> SUBSET Values]
    BY <1>1, <1>4 DEF WellFormed
  <2>3. buffers' \in [Keys -> 0..Len(heap)] /\ retired' \subseteq DOMAIN heap
    BY <1>3, <1>4 DEF IInv, ValueTypes
  <2>4. QED
    BY <1>4, <2>1, <2>2, <2>3 DEF IInv, ValueTypes
<1>7. NothingStale'
  BY <1>3, <1>4, <1>5 DEF IInv, NothingStale
<1>8. EachStringOnce'
  <2>1. \A k \in Keys : buffers'[k] = IF k \in moved THEN 0 ELSE buffers[k]
    BY <1>4
  <2>2. 0 \notin DOMAIN heap /\ \A k \in moved : k \in Keys /\ buffers[k] # 0
    BY <1>3 DEF IInv, AllStringsLive
  <2>3. \A k \in Keys : buffers'[k] \notin retired'
    BY <1>3, <1>4, <2>1, <2>2 DEF IInv, ValueTypes, EachStringOnce
  <2>4. \A p \in DOMAIN heap : p \in retired' \/ \E k \in Keys : buffers'[k] = p
    BY <1>4, <2>1, <2>2 DEF IInv, EachStringOnce
  <2>5. QED
    BY <1>4, <2>1, <2>3, <2>4 DEF IInv, EachStringOnce
<1>9. AllStringsLive'
  BY <1>4 DEF IInv, AllStringsLive
<1>10. FlagTypes' /\ ChoiceAnnounced'
  <2>1. /\ changedSinceQuery' = (changedSinceQuery \/ \E k \in Keys : Reverted(k, options[k]))
        /\ told' = told
    BY DEF Declare
  <2>2. QED
    BY <2>1, Zenon DEF IInv, FlagTypes, ChoiceAnnounced
<1>11. QED
  BY <1>6, <1>7, <1>8, <1>9, <1>10 DEF IInv

LEMMA SetValueIInv ==
  ASSUME IInv, NEW k \in Keys, NEW v \in Values, SetValue(k, v)
  PROVE  IInv'
<1>1. ValueTypes'
  BY DEF IInv, ValueTypes, SetValue
<1>2. NothingStale'
  BY DEF IInv, ValueTypes, NothingStale, SetValue
<1>3. EachStringOnce'
  <2>1. 0 \notin DOMAIN heap /\ heap' = heap
    BY DEF IInv, AllStringsLive, SetValue
  <2>2. \A j \in Keys : buffers'[j] = IF j = k THEN 0 ELSE buffers[j]
    BY DEF IInv, ValueTypes, SetValue
  <2>3. retired' = IF buffers[k] = 0 THEN retired ELSE retired \union {buffers[k]}
    BY DEF SetValue
  <2>4. QED
    BY <2>1, <2>2, <2>3 DEF IInv, ValueTypes, EachStringOnce
<1>4. AllStringsLive'
  BY DEF IInv, AllStringsLive, SetValue
<1>5. FlagTypes' /\ ChoiceAnnounced'
  BY DEF FlagTypes, ChoiceAnnounced, SetValue
<1>6. QED
  BY <1>1, <1>2, <1>3, <1>4, <1>5 DEF IInv

LEMMA GetVariableIInv == ASSUME IInv, NEW k \in Keys, GetVariable(k) PROVE IInv'
<1>1. /\ heap \in Seq(Values) /\ selected[k] \in Values
      /\ UNCHANGED <<phase, declared, retired, changedSinceQuery, told, file, sessions>>
  BY DEF IInv, ValueTypes, AllStringsLive, GetVariable
<1>2. FlagTypes' /\ ChoiceAnnounced'
  BY <1>1 DEF IInv, FlagTypes, ChoiceAnnounced
<1>3. CASE buffers[k] # 0
  <2>1. UNCHANGED <<heap, buffers>> /\ handed' = handed \union {buffers[k]}
    BY <1>3 DEF GetVariable
  <2>2. QED
    BY <1>1, <1>2, <1>3, <2>1 DEF IInv, ValueTypes, NothingStale, EachStringOnce, AllStringsLive, declared
<1>4. CASE buffers[k] = 0
  <2>1. PICK n \in Nat : n = Len(heap)
    BY <1>1
  <2>2. /\ heap' = Append(heap, selected[k]) /\ handed' = handed \union {n + 1}
        /\ buffers' = [buffers EXCEPT ![k] = n + 1]
    BY <1>4, <2>1 DEF GetVariable
  <2>3. /\ heap' \in Seq(Values) /\ Len(heap') = n + 1
        /\ DOMAIN heap = 1..n /\ DOMAIN heap' = 1..(n + 1)
        /\ heap'[n + 1] = selected[k] /\ \A p \in 1..n : heap'[p] = heap[p]
    BY <1>1, <2>1, <2>2
  <2>4. ValueTypes'
    BY <1>1, <2>1, <2>2, <2>3 DEF IInv, ValueTypes, declared
  <2>5. NothingStale'
    BY <1>1, <2>1, <2>2, <2>3 DEF IInv, ValueTypes, NothingStale, declared
  <2>6. EachStringOnce'
    <3>1. \A j \in Keys : buffers'[j] = IF j = k THEN n + 1 ELSE buffers[j]
      BY <2>2 DEF IInv, ValueTypes
    <3>2. \A j \in Keys : buffers[j] \in 0..n
      BY <2>1 DEF IInv, ValueTypes
    <3>3. \A p \in 1..n : p # 0 /\ (p \in retired \/ \E j \in Keys : j # k /\ buffers[j] = p)
      BY <1>4, <2>3 DEF IInv, EachStringOnce
    <3>4. n + 1 \notin retired
      BY <2>3 DEF IInv, ValueTypes
    <3>5. QED
      BY <1>1, <2>3, <3>1, <3>2, <3>3, <3>4 DEF IInv, EachStringOnce
  <2>7. AllStringsLive'
    BY <2>3 DEF AllStringsLive
  <2>8. QED
    BY <1>2, <2>4, <2>5, <2>6, <2>7 DEF IInv
<1>5. QED
  BY <1>3, <1>4

LEMMA OtherIInv ==
  ASSUME IInv, StartSession \/ SaveOptions \/ EndSession \/ EditFile \/ TakeUpdateFlag
  PROVE  IInv'
<1>1. CASE StartSession
  <2>1. /\ file \in [Keys -> Values \union {None}] /\ file' = file /\ Fresh(file)
        /\ phase' = "loading" /\ sessions' \in 0..MaxSessions
    BY <1>1, BoundsAssumption DEF IInv, ValueTypes, StartSession
  <2>2. QED
    BY <2>1, FreshIInv
<1>2. CASE EndSession
  <2>1. Nothing \in [Keys -> Values \union {None}]
    BY DEF Nothing
  <2>2. QED
    BY <1>2, <2>1, FreshIInv DEF IInv, ValueTypes, EndSession
<1>3. CASE SaveOptions \/ EditFile
  <2>1. /\ UNCHANGED <<declared, strings, changedSinceQuery, told, sessions>>
        /\ phase' \in {"none", "loading", "running"} /\ file' \in [Keys -> Values \union {None}]
    BY <1>3 DEF IInv, ValueTypes, SaveOptions, EditFile, Nothing
  <2>2. QED
    BY <2>1
    DEF IInv, ValueTypes, FlagTypes, NothingStale, EachStringOnce, ChoiceAnnounced, AllStringsLive,
        declared, strings
<1>4. CASE TakeUpdateFlag
  <2>1. UNCHANGED <<phase, declared, strings, file, sessions>>
    BY <1>4 DEF TakeUpdateFlag
  <2>2. ValueTypes' /\ NothingStale' /\ EachStringOnce' /\ AllStringsLive'
    BY <2>1 DEF IInv, ValueTypes, NothingStale, EachStringOnce, AllStringsLive, declared, strings
  <2>3. changedSinceQuery' = FALSE /\ told' = (told \/ changedSinceQuery)
    BY <1>4 DEF TakeUpdateFlag
  <2>4. FlagTypes' /\ ChoiceAnnounced'
    BY <2>3, Zenon DEF IInv, FlagTypes, ChoiceAnnounced
  <2>5. QED
    BY <2>2, <2>4 DEF IInv
<1>5. QED
  BY <1>1, <1>2, <1>3, <1>4

LEMMA InitIInv == Init => IInv
<1>1. <<>> \in Seq(Values) /\ <<>> \in Seq(Values \union {None}) /\ Len(<<>>) = 0 /\ DOMAIN <<>> = {}
  OBVIOUS
<1>2. ASSUME Init PROVE ValueTypes
  <2>1. /\ heap = <<>> /\ retired = {} /\ handed = {} /\ phase = "none" /\ sessions \in 0..MaxSessions
        /\ selected = Nothing /\ preferred = Nothing /\ file = Nothing
        /\ Nothing \in [Keys -> Values \union {None}]
    BY <1>2, BoundsAssumption DEF Init, Nothing
  <2>2. offered \in [Keys -> SUBSET Values]
    BY <1>2 DEF Init
  <2>3. buffers \in [Keys -> 0..Len(heap)]
    BY <1>1, <1>2 DEF Init
  <2>4. QED
    BY <1>1, <2>1, <2>2, <2>3 DEF ValueTypes
<1>3. ASSUME Init PROVE NothingStale /\ EachStringOnce /\ AllStringsLive
  BY <1>1, <1>3 DEF Init, NothingStale, EachStringOnce, AllStringsLive, Nothing
<1>4. ASSUME Init PROVE FlagTypes /\ ChoiceAnnounced
  BY <1>4 DEF Init, FlagTypes, ChoiceAnnounced
<1>5. QED
  BY <1>2, <1>3, <1>4 DEF IInv

LEMMA NextIInv == ASSUME IInv, [Next]_vars PROVE IInv'
<1>1. CASE UNCHANGED vars
  BY <1>1
  DEF IInv, ValueTypes, FlagTypes, NothingStale, EachStringOnce, ChoiceAnnounced, AllStringsLive,
      vars, declared, strings
<1>2. CASE Next
  BY <1>2, OtherIInv, DeclareIInv, SetValueIInv, GetVariableIInv DEF Next
<1>3. QED
  BY <1>1, <1>2
-----------------------------------------------------------------------------
(* In every reachable state the values, the strings and the flag agree     *)
(* (CoreOptions.declare, setValue, cString, takeUpdateFlag).               *)
THEOREM Inductive == Spec => []IInv
BY InitIInv, NextIInv, PTL DEF Spec

(* Every variable keeps its type (CoreOptions, CoreOptionsStore). *)
THEOREM TypeCorrect == Spec => []TypeOK
<1>1. IInv => TypeOK
  <2>1. AllStringsLive => heap \in Seq(Values \union {None})
    BY DEF AllStringsLive
  <2>2. QED
    BY <2>1 DEF IInv, ValueTypes, FlagTypes, TypeOK
<1>2. QED
  BY <1>1, Inductive, PTL

(* A declared key has one of the values it is offered with, and the string *)
(* handed out for it is that value, in whatever order a core declares,     *)
(* asks and declares again (declare, setValue, cString).                   *)
THEOREM NeverStale == Spec => []NothingStale
<1>1. IInv => NothingStale
  BY DEF IInv
<1>2. QED
  BY <1>1, Inductive, PTL

(* No pointer a core was given is freed while its session lasts (declare,  *)
(* setValue, deinit).                                                      *)
THEOREM NeverDangling == Spec => []NoDangling
<1>1. IInv => NoDangling
  BY NoneAssumption DEF IInv, ValueTypes, AllStringsLive, NoDangling
<1>2. QED
  BY <1>1, Inductive, PTL

(* deinit frees every string once (cString, declare, setValue, deinit). *)
THEOREM AlwaysFreedOnce == Spec => []FreedOnce
<1>1. IInv => FreedOnce
  <2>1. ASSUME IInv PROVE 0 \notin DOMAIN heap /\ \A k \in Keys : buffers[k] # 0 => buffers[k] \in DOMAIN heap
    BY <2>1 DEF IInv, ValueTypes, AllStringsLive
  <2>2. ASSUME IInv PROVE retired \subseteq DOMAIN heap
    BY <2>2 DEF IInv, ValueTypes
  <2>3. QED
    BY <2>1, <2>2 DEF IInv, EachStringOnce, FreedOnce
<1>2. QED
  BY <1>1, Inductive, PTL

(* The update flag stays up until it has covered the user's last choice    *)
(* (setValue, takeUpdateFlag, declare).                                    *)
THEOREM ChoiceAlwaysAnnounced == Spec => []ChoiceAnnounced
<1>1. IInv => ChoiceAnnounced
  BY DEF IInv
<1>2. QED
  BY <1>1, Inductive, PTL

(* A string is retired only when a value moved (declare, setValue). *)
THEOREM AlwaysRetiredForAReason == Spec => RetiredForAReason
<1>1. ASSUME IInv, [Next]_vars PROVE ~(retired' \subseteq retired) => selected' # selected
  <2>1. ASSUME NEW options \in Declarations, Declare(options), ~(retired' \subseteq retired)
        PROVE  selected' # selected
    <3>1. \E k \in Keys : Kept(k, options[k]) # selected[k]
      BY <2>1 DEF Declare, Retire
    <3>2. QED
      BY <2>1, <3>1 DEF Declare
  <2>2. ASSUME NEW k \in Keys, NEW v \in Values, SetValue(k, v) PROVE selected' # selected
    BY <1>1, <2>2 DEF IInv, ValueTypes, SetValue
  <2>3. ASSUME retired' \subseteq retired PROVE ~(retired' \subseteq retired) => selected' # selected
    BY <2>3
  <2>4. ASSUME StartSession \/ SaveOptions \/ EndSession \/ EditFile \/ TakeUpdateFlag
               \/ (\E k \in Keys : GetVariable(k)) \/ UNCHANGED vars
        PROVE  retired' \subseteq retired
    BY <2>4 DEF StartSession, SaveOptions, EndSession, EditFile, TakeUpdateFlag, GetVariable, Fresh,
       strings, vars
  <2>5. QED
    BY <1>1, <2>1, <2>2, <2>3, <2>4 DEF Next
<1>2. QED
  BY <1>1, Inductive, PTL DEF Spec, RetiredForAReason

(* Writing a session's selections leaves alone what is stored for keys its *)
(* core did not declare (CoreOptionsStore.save).                           *)
THEOREM RestAlwaysKept == Spec => RestIsKept
<1> DEFINE Step == (phase = "loading" /\ phase' = "running")
                     => \A k \in Keys : offered[k] = {} => file'[k] = file[k]
<1>1. ASSUME IInv, [Next]_vars PROVE Step
  <2>1. CASE SaveOptions
    BY <1>1, <2>1 DEF IInv, NothingStale, SaveOptions
  <2>2. CASE phase' # "running" \/ phase' = phase
    BY <2>2
  <2>3. ASSUME NEW options \in Declarations, Declare(options) PROVE phase' = phase
    BY <2>3 DEF Declare
  <2>4. ASSUME NEW k \in Keys, GetVariable(k) \/ \E v \in Values : SetValue(k, v) PROVE phase' = phase
    BY <2>4 DEF GetVariable, SetValue
  <2>5. ASSUME StartSession \/ EndSession \/ EditFile \/ TakeUpdateFlag \/ UNCHANGED vars
        PROVE  phase' # "running" \/ phase' = phase
    BY <2>5 DEF StartSession, EndSession, EditFile, TakeUpdateFlag, vars
  <2>6. QED
    BY <1>1, <2>1, <2>2, <2>3, <2>4, <2>5 DEF Next
<1>2. QED
  BY <1>1, Inductive, PTL DEF Spec, RestIsKept
=============================================================================
