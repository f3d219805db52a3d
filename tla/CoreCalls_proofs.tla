-------------------------- MODULE CoreCalls_proofs --------------------------
(***************************************************************************)
(* Proofs about the calls between the program and its cores, for any       *)
(* number of sessions and cores.                                           *)
(*                                                                         *)
(* The invariant IInv says, of each method of CoreSession, what state its  *)
(* core is in before each of the calls it still has to make, and that no   *)
(* core but that of the session in the static slot remembers anything.     *)
(***************************************************************************)
EXTENDS CoreCalls, TLAPS

(* The format that frames of session s are read in. *)
FormatOf(s) == IF handler[s].format = None THEN DefaultFormat ELSE handler[s].format

(* Only the thread calls cores, one call at a time. *)
OneInside ==
  \A c \in Cores : inside[c] # Outside =>
    c = thread.core /\ thread.calls # <<>> /\ inside[c] = Head(thread.calls)

(* A core that is not that of the session in the slot is as if new. *)
OthersIdle ==
  \A c \in Cores : core.current = None \/ coreOf[core.current] # c =>
    stage[c] = "idle" /\ given[c] = {} /\ believes[c] = DefaultFormat

(* The session in the slot; while no method of it runs it is between two   *)
(* of them.                                                                *)
SlotInv ==
  core.current # None =>
    LET s == core.current IN
    /\ coreOf[s] \in Cores /\ owner[s] # "none"
    /\ believes[coreOf[s]] = FormatOf(s)
    /\ thread.of # s =>
         /\ given[coreOf[s]] = Setters
         /\ stage[coreOf[s]] = IF owner[s] = "holds" THEN "loaded" ELSE "inited"

OwnerInv ==
  \A s \in Sessions :
    /\ owner[s] = "none" => handler[s] = NewHandler
    /\ owner[s] = "holds" => core.current = s /\ IsActive(core, s) /\ ~handler[s].hardware
    /\ owner[s] = "making" => core.current = s \/ (thread.method = "open" /\ thread.of = s)

(* The methods, each before the first call of thread.calls. *)

Describing ==
  /\ thread.method = "describe" /\ thread.of = None /\ thread.core \in Cores
  /\ thread.calls \in {<<"api_version", "get_system_info">>, <<"get_system_info">>}

Opening ==
  LET s == thread.of IN
  /\ thread.method = "open" /\ s \in Sessions /\ thread.core = coreOf[s] /\ coreOf[s] \in Cores
  /\ owner[s] = "making" /\ core.current = None /\ handler[s] = NewHandler
  /\ thread.calls = <<"api_version">>

OfTheSlot ==
  thread.of \in Sessions /\ core.current = thread.of /\ thread.core = coreOf[thread.of]

(* What is left of InitCalls, with the callbacks that have been given. *)
InitRest(calls, g) ==
  \/ calls = InitCalls /\ g = {}
  \/ /\ calls = <<"set_video_refresh", "set_audio_sample", "set_audio_sample_batch",
                  "set_input_poll", "set_input_state", "init">>
     /\ g = {"set_environment"}
  \/ /\ calls = <<"set_audio_sample", "set_audio_sample_batch",
                  "set_input_poll", "set_input_state", "init">>
     /\ g = {"set_environment", "set_video_refresh"}
  \/ /\ calls = <<"set_audio_sample_batch", "set_input_poll", "set_input_state", "init">>
     /\ g = {"set_environment", "set_video_refresh", "set_audio_sample"}
  \/ /\ calls = <<"set_input_poll", "set_input_state", "init">>
     /\ g = Setters \ {"set_input_poll", "set_input_state"}
  \/ calls = <<"set_input_state", "init">> /\ g = Setters \ {"set_input_state"}
  \/ calls = <<"init">> /\ g = Setters

Initing ==
  /\ thread.method = "init" /\ OfTheSlot /\ owner[thread.of] = "making"
  /\ stage[thread.core] = "idle" /\ InitRest(thread.calls, given[thread.core])

Loading ==
  /\ thread.method = "load" /\ OfTheSlot /\ owner[thread.of] = "making"
  /\ given[thread.core] = Setters
  /\ \/ /\ thread.calls \in {<<"get_system_info", "load_game">>, <<"load_game">>}
        /\ stage[thread.core] = "inited"
     \/ /\ thread.calls = <<"get_system_av_info">>
        /\ stage[thread.core] = "loaded" /\ ~handler[thread.of].hardware
     \/ thread.calls = <<"unload_game">> /\ stage[thread.core] = "loaded"

Playing ==
  /\ OfTheSlot /\ owner[thread.of] = "holds"
  /\ given[thread.core] = Setters /\ stage[thread.core] = "loaded"
  /\ \/ /\ thread.method = "run" /\ thread.calls # <<>>
        /\ \A i \in DOMAIN thread.calls : thread.calls[i] = "run"
     \/ /\ thread.method = "query"
        /\ thread.calls \in {<<"get_memory_size", "get_memory_data">>, <<"get_memory_data">>,
                             <<"serialize_size", "serialize">>, <<"serialize">>,
                             <<"unserialize">>}

Shutting ==
  /\ thread.method = "shutdown" /\ OfTheSlot /\ owner[thread.of] = "holds"
  /\ given[thread.core] = Setters
  /\ \/ thread.calls = <<"unload_game", "deinit">> /\ stage[thread.core] = "loaded"
     \/ thread.calls = <<"deinit">> /\ stage[thread.core] = "inited"

ThreadInv ==
  thread = NoMethod \/ Describing \/ Opening \/ Initing \/ Loading \/ Playing \/ Shutting

IInv == TypeOK /\ OneInside /\ OthersIdle /\ SlotInv /\ OwnerInv /\ ThreadInv
-----------------------------------------------------------------------------
(* What handling a command does to the handler: the format is the one that *)
(* was accepted last, and hardware rendering is asked for while loading.   *)
LEMMA Handling ==
  ASSUME NEW h \in Handlers, NEW e, NEW g, NEW cmd \in Commands, NEW data,
         MayAsk(g, e, cmd), cmd \in Known \/ h.unknown < MaxUnknown
  PROVE  LET h2 == Handled(h, cmd, data) IN
         /\ h2 \in Handlers
         /\ e # "load_game" => h2.hardware = h.hardware
         /\ IF cmd = SET_PIXEL_FORMAT /\ Answer(cmd, data)
            THEN data \in PixelFormats /\ h2.format = data
            ELSE h2.format = h.format
<1> DEFINE h2 == Handled(h, cmd, data)
<1> USE CallBounds DEF Handlers
<1>1. SET_PIXEL_FORMAT # SET_HW_RENDER
  BY DEF SET_PIXEL_FORMAT, SET_HW_RENDER, Command
<1>2. SET_PIXEL_FORMAT \in Known /\ SET_HW_RENDER \in Known
  BY DEF Known, KnownButRefused
<1>3. Answer(SET_PIXEL_FORMAT, data) <=> data \in PixelFormats
  BY DEF Answer, Granted, Command, SET_PIXEL_FORMAT, GET_CAN_DUPE, SET_PERFORMANCE_LEVEL,
     GET_SYSTEM_DIRECTORY, GET_SAVE_DIRECTORY, GET_CORE_OPTIONS_VERSION, SET_VARIABLES,
     SET_CORE_OPTIONS, SET_CORE_OPTIONS_INTL, GET_VARIABLE, GET_VARIABLE_UPDATE,
     GET_JIT_CAPABLE
<1>4. cmd = SET_HW_RENDER => e = "load_game"
  BY DEF MayAsk, SET_HW_RENDER, Command, WhileLoading
<1>5. CASE cmd = SET_PIXEL_FORMAT /\ data \in PixelFormats
  <2>1. h2 = [h EXCEPT !.format = data]
    BY <1>1, <1>2, <1>5 DEF Handled
  <2>2. QED
    BY <2>1, <1>3, <1>5
<1>6. CASE cmd = SET_HW_RENDER
  <2>1. h2 = [h EXCEPT !.hardware = TRUE]
    BY <1>1, <1>2, <1>6 DEF Handled
  <2>2. QED
    BY <2>1, <1>1, <1>4, <1>6
<1>7. CASE cmd \notin Known
  <2>1. h2 = [h EXCEPT !.unknown = @ + 1]
    BY <1>2, <1>7 DEF Handled
  <2>2. QED
    BY <2>1, <1>2, <1>7
<1>8. CASE cmd \in Known /\ cmd # SET_HW_RENDER /\ ~(cmd = SET_PIXEL_FORMAT /\ data \in PixelFormats)
  <2>1. h2 = h
    BY <1>8 DEF Handled
  <2>2. QED
    BY <2>1, <1>3, <1>8
<1>9. QED
  BY <1>5, <1>6, <1>7, <1>8

LEMMA CallsInitIInv == CallsInit => IInv
<1> SUFFICES ASSUME CallsInit PROVE IInv
  OBVIOUS
<1> USE NoneAssumption, NoneIsNothing, CallBounds DEF CallsInit, Init, NoMethod
<1>1. TypeOK
  BY DEF TypeOK, CoreStates, NoCore, Phases, Owners, Handlers, NewHandler, Threads, Methods,
     Stages, PixelFormats, DefaultFormat
<1>2. OneInside /\ OthersIdle /\ SlotInv /\ OwnerInv /\ ThreadInv
  BY DEF OneInside, OthersIdle, SlotInv, OwnerInv, ThreadInv, NoCore
<1>3. QED
  BY <1>1, <1>2 DEF IInv

(* A method that is about to begin is the thread's, and nothing else has   *)
(* changed.                                                                *)
LEMMA MethodBegins ==
  ASSUME IInv, Idle, thread' \in Threads, thread'.of \in Sessions \union {None},
         UNCHANGED <<core, coreOf, owner, handler, given, stage, inside, believes>>,
         ThreadInv'
  PROVE  IInv'
<1> USE NoneAssumption DEF IInv, Idle, NoMethod
<1>1. TypeOK'
  BY DEF TypeOK
<1>2. \A c \in Cores : inside[c] = Outside
  BY DEF OneInside
<1>3. OneInside' /\ OthersIdle' /\ OwnerInv'
  BY <1>2 DEF OneInside, OthersIdle, OwnerInv, IsActive, FormatOf
<1>4. SlotInv'
  BY DEF SlotInv, FormatOf, TypeOK, CoreStates
<1>5. QED
  BY <1>1, <1>3, <1>4

LEMMA DescribeIInv == ASSUME IInv, NEW c \in Cores, Describe(c) PROVE IInv'
<1>1. thread' \in Threads
  BY DEF Describe, Threads, Methods, EntryPoints, Setters
<1>2. Describing'
  BY <1>1 DEF Describe, Describing
<1>3. QED
  BY <1>1, <1>2, MethodBegins DEF Describe, ThreadInv

LEMMA MakeIInv ==
  ASSUME IInv, NEW s \in Sessions, NEW c \in Cores, Make(s, c)
  PROVE  IInv'
<1> USE NoneAssumption, NoneIsNothing DEF IInv, Idle, NoMethod
<1>1. /\ UNCHANGED <<core, handler, given, stage, inside, believes>>
      /\ owner[s] = "none" /\ thread = NoMethod /\ owner \in [Sessions -> Owners]
      /\ coreOf \in [Sessions -> Cores \union {None}]
      /\ \A d \in Cores : inside[d] = Outside
      /\ core.current # s
  BY DEF Make, OneInside, TypeOK, SlotInv
<1>2. CASE owner' = [owner EXCEPT ![s] = "done"] /\ UNCHANGED <<coreOf, thread>>
  <2>1. TypeOK'
    BY <1>1, <1>2 DEF TypeOK, Owners
  <2>2. OneInside' /\ OthersIdle' /\ SlotInv'
    BY <1>1, <1>2 DEF OneInside, OthersIdle, SlotInv, FormatOf
  <2>3. OwnerInv' /\ ThreadInv'
    BY <1>1, <1>2 DEF OwnerInv, ThreadInv, IsActive
  <2>4. QED
    BY <2>1, <2>2, <2>3
<1>3. CASE /\ SlotIsFree(core)
           /\ owner' = [owner EXCEPT ![s] = "making"]
           /\ coreOf' = [coreOf EXCEPT ![s] = c]
           /\ thread' = [of |-> s, core |-> c, method |-> "open", calls |-> <<"api_version">>]
  <2>1. TypeOK'
    BY <1>1, <1>3 DEF TypeOK, Owners, Threads, Methods, EntryPoints
  <2>2. OneInside' /\ OthersIdle' /\ SlotInv'
    BY <1>1, <1>3 DEF OneInside, OthersIdle, SlotInv, SlotIsFree
  <2>3. OwnerInv'
    BY <1>1, <1>3 DEF OwnerInv, IsActive, SlotIsFree
  <2>4. Opening'
    BY <1>1, <1>3 DEF Opening, OwnerInv, SlotIsFree
  <2>5. QED
    BY <2>1, <2>2, <2>3, <2>4 DEF ThreadInv
<1>4. QED
  BY <1>2, <1>3 DEF Make

LEMMA LoadGameIInv == ASSUME IInv, NEW s \in Sessions, LoadGame(s) PROVE IInv'
<1> USE NoneAssumption DEF LoadGame, Idle, NoMethod, Method
<1>1. core.current = s /\ coreOf[s] \in Cores /\ thread = NoMethod
  BY DEF IInv, OwnerInv, SlotInv
<1>2. PICK calls \in {<<"get_system_info", "load_game">>, <<"load_game">>} :
        thread' = Method(s, "load", calls)
  OBVIOUS
<1>3. calls \in Seq(EntryPoints)
  <2>1. <<"get_system_info", "load_game">> \in Seq(EntryPoints) /\ <<"load_game">> \in Seq(EntryPoints)
    BY DEF EntryPoints
  <2>2. QED
    BY <2>1, <1>2
<1>4. thread' \in Threads
  BY <1>1, <1>2, <1>3 DEF Threads, Methods
<1>5. given[coreOf[s]] = Setters /\ stage[coreOf[s]] = "inited"
  BY <1>1 DEF IInv, SlotInv
<1>6. Loading'
  BY <1>1, <1>2, <1>5 DEF Loading, OfTheSlot
<1>7. QED
  BY <1>1, <1>4, <1>6, MethodBegins DEF ThreadInv, Threads

LEMMA RunIInv == ASSUME IInv, NEW s \in Sessions, Run(s) PROVE IInv'
<1> USE NoneAssumption, CallBounds DEF Run, Idle, NoMethod, Method
<1>1. core.current = s /\ coreOf[s] \in Cores
  BY DEF IInv, OwnerInv, SlotInv
<1>2. PICK n \in 1..MaxFrames : thread' = Method(s, "run", [i \in 1..n |-> "run"])
  OBVIOUS
<1>3. [i \in 1..n |-> "run"] \in Seq(EntryPoints) /\ [i \in 1..n |-> "run"] # <<>>
  BY DEF EntryPoints
<1>4. thread' \in Threads
  BY <1>1, <1>2, <1>3 DEF Threads, Methods
<1>5. Playing'
  BY <1>1, <1>2, <1>3 DEF IInv, SlotInv, Playing, OfTheSlot
<1>6. QED
  BY <1>4, <1>5, MethodBegins DEF ThreadInv, Threads

LEMMA QueryIInv == ASSUME IInv, NEW s \in Sessions, Query(s) PROVE IInv'
<1> USE NoneAssumption DEF Query, Idle, NoMethod, Method
<1>1. core.current = s /\ coreOf[s] \in Cores /\ thread = NoMethod
  BY DEF IInv, OwnerInv, SlotInv
<1>2. PICK calls \in {<<"get_memory_size", "get_memory_data">>,
                      <<"serialize_size", "serialize">>, <<"unserialize">>} :
        thread' = Method(s, "query", calls)
  OBVIOUS
<1>3. calls \in Seq(EntryPoints)
  <2>1. /\ <<"get_memory_size", "get_memory_data">> \in Seq(EntryPoints)
        /\ <<"serialize_size", "serialize">> \in Seq(EntryPoints)
        /\ <<"unserialize">> \in Seq(EntryPoints)
    BY DEF EntryPoints
  <2>2. QED
    BY <2>1, <1>2
<1>4. thread' \in Threads
  BY <1>1, <1>2, <1>3 DEF Threads, Methods
<1>5. given[coreOf[s]] = Setters /\ stage[coreOf[s]] = "loaded"
  BY <1>1 DEF IInv, SlotInv
<1>6. Playing'
  BY <1>1, <1>2, <1>5 DEF Playing, OfTheSlot
<1>7. QED
  BY <1>1, <1>4, <1>6, MethodBegins DEF ThreadInv, Threads

LEMMA EndGameIInv == ASSUME IInv, NEW s \in Sessions, EndGame(s) PROVE IInv'
<1> USE NoneAssumption DEF EndGame, Idle, NoMethod, Method, Shutdown
<1>1. core.current = s /\ coreOf[s] \in Cores
  BY DEF IInv, OwnerInv, SlotInv
<1>2. thread' \in Threads
  BY <1>1 DEF Threads, Methods, EntryPoints, Setters
<1>3. Shutting'
  BY <1>1 DEF IInv, SlotInv, Shutting, OfTheSlot
<1>4. QED
  BY <1>2, <1>3, MethodBegins DEF ThreadInv, Threads

(* What each method can be about to call. *)
QueryCalls == {"get_memory_size", "get_memory_data", "serialize_size", "serialize", "unserialize"}

LEMMA NextCall ==
  ASSUME IInv, thread.calls # <<>>
  PROVE  LET e == Head(thread.calls) IN
         \/ Describing /\ e \in {"api_version", "get_system_info"}
         \/ Opening /\ e = "api_version"
         \/ Initing /\ e \in Setters \union {"init"}
         \/ Loading /\ e \in {"get_system_info", "load_game", "get_system_av_info", "unload_game"}
         \/ Playing /\ e = "run" /\ thread.method = "run"
         \/ Playing /\ e \in QueryCalls /\ thread.method = "query"
         \/ Shutting /\ e \in {"unload_game", "deinit"}
<1> DEFINE e == Head(thread.calls)
<1>1. CASE Describing
  BY <1>1 DEF Describing
<1>2. CASE Opening
  BY <1>2 DEF Opening
<1>3. CASE Initing
  BY <1>3 DEF Initing, InitRest, InitCalls, Setters
<1>4. CASE Loading
  BY <1>4 DEF Loading
<1>5. CASE Playing
  <2>1. ASSUME thread.method = "run", \A i \in DOMAIN thread.calls : thread.calls[i] = "run"
        PROVE  e = "run"
    <3>1. thread.calls \in Seq(EntryPoints)
      BY DEF IInv, TypeOK, Threads
    <3>2. 1 \in DOMAIN thread.calls /\ Head(thread.calls) = thread.calls[1]
      BY <3>1
    <3>3. QED
      BY <3>2, <2>1
  <2>2. ASSUME thread.calls \in {<<"get_memory_size", "get_memory_data">>, <<"get_memory_data">>,
                                 <<"serialize_size", "serialize">>, <<"serialize">>,
                                 <<"unserialize">>}
        PROVE  e \in QueryCalls
    BY <2>2 DEF QueryCalls
  <2>3. QED
    BY <1>5, <2>1, <2>2 DEF Playing
<1>6. CASE Shutting
  BY <1>6 DEF Shutting
<1>7. QED
  BY <1>1, <1>2, <1>3, <1>4, <1>5, <1>6 DEF IInv, ThreadInv, NoMethod

(* A core that is inside a call is the thread's, and one that may ask is   *)
(* the core of the session in the slot.                                    *)
LEMMA AskingCore ==
  ASSUME IInv, NEW c \in Cores, inside[c] # Outside,
         given[c] # {} \/ inside[c] = "set_environment"
  PROVE  core.current # None /\ coreOf[core.current] = c
<1> USE NoneAssumption DEF IInv
<1>1. CASE given[c] # {}
  BY <1>1 DEF OthersIdle
<1>2. CASE inside[c] = "set_environment"
  <2>1. c = thread.core /\ thread.calls # <<>> /\ Head(thread.calls) = "set_environment"
    BY <1>2 DEF OneInside
  <2>4. Initing
    BY <2>1, NextCall DEF QueryCalls, Setters
  <2>5. QED
    BY <2>1, <2>4 DEF Initing, OfTheSlot
<1>3. QED
  BY <1>1, <1>2

LEMMA AskIInv == ASSUME IInv, NEW c \in Cores, Ask(c) PROVE IInv'
<1> USE NoneAssumption, NoneIsNothing DEF IInv
<1>1. PICK cmd \in Commands : \E data \in DataOf(cmd) :
        /\ MayAsk(given[c], inside[c], cmd)
        /\ IF core.current = None THEN UNCHANGED <<handler, believes>>
           ELSE LET h == handler[core.current] IN
                /\ cmd \in Known \/ h.unknown < MaxUnknown
                /\ handler' = [handler EXCEPT ![core.current] = Handled(h, cmd, data)]
                /\ believes' = IF cmd = SET_PIXEL_FORMAT /\ Answer(cmd, data)
                               THEN [believes EXCEPT ![c] = data] ELSE believes
  BY DEF Ask
<1>a. PICK data :
        /\ MayAsk(given[c], inside[c], cmd)
        /\ IF core.current = None THEN UNCHANGED <<handler, believes>>
           ELSE LET h == handler[core.current] IN
                /\ cmd \in Known \/ h.unknown < MaxUnknown
                /\ handler' = [handler EXCEPT ![core.current] = Handled(h, cmd, data)]
                /\ believes' = IF cmd = SET_PIXEL_FORMAT /\ Answer(cmd, data)
                               THEN [believes EXCEPT ![c] = data] ELSE believes
  BY <1>1
<1>2. UNCHANGED <<core, coreOf, owner, thread, given, stage, inside>> /\ inside[c] # Outside
  BY DEF Ask
<1> DEFINE s == core.current
           h == handler[s]
<1>3. given[c] # {} \/ inside[c] = "set_environment"
  BY <1>a DEF MayAsk, GivenAfter
<1>4. s # None /\ coreOf[s] = c /\ s \in Sessions
  BY <1>2, <1>3, AskingCore DEF TypeOK, CoreStates
<1>5. h \in Handlers /\ handler \in [Sessions -> Handlers] /\ believes \in [Cores -> PixelFormats]
  BY <1>4 DEF TypeOK
<1>6. /\ handler' = [handler EXCEPT ![s] = Handled(h, cmd, data)]
      /\ believes' = IF cmd = SET_PIXEL_FORMAT /\ Answer(cmd, data)
                     THEN [believes EXCEPT ![c] = data] ELSE believes
      /\ cmd \in Known \/ h.unknown < MaxUnknown
  BY <1>a, <1>4
<1>7. /\ handler'[s] \in Handlers
      /\ inside[c] # "load_game" => handler'[s].hardware = h.hardware
      /\ IF cmd = SET_PIXEL_FORMAT /\ Answer(cmd, data)
         THEN data \in PixelFormats /\ handler'[s].format = data
         ELSE handler'[s].format = h.format
  <2> HIDE DEF h, s
  <2> QED
    BY <1>a, <1>4, <1>5, <1>6, Handling DEF h, s
<1>8. TypeOK'
  BY <1>2, <1>5, <1>6, <1>7 DEF TypeOK
<1>9. OneInside'
  BY <1>2 DEF OneInside
<1>10. OthersIdle'
  BY <1>2, <1>4, <1>6 DEF OthersIdle
<1>11. SlotInv'
  BY <1>2, <1>4, <1>5, <1>6, <1>7 DEF SlotInv, FormatOf
<1>12. inside[c] = "load_game" => Loading
  BY <1>2, NextCall DEF OneInside, QueryCalls, Setters
<1>13. owner[s] = "holds" => handler'[s].hardware = h.hardware
  BY <1>4, <1>7, <1>12 DEF Loading, OfTheSlot
<1>14. OwnerInv'
  BY <1>2, <1>4, <1>5, <1>6, <1>13 DEF OwnerInv, IsActive, SlotInv
<1>15. ThreadInv'
  <2>1. CASE thread = NoMethod
    BY <2>1, <1>2 DEF ThreadInv, NoMethod
  <2>2. CASE Describing
    BY <2>2, <1>2 DEF ThreadInv, Describing
  <2>3. CASE Opening
    BY <2>3, <1>4 DEF Opening
  <2>4. CASE Initing
    BY <2>4, <1>2 DEF ThreadInv, Initing, OfTheSlot
  <2>5. CASE Loading
    <3>1. thread.of = s /\ OfTheSlot
      BY <2>5 DEF Loading, OfTheSlot
    <3>2. inside[c] = Head(thread.calls)
      BY <1>2 DEF OneInside
    <3>3. thread.calls = <<"get_system_av_info">> => handler'[s].hardware = h.hardware
      BY <3>2, <1>7
    <3>4. Loading'
      BY <2>5, <1>2, <3>1, <3>3 DEF Loading, OfTheSlot
    <3>5. QED
      BY <3>4 DEF ThreadInv
  <2>6. CASE Playing
    BY <2>6, <1>2 DEF ThreadInv, Playing, OfTheSlot
  <2>7. CASE Shutting
    BY <2>7, <1>2 DEF ThreadInv, Shutting, OfTheSlot
  <2>8. QED
    BY <2>1, <2>2, <2>3, <2>4, <2>5, <2>6, <2>7 DEF ThreadInv
<1>16. QED
  BY <1>8, <1>9, <1>10, <1>11, <1>14, <1>15
-----------------------------------------------------------------------------
(* Calls that begin and end. *)

LEMMA CallTyped ==
  ASSUME IInv, thread.calls # <<>>
  PROVE  Head(thread.calls) \in EntryPoints /\ thread.core \in Cores
BY NoneAssumption, NextCall DEF Describing, Opening, Initing, Loading, Playing, Shutting, OfTheSlot,
   SlotInv, IInv, QueryCalls, Setters, EntryPoints

LEMMA EnterIInv == ASSUME IInv, Enter PROVE IInv'
<1> USE NoneAssumption DEF Enter, hostVars
<1>1. Head(thread.calls) \in EntryPoints /\ thread.core \in Cores
  BY CallTyped
<1>2. inside' = [inside EXCEPT ![thread.core] = Head(thread.calls)]
  OBVIOUS
<1>3. TypeOK'
  BY <1>1, <1>2 DEF IInv, TypeOK
<1>4. OneInside'
  BY <1>1, <1>2 DEF IInv, TypeOK, OneInside
<1>5. OthersIdle' /\ SlotInv' /\ OwnerInv'
  BY DEF IInv, OthersIdle, SlotInv, OwnerInv, FormatOf, IsActive
<1>6. ThreadInv'
  BY DEF IInv, ThreadInv, Describing, Opening, Initing, Loading, Playing, Shutting, OfTheSlot,
     InitRest
<1>7. QED
  BY <1>3, <1>4, <1>5, <1>6 DEF IInv

LEMMA Leaving ==
  ASSUME IInv, NEW e, NEW ok, Leaves(e, ok)
  PROVE  /\ thread.core \in Cores /\ e \in EntryPoints /\ thread.calls # <<>>
         /\ OneInside'
         /\ given' \in [Cores -> SUBSET Setters] /\ stage' \in [Cores -> Stages]
         /\ inside' \in [Cores -> EntryPoints \union {Outside}]
         /\ believes' \in [Cores -> PixelFormats]
         /\ \A d \in Cores \ {thread.core} :
              given'[d] = given[d] /\ stage'[d] = stage[d] /\ believes'[d] = believes[d]
         /\ given'[thread.core] = GivenAfter(given[thread.core], e)
         /\ stage'[thread.core] = StageAfter(stage[thread.core], e, ok)
         /\ believes'[thread.core] = IF e = "deinit" THEN DefaultFormat ELSE believes[thread.core]
<1> USE DEF Leaves
<1> DEFINE c == thread.core
<1>1. e \in EntryPoints /\ c \in Cores
  BY CallTyped
<1>2. TypeOK /\ \A d \in Cores \ {c} : inside[d] = Outside
  BY DEF IInv, OneInside
<1>3. GivenAfter(given[c], e) \in SUBSET Setters /\ StageAfter(stage[c], e, ok) \in Stages
  BY <1>1, <1>2 DEF TypeOK, GivenAfter, StageAfter, Stages
<1>4. DefaultFormat \in PixelFormats
  BY DEF DefaultFormat, PixelFormats
<1>5. OneInside'
  BY <1>1, <1>2 DEF TypeOK, OneInside
<1>6. QED
  BY <1>1, <1>2, <1>3, <1>4, <1>5 DEF TypeOK

LEMMA Proceeding ==
  ASSUME IInv, thread.calls # <<>>, Proceed
  PROVE  thread' \in Threads /\ thread'.of \in {None, thread.of}
<1>1. thread \in Threads
  BY DEF IInv, TypeOK
<1>2. CASE thread' = NoMethod
  BY <1>2 DEF NoMethod, Threads, Methods
<1>3. CASE Continue(Tail(thread.calls))
  <2>1. Tail(thread.calls) \in Seq(EntryPoints)
    BY <1>1 DEF Threads
  <2>2. QED
    BY <1>1, <1>3, <2>1 DEF Continue, Threads
<1>4. QED
  BY <1>2, <1>3 DEF Proceed

(* A call of the session in the slot that leaves the slot alone. *)
LEMMA SlotStep ==
  ASSUME IInv, NEW e, NEW ok, Leaves(e, ok), e # "deinit", OfTheSlot,
         UNCHANGED <<core, coreOf, owner, handler>>, thread' \in Threads, ThreadInv',
         thread'.of # thread.of =>
           /\ given'[thread.core] = Setters
           /\ stage'[thread.core] = IF owner[thread.of] = "holds" THEN "loaded" ELSE "inited",
         owner[thread.of] # "none"
  PROVE  IInv'
<1> USE NoneAssumption DEF OfTheSlot
<1>s. PICK s \in Sessions : s = thread.of
  OBVIOUS
<1>c. PICK c : c = thread.core
  OBVIOUS
<1>1. TypeOK' /\ OneInside'
  BY Leaving DEF IInv, TypeOK
<1>2. OthersIdle'
  BY Leaving DEF IInv, OthersIdle
<1>3. SlotInv'
  <2>1. coreOf[s] \in Cores /\ coreOf[s] = c /\ believes[c] = FormatOf(s)
    BY <1>s, <1>c DEF IInv, SlotInv
  <2>2. believes'[c] = believes[c]
    BY <1>c, Leaving
  <2>3. FormatOf(s)' = FormatOf(s)
    BY DEF FormatOf
  <2>4. QED
    BY <1>s, <1>c, <2>1, <2>2, <2>3 DEF SlotInv
<1>4. OwnerInv'
  BY DEF IInv, OwnerInv, IsActive
<1>5. QED
  BY <1>1, <1>2, <1>3, <1>4 DEF IInv

(* The owner lets go of a session whose load failed; it stays in the slot. *)
LEMMA ThrowsIInv ==
  ASSUME IInv, NEW e \in {"get_system_info", "load_game", "unload_game"}, NEW ok \in BOOLEAN,
         Leaves(e, ok), Loading, e = "load_game" => ~ok,
         NEW outcome \in {"rejected", "hardware"}, LoadThrows(AfterLoad(core, thread.of, outcome)),
         UNCHANGED <<coreOf, handler>>
  PROVE  IInv'
<1> USE NoneAssumption
<1>s. PICK s \in Sessions : s = thread.of
  BY DEF Loading, OfTheSlot
<1>c. PICK c : c = thread.core
  OBVIOUS
<1>1. core.current = s /\ coreOf[s] = c /\ c \in Cores /\ core \in CoreStates /\ owner[s] = "making"
  BY <1>s, <1>c DEF Loading, OfTheSlot, IInv, SlotInv, TypeOK
<1>2. core' \in CoreStates /\ core'.current = s
  BY <1>1, <1>s DEF LoadThrows, AfterLoad, CoreStates, Phases
<1>3. owner' = [owner EXCEPT ![s] = "done"] /\ thread' = NoMethod
  <2>1. AfterLoad(core, s, outcome).current = s
    BY <1>1 DEF AfterLoad, CoreStates
  <2>2. QED
    BY <1>s, <2>1 DEF LoadThrows
<1>4. owner \in [Sessions -> Owners] /\ handler \in [Sessions -> Handlers]
  BY DEF IInv, TypeOK
<1>5. NoMethod \in Threads
  BY DEF NoMethod, Threads, Methods
<1>6. given'[c] = Setters /\ stage'[c] = "inited" /\ believes'[c] = believes[c]
  <2>1. given[c] = Setters
    BY <1>c DEF Loading
  <2>2. Head(thread.calls) = e
    BY DEF Leaves
  <2>3. e \in {"get_system_info", "load_game"} => stage[c] = "inited"
    BY <2>2, <1>c DEF Loading
  <2>4. GivenAfter(given[c], e) = Setters /\ StageAfter(stage[c], e, ok) = "inited"
    BY <2>1, <2>3 DEF GivenAfter, StageAfter, Setters
  <2>5. QED
    BY <2>4, <1>c, Leaving
<1>7. TypeOK'
  BY <1>2, <1>3, <1>4, <1>5, Leaving DEF IInv, TypeOK, Owners
<1>8. OneInside'
  BY Leaving
<1>9. OthersIdle'
  BY <1>1, <1>2, <1>c, Leaving DEF IInv, OthersIdle
<1>10. SlotInv'
  BY <1>1, <1>2, <1>3, <1>4, <1>6 DEF IInv, SlotInv, FormatOf
<1>11. OwnerInv'
  <2>1. \A t \in Sessions \ {s} : owner[t] = "none" \/ owner[t] = "done"
    BY <1>1, <1>s, <1>4 DEF IInv, OwnerInv, Loading, Owners
  <2>2. QED
    BY <2>1, <1>3, <1>4 DEF IInv, OwnerInv
<1>12. QED
  BY <1>3, <1>7, <1>8, <1>9, <1>10, <1>11 DEF IInv, ThreadInv

LEMMA VersionIsWrongIInv == ASSUME IInv, VersionIsWrong PROVE IInv'
<1> USE NoneAssumption
<1>1. Leaves("api_version", TRUE) /\ thread.calls # <<>> /\ Head(thread.calls) = "api_version"
  BY DEF VersionIsWrong, Leaves
<1>2. Describing \/ Opening
  BY <1>1, NextCall DEF QueryCalls, Setters
<1>3. /\ UNCHANGED <<core, coreOf, handler>> /\ thread' = NoMethod
      /\ owner' = IF thread.method = "open" THEN [owner EXCEPT ![thread.of] = "done"] ELSE owner
  BY DEF VersionIsWrong
<1>4. UNCHANGED <<given, stage, believes>>
  BY <1>1 DEF IInv, TypeOK, Leaves, GivenAfter, StageAfter, Setters
<1>5. NoMethod \in Threads
  BY DEF NoMethod, Threads, Methods
<1>6. TypeOK' /\ OneInside'
  BY <1>1, <1>2, <1>3, <1>5, Leaving DEF IInv, TypeOK, Owners
<1>7. OthersIdle'
  BY <1>3, <1>4 DEF IInv, OthersIdle
<1>8. SlotInv'
  BY <1>2, <1>3, <1>4 DEF IInv, SlotInv, FormatOf, Describing, Opening, CoreStates, TypeOK
<1>9. OwnerInv'
  BY <1>2, <1>3 DEF IInv, TypeOK, OwnerInv, IsActive, Describing, Opening
<1>10. QED
  BY <1>3, <1>6, <1>7, <1>8, <1>9 DEF IInv, ThreadInv

LEMMA VersionIsRightIInv == ASSUME IInv, VersionIsRight PROVE IInv'
<1> USE NoneAssumption
<1>1. Leaves("api_version", TRUE) /\ thread.calls # <<>> /\ Head(thread.calls) = "api_version"
  BY DEF VersionIsRight, Leaves
<1>2. Describing \/ Opening
  BY <1>1, NextCall DEF QueryCalls, Setters
<1>3. UNCHANGED <<coreOf, owner, handler, given, stage, believes>>
  BY <1>1 DEF VersionIsRight, IInv, TypeOK, Leaves, GivenAfter, StageAfter, Setters
<1>4. CASE Describing
  <2>1. core' = core /\ Proceed
    BY <1>4 DEF Describing, VersionIsRight
  <2>2. thread.calls = <<"api_version", "get_system_info">>
    BY <1>1, <1>4 DEF Describing
  <2>3. thread' = [thread EXCEPT !.calls = <<"get_system_info">>]
    BY <2>1, <2>2 DEF Proceed, Continue
  <2>4. Describing'
    BY <1>4, <2>3 DEF Describing, IInv, TypeOK, Threads
  <2>5. TypeOK' /\ OneInside'
    BY <1>1, <1>3, <2>1, Leaving, Proceeding DEF IInv, TypeOK
  <2>6. OthersIdle' /\ SlotInv'
    BY <1>3, <1>4, <2>1, <2>4 DEF IInv, OthersIdle, SlotInv, FormatOf, Describing, TypeOK, CoreStates
  <2>7. OwnerInv'
    BY <1>3, <1>4, <2>1 DEF IInv, OwnerInv, IsActive, Describing
  <2>8. QED
    BY <2>4, <2>5, <2>6, <2>7 DEF IInv, ThreadInv
<1>5. CASE Opening
  <2>s. PICK s \in Sessions : s = thread.of
    BY <1>5 DEF Opening
  <2>1. core' = Constructed(core, s) /\ thread' = Method(s, "init", InitCalls)
    BY <1>5, <2>s DEF Opening, VersionIsRight, TakesSlot
  <2>2. core' \in CoreStates /\ core'.current = s
    BY <2>1 DEF Constructed, IInv, TypeOK, CoreStates, Phases
  <2>3. /\ core.current = None /\ coreOf[s] \in Cores /\ owner[s] = "making"
        /\ handler[s] = NewHandler /\ coreOf[s] = thread.core
    BY <1>5, <2>s DEF Opening
  <2>4. InitCalls \in Seq(EntryPoints)
    BY DEF InitCalls, EntryPoints, Setters
  <2>5. thread' \in Threads
    BY <2>1, <2>3, <2>4 DEF Method, Threads, Methods
  <2>6. TypeOK' /\ OneInside'
    BY <1>1, <1>3, <2>2, <2>5, Leaving DEF IInv, TypeOK
  <2>7. \A c \in Cores : stage[c] = "idle" /\ given[c] = {} /\ believes[c] = DefaultFormat
    BY <2>3 DEF IInv, OthersIdle
  <2>8. OthersIdle'
    BY <1>3, <2>7 DEF OthersIdle
  <2>9. SlotInv'
    BY <1>3, <2>1, <2>2, <2>3, <2>7 DEF SlotInv, FormatOf, NewHandler, Method
  <2>10. OwnerInv'
    BY <1>3, <2>2, <2>3, <1>5, <2>s DEF IInv, OwnerInv
  <2>11. Initing'
    BY <1>3, <2>1, <2>2, <2>3, <2>7 DEF Initing, OfTheSlot, InitRest, Method
  <2>12. QED
    BY <2>6, <2>8, <2>9, <2>10, <2>11 DEF IInv, ThreadInv
<1>6. QED
  BY <1>2, <1>4, <1>5

LEMMA SystemInfoIInv == ASSUME IInv, SystemInfo PROVE IInv'
<1> USE NoneAssumption
<1>1. Leaves("get_system_info", TRUE) /\ thread.calls # <<>> /\ Head(thread.calls) = "get_system_info"
  BY DEF SystemInfo, Leaves
<1>2. Describing \/ Loading
  BY <1>1, NextCall DEF QueryCalls, Setters
<1>3. UNCHANGED <<coreOf, handler, given, stage, believes>>
  BY <1>1 DEF SystemInfo, IInv, TypeOK, Leaves, GivenAfter, StageAfter, Setters
<1>4. CASE thread.method = "load" /\ LoadThrows(AfterLoad(core, thread.of, "rejected"))
  <2>1. Loading
    BY <1>2, <1>4 DEF Describing
  <2>2. QED
    BY <1>1, <1>3, <1>4, <2>1, ThrowsIInv
<1>5. CASE Describing /\ Proceed /\ UNCHANGED <<core, owner>>
  <2>1. thread.calls = <<"get_system_info">>
    BY <1>1, <1>5 DEF Describing
  <2>2. thread' = NoMethod
    BY <1>5, <2>1 DEF Proceed
  <2>3. TypeOK' /\ OneInside'
    BY <1>1, <1>3, <1>5, Leaving, Proceeding DEF IInv, TypeOK
  <2>4. OthersIdle' /\ SlotInv'
    BY <1>3, <1>5, <2>2 DEF IInv, OthersIdle, SlotInv, FormatOf, Describing, TypeOK, CoreStates
  <2>5. OwnerInv'
    BY <1>3, <1>5, <2>2 DEF IInv, OwnerInv, IsActive, Describing
  <2>6. QED
    BY <2>2, <2>3, <2>4, <2>5 DEF IInv, ThreadInv
<1>6. CASE Loading /\ Proceed /\ UNCHANGED <<core, owner>>
  <2>1. thread.calls = <<"get_system_info", "load_game">>
    BY <1>1, <1>6 DEF Loading
  <2>2. thread' = [thread EXCEPT !.calls = <<"load_game">>]
    BY <1>6, <2>1 DEF Proceed, Continue
  <2>3. Loading'
    BY <1>1, <1>3, <1>6, <2>1, <2>2 DEF Loading, OfTheSlot, IInv, TypeOK, Threads
  <2>4. thread' \in Threads /\ thread'.of = thread.of
    BY <1>1, <1>6, <2>2, Proceeding DEF IInv, TypeOK, Threads
  <2>5. QED
    BY <1>1, <1>3, <1>6, <2>3, <2>4, SlotStep DEF ThreadInv, Loading
<1>7. QED
  BY <1>2, <1>4, <1>5, <1>6 DEF SystemInfo

LEMMA GameRejectedIInv == ASSUME IInv, GameRejected PROVE IInv'
<1>1. Leaves("load_game", FALSE) /\ thread.calls # <<>> /\ Head(thread.calls) = "load_game"
  BY DEF GameRejected, Leaves
<1>2. Loading
  BY <1>1, NextCall DEF QueryCalls, Setters
<1>3. QED
  BY <1>1, <1>2, ThrowsIInv DEF GameRejected

LEMMA GameLoadsIInv == ASSUME IInv, GameLoads PROVE IInv'
<1> USE NoneAssumption
<1>1. Leaves("load_game", TRUE) /\ thread.calls # <<>> /\ Head(thread.calls) = "load_game"
  BY DEF GameLoads, Leaves
<1>2. Loading
  BY <1>1, NextCall DEF QueryCalls, Setters
<1>3. UNCHANGED <<core, coreOf, owner, handler>>
  BY DEF GameLoads
<1>4. thread' = [thread EXCEPT !.calls = AfterLoadGame(thread.of)] /\ thread \in Threads
  BY DEF GameLoads, Continue, IInv, TypeOK
<1>5. AfterLoadGame(thread.of) \in Seq(EntryPoints)
  <2>1. <<"unload_game">> \in Seq(EntryPoints) /\ <<"get_system_av_info">> \in Seq(EntryPoints)
    BY DEF EntryPoints
  <2>2. QED
    BY <2>1 DEF AfterLoadGame
<1>6. thread' \in Threads /\ thread'.of = thread.of
  BY <1>4, <1>5 DEF Threads
<1>7. given'[thread.core] = Setters /\ stage'[thread.core] = "loaded"
  <2>1. GivenAfter(Setters, "load_game") = Setters
    BY DEF GivenAfter, Setters
  <2>2. StageAfter(stage[thread.core], "load_game", TRUE) = "loaded"
    BY DEF StageAfter
  <2>3. QED
    BY <1>1, <1>2, <2>1, <2>2, Leaving DEF Loading
<1>8. Loading'
  BY <1>2, <1>3, <1>4, <1>7 DEF Loading, OfTheSlot, AfterLoadGame, Threads
<1>9. QED
  BY <1>1, <1>2, <1>3, <1>6, <1>8, SlotStep DEF ThreadInv, Loading

LEMMA LoadCompletesIInv == ASSUME IInv, LoadCompletes PROVE IInv'
<1> USE NoneAssumption
<1>1. /\ Leaves("get_system_av_info", TRUE)
      /\ thread.calls # <<>> /\ Head(thread.calls) = "get_system_av_info"
  BY DEF LoadCompletes, Leaves
<1>2. Loading
  BY <1>1, NextCall DEF QueryCalls, Setters
<1>s. PICK s \in Sessions : s = thread.of
  BY <1>2 DEF Loading, OfTheSlot
<1>3. UNCHANGED <<coreOf, handler, given, stage, believes>>
  BY <1>1 DEF LoadCompletes, IInv, TypeOK, Leaves, GivenAfter, StageAfter, Setters
<1>4. /\ thread.calls = <<"get_system_av_info">> /\ core.current = s /\ coreOf[s] \in Cores
      /\ given[coreOf[s]] = Setters /\ stage[coreOf[s]] = "loaded" /\ ~handler[s].hardware
      /\ owner[s] = "making"
  BY <1>1, <1>2, <1>s DEF Loading, OfTheSlot, IInv, SlotInv
<1>5. core' = [core EXCEPT !.phase[s] = "loaded"] /\ core \in CoreStates
  BY <1>s DEF LoadCompletes, AfterLoad, IInv, TypeOK
<1>6. core' \in CoreStates /\ core'.current = s /\ core'.phase[s] = "loaded"
  BY <1>4, <1>5 DEF CoreStates, Phases
<1>7. owner' = [owner EXCEPT ![s] = "holds"] /\ thread' = NoMethod
  BY <1>s DEF LoadCompletes
<1>8. owner \in [Sessions -> Owners]
  BY DEF IInv, TypeOK
<1>9. TypeOK' /\ OneInside'
  <2>1. thread' \in Threads
    BY <1>7 DEF NoMethod, Threads, Methods
  <2>2. owner' \in [Sessions -> Owners]
    BY <1>7, <1>8 DEF Owners
  <2>3. QED
    BY <1>1, <1>3, <1>6, <2>1, <2>2, Leaving DEF IInv, TypeOK
<1>10. OthersIdle'
  BY <1>3, <1>4, <1>6 DEF IInv, OthersIdle
<1>11. SlotInv'
  BY <1>3, <1>4, <1>6, <1>7, <1>8 DEF IInv, SlotInv, FormatOf
<1>12. OwnerInv'
  <2>1. \A t \in Sessions \ {s} : owner[t] = "none" \/ owner[t] = "done"
    BY <1>2, <1>4, <1>8 DEF IInv, OwnerInv, Loading, Owners
  <2>2. QED
    BY <2>1, <1>3, <1>4, <1>6, <1>7, <1>8 DEF IInv, OwnerInv, IsActive
<1>13. QED
  BY <1>7, <1>9, <1>10, <1>11, <1>12 DEF IInv, ThreadInv

LEMMA GameUnloadsIInv == ASSUME IInv, GameUnloads PROVE IInv'
<1> USE NoneAssumption
<1>1. Leaves("unload_game", TRUE) /\ thread.calls # <<>> /\ Head(thread.calls) = "unload_game"
  BY DEF GameUnloads, Leaves
<1>2. Loading \/ Shutting
  BY <1>1, NextCall DEF QueryCalls, Setters
<1>3. UNCHANGED <<coreOf, handler>>
  BY DEF GameUnloads
<1>4. CASE Loading
  BY <1>1, <1>3, <1>4, ThrowsIInv DEF Loading, GameUnloads
<1>5. CASE Shutting
  <2>1. thread.calls = <<"unload_game", "deinit">>
    BY <1>1, <1>5 DEF Shutting
  <2>2. UNCHANGED <<core, owner>> /\ Proceed
    BY <1>5 DEF Shutting, GameUnloads
  <2>3. thread' = [thread EXCEPT !.calls = <<"deinit">>]
    BY <2>1, <2>2 DEF Proceed, Continue
  <2>4. given'[thread.core] = Setters /\ stage'[thread.core] = "inited"
    <3>1. GivenAfter(Setters, "unload_game") = Setters
      BY DEF GivenAfter, Setters
    <3>2. StageAfter(stage[thread.core], "unload_game", TRUE) = "inited"
      BY DEF StageAfter
    <3>3. QED
      BY <1>1, <1>5, <3>1, <3>2, Leaving DEF Shutting
  <2>5. Shutting'
    BY <1>3, <1>5, <2>2, <2>3, <2>4 DEF Shutting, OfTheSlot, IInv, TypeOK, Threads
  <2>6. thread' \in Threads /\ thread'.of = thread.of
    BY <1>1, <2>2, <2>3, Proceeding DEF IInv, TypeOK, Threads
  <2>7. QED
    BY <1>1, <1>3, <1>5, <2>2, <2>5, <2>6, SlotStep DEF ThreadInv, Shutting
<1>6. QED
  BY <1>2, <1>4, <1>5

LEMMA SizeIsKnownIInv == ASSUME IInv, SizeIsKnown PROVE IInv'
<1> USE NoneAssumption
<1>1. PICK e \in {"get_memory_size", "serialize_size"} : Leaves(e, TRUE)
  BY DEF SizeIsKnown
<1>2. thread.calls # <<>> /\ Head(thread.calls) = e
  BY <1>1 DEF Leaves
<1>3. Playing /\ thread.method = "query"
  BY <1>2, NextCall DEF QueryCalls, Setters
<1>4. UNCHANGED <<core, coreOf, owner, handler, given, stage>>
  BY <1>1 DEF SizeIsKnown, IInv, TypeOK, Leaves, GivenAfter, StageAfter, Setters
<1>5. given[thread.core] = Setters /\ stage[thread.core] = "loaded" /\ owner[thread.of] = "holds"
  BY <1>3 DEF Playing
<1>6. CASE thread' = NoMethod
  <2>1. thread' \in Threads
    BY <1>6 DEF NoMethod, Threads, Methods
  <2>2. QED
    BY <1>1, <1>3, <1>4, <1>5, <1>6, <2>1, SlotStep DEF ThreadInv, Playing
<1>7. CASE Proceed
  <2>1. thread.calls \in {<<"get_memory_size", "get_memory_data">>, <<"serialize_size", "serialize">>}
    BY <1>2, <1>3 DEF Playing
  <2>2. Len(thread.calls) # 1 /\ Tail(thread.calls) \in {<<"get_memory_data">>, <<"serialize">>}
    <3>1. CASE thread.calls = <<"get_memory_size", "get_memory_data">>
      BY <3>1
    <3>2. CASE thread.calls = <<"serialize_size", "serialize">>
      BY <3>2
    <3>3. QED
      BY <2>1, <3>1, <3>2
  <2>3. thread' = [thread EXCEPT !.calls = Tail(thread.calls)]
    BY <1>7, <2>2 DEF Proceed, Continue
  <2>4. Playing'
    BY <1>3, <1>4, <2>2, <2>3 DEF Playing, OfTheSlot, IInv, TypeOK, Threads
  <2>5. thread' \in Threads /\ thread'.of = thread.of
    BY <1>2, <1>7, <2>3, Proceeding DEF IInv, TypeOK, Threads
  <2>6. QED
    BY <1>1, <1>3, <1>4, <1>5, <2>4, <2>5, SlotStep DEF ThreadInv, Playing
<1>8. QED
  BY <1>6, <1>7 DEF SizeIsKnown

LEMMA DeinitsIInv == ASSUME IInv, Deinits PROVE IInv'
<1> USE NoneAssumption
<1>1. Leaves("deinit", TRUE) /\ thread.calls # <<>> /\ Head(thread.calls) = "deinit"
  BY DEF Deinits, Leaves
<1>2. Shutting
  BY <1>1, NextCall DEF QueryCalls, Setters
<1>s. PICK s \in Sessions : s = thread.of
  BY <1>2 DEF Shutting, OfTheSlot
<1>3. UNCHANGED <<coreOf, handler>>
  BY DEF Deinits
<1>4. core.current = s /\ coreOf[s] = thread.core /\ owner[s] = "holds" /\ IsActive(core, s)
  BY <1>2, <1>s DEF Shutting, OfTheSlot, IInv, OwnerInv
<1>5. core' = [current |-> None, phase |-> [core.phase EXCEPT ![s] = "shut"]] /\ core \in CoreStates
  BY <1>4, <1>s DEF Deinits, ShutDown, IInv, TypeOK
<1>6. core' \in CoreStates /\ core'.current = None
  BY <1>5 DEF CoreStates, Phases
<1>7. owner' = [owner EXCEPT ![s] = "done"] /\ thread' = NoMethod /\ owner \in [Sessions -> Owners]
  BY <1>s DEF Deinits, IInv, TypeOK
<1>8. TypeOK' /\ OneInside'
  <2>1. thread' \in Threads
    BY <1>7 DEF NoMethod, Threads, Methods
  <2>2. owner' \in [Sessions -> Owners]
    BY <1>7 DEF Owners
  <2>3. QED
    BY <1>1, <1>3, <1>6, <2>1, <2>2, Leaving DEF IInv, TypeOK
<1>9. OthersIdle'
  <2>1. GivenAfter(given[thread.core], "deinit") = {}
    BY DEF GivenAfter, Setters
  <2>2. StageAfter(stage[thread.core], "deinit", TRUE) = "idle"
    BY DEF StageAfter
  <2>3. /\ given'[thread.core] = {} /\ stage'[thread.core] = "idle"
        /\ believes'[thread.core] = DefaultFormat
    BY <1>1, <2>1, <2>2, Leaving
  <2>4. \A c \in Cores \ {thread.core} :
          given'[c] = {} /\ stage'[c] = "idle" /\ believes'[c] = DefaultFormat
    BY <1>1, <1>4, Leaving DEF IInv, OthersIdle
  <2>5. QED
    BY <2>3, <2>4 DEF OthersIdle
<1>10. SlotInv'
  BY <1>6 DEF SlotInv
<1>11. OwnerInv'
  <2>1. \A t \in Sessions \ {s} : owner[t] = "none" \/ owner[t] = "done"
    BY <1>2, <1>4, <1>7 DEF IInv, OwnerInv, Shutting, Owners
  <2>2. QED
    BY <2>1, <1>3, <1>4, <1>7 DEF IInv, OwnerInv
<1>12. QED
  BY <1>7, <1>8, <1>9, <1>10, <1>11 DEF IInv, ThreadInv

(* The session hands its callbacks over, one after another, and inits. *)
LEMMA InitGoesOn ==
  ASSUME IInv, NEW e, Leaves(e, TRUE), Initing, Proceed, UNCHANGED <<core, coreOf, owner, handler>>
  PROVE  IInv'
<1> USE NoneAssumption
<1>1. thread.calls # <<>> /\ Head(thread.calls) = e /\ e \in Setters \union {"init"}
  <2>1. thread.calls # <<>> /\ Head(thread.calls) = e
    BY DEF Leaves
  <2>2. QED
    BY <2>1, NextCall DEF Initing, Describing, Opening, Loading, Playing, Shutting
<1>2. thread' \in Threads
  BY <1>1, Proceeding
<1>a. /\ given'[thread.core] = GivenAfter(given[thread.core], e)
      /\ stage'[thread.core] = StageAfter(stage[thread.core], e, TRUE)
  BY Leaving
<1>b. stage[thread.core] = "idle"
  BY DEF Initing
<1>3. CASE e = "init"
  <2>1. thread.calls = <<"init">> /\ given[thread.core] = Setters
    BY <1>1, <1>3 DEF Initing, InitRest, InitCalls
  <2>2. thread' = NoMethod
    BY <2>1 DEF Proceed
  <2>3. GivenAfter(Setters, "init") = Setters
    BY DEF GivenAfter, Setters
  <2>4. StageAfter(stage[thread.core], "init", TRUE) = "inited"
    BY DEF StageAfter
  <2>5. given'[thread.core] = Setters /\ stage'[thread.core] = "inited"
    BY <1>3, <1>a, <2>1, <2>3, <2>4
  <2>6. QED
    BY <1>2, <1>3, <2>2, <2>5, SlotStep DEF ThreadInv, Initing
<1>4. CASE e \in Setters
  <2>1. given'[thread.core] = given[thread.core] \union {e} /\ stage'[thread.core] = "idle"
    <3>1. GivenAfter(given[thread.core], e) = given[thread.core] \union {e}
      BY <1>4 DEF GivenAfter, Setters
    <3>2. StageAfter(stage[thread.core], e, TRUE) = stage[thread.core]
      BY <1>4 DEF StageAfter, Setters
    <3>3. QED
      BY <1>a, <1>b, <3>1, <3>2
  <2>2. thread' = [thread EXCEPT !.calls = Tail(thread.calls)] /\ thread \in Threads
    <3>1. Len(thread.calls) # 1
      <4>1. thread.calls # <<"init">>
        BY <1>1, <1>4 DEF Setters
      <4>2. InitRest(thread.calls, given[thread.core])
        BY DEF Initing
      <4>3. Len(InitCalls) = 7
        BY DEF InitCalls
      <4>4. QED
        BY <4>1, <4>2, <4>3 DEF InitRest
    <3>2. QED
      BY <3>1 DEF Proceed, Continue, IInv, TypeOK
  <2>3. InitRest(Tail(thread.calls), given[thread.core] \union {e})
    <3>1. CASE thread.calls = InitCalls /\ given[thread.core] = {}
      BY <3>1, <1>1 DEF InitRest, InitCalls
    <3>2. CASE /\ thread.calls = <<"set_video_refresh", "set_audio_sample", "set_audio_sample_batch",
                                   "set_input_poll", "set_input_state", "init">>
               /\ given[thread.core] = {"set_environment"}
      BY <3>2, <1>1 DEF InitRest
    <3>3. CASE /\ thread.calls = <<"set_audio_sample", "set_audio_sample_batch",
                                   "set_input_poll", "set_input_state", "init">>
               /\ given[thread.core] = {"set_environment", "set_video_refresh"}
      BY <3>3, <1>1 DEF InitRest
    <3>4. CASE /\ thread.calls = <<"set_audio_sample_batch", "set_input_poll", "set_input_state",
                                   "init">>
               /\ given[thread.core] = {"set_environment", "set_video_refresh", "set_audio_sample"}
      BY <3>4, <1>1 DEF InitRest, Setters
    <3>5. CASE /\ thread.calls = <<"set_input_poll", "set_input_state", "init">>
               /\ given[thread.core] = Setters \ {"set_input_poll", "set_input_state"}
      BY <3>5, <1>1 DEF InitRest, Setters
    <3>6. CASE /\ thread.calls = <<"set_input_state", "init">>
               /\ given[thread.core] = Setters \ {"set_input_state"}
      BY <3>6, <1>1 DEF InitRest, Setters
    <3>7. CASE thread.calls = <<"init">>
      BY <3>7, <1>1, <1>4 DEF Setters
    <3>8. QED
      BY <3>1, <3>2, <3>3, <3>4, <3>5, <3>6, <3>7 DEF Initing, InitRest
  <2>4. Initing'
    BY <2>1, <2>2, <2>3 DEF Initing, OfTheSlot, Threads
  <2>5. QED
    BY <1>2, <1>4, <2>2, <2>4, SlotStep DEF ThreadInv, Initing, Threads, Setters
<1>5. QED
  BY <1>1, <1>3, <1>4

LEMMA GoesOnIInv == ASSUME IInv, GoesOn PROVE IInv'
<1> USE NoneAssumption
<1>1. PICK e \in Setters \union {"init", "run", "get_memory_data", "serialize", "unserialize"} :
        Leaves(e, TRUE)
  BY DEF GoesOn
<1>2. thread.calls # <<>> /\ Head(thread.calls) = e
  BY <1>1 DEF Leaves
<1>3. Proceed /\ UNCHANGED <<core, coreOf, owner, handler>>
  BY DEF GoesOn
<1>4. thread' \in Threads
  BY <1>2, <1>3, Proceeding
<1>5. CASE Initing
  BY <1>1, <1>3, <1>5, InitGoesOn
<1>6. CASE Playing
  <2>1. e \notin Setters \union {"init", "deinit"}
    BY <1>2, <1>6, NextCall DEF Playing, Initing, Describing, Opening, Loading, Shutting, QueryCalls,
       Setters
  <2>2. UNCHANGED <<given, stage>>
    <3>1. GivenAfter(given[thread.core], e) = given[thread.core]
      BY <2>1 DEF GivenAfter
    <3>2. StageAfter(stage[thread.core], e, TRUE) = stage[thread.core]
      BY <1>1, <2>1 DEF StageAfter, Setters
    <3>3. QED
      BY <1>1, <3>1, <3>2 DEF Leaves, IInv, TypeOK
  <2>3. CASE thread' = NoMethod
    BY <1>1, <1>3, <1>4, <1>6, <2>1, <2>2, <2>3, SlotStep DEF ThreadInv, Playing
  <2>4. CASE Len(thread.calls) # 1
    <3>1. thread' = [thread EXCEPT !.calls = Tail(thread.calls)] /\ thread \in Threads
      BY <1>3, <2>4 DEF Proceed, Continue, IInv, TypeOK
    <3>2. thread.method = "run" /\ \A i \in DOMAIN thread.calls : thread.calls[i] = "run"
      <4>1. ~(thread.calls \in {<<"get_memory_data">>, <<"serialize">>, <<"unserialize">>})
        BY <2>4
      <4>2. ~(thread.calls \in {<<"get_memory_size", "get_memory_data">>,
                                <<"serialize_size", "serialize">>})
        BY <1>1, <1>2 DEF Setters
      <4>3. QED
        BY <1>6, <4>1, <4>2 DEF Playing
    <3>3. Tail(thread.calls) # <<>> /\ \A i \in DOMAIN Tail(thread.calls) : Tail(thread.calls)[i] = "run"
      <4>1. thread.calls \in Seq(EntryPoints) /\ Len(thread.calls) > 1
        <5>1. thread.calls \in Seq(EntryPoints)
          BY <3>1 DEF Threads
        <5>2. Len(thread.calls) # 0
          BY <5>1, <1>2
        <5>3. Len(thread.calls) \in Nat
          BY <5>1
        <5>4. \A n \in Nat : n # 0 /\ n # 1 => n > 1
          OBVIOUS
        <5>5. Len(thread.calls) > 1
          BY <5>2, <5>3, <5>4, <2>4
        <5>6. QED
          BY <5>1, <5>5
      <4>2. Len(Tail(thread.calls)) > 0 /\ DOMAIN Tail(thread.calls) = 1..Len(thread.calls) - 1
        BY <4>1
      <4>3. \A i \in 1..Len(thread.calls) - 1 : Tail(thread.calls)[i] = thread.calls[i + 1]
        BY <4>1
      <4>4. QED
        BY <3>2, <4>1, <4>2, <4>3
    <3>4. Playing'
      BY <1>3, <1>6, <2>2, <3>1, <3>2, <3>3 DEF Playing, OfTheSlot, Threads
    <3>5. QED
      BY <1>1, <1>3, <1>4, <1>6, <2>1, <3>1, <3>4, SlotStep DEF ThreadInv, Playing, Threads
  <2>5. QED
    BY <1>3, <2>3, <2>4 DEF Proceed
<1>7. QED
  BY <1>1, <1>2, <1>5, <1>6, NextCall DEF QueryCalls, Setters
-----------------------------------------------------------------------------
(* The invariant. *)

LEMMA StutterIInv == ASSUME IInv, UNCHANGED callVars PROVE IInv'
<1> USE DEF callVars, hostVars, IInv
<1>1. TypeOK' /\ OneInside' /\ OthersIdle' /\ SlotInv' /\ OwnerInv'
  BY DEF TypeOK, OneInside, OthersIdle, SlotInv, OwnerInv, FormatOf, IsActive
<1>2. ThreadInv'
  BY DEF ThreadInv, Describing, Opening, Initing, Loading, Playing, Shutting, OfTheSlot, InitRest,
     NoMethod
<1>3. QED
  BY <1>1, <1>2

(* IInv is an invariant of the calls. *)
THEOREM Inductive == CallsSpec => []IInv
<1>1. ASSUME IInv, [CallsNext]_callVars PROVE IInv'
  <2> USE <1>1
  <2>1. ASSUME Returns PROVE IInv'
    BY <2>1, VersionIsWrongIInv, VersionIsRightIInv, SystemInfoIInv, GameRejectedIInv, GameLoadsIInv,
       LoadCompletesIInv, GameUnloadsIInv, SizeIsKnownIInv, DeinitsIInv, GoesOnIInv DEF Returns
  <2>2. ASSUME NEW s \in Sessions,
               (\E c \in Cores : Make(s, c)) \/ LoadGame(s) \/ Run(s) \/ Query(s) \/ EndGame(s)
        PROVE  IInv'
    BY <2>2, MakeIInv, LoadGameIInv, RunIInv, QueryIInv, EndGameIInv
  <2>3. ASSUME NEW c \in Cores, Describe(c) \/ Ask(c) PROVE IInv'
    BY <2>3, DescribeIInv, AskIInv
  <2>4. QED
    BY <1>1, <2>1, <2>2, <2>3, EnterIInv, StutterIInv DEF CallsNext
<1>2. QED
  BY <1>1, CallsInitIInv, PTL DEF CallsSpec

(* Every variable has its type. *)
THEOREM TypeCorrect == CallsSpec => []TypeOK
BY Inductive, PTL DEF IInv

(* A core with callbacks is only run while the slot holds its own session. *)
THEOREM AnsweredByOwnAlways == CallsSpec => []AnsweredByOwn
<1>1. IInv => AnsweredByOwn
  BY AskingCore DEF AnsweredByOwn
<1>2. QED
  BY <1>1, Inductive, PTL

(* A game that asked for hardware rendering never runs. *)
THEOREM NoHardwareGameAlways == CallsSpec => []NoHardwareGame
<1>1. ASSUME IInv PROVE NoHardwareGame
  <2> SUFFICES ASSUME NEW s \in Sessions, thread.of = s, thread.method \in {"run", "query"}
               PROVE  ~handler[s].hardware
    BY DEF NoHardwareGame
  <2>1. Playing
    BY <1>1, NoneAssumption DEF IInv, ThreadInv, NoMethod, Describing, Opening, Initing, Loading,
       Shutting
  <2>2. QED
    BY <1>1, <2>1 DEF Playing, IInv, OwnerInv
<1>2. QED
  BY <1>1, Inductive, PTL

(* Frames are read in the format their core draws them in. *)
THEOREM SamePixelsAlways == CallsSpec => []SamePixels
<1>1. ASSUME IInv PROVE SamePixels
  <2> SUFFICES ASSUME NEW c \in Cores, inside[c] = "run"
               PROVE  believes[c] = FormatOf(core.current)
    BY DEF SamePixels, FormatOf
  <2>1. c = thread.core /\ thread.calls # <<>> /\ Head(thread.calls) = "run"
    BY <1>1 DEF IInv, OneInside, Outside
  <2>2. Playing
    BY <1>1, <2>1, NextCall DEF QueryCalls, Setters
  <2>3. QED
    BY <1>1, <2>1, <2>2, NoneAssumption DEF Playing, OfTheSlot, IInv, SlotInv
<1>2. QED
  BY <1>1, Inductive, PTL
-----------------------------------------------------------------------------
(* The contract. *)

LEMMA CallAllowed ==
  ASSUME IInv, thread.calls # <<>>
  PROVE  Allowed(given[thread.core], stage[thread.core], Head(thread.calls))
<1> DEFINE e == Head(thread.calls)
<1> USE DEF Allowed, OfTheGame
<1>1. CASE e \in Setters \union {"api_version", "get_system_info"}
  BY <1>1
<1>2. CASE e = "init"
  <2>1. Initing
    BY <1>2, NextCall DEF QueryCalls
  <2>2. stage[thread.core] = "idle" /\ given[thread.core] = Setters
    BY <1>2, <2>1 DEF Initing, InitRest, InitCalls
  <2>3. QED
    BY <1>2, <2>2 DEF Setters
<1>3. CASE e = "load_game"
  <2>1. Loading
    BY <1>3, NextCall DEF QueryCalls, Setters
  <2>2. QED
    BY <1>3, <2>1 DEF Loading
<1>4. CASE e = "get_system_av_info"
  <2>1. Loading
    BY <1>4, NextCall DEF QueryCalls, Setters
  <2>2. QED
    BY <1>4, <2>1 DEF Loading
<1>5. CASE e = "unload_game"
  <2>1. Loading \/ Shutting
    BY <1>5, NextCall DEF QueryCalls, Setters
  <2>2. QED
    BY <1>5, <2>1 DEF Loading, Shutting
<1>6. CASE e \in QueryCalls
  <2>1. Playing
    BY <1>6, NextCall DEF QueryCalls, Setters
  <2>2. QED
    BY <1>6, <2>1 DEF Playing, QueryCalls
<1>7. CASE e = "run"
  <2>1. Playing
    BY <1>7, NextCall DEF QueryCalls, Setters
  <2>2. QED
    BY <1>7, <2>1 DEF Playing
<1>8. CASE e = "deinit"
  <2>1. Shutting
    BY <1>8, NextCall DEF QueryCalls, Setters
  <2>2. QED
    BY <1>8, <2>1 DEF Shutting
<1>9. QED
  BY <1>1, <1>2, <1>3, <1>4, <1>5, <1>6, <1>7, <1>8, CallTyped DEF EntryPoints, QueryCalls

LEMMA LeavingReturns ==
  ASSUME IInv, NEW e, NEW ok \in BOOLEAN, Leaves(e, ok)
  PROVE  Next
<1>1. thread.core \in Cores /\ e \in EntryPoints /\ inside[thread.core] = e
  BY Leaving DEF Leaves
<1>2. e # Outside
  BY <1>1 DEF EntryPoints, Setters, Outside
<1>3. Return(thread.core)
  BY <1>1, <1>2 DEF Leaves, Return
<1>4. QED
  BY <1>1, <1>3 DEF Next

LEMMA StepsHonour == ASSUME IInv, [CallsNext]_callVars PROVE [Next]_vars
<1>1. ASSUME Enter PROVE Next
  <2>1. thread.calls # <<>> /\ thread.core \in Cores /\ Head(thread.calls) \in EntryPoints
    BY <1>1, CallTyped DEF Enter
  <2>2. Call(thread.core, Head(thread.calls))
    BY <1>1, <2>1, CallAllowed DEF Enter, Call
  <2>3. QED
    BY <2>1, <2>2 DEF Next
<1>2. ASSUME Returns PROVE Next
  BY <1>2, LeavingReturns DEF Returns, VersionIsWrong, VersionIsRight, SystemInfo, GameRejected,
     GameLoads, LoadCompletes, GameUnloads, SizeIsKnown, Deinits, GoesOn
<1>3. ASSUME NEW s \in Sessions,
             (\E c \in Cores : Make(s, c)) \/ LoadGame(s) \/ Run(s) \/ Query(s) \/ EndGame(s)
      PROVE  UNCHANGED vars
  BY <1>3 DEF Make, LoadGame, Run, Query, EndGame, vars
<1>4. ASSUME NEW c \in Cores, Describe(c) \/ Ask(c) PROVE UNCHANGED vars
  BY <1>4 DEF Describe, Ask, vars
<1>5. ASSUME UNCHANGED callVars PROVE UNCHANGED vars
  BY <1>5 DEF callVars, vars
<1>6. QED
  BY <1>1, <1>2, <1>3, <1>4, <1>5 DEF CallsNext

(* Whatever a core returns and asks for, it is only called as libretro.h   *)
(* allows.                                                                 *)
THEOREM ContractHonoured == CallsSpec => HonoursContract
<1>1. CallsInit => Init
  BY DEF CallsInit
<1>2. IInv /\ [CallsNext]_callVars => [Next]_vars
  BY StepsHonour
<1>3. QED
  BY <1>1, <1>2, Inductive, PTL DEF CallsSpec, HonoursContract, Spec
=============================================================================
