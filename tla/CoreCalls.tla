------------------------------ MODULE CoreCalls ------------------------------
(***************************************************************************)
(* The calls between the program and its cores, one by one: CoreSession    *)
(* and CoreLibrary calling entry points, and the cores asking for things   *)
(* from within them, which EnvironmentHandler answers.  CoreDisplayLoop    *)
(* and CoreHost take a whole method of CoreSession as one step; here the   *)
(* same methods are sequences of calls, over cores that may ask for        *)
(* anything libretro.h lets them ask for.                                  *)
(*                                                                         *)
(* One thread makes all calls.  A session is made and loaded by its owner  *)
(* (setUpOnCoreThread in the app, openSession in the helper), which lets   *)
(* go of it when the load throws and shuts it down when the game ends.     *)
(***************************************************************************)
EXTENDS CoreSession, Libretro, Naturals, SequencesExt

CONSTANTS
  JitCapable, \* the process is the helper
  MaxFrames,  \* bound: frames run by one call of run(frames:)
  MaxUnknown  \* bound: unknown commands counted

ASSUME CallBounds == JitCapable \in BOOLEAN /\ MaxFrames \in Nat \ {0} /\ MaxUnknown \in Nat

VARIABLES
  core,      \* CoreSession's static slot and the phase of each session
  coreOf,    \* session -> its core, once its library is open
  owner,     \* session -> what its owner is doing with it
  handler,   \* session -> its EnvironmentHandler
  thread,    \* the method that is running, and the calls it still has to make
  believes   \* core -> the pixel format it draws in

hostVars == <<core, coreOf, owner, handler, thread>>
callVars == <<hostVars, given, stage, inside, believes>>

(* retro_pixel_format, and the three of them LibretroPixelFormat takes. *)
RetroPixelFormats ==
  {"0RGB1555", "XRGB8888", "RGB565", "XRGB2101010", "HDR10_2101010", "unknown"}
PixelFormats == {"0RGB1555", "XRGB8888", "RGB565"}
DefaultFormat == "0RGB1555"

ASSUME NoneIsNothing == None \notin Cores \union PixelFormats

Handlers ==
  [format : PixelFormats \union {None}, hardware : BOOLEAN, unknown : 0..MaxUnknown]
NewHandler == [format |-> None, hardware |-> FALSE, unknown |-> 0]

Methods == {"none", "open", "describe", "init", "load", "run", "query", "shutdown"}
Threads == [of : Sessions \union {None}, core : Cores \union {None},
            method : Methods, calls : Seq(EntryPoints)]
NoMethod == [of |-> None, core |-> None, method |-> "none", calls |-> <<>>]
Method(s, name, calls) == [of |-> s, core |-> coreOf[s], method |-> name, calls |-> calls]

Owners == {"none", "making", "holds", "done"}

CallsInit ==
  /\ Init /\ core = NoCore
  /\ coreOf = [s \in Sessions |-> None] /\ owner = [s \in Sessions |-> "none"]
  /\ handler = [s \in Sessions |-> NewHandler]
  /\ thread = NoMethod
  /\ believes = [c \in Cores |-> DefaultFormat]
-----------------------------------------------------------------------------
(* The methods: which calls they begin with. *)

Idle == thread = NoMethod

(* CoreCatalog and probeCore read what a core says of itself. *)
Describe(c) ==
  /\ Idle
  /\ thread' = [of |-> None, core |-> c, method |-> "describe",
                calls |-> <<"api_version", "get_system_info">>]
  /\ UNCHANGED <<core, coreOf, owner, handler, given, stage, inside, believes>>

(* CoreSession.init, to the first call of the library it opens: it gives   *)
(* up if a session is active, or if the library is not trusted, no image,  *)
(* not to be opened, or without one of the entry points.                   *)
Make(s, c) ==
  /\ Idle /\ owner[s] = "none"
  /\ \/ /\ owner' = [owner EXCEPT ![s] = "done"]
        /\ UNCHANGED <<coreOf, thread>>
     \/ /\ SlotIsFree(core)
        /\ owner' = [owner EXCEPT ![s] = "making"]
        /\ coreOf' = [coreOf EXCEPT ![s] = c]
        /\ thread' = [of |-> s, core |-> c, method |-> "open", calls |-> <<"api_version">>]
  /\ UNCHANGED <<core, handler, given, stage, inside, believes>>

InitCalls ==
  <<"set_environment", "set_video_refresh", "set_audio_sample",
    "set_audio_sample_batch", "set_input_poll", "set_input_state", "init">>

(* loadGame, with content or without. *)
LoadGame(s) ==
  /\ Idle /\ owner[s] = "making"
  /\ \E calls \in {<<"get_system_info", "load_game">>, <<"load_game">>} :
       thread' = Method(s, "load", calls)
  /\ UNCHANGED <<core, coreOf, owner, handler, given, stage, inside, believes>>

(* run(frames:). *)
Run(s) ==
  /\ Idle /\ owner[s] = "holds"
  /\ \E n \in 1..MaxFrames : thread' = Method(s, "run", [i \in 1..n |-> "run"])
  /\ UNCHANGED <<core, coreOf, owner, handler, given, stage, inside, believes>>

(* saveRAMSnapshot and restoreSaveRAM, serialize, unserialize. *)
Query(s) ==
  /\ Idle /\ owner[s] = "holds"
  /\ \E calls \in {<<"get_memory_size", "get_memory_data">>,
                   <<"serialize_size", "serialize">>, <<"unserialize">>} :
       thread' = Method(s, "query", calls)
  /\ UNCHANGED <<core, coreOf, owner, handler, given, stage, inside, believes>>

Shutdown(s) == Method(s, "shutdown", <<"unload_game", "deinit">>)

(* shutdown: a session that is not active any more has nothing to do. *)
EndGame(s) ==
  /\ Idle /\ owner[s] = "holds" /\ IsActive(core, s)
  /\ thread' = Shutdown(s)
  /\ UNCHANGED <<core, coreOf, owner, handler, given, stage, inside, believes>>
-----------------------------------------------------------------------------
(* What a core asks for. *)

Granted ==
  {GET_CAN_DUPE, SET_PERFORMANCE_LEVEL, GET_SYSTEM_DIRECTORY, GET_SAVE_DIRECTORY,
   GET_CORE_OPTIONS_VERSION, SET_VARIABLES, SET_CORE_OPTIONS, SET_CORE_OPTIONS_INTL,
   GET_VARIABLE, GET_VARIABLE_UPDATE}

(* These are answered with false, the options of the first two being       *)
(* registered all the same: the answer says that there are no categories.  *)
KnownButRefused ==
  {SET_CORE_OPTIONS_V2, SET_CORE_OPTIONS_V2_INTL, SET_HW_RENDER, GET_LOG_INTERFACE}

Known == Granted \union KnownButRefused \union {SET_PIXEL_FORMAT, GET_JIT_CAPABLE}

(* What a command may come with; only a pixel format is looked at.         *)
DataOf(cmd) ==
  (IF cmd = SET_PIXEL_FORMAT THEN RetroPixelFormats ELSE {"some"})
    \union (IF MayBeNull(cmd) THEN {None} ELSE {})

Answer(cmd, data) ==
  \/ cmd \in Granted
  \/ cmd = SET_PIXEL_FORMAT /\ data \in PixelFormats
  \/ cmd = GET_JIT_CAPABLE /\ JitCapable

\* Mutant: a format the frontend refuses is stored all the same.
HandledStoresFirst(h, cmd, data) ==
  CASE cmd = SET_PIXEL_FORMAT -> [h EXCEPT !.format = IF data \in PixelFormats THEN data ELSE None]
    [] cmd = SET_HW_RENDER    -> [h EXCEPT !.hardware = TRUE]
    [] cmd \notin Known       -> [h EXCEPT !.unknown = @ + 1]
    [] OTHER                  -> h

(* handle, but for the options, which are the module CoreOptions. *)
Handled(h, cmd, data) ==
  CASE cmd = SET_PIXEL_FORMAT /\ data \in PixelFormats -> [h EXCEPT !.format = data]
    [] cmd = SET_HW_RENDER -> [h EXCEPT !.hardware = TRUE]
    [] cmd \notin Known    -> [h EXCEPT !.unknown = @ + 1]
    [] OTHER               -> h

(* A core that is running a command asks for something: the callback finds *)
(* the session through the static slot, and without one the answer is no.  *)
Ask(c) ==
  /\ inside[c] # Outside
  /\ \E cmd \in Commands :
       /\ MayAsk(given[c], inside[c], cmd)
       /\ \E data \in DataOf(cmd) :
            IF core.current = None THEN UNCHANGED <<handler, believes>>
            ELSE LET h == handler[core.current] IN
                 /\ cmd \in Known \/ h.unknown < MaxUnknown
                 /\ handler' = [handler EXCEPT ![core.current] = Handled(h, cmd, data)]
                 /\ believes' = IF cmd = SET_PIXEL_FORMAT /\ Answer(cmd, data)
                                THEN [believes EXCEPT ![c] = data] ELSE believes
  /\ UNCHANGED <<core, coreOf, owner, thread, given, stage, inside>>
-----------------------------------------------------------------------------
(* The calls, and what the method does when one returns. *)

Enter ==
  /\ thread.calls # <<>> /\ inside[thread.core] = Outside
  /\ inside' = [inside EXCEPT ![thread.core] = Head(thread.calls)]
  /\ UNCHANGED <<hostVars, given, stage, believes>>

(* The call in progress of entry point e returns; ok is what load_game     *)
(* returns.                                                                *)
Leaves(e, ok) ==
  LET c == thread.core IN
  /\ thread.calls # <<>> /\ inside[c] = e /\ Head(thread.calls) = e
  /\ inside' = [inside EXCEPT ![c] = Outside]
  /\ given' = [given EXCEPT ![c] = GivenAfter(@, e)]
  /\ stage' = [stage EXCEPT ![c] = StageAfter(@, e, ok)]
  /\ believes' = IF e = "deinit" THEN [believes EXCEPT ![c] = DefaultFormat] ELSE believes

Continue(calls) == thread' = [thread EXCEPT !.calls = calls]

(* The method goes on to its next call, or ends. *)
Proceed ==
  IF Len(thread.calls) = 1 THEN thread' = NoMethod ELSE Continue(Tail(thread.calls))

(* The library has another version: it is closed, and init throws. *)
VersionIsWrong ==
  /\ Leaves("api_version", TRUE)
  /\ owner' = IF thread.method = "open" THEN [owner EXCEPT ![thread.of] = "done"] ELSE owner
  /\ thread' = NoMethod
  /\ UNCHANGED <<core, coreOf, handler>>

\* Mutant: the session takes the slot only when retro_init has returned.
ConstructedLate(s) == core

(* The slot is taken before the first callback is handed over. *)
TakesSlot(s) == Constructed(core, s)

VersionIsRight ==
  /\ Leaves("api_version", TRUE)
  /\ IF thread.method = "open"
     THEN core' = TakesSlot(thread.of) /\ thread' = Method(thread.of, "init", InitCalls)
     ELSE core' = core /\ Proceed
  /\ UNCHANGED <<coreOf, owner, handler>>

\* Mutant: the slot is given back, in the hope of making a load that failed harmless.
LoadThrowsFreesSlot(after) ==
  /\ core' = [after EXCEPT !.current = None]
  /\ owner' = [owner EXCEPT ![thread.of] = "done"]
  /\ thread' = IF IsActive(after, thread.of) THEN Shutdown(thread.of) ELSE NoMethod

(* loadGame throws and the owner lets go.  If the session were not in the  *)
(* slot as well it would be deinited now, and shut down by that.           *)
LoadThrows(after) ==
  /\ core' = after
  /\ owner' = [owner EXCEPT ![thread.of] = "done"]
  /\ thread' = IF after.current # thread.of /\ IsActive(after, thread.of)
               THEN Shutdown(thread.of) ELSE NoMethod

(* The content is read when the core wants bytes: it may be unreadable. *)
SystemInfo ==
  /\ Leaves("get_system_info", TRUE)
  /\ \/ Proceed /\ UNCHANGED <<core, owner>>
     \/ thread.method = "load" /\ LoadThrows(AfterLoad(core, thread.of, "rejected"))
  /\ UNCHANGED <<coreOf, handler>>

GameRejected ==
  /\ Leaves("load_game", FALSE)
  /\ LoadThrows(AfterLoad(core, thread.of, "rejected"))
  /\ UNCHANGED <<coreOf, handler>>

\* Mutant: nobody looks whether hardware rendering was asked for.
AfterLoadGameBlind(s) == <<"get_system_av_info">>

(* A game that asked for hardware rendering is unloaded again. *)
AfterLoadGame(s) ==
  IF handler[s].hardware THEN <<"unload_game">> ELSE <<"get_system_av_info">>

GameLoads ==
  /\ Leaves("load_game", TRUE)
  /\ Continue(AfterLoadGame(thread.of))
  /\ UNCHANGED <<core, coreOf, owner, handler>>

LoadCompletes ==
  /\ Leaves("get_system_av_info", TRUE)
  /\ core' = AfterLoad(core, thread.of, "loaded")
  /\ owner' = [owner EXCEPT ![thread.of] = "holds"]
  /\ thread' = NoMethod
  /\ UNCHANGED <<coreOf, handler>>

GameUnloads ==
  /\ Leaves("unload_game", TRUE)
  /\ IF thread.method = "load"
     THEN LoadThrows(AfterLoad(core, thread.of, "hardware"))
     ELSE Proceed /\ UNCHANGED <<core, owner>>
  /\ UNCHANGED <<coreOf, handler>>

(* A core without save RAM, or without save states, reports size zero. *)
SizeIsKnown ==
  /\ \E e \in {"get_memory_size", "serialize_size"} : Leaves(e, TRUE)
  /\ Proceed \/ thread' = NoMethod
  /\ UNCHANGED <<core, coreOf, owner, handler>>

(* The end of shutdown, and of the owner's interest. *)
Deinits ==
  /\ Leaves("deinit", TRUE)
  /\ core' = ShutDown(core, thread.of)
  /\ owner' = [owner EXCEPT ![thread.of] = "done"]
  /\ thread' = NoMethod
  /\ UNCHANGED <<coreOf, handler>>

(* The other entry points end without a decision. *)
GoesOn ==
  /\ \E e \in Setters \union {"init", "run", "get_memory_data", "serialize", "unserialize"} :
       Leaves(e, TRUE)
  /\ Proceed
  /\ UNCHANGED <<core, coreOf, owner, handler>>

Returns ==
  \/ VersionIsWrong \/ VersionIsRight \/ SystemInfo \/ GameRejected \/ GameLoads
  \/ LoadCompletes \/ GameUnloads \/ SizeIsKnown \/ Deinits \/ GoesOn

CallsNext ==
  \/ \E s \in Sessions : (\E c \in Cores : Make(s, c)) \/ LoadGame(s) \/ Run(s) \/ Query(s) \/ EndGame(s)
  \/ \E c \in Cores : Describe(c) \/ Ask(c)
  \/ Enter \/ Returns

CallsSpec == CallsInit /\ [][CallsNext]_callVars
-----------------------------------------------------------------------------
(* Every variable has its type. *)
TypeOK ==
  /\ core \in CoreStates /\ coreOf \in [Sessions -> Cores \union {None}]
  /\ owner \in [Sessions -> Owners] /\ handler \in [Sessions -> Handlers]
  /\ thread \in Threads
  /\ given \in [Cores -> SUBSET Setters] /\ stage \in [Cores -> Stages]
  /\ inside \in [Cores -> EntryPoints \union {Outside}]
  /\ believes \in [Cores -> PixelFormats]

(* The program keeps the contract of libretro.h whatever a core returns    *)
(* and asks for: callbacks before retro_init, no call of the game without  *)
(* a game, nothing unloaded twice, no unload or deinit of an idle core.    *)
HonoursContract == Spec

(* A core that has its callbacks is only run while the slot they go to     *)
(* holds a session of that very core: no question goes unanswered, or is   *)
(* answered from the options and directories of another game.              *)
AnsweredByOwn ==
  \A c \in Cores :
    inside[c] # Outside /\ (given[c] # {} \/ inside[c] = "set_environment") =>
      core.current # None /\ coreOf[core.current] = c

(* ADR 0001: a game that asked for hardware rendering never runs. *)
NoHardwareGame ==
  \A s \in Sessions : thread.of = s /\ thread.method \in {"run", "query"} => ~handler[s].hardware

(* Frames are read in the format the core drew them in, over refused       *)
(* formats, games one after another in the same core, and other cores      *)
(* being described in between.                                             *)
SamePixels ==
  \A c \in Cores : inside[c] = "run" =>
    believes[c] = LET f == handler[core.current].format IN IF f = None THEN DefaultFormat ELSE f
=============================================================================
