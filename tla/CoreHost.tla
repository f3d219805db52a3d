------------------------------ MODULE CoreHost ------------------------------
(***************************************************************************)
(* The isolation helper: CoreHost/CoreHostXPC.swift and the entry point    *)
(* CoreHostXPC/main.swift.  One CoreHostService object serves every        *)
(* connection; each call is a block on its serial coreQueue, which runs    *)
(* the blocks one at a time, in the order they were enqueued.              *)
(*                                                                         *)
(* NSXPCConnection is external: it delivers the calls of one connection in *)
(* the order they were made, and tells the server end of its invalidation  *)
(* after them; between connections there is no order.  A crash of the      *)
(* helper loses every call and every reply it had not sent, and launchd    *)
(* starts a fresh helper for the next call.                                *)
(***************************************************************************)
EXTENDS CoreSession, Naturals, Sequences

CONSTANTS
  Conns,      \* the client connections; Sessions, those that open a session
  Sizes,      \* frame geometries a core may draw
  MaxCrashes  \* bound: crashes of the helper in one behaviour

ASSUME ConnsAssumption == Sessions \subseteq Conns /\ None \notin Conns \union Sizes
ASSUME MaxCrashesAssumption == MaxCrashes \in Nat

VARIABLES
  wire,           \* connection -> calls made and not yet delivered
  coreQueue,      \* the blocks waiting on the serial queue
  replies,        \* connection -> what the client has yet to handle: replies
                  \* and, between them, the interruption by a crash
  peer,           \* connections whose server end exists
  core,           \* CoreSession's static slot and the phase of each session
  session,        \* CoreHostService.session
  frameSurface,   \* whose surface is attached
  contentHandles, \* whose descriptors are held open
  environment,    \* whose environment handler option queries are answered from
  drawn,          \* session -> geometry of the pixels in its surface
  crashes         \* how often the helper has crashed

hostVars == <<core, session, frameSurface, contentHandles, environment>>
serviceVars == <<wire, coreQueue, replies, peer, core, session,
                 frameSurface, contentHandles, environment, drawn, crashes>>

(* A call is awaited until its caller times out or drops the connection.  *)
Call(op) == [op |-> op, awaited |-> TRUE]
Notice(op) == [op |-> op, awaited |-> FALSE]
Interruption == [op |-> "interrupted", ok |-> FALSE, by |-> None, size |-> None]

HostInit ==
  /\ wire = [c \in Conns |-> <<>>] /\ replies = [c \in Conns |-> <<>>]
  /\ coreQueue = <<>>
  /\ peer = {}
  /\ core = NoCore
  /\ session = None /\ frameSurface = None
  /\ contentHandles = None /\ environment = None
  /\ drawn = [c \in Sessions |-> None]
  /\ crashes = 0
-----------------------------------------------------------------------------
\* Mutant: an invalidation closes nothing.
DeliverNoCleanup(c) ==
  /\ wire[c] # <<>>
  /\ LET m == Head(wire[c]) IN
       IF m.op = "invalidate"
       THEN peer' = peer \ {c} /\ UNCHANGED coreQueue
       ELSE peer' = peer \union {c} /\ coreQueue' = Append(coreQueue, [from |-> c, call |-> m])
  /\ wire' = [wire EXCEPT ![c] = Tail(@)]
  /\ UNCHANGED <<replies, hostVars, drawn, crashes>>

(* A call, or the invalidation, of a connection reaches the server end:    *)
(* every handler does nothing but enqueue its block, and the invalidation  *)
(* handler calls closeSession.                                             *)
Deliver(c) ==
  /\ wire[c] # <<>>
  /\ LET m == Head(wire[c])
         gone == m.op = "invalidate"
     IN /\ peer' = IF gone THEN peer \ {c} ELSE peer \union {c}
        /\ coreQueue' =
             Append(coreQueue, [from |-> c, call |-> IF gone THEN Notice("close") ELSE m])
  /\ wire' = [wire EXCEPT ![c] = Tail(@)]
  /\ UNCHANGED <<replies, hostVars, drawn, crashes>>
-----------------------------------------------------------------------------
(* The next block is one for the call op of connection c. *)
NextBlock(c, op) ==
  /\ coreQueue # <<>>
  /\ Head(coreQueue).from = c /\ Head(coreQueue).call.op = op

(* The block ends with a reply: ok, and the session it was answered from.  *)
(* Nobody is left to handle the reply to a call that is not awaited.       *)
Reply(c, ok, size) ==
  LET call == Head(coreQueue).call IN
  /\ coreQueue' = Tail(coreQueue)
  /\ replies' =
       IF call.awaited /\ c \in peer
       THEN [replies EXCEPT ![c] =
               Append(@, [op |-> call.op, ok |-> ok, by |-> session, size |-> size])]
       ELSE replies
  /\ UNCHANGED <<wire, peer, crashes>>

(* openSession: the disc cannot be staged, the session cannot be           *)
(* constructed, the game cannot be loaded, or there is a session.          *)
OpenFailsStaging(c) ==
  /\ NextBlock(c, "open")
  /\ contentHandles' = c
  /\ Reply(c, FALSE, None)
  /\ UNCHANGED <<core, session, frameSurface, environment, drawn>>

OpenFailsConstructing(c) ==
  /\ NextBlock(c, "open")
  /\ contentHandles' = c /\ environment' = c
  /\ Reply(c, FALSE, None)
  /\ UNCHANGED <<core, session, frameSurface, drawn>>

\* Mutant: a session is constructed over the one in the slot.
OpenOverwrites(c) ==
  /\ NextBlock(c, "open")
  /\ contentHandles' = c /\ environment' = c
  /\ \E outcome \in LoadOutcomes :
       /\ core' = AfterLoad(Constructed(core, c), c, outcome)
       /\ session' = IF outcome = "loaded" THEN c ELSE session
       /\ Reply(c, outcome = "loaded", None)
  /\ UNCHANGED <<frameSurface, drawn>>

OpenConstructs(c) ==
  /\ NextBlock(c, "open")
  /\ SlotIsFree(core)
  /\ contentHandles' = c /\ environment' = c
  /\ \E outcome \in LoadOutcomes :
       /\ core' = AfterLoad(Constructed(core, c), c, outcome)
       /\ session' = IF outcome = "loaded" THEN c ELSE session
       /\ Reply(c, outcome = "loaded", None)
  /\ UNCHANGED <<frameSurface, drawn>>

OpenSession(c) ==
  OpenFailsStaging(c) \/ OpenFailsConstructing(c) \/ OpenConstructs(c)

AttachFrameSurface(c) ==
  /\ NextBlock(c, "attach")
  /\ frameSurface' = c
  /\ Reply(c, TRUE, None)
  /\ UNCHANGED <<core, session, contentHandles, environment, drawn>>

\* Mutant: the session that was shut down is kept.
CloseKeepsSession(c) ==
  /\ NextBlock(c, "close")
  /\ core' = IF session = None THEN core ELSE ShutDown(core, session)
  /\ frameSurface' = None /\ contentHandles' = None
  /\ Reply(c, TRUE, None)
  /\ UNCHANGED <<session, environment, drawn>>

(* closeSession, for whatever session there is. *)
CloseSession(c) ==
  /\ NextBlock(c, "close")
  /\ core' = IF session = None THEN core ELSE ShutDown(core, session)
  /\ session' = None /\ frameSurface' = None /\ contentHandles' = None
  /\ Reply(c, TRUE, None)
  /\ UNCHANGED <<environment, drawn>>

(* runFramesShared: without a session and a surface it does nothing; with  *)
(* them it runs the core and, when there is a frame that fits, copies it   *)
(* into the surface.                                                       *)
RunFramesShared(c) ==
  /\ NextBlock(c, "run")
  /\ \/ /\ Reply(c, FALSE, None)
        /\ UNCHANGED drawn
     \/ /\ session # None /\ frameSurface # None
        /\ \E size \in Sizes :
             /\ drawn' = [drawn EXCEPT ![frameSurface] = size]
             /\ Reply(c, TRUE, size)
  /\ UNCHANGED hostVars

(* optionsSnapshot answers whenever there is a session.  restoreSaveRAM,   *)
(* saveRAMSnapshot, serializeState and unserializeState ask the core, which *)
(* may have no save RAM or refuse.  probeCore opens a library of its own   *)
(* and touches neither the session nor the slot.                           *)
SessionQueries == {"restore", "saveRAM", "serialize", "unserialize"}

QuerySession(c) ==
  /\ \/ /\ NextBlock(c, "options")
        /\ Reply(c, session # None, None)
     \/ /\ \E op \in SessionQueries : NextBlock(c, op)
        /\ \E ok \in BOOLEAN : (ok => session # None) /\ Reply(c, ok, None)
     \/ /\ NextBlock(c, "probe")
        /\ \E ok \in BOOLEAN : Reply(c, ok, None)
  /\ UNCHANGED <<hostVars, drawn>>

Execute(c) ==
  \/ OpenSession(c) \/ AttachFrameSurface(c) \/ CloseSession(c)
  \/ RunFramesShared(c) \/ QuerySession(c)

(* The helper dies: its memory, its queue and the calls on their way are   *)
(* lost, and the connections that had used it have yet to hear of it.      *)
Crash ==
  /\ crashes < MaxCrashes
  /\ crashes' = crashes + 1
  /\ coreQueue' = <<>> /\ wire' = [c \in Conns |-> <<>>]
  /\ replies' = [c \in Conns |-> IF c \in peer \/ wire[c] # <<>>
                               THEN Append(replies[c], Interruption) ELSE replies[c]]
  /\ peer' = {}
  /\ core' = NoCore
  /\ session' = None /\ frameSurface' = None
  /\ contentHandles' = None /\ environment' = None
  /\ UNCHANGED drawn

HostNext == (\E c \in Conns : Deliver(c) \/ Execute(c)) \/ Crash

-----------------------------------------------------------------------------
CallRecord == [op : {"open", "attach", "options", "restore", "saveRAM", "serialize",
                     "unserialize", "run", "close", "probe", "invalidate"},
               awaited : BOOLEAN]
ReplyRecord == [op : {"open", "attach", "options", "restore", "saveRAM", "serialize",
                      "unserialize", "run", "close", "probe", "interrupted"},
                ok : BOOLEAN, by : Sessions \union {None},
                size : Sizes \union {None}]

HostTypeOK ==
  /\ wire \in [Conns -> Seq(CallRecord)]
  /\ coreQueue \in Seq([from : Conns, call : CallRecord])
  /\ replies \in [Conns -> Seq(ReplyRecord)]
  /\ peer \subseteq Conns
  /\ core \in CoreStates
  /\ session \in Sessions \union {None} /\ frameSurface \in Sessions \union {None}
  /\ contentHandles \in Sessions \union {None} /\ environment \in Sessions \union {None}
  /\ drawn \in [Sessions -> Sizes \union {None}]
  /\ crashes \in 0..MaxCrashes

(* No call reaches a core that is not loaded: the session the service      *)
(* holds is always the one libretro's callbacks find through the slot, and *)
(* its core is between retro_load_game and retro_unload_game.              *)
SessionIsLoaded ==
  session # None => core.current = session /\ core.phase[session] = "loaded"
=============================================================================
