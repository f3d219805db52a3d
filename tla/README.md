# CODENAME in TLA+

CODENAME is a libretro frontend for macOS, written in Swift. Cores, the
emulators, are dynamic libraries that keep their state in globals of the
process. Bundled cores run inside the app; those that need JIT and those a user
supplies run in an XPC helper, and the app draws what the helper leaves in a
shared surface. This directory holds models of the parts of the program in
which something can go wrong that a test would hardly reach, the TLC runs that
check them, and, for most of them, proofs for every size.

Paths below are relative to `src/Packages/CODENAMEKit/Sources/` unless they
start with `docs/`. `PROJECT.json` lists the components, the runs, the lines
each definition stands for, the findings and the hazards.

## The system

| component | state | operations | what is hard |
|---|---|---|---|
| audio ring (`Audio/SPSCRingBuffer.swift`) | storage, two atomic indices | write by the core thread, read by the render callback, occupancy | no locks; acquire/release only |
| core session (`CoreHost/CoreSession.swift`) | one static slot per process, phase of each session | construct, load, run, save, shut down | loads that fail halfway; one core at a time |
| calls of cores (`CoreHost/CoreSession.swift`, `CoreLibrary.swift`, `EnvironmentHandler.swift`; the contract is `CLibretro/include/libretro.h`) | per core: callbacks it has, stage; per session: pixel format, hardware request | the calls of each method of a session, and the commands a core sends from within them | the answers come from whichever session is in the static slot; cores keep state from one game to the next |
| helper service (`CoreHost/CoreHostXPC.swift`, `CoreHostXPC/main.swift`) | session, surface, descriptors, environment | open, attach, run, save and restore, probe, close, and close on the invalidation of any connection | several connections into one object; crashes |
| helper client (`CoreHost/HelperSession.swift`) | alive, inFlight, packed frame size | open, runFrame, blocking calls with a timeout, interruption | replies, interruption and callbacks on three threads |
| helper loop (`CODENAMEApp/HelperDisplayLoop.swift`) | loop thread, saveIdentity, reportedSessionLost | start, stop, callback, flush, save and load state | stop() blocks the main thread on a thread that waits for another process |
| in-process loop (`CODENAMEApp/CoreDisplayLoop.swift`) | core thread, lastFlushedSaveRAM, framesSinceFlush | the same, on a session of its own | failed writes, kills |
| app (`CODENAMEApp/App.swift`) | the one display loop and its window, the probe | start and stop a game, loss report, probe, play, open, rescan | a report about one game arriving during the next |
| options (`CoreHost/CoreOptions.swift`, `EnvironmentHandler.swift`) | declared options, selections, C strings, a file per core | declare, set, get, update flag, save, load | re-declaration; pointers the core keeps |
| library (`Library/Library.swift`, `LibraryScanner.swift`, `Content/CoreCatalog.swift`, `ContentRouter.swift`, `DiscSniffer.swift`) | entries and their ids, stored cores | scan, play, open, route | files that move between scans; ids are the keys of the saves |
| save migration (`Content/SaveMigration.swift`) | saves in the old and the new layout | run at every launch | interruption; saves made since |
| frame pacing (`Presentation/FramePacer.swift`) | credit of the frame clock | mode, framesDue | fractions that accumulate for hours |
| way of a frame (`CoreSession.captureVideo`, `Presentation/PixelConverter.swift`, `IntegerScaler.swift`, the copy in `CoreHostXPC.swift`) | none | capture, convert, copy, place | widths and pitches that the core reports become unchecked reads |

The main thread starts a loop, which starts a thread of its own; that thread
owns the session, or the connection to the helper, and feeds the ring; the
audio engine's render thread drains it. The helper runs every call of every
connection on one serial queue. The library gives each game an id, and the
loops file saves under it.

The rest (the trust checks of cores, disc hand-off, BIOS import, resampler,
Metal, input, titles, artwork, views, tools) is listed in `PROJECT.json` with
the reason it is not modelled: Metal, AVFoundation and Foundation calls,
arithmetic within one call, or user interface.

## The modules

| module | models | composed of | proofs |
|---|---|---|---|
| `SampleQueue` | what the ring promises: a bounded FIFO queue of samples | | |
| `SPSCRingBuffer` | the ring, one step per index load, sample copy and index store | implements `SampleQueue` | `SPSCRingBuffer_proofs` |
| `LibretroCommands` | the environment commands of libretro.h: number, where a core may send each, whether its data may be NULL | | |
| `Libretro` | the contract of libretro.h: which entry point of a core may be called when | extends `LibretroCommands` | |
| `CoreSession` | slot and phases, as operators on a record, so that a caller that makes several calls in one block is one step | | |
| `CoreCalls` | the methods of a session call by call, over cores that ask for anything the header allows | extends `CoreSession` and `Libretro`, implements `Libretro` | `CoreCalls_proofs` |
| `CoreHost` | the helper process and the connections into it | extends `CoreSession` | |
| `GameLifecycle` | what the app promises of its games: they take turns | | |
| `HelperGame` | client, loop thread and main thread of the app, with `CoreHost` | extends `CoreHost`, implements `GameLifecycle` | `HelperGame_proofs` |
| `CoreDisplayLoop` | a game in the app, its two threads and its files | extends `CoreSession`, implements `GameLifecycle` | `CoreDisplayLoop_proofs` |
| `CoreOptions` | options of one session after another, and their file | | `CoreOptions_proofs` |
| `GameLibrary` | library, scans, router and start paths over changing folders | | `GameLibrary_proofs` |
| `SaveMigration` | the migration over several launches | | `SaveMigration_proofs` |
| `FramePacer` | mode and frame clock | | `Presentation_proofs` |
| `FramePath` | capture, conversion, copy and placement of one frame: operators, no state | | `Presentation_proofs` |

`MC<module>` gives the constants of a run (`MCPresentation` those of
`FramePacer`, with `FramePath` evaluated beside it); mutants, definitions whose
comment begins so, are wrong variants of the definition below them and are used
by no specification. They show that each property can fail: with the mutant in
place of the definition, TLC finds the property violated.

### How state and actions correspond to the code

*SPSCRingBuffer.* `head` and `tail` are the atomics; `heads` and `tails` are
the values a load by the other side may still return, which is how acquire
loads that are not sequentially consistent appear. `producer` and `consumer`
are the calls in progress: `WriteBegin` loads the indices and computes the
space, `WriteSample` copies one sample, `WritePublish` stores `head`, and the
same for read. A sample is its place in the stream, so a lost, repeated or
reordered one shows.

*CoreHost.* `wire[c]` are the calls of a connection that the helper has not
received, `coreQueue` the blocks on the serial queue, `replies[c]` what the
client has not handled; an interruption is an entry of `replies[c]`, since
`NSXPCConnection` handles both on the connection's queue. One block is one
step: the queue is serial and nothing else touches its state. A crash empties
the queues and the process's memory. NSXPC and launchd are external and are
modelled by how the code uses them.

*HelperGame.* `pc[c]` says where the loop thread of a game is: in a blocking
call, in its run loop (`armed`), past the `isAlive` check of `runFrame`
(`sending`), or gone. A thread whose load fails has nothing in its run loop and
ends (`stranded`) unless `stop()` had already handed it the teardown
(`failed`). The reply of a batch is two steps, the size and the guard. A
blocking call ends with its reply or with the timeout, after which the call may
still be executed and its reply goes nowhere. `main` is the main thread, which
waits in `stop()` while it is `stopping`; `mainQueue` are the loss reports
dispatched to it.

*CoreDisplayLoop.* One step per selector or callback of the core thread, which
performs them one at a time. Save RAM is the game it belongs to and a serial
number of the last change. Writes are atomic in the code (`.atomic`) and may
fail; a kill may come anywhere. `FlushEvery` is 600 in the code.

*LibretroCommands, Libretro.* Each command of the header is a record of what
its comment fixes. `given` are the setters that have handed a core its
callback, `stage` says how far it is between `retro_init` and `retro_deinit`,
`inside` which entry point it is in. `Call` and `Return` are all a frontend may
do. Where the header only speaks of "the game" (serialization, memory),
`OfTheGame` asks for a loaded one.

*CoreCalls.* `thread` is the method in progress with the entry points it has
still to call; `Make`, `LoadGame`, `Run`, `Query`, `EndGame` and `Describe`
start one, `Enter` makes the next call, and one action for each kind of return
decides how the method goes on: `VersionIsWrong`, `GameRejected`,
`GameUnloads`, `LoadCompletes` and so on, with the outcomes of
`CoreSession!AfterLoad`. `Ask` is a core sending a command from within an entry
point, answered by the session in the static slot; `Handled` is
`EnvironmentHandler.handle` but for the options. `owner` is what holds the
session (`CoreDisplayLoop` or `CoreHostService`), `believes` the
pixel format a core draws in: the last one it was granted, or the default.

*GameLifecycle.* The window shown, the loops that run, those that have ended;
one step to launch, to end, to close, and one for the death of the process.

*CoreOptions.* One step per environment call of the core and per operation of
the host; all run on the thread of the session. What a core declares starts
from the arrays of the header: a title and a list for `SET_VARIABLES`
(`FromVariable`), arrays of values ended by NULL with a default that may be
none of them for the definitions of versions 1 and 2 (`FromDefinition`),
data that may be missing (`OptionsOrNone`). A C string is a place in `heap`,
`handed` are those the core has.

*GameLibrary.* One step per scan, play and open on the main thread; between
them files come, go and move, and one that is replaced, as by an edit, is removed
and added. A source has any files at the first launch. A scan takes the files
that a core claims (`Claimed`), without the tracks that the cue sheets among
them name (`Referenced`); the rest is the `Listing`, whose paths are `Games`.
What a cue sheet names is its content's (`NamedBy`): none if it is too large or
cannot be read. An id is a serial number. Two histories: `madeFor` is the
content an id was made for, `seen` what the last scan of a source listed. A path
is abstract, with a folder, a name and an extension; a content comes with an
extension (`KindOf`).

*SaveMigration.* One step per file copied. `Quit` is also a kill.

*FramePacer.* One step per vblank. The rates are integers in a common unit, the
credit counts `1/den` of a frame. A rate may be beyond what the cap on catching
up lets run. `framesBy` is a history, the frames that had run by each vblank.

*FramePath.* No state: `Captured` is what `captureVideo` makes of a call of
`retro_video_refresh`, `ToBGRA8` the conversion byte by byte, `CopiedRows` the
shared surface after the copy, `DestinationRect` the placement. A buffer is a
function from offsets to bytes, so that an offset outside it is a value nothing
is known of.

## The runs

All but `helper_liveness` check safety alone, `Init /\ [][Next]_vars`. Deadlock
is not checked but in `ring`: each of the other models stops when its bounds
are used up, and the program may stop too, the user being free to do nothing.

| run | bounds | checks |
|---|---|---|
| `ring` | 4 slots, batches of 2 and 6, requests of 2 and 4, 30 samples | `RaceFree`, `ReadsInOrder`, `OccupancyInRange`, `StereoAligned`, `IInv`, refinement `RingIsAQueue` |
| `core_calls` | 2 sessions, 2 cores, up to 2 frames a run, one unknown command counted, in the helper | `AnsweredByOwn`, `NoHardwareGame`, `SamePixels`, refinement `HonoursContract` |
| `helper_game` | a game, a probe, one crash, two frame sizes | `TypeOK`, `OneBatch`, `QuiescentGeometry` |
| `helper_two_games` | two games, no crash | `SessionIsLoaded`, `NoForeignSave`, refinement `GamesTakeTurns` |
| `helper_liveness` | one game, one crash, fairness | `LossIsReported`, `StopReturns`, `OrphanClosed` |
| `helper_probe` | a game, a probe | `ClosedByItsOwn`, violated |
| `in_process` | two games, two entries, 3 changes of save RAM, a failed write, a kill, a flush every 2 callbacks | `OneActiveCore`, `CacheIsFile`, `BoundedLoss`, `StopKeepsProgress`, refinement `GamesTakeTurns` |
| `in_process_restart` | the same | `Restartable`, violated |
| `options` | 2 keys, 2 values, arrays of 2, 3 strings in a session, two sessions with edits of the file before each | `TypeOK`, `NothingStale`, `NoDangling`, `FreedOnce`, `ChoiceAnnounced`, `RetiredForAReason`, `RestIsKept` |
| `library` | a source of three folders that may each hold a disc image of one name, two of them a cue sheet naming it; 2 images, a sheet, 2 cores, 2 changes, 2 events | `IdsUnique`, `SavesFollow`, `KeepsIdentity`, `OneEntryPerPlay` |
| `migration` | 3 entries of which two share an old key, 2 files each, 2 launches, 2 later saves | `CarriedOver`, `NewerKept` |
| `pacing` | 9 core rates, two of them beyond the cap, 10 displays, 60 vblanks | `TypeOK`, `SpeedIsRight`, `EvenPacing`; as assumptions, `FramePath` on frames of up to 2 by 2 in six pitches and three formats, and the vectors of its unit tests |

Why the bounds are enough. Thirty samples take both indices of the ring around
four slots seven times, with batches larger than the ring; the run has whole
frames, and for odd sizes and other capacities the proofs speak. Two games are
what the program allows, the one being stopped and the one being started, and
two is the number at which a call can reach the wrong session. Two sessions and
two cores let a core play twice and let another be described, or played, in
between; the proofs speak for more. One crash separates before from after; with
two games and a crash the state space was explored to 11.7 million states
without an error, which takes longer than a run should, so the crash and the
second game are in separate runs. Three changes of save RAM are one more than
the flush interval of the run. Arrays of two values can be full, ended early
and empty. Three images of one name are one more than an ambiguous move needs,
and with a sheet in two of the folders one change can hide one and reveal
another; any files at the start stand for the changes before the first scan.
Sixty vblanks are seven and a half periods of the slowest pacing.

`NoForeignSave` holds for the two connections of the run. With a third, that of
a probe, it does not: an open that was given up on may reach the helper after
the end of the probe has closed the session of the next game, which then
flushes what it finds. That takes messages of three connections that overtake
each other, 28 steps in all; the run therefore has two.

`QuiescentGeometry` is checked, and proved, for one game. With two it takes a
crash, or a third connection, to break it: a batch that the old game sent after
the crash is delivered late and draws into the surface of the next game with
another size, since calls do not say which session they are meant for.
`OneBatch` speaks of a session that is alive: in the window between a crash and
the interruption a second batch can go out.
`SavesFollow` is about the sources that are `steady`: no scan of them met a file
that had come in the stead of another since the scan before, at its path or
under a name that the other lost (`Superseded`). Where one has, the paths and
names are all a scan has to go by, and it hands the entry on. Everything else
may happen between two scans, any number of times: files come and go, move to
other names and back, are hidden and revealed by cue sheets, by other cores or
by a folder that cannot be read; names may be ambiguous. What counts is the
listing and not the files, for a cue sheet that is moved is enough to supersede
a file that nobody touched (see below). `KeepsIdentity` is likewise about the
listed files of one name. `IdsUnique` holds whatever changes.

`EvenPacing` compares any two vblanks of a session, so a clock that stalls,
bursts or drifts anywhere breaks it. A core whose rate is more than four times
the display's runs at the cap, evenly, and `TypeOK` says what that costs: the
excess of every vblank is added to the credit and never paid back.

### Fairness

`FairSpec` lets the user do nothing and needs no crash. Deliveries, the serial
queue, replies and interruptions, callbacks of an armed display link and the
main queue are weakly fair: each is a thread or a queue of the system that runs
when it has something to do. Timeouts are weakly fair because every wait in
`HelperSession` has one. The teardown is strongly fair, as it competes with the
callbacks of the same run loop: a run loop serves every source that is ready
when it turns, and callbacks return, so they cannot keep it out for ever.

### What the violated runs show

Each checks a statement of the sources that the code does not keep; TLC's trace
is the scenario. `findings` in `PROJECT.json` quotes the statement.

| run | statement | what happens instead |
|---|---|---|
| `in_process_restart` | a session lifecycle that can be restarted | a refused load leaves its session in the static slot: no game starts until the app is restarted |
| `helper_probe` | an invalidated connection closes the session it opened | the end of a probe closes the session of the game that runs, whose connection is another |

### Other places where code and text differ

Met while the modules were written, and visible in them, but without a run:

* The report of a lost game checks only that some game is running
  (`App.swift:338`, against "the helper dies mid-session; the app closes the
  window", `HelperDisplayLoop.swift:50-51`): one that is still on the main queue
  when the next game has started closes that one. `HandleLoss`.
* Every scan asks the catalog for the core of a game again
  (`Library.swift:177`), against "later additions cannot silently re-route
  existing games" (`docs/adr/0005-*.md:15`): `ApplyScan`.
* The flush of save RAM waits for a reply inside a display-link callback
  (`HelperDisplayLoop.swift:319`; line 8 promises "never to a blocked
  callback"): the place `flush` of `HelperGame`.
* A default taken by an early declaration outranks the stored value in a later
  one, and a choice that gives way to the stored value is not announced
  (`CoreOptions.swift:73, 80`, against the comments at 64 and 71): `Kept` and
  `Reverted`.
* Playing a scanned entry under another core than the stored one records an
  entry without source and bookmark (`App.swift:567`, against
  `Library.swift:3-4`), and `recordPlay` stamps the first entry of a path
  whatever its source (`Library.swift:120`): `Recorded` and `Play`.
* A scanned disc is stored under the first core that claims its extension,
  which the router then prefers to the disc's own system (`App.swift:549`,
  against `ContentRouter.swift:105-106`): `CoreIDFor` and `Select`.
* A move by name is adopted when the name is unique among what the listing lost
  and among what it gained, not among the files: with `A/g.bin` hidden by
  `A/g.cue` and `B/g.bin` listed, moving `A/g.cue` to `B/g.cue` hides one and
  reveals the other, and `A/g.bin` is given the id and the saves of `B/g.bin`
  (`LibraryScanner.swift:51`, against "with two same-named files there is no way
  to tell which moved, and guessing would hand a game another game's saves",
  `Library.swift:155-158`): `Listing` and `Existing`. `SavesFollow` counts this
  as a file come in another's stead.
* The frame clock's "long-run average is the core's own rate"
  (`FramePacer.swift:48-49`) ends at the cap: a faster core runs at four frames
  a vblank and its credit grows for the rest of the session
  (`FramePacer.swift:52-53`): `Pace`, `TypeOK`.
* The migration runs at every launch, so a later entry that spells the name of
  an old save is handed it (`App.swift:42`, against "one-time" in
  `docs/adr/0004-library-persistence.md:52`): `Launch`.
* The bit of experimental commands is not masked out before the command is
  looked at, as `libretro.h:724-729` asks; the numbers without it are all
  unknown to the program, so no answer changes.
* The test core sets its pixel format in `retro_set_environment`
  (`TestCore/test_core.c:30`); the header allows the command in
  `retro_load_game` and `retro_get_system_av_info`. `Ask` goes by the header.
* A `SET_HW_RENDER` that only asks, with NULL, and one of a core that goes on
  in software after the refusal, both fail the load
  (`EnvironmentHandler.swift:61-65`): `Handled`, `AfterLoadGame`.
* The development entry of the app loads a game without content
  (`App.swift:71-75`), while `SET_SUPPORT_NO_GAME` is unknown to
  `EnvironmentHandler`: `LoadGame` has both forms.

## What is proved

Every theorem holds for all values of the constants that meet the named
assumptions of its modules; those only say that bounds are numbers, that a
flush interval, a rate or an array is not zero or empty, that `None` is not
also a session, an entry or a value, and how probes and games are told apart.
TLC evaluates them on every run. `PROJECT.json` names each theorem with the
property it settles. In each module `Inductive` is the invariant `IInv` as a
theorem of the specification, and the others follow from it.

*The ring.* `NoRace`, `InOrder`, `OccupancyBounded`, `FramesStayWhole` and
`Refinement`. `RaceFree` says that the slots still to be copied by the two
sides are disjoint, which follows from where the calls in progress are relative
to the indices; `IndexInv` says that: the writer is within `Capacity` of every
`tail` a load may return, and the reader below every `head` it may have seen.
`ReadsInOrder` needs to know what is in the slots: `ContentInv` says that those
between `tail` and what has been written hold their own place in the stream. A
lemma on `%` (two indices less than `Capacity` apart share no slot) carries the
arithmetic. `StereoAligned` is inductive together with the same statement about
every index a load may still return (`AlignInv`), under the further assumption
`WholeFrames` that the capacity and every batch and request are whole frames;
the app meets it, as it rounds the capacity to a power of two and writes and
reads pairs. The refinement maps the queue to the slots between `tail` and
`head`; `WritePublish` is `Put`, `ReadPublish` is `Take`, and every other step
stutters.

*Calls of cores.* `ContractHonoured`: the program keeps the order of calls that
libretro.h asks for, for any number of sessions and cores and whatever the
cores return and ask for; with it `AnsweredByOwnAlways`, `NoHardwareGameAlways`
and `SamePixelsAlways`. None can be proved from what it says, since each
depends on how a method got to the call it is making. `ThreadInv` has one
disjunct for each method, which relates the calls still to make to the stage of
the core and the callbacks it has (`Describing`, `Opening`, `Initing`,
`Loading`, `Playing`, `Shutting`); `OneInside` says that only the thread calls
cores; `SlotInv` and `OwnerInv` say what a session is between two methods, that
the format its handler has is the one its core draws in, and that an owner who
holds a session holds the one in the slot; `OthersIdle` that every other core
is as if it had just been opened, which is why being described, or played
before, leaves no trace. Every step maps to `Call`, `Return` or a stutter of
`Libretro`.

*Games of the helper.* `TypeCorrect`, and `SessionAlwaysLoaded`, for any number
of connections, crashes and timeouts: `OnlyGamesPlay` follows the calls through
wires and queue, so that only the connection of a game constructs a session,
and the block that does so also loads it or leaves none. `TurnsTaken` is the
refinement of `GameLifecycle`; `TurnsInv` says that only the game behind the
window runs and that the one about to start never has.

`AlwaysOneBatch` is about where batches are. `BatchInv` says that those of a
live session are in one place, on the wire, in the queue or answered, that the
guard is set while one is out, and that a reply being handled is the first.
Every step but four leaves a game's batches where they are or loses some
(`KeptOrBatch`); a batch that is sent, delivered, run and handled is taken one
by one. `AlwaysItsGeometry` adds `GeometryInv`, which says where the size of
the pixels is known: by the client, or by the reply on its way. It assumes
`SingleGame`, for the reason given under the runs, and nothing of crashes,
probes or timeouts.

`AlwaysOwnSaves` needs more of the past. `CallInv`, itself a theorem
(`OneCallOut`), says that a loop thread has one call out in one place, the one
its place waits for, and that a game's open is its first call and is followed
by no close before the game has ended. The late reply that `Unheard` drops is
therefore the only one. `OwnerInv` says that a game which has heard that its
open succeeded has the session, or that there is none and nobody else has an
open on its way. A close by the other game is what could break that; its open
was before its close, so it is over (`ClosedAfterOpen`). With a third
connection that argument fails, and so does the property: `TwoConnections` is
the assumption.

*Games in the app.* `OneCoreActive`, `CacheAgrees`, `LossBounded`,
`ProgressKept` and `TurnsTaken`, over failed writes and kills. `SlotInv` ties
the place of a core thread to the slot. `BoundedLoss` is about the past, and
`SeenInv` places it: after a flush interval of callbacks the file holds what
the save RAM was `sinceFlush` callbacks ago. `CacheInv` says when
`lastFlushedSaveRAM` speaks of the file.

*Options.* All seven properties of the run. `WellFormed` is proved of what
each command declares (the first of a list exists by well-founded
induction, `FirstOne`). `EachStringOnce` is `FreedOnce` string by string, and
`AllStringsLive` what `NoDangling` needs while a session lasts.

*Library.* `IdsAlwaysUnique`, `OnePerPlay`, `SavesAlwaysFollow` and
`IdentityKept`, for any folders, names, cores and extensions; assumed are that
a scan lists a path once (`OrderAssumption`) and that paths of one name have one
extension (`NameAssumption`). What a scan makes of the entries filters and
sorts them; it is defined by the rank of each in what is kept, and `Ranks` and
the lemmas after it say what that returns, without induction. `SavesFollow`
needs to know that the entries of a source are those of what its last scan
listed, one for each file and none besides (`Describes`), that a content is in
one place there as in the folders (`SeenApart`, `FilesApart`), and that entries
of one extension have one core (`SameCore`). Then an entry that is adopted under
its name by a file of another content has left the listing, and so has its
content, or the file it went to would be a second arrival; and the content that
came was not listed under the name before, or its entry would be a second
departure (`AdoptedIsSame`). That is a file in another's stead, which a steady
source has not met.

*Migration.* `AllCarriedOver` and `NewerAlwaysKept`. `OldSavesSeen` says that
an old save of an entry of this launch is carried over or still to come in the
entry's list, as long as no copy has failed.

*Pacing.* `TypeCorrect`, `SpeedAlwaysRight` and `AlwaysEven`, for all rates of
cores and displays. `Balance` is the invariant: frames and credit together are
what the vblanks so far have earned, and the frames by every vblank are all the
whole ones of the pace, which is the core's rate or the cap. Below the cap, the
credit is less than a frame and the cap never bites (`Paying`); beyond it, every
vblank runs the cap and adds its excess (`Debt`). `AlwaysEven` is the difference
of the balance at two vblanks. `SpeedIsRight` follows by comparing the balance
with the mismatch that `mode` allows, for the divisor `Best` chooses, which
exists by `BestDivides`.

*The way of a frame.* Theorems about operators: a captured frame is converted
(`CapturedConverts`) without a read outside its buffer (`ReadsInside`), to
bytes (`ChannelsAreBytes`); it is in the surface pixel by pixel what the core
drew, for any pitch and row length (`ShownAsDrawn`), with nothing else of the
surface touched (`CopyInside`), and lies in the drawable, centred
(`ShownInside`). A pitch so large that its product with the height overflows an
`Int` traps in Swift and is left out.

Model-checked only, on the instances above: the liveness properties of
`helper_liveness`, since fairness and ENABLED are beyond the prover; and the
two violated runs, whose traces are the proof. Every invariant, action property
and refinement that a passing run checks is a theorem. `QuiescentGeometry` of
two games without a crash has been model-checked and is not proved.

## What is not modelled

Timing other than order; what a core does with its frames; Metal, AVFoundation
and the App Sandbox; the rounding of Doubles (which can move a frame by one
vblank) and of 64-bit indices; the trust checks and the linking of core
libraries; the structures most environment commands come with, since the
program does not look at them; the file formats. A selector handed to a thread
that ends in the same instant (`HelperDisplayLoop.swift:104-105`) and a
Library.json that cannot be written are listed as hazards without a property: what Foundation does, or what the program means to promise, is not
in the repository.

The resampler and its rate control are arithmetic on real numbers. Disc staging
and BIOS import are sequences of file operations of one caller, whose outcome
`CoreHost` takes as an input. Views, titles and artwork keep no state that
another part relies on. Of libretro.h every environment command is
modelled, every entry point the program resolves, and the rules for calling
them; its interfaces for other frontends (hardware
rendering, VFS, cameras, netplay and the like) are only commands the program
answers with false.

## What is left

In the order in which it would add most: an identity of their session in the
calls of `HelperGame`, as a proposal for the code, with `QuiescentGeometry` and
`NoForeignSave` for any number of connections as what it buys; until then,
`QuiescentGeometry` as a theorem for two games and no crash; the staging
directory across sessions.
