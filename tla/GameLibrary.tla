---------------------------- MODULE GameLibrary ----------------------------
(***************************************************************************)
(* The game library and the routing of content to cores: LibraryModel of   *)
(* Library/Library.swift, Content/ContentRouter.swift, the scans of        *)
(* Library/LibraryScanner.swift and the start paths play and openContent   *)
(* of App.swift.  All of it runs on the main thread; what is hard is the   *)
(* long run: files move, appear and vanish between two scans, the cores on *)
(* offer change between two launches, and the saves of a game hang on the  *)
(* id of its entry (ADR 0004).                                             *)
(*                                                                         *)
(* A path is abstract; FolderOf is what leads to its last component,       *)
(* NameOf, of which ExtOf is the extension; PathOf joins a folder and a    *)
(* name that a cue sheet gives, to a path or, if no core could claim a     *)
(* file there, to None.  A scanned entry has a path relative to its        *)
(* source, a game opened by itself the absolute path <<source, path>>.     *)
(***************************************************************************)
EXTENDS Naturals, FiniteSets, SequencesExt

CONSTANTS
  Sources, Contents, Systems, None,
  PathOrder,   \* the paths, in the order a scan sorts them
  NameOf, ExtOf, FolderOf, PathOf,
  KindOf,      \* content -> the extension it comes with
  NamedBy,     \* content -> the names in it, were it a cue sheet that can be read
  CoreOrder,   \* the cores, in the order of the catalog
  Claims,      \* core -> the extensions it claims
  Plays,       \* core -> the disc system it plays, or None
  DiscOf,      \* content -> the disc system it is for, or None
  MaxChanges,  \* bound: changes of files
  MaxEvents    \* bound: plays, relaunches and scans that fail

Paths == ToSet(PathOrder)
Cores == ToSet(CoreOrder)
ASSUME NoneAssumption == None \notin Sources \union Contents \union Systems \union Cores
ASSUME BoundsAssumption == MaxChanges \in Nat /\ MaxEvents \in Nat
ASSUME OrderAssumption ==   \* a scan lists a path once
  /\ PathOrder \in Seq(Paths) /\ CoreOrder \in Seq(Cores)
  /\ \A i, j \in DOMAIN PathOrder : PathOrder[i] = PathOrder[j] => i = j
ASSUME NameAssumption ==    \* the extension is the end of the name
  \A p, q \in Paths : NameOf[p] = NameOf[q] => ExtOf[p] = ExtOf[q]

VARIABLES
  files,    \* source -> path -> the content there, or None
  catalog,  \* the cores of this launch
  entries,  \* library.entries
  nextId,   \* ids are serial numbers
  madeFor,  \* history: id -> the content it was minted for
  plays,    \* serial number of the last play: lastPlayedAt
  seen,     \* history: source -> path -> the content its last scan listed, or None
  steady,   \* history: the sources no scan of which met a file in another's stead
  changes, events

vars == <<files, catalog, entries, nextId, madeFor, plays, seen, steady, changes, events>>

(* What of s is at the places I, in order: the k-th has k - 1 before it.   *)
Rank(i, I) == Cardinality({j \in I : j < i})
Picked(s, I) == [k \in 1..Cardinality(I) |-> s[CHOOSE i \in I : Rank(i, I) = k - 1]]

Claimants(ext) == Picked(catalog, {i \in DOMAIN catalog : ext \in Claims[catalog[i]]})

(* A content is a file: it is in one place, under its extension. *)
InPlace(f) ==
  \A s \in Sources, p \in Paths : f[s][p] # None =>
    /\ ExtOf[p] = KindOf[f[s][p]]
    /\ \A r \in Sources, q \in Paths : f[r][q] = f[s][p] => r = s /\ q = p

(* The app is opened for the first time, on the files that are there. *)
Init ==
  /\ files \in {f \in [Sources -> [Paths -> Contents \union {None}]] : InPlace(f)}
  /\ catalog = CoreOrder
  /\ entries = <<>> /\ nextId = 1 /\ madeFor = <<>>
  /\ plays = 0
  /\ seen = [s \in Sources |-> [p \in Paths |-> None]] /\ steady = Sources
  /\ changes = 0 /\ events = 0
-----------------------------------------------------------------------------
(* External: what happens to the files of a source.  A file that is        *)
(* replaced, as by an edit of a cue sheet, is removed and added.           *)
Change(s) ==
  /\ changes < MaxChanges
  /\ changes' = changes + 1
  /\ \/ \E p \in Paths, x \in Contents :
          /\ files[s][p] = None /\ ExtOf[p] = KindOf[x] /\ \A r \in Sources, q \in Paths : files[r][q] # x
          /\ files' = [files EXCEPT ![s][p] = x]
     \/ \E p \in Paths : files[s][p] # None /\ files' = [files EXCEPT ![s][p] = None]
     \/ \E p, q \in Paths :
          /\ files[s][p] # None /\ files[s][q] = None /\ ExtOf[p] = ExtOf[q]
          /\ files' = [files EXCEPT ![s][q] = files[s][p], ![s][p] = None]
  /\ UNCHANGED <<catalog, entries, nextId, madeFor, plays, seen, steady, events>>

(* The app is opened again, with other cores in its bundle. *)
Relaunch ==
  /\ events < MaxEvents /\ events' = events + 1
  /\ \E cores \in SUBSET Cores : catalog' = Picked(CoreOrder, {i \in DOMAIN CoreOrder : CoreOrder[i] \in cores})
  /\ UNCHANGED <<files, entries, nextId, madeFor, plays, seen, steady, changes>>
-----------------------------------------------------------------------------
(* LibraryScanner.scan: the files that some core claims.                   *)
Claimed(s, p) == files[s][p] # None /\ Claimants(ExtOf[p]) # <<>>

(* What the cue sheets among them name, each next to itself: tracks of a   *)
(* disc, not games.                                                        *)
Referenced(s) ==
  UNION {{PathOf[FolderOf[q], name] : name \in NamedBy[files[s][q]]} :
           q \in {c \in Paths : Claimed(s, c) /\ ExtOf[c] = "cue"}}

(* hidingCueTracks: the rest are listed. *)
Listing(s) ==
  LET tracks == Referenced(s)
  IN [p \in Paths |-> IF Claimed(s, p) /\ p \notin tracks THEN files[s][p] ELSE None]

Games(s) ==
  LET listing == Listing(s)
  IN Picked(PathOrder, {i \in DOMAIN PathOrder : listing[PathOrder[i]] # None})

(* The core a scan gives an entry: the first that claims the extension. *)
CoreIDFor(p) == Head(Claimants(ExtOf[p]))

Previous(s) == {entries[i] : i \in {j \in DOMAIN entries : entries[j].source = s}}

\* Mutants: paths alone decide; no look at the other arrivals and departures
\* of the name; none at the other departures.
ExistingByPath(s, games, p) == {e \in Previous(s) : e.path = p}
ExistingAmbiguous(s, games, p) ==
  LET same == {e \in Previous(s) : e.path = p}
      departed == {e \in Previous(s) : e.path \notin ToSet(games)}
      left == {e \in departed : NameOf[e.path] = NameOf[p] /\ e.core = CoreIDFor(p)}
  IN IF same # {} THEN same
     ELSE IF left # {} THEN {CHOOSE e \in left : TRUE} ELSE {}
ExistingOneArrival(s, games, p) ==
  LET same == {e \in Previous(s) : e.path = p}
      departed == {e \in Previous(s) : e.path \notin ToSet(games)}
      left == {e \in departed : NameOf[e.path] = NameOf[p] /\ e.core = CoreIDFor(p)}
      arrived == {q \in ToSet(games) :
                    NameOf[q] = NameOf[p] /\ \A e \in Previous(s) : e.path # q}
  IN IF same # {} THEN same
     ELSE IF left # {} /\ arrived = {p} THEN {CHOOSE e \in left : TRUE} ELSE {}

(* The entry that the file at p goes on with: that of its path, else the   *)
(* one entry that departed under its name and core, if p is also the one   *)
(* arrival of the name.                                                    *)
Existing(s, games, p) ==
  LET same == {e \in Previous(s) : e.path = p}
      departed == {e \in Previous(s) : e.path \notin ToSet(games)}
      left == {e \in departed : NameOf[e.path] = NameOf[p] /\ e.core = CoreIDFor(p)}
      arrived == {q \in ToSet(games) :
                    NameOf[q] = NameOf[p] /\ \A e \in Previous(s) : e.path # q}
  IN IF same # {} THEN same
     ELSE IF Cardinality(left) = 1 /\ arrived = {p} THEN left ELSE {}

(* The entries a scan of the source leaves alone. *)
Others(s) == Picked(entries, {i \in DOMAIN entries : entries[i].source # s})

(* applyScan: the entries of the source are replaced by one for each game, *)
(* which keeps the id and the play history of the entry it goes on with.   *)
ApplyScan(s, games) ==
  LET found == [i \in DOMAIN games |-> Existing(s, games, games[i])]
      minted == {i \in DOMAIN games : found[i] = {}}
      idOf(i) == IF i \in minted
                 THEN nextId + Rank(i, minted)
                 ELSE (CHOOSE e \in found[i] : TRUE).id
      scan == [i \in DOMAIN games |->
        [id |-> idOf(i), source |-> s, path |-> games[i], core |-> CoreIDFor(games[i]),
         bookmark |-> None,
         played |-> IF i \in minted THEN 0 ELSE (CHOOSE e \in found[i] : TRUE).played]]
  IN /\ entries' = Others(s) \o scan
     /\ nextId' = nextId + Cardinality(minted)
     /\ madeFor' = madeFor \o
          [k \in 1..Cardinality(minted) |->
             files[s][games[CHOOSE i \in minted : idOf(i) = nextId + k - 1]]]

(* The contents that the listing f has under a name. *)
Under(f, name) == {f[p] : p \in {q \in Paths : NameOf[q] = name}} \ {None}

(* From listing f to g a file came in the stead of another: at its path,   *)
(* or under a name that the other lost.                                    *)
Superseded(f, g) ==
  \E p \in Paths :
    \/ f[p] # None /\ g[p] # None /\ f[p] # g[p]
    \/ /\ Under(f, NameOf[p]) \ Under(g, NameOf[p]) # {}
       /\ Under(g, NameOf[p]) \ Under(f, NameOf[p]) # {}

Settle(s, listing) ==
  /\ seen' = [seen EXCEPT ![s] = listing]
  /\ steady' = IF Superseded(seen[s], listing) THEN steady \ {s} ELSE steady

(* rescan *)
Scan(s) ==
  /\ ApplyScan(s, Games(s)) /\ Settle(s, Listing(s))
  /\ UNCHANGED <<files, catalog, plays, changes, events>>

(* A rescan of a folder that cannot be read finds no files. *)
ScanFails(s) ==
  /\ events < MaxEvents /\ events' = events + 1
  /\ ApplyScan(s, <<>>) /\ Settle(s, [p \in Paths |-> None])
  /\ UNCHANGED <<files, catalog, plays, changes>>

(* ContentRouter.select: the core stored for the entry if it still claims  *)
(* the extension, else the one that plays the system the disc is for, else *)
(* the first.                                                              *)
SystemOf(content) == IF content = None THEN None ELSE DiscOf[content]
Select(ext, preferred, content) ==
  LET candidates == Claimants(ext)
      forDisc == Picked(candidates,
        {i \in DOMAIN candidates : Plays[candidates[i]] \in {SystemOf(content)} \ {None}})
  IN IF preferred \in ToSet(candidates) THEN preferred
     ELSE IF forDisc # <<>> THEN Head(forDisc)
     ELSE IF candidates # <<>> THEN Head(candidates) ELSE None

\* Mutant of Recorded: an entry of that path and core is not looked for.
RecordedAnew(path, core) == Len(entries) + 1

(* The place of the first entry of that path and core, or of a new one. *)
Recorded(path, core) ==
  LET same == {i \in DOMAIN entries : entries[i].core = core /\ entries[i].path = path}
  IN IF same = {} THEN Len(entries) + 1 ELSE CHOOSE i \in same : \A j \in same : i <= j

(* recordPlay: that entry is stamped, and takes a bookmark that is given. *)
RecordPlay(path, core, bookmark, content) ==
  LET i == Recorded(path, core) IN
  /\ plays' = plays + 1
  /\ IF i \in DOMAIN entries
     THEN /\ entries' = [entries EXCEPT ![i].played = plays + 1,
                           ![i].bookmark = IF bookmark = None THEN @ ELSE bookmark]
          /\ UNCHANGED <<nextId, madeFor>>
     ELSE /\ entries' = Append(entries,
               [id |-> nextId, source |-> None, path |-> path, core |-> core,
                bookmark |-> bookmark, played |-> plays + 1])
          /\ nextId' = nextId + 1 /\ madeFor' = Append(madeFor, content)

(* resolution and locate: the place <<source, path>> that the entry leads  *)
(* to, if any.  The grant of a source covers the path whether or not a     *)
(* file is there; a bookmark follows its file.                             *)
Located(e) ==
  IF e.source # None THEN {<<e.source, e.path>>}
  ELSE IF e.bookmark # None
       THEN {l \in Sources \X Paths : files[l[1]][l[2]] = e.bookmark}
       ELSE {}

(* play(entry:): located, routed by the stored core, recorded under the    *)
(* routed one; the loop is then started under the id of the entry.  A      *)
(* bookmark that has gone stale is renewed first, which stamps the entry   *)
(* even if nothing plays the file any more.                                *)
Play(i) ==
  /\ events < MaxEvents /\ events' = events + 1
  /\ LET e == entries[i] IN \E l \in Located(e) :
       LET content == files[l[1]][l[2]]
           core == Select(ExtOf[l[2]], e.core, content)
       IN IF core # None
          THEN /\ RecordPlay(e.path, core, e.bookmark, content)
          ELSE /\ e.source = None /\ l # e.path
               /\ RecordPlay(e.path, e.core, e.bookmark, content)
  /\ UNCHANGED <<files, catalog, seen, steady, changes>>

(* openContent: a file picked by the user, with a bookmark of its own.     *)
Open(s, p) ==
  /\ events < MaxEvents /\ events' = events + 1
  /\ files[s][p] # None
  /\ LET core == Select(ExtOf[p], None, files[s][p]) IN
       /\ core # None
       /\ RecordPlay(<<s, p>>, core, files[s][p], files[s][p])
  /\ UNCHANGED <<files, catalog, seen, steady, changes>>

Next ==
  \/ Relaunch
  \/ \E s \in Sources : Change(s) \/ Scan(s) \/ ScanFails(s) \/ \E p \in Paths : Open(s, p)
  \/ \E i \in DOMAIN entries : Play(i)

Spec == Init /\ [][Next]_vars
-----------------------------------------------------------------------------
(* Every entry names a place, a core and an id that was given out, and no  *)
(* two entries of a source name the same place.                            *)
TypeOK ==
  /\ nextId = Len(madeFor) + 1
  /\ \A i \in DOMAIN entries : LET e == entries[i] IN
       /\ e.id \in 1..(nextId - 1) /\ e.core \in Cores /\ e.played \in 0..plays
       /\ IF e.source # None THEN e.path \in Paths /\ e.bookmark \in Contents \union {None}
          ELSE e.path \in Paths \union (Sources \X Paths)
  /\ \A i, j \in DOMAIN entries :
       entries[i].source # None /\ entries[i].source = entries[j].source
         /\ entries[i].path = entries[j].path => i = j

(* No two entries share an id, and with it the directory of the saves of a *)
(* game: a rescan adopts an entry once (applyScan).                        *)
IdsUnique == \A i, j \in DOMAIN entries : entries[i].id = entries[j].id => i = j

(* No game gets the saves of another: each entry of a source has those of  *)
(* the file that its last scan found there, however many files moved, came *)
(* and went, were hidden and revealed by cue sheets or by the cores on     *)
(* offer, in the long run.  Only where a file came in the stead of another *)
(* between two scans can a scan not tell (applyScan).                      *)
SavesFollow ==
  \A i \in DOMAIN entries : LET e == entries[i] IN
    e.source \in steady => seen[e.source][e.path] = madeFor[e.id]

(* Where files were not listed by f and are by g, of those of a name. *)
Came(f, g, name) == {p \in Paths : NameOf[p] = name /\ f[p] = None /\ g[p] # None}

(* A scan keeps the id and the play history of a game whose file stayed,   *)
(* or moved to another folder as the one file of its name that left and    *)
(* came, so that its saves are not stranded (ADR 0004, Moves).             *)
KeepsIdentity ==
  [][\A s \in Sources : UNCHANGED <<files, events>> /\ Scan(s) =>
       \A e \in Previous(s), p \in ToSet(Games(s)) :
         /\ files[s][p] = seen[s][e.path]
         /\ \/ p = e.path
            \/ /\ e.core = CoreIDFor(p) /\ NameOf[p] = NameOf[e.path]
               /\ Came(seen[s], Listing(s), NameOf[p]) = {p}
               /\ Came(Listing(s), seen[s], NameOf[p]) = {e.path}
         => \E i \in DOMAIN entries' :
              /\ entries'[i].source = s /\ entries'[i].path = p
              /\ entries'[i].id = e.id /\ entries'[i].played = e.played]_vars

(* A file that was opened by itself has one entry for each core it was     *)
(* played with, so that opening it again finds its saves (recordPlay).     *)
OneEntryPerPlay ==
  \A i, j \in DOMAIN entries :
    /\ entries[i].source = None /\ entries[j].source = None
    /\ entries[i].path = entries[j].path /\ entries[i].core = entries[j].core
    => i = j
=============================================================================
