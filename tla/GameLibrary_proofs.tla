------------------------- MODULE GameLibrary_proofs -------------------------
(***************************************************************************)
(* Proofs about the library: for any folders, files, names and cores, and  *)
(* however long files move, cores change and games are played.             *)
(***************************************************************************)
EXTENDS GameLibrary, FiniteSetTheorems, TLAPS

Entry == [id : Nat \ {0}, source : Sources \union {None},
          path : Paths \union (Sources \X Paths), core : Cores,
          bookmark : Contents \union {None}, played : Nat]

LibraryTypes ==
  /\ entries \in Seq(Entry) /\ catalog \in Seq(Cores)
  /\ madeFor \in Seq(Contents \union {None}) /\ nextId = Len(madeFor) + 1
  /\ \A i \in DOMAIN entries :
       /\ entries[i].id < nextId /\ entries[i].played <= plays
       /\ entries[i].source # None => entries[i].path \in Paths
  /\ plays \in Nat

FileTypes ==
  /\ files \in [Sources -> [Paths -> Contents \union {None}]]
  /\ seen \in [Sources -> [Paths -> Contents \union {None}]] /\ steady \subseteq Sources

(* A source has one entry for a place. *)
OneEntryPerPlace ==
  \A i, j \in DOMAIN entries :
    entries[i].source # None /\ entries[i].source = entries[j].source
      /\ entries[i].path = entries[j].path => i = j

(* A content is a file: it is in one place. *)
FilesApart ==
  \A r, s \in Sources, p, q \in Paths :
    files[r][p] # None /\ files[r][p] = files[s][q] => r = s /\ p = q

(* So it is in what a scan listed. *)
SeenApart ==
  \A s \in Sources, p, q \in Paths : seen[s][p] # None /\ seen[s][p] = seen[s][q] => p = q

(* The entries of a source, which one scan made, have the core that was    *)
(* then the first to claim their extension.                                *)
SameCore ==
  \A i, j \in DOMAIN entries :
    /\ entries[i].source # None /\ entries[i].source = entries[j].source
    /\ ExtOf[entries[i].path] = ExtOf[entries[j].path]
    => entries[i].core = entries[j].core

(* The entries of source s are those of what its last scan listed, and if  *)
(* no scan met a file in another's stead, they have the ids that were      *)
(* minted for it.                                                          *)
Describes(s) ==
  /\ \A i \in DOMAIN entries : entries[i].source = s =>
       /\ seen[s][entries[i].path] # None
       /\ s \in steady => seen[s][entries[i].path] = madeFor[entries[i].id]
  /\ \A q \in Paths : seen[s][q] # None =>
       \E i \in DOMAIN entries : entries[i].source = s /\ entries[i].path = q

IInv ==
  /\ LibraryTypes /\ FileTypes /\ IdsUnique /\ OneEntryPerPlace /\ OneEntryPerPlay
  /\ FilesApart /\ SeenApart /\ SameCore /\ \A s \in Sources : Describes(s)

-----------------------------------------------------------------------------
(* What is picked out of a sequence. *)

(* The members of a finite set of numbers have one rank each, and every    *)
(* rank has a member.                                                      *)
LEMMA Ranks ==
  ASSUME NEW n \in Nat, NEW I \in SUBSET (1..n)
  PROVE  /\ IsFiniteSet(I) /\ Cardinality(I) \in Nat
         /\ \A i \in I : Rank(i, I) \in 0..(Cardinality(I) - 1)
         /\ \A i, j \in I : i < j => Rank(i, I) < Rank(j, I)
         /\ \A k \in 1..Cardinality(I) : \E i \in I : Rank(i, I) = k - 1
<1>1. IsFiniteSet(I) /\ Cardinality(I) \in Nat
  <2>1. IsFiniteSet(1..n)
    BY FS_Interval
  <2>2. IsFiniteSet(I)
    BY <2>1, FS_Subset
  <2>3. QED
    BY <2>2, FS_CardinalityType
<1>2. ASSUME NEW S \in SUBSET I, NEW T \in SUBSET S, S # T
      PROVE  Cardinality(T) \in Nat /\ Cardinality(S) \in Nat /\ Cardinality(T) < Cardinality(S)
  <2>1. IsFiniteSet(S)
    BY <1>1, FS_Subset
  <2>2. IsFiniteSet(T) /\ Cardinality(T) <= Cardinality(S) /\ (Cardinality(S) = Cardinality(T) => S = T)
    BY <2>1, FS_Subset, Zenon
  <2>3. Cardinality(T) \in Nat /\ Cardinality(S) \in Nat
    BY <2>1, <2>2, FS_CardinalityType, Zenon
  <2>4. QED
    BY <1>2, <2>2, <2>3
<1>3. ASSUME NEW i \in I PROVE Rank(i, I) \in 0..(Cardinality(I) - 1)
  <2>1. {j \in I : j < i} \in SUBSET I /\ {j \in I : j < i} # I
    OBVIOUS
  <2>2. I \in SUBSET I
    OBVIOUS
  <2>3. Cardinality({j \in I : j < i}) \in Nat /\ Cardinality({j \in I : j < i}) < Cardinality(I)
    BY <1>2, <2>1, <2>2, Zenon
  <2>4. QED
    BY <1>1, <2>3 DEF Rank
<1>4. ASSUME NEW i \in I, NEW j \in I, i < j PROVE Rank(i, I) < Rank(j, I)
  <2>1. PICK S \in SUBSET I : S = {k \in I : k < j}
    OBVIOUS
  <2>2. PICK T : T = {k \in I : k < i}
    OBVIOUS
  <2>3. i \in S /\ i \notin T /\ T \in SUBSET S
    <3>1. \A k \in I : k \in Nat /\ (k < i => k < j) /\ ~(i < i)
      BY <1>4
    <3>2. T \subseteq S
      BY <2>1, <2>2, <3>1
    <3>3. QED
      BY <1>4, <2>1, <2>2, <3>1, <3>2
  <2>4. Cardinality(T) < Cardinality(S)
    BY <1>2, <2>3
  <2>5. QED
    BY <2>1, <2>2, <2>4 DEF Rank
<1>5. ASSUME NEW k \in 1..Cardinality(I), \A i \in I : Rank(i, I) # k - 1 PROVE FALSE
  <2>1. PICK N \in Nat : N = Cardinality(I)
    BY <1>1
  <2> DEFINE r == [i \in I |-> Rank(i, I) + 1]
             R == (1..N) \ {k}
  <2>2. r \in [I -> R]
    BY <1>3, <1>5, <2>1
  <2>3. IsFiniteSet(R) /\ Cardinality(R) < Cardinality(I)
    <3>1. IsFiniteSet(1..N) /\ Cardinality(1..N) = N
      BY FS_Interval
    <3>2. /\ IsFiniteSet((1..N) \ {k})
          /\ Cardinality((1..N) \ {k}) = IF k \in 1..N THEN Cardinality(1..N) - 1 ELSE Cardinality(1..N)
      BY <3>1, FS_RemoveElement, Zenon
    <3>3. QED
      BY <2>1, <3>1, <3>2
  <2>4. PICK i \in I, j \in I : i # j /\ r[i] = r[j]
    <3> HIDE DEF r, R
    <3> QED
      BY <1>1, <2>2, <2>3, FS_PigeonHole
  <2>5. QED
    BY <1>3, <1>4, <2>4
<1>6. QED
  BY <1>1, <1>3, <1>4, <1>5

(* What is picked keeps its order, and nothing is picked twice. *)
LEMMA Picking ==
  ASSUME NEW S, NEW s \in Seq(S), NEW I \in SUBSET (DOMAIN s)
  PROVE  /\ Picked(s, I) \in Seq(S)
         /\ \E place \in [DOMAIN Picked(s, I) -> I] :
              /\ \A k \in DOMAIN Picked(s, I) : Picked(s, I)[k] = s[place[k]]
              /\ \A k, l \in DOMAIN Picked(s, I) : place[k] = place[l] => k = l
              /\ \A i \in I : \E k \in DOMAIN Picked(s, I) : place[k] = i
<1> DEFINE N == Cardinality(I)
           placeOf(k) == CHOOSE i \in I : Rank(i, I) = k - 1
           place == [k \in 1..N |-> placeOf(k)]
<1>1. DOMAIN s = 1..Len(s) /\ Len(s) \in Nat
  OBVIOUS
<1>2. /\ N \in Nat
      /\ \A i \in I : Rank(i, I) \in 0..(N - 1)
      /\ \A i, j \in I : i < j => Rank(i, I) < Rank(j, I)
      /\ \A k \in 1..N : \E i \in I : Rank(i, I) = k - 1
  BY <1>1, Ranks
<1>3. \A k \in 1..N : placeOf(k) \in I /\ Rank(placeOf(k), I) = k - 1
  BY <1>2
<1>4. place \in [1..N -> I] /\ \A k \in 1..N : place[k] \in I /\ Rank(place[k], I) = k - 1
  BY <1>3
<1>5. Picked(s, I) = [k \in 1..N |-> s[placeOf(k)]] /\ \A k \in 1..N : place[k] = placeOf(k)
  BY DEF Picked
<1> HIDE DEF N, place, placeOf
<1>6. ASSUME NEW i \in I PROVE \E k \in 1..N : place[k] = i
  <2>1. PICK k \in 1..N : k = Rank(i, I) + 1
    BY <1>2
  <2>2. Rank(place[k], I) = Rank(i, I) /\ place[k] \in I
    BY <1>2, <1>4, <2>1
  <2>3. place[k] = i
    BY <1>1, <1>2, <2>2
  <2>4. QED
    BY <2>3
<1>7. \A k, l \in 1..N : place[k] = place[l] => k = l
  BY <1>2, <1>4
<1>8. /\ DOMAIN Picked(s, I) = 1..N
      /\ \A k \in 1..N : Picked(s, I)[k] = s[place[k]] /\ s[place[k]] \in S
  BY <1>1, <1>4, <1>5
<1>9. Picked(s, I) \in Seq(S)
  BY <1>1, <1>2, <1>4, <1>5, <1>8
<1>10. place \in [DOMAIN Picked(s, I) -> I]
  BY <1>4, <1>8, Zenon
<1>11. /\ \A k \in DOMAIN Picked(s, I) : Picked(s, I)[k] = s[place[k]]
       /\ \A k, l \in DOMAIN Picked(s, I) : place[k] = place[l] => k = l
       /\ \A i \in I : \E k \in DOMAIN Picked(s, I) : place[k] = i
  BY <1>6, <1>7, <1>8, Zenon
<1>12. QED
  BY <1>9, <1>10, <1>11, Zenon

LEMMA Joining ==
  ASSUME NEW S, NEW s \in Seq(S), NEW t \in Seq(S)
  PROVE  /\ s \o t \in Seq(S) /\ Len(s) \in Nat /\ Len(t) \in Nat
         /\ Len(s \o t) = Len(s) + Len(t) /\ DOMAIN (s \o t) = 1..(Len(s) + Len(t))
         /\ \A k \in 1..Len(s) : (s \o t)[k] = s[k]
         /\ \A i \in 1..Len(t) : (s \o t)[Len(s) + i] = t[i]
OBVIOUS

-----------------------------------------------------------------------------
(* What a scan makes of the entries. *)

LEMMA PreviousFinite ==
  ASSUME LibraryTypes, NEW s
  PROVE  IsFiniteSet(Previous(s))
<1> DEFINE I == {j \in DOMAIN entries : entries[j].source = s}
           pick == [i \in I |-> entries[i]]
<1>1. IsFiniteSet(I)
  <2>1. DOMAIN entries = 1..Len(entries) /\ Len(entries) \in Nat
    BY DEF LibraryTypes
  <2>2. IsFiniteSet(1..Len(entries))
    BY <2>1, FS_Interval
  <2>3. QED
    BY <2>1, <2>2, FS_Subset
<1>2. pick \in Surjection(I, Previous(s))
  BY DEF Surjection, Previous
<1>3. QED
  BY <1>1, <1>2, FS_Surjection

LEMMA Adopts ==
  ASSUME LibraryTypes, NEW s, NEW games, NEW p, NEW e \in Existing(s, games, p)
  PROVE  /\ e \in Previous(s) /\ \E i \in DOMAIN entries : entries[i] = e /\ e.source = s
         /\ \/ e.path = p
            \/ /\ e.path \notin ToSet(games) /\ NameOf[e.path] = NameOf[p] /\ e.core = CoreIDFor(p)
               /\ \A d \in Previous(s) : d.path # p
               /\ \A d \in Previous(s) :
                    d.path \notin ToSet(games) /\ NameOf[d.path] = NameOf[p] /\ d.core = CoreIDFor(p) => d = e
               /\ {q \in ToSet(games) : NameOf[q] = NameOf[p] /\ \A d \in Previous(s) : d.path # q} = {p}
<1> DEFINE same == {d \in Previous(s) : d.path = p}
           left == {d \in {c \in Previous(s) : c.path \notin ToSet(games)} :
                      NameOf[d.path] = NameOf[p] /\ d.core = CoreIDFor(p)}
           arrived == {q \in ToSet(games) : NameOf[q] = NameOf[p] /\ \A d \in Previous(s) : d.path # q}
<1>1. e \in IF same # {} THEN same
            ELSE IF Cardinality(left) = 1 /\ arrived = {p} THEN left ELSE {}
  BY Zenon DEF Existing
<1>2. /\ e \in Previous(s)
      /\ e.path = p \/ (same = {} /\ e \in left /\ Cardinality(left) = 1 /\ arrived = {p})
  <2>1. CASE same # {}
    BY <1>1, <2>1
  <2>2. CASE same = {}
    <3>1. left \subseteq Previous(s)
      OBVIOUS
    <3> HIDE DEF arrived, left
    <3> QED
      BY <1>1, <2>2, <3>1
  <2>3. QED
    BY <2>1, <2>2
<1>3. \E i \in DOMAIN entries : entries[i] = e /\ e.source = s
  BY <1>2 DEF Previous
<1>4. ASSUME e \in left, Cardinality(left) = 1 PROVE \A d \in left : d = e
  <2>1. IsFiniteSet(left)
    <3>1. left \subseteq Previous(s)
      OBVIOUS
    <3> HIDE DEF left
    <3>2. QED
      BY <3>1, PreviousFinite, FS_Subset
  <2> HIDE DEF left
  <2>2. \E x : left = {x}
    BY <1>4, <2>1, FS_Singleton, Zenon
  <2>3. QED
    BY <1>4, <2>2
<1>5. QED
  BY <1>2, <1>3, <1>4

(* An entry is adopted by one file. *)
LEMMA AdoptedOnce ==
  ASSUME LibraryTypes, NEW s, NEW games, NEW p \in ToSet(games), NEW q \in ToSet(games),
         NEW e \in Existing(s, games, p), e \in Existing(s, games, q)
  PROVE  p = q
<1> DEFINE arrived(r) == {t \in ToSet(games) : NameOf[t] = NameOf[r] /\ \A d \in Previous(s) : d.path # t}
<1>1. CASE e.path = p \/ e.path = q
  BY <1>1, Adopts
<1>2. CASE e.path # p /\ e.path # q
  <2>1. NameOf[p] = NameOf[q] /\ arrived(p) = {p} /\ arrived(q) = {q}
    BY <1>2, Adopts
  <2>2. arrived(p) = arrived(q)
    BY <2>1
  <2>3. {p} = {q}
    BY <2>1, <2>2, Zenon
  <2>4. QED
    BY <2>3
<1>3. QED
  BY <1>1, <1>2

LEMMA ClaimantsAreCores ==
  ASSUME LibraryTypes, NEW ext, Claimants(ext) # <<>>
  PROVE  Claimants(ext) \in Seq(Cores) /\ Head(Claimants(ext)) \in Cores
<1>1. catalog \in Seq(Cores)
  BY DEF LibraryTypes
<1>2. {i \in DOMAIN catalog : ext \in Claims[catalog[i]]} \in SUBSET (DOMAIN catalog)
  OBVIOUS
<1>3. Claimants(ext) \in Seq(Cores)
  BY <1>1, <1>2, Picking DEF Claimants
<1>4. QED
  BY <1>3

(* The games of a scan, in the order and without the doubles of PathOrder. *)
GamesOf(games) ==
  /\ games \in Seq(Paths)
  /\ \A i, j \in DOMAIN games : games[i] = games[j] => i = j
  /\ \A i \in DOMAIN games : Claimants(ExtOf[games[i]]) # <<>>

(* Entry e is what the scan of source s makes of the file at p: it goes on *)
(* with an entry of s, or is new.                                          *)
Continues(s, games, p, e) ==
  \E o \in Existing(s, games, p) : e.id = o.id /\ e.played = o.played
IsNew(s, games, p, e) ==
  /\ Existing(s, games, p) = {} /\ e.id \in nextId..(nextId' - 1) /\ e.played = 0
  /\ madeFor'[e.id] = files[s][p]

(* After a scan of s the first entries are those of other sources, in      *)
(* their old places, and the rest those of the games.                      *)
Rescanned(s, games, count, place) ==
  /\ DOMAIN entries' = 1..(count + Len(games))
  /\ place \in [1..count -> {i \in DOMAIN entries : entries[i].source # s}]
  /\ \A k, l \in 1..count : place[k] = place[l] => k = l
  /\ \A i \in DOMAIN entries : entries[i].source # s => \E k \in 1..count : place[k] = i
  /\ \A k \in 1..count : entries'[k] = entries[place[k]]
  /\ \A i \in 1..Len(games) : LET e == entries'[count + i] IN
       /\ e \in Entry /\ e.source = s /\ e.path = games[i] /\ e.core = CoreIDFor(games[i])
       /\ Continues(s, games, games[i], e) \/ IsNew(s, games, games[i], e)
  /\ \A i, j \in 1..Len(games) :
       /\ IsNew(s, games, games[i], entries'[count + i])
       /\ IsNew(s, games, games[j], entries'[count + j])
       /\ entries'[count + i].id = entries'[count + j].id
       => i = j

LEMMA Scanning ==
  ASSUME LibraryTypes, FileTypes, NEW s \in Sources, NEW games, GamesOf(games), ApplyScan(s, games)
  PROVE  /\ \E count \in Nat : \E place : Rescanned(s, games, count, place)
         /\ entries' \in Seq(Entry)
         /\ nextId' \in Nat /\ nextId <= nextId' /\ nextId' = Len(madeFor') + 1
         /\ madeFor' \in Seq(Contents \union {None})
         /\ \A n \in 1..(nextId - 1) : madeFor'[n] = madeFor[n]
<1> DEFINE found == [i \in DOMAIN games |-> Existing(s, games, games[i])]
           minted == {i \in DOMAIN games : found[i] = {}}
           M == Cardinality(minted)
           origin(i) == CHOOSE e \in found[i] : TRUE
           idOf(i) == IF i \in minted THEN nextId + Rank(i, minted) ELSE origin(i).id
           scan == [i \in DOMAIN games |->
             [id |-> idOf(i), source |-> s, path |-> games[i], core |-> CoreIDFor(games[i]),
              bookmark |-> None, played |-> IF i \in minted THEN 0 ELSE origin(i).played]]
           others == {i \in DOMAIN entries : entries[i].source # s}
           old == Picked(entries, others)
           made == [k \in 1..M |-> files[s][games[CHOOSE i \in minted : idOf(i) = nextId + k - 1]]]
<1>1. entries' = old \o scan /\ nextId' = nextId + M /\ madeFor' = madeFor \o made
  BY DEF ApplyScan, Others
<1>2. DOMAIN games = 1..Len(games) /\ Len(games) \in Nat /\ games \in [1..Len(games) -> Paths]
  BY DEF GamesOf
<1>3. /\ M \in Nat
      /\ \A i \in minted : Rank(i, minted) \in 0..(M - 1)
      /\ \A i, j \in minted : i < j => Rank(i, minted) < Rank(j, minted)
      /\ \A k \in 1..M : \E i \in minted : Rank(i, minted) = k - 1
  <2>1. minted \in SUBSET (1..Len(games))
    BY <1>2
  <2> HIDE DEF minted
  <2>2. QED
    BY <1>2, <2>1, Ranks
<1>4. nextId \in Nat /\ nextId >= 1 /\ nextId = Len(madeFor) + 1 /\ madeFor \in Seq(Contents \union {None})
  BY DEF LibraryTypes
<1>5. ASSUME NEW i \in DOMAIN games, i \notin minted
      PROVE  origin(i) \in Existing(s, games, games[i])
  BY <1>5
<1>6. ASSUME NEW i \in DOMAIN games, i \notin minted
      PROVE  origin(i).id \in Nat \ {0} /\ origin(i).played \in Nat
  <2>1. PICK j \in DOMAIN entries : entries[j] = origin(i)
    <3> HIDE DEF origin, minted
    <3> QED
      BY <1>5, <1>6, Adopts
  <2>2. entries[j] \in Entry
    BY DEF LibraryTypes
  <2>3. QED
    BY <2>1, <2>2 DEF Entry
<1>7. ASSUME NEW i \in DOMAIN games PROVE scan[i] \in Entry
  <2>1. CoreIDFor(games[i]) \in Cores
    BY ClaimantsAreCores DEF GamesOf, CoreIDFor
  <2>2. idOf(i) \in Nat \ {0} /\ (IF i \in minted THEN 0 ELSE origin(i).played) \in Nat
    <3> HIDE DEF origin, minted, M
    <3> QED
      BY <1>3, <1>4, <1>6
  <2>3. games[i] \in Paths
    BY <1>2
  <2> HIDE DEF idOf, origin, minted
  <2>4. QED
    BY <2>1, <2>2, <2>3 DEF Entry
<1>8. scan \in Seq(Entry) /\ Len(scan) = Len(games) /\ DOMAIN scan = DOMAIN games
  <2> DEFINE e(i) == scan[i]
  <2>1. DOMAIN scan = 1..Len(games)
    BY <1>2
  <2>2. scan = [i \in 1..Len(games) |-> scan[i]]
    BY <1>2, <2>1
  <2> HIDE DEF scan
  <2>3. scan \in [1..Len(games) -> Entry]
    BY <1>2, <1>7, <2>2
  <2>4. QED
    BY <1>2, <2>1, <2>3
<1>9. /\ \A i \in minted : idOf(i) \in nextId..(nextId + M - 1)
      /\ \A i, j \in minted : idOf(i) = idOf(j) => i = j
      /\ \A k \in 1..M : \E i \in minted : idOf(i) = nextId + k - 1
  <2>1. minted \subseteq 1..Len(games)
    BY <1>2
  <2>2. \A i \in minted : idOf(i) = nextId + Rank(i, minted)
    OBVIOUS
  <2> HIDE DEF minted, idOf, M
  <2>3. \A i \in minted : idOf(i) \in nextId..(nextId + M - 1)
    BY <1>3, <1>4, <2>2
  <2>4. ASSUME NEW i \in minted, NEW j \in minted, idOf(i) = idOf(j) PROVE i = j
    <3>1. Rank(i, minted) = Rank(j, minted)
      BY <1>3, <1>4, <2>2, <2>4
    <3>2. i < j \/ j < i \/ i = j
      BY <1>2, <2>1
    <3>3. QED
      BY <1>3, <3>1, <3>2
  <2>5. \A k \in 1..M : \E i \in minted : idOf(i) = nextId + k - 1
    BY <1>3, <1>4, <2>2
  <2>6. QED
    BY <2>3, <2>4, <2>5
<1>10. /\ made \in Seq(Contents \union {None}) /\ Len(made) = M
       /\ \A i \in minted : made[idOf(i) - nextId + 1] = files[s][games[i]]
  <2> DEFINE content(k) == files[s][games[CHOOSE i \in minted : idOf(i) = nextId + k - 1]]
  <2>1. minted \subseteq DOMAIN games
    OBVIOUS
  <2> HIDE DEF minted, idOf, M
  <2>2. ASSUME NEW k \in 1..M PROVE content(k) \in Contents \union {None}
    <3>1. (CHOOSE i \in minted : idOf(i) = nextId + k - 1) \in minted
      BY <1>9
    <3>2. \A i \in minted : games[i] \in Paths
      BY <1>2, <2>1
    <3>3. QED
      BY <3>1, <3>2 DEF FileTypes
  <2>3. ASSUME NEW i \in minted PROVE made[idOf(i) - nextId + 1] = files[s][games[i]]
    <3>1. PICK n \in nextId..(nextId + M - 1) : n = idOf(i)
      BY <1>9
    <3>2. n - nextId + 1 \in 1..M /\ n = nextId + (n - nextId + 1) - 1
      BY <1>3, <1>4
    <3>9. PICK k \in 1..M : k = idOf(i) - nextId + 1 /\ idOf(i) = nextId + k - 1
      BY <3>1, <3>2
    <3>3. PICK j : j = (CHOOSE h \in minted : idOf(h) = nextId + k - 1)
      BY Zenon
    <3>4. j \in minted /\ idOf(j) = nextId + k - 1
      BY <3>3, <3>9
    <3>5. j = i
      BY <1>9, <3>9, <3>4
    <3>6. made[k] = content(k)
      OBVIOUS
    <3>7. QED
      BY <3>9, <3>3, <3>5, <3>6
  <2>4. made = [k \in 1..M |-> content(k)]
    OBVIOUS
  <2> HIDE DEF content, made
  <2>5. made \in Seq(Contents \union {None}) /\ Len(made) = M
    <3>1. made \in [1..M -> Contents \union {None}]
      BY <2>2, <2>4
    <3>2. QED
      BY <1>3, <3>1
  <2>6. QED
    BY <2>3, <2>5
<1>11. /\ nextId' \in Nat /\ nextId <= nextId' /\ nextId' = Len(madeFor') + 1
       /\ madeFor' \in Seq(Contents \union {None})
       /\ \A n \in 1..(nextId - 1) : madeFor'[n] = madeFor[n]
       /\ \A i \in minted : madeFor'[idOf(i)] = files[s][games[i]]
  <2> HIDE DEF made, idOf, minted, M
  <2>1. madeFor' = madeFor \o made /\ nextId' = nextId + M
    BY <1>1
  <2>2. ASSUME NEW i \in minted PROVE madeFor'[idOf(i)] = files[s][games[i]]
    <3>1. idOf(i) \in nextId..(nextId + M - 1) /\ idOf(i) - Len(madeFor) = idOf(i) - nextId + 1
      BY <1>3, <1>4, <1>9
    <3>2. madeFor'[idOf(i)] = made[idOf(i) - Len(madeFor)]
      BY <1>3, <1>4, <1>10, <2>1, <3>1
    <3>3. QED
      BY <1>10, <3>1, <3>2
  <2>3. /\ madeFor' \in Seq(Contents \union {None}) /\ Len(madeFor') = Len(madeFor) + M
        /\ \A n \in 1..Len(madeFor) : madeFor'[n] = madeFor[n]
    <3> DEFINE C == Contents \union {None}
    <3>1. PICK a \in Seq(C), b \in Seq(C) : a = madeFor /\ b = made
      BY <1>4, <1>10
    <3>2. /\ a \o b \in Seq(C) /\ Len(a \o b) = Len(a) + Len(b)
          /\ \A n \in 1..Len(a) : (a \o b)[n] = a[n]
      <4> HIDE DEF C
      <4> QED
        BY Joining
    <3>3. QED
      BY <1>10, <2>1, <3>1, <3>2
  <2>4. /\ nextId' \in Nat /\ nextId <= nextId' /\ nextId' = Len(madeFor') + 1
    BY <1>3, <1>4, <2>1, <2>3
  <2>5. QED
    BY <1>4, <2>2, <2>3, <2>4
<1>12. PICK place \in [DOMAIN old -> others] :
         /\ \A k \in DOMAIN old : old[k] = entries[place[k]]
         /\ \A k, l \in DOMAIN old : place[k] = place[l] => k = l
         /\ \A i \in others : \E k \in DOMAIN old : place[k] = i
  <2>1. others \in SUBSET (DOMAIN entries) /\ entries \in Seq(Entry)
    BY DEF LibraryTypes
  <2> HIDE DEF others
  <2>2. QED
    BY <2>1, Picking
<1>13. old \in Seq(Entry) /\ entries \in Seq(Entry)
  <2>1. others \in SUBSET (DOMAIN entries) /\ entries \in Seq(Entry)
    BY DEF LibraryTypes
  <2> HIDE DEF others
  <2>2. QED
    BY <2>1, Picking
<1>14. PICK count \in Nat : count = Len(old) /\ DOMAIN old = 1..count
  <2> HIDE DEF old
  <2>1. QED
    BY <1>13
<1>15. /\ entries' \in Seq(Entry) /\ DOMAIN entries' = 1..(count + Len(games))
       /\ \A k \in 1..count : entries'[k] = old[k]
       /\ \A i \in 1..Len(games) : entries'[count + i] = scan[i]
  <2> HIDE DEF old, scan
  <2>1. entries' = old \o scan
    BY <1>1
  <2>2. PICK a \in Seq(Entry), b \in Seq(Entry) : a = old /\ b = scan
    BY <1>8, <1>13
  <2>3. /\ a \o b \in Seq(Entry) /\ DOMAIN (a \o b) = 1..(Len(a) + Len(b))
        /\ \A k \in 1..Len(a) : (a \o b)[k] = a[k]
        /\ \A i \in 1..Len(b) : (a \o b)[Len(a) + i] = b[i]
    BY Joining
  <2>4. QED
    BY <1>8, <1>14, <2>1, <2>2, <2>3
<1>16. ASSUME NEW i \in 1..Len(games)
       PROVE  LET e == entries'[count + i] IN
              /\ e \in Entry /\ e.source = s /\ e.path = games[i] /\ e.core = CoreIDFor(games[i])
              /\ e.id = idOf(i) /\ i \in DOMAIN games
              /\ i \in minted => IsNew(s, games, games[i], e)
              /\ i \notin minted => Continues(s, games, games[i], e)
  <2>1. entries'[count + i] = scan[i] /\ scan[i] \in Entry /\ i \in DOMAIN games
    BY <1>2, <1>7, <1>15
  <2>2. /\ scan[i].id = idOf(i) /\ scan[i].source = s /\ scan[i].path = games[i]
        /\ scan[i].core = CoreIDFor(games[i])
        /\ scan[i].played = IF i \in minted THEN 0 ELSE origin(i).played
    BY <2>1
  <2>3. i \in minted => IsNew(s, games, games[i], scan[i])
    <3>1. i \in minted => Existing(s, games, games[i]) = {}
      OBVIOUS
    <3>2. nextId' = nextId + M
      BY <1>1
    <3> HIDE DEF minted, scan, idOf, M, made
    <3>3. ASSUME i \in minted PROVE scan[i].id \in nextId..(nextId' - 1)
      <4>1. PICK n \in nextId..(nextId + M - 1) : n = idOf(i)
        BY <1>9, <3>3
      <4>2. QED
        BY <1>3, <1>4, <2>2, <3>2, <4>1
    <3>4. i \in minted => madeFor'[scan[i].id] = files[s][games[i]]
      BY <1>11, <2>2
    <3>5. i \in minted => scan[i].played = 0
      BY <2>2
    <3>6. QED
      BY <3>1, <3>3, <3>4, <3>5 DEF IsNew
  <2>4. i \notin minted => Continues(s, games, games[i], scan[i])
    <3>1. i \notin minted => idOf(i) = origin(i).id /\ origin(i) \in Existing(s, games, games[i])
      BY <1>5, <2>1
    <3> HIDE DEF minted, scan, idOf, origin
    <3>2. QED
      BY <2>2, <3>1 DEF Continues
  <2> HIDE DEF scan, minted, idOf
  <2>5. QED
    BY <2>1, <2>2, <2>3, <2>4
<1>17. Rescanned(s, games, count, place)
  <2>1. /\ place \in [1..count -> {i \in DOMAIN entries : entries[i].source # s}]
        /\ \A k, l \in 1..count : place[k] = place[l] => k = l
        /\ \A i \in DOMAIN entries : entries[i].source # s => \E k \in 1..count : place[k] = i
        /\ \A k \in 1..count : entries'[k] = entries[place[k]]
    <3> HIDE DEF old
    <3>1. QED
      BY <1>12, <1>14, <1>15
  <2>2. ASSUME NEW i \in 1..Len(games), NEW j \in 1..Len(games),
               IsNew(s, games, games[i], entries'[count + i]),
               IsNew(s, games, games[j], entries'[count + j]),
               entries'[count + i].id = entries'[count + j].id
        PROVE  i = j
    <3>1. i \in minted /\ j \in minted
      BY <1>2, <2>2 DEF IsNew
    <3> HIDE DEF minted, idOf
    <3>2. QED
      BY <1>9, <1>16, <2>2, <3>1
  <2> HIDE DEF minted, idOf
  <2>3. QED
    BY <1>15, <1>16, <2>1, <2>2 DEF Rescanned
<1>18. QED
  BY <1>11, <1>15, <1>17

-----------------------------------------------------------------------------
(* A scan keeps ids, places and plays apart. *)

LEMMA GamesListed ==
  ASSUME FileTypes, NEW s \in Sources
  PROVE  /\ GamesOf(Games(s)) /\ ToSet(Games(s)) = {p \in Paths : Listing(s)[p] # None}
         /\ Listing(s) \in [Paths -> Contents \union {None}]
         /\ \A p \in Paths : Listing(s)[p] # None => Listing(s)[p] = files[s][p]
<1> DEFINE Listed(p) == Listing(s)[p] # None
           I == {i \in DOMAIN PathOrder : Listed(PathOrder[i])}
<1>0. /\ Listing(s) \in [Paths -> Contents \union {None}]
      /\ \A p \in Paths : Listed(p) => Listing(s)[p] = files[s][p] /\ Claimants(ExtOf[p]) # <<>>
  <2>1. PICK tracks : tracks = Referenced(s)
    OBVIOUS
  <2>2. Listing(s) = [p \in Paths |-> IF Claimed(s, p) /\ p \notin tracks THEN files[s][p] ELSE None]
    BY <2>1, Zenon DEF Listing
  <2>3. \A p \in Paths : Claimed(s, p) => files[s][p] # None /\ Claimants(ExtOf[p]) # <<>>
    BY DEF Claimed
  <2>4. \A p \in Paths : files[s][p] \in Contents \union {None}
    BY DEF FileTypes
  <2>5. QED
    BY <2>2, <2>3, <2>4
<1> HIDE DEF Listed
<1>1. I \in SUBSET (DOMAIN PathOrder) /\ PathOrder \in Seq(Paths)
  BY OrderAssumption
<1>2. PICK place \in [DOMAIN Picked(PathOrder, I) -> I] :
         /\ \A k \in DOMAIN Picked(PathOrder, I) : Picked(PathOrder, I)[k] = PathOrder[place[k]]
         /\ \A k, l \in DOMAIN Picked(PathOrder, I) : place[k] = place[l] => k = l
         /\ \A i \in I : \E k \in DOMAIN Picked(PathOrder, I) : place[k] = i
  <2> HIDE DEF I
  <2>1. QED
    BY <1>1, Picking
<1>3. Picked(PathOrder, I) \in Seq(Paths)
  <2> HIDE DEF I
  <2>1. QED
    BY <1>1, Picking
<1>4. Games(s) = Picked(PathOrder, I)
  BY Zenon DEF Games, Listed
<1>5. \A k \in DOMAIN Games(s) : place[k] \in I /\ Games(s)[k] = PathOrder[place[k]]
  BY <1>2, <1>4
<1>6. \A k \in DOMAIN Games(s) : Games(s)[k] \in Paths /\ Listed(Games(s)[k])
  <2>1. \A i \in I : i \in DOMAIN PathOrder /\ Listed(PathOrder[i])
    OBVIOUS
  <2>2. \A i \in DOMAIN PathOrder : PathOrder[i] \in Paths
    BY <1>1
  <2> HIDE DEF I
  <2>3. QED
    BY <1>5, <2>1, <2>2, Zenon
<1>7. \A k, l \in DOMAIN Games(s) : Games(s)[k] = Games(s)[l] => k = l
  <2>1. ASSUME NEW k \in DOMAIN Games(s), NEW l \in DOMAIN Games(s), Games(s)[k] = Games(s)[l]
        PROVE  k = l
    <3>1. place[k] = place[l]
      BY <1>1, <1>5, <2>1, OrderAssumption
    <3>2. QED
      BY <1>2, <1>4, <3>1
  <2>2. QED
    BY <2>1
<1>8. ASSUME NEW p \in Paths, Listed(p) PROVE p \in ToSet(Games(s))
  <2>1. PICK i \in I : PathOrder[i] = p
    BY <1>8 DEF Paths, ToSet
  <2>2. PICK k \in DOMAIN Games(s) : place[k] = i
    BY <1>2, <1>4
  <2>3. Games(s)[k] = p
    BY <1>5, <2>1, <2>2
  <2>4. QED
    BY <2>3 DEF ToSet
<1>9. ToSet(Games(s)) \subseteq {p \in Paths : Listed(p)}
  BY <1>6 DEF ToSet
<1>10. GamesOf(Games(s))
  BY <1>0, <1>3, <1>4, <1>6, <1>7 DEF GamesOf
<1>11. QED
  BY <1>0, <1>8, <1>9, <1>10 DEF Listed

LEMMA NoGames == GamesOf(<<>>)
BY DEF GamesOf

LEMMA ScanKeepsApart ==
  ASSUME IInv, NEW s \in Sources, NEW games, GamesOf(games), ApplyScan(s, games),
         UNCHANGED <<catalog, plays>>
  PROVE  LibraryTypes' /\ IdsUnique' /\ OneEntryPerPlace' /\ OneEntryPerPlay'
<1> USE NoneAssumption
<1>1. LibraryTypes /\ FileTypes /\ IdsUnique /\ OneEntryPerPlace /\ OneEntryPerPlay
  BY DEF IInv
<1>2. /\ entries' \in Seq(Entry)
      /\ nextId' \in Nat /\ nextId <= nextId' /\ nextId' = Len(madeFor') + 1
      /\ madeFor' \in Seq(Contents \union {None})
  BY <1>1, Scanning
<1>3. PICK count, place : count \in Nat /\ Rescanned(s, games, count, place)
  BY <1>1, Scanning
<1>4. Len(games) \in Nat /\ DOMAIN games = 1..Len(games)
  BY DEF GamesOf
<1>5. ASSUME NEW k \in DOMAIN entries'
      PROVE  \/ k \in 1..count
             \/ k - count \in 1..Len(games) /\ k = count + (k - count)
  BY <1>3, <1>4, <1>5 DEF Rescanned
<1>6. nextId \in Nat /\ \A i \in DOMAIN entries : entries[i] \in Entry /\ entries[i].id \in Nat \ {0} /\ entries[i].id < nextId
  <2>1. \A i \in DOMAIN entries : entries[i] \in Entry
    BY <1>1 DEF LibraryTypes
  <2>2. QED
    BY <1>1, <2>1 DEF LibraryTypes, Entry
<1>7. ASSUME NEW i \in 1..Len(games)
      PROVE  LET e == entries'[count + i] IN
             /\ e.source = s /\ e.path = games[i]
             /\ \/ \E j \in DOMAIN entries :
                     /\ entries[j].source = s /\ entries[j] \in Existing(s, games, games[i])
                     /\ e.id = entries[j].id /\ e.played = entries[j].played
                \/ e.id \in nextId..(nextId' - 1) /\ e.played = 0 /\ IsNew(s, games, games[i], e)
  <2>1. PICK e : e = entries'[count + i]
    OBVIOUS
  <2>2. /\ e.source = s /\ e.path = games[i]
        /\ Continues(s, games, games[i], e) \/ IsNew(s, games, games[i], e)
    BY <1>3, <2>1 DEF Rescanned
  <2>3. ASSUME Continues(s, games, games[i], e)
        PROVE  \E j \in DOMAIN entries :
                 /\ entries[j].source = s /\ entries[j] \in Existing(s, games, games[i])
                 /\ e.id = entries[j].id /\ e.played = entries[j].played
    <3>1. PICK o \in Existing(s, games, games[i]) : e.id = o.id /\ e.played = o.played
      BY <2>3 DEF Continues
    <3>2. PICK j \in DOMAIN entries : entries[j] = o /\ o.source = s
      BY <1>1, Adopts
    <3>3. QED
      BY <3>1, <3>2
  <2>4. IsNew(s, games, games[i], e) => e.id \in nextId..(nextId' - 1) /\ e.played = 0
    BY DEF IsNew
  <2>5. QED
    BY <2>1, <2>2, <2>3, <2>4
<1>8. \A k \in 1..count : place[k] \in DOMAIN entries /\ entries'[k] = entries[place[k]] /\ entries'[k].source # s
  BY <1>3 DEF Rescanned
<1>9. \A k, l \in 1..count : place[k] = place[l] => k = l
  BY <1>3 DEF Rescanned
<1>10. LibraryTypes'
  <2>1. ASSUME NEW k \in DOMAIN entries'
        PROVE  /\ entries'[k].id < nextId' /\ entries'[k].played <= plays
               /\ entries'[k].source # None => entries'[k].path \in Paths
    <3>1. CASE k \in 1..count
      <4>1. PICK j \in DOMAIN entries : entries'[k] = entries[j]
        BY <1>8, <3>1
      <4>2. /\ entries[j].id < nextId /\ entries[j].played <= plays /\ entries[j].id \in Nat
            /\ entries[j].source # None => entries[j].path \in Paths
        BY <1>1, <1>6 DEF LibraryTypes
      <4>3. \A m, n, o \in Nat : m < n /\ n <= o => m < o
        OBVIOUS
      <4>4. entries[j].id < nextId'
        BY <1>2, <1>6, <4>2, <4>3
      <4>5. QED
        BY <4>1, <4>2, <4>4
    <3>2. CASE k - count \in 1..Len(games) /\ k = count + (k - count)
      <4>1. PICK i \in 1..Len(games) : k = count + i
        BY <3>2
      <4>2. games[i] \in Paths
        BY <1>4 DEF GamesOf
      <4>3. PICK e : e = entries'[k]
        OBVIOUS
      <4>4. e.path \in Paths
        BY <1>7, <4>1, <4>2, <4>3
      <4>5. \/ \E j \in DOMAIN entries : e.id = entries[j].id /\ e.played = entries[j].played
            \/ e.id \in nextId..(nextId' - 1) /\ e.played = 0
        BY <1>7, <4>1, <4>3
      <4>6. plays \in Nat /\ \A j \in DOMAIN entries : entries[j].played <= plays
        BY <1>1 DEF LibraryTypes
      <4>7. e.id < nextId' /\ e.played <= plays
        <5>1. CASE \E j \in DOMAIN entries : e.id = entries[j].id /\ e.played = entries[j].played
          <6>1. PICK j \in DOMAIN entries : e.id = entries[j].id /\ e.played = entries[j].played
            BY <5>1
          <6>2. PICK n \in Nat : n = entries[j].id
            BY <1>6
          <6>3. n < nextId'
            BY <1>2, <1>6, <6>2
          <6>4. QED
            BY <4>6, <6>1, <6>2, <6>3
        <5>2. CASE e.id \in nextId..(nextId' - 1) /\ e.played = 0
          BY <1>2, <1>6, <4>6, <5>2
        <5>3. QED
          BY <4>5, <5>1, <5>2
      <4>8. QED
        BY <4>3, <4>4, <4>7
    <3>3. QED
      BY <1>5, <3>1, <3>2
  <2>2. catalog' \in Seq(Cores) /\ plays' = plays /\ plays \in Nat
    BY <1>1 DEF LibraryTypes
  <2>3. QED
    BY <1>2, <2>1, <2>2 DEF LibraryTypes
<1>11. IdsUnique'
  <2>1. ASSUME NEW k \in 1..count, NEW i \in 1..Len(games) PROVE entries'[k].id # entries'[count + i].id
    <3>1. entries[place[k]].source # s /\ entries[place[k]].id < nextId /\ place[k] \in DOMAIN entries
      BY <1>6, <1>8
    <3>2. QED
      BY <1>1, <1>2, <1>6, <1>7, <1>8, <3>1 DEF IdsUnique
  <2>2. ASSUME NEW i \in 1..Len(games), NEW j \in 1..Len(games),
               entries'[count + i].id = entries'[count + j].id
        PROVE  i = j
    <3> DEFINE e(h) == entries'[count + h]
               New(h) == IsNew(s, games, games[h], e(h)) /\ e(h).id \in nextId..(nextId' - 1)
               From(h, o) == entries[o] \in Existing(s, games, games[h]) /\ e(h).id = entries[o].id
    <3>1. \A h \in {i, j} : New(h) \/ \E o \in DOMAIN entries : From(h, o)
      BY <1>7
    <3>2. CASE New(i) /\ New(j)
      BY <1>3, <2>2, <3>2 DEF Rescanned
    <3>3. ASSUME NEW o \in DOMAIN entries, NEW p \in DOMAIN entries, From(i, o), From(j, p) PROVE i = j
      <4>1. o = p
        BY <1>1, <2>2, <3>3 DEF IdsUnique
      <4>2. games[i] \in ToSet(games) /\ games[j] \in ToSet(games)
        BY <1>4 DEF ToSet
      <4>3. games[i] = games[j]
        BY <1>1, <3>3, <4>1, <4>2, AdoptedOnce
      <4>4. QED
        BY <1>4, <4>3 DEF GamesOf
    <3>4. ASSUME NEW g, NEW h, NEW o \in DOMAIN entries, From(g, o), New(h), e(g).id = e(h).id PROVE FALSE
      <4>1. PICK n \in nextId..(nextId' - 1) : n = e(h).id
        BY <3>4
      <4>2. PICK m \in Nat : m = entries[o].id /\ m < nextId
        BY <1>6
      <4>3. n = m
        BY <3>4, <4>1, <4>2
      <4>4. QED
        BY <1>2, <1>6, <4>1, <4>2, <4>3
    <3> HIDE DEF New, From, e
    <3>5. e(i).id = e(j).id
      BY <2>2 DEF e
    <3>6. QED
      BY <3>1, <3>2, <3>3, <3>4, <3>5
  <2>3. ASSUME NEW k \in 1..count, NEW l \in 1..count, entries'[k].id = entries'[l].id PROVE k = l
    BY <1>1, <1>8, <1>9, <2>3 DEF IdsUnique
  <2>4. QED
    BY <1>5, <2>1, <2>2, <2>3 DEF IdsUnique
<1>12. OneEntryPerPlace'
  <2>1. ASSUME NEW k \in DOMAIN entries', NEW l \in DOMAIN entries',
               entries'[k].source # None, entries'[k].source = entries'[l].source,
               entries'[k].path = entries'[l].path
        PROVE  k = l
    <3>1. CASE k \in 1..count /\ l \in 1..count
      BY <1>1, <1>8, <1>9, <2>1, <3>1 DEF OneEntryPerPlace
    <3>2. ASSUME NEW i \in 1..Len(games), NEW j \in 1..Len(games), k = count + i, l = count + j PROVE k = l
      <4>1. games[i] = games[j]
        BY <1>7, <2>1, <3>2
      <4>2. QED
        BY <1>4, <3>2, <4>1 DEF GamesOf
    <3>3. \A h \in 1..count, i \in 1..Len(games) : entries'[h].source # entries'[count + i].source
      BY <1>7, <1>8
    <3>4. QED
      BY <1>5, <2>1, <3>1, <3>2, <3>3
  <2>2. QED
    BY <2>1 DEF OneEntryPerPlace
<1>13. OneEntryPerPlay'
  <2>1. ASSUME NEW k \in DOMAIN entries', entries'[k].source = None PROVE k \in 1..count
    BY <1>5, <1>7, <2>1
  <2>2. QED
    BY <1>1, <1>8, <1>9, <2>1 DEF OneEntryPerPlay
<1>14. QED
  BY <1>10, <1>11, <1>12, <1>13

-----------------------------------------------------------------------------
(* Saves follow their game. *)

(* A file that a scan lists goes on with an entry of its own content, if   *)
(* none came in another's stead.                                           *)
LEMMA AdoptedIsSame ==
  ASSUME IInv, NEW s \in steady, NEW games,
         NEW g \in [Paths -> Contents \union {None}],
         ToSet(games) = {q \in Paths : g[q] # None},
         \A q \in Paths : g[q] # None => g[q] = files[s][q],
         ~Superseded(seen[s], g),
         NEW p \in ToSet(games), NEW o \in Existing(s, games, p)
  PROVE  g[p] = madeFor[o.id] /\ o.id \in 1..(nextId - 1)
<1>1. /\ LibraryTypes /\ FileTypes /\ FilesApart /\ SeenApart /\ SameCore
      /\ s \in Sources /\ Describes(s)
  BY DEF IInv, FileTypes
<1>2. PICK f \in [Paths -> Contents \union {None}] : f = seen[s]
  BY <1>1 DEF FileTypes
<1>3. /\ \A q \in Paths : f[q] # None /\ g[q] # None => f[q] = g[q]
      /\ \A q \in Paths : \/ Under(f, NameOf[q]) \subseteq Under(g, NameOf[q])
                         \/ Under(g, NameOf[q]) \subseteq Under(f, NameOf[q])
  BY <1>2, Zenon DEF Superseded
<1>4. \A q, r \in Paths : f[q] # None /\ f[q] = f[r] => q = r
  BY <1>1, <1>2 DEF SeenApart
<1>5. \A q, r \in Paths : g[q] # None /\ g[q] = g[r] => q = r
  BY <1>1 DEF FilesApart
<1>6. /\ o \in Previous(s) /\ o.path \in Paths /\ o.id \in 1..(nextId - 1)
      /\ f[o.path] # None /\ f[o.path] = madeFor[o.id]
  <2>1. PICK i \in DOMAIN entries : entries[i] = o /\ o.source = s
    BY <1>1, Adopts
  <2>2. s # None /\ o \in Entry /\ nextId \in Nat /\ o.id < nextId /\ (o.source # None => o.path \in Paths)
    BY <1>1, <2>1, NoneAssumption DEF LibraryTypes
  <2>3. o.id \in 1..(nextId - 1)
    BY <2>2 DEF Entry
  <2>4. f[o.path] # None /\ f[o.path] = madeFor[o.id]
    BY <1>1, <1>2, <2>1 DEF Describes
  <2>5. o \in Previous(s)
    BY <1>1, Adopts
  <2>6. QED
    BY <2>1, <2>2, <2>3, <2>4, <2>5
<1>7. \A q \in Paths : f[q] # None => \E d \in Previous(s) : d.path = q
  BY <1>1, <1>2 DEF Describes, Previous
<1>8. p \in Paths /\ g[p] # None
  OBVIOUS
<1>9. CASE o.path = p
  BY <1>3, <1>6, <1>8, <1>9
<1>10. CASE o.path # p
  <2>1. /\ g[o.path] = None /\ NameOf[o.path] = NameOf[p] /\ o.core = CoreIDFor(p)
        /\ \A d \in Previous(s) : d.path # p
    BY <1>1, <1>6, <1>10, Adopts
  <2>2. \A d \in Previous(s) :
          d.path \notin ToSet(games) /\ NameOf[d.path] = NameOf[p] /\ d.core = CoreIDFor(p) => d = o
    BY <1>1, <1>10, Adopts
  <2>3. {q \in ToSet(games) : NameOf[q] = NameOf[p] /\ \A d \in Previous(s) : d.path # q} = {p}
    BY <1>1, <1>10, Adopts
  <2>4. SUFFICES ASSUME g[p] # f[o.path] PROVE FALSE
    BY <1>6
  <2>5. f[o.path] \in Under(f, NameOf[p]) \ Under(g, NameOf[p])
    <3>1. f[o.path] \in Under(f, NameOf[p])
      BY <1>6, <2>1 DEF Under
    <3>2. ASSUME NEW q \in Paths, NameOf[q] = NameOf[p], g[q] = f[o.path] PROVE FALSE
      <4>1. q # p /\ q \in ToSet(games)
        BY <1>6, <2>4, <3>2
      <4>2. PICK d \in Previous(s) : d.path = q
        BY <2>3, <3>2, <4>1
      <4>3. f[q] # None
        <5>1. PICK i \in DOMAIN entries : entries[i] = d /\ d.source = s
          BY DEF Previous
        <5>2. QED
          BY <1>1, <1>2, <4>2, <5>1 DEF Describes
      <4>4. f[q] = f[o.path]
        BY <1>3, <1>6, <3>2, <4>3
      <4>5. QED
        BY <1>4, <1>6, <2>1, <3>2, <4>3, <4>4
    <3>3. QED
      BY <3>1, <3>2 DEF Under
  <2>6. g[p] \in Under(g, NameOf[p]) \ Under(f, NameOf[p])
    <3>1. g[p] \in Under(g, NameOf[p])
      BY <1>8 DEF Under
    <3>2. ASSUME NEW q \in Paths, NameOf[q] = NameOf[p], f[q] = g[p] PROVE FALSE
      <4>1. PICK d \in Previous(s) : d.path = q
        BY <1>7, <1>8, <3>2
      <4>2. g[q] = None
        BY <1>3, <1>5, <1>8, <2>1, <3>2, <4>1
      <4>3. d.core = o.core
        <5>1. PICK i \in DOMAIN entries, j \in DOMAIN entries :
                entries[i] = d /\ entries[j] = o /\ d.source = s /\ o.source = s
          BY <1>6 DEF Previous
        <5>2. ExtOf[d.path] = ExtOf[o.path]
          BY <1>6, <2>1, <3>2, <4>1, NameAssumption
        <5>3. QED
          BY <1>1, <5>1, <5>2, NoneAssumption DEF SameCore
      <4>4. d = o
        BY <2>1, <2>2, <3>2, <4>1, <4>2, <4>3
      <4>5. QED
        BY <2>4, <3>2, <4>1, <4>4
    <3>3. QED
      BY <1>8, <3>1, <3>2 DEF Under
  <2>7. QED
    BY <1>3, <1>8, <2>5, <2>6
<1>11. QED
  BY <1>6, <1>9, <1>10

(* A scan that lists these files of s. *)
LEMMA ListedIInv ==
  ASSUME IInv, NEW s \in Sources, NEW games, GamesOf(games), ApplyScan(s, games),
         NEW g \in [Paths -> Contents \union {None}], Settle(s, g),
         ToSet(games) = {q \in Paths : g[q] # None},
         \A q \in Paths : g[q] # None => g[q] = files[s][q],
         UNCHANGED <<files, catalog, plays>>
  PROVE  IInv'
<1> USE NoneAssumption
<1>1. /\ LibraryTypes /\ FileTypes /\ FilesApart /\ SeenApart /\ SameCore
      /\ \A r \in Sources : Describes(r)
  BY DEF IInv
<1>2. /\ seen \in [Sources -> [Paths -> Contents \union {None}]] /\ steady \subseteq Sources
      /\ files \in [Sources -> [Paths -> Contents \union {None}]]
  BY <1>1 DEF FileTypes
<1>3. /\ seen'[s] = g /\ \A r \in Sources : r # s => seen'[r] = seen[r]
      /\ seen' \in [Sources -> [Paths -> Contents \union {None}]]
      /\ steady' \subseteq steady /\ (s \in steady' => s \in steady /\ ~Superseded(seen[s], g))
      /\ \A r \in Sources : r \in steady' => r \in steady
  <2>1. seen' = [seen EXCEPT ![s] = g]
    BY DEF Settle
  <2>2. /\ steady' \subseteq steady
        /\ s \in steady' => s \in steady /\ ~Superseded(seen[s], g)
    BY Zenon DEF Settle
  <2>3. QED
    BY <1>2, <2>1, <2>2
<1>4. FileTypes' /\ FilesApart'
  BY <1>1, <1>2, <1>3 DEF FileTypes, FilesApart
<1>5. SeenApart'
  <2>1. \A p, q \in Paths : g[p] # None /\ g[p] = g[q] => p = q
    BY <1>1 DEF FilesApart
  <2>2. QED
    BY <1>1, <1>3, <2>1 DEF SeenApart
<1>6. PICK count, place : count \in Nat /\ Rescanned(s, games, count, place)
  BY <1>1, Scanning
<1>7. \A n \in 1..(nextId - 1) : madeFor'[n] = madeFor[n]
  BY <1>1, Scanning
<1>8. Len(games) \in Nat /\ DOMAIN games = 1..Len(games)
  BY DEF GamesOf
<1>9. ASSUME NEW k \in DOMAIN entries'
      PROVE  k \in 1..count \/ \E i \in 1..Len(games) : k = count + i
  <2>1. k \in 1..count \/ (k - count \in 1..Len(games) /\ k = count + (k - count))
    BY <1>6, <1>8, <1>9 DEF Rescanned
  <2>2. QED
    BY <2>1
<1>10. ASSUME NEW k \in 1..count
       PROVE  /\ place[k] \in DOMAIN entries /\ entries'[k] = entries[place[k]]
              /\ entries'[k].source # s /\ k \in DOMAIN entries'
  BY <1>6, <1>8 DEF Rescanned
<1>11. ASSUME NEW i \in 1..Len(games)
       PROVE  /\ count + i \in DOMAIN entries' /\ entries'[count + i].source = s
              /\ entries'[count + i].path = games[i] /\ games[i] \in ToSet(games)
              /\ entries'[count + i].core = CoreIDFor(games[i])
              /\ \/ Continues(s, games, games[i], entries'[count + i])
                 \/ IsNew(s, games, games[i], entries'[count + i])
  <2>1. count + i \in DOMAIN entries' /\ games[i] \in ToSet(games)
    <3>1. DOMAIN entries' = 1..(count + Len(games)) /\ count \in Nat
      BY <1>6 DEF Rescanned
    <3>2. games[i] \in ToSet(games)
      BY <1>8 DEF ToSet
    <3>3. QED
      BY <1>8, <3>1, <3>2
  <2>2. PICK e : e = entries'[count + i]
    OBVIOUS
  <2>3. /\ e.source = s /\ e.path = games[i] /\ e.core = CoreIDFor(games[i])
        /\ Continues(s, games, games[i], e) \/ IsNew(s, games, games[i], e)
    BY <1>6, <2>2 DEF Rescanned
  <2>4. QED
    BY <2>1, <2>2, <2>3
<1>12. SameCore'
  <2>1. ASSUME NEW k \in DOMAIN entries', NEW l \in DOMAIN entries',
               entries'[k].source # None, entries'[k].source = entries'[l].source,
               ExtOf[entries'[k].path] = ExtOf[entries'[l].path]
        PROVE  entries'[k].core = entries'[l].core
    <3>1. CASE k \in 1..count /\ l \in 1..count
      BY <1>1, <1>10, <2>1, <3>1 DEF SameCore
    <3>2. ASSUME NEW i \in 1..Len(games), NEW j \in 1..Len(games), k = count + i, l = count + j
          PROVE  entries'[k].core = entries'[l].core
      BY <1>11, <2>1, <3>2 DEF CoreIDFor
    <3>3. QED
      BY <1>9, <1>10, <1>11, <2>1, <3>1, <3>2
  <2>2. QED
    BY <2>1 DEF SameCore
<1>13. Describes(s)'
  <2>1. ASSUME NEW k \in DOMAIN entries', entries'[k].source = s
        PROVE  /\ g[entries'[k].path] # None
               /\ s \in steady' => g[entries'[k].path] = madeFor'[entries'[k].id]
    <3>1. PICK i \in 1..Len(games) : k = count + i
      BY <1>9, <1>10, <2>1
    <3>2. PICK e : e = entries'[k]
      OBVIOUS
    <3>3. PICK p \in ToSet(games) : p = games[i]
      BY <1>11
    <3>4. e.path = p /\ (Continues(s, games, p, e) \/ IsNew(s, games, p, e)) /\ g[p] # None /\ p \in Paths
      BY <1>11, <3>1, <3>2, <3>3
    <3>5. ASSUME s \in steady', Continues(s, games, p, e) PROVE g[p] = madeFor'[e.id]
      <4>1. PICK o \in Existing(s, games, p) : e.id = o.id
        BY <3>5 DEF Continues
      <4>2. g[p] = madeFor[o.id] /\ o.id \in 1..(nextId - 1)
        BY <1>3, <3>5, AdoptedIsSame
      <4>3. QED
        BY <1>7, <4>1, <4>2
    <3>6. IsNew(s, games, p, e) => g[p] = madeFor'[e.id]
      BY <3>4 DEF IsNew
    <3>7. QED
      BY <3>2, <3>4, <3>5, <3>6
  <2>2. ASSUME NEW q \in Paths, g[q] # None
        PROVE  \E k \in DOMAIN entries' : entries'[k].source = s /\ entries'[k].path = q
    <3>1. PICK i \in 1..Len(games) : games[i] = q
      BY <1>8, <2>2 DEF ToSet
    <3>2. QED
      BY <1>11, <3>1
  <2>3. QED
    BY <1>3, <2>1, <2>2 DEF Describes
<1>14. ASSUME NEW r \in Sources, r # s PROVE Describes(r)'
  <2>1. seen'[r] = seen[r] /\ (r \in steady' => r \in steady) /\ Describes(r)
    BY <1>1, <1>3, <1>14
  <2>2. ASSUME NEW k \in DOMAIN entries', entries'[k].source = r
        PROVE  /\ seen[r][entries'[k].path] # None
               /\ r \in steady => seen[r][entries'[k].path] = madeFor'[entries'[k].id]
    <3>1. k \in 1..count
      BY <1>9, <1>11, <1>14, <2>2
    <3>2. PICK j \in DOMAIN entries : entries'[k] = entries[j]
      BY <1>10, <3>1
    <3>3. entries[j].id \in 1..(nextId - 1)
      <4>1. entries[j] \in Entry /\ entries[j].id < nextId /\ nextId \in Nat
        BY <1>1 DEF LibraryTypes
      <4>2. QED
        BY <4>1 DEF Entry
    <3>4. QED
      BY <1>7, <2>1, <2>2, <3>2, <3>3 DEF Describes
  <2>3. ASSUME NEW q \in Paths, seen[r][q] # None
        PROVE  \E k \in DOMAIN entries' : entries'[k].source = r /\ entries'[k].path = q
    <3>1. PICK j \in DOMAIN entries : entries[j].source = r /\ entries[j].path = q
      BY <2>1, <2>3 DEF Describes
    <3>2. PICK k \in 1..count : place[k] = j
      BY <1>6, <1>14, <3>1 DEF Rescanned
    <3>3. QED
      BY <1>10, <3>1, <3>2
  <2>4. QED
    BY <2>1, <2>2, <2>3 DEF Describes
<1>15. LibraryTypes' /\ IdsUnique' /\ OneEntryPerPlace' /\ OneEntryPerPlay'
  BY ScanKeepsApart
<1>16. QED
  BY <1>4, <1>5, <1>12, <1>13, <1>14, <1>15 DEF IInv

(* A scan finds the games of its files, one of a folder that cannot be     *)
(* read finds none.                                                        *)
LEMMA ScanIInv ==
  ASSUME IInv, NEW s \in Sources, Scan(s) \/ ScanFails(s)
  PROVE  IInv'
<1>1. FileTypes
  BY DEF IInv
<1>2. UNCHANGED <<files, catalog, plays>>
  BY DEF Scan, ScanFails
<1>3. CASE Scan(s)
  <2>1. ApplyScan(s, Games(s)) /\ Settle(s, Listing(s))
    BY <1>3 DEF Scan
  <2>2. /\ GamesOf(Games(s)) /\ ToSet(Games(s)) = {p \in Paths : Listing(s)[p] # None}
        /\ Listing(s) \in [Paths -> Contents \union {None}]
        /\ \A p \in Paths : Listing(s)[p] # None => Listing(s)[p] = files[s][p]
    BY <1>1, GamesListed
  <2>3. QED
    BY <1>2, <2>1, <2>2, ListedIInv
<1>4. CASE ScanFails(s)
  <2>1. PICK g \in [Paths -> Contents \union {None}] : g = [p \in Paths |-> None]
    OBVIOUS
  <2>2. ApplyScan(s, <<>>) /\ Settle(s, g) /\ GamesOf(<<>>)
    BY <1>4, <2>1, NoGames DEF ScanFails
  <2>3. ToSet(<<>>) = {p \in Paths : g[p] # None} /\ \A p \in Paths : g[p] = None
    BY <2>1 DEF ToSet
  <2>4. QED
    BY <1>2, <2>2, <2>3, ListedIInv
<1>5. QED
  BY <1>3, <1>4

-----------------------------------------------------------------------------
(* The files change, the app is opened again. *)

LEMMA ChangeIInv ==
  ASSUME IInv, NEW s \in Sources, Change(s)
  PROVE  IInv'
<1> USE NoneAssumption
<1>1. /\ LibraryTypes /\ FileTypes /\ IdsUnique /\ OneEntryPerPlace /\ OneEntryPerPlay
      /\ FilesApart /\ SeenApart /\ SameCore /\ \A r \in Sources : Describes(r)
  BY DEF IInv
<1>2. /\ seen \in [Sources -> [Paths -> Contents \union {None}]] /\ steady \subseteq Sources
      /\ files \in [Sources -> [Paths -> Contents \union {None}]]
  BY <1>1 DEF FileTypes
<1>3. UNCHANGED <<catalog, entries, nextId, madeFor, plays, seen, steady>>
  BY DEF Change
<1>4. /\ LibraryTypes' /\ IdsUnique' /\ OneEntryPerPlace' /\ OneEntryPerPlay'
      /\ SeenApart' /\ SameCore' /\ \A r \in Sources : Describes(r)'
  BY <1>1, <1>3
  DEF LibraryTypes, IdsUnique, OneEntryPerPlace, OneEntryPerPlay, SeenApart, SameCore, Describes
<1>5. /\ files' \in [Sources -> [Paths -> Contents \union {None}]]
      /\ FilesApart'
  <2>1. CASE \E p \in Paths, x \in Contents :
               /\ files[s][p] = None /\ \A r \in Sources, q \in Paths : files[r][q] # x
               /\ files' = [files EXCEPT ![s][p] = x]
    <3>1. PICK p \in Paths, x \in Contents :
               /\ files[s][p] = None /\ \A r \in Sources, q \in Paths : files[r][q] # x
               /\ files' = [files EXCEPT ![s][p] = x]
      BY <2>1
    <3>2. /\ files' \in [Sources -> [Paths -> Contents \union {None}]]
          /\ files'[s] = [files[s] EXCEPT ![p] = x] /\ \A r \in Sources : r # s => files'[r] = files[r]
      BY <1>2, <3>1
    <3>3. files'[s][p] = x /\ \A r \in Sources, q \in Paths : r # s \/ q # p => files'[r][q] = files[r][q]
      BY <1>2, <3>2
    <3>4. FilesApart'
      BY <1>1, <3>1, <3>3 DEF FilesApart
    <3>5. QED
      BY <3>2, <3>4
  <2>2. CASE \E p \in Paths : files[s][p] # None /\ files' = [files EXCEPT ![s][p] = None]
    <3>1. PICK p \in Paths : files' = [files EXCEPT ![s][p] = None]
      BY <2>2
    <3>2. /\ files' \in [Sources -> [Paths -> Contents \union {None}]]
          /\ files'[s] = [files[s] EXCEPT ![p] = None] /\ \A r \in Sources : r # s => files'[r] = files[r]
      BY <1>2, <3>1
    <3>3. files'[s][p] = None /\ \A r \in Sources, q \in Paths : r # s \/ q # p => files'[r][q] = files[r][q]
      BY <1>2, <3>2
    <3>4. FilesApart'
      BY <1>1, <3>1, <3>3 DEF FilesApart
    <3>5. QED
      BY <3>2, <3>4
  <2>3. CASE \E p, q \in Paths :
               /\ files[s][p] # None /\ files[s][q] = None /\ ExtOf[p] = ExtOf[q]
               /\ files' = [files EXCEPT ![s][q] = files[s][p], ![s][p] = None]
    <3>1. PICK p \in Paths, q \in Paths :
               /\ files[s][p] # None /\ files[s][q] = None
               /\ files' = [files EXCEPT ![s][q] = files[s][p], ![s][p] = None]
      BY <2>3
    <3>2. /\ files' \in [Sources -> [Paths -> Contents \union {None}]]
          /\ files'[s] = [files[s] EXCEPT ![q] = files[s][p], ![p] = None]
          /\ \A r \in Sources : r # s => files'[r] = files[r]
      BY <1>2, <3>1
    <3>3. /\ files'[s][p] = None /\ files'[s][q] = files[s][p]
          /\ \A r \in Sources, t \in Paths : r # s \/ (t # p /\ t # q) => files'[r][t] = files[r][t]
      BY <1>2, <3>1, <3>2
    <3>4. FilesApart'
      <4>1. ASSUME NEW r1 \in Sources, NEW r2 \in Sources, NEW t1 \in Paths, NEW t2 \in Paths,
                   files'[r1][t1] # None, files'[r1][t1] = files'[r2][t2]
            PROVE  r1 = r2 /\ t1 = t2
        <5> DEFINE From(r, t) == IF r = s /\ t = q THEN p ELSE t
        <5>1. ASSUME NEW r \in Sources, NEW t \in Paths, files'[r][t] # None
              PROVE  From(r, t) \in Paths /\ files[r][From(r, t)] = files'[r][t] /\ (r = s => t # p)
          BY <3>3, <5>1
        <5>2. r1 = r2 /\ From(r1, t1) = From(r2, t2)
          <6> HIDE DEF From
          <6>1. QED
            BY <1>1, <4>1, <5>1 DEF FilesApart
        <5>3. (r1 = s => t1 # p) /\ (r2 = s => t2 # p)
          BY <4>1, <5>1
        <5>4. QED
          BY <5>2, <5>3
      <4>2. QED
        BY <4>1 DEF FilesApart
    <3>5. QED
      BY <3>2, <3>4
  <2>4. QED
    BY <2>1, <2>2, <2>3 DEF Change
<1>6. FileTypes'
  BY <1>2, <1>3, <1>5 DEF FileTypes
<1>7. QED
  BY <1>4, <1>5, <1>6 DEF IInv

LEMMA RelaunchIInv ==
  ASSUME IInv, Relaunch
  PROVE  IInv'
<1>1. PICK cores : catalog' = Picked(CoreOrder, {i \in DOMAIN CoreOrder : CoreOrder[i] \in cores})
  BY DEF Relaunch
<1>2. catalog' \in Seq(Cores)
  <2>1. PICK I \in SUBSET (DOMAIN CoreOrder) : I = {i \in DOMAIN CoreOrder : CoreOrder[i] \in cores}
    OBVIOUS
  <2>2. Picked(CoreOrder, I) \in Seq(Cores)
    BY OrderAssumption, Picking
  <2>3. QED
    BY <1>1, <2>1, <2>2
<1>3. UNCHANGED <<files, entries, nextId, madeFor, plays, seen, steady>>
  BY DEF Relaunch
<1>4. SeenApart' /\ SameCore' /\ \A s \in Sources : Describes(s)'
  BY <1>3 DEF IInv, SeenApart, SameCore, Describes
<1>5. QED
  BY <1>2, <1>3, <1>4
  DEF IInv, LibraryTypes, FileTypes, IdsUnique, OneEntryPerPlace, OneEntryPerPlay, FilesApart

-----------------------------------------------------------------------------
(* A play is recorded. *)

LEMMA CandidatesAreCores ==
  ASSUME LibraryTypes, NEW ext
  PROVE  Claimants(ext) \in Seq(Cores)
<1>1. PICK I \in SUBSET (DOMAIN catalog) : I = {i \in DOMAIN catalog : ext \in Claims[catalog[i]]}
  OBVIOUS
<1>2. Picked(catalog, I) \in Seq(Cores)
  BY Picking DEF LibraryTypes
<1>3. QED
  BY <1>1, <1>2 DEF Claimants

LEMMA SelectsACore ==
  ASSUME LibraryTypes, NEW ext, NEW preferred, NEW content,
         Select(ext, preferred, content) # None
  PROVE  Select(ext, preferred, content) \in Cores
<1>1. PICK candidates \in Seq(Cores) : candidates = Claimants(ext)
  BY CandidatesAreCores
<1>2. PICK I \in SUBSET (DOMAIN candidates) :
        I = {i \in DOMAIN candidates : Plays[candidates[i]] \in {SystemOf(content)} \ {None}}
  OBVIOUS
<1>3. PICK forDisc \in Seq(Cores) : forDisc = Picked(candidates, I)
  BY Picking
<1>4. Select(ext, preferred, content) =
        IF preferred \in ToSet(candidates) THEN preferred
        ELSE IF forDisc # <<>> THEN Head(forDisc)
        ELSE IF candidates # <<>> THEN Head(candidates) ELSE None
  BY <1>1, <1>2, <1>3 DEF Select
<1>5. preferred \in ToSet(candidates) => preferred \in Cores
  BY DEF ToSet
<1>6. (forDisc # <<>> => Head(forDisc) \in Cores) /\ (candidates # <<>> => Head(candidates) \in Cores)
  OBVIOUS
<1>7. QED
  BY <1>4, <1>5, <1>6

LEMMA FirstPlace ==
  ASSUME NEW n \in Nat, NEW I \in SUBSET (1..n), I # {}
  PROVE  \E i \in I : \A j \in I : i <= j
<1>1. IsFiniteSet(I) /\ Cardinality(I) \in Nat
  BY Ranks
<1>2. Cardinality(I) # 0
  BY <1>1, FS_EmptySet, Zenon
<1>3. PICK i \in I : Rank(i, I) = 0
  <2>1. 1 \in 1..Cardinality(I)
    BY <1>1, <1>2
  <2>2. QED
    BY <2>1, Ranks
<1>4. \A j \in I : j < i => Rank(j, I) < 0 /\ Rank(j, I) \in 0..(Cardinality(I) - 1)
  BY <1>3, Ranks
<1>5. QED
  BY <1>1, <1>3, <1>4

(* An entry is stamped, or one is added that has a path and core of its own *)
Stamped(i) ==
  /\ i \in DOMAIN entries /\ DOMAIN entries' = DOMAIN entries
  /\ \A j \in DOMAIN entries :
       /\ entries'[j].id = entries[j].id /\ entries'[j].source = entries[j].source
       /\ entries'[j].path = entries[j].path /\ entries'[j].core = entries[j].core
       /\ entries'[j].played = IF j = i THEN plays + 1 ELSE entries[j].played
  /\ UNCHANGED <<nextId, madeFor>>
Added(path, core, content) ==
  /\ \A i \in DOMAIN entries : entries[i].path # path \/ entries[i].core # core
  /\ DOMAIN entries' = DOMAIN entries \union {Len(entries) + 1}
  /\ \A j \in DOMAIN entries : j # Len(entries) + 1 /\ entries'[j] = entries[j]
  /\ LET e == entries'[Len(entries) + 1] IN
       e.id = nextId /\ e.source = None /\ e.path = path /\ e.core = core /\ e.played = plays + 1
  /\ nextId' = nextId + 1 /\ madeFor' = Append(madeFor, content)

LEMMA Recording ==
  ASSUME LibraryTypes, NEW path \in Paths \union (Sources \X Paths), NEW core \in Cores,
         NEW bookmark \in Contents \union {None}, NEW content,
         RecordPlay(path, core, bookmark, content)
  PROVE  /\ entries' \in Seq(Entry) /\ plays' = plays + 1
         /\ (\E i \in DOMAIN entries : Stamped(i)) \/ Added(path, core, content)
<1> DEFINE same == {i \in DOMAIN entries : entries[i].core = core /\ entries[i].path = path}
           r == Recorded(path, core)
<1>1. entries \in Seq(Entry) /\ plays \in Nat /\ nextId \in Nat \ {0} /\ plays' = plays + 1
  BY DEF LibraryTypes, RecordPlay
<1>2. r = IF same = {} THEN Len(entries) + 1 ELSE CHOOSE i \in same : \A j \in same : i <= j
  BY DEF Recorded
<1>3. Len(entries) \in Nat /\ DOMAIN entries = 1..Len(entries)
  BY <1>1
<1>4. CASE same = {}
  <2>1. r = Len(entries) + 1 /\ r \notin DOMAIN entries
    BY <1>2, <1>3, <1>4
  <2> DEFINE e == [id |-> nextId, source |-> None, path |-> path, core |-> core,
                   bookmark |-> bookmark, played |-> plays + 1]
  <2>2. /\ entries' = Append(entries, e)
        /\ nextId' = nextId + 1 /\ madeFor' = Append(madeFor, content)
    BY <2>1 DEF RecordPlay
  <2>3. e \in Entry
    BY <1>1 DEF Entry
  <2>4. e.id = nextId /\ e.source = None /\ e.path = path /\ e.core = core /\ e.played = plays + 1
    OBVIOUS
  <2> HIDE DEF e
  <2>5. /\ entries' \in Seq(Entry) /\ DOMAIN entries' = DOMAIN entries \union {Len(entries) + 1}
        /\ \A j \in DOMAIN entries : j # Len(entries) + 1 /\ entries'[j] = entries[j]
        /\ entries'[Len(entries) + 1] = e
    BY <1>1, <1>3, <2>2, <2>3
  <2>6. Added(path, core, content)
    BY <1>4, <2>2, <2>4, <2>5 DEF Added
  <2>7. QED
    BY <1>1, <2>5, <2>6
<1>5. CASE same # {}
  <2>1. \E i \in same : \A j \in same : i <= j
    <3>1. PICK S \in SUBSET (1..Len(entries)) : S = same /\ S # {}
      BY <1>3, <1>5
    <3>2. \E i \in S : \A j \in S : i <= j
      BY <1>3, <3>1, FirstPlace
    <3>3. QED
      BY <3>1, <3>2, Zenon
  <2>2. PICK i : i = (CHOOSE k \in same : \A j \in same : k <= j)
    BY Zenon
  <2>3. i \in same
    BY <2>1, <2>2
  <2>4. r = i /\ i \in DOMAIN entries
    BY <1>2, <1>5, <2>2, <2>3
  <2>5. /\ entries' = [entries EXCEPT ![i].played = plays + 1,
                         ![i].bookmark = IF bookmark = None THEN @ ELSE bookmark]
        /\ UNCHANGED <<nextId, madeFor>>
    BY <2>4 DEF RecordPlay
  <2>6. PICK e \in Entry : e = entries[i]
    BY <1>1, <2>4
  <2>7. PICK b \in Contents \union {None} : b = IF bookmark = None THEN e.bookmark ELSE bookmark
    BY DEF Entry
  <2> DEFINE d == [[e EXCEPT !.played = plays + 1] EXCEPT !.bookmark = b]
  <2>8. d \in Entry /\ d.id = e.id /\ d.source = e.source /\ d.path = e.path /\ d.core = e.core
        /\ d.played = plays + 1
    <3>1. d = [id |-> e.id, source |-> e.source, path |-> e.path, core |-> e.core,
               bookmark |-> b, played |-> plays + 1]
      <4>1. e = [id |-> e.id, source |-> e.source, path |-> e.path, core |-> e.core,
                 bookmark |-> e.bookmark, played |-> e.played]
        BY DEF Entry
      <4>2. PICK i1, s1, p1, c1, b1, n1 :
              e = [id |-> i1, source |-> s1, path |-> p1, core |-> c1, bookmark |-> b1, played |-> n1]
        BY <4>1, Zenon
      <4>3. PICK c : c = [e EXCEPT !.played = plays + 1]
        OBVIOUS
      <4>4. c = [id |-> i1, source |-> s1, path |-> p1, core |-> c1, bookmark |-> b1, played |-> plays + 1]
        BY <4>2, <4>3
      <4>5. [c EXCEPT !.bookmark = b] =
              [id |-> i1, source |-> s1, path |-> p1, core |-> c1, bookmark |-> b, played |-> plays + 1]
        BY <4>4
      <4>6. d = [c EXCEPT !.bookmark = b]
        BY <4>3, Zenon
      <4>7. e.id = i1 /\ e.source = s1 /\ e.path = p1 /\ e.core = c1
        BY <4>2
      <4> HIDE DEF d
      <4>8. QED
        BY <4>5, <4>6, <4>7
    <3>2. /\ e.id \in Nat \ {0} /\ e.source \in Sources \union {None}
          /\ e.path \in Paths \union (Sources \X Paths) /\ e.core \in Cores /\ plays + 1 \in Nat
      BY <1>1 DEF Entry
    <3> HIDE DEF d
    <3>3. QED
      BY <3>1, <3>2 DEF Entry
  <2>9. entries' = [entries EXCEPT ![i] = d]
    BY <1>1, <2>4, <2>5, <2>6, <2>7
  <2> HIDE DEF d
  <2>10. /\ entries' \in Seq(Entry) /\ DOMAIN entries' = DOMAIN entries
         /\ entries'[i] = d /\ \A j \in DOMAIN entries : j # i => entries'[j] = entries[j]
    BY <1>1, <2>4, <2>8, <2>9
  <2>11. Stamped(i)
    BY <2>4, <2>5, <2>6, <2>8, <2>10 DEF Stamped
  <2>12. QED
    BY <1>1, <2>4, <2>10, <2>11
<1>6. QED
  BY <1>4, <1>5

LEMMA RecordIInv ==
  ASSUME IInv, NEW path \in Paths \union (Sources \X Paths), NEW core \in Cores,
         NEW bookmark \in Contents \union {None}, NEW content \in Contents \union {None},
         RecordPlay(path, core, bookmark, content), UNCHANGED <<files, catalog, seen, steady>>
  PROVE  IInv'
<1> USE NoneAssumption
<1>1. /\ LibraryTypes /\ FileTypes /\ IdsUnique /\ OneEntryPerPlace /\ OneEntryPerPlay
      /\ FilesApart /\ SeenApart /\ SameCore /\ \A s \in Sources : Describes(s)
  BY DEF IInv
<1>2. FileTypes' /\ FilesApart' /\ SeenApart'
  BY <1>1 DEF FileTypes, FilesApart, SeenApart
<1>3. /\ entries' \in Seq(Entry) /\ plays' = plays + 1
      /\ (\E i \in DOMAIN entries : Stamped(i)) \/ Added(path, core, content)
  BY <1>1, Recording
<1>4. /\ plays \in Nat /\ nextId \in Nat /\ nextId = Len(madeFor) + 1
      /\ madeFor \in Seq(Contents \union {None}) /\ catalog \in Seq(Cores)
  BY <1>1 DEF LibraryTypes
<1>5. \A j \in DOMAIN entries :
        /\ entries[j].id \in 1..(nextId - 1) /\ entries[j].played \in Nat /\ entries[j].played <= plays
        /\ entries[j].source # None => entries[j].path \in Paths
  <2>1. \A j \in DOMAIN entries : entries[j].id \in Nat \ {0} /\ entries[j].played \in Nat
    <3>1. \A j \in DOMAIN entries : entries[j] \in Entry
      BY <1>1 DEF LibraryTypes
    <3>2. QED
      BY <3>1 DEF Entry
  <2>2. QED
    BY <1>1, <1>4, <2>1 DEF LibraryTypes
<1>6. CASE \E i \in DOMAIN entries : Stamped(i)
  <2>1. PICK i \in DOMAIN entries : Stamped(i)
    BY <1>6
  <2>2. \A j \in DOMAIN entries :
          /\ entries'[j].id = entries[j].id /\ entries'[j].source = entries[j].source
          /\ entries'[j].path = entries[j].path /\ entries'[j].core = entries[j].core
    BY <2>1 DEF Stamped
  <2>3. DOMAIN entries' = DOMAIN entries /\ UNCHANGED <<nextId, madeFor>>
    BY <2>1 DEF Stamped
  <2>4. ASSUME NEW j \in DOMAIN entries PROVE entries'[j].played <= plays'
    <3>1. entries'[j].played = IF j = i THEN plays + 1 ELSE entries[j].played
      BY <2>1 DEF Stamped
    <3>2. PICK n \in Nat : n = entries[j].played /\ n <= plays
      BY <1>5
    <3>3. QED
      BY <1>3, <1>4, <3>1, <3>2
  <2>5. LibraryTypes'
    <3>1. ASSUME NEW j \in DOMAIN entries'
          PROVE  /\ entries'[j].id < nextId'
                 /\ entries'[j].source # None => entries'[j].path \in Paths
      <4>1. entries'[j].id \in 1..(nextId - 1) /\ nextId' = nextId
        BY <1>5, <2>2, <2>3
      <4>2. entries'[j].source # None => entries'[j].path \in Paths
        BY <1>5, <2>2, <2>3
      <4>3. QED
        BY <1>4, <4>1, <4>2
    <3>2. plays' \in Nat /\ nextId' = Len(madeFor') + 1 /\ catalog' \in Seq(Cores)
          /\ madeFor' \in Seq(Contents \union {None})
      BY <1>3, <1>4, <2>3
    <3>3. QED
      BY <1>3, <2>3, <2>4, <3>1, <3>2 DEF LibraryTypes
  <2>6. IdsUnique' /\ OneEntryPerPlace' /\ OneEntryPerPlay'
    BY <1>1, <2>2, <2>3 DEF IdsUnique, OneEntryPerPlace, OneEntryPerPlay
  <2>7. ASSUME NEW s \in Sources PROVE Describes(s)'
    BY <1>1, <2>2, <2>3 DEF Describes
  <2>8. SameCore'
    BY <1>1, <2>2, <2>3 DEF SameCore
  <2>9. QED
    BY <1>2, <2>5, <2>6, <2>7, <2>8 DEF IInv
<1>7. CASE Added(path, core, content)
  <2>1. PICK n : n = Len(entries) + 1
    OBVIOUS
  <2>2. /\ DOMAIN entries' = DOMAIN entries \union {n}
        /\ \A j \in DOMAIN entries : j # n /\ entries'[j] = entries[j]
        /\ entries'[n].id = nextId /\ entries'[n].source = None /\ entries'[n].path = path
        /\ entries'[n].core = core /\ entries'[n].played = plays + 1
    BY <1>7, <2>1 DEF Added
  <2>3. /\ nextId' = nextId + 1 /\ madeFor' \in Seq(Contents \union {None})
        /\ nextId' = Len(madeFor') + 1 /\ \A k \in 1..(nextId - 1) : madeFor'[k] = madeFor[k]
    <3>1. nextId' = nextId + 1 /\ madeFor' = Append(madeFor, content)
      BY <1>7 DEF Added
    <3>2. QED
      BY <1>4, <3>1
  <2>4. LibraryTypes'
    <3>1. ASSUME NEW j \in DOMAIN entries'
          PROVE  /\ entries'[j].id < nextId' /\ entries'[j].played <= plays'
                 /\ entries'[j].source # None => entries'[j].path \in Paths
      BY <1>3, <1>4, <1>5, <2>2, <2>3
    <3>2. QED
      BY <1>3, <1>4, <2>3, <3>1 DEF LibraryTypes
  <2>5. IdsUnique'
    <3>1. \A j \in DOMAIN entries : entries[j].id # nextId
      BY <1>4, <1>5
    <3>2. QED
      BY <1>1, <2>2, <3>1 DEF IdsUnique
  <2>6. OneEntryPerPlace'
    BY <1>1, <2>2 DEF OneEntryPerPlace
  <2>7. OneEntryPerPlay'
    <3>1. \A j \in DOMAIN entries : entries[j].path # path \/ entries[j].core # core
      BY <1>7 DEF Added
    <3>2. QED
      BY <1>1, <2>2, <3>1 DEF OneEntryPerPlay
  <2>8. ASSUME NEW s \in Sources PROVE Describes(s)'
    <3>1. s # None
      OBVIOUS
    <3>2. \A j \in DOMAIN entries : madeFor'[entries[j].id] = madeFor[entries[j].id]
      BY <1>5, <2>3
    <3>3. \A j \in DOMAIN entries' : entries'[j].source = s => j \in DOMAIN entries
      BY <2>2, <3>1
    <3>4. Describes(s)
      BY <1>1
    <3>5. QED
      BY <2>2, <3>2, <3>3, <3>4 DEF Describes
  <2>10. SameCore'
    BY <1>1, <2>2 DEF SameCore
  <2>11. QED
    BY <1>2, <2>4, <2>5, <2>6, <2>7, <2>8, <2>10 DEF IInv
<1>8. QED
  BY <1>3, <1>6, <1>7

LEMMA PlayIInv ==
  ASSUME IInv, NEW i \in DOMAIN entries, Play(i)
  PROVE  IInv'
<1>1. LibraryTypes /\ FileTypes
  BY DEF IInv
<1>2. PICK e \in Entry : e = entries[i] /\ (e.source # None => e.path \in Paths)
  BY <1>1 DEF LibraryTypes
<1>3. PICK l \in Located(e) :
        \/ /\ Select(ExtOf[l[2]], e.core, files[l[1]][l[2]]) # None
           /\ RecordPlay(e.path, Select(ExtOf[l[2]], e.core, files[l[1]][l[2]]), e.bookmark, files[l[1]][l[2]])
        \/ RecordPlay(e.path, e.core, e.bookmark, files[l[1]][l[2]])
  BY <1>2 DEF Play
<1>4. /\ e.path \in Paths \union (Sources \X Paths) /\ e.core \in Cores
      /\ e.bookmark \in Contents \union {None} /\ e.source \in Sources \union {None}
  BY DEF Entry
<1>5. l \in Sources \X Paths
  BY <1>2, <1>4 DEF Located
<1>6. PICK content \in Contents \union {None} : content = files[l[1]][l[2]]
  BY <1>1, <1>5 DEF FileTypes
<1>7. UNCHANGED <<files, catalog, seen, steady>>
  BY DEF Play
<1>8. QED
  BY <1>1, <1>3, <1>4, <1>6, <1>7, RecordIInv, SelectsACore

LEMMA OpenIInv ==
  ASSUME IInv, NEW s \in Sources, NEW p \in Paths, Open(s, p)
  PROVE  IInv'
<1>1. LibraryTypes /\ FileTypes
  BY DEF IInv
<1>2. PICK content \in Contents \union {None} : content = files[s][p]
  BY <1>1 DEF FileTypes
<1>3. PICK core : /\ core = Select(ExtOf[p], None, content) /\ core # None
                  /\ RecordPlay(<<s, p>>, core, content, content)
  BY <1>2 DEF Open
<1>4. core \in Cores
  BY <1>1, <1>3, SelectsACore
<1>5. UNCHANGED <<files, catalog, seen, steady>>
  BY DEF Open
<1>6. QED
  BY <1>3, <1>4, <1>5, RecordIInv

-----------------------------------------------------------------------------
LEMMA InitIInv == Init => IInv
<1> SUFFICES ASSUME Init PROVE IInv
  OBVIOUS
<1> USE NoneAssumption
<1>1. entries = <<>> /\ madeFor = <<>> /\ nextId = 1 /\ plays = 0 /\ catalog = CoreOrder
  BY DEF Init
<1>2. LibraryTypes
  BY <1>1, OrderAssumption DEF LibraryTypes
<1>3. /\ files \in [Sources -> [Paths -> Contents \union {None}]] /\ InPlace(files)
      /\ seen = [s \in Sources |-> [p \in Paths |-> None]] /\ steady = Sources
  BY DEF Init
<1>4. FileTypes /\ FilesApart /\ SeenApart
  BY <1>3 DEF FileTypes, FilesApart, SeenApart, InPlace
<1>5. SameCore /\ \A s \in Sources : Describes(s)
  BY <1>1, <1>3 DEF SameCore, Describes
<1>6. IdsUnique /\ OneEntryPerPlace /\ OneEntryPerPlay
  BY <1>1 DEF IdsUnique, OneEntryPerPlace, OneEntryPerPlay
<1>7. QED
  BY <1>2, <1>4, <1>5, <1>6 DEF IInv

LEMMA StepIInv == IInv /\ [Next]_vars => IInv'
<1> SUFFICES ASSUME IInv, [Next]_vars PROVE IInv'
  OBVIOUS
<1>1. CASE Relaunch
  BY <1>1, RelaunchIInv
<1>2. ASSUME NEW s \in Sources, Change(s) PROVE IInv'
  BY <1>2, ChangeIInv
<1>3. ASSUME NEW s \in Sources, Scan(s) \/ ScanFails(s) PROVE IInv'
  BY <1>3, ScanIInv
<1>4. ASSUME NEW s \in Sources, NEW p \in Paths, Open(s, p) PROVE IInv'
  BY <1>4, OpenIInv
<1>5. ASSUME NEW i \in DOMAIN entries, Play(i) PROVE IInv'
  BY <1>5, PlayIInv
<1>6. CASE UNCHANGED vars
  <2>1. UNCHANGED <<files, catalog, entries, nextId, madeFor, plays, seen, steady>>
    BY <1>6 DEF vars
  <2>2. SeenApart' /\ SameCore' /\ \A s \in Sources : Describes(s)'
    BY <2>1 DEF IInv, SeenApart, SameCore, Describes
  <2>3. LibraryTypes' /\ FileTypes' /\ FilesApart'
    BY <2>1 DEF IInv, LibraryTypes, FileTypes, FilesApart
  <2>4. IdsUnique' /\ OneEntryPerPlace' /\ OneEntryPerPlay'
    BY <2>1 DEF IInv, IdsUnique, OneEntryPerPlace, OneEntryPerPlay
  <2>5. QED
    BY <2>2, <2>3, <2>4 DEF IInv
<1>7. QED
  BY <1>1, <1>2, <1>3, <1>4, <1>5, <1>6 DEF Next

(* The library stays well formed, and the entries of a source describe     *)
(* what its last scan listed.                                              *)
THEOREM Inductive == Spec => []IInv
<1>1. Init => IInv
  BY InitIInv
<1>2. IInv /\ [Next]_vars => IInv'
  BY StepIInv
<1>3. QED
  BY <1>1, <1>2, PTL DEF Spec

(* Every entry names a place, a core and an id that was given out, and no  *)
(* two entries of a source the same place, for any library.                *)
THEOREM TypeCorrect == Spec => []TypeOK
<1>1. IInv => TypeOK
  <2> SUFFICES ASSUME IInv PROVE TypeOK
    OBVIOUS
  <2>1. LibraryTypes /\ OneEntryPerPlace
    BY DEF IInv
  <2>2. nextId \in Nat /\ plays \in Nat /\ nextId = Len(madeFor) + 1
    BY <2>1 DEF LibraryTypes
  <2>3. ASSUME NEW i \in DOMAIN entries
        PROVE  /\ entries[i].id \in 1..(nextId - 1) /\ entries[i].core \in Cores
               /\ entries[i].played \in 0..plays
               /\ IF entries[i].source # None
                  THEN entries[i].path \in Paths /\ entries[i].bookmark \in Contents \union {None}
                  ELSE entries[i].path \in Paths \union (Sources \X Paths)
    <3>1. PICK e \in Entry : e = entries[i]
      BY <2>1 DEF LibraryTypes
    <3>2. e.id < nextId /\ e.played <= plays /\ (e.source # None => e.path \in Paths)
      BY <2>1, <3>1 DEF LibraryTypes
    <3>3. /\ e.id \in Nat \ {0} /\ e.core \in Cores /\ e.played \in Nat
          /\ e.bookmark \in Contents \union {None} /\ e.path \in Paths \union (Sources \X Paths)
      BY DEF Entry
    <3>4. QED
      BY <2>2, <3>1, <3>2, <3>3
  <2>4. QED
    BY <2>1, <2>2, <2>3 DEF TypeOK, OneEntryPerPlace
<1>2. QED
  BY <1>1, Inductive, PTL

(* No two entries ever share an id, and with it the directory of the saves *)
(* of a game, however often files move under the same name (applyScan).    *)
THEOREM IdsAlwaysUnique == Spec => []IdsUnique
<1>1. IInv => IdsUnique
  BY DEF IInv
<1>2. QED
  BY <1>1, Inductive, PTL

(* A file opened by itself has one entry for each core it was played with, *)
(* however often it is opened and played (recordPlay).                     *)
THEOREM OnePerPlay == Spec => []OneEntryPerPlay
<1>1. IInv => OneEntryPerPlay
  BY DEF IInv
<1>2. QED
  BY <1>1, Inductive, PTL

(* As long as no scan of a source meets a file that came in the stead of   *)
(* another, each entry of it has the saves of the game that its last scan  *)
(* found there: no game gets the saves of another, whatever moved, came    *)
(* and went, or was hidden and revealed in the meantime (applyScan).       *)
THEOREM SavesAlwaysFollow == Spec => []SavesFollow
<1>1. IInv => SavesFollow
  <2> SUFFICES ASSUME IInv, NEW i \in DOMAIN entries, entries[i].source \in steady
               PROVE  seen[entries[i].source][entries[i].path] = madeFor[entries[i].id]
    BY DEF SavesFollow
  <2>1. Describes(entries[i].source)
    BY DEF IInv, FileTypes
  <2>2. QED
    BY <2>1 DEF Describes
<1>2. QED
  BY <1>1, Inductive, PTL

(* A file is found again: by its path, or as the one file that left and    *)
(* came under its name.                                                    *)
LEMMA FoundAgain ==
  ASSUME IInv, NEW s \in Sources,
         NEW e \in Previous(s), NEW p \in ToSet(Games(s)),
         \/ p = e.path
         \/ /\ e.core = CoreIDFor(p) /\ NameOf[p] = NameOf[e.path]
            /\ Came(seen[s], Listing(s), NameOf[p]) = {p}
            /\ Came(Listing(s), seen[s], NameOf[p]) = {e.path}
  PROVE  Existing(s, Games(s), p) = {e}
<1>1. LibraryTypes /\ FileTypes /\ OneEntryPerPlace /\ Describes(s)
  BY DEF IInv
<1>2. PICK f \in [Paths -> Contents \union {None}] : f = seen[s]
  BY <1>1 DEF FileTypes
<1>3. PICK g \in [Paths -> Contents \union {None}] : g = Listing(s)
  BY <1>1, GamesListed
<1>4. ToSet(Games(s)) = {q \in Paths : g[q] # None}
  BY <1>1, <1>3, GamesListed
<1>5. ASSUME NEW d \in Previous(s) PROVE d.path \in Paths /\ f[d.path] # None
  <2>1. PICK i \in DOMAIN entries : entries[i] = d /\ d.source = s
    BY DEF Previous
  <2>2. s # None /\ d.path \in Paths
    BY <1>1, <2>1, NoneAssumption DEF LibraryTypes
  <2>3. QED
    BY <1>1, <1>2, <2>1, <2>2 DEF Describes
<1>6. ASSUME NEW q \in Paths, f[q] # None PROVE \E d \in Previous(s) : d.path = q
  BY <1>1, <1>2, <1>6 DEF Describes, Previous
<1>7. ASSUME NEW c \in Previous(s), NEW d \in Previous(s), c.path = d.path PROVE c = d
  <2>1. PICK i \in DOMAIN entries, j \in DOMAIN entries :
          entries[i] = c /\ entries[j] = d /\ c.source = s /\ d.source = s
    BY DEF Previous
  <2>2. QED
    BY <1>1, <1>7, <2>1, NoneAssumption DEF OneEntryPerPlace
<1> DEFINE same == {d \in Previous(s) : d.path = p}
           left == {d \in {c \in Previous(s) : c.path \notin ToSet(Games(s))} :
                      NameOf[d.path] = NameOf[p] /\ d.core = CoreIDFor(p)}
           arrived == {q \in ToSet(Games(s)) : NameOf[q] = NameOf[p] /\ \A d \in Previous(s) : d.path # q}
<1>8. Existing(s, Games(s), p) =
        IF same # {} THEN same ELSE IF Cardinality(left) = 1 /\ arrived = {p} THEN left ELSE {}
  BY Zenon DEF Existing
<1>9. CASE p = e.path
  <2>1. same = {e}
    BY <1>7, <1>9
  <2> HIDE DEF same, left, arrived
  <2>2. QED
    BY <1>8, <2>1
<1>10. CASE p # e.path
  <2>1. /\ e.core = CoreIDFor(p) /\ NameOf[p] = NameOf[e.path]
        /\ {q \in Paths : NameOf[q] = NameOf[p] /\ f[q] = None /\ g[q] # None} = {p}
        /\ {q \in Paths : NameOf[q] = NameOf[p] /\ g[q] = None /\ f[q] # None} = {e.path}
    BY <1>2, <1>3, <1>10 DEF Came
  <2>2. same = {}
    BY <1>5, <2>1
  <2>3. left = {e}
    <3>1. e \in left
      BY <1>4, <2>1
    <3>2. ASSUME NEW d \in left PROVE d = e
      <4>1. d \in Previous(s) /\ d.path \notin ToSet(Games(s)) /\ NameOf[d.path] = NameOf[p]
        OBVIOUS
      <4>2. d.path \in Paths /\ f[d.path] # None /\ g[d.path] = None
        BY <1>4, <1>5, <4>1
      <4>3. d.path = e.path
        BY <2>1, <4>1, <4>2
      <4>4. QED
        BY <1>7, <4>1, <4>3
    <3>3. QED
      BY <3>1, <3>2
  <2>4. arrived = {p}
    <3>1. p \in arrived
      BY <2>2
    <3>2. ASSUME NEW q \in arrived PROVE q = p
      <4>1. q \in Paths /\ g[q] # None /\ NameOf[q] = NameOf[p] /\ \A d \in Previous(s) : d.path # q
        BY <1>4
      <4>2. f[q] = None
        BY <1>6, <4>1
      <4>3. QED
        BY <2>1, <4>1, <4>2
    <3>3. QED
      BY <3>1, <3>2
  <2> HIDE DEF same, left, arrived
  <2>5. Cardinality(left) = 1
    BY <2>3, FS_Singleton, Zenon
  <2>6. QED
    BY <1>8, <2>2, <2>3, <2>4, <2>5
<1>11. QED
  BY <1>9, <1>10

(* A game whose file stayed, or moved to another folder as the one file of *)
(* its name that left and came, keeps its id and its play history (ADR     *)
(* 0004, Moves).                                                           *)
THEOREM IdentityKept == Spec => KeepsIdentity
<1> DEFINE Keeps ==
      \A s \in Sources : UNCHANGED <<files, events>> /\ Scan(s) =>
        \A e \in Previous(s), p \in ToSet(Games(s)) :
          /\ files[s][p] = seen[s][e.path]
          /\ \/ p = e.path
             \/ /\ e.core = CoreIDFor(p) /\ NameOf[p] = NameOf[e.path]
                /\ Came(seen[s], Listing(s), NameOf[p]) = {p}
                /\ Came(Listing(s), seen[s], NameOf[p]) = {e.path}
          => \E i \in DOMAIN entries' :
               /\ entries'[i].source = s /\ entries'[i].path = p
               /\ entries'[i].id = e.id /\ entries'[i].played = e.played
<1>1. IInv /\ [Next]_vars => [Keeps]_vars
  <2> SUFFICES ASSUME IInv, NEW s \in Sources, Scan(s),
                      NEW e \in Previous(s), NEW p \in ToSet(Games(s)),
                      \/ p = e.path
                      \/ /\ e.core = CoreIDFor(p) /\ NameOf[p] = NameOf[e.path]
                         /\ Came(seen[s], Listing(s), NameOf[p]) = {p}
                         /\ Came(Listing(s), seen[s], NameOf[p]) = {e.path}
               PROVE  \E i \in DOMAIN entries' :
                        /\ entries'[i].source = s /\ entries'[i].path = p
                        /\ entries'[i].id = e.id /\ entries'[i].played = e.played
    OBVIOUS
  <2>1. ApplyScan(s, Games(s)) /\ GamesOf(Games(s)) /\ LibraryTypes /\ FileTypes
    BY GamesListed DEF Scan, IInv
  <2>2. Existing(s, Games(s), p) = {e}
    BY FoundAgain
  <2>3. PICK count, place : count \in Nat /\ Rescanned(s, Games(s), count, place)
    BY <2>1, Scanning
  <2>4. PICK k \in 1..Len(Games(s)) : Games(s)[k] = p
    BY <2>1 DEF GamesOf, ToSet
  <2>5. /\ count + k \in DOMAIN entries' /\ entries'[count + k].source = s
        /\ entries'[count + k].path = p
        /\ \/ Continues(s, Games(s), p, entries'[count + k])
           \/ IsNew(s, Games(s), p, entries'[count + k])
    <3>1. Len(Games(s)) \in Nat
      BY <2>1 DEF GamesOf
    <3>2. count + k \in DOMAIN entries'
      BY <2>3, <2>4, <3>1 DEF Rescanned
    <3>3. QED
      BY <2>3, <2>4, <3>2 DEF Rescanned
  <2>6. entries'[count + k].id = e.id /\ entries'[count + k].played = e.played
    BY <2>2, <2>5 DEF Continues, IsNew
  <2>7. QED
    BY <2>5, <2>6
<1>2. QED
  BY <1>1, Inductive, PTL DEF Spec, KeepsIdentity
=============================================================================
