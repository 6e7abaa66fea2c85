--------------------------- MODULE JsonStoresProofs ---------------------------
(***************************************************************************)
(* Theorems about the JSON files, for all sets of workers, agents and      *)
(* contents: what holds however many writers race for a file, and what     *)
(* holds when changes of one file come one after the other.                *)
(***************************************************************************)
EXTENDS JsonStores, FiniteSetTheorems, TLAPS

-----------------------------------------------------------------------------
(* The invariant of any number of writers.                                 *)

Writing == {"write", "rename"}
Changing == {"open", "write", "rename"}

\* A snapshot of file f in which the id of a fact is its place.
Good(f) ==
  IF f = KG THEN {s \in Graph : /\ s.nextId = Len(s.items) + 1
                                /\ \A i \in DOMAIN s.items : s.items[i].id = i}
            ELSE Diary
Stored == {Blank, Torn} \cup Graph \cup Diary

JsonTypes ==
  /\ path \in [Files -> Inodes \cup {Unset}] /\ tmp \in [Files -> Inodes \cup {Unset}]
  /\ data \in [Inodes -> Stored]
  /\ clock \in Days
  /\ doing \in [Workers -> {"idle", "load"} \cup Changing]
  /\ change \in [Workers -> Changes \cup {Unset}]
  /\ text \in [Workers -> Graph \cup Diary \cup {Unset}]
  /\ fd \in [Workers -> Inodes \cup {Unset}]

\* A worker on its way has a request, later a day and a snapshot, then a file.
WorkersInv ==
  \A w \in Workers :
    /\ doing[w] # "idle" => change[w] \in Changes
    /\ doing[w] \in Changing => change[w].day \in Days /\ text[w] \in Good(change[w].file)
    /\ doing[w] \in Writing <=> fd[w] # Unset

\* Inode i is file f, or its temporary file, or one a worker has open as such.
Owns(f, i) ==
  \/ path[f] = i \/ tmp[f] = i
  \/ \E w \in Workers : fd[w] = i /\ change[w].file = f

\* No inode belongs to two files, and no file is its own temporary file.
OwnersInv ==
  /\ \A f, g \in Files, i \in Inodes : Owns(f, i) /\ Owns(g, i) => f = g
  /\ \A f \in Files : path[f] # Unset => path[f] # tmp[f]

\* What can be read from an inode of a file is a snapshot of that file.
DataInv ==
  \A f \in Files, i \in Inodes : Owns(f, i) => data[i] \in Good(f) \cup {Blank, Torn}

JsonInv == JsonTypes /\ WorkersInv /\ OwnersInv /\ DataInv

-----------------------------------------------------------------------------
(* Snapshots.                                                              *)

LEMMA RequestKinds ==
  ASSUME NEW c \in Changes
  PROVE  /\ c.file \in Files
         /\ \/ c.file = KG /\ c.op \in {"add", "invalidate"} /\ c.what \in Triples
            \/ c.file \in Agents /\ c.file # KG /\ c.op = "write" /\ c.what \in Texts
  BY JsonSets DEF Changes, Files

LEMMA GoodIsStored == \A f : Good(f) \subseteq Graph \cup Diary
  BY DEF Good

LEMMA NoItemsGood == \A f \in Files : NoItems(f) \in Good(f)
  <1> SUFFICES ASSUME NEW f \in Files PROVE NoItems(f) \in Good(f)
    OBVIOUS
  <1>1. CASE f = KG
    <2>1. [nextId |-> 1, items |-> <<>>] \in Graph
      BY DEF Graph
    <2> QED BY <1>1, <2>1 DEF NoItems, Good
  <1>2. CASE f # KG
    BY <1>2 DEF NoItems, Good, Diary
  <1> QED BY <1>1, <1>2

LEMMA AddFactGood ==
  ASSUME NEW s \in Good(KG), NEW triple \in Triples, NEW day \in Days
  PROVE  AddFact(s, triple, day) \in Good(KG)
  <1> DEFINE fact == [id |-> s.nextId, triple |-> triple, from |-> day, to |-> Unset]
             r == AddFact(s, triple, day)
  <1>1. s.nextId = Len(s.items) + 1 /\ s.items \in Seq(Fact) /\ s.nextId \in Nat
        /\ \A i \in DOMAIN s.items : s.items[i].id = i
    BY DEF Good, Graph
  <1>2. fact \in Fact /\ fact.id = Len(s.items) + 1
    BY <1>1 DEF Fact
  <1>3. r.nextId = s.nextId + 1 /\ r.items = Append(s.items, fact)
    BY DEF AddFact
  <1> HIDE DEF fact
  <1>4. r.items \in Seq(Fact) /\ Len(r.items) = Len(s.items) + 1
        /\ \A i \in 1 .. Len(s.items) + 1 :
             r.items[i] = IF i = Len(s.items) + 1 THEN fact ELSE s.items[i]
    BY <1>1, <1>2, <1>3
  <1>5. \A i \in DOMAIN r.items : r.items[i].id = i
    BY <1>1, <1>2, <1>4
  <1>6. r \in Graph
    BY <1>1, <1>3, <1>4 DEF AddFact, Graph
  <1> QED BY <1>1, <1>3, <1>4, <1>5, <1>6 DEF Good

LEMMA EndFactsItems ==
  ASSUME NEW s \in Good(KG), NEW triple \in Triples, NEW day \in Days
  PROVE  /\ EndFacts(s, triple, day).nextId = s.nextId
         /\ EndFacts(s, triple, day).items =
              [i \in DOMAIN s.items |->
                 IF s.items[i].triple = triple /\ s.items[i].to = Unset
                 THEN [s.items[i] EXCEPT !.to = day] ELSE s.items[i]]
         /\ EndFacts(s, triple, day) \in Good(KG)
  <1> DEFINE items == [i \in DOMAIN s.items |->
                         IF s.items[i].triple = triple /\ s.items[i].to = Unset
                         THEN [s.items[i] EXCEPT !.to = day] ELSE s.items[i]]
             r == EndFacts(s, triple, day)
  <1>1. s.nextId = Len(s.items) + 1 /\ s.items \in Seq(Fact) /\ s.nextId \in Nat /\ s \in Graph
        /\ \A i \in DOMAIN s.items : s.items[i].id = i
    BY DEF Good, Graph
  <1>2. r = [s EXCEPT !.items = items]
    BY DEF EndFacts
  <1>3. r.nextId = s.nextId /\ r.items = items
    BY <1>1, <1>2 DEF Graph
  <1>4. \A i \in DOMAIN s.items : items[i] \in Fact /\ items[i].id = i
    <2> SUFFICES ASSUME NEW i \in DOMAIN s.items
                 PROVE  items[i] \in Fact /\ items[i].id = i
      OBVIOUS
    <2>1. s.items[i] \in Fact /\ s.items[i].id = i
      BY <1>1
    <2>2. [s.items[i] EXCEPT !.to = day] \in Fact
          /\ [s.items[i] EXCEPT !.to = day].id = i
      BY <2>1 DEF Fact
    <2> QED BY <2>1, <2>2
  <1> HIDE DEF r
  <1>5. items \in Seq(Fact) /\ Len(items) = Len(s.items) /\ DOMAIN items = DOMAIN s.items
    <2>1. DOMAIN s.items = 1 .. Len(s.items) /\ Len(s.items) \in Nat
      BY <1>1
    <2>2. items \in [1 .. Len(s.items) -> Fact]
      <3>1. DOMAIN items = DOMAIN s.items /\ items = [i \in DOMAIN items |-> items[i]]
        OBVIOUS
      <3> HIDE DEF items
      <3> QED BY <1>4, <2>1, <3>1
    <2> HIDE DEF items
    <2> QED BY <2>1, <2>2
  <1> HIDE DEF items
  <1>6. r = [nextId |-> s.nextId, items |-> items]
    BY <1>1, <1>2 DEF Graph
  <1>7. r \in Graph
    BY <1>1, <1>5, <1>6 DEF Graph
  <1>8. r \in Good(KG)
    BY <1>1, <1>3, <1>4, <1>5, <1>7 DEF Good
  <1> QED BY <1>3, <1>8 DEF r, items

LEMMA WriteEntryGood ==
  ASSUME NEW f \in Files, f # KG, NEW s \in Good(f), NEW t \in Texts, NEW day \in Days
  PROVE  WriteEntry(s, t, day) \in Good(f)
  <1>1. [id |-> day, text |-> t] \in Entry
    BY DEF Entry
  <1> QED BY <1>1 DEF Good, Diary, WriteEntry

\* A change of a snapshot of its file gives a snapshot of that file.
LEMMA AlteredGood ==
  ASSUME NEW c \in Changes, c.day \in Days, NEW s \in Good(c.file)
  PROVE  Altered(s, c) \in Good(c.file)
  <1>1. CASE c.op = "add"
    BY <1>1, RequestKinds, AddFactGood DEF Altered
  <1>2. CASE c.op = "invalidate"
    BY <1>2, RequestKinds, EndFactsItems DEF Altered
  <1>3. CASE c.op = "write"
    BY <1>3, RequestKinds, WriteEntryGood DEF Altered
  <1> QED BY <1>1, <1>2, <1>3, RequestKinds

-----------------------------------------------------------------------------
(* There is always an inode nobody uses.                                   *)

LEMMA RangeCard ==
  ASSUME NEW S, IsFiniteSet(S), NEW T, NEW h \in [S -> T]
  PROVE  /\ IsFiniteSet({h[x] : x \in S})
         /\ Cardinality({h[x] : x \in S}) <= Cardinality(S)
  <1>1. h \in Surjection(S, {h[x] : x \in S})
    BY DEF Surjection
  <1> QED BY <1>1, FS_Surjection

LEMMA FilesFinite == IsFiniteSet(Files) /\ Cardinality(Files) \in Nat
                     /\ Cardinality(Workers) \in Nat
  <1>1. IsFiniteSet({KG})
    BY FS_Singleton
  <1>2. IsFiniteSet(Files)
    BY <1>1, JsonSets, FS_Union DEF Files
  <1> QED BY <1>2, JsonSets, FS_CardinalityType

LEMMA InodesAreNumbers == Inodes \subseteq Nat /\ Unset \notin Inodes
  BY FilesFinite, JsonSets DEF Inodes

LEMMA UnionCard ==
  ASSUME NEW S, IsFiniteSet(S), NEW T, IsFiniteSet(T)
  PROVE  /\ IsFiniteSet(S \cup T)
         /\ Cardinality(S \cup T) <= Cardinality(S) + Cardinality(T)
  <1>1. IsFiniteSet(S \cap T)
    BY FS_Intersection
  <1>2. Cardinality(S \cap T) \in Nat
    BY <1>1, FS_CardinalityType
  <1>3. Cardinality(S) \in Nat /\ Cardinality(T) \in Nat
    BY FS_CardinalityType
  <1>4. IsFiniteSet(S \cup T)
        /\ Cardinality(S \cup T) = Cardinality(S) + Cardinality(T) - Cardinality(S \cap T)
    BY FS_Union
  <1> QED BY <1>2, <1>3, <1>4

LEMMA FreshIsFree ==
  ASSUME JsonTypes, NEW w \in Workers, fd[w] = Unset
  PROVE  Fresh \in Inodes /\ Fresh \notin InUse
  <1> DEFINE P == {path[f] : f \in Files}
             T == {tmp[f] : f \in Files}
             D == {fd[v] : v \in Workers}
             F == Cardinality(Files)
             W == Cardinality(Workers)
  <1>0. IsFiniteSet(Files) /\ IsFiniteSet(Workers) /\ F \in Nat /\ W \in Nat
    BY FilesFinite, JsonSets
  <1>1. IsFiniteSet(P) /\ Cardinality(P) <= F
    BY <1>0, RangeCard DEF JsonTypes
  <1>2. IsFiniteSet(T) /\ Cardinality(T) <= F
    BY <1>0, RangeCard DEF JsonTypes
  <1>3. IsFiniteSet(D) /\ Cardinality(D) <= W
    <2>1. fd \in [Workers -> Inodes \cup {Unset}] /\ IsFiniteSet(Workers)
      BY <1>0 DEF JsonTypes
    <2>2. /\ IsFiniteSet({fd[x] : x \in Workers})
          /\ Cardinality({fd[x] : x \in Workers}) <= Cardinality(Workers)
      BY <2>1, RangeCard
    <2> QED BY <2>2
  <1> HIDE DEF P, T, D, F, W
  <1>4. IsFiniteSet(P \cup T) /\ Cardinality(P \cup T) <= F + F
    BY <1>0, <1>1, <1>2, UnionCard, FS_CardinalityType
  <1>5. IsFiniteSet(InUse) /\ Cardinality(InUse) <= 2 * F + W
    <2>1. InUse = (P \cup T) \cup D
      BY DEF InUse, P, T, D
    <2>2. /\ IsFiniteSet((P \cup T) \cup D)
          /\ Cardinality((P \cup T) \cup D) <= Cardinality(P \cup T) + Cardinality(D)
      BY <1>3, <1>4, UnionCard
    <2>3. Cardinality((P \cup T) \cup D) \in Nat /\ Cardinality(P \cup T) \in Nat
          /\ Cardinality(D) \in Nat
      BY <1>3, <1>4, <2>2, FS_CardinalityType
    <2> QED BY <1>0, <1>3, <1>4, <2>1, <2>2, <2>3
  <1>6. IsFiniteSet(Inodes) /\ Cardinality(Inodes) = 2 * F + W
    <2>1. Inodes = 1 .. 2 * F + W
      BY DEF Inodes, F, W
    <2>2. 2 * F + W \in Nat
      BY <1>0
    <2> HIDE DEF Inodes
    <2> QED BY <2>1, <2>2, FS_Interval
  <1>7. Cardinality(Inodes \cup {Unset}) = 2 * F + W + 1
    BY <1>6, InodesAreNumbers, FS_AddElement
  <1>8. ~(Inodes \subseteq InUse)
    <2>1. Unset \in InUse
      BY DEF InUse
    <2> SUFFICES ASSUME Inodes \subseteq InUse PROVE FALSE
      OBVIOUS
    <2>2. Inodes \cup {Unset} \in SUBSET InUse
      BY <2>1
    <2>3. Cardinality(Inodes \cup {Unset}) <= Cardinality(InUse)
      BY <1>5, <2>2, FS_Subset
    <2>4. Cardinality(InUse) \in Nat
      BY <1>5, FS_CardinalityType
    <2> QED BY <1>0, <1>5, <1>7, <2>3, <2>4
  <1> QED BY <1>8 DEF Fresh

-----------------------------------------------------------------------------
(* Every step keeps JsonInv.                                               *)

LEMMA JsonStarts == JsonInit => JsonInv
  <1> SUFFICES ASSUME JsonInit PROVE JsonInv
    OBVIOUS
  <1>1. JsonTypes
    BY JsonBounds DEF JsonInit, JsonTypes, Stored, Days
  <1>2. WorkersInv
    BY DEF JsonInit, WorkersInv, Changing, Writing
  <1>3. \A f \in Files, i \in Inodes : ~Owns(f, i)
    BY InodesAreNumbers DEF JsonInit, Owns
  <1> QED BY <1>1, <1>2, <1>3 DEF JsonInit, JsonInv, OwnersInv, DataInv

LEMMA FilesKnown ==
  ASSUME WorkersInv
  PROVE  \A w \in Workers : doing[w] # "idle" => change[w].file \in Files
  BY RequestKinds DEF WorkersInv

\* A step that leaves the files alone keeps each inode with its file.
LEMMA OwnersStay ==
  ASSUME JsonInv, UNCHANGED <<path, tmp>>,
         \A w \in Workers : fd'[w] # Unset =>
           fd'[w] = fd[w] /\ change'[w].file = change[w].file,
         \A i \in Inodes : data'[i] = data[i] \/ data'[i] \in {Blank, Torn}
  PROVE  OwnersInv' /\ DataInv'
  <1>1. \A f \in Files, i \in Inodes : Owns(f, i)' => Owns(f, i)
    BY InodesAreNumbers DEF Owns
  <1> QED BY <1>1 DEF JsonInv, OwnersInv, DataInv

LEMMA ReturnWorkers ==
  ASSUME JsonInv, NEW w \in Workers, Return(w)
  PROVE  /\ WorkersInv'
         /\ \A v \in Workers : fd'[v] # Unset =>
              fd'[v] = fd[v] /\ change'[v].file = change[v].file
  BY DEF JsonInv, JsonTypes, WorkersInv, Return, Changing, Writing

LEMMA BeginJson ==
  ASSUME JsonInv, NEW w \in Workers, BeginChange(w)
  PROVE  JsonInv'
  <1> USE DEF JsonInv, BeginChange
  <1>1. PICK c \in ChangeRequests : change' = [change EXCEPT ![w] = c]
    OBVIOUS
  <1>2. JsonTypes'
    BY <1>1 DEF JsonTypes, ChangeRequests
  <1>3. WorkersInv'
    BY <1>1 DEF JsonTypes, WorkersInv, ChangeRequests, Changing, Writing
  <1>4. \A v \in Workers : fd'[v] # Unset =>
          fd'[v] = fd[v] /\ change'[v].file = change[v].file
    BY <1>1 DEF JsonTypes, WorkersInv, Writing
  <1> QED BY <1>2, <1>3, <1>4, OwnersStay

LEMMA LoadedGood ==
  ASSUME JsonInv, NEW f \in Files
  PROVE  Loaded(f) \in Good(f) \cup {Blank, Torn}
  BY NoItemsGood DEF JsonInv, JsonTypes, DataInv, Owns, Loaded

\* A request and its day.
LEMMA Dated ==
  ASSUME JsonInv, NEW c \in Changes
  PROVE  LET d == [c EXCEPT !.day = Day(c)]
         IN  /\ d \in Changes /\ d.day \in Days /\ d.file = c.file
             /\ d.op = c.op /\ d.what = c.what
  <1> DEFINE d == [c EXCEPT !.day = Day(c)]
  <1>1. clock \in Days /\ Day(c) \in Days
    BY DEF JsonInv, JsonTypes, Day, Changes
  <1>2. d.day = Day(c) /\ d.file = c.file /\ d.op = c.op /\ d.what = c.what
    BY DEF Changes
  <1>3. d \in Changes
    BY <1>1 DEF Changes
  <1> QED BY <1>1, <1>2, <1>3

LEMMA LoadJson ==
  ASSUME JsonInv, NEW w \in Workers, Load(w)
  PROVE  JsonInv'
  <1> DEFINE c == [change[w] EXCEPT !.day = Day(change[w])]
  <1>1. /\ change' = [change EXCEPT ![w] = c]
        /\ text' = [text EXCEPT ![w] = Altered(Loaded(c.file), c)]
        /\ doing' = [doing EXCEPT ![w] = "open"] /\ doing[w] = "load"
        /\ Loaded(c.file) \notin {Blank, Torn}
        /\ UNCHANGED <<path, tmp, data, clock, fd>>
    BY DEF Load
  <1>2. change[w] \in Changes
    BY <1>1 DEF JsonInv, WorkersInv
  <1>3. c \in Changes /\ c.day \in Days /\ c.file = change[w].file /\ c.file \in Files
    BY <1>2, Dated, RequestKinds
  <1> HIDE DEF c
  <1>4. Altered(Loaded(c.file), c) \in Good(c.file)
    BY <1>1, <1>3, LoadedGood, AlteredGood
  <1>5. JsonTypes'
    BY <1>1, <1>3, <1>4, GoodIsStored DEF JsonInv, JsonTypes, Changing
  <1>6. WorkersInv'
    BY <1>1, <1>3, <1>4 DEF JsonInv, JsonTypes, WorkersInv, Changing, Writing
  <1>7. \A v \in Workers : fd'[v] # Unset =>
          fd'[v] = fd[v] /\ change'[v].file = change[v].file
    BY <1>1, <1>3 DEF JsonInv, JsonTypes
  <1> QED BY <1>1, <1>5, <1>6, <1>7, OwnersStay DEF JsonInv

LEMMA ReturnJson ==
  ASSUME JsonInv, NEW w \in Workers, LoadTorn(w) \/ RenameMissing(w) \/ Stop(w)
  PROVE  JsonInv'
  <1>1. Return(w) /\ UNCHANGED <<path, tmp, clock>>
    BY DEF LoadTorn, RenameMissing, Stop
  <1>2. data' \in [Inodes -> Stored]
        /\ \A i \in Inodes : data'[i] = data[i] \/ data'[i] \in {Blank, Torn}
    BY DEF JsonInv, JsonTypes, Stored, LoadTorn, RenameMissing, Stop
  <1>3. JsonTypes'
    BY <1>1, <1>2 DEF JsonInv, JsonTypes, Return
  <1> QED BY <1>1, <1>2, <1>3, ReturnWorkers, OwnersStay DEF JsonInv

\* What Open gives to a file belongs to it already or to nobody.
LEMMA OpenTakes ==
  ASSUME JsonInv, NEW w \in Workers, Open(w)
  PROVE  \E i \in Inodes :
           /\ tmp' = [tmp EXCEPT ![change[w].file] = i]
           /\ data' = [data EXCEPT ![i] = Blank] /\ fd' = [fd EXCEPT ![w] = i]
           /\ \A g \in Files : path[g] # i
           /\ i = tmp[change[w].file] \/ i \notin InUse
           /\ \A g \in Files : Owns(g, i) => g = change[w].file
  <1> DEFINE f == change[w].file
             i == IF tmp[f] = Unset THEN Fresh ELSE tmp[f]
  <1>1. f \in Files /\ fd[w] = Unset
    BY FilesKnown DEF JsonInv, WorkersInv, JsonTypes, Open, Writing
  <1>2. Fresh \in Inodes /\ Fresh \notin InUse
    BY <1>1, FreshIsFree DEF JsonInv
  <1>3. CASE tmp[f] = Unset
    <2>1. \A g \in Files : ~Owns(g, Fresh) /\ path[g] # Fresh
      BY <1>2 DEF InUse, Owns
    <2> QED BY <1>2, <1>3, <2>1 DEF Open
  <1>4. CASE tmp[f] # Unset
    <2>1. tmp[f] \in Inodes /\ Owns(f, tmp[f])
      BY <1>1, <1>4 DEF JsonInv, JsonTypes, Owns
    <2>2. \A g \in Files : Owns(g, tmp[f]) => g = f
      BY <1>1, <2>1 DEF JsonInv, OwnersInv
    <2>3. \A g \in Files : path[g] # tmp[f]
      BY <1>1, <1>4, <2>1, <2>2 DEF JsonInv, OwnersInv, Owns
    <2> QED BY <1>1, <1>4, <2>1, <2>2, <2>3 DEF Open
  <1> QED BY <1>3, <1>4

LEMMA OpenJson ==
  ASSUME JsonInv, NEW w \in Workers, Open(w)
  PROVE  JsonInv'
  <1> DEFINE f == change[w].file
  <1>1. f \in Files /\ doing[w] = "open" /\ doing' = [doing EXCEPT ![w] = "write"]
        /\ UNCHANGED <<path, clock, change, text>>
    BY FilesKnown DEF JsonInv, Open
  <1>2. PICK i \in Inodes :
           /\ tmp' = [tmp EXCEPT ![f] = i]
           /\ data' = [data EXCEPT ![i] = Blank] /\ fd' = [fd EXCEPT ![w] = i]
           /\ \A g \in Files : path[g] # i
           /\ \A g \in Files : Owns(g, i) => g = f
    BY OpenTakes
  <1> HIDE DEF f
  <1>3. JsonTypes'
    BY <1>1, <1>2 DEF JsonInv, JsonTypes, Stored, Changing
  <1>4. WorkersInv'
    BY <1>1, <1>2, InodesAreNumbers DEF JsonInv, JsonTypes, WorkersInv, Changing, Writing
  <1>5. \A g \in Files, j \in Inodes : Owns(g, j)' => Owns(g, j) \/ (g = f /\ j = i)
    <2> SUFFICES ASSUME NEW g \in Files, NEW j \in Inodes, Owns(g, j)',
                        ~(g = f /\ j = i)
                 PROVE  Owns(g, j)
      OBVIOUS
    <2>1. CASE path'[g] = j \/ tmp'[g] = j
      BY <1>1, <1>2, <2>1 DEF Owns, JsonInv, JsonTypes
    <2>2. CASE \E v \in Workers : fd'[v] = j /\ change'[v].file = g
      BY <1>1, <1>2, <2>2 DEF Owns, JsonInv, JsonTypes, f
    <2> QED BY <2>1, <2>2 DEF Owns
  <1>6. OwnersInv'
    <2>1. \A g, h \in Files, j \in Inodes : Owns(g, j)' /\ Owns(h, j)' => g = h
      BY <1>2, <1>5 DEF JsonInv, OwnersInv
    <2>2. \A g \in Files : path'[g] # Unset => path'[g] # tmp'[g]
      BY <1>1, <1>2 DEF JsonInv, JsonTypes, OwnersInv
    <2> QED BY <2>1, <2>2 DEF OwnersInv
  <1>7. DataInv'
    BY <1>2, <1>5 DEF JsonInv, JsonTypes, DataInv
  <1> QED BY <1>3, <1>4, <1>6, <1>7 DEF JsonInv

LEMMA WriteJson ==
  ASSUME JsonInv, NEW w \in Workers, Write(w)
  PROVE  JsonInv'
  <1>1. doing[w] = "write" /\ doing' = [doing EXCEPT ![w] = "rename"]
        /\ UNCHANGED <<path, tmp, clock, change, text, fd>>
    BY DEF Write
  <1>2. fd[w] \in Inodes /\ change[w].file \in Files /\ text[w] \in Good(change[w].file)
    BY <1>1, FilesKnown DEF JsonInv, JsonTypes, WorkersInv, Writing, Changing
  <1>3. PICK d \in {text[w], Torn} : data' = [data EXCEPT ![fd[w]] = d]
    BY DEF Write, Overwritten
  <1>4. JsonTypes'
    BY <1>1, <1>2, <1>3, GoodIsStored DEF JsonInv, JsonTypes, Stored, Changing
  <1>5. WorkersInv'
    BY <1>1 DEF JsonInv, JsonTypes, WorkersInv, Changing, Writing
  <1>6. \A g \in Files, j \in Inodes : Owns(g, j)' <=> Owns(g, j)
    BY <1>1 DEF Owns
  <1>7. OwnersInv'
    BY <1>1, <1>6 DEF JsonInv, OwnersInv
  <1>8. \A g \in Files : Owns(g, fd[w]) => g = change[w].file
    BY <1>2 DEF JsonInv, OwnersInv, Owns
  <1>9. DataInv'
    BY <1>2, <1>3, <1>6, <1>8 DEF JsonInv, JsonTypes, DataInv
  <1> QED BY <1>4, <1>5, <1>7, <1>9 DEF JsonInv

LEMMA RenameJson ==
  ASSUME JsonInv, NEW w \in Workers, Rename(w)
  PROVE  JsonInv'
  <1> DEFINE f == change[w].file
  <1>1. /\ f \in Files /\ tmp[f] # Unset /\ tmp[f] \in Inodes
        /\ path' = [path EXCEPT ![f] = tmp[f]] /\ tmp' = [tmp EXCEPT ![f] = Unset]
        /\ clock' = clock /\ Return(w)
    BY FilesKnown DEF JsonInv, JsonTypes, Rename
  <1>2. data' \in [Inodes -> Stored]
        /\ \A i \in Inodes : data'[i] = data[i] \/ data'[i] = Blank
    BY DEF Rename, JsonInv, JsonTypes, Stored
  <1> HIDE DEF f
  <1>3. JsonTypes'
    BY <1>1, <1>2 DEF JsonInv, JsonTypes, Return
  <1>4. \A g \in Files, j \in Inodes : Owns(g, j)' => Owns(g, j)
    <2>1. \A v \in Workers : fd'[v] # Unset =>
            fd'[v] = fd[v] /\ change'[v].file = change[v].file
      BY <1>1, ReturnWorkers
    <2>2. \A g \in Files : path'[g] \in {path[g], tmp[g]} /\ tmp'[g] \in {tmp[g], Unset}
      BY <1>1 DEF JsonInv, JsonTypes
    <2> QED BY <2>1, <2>2, InodesAreNumbers DEF Owns
  <1>5. OwnersInv'
    BY <1>1, <1>4 DEF JsonInv, JsonTypes, OwnersInv
  <1>6. DataInv'
    BY <1>2, <1>4 DEF JsonInv, DataInv
  <1> QED BY <1>1, <1>3, <1>5, <1>6, ReturnWorkers DEF JsonInv

LEMMA JsonStep == JsonInv /\ [JsonNext]_jsonVars => JsonInv'
  <1> SUFFICES ASSUME JsonInv, [JsonNext]_jsonVars PROVE JsonInv'
    OBVIOUS
  <1>1. CASE Tick
    <2>1. clock' \in Days
      BY <1>1, JsonBounds DEF Tick, JsonInv, JsonTypes, Days
    <2>2. UNCHANGED <<path, tmp, data, doing, change, text, fd>>
      BY <1>1 DEF Tick
    <2>3. JsonTypes'
      BY <2>1, <2>2 DEF JsonInv, JsonTypes
    <2> QED BY <2>2, <2>3 DEF JsonInv, WorkersInv, OwnersInv, DataInv, Owns
  <1>2. CASE UNCHANGED jsonVars
    BY <1>2 DEF jsonVars, JsonInv, JsonTypes, WorkersInv, OwnersInv, DataInv, Owns
  <1> QED
    BY <1>1, <1>2, BeginJson, LoadJson, ReturnJson, OpenJson, WriteJson, RenameJson
    DEF JsonNext

LEMMA JsonInvariant == JsonSpec => []JsonInv
  BY JsonStarts, JsonStep, PTL DEF JsonSpec

\* However many writers race for the knowledge graph, write into each other's
\* files and stop half-way, a snapshot that can be read numbers its facts in
\* order: no id is there twice (AddFact, load, save).
THEOREM FactIdsDistinct == JsonSpec => []IdsDistinct
  <1>1. JsonInv => IdsDistinct
    <2> SUFFICES ASSUME JsonInv, Loaded(KG) \notin {Blank, Torn}
                 PROVE  \A i, j \in DOMAIN Facts :
                          /\ Facts[i].id < Loaded(KG).nextId
                          /\ Facts[i].id = Facts[j].id => i = j
      BY DEF IdsDistinct
    <2>1. Loaded(KG) \in Good(KG)
      BY LoadedGood DEF Files
    <2>2. Facts \in Seq(Fact) /\ Loaded(KG).nextId = Len(Facts) + 1
          /\ \A i \in DOMAIN Facts : Facts[i].id = i
      BY <2>1 DEF Good, Graph, Facts
    <2> QED BY <2>2
  <1> QED BY <1>1, JsonInvariant, PTL

-----------------------------------------------------------------------------
(* One writer of a file at a time.                                         *)

\* A worker holds its file with its change, and writes it into the temporary
\* file, which it has emptied.
InStep(w) ==
  /\ doing[w] \in Changing => text[w] = Altered(Loaded(change[w].file), change[w])
  /\ doing[w] \in Writing => fd[w] = tmp[change[w].file]
  /\ doing[w] = "write" => data[fd[w]] = Blank
  /\ doing[w] = "rename" => data[fd[w]] = text[w]

AllGood == \A f \in Files : Loaded(f) \in Good(f)

SoloInv == JsonInv /\ Alone /\ (\A w \in Workers : InStep(w)) /\ AllGood

LEMMA SoloStarts == JsonInit => SoloInv
  <1> SUFFICES ASSUME JsonInit PROVE SoloInv
    OBVIOUS
  <1>1. JsonInv
    BY JsonStarts
  <1>2. Alone /\ \A w \in Workers : InStep(w)
    BY DEF JsonInit, Alone, InStep, Changing, Writing
  <1>3. \A f \in Files : Loaded(f) = NoItems(f)
    BY DEF JsonInit, Loaded
  <1> QED BY <1>1, <1>2, <1>3, NoItemsGood DEF SoloInv, AllGood

\* A file is read the same as long as it is not renamed over or written.
LEMMA SameLoaded ==
  ASSUME NEW g, path'[g] = path[g], path[g] # Unset => data'[path[g]] = data[path[g]]
  PROVE  Loaded(g)' = Loaded(g)
  BY DEF Loaded

\* What a worker did stays done while others leave its file and what it has open.
LEMMA SameInStep ==
  ASSUME SoloInv, NEW v \in Workers,
         doing'[v] = doing[v], change'[v] = change[v], text'[v] = text[v], fd'[v] = fd[v],
         doing[v] # "idle" => \A g \in Files : g = change[v].file =>
                             Loaded(g)' = Loaded(g) /\ tmp'[g] = tmp[g],
         doing[v] \in Writing => data'[fd[v]] = data[fd[v]]
  PROVE  InStep(v)'
  <1>1. CASE doing[v] = "idle"
    BY <1>1 DEF InStep, Changing, Writing
  <1>2. CASE doing[v] # "idle"
    <2>1. PICK f \in Files : f = change[v].file
      BY <1>2, FilesKnown DEF SoloInv, JsonInv
    <2>2. /\ doing[v] \in Changing => text[v] = Altered(Loaded(f), change[v])
          /\ doing[v] \in Writing => fd[v] = tmp[f]
          /\ doing[v] = "write" => data[fd[v]] = Blank
          /\ doing[v] = "rename" => data[fd[v]] = text[v]
      BY <2>1 DEF SoloInv, InStep
    <2>3. Loaded(f)' = Loaded(f) /\ tmp'[f] = tmp[f]
      BY <1>2, <2>1
    <2>4. doing'[v] \in Changing => text'[v] = Altered(Loaded(f)', change'[v])
      BY <2>2, <2>3
    <2>5. f = change'[v].file
      BY <2>1
    <2> QED BY <2>2, <2>3, <2>4, <2>5 DEF InStep, Writing
  <1> QED BY <1>1, <1>2

\* The temporary file of one file is not another file.
LEMMA TmpIsNoFile ==
  ASSUME JsonInv, NEW f \in Files, tmp[f] # Unset
  PROVE  tmp[f] \in Inodes /\ \A g \in Files : path[g] # tmp[f] /\ (tmp[g] = tmp[f] => g = f)
  <1>1. tmp[f] \in Inodes
    BY DEF JsonInv, JsonTypes
  <1> QED BY <1>1 DEF JsonInv, OwnersInv, Owns

LEMMA AloneStays ==
  ASSUME SoloInv, NEW w \in Workers,
         \A v \in Workers : v # w => doing'[v] = doing[v] /\ change'[v] = change[v],
         doing'[w] # "idle" => doing[w] # "idle" /\ change'[w].file = change[w].file
  PROVE  Alone'
  BY DEF SoloInv, Alone

LEMMA BeginSolo ==
  ASSUME SoloInv, NEW w \in Workers, BeginChange(w), Alone'
  PROVE  SoloInv'
  <1>0. JsonInv /\ JsonInv'
    BY BeginJson DEF SoloInv
  <1>1. PICK c \in ChangeRequests : change' = [change EXCEPT ![w] = c]
    BY DEF BeginChange
  <1>2. doing' = [doing EXCEPT ![w] = "load"] /\ UNCHANGED <<path, tmp, data, clock, text, fd>>
    BY DEF BeginChange
  <1>5. \A g : Loaded(g)' = Loaded(g)
    BY <1>2 DEF Loaded
  <1>6. \A v \in Workers : v # w => InStep(v)'
    BY <1>0, <1>1, <1>2, <1>5, SameInStep DEF JsonInv, JsonTypes
  <1>7. InStep(w)'
    BY <1>0, <1>2 DEF InStep, Changing, Writing, JsonInv, JsonTypes
  <1> QED BY <1>0, <1>5, <1>6, <1>7 DEF SoloInv, AllGood

LEMMA LoadSolo ==
  ASSUME SoloInv, NEW w \in Workers, Load(w)
  PROVE  SoloInv'
  <1> DEFINE c == [change[w] EXCEPT !.day = Day(change[w])]
  <1>0. JsonInv /\ JsonInv'
    BY LoadJson DEF SoloInv
  <1>1. /\ change' = [change EXCEPT ![w] = c]
        /\ text' = [text EXCEPT ![w] = Altered(Loaded(c.file), c)]
        /\ doing' = [doing EXCEPT ![w] = "open"] /\ doing[w] = "load"
        /\ UNCHANGED <<path, tmp, data, clock, fd>>
    BY DEF Load
  <1>2. c.file = change[w].file
    BY <1>0, <1>1, Dated DEF JsonInv, WorkersInv
  <1> HIDE DEF c
  <1>3. \A g : Loaded(g)' = Loaded(g)
    BY <1>1 DEF Loaded
  <1>4. Alone'
    BY <1>0, <1>1, <1>2, AloneStays DEF JsonInv, JsonTypes
  <1>5. \A v \in Workers : v # w => InStep(v)'
    BY <1>0, <1>1, <1>3, SameInStep DEF JsonInv, JsonTypes
  <1>6. InStep(w)'
    <2>1. doing'[w] = "open" /\ change'[w] = c /\ text'[w] = Altered(Loaded(c.file), c)
      BY <1>0, <1>1 DEF JsonInv, JsonTypes
    <2>2. PICK g \in Files : g = c.file
      BY <1>0, <1>1, <1>2, FilesKnown DEF JsonInv
    <2>3. text'[w] = Altered(Loaded(g)', change'[w]) /\ g = change'[w].file
      BY <1>3, <2>1, <2>2
    <2> QED BY <2>1, <2>3 DEF InStep, Writing
  <1> QED BY <1>0, <1>3, <1>4, <1>5, <1>6 DEF SoloInv, AllGood

\* What a step of one worker writes is not what another one has open.
LEMMA OpenApart ==
  ASSUME SoloInv, NEW w \in Workers, doing[w] # "idle", NEW v \in Workers, v # w,
         doing[v] # "idle"
  PROVE  /\ change[v].file \in Files /\ change[v].file # change[w].file
         /\ doing[v] \in Writing =>
              fd[v] \in Inodes /\ \A i \in Inodes : Owns(change[w].file, i) => i # fd[v]
  <1>1. change[v].file \in Files /\ change[w].file \in Files
        /\ change[v].file # change[w].file
    BY FilesKnown DEF SoloInv, JsonInv, Alone
  <1>2. doing[v] \in Writing => fd[v] \in Inodes /\ Owns(change[v].file, fd[v])
    BY DEF SoloInv, JsonInv, JsonTypes, WorkersInv, Owns
  <1> QED BY <1>1, <1>2 DEF SoloInv, JsonInv, OwnersInv

LEMMA OpenSolo ==
  ASSUME SoloInv, NEW w \in Workers, Open(w)
  PROVE  SoloInv'
  <1> DEFINE f == change[w].file
  <1>0. JsonInv /\ JsonInv'
    BY OpenJson DEF SoloInv
  <1>1. f \in Files /\ doing[w] = "open" /\ doing' = [doing EXCEPT ![w] = "write"]
        /\ UNCHANGED <<path, clock, change, text>>
    BY <1>0, FilesKnown DEF JsonInv, Open
  <1>2. PICK i \in Inodes :
           /\ tmp' = [tmp EXCEPT ![f] = i]
           /\ data' = [data EXCEPT ![i] = Blank] /\ fd' = [fd EXCEPT ![w] = i]
           /\ \A g \in Files : path[g] # i
           /\ \A g \in Files : Owns(g, i) => g = f
    BY <1>0, OpenTakes
  <1> HIDE DEF f
  <1>3. \A g \in Files : Loaded(g)' = Loaded(g)
    BY <1>0, <1>1, <1>2, SameLoaded DEF JsonInv, JsonTypes
  <1>4. Alone'
    BY <1>0, <1>1, AloneStays DEF JsonInv, JsonTypes
  <1>5. ASSUME NEW v \in Workers, v # w
        PROVE  InStep(v)'
    <2>1. doing[v] # "idle" => change[v].file \in Files /\ change[v].file # f
      BY <1>1, <1>5, OpenApart DEF f
    <2>2. doing[v] \in Writing => fd[v] \in Inodes /\ fd[v] # i
      <3>1. doing[v] \in Writing => fd[v] \in Inodes /\ Owns(change[v].file, fd[v])
        BY <1>0 DEF JsonInv, JsonTypes, WorkersInv, Owns
      <3> QED BY <1>2, <2>1, <3>1 DEF Writing
    <2>3. doing[v] # "idle" => tmp'[change[v].file] = tmp[change[v].file]
      BY <1>0, <1>2, <2>1 DEF JsonInv, JsonTypes
    <2>4. doing[v] \in Writing => data'[fd[v]] = data[fd[v]]
      BY <1>0, <1>2, <2>2 DEF JsonInv, JsonTypes
    <2>5. doing'[v] = doing[v] /\ change'[v] = change[v] /\ text'[v] = text[v] /\ fd'[v] = fd[v]
      BY <1>0, <1>1, <1>2, <1>5 DEF JsonInv, JsonTypes
    <2> QED BY <1>3, <2>1, <2>3, <2>4, <2>5, SameInStep
  <1>6. InStep(w)'
    <2>1. /\ doing'[w] = "write" /\ fd'[w] = i /\ tmp'[f] = i /\ data'[i] = Blank
          /\ change'[w] = change[w] /\ text'[w] = text[w]
      BY <1>0, <1>1, <1>2 DEF JsonInv, JsonTypes
    <2>2. text[w] = Altered(Loaded(f), change[w])
      BY <1>1 DEF SoloInv, InStep, Changing, f
    <2>3. PICK g \in Files : g = f
      BY <1>1
    <2>4. /\ text'[w] = Altered(Loaded(g)', change'[w]) /\ fd'[w] = tmp'[g]
          /\ g = change'[w].file /\ data'[fd'[w]] = Blank
      BY <1>3, <2>1, <2>2, <2>3 DEF f
    <2> QED BY <2>1, <2>4 DEF InStep
  <1> QED BY <1>0, <1>3, <1>4, <1>5, <1>6 DEF SoloInv, AllGood

\* A write, whole or torn, into the temporary file.
LEMMA WriteApart ==
  ASSUME SoloInv, NEW w \in Workers, doing[w] = "write", path' = path,
         NEW d, data' = [data EXCEPT ![fd[w]] = d]
  PROVE  /\ \A g \in Files : Loaded(g)' = Loaded(g)
         /\ \A v \in Workers : v # w /\ doing[v] \in Writing => data'[fd[v]] = data[fd[v]]
  <1>1. change[w].file \in Files /\ fd[w] = tmp[change[w].file] /\ fd[w] \in Inodes
        /\ fd[w] # Unset
    BY FilesKnown DEF SoloInv, InStep, Writing, JsonInv, JsonTypes, WorkersInv
  <1>2. \A g \in Files : path[g] # fd[w]
    BY <1>1, TmpIsNoFile DEF SoloInv
  <1>3. \A g \in Files : Loaded(g)' = Loaded(g)
    BY <1>1, <1>2, SameLoaded DEF SoloInv, JsonInv, JsonTypes
  <1>4. Owns(change[w].file, fd[w])
    BY DEF Owns
  <1>5. ASSUME NEW v \in Workers, v # w, doing[v] \in Writing
        PROVE  data'[fd[v]] = data[fd[v]]
    <2>1. fd[v] # fd[w] /\ fd[v] \in Inodes
      BY <1>1, <1>4, <1>5, OpenApart DEF Writing
    <2> QED BY <1>1, <2>1 DEF SoloInv, JsonInv, JsonTypes
  <1> QED BY <1>3, <1>5

LEMMA WriteSolo ==
  ASSUME SoloInv, NEW w \in Workers, Write(w)
  PROVE  SoloInv'
  <1>0. JsonInv /\ JsonInv'
    BY WriteJson DEF SoloInv
  <1>1. doing[w] = "write" /\ doing' = [doing EXCEPT ![w] = "rename"]
        /\ UNCHANGED <<path, tmp, clock, change, text, fd>>
    BY DEF Write
  <1>2. data' = [data EXCEPT ![fd[w]] = text[w]]
    <2>1. data[fd[w]] = Blank
      BY <1>1 DEF SoloInv, InStep
    <2>2. Overwritten(data[fd[w]], text[w]) = {text[w]}
      BY <2>1, JsonSets DEF Overwritten
    <2> QED BY <2>2 DEF Write
  <1>3. /\ \A g \in Files : Loaded(g)' = Loaded(g)
        /\ \A v \in Workers : v # w /\ doing[v] \in Writing => data'[fd[v]] = data[fd[v]]
    BY <1>1, <1>2, WriteApart
  <1>4. Alone'
    BY <1>0, <1>1, AloneStays DEF JsonInv, JsonTypes
  <1>5. ASSUME NEW v \in Workers, v # w
        PROVE  InStep(v)'
    <2>1. doing'[v] = doing[v] /\ UNCHANGED <<tmp, change, text, fd>>
      BY <1>0, <1>1, <1>5 DEF JsonInv, JsonTypes
    <2> QED BY <1>3, <1>5, <2>1, SameInStep
  <1>6. InStep(w)'
    <2>1. change[w].file \in Files /\ fd[w] \in Inodes
      BY <1>0, <1>1, FilesKnown DEF JsonInv, JsonTypes, WorkersInv, Writing
    <2>2. doing'[w] = "rename" /\ data'[fd[w]] = text[w]
      BY <1>0, <1>1, <1>2, <2>1 DEF JsonInv, JsonTypes
    <2>3. text[w] = Altered(Loaded(change[w].file), change[w])
          /\ fd[w] = tmp[change[w].file]
      BY <1>1 DEF SoloInv, InStep, Changing, Writing
    <2>4. PICK g \in Files : g = change[w].file
      BY <2>1
    <2>5. /\ text'[w] = Altered(Loaded(g)', change'[w]) /\ fd'[w] = tmp'[g]
          /\ g = change'[w].file /\ data'[fd'[w]] = text'[w]
      BY <1>1, <1>3, <2>2, <2>3, <2>4
    <2> QED BY <2>2, <2>5 DEF InStep
  <1> QED BY <1>0, <1>3, <1>4, <1>5, <1>6 DEF SoloInv, AllGood

\* The worker has returned.
LEMMA ReturnSolo ==
  ASSUME SoloInv, JsonInv', NEW w \in Workers, Return(w),
         \A v \in Workers : v # w /\ doing[v] # "idle" =>
           /\ \A g \in Files : g = change[v].file =>
                Loaded(g)' = Loaded(g) /\ tmp'[g] = tmp[g]
           /\ doing[v] \in Writing => data'[fd[v]] = data[fd[v]],
         AllGood'
  PROVE  SoloInv'
  <1>0. JsonInv
    BY DEF SoloInv
  <1>1. \A v \in Workers : v # w =>
          doing'[v] = doing[v] /\ change'[v] = change[v] /\ text'[v] = text[v] /\ fd'[v] = fd[v]
    BY <1>0 DEF Return, JsonInv, JsonTypes
  <1>2. doing'[w] = "idle"
    BY <1>0 DEF Return, JsonInv, JsonTypes
  <1>3. Alone'
    BY <1>1, <1>2, AloneStays
  <1>4. ASSUME NEW v \in Workers, v # w
        PROVE  InStep(v)'
    BY <1>1, <1>4, SameInStep DEF Writing
  <1>5. InStep(w)'
    BY <1>2 DEF InStep, Changing, Writing
  <1> QED BY <1>3, <1>4, <1>5 DEF SoloInv

LEMMA EndSolo ==
  ASSUME SoloInv, NEW w \in Workers, LoadTorn(w) \/ RenameMissing(w) \/ Stop(w)
  PROVE  SoloInv' /\ \A g \in Files : Loaded(g)' = Loaded(g)
  <1>0. JsonInv /\ JsonInv' /\ Return(w) /\ UNCHANGED <<path, tmp, clock>>
    BY ReturnJson DEF SoloInv, LoadTorn, RenameMissing, Stop
  <1>1. /\ \A g \in Files : Loaded(g)' = Loaded(g)
        /\ \A v \in Workers : v # w /\ doing[v] \in Writing => data'[fd[v]] = data[fd[v]]
    <2>1. CASE data' = data
      BY <1>0, <2>1 DEF Loaded
    <2>2. CASE data' # data
      <3>1. doing[w] = "write" /\ data' = [data EXCEPT ![fd[w]] = Torn]
        BY <2>2 DEF LoadTorn, RenameMissing, Stop
      <3> QED BY <1>0, <3>1, WriteApart
    <2> QED BY <2>1, <2>2
  <1>2. AllGood'
    BY <1>1 DEF SoloInv, AllGood
  <1>3. SoloInv'
    BY <1>0, <1>1, <1>2, ReturnSolo
  <1> QED BY <1>1, <1>3

\* The rename makes the change, whole, and of that file only.
LEMMA RenameTakes ==
  ASSUME SoloInv, NEW w \in Workers, Rename(w)
  PROVE  /\ change[w] \in Changes /\ change[w].day \in Days
         /\ \A g \in Files :
              Loaded(g)' = IF g = change[w].file THEN Altered(Loaded(g), change[w])
                                                 ELSE Loaded(g)
  <1> DEFINE f == change[w].file
  <1>0. JsonInv
    BY DEF SoloInv
  <1>1. doing[w] = "rename" /\ tmp[f] # Unset /\ change[w] \in Changes /\ f \in Files
        /\ change[w].day \in Days
    BY <1>0, FilesKnown DEF Rename, JsonInv, WorkersInv, Changing
  <1>2. /\ path' = [path EXCEPT ![f] = tmp[f]]
        /\ data' = [i \in Inodes |->
                     IF i = path[f] /\ \A v \in Workers : fd[v] # i
                     THEN Blank ELSE data[i]]
    BY DEF Rename
  <1>3. tmp[f] \in Inodes /\ path[f] # tmp[f]
    BY <1>0, <1>1, TmpIsNoFile
  <1>4. text[w] = Altered(Loaded(f), change[w]) /\ data[tmp[f]] = text[w]
    BY <1>1 DEF SoloInv, InStep, Changing, Writing
  <1> HIDE DEF f
  <1>5. path'[f] = tmp[f] /\ data'[tmp[f]] = data[tmp[f]]
    BY <1>0, <1>1, <1>2, <1>3 DEF JsonInv, JsonTypes
  <1>6. ASSUME NEW g \in Files, g = f
        PROVE  Loaded(g)' = Altered(Loaded(g), change[w])
    <2>1. path'[g] # Unset /\ data'[path'[g]] = text[w]
      BY <1>1, <1>4, <1>5, <1>6
    <2>2. Loaded(g)' = text[w]
      BY <2>1 DEF Loaded
    <2> QED BY <1>4, <1>6, <2>2
  <1>7. ASSUME NEW g \in Files, g # f
        PROVE  Loaded(g)' = Loaded(g)
    <2>1. path'[g] = path[g]
      BY <1>0, <1>2, <1>7 DEF JsonInv, JsonTypes
    <2>2. path[g] # Unset => path[g] \in Inodes /\ path[g] # path[f]
      BY <1>0, <1>1, <1>7 DEF JsonInv, JsonTypes, OwnersInv, Owns
    <2> QED BY <1>2, <2>1, <2>2, SameLoaded
  <1> QED BY <1>1, <1>6, <1>7 DEF f

LEMMA RenameSolo ==
  ASSUME SoloInv, NEW w \in Workers, Rename(w)
  PROVE  SoloInv'
  <1> DEFINE f == change[w].file
  <1>0. JsonInv /\ JsonInv' /\ Return(w) /\ doing[w] = "rename"
    BY RenameJson DEF SoloInv, Rename
  <1>1. change[w] \in Changes /\ change[w].day \in Days
        /\ \A g \in Files : Loaded(g)' = IF g = f THEN Altered(Loaded(g), change[w])
                                                  ELSE Loaded(g)
    BY RenameTakes
  <1>2. AllGood'
    <2> SUFFICES ASSUME NEW g \in Files PROVE Loaded(g)' \in Good(g)
      BY DEF AllGood
    <2>1. Loaded(g) \in Good(g)
      BY DEF SoloInv, AllGood
    <2>2. g = f => Altered(Loaded(g), change[w]) \in Good(g)
      BY <1>1, <2>1, AlteredGood
    <2> QED BY <1>1, <2>1, <2>2
  <1>3. ASSUME NEW v \in Workers, v # w, doing[v] # "idle"
        PROVE  /\ \A g \in Files : g = change[v].file =>
                    Loaded(g)' = Loaded(g) /\ tmp'[g] = tmp[g]
               /\ doing[v] \in Writing => data'[fd[v]] = data[fd[v]]
    <2>1. change[v].file \in Files /\ change[v].file # f
          /\ (doing[v] \in Writing => fd[v] \in Inodes)
      BY <1>0, <1>3, OpenApart
    <2>2. tmp' = [tmp EXCEPT ![f] = Unset]
      BY DEF Rename
    <2>3. tmp'[change[v].file] = tmp[change[v].file]
      BY <1>0, <2>1, <2>2 DEF JsonInv, JsonTypes
    <2>4. doing[v] \in Writing => data'[fd[v]] = data[fd[v]]
      BY <2>1 DEF Rename
    <2> HIDE DEF f
    <2> QED BY <1>1, <2>1, <2>3, <2>4
  <1> QED BY <1>0, <1>2, <1>3, ReturnSolo

LEMMA SoloStep ==
  ASSUME SoloInv, [JsonNext /\ Alone']_jsonVars
  PROVE  SoloInv'
  <1>1. CASE Tick \/ UNCHANGED jsonVars
    <2>1. UNCHANGED <<path, tmp, data, doing, change, text, fd>>
      BY <1>1 DEF Tick, jsonVars
    <2>2. JsonInv'
      BY JsonStep DEF SoloInv
    <2> QED BY <2>1, <2>2 DEF SoloInv, Alone, InStep, AllGood, Loaded
  <1> QED
    BY <1>1, BeginSolo, LoadSolo, OpenSolo, WriteSolo, RenameSolo, EndSolo DEF JsonNext

LEMMA SoloInvariant == OneAtATimeSpec => []SoloInv
  <1>1. SoloInv /\ [JsonNext /\ Alone']_jsonVars => SoloInv'
    BY SoloStep
  <1> QED BY <1>1, SoloStarts, PTL DEF OneAtATimeSpec

\* A file changes at a rename and at no other step.
LEMMA OthersKeepFiles ==
  ASSUME SoloInv, [JsonNext]_jsonVars, \A w \in Workers : ~Rename(w)
  PROVE  \A g \in Files : Loaded(g)' = Loaded(g)
  <1>0. JsonInv
    BY DEF SoloInv
  <1>1. CASE UNCHANGED <<path, data>>
    BY <1>1 DEF Loaded
  <1>2. ASSUME NEW w \in Workers, Open(w)
        PROVE  \A g \in Files : Loaded(g)' = Loaded(g)
    <2>1. PICK i \in Inodes :
            data' = [data EXCEPT ![i] = Blank] /\ \A g \in Files : path[g] # i
      BY <1>0, <1>2, OpenTakes
    <2>2. path' = path
      BY <1>2 DEF Open
    <2> QED BY <1>0, <2>1, <2>2, SameLoaded DEF JsonInv, JsonTypes
  <1>3. ASSUME NEW w \in Workers, Write(w)
        PROVE  \A g \in Files : Loaded(g)' = Loaded(g)
    <2>1. PICK d : data' = [data EXCEPT ![fd[w]] = d]
      BY <1>3 DEF Write
    <2> QED BY <1>3, <2>1, WriteApart DEF Write
  <1>4. CASE \E w \in Workers : BeginChange(w) \/ Load(w)
    BY <1>1, <1>4 DEF BeginChange, Load
  <1>5. CASE Tick \/ UNCHANGED jsonVars
    BY <1>1, <1>5 DEF Tick, jsonVars
  <1> QED BY <1>2, <1>3, <1>4, <1>5, EndSolo DEF JsonNext

\* Whatever worker stops at whatever step of save, a file that is opened is one
\* whole snapshot, if changes of one file do not overlap.
THEOREM FilesReadable == OneAtATimeSpec => []Readable
  <1>1. SoloInv => Readable
    BY DEF SoloInv, AllGood, Good, Readable, Snapshot
  <1> QED BY <1>1, SoloInvariant, PTL

-----------------------------------------------------------------------------
(* The files are the ledger.                                               *)

DiaryItems == [g \in Agents |-> Loaded(g).items]

LEMMA RenameAdds ==
  ASSUME SoloInv, NEW w \in Workers, Rename(w)
  PROVE  Promise!Next
  <1> DEFINE c == change[w]
  <1>1. c \in Changes /\ c.day \in Days
        /\ \A g \in Files : Loaded(g)' = IF g = c.file THEN Altered(Loaded(g), c)
                                                       ELSE Loaded(g)
    BY RenameTakes
  <1>2. /\ c.file \in Files
        /\ \/ c.file = KG /\ c.op \in {"add", "invalidate"} /\ c.what \in Triples
           \/ c.file \in Agents /\ c.file # KG /\ c.op = "write" /\ c.what \in Texts
    BY <1>1, RequestKinds
  <1>3. KG \in Files /\ Agents \subseteq Files /\ KG \notin Agents
    BY JsonSets DEF Files
  <1>4. \A g \in Files : Loaded(g) \in Good(g)
    BY DEF SoloInv, AllGood
  <1> HIDE DEF c
  <1>5. CASE c.file = KG
    <2>1. UNCHANGED DiaryItems
      BY <1>1, <1>3, <1>5 DEF DiaryItems
    <2>2. Loaded(KG) \in Good(KG) /\ Loaded(KG)' = Altered(Loaded(KG), c)
      BY <1>1, <1>3, <1>4, <1>5
    <2>3. CASE c.op = "add"
      <3>1. Facts' = Append(Facts, [id |-> Loaded(KG).nextId, triple |-> c.what,
                                    from |-> c.day, to |-> Unset])
        BY <2>2, <2>3 DEF Altered, AddFact, Facts
      <3>2. Loaded(KG).nextId = Len(Facts) + 1
        BY <2>2 DEF Good, Facts
      <3>3. Promise!Add(c.what, c.day)
        BY <2>1, <3>1, <3>2 DEF Promise!Add, DiaryItems
      <3> QED BY <1>1, <1>2, <1>3, <1>5, <3>3 DEF Promise!Next
    <2>4. CASE c.op = "invalidate"
      <3>1. Facts' = EndFacts(Loaded(KG), c.what, c.day).items
        BY <2>2, <2>4 DEF Altered, Facts
      <3>2. Facts' = [i \in DOMAIN Facts |->
                        IF Facts[i].triple = c.what /\ Facts[i].to = Unset
                        THEN [Facts[i] EXCEPT !.to = c.day] ELSE Facts[i]]
        BY <1>1, <1>2, <1>3, <1>5, <2>2, <3>1, EndFactsItems DEF Facts
      <3>3. Promise!Invalidate(c.what, c.day)
        BY <2>1, <3>2 DEF Promise!Invalidate, DiaryItems
      <3> QED BY <1>1, <1>2, <1>3, <1>5, <3>3 DEF Promise!Next
    <2> QED BY <1>2, <1>5, <2>3, <2>4
  <1>6. CASE c.file # KG
    <2>1. PICK g \in Agents : g = c.file
      BY <1>2, <1>6
    <2>2. UNCHANGED Facts
      BY <1>1, <1>3, <1>6 DEF Facts
    <2>3. Loaded(g)'.items = Append(Loaded(g).items, [id |-> c.day, text |-> c.what])
      BY <1>1, <1>2, <1>3, <1>6, <2>1 DEF Altered, WriteEntry
    <2>4. \A h \in Agents : h # g => Loaded(h)' = Loaded(h)
      BY <1>1, <1>3, <2>1
    <2>5. DiaryItems' = [DiaryItems EXCEPT ![g] = Append(@, [id |-> c.day, text |-> c.what])]
      BY <2>3, <2>4 DEF DiaryItems
    <2>6. Promise!Write(g, c.what, c.day)
      BY <2>2, <2>5 DEF Promise!Write, DiaryItems
    <2> QED BY <1>1, <1>2, <1>6, <2>6 DEF Promise!Next
  <1> QED BY <1>5, <1>6

\* Knowledge graph and diaries are the ledger their clients were promised: a
\* change is its rename, and every other step, the worker's end among them, is
\* none, as long as changes of one file do not overlap.
THEOREM ImplementsLedger == OneAtATimeSpec => IsLedger
  <1>1. JsonInit => Promise!Init
    <2>1. ASSUME JsonInit PROVE \A f \in Files : Loaded(f) = NoItems(f)
      BY <2>1 DEF JsonInit, Loaded
    <2> QED BY <2>1, JsonSets DEF Promise!Init, Facts, NoItems, Files
  <1>2. ASSUME SoloInv, [JsonNext]_jsonVars
        PROVE  [Promise!Next]_<<Facts, DiaryItems>>
    <2>1. CASE \E w \in Workers : Rename(w)
      BY <1>2, <2>1, RenameAdds
    <2>2. CASE \A w \in Workers : ~Rename(w)
      <3>1. \A g \in Files : Loaded(g)' = Loaded(g)
        BY <1>2, <2>2, OthersKeepFiles
      <3>2. UNCHANGED <<Facts, DiaryItems>>
        BY <3>1 DEF Facts, DiaryItems, Files
      <3> QED BY <3>2
    <2> QED BY <2>1, <2>2
  <1>3. SoloInv /\ [JsonNext /\ Alone']_jsonVars =>
          [Promise!Next]_<<Facts, [g \in Agents |-> Loaded(g).items]>>
    BY <1>2 DEF DiaryItems
  <1> QED BY <1>1, <1>3, SoloInvariant, PTL DEF OneAtATimeSpec, IsLedger, Promise!Spec

\* A change of the graph leaves the answers of Query about the days before its
\* own alone: an added fact begins that day, and an ended one held until then.
LEMMA PastAnswers ==
  ASSUME SoloInv, NEW w \in Workers, Rename(w), NEW d \in Days, d < change[w].day
  PROVE  Answer(d)' = Answer(d)
  <1> DEFINE c == change[w]
  <1>1. c \in Changes /\ c.day \in Days
        /\ \A g \in Files : Loaded(g)' = IF g = c.file THEN Altered(Loaded(g), c)
                                                       ELSE Loaded(g)
    BY RenameTakes
  <1>2. KG \in Files /\ Loaded(KG) \in Good(KG)
    BY DEF Files, SoloInv, AllGood
  <1>3. c.file = KG => c.op \in {"add", "invalidate"} /\ c.what \in Triples
    BY <1>1, RequestKinds, JsonSets
  <1>4. Facts \in Seq(Fact) /\ Loaded(KG).nextId = Len(Facts) + 1
    BY <1>2 DEF Good, Graph, Facts
  <1>5. d \in Nat /\ c.day \in Nat /\ d < c.day /\ d # Unset /\ c.day # Unset
    BY <1>1, JsonSets, JsonBounds DEF Days
  <1> HIDE DEF c
  <1>6. CASE c.file # KG
    BY <1>1, <1>2, <1>6 DEF Answer, Facts
  <1>7. CASE c.file = KG /\ c.op = "add"
    <2>0. PICK fact : fact = [id |-> Loaded(KG).nextId, triple |-> c.what,
                              from |-> c.day, to |-> Unset]
      OBVIOUS
    <2>1. Facts' = Append(Facts, fact)
      BY <1>1, <1>2, <1>7, <2>0 DEF Altered, AddFact, Facts
    <2>2. ~FactValidAt(fact, d)
      BY <1>5, <2>0 DEF FactValidAt
    <2>3. PICK old, new : old = Facts /\ new = Facts'
      OBVIOUS
    <2>4. /\ DOMAIN old = 1 .. Len(old) /\ DOMAIN new = 1 .. Len(old) + 1 /\ Len(old) \in Nat
          /\ \A i \in DOMAIN old : new[i] = old[i]
          /\ \A i \in DOMAIN new : i \notin DOMAIN old => new[i] = fact
      BY <1>4, <2>1, <2>3
    <2>5. \A i \in DOMAIN new : FactValidAt(new[i], d) => i \in DOMAIN old
      BY <2>2, <2>4
    <2>6. DOMAIN old \subseteq DOMAIN new
      BY <2>4
    <2>7. {new[i].id : i \in {j \in DOMAIN new : FactValidAt(new[j], d)}} =
            {old[i].id : i \in {j \in DOMAIN old : FactValidAt(old[j], d)}}
      BY <2>4, <2>5, <2>6
    <2> QED BY <2>3, <2>7 DEF Answer, FactValidAt
  <1>8. CASE c.file = KG /\ c.op = "invalidate"
    <2>1. Facts' = [i \in DOMAIN Facts |->
                      IF Facts[i].triple = c.what /\ Facts[i].to = Unset
                      THEN [Facts[i] EXCEPT !.to = c.day] ELSE Facts[i]]
      BY <1>1, <1>2, <1>3, <1>8, EndFactsItems DEF Altered, Facts
    <2>2. \A i \in DOMAIN Facts : /\ Facts'[i].id = Facts[i].id
                                  /\ FactValidAt(Facts'[i], d) <=> FactValidAt(Facts[i], d)
      <3> SUFFICES ASSUME NEW i \in DOMAIN Facts
                   PROVE  /\ Facts'[i].id = Facts[i].id
                          /\ FactValidAt(Facts'[i], d) <=> FactValidAt(Facts[i], d)
        OBVIOUS
      <3>1. Facts[i] \in Fact
        BY <1>4
      <3>2. CASE Facts'[i] = Facts[i]
        BY <3>2 DEF FactValidAt
      <3>3. CASE Facts[i].to = Unset /\ Facts'[i] = [Facts[i] EXCEPT !.to = c.day]
        <4>1. Facts'[i].id = Facts[i].id /\ Facts'[i].from = Facts[i].from
              /\ Facts'[i].to = c.day
          BY <3>1, <3>3 DEF Fact
        <4> QED BY <1>5, <3>3, <4>1 DEF FactValidAt
      <3> QED BY <2>1, <3>2, <3>3
    <2>3. DOMAIN Facts' = DOMAIN Facts
      BY <2>1
    <2>4. {Facts'[i].id : i \in {j \in DOMAIN Facts' : FactValidAt(Facts'[j], d)}} =
            {Facts[i].id : i \in {j \in DOMAIN Facts : FactValidAt(Facts[j], d)}}
      BY <2>2, <2>3
    <2> QED BY <2>4 DEF Answer, FactValidAt
  <1> QED BY <1>3, <1>6, <1>7, <1>8

\* Query's answers about a day do not change by what is dated later, in any
\* order of changes by any number of workers that do not overlap.
THEOREM PastStaysSettled == OneAtATimeSpec => PastSettled
  <1>1. ASSUME SoloInv, [JsonNext]_jsonVars,
               NEW w \in Workers, doing[w] = "rename", doing'[w] = "idle",
               NEW d \in Days, d < change[w].day
        PROVE  Answer(d)' = Answer(d)
    <2>1. CASE \E v \in Workers : Rename(v)
      <3>1. PICK v \in Workers : Rename(v)
        BY <2>1
      <3>2. doing' = [doing EXCEPT ![v] = "idle"]
        BY <3>1 DEF Rename, Return
      <3>3. v = w
        BY <1>1, <3>2 DEF SoloInv, JsonInv, JsonTypes
      <3> QED BY <1>1, <3>1, <3>3, PastAnswers
    <2>2. CASE \A v \in Workers : ~Rename(v)
      <3>1. \A g \in Files : Loaded(g)' = Loaded(g)
        BY <1>1, <2>2, OthersKeepFiles
      <3> QED BY <3>1 DEF Answer, Facts, Files
    <2> QED BY <2>1, <2>2
  <1>2. SoloInv /\ [JsonNext /\ Alone']_jsonVars =>
          [\A w \in Workers : doing[w] = "rename" /\ doing'[w] = "idle" =>
             \A d \in Days : d < change[w].day => Answer(d)' = Answer(d)]_jsonVars
    BY <1>1
  <1> QED BY <1>2, SoloInvariant, PTL DEF OneAtATimeSpec, PastSettled

=============================================================================
