------------------------------ MODULE JsonStores ------------------------------
(***************************************************************************)
(* The knowledge graph (internal/kg/store.go) and the diaries              *)
(* (internal/diary/store.go): JSON files that every change loads, alters   *)
(* and replaces through one temporary file, with no lock.  A worker is a   *)
(* handler of the daemon or an MCP server of its own.  Files are modelled  *)
(* down to their inodes, because a worker goes on writing the file it has  *)
(* open when another one renames it.                                       *)
(*                                                                         *)
(* A fact's subject, predicate and object are one triple; a date, and the  *)
(* second a diary entry is named after, are days.                          *)
(***************************************************************************)
EXTENDS Naturals, Sequences, FiniteSets

CONSTANTS
  Workers,
  KG,         \* the file of the knowledge graph
  Agents,     \* each has a diary file
  Triples, Texts,
  MaxDay,     \* bound: the clock counts days 1..MaxDay
  MaxItems,   \* bound: facts or entries in a file
  Unset,
  Blank, Torn \* content of a file: nothing (O_TRUNC), or no valid JSON

ASSUME JsonBounds ==
  MaxDay \in Nat \ {0} /\ MaxItems \in Nat
ASSUME JsonSets ==
  /\ IsFiniteSet(Workers) /\ IsFiniteSet(Agents)
  /\ KG \notin Agents /\ Unset \notin Nat
  /\ Blank # Torn

Days   == 1 .. MaxDay
Files  == {KG} \cup Agents
Inodes == 1 .. 2 * Cardinality(Files) + Cardinality(Workers)

Fact  == [id : Nat, triple : Triples, from : Days, to : Days \cup {Unset}]
Entry == [id : Days, text : Texts]

\* What a file holds otherwise: a snapshot.
Graph    == [nextId : Nat, items : Seq(Fact)]
Diary    == [items : Seq(Entry)]
Snapshot(f) == IF f = KG THEN Graph ELSE Diary
NoItems(f)  == IF f = KG THEN [nextId |-> 1, items |-> <<>>] ELSE [items |-> <<>>]

\* A request: the day is Unset while it is left to the clock, as it always is in
\* a diary.
Changes ==
  [file : {KG}, op : {"add", "invalidate"}, what : Triples, day : Days \cup {Unset}]
    \cup [file : Agents, op : {"write"}, what : Texts, day : Days \cup {Unset}]
ChangeRequests == {c \in Changes : c.file \in Agents => c.day = Unset}

VARIABLES
  path, tmp, \* file: the inode of the file and of its temporary file, or Unset
  data,      \* inode: its content
  clock,
  doing,     \* worker: its next step: "idle", "load", "open", "write" or "rename"
  change,    \* worker: its request
  text,      \* worker: the snapshot it is about to write
  fd         \* worker: the temporary file it has open

jsonVars == <<path, tmp, data, clock, doing, change, text, fd>>

JsonInit ==
  /\ path = [f \in Files |-> Unset] /\ tmp = [f \in Files |-> Unset]
  /\ data = [i \in Inodes |-> Blank]
  /\ clock = 1
  /\ doing = [w \in Workers |-> "idle"]
  /\ change = [w \in Workers |-> Unset]
  /\ text = [w \in Workers |-> Unset]
  /\ fd = [w \in Workers |-> Unset]

-----------------------------------------------------------------------------
(* Loading and altering.                                                   *)

\* What load returns for file f.
Loaded(f) == IF path[f] = Unset THEN NoItems(f) ELSE data[path[f]]

\* Mutant: the id comes from the facts that are open.
AddFactByCount(s, triple, day) ==
  [nextId |-> s.nextId + 1,
   items  |-> Append(s.items, [id |-> 1 + Cardinality({i \in DOMAIN s.items : s.items[i].to = Unset}),
                               triple |-> triple, from |-> day, to |-> Unset])]

AddFact(s, triple, day) ==
  [nextId |-> s.nextId + 1,
   items  |-> Append(s.items, [id |-> s.nextId, triple |-> triple,
                               from |-> day, to |-> Unset])]

\* Mutant: facts that have ended are ended again.
EndFactsAgain(s, triple, day) ==
  [s EXCEPT !.items = [i \in DOMAIN @ |->
     IF @[i].triple = triple THEN [@[i] EXCEPT !.to = day] ELSE @[i]]]

\* Only open facts of that very triple are ended.
EndFacts(s, triple, day) ==
  [s EXCEPT !.items = [i \in DOMAIN @ |->
     IF @[i].triple = triple /\ @[i].to = Unset THEN [@[i] EXCEPT !.to = day]
                                               ELSE @[i]]]

WriteEntry(s, t, day) ==
  [items |-> Append(s.items, [id |-> day, text |-> t])]

Altered(s, c) ==
  CASE c.op = "add"        -> AddFact(s, c.what, c.day)
    [] c.op = "invalidate" -> EndFacts(s, c.what, c.day)
    [] c.op = "write"      -> WriteEntry(s, c.what, c.day)

BeginChange(w) ==
  /\ doing[w] = "idle"
  /\ \E c \in ChangeRequests : change' = [change EXCEPT ![w] = c]
  /\ doing' = [doing EXCEPT ![w] = "load"]
  /\ UNCHANGED <<path, tmp, data, clock, text, fd>>

\* The worker answers its request, with a result or an error.
Return(w) ==
  /\ doing' = [doing EXCEPT ![w] = "idle"]
  /\ change' = [change EXCEPT ![w] = Unset]
  /\ text' = [text EXCEPT ![w] = Unset]
  /\ fd' = [fd EXCEPT ![w] = Unset]

Day(c) == IF c.day = Unset THEN clock ELSE c.day

\* load and the change in memory: no step of another worker matters between.
Load(w) ==
  LET c == [change[w] EXCEPT !.day = Day(change[w])]
      s == Loaded(c.file)
  IN /\ doing[w] = "load"
     /\ s \notin {Blank, Torn} /\ Len(s.items) < MaxItems
     /\ change' = [change EXCEPT ![w] = c]
     /\ text' = [text EXCEPT ![w] = Altered(s, c)]
     /\ doing' = [doing EXCEPT ![w] = "open"]
     /\ UNCHANGED <<path, tmp, data, clock, fd>>

\* json.Unmarshal fails.
LoadTorn(w) ==
  /\ doing[w] = "load" /\ Loaded(change[w].file) \in {Blank, Torn}
  /\ Return(w)
  /\ UNCHANGED <<path, tmp, data, clock>>

-----------------------------------------------------------------------------
(* save: WriteFile on the temporary file, Rename.                          *)

InUse == {path[f] : f \in Files} \cup {tmp[f] : f \in Files}
           \cup {fd[w] : w \in Workers}
Fresh == CHOOSE i \in Inodes : i \notin InUse

\* Mutant: the file itself is written.
OpenInPlace(w) ==
  LET f == change[w].file
      i == IF path[f] = Unset THEN Fresh ELSE path[f]
  IN /\ doing[w] = "open"
     /\ path' = [path EXCEPT ![f] = i]
     /\ tmp' = [tmp EXCEPT ![f] = i]
     /\ data' = [data EXCEPT ![i] = Blank]
     /\ fd' = [fd EXCEPT ![w] = i]
     /\ doing' = [doing EXCEPT ![w] = "write"]
     /\ UNCHANGED <<clock, change, text>>

\* O_CREATE and O_TRUNC: a temporary file that is there is emptied.
Open(w) ==
  LET f == change[w].file
      i == IF tmp[f] = Unset THEN Fresh ELSE tmp[f]
  IN /\ doing[w] = "open"
     /\ tmp' = [tmp EXCEPT ![f] = i]
     /\ data' = [data EXCEPT ![i] = Blank]
     /\ fd' = [fd EXCEPT ![w] = i]
     /\ doing' = [doing EXCEPT ![w] = "write"]
     /\ UNCHANGED <<path, clock, change, text>>

\* Writing new from the start of a file that holds old: the rest of a longer
\* old text remains.
Overwritten(old, new) ==
  {new} \cup (IF old = Torn THEN {Torn}
              ELSE IF old # Blank /\ Len(old.items) >= Len(new.items)
              THEN {Torn} ELSE {})

Write(w) ==
  /\ doing[w] = "write"
  /\ \E d \in Overwritten(data[fd[w]], text[w]) :
       data' = [data EXCEPT ![fd[w]] = d]
  /\ doing' = [doing EXCEPT ![w] = "rename"]
  /\ UNCHANGED <<path, tmp, clock, change, text, fd>>

\* The temporary file, whoever wrote it last, becomes the file; the inode it
\* replaces is free once nobody has it open.
Rename(w) ==
  LET f == change[w].file
  IN /\ doing[w] = "rename" /\ tmp[f] # Unset
     /\ path' = [path EXCEPT ![f] = tmp[f]]
     /\ tmp' = [tmp EXCEPT ![f] = Unset]
     /\ data' = [i \in Inodes |->
                   IF i = path[f] /\ \A v \in Workers : fd[v] # i
                   THEN Blank ELSE data[i]]
     /\ Return(w)
     /\ UNCHANGED clock

\* Somebody else has renamed it already.
RenameMissing(w) ==
  /\ doing[w] = "rename" /\ tmp[change[w].file] = Unset
  /\ Return(w)
  /\ UNCHANGED <<path, tmp, data, clock>>

\* An input/output error, or the end of the worker's process; a write may
\* have got only part of the way.
Stop(w) ==
  /\ doing[w] # "idle"
  /\ Return(w)
  /\ data' \in {data} \cup (IF doing[w] = "write" THEN {[data EXCEPT ![fd[w]] = Torn]}
                                               ELSE {})
  /\ UNCHANGED <<path, tmp, clock>>

Tick ==
  /\ clock < MaxDay /\ clock' = clock + 1
  /\ UNCHANGED <<path, tmp, data, doing, change, text, fd>>

JsonNext ==
  \/ Tick
  \/ \E w \in Workers :
       \/ BeginChange(w) \/ Load(w) \/ LoadTorn(w) \/ Open(w) \/ Write(w)
       \/ Rename(w) \/ RenameMissing(w) \/ Stop(w)

JsonSpec == JsonInit /\ [][JsonNext]_jsonVars

\* Changes of one file come one after another, as they do while one client
\* works with a data directory.  Nothing in the code sees to it.
Alone ==
  \A v, w \in Workers :
    doing[v] # "idle" /\ doing[w] # "idle" /\ change[v].file = change[w].file => v = w
OneAtATimeSpec == JsonInit /\ [][JsonNext /\ Alone']_jsonVars

-----------------------------------------------------------------------------
(* Reading.                                                                *)

Facts == Loaded(KG).items

\* Mutant: when a fact began to hold is ignored.
FactValidAtEver(fact, asOf) ==
  IF asOf = Unset THEN fact.to = Unset
  ELSE fact.to # Unset => fact.to >= asOf

\* factValidAt: without a date, the facts that are open.
FactValidAt(fact, asOf) ==
  IF asOf = Unset THEN fact.to = Unset
  ELSE fact.from <= asOf /\ (fact.to # Unset => fact.to >= asOf)

\* The facts Query returns as of a day.
Answer(asOf) ==
  {Facts[i].id : i \in {j \in DOMAIN Facts : FactValidAt(Facts[j], asOf)}}

-----------------------------------------------------------------------------
(* Properties.                                                             *)

\* Whoever opens a file finds one whole snapshot with every date in it, at any
\* moment, also after any worker has stopped half-way: the file is only ever
\* replaced by rename.
Readable == \A f \in Files : Loaded(f) \in Snapshot(f)

\* With one change of each file at a time, knowledge graph and diaries are the
\* ledger they promise: every change takes effect at its rename, once, or not
\* at all, and changes of different files do not disturb one another.
Promise == INSTANCE Ledger WITH
  None <- Unset, facts <- Facts, diary <- [g \in Agents |-> Loaded(g).items]
IsLedger == Promise!Spec

\* A change dated some day, by its caller or by the clock, leaves alone what
\* Query answers as of any day before.
PastSettled ==
  [][\A w \in Workers : doing[w] = "rename" /\ doing'[w] = "idle" =>
       \A d \in Days : d < change[w].day => Answer(d)' = Answer(d)]_jsonVars

\* Even when changes of the knowledge graph race and one of them is lost, a
\* snapshot that can be read gives each fact an id of its own, below the next.
IdsDistinct ==
  Loaded(KG) \notin {Blank, Torn} =>
    \A i, j \in DOMAIN Facts :
      Facts[i].id < Loaded(KG).nextId /\ (Facts[i].id = Facts[j].id => i = j)

\* Nothing that has been stored is lost or altered, except that an open fact
\* may be ended.
StaysAs(old, new) ==
  old = new \/ (new.to # Unset /\ old = [new EXCEPT !.to = Unset])
NothingLost ==
  [][\A f \in Files : Loaded(f) \notin {Blank, Torn} =>
       /\ Loaded(f)' \notin {Blank, Torn}
       /\ \A i \in DOMAIN Loaded(f).items :
            i \in DOMAIN Loaded(f)'.items
            /\ StaysAs(Loaded(f).items[i], Loaded(f)'.items[i])]_jsonVars

=============================================================================
