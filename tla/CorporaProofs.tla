----------------------------- MODULE CorporaProofs -----------------------------
(***************************************************************************)
(* The corpora of a daemon and the runs that use them, for any number of   *)
(* runs, workers, questions, corpora and starts of the daemon.             *)
(***************************************************************************)
EXTENDS Corpora, SequenceTheorems, TLAPS

Places == {"idle", "ensure", "waiting", "call", "lookup", "ensure lost",
           "search lost", "succeeded", "failed", "gone"} \cup InHandler

BackTypes ==
  /\ serving \in {"up", "stopping", "down"} /\ started \in 1 .. MaxStarts
  /\ hot \in [Keys -> 0 .. MaxDirs] /\ made \in 0 .. MaxDirs

\* A worker on its way has a question.
WorkTypes ==
  /\ at \in [Workers -> Places]
  /\ job \in [Workers -> Nat] /\ dir \in [Workers -> 0 .. MaxDirs]
  /\ \A w \in Workers : job[w] \in 0 .. Len(Jobs[RunOf[w]])
  /\ \A w \in Workers : at[w] \notin {"idle", "gone"} => job[w] # 0

RunTypes ==
  /\ known \in [Runs -> [Keys -> 0 .. MaxStarts]] /\ flight \in [Runs -> [Keys -> BOOLEAN]]
  /\ fed \in [Runs -> Nat] /\ queue \in [Runs -> Seq(BOOLEAN)]
  /\ \A r \in Runs : fed[r] \in 0 .. Len(Jobs[r])
  /\ status \in [Runs -> {"collecting", "done", "failed", "exited"}]

DirTypes == dirs \subseteq 1 .. made /\ litter \subseteq dirs

\* What is searched is in the cache.
SearchesCached == \A w \in Workers : at[w] = "searching" => dir[w] \in Cached

\* Nobody was asked that has not been started.
KnownStarted == \A r \in Runs, k \in Keys : known[r][k] <= started

Asking(w) == at[w] \in {"call", "building", "ensure lost"}
Alive(w)  == status[RunOf[w]] # "exited"

\* A worker that asks is the one its run's flight is about.
FlightsAsked ==
  /\ \A w \in Workers : Asking(w) /\ Alive(w) => flight[RunOf[w]][KeyOf(w)]
  /\ \A w, x \in Workers :
       Asking(w) /\ Asking(x) /\ RunOf[w] = RunOf[x] /\ Alive(w) /\ KeyOf(w) = KeyOf(x)
       => w = x

CorporaInv ==
  /\ BackTypes /\ WorkTypes /\ RunTypes /\ DirTypes
  /\ EveryDirOwned /\ SearchesCached /\ KnownStarted /\ KnownIsHot /\ FlightsAsked

-----------------------------------------------------------------------------
LEMMA KeyTyped ==
  ASSUME WorkTypes, NEW w \in Workers, at[w] \notin {"idle", "gone"}
  PROVE  KeyOf(w) \in Keys /\ RunOf[w] \in Runs
  BY CorporaConstants DEF WorkTypes, KeyOf

\* The end of a call changes flights and knowledge, and where workers are.
LEMMA EnsuredTyped ==
  ASSUME WorkTypes, RunTypes, BackTypes, NEW w \in Workers, NEW ok \in BOOLEAN,
         at[w] \notin {"idle", "gone"}, dir' = dir, Ensured(w, ok)
  PROVE  WorkTypes' /\ RunTypes'
<1>1. KeyOf(w) \in Keys /\ RunOf[w] \in Runs
  BY KeyTyped
<1>2. job' = job /\ fed' = fed /\ queue' = queue /\ status' = status
  BY DEF Ensured
<1>3. at' \in [Workers -> Places]
  BY DEF Ensured, WorkTypes, Places, InHandler
<1>4. \A x \in Workers : at'[x] \notin {"idle", "gone"} => job[x] # 0
  BY DEF Ensured, WorkTypes, Places, InHandler
<1>5. WorkTypes'
  BY <1>2, <1>3, <1>4 DEF WorkTypes
<1>6. flight' \in [Runs -> [Keys -> BOOLEAN]]
  BY <1>1 DEF Ensured, RunTypes
<1>7. known' \in [Runs -> [Keys -> 0 .. MaxStarts]]
  BY <1>1, CorporaConstants DEF Ensured, RunTypes, BackTypes
<1> QED
  BY <1>2, <1>5, <1>6, <1>7 DEF RunTypes

\* Every step keeps the types.
LEMMA TypesStep ==
  ASSUME WorkTypes, RunTypes, BackTypes, [CorporaNext]_corporaVars
  PROVE  WorkTypes' /\ RunTypes' /\ BackTypes'
<1> USE CorporaConstants
<1>1. ASSUME NEW w \in Workers, TakeJob(w)
      PROVE  WorkTypes' /\ RunTypes' /\ BackTypes'
  <2>1. BackTypes'
    BY <1>1 DEF TakeJob, BackTypes, backendVars
  <2>2. WorkTypes'
    <3> DEFINE q == fed[RunOf[w]] + 1
    <3>1. q \in 1 .. Len(Jobs[RunOf[w]]) /\ RunOf[w] \in Runs /\ q \in Nat
      BY <1>1 DEF TakeJob, RunTypes
    <3>2. at' = [at EXCEPT ![w] = "ensure"] /\ job' = [job EXCEPT ![w] = q] /\ dir' = dir
      BY <1>1 DEF TakeJob, Goes
    <3> HIDE DEF q
    <3>3. at' \in [Workers -> Places] /\ job' \in [Workers -> Nat]
      BY <3>1, <3>2 DEF WorkTypes, Places
    <3>4. /\ \A x \in Workers : job'[x] \in 0 .. Len(Jobs[RunOf[x]])
          /\ \A x \in Workers : at'[x] \notin {"idle", "gone"} => job'[x] # 0
      BY <3>1, <3>2 DEF WorkTypes
    <3> QED
      BY <3>2, <3>3, <3>4 DEF WorkTypes
  <2>3. RunTypes'
    BY <1>1 DEF TakeJob, RunTypes
  <2> QED
    BY <2>1, <2>2, <2>3
<1>2. ASSUME NEW w \in Workers, SendResult(w)
      PROVE  WorkTypes' /\ RunTypes' /\ BackTypes'
  <2>1. BackTypes'
    BY <1>2 DEF SendResult, BackTypes, backendVars
  <2>2. WorkTypes'
    BY <1>2 DEF SendResult, WorkTypes, Goes, Places
  <2>3. queue' \in [Runs -> Seq(BOOLEAN)]
    BY <1>2 DEF SendResult, RunTypes
  <2>4. RunTypes'
    BY <1>2, <2>3 DEF SendResult, RunTypes
  <2> QED
    BY <2>1, <2>2, <2>4
<1>3. ASSUME NEW w \in Workers, Ensure(w)
      PROVE  WorkTypes' /\ RunTypes' /\ BackTypes'
  <2>1. BackTypes'
    BY <1>3 DEF Ensure, BackTypes, backendVars
  <2>2. WorkTypes'
    BY <1>3 DEF Ensure, WorkTypes, Goes, Places
  <2>3. flight' \in [Runs -> [Keys -> BOOLEAN]]
    <3>1. KeyOf(w) \in Keys /\ RunOf[w] \in Runs
      BY <1>3, KeyTyped DEF Ensure
    <3>2. flight' = flight \/ flight' = [flight EXCEPT ![RunOf[w]][KeyOf(w)] = TRUE]
      BY <1>3 DEF Ensure
    <3>3. CASE flight' = [flight EXCEPT ![RunOf[w]][KeyOf(w)] = TRUE]
      BY <3>1, <3>3 DEF RunTypes
    <3>4. CASE flight' = flight
      BY <3>4 DEF RunTypes
    <3> QED
      BY <3>2, <3>3, <3>4
  <2>4. RunTypes'
    BY <1>3, <2>3 DEF Ensure, RunTypes
  <2> QED
    BY <2>1, <2>2, <2>4
<1>4. ASSUME NEW w \in Workers, EnsureUnanswered(w) \/ EnsureHit(w)
      PROVE  WorkTypes' /\ RunTypes' /\ BackTypes'
  <2>1. BackTypes'
    BY <1>4 DEF EnsureUnanswered, EnsureHit, BackTypes, backendVars
  <2>2. \E ok \in BOOLEAN : Ensured(w, ok)
    BY <1>4 DEF EnsureUnanswered, EnsureHit
  <2>3. at[w] \notin {"idle", "gone"} /\ dir' = dir
    BY <1>4 DEF EnsureUnanswered, EnsureHit
  <2> QED
    BY <2>1, <2>2, <2>3, EnsuredTyped
<1>5. ASSUME NEW w \in Workers, EnsureMiss(w)
      PROVE  WorkTypes' /\ RunTypes' /\ BackTypes'
  <2>1. BackTypes'
    BY <1>5 DEF EnsureMiss, BackTypes
  <2>2. WorkTypes'
    <3>1. /\ at' = [at EXCEPT ![w] = "building"] /\ at[w] = "call" /\ job' = job
          /\ dir' = [dir EXCEPT ![w] = made + 1] /\ made + 1 \in 0 .. MaxDirs
      BY <1>5 DEF EnsureMiss, BackTypes, Goes
    <3> QED
      BY <3>1 DEF WorkTypes, Places, InHandler
  <2>3. RunTypes'
    BY <1>5 DEF EnsureMiss, RunTypes, runVars
  <2> QED
    BY <2>1, <2>2, <2>3
<1>6. ASSUME NEW w \in Workers, Store(w) \/ BuildFails(w)
      PROVE  WorkTypes' /\ RunTypes' /\ BackTypes'
  <2>1. BackTypes'
    BY <1>6, KeyTyped DEF Store, BuildFails, BackTypes, WorkTypes
  <2>2. \E ok \in BOOLEAN : Ensured(w, ok)
    BY <1>6 DEF Store, BuildFails
  <2>3. at[w] \notin {"idle", "gone"} /\ dir' = dir
    BY <1>6 DEF Store, BuildFails
  <2> QED
    BY <2>1, <2>2, <2>3, EnsuredTyped
<1>7. ASSUME NEW w \in Workers, LookUp(w) \/ Searched(w) \/ SearchCut(w)
      PROVE  WorkTypes' /\ RunTypes' /\ BackTypes'
  <2>1. BackTypes'
    BY <1>7 DEF LookUp, Searched, SearchCut, BackTypes, backendVars
  <2>2. /\ dir' \in [Workers -> 0 .. MaxDirs] /\ job' = job
        /\ \E s \in Places \ {"idle"} : Goes(w, s)
    BY <1>7, KeyTyped DEF LookUp, Searched, SearchCut, Answer, Places, InHandler, WorkTypes, BackTypes
  <2>3. at[w] \notin {"idle", "gone"}
    BY <1>7 DEF LookUp, Searched, SearchCut
  <2>4. WorkTypes'
    BY <2>2, <2>3 DEF WorkTypes, Goes
  <2>5. RunTypes'
    BY <1>7 DEF LookUp, Searched, SearchCut, RunTypes, runVars
  <2> QED
    BY <2>1, <2>4, <2>5
<1>8. ASSUME NEW r \in Runs, Collect(r) \/ Summarize(r)
      PROVE  WorkTypes' /\ RunTypes' /\ BackTypes'
  <2>1. BackTypes' /\ WorkTypes'
    BY <1>8 DEF Collect, Summarize, BackTypes, WorkTypes, backendVars
  <2>2. queue' \in [Runs -> Seq(BOOLEAN)]
    <3>1. CASE Collect(r)
      <4>1. queue[r] \in Seq(BOOLEAN) /\ queue[r] # <<>>
        BY <3>1 DEF Collect, RunTypes
      <4>2. Tail(queue[r]) \in Seq(BOOLEAN)
        BY <4>1, HeadTailProperties
      <4> QED
        BY <3>1, <4>2 DEF Collect, RunTypes
    <3> QED
      BY <1>8, <3>1 DEF Summarize, RunTypes
  <2>3. status' \in [Runs -> {"collecting", "done", "failed", "exited"}]
    BY <1>8 DEF Collect, Summarize, RunTypes
  <2> QED
    BY <1>8, <2>1, <2>2, <2>3 DEF Collect, Summarize, RunTypes
<1>9. ASSUME NEW r \in Runs, ExitRun(r)
      PROVE  WorkTypes' /\ RunTypes' /\ BackTypes'
  <2>1. BackTypes' /\ RunTypes'
    BY <1>9 DEF ExitRun, BackTypes, RunTypes, backendVars
  <2>2. WorkTypes'
    BY <1>9 DEF ExitRun, WorkTypes, Places
  <2> QED
    BY <2>1, <2>2
<1>10. CASE DaemonLife
  <2>1. RunTypes'
    BY <1>10 DEF DaemonLife, StopDaemon, CloseBackend, KillDaemon, RestartDaemon, RunTypes, runVars
  <2>2. BackTypes'
    <3>1. \/ hot' = hot \/ hot' = [k \in Keys |-> 0]
      BY <1>10 DEF DaemonLife, StopDaemon, CloseBackend, KillDaemon, RestartDaemon
    <3>2. /\ serving' \in {"up", "stopping", "down"} /\ made' = made
          /\ started' = started \/ (started < MaxStarts /\ started' = started + 1)
      BY <1>10 DEF DaemonLife, StopDaemon, CloseBackend, KillDaemon, RestartDaemon
    <3>3. hot' \in [Keys -> 0 .. MaxDirs]
      BY <3>1 DEF BackTypes
    <3> QED
      BY <3>2, <3>3 DEF BackTypes
  <2>3. WorkTypes'
    BY <1>10 DEF DaemonLife, StopDaemon, CloseBackend, KillDaemon, RestartDaemon, WorkTypes, Places, InHandler
  <2> QED
    BY <2>1, <2>2, <2>3
<1>11. CASE UNCHANGED corporaVars
  BY <1>11 DEF corporaVars, backendVars, runVars, BackTypes, WorkTypes, RunTypes
<1> QED
  BY <1>1, <1>2, <1>3, <1>4, <1>5, <1>6, <1>7, <1>8, <1>9, <1>10, <1>11
  DEF CorporaNext, WorkerStep

-----------------------------------------------------------------------------
(* The directories of the corpora.                                         *)

Owned == DirTypes /\ EveryDirOwned /\ SearchesCached

Builders == {x \in Workers : at[x] = "building"}

\* A step that leaves the directories alone and neither begins nor ends a build.
LEMMA QuietKeepsOwned ==
  ASSUME Owned, dirs' = dirs, litter' = litter, made' = made, hot' = hot,
         \A x \in Workers : at'[x] = "building" <=> at[x] = "building",
         \A x \in Workers : at[x] = "building" => dir'[x] = dir[x],
         \A x \in Workers : at'[x] = "searching" => dir'[x] \in Cached
  PROVE  Owned'
<1>1. Cached' = Cached /\ Builders' = Builders
  BY DEF Cached, Builders
<1>2. {dir'[x] : x \in Builders'} = {dir[x] : x \in Builders}
  BY <1>1 DEF Builders
<1> QED
  BY <1>1, <1>2 DEF Owned, DirTypes, EveryDirOwned, SearchesCached, Builders

\* The end of a call: its worker is in no handler any more, the others stay.
LEMMA EnsuredHandlers ==
  ASSUME WorkTypes, NEW w \in Workers, NEW ok \in BOOLEAN, Ensured(w, ok)
  PROVE  \A x \in Workers :
           /\ at'[x] \in InHandler => x # w /\ at'[x] = at[x]
           /\ at[x] \in InHandler /\ x # w => at'[x] = at[x]
  BY DEF Ensured, InHandler, WorkTypes

\* A build that ends with its directory in the cache, or gone.
LEMMA BuiltOwned ==
  ASSUME Owned, WorkTypes, BackTypes, NEW w \in Workers, at[w] = "building",
         Store(w) \/ BuildFails(w)
  PROVE  Owned'
<1>1. /\ made' = made /\ litter' = litter /\ dir' = dir
      /\ \E ok \in BOOLEAN : Ensured(w, ok)
  BY DEF Store, BuildFails
<1>2. \A x \in Workers :
        /\ at'[x] = "building" <=> at[x] = "building" /\ x # w
        /\ at'[x] = "searching" => at[x] = "searching"
  BY <1>1, EnsuredHandlers DEF InHandler
<1>3. Builders' = Builders \ {w} /\ w \in Builders
  BY <1>2 DEF Builders
<1>4. /\ dirs \ litter = Cached \cup {dir[x] : x \in Builders}
      /\ \A x \in Builders : dir[x] \notin Cached \cup litter
      /\ \A x, y \in Builders : dir[x] = dir[y] => x = y
      /\ \A k, l \in Keys : hot[k] = hot[l] /\ hot[k] # 0 => k = l
      /\ Cached \cap litter = {}
  BY DEF Owned, EveryDirOwned, Builders
<1>5. dir[w] \in dirs /\ dir[w] \notin litter \cup Cached /\ dir[w] # 0
  BY <1>3, <1>4 DEF Owned, DirTypes
<1>6. {dir'[x] : x \in Builders'} = {dir[x] : x \in Builders} \ {dir[w]}
  BY <1>1, <1>3, <1>4
<1>7. /\ \A x \in Builders' : dir'[x] \notin Cached \cup litter \cup {dir[w]}
      /\ \A x, y \in Builders' : dir'[x] = dir'[y] => x = y
  BY <1>1, <1>3, <1>4
<1>8. CASE dirs' = dirs \ {dir[w]} /\ hot' = hot
  <2>1. Cached' = Cached
    BY <1>8 DEF Cached
  <2>2. EveryDirOwned'
    <3>1. dirs' \ litter' = Cached' \cup {dir'[x] : x \in Builders'}
      BY <1>1, <1>4, <1>5, <1>6, <1>8, <2>1
    <3> QED
      BY <1>1, <1>4, <1>7, <1>8, <2>1, <3>1 DEF EveryDirOwned, Builders
  <2>3. DirTypes'
    BY <1>1, <1>5, <1>8 DEF Owned, DirTypes
  <2>4. SearchesCached'
    BY <1>1, <1>2, <2>1 DEF Owned, SearchesCached
  <2> QED
    BY <2>2, <2>3, <2>4 DEF Owned
<1>9. CASE /\ hot[KeyOf(w)] = 0 /\ dirs' = dirs
           /\ hot' = [hot EXCEPT ![KeyOf(w)] = dir[w]]
  <2>1. KeyOf(w) \in Keys
    BY KeyTyped
  <2>2. Cached' = Cached \cup {dir[w]}
    BY <1>5, <1>9, <2>1 DEF Cached, BackTypes
  <2>3. \A k, l \in Keys : hot'[k] = hot'[l] /\ hot'[k] # 0 => k = l
    <3>1. \A k \in Keys : hot[k] # dir[w]
      BY <1>5 DEF Cached
    <3> QED
      BY <1>4, <1>9, <2>1, <3>1 DEF BackTypes
  <2>4. EveryDirOwned'
    <3>1. dirs' \ litter' = Cached' \cup {dir'[x] : x \in Builders'}
      BY <1>1, <1>3, <1>4, <1>6, <1>9, <2>2
    <3>2. Cached' \cap litter' = {}
      BY <1>1, <1>4, <1>5, <2>2
    <3> QED
      BY <1>1, <1>7, <2>2, <2>3, <3>1, <3>2 DEF EveryDirOwned, Builders
  <2>5. DirTypes'
    BY <1>1, <1>9 DEF Owned, DirTypes
  <2>6. SearchesCached'
    BY <1>1, <1>2, <2>2 DEF Owned, SearchesCached
  <2> QED
    BY <2>4, <2>5, <2>6 DEF Owned
<1> QED
  BY <1>8, <1>9 DEF Store, BuildFails

\* A build that begins.
LEMMA MissOwned ==
  ASSUME Owned, WorkTypes, BackTypes, NEW w \in Workers, EnsureMiss(w)
  PROVE  Owned'
<1> DEFINE n == made + 1
<1>1. /\ made' = n /\ dirs' = dirs \cup {n} /\ litter' = litter /\ hot' = hot
      /\ dir' = [dir EXCEPT ![w] = n] /\ at' = [at EXCEPT ![w] = "building"]
      /\ at[w] = "call"
  BY DEF EnsureMiss, Goes
<1>2. n \notin dirs /\ dirs \subseteq 1 .. n /\ n \in 1 .. n
  BY DEF Owned, DirTypes, BackTypes
<1> HIDE DEF n
<1>3. /\ Builders' = Builders \cup {w} /\ w \notin Builders /\ dir'[w] = n
      /\ \A x \in Builders : dir'[x] = dir[x]
      /\ Cached' = Cached
  BY <1>1 DEF Builders, WorkTypes, Cached
<1>4. /\ dirs \ litter = Cached \cup {dir[x] : x \in Builders}
      /\ \A x \in Builders : dir[x] \notin Cached \cup litter
      /\ \A x, y \in Builders : dir[x] = dir[y] => x = y
      /\ \A k, l \in Keys : hot[k] = hot[l] /\ hot[k] # 0 => k = l
      /\ Cached \cap litter = {} /\ litter \subseteq dirs
  BY DEF Owned, EveryDirOwned, Builders, DirTypes
<1>5. {dir'[x] : x \in Builders'} = {dir[x] : x \in Builders} \cup {n}
  BY <1>3
<1>6. /\ dirs' \ litter' = Cached' \cup {dir'[x] : x \in Builders'}
      /\ \A x \in Builders' : dir'[x] \notin Cached' \cup litter'
      /\ \A x, y \in Builders' : dir'[x] = dir'[y] => x = y
  BY <1>1, <1>2, <1>3, <1>4, <1>5
<1>7. EveryDirOwned'
  BY <1>1, <1>3, <1>4, <1>6 DEF EveryDirOwned, Builders
<1>8. DirTypes'
  BY <1>1, <1>2, <1>4 DEF DirTypes
<1>9. SearchesCached'
  BY <1>1, <1>3 DEF Owned, SearchesCached, WorkTypes
<1> QED
  BY <1>7, <1>8, <1>9 DEF Owned

\* The daemon comes and goes.
LEMMA LifeOwned ==
  ASSUME Owned, WorkTypes, DaemonLife
  PROVE  Owned'
<1>1. CASE StopDaemon \/ RestartDaemon
  BY <1>1, QuietKeepsOwned DEF StopDaemon, RestartDaemon, Owned, SearchesCached
<1>2. /\ dirs \ litter = Cached \cup {dir[x] : x \in Builders}
      /\ Cached \cap litter = {} /\ litter \subseteq dirs /\ dirs \subseteq 1 .. made
  BY DEF Owned, EveryDirOwned, Builders, DirTypes
<1>3. CASE CloseBackend \/ KillDaemon
  <2>1. hot' = [k \in Keys |-> 0] /\ made' = made /\ dir' = dir
    BY <1>3 DEF CloseBackend, KillDaemon
  <2>2. Cached' = {} /\ \A k \in Keys : hot'[k] = 0
    BY <2>1 DEF Cached
  <2>3. \A x \in Workers : at'[x] \notin InHandler
    BY <1>3 DEF CloseBackend, KillDaemon, InHandler, WorkTypes
  <2>4. Builders' = {} /\ {dir'[x] : x \in Builders'} = {}
    BY <2>3 DEF Builders, InHandler
  <2>5. dirs' \ litter' = {} /\ litter' \subseteq dirs' /\ dirs' \subseteq dirs
    <3>1. CASE KillDaemon
      BY <3>1 DEF KillDaemon
    <3>2. CASE CloseBackend
      <4>1. Builders = {}
        BY <3>2 DEF CloseBackend, Builders, InHandler
      <4>2. dirs \ litter = Cached
        BY <1>2, <4>1
      <4> QED
        BY <1>2, <3>2, <4>2 DEF CloseBackend
    <3> QED
      BY <1>3, <3>1, <3>2
  <2>6. EveryDirOwned'
    BY <2>2, <2>4, <2>5 DEF EveryDirOwned, Builders
  <2>7. DirTypes' /\ SearchesCached'
    BY <1>2, <2>1, <2>3, <2>5 DEF DirTypes, SearchesCached, InHandler
  <2> QED
    BY <2>6, <2>7 DEF Owned
<1> QED
  BY <1>1, <1>3 DEF DaemonLife

\* Every step keeps the directories owned.
LEMMA OwnedStep ==
  ASSUME Owned, WorkTypes, BackTypes, RunTypes, [CorporaNext]_corporaVars
  PROVE  Owned'
<1>1. ASSUME NEW w \in Workers,
             TakeJob(w) \/ SendResult(w) \/ Ensure(w) \/ Searched(w) \/ SearchCut(w)
      PROVE  Owned'
  <2>1. dirs' = dirs /\ litter' = litter /\ made' = made /\ hot' = hot /\ dir' = dir
    BY <1>1 DEF TakeJob, SendResult, Ensure, Searched, SearchCut, backendVars
  <2>2. /\ at[w] # "building"
        /\ \E s \in Places \ InHandler : Goes(w, s)
    BY <1>1 DEF TakeJob, SendResult, Ensure, Searched, SearchCut, Answer, Places, InHandler
  <2>3. \A x \in Workers : /\ at'[x] = "building" <=> at[x] = "building"
                           /\ at'[x] = "searching" => at[x] = "searching"
    BY <2>2 DEF Goes, InHandler, WorkTypes
  <2> QED
    BY <2>1, <2>3, QuietKeepsOwned DEF Owned, SearchesCached
<1>2. ASSUME NEW w \in Workers, EnsureUnanswered(w) \/ EnsureHit(w)
      PROVE  Owned'
  <2>1. dirs' = dirs /\ litter' = litter /\ made' = made /\ hot' = hot /\ dir' = dir
    BY <1>2 DEF EnsureUnanswered, EnsureHit, backendVars
  <2>2. /\ at[w] \notin InHandler
        /\ \E ok \in BOOLEAN : Ensured(w, ok)
    BY <1>2 DEF EnsureUnanswered, EnsureHit, InHandler
  <2>3. \A x \in Workers : /\ at'[x] = "building" <=> at[x] = "building"
                           /\ at'[x] = "searching" => at[x] = "searching"
    BY <2>2, EnsuredHandlers DEF InHandler
  <2> QED
    BY <2>1, <2>3, QuietKeepsOwned DEF Owned, SearchesCached
<1>3. ASSUME NEW w \in Workers, EnsureMiss(w)
      PROVE  Owned'
  BY <1>3, MissOwned
<1>4. ASSUME NEW w \in Workers, Store(w) \/ BuildFails(w)
      PROVE  Owned'
  BY <1>4, BuiltOwned DEF Store, BuildFails
<1>5. ASSUME NEW w \in Workers, LookUp(w)
      PROVE  Owned'
  <2>1. /\ dirs' = dirs /\ litter' = litter /\ made' = made /\ hot' = hot
        /\ at[w] = "lookup"
    BY <1>5 DEF LookUp, backendVars
  <2>2. CASE /\ hot[KeyOf(w)] # 0 /\ Goes(w, "searching")
             /\ dir' = [dir EXCEPT ![w] = hot[KeyOf(w)]]
    <3>1. hot[KeyOf(w)] \in Cached
      BY <2>1, <2>2, KeyTyped DEF Cached
    <3>2. \A x \in Workers : /\ at'[x] = "building" <=> at[x] = "building"
                             /\ at[x] = "building" => dir'[x] = dir[x]
                             /\ at'[x] = "searching" => dir'[x] \in Cached
      BY <2>1, <2>2, <3>1 DEF Goes, WorkTypes, Owned, SearchesCached
    <3> QED
      BY <2>1, <3>2, QuietKeepsOwned
  <2>3. CASE dir' = dir /\ Answer(w, FALSE)
    <3>1. \A x \in Workers : /\ at'[x] = "building" <=> at[x] = "building"
                             /\ at'[x] = "searching" => at[x] = "searching"
      BY <2>1, <2>3 DEF Answer, Goes, WorkTypes
    <3> QED
      BY <2>1, <2>3, <3>1, QuietKeepsOwned DEF Owned, SearchesCached
  <2> QED
    BY <1>5, <2>2, <2>3 DEF LookUp
<1>6. ASSUME NEW r \in Runs, Collect(r) \/ Summarize(r) \/ ExitRun(r)
      PROVE  Owned'
  <2>1. dirs' = dirs /\ litter' = litter /\ made' = made /\ hot' = hot /\ dir' = dir
    BY <1>6 DEF Collect, Summarize, ExitRun, backendVars
  <2>2. \A x \in Workers : /\ at'[x] = "building" <=> at[x] = "building"
                           /\ at'[x] = "searching" => at[x] = "searching"
    BY <1>6 DEF Collect, Summarize, ExitRun, InHandler, WorkTypes
  <2> QED
    BY <2>1, <2>2, QuietKeepsOwned DEF Owned, SearchesCached
<1>7. CASE DaemonLife
  BY <1>7, LifeOwned
<1>8. CASE UNCHANGED corporaVars
  BY <1>8, QuietKeepsOwned DEF corporaVars, backendVars, Owned, SearchesCached
<1> QED
  BY <1>1, <1>2, <1>3, <1>4, <1>5, <1>6, <1>7, <1>8 DEF CorporaNext, WorkerStep

-----------------------------------------------------------------------------
(* What the runs know about the daemon.                                    *)

Known == KnownStarted /\ KnownIsHot

\* A call that has succeeded: its key is in the cache of the daemon now started.
LEMMA LearntKnown ==
  ASSUME Known, WorkTypes, BackTypes, RunTypes, NEW w \in Workers,
         at[w] \notin {"idle", "gone"}, Ensured(w, TRUE),
         serving' = serving, started' = started,
         \A k \in Keys : hot[k] # 0 => hot'[k] # 0, hot'[KeyOf(w)] # 0
  PROVE  Known'
<1>1. KeyOf(w) \in Keys /\ RunOf[w] \in Runs
  BY KeyTyped
<1>2. known' = [known EXCEPT ![RunOf[w]][KeyOf(w)] = started]
  BY DEF Ensured
<1>3. \A r \in Runs, k \in Keys :
        known'[r][k] = known[r][k] \/ (k = KeyOf(w) /\ known'[r][k] = started)
  BY <1>1, <1>2 DEF RunTypes
<1>4. KnownStarted'
  BY <1>3 DEF Known, KnownStarted, BackTypes
<1>5. KnownIsHot'
  BY <1>3 DEF Known, KnownIsHot
<1> QED
  BY <1>4, <1>5 DEF Known

\* Every step.
LEMMA KnownStep ==
  ASSUME Known, Owned, WorkTypes, BackTypes, RunTypes, [CorporaNext]_corporaVars
  PROVE  Known'
<1>1. ASSUME known' = known, serving' = serving, started' = started, hot' = hot
      PROVE  Known'
  BY <1>1 DEF Known, KnownStarted, KnownIsHot
<1>2. ASSUME NEW w \in Workers,
             TakeJob(w) \/ SendResult(w) \/ Ensure(w) \/ EnsureMiss(w) \/ LookUp(w)
               \/ Searched(w) \/ SearchCut(w) \/ EnsureUnanswered(w) \/ BuildFails(w)
      PROVE  Known'
  <2>1. known' = known /\ serving' = serving /\ started' = started /\ hot' = hot
    BY <1>2 DEF TakeJob, SendResult, Ensure, EnsureMiss, LookUp, Searched, SearchCut,
                EnsureUnanswered, BuildFails, Ensured, backendVars, runVars
  <2> QED
    BY <1>1, <2>1
<1>3. ASSUME NEW w \in Workers, EnsureHit(w)
      PROVE  Known'
  <2>1. /\ at[w] \notin {"idle", "gone"} /\ Ensured(w, TRUE) /\ hot[KeyOf(w)] # 0
        /\ serving' = serving /\ started' = started /\ hot' = hot
    BY <1>3 DEF EnsureHit, backendVars
  <2> QED
    BY <2>1, LearntKnown
<1>4. ASSUME NEW w \in Workers, Store(w)
      PROVE  Known'
  <2>1. /\ at[w] = "building" /\ Ensured(w, TRUE)
        /\ serving' = serving /\ started' = started
    BY <1>4 DEF Store
  <2>2. dir[w] # 0
    BY <2>1 DEF Owned, DirTypes, EveryDirOwned
  <2>3. KeyOf(w) \in Keys
    BY <2>1, KeyTyped
  <2>4. hot'[KeyOf(w)] # 0 /\ \A k \in Keys : hot[k] # 0 => hot'[k] # 0
    BY <1>4, <2>2, <2>3 DEF Store, BackTypes
  <2> QED
    BY <2>1, <2>4, LearntKnown
<1>5. ASSUME NEW r \in Runs, Collect(r) \/ Summarize(r) \/ ExitRun(r)
      PROVE  Known'
  <2>1. known' = known /\ serving' = serving /\ started' = started /\ hot' = hot
    BY <1>5 DEF Collect, Summarize, ExitRun, backendVars
  <2> QED
    BY <1>1, <2>1
<1>6. CASE StopDaemon \/ CloseBackend \/ KillDaemon
  <2>1. known' = known /\ started' = started /\ serving' # "up"
    BY <1>6 DEF StopDaemon, CloseBackend, KillDaemon, runVars
  <2> QED
    BY <2>1 DEF Known, KnownStarted, KnownIsHot
<1>7. CASE RestartDaemon
  <2>1. known' = known /\ started' = started + 1
    BY <1>7 DEF RestartDaemon, runVars
  <2>2. \A r \in Runs, k \in Keys : known'[r][k] <= started /\ known'[r][k] \in Nat
    BY <2>1, CorporaConstants DEF Known, KnownStarted, RunTypes
  <2> QED
    BY <2>1, <2>2, CorporaConstants DEF Known, KnownStarted, KnownIsHot, BackTypes
<1>8. CASE UNCHANGED corporaVars
  BY <1>1, <1>8 DEF corporaVars, backendVars, runVars
<1> QED
  BY <1>2, <1>3, <1>4, <1>5, <1>6, <1>7, <1>8 DEF CorporaNext, WorkerStep, DaemonLife

-----------------------------------------------------------------------------
(* Who asks for what.                                                      *)

\* A step after which nobody asks who did not ask before.
LEMMA QuietKeepsFlights ==
  ASSUME FlightsAsked, flight' = flight,
         \A x \in Workers : Asking(x)' => Asking(x) /\ job'[x] = job[x],
         \A x \in Workers : Alive(x)' => Alive(x)
  PROVE  FlightsAsked'
<1>1. \A x \in Workers : Asking(x)' => KeyOf(x)' = KeyOf(x)
  BY DEF KeyOf
<1> QED
  BY <1>1 DEF FlightsAsked

\* The end of a call ends its flight and no other.
LEMMA EnsuredFlights ==
  ASSUME FlightsAsked, WorkTypes, RunTypes, NEW w \in Workers, NEW ok \in BOOLEAN,
         Asking(w), Ensured(w, ok)
  PROVE  FlightsAsked'
<1>1. KeyOf(w) \in Keys /\ RunOf[w] \in Runs
  BY KeyTyped DEF Asking
<1>2. job' = job /\ status' = status
  BY DEF Ensured
<1>3. \A x \in Workers : Asking(x)' => Asking(x) /\ x # w
  BY DEF Ensured, Asking, WorkTypes
<1>4. \A x \in Workers : KeyOf(x)' = KeyOf(x) /\ (Alive(x)' <=> Alive(x))
  BY <1>2 DEF KeyOf, Alive
<1>5. flight' = [flight EXCEPT ![RunOf[w]][KeyOf(w)] = FALSE]
  BY DEF Ensured
<1>6. ASSUME NEW x \in Workers, Asking(x)', Alive(x)'
      PROVE  flight'[RunOf[x]][KeyOf(x)]
  <2>1. Asking(x) /\ x # w /\ Alive(x) /\ flight[RunOf[x]][KeyOf(x)]
    BY <1>3, <1>4, <1>6 DEF FlightsAsked
  <2>2. ~(RunOf[x] = RunOf[w] /\ KeyOf(x) = KeyOf(w))
    BY <2>1 DEF FlightsAsked
  <2>3. RunOf[x] \in Runs /\ KeyOf(x) \in Keys
    BY <2>1, KeyTyped DEF Asking
  <2> QED
    BY <1>1, <1>5, <2>1, <2>2, <2>3 DEF RunTypes
<1> QED
  BY <1>3, <1>4, <1>6 DEF FlightsAsked

\* A worker that begins to ask finds no flight.
LEMMA AskFlights ==
  ASSUME FlightsAsked, WorkTypes, RunTypes, NEW w \in Workers, Ensure(w)
  PROVE  FlightsAsked'
<1>1. KeyOf(w) \in Keys /\ RunOf[w] \in Runs /\ at[w] = "ensure"
  BY KeyTyped DEF Ensure
<1>2. job' = job /\ status' = status
  BY DEF Ensure
<1>3. CASE flight' = flight /\ (Goes(w, "lookup") \/ Goes(w, "waiting"))
  <2>1. \A x \in Workers : Asking(x)' => Asking(x)
    BY <1>1, <1>3 DEF Goes, Asking, WorkTypes
  <2> QED
    BY <1>2, <1>3, <2>1, QuietKeepsFlights DEF Alive
<1>4. CASE /\ ~flight[RunOf[w]][KeyOf(w)] /\ Goes(w, "call")
           /\ flight' = [flight EXCEPT ![RunOf[w]][KeyOf(w)] = TRUE]
  <2>1. \A x \in Workers : Asking(x)' => x = w \/ Asking(x)
    BY <1>4 DEF Goes, Asking, WorkTypes
  <2>2. \A x \in Workers : KeyOf(x)' = KeyOf(x) /\ (Alive(x)' <=> Alive(x))
    BY <1>2 DEF KeyOf, Alive
  <2>3. ASSUME NEW x \in Workers, Asking(x)', Alive(x)'
        PROVE  flight'[RunOf[x]][KeyOf(x)]
    <3>1. CASE x = w
      BY <1>1, <1>4, <3>1 DEF RunTypes
    <3>2. CASE x # w
      <4>1. Asking(x) /\ flight[RunOf[x]][KeyOf(x)]
        BY <2>1, <2>2, <2>3, <3>2 DEF FlightsAsked
      <4>2. RunOf[x] \in Runs /\ KeyOf(x) \in Keys
        BY <4>1, KeyTyped DEF Asking
      <4> QED
        BY <1>1, <1>4, <4>1, <4>2 DEF RunTypes
    <3> QED
      BY <3>1, <3>2
  <2>4. ASSUME NEW x \in Workers, Asking(x), Alive(x), RunOf[x] = RunOf[w]
        PROVE  KeyOf(x) # KeyOf(w)
    BY <1>4, <2>4 DEF FlightsAsked
  <2>5. ASSUME NEW x \in Workers, NEW y \in Workers, Asking(x)', Asking(y)',
               RunOf[x] = RunOf[y], Alive(x)', KeyOf(x)' = KeyOf(y)'
        PROVE  x = y
    <3>1. KeyOf(x) = KeyOf(y) /\ Alive(x) /\ Alive(y)
      BY <2>2, <2>5 DEF Alive
    <3> QED
      BY <2>1, <2>4, <2>5, <3>1 DEF FlightsAsked
  <2> QED
    BY <2>2, <2>3, <2>5 DEF FlightsAsked
<1> QED
  BY <1>3, <1>4 DEF Ensure

\* Every step.
LEMMA FlightsStep ==
  ASSUME FlightsAsked, WorkTypes, RunTypes, [CorporaNext]_corporaVars
  PROVE  FlightsAsked'
<1>1. ASSUME NEW w \in Workers,
             TakeJob(w) \/ SendResult(w) \/ EnsureMiss(w) \/ LookUp(w) \/ Searched(w)
               \/ SearchCut(w)
      PROVE  FlightsAsked'
  <2>1. /\ flight' = flight /\ status' = status
        /\ \A x \in Workers \ {w} : at'[x] = at[x] /\ job'[x] = job[x]
    BY <1>1 DEF TakeJob, SendResult, EnsureMiss, LookUp, Searched, SearchCut, Answer, Goes,
                WorkTypes, runVars
  <2>2. Asking(w)' => Asking(w) /\ job'[w] = job[w]
    BY <1>1 DEF TakeJob, SendResult, EnsureMiss, LookUp, Searched, SearchCut, Answer, Goes,
                WorkTypes, Asking
  <2>3. \A x \in Workers : Asking(x)' => Asking(x) /\ job'[x] = job[x]
    BY <2>1, <2>2 DEF Asking
  <2> QED
    BY <2>1, <2>3, QuietKeepsFlights DEF Alive
<1>2. ASSUME NEW w \in Workers, EnsureUnanswered(w) \/ EnsureHit(w) \/ Store(w) \/ BuildFails(w)
      PROVE  FlightsAsked'
  <2>1. Asking(w) /\ \E ok \in BOOLEAN : Ensured(w, ok)
    BY <1>2 DEF EnsureUnanswered, EnsureHit, Store, BuildFails, Asking
  <2> QED
    BY <2>1, EnsuredFlights
<1>3. ASSUME NEW w \in Workers, Ensure(w)
      PROVE  FlightsAsked'
  BY <1>3, AskFlights
<1>4. ASSUME NEW r \in Runs, Collect(r) \/ Summarize(r) \/ ExitRun(r)
      PROVE  FlightsAsked'
  <2>1. flight' = flight /\ job' = job
    BY <1>4 DEF Collect, Summarize, ExitRun
  <2>2. \A x \in Workers : Asking(x)' => Asking(x)
    BY <1>4 DEF Collect, Summarize, ExitRun, Asking
  <2>3. \A x \in Workers : Alive(x)' => Alive(x)
    <3>1. \A s \in Runs : status'[s] # "exited" => status[s] # "exited"
      BY <1>4 DEF Collect, Summarize, ExitRun, RunTypes
    <3> QED
      BY <3>1, CorporaConstants DEF Alive
  <2> QED
    BY <2>1, <2>2, <2>3, QuietKeepsFlights
<1>5. CASE DaemonLife
  <2>1. flight' = flight /\ job' = job /\ status' = status
    BY <1>5 DEF DaemonLife, StopDaemon, CloseBackend, KillDaemon, RestartDaemon, runVars
  <2>2. \A x \in Workers : Asking(x)' => Asking(x)
    BY <1>5 DEF DaemonLife, StopDaemon, CloseBackend, KillDaemon, RestartDaemon, Asking,
                InHandler
  <2> QED
    BY <2>1, <2>2, QuietKeepsFlights DEF Alive
<1>6. CASE UNCHANGED corporaVars
  BY <1>6, QuietKeepsFlights DEF corporaVars, runVars, Asking, Alive
<1> QED
  BY <1>1, <1>2, <1>3, <1>4, <1>5, <1>6 DEF CorporaNext, WorkerStep

-----------------------------------------------------------------------------
LEMMA CorporaStarts == CorporaInit => CorporaInv
<1> SUFFICES ASSUME CorporaInit PROVE CorporaInv
  OBVIOUS
<1> USE CorporaConstants DEF CorporaInit
<1>1. BackTypes /\ DirTypes /\ SearchesCached /\ KnownStarted /\ KnownIsHot
  BY DEF BackTypes, DirTypes, SearchesCached, KnownStarted, KnownIsHot
<1>2. WorkTypes
  BY DEF WorkTypes, Places
<1>3. RunTypes
  BY DEF RunTypes
<1>4. Cached = {} /\ dirs = {} /\ litter = {} /\ \A k \in Keys : hot[k] = 0
  BY DEF Cached
<1>5. EveryDirOwned
  <2>1. Builders = {}
    BY DEF Builders
  <2>2. {dir[w] : w \in Builders} = {}
    BY <2>1
  <2> HIDE DEF CorporaInit
  <2> QED
    BY <1>4, <2>1, <2>2 DEF EveryDirOwned, Builders
<1>6. FlightsAsked
  BY DEF FlightsAsked, Asking
<1> QED
  BY <1>1, <1>2, <1>3, <1>5, <1>6 DEF CorporaInv

LEMMA CorporaStep == CorporaInv /\ [CorporaNext]_corporaVars => CorporaInv'
<1> SUFFICES ASSUME CorporaInv, [CorporaNext]_corporaVars PROVE CorporaInv'
  OBVIOUS
<1>1. BackTypes /\ WorkTypes /\ RunTypes /\ Owned /\ Known /\ FlightsAsked
  BY DEF CorporaInv, Owned, Known
<1>2. BackTypes' /\ WorkTypes' /\ RunTypes'
  BY <1>1, TypesStep
<1>3. Owned' /\ Known' /\ FlightsAsked'
  BY <1>1, OwnedStep, KnownStep, FlightsStep
<1> QED
  BY <1>2, <1>3 DEF CorporaInv, Owned, Known

LEMMA CorporaInvariant == CorporaSpec => []CorporaInv
<1> QED
  BY CorporaStarts, CorporaStep, PTL DEF CorporaSpec

\* Every directory of a corpus is in the cache under one key or in the hands of the one
\* handler that builds it, unless a killed daemon has left it (ensureCorpus, Close).
THEOREM DirectoriesOwned == CorporaSpec => []EveryDirOwned
<1>1. CorporaInv => EveryDirOwned
  BY DEF CorporaInv
<1> QED
  BY <1>1, CorporaInvariant, PTL

\* A handler that searches without the lock never finds the directory of its corpus gone,
\* though the daemon is stopped, killed and started anew (searchCorpus, Close).
THEOREM SearchesFindTheirCorpus == CorporaSpec => []SearchesOpen
<1>1. CorporaInv => SearchesOpen
  BY DEF CorporaInv, SearchesOpen, SearchesCached, EveryDirOwned
<1> QED
  BY <1>1, CorporaInvariant, PTL

\* Of the workers of a run at most one asks for a corpus (daemonEnsures).
THEOREM OneAsks == CorporaSpec => []OneFlightPerKey
<1>1. CorporaInv => OneFlightPerKey
  BY DEF CorporaInv, OneFlightPerKey, FlightsAsked, Asking, Alive
<1> QED
  BY <1>1, CorporaInvariant, PTL

\* What a run has learnt of the daemon it asked stays true until that daemon stops
\* (daemonCorpusKeys).
THEOREM KnowledgeHolds == CorporaSpec => []KnownIsHot
<1>1. CorporaInv => KnownIsHot
  BY DEF CorporaInv
<1> QED
  BY <1>1, CorporaInvariant, PTL

\* The types of the model.
THEOREM CorporaTypes == CorporaSpec => []CorporaTypeOK
<1>1. CorporaInv => CorporaTypeOK
  BY DEF CorporaInv, CorporaTypeOK, BackTypes, WorkTypes, RunTypes, DirTypes, Places
<1> QED
  BY <1>1, CorporaInvariant, PTL

=============================================================================
