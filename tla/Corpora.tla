-------------------------------- MODULE Corpora --------------------------------
(***************************************************************************)
(* Hot corpora: the corpus cache of a daemon (internal/daemon/backend.go:  *)
(* ensureCorpus, searchCorpus, Close) and the benchmark runs that use it   *)
(* (internal/bench: the worker pool of RunLongMemEvalInterfaceWithOptions, *)
(* SearchWithDaemon, ensureDaemonCorpus).                                  *)
(*                                                                         *)
(* A run is a process: a feeder, workers, and a collector over two         *)
(* channels.  A worker asks for the corpus of its question (one call per   *)
(* key and run at a time), then searches it.  Both are calls of the        *)
(* daemon; while a call is in a handler's hands the worker waits, and      *)
(* the handler goes on when the run's process has gone.                    *)
(***************************************************************************)
EXTENDS Naturals, Sequences

CONSTANTS
  Workers, Runs, Keys,
  RunOf,       \* worker: the run it belongs to
  Together,    \* bound: the sets of runs that work at the same time
  Jobs,        \* run: the corpus key of each question
  MaxDirs,     \* bound: corpora built
  MaxStarts    \* bound: starts of the daemon

ASSUME CorporaConstants ==
  /\ RunOf \in [Workers -> Runs] /\ Jobs \in [Runs -> Seq(Keys)]
  /\ Together \subseteq SUBSET Runs
  /\ MaxDirs \in Nat /\ MaxStarts \in Nat \ {0}

VARIABLES
  serving,  \* the daemon: "up", "stopping" or "down"
  started,  \* how often it was started
  hot,      \* key: the directory of its corpus in the daemon's cache, or 0
  dirs,     \* temporary directories of corpora that exist
  litter,   \* those of them left behind by a killed daemon
  made,     \* directories made so far
  at, job, dir,          \* worker: where it is, its question, its call's directory
  known,    \* run, key: the start of the daemon that was asked for the corpus, or 0
  flight,   \* run, key: whether a worker is asking
  fed, queue, status     \* run: questions handed out, results not collected, its collector

backendVars == <<serving, started, hot, dirs, litter, made>>
runVars == <<known, flight, fed, queue, status>>
corporaVars == <<backendVars, at, job, dir, runVars>>

InHandler == {"building", "searching"}

CorporaTypeOK ==
  /\ serving \in {"up", "stopping", "down"} /\ started \in 1 .. MaxStarts
  /\ hot \in [Keys -> 0 .. MaxDirs] /\ made \in 0 .. MaxDirs
  /\ dirs \subseteq 1 .. made /\ litter \subseteq dirs
  /\ at \in [Workers -> {"idle", "ensure", "waiting", "call", "lookup", "ensure lost",
                         "search lost", "succeeded", "failed", "gone"} \cup InHandler]
  /\ job \in [Workers -> Nat] /\ dir \in [Workers -> 0 .. MaxDirs]
  /\ \A w \in Workers : job[w] \in 0 .. Len(Jobs[RunOf[w]])
  /\ known \in [Runs -> [Keys -> 0 .. MaxStarts]] /\ flight \in [Runs -> [Keys -> BOOLEAN]]
  /\ fed \in [Runs -> Nat] /\ queue \in [Runs -> Seq(BOOLEAN)]
  /\ \A r \in Runs : fed[r] \in 0 .. Len(Jobs[r])
  /\ status \in [Runs -> {"collecting", "done", "failed", "exited"}]

CorporaInit ==
  /\ serving = "up" /\ started = 1
  /\ hot = [k \in Keys |-> 0] /\ dirs = {} /\ litter = {} /\ made = 0
  /\ \E S \in Together :
       /\ at = [w \in Workers |-> IF RunOf[w] \in S THEN "idle" ELSE "gone"]
       /\ status = [r \in Runs |-> IF r \in S THEN "collecting" ELSE "exited"]
  /\ job = [w \in Workers |-> 0]
  /\ dir = [w \in Workers |-> 0]
  /\ known = [r \in Runs |-> [k \in Keys |-> 0]]
  /\ flight = [r \in Runs |-> [k \in Keys |-> FALSE]]
  /\ fed = [r \in Runs |-> 0] /\ queue = [r \in Runs |-> <<>>]

KeyOf(w) == Jobs[RunOf[w]][job[w]]

Goes(w, s) == at' = [at EXCEPT ![w] = s]

-----------------------------------------------------------------------------
(* A run: feeder, workers, collector.                                      *)

\* The feeder hands an index to whoever receives; the channel has no buffer.
TakeJob(w) ==
  LET r == RunOf[w]
  IN /\ at[w] = "idle" /\ fed[r] < Len(Jobs[r])
     /\ fed' = [fed EXCEPT ![r] = @ + 1]
     /\ job' = [job EXCEPT ![w] = fed[r] + 1]
     /\ Goes(w, "ensure")
     /\ UNCHANGED <<backendVars, dir, known, flight, queue, status>>

\* The results channel has room for every question.
SendResult(w) ==
  LET r == RunOf[w]
  IN /\ at[w] \in {"succeeded", "failed"} /\ Len(queue[r]) < Len(Jobs[r])
     /\ queue' = [queue EXCEPT ![r] = Append(@, at[w] = "succeeded")]
     /\ Goes(w, "idle")
     /\ UNCHANGED <<backendVars, job, dir, known, flight, fed, status>>

\* The first error ends the collector.
Collect(r) ==
  /\ status[r] = "collecting" /\ queue[r] # <<>>
  /\ queue' = [queue EXCEPT ![r] = Tail(@)]
  /\ status' = IF Head(queue[r]) THEN status ELSE [status EXCEPT ![r] = "failed"]
  /\ UNCHANGED <<backendVars, at, job, dir, known, flight, fed>>

\* The jobs channel is closed, so are the results, and no worker is left.
Summarize(r) ==
  /\ status[r] = "collecting" /\ queue[r] = <<>> /\ fed[r] = Len(Jobs[r])
  /\ \A w \in Workers : RunOf[w] = r => at[w] = "idle"
  /\ status' = [status EXCEPT ![r] = "done"]
  /\ UNCHANGED <<backendVars, at, job, dir, known, flight, fed, queue>>

\* The process ends, whatever its workers are doing; a handler does not notice.
ExitRun(r) ==
  /\ status[r] \in {"collecting", "failed"}
  /\ status' = [status EXCEPT ![r] = "exited"]
  /\ at' = [w \in Workers |-> IF RunOf[w] = r /\ at[w] \notin InHandler THEN "gone" ELSE at[w]]
  /\ UNCHANGED <<backendVars, job, dir, known, flight, fed, queue>>

-----------------------------------------------------------------------------
(* ensureDaemonCorpus                                                      *)

\* (mutant) a worker asks although another one of its run is asking.
EnsureAlways(w) ==
  LET r == RunOf[w] k == KeyOf(w)
  IN /\ at[w] = "ensure"
     /\ IF known[r][k] # 0 THEN Goes(w, "lookup") /\ UNCHANGED flight
        ELSE Goes(w, "call") /\ flight' = [flight EXCEPT ![r][k] = TRUE]
     /\ UNCHANGED <<backendVars, job, dir, known, fed, queue, status>>

\* The head of the loop, under the builder's mutex.
Ensure(w) ==
  LET r == RunOf[w] k == KeyOf(w)
  IN /\ at[w] = "ensure"
     /\ \/ known[r][k] # 0 /\ Goes(w, "lookup") /\ UNCHANGED flight
        \/ known[r][k] = 0 /\ flight[r][k] /\ Goes(w, "waiting") /\ UNCHANGED flight
        \/ /\ known[r][k] = 0 /\ ~flight[r][k]
           /\ flight' = [flight EXCEPT ![r][k] = TRUE]
           /\ Goes(w, "call")
     /\ UNCHANGED <<backendVars, job, dir, known, fed, queue, status>>

\* (mutant) only success wakes the workers that wait.
EnsuredOrStuck(w, ok) ==
  LET r == RunOf[w] k == KeyOf(w)
      next == IF status[r] = "exited" THEN "gone" ELSE IF ok THEN "lookup" ELSE "failed"
  IN /\ flight' = [flight EXCEPT ![r][k] = ~ok]
     /\ known' = IF ok THEN [known EXCEPT ![r][k] = started] ELSE known
     /\ at' = [x \in Workers |->
                 IF x = w THEN next
                 ELSE IF ok /\ at[x] = "waiting" /\ RunOf[x] = r /\ KeyOf(x) = k THEN "ensure"
                 ELSE at[x]]
     /\ UNCHANGED <<job, fed, queue, status>>

\* The call has ended: the channel the others wait on is closed, whether or not it
\* succeeded.
Ensured(w, ok) ==
  LET r == RunOf[w] k == KeyOf(w)
      next == IF status[r] = "exited" THEN "gone" ELSE IF ok THEN "lookup" ELSE "failed"
  IN /\ flight' = [flight EXCEPT ![r][k] = FALSE]
     /\ known' = IF ok THEN [known EXCEPT ![r][k] = started] ELSE known
     /\ at' = [x \in Workers |->
                 IF x = w THEN next
                 ELSE IF at[x] = "waiting" /\ RunOf[x] = r /\ KeyOf(x) = k THEN "ensure"
                 ELSE at[x]]
     /\ UNCHANGED <<job, fed, queue, status>>

\* The call does not reach a daemon, or loses it.
EnsureUnanswered(w) ==
  /\ \/ at[w] = "call" /\ serving # "up"
     \/ at[w] = "ensure lost"
  /\ Ensured(w, FALSE)
  /\ UNCHANGED <<backendVars, dir>>

-----------------------------------------------------------------------------
(* The daemon's handlers.                                                  *)

EnsureHit(w) ==
  /\ at[w] = "call" /\ serving = "up" /\ hot[KeyOf(w)] # 0
  /\ Ensured(w, TRUE)
  /\ UNCHANGED <<backendVars, dir>>

\* NewCorpus makes a directory of its own and fills it, with no lock held.
EnsureMiss(w) ==
  /\ at[w] = "call" /\ serving = "up" /\ hot[KeyOf(w)] = 0
  /\ made < MaxDirs
  /\ made' = made + 1 /\ dirs' = dirs \cup {made + 1}
  /\ dir' = [dir EXCEPT ![w] = made + 1]
  /\ Goes(w, "building")
  /\ UNCHANGED <<serving, started, hot, litter, job, runVars>>

\* (mutant) the error of a build is not passed on.
BuildFailsUnnoticed(w) ==
  /\ at[w] = "building"
  /\ dirs' = dirs \ {dir[w]}
  /\ Ensured(w, TRUE)
  /\ UNCHANGED <<serving, started, hot, litter, made, dir>>

BuildFails(w) ==
  /\ at[w] = "building"
  /\ dirs' = dirs \ {dir[w]}
  /\ Ensured(w, FALSE)
  /\ UNCHANGED <<serving, started, hot, litter, made, dir>>

\* (mutant) the second look under the lock is left out.
StoreUnchecked(w) ==
  /\ at[w] = "building"
  /\ hot' = [hot EXCEPT ![KeyOf(w)] = dir[w]]
  /\ Ensured(w, TRUE)
  /\ UNCHANGED <<serving, started, dirs, litter, made, dir>>

\* The corpus is built; whoever comes second closes its own.
Store(w) ==
  /\ at[w] = "building"
  /\ IF hot[KeyOf(w)] # 0
     THEN dirs' = dirs \ {dir[w]} /\ UNCHANGED hot
     ELSE hot' = [hot EXCEPT ![KeyOf(w)] = dir[w]] /\ UNCHANGED dirs
  /\ Ensured(w, TRUE)
  /\ UNCHANGED <<serving, started, litter, made, dir>>

Answer(w, ok) ==
  Goes(w, IF status[RunOf[w]] = "exited" THEN "gone" ELSE IF ok THEN "succeeded" ELSE "failed")

\* searchCorpus looks the corpus up under the read lock and searches without.
LookUp(w) ==
  /\ at[w] = "lookup"
  /\ IF serving = "up" /\ hot[KeyOf(w)] # 0
     THEN Goes(w, "searching") /\ dir' = [dir EXCEPT ![w] = hot[KeyOf(w)]]
     ELSE Answer(w, FALSE) /\ UNCHANGED dir
  /\ UNCHANGED <<backendVars, job, runVars>>

Searched(w) ==
  /\ at[w] = "searching"
  /\ \E ok \in BOOLEAN : Answer(w, ok)
  /\ UNCHANGED <<backendVars, job, dir, runVars>>

\* The search loses its daemon.
SearchCut(w) ==
  /\ at[w] = "search lost"
  /\ Answer(w, FALSE)
  /\ UNCHANGED <<backendVars, job, dir, runVars>>

-----------------------------------------------------------------------------
(* The daemon's life: see DaemonServer for how it comes and goes.          *)

StopDaemon ==
  /\ serving = "up" /\ serving' = "stopping"
  /\ UNCHANGED <<started, hot, dirs, litter, made, at, job, dir, runVars>>

Cached == {hot[k] : k \in Keys} \ {0}

\* (mutant) the corpora are closed while handlers are still busy.
CloseBackendAtOnce ==
  /\ serving = "stopping"
  /\ serving' = "down" /\ hot' = [k \in Keys |-> 0] /\ dirs' = dirs \ Cached
  /\ UNCHANGED <<started, litter, made, at, job, dir, runVars>>

\* Backend.Close, after the last handler.
CloseBackend ==
  /\ serving = "stopping" /\ \A w \in Workers : at[w] \notin InHandler
  /\ serving' = "down" /\ hot' = [k \in Keys |-> 0] /\ dirs' = dirs \ Cached
  /\ UNCHANGED <<started, litter, made, at, job, dir, runVars>>

\* A killed daemon's corpora stay on disk, and the calls it was at are lost.
KillDaemon ==
  /\ serving # "down"
  /\ serving' = "down" /\ hot' = [k \in Keys |-> 0] /\ litter' = dirs
  /\ at' = [w \in Workers |->
              IF at[w] = "searching" THEN "search lost"
              ELSE IF at[w] \in InHandler THEN "ensure lost" ELSE at[w]]
  /\ UNCHANGED <<started, dirs, made, job, dir, runVars>>

RestartDaemon ==
  /\ serving = "down" /\ started < MaxStarts
  /\ serving' = "up" /\ started' = started + 1
  /\ UNCHANGED <<hot, dirs, litter, made, at, job, dir, runVars>>

-----------------------------------------------------------------------------
WorkerStep(w) ==
  \/ TakeJob(w) \/ SendResult(w) \/ Ensure(w) \/ EnsureUnanswered(w)
  \/ EnsureHit(w) \/ EnsureMiss(w) \/ Store(w)
  \/ LookUp(w) \/ Searched(w) \/ SearchCut(w)

DaemonLife == StopDaemon \/ CloseBackend \/ KillDaemon \/ RestartDaemon

CorporaNext ==
  \/ \E w \in Workers : WorkerStep(w) \/ BuildFails(w)
  \/ \E r \in Runs : Collect(r) \/ Summarize(r) \/ ExitRun(r)
  \/ DaemonLife

\* Workers, handlers and collectors go on; a build may last, but ends in one way or
\* the other; the daemon may do as it likes.
CorporaFair ==
  /\ \A w \in Workers : WF_corporaVars(WorkerStep(w))
  /\ \A r \in Runs : WF_corporaVars(Collect(r) \/ Summarize(r))

CorporaSpec == CorporaInit /\ [][CorporaNext]_corporaVars /\ CorporaFair

-----------------------------------------------------------------------------
(* Properties.                                                             *)

\* Every directory of a corpus has one owner that will remove it: the cache, under
\* one key, or one handler that has built it (ensureCorpus, Close).  Only a killed
\* daemon leaves any behind.
EveryDirOwned ==
  LET builders == {w \in Workers : at[w] = "building"}
  IN /\ dirs \ litter = Cached \cup {dir[w] : w \in builders}
     /\ \A w \in builders : dir[w] \notin Cached \cup litter
     /\ \A w, x \in builders : dir[w] = dir[x] => w = x
     /\ \A k, l \in Keys : hot[k] = hot[l] /\ hot[k] # 0 => k = l
     /\ Cached \cap litter = {}

\* No handler searches a corpus whose directory is gone
\* (TestDaemonShutdownWaitsForActiveCorpusSearch).
SearchesOpen == \A w \in Workers : at[w] = "searching" => dir[w] \in dirs

\* The workers of a run never ask for one corpus at the same time
\* (daemonEnsures): it is built for them once.
OneFlightPerKey ==
  \A w, x \in Workers :
    /\ at[w] \in {"call", "building"} /\ at[x] \in {"call", "building"}
    /\ RunOf[w] = RunOf[x] /\ status[RunOf[w]] # "exited" /\ KeyOf(w) = KeyOf(x)
    => w = x

\* "corpus not found" has one cause: the daemon was started anew since the run asked
\* for the corpus (daemonCorpusKeys outlives it).
KnownIsHot ==
  \A r \in Runs, k \in Keys : serving = "up" /\ known[r][k] = started => hot[k] # 0

\* A run ends, with a result or an error, whatever becomes of the daemon, and no worker
\* waits for ever for the one that asks: nobody waits for an answer that is owed by
\* nobody, or for room in the results channel (the loop of ensureDaemonCorpus, the
\* buffer of the results).
RunReturns ==
  /\ \A r \in Runs : status[r] = "collecting" ~> status[r] # "collecting"
  /\ \A w \in Workers : at[w] = "waiting" ~> at[w] # "waiting"

=============================================================================
