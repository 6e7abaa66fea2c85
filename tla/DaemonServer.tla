----------------------------- MODULE DaemonServer -----------------------------
(***************************************************************************)
(* The Unix-socket daemon (internal/daemon/server.go), the call a client   *)
(* makes on it (client.go) and the commands that make calls                *)
(* (internal/cli: app.go, mcp.go, serve.go).                               *)
(*                                                                         *)
(* The socket file is a name in a directory: removing and binding work on  *)
(* the name, connecting reaches whoever listens on the socket the name     *)
(* leads to.  A connection has two ends; either may close first, and what  *)
(* one end wrote stays readable.  A daemon's own steps are those of Run    *)
(* and listen, one per system call that another process can notice; its    *)
(* handlers are goroutines, one per connection.                            *)
(*                                                                         *)
(* A client runs one command after another: add one entry, after a status  *)
(* call that finds out whether a daemon answers.                           *)
(***************************************************************************)
EXTENDS Naturals, FiniteSets

CONSTANTS
  Daemons,     \* processes that run "tagmem serve"
  Clients,     \* processes that add entries
  Proxies,     \* those of them that are MCP servers, which may do without a daemon
  Conns,       \* bound: connections at a time
  MaxStarts,   \* bound: starts of a daemon, together
  MaxTries,    \* bound: commands of each client
  Overlapping, \* whether one daemon starts while another one starts or stops
  Nobody, Foreign

ASSUME ClientKinds == Proxies \subseteq Clients
ASSUME NoSuchDaemon ==
  Nobody \notin Daemons \cup Clients \cup Conns \cup {Foreign} /\ Foreign \notin Daemons
ASSUME BoundsAssumption == MaxStarts \in Nat /\ MaxTries \in [Clients -> Nat]
ASSUME OverlappingIsBoolean == Overlapping \in BOOLEAN
ASSUME ConnsFinite == IsFiniteSet(Conns)

VARIABLES
  stage,     \* daemon: where Run is
  listening, \* daemon: its socket accepts connections
  stopping,  \* daemon: its context is cancelled
  path,      \* the socket file: whose socket, no file, or another kind of file
  starts,
  conn,      \* connection: both ends
  at,        \* client: where its command is
  mode,      \* client: whether it goes through the daemon
  line,      \* client: its connection
  tries, refused, stored, told \* client: commands begun, known not to have
             \* sent their add, entries added for it, commands that reported success

daemonVars == <<stage, listening, stopping, path, starts>>
clientVars == <<at, mode, line, tries, refused, told>>
vars == <<daemonVars, clientVars, conn, stored>>

Starting == {"stat", "probe", "remove", "bind", "listen", "chmod"}
Ending   == {"drain", "unlink"}
Handled  == {"reading", "replying"}

Free == [stage |-> "free", server |-> Nobody, open |-> FALSE, sent |-> "nothing",
         for |-> Nobody, reply |-> "none"]

Connections ==
  [stage : {"free", "queued", "answered"} \cup Handled,
   server : Daemons \cup {Nobody}, open : BOOLEAN, sent : {"nothing", "status", "add"},
   for : Clients \cup {Nobody}, reply : {"none", "ok", "error", "reset"}]

TypeOK ==
  /\ stage \in [Daemons -> {"off", "serving"} \cup Starting \cup Ending]
  /\ listening \in [Daemons -> BOOLEAN] /\ stopping \in [Daemons -> BOOLEAN]
  /\ path \in Daemons \cup {Nobody, Foreign} /\ starts \in 0 .. MaxStarts
  /\ conn \in [Conns -> Connections]
  /\ at \in [Clients -> {"idle", "probe", "add"}]
  /\ mode \in [Clients -> {"unset", "daemon", "direct"}]
  /\ line \in [Clients -> Conns \cup {Nobody}]
  /\ tries \in [Clients -> Nat] /\ refused \in [Clients -> Nat]
  /\ stored \in [Clients -> Nat] /\ told \in [Clients -> Nat]

Zero == [c \in Clients |-> 0]

Init ==
  /\ stage = [d \in Daemons |-> "off"]
  /\ listening = [d \in Daemons |-> FALSE] /\ stopping = [d \in Daemons |-> FALSE]
  /\ path \in {Nobody, Foreign} /\ starts = 0
  /\ conn = [k \in Conns |-> Free]
  /\ at = [c \in Clients |-> "idle"] /\ mode = [c \in Clients |-> "unset"]
  /\ line = [c \in Clients |-> Nobody]
  /\ tries = Zero /\ refused = Zero /\ stored = Zero /\ told = Zero

\* (mutant) a file of another kind is dialled too.
AnsweringAnyFile == IF path = Foreign \/ (path \in Daemons /\ listening[path]) THEN path ELSE Nobody

\* Whom a dial of the socket path reaches: nobody if the file is missing or its
\* owner does not listen.
Answering == IF path \in Daemons /\ listening[path] THEN path ELSE Nobody

\* The connections after d's listener, or d itself, is gone: the other end of
\* those in S is reset, and nothing is left of one whose client has closed too.
Reset(S) ==
  [k \in Conns |->
     IF k \notin S THEN conn[k]
     ELSE IF conn[k].open THEN [conn[k] EXCEPT !.stage = "answered", !.reply = "reset"]
     ELSE Free]

QueuedAt(d) == {k \in Conns : conn[k].server = d /\ conn[k].stage = "queued"}
InHand(d)   == {k \in Conns : conn[k].server = d /\ conn[k].stage \in Handled}

Settled(d) == stage[d] = "off" \/ (stage[d] = "serving" /\ ~stopping[d])

-----------------------------------------------------------------------------
(* Starting: listen, removeSocketFile, socketInUse.                        *)

Goto(d, s) == stage' = [stage EXCEPT ![d] = s]

\* Run has returned: the process ends and its context with it.
Exit(d) == Goto(d, "off") /\ stopping' = [stopping EXCEPT ![d] = FALSE]

Start(d) ==
  /\ stage[d] = "off" /\ starts < MaxStarts
  /\ Overlapping \/ \A e \in Daemons : Settled(e)
  /\ starts' = starts + 1
  /\ Goto(d, "stat")
  /\ UNCHANGED <<listening, stopping, path, conn, clientVars, stored>>

\* (mutant) a socket that exists is taken for a stale one.
StatTrusting(d) ==
  /\ stage[d] = "stat"
  /\ \/ path = Nobody /\ Goto(d, "bind") /\ UNCHANGED stopping
     \/ path = Foreign /\ Exit(d)
     \/ path \in Daemons /\ Goto(d, "remove") /\ UNCHANGED stopping
  /\ UNCHANGED <<listening, path, starts, conn, clientVars, stored>>

\* Lstat: no file is fine, a file that is no socket is an error.
Stat(d) ==
  /\ stage[d] = "stat"
  /\ \/ path = Nobody /\ Goto(d, "bind") /\ UNCHANGED stopping
     \/ path = Foreign /\ Exit(d)
     \/ path \in Daemons /\ Goto(d, "probe") /\ UNCHANGED stopping
  /\ UNCHANGED <<listening, path, starts, conn, clientVars, stored>>

\* Dialling the socket: the answering daemon gets a connection that is closed
\* at once.  A refused dial and a missing file both mean "not in use".
ProbeSocket(d) ==
  /\ stage[d] = "probe"
  /\ IF Answering # Nobody
     THEN /\ Exit(d)
          /\ \E k \in Conns :
               /\ conn[k] = Free
               /\ conn' = [conn EXCEPT ![k] =
                             [Free EXCEPT !.stage = "queued", !.server = Answering]]
     ELSE Goto(d, "remove") /\ UNCHANGED <<stopping, conn>>
  /\ UNCHANGED <<listening, path, starts, clientVars, stored>>

\* os.Remove works on the name, whoever has bound it since the probe.
RemoveStale(d) ==
  /\ stage[d] = "remove"
  /\ \/ path # Nobody /\ path' = Nobody /\ Goto(d, "bind") /\ UNCHANGED stopping
     \/ path = Nobody /\ Exit(d) /\ UNCHANGED path
  /\ UNCHANGED <<listening, starts, conn, clientVars, stored>>

Bind(d) ==
  /\ stage[d] = "bind"
  /\ \/ path = Nobody /\ path' = d /\ Goto(d, "listen") /\ UNCHANGED stopping
     \/ path # Nobody /\ Exit(d) /\ UNCHANGED path
  /\ UNCHANGED <<listening, starts, conn, clientVars, stored>>

Listen(d) ==
  /\ stage[d] = "listen"
  /\ listening' = [listening EXCEPT ![d] = TRUE]
  /\ Goto(d, "chmod")
  /\ UNCHANGED <<stopping, path, starts, conn, clientVars, stored>>

\* chmod of the name fails when another daemon has removed it; then the listener
\* is closed, which unlinks the name as well, and the name is removed once more.  That
\* is one step here: with Overlapping another daemon may have bound the name by then.
Chmod(d) ==
  /\ stage[d] = "chmod"
  /\ IF path # Nobody
     THEN Goto(d, "serving") /\ UNCHANGED <<stopping, listening, conn>>
     ELSE /\ Exit(d)
          /\ listening' = [listening EXCEPT ![d] = FALSE]
          /\ conn' = Reset(QueuedAt(d))
  /\ UNCHANGED <<path, starts, clientVars, stored>>

-----------------------------------------------------------------------------
(* Serving, and the deferred calls of Run in their order.                  *)

Accept(d) ==
  /\ stage[d] = "serving"
  /\ \E k \in QueuedAt(d) : conn' = [conn EXCEPT ![k].stage = "reading"]
  /\ UNCHANGED <<daemonVars, clientVars, stored>>

\* SIGINT or SIGTERM.
Signal(d) ==
  /\ stage[d] \in {"serving"} \cup Starting /\ ~stopping[d]
  /\ Overlapping \/ \A e \in Daemons \ {d} : Settled(e)
  /\ stopping' = [stopping EXCEPT ![d] = TRUE]
  /\ UNCHANGED <<stage, listening, path, starts, conn, clientVars, stored>>

\* (mutant) without that goroutine the context is looked at between two Accepts.
CloseListenerAtAccept(d) ==
  /\ stage[d] = "serving" /\ stopping[d] /\ QueuedAt(d) # {}
  /\ listening' = [listening EXCEPT ![d] = FALSE]
  /\ path' = Nobody
  /\ conn' = Reset(QueuedAt(d))
  /\ Goto(d, "drain")
  /\ UNCHANGED <<stopping, starts, clientVars, stored>>

\* The goroutine that waits for the context closes the listener, and closing
\* unlinks the name; Accept fails and Run begins to return.
CloseListener(d) ==
  /\ stage[d] = "serving" /\ stopping[d]
  /\ listening' = [listening EXCEPT ![d] = FALSE]
  /\ path' = Nobody
  /\ conn' = Reset(QueuedAt(d))
  /\ Goto(d, "drain")
  /\ UNCHANGED <<stopping, starts, clientVars, stored>>

\* (mutant) handlers are not waited for.
DrainedAtOnce(d) ==
  /\ stage[d] = "drain"
  /\ Goto(d, "unlink")
  /\ UNCHANGED <<listening, stopping, path, starts, conn, clientVars, stored>>

\* handlers.Wait, then backend.Close
Drained(d) ==
  /\ stage[d] = "drain" /\ InHand(d) = {}
  /\ Goto(d, "unlink")
  /\ UNCHANGED <<listening, stopping, path, starts, conn, clientVars, stored>>

\* os.Remove of the name.
Unlink(d) ==
  /\ stage[d] = "unlink"
  /\ path' = Nobody
  /\ Exit(d)
  /\ UNCHANGED <<listening, starts, conn, clientVars, stored>>

\* The process is killed: its socket file stays behind.
Kill(d) ==
  /\ stage[d] # "off"
  /\ Exit(d)
  /\ listening' = [listening EXCEPT ![d] = FALSE]
  /\ conn' = Reset(QueuedAt(d) \cup InHand(d))
  /\ UNCHANGED <<path, starts, clientVars, stored>>

-----------------------------------------------------------------------------
(* A handler: ReadRequest, backend.Handle, WriteResponse.                  *)

\* There is no deadline: the handler waits until a request or the end of the
\* stream comes.
BadRequest(k) ==
  /\ conn[k].stage = "reading" /\ conn[k].sent = "nothing" /\ ~conn[k].open
  /\ conn' = [conn EXCEPT ![k].stage = "replying", ![k].reply = "error"]
  /\ UNCHANGED <<daemonVars, clientVars, stored>>

\* The backend does what was asked, whether or not the client still waits.  An
\* add may fail before it stores the entry, and after (the index is written last).
Handle(k) ==
  /\ conn[k].stage = "reading" /\ conn[k].sent # "nothing"
  /\ \E ok \in BOOLEAN, done \in BOOLEAN :
       /\ ok /\ conn[k].sent = "add" => done
       /\ conn[k].sent = "status" => ~done
       /\ stored' = IF done THEN [stored EXCEPT ![conn[k].for] = @ + 1] ELSE stored
       /\ conn' = [conn EXCEPT ![k].stage = "replying",
                               ![k].reply = IF ok THEN "ok" ELSE "error"]
  /\ UNCHANGED <<daemonVars, clientVars>>

\* Writing to a closed connection fails, and that is ignored.
WriteResponse(k) ==
  /\ conn[k].stage = "replying"
  /\ conn' = [conn EXCEPT ![k] = IF @.open THEN [@ EXCEPT !.stage = "answered"] ELSE Free]
  /\ UNCHANGED <<daemonVars, clientVars, stored>>

-----------------------------------------------------------------------------
(* A client's command and its calls.                                       *)

\* The client closes its end.  A request already written may still be read.
HangUp(k) ==
  conn' = [conn EXCEPT ![k] = IF @.stage = "answered" THEN Free
                              ELSE [@ EXCEPT !.open = FALSE]]

Over(c) == at' = [at EXCEPT ![c] = "idle"] /\ line' = [line EXCEPT ![c] = Nobody]

\* A command begins with the status call, unless an earlier one has decided.
Begin(c) ==
  /\ at[c] = "idle" /\ tries[c] < MaxTries[c]
  /\ tries' = [tries EXCEPT ![c] = @ + 1]
  /\ at' = [at EXCEPT ![c] = IF mode[c] = "unset" THEN "probe" ELSE "add"]
  /\ UNCHANGED <<daemonVars, conn, mode, line, refused, stored, told>>

Asked(c) == IF at[c] = "probe" THEN "status" ELSE "add"

Dial(c) ==
  /\ at[c] # "idle" /\ line[c] = Nobody /\ mode[c] # "direct"
  /\ Answering # Nobody
  /\ \E k \in Conns :
       /\ conn[k] = Free
       /\ conn' = [conn EXCEPT ![k] = [Free EXCEPT !.stage = "queued", !.open = TRUE,
                                                   !.server = Answering, !.for = c]]
       /\ line' = [line EXCEPT ![c] = k]
  /\ UNCHANGED <<daemonVars, at, mode, tries, refused, stored, told>>

\* Without an answer to the status call, an MCP server works on the store itself from
\* then on.  A command line gives up, and so does an MCP server that is told to use the
\* daemon (TAGMEM_MCP_USE_DAEMON) or cannot initialise the store: it exits, and what comes
\* next is asked of one that is started anew.
NoDaemon(c) ==
  \/ /\ c \in Proxies
     /\ mode' = [mode EXCEPT ![c] = "direct"]
     /\ at' = [at EXCEPT ![c] = "add"] /\ line' = [line EXCEPT ![c] = Nobody]
     /\ UNCHANGED refused
  \/ /\ Over(c)
     /\ refused' = [refused EXCEPT ![c] = @ + 1]
     /\ UNCHANGED mode

\* The add is refused: nothing has been sent.
NotSent(c) ==
  /\ Over(c)
  /\ refused' = [refused EXCEPT ![c] = @ + 1]
  /\ UNCHANGED mode

DialFails(c) ==
  /\ at[c] # "idle" /\ line[c] = Nobody /\ mode[c] # "direct"
  /\ Answering = Nobody
  /\ IF at[c] = "probe" THEN NoDaemon(c) ELSE NotSent(c)
  /\ UNCHANGED <<daemonVars, conn, tries, stored, told>>

WriteRequest(c) ==
  LET k == line[c]
  IN /\ k # Nobody /\ conn[k].sent = "nothing" /\ conn[k].reply # "reset"
     /\ conn' = [conn EXCEPT ![k].sent = Asked(c)]
     /\ UNCHANGED <<daemonVars, clientVars, stored>>

\* (mutant) an MCP server whose add fails at the daemon does it itself.
ReturnedFallingBack(c, ok) ==
  \/ /\ at[c] = "probe" /\ ok
     /\ at' = [at EXCEPT ![c] = "add"] /\ line' = [line EXCEPT ![c] = Nobody]
     /\ mode' = IF c \in Proxies THEN [mode EXCEPT ![c] = "daemon"] ELSE mode
     /\ UNCHANGED <<refused, told>>
  \/ ~ok /\ NoDaemon(c) /\ UNCHANGED told
  \/ /\ at[c] = "add" /\ ok /\ Over(c)
     /\ told' = [told EXCEPT ![c] = @ + 1]
     /\ UNCHANGED <<mode, refused>>

\* What the command makes of the end of a call.
Returned(c, ok) ==
  \/ /\ at[c] = "probe" /\ ok
     /\ at' = [at EXCEPT ![c] = "add"] /\ line' = [line EXCEPT ![c] = Nobody]
     /\ mode' = IF c \in Proxies THEN [mode EXCEPT ![c] = "daemon"] ELSE mode
     /\ UNCHANGED <<refused, told>>
  \/ at[c] = "probe" /\ ~ok /\ NoDaemon(c) /\ UNCHANGED told
  \/ /\ at[c] = "add" /\ Over(c)
     /\ told' = IF ok THEN [told EXCEPT ![c] = @ + 1] ELSE told
     /\ UNCHANGED <<mode, refused>>

ReadResponse(c) ==
  LET k == line[c]
  IN /\ k # Nobody /\ conn[k].stage = "answered"
     /\ Returned(c, conn[k].reply = "ok")
     /\ HangUp(k)
     /\ UNCHANGED <<daemonVars, tries, stored>>

\* The deadline of the call: 200 ms for the status call, 10 s for the add.  An
\* MCP server's calls after the first have none; the program it serves may cancel.
TimeOut(c) ==
  LET k == line[c]
  IN /\ k # Nobody /\ conn[k].stage # "answered"
     /\ Returned(c, FALSE)
     /\ HangUp(k)
     /\ UNCHANGED <<daemonVars, tries, stored>>

\* An MCP server without a daemon adds the entry itself.  That may fail before it is
\* stored, and after, as in a handler.
AddDirectly(c) ==
  /\ at[c] = "add" /\ mode[c] = "direct"
  /\ Over(c)
  /\ \/ UNCHANGED <<stored, told>>
     \/ stored' = [stored EXCEPT ![c] = @ + 1] /\ UNCHANGED told
     \/ stored' = [stored EXCEPT ![c] = @ + 1] /\ told' = [told EXCEPT ![c] = @ + 1]
  /\ UNCHANGED <<daemonVars, conn, mode, tries, refused>>

-----------------------------------------------------------------------------
StartStep(d) == Stat(d) \/ ProbeSocket(d) \/ RemoveStale(d) \/ Bind(d) \/ Listen(d) \/ Chmod(d)
StopStep(d)  == CloseListener(d) \/ Drained(d) \/ Unlink(d)
HandlerStep(k) == BadRequest(k) \/ Handle(k) \/ WriteResponse(k)
CallStep(c) == Dial(c) \/ DialFails(c) \/ WriteRequest(c) \/ ReadResponse(c) \/ AddDirectly(c)

Next ==
  \/ \E d \in Daemons : Start(d) \/ Signal(d) \/ Kill(d) \/ Accept(d)
  \/ \E d \in Daemons : StartStep(d)
  \/ \E d \in Daemons : StopStep(d)
  \/ \E k \in Conns : HandlerStep(k)
  \/ \E c \in Clients : Begin(c) \/ CallStep(c) \/ TimeOut(c)

Spec == Init /\ [][Next]_vars

\* A process that runs takes its steps, and a handler too.  Nothing is assumed of
\* starts, signals, new commands and deadlines.
Fairness ==
  /\ \A d \in Daemons : WF_vars(StartStep(d)) /\ WF_vars(Accept(d)) /\ WF_vars(StopStep(d))
  /\ \A k \in Conns : WF_vars(HandlerStep(k))
  /\ \A c \in Clients : WF_vars(CallStep(c))

FairSpec == Spec /\ Fairness

-----------------------------------------------------------------------------
(* Properties.                                                             *)

\* A daemon that serves can be reached: the socket path leads to it, whatever
\* stale file a killed daemon left and whoever tried to start beside it
\* (listen, removeSocketFile).  It needs that starts and stops do not overlap.
ServingReachable ==
  \A d \in Daemons : stage[d] = "serving" => path = d /\ listening[d]

\* When the backend is closed no request is in a handler's hands any more, and
\* none comes (the order of Run's deferred calls).
ClosedAfterLast ==
  \A d \in Daemons : stage[d] \in {"unlink", "off"} => InHand(d) = {}

\* A command that reported success has stored its entry; one command stores at most
\* one, also when its call timed out, its daemon died or its handler came late; a
\* command that failed before it sent its add stores none.
OutcomeHonest ==
  \A c \in Clients : told[c] <= stored[c] /\ stored[c] <= tries[c] - refused[c]

\* Stopping ends: Run returns whatever calls are under way, if their clients go on with
\* them.  A client that is connected and never writes nor closes holds the daemon up
\* forever; by the fairness of CallStep there is none.
StopEnds == \A d \in Daemons : stopping[d] ~> stage[d] = "off"

=============================================================================
