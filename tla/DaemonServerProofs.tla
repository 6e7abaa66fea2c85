--------------------------- MODULE DaemonServerProofs --------------------------
(***************************************************************************)
(* The daemon and its clients, for any number of them, of commands and of  *)
(* starts of a daemon; and where what a tool call does through the daemon  *)
(* differs from what it does without one, for any numbers.                 *)
(***************************************************************************)
EXTENDS DaemonServer, ToolRouting, FiniteSetTheorems, TLAPS

Stages == {"off", "serving"} \cup Starting \cup Ending

DaemonTypes ==
  /\ stage \in [Daemons -> Stages]
  /\ listening \in [Daemons -> BOOLEAN] /\ stopping \in [Daemons -> BOOLEAN]
  /\ path \in Daemons \cup {Nobody, Foreign} /\ starts \in 0 .. MaxStarts

ClientTypes ==
  /\ at \in [Clients -> {"idle", "probe", "add"}]
  /\ mode \in [Clients -> {"unset", "daemon", "direct"}]
  /\ line \in [Clients -> Conns \cup {Nobody}]
  /\ tries \in [Clients -> Nat] /\ refused \in [Clients -> Nat]
  /\ told \in [Clients -> Nat]

ConnTypes == conn \in [Conns -> Connections]
StoredTypes == stored \in [Clients -> Nat]

\* Who has a request in hand serves, or waits for its handlers.
HandlersOwned ==
  \A k \in Conns : conn[k].stage \in Handled =>
    conn[k].server \in Daemons /\ stage[conn[k].server] \in {"serving", "drain"}

-----------------------------------------------------------------------------
LEMMA ResetTyped ==
  ASSUME ConnTypes, NEW S
  PROVE  Reset(S) \in [Conns -> Connections]
<1>1. ASSUME NEW k \in Conns
      PROVE  Reset(S)[k] \in Connections
  <2>1. conn[k] \in Connections
    BY DEF ConnTypes
  <2>2. CASE k \notin S
    BY <2>1, <2>2 DEF Reset
  <2>3. CASE k \in S /\ conn[k].open
    <3>1. Reset(S)[k] = [conn[k] EXCEPT !.stage = "answered", !.reply = "reset"]
      BY <2>3 DEF Reset
    <3> QED
      BY <2>1, <3>1 DEF Connections
  <2>4. CASE k \in S /\ ~conn[k].open
    BY <2>4 DEF Reset, Free, Connections
  <2> QED
    BY <2>2, <2>3, <2>4
<1> QED
  BY <1>1 DEF Reset

\* What a reset does to a connection.
LEMMA ResetFields ==
  ASSUME ConnTypes, NEW S, NEW k \in Conns
  PROVE  /\ k \notin S => Reset(S)[k] = conn[k]
         /\ k \in S => Reset(S)[k].stage \in {"answered", "free"}
         /\ k \in S /\ conn[k].open =>
              /\ Reset(S)[k].stage = "answered" /\ Reset(S)[k].reply = "reset"
              /\ Reset(S)[k].open /\ Reset(S)[k].for = conn[k].for
              /\ Reset(S)[k].sent = conn[k].sent /\ Reset(S)[k].server = conn[k].server
  BY DEF Reset, ConnTypes, Connections, Free

\* A hang-up.
LEMMA HangUpTyped ==
  ASSUME ConnTypes, NEW k \in Conns, HangUp(k)
  PROVE  ConnTypes'
<1>1. conn[k] \in Connections
  BY DEF ConnTypes
<1>2. [conn[k] EXCEPT !.open = FALSE] \in Connections
  BY <1>1 DEF Connections
<1>3. Free \in Connections
  BY DEF Free, Connections
<1> QED
  BY <1>2, <1>3 DEF HangUp, ConnTypes

\* The steps of a daemon's own keep the types.
LEMMA DaemonStepTypes ==
  ASSUME DaemonTypes, ConnTypes, NEW d \in Daemons,
         Start(d) \/ Signal(d) \/ Kill(d) \/ Accept(d) \/ StartStep(d) \/ StopStep(d)
  PROVE  DaemonTypes' /\ ConnTypes'
<1> USE BoundsAssumption
<1>1. stage' \in [Daemons -> Stages]
  <2>1. stage' = stage \/ \E s \in Stages : stage' = [stage EXCEPT ![d] = s]
    BY DEF Start, Signal, Kill, Accept, StartStep, StopStep, Stat, ProbeSocket, RemoveStale, Bind,
           Listen, Chmod, CloseListener, Drained, Unlink, Goto, Exit, daemonVars, Stages, Starting, Ending
  <2> QED
    BY <2>1 DEF DaemonTypes
<1>2. listening' \in [Daemons -> BOOLEAN] /\ stopping' \in [Daemons -> BOOLEAN]
  <2>1. listening' = listening \/ \E b \in BOOLEAN : listening' = [listening EXCEPT ![d] = b]
    BY DEF Start, Signal, Kill, Accept, StartStep, StopStep, Stat, ProbeSocket, RemoveStale, Bind,
           Listen, Chmod, CloseListener, Drained, Unlink, daemonVars
  <2>2. stopping' = stopping \/ \E b \in BOOLEAN : stopping' = [stopping EXCEPT ![d] = b]
    BY DEF Start, Signal, Kill, Accept, StartStep, StopStep, Stat, ProbeSocket, RemoveStale, Bind,
           Listen, Chmod, CloseListener, Drained, Unlink, Exit, daemonVars
  <2> QED
    BY <2>1, <2>2 DEF DaemonTypes
<1>3. path' \in Daemons \cup {Nobody, Foreign} /\ starts' \in 0 .. MaxStarts
  BY DEF Start, Signal, Kill, Accept, StartStep, StopStep, Stat, ProbeSocket, RemoveStale, Bind,
         Listen, Chmod, CloseListener, Drained, Unlink, daemonVars, DaemonTypes
<1>4. ConnTypes'
  <2>1. CASE UNCHANGED conn
    BY <2>1 DEF ConnTypes
  <2>2. CASE \E S \in SUBSET Conns : conn' = Reset(S)
    BY <2>2, ResetTyped DEF ConnTypes
  <2>3. CASE Accept(d)
    <3>1. PICK k \in QueuedAt(d) : conn' = [conn EXCEPT ![k].stage = "reading"]
      BY <2>3 DEF Accept
    <3>2. k \in Conns /\ conn[k] \in Connections
      BY <3>1 DEF QueuedAt, ConnTypes
    <3>3. [conn[k] EXCEPT !.stage = "reading"] \in Connections
      BY <3>2 DEF Connections, Handled
    <3> QED
      BY <3>1, <3>2, <3>3 DEF ConnTypes
  <2>4. CASE ProbeSocket(d) /\ conn' # conn
    <3>1. Answering \in Daemons
      BY <2>4 DEF ProbeSocket, Answering
    <3>2. [Free EXCEPT !.stage = "queued", !.server = Answering] \in Connections
      BY <3>1 DEF Free, Connections
    <3> QED
      BY <2>4, <3>2 DEF ProbeSocket, ConnTypes
  <2>5. \/ UNCHANGED conn \/ (\E S \in SUBSET Conns : conn' = Reset(S)) \/ Accept(d)
        \/ (ProbeSocket(d) /\ conn' # conn)
    <3>1. QueuedAt(d) \in SUBSET Conns /\ QueuedAt(d) \cup InHand(d) \in SUBSET Conns
      BY DEF QueuedAt, InHand
    <3> QED
      BY <3>1 DEF Start, Signal, Kill, StartStep, StopStep, Stat, ProbeSocket, RemoveStale, Bind,
         Listen, Chmod, CloseListener, Drained, Unlink
  <2> QED
    BY <2>1, <2>2, <2>3, <2>4, <2>5
<1> QED
  BY <1>1, <1>2, <1>3, <1>4 DEF DaemonTypes

\* So do those of a handler.
LEMMA HandlerStepTypes ==
  ASSUME ConnTypes, StoredTypes, NEW k \in Conns, HandlerStep(k)
  PROVE  ConnTypes' /\ StoredTypes'
<1>1. conn[k] \in Connections /\ Free \in Connections
  BY DEF ConnTypes, Free, Connections
<1>2. CASE BadRequest(k)
  <2>1. [conn[k] EXCEPT !.stage = "replying", !.reply = "error"] \in Connections
    BY <1>1 DEF Connections, Handled
  <2> QED
    BY <1>2, <2>1 DEF BadRequest, ConnTypes, StoredTypes
<1>3. CASE Handle(k)
  <2>1. PICK ok \in BOOLEAN, done \in BOOLEAN :
          /\ stored' = IF done THEN [stored EXCEPT ![conn[k].for] = @ + 1] ELSE stored
          /\ conn' = [conn EXCEPT ![k].stage = "replying",
                                  ![k].reply = IF ok THEN "ok" ELSE "error"]
    BY <1>3 DEF Handle
  <2>2. [conn[k] EXCEPT !.stage = "replying", !.reply = IF ok THEN "ok" ELSE "error"]
          \in Connections
    BY <1>1 DEF Connections, Handled
  <2>3. ConnTypes'
    BY <2>1, <2>2 DEF ConnTypes
  <2>4. StoredTypes'
    <3> DEFINE c == conn[k].for
    <3>1. stored' = [stored EXCEPT ![c] = @ + 1] \/ stored' = stored
      BY <2>1
    <3> HIDE DEF c
    <3>2. \A x \in Clients : stored[x] \in Nat /\ stored[x] + 1 \in Nat
      BY DEF StoredTypes
    <3> QED
      BY <3>1, <3>2 DEF StoredTypes
  <2> QED
    BY <1>3, <2>3, <2>4 DEF Handle
<1>4. CASE WriteResponse(k)
  <2>1. [conn[k] EXCEPT !.stage = "answered"] \in Connections
    BY <1>1 DEF Connections
  <2> QED
    BY <1>1, <1>4, <2>1 DEF WriteResponse, ConnTypes, StoredTypes
<1> QED
  BY <1>2, <1>3, <1>4 DEF HandlerStep

-----------------------------------------------------------------------------
(* The calls of the clients.                                               *)

\* A client's connection is its own, and carries what it is at.
LinkedFor(c) ==
  /\ at[c] = "idle" \/ mode[c] = "direct" => line[c] = Nobody
  /\ line[c] # Nobody =>
       /\ conn[line[c]].for = c /\ conn[line[c]].open /\ conn[line[c]].stage # "free"
       /\ conn[line[c]].sent \in {"nothing", Asked(c)}
       /\ conn[line[c]].reply = "ok" => conn[line[c]].sent # "nothing"

Linked == \A c \in Clients : LinkedFor(c)

\* Its adds that may still be handled, whether or not it waits for them.
Pending(c) == {k \in Conns : /\ conn[k].for = c /\ conn[k].sent = "add"
                             /\ conn[k].stage \in {"queued", "reading"}}

\* Whether it has a command that has not sent its add, and a success to read.
Unsent(c) ==
  IF at[c] = "idle" \/ (line[c] # Nobody /\ conn[line[c]].sent = "add") THEN 0 ELSE 1

Praised(c) ==
  IF line[c] # Nobody /\ conn[line[c]].sent = "add" /\ conn[line[c]].reply = "ok" THEN 1 ELSE 0

\* OutcomeHonest is not inductive: each add stands for a command, wherever it is.
CountedFor(c) ==
  /\ stored[c] + Cardinality(Pending(c)) + Unsent(c) + refused[c] <= tries[c]
  /\ told[c] + Praised(c) <= stored[c]

Counted == \A c \in Clients : CountedFor(c)

LEMMA PendingFinite ==
  ASSUME NEW c \in Clients
  PROVE  IsFiniteSet(Pending(c)) /\ Cardinality(Pending(c)) \in Nat
  BY ConnsFinite, FS_Subset, FS_CardinalityType DEF Pending

LEMMA PendingFinitePrimed ==
  ASSUME NEW c \in Clients
  PROVE  IsFiniteSet(Pending(c)') /\ Cardinality(Pending(c)') \in Nat
  BY ConnsFinite, FS_Subset, FS_CardinalityType DEF Pending

\* A step that sends and stores nothing for c.
LEMMA CountKept ==
  ASSUME ClientTypes, StoredTypes, ClientTypes', NEW c \in Clients, CountedFor(c),
         Pending(c)' \subseteq Pending(c), stored'[c] = stored[c],
         Unsent(c)' + refused'[c] + tries[c] <= Unsent(c) + refused[c] + tries'[c],
         told'[c] + Praised(c)' <= told[c] + Praised(c)
  PROVE  CountedFor(c)'
<1> DEFINE p == Cardinality(Pending(c))
           q == Cardinality(Pending(c)')
           u == Unsent(c)
           v == Unsent(c)'
           s == Praised(c)
           z == Praised(c)'
<1>1. p \in Nat /\ q \in Nat /\ q <= p
  BY PendingFinite, PendingFinitePrimed, FS_Subset
<1>2. u \in {0, 1} /\ v \in {0, 1} /\ s \in {0, 1} /\ z \in {0, 1}
  BY DEF Unsent, Praised
<1>3. /\ stored[c] \in Nat /\ refused[c] \in Nat /\ tries[c] \in Nat /\ told[c] \in Nat
      /\ refused'[c] \in Nat /\ tries'[c] \in Nat /\ told'[c] \in Nat
  BY DEF StoredTypes, ClientTypes
<1>4. /\ stored[c] + p + u + refused[c] <= tries[c] /\ told[c] + s <= stored[c]
      /\ v + refused'[c] + tries[c] <= u + refused[c] + tries'[c]
      /\ told'[c] + z <= told[c] + s
  BY DEF CountedFor
<1> HIDE DEF p, q, u, v, s, z
<1>5. /\ stored[c] + q + v + refused'[c] <= tries'[c]
      /\ told'[c] + z <= stored[c]
  BY <1>1, <1>2, <1>3, <1>4
<1> QED
  BY <1>5 DEF CountedFor, q, v, z

\* A client that has no part in a step.
LEMMA OthersKept ==
  ASSUME ClientTypes, StoredTypes, ClientTypes', NEW c \in Clients, LinkedFor(c), CountedFor(c),
         at'[c] = at[c], mode'[c] = mode[c], line'[c] = line[c], tries'[c] = tries[c],
         refused'[c] = refused[c], told'[c] = told[c], stored'[c] = stored[c],
         line[c] # Nobody => conn'[line[c]] = conn[line[c]],
         Pending(c)' \subseteq Pending(c)
  PROVE  LinkedFor(c)' /\ CountedFor(c)'
<1>1. LinkedFor(c)'
  BY DEF LinkedFor, Asked
<1>2. Unsent(c)' = Unsent(c) /\ Praised(c)' = Praised(c)
  BY DEF Unsent, Praised
<1>3. Unsent(c) \in {0, 1} /\ Praised(c) \in {0, 1}
  BY DEF Unsent, Praised
<1>4. CountedFor(c)'
  BY <1>2, <1>3, CountKept DEF ClientTypes
<1> QED
  BY <1>1, <1>4

\* A connection that a server treats as it may: it hangs up, takes, answers or resets.
Mild(k) ==
  /\ conn[k].open =>
       /\ conn'[k].open /\ conn'[k].for = conn[k].for /\ conn'[k].sent = conn[k].sent
       /\ conn[k].stage # "free" => conn'[k].stage # "free"
       /\ conn'[k].reply \in {conn[k].reply, "reset"}
  /\ conn'[k].sent = "add" /\ conn'[k].stage \in {"queued", "reading"} =>
       /\ conn[k].sent = "add" /\ conn[k].stage \in {"queued", "reading"}
       /\ conn'[k].for = conn[k].for

LEMMA MildKeeps ==
  ASSUME ClientTypes, StoredTypes, Linked, Counted, UNCHANGED <<clientVars, stored>>,
         \A k \in Conns : Mild(k)
  PROVE  Linked' /\ Counted'
<1>1. ClientTypes' /\ stored' = stored /\ told' = told /\ refused' = refused /\ tries' = tries
      /\ at' = at /\ mode' = mode /\ line' = line
  BY DEF ClientTypes, clientVars
<1>2. ASSUME NEW c \in Clients
      PROVE  LinkedFor(c)' /\ CountedFor(c)'
  <2>1. LinkedFor(c) /\ CountedFor(c) /\ (line[c] # Nobody => line[c] \in Conns)
    BY DEF Linked, Counted, ClientTypes
  <2>2. LinkedFor(c)'
    BY <1>1, <2>1 DEF LinkedFor, Asked, Mild
  <2>3. Pending(c)' \subseteq Pending(c)
    BY DEF Pending, Mild
  <2>4. Unsent(c)' = Unsent(c) /\ Unsent(c) \in {0, 1}
    BY <1>1, <2>1 DEF Unsent, Mild, LinkedFor
  <2>5. Praised(c)' <= Praised(c) /\ Praised(c) \in {0, 1} /\ Praised(c)' \in {0, 1}
    BY <1>1, <2>1 DEF Praised, Mild, LinkedFor
  <2>6. CountedFor(c)'
    BY <1>1, <2>1, <2>3, <2>4, <2>5, CountKept DEF ClientTypes
  <2> QED
    BY <2>2, <2>6
<1> QED
  BY <1>2 DEF Linked, Counted

\* The steps of a daemon are mild.
LEMMA DaemonStepMild ==
  ASSUME ConnTypes, NEW d \in Daemons,
         Start(d) \/ Signal(d) \/ Kill(d) \/ Accept(d) \/ StartStep(d) \/ StopStep(d)
  PROVE  UNCHANGED <<clientVars, stored>> /\ \A k \in Conns : Mild(k)
<1>1. UNCHANGED <<clientVars, stored>>
  BY DEF Start, Signal, Kill, Accept, StartStep, StopStep, Stat, ProbeSocket, RemoveStale, Bind,
         Listen, Chmod, CloseListener, Drained, Unlink
<1>2. SUFFICES ASSUME NEW k \in Conns
               PROVE  Mild(k)
  BY <1>1
<1>3. CASE conn' = conn
  BY <1>3 DEF Mild
<1>4. CASE \E S \in SUBSET Conns : conn' = Reset(S)
  <2>1. PICK S \in SUBSET Conns : conn' = Reset(S)
    BY <1>4
  <2>2. k \in S => conn'[k].stage \notin {"queued", "reading"}
    BY <2>1, ResetFields
  <2> QED
    BY <2>1, <2>2, ResetFields DEF Mild
<1>5. CASE Accept(d)
  <2>1. PICK j \in QueuedAt(d) : conn' = [conn EXCEPT ![j].stage = "reading"]
    BY <1>5 DEF Accept
  <2> QED
    BY <2>1 DEF QueuedAt, Mild, ConnTypes, Connections
<1>6. CASE ProbeSocket(d) /\ conn' # conn
  <2>1. PICK j \in Conns :
          /\ conn[j] = Free
          /\ conn' = [conn EXCEPT ![j] = [Free EXCEPT !.stage = "queued", !.server = Answering]]
    BY <1>6 DEF ProbeSocket
  <2> QED
    BY <2>1 DEF Free, Mild, ConnTypes
<1>7. \/ conn' = conn \/ (\E S \in SUBSET Conns : conn' = Reset(S)) \/ Accept(d)
      \/ (ProbeSocket(d) /\ conn' # conn)
  <2>1. QueuedAt(d) \in SUBSET Conns /\ QueuedAt(d) \cup InHand(d) \in SUBSET Conns
    BY DEF QueuedAt, InHand
  <2> QED
    BY <2>1 DEF Start, Signal, Kill, StartStep, StopStep, Stat, ProbeSocket, RemoveStale, Bind,
       Listen, Chmod, CloseListener, Drained, Unlink
<1> QED
  BY <1>3, <1>4, <1>5, <1>6, <1>7

\* The steps of a handler: only Handle stores, at most one entry for one pending add.
LEMMA HandlerStepCounted ==
  ASSUME ConnTypes, ClientTypes, StoredTypes, Linked, Counted, NEW k \in Conns, HandlerStep(k)
  PROVE  Linked' /\ Counted'
<1>1. CASE BadRequest(k) \/ WriteResponse(k)
  <2>1. UNCHANGED <<clientVars, stored>>
    BY <1>1 DEF BadRequest, WriteResponse
  <2>2. \A j \in Conns : Mild(j)
    BY <1>1 DEF BadRequest, WriteResponse, Mild, ConnTypes, Connections, Free, Handled
  <2> QED
    BY <2>1, <2>2, MildKeeps
<1>2. CASE Handle(k)
  <2> DEFINE f == conn[k].for
  <2>1. PICK ok \in BOOLEAN, done \in BOOLEAN :
          /\ ok /\ conn[k].sent = "add" => done
          /\ conn[k].sent = "status" => ~done
          /\ stored' = IF done THEN [stored EXCEPT ![f] = @ + 1] ELSE stored
          /\ conn' = [conn EXCEPT ![k].stage = "replying",
                                  ![k].reply = IF ok THEN "ok" ELSE "error"]
    BY <1>2 DEF Handle
  <2>2. /\ conn[k].stage = "reading" /\ conn[k].sent # "nothing"
        /\ conn[k].sent \in {"nothing", "status", "add"}
    BY <1>2 DEF Handle, ConnTypes, Connections
  <2>3. /\ \A j \in Conns : j # k => conn'[j] = conn[j]
        /\ conn'[k].stage = "replying" /\ conn'[k].reply = (IF ok THEN "ok" ELSE "error")
        /\ conn'[k].for = f /\ conn'[k].sent = conn[k].sent /\ conn'[k].open = conn[k].open
    BY <2>1 DEF ConnTypes, Connections
  <2>4. /\ ClientTypes' /\ told' = told /\ refused' = refused /\ tries' = tries
        /\ at' = at /\ mode' = mode /\ line' = line
    BY <1>2 DEF Handle, ClientTypes, clientVars
  <2>5. ASSUME NEW c \in Clients
        PROVE  LinkedFor(c)' /\ CountedFor(c)'
    <3>1. LinkedFor(c) /\ CountedFor(c) /\ (line[c] # Nobody => line[c] \in Conns)
      BY DEF Linked, Counted, ClientTypes
    <3>2. LinkedFor(c)'
      BY <2>2, <2>3, <2>4, <3>1 DEF LinkedFor, Asked
    <3>3. Unsent(c)' = Unsent(c) /\ Unsent(c) \in {0, 1}
      BY <2>3, <2>4, <3>1 DEF Unsent
    <3>4. Praised(c) \in {0, 1} /\ Praised(c)' \in {0, 1}
      BY DEF Praised
    <3>5. Pending(c)' = Pending(c) \ {k}
      BY <2>2, <2>3 DEF Pending
    <3>6. /\ Cardinality(Pending(c)) \in Nat /\ Cardinality(Pending(c)') \in Nat
          /\ stored[c] \in Nat /\ refused[c] \in Nat /\ tries[c] \in Nat /\ told[c] \in Nat
      BY PendingFinite, PendingFinitePrimed DEF StoredTypes, ClientTypes
    <3>7. CASE c = f /\ done
      <4>1. conn[k].sent = "add" /\ k \in Pending(c)
        BY <2>1, <2>2, <3>7 DEF Pending
      <4>2. Cardinality(Pending(c)') = Cardinality(Pending(c)) - 1
        BY <3>5, <4>1, PendingFinite, FS_RemoveElement
      <4>3. stored'[c] = stored[c] + 1
        BY <2>1, <3>7 DEF StoredTypes
      <4> QED
        BY <2>4, <3>1, <3>2, <3>3, <3>4, <3>6, <4>2, <4>3 DEF CountedFor
    <3>8. CASE ~(c = f /\ done)
      <4>1. stored'[c] = stored[c]
        BY <2>1, <3>8 DEF StoredTypes
      <4>2. Praised(c)' <= Praised(c)
        <5>1. CASE line[c] = k
          <6>1. c = f
            BY <3>1, <5>1, NoSuchDaemon DEF LinkedFor
          <6>2. conn[k].sent = "add" => ~ok
            BY <2>1, <3>8, <6>1
          <6>3. conn'[k].sent = "add" => conn'[k].reply = "error"
            BY <2>3, <6>2
          <6>4. line'[c] = k
            BY <2>4, <5>1
          <6>5. Praised(c)' = 0
            BY <6>3, <6>4 DEF Praised
          <6> QED
            BY <3>4, <6>5
        <5>2. CASE line[c] # k
          <6>1. Praised(c)' = Praised(c)
            BY <2>3, <2>4, <3>1, <5>2 DEF Praised
          <6> QED
            BY <3>4, <6>1
        <5> QED
          BY <5>1, <5>2
      <4>3. CountedFor(c)'
        <5>1. /\ Unsent(c)' + refused'[c] + tries[c] <= Unsent(c) + refused[c] + tries'[c]
              /\ told'[c] + Praised(c)' <= told[c] + Praised(c)
          BY <2>4, <3>3, <3>4, <3>6, <4>2
        <5>2. Pending(c)' \subseteq Pending(c)
          BY <3>5
        <5> QED
          BY <2>4, <3>1, <4>1, <5>1, <5>2, CountKept
      <4> QED
        BY <3>2, <4>3
    <3> QED
      BY <3>7, <3>8
  <2> QED
    BY <2>5 DEF Linked, Counted
<1> QED
  BY <1>1, <1>2 DEF HandlerStep

\* A client's step leaves the others alone.
LEMMA ClientsApart ==
  ASSUME ClientTypes, StoredTypes, ClientTypes', Linked, Counted,
         NEW c \in Clients, LinkedFor(c)', CountedFor(c)',
         \A x \in Clients \ {c} :
           /\ at'[x] = at[x] /\ mode'[x] = mode[x] /\ line'[x] = line[x]
           /\ tries'[x] = tries[x] /\ refused'[x] = refused[x] /\ told'[x] = told[x]
           /\ stored'[x] = stored[x],
         \A k \in Conns : conn[k].for # c /\ conn[k] # Free => conn'[k] = conn[k],
         \A k \in Conns : conn[k].for = c \/ conn[k] = Free => conn'[k].for \in {c, Nobody}
  PROVE  Linked' /\ Counted'
<1>1. ASSUME NEW x \in Clients, x # c
      PROVE  LinkedFor(x)' /\ CountedFor(x)'
  <2>1. LinkedFor(x) /\ CountedFor(x) /\ (line[x] # Nobody => line[x] \in Conns)
    BY DEF Linked, Counted, ClientTypes
  <2>2. line[x] # Nobody => conn'[line[x]] = conn[line[x]]
    BY <1>1, <2>1 DEF LinkedFor, Free
  <2>3. Pending(x)' \subseteq Pending(x)
    BY <1>1, NoSuchDaemon DEF Pending
  <2> QED
    BY <1>1, <2>1, <2>2, <2>3, OthersKept
<1> QED
  BY <1>1 DEF Linked, Counted

Step(c) == Begin(c) \/ CallStep(c) \/ TimeOut(c)

LEMMA ReturnedTypes ==
  ASSUME ClientTypes, NEW c \in Clients, NEW ok \in BOOLEAN, Returned(c, ok), tries' = tries
  PROVE  ClientTypes' /\ \A x \in Clients \ {c} :
           /\ at'[x] = at[x] /\ mode'[x] = mode[x] /\ line'[x] = line[x]
           /\ refused'[x] = refused[x] /\ told'[x] = told[x]
<1>1. /\ \E s \in {"idle", "add"} : at' = [at EXCEPT ![c] = s]
      /\ line' = [line EXCEPT ![c] = Nobody]
      /\ mode' = mode \/ \E m \in {"daemon", "direct"} : mode' = [mode EXCEPT ![c] = m]
      /\ refused' = refused \/ refused' = [refused EXCEPT ![c] = @ + 1]
      /\ told' = told \/ told' = [told EXCEPT ![c] = @ + 1]
  BY DEF Returned, NoDaemon, Over
<1> QED
  BY <1>1 DEF ClientTypes

\* A call that ends: the connection is given up, and a success is counted once.
LEMMA ClosesCounted ==
  ASSUME ConnTypes, ClientTypes, StoredTypes, Linked, Counted, NEW c \in Clients,
         NEW ok \in BOOLEAN, line[c] # Nobody, Returned(c, ok), HangUp(line[c]),
         ok => conn[line[c]].reply = "ok", tries' = tries, stored' = stored
  PROVE  ConnTypes' /\ ClientTypes' /\ StoredTypes' /\ Linked' /\ Counted'
<1> DEFINE k == line[c]
<1>1. /\ LinkedFor(c) /\ CountedFor(c) /\ k \in Conns
      /\ conn[k].for = c /\ conn[k].sent \in {"nothing", Asked(c)} /\ at[c] # "idle"
      /\ conn[k].reply = "ok" => conn[k].sent # "nothing"
      /\ mode[c] # "direct"
  BY DEF Linked, Counted, LinkedFor, ClientTypes
<1>2. ConnTypes' /\ ClientTypes' /\ StoredTypes'
  BY <1>1, HangUpTyped, ReturnedTypes DEF StoredTypes
<1>3. /\ \A j \in Conns : j # k => conn'[j] = conn[j]
      /\ conn'[k] = Free \/ conn'[k] = [conn[k] EXCEPT !.open = FALSE]
      /\ conn[k].stage = "answered" => conn'[k] = Free
  BY <1>1 DEF HangUp, ConnTypes
<1>4. /\ conn'[k].for \in {c, Nobody}
      /\ conn'[k].for = c => conn'[k].sent = conn[k].sent /\ conn'[k].stage = conn[k].stage
  BY <1>1, <1>3, NoSuchDaemon DEF Free, ConnTypes, Connections
<1>5. Pending(c)' \subseteq Pending(c)
  <2> SUFFICES ASSUME NEW j \in Conns, conn'[j].for = c, conn'[j].sent = "add",
                      conn'[j].stage \in {"queued", "reading"}
               PROVE  /\ conn[j].for = c /\ conn[j].sent = "add"
                      /\ conn[j].stage \in {"queued", "reading"}
    BY DEF Pending
  <2>1. CASE j = k
    BY <1>1, <1>4, <2>1
  <2>2. CASE j # k
    BY <1>3, <2>2
  <2> QED
    BY <2>1, <2>2
<1>6. line'[c] = Nobody /\ LinkedFor(c)'
  BY <1>1 DEF Returned, NoDaemon, Over, LinkedFor, ClientTypes
<1>7. Praised(c)' = 0 /\ Praised(c) \in {0, 1} /\ Unsent(c) \in {0, 1} /\ Unsent(c)' \in {0, 1}
  BY <1>6 DEF Praised, Unsent
<1>8. /\ refused[c] \in Nat /\ tries[c] \in Nat /\ told[c] \in Nat
  BY DEF ClientTypes
<1>9. Unsent(c)' + refused'[c] <= Unsent(c) + refused[c]
  <2>1. CASE at[c] = "probe"
    <3>1. Unsent(c) = 1
      BY <1>1, <2>1 DEF Unsent, Asked
    <3>2. refused'[c] = refused[c] \/ (refused'[c] = refused[c] + 1 /\ at'[c] = "idle")
      BY <2>1 DEF Returned, NoDaemon, Over, ClientTypes
    <3>3. at'[c] = "idle" => Unsent(c)' = 0
      BY DEF Unsent
    <3> QED
      BY <1>7, <1>8, <3>1, <3>2, <3>3
  <2>2. CASE at[c] = "add"
    <3>1. refused'[c] = refused[c] /\ at'[c] = "idle"
      BY <2>2 DEF Returned, Over, ClientTypes
    <3>2. Unsent(c)' = 0
      BY <3>1 DEF Unsent
    <3> QED
      BY <1>7, <1>8, <3>1, <3>2
  <2> QED
    BY <1>1, <2>1, <2>2 DEF ClientTypes
<1>10. told'[c] <= told[c] + Praised(c)
  <2>1. CASE told'[c] = told[c]
    BY <1>7, <1>8, <2>1
  <2>2. CASE told'[c] # told[c]
    <3>1. at[c] = "add" /\ ok /\ told'[c] = told[c] + 1
      BY <2>2 DEF Returned, ClientTypes
    <3>2. conn[k].sent = "add" /\ conn[k].reply = "ok"
      BY <1>1, <3>1 DEF Asked
    <3>3. Praised(c) = 1
      BY <3>2 DEF Praised
    <3> QED
      BY <1>8, <3>1, <3>3
  <2> QED
    BY <2>1, <2>2
<1>11. CountedFor(c)'
  <2>1. told'[c] \in Nat /\ refused'[c] \in Nat
    BY <1>2 DEF ClientTypes
  <2>2. /\ Unsent(c)' + refused'[c] + tries[c] <= Unsent(c) + refused[c] + tries'[c]
        /\ told'[c] + Praised(c)' <= told[c] + Praised(c)
    BY <1>7, <1>8, <1>9, <1>10, <2>1
  <2> QED
    BY <1>1, <1>2, <1>5, <2>2, CountKept
<1>12. \A x \in Clients \ {c} :
         /\ at'[x] = at[x] /\ mode'[x] = mode[x] /\ line'[x] = line[x]
         /\ tries'[x] = tries[x] /\ refused'[x] = refused[x] /\ told'[x] = told[x]
         /\ stored'[x] = stored[x]
  BY ReturnedTypes
<1>13. Linked' /\ Counted'
  <2> HIDE DEF k
  <2>1. \A j \in Conns : conn[j].for # c /\ conn[j] # Free => conn'[j] = conn[j]
    BY <1>1, <1>3
  <2>2. \A j \in Conns : conn[j].for = c \/ conn[j] = Free => conn'[j].for \in {c, Nobody}
    BY <1>1, <1>3, <1>4 DEF Free
  <2> QED
    BY <1>2, <1>6, <1>11, <1>12, <2>1, <2>2, ClientsApart
<1> QED
  BY <1>2, <1>13

\* Every step of a client.
LEMMA ClientStepCounted ==
  ASSUME ConnTypes, ClientTypes, StoredTypes, Linked, Counted, NEW c \in Clients, Step(c)
  PROVE  ConnTypes' /\ ClientTypes' /\ StoredTypes' /\ Linked' /\ Counted'
<1>1. /\ LinkedFor(c) /\ CountedFor(c) /\ line[c] \in Conns \cup {Nobody}
      /\ Praised(c) \in {0, 1} /\ Unsent(c) \in {0, 1}
      /\ refused[c] \in Nat /\ tries[c] \in Nat /\ told[c] \in Nat /\ stored[c] \in Nat
  BY DEF Linked, Counted, ClientTypes, StoredTypes, Praised, Unsent
<1>2. CASE Begin(c) \/ DialFails(c)
  <2>1. conn' = conn /\ stored' = stored /\ ConnTypes' /\ StoredTypes' /\ told' = told
    BY <1>2 DEF Begin, DialFails, ConnTypes, StoredTypes
  <2>2. line[c] = Nobody /\ line'[c] = Nobody
    BY <1>1, <1>2 DEF Begin, DialFails, NoDaemon, NotSent, Over, LinkedFor, ClientTypes
  <2>3. ClientTypes' /\ \A x \in Clients \ {c} :
          /\ at'[x] = at[x] /\ mode'[x] = mode[x] /\ line'[x] = line[x]
          /\ tries'[x] = tries[x] /\ refused'[x] = refused[x] /\ told'[x] = told[x]
          /\ stored'[x] = stored[x]
    BY <1>2, <2>1 DEF Begin, DialFails, NoDaemon, NotSent, Over, ClientTypes
  <2>4. LinkedFor(c)'
    BY <2>2 DEF LinkedFor
  <2>5. Pending(c)' \subseteq Pending(c)
    BY <2>1 DEF Pending
  <2>6. /\ Praised(c)' = 0 /\ Praised(c) = 0
        /\ Unsent(c) = (IF at[c] = "idle" THEN 0 ELSE 1)
        /\ Unsent(c)' = (IF at'[c] = "idle" THEN 0 ELSE 1)
    BY <2>2 DEF Praised, Unsent
  <2>7. Unsent(c)' + refused'[c] + tries[c] <= Unsent(c) + refused[c] + tries'[c]
    <3>1. CASE Begin(c)
      <4>1. at[c] = "idle" /\ tries'[c] = tries[c] + 1 /\ refused'[c] = refused[c]
        BY <3>1 DEF Begin, ClientTypes
      <4> QED
        BY <1>1, <2>6, <4>1
    <3>2. CASE DialFails(c)
      <4>1. /\ at[c] # "idle" /\ tries'[c] = tries[c]
            /\ refused'[c] = refused[c] \/ (refused'[c] = refused[c] + 1 /\ at'[c] = "idle")
        BY <3>2 DEF DialFails, NoDaemon, NotSent, Over, ClientTypes
      <4> QED
        BY <1>1, <2>6, <4>1
    <3> QED
      BY <1>2, <3>1, <3>2
  <2>8. CountedFor(c)'
    <3>1. told'[c] + Praised(c)' <= told[c] + Praised(c)
      BY <1>1, <2>1, <2>6
    <3> QED
      BY <1>1, <2>1, <2>3, <2>5, <2>7, <3>1, CountKept
  <2>9. Linked' /\ Counted'
    <3>1. \A k \in Conns : conn[k].for = c \/ conn[k] = Free => conn'[k].for \in {c, Nobody}
      BY <2>1 DEF Free
    <3> QED
      BY <2>1, <2>3, <2>4, <2>8, <3>1, ClientsApart
  <2> QED
    BY <2>1, <2>3, <2>9
<1>3. CASE Dial(c)
  <2>1. PICK k \in Conns :
          /\ conn[k] = Free
          /\ conn' = [conn EXCEPT ![k] = [Free EXCEPT !.stage = "queued", !.open = TRUE,
                                                      !.server = Answering, !.for = c]]
          /\ line' = [line EXCEPT ![c] = k]
    BY <1>3 DEF Dial
  <2>2. /\ at[c] # "idle" /\ line[c] = Nobody /\ mode[c] # "direct" /\ Answering \in Daemons
        /\ at' = at /\ mode' = mode /\ tries' = tries /\ refused' = refused
        /\ told' = told /\ stored' = stored
    BY <1>3 DEF Dial, Answering
  <2>3. [Free EXCEPT !.stage = "queued", !.open = TRUE, !.server = Answering, !.for = c]
          \in Connections
    BY <2>2 DEF Free, Connections
  <2>4. ConnTypes' /\ ClientTypes' /\ StoredTypes'
    BY <2>1, <2>2, <2>3 DEF ConnTypes, ClientTypes, StoredTypes
  <2>5. /\ conn'[k].for = c /\ conn'[k].open /\ conn'[k].stage = "queued"
        /\ conn'[k].sent = "nothing" /\ conn'[k].reply = "none"
        /\ \A j \in Conns : j # k => conn'[j] = conn[j]
        /\ line'[c] = k /\ \A x \in Clients \ {c} : line'[x] = line[x]
    BY <2>1 DEF Free, ConnTypes, ClientTypes
  <2>6. LinkedFor(c)'
    BY <2>2, <2>5 DEF LinkedFor
  <2>7. Pending(c)' \subseteq Pending(c)
    BY <2>5 DEF Pending
  <2>8. Praised(c)' = 0 /\ Praised(c) = 0 /\ Unsent(c)' = 1 /\ Unsent(c) = 1
    BY <2>2, <2>5 DEF Praised, Unsent
  <2>9. CountedFor(c)'
    <3>1. /\ Unsent(c)' + refused'[c] + tries[c] <= Unsent(c) + refused[c] + tries'[c]
          /\ told'[c] + Praised(c)' <= told[c] + Praised(c)
      BY <1>1, <2>2, <2>8
    <3> QED
      BY <1>1, <2>2, <2>4, <2>7, <3>1, CountKept
  <2>10. Linked' /\ Counted'
    <3>1. /\ \A j \in Conns : conn[j].for # c /\ conn[j] # Free => conn'[j] = conn[j]
          /\ \A j \in Conns : conn[j].for = c \/ conn[j] = Free => conn'[j].for \in {c, Nobody}
      BY <2>1, <2>5 DEF Free
    <3> QED
      BY <2>2, <2>4, <2>5, <2>6, <2>9, <3>1, ClientsApart
  <2> QED
    BY <2>4, <2>10
<1>4. CASE WriteRequest(c)
  <2> DEFINE k == line[c]
  <2>1. /\ k \in Conns /\ conn[k].sent = "nothing" /\ conn[k].reply # "reset"
        /\ conn' = [conn EXCEPT ![k].sent = Asked(c)]
        /\ at' = at /\ mode' = mode /\ tries' = tries /\ refused' = refused
        /\ told' = told /\ stored' = stored /\ line' = line
    BY <1>1, <1>4 DEF WriteRequest, clientVars
  <2>2. /\ conn[k].for = c /\ conn[k].open /\ conn[k].stage # "free" /\ conn[k] \in Connections
        /\ at[c] # "idle" /\ k # Nobody
        /\ conn[k].reply # "ok"
    BY <1>1, <1>4, <2>1 DEF WriteRequest, LinkedFor, ConnTypes
  <2>3. [conn[k] EXCEPT !.sent = Asked(c)] \in Connections
    BY <2>2 DEF Connections, Asked
  <2>4. ConnTypes' /\ ClientTypes' /\ StoredTypes'
    BY <2>1, <2>3 DEF ConnTypes, ClientTypes, StoredTypes
  <2>5. /\ conn'[k].for = c /\ conn'[k].open /\ conn'[k].stage = conn[k].stage
        /\ conn'[k].sent = Asked(c) /\ conn'[k].reply = conn[k].reply
        /\ \A j \in Conns : j # k => conn'[j] = conn[j]
    BY <2>1, <2>2 DEF ConnTypes, Connections
  <2>6. LinkedFor(c)'
    BY <1>1, <2>1, <2>2, <2>5 DEF LinkedFor, Asked
  <2>7. Praised(c)' = 0 /\ Praised(c) = 0
    BY <2>1, <2>2, <2>5 DEF Praised
  <2>8. Cardinality(Pending(c)') + Unsent(c)' <= Cardinality(Pending(c)) + Unsent(c)
    <3>1. Unsent(c) = 1
      BY <2>1, <2>2 DEF Unsent
    <3>2. CASE Asked(c) = "add"
      <4>1. Unsent(c)' = 0
        BY <2>1, <2>2, <2>5, <3>2 DEF Unsent
      <4>2. Pending(c)' \subseteq Pending(c) \cup {k}
        BY <2>1, <2>5 DEF Pending
      <4>3. /\ IsFiniteSet(Pending(c) \cup {k})
            /\ Cardinality(Pending(c) \cup {k}) <= Cardinality(Pending(c)) + 1
        <5>1. IsFiniteSet(Pending(c))
          BY PendingFinite
        <5>2. /\ IsFiniteSet(Pending(c) \cup {k})
              /\ Cardinality(Pending(c) \cup {k})
                   = IF k \in Pending(c) THEN Cardinality(Pending(c)) ELSE Cardinality(Pending(c)) + 1
          BY <5>1, FS_AddElement, Zenon
        <5>3. Cardinality(Pending(c)) \in Nat
          BY <5>1, FS_CardinalityType
        <5> QED BY <5>2, <5>3
      <4>4. Cardinality(Pending(c)') <= Cardinality(Pending(c) \cup {k})
        BY <4>2, <4>3, FS_Subset
      <4>5. Cardinality(Pending(c) \cup {k}) \in Nat
        BY <4>3, FS_CardinalityType
      <4> QED
        BY <3>1, <4>1, <4>3, <4>4, <4>5, PendingFinite, PendingFinitePrimed
    <3>3. CASE Asked(c) # "add"
      <4>1. Pending(c)' \subseteq Pending(c)
        BY <2>1, <2>5, <3>3 DEF Pending
      <4>2. Cardinality(Pending(c)') <= Cardinality(Pending(c))
        BY <4>1, PendingFinite, FS_Subset
      <4>3. Unsent(c)' = 1
        BY <2>1, <2>2, <2>5, <3>3 DEF Unsent
      <4> QED
        BY <3>1, <4>2, <4>3, PendingFinite, PendingFinitePrimed
    <3> QED
      BY <3>2, <3>3
  <2>9. CountedFor(c)'
    <3>1. Unsent(c)' \in {0, 1}
      BY DEF Unsent
    <3>2. stored[c] + Cardinality(Pending(c)') + Unsent(c)' + refused[c] <= tries[c]
      BY <1>1, <2>8, <3>1, PendingFinite, PendingFinitePrimed DEF CountedFor
    <3>3. told[c] + 0 <= stored[c]
      BY <1>1, <2>7 DEF CountedFor
    <3> QED
      BY <2>1, <2>7, <3>2, <3>3 DEF CountedFor
  <2>10. Linked' /\ Counted'
    <3>1. /\ \A j \in Conns : conn[j].for # c /\ conn[j] # Free => conn'[j] = conn[j]
          /\ \A j \in Conns : conn[j].for = c \/ conn[j] = Free => conn'[j].for \in {c, Nobody}
      BY <2>2, <2>5 DEF Free
    <3> HIDE DEF k
    <3> QED
      BY <2>1, <2>4, <2>6, <2>9, <3>1, ClientsApart
  <2> QED
    BY <2>4, <2>10
<1>5. CASE ReadResponse(c)
  <2>1. /\ line[c] # Nobody /\ Returned(c, conn[line[c]].reply = "ok") /\ HangUp(line[c])
        /\ tries' = tries /\ stored' = stored
    BY <1>5 DEF ReadResponse
  <2>2. (conn[line[c]].reply = "ok") \in BOOLEAN
    OBVIOUS
  <2> QED
    BY <2>1, <2>2, ClosesCounted
<1>6. CASE TimeOut(c)
  <2>1. /\ line[c] # Nobody /\ Returned(c, FALSE) /\ HangUp(line[c])
        /\ tries' = tries /\ stored' = stored
    BY <1>6 DEF TimeOut
  <2> QED
    BY <2>1, ClosesCounted
<1>7. CASE AddDirectly(c)
  <2>1. /\ at[c] = "add" /\ mode[c] = "direct" /\ conn' = conn /\ mode' = mode
        /\ tries' = tries /\ refused' = refused
        /\ at' = [at EXCEPT ![c] = "idle"] /\ line' = [line EXCEPT ![c] = Nobody]
        /\ stored' = stored \/ stored' = [stored EXCEPT ![c] = @ + 1]
        /\ told' = told \/ told' = [told EXCEPT ![c] = @ + 1]
    BY <1>7 DEF AddDirectly, Over
  <2>2. ConnTypes' /\ ClientTypes' /\ StoredTypes'
    BY <2>1 DEF ConnTypes, ClientTypes, StoredTypes
  <2>3. /\ at'[c] = "idle" /\ line'[c] = Nobody /\ line[c] = Nobody
        /\ stored'[c] \in {stored[c], stored[c] + 1}
        /\ told'[c] = told[c] \/ (told'[c] = told[c] + 1 /\ stored'[c] = stored[c] + 1)
    BY <1>1, <1>7, <2>1 DEF AddDirectly, LinkedFor, ClientTypes, StoredTypes
  <2>4. Praised(c)' = 0 /\ Praised(c) = 0 /\ Unsent(c)' = 0 /\ Unsent(c) = 1
    BY <2>1, <2>3 DEF Praised, Unsent
  <2>5. Pending(c)' = Pending(c)
    BY <2>1 DEF Pending
  <2>6. LinkedFor(c)'
    BY <2>3 DEF LinkedFor
  <2>7. CountedFor(c)'
    BY <1>1, <2>1, <2>3, <2>4, <2>5, PendingFinite DEF CountedFor
  <2>8. \A x \in Clients \ {c} :
          /\ at'[x] = at[x] /\ mode'[x] = mode[x] /\ line'[x] = line[x]
          /\ tries'[x] = tries[x] /\ refused'[x] = refused[x] /\ told'[x] = told[x]
          /\ stored'[x] = stored[x]
    BY <2>1 DEF ClientTypes, StoredTypes
  <2>9. \A k \in Conns : conn[k].for = c \/ conn[k] = Free => conn'[k].for \in {c, Nobody}
    BY <2>1 DEF Free
  <2> QED
    BY <2>1, <2>2, <2>6, <2>7, <2>8, <2>9, ClientsApart
<1> QED
  BY <1>2, <1>3, <1>4, <1>5, <1>6, <1>7 DEF Step, CallStep

-----------------------------------------------------------------------------
(* Who has requests in hand.                                               *)

\* A step of a daemon takes up a request only as it serves, and gives up the others only
\* when it has none in hand.
LEMMA DaemonStepHandlers ==
  ASSUME DaemonTypes, ConnTypes, HandlersOwned, NEW d \in Daemons,
         Start(d) \/ Signal(d) \/ Kill(d) \/ Accept(d) \/ StartStep(d) \/ StopStep(d)
  PROVE  HandlersOwned'
<1>1. \A e \in Daemons \ {d} : stage'[e] = stage[e]
  BY DEF Start, Signal, Kill, Accept, StartStep, StopStep, Stat, ProbeSocket, RemoveStale, Bind,
         Listen, Chmod, CloseListener, Drained, Unlink, Goto, Exit, daemonVars, DaemonTypes
<1> DEFINE Kept(S) == \A k \in Conns : conn'[k].stage \in Handled => conn'[k] = conn[k] /\ k \notin S
<1>2. ASSUME NEW S \in SUBSET Conns, conn' = Reset(S)
      PROVE  Kept(S)
  BY <1>2, ResetFields DEF Handled
<1>3. QueuedAt(d) \in SUBSET Conns /\ QueuedAt(d) \cup InHand(d) \in SUBSET Conns
  BY DEF QueuedAt, InHand
<1>4. ASSUME Kept({}), stage'[d] \in {"serving", "drain"} \/ stage[d] \notin {"serving", "drain"}
      PROVE  HandlersOwned'
  BY <1>1, <1>4 DEF HandlersOwned
<1>5. CASE Kill(d)
  <2>1. Kept(QueuedAt(d) \cup InHand(d))
    BY <1>2, <1>3, <1>5 DEF Kill
  <2> QED
    BY <1>1, <2>1 DEF HandlersOwned, InHand
<1>6. CASE Accept(d)
  <2>1. PICK k \in QueuedAt(d) : conn' = [conn EXCEPT ![k].stage = "reading"]
    BY <1>6 DEF Accept
  <2>2. conn'[k].server = d /\ \A j \in Conns : j # k => conn'[j] = conn[j]
    BY <2>1 DEF QueuedAt, ConnTypes, Connections
  <2>3. stage' = stage /\ stage[d] = "serving"
    BY <1>6 DEF Accept, daemonVars
  <2> QED
    BY <2>2, <2>3 DEF HandlersOwned
<1>7. CASE Start(d) \/ Signal(d)
  <2>1. conn' = conn
    BY <1>7 DEF Start, Signal
  <2>2. stage[d] = "off" \/ stage' = stage
    BY <1>7 DEF Start, Signal
  <2> QED
    BY <1>1, <1>4, <2>1, <2>2
<1>8. CASE StartStep(d)
  <2>1. stage[d] \in Starting
    BY <1>8 DEF StartStep, Stat, ProbeSocket, RemoveStale, Bind, Listen, Chmod, Starting
  <2>2. CASE ~ProbeSocket(d)
    <3>1. conn' = conn \/ conn' = Reset(QueuedAt(d))
      BY <1>8, <2>2 DEF StartStep, Stat, RemoveStale, Bind, Listen, Chmod
    <3>2. Kept({})
      BY <1>2, <1>3, <3>1
    <3> QED
      BY <1>4, <2>1, <3>2 DEF Starting
  <2>3. CASE ProbeSocket(d)
    <3>1. \/ conn' = conn
          \/ \E k \in Conns :
               conn' = [conn EXCEPT ![k] = [Free EXCEPT !.stage = "queued", !.server = Answering]]
      BY <2>3 DEF ProbeSocket
    <3>2. [Free EXCEPT !.stage = "queued", !.server = Answering].stage = "queued"
      BY DEF Free
    <3>3. Kept({})
      BY <3>1, <3>2 DEF ConnTypes, Handled
    <3> QED
      BY <1>4, <2>1, <3>3 DEF Starting
  <2> QED
    BY <2>2, <2>3
<1>9. CASE StopStep(d)
  <2>1. CASE CloseListener(d)
    <3>1. Kept({}) /\ stage'[d] = "drain"
      BY <1>2, <1>3, <2>1 DEF CloseListener, Goto, DaemonTypes
    <3> QED
      BY <1>4, <3>1
  <2>2. CASE Drained(d)
    <3>1. conn' = conn /\ InHand(d) = {}
      BY <2>2 DEF Drained
    <3> QED
      BY <1>1, <3>1 DEF HandlersOwned, InHand
  <2>3. CASE Unlink(d)
    <3>1. conn' = conn /\ stage[d] = "unlink"
      BY <2>3 DEF Unlink
    <3> QED
      BY <1>4, <3>1
  <2> QED
    BY <1>9, <2>1, <2>2, <2>3 DEF StopStep
<1> QED
  BY <1>5, <1>6, <1>7, <1>8, <1>9

\* Handlers and clients begin none.
LEMMA OtherStepHandlers ==
  ASSUME ConnTypes, ClientTypes, HandlersOwned,
         (\E k \in Conns : HandlerStep(k)) \/ (\E c \in Clients : Step(c))
  PROVE  HandlersOwned' /\ UNCHANGED daemonVars
<1>1. UNCHANGED daemonVars
  BY DEF HandlerStep, BadRequest, Handle, WriteResponse, Step, Begin, CallStep, Dial, DialFails,
         WriteRequest, ReadResponse, TimeOut, AddDirectly
<1>2. ASSUME \A k \in Conns : conn'[k].stage \in Handled =>
               conn[k].stage \in Handled /\ conn'[k].server = conn[k].server
      PROVE  HandlersOwned'
  BY <1>1, <1>2 DEF HandlersOwned, daemonVars
<1>3. ASSUME NEW k \in Conns, HandlerStep(k)
      PROVE  HandlersOwned'
  BY <1>2, <1>3 DEF HandlerStep, BadRequest, Handle, WriteResponse, ConnTypes, Connections, Free,
     Handled
<1>4. ASSUME NEW c \in Clients, Step(c)
      PROVE  HandlersOwned'
  <2>1. CASE conn' = conn
    BY <1>2, <2>1
  <2>2. CASE line[c] \in Conns /\ (HangUp(line[c]) \/ WriteRequest(c))
    BY <1>2, <2>2 DEF HangUp, WriteRequest, ConnTypes, Connections, Free, Handled
  <2>3. CASE Dial(c)
    <3>1. PICK k \in Conns : conn' = [conn EXCEPT ![k] = [Free EXCEPT !.stage = "queued",
                               !.open = TRUE, !.server = Answering, !.for = c]]
      BY <2>3 DEF Dial
    <3> QED
      BY <1>2, <3>1 DEF ConnTypes, Free, Handled
  <2> QED
    BY <1>4, <2>1, <2>2, <2>3 DEF Step, Begin, CallStep, DialFails, WriteRequest, ReadResponse,
       TimeOut, AddDirectly, ClientTypes
<1> QED
  BY <1>1, <1>3, <1>4

-----------------------------------------------------------------------------
(* One daemon at a time, when starts and stops do not overlap.             *)

Serves(d) == stage[d] = "serving" /\ ~stopping[d]
Looks(d)  == stage[d] \in {"stat", "probe"}

\* While a daemon serves another one may look for it, and will find it.
Alone ==
  \A d, e \in Daemons :
    d # e /\ stage[d] # "off" /\ stage[e] # "off" =>
      (Serves(d) /\ Looks(e)) \/ (Serves(e) /\ Looks(d))

Leads ==
  \A d \in Daemons :
    /\ stage[d] \in {"listen", "chmod", "serving"} => path = d
    /\ stage[d] \in {"chmod", "serving"} => listening[d]

LEMMA DaemonStepReaches ==
  ASSUME Overlapping = FALSE, DaemonTypes, Alone, Leads, NEW d \in Daemons,
         Start(d) \/ Signal(d) \/ Kill(d) \/ Accept(d) \/ StartStep(d) \/ StopStep(d)
  PROVE  Alone' /\ Leads'
<1>1. \A e \in Daemons \ {d} :
        stage'[e] = stage[e] /\ stopping'[e] = stopping[e] /\ listening'[e] = listening[e]
  BY DEF Start, Signal, Kill, Accept, StartStep, StopStep, Stat, ProbeSocket, RemoveStale, Bind,
         Listen, Chmod, CloseListener, Drained, Unlink, Goto, Exit, daemonVars, DaemonTypes
<1>2. ASSUME stage'[d] = "off", path' = path
      PROVE  Alone' /\ Leads'
  BY <1>1, <1>2 DEF Alone, Leads, Serves, Looks
<1>3. ASSUME \A e \in Daemons \ {d} : stage[e] = "off",
             stage'[d] \in {"listen", "chmod", "serving"} => path' = d,
             stage'[d] \in {"chmod", "serving"} => listening'[d]
      PROVE  Alone' /\ Leads'
  BY <1>1, <1>3 DEF Alone, Leads, Serves, Looks
<1>4. ASSUME stage[d] \notin {"off", "stat", "probe"}, ~Serves(d)
      PROVE  \A e \in Daemons \ {d} : stage[e] = "off"
  BY <1>4 DEF Alone, Looks, Serves
<1>5. CASE Start(d)
  <2>1. /\ stage'[d] = "stat" /\ path' = path /\ stage[d] = "off"
        /\ \A e \in Daemons : Settled(e)
    BY <1>5 DEF Start, Goto, DaemonTypes
  <2>2. Leads'
    BY <1>1, <2>1 DEF Leads
  <2>3. Alone'
    BY <1>1, <2>1 DEF Alone, Settled, Serves, Looks
  <2> QED
    BY <2>2, <2>3
<1>6. CASE Signal(d)
  <2>1. /\ stage' = stage /\ path' = path /\ listening' = listening
        /\ \A e \in Daemons \ {d} : Settled(e)
    BY <1>6 DEF Signal
  <2>2. Leads'
    BY <2>1 DEF Leads
  <2>3. Alone'
    BY <1>1, <2>1 DEF Alone, Settled, Serves, Looks
  <2> QED
    BY <2>2, <2>3
<1>7. CASE Kill(d)
  BY <1>2, <1>7 DEF Kill, Exit, Goto, DaemonTypes
<1>8. CASE Accept(d)
  BY <1>8 DEF Accept, daemonVars, Alone, Leads, Serves, Looks
<1>9. ASSUME path = Nobody
      PROVE  \A e \in Daemons : stage[e] # "serving"
  BY <1>9, NoSuchDaemon DEF Leads
<1>10. ASSUME Looks(d), \A e \in Daemons : stage[e] # "serving"
       PROVE  \A e \in Daemons \ {d} : stage[e] = "off"
  BY <1>10 DEF Alone, Serves, Looks
<1>11. CASE Stat(d)
  <2>1. CASE path = Nobody /\ Goto(d, "bind")
    <3>1. stage'[d] = "bind"
      BY <2>1 DEF Goto, DaemonTypes
    <3> QED
      BY <1>3, <1>9, <1>10, <1>11, <2>1, <3>1 DEF Stat, Looks
  <2>2. CASE Exit(d)
    BY <1>2, <1>11, <2>2 DEF Stat, Exit, Goto, DaemonTypes
  <2>3. CASE Goto(d, "probe") /\ UNCHANGED stopping
    <3>1. stage'[d] = "probe" /\ stage[d] = "stat" /\ path' = path
      BY <1>11, <2>3 DEF Stat, Goto, DaemonTypes
    <3> QED
      BY <1>1, <2>3, <3>1 DEF Alone, Leads, Serves, Looks
  <2> QED
    BY <1>11, <2>1, <2>2, <2>3 DEF Stat
<1>12. CASE ProbeSocket(d)
  <2>1. CASE Exit(d)
    BY <1>2, <1>12, <2>1 DEF ProbeSocket, Exit, Goto, DaemonTypes
  <2>2. CASE Answering = Nobody /\ Goto(d, "remove")
    <3>1. \A e \in Daemons : stage[e] # "serving"
      BY <2>2, NoSuchDaemon DEF Answering, Leads
    <3>2. stage'[d] = "remove"
      BY <2>2 DEF Goto, DaemonTypes
    <3> QED
      BY <1>3, <1>10, <1>12, <3>1, <3>2 DEF ProbeSocket, Looks
  <2> QED
    BY <1>12, <2>1, <2>2 DEF ProbeSocket
<1>13. CASE RemoveStale(d) \/ Bind(d) \/ Listen(d) \/ Chmod(d)
  <2>1. \A e \in Daemons \ {d} : stage[e] = "off"
    BY <1>4, <1>13 DEF RemoveStale, Bind, Listen, Chmod, Serves
  <2>2. /\ stage'[d] \in {"listen", "chmod", "serving"} => path' = d
        /\ stage'[d] \in {"chmod", "serving"} => listening'[d]
    BY <1>13, NoSuchDaemon DEF RemoveStale, Bind, Listen, Chmod, Goto, Exit, DaemonTypes, Leads
  <2> QED
    BY <1>3, <2>1, <2>2
<1>14. CASE StopStep(d)
  <2>1. \A e \in Daemons \ {d} : stage[e] = "off"
    BY <1>4, <1>14 DEF StopStep, CloseListener, Drained, Unlink, Serves
  <2>2. stage'[d] \in {"drain", "unlink", "off"}
    BY <1>14 DEF StopStep, CloseListener, Drained, Unlink, Goto, Exit, DaemonTypes
  <2> QED
    BY <1>3, <2>1, <2>2
<1> QED
  BY <1>5, <1>6, <1>7, <1>8, <1>11, <1>12, <1>13, <1>14 DEF StartStep

-----------------------------------------------------------------------------
DaemonInv ==
  /\ DaemonTypes /\ ConnTypes /\ ClientTypes /\ StoredTypes
  /\ Linked /\ Counted /\ HandlersOwned
  /\ Overlapping = FALSE => Alone /\ Leads

LEMMA DaemonStarts == Init => DaemonInv
<1> SUFFICES ASSUME Init PROVE DaemonInv
  OBVIOUS
<1>1. DaemonTypes
  BY BoundsAssumption DEF Init, DaemonTypes, Stages
<1>2. ConnTypes
  BY DEF Init, ConnTypes, Connections, Free
<1>3. ClientTypes /\ StoredTypes
  BY DEF Init, ClientTypes, StoredTypes, Zero
<1>4. Linked
  BY DEF Init, Linked, LinkedFor
<1>5. Counted
  <2>1. ASSUME NEW c \in Clients
        PROVE  CountedFor(c)
    <3>1. Pending(c) = {} /\ Unsent(c) = 0 /\ Praised(c) = 0
      BY DEF Init, Pending, Free, Unsent, Praised
    <3>2. stored[c] = 0 /\ refused[c] = 0 /\ tries[c] = 0 /\ told[c] = 0
      BY DEF Init, Zero
    <3> QED
      BY <3>1, <3>2, FS_EmptySet DEF CountedFor
  <2> QED
    BY <2>1 DEF Counted
<1>6. HandlersOwned
  BY DEF Init, HandlersOwned, Free, Handled
<1>7. Alone /\ Leads
  BY DEF Init, Alone, Leads
<1> QED
  BY <1>1, <1>2, <1>3, <1>4, <1>5, <1>6, <1>7 DEF DaemonInv

LEMMA DaemonSteps == DaemonInv /\ [Next]_vars => DaemonInv'
<1> SUFFICES ASSUME DaemonInv, [Next]_vars PROVE DaemonInv'
  OBVIOUS
<1>1. /\ DaemonTypes /\ ConnTypes /\ ClientTypes /\ StoredTypes
      /\ Linked /\ Counted /\ HandlersOwned
      /\ Overlapping = FALSE => Alone /\ Leads
  BY DEF DaemonInv
<1>2. ASSUME NEW d \in Daemons,
             Start(d) \/ Signal(d) \/ Kill(d) \/ Accept(d) \/ StartStep(d) \/ StopStep(d)
      PROVE  DaemonInv'
  <2>1. DaemonTypes' /\ ConnTypes'
    BY <1>1, <1>2, DaemonStepTypes
  <2>2. UNCHANGED <<clientVars, stored>> /\ \A k \in Conns : Mild(k)
    BY <1>1, <1>2, DaemonStepMild
  <2>3. ClientTypes' /\ StoredTypes'
    BY <1>1, <2>2 DEF ClientTypes, StoredTypes, clientVars
  <2>4. Linked' /\ Counted'
    BY <1>1, <2>2, MildKeeps
  <2>5. HandlersOwned'
    BY <1>1, <1>2, DaemonStepHandlers
  <2>6. Overlapping = FALSE => Alone' /\ Leads'
    BY <1>1, <1>2, DaemonStepReaches
  <2> QED
    BY <2>1, <2>3, <2>4, <2>5, <2>6 DEF DaemonInv
<1>3. ASSUME UNCHANGED daemonVars
      PROVE  DaemonTypes' /\ (Overlapping = FALSE => Alone' /\ Leads')
  BY <1>1, <1>3 DEF daemonVars, DaemonTypes, Alone, Leads, Serves, Looks
<1>4. ASSUME NEW k \in Conns, HandlerStep(k)
      PROVE  DaemonInv'
  <2>1. ConnTypes' /\ StoredTypes' /\ Linked' /\ Counted'
    BY <1>1, <1>4, HandlerStepTypes, HandlerStepCounted
  <2>2. HandlersOwned' /\ UNCHANGED daemonVars
    BY <1>1, <1>4, OtherStepHandlers
  <2>3. ClientTypes'
    BY <1>1, <1>4 DEF HandlerStep, BadRequest, Handle, WriteResponse, clientVars, ClientTypes
  <2> QED
    BY <1>3, <2>1, <2>2, <2>3 DEF DaemonInv
<1>5. ASSUME NEW c \in Clients, Step(c)
      PROVE  DaemonInv'
  <2>1. ConnTypes' /\ ClientTypes' /\ StoredTypes' /\ Linked' /\ Counted'
    BY <1>1, <1>5, ClientStepCounted
  <2>2. HandlersOwned' /\ UNCHANGED daemonVars
    BY <1>1, <1>5, OtherStepHandlers
  <2> QED
    BY <1>3, <2>1, <2>2 DEF DaemonInv
<1>6. CASE UNCHANGED vars
  <2>1. UNCHANGED daemonVars /\ UNCHANGED <<clientVars, stored>> /\ conn' = conn
    BY <1>6 DEF vars
  <2>2. \A k \in Conns : Mild(k)
    BY <2>1 DEF Mild
  <2>3. Linked' /\ Counted'
    BY <1>1, <2>1, <2>2, MildKeeps
  <2>4. ConnTypes' /\ ClientTypes' /\ StoredTypes' /\ HandlersOwned'
    BY <1>1, <2>1 DEF ConnTypes, ClientTypes, StoredTypes, HandlersOwned, clientVars, daemonVars
  <2> QED
    BY <1>3, <2>1, <2>3, <2>4 DEF DaemonInv
<1> QED
  BY <1>2, <1>4, <1>5, <1>6 DEF Next, Step

LEMMA DaemonInvariant == Spec => []DaemonInv
<1> QED
  BY DaemonStarts, DaemonSteps, PTL DEF Spec

\* The types of the model.
THEOREM DaemonTypeCorrect == Spec => []TypeOK
<1>1. DaemonInv => TypeOK
  BY DEF DaemonInv, TypeOK, DaemonTypes, ConnTypes, ClientTypes, StoredTypes, Stages
<1> QED
  BY <1>1, DaemonInvariant, PTL

\* Run closes the backend only after its last handler, and no request comes after it,
\* also when daemons are killed and started at any moment.
THEOREM BackendClosedLast == Spec => []ClosedAfterLast
<1>1. DaemonInv => ClosedAfterLast
  BY DEF DaemonInv, ClosedAfterLast, HandlersOwned, InHand
<1> QED
  BY <1>1, DaemonInvariant, PTL

\* A success that was reported is an entry that was stored, and a command stores at most
\* one entry: for any number of clients, calls that time out, daemons that die.
THEOREM OutcomesHonest == Spec => []OutcomeHonest
<1>1. DaemonInv => OutcomeHonest
  <2> SUFFICES ASSUME DaemonInv, NEW c \in Clients
               PROVE  told[c] <= stored[c] /\ stored[c] <= tries[c] - refused[c]
    BY DEF OutcomeHonest
  <2>1. /\ Cardinality(Pending(c)) \in Nat /\ Unsent(c) \in {0, 1} /\ Praised(c) \in {0, 1}
        /\ stored[c] \in Nat /\ refused[c] \in Nat /\ tries[c] \in Nat /\ told[c] \in Nat
    BY PendingFinite DEF DaemonInv, ClientTypes, StoredTypes, Unsent, Praised
  <2>2. /\ stored[c] + Cardinality(Pending(c)) + Unsent(c) + refused[c] <= tries[c]
        /\ told[c] + Praised(c) <= stored[c]
    BY DEF DaemonInv, Counted, CountedFor
  <2> QED
    BY <2>1, <2>2
<1> QED
  BY <1>1, DaemonInvariant, PTL

\* The socket path leads to the daemon that serves (listen, removeSocketFile), whatever
\* files killed daemons left, if no daemon starts while another starts or stops.
THEOREM DaemonReachable ==
  ASSUME Overlapping = FALSE
  PROVE  Spec => []ServingReachable
<1>1. DaemonInv => ServingReachable
  BY Overlapping = FALSE DEF DaemonInv, ServingReachable, Leads
<1> QED
  BY <1>1, DaemonInvariant, PTL

-----------------------------------------------------------------------------
(* A tool call in its two modes (ToolRouting).                             *)

\* A call does the same directly and through the daemon, or is one of the cases named.
Agree(c) == Effect(AskedDirectly(c)) = Effect(AskedViaDaemon(c)) <=> Hopeless(c) \/ ~Parted(c)

\* The arguments of a call that are no texts.
TextIsNot == {"tool", "tags", "depth", "limit", "id", "max_hops", "last_n", "depth_a", "depth_b"}

\* A text without the space around it.
LEMMA TrimIs ==
  ASSUME NEW t \in Texts
  PROVE  /\ Trim(t) = [core |-> t.core, pad |-> FALSE] /\ t = [core |-> t.core, pad |-> t.pad]
         /\ t.core \in {"", Word} /\ t.pad \in BOOLEAN
         /\ Trim(t) = Omitted <=> t.core = ""
         /\ ~ t.pad => Trim(t) = t
         /\ t.pad => Trim(t) # t /\ t # Omitted
<1>1. /\ t = [core |-> t.core, pad |-> t.pad]
      /\ t.core \in {"", Word} /\ t.pad \in BOOLEAN
  BY DEF Texts
<1> DEFINE u == [core |-> t.core, pad |-> FALSE]
<1>2. u.core = t.core /\ u.pad = FALSE /\ Omitted.core = "" /\ Omitted.pad = FALSE
  BY DEF Omitted
<1>3. u = Omitted <=> t.core = ""
  BY <1>2 DEF Omitted
<1>4. Trim(t) = u
  BY DEF Trim
<1>5. ~ t.pad => u = t
  BY <1>1
<1>6. t.pad => u # t /\ t # Omitted
  BY <1>2
<1> HIDE DEF u
<1>7. Trim(t) = [core |-> t.core, pad |-> FALSE]
  BY DEF Trim
<1> QED BY <1>1, <1>3, <1>4, <1>5, <1>6, <1>7

LEMMA TrimmedCall ==
  ASSUME NEW c
  PROVE  /\ DOMAIN TrimAll(c) = DOMAIN c
         /\ \A a \in DOMAIN c : TrimAll(c)[a] = IF a \notin TextIsNot THEN Trim(c[a]) ELSE c[a]
  BY DEF TrimAll, TextIsNot

LEMMA CallAsIs ==
  ASSUME NEW c
  PROVE  /\ AsIs(c).op = c.tool /\ DOMAIN AsIs(c) = DOMAIN c \cup {"op"}
         /\ \A a \in DOMAIN c \ {"op"} : AsIs(c)[a] = c[a]
  BY DEF AsIs

LEMMA ServedAsIs ==
  ASSUME NEW c, "tool" \in DOMAIN c
  PROVE  /\ AsIs(TrimAll(c)).op = c.tool /\ DOMAIN AsIs(TrimAll(c)) = DOMAIN c \cup {"op"}
         /\ \A a \in DOMAIN c \ {"op"} :
              AsIs(TrimAll(c))[a] = IF a \notin TextIsNot THEN Trim(c[a]) ELSE c[a]
<1> DEFINE d == TrimAll(c)
<1>1. /\ DOMAIN d = DOMAIN c
      /\ \A a \in DOMAIN c : d[a] = IF a \notin TextIsNot THEN Trim(c[a]) ELSE c[a]
  BY TrimmedCall
<1>2. d.tool = c.tool
  BY <1>1 DEF TextIsNot
<1> HIDE DEF d
<1>3. /\ AsIs(d).op = d.tool /\ DOMAIN AsIs(d) = DOMAIN d \cup {"op"}
      /\ \A a \in DOMAIN d \ {"op"} : AsIs(d)[a] = d[a]
  BY CallAsIs
<1>4. /\ AsIs(d).op = c.tool /\ DOMAIN AsIs(d) = DOMAIN c \cup {"op"}
      /\ \A a \in DOMAIN c \ {"op"} : AsIs(d)[a] = IF a \notin TextIsNot THEN Trim(c[a]) ELSE c[a]
  BY <1>1, <1>2, <1>3
<1> QED BY <1>4 DEF d

LEMMA RefusedIs == Effect(Refused) = Refused /\ Refused.op = "refused"
<1>1. Refused.op = "refused"
  BY DEF Refused
<1>2. /\ Refused.op # "list" /\ Refused.op # "search" /\ Refused.op # "add" /\ Refused.op # "traverse"
      /\ Refused.op # "find_bridges" /\ Refused.op # "read" /\ Refused.op # "diary_write"
      /\ Refused.op # "kg_invalidate"
      /\ Refused.op \notin {"kg_query", "kg_add", "kg_timeline", "check_duplicate"}
  BY <1>1
<1> QED BY <1>1, <1>2, Zenon DEF Effect

Plain == {"status", "paths", "list_depths", "list_tags", "get_tag_map", "graph_stats", "kg_stats", "doctor"}

\* What is asked for a tool whose arguments are passed on.
PassedOn == Plain \cup {"kg_query", "kg_add", "kg_timeline", "check_duplicate", "kg_invalidate", "diary_write"}

LEMMA AskedAsIs ==
  ASSUME NEW c, "tool" \in DOMAIN c, c.tool \in PassedOn
  PROVE  AskedDirectly(c) = AsIs(c) /\ AskedViaDaemon(c) = AsIs(TrimAll(c))
<1>1. /\ c.tool # "cli add" /\ c.tool # "cli search" /\ c.tool # "list_entries" /\ c.tool # "search"
      /\ c.tool \notin {"show_entry", "delete_entry"} /\ c.tool # "add_entry"
      /\ c.tool # "graph_traverse" /\ c.tool # "diary_read" /\ c.tool # "find_bridges"
  BY DEF PassedOn, Plain
<1>2. TrimAll(c).tool = c.tool
  BY TrimmedCall DEF TextIsNot
<1>3. AskedDirectly(c) = Direct(c) /\ AskedViaDaemon(c) = Served(c)
  BY <1>1, Zenon DEF AskedDirectly, AskedViaDaemon
<1>4. Direct(c) = AsIs(c)
  BY <1>1, Zenon DEF Direct
<1>5. Served(c) = AsIs(TrimAll(c))
  <2> DEFINE d == TrimAll(c)
  <2>1. /\ d.tool # "list_entries" /\ d.tool # "search"
        /\ d.tool \notin {"show_entry", "delete_entry"} /\ d.tool # "add_entry"
        /\ d.tool # "graph_traverse" /\ d.tool # "diary_read" /\ d.tool # "find_bridges"
    BY <1>1, <1>2
  <2> QED BY <2>1, Zenon DEF Served
<1> QED BY <1>3, <1>4, <1>5

\* No tool of them takes a number.
LEMMA Numberless ==
  ASSUME NEW c, DOMAIN c \cap (TextIsNot \ {"tool", "tags"}) = {}
  PROVE  Numbers(c) = {}
<1>1. /\ DOMAIN c \cap {"depth", "depth_a", "depth_b"} = {}
      /\ DOMAIN c \cap {"limit", "id", "max_hops", "last_n"} = {}
  BY DEF TextIsNot
<1> QED BY <1>1 DEF Numbers

LEMMA PlainAgree ==
  ASSUME NEW c \in [tool : Plain]
  PROVE  Agree(c)
<1>1. DOMAIN c = {"tool"} /\ c.tool \in Plain
  OBVIOUS
<1>2. AskedDirectly(c) = AsIs(c) /\ AskedViaDaemon(c) = AsIs(TrimAll(c))
  BY <1>1, AskedAsIs DEF PassedOn
<1>3. AsIs(TrimAll(c)) = AsIs(c)
  BY <1>1, TrimmedCall DEF AsIs, TextIsNot
<1>4. ~ Parted(c)
  <2>1. Numbers(c) = {}
    BY <1>1, Numberless DEF TextIsNot
  <2> QED BY <1>1, <2>1 DEF Parted, Plain
<1> QED BY <1>2, <1>3, <1>4 DEF Agree

\* The tools that the stores take the trimmed texts of.
LEMMA CoresAgree ==
  ASSUME NEW c, "tool" \in DOMAIN c,
         c.tool \in {"kg_query", "kg_add", "kg_timeline", "check_duplicate"},
         DOMAIN c \cap (TextIsNot \ {"tool"}) = {}, "op" \notin DOMAIN c
  PROVE  Agree(c)
<1> DEFINE d == AsIs(c)  e == AsIs(TrimAll(c))
<1>1. AskedDirectly(c) = d /\ AskedViaDaemon(c) = e
  BY AskedAsIs DEF PassedOn
<1>2. /\ d.op = c.tool /\ DOMAIN d = DOMAIN c \cup {"op"}
      /\ \A a \in DOMAIN c \ {"op"} : d[a] = c[a]
  BY CallAsIs
<1>3. /\ e.op = c.tool /\ DOMAIN e = DOMAIN c \cup {"op"}
      /\ \A a \in DOMAIN c \ {"op", "tool"} : e[a] = Trim(c[a])
  BY ServedAsIs DEF TextIsNot
<1> HIDE DEF d, e
<1>4. /\ Effect(d) = Cores(d) /\ Effect(e) = Cores(e)
  <2>1. ASSUME NEW q, q.op = c.tool PROVE Effect(q) = Cores(q)
    <3>1. /\ q.op # "list" /\ q.op # "search" /\ q.op # "add" /\ q.op # "traverse"
          /\ q.op # "find_bridges" /\ q.op # "read" /\ q.op # "diary_write" /\ q.op # "kg_invalidate"
          /\ q.op \in {"kg_query", "kg_add", "kg_timeline", "check_duplicate"}
      BY <2>1
    <3> QED BY <3>1, Zenon DEF Effect
  <2> QED BY <1>2, <1>3, <2>1
<1>5. \A a \in DOMAIN c \ {"op", "tool"} : d[a].core = e[a].core
  BY <1>2, <1>3 DEF Trim
<1>6. Cores(d) = Cores(e)
  BY <1>2, <1>3, <1>5 DEF Cores
<1>7. ~ Parted(c)
  <2>1. Numbers(c) = {}
    BY Numberless
  <2> QED BY <2>1 DEF Parted
<1> QED BY <1>1, <1>4, <1>6, <1>7 DEF Agree

LEMMA InvalidateAgrees ==
  ASSUME NEW c \in [tool : {"kg_invalidate"}, subject : Texts, predicate : Texts, object : Texts,
                    ended : Texts]
  PROVE  Agree(c)
<1> DEFINE d == AsIs(c)  e == AsIs(TrimAll(c))
<1>1. /\ c.tool = "kg_invalidate" /\ DOMAIN c = {"tool", "subject", "predicate", "object", "ended"}
      /\ c.subject \in Texts /\ c.predicate \in Texts /\ c.object \in Texts /\ c.ended \in Texts
  OBVIOUS
<1>2. AskedDirectly(c) = d /\ AskedViaDaemon(c) = e
  BY <1>1, AskedAsIs DEF PassedOn
<1>3. /\ d.op = c.tool /\ d.subject = c.subject /\ d.predicate = c.predicate
      /\ d.object = c.object /\ d.ended = c.ended
  BY <1>1, CallAsIs
<1>4. /\ e.op = c.tool /\ e.subject = Trim(c.subject) /\ e.predicate = Trim(c.predicate)
      /\ e.object = Trim(c.object) /\ e.ended = Trim(c.ended)
  BY <1>1, ServedAsIs DEF TextIsNot
<1> HIDE DEF d, e
<1>5. /\ Effect(d) = Invalidated(d) /\ Effect(e) = Invalidated(e)
  <2>1. ASSUME NEW q, q.op = c.tool PROVE Effect(q) = Invalidated(q)
    <3>1. /\ q.op # "list" /\ q.op # "search" /\ q.op # "add" /\ q.op # "traverse"
          /\ q.op # "find_bridges" /\ q.op # "read" /\ q.op # "diary_write" /\ q.op = "kg_invalidate"
          /\ q.op \notin {"kg_query", "kg_add", "kg_timeline", "check_duplicate"}
      BY <1>1, <2>1
    <3> QED BY <3>1, Zenon DEF Effect
  <2> QED BY <1>3, <1>4, <2>1
<1>6. Parted(c) <=> c.ended.core # "" /\ c.ended.pad
  <2>1. Numbers(c) = {}
    BY <1>1, Numberless DEF TextIsNot
  <2> QED BY <1>1, <2>1 DEF Parted
<1>7. ~ Hopeless(c)
  BY <1>1 DEF Hopeless
<1>8. Invalidated(d) = Invalidated(e) <=> ~ (c.ended.core # "" /\ c.ended.pad)
  <2>1. /\ e.subject.core = d.subject.core /\ e.predicate.core = d.predicate.core
        /\ e.object.core = d.object.core /\ e.ended.core = d.ended.core /\ d.ended = c.ended
        /\ e.ended = Trim(c.ended)
    BY <1>3, <1>4 DEF Trim
  <2>2. (IF d.ended.core = "" THEN Omitted ELSE d.ended) = (IF e.ended.core = "" THEN Omitted ELSE e.ended)
          <=> ~ (c.ended.core # "" /\ c.ended.pad)
    BY <1>1, <2>1, TrimIs
  <2> DEFINE u == IF d.ended.core = "" THEN Omitted ELSE d.ended
             v == IF e.ended.core = "" THEN Omitted ELSE e.ended
             f == <<d.subject.core, d.predicate.core, d.object.core>>
  <2>3. /\ Invalidated(d) = [op |-> "invalidate", fact |-> f, ended |-> u]
        /\ Invalidated(e) = [op |-> "invalidate", fact |-> f, ended |-> v]
    BY <2>1 DEF Invalidated
  <2> HIDE DEF u, v, f
  <2>4. Invalidated(d) = Invalidated(e) <=> u = v
    BY <2>3
  <2> QED BY <2>2, <2>4 DEF u, v
<1> QED BY <1>2, <1>5, <1>6, <1>7, <1>8 DEF Agree

LEMMA DiaryWriteAgrees ==
  ASSUME NEW c \in [tool : {"diary_write"}, agent_name : Texts, entry : Texts, topic : Texts]
  PROVE  Agree(c)
<1> DEFINE d == AsIs(c)  e == AsIs(TrimAll(c))
<1>1. /\ c.tool = "diary_write" /\ DOMAIN c = {"tool", "agent_name", "entry", "topic"}
      /\ c.agent_name \in Texts /\ c.entry \in Texts /\ c.topic \in Texts
  OBVIOUS
<1>2. AskedDirectly(c) = d /\ AskedViaDaemon(c) = e
  BY <1>1, AskedAsIs DEF PassedOn
<1>3. d.op = c.tool /\ d.agent_name = c.agent_name /\ d.entry = c.entry /\ d.topic = c.topic
  BY <1>1, CallAsIs
<1>4. /\ e.op = c.tool /\ e.agent_name = Trim(c.agent_name) /\ e.entry = Trim(c.entry)
      /\ e.topic = Trim(c.topic)
  BY <1>1, ServedAsIs DEF TextIsNot
<1> HIDE DEF d, e
<1>5. /\ Effect(d) = Written(d) /\ Effect(e) = Written(e)
  <2>1. ASSUME NEW q, q.op = c.tool PROVE Effect(q) = Written(q)
    <3>1. /\ q.op # "list" /\ q.op # "search" /\ q.op # "add" /\ q.op # "traverse"
          /\ q.op # "find_bridges" /\ q.op # "read" /\ q.op = "diary_write" /\ q.op # "kg_invalidate"
          /\ q.op \notin {"kg_query", "kg_add", "kg_timeline", "check_duplicate"}
      BY <1>1, <2>1
    <3> QED BY <3>1, Zenon DEF Effect
  <2> QED BY <1>3, <1>4, <2>1
<1>6. Parted(c) <=> c.entry.pad \/ c.topic.pad
  <2>1. Numbers(c) = {}
    BY <1>1, Numberless DEF TextIsNot
  <2> QED BY <1>1, <2>1 DEF Parted
<1>7. ~ Hopeless(c)
  BY <1>1 DEF Hopeless
<1> DEFINE general == [core |-> "general", pad |-> FALSE]
           u == IF c.topic = Omitted THEN general ELSE c.topic
           v == IF Trim(c.topic) = Omitted THEN general ELSE Trim(c.topic)
<1>8. /\ Written(d) = [op |-> "write", agent |-> c.agent_name.core, content |-> c.entry, topic |-> u]
      /\ Written(e) = [op |-> "write", agent |-> c.agent_name.core, content |-> Trim(c.entry), topic |-> v]
  BY <1>3, <1>4 DEF Written, Trim
<1>9. u = v <=> ~ c.topic.pad
  <2>1. CASE c.topic.pad
    <3>1. c.topic # Omitted /\ c.topic # Trim(c.topic)
      BY <1>1, <2>1, TrimIs
    <3>2. general.pad = FALSE /\ Trim(c.topic).pad = FALSE
      BY DEF Trim
    <3>3. c.topic # general
      BY <2>1, <3>2
    <3> QED BY <2>1, <3>1, <3>2, <3>3
  <2>2. CASE ~ c.topic.pad
    <3>1. Trim(c.topic) = c.topic
      BY <1>1, <2>2, TrimIs
    <3> QED BY <2>2, <3>1
  <2> QED BY <2>1, <2>2
<1>10. c.entry = Trim(c.entry) <=> ~ c.entry.pad
  BY <1>1, TrimIs
<1> HIDE DEF u, v
<1>11. Written(d) = Written(e) <=> c.entry = Trim(c.entry) /\ u = v
  BY <1>8
<1> QED BY <1>2, <1>5, <1>6, <1>7, <1>9, <1>10, <1>11 DEF Agree

\* Which of the stores' operations a request goes to.
LEMMA EffectIs ==
  ASSUME NEW q
  PROVE  /\ q.op = "list" => Effect(q) = Listed(q)
         /\ q.op = "search" => Effect(q) = Found(q)
         /\ q.op = "add" => Effect(q) = Added(q)
         /\ q.op = "traverse" => Effect(q) = Traversed(q)
         /\ q.op = "find_bridges" => Effect(q) = Bridged(q)
         /\ q.op = "read" => Effect(q) = Read(q)
         /\ q.op \in {"show_entry", "delete_entry", "refused"} => Effect(q) = q
<1> DEFINE others == {"kg_query", "kg_add", "kg_timeline", "check_duplicate"}
<1>1. ASSUME q.op = "list" PROVE Effect(q) = Listed(q)
  BY <1>1, Zenon DEF Effect
<1>2. ASSUME q.op = "search" PROVE Effect(q) = Found(q)
  <2>1. q.op # "list"
    BY <1>2
  <2> QED BY <1>2, <2>1, Zenon DEF Effect
<1>3. ASSUME q.op = "add" PROVE Effect(q) = Added(q)
  <2>1. q.op # "list" /\ q.op # "search"
    BY <1>3
  <2> QED BY <1>3, <2>1, Zenon DEF Effect
<1>4. ASSUME q.op = "traverse" PROVE Effect(q) = Traversed(q)
  <2>1. q.op # "list" /\ q.op # "search" /\ q.op # "add"
    BY <1>4
  <2> QED BY <1>4, <2>1, Zenon DEF Effect
<1>5. ASSUME q.op = "find_bridges" PROVE Effect(q) = Bridged(q)
  <2>1. q.op # "list" /\ q.op # "search" /\ q.op # "add" /\ q.op # "traverse"
    BY <1>5
  <2> QED BY <1>5, <2>1, Zenon DEF Effect
<1>6. ASSUME q.op = "read" PROVE Effect(q) = Read(q)
  <2>1. q.op # "list" /\ q.op # "search" /\ q.op # "add" /\ q.op # "traverse" /\ q.op # "find_bridges"
    BY <1>6
  <2> QED BY <1>6, <2>1, Zenon DEF Effect
<1>7. ASSUME q.op \in {"show_entry", "delete_entry", "refused"} PROVE Effect(q) = q
  <2>1. /\ q.op # "list" /\ q.op # "search" /\ q.op # "add" /\ q.op # "traverse" /\ q.op # "find_bridges"
        /\ q.op # "read" /\ q.op # "diary_write" /\ q.op # "kg_invalidate" /\ q.op \notin others
    BY <1>7
  <2> QED BY <2>1, Zenon DEF Effect
<1> QED BY <1>1, <1>2, <1>3, <1>4, <1>5, <1>6, <1>7

\* The numbers of a call; those the daemon can read.
LEMMA NumbersAre ==
  ASSUME NEW c
  PROVE  \A n : n \in Numbers(c) <=>
           \/ \E a \in DOMAIN c \cap {"depth", "depth_a", "depth_b"} : n \in c[a]
           \/ \E a \in DOMAIN c \cap {"limit", "id", "max_hops", "last_n"} : n = c[a]
  BY DEF Numbers

LEMMA OptionalIs ==
  ASSUME NEW d \in Optional
  PROVE  d \subseteq Int /\ (d = {} \/ \E n \in Int : d = {n})
  BY ToolNumbers DEF Optional, Given

LEMMA SafeIs ==
  /\ \A n \in Int : Safe(n) <=> -MaxSafe <= n /\ n <= MaxSafe
  /\ \A n \in Int : n > MaxSafe => ~ Safe(n)
  BY ToolNumbers DEF Safe

\* Where numbers below zero are as bad as those far above.
LEMMA PartedBy ==
  ASSUME NEW c, c.tool \notin Replaced, Numbers(c) \subseteq Int
  PROVE  Parted(c) <=>
           \/ \E n \in Numbers(c) : ~ Safe(n)
           \/ c.tool = "search" /\ (c.query.core = "" \/ c.tag = [core |-> "", pad |-> TRUE])
           \/ c.tool = "add_entry" /\ OnlyBlankTags(c)
           \/ c.tool = "kg_invalidate" /\ c.ended.core # "" /\ c.ended.pad
           \/ c.tool = "diary_write" /\ (c.entry.pad \/ c.topic.pad)
<1>1. (\E n \in Numbers(c) : n > MaxSafe \/ (~ Safe(n) /\ c.tool \notin Replaced))
        <=> \E n \in Numbers(c) : ~ Safe(n)
  BY SafeIs
<1>2. c.tool # "cli add" /\ c.tool # "cli search" /\ c.tool # "diary_read"
  BY DEF Replaced
<1> QED BY <1>1, <1>2 DEF Parted

Routed == {"list_entries", "search", "show_entry", "delete_entry", "add_entry", "graph_traverse",
           "find_bridges", "diary_read"}

\* What is asked for the other tools.
LEMMA AskedRouted ==
  ASSUME NEW c, "tool" \in DOMAIN c, c.tool \in Routed
  PROVE  /\ AskedDirectly(c) = Direct(c) /\ AskedViaDaemon(c) = Served(c) /\ TrimAll(c).tool = c.tool
<1>1. c.tool # "cli add" /\ c.tool # "cli search"
  BY DEF Routed
<1>2. TrimAll(c).tool = c.tool
  BY TrimmedCall DEF TextIsNot
<1> QED BY <1>1, <1>2, Zenon DEF AskedDirectly, AskedViaDaemon

LEMMA ShowAgrees ==
  ASSUME NEW c \in [tool : {"show_entry", "delete_entry"}, id : NumberArgs]
  PROVE  Agree(c)
<1>1. DOMAIN c = {"tool", "id"} /\ c.tool \in {"show_entry", "delete_entry"} /\ c.id \in Int
  BY ToolNumbers
<1> DEFINE d == TrimAll(c)
<1>2. AskedDirectly(c) = Direct(c) /\ AskedViaDaemon(c) = Served(c) /\ d.tool = c.tool /\ d.id = c.id
  BY <1>1, AskedRouted, TrimmedCall DEF Routed, TextIsNot
<1>3. Direct(c) = [op |-> c.tool, id |-> c.id]
  <2>1. c.tool # "list_entries" /\ c.tool # "search"
    BY <1>1
  <2> QED BY <1>1, <2>1, Zenon DEF Direct
<1>4. Served(c) = IF Safe(c.id) THEN [op |-> c.tool, id |-> c.id] ELSE Refused
  <2>1. d.tool # "list_entries" /\ d.tool # "search" /\ d.tool \in {"show_entry", "delete_entry"}
    BY <1>1, <1>2
  <2>2. Served(c) = IF Safe(d.id) THEN [op |-> d.tool, id |-> d.id] ELSE Refused
    BY <2>1, Zenon DEF Served
  <2> QED BY <1>2, <2>2
<1>5. Parted(c) <=> ~ Safe(c.id)
  <2>1. Numbers(c) = {c.id}
    BY <1>1, NumbersAre
  <2> QED BY <1>1, <2>1, PartedBy DEF Replaced
<1>6. ~ Hopeless(c)
  BY <1>1 DEF Hopeless
<1> DEFINE q == [op |-> c.tool, id |-> c.id]
<1>7. Effect(q) = q
  BY <1>1, EffectIs
<1>8. q # Refused
  BY <1>1 DEF Refused
<1> QED BY <1>2, <1>3, <1>4, <1>5, <1>6, <1>7, <1>8, RefusedIs DEF Agree

LEMMA BridgesAgree ==
  ASSUME NEW c \in [tool : {"find_bridges"}, depth_a : Optional, depth_b : Optional]
  PROVE  Agree(c)
<1>1. /\ DOMAIN c = {"tool", "depth_a", "depth_b"} /\ c.tool = "find_bridges"
      /\ c.depth_a \in Optional /\ c.depth_b \in Optional
  OBVIOUS
<1> DEFINE d == TrimAll(c)
<1>2. AskedDirectly(c) = Direct(c) /\ AskedViaDaemon(c) = Served(c) /\ d.tool = c.tool /\ d = c
  <2>1. TrimAll(c) = c
    BY <1>1 DEF TrimAll
  <2> QED BY <1>1, <2>1, AskedRouted DEF Routed
<1>3. Direct(c) = AsIs(c)
  <2>1. /\ c.tool # "list_entries" /\ c.tool # "search" /\ c.tool \notin {"show_entry", "delete_entry"}
        /\ c.tool # "add_entry" /\ c.tool # "graph_traverse" /\ c.tool # "diary_read"
    BY <1>1
  <2> QED BY <2>1, Zenon DEF Direct
<1>4. Served(c) = IF SafeOptional(c.depth_a) /\ SafeOptional(c.depth_b) THEN AsIs(c) ELSE Refused
  <2>1. /\ d.tool # "list_entries" /\ d.tool # "search" /\ d.tool \notin {"show_entry", "delete_entry"}
        /\ d.tool # "add_entry" /\ d.tool # "graph_traverse" /\ d.tool = "find_bridges"
    BY <1>1, <1>2
  <2>2. Served(c) = IF SafeOptional(d.depth_a) /\ SafeOptional(d.depth_b) THEN AsIs(d) ELSE Refused
    BY <2>1, Zenon DEF Served
  <2> QED BY <1>2, <2>2
<1>5. Parted(c) <=> ~ (SafeOptional(c.depth_a) /\ SafeOptional(c.depth_b))
  <2>1. Numbers(c) = c.depth_a \cup c.depth_b
    BY <1>1, NumbersAre
  <2>2. Numbers(c) \subseteq Int
    BY <1>1, <2>1, OptionalIs
  <2> QED BY <1>1, <2>1, <2>2, PartedBy DEF Replaced, SafeOptional
<1>6. ~ Hopeless(c)
  BY <1>1 DEF Hopeless
<1>7. Effect(AsIs(c)) = Bridged(AsIs(c))
  BY <1>1, CallAsIs, EffectIs
<1>8. Bridged(AsIs(c)) # Refused
  BY DEF Bridged, Refused
<1> QED BY <1>2, <1>3, <1>4, <1>5, <1>6, <1>7, <1>8, RefusedIs DEF Agree

LEMMA ListAgrees ==
  ASSUME NEW c \in [tool : {"list_entries"}, depth : Optional, tag : Texts, limit : NumberArgs]
  PROVE  Agree(c)
<1>1. /\ DOMAIN c = {"tool", "depth", "tag", "limit"} /\ c.tool = "list_entries"
      /\ c.depth \in Optional /\ c.tag \in Texts /\ c.limit \in Int
  BY ToolNumbers
<1> DEFINE d == TrimAll(c)
           n == DefaultInt(c.limit, 25)
<1>2. /\ AskedDirectly(c) = Direct(c) /\ AskedViaDaemon(c) = Served(c)
      /\ d.tool = c.tool /\ d.depth = c.depth /\ d.tag = Trim(c.tag) /\ d.limit = c.limit
  BY <1>1, AskedRouted, TrimmedCall DEF Routed, TextIsNot
<1>3. Direct(c) = [op |-> "list", depth |-> c.depth, tag |-> c.tag, limit |-> n]
  BY <1>1, Zenon DEF Direct
<1>4. Served(c) = IF SafeOptional(c.depth) /\ Safe(c.limit)
                  THEN [op |-> "list", depth |-> c.depth, tag |-> Trim(c.tag), limit |-> n]
                  ELSE Refused
  <2>1. d.tool = "list_entries"
    BY <1>1, <1>2
  <2>2. Served(c) = IF SafeOptional(d.depth) /\ Safe(d.limit)
                    THEN [op |-> "list", depth |-> d.depth, tag |-> d.tag, limit |-> ServedLimit(d.limit, 25)]
                    ELSE Refused
    BY <2>1, Zenon DEF Served
  <2>3. ServedLimit(c.limit, 25) = n
    BY DEF ServedLimit, DefaultInt
  <2> QED BY <1>2, <2>2, <2>3
<1>5. Parted(c) <=> ~ (SafeOptional(c.depth) /\ Safe(c.limit))
  <2>1. Numbers(c) = c.depth \cup {c.limit}
    BY <1>1, NumbersAre
  <2>2. Numbers(c) \subseteq Int
    BY <1>1, <2>1, OptionalIs
  <2> QED BY <1>1, <2>1, <2>2, PartedBy DEF Replaced, SafeOptional
<1>6. ~ Hopeless(c)
  BY <1>1 DEF Hopeless
<1> DEFINE p == [op |-> "list", depth |-> c.depth, tag |-> c.tag, limit |-> n]
           q == [op |-> "list", depth |-> c.depth, tag |-> Trim(c.tag), limit |-> n]
<1> HIDE DEF n
<1>7. Effect(p) = Listed(p) /\ Effect(q) = Listed(q)
  BY EffectIs
<1>8. Listed(p) = Listed(q) /\ Listed(p) # Refused
  BY DEF Listed, Refused, Trim
<1> QED BY <1>2, <1>3, <1>4, <1>5, <1>6, <1>7, <1>8, RefusedIs DEF Agree

LEMMA TraverseAgrees ==
  ASSUME NEW c \in [tool : {"graph_traverse"}, start_tag : Texts, max_hops : NumberArgs]
  PROVE  Agree(c)
<1>1. /\ DOMAIN c = {"tool", "start_tag", "max_hops"} /\ c.tool = "graph_traverse"
      /\ c.start_tag \in Texts /\ c.max_hops \in Int
  BY ToolNumbers
<1> DEFINE d == TrimAll(c)
           p == [op |-> "traverse", start |-> c.start_tag, hops |-> DefaultInt(c.max_hops, 0)]
           q == [op |-> "traverse", start |-> Trim(c.start_tag), hops |-> IntValue(c.max_hops, 0)]
<1>2. /\ AskedDirectly(c) = Direct(c) /\ AskedViaDaemon(c) = Served(c)
      /\ d.tool = c.tool /\ d.start_tag = Trim(c.start_tag) /\ d.max_hops = c.max_hops
  BY <1>1, AskedRouted, TrimmedCall DEF Routed, TextIsNot
<1>3. Direct(c) = p
  <2>1. /\ c.tool # "list_entries" /\ c.tool # "search" /\ c.tool \notin {"show_entry", "delete_entry"}
        /\ c.tool # "add_entry" /\ c.tool = "graph_traverse"
    BY <1>1
  <2> QED BY <2>1, Zenon DEF Direct
<1>4. Served(c) = q
  <2>1. /\ d.tool # "list_entries" /\ d.tool # "search" /\ d.tool \notin {"show_entry", "delete_entry"}
        /\ d.tool # "add_entry" /\ d.tool = "graph_traverse"
    BY <1>1, <1>2
  <2>2. Served(c) = [op |-> "traverse", start |-> d.start_tag, hops |-> IntValue(d.max_hops, 0)]
    BY <2>1, Zenon DEF Served
  <2> QED BY <1>2, <2>2
<1>5. Parted(c) <=> c.max_hops > MaxSafe
  <2>1. Numbers(c) = {c.max_hops}
    BY <1>1, NumbersAre
  <2> QED BY <1>1, <2>1 DEF Parted, Replaced
<1>6. ~ Hopeless(c)
  BY <1>1 DEF Hopeless
<1>7. Effect(p) = Traversed(p) /\ Effect(q) = Traversed(q)
  BY EffectIs
<1> DEFINE u == IF DefaultInt(c.max_hops, 0) <= 0 THEN 2 ELSE DefaultInt(c.max_hops, 0)
           v == IF IntValue(c.max_hops, 0) <= 0 THEN 2 ELSE IntValue(c.max_hops, 0)
<1>8. u = v <=> ~ (c.max_hops > MaxSafe)
  BY <1>1, SafeIs, ToolNumbers DEF DefaultInt, IntValue
<1>9. /\ Traversed(p) = [op |-> "traverse", start |-> c.start_tag.core, hops |-> u]
      /\ Traversed(q) = [op |-> "traverse", start |-> c.start_tag.core, hops |-> v]
  BY DEF Traversed, Trim
<1> HIDE DEF u, v
<1>10. Traversed(p) = Traversed(q) <=> u = v
  BY <1>9
<1> QED BY <1>2, <1>3, <1>4, <1>5, <1>6, <1>7, <1>8, <1>10 DEF Agree

LEMMA DiaryReadAgrees ==
  ASSUME NEW c \in [tool : {"diary_read"}, agent_name : Texts, last_n : NumberArgs]
  PROVE  Agree(c)
<1>1. /\ DOMAIN c = {"tool", "agent_name", "last_n"} /\ c.tool = "diary_read"
      /\ c.agent_name \in Texts /\ c.last_n \in Int
  BY ToolNumbers
<1> DEFINE d == TrimAll(c)
           p == [op |-> "read", agent |-> c.agent_name, last |-> DefaultInt(c.last_n, 10)]
           q == [op |-> "read", agent |-> Trim(c.agent_name), last |-> IntValue(c.last_n, 10)]
<1>2. /\ AskedDirectly(c) = Direct(c) /\ AskedViaDaemon(c) = Served(c)
      /\ d.tool = c.tool /\ d.agent_name = Trim(c.agent_name) /\ d.last_n = c.last_n
  BY <1>1, AskedRouted, TrimmedCall DEF Routed, TextIsNot
<1>3. Direct(c) = p
  <2>1. /\ c.tool # "list_entries" /\ c.tool # "search" /\ c.tool \notin {"show_entry", "delete_entry"}
        /\ c.tool # "add_entry" /\ c.tool # "graph_traverse" /\ c.tool = "diary_read"
    BY <1>1
  <2> QED BY <2>1, Zenon DEF Direct
<1>4. Served(c) = q
  <2>1. /\ d.tool # "list_entries" /\ d.tool # "search" /\ d.tool \notin {"show_entry", "delete_entry"}
        /\ d.tool # "add_entry" /\ d.tool # "graph_traverse" /\ d.tool # "find_bridges"
        /\ d.tool = "diary_read"
    BY <1>1, <1>2
  <2>2. Served(c) = [op |-> "read", agent |-> d.agent_name, last |-> IntValue(d.last_n, 10)]
    BY <2>1, Zenon DEF Served
  <2> QED BY <1>2, <2>2
<1> DEFINE apart == c.last_n > MaxSafe \/ (c.last_n <= 0 /\ Safe(c.last_n))
<1>5. Parted(c) <=> apart
  <2>1. Numbers(c) = {c.last_n}
    BY <1>1, NumbersAre
  <2> QED BY <1>1, <2>1 DEF Parted, Replaced
<1>6. ~ Hopeless(c)
  BY <1>1 DEF Hopeless
<1>7. Effect(p) = Read(p) /\ Effect(q) = Read(q)
  BY EffectIs
<1> DEFINE m == DefaultInt(c.last_n, 10)
           n == IntValue(c.last_n, 10)
           u == IF m > 0 THEN {m} ELSE {}
           v == IF n > 0 THEN {n} ELSE {}
<1>8. u = v <=> ~ apart
  <2>1. m = (IF c.last_n > 0 THEN c.last_n ELSE 10) /\ n = (IF Safe(c.last_n) THEN c.last_n ELSE 10)
    BY DEF DefaultInt, IntValue
  <2>2. Safe(c.last_n) <=> -MaxSafe <= c.last_n /\ c.last_n <= MaxSafe
    BY <1>1, SafeIs
  <2>3. MaxSafe \in Int /\ MaxSafe >= 10 /\ c.last_n \in Int
    BY <1>1, ToolNumbers
  <2>4. u = v <=> (m > 0 <=> n > 0) /\ (m > 0 => m = n)
    OBVIOUS
  <2> HIDE DEF m, n, u, v
  <2> QED BY <2>1, <2>2, <2>3, <2>4
<1>9. /\ Read(p) = [op |-> "read", agent |-> c.agent_name.core, last |-> u]
      /\ Read(q) = [op |-> "read", agent |-> c.agent_name.core, last |-> v]
  BY DEF Read, Trim
<1> HIDE DEF u, v
<1>10. Read(p) = Read(q) <=> u = v
  BY <1>9
<1> QED BY <1>2, <1>3, <1>4, <1>5, <1>6, <1>7, <1>8, <1>10 DEF Agree

\* A limit that counts, and a depth that a negative one is not.
LEMMA SizesAre ==
  ASSUME NEW m \in Int
  PROVE  /\ m >= 0 => (Safe(m) <=> ~ (m > MaxSafe))
         /\ ~ (m >= 0) => ~ (m > MaxSafe)
         /\ Safe(m) /\ ~ (m <= 0) <=> ~ (m > MaxSafe \/ m <= 0)
         /\ ServedLimit(m, 5) = m <=> ~ (m <= 0)
<1>1. MaxSafe \in Int /\ MaxSafe >= 10
  BY ToolNumbers
<1>2. Safe(m) <=> -MaxSafe <= m /\ m <= MaxSafe
  BY SafeIs
<1>3. m >= 0 => (Safe(m) <=> ~ (m > MaxSafe))
  BY <1>1, <1>2
<1>4. ~ (m >= 0) => ~ (m > MaxSafe)
  BY <1>1
<1>5. Safe(m) /\ ~ (m <= 0) <=> ~ (m > MaxSafe \/ m <= 0)
  BY <1>1, <1>2
<1>6. ServedLimit(m, 5) = m <=> ~ (m <= 0)
  BY DEF ServedLimit
<1> QED BY <1>3, <1>4, <1>5, <1>6, Zenon

\* A tag that is nothing but space, and one left out.
LEMMA BlankIs ==
  ASSUME NEW t \in Texts
  PROVE  /\ t = [core |-> "", pad |-> TRUE] <=> t.core = "" /\ t.pad = TRUE
         /\ t = Omitted <=> t.core = "" /\ t.pad = FALSE
         /\ t.pad = TRUE <=> t.pad # FALSE
<1>1. t = [core |-> t.core, pad |-> t.pad] /\ t.pad \in {TRUE, FALSE}
  BY DEF Texts
<1>2. \A x, y : t = [core |-> x, pad |-> y] <=> t.core = x /\ t.pad = y
  <2> TAKE x, y
  <2> DEFINE u == [core |-> x, pad |-> y]
  <2>1. u.core = x /\ u.pad = y
    OBVIOUS
  <2>2. ASSUME t = u PROVE t.core = x /\ t.pad = y
    BY <2>1, <2>2, Zenon
  <2>3. ASSUME t.core = x, t.pad = y PROVE t = u
    BY <1>1, <2>3, Zenon
  <2> QED BY <2>2, <2>3, Zenon
<1>3. t = [core |-> "", pad |-> TRUE] <=> t.core = "" /\ t.pad = TRUE
  BY <1>2, Zenon
<1>4. t = Omitted <=> t.core = "" /\ t.pad = FALSE
  BY <1>2, Zenon DEF Omitted
<1>5. t.pad = TRUE <=> t.pad # FALSE
  BY <1>1
<1> QED BY <1>3, <1>4, <1>5, Zenon

\* What the daemon makes of a search.
LEMMA ServedSearch ==
  ASSUME NEW c, DOMAIN c = {"tool", "query", "depth", "tag", "limit"}, c.tool = "search",
         c.query \in Texts, c.tag \in Texts
  PROVE  Served(c) = IF SafeOptional(c.depth) /\ Safe(c.limit) /\ c.query.core # ""
                     THEN [op |-> "search", text |-> Trim(c.query), depth |-> c.depth,
                           tag |-> Trim(c.tag), limit |-> ServedLimit(c.limit, 5)]
                     ELSE Refused
<1> DEFINE d == TrimAll(c)
<1>1. /\ d.tool = c.tool /\ d.depth = c.depth /\ d.tag = Trim(c.tag) /\ d.limit = c.limit
      /\ d.query = Trim(c.query)
  BY TrimmedCall DEF TextIsNot
<1>2. d.tool # "list_entries" /\ d.tool = "search"
  BY <1>1
<1>3. Served(c) = IF SafeOptional(d.depth) /\ Safe(d.limit) /\ d.query # Omitted
                  THEN [op |-> "search", text |-> d.query, depth |-> d.depth, tag |-> d.tag,
                        limit |-> ServedLimit(d.limit, 5)]
                  ELSE Refused
  BY <1>2, Zenon DEF Served
<1>4. Trim(c.query) # Omitted <=> c.query.core # ""
  BY TrimIs
<1> QED BY <1>1, <1>3, <1>4

LEMMA SearchAgrees ==
  ASSUME NEW c \in [tool : {"search"}, query : Texts, depth : Optional, tag : Texts,
                    limit : NumberArgs]
  PROVE  Agree(c)
<1>1. /\ DOMAIN c = {"tool", "query", "depth", "tag", "limit"} /\ c.tool = "search"
      /\ c.query \in Texts /\ c.depth \in Optional /\ c.tag \in Texts /\ c.limit \in Int
  BY ToolNumbers
<1> DEFINE n == DefaultInt(c.limit, 5)
           p == [op |-> "search", text |-> c.query, depth |-> c.depth, tag |-> c.tag, limit |-> n]
           q == [op |-> "search", text |-> Trim(c.query), depth |-> c.depth, tag |-> Trim(c.tag),
                 limit |-> n]
           served == SafeOptional(c.depth) /\ Safe(c.limit) /\ c.query.core # ""
           blank == c.tag = [core |-> "", pad |-> TRUE]
<1>2. AskedDirectly(c) = Direct(c) /\ AskedViaDaemon(c) = Served(c)
  BY <1>1, AskedRouted DEF Routed
<1>3. Direct(c) = p
  <2>1. c.tool # "list_entries"
    BY <1>1
  <2> QED BY <1>1, <2>1, Zenon DEF Direct
<1>4. Served(c) = IF served THEN q ELSE Refused
  <2>1. ServedLimit(c.limit, 5) = n
    BY DEF ServedLimit, DefaultInt
  <2> QED BY <1>1, <2>1, ServedSearch
<1>5. Parted(c) <=> ~ served \/ blank
  <2>1. Numbers(c) = c.depth \cup {c.limit}
    BY <1>1, NumbersAre
  <2>2. Numbers(c) \subseteq Int
    BY <1>1, <2>1, OptionalIs
  <2> QED BY <1>1, <2>1, <2>2, PartedBy DEF Replaced, SafeOptional
<1>6. ~ Hopeless(c)
  BY <1>1 DEF Hopeless
<1> HIDE DEF n
<1>7. Effect(p) = Found(p) /\ Effect(q) = Found(q)
  BY EffectIs
<1>8. Found(p) # Refused
  BY DEF Found, Listed, Refused
<1> DEFINE u == IF c.tag = Omitted THEN {} ELSE {c.tag.core}
           v == IF Trim(c.tag) = Omitted THEN {} ELSE {c.tag.core}
<1>9. ASSUME c.query.core # "" PROVE Found(p) = Found(q) <=> ~ blank
  <2>1. /\ Found(p) = [op |-> "search", text |-> c.query.core, depth |-> c.depth, limit |-> n, tag |-> u]
        /\ Found(q) = [op |-> "search", text |-> c.query.core, depth |-> c.depth, limit |-> n, tag |-> v]
    BY <1>9 DEF Found, Trim
  <2>2. u = v <=> ~ blank
    <3>1. /\ blank <=> c.tag.core = "" /\ c.tag.pad = TRUE
          /\ c.tag = Omitted <=> c.tag.core = "" /\ c.tag.pad = FALSE
          /\ c.tag.pad = TRUE <=> c.tag.pad # FALSE
      BY <1>1, BlankIs, Zenon
    <3>4. Trim(c.tag) = Omitted <=> c.tag.core = ""
      BY <1>1, TrimIs
    <3>6. u # v <=> c.tag.core = "" /\ c.tag.pad = TRUE
      BY <3>1, <3>4
    <3> QED BY <3>1, <3>6, Zenon
  <2> HIDE DEF u, v, blank
  <2> QED BY <2>1, <2>2
<1> HIDE DEF p, q, served, blank
<1>10. served => c.query.core # ""
  BY DEF served
<1> QED BY <1>2, <1>3, <1>4, <1>5, <1>6, <1>7, <1>8, <1>9, <1>10, RefusedIs DEF Agree

LEMMA CliSearchAgrees ==
  ASSUME NEW c \in [tool : {"cli search"}, query : Texts, depth : Given, limit : NumberArgs]
  PROVE  Agree(c)
<1>1. /\ DOMAIN c = {"tool", "query", "depth", "limit"} /\ c.tool = "cli search"
      /\ c.query \in Texts /\ c.depth \in Given /\ c.limit \in Int
  BY ToolNumbers
<1>2. PICK m \in Int : c.depth = {m}
  BY <1>1, ToolNumbers DEF Given
<1> DEFINE depth == DepthFilter(c)
           s == [tool |-> "search", query |-> c.query, depth |-> depth, tag |-> Omitted,
                 limit |-> c.limit]
           p == [op |-> "search", text |-> c.query, depth |-> depth, tag |-> Omitted,
                 limit |-> c.limit]
           n == ServedLimit(c.limit, 5)
           q == [op |-> "search", text |-> Trim(c.query), depth |-> depth, tag |-> Trim(Omitted),
                 limit |-> n]
           served == SafeOptional(depth) /\ Safe(c.limit)
<1>3. AskedDirectly(c) = QuerySearch(c) /\ AskedViaDaemon(c) = SearchViaDaemon(c)
  <2>1. c.tool # "cli add"
    BY <1>1
  <2> QED BY <1>1, <2>1, Zenon DEF AskedDirectly, AskedViaDaemon
<1>4. Hopeless(c) <=> c.query.core = ""
  BY <1>1 DEF Hopeless, Usage
<1>5. CASE c.query.core = ""
  <2>1. AskedDirectly(c) = Refused /\ AskedViaDaemon(c) = Refused
    BY <1>3, <1>5 DEF QuerySearch, SearchViaDaemon, Usage
  <2> QED BY <1>4, <1>5, <2>1 DEF Agree
<1>6. CASE c.query.core # ""
  <2>1. QuerySearch(c) = p /\ SearchViaDaemon(c) = Served(s)
    BY <1>6 DEF QuerySearch, SearchViaDaemon, Usage
  <2>2. Served(s) = IF served THEN q ELSE Refused
    <3>1. /\ DOMAIN s = {"tool", "query", "depth", "tag", "limit"} /\ s.tool = "search"
          /\ s.query \in Texts /\ s.tag \in Texts
      BY <1>1 DEF Omitted, Texts
    <3>2. s.query = c.query /\ s.depth = depth /\ s.tag = Omitted /\ s.limit = c.limit
      OBVIOUS
    <3> HIDE DEF s, depth
    <3> QED BY <1>6, <3>1, <3>2, ServedSearch
  <2>3. Parted(c) <=> ~ served \/ c.limit <= 0
    <3>1. \A k : k \in Numbers(c) <=> k = m \/ k = c.limit
      BY <1>1, <1>2, NumbersAre
    <3>2. Parted(c) <=> m > MaxSafe \/ c.limit > MaxSafe \/ c.limit <= 0
      BY <1>1, <3>1 DEF Parted, Replaced
    <3>3. depth = IF m >= 0 THEN {m} ELSE {}
      BY <1>2 DEF DepthFilter
    <3>4. SafeOptional(depth) <=> ~ (m > MaxSafe)
      <4>3. CASE m >= 0
        <5>1. depth = {m}
          BY <3>3, <4>3
        <5>2. SafeOptional(depth) <=> Safe(m)
          BY <5>1 DEF SafeOptional
        <5> QED BY <1>2, <4>3, <5>2, SizesAre, Zenon
      <4>4. CASE ~ (m >= 0)
        <5>1. depth = {}
          BY <3>3, <4>4
        <5>2. SafeOptional(depth)
          BY <5>1 DEF SafeOptional
        <5> QED BY <1>2, <4>4, <5>2, SizesAre, Zenon
      <4> QED BY <4>3, <4>4
    <3>5. Safe(c.limit) /\ ~ (c.limit <= 0) <=> ~ (c.limit > MaxSafe \/ c.limit <= 0)
      BY <1>1, SizesAre, Zenon
    <3> QED BY <3>2, <3>4, <3>5, Zenon
  <2>4. Effect(p) = Found(p) /\ Effect(q) = Found(q)
    BY EffectIs
  <2>5. /\ Found(p) = [op |-> "search", text |-> c.query.core, depth |-> depth, limit |-> c.limit, tag |-> {}]
        /\ Found(q) = [op |-> "search", text |-> c.query.core, depth |-> depth, limit |-> n, tag |-> {}]
    <3>1. Trim(Omitted) = Omitted /\ Trim(c.query).core = c.query.core
      BY DEF Trim, Omitted
    <3> QED BY <1>6, <3>1 DEF Found
  <2>6. n = c.limit <=> ~ (c.limit <= 0)
    BY <1>1, SizesAre, Zenon
  <2> DEFINE f == [op |-> "search", text |-> c.query.core, depth |-> depth, limit |-> c.limit, tag |-> {}]
             g == [op |-> "search", text |-> c.query.core, depth |-> depth, limit |-> n, tag |-> {}]
  <2> HIDE DEF n, depth
  <2>7. f.op = "search" /\ f.limit = c.limit /\ g.limit = n /\ Refused.op = "refused"
    BY DEF Refused
  <2>8. f = g <=> n = c.limit
    BY <2>7
  <2>9. f # Refused
    BY <2>7
  <2>10. Found(p) = f /\ Found(q) = g
    BY <2>5
  <2> HIDE DEF f, g, p, q, s, served
  <2> QED BY <1>3, <1>4, <1>6, <2>1, <2>2, <2>3, <2>4, <2>6, <2>8, <2>9, <2>10,
             RefusedIs DEF Agree
<1> QED BY <1>5, <1>6

\* The numbers a new entry's depth is made of.
LEMMA PositiveIs ==
  ASSUME NEW d \in Optional
  PROVE  /\ Positive(d, 1) \in Int /\ Positive(d, 1) > 0
         /\ \A m \in Int : d = {m} => Positive(d, 1) = IF m > 0 THEN m ELSE 1
<1>1. ASSUME d = {} PROVE Positive(d, 1) \in Int /\ Positive(d, 1) > 0
  <2>1. Positive(d, 1) = 1
    BY <1>1 DEF Positive
  <2> QED BY <1>1, <2>1
<1>2. ASSUME NEW m \in Int, d = {m} PROVE Positive(d, 1) = IF m > 0 THEN m ELSE 1
  <2>1. (\E n \in d : n > 0) <=> m > 0
    BY <1>2
  <2>2. (CHOOSE n \in d : TRUE) = m
    BY <1>2
  <2> QED BY <2>1, <2>2 DEF Positive
<1>3. ASSUME NEW m \in Int, d = {m} PROVE Positive(d, 1) \in Int /\ Positive(d, 1) > 0
  BY <1>2, <1>3
<1>4. d = {} \/ \E m \in Int : d = {m}
  BY OptionalIs
<1>5. Positive(d, 1) \in Int /\ Positive(d, 1) > 0
  BY <1>1, <1>3, <1>4, Zenon
<1> QED BY <1>2, <1>5, Zenon

\* The daemon's tags: the same names, and none where all are blank.
LEMMA TrimmedTags ==
  ASSUME NEW T \in SUBSET Texts
  PROVE  /\ NormalizeTags(TrimTags(T)) = NormalizeTags(T)
         /\ TrimTags(T) = {} <=> NormalizeTags(T) = {}
<1>1. \A t \in T : Trim(t).core = t.core /\ (Trim(t) = Omitted <=> t.core = "")
  BY TrimIs DEF Trim
<1>2. \A x : x \in NormalizeTags(T) <=> x # "" /\ \E t \in T : t.core = x
  BY DEF NormalizeTags
<1>3. \A u : u \in TrimTags(T) <=> \E t \in T : u = Trim(t) /\ t.core # ""
  BY <1>1 DEF TrimTags
<1>4. \A x : x \in NormalizeTags(TrimTags(T)) <=> x # "" /\ \E u \in TrimTags(T) : u.core = x
  BY DEF NormalizeTags
<1>5. \A x : x \in NormalizeTags(TrimTags(T)) <=> x \in NormalizeTags(T)
  <2>1. ASSUME NEW x \in NormalizeTags(TrimTags(T)) PROVE x \in NormalizeTags(T)
    <3>1. PICK u \in TrimTags(T) : u.core = x /\ x # ""
      BY <1>4
    <3>2. PICK t \in T : u = Trim(t)
      BY <1>3
    <3> QED BY <1>1, <1>2, <3>1, <3>2
  <2>2. ASSUME NEW x \in NormalizeTags(T) PROVE x \in NormalizeTags(TrimTags(T))
    <3>1. PICK t \in T : t.core = x /\ x # ""
      BY <1>2
    <3>2. Trim(t) \in TrimTags(T) /\ Trim(t).core = x
      BY <1>1, <1>3, <3>1
    <3> QED BY <1>4, <3>1, <3>2
  <2> QED BY <2>1, <2>2
<1>6. NormalizeTags(TrimTags(T)) = NormalizeTags(T)
  BY <1>5
<1>7. TrimTags(T) = {} <=> NormalizeTags(T) = {}
  BY <1>2, <1>3
<1> QED BY <1>6, <1>7

\* A depth of the command, as the store and as the daemon take it.
LEMMA DepthsAre ==
  ASSUME NEW m \in Int
  PROVE  /\ Safe(m) => ~ (m > MaxSafe) /\ m >= -MaxSafe
         /\ ~ Safe(m) /\ ~ (m < 0) => m > MaxSafe
         /\ ~ Safe(m) /\ m < 0 => ~ (m > MaxSafe) /\ ~ (m >= -MaxSafe)
         /\ m < 0 => m <= 0
         /\ m = (IF m > 0 THEN m ELSE 1) <=> ~ (m <= 0)
         /\ m >= 0 <=> ~ (m < 0)
         /\ m > 0 => m >= 0
<1>1. MaxSafe \in Int /\ MaxSafe >= 10
  BY ToolNumbers
<1>2. Safe(m) <=> -MaxSafe <= m /\ m <= MaxSafe
  BY SafeIs
<1> QED BY <1>1, <1>2

\* Two calls with the same texts, but for the space around them, and a title and a text.
SameTexts(c, e) ==
  /\ c.tags \in SUBSET Texts /\ c.title.core # "" /\ c.body.core # ""
  /\ e.title.core = c.title.core /\ e.body.core = c.body.core
  /\ e.source.core = c.source.core /\ e.origin.core = c.origin.core

\* The same entry, its texts trimmed: what differs is the depth, or what tags it.
LEMMA EntriesAgree ==
  ASSUME NEW c, NEW e, NEW x \in Int, NEW y \in Int, x >= 0, y >= 0, SameTexts(c, e)
  PROVE  /\ Effect(Add(c, x, c.tags)) # Refused
         /\ Effect(Add(e, y, TrimTags(c.tags))) # Refused
         /\ Effect(Add(c, x, c.tags)) = Effect(Add(e, y, TrimTags(c.tags)))
              <=> x = y /\ ~ OnlyBlankTags(c)
<1> USE DEF SameTexts
<1> DEFINE p == Add(c, x, c.tags)
           q == Add(e, y, TrimTags(c.tags))
           names == NormalizeTags(c.tags)
           text == IF c.source.core = "" THEN c.body.core ELSE c.source.core
           tagger == <<IF c.origin.core = "" THEN c.title.core ELSE c.origin.core, text>>
           F(depth, tags) == [op |-> "add", depth |-> depth, title |-> c.title.core,
                              body |-> c.body.core, source |-> text, origin |-> c.origin.core,
                              tags |-> tags]
           u == IF c.tags # {} THEN [given |-> names] ELSE [of |-> tagger]
           v == IF TrimTags(c.tags) # {} THEN [given |-> names] ELSE [of |-> tagger]
<1>1. /\ p.op = "add" /\ p.depth = x /\ p.title = c.title /\ p.body = c.body /\ p.tags = c.tags
      /\ p.source = c.source /\ p.origin = c.origin
  BY DEF Add
<1>2. /\ q.op = "add" /\ q.depth = y /\ q.title = e.title /\ q.body = e.body
      /\ q.tags = TrimTags(c.tags) /\ q.source = e.source /\ q.origin = e.origin
  BY DEF Add
<1> HIDE DEF p, q
<1>3. Effect(p) = Added(p) /\ Effect(q) = Added(q)
  BY <1>1, <1>2, EffectIs
<1>4. SourceText(p) = text /\ SourceText(q) = text
  BY <1>1, <1>2 DEF SourceText
<1>5. TagsForEntry(p) = u
  BY <1>1, <1>4 DEF TagsForEntry
<1>6. TagsForEntry(q) = v
  <2>1. NormalizeTags(q.tags) = names
    BY <1>2, TrimmedTags
  <2> QED BY <1>2, <1>4, <2>1 DEF TagsForEntry
<1>7. u = v <=> ~ OnlyBlankTags(c)
  <2>1. TrimTags(c.tags) = {} <=> names = {}
    BY TrimmedTags
  <2>2. c.tags = {} => names = {}
    BY DEF NormalizeTags
  <2>3. [given |-> names] # [of |-> tagger]
    <3>1. DOMAIN [given |-> names] = {"given"} /\ DOMAIN [of |-> tagger] = {"of"}
      OBVIOUS
    <3> HIDE DEF names, tagger
    <3> QED BY <3>1
  <2>4. OnlyBlankTags(c) <=> c.tags # {} /\ names = {}
    BY DEF OnlyBlankTags
  <2> HIDE DEF names, tagger
  <2> QED BY <2>1, <2>2, <2>3, <2>4, Zenon
<1> HIDE DEF text, tagger, names, u, v
<1>8. Added(p) = F(x, u) /\ Added(q) = F(y, v)
  <2>1. ~ (p.depth < 0 \/ p.title.core = "" \/ p.body.core = "")
    BY <1>1, DepthsAre, Zenon
  <2>2. ~ (q.depth < 0 \/ q.title.core = "" \/ q.body.core = "")
    BY <1>2, DepthsAre, Zenon
  <2>3. Added(p) = [op |-> "add", depth |-> p.depth, title |-> p.title.core, body |-> p.body.core,
                    source |-> SourceText(p), origin |-> p.origin.core, tags |-> TagsForEntry(p)]
    BY <2>1, Zenon DEF Added
  <2>4. Added(q) = [op |-> "add", depth |-> q.depth, title |-> q.title.core, body |-> q.body.core,
                    source |-> SourceText(q), origin |-> q.origin.core, tags |-> TagsForEntry(q)]
    BY <2>2, Zenon DEF Added
  <2>5. Added(p) = F(x, u)
    BY <1>1, <1>4, <1>5, <2>3
  <2>6. Added(q) = F(y, v)
    BY <1>2, <1>4, <1>6, <2>4
  <2> QED BY <2>5, <2>6
<1>9. /\ F(x, u).op = "add" /\ F(x, u).depth = x /\ F(x, u).tags = u
      /\ F(y, v).op = "add" /\ F(y, v).depth = y /\ F(y, v).tags = v
  OBVIOUS
<1>10. F(x, u) = F(y, v) <=> x = y /\ u = v
  BY <1>9
<1>11. F(x, u) # Refused /\ F(y, v) # Refused
  BY <1>9, RefusedIs
<1> HIDE DEF F
<1>12. /\ Effect(p) # Refused /\ Effect(q) # Refused
       /\ Effect(p) = Effect(q) <=> x = y /\ ~ OnlyBlankTags(c)
  BY <1>3, <1>7, <1>8, <1>10, <1>11, Zenon
<1> QED BY <1>12 DEF p, q

\* What the daemon makes of a new entry.
LEMMA ServedAdd ==
  ASSUME NEW c, DOMAIN c = {"tool", "depth", "title", "body", "tags", "source", "origin"},
         c.tool = "add_entry", c.title \in Texts, c.body \in Texts
  PROVE  /\ Served(c) = IF SafeOptional(c.depth) /\ c.title.core # "" /\ c.body.core # ""
                        THEN Add(TrimAll(c), Positive(c.depth, 1), TrimTags(c.tags))
                        ELSE Refused
         /\ TrimAll(c).title.core = c.title.core /\ TrimAll(c).body.core = c.body.core
         /\ TrimAll(c).source.core = c.source.core /\ TrimAll(c).origin.core = c.origin.core
<1> DEFINE d == TrimAll(c)
<1>1. /\ d.tool = c.tool /\ d.depth = c.depth /\ d.title = Trim(c.title) /\ d.body = Trim(c.body)
      /\ d.tags = c.tags /\ d.source = Trim(c.source) /\ d.origin = Trim(c.origin)
  BY TrimmedCall DEF TextIsNot
<1>2. /\ d.tool # "list_entries" /\ d.tool # "search" /\ d.tool \notin {"show_entry", "delete_entry"}
      /\ d.tool = "add_entry"
  BY <1>1
<1>3. Served(c) = IF SafeOptional(d.depth) /\ d.title # Omitted /\ d.body # Omitted
                  THEN Add(d, Positive(d.depth, 1), TrimTags(d.tags)) ELSE Refused
  BY <1>2, Zenon DEF Served
<1>4. /\ Trim(c.title) # Omitted <=> c.title.core # ""
      /\ Trim(c.body) # Omitted <=> c.body.core # ""
  BY TrimIs
<1>5. /\ d.title.core = c.title.core /\ d.body.core = c.body.core
      /\ d.source.core = c.source.core /\ d.origin.core = c.origin.core
  BY <1>1 DEF Trim
<1>6. Served(c) = IF SafeOptional(c.depth) /\ c.title.core # "" /\ c.body.core # ""
                  THEN Add(d, Positive(c.depth, 1), TrimTags(c.tags)) ELSE Refused
  BY <1>1, <1>3, <1>4
<1> QED BY <1>5, <1>6

\* The store refuses an entry without a title or a text.
LEMMA Untitled ==
  ASSUME NEW c, NEW x, NEW T, c.title.core = "" \/ c.body.core = "" \/ x < 0
  PROVE  Effect(Add(c, x, T)) = Refused
<1> DEFINE p == Add(c, x, T)
<1>1. p.op = "add" /\ p.title = c.title /\ p.body = c.body /\ p.depth = x
  BY DEF Add
<1> HIDE DEF p
<1>2. Effect(p) = Added(p)
  BY <1>1, EffectIs
<1>3. p.depth < 0 \/ p.title.core = "" \/ p.body.core = ""
  BY <1>1
<1>4. Added(p) = Refused
  BY <1>3, Zenon DEF Added
<1> QED BY <1>2, <1>4 DEF p

LEMMA AddAgrees ==
  ASSUME NEW c \in [tool : {"add_entry"}, depth : Optional, title : Texts, body : Texts,
                    tags : SUBSET Texts, source : Sources, origin : Texts]
  PROVE  Agree(c)
<1>1. /\ DOMAIN c = {"tool", "depth", "title", "body", "tags", "source", "origin"}
      /\ c.tool = "add_entry" /\ c.depth \in Optional /\ c.title \in Texts /\ c.body \in Texts
      /\ c.tags \in SUBSET Texts
  OBVIOUS
<1> DEFINE x == Positive(c.depth, 1)
           e == TrimAll(c)
           p == Add(c, x, c.tags)
           q == Add(e, x, TrimTags(c.tags))
           served == SafeOptional(c.depth)
           said == c.title.core # "" /\ c.body.core # ""
<1>2. AskedDirectly(c) = Direct(c) /\ AskedViaDaemon(c) = Served(c)
  BY <1>1, AskedRouted DEF Routed
<1>3. Direct(c) = p
  <2>1. c.tool # "list_entries" /\ c.tool # "search" /\ c.tool \notin {"show_entry", "delete_entry"}
    BY <1>1
  <2> QED BY <1>1, <2>1, Zenon DEF Direct
<1>4. /\ Served(c) = IF served /\ said THEN q ELSE Refused
      /\ e.title.core = c.title.core /\ e.body.core = c.body.core
      /\ e.source.core = c.source.core /\ e.origin.core = c.origin.core
  BY <1>1, ServedAdd
<1>5. Hopeless(c) <=> ~ said
  BY <1>1 DEF Hopeless
<1>6. Parted(c) <=> ~ served \/ OnlyBlankTags(c)
  <2>1. Numbers(c) = c.depth
    BY <1>1, NumbersAre
  <2>2. Numbers(c) \subseteq Int
    BY <1>1, <2>1, OptionalIs
  <2> QED BY <1>1, <2>1, <2>2, PartedBy DEF Replaced, SafeOptional
<1>7. x \in Int /\ x >= 0
  BY <1>1, PositiveIs
<1>8. ASSUME ~ said PROVE Effect(p) = Refused
  BY <1>8, Untitled
<1>9. ASSUME said PROVE Effect(p) # Refused /\ (Effect(p) = Effect(q) <=> ~ OnlyBlankTags(c))
  <2>1. SameTexts(c, e)
    BY <1>1, <1>4, <1>9 DEF SameTexts
  <2> HIDE DEF x, e
  <2>2. /\ Effect(Add(c, x, c.tags)) # Refused
        /\ Effect(Add(c, x, c.tags)) = Effect(Add(e, x, TrimTags(c.tags)))
             <=> x = x /\ ~ OnlyBlankTags(c)
    BY <1>7, <2>1, EntriesAgree, Zenon
  <2> QED BY <2>2, Zenon
<1> HIDE DEF p, q, x, e, served, said
<1>10. CASE ~ said
  BY <1>2, <1>3, <1>4, <1>5, <1>8, <1>10, RefusedIs DEF Agree
<1>11. CASE said /\ ~ served
  BY <1>2, <1>3, <1>4, <1>5, <1>6, <1>9, <1>11, RefusedIs DEF Agree
<1>12. CASE said /\ served
  BY <1>2, <1>3, <1>4, <1>5, <1>6, <1>9, <1>12 DEF Agree
<1> QED BY <1>10, <1>11, <1>12

LEMMA CliAddAgrees ==
  ASSUME NEW c \in [tool : {"cli add"}, depth : Given, title : Texts, body : Texts,
                    tags : SUBSET Texts, source : Sources, origin : Texts]
  PROVE  Agree(c)
<1>1. /\ DOMAIN c = {"tool", "depth", "title", "body", "tags", "source", "origin"}
      /\ c.tool = "cli add" /\ c.depth \in Given /\ c.depth \in Optional
      /\ c.title \in Texts /\ c.body \in Texts /\ c.tags \in SUBSET Texts
  BY DEF Optional
<1>2. PICK m \in Int : c.depth = {m}
  BY <1>1, ToolNumbers DEF Given
<1> DEFINE a == [c EXCEPT !.tool = "add_entry"]
           y == Positive(c.depth, 1)
           e == TrimAll(a)
           p == Add(c, m, c.tags)
           q == Add(e, y, TrimTags(c.tags))
           served == Safe(m)
           said == c.title.core # "" /\ c.body.core # ""
<1>3. AskedDirectly(c) = RunAdd(c) /\ AskedViaDaemon(c) = Served(a)
  BY <1>1, Zenon DEF AskedDirectly, AskedViaDaemon, AddViaDaemon
<1>4. RunAdd(c) = p
  <2>1. (CHOOSE n \in c.depth : TRUE) = m
    BY <1>2
  <2> QED BY <2>1 DEF RunAdd
<1>5. /\ DOMAIN a = DOMAIN c /\ a.tool = "add_entry" /\ a.depth = c.depth /\ a.title = c.title
      /\ a.body = c.body /\ a.tags = c.tags /\ a.source = c.source /\ a.origin = c.origin
  BY <1>1
<1> HIDE DEF a
<1>6. /\ Served(a) = IF served /\ said THEN q ELSE Refused
      /\ e.title.core = c.title.core /\ e.body.core = c.body.core
      /\ e.source.core = c.source.core /\ e.origin.core = c.origin.core
  <2>1. SafeOptional(a.depth) <=> Safe(m)
    BY <1>2, <1>5 DEF SafeOptional
  <2>2. /\ Served(a) = IF SafeOptional(a.depth) /\ a.title.core # "" /\ a.body.core # ""
                       THEN Add(e, Positive(a.depth, 1), TrimTags(a.tags)) ELSE Refused
        /\ e.title.core = a.title.core /\ e.body.core = a.body.core
        /\ e.source.core = a.source.core /\ e.origin.core = a.origin.core
    BY <1>1, <1>5, ServedAdd
  <2> QED BY <1>5, <2>1, <2>2
<1>7. Hopeless(c) <=> ~ said
  BY <1>1 DEF Hopeless
<1>8. Parted(c) <=> m > MaxSafe \/ (m >= -MaxSafe /\ (m <= 0 \/ OnlyBlankTags(c)))
  <2>1. Numbers(c) = {m}
    BY <1>1, <1>2, NumbersAre
  <2>2. /\ c.tool = "cli add" /\ c.tool # "search" /\ c.tool # "add_entry" /\ c.tool # "cli search"
        /\ c.tool # "kg_invalidate" /\ c.tool # "diary_write" /\ c.tool # "diary_read"
        /\ c.tool \in Replaced
    BY <1>1 DEF Replaced
  <2> QED BY <1>2, <2>1, <2>2, Zenon DEF Parted
<1>9. y \in Int /\ y > 0 /\ y = IF m > 0 THEN m ELSE 1
  BY <1>1, <1>2, PositiveIs
<1>10. ASSUME ~ said \/ m < 0 PROVE Effect(p) = Refused
  BY <1>10, Untitled
<1>11. y >= 0 /\ (m = y <=> ~ (m <= 0)) /\ (m >= 0 <=> ~ (m < 0))
  BY <1>2, <1>9, DepthsAre, Zenon
<1> HIDE DEF e, y
<1>12. ASSUME said, m >= 0 PROVE Effect(p) # Refused /\ (Effect(p) = Effect(q) <=> m = y /\ ~ OnlyBlankTags(c))
  <2>1. SameTexts(c, e)
    BY <1>1, <1>6, <1>12 DEF SameTexts
  <2>2. /\ Effect(Add(c, m, c.tags)) # Refused
        /\ Effect(Add(c, m, c.tags)) = Effect(Add(e, y, TrimTags(c.tags)))
             <=> m = y /\ ~ OnlyBlankTags(c)
    <3>1. m \in Int /\ m >= 0 /\ y \in Int /\ y >= 0
      BY <1>2, <1>9, <1>11, <1>12, Zenon
    <3> QED BY <2>1, <3>1, EntriesAgree, Zenon
  <2> QED BY <2>2, Zenon
<1>13. ASSUME said PROVE Effect(q) # Refused
  <2>1. SameTexts(c, e)
    BY <1>1, <1>6, <1>13 DEF SameTexts
  <2>2. Effect(Add(e, y, TrimTags(c.tags))) # Refused
    <3>1. y \in Int /\ y >= 0
      BY <1>9, <1>11, Zenon
    <3> QED BY <2>1, <3>1, EntriesAgree, Zenon
  <2> QED BY <2>2, Zenon
<1> HIDE DEF p, q, served, said
<1>14. CASE ~ said
  BY <1>3, <1>4, <1>6, <1>7, <1>10, <1>14, RefusedIs, Zenon DEF Agree
<1>15. CASE said /\ served
  <2>1. ~ (m > MaxSafe) /\ m >= -MaxSafe
    BY <1>2, <1>15, DepthsAre, Zenon DEF served
  <2>2. CASE m < 0
    <3>1. m <= 0
      BY <1>2, <2>2, DepthsAre, Zenon
    <3> QED BY <1>3, <1>4, <1>6, <1>7, <1>8, <1>10, <1>13, <1>15, <2>1, <2>2, <3>1, Zenon DEF Agree
  <2>3. CASE ~ (m < 0)
    BY <1>3, <1>4, <1>6, <1>7, <1>8, <1>11, <1>12, <1>15, <2>1, <2>3, Zenon DEF Agree
  <2> QED BY <2>2, <2>3
<1>16. CASE said /\ ~ served
  <2>1. CASE m < 0
    <3>1. ~ (m > MaxSafe) /\ ~ (m >= -MaxSafe)
      BY <1>2, <1>16, <2>1, DepthsAre, Zenon DEF served
    <3> QED BY <1>3, <1>4, <1>6, <1>7, <1>8, <1>10, <1>16, <2>1, <3>1, RefusedIs, Zenon DEF Agree
  <2>2. CASE ~ (m < 0)
    <3>1. m > MaxSafe
      BY <1>2, <1>16, <2>2, DepthsAre, Zenon DEF served
    <3> QED BY <1>3, <1>4, <1>6, <1>7, <1>8, <1>11, <1>12, <1>16, <2>2, <3>1, RefusedIs, Zenon DEF Agree
  <2> QED BY <2>1, <2>2
<1> QED BY <1>14, <1>15, <1>16

\* Every call and every command.
LEMMA AllAgree ==
  ASSUME NEW c \in Calls \cup Commands
  PROVE  Agree(c)
<1>1. ASSUME c \in [tool : {"status", "paths", "list_depths", "list_tags", "get_tag_map",
                            "graph_stats", "kg_stats", "doctor"}]
      PROVE  Agree(c)
  BY <1>1, PlainAgree DEF Plain
<1>2. ASSUME c \in [tool : {"check_duplicate"}, content : Texts] PROVE Agree(c)
  BY <1>2, CoresAgree DEF TextIsNot
<1>3. ASSUME c \in [tool : {"kg_query"}, entity : Texts, as_of : Texts, direction : Texts]
      PROVE  Agree(c)
  BY <1>3, CoresAgree DEF TextIsNot
<1>4. ASSUME c \in [tool : {"kg_add"}, subject : Texts, predicate : Texts, object : Texts,
                    valid_from : Texts]
      PROVE  Agree(c)
  BY <1>4, CoresAgree DEF TextIsNot
<1>5. ASSUME c \in [tool : {"kg_timeline"}, entity : Texts] PROVE Agree(c)
  BY <1>5, CoresAgree DEF TextIsNot
<1> QED
  BY <1>1, <1>2, <1>3, <1>4, <1>5, InvalidateAgrees, DiaryWriteAgrees, ShowAgrees, BridgesAgree,
     ListAgrees, TraverseAgrees, DiaryReadAgrees, SearchAgrees, CliSearchAgrees, AddAgrees,
     CliAddAgrees, Zenon DEF Calls, Commands

\* What is asked has been asked in one of the two ways.
LEMMA AskedAgrees == ToolSpec => [](asked # NotAsked => Agree(asked))
<1> DEFINE Inv == asked = NotAsked \/ asked \in Calls \cup Commands
<1>1. ToolInit => Inv
  BY DEF ToolInit
<1>2. Inv /\ [Ask]_asked => Inv'
  BY DEF Ask
<1>3. Inv => (asked # NotAsked => Agree(asked))
  BY AllAgree, Zenon
<1> QED BY <1>1, <1>2, <1>3, PTL DEF ToolSpec

\* Every tool of the MCP server does the same directly and through the daemon
\* (directToolBackend.Call, dispatch), except in the cases that Parted names, and in every
\* one of those it does not: for any numbers and any range of safe ones that holds the
\* defaults.
THEOREM ToolsAlwaysAgree == ToolSpec => []ToolsAgree
<1>1. (asked # NotAsked => Agree(asked)) => ToolsAgree
  BY Zenon DEF ToolsAgree, SameInBothModes, Agree
<1> QED BY <1>1, AskedAgrees, PTL

\* How far tagmem add and tagmem search are from doing the same in both modes (runAdd and
\* querySearch, addViaDaemon and searchViaDaemon): exactly for the arguments that Parted
\* names they do not.
THEOREM CommandsPartAsListed == ToolSpec => []CommandsPartOnlyThere
<1>1. ~ (NotAsked.tool \in CommandNames)
  BY DEF NotAsked, CommandNames
<1>2. (asked # NotAsked => Agree(asked)) => CommandsPartOnlyThere
  BY <1>1, Zenon DEF CommandsPartOnlyThere, SameInBothModes, Agree
<1> QED BY <1>2, AskedAgrees, PTL

=============================================================================
