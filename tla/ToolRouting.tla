------------------------------ MODULE ToolRouting ------------------------------
(***************************************************************************)
(* What a tool call of the MCP server, or a command of the terminal that   *)
(* may go to the daemon, does to the stores in its two modes: directly     *)
(* (internal/mcp/server.go, directToolBackend; internal/cli/app.go) and    *)
(* through the daemon (daemonToolBackend, addViaDaemon, searchViaDaemon,   *)
(* then internal/daemon/backend.go, dispatch).  The modes read the same    *)
(* arguments with different helpers; the stores then normalise what they   *)
(* are given.                                                              *)
(*                                                                         *)
(* A text is its trimmed core and whether there is space around it; an     *)
(* optional number is a set of at most one; numbers beyond MaxSafe, above  *)
(* or below zero, stand for those that JSON's floating point cannot carry  *)
(* exactly, but for the first of them, which it makes MaxSafe.             *)
(***************************************************************************)
EXTENDS Integers

CONSTANTS
  Word,      \* a text that is not blank
  NumberArgs, \* the numbers tried
  MaxSafe

ASSUME ToolNumbers ==
  /\ NumberArgs \subseteq Int /\ MaxSafe \in Int
  /\ MaxSafe >= 10  \* the defaults are safe
ASSUME WordSaysSomething == Word # ""

VARIABLE asked  \* the tool call or command just given

Texts    == [core : {"", Word}, pad : BOOLEAN]
Omitted   == [core |-> "", pad |-> FALSE]
Trim(t)  == [core |-> t.core, pad |-> FALSE]
Given    == {{n} : n \in NumberArgs}
Optional == {{}} \cup Given
Sources  == {Omitted, [core |-> Word, pad |-> TRUE]}

\* The tools and the arguments their handlers take from a call.
Calls ==
  [tool : {"status", "paths", "list_depths", "list_tags", "get_tag_map", "graph_stats",
           "kg_stats", "doctor"}]
  \cup [tool : {"list_entries"}, depth : Optional, tag : Texts, limit : NumberArgs]
  \cup [tool : {"search"}, query : Texts, depth : Optional, tag : Texts, limit : NumberArgs]
  \cup [tool : {"show_entry", "delete_entry"}, id : NumberArgs]
  \cup [tool : {"check_duplicate"}, content : Texts]
  \cup [tool : {"add_entry"}, depth : Optional, title : Texts, body : Texts,
        tags : SUBSET Texts, source : Sources, origin : Texts]
  \cup [tool : {"graph_traverse"}, start_tag : Texts, max_hops : NumberArgs]
  \cup [tool : {"find_bridges"}, depth_a : Optional, depth_b : Optional]
  \cup [tool : {"kg_query"}, entity : Texts, as_of : Texts, direction : Texts]
  \cup [tool : {"kg_add"}, subject : Texts, predicate : Texts, object : Texts, valid_from : Texts]
  \cup [tool : {"kg_invalidate"}, subject : Texts, predicate : Texts, object : Texts, ended : Texts]
  \cup [tool : {"kg_timeline"}, entity : Texts]
  \cup [tool : {"diary_write"}, agent_name : Texts, entry : Texts, topic : Texts]
  \cup [tool : {"diary_read"}, agent_name : Texts, last_n : NumberArgs]

\* tagmem add and tagmem search: --depth and --limit always have a value.
Commands ==
  [tool : {"cli add"}, depth : Given, title : Texts, body : Texts, tags : SUBSET Texts,
   source : Sources, origin : Texts]
  \cup [tool : {"cli search"}, query : Texts, depth : Given, limit : NumberArgs]

Refused == [op |-> "refused"]

\* The arguments are passed on as they are.
AsIs(c) == [a \in DOMAIN c \cup {"op"} |-> IF a = "op" THEN c.tool ELSE c[a]]

\* The entry that AddMany is given.
Add(c, depth, tags) ==
  [op |-> "add", depth |-> depth, title |-> c.title, body |-> c.body, tags |-> tags,
   source |-> c.source, origin |-> c.origin]

-----------------------------------------------------------------------------
(* Directly.                                                               *)

DefaultInt(n, fallback) == IF n > 0 THEN n ELSE fallback

Positive(opt, fallback) == IF \E n \in opt : n > 0 THEN CHOOSE n \in opt : TRUE ELSE fallback

Direct(c) ==
  CASE c.tool = "list_entries" ->
         [op |-> "list", depth |-> c.depth, tag |-> c.tag, limit |-> DefaultInt(c.limit, 25)]
    [] c.tool = "search" ->
         [op |-> "search", text |-> c.query, depth |-> c.depth, tag |-> c.tag,
          limit |-> DefaultInt(c.limit, 5)]
    [] c.tool \in {"show_entry", "delete_entry"} -> [op |-> c.tool, id |-> c.id]
    [] c.tool = "add_entry" -> Add(c, Positive(c.depth, 1), c.tags)
    [] c.tool = "graph_traverse" ->
         [op |-> "traverse", start |-> c.start_tag, hops |-> DefaultInt(c.max_hops, 0)]
    [] c.tool = "diary_read" ->
         [op |-> "read", agent |-> c.agent_name, last |-> DefaultInt(c.last_n, 10)]
    [] OTHER -> AsIs(c)

\* --depth is passed on as it is.
RunAdd(c) == Add(c, CHOOSE n \in c.depth : TRUE, c.tags)

\* preflightSearchArgs, and both modes once more.
Usage(c) == c.query.core # ""

\* A negative depth is none.
DepthFilter(c) == {n \in c.depth : n >= 0}

QuerySearch(c) ==
  IF Usage(c)
  THEN [op |-> "search", text |-> c.query, depth |-> DepthFilter(c), tag |-> Omitted,
        limit |-> c.limit]
  ELSE Refused

-----------------------------------------------------------------------------
(* Through the daemon: its dispatch.                                       *)

Safe(n) == n \in -MaxSafe .. MaxSafe
SafeOptional(opt) == \A n \in opt : Safe(n)

\* (mutant) a limit that is there counts, whatever it is.
ServedLimitGiven(n, fallback) == n

\* queryFromPayload: "ok && limit > 0".
ServedLimit(n, fallback) == IF n > 0 THEN n ELSE fallback

IntValue(n, fallback) == IF Safe(n) THEN n ELSE fallback

TrimTags(tags) == {Trim(t) : t \in tags} \ {Omitted}

\* Every text the daemon reads has been trimmed by stringValue.
TrimAll(c) ==
  [a \in DOMAIN c |-> IF a \notin {"tool", "tags", "depth", "limit", "id", "max_hops",
                                   "last_n", "depth_a", "depth_b"}
                      THEN Trim(c[a]) ELSE c[a]]

Served(call) ==
  LET c == TrimAll(call)
  IN CASE c.tool = "list_entries" ->
            IF SafeOptional(c.depth) /\ Safe(c.limit)
            THEN [op |-> "list", depth |-> c.depth, tag |-> c.tag, limit |-> ServedLimit(c.limit, 25)]
            ELSE Refused
       [] c.tool = "search" ->
            IF SafeOptional(c.depth) /\ Safe(c.limit) /\ c.query # Omitted
            THEN [op |-> "search", text |-> c.query, depth |-> c.depth, tag |-> c.tag,
                  limit |-> ServedLimit(c.limit, 5)]
            ELSE Refused
       [] c.tool \in {"show_entry", "delete_entry"} ->
            IF Safe(c.id) THEN [op |-> c.tool, id |-> c.id] ELSE Refused
       [] c.tool = "add_entry" ->
            IF SafeOptional(c.depth) /\ c.title # Omitted /\ c.body # Omitted
            THEN Add(c, Positive(c.depth, 1), TrimTags(c.tags))
            ELSE Refused
       [] c.tool = "graph_traverse" ->
            [op |-> "traverse", start |-> c.start_tag, hops |-> IntValue(c.max_hops, 0)]
       [] c.tool = "find_bridges" ->
            IF SafeOptional(c.depth_a) /\ SafeOptional(c.depth_b) THEN AsIs(c) ELSE Refused
       [] c.tool = "diary_read" ->
            [op |-> "read", agent |-> c.agent_name, last |-> IntValue(c.last_n, 10)]
       [] OTHER -> AsIs(c)

\* The requests of the two commands.
AddViaDaemon(c) == Served([c EXCEPT !.tool = "add_entry"])

SearchViaDaemon(c) ==
  IF Usage(c)
  THEN Served([tool |-> "search", query |-> c.query, depth |-> DepthFilter(c), tag |-> Omitted,
               limit |-> c.limit])
  ELSE Refused

-----------------------------------------------------------------------------
(* What the stores make of their arguments.                                *)

Listed(q) == [op |-> "list", depth |-> q.depth, tag |-> q.tag.core, limit |-> q.limit]

\* A tag of spaces is no filter for a list, and one no entry passes for a search.
Found(q) ==
  IF q.text.core = "" THEN Listed(q)
  ELSE [op |-> "search", text |-> q.text.core, depth |-> q.depth, limit |-> q.limit,
        tag |-> IF q.tag = Omitted THEN {} ELSE {q.tag.core}]

NormalizeTags(tags) == {t.core : t \in tags} \ {""}

SourceText(e) == IF e.source.core = "" THEN e.body.core ELSE e.source.core

\* The tagger is given a name and a text if there are no tags, blank ones included.
TagsForEntry(e) ==
  IF e.tags # {} THEN [given |-> NormalizeTags(e.tags)]
  ELSE [of |-> <<IF e.origin.core = "" THEN e.title.core ELSE e.origin.core, SourceText(e)>>]

\* AddMany.
Added(e) ==
  IF e.depth < 0 \/ e.title.core = "" \/ e.body.core = "" THEN Refused
  ELSE [op |-> "add", depth |-> e.depth, title |-> e.title.core, body |-> e.body.core,
        source |-> SourceText(e), origin |-> e.origin.core, tags |-> TagsForEntry(e)]

Traversed(q) == [op |-> "traverse", start |-> q.start.core, hops |-> IF q.hops <= 0 THEN 2 ELSE q.hops]

\* One depth alone is ignored.
Bridged(q) ==
  [op |-> "bridges",
   depths |-> IF q.depth_a # {} /\ q.depth_b # {} THEN <<q.depth_a, q.depth_b>> ELSE <<>>]

Read(q) == [op |-> "read", agent |-> q.agent.core, last |-> IF q.last > 0 THEN {q.last} ELSE {}]

Written(q) ==
  [op |-> "write", agent |-> q.agent_name.core, content |-> q.entry,
   topic |-> IF q.topic = Omitted THEN [core |-> "general", pad |-> FALSE] ELSE q.topic]

\* A blank end is today, any other is kept as it is.
Invalidated(q) ==
  [op |-> "invalidate", fact |-> <<q.subject.core, q.predicate.core, q.object.core>>,
   ended |-> IF q.ended.core = "" THEN Omitted ELSE q.ended]

Cores(q) == [a \in DOMAIN q \ {"tool"} |-> IF a = "op" THEN q.op ELSE q[a].core]

Effect(q) ==
  CASE q.op = "list" -> Listed(q)
    [] q.op = "search" -> Found(q)
    [] q.op = "add" -> Added(q)
    [] q.op = "traverse" -> Traversed(q)
    [] q.op = "find_bridges" -> Bridged(q)
    [] q.op = "read" -> Read(q)
    [] q.op = "diary_write" -> Written(q)
    [] q.op = "kg_invalidate" -> Invalidated(q)
    [] q.op \in {"kg_query", "kg_add", "kg_timeline", "check_duplicate"} -> Cores(q)
    [] OTHER -> q

-----------------------------------------------------------------------------
NotAsked == [tool |-> "none"]

ToolInit == asked = NotAsked

\* A client calls a tool, or a command is given.
Ask == asked = NotAsked /\ \E c \in Calls \cup Commands : asked' = c

ToolSpec == ToolInit /\ [][Ask]_asked

AskedDirectly(c) ==
  CASE c.tool = "cli add" -> RunAdd(c)
    [] c.tool = "cli search" -> QuerySearch(c)
    [] OTHER -> Direct(c)

AskedViaDaemon(c) ==
  CASE c.tool = "cli add" -> AddViaDaemon(c)
    [] c.tool = "cli search" -> SearchViaDaemon(c)
    [] OTHER -> Served(c)

-----------------------------------------------------------------------------
(* Where the modes part.                                                   *)

Numbers(c) ==
  UNION ({c[a] : a \in DOMAIN c \cap {"depth", "depth_a", "depth_b"}}
         \cup {{c[a]} : a \in DOMAIN c \cap {"limit", "id", "max_hops", "last_n"}})

OnlyBlankTags(c) == c.tags # {} /\ NormalizeTags(c.tags) = {}

\* Refused in both modes.
Hopeless(c) ==
  \/ c.tool \in {"add_entry", "cli add"} /\ (c.title.core = "" \/ c.body.core = "")
  \/ c.tool = "cli search" /\ ~Usage(c)

\* Where a number is not positive, something else counts in its place.
Replaced == {"graph_traverse", "diary_read", "cli add", "cli search"}

Parted(c) ==
  \/ \E n \in Numbers(c) : n > MaxSafe \/ (~Safe(n) /\ c.tool \notin Replaced)
  \/ c.tool = "search" /\ (c.query.core = "" \/ c.tag = [core |-> "", pad |-> TRUE])
  \/ c.tool = "add_entry" /\ OnlyBlankTags(c)
  \/ c.tool = "cli add" /\ \E n \in c.depth : n >= -MaxSafe /\ (n <= 0 \/ OnlyBlankTags(c))
  \/ c.tool = "cli search" /\ c.limit <= 0
  \/ c.tool = "kg_invalidate" /\ c.ended.core # "" /\ c.ended.pad
  \/ c.tool = "diary_write" /\ (c.entry.pad \/ c.topic.pad)
  \/ c.tool = "diary_read" /\ c.last_n <= 0 /\ Safe(c.last_n)

\* What was asked does the same to the stores, and has the same answer, in both modes.
SameInBothModes == Effect(AskedDirectly(asked)) = Effect(AskedViaDaemon(asked))

CommandNames == {"cli add", "cli search"}

\* A tool of the MCP server does the same in both modes, except in the cases named by
\* Parted: numbers beyond 2^53, a search for nothing or under a blank tag, a new entry
\* with nothing but blank tags, a padded date of an invalidation, padded diary texts, and
\* diary_read without a positive last_n (directToolBackend.Call and dispatch).  In every
\* one of these cases it does differ; far below zero the modes meet again where the daemon
\* takes its default for what it cannot read (graph_traverse, diary_read).
ToolsAgree ==
  asked # NotAsked /\ asked.tool \notin CommandNames =>
    (SameInBothModes <=> Hopeless(asked) \/ ~Parted(asked))

\* tagmem add and tagmem search do what they did before there was a daemon: the design of
\* the mode has the command print exactly what it did.  It does not hold: through the
\* daemon (runAddViaDaemon, runSearchViaDaemon) an entry of depth 0 is stored at
\* depth 1, and a search without a positive limit has five answers.
CommandsAgree == asked.tool \in CommandNames => SameInBothModes

\* The commands for which that fails: those of Parted, and no others.  They are an entry
\* added at depth 0 (the daemon makes it 1) or below (the store refuses it, the daemon
\* makes it 1), or with nothing but blank tags; a search without a positive limit; and
\* numbers beyond 2^53, but far below zero both modes refuse an entry and take a depth
\* to search in for none.
CommandsPartOnlyThere ==
  asked.tool \in CommandNames => (SameInBothModes <=> Hopeless(asked) \/ ~Parted(asked))

=============================================================================
