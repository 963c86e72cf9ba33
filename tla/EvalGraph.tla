----------------------------- MODULE EvalGraph -----------------------------
(***************************************************************************)
(* The evaluation-graph service (stax-server/src/eval_graph.rs) and the    *)
(* import of a capture file (stax-eval-graph/src/lib.rs).  Clients import, *)
(* list, close and query captures; an import takes a lock, reserves an id, *)
(* reads the file record by record on a blocking thread and only then      *)
(* enters the graph into the registry.  A capture is either a detailed     *)
(* graph or a table of counts per source site.                             *)
(***************************************************************************)
EXTENDS Naturals, Sequences, FiniteSets, SequencesExt, FiniteSetsExt, Functions

CONSTANTS EgClients,   \* callers of import_path and close
          EgNobody,    \* no client
          EgModes,     \* capture modes of the header: "detail", "counts"
          EgLines(_,_),  \* mode, lines so far -> lines that may follow (bound)
          EgLength(_,_), \* client, id -> how many lines follow the header (bound)
          EgNodeLimit, \* Limits: nodes, sites, modules
          EgTop,       \* u64::MAX
          MaxCaptures, \* MAX_CAPTURES
          EgMaxImports \* bound on imports

ASSUME EgAssumption == /\ EgNobody \notin EgClients /\ MaxCaptures \in Nat \ {0}
                       /\ EgMaxImports \in Nat /\ EgNodeLimit \in Nat /\ EgTop \in Nat
                       /\ EgModes \subseteq {"detail", "counts"}

VARIABLES egLock,   \* import_lock: the client that holds it
          egNext,   \* registry.next
          egGraphs, \* registry.graphs: id -> summary
          egPhase,  \* client -> "idle", "reading", "read"
          egId,     \* client -> the id its import reserved
          egGraph,  \* the graph under construction
          egFile    \* the lines read into it, the header left out

egReg  == <<egLock, egNext, egGraphs, egPhase, egId>>
egVars == <<egReg, egGraph, egFile>>

-----------------------------------------------------------------------------
(* Graph: the importer *)

Zero == [n \in {} |-> 0]

EmptyGraph(mode) ==
  [mode |-> mode, records |-> 1, diags |-> 0, footer |-> FALSE, modules |-> {}, sites |-> {},
   nodes |-> Zero, edges |-> Zero, counts |-> Zero, runs |-> Zero, forces |-> 0,
   overflow |-> FALSE, complete |-> FALSE, exact |-> FALSE, missing |-> 0]

Diagnostic(g) == [g EXCEPT !.diags = @ + 1]

\* Tables: BTreeMap's entry, insert, and entry(..).or_default() += n.
CountAt(f, k) == IF k \in DOMAIN f THEN f[k] ELSE 0
Put(f, k, v)  == [x \in DOMAIN f \cup {k} |-> IF x = k THEN v ELSE f[x]]
Bump(f, k, n) == Put(f, k, CountAt(f, k) + n)

\* placeholder: a node named before it is defined, or never defined.
Placeholder(g, k) ==
  IF k \in DOMAIN g.nodes THEN g ELSE [g EXCEPT !.nodes = Put(@, k, FALSE)]

\* The second definition replaces the first.
MutantDefine(g, k) == [g EXCEPT !.nodes = Put(@, k, TRUE)]

\* define: the first definition wins.
Define(g, k) ==
  IF k \in DOMAIN g.nodes /\ g.nodes[k] THEN Diagnostic(g)
  ELSE [g EXCEPT !.nodes = Put(@, k, TRUE)]

Invocation(n)    == <<"invocation", n>>
Thunk(r, seq)    == IF r.thunk = 0 THEN <<"unresolved", seq>> ELSE <<"thunk", r.thunk>>
SiteOf(r)        == <<r.module, r.site>>
EdgeOf(r, seq)   == <<Invocation(r.inv), Thunk(r, seq), r.event>>
Defined(g, k)    == k \in DOMAIN g.nodes /\ g.nodes[k]
RelationEvents   == {"argument", "force", "created"}
CountsModeEvents == {"module", "site", "counts", "execution"}

OnModule(g, r) ==
  IF r.module \in g.modules THEN Diagnostic(g) ELSE [g EXCEPT !.modules = @ \cup {r.module}]

OnSite(g, r) ==
  IF SiteOf(r) \in g.sites THEN Diagnostic(g) ELSE [g EXCEPT !.sites = @ \cup {SiteOf(r)}]

OnAllocation(g, r) == Define(g, <<"thunk", r.thunk>>)

OnInvocation(g, r) ==
  LET k == Invocation(r.inv)
  IN  IF Defined(g, k) THEN Diagnostic(g)
      ELSE [Define(g, k) EXCEPT !.counts = Bump(@, SiteOf(r), 1)]

OnRelation(g, r) ==
  [Placeholder(Placeholder(g, Invocation(r.inv)), Thunk(r, g.records)) EXCEPT
     !.edges = Bump(@, EdgeOf(r, g.records), 1),
     !.forces = IF r.event = "force" THEN @ + 1 ELSE @]

\* A cache result is an attribute of its invocation.
OnCache(g, r) == Placeholder(g, Invocation(r.inv))

\* add_counts: saturating, and the sum is flagged.
Saturated(n) == Min({n, EgTop})
AddCounts(g, key, n, overflow) ==
  LET old == CountAt(g.counts, key)
  IN  [g EXCEPT !.counts = Put(@, key, Saturated(old + n)),
                !.forces = Saturated(@ + n),
                !.overflow = @ \/ overflow \/ old + n > EgTop \/ g.forces + n > EgTop]

\* A row is checked as a whole before any sum changes.
CountsRowOk(g, r) ==
  /\ SiteOf(r) \in g.sites /\ r.exec \in DOMAIN g.runs
  /\ LET run == g.runs[r.exec]
     IN  run.module = r.module /\ ~run.terminal /\ r.site \notin run.sites

OnCounts(g, r) ==
  IF g.mode # "counts" \/ ~CountsRowOk(g, r) THEN Diagnostic(g)
  ELSE AddCounts([g EXCEPT !.runs[r.exec].sites = @ \cup {r.site}], SiteOf(r), r.n, r.overflow)

OnExecution(g, r) ==
  IF g.mode # "counts" THEN g
  ELSE CASE r.status = "start" /\ r.exec \notin DOMAIN g.runs ->
              [g EXCEPT !.runs = Put(@, r.exec, [module |-> r.module, terminal |-> FALSE, sites |-> {}])]
         [] r.status # "start" /\ r.exec \in DOMAIN g.runs
              /\ ~g.runs[r.exec].terminal /\ g.runs[r.exec].module = r.module ->
              [g EXCEPT !.runs[r.exec].terminal = TRUE]
         [] OTHER -> Diagnostic(g)

RecordLine(g, r) ==
  IF g.mode = "counts" /\ r.event \notin CountsModeEvents THEN Diagnostic(g)
  ELSE CASE r.event = "module"     -> OnModule(g, r)
         [] r.event = "site"       -> OnSite(g, r)
         [] r.event = "allocation" -> OnAllocation(g, r)
         [] r.event = "invocation" -> OnInvocation(g, r)
         [] r.event \in RelationEvents -> OnRelation(g, r)
         [] r.event = "cache"      -> OnCache(g, r)
         [] r.event = "counts"     -> OnCounts(g, r)
         [] r.event = "execution"  -> OnExecution(g, r)
         [] OTHER                  -> Diagnostic(g)

\* footer: at most one, last, with the number of records the file has.
Footer(g, r) ==
  LET declared == IF r.complete /\ ~r.wrong THEN g ELSE Diagnostic(g)
  IN  [IF g.footer THEN Diagnostic(declared) ELSE declared EXCEPT !.footer = TRUE]

\* One line. "torn" is a line that is not JSON; a line after the footer is
\* read all the same.
ReadLine(g0, r) ==
  LET g     == [g0 EXCEPT !.records = @ + 1]
      after == IF g.footer /\ r.event # "torn" THEN Diagnostic(g) ELSE g
  IN  CASE r.event = "torn"   -> Diagnostic(g)
        [] r.event = "footer" -> Footer(after, r)
        [] OTHER              -> RecordLine(after, r)

WithinLimits(g) ==
  /\ Cardinality(DOMAIN g.nodes) <= EgNodeLimit /\ Cardinality(g.sites) <= EgNodeLimit
  /\ Cardinality(g.modules) <= EgNodeLimit /\ Cardinality(DOMAIN g.counts) <= EgNodeLimit

\* finish: what the records leave open.
OpenRuns(g) ==
  LET own(e) == {k \in g.sites : k[1] = g.runs[e].module}
      bad(x) == \/ x[2] = "terminal" /\ ~g.runs[x[1]].terminal
                \/ x[2] = "module" /\ g.runs[x[1]].module \notin g.modules
                \/ x[2] = "rows" /\ Cardinality(g.runs[x[1]].sites) # Cardinality(own(x[1]))
  IN  Cardinality({x \in (DOMAIN g.runs) \X {"terminal", "module", "rows"} : bad(x)})

Missing(g) ==
  LET keys == g.sites \cup DOMAIN g.counts
  IN  Cardinality({k[1] : k \in keys} \ g.modules)
      + Cardinality(DOMAIN g.counts \ g.sites)
      + Cardinality({k \in DOMAIN g.nodes : ~g.nodes[k]})

FinishGraph(g) ==
  LET found == (IF g.footer THEN 0 ELSE 1) + OpenRuns(g) + Missing(g)
      all   == g.diags + found
  IN  [g EXCEPT !.missing = Missing(g), !.diags = all,
                !.complete = g.footer /\ all = 0,
                !.exact = g.footer /\ all = 0 /\ ~g.overflow]

Summary(g) == [mode |-> g.mode, complete |-> g.complete, exact |-> g.exact]

-----------------------------------------------------------------------------
(* Queries on an imported graph *)

\* adjacency: the edges at a node, either way or one way.
Neighborhood(g, k, direction) ==
  {e \in DOMAIN g.edges : \/ direction # "incoming" /\ e[1] = k
                          \/ direction # "outgoing" /\ e[2] = k}

NeighborNodes(g, k) == {k} \cup UNION {{e[1], e[2]} : e \in Neighborhood(g, k, "both")}

\* callables: one row per counted site, the most called first; a page is the
\* rows from `offset` on, at most `limit` of them.
Above(g, a, b) == \/ g.counts[a] > g.counts[b]
                  \/ g.counts[a] = g.counts[b] /\ (a[1] < b[1] \/ (a[1] = b[1] /\ a[2] < b[2]))
RowOf(g, k) == Cardinality({l \in DOMAIN g.counts : Above(g, l, k)})
Callables(g, offset, limit) ==
  {k \in DOMAIN g.counts : offset <= RowOf(g, k) /\ RowOf(g, k) < offset + limit}

-----------------------------------------------------------------------------
(* GraphService *)

EgInit ==
  /\ egLock = EgNobody /\ egNext = 0 /\ egGraphs = Zero
  /\ egPhase = [c \in EgClients |-> "idle"] /\ egId = [c \in EgClients |-> 0]
  /\ egGraph = EmptyGraph("detail") /\ egFile = <<>>

\* The lock is forgotten: the bound is checked before a long import and the
\* graph is inserted after it.
MutantAcquire(c) == egPhase[c] = "idle" /\ egLock' = c

Acquire(c) == egPhase[c] = "idle" /\ egLock = EgNobody /\ egLock' = c

\* import_path up to the blocking read. A refused import lets the lock go.
ImportPath(c, mode) ==
  /\ egNext < EgMaxImports /\ Cardinality(DOMAIN egGraphs) < MaxCaptures
  /\ Acquire(c)
  /\ egNext' = egNext + 1
  /\ egId' = [egId EXCEPT ![c] = egNext + 1]
  /\ egPhase' = [egPhase EXCEPT ![c] = "reading"]
  /\ egGraph' = EmptyGraph(mode) /\ egFile' = <<>>
  /\ UNCHANGED egGraphs

Refused(c) == /\ egPhase[c] = "idle" /\ egLock = EgNobody
              /\ Cardinality(DOMAIN egGraphs) >= MaxCaptures
              /\ UNCHANGED egVars

Released(c) == /\ egLock' = EgNobody /\ egPhase' = [egPhase EXCEPT ![c] = "idle"]
               /\ egGraph' = EmptyGraph("detail") /\ egFile' = <<>>

\* What a line holds that can be read: identities are not zero, but a relation's
\* thunk may have none. All else is torn.
Readable(r) ==
  /\ r.event \in {"site", "invocation", "counts"} => SiteOf(r) \in Nat \X Nat
  /\ r.event \in {"module", "execution"} => r.module \in Nat
  /\ r.event \in {"invocation", "cache"} \cup RelationEvents => r.inv \in Nat
  /\ r.event \in {"allocation"} \cup RelationEvents => r.thunk \in Nat
  /\ r.event = "allocation" => r.thunk # 0
  /\ r.event = "counts" => r.exec \in Nat /\ r.n \in Nat /\ r.overflow \in BOOLEAN
  /\ r.event = "execution" => r.exec \in Nat
  /\ r.event = "footer" => r.complete \in BOOLEAN /\ r.wrong \in BOOLEAN

\* A graph past a limit fails the import and is dropped.
ReadRecord(c, r) ==
  /\ Readable(r)
  /\ egPhase[c] = "reading" /\ Len(egFile) < EgLength(c, egId[c])
  /\ LET g == ReadLine(egGraph, r)
     IN  \/ /\ WithinLimits(g)
            /\ egGraph' = g /\ egFile' = Append(egFile, r)
            /\ UNCHANGED <<egLock, egPhase>>
         \/ ~WithinLimits(g) /\ Released(c)
  /\ UNCHANGED <<egNext, egGraphs, egId>>

\* The end of the file, or an I/O error.
ReadEnd(c) ==
  /\ egPhase[c] = "reading" /\ egGraph' = FinishGraph(egGraph)
  /\ egPhase' = [egPhase EXCEPT ![c] = "read"]
  /\ UNCHANGED <<egLock, egNext, egGraphs, egId, egFile>>

ReadFailed(c) ==
  /\ egPhase[c] = "reading" /\ Released(c)
  /\ UNCHANGED <<egNext, egGraphs, egId>>

Insert(c) ==
  /\ egPhase[c] = "read" /\ Released(c)
  /\ egGraphs' = [id \in DOMAIN egGraphs \cup {egId[c]} |->
                    IF id = egId[c] THEN Summary(egGraph) ELSE egGraphs[id]]
  /\ UNCHANGED <<egNext, egId>>

Close(id) ==
  /\ id \in DOMAIN egGraphs
  /\ egGraphs' = [k \in DOMAIN egGraphs \ {id} |-> egGraphs[k]]
  /\ UNCHANGED <<egLock, egNext, egPhase, egId, egGraph, egFile>>

EgNext ==
  \/ \E c \in EgClients :
       \/ \E mode \in EgModes : ImportPath(c, mode)
       \/ Refused(c)
       \/ \E r \in EgLines(egGraph.mode, egFile) : ReadRecord(c, r)
       \/ ReadEnd(c) \/ ReadFailed(c) \/ Insert(c)
  \/ \E id \in 1 .. EgMaxImports : Close(id)

EgSpec == EgInit /\ [][EgNext]_egVars

-----------------------------------------------------------------------------
(* Properties *)

\* The bound of the registry survives imports that take arbitrarily long:
\* with the lock there is one reader, its id is new, and whatever is closed
\* or imported meanwhile never more than MaxCaptures captures are retained.
CapturesBounded ==
  /\ Cardinality(DOMAIN egGraphs) <= MaxCaptures
  /\ \A c \in EgClients : egPhase[c] # "idle" =>
       /\ egLock = c /\ egId[c] = egNext /\ egId[c] \notin DOMAIN egGraphs
       /\ Cardinality(DOMAIN egGraphs) < MaxCaptures

Lines(f, events) == {i \in DOMAIN f : f[i].event \in events}

\* What a table of sums holds: for each key, how many lines have it.
Tally(K) == [k \in Range(K) |-> Cardinality({i \in DOMAIN K : K[i] = k})]

\* The sum of the rows S of file f.
SumOf(f, S) == Cardinality(UNION {{i} \X (1 .. f[i].n) : i \in S})

\* What "complete" promises of every capture: the file ends in its only footer,
\* which says so, and the modules and sites it names are defined, once.
FileWhole(f) ==
  /\ f # <<>> /\ Lines(f, {"footer"}) = {Len(f)} /\ Lines(f, {"torn"}) = {}
  /\ f[Len(f)].complete
  /\ IsInjective([i \in Lines(f, {"module"}) |-> f[i].module])
  /\ IsInjective([i \in Lines(f, {"site"}) |-> SiteOf(f[i])])
  /\ \A i \in Lines(f, {"site"}) : \E j \in Lines(f, {"module"}) : f[j].module = f[i].module
  /\ \A i \in Lines(f, {"invocation", "counts"}) : \E j \in Lines(f, {"site"}) : SiteOf(f[j]) = SiteOf(f[i])

\* And of a detailed graph: every thunk and invocation it names was defined,
\* once, and the sums are the records of the file.
DetailWhole(g, f) ==
  /\ IsInjective([i \in Lines(f, {"invocation"}) |-> f[i].inv])
  /\ IsInjective([i \in Lines(f, {"allocation"}) |-> f[i].thunk])
  /\ \A i \in Lines(f, RelationEvents \cup {"cache"}) :
       \E j \in Lines(f, {"invocation"}) : f[j].inv = f[i].inv
  /\ \A i \in Lines(f, RelationEvents) :
       \E j \in Lines(f, {"allocation"}) : f[j].thunk = f[i].thunk
  /\ g.counts = Tally([i \in Lines(f, {"invocation"}) |-> SiteOf(f[i])])
  /\ g.edges = Tally([i \in Lines(f, RelationEvents) |-> EdgeOf(f[i], i + 1)])

\* And of a table of counts: every execution ended, with one row per site of its
\* module, and unless a sum overflowed it is exact.
Starts(f) == {i \in Lines(f, {"execution"}) : f[i].status = "start"}
RowsAt(f, key) == {i \in Lines(f, {"counts"}) : SiteOf(f[i]) = key}
CountsWhole(g, f) ==
  /\ \A i \in Starts(f) :
       /\ \E j \in Lines(f, {"execution"}) \ Starts(f) : j > i /\ f[j].exec = f[i].exec
       /\ \A k \in Lines(f, {"site"}) : f[k].module = f[i].module =>
            Cardinality({j \in RowsAt(f, SiteOf(f[k])) : f[j].exec = f[i].exec}) = 1
  /\ g.exact => /\ g.forces = SumOf(f, Lines(f, {"counts"}))
                /\ DOMAIN g.counts = {SiteOf(f[j]) : j \in Lines(f, {"counts"})}
                /\ \A k \in DOMAIN g.counts : g.counts[k] = SumOf(f, RowsAt(f, k))

\* A capture is called complete only if it is: the file ends in its only
\* footer, names nothing it does not define and says nothing twice, and what
\* the importer added up is what the file says. Complete or not, both ends of
\* every edge are nodes and each counted site is alone at its place in the pages
\* of the callable table.
GraphFaithful ==
  \A c \in EgClients : egPhase[c] = "read" =>
    /\ egGraph.complete =>
         /\ FileWhole(egFile)
         /\ IF egGraph.mode = "counts" THEN CountsWhole(egGraph, egFile) ELSE DetailWhole(egGraph, egFile)
    /\ \A k \in DOMAIN egGraph.nodes : NeighborNodes(egGraph, k) \subseteq DOMAIN egGraph.nodes
    /\ \A k \in DOMAIN egGraph.counts :
         \E offset \in 0 .. EgNodeLimit - 1 : Callables(egGraph, offset, 1) = {k}
=============================================================================
