-------------------------- MODULE AnalysisProofs --------------------------
(***************************************************************************)
(* Two of the server's answers. Evaluation graphs, proved for any set of   *)
(* clients, any files and any limit: the bound on retained captures, which *)
(* nothing an import reads can break, and that a capture called complete   *)
(* is, and its tables are what its lines say. And the control-flow graph   *)
(* of a function, for any code of any length: what the decoded             *)
(* instructions do never falls between two blocks.                         *)
(***************************************************************************)
EXTENDS EvalGraph, ControlFlow, FiniteSetTheorems, SequenceTheorems, WellFoundedInduction, TLAPS

-----------------------------------------------------------------------------
(* GraphService *)

\* The registry's part of the type invariant. Ids are handed out in order, so
\* the retained ones are among the first egNext and finitely many.
RegistryTyped ==
  /\ egNext \in Nat
  /\ egPhase \in [EgClients -> {"idle", "reading", "read"}]
  /\ egId \in [EgClients -> Nat]
  /\ IsFiniteSet(DOMAIN egGraphs)
  /\ \A id \in DOMAIN egGraphs : id \in Nat /\ id <= egNext

RegistryInd == RegistryTyped /\ CapturesBounded

\* A registry with no captures: import_path's first state.
LEMMA RegistryInit == EgInit => RegistryInd
<1> SUFFICES ASSUME EgInit PROVE RegistryInd
  OBVIOUS
<1>1. DOMAIN egGraphs = {}
  BY DEF EgInit, Zero
<1>2. IsFiniteSet({}) /\ Cardinality({}) = 0
  BY FS_EmptySet
<1> QED
  BY <1>1, <1>2, EgAssumption DEF EgInit, RegistryInd, RegistryTyped, CapturesBounded

\* import_path's reservation: under the lock every other client is idle, and
\* the new id is past all that are retained.
LEMMA ImportKeeps ==
  ASSUME RegistryInd, NEW c \in EgClients, NEW mode, ImportPath(c, mode)
  PROVE  RegistryInd'
<1> USE EgAssumption DEF RegistryInd, RegistryTyped, CapturesBounded, ImportPath, Acquire
<1>1. \A d \in EgClients : egPhase[d] = "idle"
  OBVIOUS
<1>2. Cardinality(DOMAIN egGraphs) \in Nat
  BY FS_CardinalityType
<1>3. RegistryTyped'
  OBVIOUS
<1>4. CapturesBounded'
  <2>1. egNext + 1 \notin DOMAIN egGraphs
    OBVIOUS
  <2>2. \A d \in EgClients : egPhase'[d] # "idle" => d = c
    BY <1>1
  <2> QED
    BY <1>2, <2>1, <2>2
<1> QED
  BY <1>3, <1>4

\* An import that fails, or whose file ends: only the importer's phase moves.
LEMMA ReleaseKeeps ==
  ASSUME RegistryInd, NEW c \in EgClients, egPhase[c] # "idle", Released(c),
         UNCHANGED <<egNext, egGraphs, egId>>
  PROVE  RegistryInd'
<1> USE EgAssumption DEF RegistryInd, RegistryTyped, CapturesBounded, Released
<1>1. \A d \in EgClients : egPhase'[d] = "idle"
  OBVIOUS
<1> QED
  BY <1>1

\* The insert at the end of a long import: the room seen at its start is still
\* there, since the importer alone could have filled it.
LEMMA InsertKeeps ==
  ASSUME RegistryInd, NEW c \in EgClients, Insert(c)
  PROVE  RegistryInd'
<1> USE EgAssumption DEF RegistryInd, RegistryTyped, CapturesBounded, Insert, Released
<1>1. \A d \in EgClients : egPhase'[d] = "idle"
  OBVIOUS
<1>2. DOMAIN egGraphs' = DOMAIN egGraphs \cup {egId[c]}
  OBVIOUS
<1>3. /\ IsFiniteSet(DOMAIN egGraphs')
      /\ Cardinality(DOMAIN egGraphs') = Cardinality(DOMAIN egGraphs) + 1
  BY <1>2, FS_AddElement
<1>4. Cardinality(DOMAIN egGraphs) \in Nat
  BY FS_CardinalityType
<1>5. RegistryTyped'
  BY <1>1, <1>2, <1>3
<1>6. CapturesBounded'
  BY <1>1, <1>3, <1>4
<1> QED
  BY <1>5, <1>6

\* A close, at any moment of another client's import.
LEMMA CloseKeeps ==
  ASSUME RegistryInd, NEW id, Close(id)
  PROVE  RegistryInd'
<1> USE EgAssumption DEF RegistryInd, RegistryTyped, CapturesBounded, Close
<1>1. DOMAIN egGraphs' = DOMAIN egGraphs \ {id}
  OBVIOUS
<1>2. /\ IsFiniteSet(DOMAIN egGraphs')
      /\ Cardinality(DOMAIN egGraphs') = Cardinality(DOMAIN egGraphs) - 1
  BY <1>1, FS_RemoveElement
<1>3. Cardinality(DOMAIN egGraphs) \in Nat
  BY FS_CardinalityType
<1>4. RegistryTyped'
  BY <1>1, <1>2
<1>5. CapturesBounded'
  BY <1>1, <1>2, <1>3
<1> QED
  BY <1>4, <1>5

\* Every step of every client keeps the registry's invariant.
LEMMA RegistryStep == RegistryInd /\ [EgNext]_egVars => RegistryInd'
<1> SUFFICES ASSUME RegistryInd, [EgNext]_egVars PROVE RegistryInd'
  OBVIOUS
<1>1. ASSUME NEW c \in EgClients, NEW mode \in EgModes, ImportPath(c, mode)
      PROVE  RegistryInd'
  BY <1>1, ImportKeeps
<1>2. ASSUME NEW c \in EgClients, NEW r, ReadRecord(c, r)
      PROVE  RegistryInd'
  <2>1. CASE Released(c)
    BY <1>2, <2>1, ReleaseKeeps DEF ReadRecord
  <2>2. CASE UNCHANGED <<egLock, egPhase>>
    BY <1>2, <2>2 DEF ReadRecord, RegistryInd, RegistryTyped, CapturesBounded
  <2> QED
    BY <1>2, <2>1, <2>2 DEF ReadRecord
<1>3. ASSUME NEW c \in EgClients, ReadEnd(c)
      PROVE  RegistryInd'
  BY <1>3 DEF ReadEnd, RegistryInd, RegistryTyped, CapturesBounded
<1>4. ASSUME NEW c \in EgClients, ReadFailed(c)
      PROVE  RegistryInd'
  BY <1>4, ReleaseKeeps DEF ReadFailed
<1>5. ASSUME NEW c \in EgClients, Insert(c)
      PROVE  RegistryInd'
  BY <1>5, InsertKeeps
<1>6. ASSUME NEW id \in 1 .. EgMaxImports, Close(id)
      PROVE  RegistryInd'
  BY <1>6, CloseKeeps
<1>7. CASE UNCHANGED egVars
  BY <1>7 DEF egVars, egReg, RegistryInd, RegistryTyped, CapturesBounded
<1> QED
  BY <1>1, <1>2, <1>3, <1>4, <1>5, <1>6, <1>7 DEF EgNext, Refused

\* GraphService never retains more than MAX_CAPTURES captures, although
\* import_path checks the bound before its read and inserts after it, and
\* whatever other clients import or close meanwhile; every import's id is new.
THEOREM CapturesBoundedThm == EgSpec => []CapturesBounded
<1>1. RegistryInd => CapturesBounded
  BY DEF RegistryInd
<1> QED
  BY RegistryInit, RegistryStep, <1>1, PTL DEF EgSpec

-----------------------------------------------------------------------------
(* The importer *)

GraphFields ==
  {"mode", "records", "diags", "footer", "modules", "sites", "nodes", "edges", "counts", "runs",
   "forces", "overflow", "complete", "exact", "missing"}

RunOk(run) ==
  /\ DOMAIN run = {"module", "terminal", "sites"}
  /\ run.module \in Nat /\ run.terminal \in BOOLEAN
  /\ run.sites \subseteq Nat /\ IsFiniteSet(run.sites)

\* The graph's part of the type invariant; both ends of an edge are nodes.
GraphTyped(g) ==
  /\ DOMAIN g = GraphFields
  /\ g.mode \in {"detail", "counts"} /\ g.records \in Nat /\ g.diags \in Nat /\ g.footer \in BOOLEAN
  /\ g.sites \subseteq Nat \X Nat /\ IsFiniteSet(g.sites)
  /\ IsFiniteSet(DOMAIN g.nodes) /\ \A k \in DOMAIN g.nodes : g.nodes[k] \in BOOLEAN
  /\ g.counts \in [DOMAIN g.counts -> Nat]
  /\ DOMAIN g.counts \subseteq Nat \X Nat /\ IsFiniteSet(DOMAIN g.counts)
  /\ IsFiniteSet(DOMAIN g.runs) /\ \A e \in DOMAIN g.runs : RunOk(g.runs[e])
  /\ g.forces \in Nat /\ g.overflow \in BOOLEAN
  /\ \A e \in DOMAIN g.edges : e[1] \in DOMAIN g.nodes /\ e[2] \in DOMAIN g.nodes

\* What a line leaves of a graph: it is a graph still, with no fewer diagnostics.
Grew(g, h) ==
  GraphTyped(h) /\ h.mode = g.mode /\ h.records = g.records /\ h.footer = g.footer /\ h.diags >= g.diags

\* A table with one entry put in it.
LEMMA PutIs ==
  ASSUME NEW f, NEW k, NEW v
  PROVE  /\ DOMAIN Put(f, k, v) = DOMAIN f \cup {k} /\ Put(f, k, v)[k] = v
         /\ \A x \in DOMAIN f : x # k => Put(f, k, v)[x] = f[x]
         /\ IsFiniteSet(DOMAIN f) => IsFiniteSet(DOMAIN Put(f, k, v))
<1>1. DOMAIN Put(f, k, v) = DOMAIN f \cup {k}
  BY DEF Put
<1>2. IsFiniteSet(DOMAIN f) => IsFiniteSet(DOMAIN f \cup {k})
  BY FS_AddElement
<1> QED
  BY <1>1, <1>2 DEF Put

\* or_default: what is not in a table of sums counts as 0.
LEMMA CountAtIs ==
  ASSUME NEW f, f \in [DOMAIN f -> Nat], NEW k
  PROVE  CountAt(f, k) \in Nat
  BY DEF CountAt

\* A diagnostic adds one, and nothing else.
LEMMA DiagnosticIs ==
  ASSUME NEW g, GraphTyped(g)
  PROVE  /\ Grew(g, Diagnostic(g)) /\ Diagnostic(g).diags = g.diags + 1
  BY DEF GraphTyped, GraphFields, Diagnostic, Grew

\* A node that is there, as it was or defined now.
LEMMA DefineIs ==
  ASSUME NEW g, GraphTyped(g), NEW k, NEW d \in BOOLEAN
  PROVE  Grew(g, [g EXCEPT !.nodes = Put(g.nodes, k, d)])
<1> DEFINE h == [g EXCEPT !.nodes = Put(g.nodes, k, d)]
<1>1. /\ DOMAIN h = GraphFields /\ h.nodes = Put(g.nodes, k, d)
      /\ \A x \in GraphFields : x # "nodes" => h[x] = g[x]
  BY DEF GraphTyped, GraphFields
<1>2. /\ DOMAIN h.nodes = DOMAIN g.nodes \cup {k} /\ IsFiniteSet(DOMAIN h.nodes)
      /\ \A x \in DOMAIN h.nodes : h.nodes[x] \in BOOLEAN
  <2>1. /\ DOMAIN Put(g.nodes, k, d) = DOMAIN g.nodes \cup {k} /\ Put(g.nodes, k, d)[k] = d
        /\ \A x \in DOMAIN g.nodes : x # k => Put(g.nodes, k, d)[x] = g.nodes[x]
        /\ IsFiniteSet(DOMAIN g.nodes) => IsFiniteSet(DOMAIN Put(g.nodes, k, d))
    BY ONLY PutIs, Zenon
  <2> HIDE DEF h
  <2> QED
    BY <1>1, <2>1 DEF GraphTyped
<1> HIDE DEF h
<1>3. /\ h.mode = g.mode /\ h.records = g.records /\ h.diags = g.diags /\ h.footer = g.footer
      /\ h.sites = g.sites /\ h.counts = g.counts /\ h.runs = g.runs /\ h.forces = g.forces
      /\ h.overflow = g.overflow /\ h.edges = g.edges
  BY <1>1 DEF GraphFields
<1>4. GraphTyped(h)
  BY <1>1, <1>2, <1>3 DEF GraphTyped
<1>5. h.diags >= g.diags
  BY <1>3 DEF GraphTyped
<1> QED
  BY <1>3, <1>4, <1>5 DEF Grew, h

\* A placeholder brings a node in and defines none.
LEMMA PlaceholderIs ==
  ASSUME NEW g, GraphTyped(g), NEW k
  PROVE  /\ Grew(g, Placeholder(g, k)) /\ Placeholder(g, k).diags = g.diags
         /\ DOMAIN Placeholder(g, k).nodes = DOMAIN g.nodes \cup {k}
         /\ \A x : Defined(Placeholder(g, k), x) <=> Defined(g, x)
         /\ \A x \in GraphFields \ {"nodes"} : Placeholder(g, k)[x] = g[x]
<1>1. CASE k \in DOMAIN g.nodes
  <2>1. g.diags >= g.diags
    BY DEF GraphTyped
  <2> QED
    BY <1>1, <2>1 DEF Placeholder, Grew
<1>2. CASE k \notin DOMAIN g.nodes
  <2> DEFINE h == [g EXCEPT !.nodes = Put(g.nodes, k, FALSE)]
  <2>1. Placeholder(g, k) = h
    BY <1>2 DEF Placeholder
  <2>0. /\ DOMAIN Put(g.nodes, k, FALSE) = DOMAIN g.nodes \cup {k} /\ Put(g.nodes, k, FALSE)[k] = FALSE
        /\ \A x \in DOMAIN g.nodes : x # k => Put(g.nodes, k, FALSE)[x] = g.nodes[x]
    BY DEF Put
  <2>2. /\ h.nodes = Put(g.nodes, k, FALSE)
        /\ \A x \in GraphFields \ {"nodes"} : h[x] = g[x]
    BY DEF GraphTyped, GraphFields
  <2>3. Grew(g, h)
    BY DefineIs
  <2>4. h.diags = g.diags
    BY <2>2 DEF GraphFields
  <2>5. \A x : Defined(h, x) <=> Defined(g, x)
    BY <1>2, <2>0, <2>2 DEF Defined
  <2>6. DOMAIN h.nodes = DOMAIN g.nodes \cup {k}
    BY <2>0, <2>2
  <2> QED
    BY <2>1, <2>2, <2>3, <2>4, <2>5, <2>6
<1> QED
  BY <1>1, <1>2

-----------------------------------------------------------------------------
(* What each event leaves *)

\* The parts of the type invariant, one by one.
LEMMA TypedFields ==
  ASSUME NEW g, GraphTyped(g)
  PROVE  /\ DOMAIN g = GraphFields
         /\ g.mode \in {"detail", "counts"} /\ g.records \in Nat /\ g.diags \in Nat /\ g.footer \in BOOLEAN
         /\ g.sites \subseteq Nat \X Nat /\ IsFiniteSet(g.sites)
         /\ IsFiniteSet(DOMAIN g.nodes) /\ \A k \in DOMAIN g.nodes : g.nodes[k] \in BOOLEAN
         /\ g.counts \in [DOMAIN g.counts -> Nat]
         /\ DOMAIN g.counts \subseteq Nat \X Nat /\ IsFiniteSet(DOMAIN g.counts)
         /\ IsFiniteSet(DOMAIN g.runs) /\ \A e \in DOMAIN g.runs : RunOk(g.runs[e])
         /\ g.forces \in Nat /\ g.overflow \in BOOLEAN
         /\ \A e \in DOMAIN g.edges : e[1] \in DOMAIN g.nodes /\ e[2] \in DOMAIN g.nodes
         /\ g.diags >= g.diags
  BY DEF GraphTyped

\* A definition, accepted or refused.
LEMMA DefineGrows ==
  ASSUME NEW g, GraphTyped(g), NEW k
  PROVE  Grew(g, Define(g, k))
<1> DEFINE h == [g EXCEPT !.nodes = Put(g.nodes, k, TRUE)]
<1>1. Grew(g, h)
  BY DefineIs
<1>2. Define(g, k) = Diagnostic(g) \/ Define(g, k) = h
  BY DEF Define
<1> HIDE DEF h
<1> QED
  BY <1>1, <1>2, DiagnosticIs

\* A module line.
LEMMA ModuleGrows ==
  ASSUME NEW g, GraphTyped(g), NEW r
  PROVE  Grew(g, OnModule(g, r))
<1> DEFINE h == [g EXCEPT !.modules = @ \cup {r.module}]
<1>1. /\ DOMAIN h = GraphFields /\ \A x \in GraphFields \ {"modules"} : h[x] = g[x]
  BY TypedFields DEF GraphFields
<1>2. Grew(g, h)
  BY <1>1, TypedFields DEF GraphFields, Grew, GraphTyped
<1>3. OnModule(g, r) = Diagnostic(g) \/ OnModule(g, r) = h
  BY DEF OnModule
<1> HIDE DEF h
<1> QED
  BY <1>2, <1>3, DiagnosticIs

\* A site line.
LEMMA SiteGrows ==
  ASSUME NEW g, GraphTyped(g), NEW r, SiteOf(r) \in Nat \X Nat
  PROVE  Grew(g, OnSite(g, r))
<1> DEFINE h == [g EXCEPT !.sites = @ \cup {SiteOf(r)}]
<1>1. /\ DOMAIN h = GraphFields /\ \A x \in GraphFields \ {"sites"} : h[x] = g[x]
      /\ h.sites = g.sites \cup {SiteOf(r)}
  BY TypedFields DEF GraphFields
<1>2. h.sites \subseteq Nat \X Nat /\ IsFiniteSet(h.sites)
  <2>1. IsFiniteSet(g.sites)
    BY TypedFields
  <2>2. IsFiniteSet(g.sites \cup {SiteOf(r)})
    BY <2>1, FS_AddElement
  <2> HIDE DEF h
  <2> QED
    BY <1>1, <2>2, TypedFields
<1>3. OnSite(g, r) = Diagnostic(g) \/ OnSite(g, r) = h
  BY DEF OnSite
<1> HIDE DEF h
<1>4. Grew(g, h)
  BY <1>1, <1>2, TypedFields DEF GraphFields, Grew, GraphTyped
<1> QED
  BY <1>3, <1>4, DiagnosticIs

\* A table of counts with one entry more, or a larger one.
LEMMA CountsPut ==
  ASSUME NEW g, GraphTyped(g), NEW k \in Nat \X Nat, NEW n \in Nat
  PROVE  /\ Put(g.counts, k, n) \in [DOMAIN Put(g.counts, k, n) -> Nat]
         /\ DOMAIN Put(g.counts, k, n) \subseteq Nat \X Nat
         /\ IsFiniteSet(DOMAIN Put(g.counts, k, n))
<1>1. IsFiniteSet(DOMAIN g.counts) /\ g.counts \in [DOMAIN g.counts -> Nat] /\ DOMAIN g.counts \subseteq Nat \X Nat
  BY TypedFields
<1>2. IsFiniteSet(DOMAIN g.counts \cup {k})
  BY <1>1, FS_AddElement
<1>3. DOMAIN Put(g.counts, k, n) = DOMAIN g.counts \cup {k}
  BY DEF Put
<1>4. Put(g.counts, k, n) \in [DOMAIN g.counts \cup {k} -> Nat]
  BY <1>1 DEF Put
<1> QED
  BY <1>1, <1>2, <1>3, <1>4

\* An invocation line: its node, then its site's count.
LEMMA InvocationGrows ==
  ASSUME NEW g, GraphTyped(g), NEW r, SiteOf(r) \in Nat \X Nat
  PROVE  Grew(g, OnInvocation(g, r))
<1> DEFINE k == Invocation(r.inv)
           d == Define(g, k)
           h == [d EXCEPT !.counts = Bump(d.counts, SiteOf(r), 1)]
<1>1. OnInvocation(g, r) = Diagnostic(g) \/ OnInvocation(g, r) = h
  BY DEF OnInvocation
<1>2. Grew(g, d)
  BY DefineGrows
<1> HIDE DEF d, k
<1>3. GraphTyped(d)
  BY <1>2 DEF Grew
<1>4. /\ DOMAIN h = GraphFields /\ \A x \in GraphFields \ {"counts"} : h[x] = d[x]
      /\ h.counts = Put(d.counts, SiteOf(r), CountAt(d.counts, SiteOf(r)) + 1)
  BY <1>3, TypedFields DEF GraphFields, Bump
<1> HIDE DEF h
<1>5. CountAt(d.counts, SiteOf(r)) + 1 \in Nat
  BY <1>3, CountAtIs, TypedFields
<1>6. /\ h.counts \in [DOMAIN h.counts -> Nat]
      /\ DOMAIN h.counts \subseteq Nat \X Nat /\ IsFiniteSet(DOMAIN h.counts)
  <2>1. PICK n : n = CountAt(d.counts, SiteOf(r)) + 1
    OBVIOUS
  <2>2. n \in Nat
    BY <1>5, <2>1
  <2>3. /\ Put(d.counts, SiteOf(r), n) \in [DOMAIN Put(d.counts, SiteOf(r), n) -> Nat]
        /\ DOMAIN Put(d.counts, SiteOf(r), n) \subseteq Nat \X Nat
        /\ IsFiniteSet(DOMAIN Put(d.counts, SiteOf(r), n))
    BY ONLY <1>3, <2>2, SiteOf(r) \in Nat \X Nat, CountsPut, Zenon
  <2>4. h.counts = Put(d.counts, SiteOf(r), n)
    BY <1>4, <2>1
  <2> QED
    BY ONLY <2>3, <2>4
<1>7. GraphTyped(h)
  BY <1>3, <1>4, <1>6, TypedFields DEF GraphFields, GraphTyped
<1>8. Grew(g, h)
  BY <1>2, <1>4, <1>7 DEF Grew, GraphFields
<1> QED
  BY <1>1, <1>8, DiagnosticIs

\* A relation: both ends become nodes before the edge is counted.
LEMMA RelationGrows ==
  ASSUME NEW g, GraphTyped(g), NEW r
  PROVE  Grew(g, OnRelation(g, r)) /\ OnRelation(g, r).diags = g.diags
<1> DEFINE from == Invocation(r.inv)
           to   == Thunk(r, g.records)
           p    == Placeholder(g, from)
           q    == Placeholder(p, to)
           h    == [q EXCEPT !.edges = Bump(q.edges, EdgeOf(r, g.records), 1),
                             !.forces = IF r.event = "force" THEN q.forces + 1 ELSE q.forces]
<1>1. OnRelation(g, r) = h
  BY DEF OnRelation
<1>2. Grew(g, p) /\ p.diags = g.diags /\ DOMAIN p.nodes = DOMAIN g.nodes \cup {from}
  BY PlaceholderIs
<1>3. GraphTyped(p)
  BY <1>2 DEF Grew
<1> HIDE DEF p
<1>4. Grew(p, q) /\ q.diags = g.diags /\ DOMAIN q.nodes = DOMAIN g.nodes \cup {from, to}
  BY <1>2, <1>3, PlaceholderIs
<1> HIDE DEF q
<1>5. GraphTyped(q) /\ Grew(g, q)
  BY <1>2, <1>4, TypedFields DEF Grew
<1>6. /\ DOMAIN h = GraphFields /\ \A x \in GraphFields \ {"edges", "forces"} : h[x] = q[x]
      /\ h.edges = Bump(q.edges, EdgeOf(r, g.records), 1)
      /\ h.forces = q.forces + 1 \/ h.forces = q.forces
  BY <1>5, TypedFields DEF GraphFields
<1> HIDE DEF h
<1>7. \A e \in DOMAIN h.edges : e[1] \in DOMAIN q.nodes /\ e[2] \in DOMAIN q.nodes
  <2>1. DOMAIN h.edges = DOMAIN q.edges \cup {EdgeOf(r, g.records)}
    BY <1>6 DEF Bump, Put
  <2>2. EdgeOf(r, g.records)[1] = from /\ EdgeOf(r, g.records)[2] = to
    BY DEF EdgeOf
  <2> HIDE DEF from, to
  <2> QED
    BY <1>4, <1>5, <2>1, <2>2, TypedFields
<1>8. GraphTyped(h)
  BY <1>5, <1>6, <1>7, TypedFields DEF GraphFields, GraphTyped
<1>9. Grew(g, h) /\ h.diags = g.diags
  BY <1>4, <1>5, <1>6, <1>8 DEF Grew, GraphFields
<1> QED
  BY <1>1, <1>9

\* A saturated sum is a number, and the sum itself unless it is past the top.
LEMMA SaturatedIs ==
  ASSUME NEW n \in Nat
  PROVE  Saturated(n) \in Nat /\ (n <= EgTop => Saturated(n) = n)
<1>1. EgTop \in Nat
  BY EgAssumption
<1>2. PICK S : S = {n, EgTop}
  OBVIOUS
<1>3. \E m \in S : \A x \in S : m <= x
  BY <1>1, <1>2
<1>4. Min(S) \in S /\ \A x \in S : Min(S) <= x
  BY <1>3 DEF Min
<1>5. PICK m : m = Min(S)
  OBVIOUS
<1>6. m \in {n, EgTop} /\ m <= n /\ m <= EgTop
  BY <1>2, <1>4, <1>5
<1>7. Saturated(n) = m
  BY <1>2, <1>5 DEF Saturated
<1> QED
  BY <1>1, <1>6, <1>7

\* The row of a run is noted, then its numbers are added.
Noted(g, e, s) == [g EXCEPT !.runs[e].sites = @ \cup {s}]
\* Only the sites of that run change.
LEMMA RowNoted ==
  ASSUME NEW g, GraphTyped(g), NEW e \in DOMAIN g.runs, NEW s \in Nat, NEW h, h = Noted(g, e, s)
  PROVE  /\ DOMAIN h = GraphFields /\ \A x \in GraphFields \ {"runs"} : h[x] = g[x]
         /\ DOMAIN h.runs = DOMAIN g.runs /\ \A x \in DOMAIN g.runs : x # e => h.runs[x] = g.runs[x]
         /\ RunOk(h.runs[e]) /\ h.runs[e].module = g.runs[e].module
         /\ h.runs[e].terminal = g.runs[e].terminal
         /\ h.runs[e].sites = g.runs[e].sites \cup {s}
<1>1. RunOk(g.runs[e]) /\ DOMAIN g = GraphFields
  BY TypedFields
<1>2. PICK run : run = [g.runs[e] EXCEPT !.sites = @ \cup {s}]
  OBVIOUS
<1>3. IsFiniteSet(g.runs[e].sites \cup {s})
  BY <1>1, FS_AddElement DEF RunOk
<1>4. /\ RunOk(run) /\ run.module = g.runs[e].module /\ run.terminal = g.runs[e].terminal
      /\ run.sites = g.runs[e].sites \cup {s}
  BY <1>1, <1>2, <1>3 DEF RunOk
<1>5. PICK runs : runs = [g.runs EXCEPT ![e] = run]
  OBVIOUS
<1>6. h = [g EXCEPT !.runs = runs]
  BY <1>2, <1>5 DEF Noted
<1>7. /\ DOMAIN h = GraphFields /\ h.runs = runs
      /\ \A x \in GraphFields \ {"runs"} : h[x] = g[x]
  BY <1>1, <1>6 DEF GraphFields
<1>8. /\ DOMAIN runs = DOMAIN g.runs /\ runs[e] = run
      /\ \A x \in DOMAIN g.runs : x # e => runs[x] = g.runs[x]
  BY <1>5
<1> QED
  BY <1>4, <1>7, <1>8

\* A change of one run leaves a graph.
LEMMA RunsPut ==
  ASSUME NEW g, GraphTyped(g), NEW h, DOMAIN h = GraphFields,
         \A x \in GraphFields \ {"runs"} : h[x] = g[x],
         NEW e, DOMAIN h.runs = DOMAIN g.runs \cup {e},
         \A x \in DOMAIN g.runs : x # e => h.runs[x] = g.runs[x], RunOk(h.runs[e])
  PROVE  Grew(g, h)
<1>1. IsFiniteSet(DOMAIN h.runs)
  <2>1. IsFiniteSet(DOMAIN g.runs)
    BY TypedFields
  <2> QED
    BY <2>1, FS_AddElement
<1>2. \A x \in DOMAIN h.runs : RunOk(h.runs[x])
  BY TypedFields
<1> QED
  BY <1>1, <1>2, TypedFields DEF GraphFields, GraphTyped, Grew

\* add_counts's three sums.
Overflows(g, k, n, o) == g.overflow \/ o \/ CountAt(g.counts, k) + n > EgTop \/ g.forces + n > EgTop
Added(g, h, k, n, o) ==
  /\ \A x \in GraphFields \ {"counts", "forces", "overflow"} : h[x] = g[x]
  /\ h.counts = Put(g.counts, k, Saturated(CountAt(g.counts, k) + n))
  /\ h.forces = Saturated(g.forces + n)
  /\ h.overflow = Overflows(g, k, n, o)

\* add_counts changes these three, as said.
LEMMA AddIs ==
  ASSUME NEW g, GraphTyped(g), NEW k \in Nat \X Nat, NEW n \in Nat, NEW o \in BOOLEAN, NEW h,
         h = AddCounts(g, k, n, o)
  PROVE  Grew(g, h) /\ Added(g, h, k, n, o)
<1>1. CountAt(g.counts, k) \in Nat /\ g.forces \in Nat
  BY CountAtIs, TypedFields
<1>2. PICK v \in Nat : v = Saturated(CountAt(g.counts, k) + n)
  BY <1>1, SaturatedIs
<1>3. PICK w \in Nat : w = Saturated(g.forces + n)
  BY <1>1, SaturatedIs
<1>4. PICK p \in BOOLEAN : p = Overflows(g, k, n, o)
  BY Zenon DEF Overflows
<1>5. h = [g EXCEPT !.counts = Put(g.counts, k, v), !.forces = w, !.overflow = p]
  BY <1>2, <1>3, <1>4 DEF AddCounts, Overflows
<1>6. /\ DOMAIN h = GraphFields /\ \A x \in GraphFields \ {"counts", "forces", "overflow"} : h[x] = g[x]
      /\ h.counts = Put(g.counts, k, v) /\ h.forces = w /\ h.overflow = p
  BY <1>5, TypedFields DEF GraphFields
<1>7. /\ h.counts \in [DOMAIN h.counts -> Nat]
      /\ DOMAIN h.counts \subseteq Nat \X Nat /\ IsFiniteSet(DOMAIN h.counts)
  <2>1. /\ Put(g.counts, k, v) \in [DOMAIN Put(g.counts, k, v) -> Nat]
        /\ DOMAIN Put(g.counts, k, v) \subseteq Nat \X Nat
        /\ IsFiniteSet(DOMAIN Put(g.counts, k, v))
    BY ONLY GraphTyped(g), CountsPut, Zenon
  <2> QED
    BY ONLY <1>6, <2>1
<1>8. Grew(g, h)
  BY <1>6, <1>7, TypedFields DEF GraphFields, GraphTyped, Grew
<1> QED
  BY <1>2, <1>3, <1>4, <1>6, <1>8 DEF Added

\* A row of counts that is accepted.
LEMMA CountsGrows ==
  ASSUME NEW g, GraphTyped(g), NEW r, r.event = "counts", Readable(r)
  PROVE  Grew(g, OnCounts(g, r))
<1>1. CASE g.mode # "counts" \/ ~CountsRowOk(g, r)
  BY <1>1, DiagnosticIs DEF OnCounts
<1>2. CASE ~(g.mode # "counts" \/ ~CountsRowOk(g, r))
  <2>1. /\ SiteOf(r) \in Nat \X Nat /\ r.n \in Nat /\ r.overflow \in BOOLEAN /\ r.exec \in DOMAIN g.runs
        /\ r.site \in Nat
    BY <1>2 DEF Readable, CountsRowOk, SiteOf
  <2>2. PICK d : d = Noted(g, r.exec, r.site)
    OBVIOUS
  <2>3. PICK h : h = AddCounts(d, SiteOf(r), r.n, r.overflow)
    OBVIOUS
  <2>4. OnCounts(g, r) = h
    BY <1>2, <2>2, <2>3 DEF OnCounts, Noted
  <2>5. /\ DOMAIN d = GraphFields /\ \A x \in GraphFields \ {"runs"} : d[x] = g[x]
        /\ DOMAIN d.runs = DOMAIN g.runs /\ \A x \in DOMAIN g.runs : x # r.exec => d.runs[x] = g.runs[x]
        /\ RunOk(d.runs[r.exec])
    BY ONLY GraphTyped(g), <2>1, <2>2, RowNoted
  <2>6. DOMAIN d.runs = DOMAIN g.runs \cup {r.exec}
    BY <2>1, <2>5
  <2>7. Grew(g, d)
    BY ONLY GraphTyped(g), <2>5, <2>6, RunsPut
  <2>8. GraphTyped(d)
    BY <2>7 DEF Grew
  <2>9. Grew(d, h)
    BY ONLY <2>1, <2>3, <2>8, AddIs
  <2>10. g.diags \in Nat /\ d.diags \in Nat /\ h.diags \in Nat
    BY <2>7, <2>9, TypedFields DEF Grew
  <2> QED
    BY <2>4, <2>7, <2>9, <2>10 DEF Grew
<1> QED
  BY <1>1, <1>2

NewRun(r) == [module |-> r.module, terminal |-> FALSE, sites |-> {}]

\* A start or an end that is accepted.
LEMMA ExecutionIs ==
  ASSUME NEW g, GraphTyped(g), NEW r, g.mode = "counts", NEW h, h = OnExecution(g, r), r.module \in Nat
  PROVE  \/ h = Diagnostic(g)
         \/ /\ DOMAIN h = GraphFields /\ \A x \in GraphFields \ {"runs"} : h[x] = g[x]
            /\ r.status = "start" /\ r.exec \notin DOMAIN g.runs
            /\ DOMAIN h.runs = DOMAIN g.runs \cup {r.exec}
            /\ \A x \in DOMAIN g.runs : x # r.exec => h.runs[x] = g.runs[x]
            /\ RunOk(h.runs[r.exec]) /\ h.runs[r.exec] = NewRun(r)
         \/ /\ DOMAIN h = GraphFields /\ \A x \in GraphFields \ {"runs"} : h[x] = g[x]
            /\ r.status # "start" /\ r.exec \in DOMAIN g.runs
            /\ DOMAIN h.runs = DOMAIN g.runs \cup {r.exec}
            /\ \A x \in DOMAIN g.runs : x # r.exec => h.runs[x] = g.runs[x]
            /\ RunOk(h.runs[r.exec]) /\ h.runs[r.exec].module = g.runs[r.exec].module
            /\ h.runs[r.exec].sites = g.runs[r.exec].sites
<1>0. DOMAIN g = GraphFields
  BY TypedFields
<1>1. CASE r.status = "start" /\ r.exec \notin DOMAIN g.runs
  <2>1. PICK runs : runs = Put(g.runs, r.exec, NewRun(r))
    OBVIOUS
  <2>2. h = [g EXCEPT !.runs = runs]
    BY <1>1, <2>1 DEF OnExecution, NewRun
  <2>3. /\ DOMAIN h = GraphFields /\ h.runs = runs
        /\ \A x \in GraphFields \ {"runs"} : h[x] = g[x]
    BY <1>0, <2>2 DEF GraphFields
  <2>4. /\ DOMAIN runs = DOMAIN g.runs \cup {r.exec} /\ runs[r.exec] = NewRun(r)
        /\ \A x \in DOMAIN g.runs : x # r.exec => runs[x] = g.runs[x]
    BY <2>1 DEF Put
  <2>5. IsFiniteSet({})
    BY FS_EmptySet
  <2>6. RunOk(NewRun(r))
    BY <2>5 DEF NewRun, RunOk
  <2> QED
    BY <1>1, <2>3, <2>4, <2>6
<1>2. CASE /\ r.status # "start" /\ r.exec \in DOMAIN g.runs
           /\ ~g.runs[r.exec].terminal /\ g.runs[r.exec].module = r.module
  <2>1. PICK run : run = [g.runs[r.exec] EXCEPT !.terminal = TRUE]
    OBVIOUS
  <2>2. PICK runs : runs = [g.runs EXCEPT ![r.exec] = run]
    OBVIOUS
  <2>3. h = [g EXCEPT !.runs = runs]
    BY <1>2, <2>1, <2>2 DEF OnExecution
  <2>4. /\ DOMAIN h = GraphFields /\ h.runs = runs
        /\ \A x \in GraphFields \ {"runs"} : h[x] = g[x]
    BY <1>0, <2>3 DEF GraphFields
  <2>5. RunOk(g.runs[r.exec])
    BY <1>2, TypedFields
  <2>6. RunOk(run) /\ run.module = g.runs[r.exec].module /\ run.sites = g.runs[r.exec].sites
    BY <2>1, <2>5 DEF RunOk
  <2>7. /\ DOMAIN runs = DOMAIN g.runs /\ runs[r.exec] = run
        /\ \A x \in DOMAIN g.runs : x # r.exec => runs[x] = g.runs[x]
    BY <1>2, <2>2
  <2> QED
    BY <1>2, <2>4, <2>6, <2>7
<1>3. CASE /\ ~(r.status = "start" /\ r.exec \notin DOMAIN g.runs)
           /\ ~(/\ r.status # "start" /\ r.exec \in DOMAIN g.runs
                /\ ~g.runs[r.exec].terminal /\ g.runs[r.exec].module = r.module)
  BY <1>3, Zenon DEF OnExecution
<1> QED
  BY <1>1, <1>2, <1>3

\* An execution line, in either mode.
LEMMA ExecutionGrows ==
  ASSUME NEW g, GraphTyped(g), NEW r, r.event = "execution", Readable(r)
  PROVE  Grew(g, OnExecution(g, r))
<1>1. CASE g.mode # "counts"
  <2>1. OnExecution(g, r) = g
    BY <1>1 DEF OnExecution
  <2> QED
    BY <2>1, TypedFields DEF Grew
<1>2. CASE g.mode = "counts"
  <2>1. PICK h : h = OnExecution(g, r)
    OBVIOUS
  <2>2. r.module \in Nat
    BY DEF Readable
  <2>3. \/ h = Diagnostic(g)
        \/ /\ DOMAIN h = GraphFields /\ \A x \in GraphFields \ {"runs"} : h[x] = g[x]
           /\ DOMAIN h.runs = DOMAIN g.runs \cup {r.exec}
           /\ \A x \in DOMAIN g.runs : x # r.exec => h.runs[x] = g.runs[x]
           /\ RunOk(h.runs[r.exec])
    BY ONLY GraphTyped(g), <1>2, <2>1, <2>2, ExecutionIs
  <2>4. Grew(g, h)
    BY ONLY GraphTyped(g), <2>3, RunsPut, DiagnosticIs
  <2> QED
    BY <2>1, <2>4
<1> QED
  BY <1>1, <1>2

\* Any record.
LEMMA RecordGrows ==
  ASSUME NEW g, GraphTyped(g), NEW r, Readable(r)
  PROVE  Grew(g, RecordLine(g, r))
<1>1. Grew(g, Diagnostic(g))
  BY DiagnosticIs
<1>2. r.event = "module" => Grew(g, OnModule(g, r))
  BY ModuleGrows
<1>3. r.event = "site" => Grew(g, OnSite(g, r))
  BY SiteGrows DEF Readable
<1>4. Grew(g, OnAllocation(g, r))
  BY DefineGrows DEF OnAllocation
<1>5. r.event = "invocation" => Grew(g, OnInvocation(g, r))
  BY InvocationGrows DEF Readable
<1>6. Grew(g, OnRelation(g, r))
  BY RelationGrows
<1>7. Grew(g, OnCache(g, r))
  BY PlaceholderIs DEF OnCache
<1>8. r.event = "counts" => Grew(g, OnCounts(g, r))
  BY CountsGrows
<1>9. r.event = "execution" => Grew(g, OnExecution(g, r))
  BY ExecutionGrows
<1> QED
  BY <1>1, <1>2, <1>3, <1>4, <1>5, <1>6, <1>7, <1>8, <1>9, Zenon DEF RecordLine

-----------------------------------------------------------------------------
(* A line that brings no diagnostic *)

\* All fields but those of F are as they were.
Same(g, h, F) == \A x \in GraphFields \ F : h[x] = g[x]

\* A module line is clean when its module is new.
LEMMA ModuleClean ==
  ASSUME NEW g, GraphTyped(g), NEW r, NEW h, h = OnModule(g, r), h.diags = g.diags
  PROVE  r.module \notin g.modules /\ h.modules = g.modules \cup {r.module} /\ Same(g, h, {"modules"})
<1>1. h # Diagnostic(g)
  BY DiagnosticIs, TypedFields
<1>2. r.module \notin g.modules /\ h = [g EXCEPT !.modules = @ \cup {r.module}]
  BY <1>1 DEF OnModule
<1> QED
  BY <1>2, TypedFields DEF GraphFields, Same

\* A site line is clean when its site is new.
LEMMA SiteClean ==
  ASSUME NEW g, GraphTyped(g), NEW r, NEW h, h = OnSite(g, r), h.diags = g.diags
  PROVE  SiteOf(r) \notin g.sites /\ h.sites = g.sites \cup {SiteOf(r)} /\ Same(g, h, {"sites"})
<1>1. h # Diagnostic(g)
  BY DiagnosticIs, TypedFields
<1>2. SiteOf(r) \notin g.sites /\ h = [g EXCEPT !.sites = @ \cup {SiteOf(r)}]
  BY <1>1 DEF OnSite
<1> QED
  BY <1>2, TypedFields DEF GraphFields, Same

\* A definition is clean when its node was not defined.
LEMMA DefineClean ==
  ASSUME NEW g, GraphTyped(g), NEW k, NEW h, h = Define(g, k), h.diags = g.diags
  PROVE  /\ ~Defined(g, k) /\ DOMAIN h.nodes = DOMAIN g.nodes \cup {k} /\ Same(g, h, {"nodes"})
         /\ {x \in DOMAIN h.nodes : h.nodes[x]} = {x \in DOMAIN g.nodes : g.nodes[x]} \cup {k}
<1>1. h # Diagnostic(g)
  BY DiagnosticIs, TypedFields
<1>2. PICK nodes : nodes = Put(g.nodes, k, TRUE)
  OBVIOUS
<1>3. ~Defined(g, k) /\ h = [g EXCEPT !.nodes = nodes]
  BY <1>1, <1>2 DEF Define, Defined
<1>4. h.nodes = nodes /\ Same(g, h, {"nodes"})
  BY <1>3, TypedFields DEF GraphFields, Same
<1>5. /\ DOMAIN nodes = DOMAIN g.nodes \cup {k} /\ nodes[k]
      /\ \A x \in DOMAIN g.nodes : x # k => nodes[x] = g.nodes[x]
  BY <1>2 DEF Put
<1> QED
  BY <1>3, <1>4, <1>5

\* An invocation is clean when its node was not defined; its site is counted once more.
LEMMA InvocationClean ==
  ASSUME NEW g, GraphTyped(g), NEW r, NEW h, h = OnInvocation(g, r), h.diags = g.diags
  PROVE  /\ ~Defined(g, Invocation(r.inv)) /\ DOMAIN h.nodes = DOMAIN g.nodes \cup {Invocation(r.inv)}
         /\ {x \in DOMAIN h.nodes : h.nodes[x]}
              = {x \in DOMAIN g.nodes : g.nodes[x]} \cup {Invocation(r.inv)}
         /\ h.counts = Bump(g.counts, SiteOf(r), 1) /\ Same(g, h, {"nodes", "counts"})
<1>1. h # Diagnostic(g)
  BY DiagnosticIs, TypedFields
<1>2. PICK k : k = Invocation(r.inv)
  OBVIOUS
<1>3. PICK d : d = Define(g, k)
  OBVIOUS
<1>4. ~Defined(g, k) /\ h = [d EXCEPT !.counts = Bump(@, SiteOf(r), 1)]
  BY <1>1, <1>2, <1>3 DEF OnInvocation
<1>5. Grew(g, d)
  BY <1>3, DefineGrows
<1>6. DOMAIN d = GraphFields
  BY <1>5, TypedFields DEF Grew
<1>7. h.counts = Bump(d.counts, SiteOf(r), 1) /\ Same(d, h, {"counts"})
  BY <1>4, <1>6 DEF GraphFields, Same
<1>8. d.diags = g.diags /\ h.nodes = d.nodes
  BY <1>7 DEF GraphFields, Same
<1>9. /\ DOMAIN d.nodes = DOMAIN g.nodes \cup {k} /\ Same(g, d, {"nodes"})
      /\ {x \in DOMAIN d.nodes : d.nodes[x]} = {x \in DOMAIN g.nodes : g.nodes[x]} \cup {k}
  BY ONLY GraphTyped(g), <1>3, <1>8, DefineClean
<1>10. d.counts = g.counts
  BY <1>9 DEF GraphFields, Same
<1>11. Same(g, h, {"nodes", "counts"})
  BY <1>7, <1>9 DEF Same
<1> QED
  BY <1>2, <1>4, <1>7, <1>8, <1>9, <1>10, <1>11

\* A placeholder never brings a diagnostic, and the defined nodes stay the same.
LEMMA PlaceholderClean ==
  ASSUME NEW g, GraphTyped(g), NEW k, NEW h, h = Placeholder(g, k)
  PROVE  /\ GraphTyped(h) /\ DOMAIN h.nodes = DOMAIN g.nodes \cup {k} /\ Same(g, h, {"nodes"})
         /\ {x \in DOMAIN h.nodes : h.nodes[x]} = {x \in DOMAIN g.nodes : g.nodes[x]}
<1>1. /\ Grew(g, h) /\ DOMAIN h.nodes = DOMAIN g.nodes \cup {k}
      /\ \A x : Defined(h, x) <=> Defined(g, x)
      /\ \A x \in GraphFields \ {"nodes"} : h[x] = g[x]
  BY PlaceholderIs
<1>2. {x \in DOMAIN h.nodes : h.nodes[x]} = {x \in DOMAIN g.nodes : g.nodes[x]}
  BY <1>1, Zenon DEF Defined
<1> QED
  BY <1>1, <1>2 DEF Grew, Same

\* Nor does a relation.
LEMMA RelationClean ==
  ASSUME NEW g, GraphTyped(g), NEW r, NEW h, h = OnRelation(g, r)
  PROVE  /\ DOMAIN h.nodes = DOMAIN g.nodes \cup {Invocation(r.inv), Thunk(r, g.records)}
         /\ {x \in DOMAIN h.nodes : h.nodes[x]} = {x \in DOMAIN g.nodes : g.nodes[x]}
         /\ h.edges = Bump(g.edges, EdgeOf(r, g.records), 1) /\ Same(g, h, {"nodes", "edges", "forces"})
<1>1. PICK p : p = Placeholder(g, Invocation(r.inv))
  OBVIOUS
<1>2. PICK q : q = Placeholder(p, Thunk(r, g.records))
  OBVIOUS
<1>3. h = [q EXCEPT !.edges = Bump(@, EdgeOf(r, g.records), 1),
                    !.forces = IF r.event = "force" THEN @ + 1 ELSE @]
  BY <1>1, <1>2 DEF OnRelation
<1>4. /\ GraphTyped(p) /\ DOMAIN p.nodes = DOMAIN g.nodes \cup {Invocation(r.inv)}
      /\ Same(g, p, {"nodes"})
      /\ {x \in DOMAIN p.nodes : p.nodes[x]} = {x \in DOMAIN g.nodes : g.nodes[x]}
  BY ONLY GraphTyped(g), <1>1, PlaceholderClean
<1>5. /\ GraphTyped(q) /\ DOMAIN q.nodes = DOMAIN p.nodes \cup {Thunk(r, g.records)}
      /\ Same(p, q, {"nodes"})
      /\ {x \in DOMAIN q.nodes : q.nodes[x]} = {x \in DOMAIN p.nodes : p.nodes[x]}
  BY ONLY <1>2, <1>4, PlaceholderClean
<1>6. /\ h.edges = Bump(q.edges, EdgeOf(r, g.records), 1) /\ Same(q, h, {"edges", "forces"})
      /\ h.nodes = q.nodes
  BY <1>3, <1>5, TypedFields DEF GraphFields, Same
<1>7. q.edges = g.edges
  BY <1>4, <1>5 DEF GraphFields, Same
<1>8. Same(g, h, {"nodes", "edges", "forces"})
  BY <1>4, <1>5, <1>6 DEF Same
<1> QED
  BY <1>4, <1>5, <1>6, <1>7, <1>8

\* A row of counts is clean when it passed every check of CountsRowOk.
LEMMA CountsClean ==
  ASSUME NEW g, GraphTyped(g), NEW r, r.event = "counts", Readable(r), NEW h, h = OnCounts(g, r),
         h.diags = g.diags
  PROVE  /\ g.mode = "counts" /\ CountsRowOk(g, r)
         /\ DOMAIN h.runs = DOMAIN g.runs /\ \A x \in DOMAIN g.runs : x # r.exec => h.runs[x] = g.runs[x]
         /\ h.runs[r.exec].module = g.runs[r.exec].module
         /\ h.runs[r.exec].terminal = g.runs[r.exec].terminal
         /\ h.runs[r.exec].sites = g.runs[r.exec].sites \cup {r.site}
         /\ h.counts = Put(g.counts, SiteOf(r), Saturated(CountAt(g.counts, SiteOf(r)) + r.n))
         /\ h.forces = Saturated(g.forces + r.n)
         /\ h.overflow = Overflows(g, SiteOf(r), r.n, r.overflow)
         /\ Same(g, h, {"runs", "counts", "forces", "overflow"})
<1>0. h # Diagnostic(g)
  BY DiagnosticIs, TypedFields
<1>1. g.mode = "counts" /\ CountsRowOk(g, r)
  BY <1>0 DEF OnCounts
<1>2. /\ SiteOf(r) \in Nat \X Nat /\ r.n \in Nat /\ r.overflow \in BOOLEAN /\ r.exec \in DOMAIN g.runs
      /\ r.site \in Nat
  BY <1>1 DEF Readable, CountsRowOk, SiteOf
<1>3. PICK d : d = Noted(g, r.exec, r.site)
  OBVIOUS
<1>4. h = AddCounts(d, SiteOf(r), r.n, r.overflow)
  BY <1>1, <1>3 DEF OnCounts, Noted
<1>5. /\ DOMAIN d = GraphFields /\ \A x \in GraphFields \ {"runs"} : d[x] = g[x]
      /\ DOMAIN d.runs = DOMAIN g.runs /\ \A x \in DOMAIN g.runs : x # r.exec => d.runs[x] = g.runs[x]
      /\ RunOk(d.runs[r.exec]) /\ d.runs[r.exec].module = g.runs[r.exec].module
      /\ d.runs[r.exec].terminal = g.runs[r.exec].terminal
      /\ d.runs[r.exec].sites = g.runs[r.exec].sites \cup {r.site}
  BY ONLY GraphTyped(g), <1>2, <1>3, RowNoted
<1>6. DOMAIN d.runs = DOMAIN g.runs \cup {r.exec}
  BY <1>2, <1>5
<1>7. Grew(g, d)
  BY ONLY GraphTyped(g), <1>5, <1>6, RunsPut
<1>8. GraphTyped(d)
  BY <1>7 DEF Grew
<1>9. Added(d, h, SiteOf(r), r.n, r.overflow)
  <2>1. SiteOf(r) \in Nat \X Nat /\ r.n \in Nat /\ r.overflow \in BOOLEAN
    BY <1>2
  <2> QED
    BY ONLY <2>1, <1>4, <1>8, AddIs, Zenon
<1>10. d.counts = g.counts /\ d.forces = g.forces /\ d.overflow = g.overflow /\ h.runs = d.runs
  BY <1>5, <1>9 DEF GraphFields, Added
<1>12. Overflows(d, SiteOf(r), r.n, r.overflow) = Overflows(g, SiteOf(r), r.n, r.overflow)
  BY <1>10, Zenon DEF Overflows
<1>11. Same(g, h, {"runs", "counts", "forces", "overflow"})
  BY <1>5, <1>9 DEF Same, Added
<1> QED
  BY ONLY <1>1, <1>5, <1>9, <1>10, <1>11, <1>12 DEF Added

\* The line is counted first.
Counted(g) == [g EXCEPT !.records = @ + 1]

\* Only the number of records changes.
LEMMA CountedIs ==
  ASSUME NEW g0, GraphTyped(g0), NEW g, g = Counted(g0)
  PROVE  GraphTyped(g) /\ g.records = g0.records + 1 /\ Same(g0, g, {"records"})
<1>1. /\ DOMAIN g = GraphFields /\ \A x \in GraphFields \ {"records"} : g[x] = g0[x]
      /\ g.records = g0.records + 1
  BY TypedFields DEF GraphFields, Counted
<1>2. GraphTyped(g)
  BY <1>1, TypedFields DEF GraphFields, GraphTyped
<1> QED
  BY <1>1, <1>2 DEF Same

\* The footer is noted.
FooterSeen(g) == [g EXCEPT !.footer = TRUE]

\* Only the footer's mark changes.
LEMMA FooterSeenIs ==
  ASSUME NEW g, GraphTyped(g), NEW h, h = FooterSeen(g)
  PROVE  /\ GraphTyped(h) /\ h.footer /\ Same(g, h, {"footer"})
         /\ h.mode = g.mode /\ h.records = g.records /\ h.diags = g.diags
<1>1. /\ DOMAIN h = GraphFields /\ \A x \in GraphFields \ {"footer"} : h[x] = g[x] /\ h.footer
  BY TypedFields DEF GraphFields, FooterSeen
<1>2. h.footer
  BY TypedFields DEF GraphFields, FooterSeen
<1>3. h.footer \in BOOLEAN
  BY TypedFields DEF GraphFields, FooterSeen
<1>4. GraphTyped(h)
  BY <1>1, <1>3, TypedFields DEF GraphFields, GraphTyped
<1> QED
  BY <1>1, <1>2, <1>4 DEF Same, GraphFields

\* With or without a diagnostic.
MaybeDiagnostic(g, h) == h = g \/ h = Diagnostic(g)

\* As many diagnostics as before means none was added.
LEMMA MaybeGrows ==
  ASSUME NEW g, GraphTyped(g), NEW h, MaybeDiagnostic(g, h)
  PROVE  Grew(g, h) /\ (h.diags = g.diags => h = g)
<1>1. CASE h = g
  BY <1>1, TypedFields DEF Grew
<1>2. CASE h = Diagnostic(g)
  <2>1. Grew(g, h) /\ h.diags = g.diags + 1
    BY <1>2, DiagnosticIs
  <2> QED
    BY <2>1, TypedFields
<1> QED
  BY <1>1, <1>2 DEF MaybeDiagnostic

\* What a clean line is, and what it does.
CleanStep(g, h, r) ==
  /\ r.event # "torn"
  /\ IF r.event = "footer" THEN r.complete /\ h.footer /\ Same(g, h, {"footer"})
                           ELSE h = RecordLine(g, r) /\ h.diags = g.diags

\* Any line leaves a graph; one that brings no diagnostic is no torn line, comes
\* before any footer, and is a whole footer or a clean record.
LEMMA ReadIs ==
  ASSUME NEW g0, GraphTyped(g0), NEW r, Readable(r), NEW g, g = Counted(g0), NEW h, h = ReadLine(g0, r)
  PROVE  /\ GraphTyped(h) /\ h.mode = g0.mode /\ h.records = g0.records + 1 /\ h.diags >= g0.diags
         /\ h.diags = g0.diags => ~g0.footer /\ CleanStep(g, h, r)
<1>1. GraphTyped(g) /\ g.records = g0.records + 1 /\ Same(g0, g, {"records"})
  BY CountedIs
<1>2. g.mode = g0.mode /\ g.diags = g0.diags /\ g.footer = g0.footer
  BY <1>1 DEF Same, GraphFields
<1>3. g.diags \in Nat /\ g.footer \in BOOLEAN
  BY <1>1, TypedFields
<1>4. PICK after : after = IF g.footer /\ r.event # "torn" THEN Diagnostic(g) ELSE g
  OBVIOUS
<1>5. h = CASE r.event = "torn" -> Diagnostic(g)
            [] r.event = "footer" -> Footer(after, r)
            [] OTHER -> RecordLine(after, r)
  BY <1>4 DEF ReadLine, Counted
<1>6. /\ MaybeDiagnostic(g, after)
      /\ after = g /\ r.event # "torn" => ~g.footer
  <2>1. Diagnostic(g) # g
    BY <1>1, <1>3, DiagnosticIs
  <2> QED
    BY <1>4, <2>1 DEF MaybeDiagnostic
<1>7. Grew(g, after) /\ (after.diags = g.diags => after = g)
  BY ONLY <1>1, <1>6, MaybeGrows
<1>8. GraphTyped(after) /\ after.diags \in Nat /\ after.diags >= g.diags
  BY <1>7, TypedFields DEF Grew
<1>9. CASE r.event = "torn"
  <2>1. h = Diagnostic(g)
    BY <1>5, <1>9
  <2>2. Grew(g, h) /\ h.diags = g.diags + 1
    BY <1>1, <2>1, DiagnosticIs
  <2> QED
    BY <1>1, <1>2, <1>3, <2>2 DEF Grew
<1>10. CASE r.event = "footer"
  <2>1. h = Footer(after, r)
    BY <1>5, <1>10
  <2>2. PICK declared : declared = IF r.complete /\ ~r.wrong THEN after ELSE Diagnostic(after)
    OBVIOUS
  <2>3. PICK last : last = IF after.footer THEN Diagnostic(declared) ELSE declared
    OBVIOUS
  <2>4. h = FooterSeen(last)
    BY <2>1, <2>2, <2>3 DEF Footer, FooterSeen
  <2>5. MaybeDiagnostic(after, declared) /\ MaybeDiagnostic(declared, last)
    BY <2>2, <2>3 DEF MaybeDiagnostic
  <2>6. Grew(after, declared) /\ (declared.diags = after.diags => declared = after)
    BY ONLY <1>8, <2>5, MaybeGrows
  <2>7. GraphTyped(declared) /\ declared.diags \in Nat
    BY <2>6, TypedFields DEF Grew
  <2>8. Grew(declared, last) /\ (last.diags = declared.diags => last = declared)
    BY ONLY <2>5, <2>7, MaybeGrows
  <2>9. GraphTyped(last) /\ last.diags \in Nat
    BY <2>8, TypedFields DEF Grew
  <2>10. /\ GraphTyped(h) /\ h.footer /\ Same(last, h, {"footer"})
         /\ h.mode = last.mode /\ h.records = last.records /\ h.diags = last.diags
    BY ONLY <2>4, <2>9, FooterSeenIs
  <2>11. /\ GraphTyped(h) /\ h.mode = g0.mode /\ h.records = g0.records + 1 /\ h.diags >= g0.diags
    BY <1>1, <1>2, <1>3, <1>7, <1>8, <2>6, <2>7, <2>8, <2>9, <2>10 DEF Grew
  <2>12. ASSUME h.diags = g0.diags PROVE ~g0.footer /\ CleanStep(g, h, r)
    <3>1. after.diags >= g.diags /\ declared.diags >= after.diags /\ last.diags >= declared.diags
      BY <1>7, <2>6, <2>8 DEF Grew
    <3>2. after.diags = g.diags /\ declared.diags = after.diags /\ last.diags = declared.diags
      BY <1>2, <1>3, <1>8, <2>7, <2>9, <2>10, <2>12, <3>1
    <3>3. after = g /\ declared = after /\ last = declared
      BY <1>7, <2>6, <2>8, <3>2
    <3>4. ~g0.footer
      BY <1>2, <1>6, <1>10, <3>3
    <3>5. r.complete
      <4>1. Diagnostic(after) # after
        BY <1>8, DiagnosticIs
      <4> QED
        BY <2>2, <3>3, <4>1
    <3> QED
      BY <1>10, <2>10, <3>3, <3>4, <3>5 DEF CleanStep
  <2> QED
    BY <2>11, <2>12
<1>11. CASE r.event # "torn" /\ r.event # "footer"
  <2>1. h = RecordLine(after, r)
    BY <1>5, <1>11
  <2>2. Grew(after, h)
    BY ONLY <1>8, <2>1, Readable(r), RecordGrows
  <2>3. h.diags \in Nat
    BY <2>2, TypedFields DEF Grew
  <2>4. /\ GraphTyped(h) /\ h.mode = g0.mode /\ h.records = g0.records + 1 /\ h.diags >= g0.diags
    BY <1>1, <1>2, <1>3, <1>7, <1>8, <2>2, <2>3 DEF Grew
  <2>5. ASSUME h.diags = g0.diags PROVE ~g0.footer /\ CleanStep(g, h, r)
    <3>1. after.diags >= g.diags /\ h.diags >= after.diags
      BY <1>7, <2>2 DEF Grew
    <3>2. after.diags = g.diags
      BY <1>2, <1>3, <1>8, <2>3, <2>5, <3>1
    <3>3. after = g
      BY <1>7, <3>2
    <3> QED
      BY <1>2, <1>6, <1>11, <2>1, <2>5, <3>3 DEF CleanStep
  <2> QED
    BY <2>4, <2>5
<1> QED
  BY <1>9, <1>10, <1>11

-----------------------------------------------------------------------------
(* The graph of the lines read so far, when none brought a diagnostic *)

IsFile(f) == \E S : f \in Seq(S)

\* At most one footer, and nothing behind it.
FooterIs(footer, f) ==
  /\ Lines(f, {"torn"}) = {}
  /\ IF footer THEN f # <<>> /\ Lines(f, {"footer"}) = {Len(f)} /\ f[Len(f)].complete
             ELSE Lines(f, {"footer"}) = {}

\* Modules and sites are those of their lines, one line each.
ModulesAre(modules, f) ==
  /\ modules = {f[i].module : i \in Lines(f, {"module"})}
  /\ \A i, j \in Lines(f, {"module"}) : f[i].module = f[j].module => i = j

SitesAre(sites, f) ==
  /\ sites = {SiteOf(f[i]) : i \in Lines(f, {"site"})}
  /\ \A i, j \in Lines(f, {"site"}) : SiteOf(f[i]) = SiteOf(f[j]) => i = j

\* The defined nodes are those of their lines, one line each, and what a line
\* names is a node.
Definitions(f) == {Invocation(f[i].inv) : i \in Lines(f, {"invocation"})}
                  \cup {<<"thunk", f[i].thunk>> : i \in Lines(f, {"allocation"})}
NodesAre(nodes, f) ==
  /\ {x \in DOMAIN nodes : nodes[x]} = Definitions(f)
  /\ \A i, j \in Lines(f, {"invocation"}) : f[i].inv = f[j].inv => i = j
  /\ \A i, j \in Lines(f, {"allocation"}) : f[i].thunk = f[j].thunk => i = j
  /\ \A i \in Lines(f, RelationEvents \cup {"cache"}) : Invocation(f[i].inv) \in DOMAIN nodes
  /\ \A i \in Lines(f, RelationEvents) : Thunk(f[i], i + 1) \in DOMAIN nodes

\* The tables of a detailed graph.
Invoked(f) == [i \in Lines(f, {"invocation"}) |-> SiteOf(f[i])]
Related(f) == [i \in Lines(f, RelationEvents) |-> EdgeOf(f[i], i + 1)]
TablesAre(counts, edges, f) ==
  counts = Tally(Invoked(f)) /\ edges = Tally(Related(f)) /\ Lines(f, {"counts"}) = {}

\* The executions of a table of counts, one start each.
RunsAre(runs, f) ==
  /\ DOMAIN runs = {f[i].exec : i \in Starts(f)}
  /\ \A i, j \in Starts(f) : f[i].exec = f[j].exec => i = j
  /\ \A i \in Starts(f) :
       /\ runs[f[i].exec].module = f[i].module
       /\ runs[f[i].exec].terminal =>
            \E j \in Lines(f, {"execution"}) \ Starts(f) : j > i /\ f[j].exec = f[i].exec

\* Its rows: one for each site an execution has counted.
RowIs(runs, sites, row) ==
  /\ row.exec \in DOMAIN runs /\ runs[row.exec].module = row.module
  /\ row.site \in runs[row.exec].sites /\ SiteOf(row) \in sites
RowsAre(runs, sites, f) ==
  /\ \A i \in Lines(f, {"counts"}) : RowIs(runs, sites, f[i])
  /\ \A i, j \in Lines(f, {"counts"}) : f[i].exec = f[j].exec /\ f[i].site = f[j].site => i = j
  /\ \A e \in DOMAIN runs : \A s \in runs[e].sites :
       \E i \in Lines(f, {"counts"}) : f[i].exec = e /\ f[i].site = s

\* Its sums, unless one overflowed.
Units(f, S) == UNION {{i} \X (1 .. f[i].n) : i \in S}
SumsAre(counts, forces, overflow, f) ==
  /\ DOMAIN counts = {SiteOf(f[i]) : i \in Lines(f, {"counts"})}
  /\ IsFiniteSet(Units(f, Lines(f, {"counts"})))
  /\ ~overflow => /\ forces = SumOf(f, Lines(f, {"counts"}))
                  /\ \A k \in DOMAIN counts : counts[k] = SumOf(f, RowsAt(f, k))

DetailEvents == RelationEvents \cup {"allocation", "invocation", "cache"}
Clean(g, f) ==
  /\ FooterIs(g.footer, f) /\ ModulesAre(g.modules, f) /\ SitesAre(g.sites, f)
  /\ g.mode = "detail" => NodesAre(g.nodes, f) /\ TablesAre(g.counts, g.edges, f)
  /\ g.mode = "counts" => /\ RunsAre(g.runs, f) /\ RowsAre(g.runs, g.sites, f)
                          /\ SumsAre(g.counts, g.forces, g.overflow, f)
                          /\ Lines(f, DetailEvents) = {}

\* The importer's part of the invariant.
Built(g, f) ==
  /\ IsFile(f) /\ \A i \in DOMAIN f : Readable(f[i])
  /\ GraphTyped(g) /\ g.records = Len(f) + 1 /\ Cardinality(DOMAIN g.counts) <= EgNodeLimit
  /\ g.diags = 0 => Clean(g, f)

\* The lines are numbered from 1.
LEMMA FileIs ==
  ASSUME NEW f, IsFile(f)
  PROVE  Len(f) \in Nat /\ DOMAIN f = 1 .. Len(f)
<1>1. PICK S : f \in Seq(S)
  BY DEF IsFile
<1> QED
  BY <1>1

\* A file, and the file with one line more.
Grown(f, h, r, n) ==
  /\ n = Len(f) + 1 /\ n \in Nat /\ n \notin DOMAIN f /\ DOMAIN h = DOMAIN f \cup {n}
  /\ DOMAIN f = 1 .. Len(f) /\ Len(f) \in Nat /\ Len(h) = n /\ h # <<>>
  /\ h[n] = r /\ \A i \in DOMAIN f : h[i] = f[i]

\* Reading one line more.
LEMMA GrownIs ==
  ASSUME NEW f, IsFile(f), NEW r, NEW h, h = Append(f, r)
  PROVE  IsFile(h) /\ Grown(f, h, r, Len(f) + 1)
<1>1. PICK S : f \in Seq(S)
  BY DEF IsFile
<1>2. PICK T : T = S \cup {r}
  OBVIOUS
<1>3. f \in Seq(T) /\ r \in T
  BY <1>1, <1>2
<1>4. h \in Seq(T) /\ Len(h) = Len(f) + 1 /\ h[Len(f) + 1] = r /\ \A i \in 1 .. Len(f) : h[i] = f[i]
  BY <1>3
<1>5. IsFile(h)
  BY <1>4 DEF IsFile
<1>6. DOMAIN f = 1 .. Len(f) /\ Len(f) \in Nat /\ DOMAIN h = 1 .. Len(f) + 1
  BY <1>1, <1>4
<1>7. 1 .. Len(f) + 1 = 1 .. Len(f) \cup {Len(f) + 1}
  BY <1>6
<1>8. h # <<>>
  BY <1>4, <1>6
<1> QED
  BY <1>4, <1>5, <1>6, <1>7, <1>8 DEF Grown

\* The lines of some events, after one line more.
LEMMA LinesIs ==
  ASSUME NEW f, NEW h, NEW r, NEW n, Grown(f, h, r, n), NEW E
  PROVE  /\ Lines(h, E) = Lines(f, E) \cup (IF r.event \in E THEN {n} ELSE {})
         /\ \A i \in Lines(f, E) : h[i] = f[i] /\ i # n /\ i < n /\ i \in DOMAIN f /\ i \in Nat
         /\ r.event \notin E => Lines(h, E) = Lines(f, E)
         /\ r.event \in E => Lines(h, E) = Lines(f, E) \cup {n}
         /\ h[n] = r /\ n \in Nat /\ n \notin Lines(f, E)
<1>1. \A i : i \in Lines(h, E) <=> i \in Lines(f, E) \/ (i = n /\ r.event \in E)
  BY DEF Lines, Grown
<1>2. \A i \in Lines(f, E) : h[i] = f[i] /\ i # n /\ i < n /\ i \in DOMAIN f /\ i \in Nat
  BY DEF Lines, Grown
<1>3. h[n] = r /\ n \in Nat /\ n \notin Lines(f, E)
  BY DEF Lines, Grown
<1> QED
  BY <1>1, <1>2, <1>3

\* The starts of executions, after one line more.
LEMMA StartsIs ==
  ASSUME NEW f, NEW h, NEW r, NEW n, Grown(f, h, r, n)
  PROVE  /\ r.event = "execution" /\ r.status = "start" => Starts(h) = Starts(f) \cup {n}
         /\ ~(r.event = "execution" /\ r.status = "start") => Starts(h) = Starts(f)
         /\ \A i \in Starts(f) : i \in Lines(f, {"execution"})
<1>1. \A i \in Lines(f, {"execution"}) : h[i] = f[i] /\ i # n
  BY LinesIs
<1>2. /\ r.event \notin {"execution"} => Lines(h, {"execution"}) = Lines(f, {"execution"})
      /\ r.event \in {"execution"} => Lines(h, {"execution"}) = Lines(f, {"execution"}) \cup {n}
      /\ h[n] = r
  BY LinesIs
<1> QED
  BY <1>1, <1>2 DEF Starts

-----------------------------------------------------------------------------
(* Lines that are none of a part's own *)

\* A record keeps a file without footer so.
LEMMA FooterFrame ==
  ASSUME NEW f, NEW h, NEW r, NEW n, Grown(f, h, r, n), r.event # "torn", r.event # "footer",
         FooterIs(FALSE, f)
  PROVE  FooterIs(FALSE, h)
<1>1. Lines(h, {"torn"}) = Lines(f, {"torn"}) /\ Lines(h, {"footer"}) = Lines(f, {"footer"})
  BY LinesIs
<1> QED
  BY <1>1 DEF FooterIs

\* The first footer.
LEMMA FooterGrown ==
  ASSUME NEW f, NEW h, NEW r, NEW n, Grown(f, h, r, n), r.event = "footer", r.complete,
         FooterIs(FALSE, f)
  PROVE  FooterIs(TRUE, h)
<1>1. Lines(h, {"torn"}) = Lines(f, {"torn"}) /\ Lines(h, {"footer"}) = Lines(f, {"footer"}) \cup {n}
  BY LinesIs
<1>2. n = Len(h) /\ h # <<>> /\ h[Len(h)].complete
  BY DEF Grown
<1> QED
  BY <1>1, <1>2 DEF FooterIs

\* A line that is no module.
LEMMA ModulesFrame ==
  ASSUME NEW f, NEW h, NEW r, NEW n, Grown(f, h, r, n), r.event # "module", NEW m, ModulesAre(m, f)
  PROVE  ModulesAre(m, h)
<1>1. Lines(h, {"module"}) = Lines(f, {"module"}) /\ \A i \in Lines(f, {"module"}) : h[i] = f[i]
  BY LinesIs
<1> QED
  BY <1>1 DEF ModulesAre

\* The line of a new module.
LEMMA ModulesGrown ==
  ASSUME NEW f, NEW h, NEW r, NEW n, Grown(f, h, r, n), r.event = "module", NEW m, ModulesAre(m, f),
         r.module \notin m
  PROVE  ModulesAre(m \cup {r.module}, h)
<1>1. /\ Lines(h, {"module"}) = Lines(f, {"module"}) \cup {n} /\ h[n] = r
      /\ \A i \in Lines(f, {"module"}) : h[i] = f[i]
  BY LinesIs
<1> QED
  BY <1>1 DEF ModulesAre

\* A line that is no site.
LEMMA SitesFrame ==
  ASSUME NEW f, NEW h, NEW r, NEW n, Grown(f, h, r, n), r.event # "site", NEW m, SitesAre(m, f)
  PROVE  SitesAre(m, h)
<1>1. Lines(h, {"site"}) = Lines(f, {"site"}) /\ \A i \in Lines(f, {"site"}) : h[i] = f[i]
  BY LinesIs
<1> QED
  BY <1>1 DEF SitesAre

\* The line of a new site.
LEMMA SitesGrown ==
  ASSUME NEW f, NEW h, NEW r, NEW n, Grown(f, h, r, n), r.event = "site", NEW m, SitesAre(m, f),
         SiteOf(r) \notin m
  PROVE  SitesAre(m \cup {SiteOf(r)}, h)
<1>1. /\ Lines(h, {"site"}) = Lines(f, {"site"}) \cup {n} /\ h[n] = r
      /\ \A i \in Lines(f, {"site"}) : h[i] = f[i]
  BY LinesIs
<1> QED
  BY <1>1 DEF SitesAre

-----------------------------------------------------------------------------
(* The nodes and tables of a detailed graph *)

\* The keys of nodes never collide: an unresolved thunk is never a defined one.
LEMMA KeysApart ==
  /\ \A a, b : Invocation(a) = Invocation(b) => a = b
  /\ \A a, b : <<"thunk", a>> = <<"thunk", b>> => a = b
  /\ \A a, b : Invocation(a) # <<"thunk", b>>
  /\ \A a, b : Invocation(a) # <<"unresolved", b>> /\ <<"thunk", a>> # <<"unresolved", b>>
BY DEF Invocation

\* What a line defines.
DefinedBy(r) == IF r.event = "invocation" THEN {Invocation(r.inv)}
                ELSE IF r.event = "allocation" THEN {<<"thunk", r.thunk>>} ELSE {}

\* What one line more defines.
LEMMA DefinitionsIs ==
  ASSUME NEW f, NEW h, NEW r, NEW n, Grown(f, h, r, n)
  PROVE  Definitions(h) = Definitions(f) \cup DefinedBy(r)
<1>1. PICK I : I = {"invocation"}
  OBVIOUS
<1>2. PICK A : A = {"allocation"}
  OBVIOUS
<1>3. /\ Lines(h, I) = Lines(f, I) \cup (IF r.event \in I THEN {n} ELSE {}) /\ h[n] = r
      /\ \A i \in Lines(f, I) : h[i] = f[i]
  BY LinesIs
<1>4. /\ Lines(h, A) = Lines(f, A) \cup (IF r.event \in A THEN {n} ELSE {})
      /\ \A i \in Lines(f, A) : h[i] = f[i]
  BY LinesIs
<1>5. {Invocation(h[i].inv) : i \in Lines(h, I)}
        = {Invocation(f[i].inv) : i \in Lines(f, I)}
            \cup (IF r.event \in I THEN {Invocation(r.inv)} ELSE {})
  BY <1>3
<1>6. {<<"thunk", h[i].thunk>> : i \in Lines(h, A)}
        = {<<"thunk", f[i].thunk>> : i \in Lines(f, A)}
            \cup (IF r.event \in A THEN {<<"thunk", r.thunk>>} ELSE {})
  BY <1>4, <1>3
<1>7. DefinedBy(r) = (IF r.event \in I THEN {Invocation(r.inv)} ELSE {})
                       \cup (IF r.event \in A THEN {<<"thunk", r.thunk>>} ELSE {})
  BY <1>1, <1>2 DEF DefinedBy
<1> QED
  BY <1>1, <1>2, <1>5, <1>6, <1>7 DEF Definitions

\* A line of a detailed capture: what it names is a node, what it defines was not.
LEMMA NodesStep ==
  ASSUME NEW f, NEW h, NEW r, NEW n, Grown(f, h, r, n), NEW a, NEW b, NodesAre(a, f),
         DOMAIN a \subseteq DOMAIN b,
         {x \in DOMAIN b : b[x]} = {x \in DOMAIN a : a[x]} \cup DefinedBy(r),
         DefinedBy(r) \cap {x \in DOMAIN a : a[x]} = {},
         r.event \in RelationEvents \cup {"cache"} => Invocation(r.inv) \in DOMAIN b,
         r.event \in RelationEvents => Thunk(r, n + 1) \in DOMAIN b
  PROVE  NodesAre(b, h)
<1>1. {x \in DOMAIN b : b[x]} = Definitions(h)
  BY DefinitionsIs DEF NodesAre
<1>2. \A i, j \in Lines(h, {"invocation"}) : h[i].inv = h[j].inv => i = j
  <2>1. /\ Lines(h, {"invocation"})
             = Lines(f, {"invocation"}) \cup (IF r.event \in {"invocation"} THEN {n} ELSE {})
        /\ h[n] = r /\ \A i \in Lines(f, {"invocation"}) : h[i] = f[i]
    BY LinesIs
  <2>2. r.event = "invocation" => \A i \in Lines(f, {"invocation"}) : f[i].inv # r.inv
    BY DEF DefinedBy, Definitions, NodesAre
  <2> QED
    BY <2>1, <2>2 DEF NodesAre
<1>3. \A i, j \in Lines(h, {"allocation"}) : h[i].thunk = h[j].thunk => i = j
  <2>1. /\ Lines(h, {"allocation"})
             = Lines(f, {"allocation"}) \cup (IF r.event \in {"allocation"} THEN {n} ELSE {})
        /\ h[n] = r /\ \A i \in Lines(f, {"allocation"}) : h[i] = f[i]
    BY LinesIs
  <2>2. ASSUME r.event = "allocation", NEW i \in Lines(f, {"allocation"}) PROVE f[i].thunk # r.thunk
    <3>1. <<"thunk", f[i].thunk>> \in {x \in DOMAIN a : a[x]}
      BY DEF Definitions, NodesAre
    <3>2. DefinedBy(r) = {<<"thunk", r.thunk>>}
      BY <2>2 DEF DefinedBy
    <3> QED
      BY <3>1, <3>2
  <2> QED
    BY <2>1, <2>2 DEF NodesAre
<1>4. \A i \in Lines(h, RelationEvents \cup {"cache"}) : Invocation(h[i].inv) \in DOMAIN b
  <2>1. PICK E : E = RelationEvents \cup {"cache"}
    OBVIOUS
  <2>2. /\ Lines(h, E) = Lines(f, E) \cup (IF r.event \in E THEN {n} ELSE {})
        /\ h[n] = r /\ \A i \in Lines(f, E) : h[i] = f[i]
    BY LinesIs
  <2>3. \A i \in Lines(f, E) : Invocation(f[i].inv) \in DOMAIN a
    BY <2>1 DEF NodesAre
  <2>4. \A i \in Lines(h, E) : Invocation(h[i].inv) \in DOMAIN b
    BY <2>1, <2>2, <2>3
  <2> QED
    BY <2>1, <2>4
<1>5. \A i \in Lines(h, RelationEvents) : Thunk(h[i], i + 1) \in DOMAIN b
  <2>2. /\ Lines(h, RelationEvents)
             = Lines(f, RelationEvents) \cup (IF r.event \in RelationEvents THEN {n} ELSE {})
        /\ h[n] = r /\ \A i \in Lines(f, RelationEvents) : h[i] = f[i]
    BY LinesIs
  <2>3. \A i \in Lines(f, RelationEvents) : Thunk(f[i], i + 1) \in DOMAIN a
    BY DEF NodesAre
  <2> QED
    BY <2>2, <2>3
<1> QED
  BY <1>1, <1>2, <1>3, <1>4, <1>5 DEF NodesAre

\* One line more with key k.
LEMMA TallyBump ==
  ASSUME NEW K, IsFiniteSet(DOMAIN K), NEW n, n \notin DOMAIN K, NEW k, NEW L, L = Put(K, n, k)
  PROVE  Tally(L) = Bump(Tally(K), k, 1)
<1>0. L = [i \in DOMAIN K \cup {n} |-> IF i = n THEN k ELSE K[i]]
  BY DEF Put
<1>1. Range(L) = Range(K) \cup {k}
  BY <1>0 DEF Range
<1> DEFINE at(F, x) == {i \in DOMAIN F : F[i] = x}
<1>2. /\ \A x \in Range(K) : x # k => at(L, x) = at(K, x)
      /\ at(L, k) = at(K, k) \cup {n} /\ n \notin at(K, k)
      /\ k \notin Range(K) => at(K, k) = {}
  BY <1>0 DEF Range
<1>3. IsFiniteSet(at(K, k))
  BY FS_Subset
<1>4. Cardinality(at(L, k)) = Cardinality(at(K, k)) + 1 /\ Cardinality(at(K, k)) \in Nat
  BY <1>2, <1>3, FS_AddElement, FS_CardinalityType
<1>5. k \notin Range(K) => Cardinality(at(K, k)) = 0
  BY <1>2, FS_EmptySet
<1>6. /\ DOMAIN Tally(K) = Range(K) /\ DOMAIN Tally(L) = Range(L)
      /\ \A x \in Range(K) : Tally(K)[x] = Cardinality(at(K, x))
      /\ \A x \in Range(L) : Tally(L)[x] = Cardinality(at(L, x))
      /\ Tally(L) = [x \in Range(L) |-> Cardinality(at(L, x))]
  BY DEF Tally
<1>7. CountAt(Tally(K), k) = Cardinality(at(K, k))
  BY <1>5, <1>6 DEF CountAt
<1>8. Bump(Tally(K), k, 1) = [x \in Range(K) \cup {k} |-> IF x = k THEN Cardinality(at(K, k)) + 1 ELSE Tally(K)[x]]
  BY <1>6, <1>7 DEF Bump, Put
<1> HIDE DEF at
<1>9. \A x \in Range(L) : Cardinality(at(L, x)) = IF x = k THEN Cardinality(at(K, k)) + 1 ELSE Tally(K)[x]
  BY <1>1, <1>2, <1>4, <1>6
<1> QED
  BY <1>1, <1>6, <1>8, <1>9

\* The lines of a file are finitely many.
LEMMA LinesFinite ==
  ASSUME NEW f, IsFile(f), NEW E
  PROVE  IsFiniteSet(Lines(f, E))
<1>1. Len(f) \in Nat /\ DOMAIN f = 1 .. Len(f)
  BY FileIs
<1>2. 1 \in Int /\ Len(f) \in Int
  BY <1>1
<1>3. IsFiniteSet(1 .. Len(f))
  BY <1>2, FS_Interval
<1>4. Lines(f, E) \subseteq 1 .. Len(f)
  BY <1>1 DEF Lines
<1> QED
  BY <1>3, <1>4, FS_Subset

\* A line that no table counts.
LEMMA TablesFrame ==
  ASSUME NEW f, NEW h, NEW r, NEW n, Grown(f, h, r, n),
         r.event \notin RelationEvents \cup {"invocation", "counts"}, NEW c, NEW e, TablesAre(c, e, f)
  PROVE  TablesAre(c, e, h)
<1>1. Lines(h, {"counts"}) = {}
  <2>1. r.event \notin {"counts"}
    OBVIOUS
  <2> QED
    BY <2>1, LinesIs DEF TablesAre
<1>2. Invoked(h) = Invoked(f)
  <2>1. r.event \notin {"invocation"}
    OBVIOUS
  <2>2. Lines(h, {"invocation"}) = Lines(f, {"invocation"}) /\ \A i \in Lines(f, {"invocation"}) : h[i] = f[i]
    BY <2>1, LinesIs
  <2> QED
    BY <2>2 DEF Invoked
<1>3. Related(h) = Related(f)
  <2>1. r.event \notin RelationEvents
    OBVIOUS
  <2>2. Lines(h, RelationEvents) = Lines(f, RelationEvents) /\ \A i \in Lines(f, RelationEvents) : h[i] = f[i]
    BY <2>1, LinesIs
  <2> QED
    BY <2>2 DEF Related
<1> QED
  BY <1>1, <1>2, <1>3 DEF TablesAre

\* An invocation in the table of sites.
LEMMA TablesInvoked ==
  ASSUME NEW f, IsFile(f), NEW h, NEW r, NEW n, Grown(f, h, r, n), r.event = "invocation",
         NEW c, NEW e, TablesAre(c, e, f)
  PROVE  TablesAre(Bump(c, SiteOf(r), 1), e, h)
<1>1. Lines(h, {"counts"}) = {}
  <2>1. r.event \notin {"counts"}
    OBVIOUS
  <2> QED
    BY <2>1, LinesIs DEF TablesAre
<1>2. PICK K : K = Invoked(f)
  OBVIOUS
<1>3. DOMAIN K = Lines(f, {"invocation"}) /\ \A i \in DOMAIN K : K[i] = SiteOf(f[i])
  BY <1>2 DEF Invoked
<1>4. IsFiniteSet(DOMAIN K) /\ n \notin DOMAIN K
  BY <1>3, LinesFinite, LinesIs
<1>5. PICK L : L = Put(K, n, SiteOf(r))
  OBVIOUS
<1>6. Invoked(h) = L
  <2>1. r.event \in {"invocation"}
    OBVIOUS
  <2>2. /\ Lines(h, {"invocation"}) = Lines(f, {"invocation"}) \cup {n} /\ h[n] = r
        /\ \A i \in Lines(f, {"invocation"}) : h[i] = f[i] /\ i # n
    BY <2>1, LinesIs
  <2>3. \A i \in DOMAIN K \cup {n} : SiteOf(h[i]) = IF i = n THEN SiteOf(r) ELSE K[i]
    BY <1>3, <2>2
  <2>4. Invoked(h) = [i \in DOMAIN K \cup {n} |-> SiteOf(h[i])]
    BY <1>3, <2>2 DEF Invoked
  <2> QED
    BY <1>5, <2>3, <2>4 DEF Put
<1>7. Tally(L) = Bump(Tally(K), SiteOf(r), 1)
  BY ONLY <1>4, <1>5, TallyBump, Zenon
<1>8. Related(h) = Related(f)
  <2>1. r.event \notin RelationEvents
    BY DEF RelationEvents
  <2>2. Lines(h, RelationEvents) = Lines(f, RelationEvents) /\ \A i \in Lines(f, RelationEvents) : h[i] = f[i]
    BY <2>1, LinesIs
  <2> QED
    BY <2>2 DEF Related
<1> QED
  BY <1>1, <1>2, <1>6, <1>7, <1>8 DEF TablesAre

\* A relation in the table of edges.
LEMMA TablesRelated ==
  ASSUME NEW f, IsFile(f), NEW h, NEW r, NEW n, Grown(f, h, r, n), r.event \in RelationEvents,
         NEW c, NEW e, TablesAre(c, e, f)
  PROVE  TablesAre(c, Bump(e, EdgeOf(r, n + 1), 1), h)
<1>1. Lines(h, {"counts"}) = {}
  <2>1. r.event \notin {"counts"}
    BY DEF RelationEvents
  <2> QED
    BY <2>1, LinesIs DEF TablesAre
<1>2. PICK K : K = Related(f)
  OBVIOUS
<1>3. DOMAIN K = Lines(f, RelationEvents) /\ \A i \in DOMAIN K : K[i] = EdgeOf(f[i], i + 1)
  BY <1>2 DEF Related
<1>4. IsFiniteSet(DOMAIN K) /\ n \notin DOMAIN K
  BY <1>3, LinesFinite, LinesIs
<1>5. PICK L : L = Put(K, n, EdgeOf(r, n + 1))
  OBVIOUS
<1>6. Related(h) = L
  <2>1. /\ Lines(h, RelationEvents) = Lines(f, RelationEvents) \cup {n} /\ h[n] = r
        /\ \A i \in Lines(f, RelationEvents) : h[i] = f[i] /\ i # n
    BY LinesIs
  <2>2. \A i \in DOMAIN K \cup {n} : EdgeOf(h[i], i + 1) = IF i = n THEN EdgeOf(r, n + 1) ELSE K[i]
    BY <1>3, <2>1
  <2>3. Related(h) = [i \in DOMAIN K \cup {n} |-> EdgeOf(h[i], i + 1)]
    BY <1>3, <2>1 DEF Related
  <2> QED
    BY <1>5, <2>2, <2>3 DEF Put
<1>7. Tally(L) = Bump(Tally(K), EdgeOf(r, n + 1), 1)
  BY ONLY <1>4, <1>5, TallyBump, Zenon
<1>8. Invoked(h) = Invoked(f)
  <2>1. r.event \notin {"invocation"}
    BY DEF RelationEvents
  <2>2. Lines(h, {"invocation"}) = Lines(f, {"invocation"}) /\ \A i \in Lines(f, {"invocation"}) : h[i] = f[i]
    BY <2>1, LinesIs
  <2> QED
    BY <2>2 DEF Invoked
<1> QED
  BY <1>1, <1>2, <1>6, <1>7, <1>8 DEF TablesAre

-----------------------------------------------------------------------------
(* The executions, rows and sums of a table of counts *)

\* A line that is no execution leaves the runs, if their module and end stay.
LEMMA RunsFrame ==
  ASSUME NEW f, NEW h, NEW r, NEW n, Grown(f, h, r, n), r.event # "execution", NEW a, NEW b,
         RunsAre(a, f), DOMAIN b = DOMAIN a,
         \A x \in DOMAIN a : b[x].module = a[x].module /\ b[x].terminal = a[x].terminal
  PROVE  RunsAre(b, h)
<1>1. /\ Lines(h, {"execution"}) = Lines(f, {"execution"})
      /\ \A i \in Lines(f, {"execution"}) : h[i] = f[i]
  BY LinesIs
<1>2. Starts(h) = Starts(f) /\ \A i \in Starts(f) : h[i] = f[i] /\ f[i].exec \in DOMAIN a
  BY <1>1, StartsIs DEF RunsAre
<1>3. DOMAIN b = {h[i].exec : i \in Starts(h)}
  BY <1>2 DEF RunsAre
<1>4. \A i, j \in Starts(h) : h[i].exec = h[j].exec => i = j
  BY <1>2 DEF RunsAre
<1>5. ASSUME NEW i \in Starts(h)
      PROVE  /\ b[h[i].exec].module = h[i].module
             /\ b[h[i].exec].terminal =>
                  \E j \in Lines(h, {"execution"}) \ Starts(h) : j > i /\ h[j].exec = h[i].exec
  <2>1. PICK e : e = f[i].exec /\ e = h[i].exec /\ e \in DOMAIN a
    BY <1>2
  <2>2. b[e].module = a[e].module /\ b[e].terminal = a[e].terminal
    BY <2>1
  <2>3. a[e].module = f[i].module
    BY <1>2, <2>1 DEF RunsAre
  <2>4. a[e].terminal => \E j \in Lines(f, {"execution"}) \ Starts(f) : j > i /\ f[j].exec = e
    BY <1>2, <2>1 DEF RunsAre
  <2> QED
    BY <1>1, <1>2, <2>1, <2>2, <2>3, <2>4
<1> QED
  BY <1>3, <1>4, <1>5 DEF RunsAre

\* The start of a new execution.
LEMMA RunsStarted ==
  ASSUME NEW f, NEW h, NEW r, NEW n, Grown(f, h, r, n), r.event = "execution", r.status = "start",
         NEW a, NEW b, RunsAre(a, f), r.exec \notin DOMAIN a, DOMAIN b = DOMAIN a \cup {r.exec},
         \A x \in DOMAIN a : x # r.exec => b[x] = a[x], b[r.exec] = NewRun(r)
  PROVE  RunsAre(b, h)
<1>1. /\ Lines(h, {"execution"}) = Lines(f, {"execution"}) \cup {n} /\ h[n] = r
      /\ \A i \in Lines(f, {"execution"}) : h[i] = f[i] /\ i # n
  BY LinesIs
<1>2. Starts(h) = Starts(f) \cup {n} /\ \A i \in Starts(f) : h[i] = f[i] /\ i # n /\ f[i].exec \in DOMAIN a
  BY <1>1, StartsIs DEF RunsAre
<1>3. DOMAIN b = {h[i].exec : i \in Starts(h)}
  BY <1>1, <1>2 DEF RunsAre
<1>4. \A i, j \in Starts(h) : h[i].exec = h[j].exec => i = j
  BY <1>1, <1>2 DEF RunsAre
<1>5. ASSUME NEW i \in Starts(h)
      PROVE  /\ b[h[i].exec].module = h[i].module
             /\ b[h[i].exec].terminal =>
                  \E j \in Lines(h, {"execution"}) \ Starts(h) : j > i /\ h[j].exec = h[i].exec
  <2>1. CASE i = n
    BY <1>1, <2>1 DEF NewRun
  <2>2. CASE i # n
    <3>1. PICK e : e = f[i].exec /\ e = h[i].exec /\ e \in DOMAIN a
      BY <1>2, <2>2
    <3>2. b[e] = a[e]
      BY <3>1
    <3>3. a[e].module = f[i].module
      BY <1>2, <2>2, <3>1 DEF RunsAre
    <3>4. a[e].terminal => \E j \in Lines(f, {"execution"}) \ Starts(f) : j > i /\ f[j].exec = e
      BY <1>2, <2>2, <3>1 DEF RunsAre
    <3> QED
      BY <1>1, <1>2, <2>2, <3>1, <3>2, <3>3, <3>4
  <2> QED
    BY <2>1, <2>2
<1> QED
  BY <1>3, <1>4, <1>5 DEF RunsAre

\* Its end, behind its start.
LEMMA RunsEnded ==
  ASSUME NEW f, NEW h, NEW r, NEW n, Grown(f, h, r, n), r.event = "execution", r.status # "start",
         NEW a, NEW b, RunsAre(a, f), r.exec \in DOMAIN a, DOMAIN b = DOMAIN a \cup {r.exec},
         \A x \in DOMAIN a : x # r.exec => b[x] = a[x], b[r.exec].module = a[r.exec].module
  PROVE  RunsAre(b, h)
<1>1. /\ Lines(h, {"execution"}) = Lines(f, {"execution"}) \cup {n} /\ h[n] = r /\ n \in Nat
      /\ \A i \in Lines(f, {"execution"}) : h[i] = f[i] /\ i # n /\ i < n /\ i \in Nat
  BY LinesIs
<1>2. /\ Starts(h) = Starts(f) /\ n \notin Starts(f)
      /\ \A i \in Starts(f) : h[i] = f[i] /\ i # n /\ n > i /\ f[i].exec \in DOMAIN a
  BY <1>1, StartsIs DEF RunsAre
<1>3. DOMAIN b = {h[i].exec : i \in Starts(h)}
  BY <1>2 DEF RunsAre
<1>4. \A i, j \in Starts(h) : h[i].exec = h[j].exec => i = j
  BY <1>2 DEF RunsAre
<1>5. ASSUME NEW i \in Starts(h)
      PROVE  /\ b[h[i].exec].module = h[i].module
             /\ b[h[i].exec].terminal =>
                  \E j \in Lines(h, {"execution"}) \ Starts(h) : j > i /\ h[j].exec = h[i].exec
  <2>1. PICK e : e = f[i].exec /\ e = h[i].exec /\ e \in DOMAIN a
    BY <1>2
  <2>2. a[e].module = f[i].module
    BY <1>2, <2>1 DEF RunsAre
  <2>3. CASE e = r.exec
    BY <1>1, <1>2, <2>1, <2>2, <2>3
  <2>4. CASE e # r.exec
    <3>1. b[e] = a[e]
      BY <2>1, <2>4
    <3>2. a[e].terminal => \E j \in Lines(f, {"execution"}) \ Starts(f) : j > i /\ f[j].exec = e
      BY <1>2, <2>1 DEF RunsAre
    <3> QED
      BY <1>1, <1>2, <2>1, <2>2, <3>1, <3>2
  <2> QED
    BY <2>3, <2>4
<1> QED
  BY <1>3, <1>4, <1>5 DEF RunsAre

\* A line that is no row, and runs whose sites stay.
LEMMA RowsFrame ==
  ASSUME NEW f, NEW h, NEW r, NEW n, Grown(f, h, r, n), r.event # "counts", NEW a, NEW b, NEW s, NEW t,
         RowsAre(a, s, f), DOMAIN a \subseteq DOMAIN b, s \subseteq t,
         \A x \in DOMAIN a : b[x].module = a[x].module /\ b[x].sites = a[x].sites,
         \A x \in DOMAIN b : x \notin DOMAIN a => b[x].sites = {}
  PROVE  RowsAre(b, t, h)
<1>1. /\ Lines(h, {"counts"}) = Lines(f, {"counts"}) /\ \A i \in Lines(f, {"counts"}) : h[i] = f[i]
  BY LinesIs
<1>2. ASSUME NEW i \in Lines(h, {"counts"}) PROVE RowIs(b, t, h[i])
  BY <1>1 DEF RowsAre, RowIs
<1>3. \A i, j \in Lines(h, {"counts"}) : h[i].exec = h[j].exec /\ h[i].site = h[j].site => i = j
  BY <1>1 DEF RowsAre
<1>4. ASSUME NEW e \in DOMAIN b, NEW k \in b[e].sites
      PROVE  \E i \in Lines(h, {"counts"}) : h[i].exec = e /\ h[i].site = k
  <2>1. e \in DOMAIN a /\ k \in a[e].sites
    OBVIOUS
  <2>2. PICK i \in Lines(f, {"counts"}) : f[i].exec = e /\ f[i].site = k
    BY <2>1 DEF RowsAre
  <2> QED
    BY <1>1, <2>2
<1> QED
  BY <1>2, <1>3, <1>4 DEF RowsAre

\* The first row of an execution at a site.
LEMMA RowsGrown ==
  ASSUME NEW f, NEW h, NEW r, NEW n, Grown(f, h, r, n), r.event = "counts", NEW a, NEW b, NEW s,
         RowsAre(a, s, f), r.exec \in DOMAIN a, a[r.exec].module = r.module,
         r.site \notin a[r.exec].sites, SiteOf(r) \in s, DOMAIN b = DOMAIN a,
         \A x \in DOMAIN a : x # r.exec => b[x] = a[x],
         b[r.exec].module = a[r.exec].module, b[r.exec].sites = a[r.exec].sites \cup {r.site}
  PROVE  RowsAre(b, s, h)
<1>1. /\ Lines(h, {"counts"}) = Lines(f, {"counts"}) \cup {n} /\ h[n] = r
      /\ \A i \in Lines(f, {"counts"}) : h[i] = f[i] /\ i # n
  BY LinesIs
<1>2. ASSUME NEW i \in Lines(h, {"counts"}) PROVE RowIs(b, s, h[i])
  <2>1. CASE i = n
    BY <1>1, <2>1 DEF RowIs
  <2>2. CASE i # n
    <3>1. RowIs(a, s, f[i]) /\ h[i] = f[i]
      BY <1>1, <2>2 DEF RowsAre
    <3>2. CASE f[i].exec = r.exec
      BY <3>1, <3>2 DEF RowIs
    <3>3. CASE f[i].exec # r.exec
      BY <3>1, <3>3 DEF RowIs
    <3> QED
      BY <3>2, <3>3
  <2> QED
    BY <2>1, <2>2
<1>3. ASSUME NEW i \in Lines(f, {"counts"}) PROVE f[i].exec # r.exec \/ f[i].site # r.site
  BY DEF RowsAre, RowIs
<1>4. \A i, j \in Lines(h, {"counts"}) : h[i].exec = h[j].exec /\ h[i].site = h[j].site => i = j
  BY <1>1, <1>3 DEF RowsAre
<1>5. ASSUME NEW e \in DOMAIN b, NEW k \in b[e].sites
      PROVE  \E i \in Lines(h, {"counts"}) : h[i].exec = e /\ h[i].site = k
  <2>1. CASE e = r.exec /\ k = r.site
    BY <1>1, <2>1
  <2>2. CASE ~(e = r.exec /\ k = r.site)
    <3>1. e \in DOMAIN a /\ k \in a[e].sites
      BY <2>2
    <3>2. PICK i \in Lines(f, {"counts"}) : f[i].exec = e /\ f[i].site = k
      BY <3>1 DEF RowsAre
    <3> QED
      BY <1>1, <3>2
  <2> QED
    BY <2>1, <2>2
<1> QED
  BY <1>2, <1>4, <1>5 DEF RowsAre

\* The units of rows that a file keeps.
LEMMA UnitsSame ==
  ASSUME NEW f, NEW h, NEW S, \A i \in S : h[i] = f[i]
  PROVE  Units(h, S) = Units(f, S) /\ SumOf(h, S) = SumOf(f, S)
<1>1. {{i} \X (1 .. h[i].n) : i \in S} = {{i} \X (1 .. f[i].n) : i \in S}
  OBVIOUS
<1> QED
  BY <1>1 DEF Units, SumOf

\* Cardinalities of disjoint finite sets add up.
LEMMA DisjointSum ==
  ASSUME NEW S, NEW T, IsFiniteSet(S), IsFiniteSet(T), S \cap T = {}
  PROVE  IsFiniteSet(S \cup T) /\ Cardinality(S \cup T) = Cardinality(S) + Cardinality(T)
<1>1. /\ IsFiniteSet(S \cup T)
      /\ Cardinality(S \cup T) = Cardinality(S) + Cardinality(T) - Cardinality(S \cap T)
  BY FS_Union
<1>2. Cardinality(S) \in Nat /\ Cardinality(T) \in Nat /\ Cardinality(S \cap T) = 0
  BY FS_CardinalityType, FS_EmptySet
<1> QED
  BY <1>1, <1>2

\* The units of one row are as many as its number.
LEMMA RowUnits ==
  ASSUME NEW n, NEW m \in Nat
  PROVE  IsFiniteSet({n} \X (1 .. m)) /\ Cardinality({n} \X (1 .. m)) = m
<1>1. 1 \in Int /\ m \in Int
  OBVIOUS
<1>2. IsFiniteSet(1 .. m) /\ Cardinality(1 .. m) = IF 1 > m THEN 0 ELSE m - 1 + 1
  BY <1>1, FS_Interval
<1>3. Cardinality(1 .. m) = m
  BY <1>2
<1>4. IsFiniteSet({n}) /\ Cardinality({n}) = 1
  BY FS_Singleton
<1>5. PICK S : S = {n}
  OBVIOUS
<1>6. PICK T : T = 1 .. m
  OBVIOUS
<1>7. IsFiniteSet(S \X T) /\ Cardinality(S \X T) = Cardinality(S) * Cardinality(T)
  BY <1>2, <1>4, <1>5, <1>6, FS_Product
<1> QED
  BY <1>3, <1>4, <1>5, <1>6, <1>7

\* A sum with one row more.
LEMMA UnitsGrown ==
  ASSUME NEW f, NEW h, NEW S, NEW n, n \notin S, \A i \in S : h[i] = f[i], h[n].n \in Nat,
         IsFiniteSet(Units(f, S))
  PROVE  /\ IsFiniteSet(Units(h, S \cup {n})) /\ SumOf(h, S \cup {n}) = SumOf(f, S) + h[n].n
         /\ SumOf(f, S) \in Nat
<1>1. PICK m \in Nat : m = h[n].n
  OBVIOUS
<1>2. PICK U : U = Units(f, S)
  OBVIOUS
<1>3. PICK V : V = {n} \X (1 .. m)
  OBVIOUS
<1>4. Units(h, S \cup {n}) = U \cup V
  <2>1. Units(h, S) = U
    BY <1>2, UnitsSame
  <2>2. \A x : x \in Units(h, S \cup {n}) <=> x \in Units(h, S) \/ x \in V
    BY <1>1, <1>3 DEF Units
  <2> QED
    BY <2>1, <2>2
<1>5. U \cap V = {}
  <2>1. \A x \in U : x[1] \in S
    BY <1>2 DEF Units
  <2>2. \A x \in V : x[1] = n
    BY <1>3
  <2> QED
    BY <2>1, <2>2
<1>6. IsFiniteSet(V) /\ Cardinality(V) = m
  BY <1>3, RowUnits
<1>7. IsFiniteSet(U \cup V) /\ Cardinality(U \cup V) = Cardinality(U) + m
  BY <1>2, <1>5, <1>6, DisjointSum
<1>8. Cardinality(U) \in Nat
  BY <1>2, FS_CardinalityType
<1> QED
  BY <1>1, <1>2, <1>4, <1>7, <1>8 DEF SumOf, Units

\* A line that is no row.
LEMMA SumsFrame ==
  ASSUME NEW f, NEW h, NEW r, NEW n, Grown(f, h, r, n), r.event # "counts",
         NEW c, NEW s, NEW o, SumsAre(c, s, o, f)
  PROVE  SumsAre(c, s, o, h)
<1>1. /\ Lines(h, {"counts"}) = Lines(f, {"counts"}) /\ \A i \in Lines(f, {"counts"}) : h[i] = f[i]
  BY LinesIs
<1>2. \A k : RowsAt(h, k) = RowsAt(f, k) /\ \A i \in RowsAt(f, k) : h[i] = f[i]
  BY <1>1 DEF RowsAt
<1>3. /\ Units(h, Lines(h, {"counts"})) = Units(f, Lines(f, {"counts"}))
      /\ SumOf(h, Lines(h, {"counts"})) = SumOf(f, Lines(f, {"counts"}))
  BY <1>1, UnitsSame
<1>4. \A k : SumOf(h, RowsAt(h, k)) = SumOf(f, RowsAt(f, k))
  BY <1>2, UnitsSame
<1>5. {SiteOf(h[i]) : i \in Lines(h, {"counts"})} = {SiteOf(f[i]) : i \in Lines(f, {"counts"})}
  BY <1>1
<1> QED
  BY <1>3, <1>4, <1>5 DEF SumsAre

\* A row's number is added to its site's sum and to the total, or the sums are
\* marked as overflowed.
LEMMA SumsGrown ==
  ASSUME NEW f, NEW h, NEW r, NEW n, Grown(f, h, r, n), r.event = "counts", r.n \in Nat,
         NEW g, GraphTyped(g), SumsAre(g.counts, g.forces, g.overflow, f), NEW o \in BOOLEAN
  PROVE  SumsAre(Put(g.counts, SiteOf(r), Saturated(CountAt(g.counts, SiteOf(r)) + r.n)),
                 Saturated(g.forces + r.n), Overflows(g, SiteOf(r), r.n, o), h)
<1>1. /\ Lines(h, {"counts"}) = Lines(f, {"counts"}) \cup {n} /\ h[n] = r /\ n \notin Lines(f, {"counts"})
      /\ \A i \in Lines(f, {"counts"}) : h[i] = f[i] /\ i # n
  BY LinesIs
<1>2. PICK key : key = SiteOf(r)
  OBVIOUS
<1>3. PICK S : S = Lines(f, {"counts"})
  OBVIOUS
<1>4. PICK c : c = g.counts
  OBVIOUS
<1>5. PICK d : d = Put(c, key, Saturated(CountAt(c, key) + r.n))
  OBVIOUS
<1>6. /\ DOMAIN d = DOMAIN c \cup {key} /\ d[key] = Saturated(CountAt(c, key) + r.n)
      /\ \A k \in DOMAIN c : k # key => d[k] = c[k]
  BY <1>5 DEF Put
<1>7. DOMAIN c = {SiteOf(f[i]) : i \in S} /\ IsFiniteSet(Units(f, S))
  BY <1>3, <1>4 DEF SumsAre
<1>8. DOMAIN d = {SiteOf(h[i]) : i \in Lines(h, {"counts"})}
  BY <1>1, <1>2, <1>3, <1>6, <1>7
<1>9. /\ IsFiniteSet(Units(h, S \cup {n})) /\ SumOf(h, S \cup {n}) = SumOf(f, S) + r.n
      /\ SumOf(f, S) \in Nat
  BY <1>1, <1>3, <1>7, UnitsGrown
<1>10. ASSUME ~Overflows(g, key, r.n, o)
       PROVE  /\ Saturated(g.forces + r.n) = SumOf(h, S \cup {n})
              /\ \A k \in DOMAIN d : d[k] = SumOf(h, RowsAt(h, k))
  <2>1. ~g.overflow /\ ~(CountAt(c, key) + r.n > EgTop) /\ ~(g.forces + r.n > EgTop)
    BY <1>4, <1>10 DEF Overflows
  <2>2. g.forces = SumOf(f, S) /\ \A k \in DOMAIN c : c[k] = SumOf(f, RowsAt(f, k))
    BY <1>3, <1>4, <2>1 DEF SumsAre
  <2>3. CountAt(c, key) \in Nat /\ g.forces \in Nat /\ EgTop \in Nat
    BY <1>4, CountAtIs, TypedFields, EgAssumption
  <2>4. Saturated(g.forces + r.n) = g.forces + r.n
    BY <2>1, <2>3, SaturatedIs
  <2>5. Saturated(CountAt(c, key) + r.n) = CountAt(c, key) + r.n
    BY <2>1, <2>3, SaturatedIs
  <2>6. \A k : k # key => RowsAt(h, k) = RowsAt(f, k) /\ \A i \in RowsAt(f, k) : h[i] = f[i]
    BY <1>1, <1>2 DEF RowsAt
  <2>7. /\ RowsAt(h, key) = RowsAt(f, key) \cup {n} /\ n \notin RowsAt(f, key)
        /\ \A i \in RowsAt(f, key) : h[i] = f[i]
    BY <1>1, <1>2 DEF RowsAt
  <2>8. IsFiniteSet(Units(f, RowsAt(f, key)))
    <3>1. Units(f, RowsAt(f, key)) \subseteq Units(f, S)
      BY <1>3 DEF Units, RowsAt
    <3> QED
      BY <1>7, <3>1, FS_Subset
  <2>9. SumOf(h, RowsAt(f, key) \cup {n}) = SumOf(f, RowsAt(f, key)) + r.n
    <3>1. PICK R : R = RowsAt(f, key)
      OBVIOUS
    <3>2. n \notin R /\ \A i \in R : h[i] = f[i]
      BY <2>7, <3>1
    <3>3. h[n].n \in Nat
      BY <1>1
    <3>4. IsFiniteSet(Units(f, R))
      BY <2>8, <3>1
    <3>5. /\ IsFiniteSet(Units(h, R \cup {n})) /\ SumOf(h, R \cup {n}) = SumOf(f, R) + h[n].n
          /\ SumOf(f, R) \in Nat
      BY ONLY <3>2, <3>3, <3>4, UnitsGrown, Zenon
    <3> QED
      BY <1>1, <3>1, <3>5
  <2>10. CountAt(c, key) = SumOf(f, RowsAt(f, key))
    <3>1. CASE key \in DOMAIN c
      BY <2>2, <3>1 DEF CountAt
    <3>2. CASE key \notin DOMAIN c
      <4>1. RowsAt(f, key) = {}
        BY <1>3, <1>7, <3>2 DEF RowsAt
      <4>2. Units(f, {}) = {}
        BY DEF Units
      <4>3. SumOf(f, {}) = 0
        BY <4>2, FS_EmptySet DEF SumOf, Units
      <4> QED
        BY <3>2, <4>1, <4>3 DEF CountAt
    <3> QED
      BY <3>1, <3>2
  <2>11. ASSUME NEW k \in DOMAIN d PROVE d[k] = SumOf(h, RowsAt(h, k))
    <3>1. CASE k = key
      BY <1>6, <2>5, <2>7, <2>9, <2>10, <3>1
    <3>2. CASE k # key
      <4>1. d[k] = SumOf(f, RowsAt(f, k))
        BY <1>6, <2>2, <3>2
      <4>2. SumOf(h, RowsAt(f, k)) = SumOf(f, RowsAt(f, k))
        BY <2>6, <3>2, UnitsSame
      <4> QED
        BY <2>6, <3>2, <4>1, <4>2
    <3> QED
      BY <3>1, <3>2
  <2> QED
    BY <1>9, <2>2, <2>4, <2>11
<1>11. SumsAre(d, Saturated(g.forces + r.n), Overflows(g, key, r.n, o), h)
  BY <1>1, <1>3, <1>8, <1>9, <1>10 DEF SumsAre
<1> QED
  BY <1>2, <1>4, <1>5, <1>11

-----------------------------------------------------------------------------
(* A clean line keeps the graph that of its lines *)

\* The parts of a clean graph that a line's event does not concern.
LEMMA CleanFrame ==
  ASSUME NEW g, GraphTyped(g), NEW f, Clean(g, f), NEW h, NEW r, NEW n, Grown(f, h, r, n)
  PROVE  /\ r.event # "module" => ModulesAre(g.modules, h)
         /\ r.event # "site" => SitesAre(g.sites, h)
         /\ g.mode = "detail" /\ r.event \notin DetailEvents => NodesAre(g.nodes, h)
         /\ g.mode = "detail" /\ r.event \notin RelationEvents \cup {"invocation", "counts"}
              => TablesAre(g.counts, g.edges, h)
         /\ g.mode = "counts" /\ r.event # "execution" => RunsAre(g.runs, h)
         /\ g.mode = "counts" /\ r.event # "counts"
              => RowsAre(g.runs, g.sites, h) /\ SumsAre(g.counts, g.forces, g.overflow, h)
         /\ g.mode = "counts" /\ r.event \notin DetailEvents => Lines(h, DetailEvents) = {}
<1>1. r.event # "module" => ModulesAre(g.modules, h)
  BY ModulesFrame DEF Clean
<1>2. r.event # "site" => SitesAre(g.sites, h)
  BY SitesFrame DEF Clean
<1>3. ASSUME g.mode = "detail", r.event \notin DetailEvents PROVE NodesAre(g.nodes, h)
  <2>1. PICK a : a = g.nodes
    OBVIOUS
  <2>2. NodesAre(a, f)
    BY <1>3, <2>1 DEF Clean
  <2>3. DefinedBy(r) = {} /\ r.event \notin RelationEvents \cup {"cache"} /\ r.event \notin RelationEvents
    BY <1>3 DEF DefinedBy, DetailEvents
  <2>4. NodesAre(a, h)
    BY <2>2, <2>3, NodesStep
  <2> QED
    BY <2>1, <2>4
<1>4. ASSUME g.mode = "detail", r.event \notin RelationEvents \cup {"invocation", "counts"}
      PROVE  TablesAre(g.counts, g.edges, h)
  BY <1>4, TablesFrame DEF Clean
<1>5. ASSUME g.mode = "counts", r.event # "execution" PROVE RunsAre(g.runs, h)
  BY <1>5, RunsFrame DEF Clean
<1>6. ASSUME g.mode = "counts", r.event # "counts"
      PROVE  RowsAre(g.runs, g.sites, h) /\ SumsAre(g.counts, g.forces, g.overflow, h)
  BY <1>6, RowsFrame, SumsFrame DEF Clean
<1>7. ASSUME g.mode = "counts", r.event \notin DetailEvents PROVE Lines(h, DetailEvents) = {}
  <2>1. Lines(f, DetailEvents) = {}
    BY <1>7 DEF Clean
  <2>2. Lines(h, DetailEvents) = Lines(f, DetailEvents)
    BY <1>7, LinesIs
  <2> QED
    BY <2>1, <2>2
<1> QED
  BY <1>1, <1>2, <1>3, <1>4, <1>5, <1>6, <1>7

\* What the lemmas of this section assume of a step.
Reads(g, f, h, f2, r, n) ==
  /\ GraphTyped(g) /\ GraphTyped(h) /\ h.mode = g.mode
  /\ IsFile(f) /\ Grown(f, f2, r, n) /\ Readable(r)
  /\ Clean(g, f) /\ ~g.footer /\ g.records = n + 1

\* A line that is no footer.
Records(g, f, h, f2, r, n) ==
  Reads(g, f, h, f2, r, n) /\ h = RecordLine(g, r) /\ h.diags = g.diags
  /\ r.event # "footer" /\ r.event # "torn"

\* The footer, after clean lines.
LEMMA FooterKeeps ==
  ASSUME NEW g, NEW f, NEW h, NEW f2, NEW r, NEW n, Reads(g, f, h, f2, r, n), r.event = "footer",
         r.complete, h.footer, Same(g, h, {"footer"})
  PROVE  Clean(h, f2)
<1>1. /\ GraphTyped(g) /\ Clean(g, f) /\ Grown(f, f2, r, n) /\ g.footer = FALSE /\ h.footer = TRUE
  BY TypedFields DEF Reads
<1>2. FooterIs(h.footer, f2)
  BY <1>1, FooterGrown DEF Clean
<1>3. /\ h.mode = g.mode /\ h.modules = g.modules /\ h.sites = g.sites /\ h.nodes = g.nodes
      /\ h.counts = g.counts /\ h.edges = g.edges /\ h.runs = g.runs /\ h.forces = g.forces
      /\ h.overflow = g.overflow
  BY DEF Same, GraphFields
<1>4. r.event \notin DetailEvents /\ r.event \notin RelationEvents \cup {"invocation", "counts"}
  BY DEF DetailEvents, RelationEvents
<1>5. /\ ModulesAre(g.modules, f2) /\ SitesAre(g.sites, f2)
      /\ g.mode = "detail" => NodesAre(g.nodes, f2) /\ TablesAre(g.counts, g.edges, f2)
      /\ g.mode = "counts" => /\ RunsAre(g.runs, f2) /\ RowsAre(g.runs, g.sites, f2)
                              /\ SumsAre(g.counts, g.forces, g.overflow, f2)
                              /\ Lines(f2, DetailEvents) = {}
  BY <1>1, <1>4, CleanFrame
<1> QED
  BY <1>2, <1>3, <1>5 DEF Clean

\* A record before any footer.
LEMMA FooterStays ==
  ASSUME NEW g, NEW f, NEW h, NEW f2, NEW r, NEW n, Records(g, f, h, f2, r, n), h.footer = g.footer
  PROVE  FooterIs(h.footer, f2)
<1>1. /\ GraphTyped(g) /\ Clean(g, f) /\ Grown(f, f2, r, n) /\ g.footer = FALSE
      /\ r.event # "footer" /\ r.event # "torn"
  BY TypedFields DEF Reads, Records
<1> QED
  BY <1>1, FooterFrame DEF Clean

\* A clean module line.
LEMMA ModuleKeeps ==
  ASSUME NEW g, NEW f, NEW h, NEW f2, NEW r, NEW n, Records(g, f, h, f2, r, n), r.event = "module"
  PROVE  Clean(h, f2)
<1>1. GraphTyped(g) /\ Clean(g, f) /\ Grown(f, f2, r, n)
  BY DEF Reads, Records
<1>2. h # Diagnostic(g)
  BY <1>1, DiagnosticIs, TypedFields DEF Records
<1>3. h = OnModule(g, r)
  BY <1>2 DEF Records, RecordLine, CountsModeEvents, RelationEvents
<1>4. r.module \notin g.modules /\ h.modules = g.modules \cup {r.module} /\ Same(g, h, {"modules"})
  BY <1>1, <1>3, ModuleClean DEF Records
<1>5. /\ h.mode = g.mode /\ h.footer = g.footer /\ h.sites = g.sites /\ h.nodes = g.nodes
      /\ h.counts = g.counts /\ h.edges = g.edges /\ h.runs = g.runs /\ h.forces = g.forces
      /\ h.overflow = g.overflow
  BY <1>4 DEF Same, GraphFields
<1>6. r.event \notin DetailEvents /\ r.event \notin RelationEvents \cup {"invocation", "counts"}
  BY DEF DetailEvents, RelationEvents
<1>7. /\ SitesAre(g.sites, f2)
      /\ g.mode = "detail" => NodesAre(g.nodes, f2) /\ TablesAre(g.counts, g.edges, f2)
      /\ g.mode = "counts" => /\ RunsAre(g.runs, f2) /\ RowsAre(g.runs, g.sites, f2)
                              /\ SumsAre(g.counts, g.forces, g.overflow, f2)
                              /\ Lines(f2, DetailEvents) = {}
  BY <1>1, <1>6, CleanFrame
<1>8. ModulesAre(h.modules, f2)
  BY <1>1, <1>4, ModulesGrown DEF Clean
<1>9. FooterIs(h.footer, f2)
  BY <1>5, FooterStays
<1> QED
  BY <1>5, <1>7, <1>8, <1>9 DEF Clean

\* A clean site line.
LEMMA SiteKeeps ==
  ASSUME NEW g, NEW f, NEW h, NEW f2, NEW r, NEW n, Records(g, f, h, f2, r, n), r.event = "site"
  PROVE  Clean(h, f2)
<1>1. GraphTyped(g) /\ Clean(g, f) /\ Grown(f, f2, r, n)
  BY DEF Reads, Records
<1>2. h # Diagnostic(g)
  BY <1>1, DiagnosticIs, TypedFields DEF Records
<1>3. h = OnSite(g, r)
  BY <1>2 DEF Records, RecordLine, CountsModeEvents, RelationEvents
<1>4. SiteOf(r) \notin g.sites /\ h.sites = g.sites \cup {SiteOf(r)} /\ Same(g, h, {"sites"})
  BY <1>1, <1>3, SiteClean DEF Records
<1>5. /\ h.mode = g.mode /\ h.footer = g.footer /\ h.modules = g.modules /\ h.nodes = g.nodes
      /\ h.counts = g.counts /\ h.edges = g.edges /\ h.runs = g.runs /\ h.forces = g.forces
      /\ h.overflow = g.overflow
  BY <1>4 DEF Same, GraphFields
<1>6. r.event \notin DetailEvents /\ r.event \notin RelationEvents \cup {"invocation", "counts"}
  BY DEF DetailEvents, RelationEvents
<1>7. /\ ModulesAre(g.modules, f2)
      /\ g.mode = "detail" => NodesAre(g.nodes, f2) /\ TablesAre(g.counts, g.edges, f2)
      /\ g.mode = "counts" => /\ RunsAre(g.runs, f2)
                              /\ SumsAre(g.counts, g.forces, g.overflow, f2)
                              /\ Lines(f2, DetailEvents) = {}
  BY <1>1, <1>6, CleanFrame
<1>8. SitesAre(h.sites, f2)
  BY <1>1, <1>4, SitesGrown DEF Clean
<1>9. ASSUME g.mode = "counts" PROVE RowsAre(g.runs, h.sites, f2)
  <2>1. RowsAre(g.runs, g.sites, f) /\ g.sites \subseteq h.sites /\ r.event # "counts"
    BY <1>1, <1>4, <1>9 DEF Clean
  <2> QED
    BY <1>1, <2>1, RowsFrame
<1>10. FooterIs(h.footer, f2)
  BY <1>5, FooterStays
<1> QED
  BY <1>5, <1>7, <1>8, <1>9, <1>10 DEF Clean

\* No line of a detailed graph is clean in a table of counts.
LEMMA DetailMode ==
  ASSUME NEW g, NEW f, NEW h, NEW f2, NEW r, NEW n, Records(g, f, h, f2, r, n), r.event \in DetailEvents
  PROVE  /\ g.mode = "detail" /\ NodesAre(g.nodes, f) /\ TablesAre(g.counts, g.edges, f)
         /\ ModulesAre(g.modules, f2) /\ SitesAre(g.sites, f2)
         /\ r.event \notin RelationEvents \cup {"invocation", "counts"} => TablesAre(g.counts, g.edges, f2)
         /\ h = CASE r.event = "allocation" -> OnAllocation(g, r)
                  [] r.event = "invocation" -> OnInvocation(g, r)
                  [] r.event \in RelationEvents -> OnRelation(g, r)
                  [] r.event = "cache" -> OnCache(g, r)
<1>1. GraphTyped(g) /\ Clean(g, f) /\ Grown(f, f2, r, n)
  BY DEF Reads, Records
<1>2. h # Diagnostic(g)
  BY <1>1, DiagnosticIs, TypedFields DEF Records
<1>3. r.event \notin CountsModeEvents
  BY DEF DetailEvents, CountsModeEvents, RelationEvents
<1>4. g.mode # "counts"
  BY <1>2, <1>3 DEF Records, RecordLine
<1>5. g.mode = "detail"
  BY <1>1, <1>4, TypedFields
<1>6. r.event # "module" /\ r.event # "site"
  BY DEF DetailEvents, RelationEvents
<1>7. /\ ModulesAre(g.modules, f2) /\ SitesAre(g.sites, f2)
      /\ r.event \notin RelationEvents \cup {"invocation", "counts"} => TablesAre(g.counts, g.edges, f2)
  BY <1>1, <1>5, <1>6, CleanFrame
<1>8. NodesAre(g.nodes, f) /\ TablesAre(g.counts, g.edges, f)
  BY <1>1, <1>5 DEF Clean
<1>9. h = CASE r.event = "allocation" -> OnAllocation(g, r)
            [] r.event = "invocation" -> OnInvocation(g, r)
            [] r.event \in RelationEvents -> OnRelation(g, r)
            [] r.event = "cache" -> OnCache(g, r)
  <2>1. h = RecordLine(g, r)
    BY DEF Records
  <2>2. CASE r.event = "allocation"
    BY <1>4, <2>1, <2>2 DEF RecordLine, RelationEvents
  <2>3. CASE r.event = "invocation"
    BY <1>4, <2>1, <2>3 DEF RecordLine, RelationEvents
  <2>4. CASE r.event \in RelationEvents
    BY <1>4, <2>1, <2>4 DEF RecordLine, RelationEvents
  <2>5. CASE r.event = "cache"
    BY <1>4, <2>1, <2>5 DEF RecordLine, RelationEvents
  <2> QED
    BY <2>2, <2>3, <2>4, <2>5 DEF DetailEvents
<1> QED
  BY <1>5, <1>7, <1>8, <1>9

\* A clean allocation.
LEMMA AllocationKeeps ==
  ASSUME NEW g, NEW f, NEW h, NEW f2, NEW r, NEW n, Records(g, f, h, f2, r, n), r.event = "allocation"
  PROVE  Clean(h, f2)
<1>1. GraphTyped(g) /\ IsFile(f) /\ Grown(f, f2, r, n) /\ h.diags = g.diags
  BY DEF Reads, Records
<1>2. /\ g.mode = "detail" /\ NodesAre(g.nodes, f) /\ ModulesAre(g.modules, f2) /\ SitesAre(g.sites, f2)
      /\ TablesAre(g.counts, g.edges, f2) /\ h = OnAllocation(g, r)
  <2>1. r.event \in DetailEvents /\ r.event \notin RelationEvents \cup {"invocation", "counts"}
    BY DEF DetailEvents, RelationEvents
  <2> QED
    BY <2>1, DetailMode
<1>3. PICK k : k = <<"thunk", r.thunk>>
  OBVIOUS
<1>4. /\ ~Defined(g, k) /\ DOMAIN h.nodes = DOMAIN g.nodes \cup {k} /\ Same(g, h, {"nodes"})
      /\ {x \in DOMAIN h.nodes : h.nodes[x]} = {x \in DOMAIN g.nodes : g.nodes[x]} \cup {k}
  <2>1. h = Define(g, k)
    BY <1>2, <1>3 DEF OnAllocation
  <2> QED
    BY ONLY <1>1, <2>1, DefineClean
<1>5. /\ h.mode = g.mode /\ h.footer = g.footer /\ h.modules = g.modules /\ h.sites = g.sites
      /\ h.counts = g.counts /\ h.edges = g.edges
  BY <1>4 DEF Same, GraphFields
<1>6. NodesAre(h.nodes, f2)
  <2>1. PICK a : a = g.nodes
    OBVIOUS
  <2>2. PICK b : b = h.nodes
    OBVIOUS
  <2>3. DefinedBy(r) = {k} /\ r.event \notin RelationEvents \cup {"cache"} /\ r.event \notin RelationEvents
    BY <1>3 DEF DefinedBy, RelationEvents
  <2>4. k \notin {x \in DOMAIN a : a[x]}
    BY <1>4, <2>1 DEF Defined
  <2>5. NodesAre(a, f) /\ DOMAIN a \subseteq DOMAIN b
        /\ {x \in DOMAIN b : b[x]} = {x \in DOMAIN a : a[x]} \cup DefinedBy(r)
        /\ DefinedBy(r) \cap {x \in DOMAIN a : a[x]} = {}
    BY <1>2, <1>4, <2>1, <2>2, <2>3, <2>4
  <2>6. NodesAre(b, f2)
    BY <1>1, <2>3, <2>5, NodesStep
  <2> QED
    BY <2>2, <2>6
<1>7. FooterIs(h.footer, f2)
  BY <1>5, FooterStays
<1> QED
  BY <1>2, <1>5, <1>6, <1>7 DEF Clean

\* A clean invocation.
LEMMA InvocationKeeps ==
  ASSUME NEW g, NEW f, NEW h, NEW f2, NEW r, NEW n, Records(g, f, h, f2, r, n), r.event = "invocation"
  PROVE  Clean(h, f2)
<1>1. GraphTyped(g) /\ IsFile(f) /\ Grown(f, f2, r, n) /\ h.diags = g.diags
  BY DEF Reads, Records
<1>2. /\ g.mode = "detail" /\ NodesAre(g.nodes, f) /\ ModulesAre(g.modules, f2) /\ SitesAre(g.sites, f2)
      /\ TablesAre(g.counts, g.edges, f) /\ h = OnInvocation(g, r)
  <2>1. r.event \in DetailEvents
    BY DEF DetailEvents
  <2>2. r.event \notin RelationEvents /\ r.event # "allocation"
    BY DEF RelationEvents
  <2> QED
    BY <2>1, <2>2, DetailMode
<1>3. PICK k : k = Invocation(r.inv)
  OBVIOUS
<1>4. /\ ~Defined(g, k) /\ DOMAIN h.nodes = DOMAIN g.nodes \cup {k} /\ Same(g, h, {"nodes", "counts"})
      /\ {x \in DOMAIN h.nodes : h.nodes[x]} = {x \in DOMAIN g.nodes : g.nodes[x]} \cup {k}
      /\ h.counts = Bump(g.counts, SiteOf(r), 1)
  BY <1>1, <1>2, <1>3, InvocationClean
<1>5. /\ h.mode = g.mode /\ h.footer = g.footer /\ h.modules = g.modules /\ h.sites = g.sites
      /\ h.edges = g.edges
  BY <1>4 DEF Same, GraphFields
<1>6. NodesAre(h.nodes, f2)
  <2>1. PICK a : a = g.nodes
    OBVIOUS
  <2>2. PICK b : b = h.nodes
    OBVIOUS
  <2>3. DefinedBy(r) = {k} /\ r.event \notin RelationEvents \cup {"cache"} /\ r.event \notin RelationEvents
    BY <1>3 DEF DefinedBy, RelationEvents
  <2>4. k \notin {x \in DOMAIN a : a[x]}
    BY <1>4, <2>1 DEF Defined
  <2>5. NodesAre(a, f) /\ DOMAIN a \subseteq DOMAIN b
        /\ {x \in DOMAIN b : b[x]} = {x \in DOMAIN a : a[x]} \cup DefinedBy(r)
        /\ DefinedBy(r) \cap {x \in DOMAIN a : a[x]} = {}
    BY <1>2, <1>4, <2>1, <2>2, <2>3, <2>4
  <2>6. NodesAre(b, f2)
    BY <1>1, <2>3, <2>5, NodesStep
  <2> QED
    BY <2>2, <2>6
<1>7. TablesAre(h.counts, h.edges, f2)
  BY <1>1, <1>2, <1>4, <1>5, TablesInvoked
<1>8. FooterIs(h.footer, f2)
  BY <1>5, FooterStays
<1> QED
  BY <1>2, <1>5, <1>6, <1>7, <1>8 DEF Clean

\* A relation.
LEMMA RelationKeeps ==
  ASSUME NEW g, NEW f, NEW h, NEW f2, NEW r, NEW n, Records(g, f, h, f2, r, n), r.event \in RelationEvents
  PROVE  Clean(h, f2)
<1>1. GraphTyped(g) /\ IsFile(f) /\ Grown(f, f2, r, n) /\ g.records = n + 1
  BY DEF Reads, Records
<1>2. /\ g.mode = "detail" /\ NodesAre(g.nodes, f) /\ ModulesAre(g.modules, f2) /\ SitesAre(g.sites, f2)
      /\ TablesAre(g.counts, g.edges, f) /\ h = OnRelation(g, r)
  <2>1. r.event \in DetailEvents
    BY DEF DetailEvents
  <2>2. r.event # "invocation" /\ r.event # "allocation" /\ r.event # "cache"
    BY DEF RelationEvents
  <2> QED
    BY <2>1, <2>2, DetailMode
<1>3. PICK k : k = Invocation(r.inv)
  OBVIOUS
<1>4. /\ DOMAIN h.nodes = DOMAIN g.nodes \cup {k, Thunk(r, g.records)}
      /\ {x \in DOMAIN h.nodes : h.nodes[x]} = {x \in DOMAIN g.nodes : g.nodes[x]}
      /\ h.edges = Bump(g.edges, EdgeOf(r, g.records), 1) /\ Same(g, h, {"nodes", "edges", "forces"})
  BY <1>1, <1>2, <1>3, RelationClean
<1>5. /\ h.mode = g.mode /\ h.footer = g.footer /\ h.modules = g.modules /\ h.sites = g.sites
      /\ h.counts = g.counts
  BY <1>4 DEF Same, GraphFields
<1>6. NodesAre(h.nodes, f2)
  <2>1. PICK a : a = g.nodes
    OBVIOUS
  <2>2. PICK b : b = h.nodes
    OBVIOUS
  <2>3. DefinedBy(r) = {}
    BY DEF DefinedBy, RelationEvents
  <2>4. NodesAre(a, f) /\ DOMAIN a \subseteq DOMAIN b
        /\ {x \in DOMAIN b : b[x]} = {x \in DOMAIN a : a[x]} \cup DefinedBy(r)
        /\ DefinedBy(r) \cap {x \in DOMAIN a : a[x]} = {}
        /\ Invocation(r.inv) \in DOMAIN b /\ Thunk(r, n + 1) \in DOMAIN b
    BY <1>1, <1>2, <1>3, <1>4, <2>1, <2>2, <2>3
  <2>5. NodesAre(b, f2)
    BY <1>1, <2>4, NodesStep
  <2> QED
    BY <2>2, <2>5
<1>7. TablesAre(h.counts, h.edges, f2)
  BY <1>1, <1>2, <1>4, <1>5, TablesRelated
<1>8. FooterIs(h.footer, f2)
  BY <1>5, FooterStays
<1> QED
  BY <1>2, <1>5, <1>6, <1>7, <1>8 DEF Clean

\* A cache result.
LEMMA CacheKeeps ==
  ASSUME NEW g, NEW f, NEW h, NEW f2, NEW r, NEW n, Records(g, f, h, f2, r, n), r.event = "cache"
  PROVE  Clean(h, f2)
<1>1. GraphTyped(g) /\ IsFile(f) /\ Grown(f, f2, r, n)
  BY DEF Reads, Records
<1>2. /\ g.mode = "detail" /\ NodesAre(g.nodes, f) /\ ModulesAre(g.modules, f2) /\ SitesAre(g.sites, f2)
      /\ TablesAre(g.counts, g.edges, f2) /\ h = OnCache(g, r)
  <2>1. r.event \in DetailEvents /\ r.event \notin RelationEvents \cup {"invocation", "counts"}
        /\ r.event \notin RelationEvents
    BY DEF DetailEvents, RelationEvents
  <2> QED
    BY <2>1, DetailMode
<1>3. PICK k : k = Invocation(r.inv)
  OBVIOUS
<1>4. /\ DOMAIN h.nodes = DOMAIN g.nodes \cup {k} /\ Same(g, h, {"nodes"})
      /\ {x \in DOMAIN h.nodes : h.nodes[x]} = {x \in DOMAIN g.nodes : g.nodes[x]}
  <2>1. h = Placeholder(g, k)
    BY <1>2, <1>3 DEF OnCache
  <2> QED
    BY ONLY <1>1, <2>1, PlaceholderClean
<1>5. /\ h.mode = g.mode /\ h.footer = g.footer /\ h.modules = g.modules /\ h.sites = g.sites
      /\ h.counts = g.counts /\ h.edges = g.edges
  BY <1>4 DEF Same, GraphFields
<1>6. NodesAre(h.nodes, f2)
  <2>1. PICK a : a = g.nodes
    OBVIOUS
  <2>2. PICK b : b = h.nodes
    OBVIOUS
  <2>3. DefinedBy(r) = {} /\ r.event \notin RelationEvents
    BY DEF DefinedBy, RelationEvents
  <2>4. NodesAre(a, f) /\ DOMAIN a \subseteq DOMAIN b
        /\ {x \in DOMAIN b : b[x]} = {x \in DOMAIN a : a[x]} \cup DefinedBy(r)
        /\ DefinedBy(r) \cap {x \in DOMAIN a : a[x]} = {}
        /\ Invocation(r.inv) \in DOMAIN b
    BY <1>2, <1>3, <1>4, <2>1, <2>2, <2>3
  <2>5. NodesAre(b, f2)
    BY <1>1, <2>3, <2>4, NodesStep
  <2> QED
    BY <2>2, <2>5
<1>7. FooterIs(h.footer, f2)
  BY <1>5, FooterStays
<1> QED
  BY <1>2, <1>5, <1>6, <1>7 DEF Clean

\* A clean row of counts.
LEMMA CountsKeeps ==
  ASSUME NEW g, NEW f, NEW h, NEW f2, NEW r, NEW n, Records(g, f, h, f2, r, n), r.event = "counts"
  PROVE  Clean(h, f2)
<1>1. /\ GraphTyped(g) /\ IsFile(f) /\ Grown(f, f2, r, n) /\ Clean(g, f) /\ h.diags = g.diags
      /\ Readable(r)
  BY DEF Reads, Records
<1>2. r.event \notin DetailEvents /\ r.event \notin RelationEvents
  BY DEF DetailEvents, RelationEvents
<1>3. h = OnCounts(g, r)
  BY <1>2 DEF Records, RecordLine, CountsModeEvents
<1>4. /\ g.mode = "counts" /\ CountsRowOk(g, r)
      /\ DOMAIN h.runs = DOMAIN g.runs /\ \A x \in DOMAIN g.runs : x # r.exec => h.runs[x] = g.runs[x]
      /\ h.runs[r.exec].module = g.runs[r.exec].module
      /\ h.runs[r.exec].terminal = g.runs[r.exec].terminal
      /\ h.runs[r.exec].sites = g.runs[r.exec].sites \cup {r.site}
      /\ h.counts = Put(g.counts, SiteOf(r), Saturated(CountAt(g.counts, SiteOf(r)) + r.n))
      /\ h.forces = Saturated(g.forces + r.n)
      /\ h.overflow = Overflows(g, SiteOf(r), r.n, r.overflow)
      /\ Same(g, h, {"runs", "counts", "forces", "overflow"})
  BY <1>1, <1>3, CountsClean
<1>5. /\ h.mode = g.mode /\ h.footer = g.footer /\ h.modules = g.modules /\ h.sites = g.sites
  BY <1>4 DEF Same, GraphFields
<1>6. /\ ModulesAre(g.modules, f2) /\ SitesAre(g.sites, f2) /\ Lines(f2, DetailEvents) = {}
  BY <1>1, <1>2, <1>4, CleanFrame
<1>7. RunsAre(h.runs, f2)
  <2>1. RunsAre(g.runs, f)
    BY <1>1, <1>4 DEF Clean
  <2>2. \A x \in DOMAIN g.runs : h.runs[x].module = g.runs[x].module /\ h.runs[x].terminal = g.runs[x].terminal
    BY <1>4
  <2>3. r.event # "execution"
    OBVIOUS
  <2> QED
    BY ONLY <1>1, <1>4, <2>1, <2>2, <2>3, RunsFrame
<1>8. RowsAre(h.runs, h.sites, f2)
  <2>1. RowsAre(g.runs, g.sites, f)
    BY <1>1, <1>4 DEF Clean
  <2>2. /\ r.exec \in DOMAIN g.runs /\ g.runs[r.exec].module = r.module
        /\ r.site \notin g.runs[r.exec].sites /\ SiteOf(r) \in g.sites
    BY <1>4 DEF CountsRowOk
  <2>3. PICK a : a = g.runs
    OBVIOUS
  <2>4. PICK b : b = h.runs
    OBVIOUS
  <2>5. /\ RowsAre(a, g.sites, f) /\ r.exec \in DOMAIN a /\ a[r.exec].module = r.module
        /\ r.site \notin a[r.exec].sites /\ SiteOf(r) \in g.sites /\ DOMAIN b = DOMAIN a
        /\ \A x \in DOMAIN a : x # r.exec => b[x] = a[x]
        /\ b[r.exec].module = a[r.exec].module /\ b[r.exec].sites = a[r.exec].sites \cup {r.site}
    BY <1>4, <2>1, <2>2, <2>3, <2>4
  <2>6. RowsAre(b, g.sites, f2)
    BY <1>1, <2>5, RowsGrown
  <2> QED
    BY <1>5, <2>4, <2>6
<1>9. SumsAre(h.counts, h.forces, h.overflow, f2)
  <2>1. SumsAre(g.counts, g.forces, g.overflow, f)
    BY <1>1, <1>4 DEF Clean
  <2>2. r.n \in Nat /\ r.overflow \in BOOLEAN
    BY <1>1 DEF Readable
  <2>3. SumsAre(Put(g.counts, SiteOf(r), Saturated(CountAt(g.counts, SiteOf(r)) + r.n)),
                Saturated(g.forces + r.n), Overflows(g, SiteOf(r), r.n, r.overflow), f2)
    BY <1>1, <2>1, <2>2, SumsGrown
  <2> QED
    BY ONLY <1>4, <2>3
<1>10. FooterIs(h.footer, f2)
  BY <1>5, FooterStays
<1> QED
  BY <1>4, <1>5, <1>6, <1>7, <1>8, <1>9, <1>10 DEF Clean

\* A clean start or end of an execution.
LEMMA ExecutionKeeps ==
  ASSUME NEW g, NEW f, NEW h, NEW f2, NEW r, NEW n, Records(g, f, h, f2, r, n), r.event = "execution"
  PROVE  Clean(h, f2)
<1>1. /\ GraphTyped(g) /\ GraphTyped(h) /\ IsFile(f) /\ Grown(f, f2, r, n) /\ Clean(g, f)
      /\ h.diags = g.diags /\ Readable(r)
  BY DEF Reads, Records
<1>2. /\ r.event \notin DetailEvents /\ r.event \notin RelationEvents
      /\ r.event \notin RelationEvents \cup {"invocation", "counts"}
  BY DEF DetailEvents, RelationEvents
<1>3. h = OnExecution(g, r)
  BY <1>2 DEF Records, RecordLine, CountsModeEvents
<1>4. CASE g.mode # "counts"
  <2>1. h = g
    BY <1>3, <1>4 DEF OnExecution
  <2>2. g.mode = "detail"
    BY <1>1, <1>4, TypedFields
  <2>3. /\ ModulesAre(g.modules, f2) /\ SitesAre(g.sites, f2)
        /\ NodesAre(g.nodes, f2) /\ TablesAre(g.counts, g.edges, f2)
    BY <1>1, <1>2, <2>2, CleanFrame
  <2>4. FooterIs(h.footer, f2)
    BY <2>1, FooterStays
  <2> QED
    BY <2>1, <2>2, <2>3, <2>4 DEF Clean
<1>5. CASE g.mode = "counts"
  <2>1. r.module \in Nat
    BY <1>1 DEF Readable
  <2>2. h # Diagnostic(g)
    BY <1>1, DiagnosticIs, TypedFields
  <2>3. /\ \A x \in GraphFields \ {"runs"} : h[x] = g[x]
        /\ DOMAIN h.runs = DOMAIN g.runs \cup {r.exec}
        /\ \A x \in DOMAIN g.runs : x # r.exec => h.runs[x] = g.runs[x]
        /\ \/ r.status = "start" /\ r.exec \notin DOMAIN g.runs /\ h.runs[r.exec] = NewRun(r)
           \/ /\ r.status # "start" /\ r.exec \in DOMAIN g.runs
              /\ h.runs[r.exec].module = g.runs[r.exec].module
              /\ h.runs[r.exec].sites = g.runs[r.exec].sites
    BY ONLY <1>1, <1>3, <1>5, <2>1, <2>2, ExecutionIs
  <2>4. /\ h.mode = g.mode /\ h.footer = g.footer /\ h.modules = g.modules /\ h.sites = g.sites
        /\ h.counts = g.counts /\ h.forces = g.forces /\ h.overflow = g.overflow
    BY <2>3 DEF GraphFields
  <2>5. /\ ModulesAre(g.modules, f2) /\ SitesAre(g.sites, f2)
        /\ SumsAre(g.counts, g.forces, g.overflow, f2) /\ Lines(f2, DetailEvents) = {}
    BY <1>1, <1>2, <1>5, CleanFrame
  <2>6. RunsAre(g.runs, f) /\ RowsAre(g.runs, g.sites, f)
    BY <1>1, <1>5 DEF Clean
  <2>7. PICK a : a = g.runs
    OBVIOUS
  <2>8. PICK b : b = h.runs
    OBVIOUS
  <2>9. RunsAre(b, f2)
    <3>1. CASE r.status = "start"
      BY <1>1, <2>3, <2>6, <2>7, <2>8, <3>1, RunsStarted
    <3>2. CASE r.status # "start"
      BY <1>1, <2>3, <2>6, <2>7, <2>8, <3>2, RunsEnded
    <3> QED
      BY <3>1, <3>2
  <2>10. RowsAre(b, g.sites, f2)
    <3>1. r.event # "counts" /\ DOMAIN a \subseteq DOMAIN b
      BY <2>3, <2>7, <2>8
    <3>2. \A x \in DOMAIN a : b[x].module = a[x].module /\ b[x].sites = a[x].sites
      BY <2>3, <2>7, <2>8
    <3>3. \A x \in DOMAIN b : x \notin DOMAIN a => b[x].sites = {}
      BY <2>3, <2>7, <2>8 DEF NewRun
    <3>4. RowsAre(a, g.sites, f) /\ g.sites \subseteq g.sites
      BY <2>6, <2>7
    <3> QED
      BY <1>1, <3>1, <3>2, <3>3, <3>4, RowsFrame
  <2>11. FooterIs(h.footer, f2)
    BY <2>4, FooterStays
  <2> QED
    BY <1>5, <2>4, <2>5, <2>8, <2>9, <2>10, <2>11 DEF Clean
<1> QED
  BY <1>4, <1>5

\* Any clean record.
LEMMA RecordKeeps ==
  ASSUME NEW g, NEW f, NEW h, NEW f2, NEW r, NEW n, Records(g, f, h, f2, r, n)
  PROVE  Clean(h, f2)
<1>1. CASE r.event \in RelationEvents
  BY <1>1, RelationKeeps
<1>2. CASE r.event \in {"module", "site", "allocation", "invocation", "cache", "counts", "execution"}
  BY <1>2, ModuleKeeps, SiteKeeps, AllocationKeeps, InvocationKeeps, CacheKeeps, CountsKeeps, ExecutionKeeps
<1>3. CASE /\ r.event \notin RelationEvents
           /\ r.event \notin {"module", "site", "allocation", "invocation", "cache", "counts", "execution"}
  <2>1. h = Diagnostic(g)
    BY <1>3 DEF Records, RecordLine
  <2>2. h.diags = g.diags + 1 /\ h.diags = g.diags /\ g.diags \in Nat
    BY <2>1, DiagnosticIs, TypedFields DEF Records, Reads
  <2> QED
    BY <2>2
<1> QED
  BY <1>1, <1>2, <1>3

\* One line, whatever it holds.
LEMMA ReadKeeps ==
  ASSUME NEW g0, NEW f, Built(g0, f), NEW r, Readable(r), NEW h, h = ReadLine(g0, r), WithinLimits(h),
         NEW f2, f2 = Append(f, r)
  PROVE  Built(h, f2)
<1>1. /\ IsFile(f) /\ GraphTyped(g0) /\ g0.records = Len(f) + 1
      /\ g0.diags = 0 => Clean(g0, f)
  BY DEF Built
<1>2. PICK n : n = Len(f) + 1
  OBVIOUS
<1>3. IsFile(f2) /\ Grown(f, f2, r, n)
  BY <1>1, <1>2, GrownIs
<1>4. PICK g : g = Counted(g0)
  OBVIOUS
<1>5. GraphTyped(g) /\ g.records = g0.records + 1 /\ Same(g0, g, {"records"})
  BY <1>1, <1>4, CountedIs
<1>6. /\ GraphTyped(h) /\ h.mode = g0.mode /\ h.records = g0.records + 1 /\ h.diags >= g0.diags
      /\ h.diags = g0.diags => ~g0.footer /\ CleanStep(g, h, r)
  BY ONLY <1>1, <1>4, Readable(r), h = ReadLine(g0, r), ReadIs
<1>7. /\ g.mode = g0.mode /\ g.diags = g0.diags /\ g.footer = g0.footer /\ g.modules = g0.modules
      /\ g.sites = g0.sites /\ g.nodes = g0.nodes /\ g.counts = g0.counts /\ g.edges = g0.edges
      /\ g.runs = g0.runs /\ g.forces = g0.forces /\ g.overflow = g0.overflow
  BY <1>5 DEF Same, GraphFields
<1>8. ASSUME h.diags = 0 PROVE Clean(h, f2)
  <2>1. g0.diags = 0 /\ h.diags = g0.diags
    <3>1. g0.diags \in Nat
      BY <1>1, TypedFields
    <3> QED
      BY <1>6, <1>8, <3>1
  <2>2. Clean(g, f)
    BY <1>1, <1>7, <2>1 DEF Clean
  <2>3. Reads(g, f, h, f2, r, n)
    <3>1. n \in Nat /\ g.records = n + 1
      BY <1>1, <1>2, <1>3, <1>5 DEF Grown
    <3> QED
      BY <1>1, <1>3, <1>5, <1>6, <1>7, <2>1, <2>2, <3>1 DEF Reads
  <2>4. CASE r.event = "footer"
    <3>1. r.complete /\ h.footer /\ Same(g, h, {"footer"})
      BY <1>6, <2>1, <2>4 DEF CleanStep
    <3> QED
      BY <2>3, <2>4, <3>1, FooterKeeps
  <2>5. CASE r.event # "footer"
    <3>1. Records(g, f, h, f2, r, n)
      BY <1>6, <2>1, <2>3, <2>5 DEF CleanStep, Records
    <3> QED
      BY <3>1, RecordKeeps
  <2> QED
    BY <2>4, <2>5
<1>9. \A i \in DOMAIN f2 : Readable(f2[i])
  BY <1>3 DEF Built, Grown
<1>10. h.records = Len(f2) + 1 /\ Cardinality(DOMAIN h.counts) <= EgNodeLimit
  BY <1>1, <1>2, <1>3, <1>6 DEF Grown, WithinLimits
<1> QED
  BY <1>3, <1>6, <1>8, <1>9, <1>10 DEF Built

\* No line yet.
LEMMA BuiltStart ==
  ASSUME NEW mode \in {"detail", "counts"}, NEW g, g = EmptyGraph(mode), NEW f, f = <<>>
  PROVE  Built(g, f)
<1>1. /\ DOMAIN g = GraphFields /\ g.mode = mode /\ g.records = 1 /\ g.diags = 0 /\ g.footer = FALSE
      /\ g.modules = {} /\ g.sites = {} /\ g.nodes = Zero /\ g.edges = Zero /\ g.counts = Zero
      /\ g.runs = Zero /\ g.forces = 0 /\ g.overflow = FALSE
  BY DEF EmptyGraph, GraphFields
<1>2. DOMAIN Zero = {}
  BY DEF Zero
<1>3. IsFiniteSet({}) /\ Cardinality({}) = 0
  BY FS_EmptySet
<1>4. GraphTyped(g)
  <2>1. Zero \in [{} -> Nat]
    BY DEF Zero
  <2>2. g.counts \in [DOMAIN g.counts -> Nat]
    BY <1>1, <1>2, <2>1
  <2>3. /\ IsFiniteSet(DOMAIN g.nodes) /\ IsFiniteSet(DOMAIN g.counts) /\ IsFiniteSet(DOMAIN g.runs)
        /\ DOMAIN g.nodes = {} /\ DOMAIN g.counts = {} /\ DOMAIN g.runs = {} /\ DOMAIN g.edges = {}
    BY <1>1, <1>2, <1>3
  <2>4. IsFiniteSet(g.sites) /\ g.sites \subseteq Nat \X Nat
    BY <1>1, <1>3
  <2>5. g.mode \in {"detail", "counts"} /\ g.records \in Nat /\ g.diags \in Nat /\ g.forces \in Nat
    BY <1>1
  <2>6. g.footer \in BOOLEAN /\ g.overflow \in BOOLEAN
    BY <1>1, Zenon
  <2> QED
    BY <1>1, <2>2, <2>3, <2>4, <2>5, <2>6 DEF GraphTyped
<1>5. IsFile(f) /\ DOMAIN f = {} /\ Len(f) = 0
  <2>1. f \in Seq({})
    OBVIOUS
  <2> QED
    BY <2>1 DEF IsFile
<1>6. \A E : Lines(f, E) = {}
  BY <1>5 DEF Lines
<1>7. Starts(f) = {} /\ \A k : RowsAt(f, k) = {}
  BY <1>6 DEF Starts, RowsAt
<1>8. FooterIs(g.footer, f) /\ ModulesAre(g.modules, f) /\ SitesAre(g.sites, f)
  BY <1>1, <1>6 DEF FooterIs, ModulesAre, SitesAre
<1>9. NodesAre(g.nodes, f)
  BY <1>1, <1>2, <1>6 DEF NodesAre, Definitions
<1>10. TablesAre(g.counts, g.edges, f)
  <2>1. Invoked(f) = Zero /\ Related(f) = Zero
    BY <1>6 DEF Invoked, Related, Zero
  <2>2. Tally(Zero) = Zero
    <3>1. Range(Zero) = {}
      BY <1>2 DEF Range
    <3> QED
      BY <3>1 DEF Tally, Zero
  <2> QED
    BY <1>1, <1>6, <2>1, <2>2 DEF TablesAre
<1>11. RunsAre(g.runs, f) /\ RowsAre(g.runs, g.sites, f)
  BY <1>1, <1>2, <1>6, <1>7 DEF RunsAre, RowsAre
<1>12. SumsAre(g.counts, g.forces, g.overflow, f)
  <2>1. Units(f, {}) = {}
    BY DEF Units
  <2>2. SumOf(f, {}) = 0 /\ IsFiniteSet(Units(f, {}))
    BY <1>3, <2>1 DEF SumOf, Units
  <2> QED
    BY <1>1, <1>2, <1>6, <2>2 DEF SumsAre
<1>13. Clean(g, f)
  BY <1>6, <1>8, <1>9, <1>10, <1>11, <1>12 DEF Clean
<1> QED
  BY <1>1, <1>2, <1>3, <1>4, <1>5, <1>13, EgAssumption DEF Built

-----------------------------------------------------------------------------
(* finish *)

\* What finish finds open.
OpenKinds == {"terminal", "module", "rows"}
SitesOf(g, e) == {k \in g.sites : k[1] = g.runs[e].module}
OpenAt(g, x) == \/ x[2] = "terminal" /\ ~g.runs[x[1]].terminal
                \/ x[2] = "module" /\ g.runs[x[1]].module \notin g.modules
                \/ x[2] = "rows" /\ Cardinality(g.runs[x[1]].sites) # Cardinality(SitesOf(g, x[1]))
OpenSet(g) == {x \in (DOMAIN g.runs) \X OpenKinds : OpenAt(g, x)}
Unnamed(g) == {k[1] : k \in g.sites \cup DOMAIN g.counts} \ g.modules
Siteless(g) == DOMAIN g.counts \ g.sites
Undefined(g) == {k \in DOMAIN g.nodes : ~g.nodes[k]}

\* A graph that leaves nothing open.
Whole(g) ==
  /\ \A k \in g.sites : k[1] \in g.modules
  /\ DOMAIN g.counts \subseteq g.sites
  /\ \A k \in DOMAIN g.nodes : g.nodes[k]
  /\ \A e \in DOMAIN g.runs : /\ g.runs[e].terminal /\ g.runs[e].module \in g.modules
                              /\ Cardinality(g.runs[e].sites) = Cardinality(SitesOf(g, e))

\* The open ones are finitely many, and counted.
LEMMA OpenIs ==
  ASSUME NEW g, GraphTyped(g)
  PROVE  /\ OpenRuns(g) = Cardinality(OpenSet(g)) /\ IsFiniteSet(OpenSet(g))
         /\ Missing(g) = Cardinality(Unnamed(g)) + Cardinality(Siteless(g)) + Cardinality(Undefined(g))
         /\ IsFiniteSet(Unnamed(g)) /\ IsFiniteSet(Siteless(g)) /\ IsFiniteSet(Undefined(g))
<1>1. OpenRuns(g) = Cardinality(OpenSet(g))
  BY DEF OpenRuns, OpenSet, OpenAt, OpenKinds, SitesOf
<1>2. Missing(g) = Cardinality(Unnamed(g)) + Cardinality(Siteless(g)) + Cardinality(Undefined(g))
  BY DEF Missing, Unnamed, Siteless, Undefined
<1>3. /\ IsFiniteSet(DOMAIN g.runs) /\ IsFiniteSet(g.sites) /\ IsFiniteSet(DOMAIN g.counts)
      /\ IsFiniteSet(DOMAIN g.nodes)
  BY TypedFields
<1>4. IsFiniteSet(OpenSet(g))
  <2>1. IsFiniteSet(OpenKinds)
    <3>1. IsFiniteSet({}) /\ OpenKinds = (({} \cup {"terminal"}) \cup {"module"}) \cup {"rows"}
      BY FS_EmptySet DEF OpenKinds
    <3>2. IsFiniteSet({} \cup {"terminal"})
      BY <3>1, FS_AddElement
    <3>3. IsFiniteSet(({} \cup {"terminal"}) \cup {"module"})
      BY <3>2, FS_AddElement
    <3>4. IsFiniteSet((({} \cup {"terminal"}) \cup {"module"}) \cup {"rows"})
      BY <3>3, FS_AddElement
    <3> QED
      BY <3>1, <3>4
  <2>2. IsFiniteSet((DOMAIN g.runs) \X OpenKinds)
    BY <1>3, <2>1, FS_Product
  <2>3. OpenSet(g) \in SUBSET ((DOMAIN g.runs) \X OpenKinds)
    BY DEF OpenSet
  <2> QED
    BY <2>2, <2>3, FS_Subset
<1>5. IsFiniteSet(Unnamed(g))
  <2>1. PICK keys : keys = g.sites \cup DOMAIN g.counts
    OBVIOUS
  <2>2. IsFiniteSet(keys)
    BY <1>3, <2>1, FS_Union
  <2>3. PICK first : first = [k \in keys |-> k[1]]
    OBVIOUS
  <2>4. PICK T : T = {k[1] : k \in keys}
    OBVIOUS
  <2>5. first \in Surjection(keys, T)
    <3>1. first \in [keys -> T] /\ \A t \in T : \E k \in keys : first[k] = t
      BY <2>3, <2>4
    <3> QED
      BY <3>1 DEF Surjection
  <2>6. IsFiniteSet(T)
    BY <2>2, <2>5, FS_Surjection
  <2>7. Unnamed(g) = T \ g.modules
    BY <2>1, <2>4 DEF Unnamed
  <2> QED
    BY <2>6, <2>7, FS_Difference
<1>6. IsFiniteSet(Siteless(g))
  BY <1>3, FS_Difference DEF Siteless
<1>7. IsFiniteSet(Undefined(g))
  <2>1. Undefined(g) \in SUBSET DOMAIN g.nodes
    BY DEF Undefined
  <2> QED
    BY <1>3, <2>1, FS_Subset
<1> QED
  BY <1>1, <1>2, <1>4, <1>5, <1>6, <1>7

\* With none open, the graph is whole.
LEMMA WholeIs ==
  ASSUME NEW g, GraphTyped(g), OpenSet(g) = {}, Unnamed(g) = {}, Siteless(g) = {}, Undefined(g) = {}
  PROVE  Whole(g)
<1>1. \A k \in g.sites : k[1] \in g.modules
  BY DEF Unnamed
<1>2. DOMAIN g.counts \subseteq g.sites
  BY DEF Siteless
<1>3. \A k \in DOMAIN g.nodes : g.nodes[k]
  BY DEF Undefined
<1>4. ASSUME NEW e \in DOMAIN g.runs
      PROVE  /\ g.runs[e].terminal /\ g.runs[e].module \in g.modules
             /\ Cardinality(g.runs[e].sites) = Cardinality(SitesOf(g, e))
  <2>1. \A d \in OpenKinds : ~OpenAt(g, <<e, d>>)
    BY <1>4 DEF OpenSet
  <2>2. ~OpenAt(g, <<e, "terminal">>) /\ ~OpenAt(g, <<e, "module">>) /\ ~OpenAt(g, <<e, "rows">>)
    BY <2>1 DEF OpenKinds
  <2> QED
    BY <2>2 DEF OpenAt
<1> QED
  BY <1>1, <1>2, <1>3, <1>4 DEF Whole

\* What finish sets, and what "complete" and "exact" then say.
LEMMA FinishIs ==
  ASSUME NEW g, GraphTyped(g), NEW h, h = FinishGraph(g)
  PROVE  /\ Same(g, h, {"missing", "diags", "complete", "exact"})
         /\ h.complete => g.footer /\ g.diags = 0 /\ Whole(g)
         /\ h.exact => ~g.overflow
<1>1. PICK m : m = Missing(g)
  OBVIOUS
<1>2. PICK all : all = g.diags + ((IF g.footer THEN 0 ELSE 1) + OpenRuns(g) + m)
  OBVIOUS
<1>3. PICK c : c = (g.footer /\ all = 0)
  OBVIOUS
<1>4. PICK x : x = (g.footer /\ all = 0 /\ ~g.overflow)
  OBVIOUS
<1>5. h = [g EXCEPT !.missing = m, !.diags = all, !.complete = c, !.exact = x]
  BY <1>1, <1>2, <1>3, <1>4 DEF FinishGraph
<1>6. Same(g, h, {"missing", "diags", "complete", "exact"}) /\ h.complete = c /\ h.exact = x
  <2>1. DOMAIN g = GraphFields
    BY TypedFields
  <2>2. Same(g, h, {"missing", "diags", "complete", "exact"})
    BY ONLY <1>5, <2>1 DEF GraphFields, Same
  <2>3. h.complete = c
    BY ONLY <1>5, <2>1, Zenon DEF GraphFields
  <2>4. h.exact = x
    BY ONLY <1>5, <2>1, Zenon DEF GraphFields
  <2> QED
    BY <2>2, <2>3, <2>4
<1>7. ASSUME c PROVE g.footer /\ g.diags = 0 /\ Whole(g)
  <2>1. g.footer /\ all = 0
    BY <1>3, <1>7
  <2>2. PICK o \in Nat, u \in Nat, s \in Nat, d \in Nat :
          /\ o = Cardinality(OpenSet(g)) /\ u = Cardinality(Unnamed(g))
          /\ s = Cardinality(Siteless(g)) /\ d = Cardinality(Undefined(g))
    BY OpenIs, FS_CardinalityType
  <2>3. OpenRuns(g) = o /\ m = u + s + d
    BY <1>1, <2>2, OpenIs
  <2>4. all = g.diags + (0 + o + (u + s + d)) /\ g.diags \in Nat
    BY <1>2, <2>1, <2>3, TypedFields
  <2>5. g.diags = 0 /\ o = 0 /\ u = 0 /\ s = 0 /\ d = 0
    BY <2>1, <2>4
  <2>6. OpenSet(g) = {} /\ Unnamed(g) = {} /\ Siteless(g) = {} /\ Undefined(g) = {}
    BY <2>2, <2>5, OpenIs, FS_EmptySet
  <2>7. Whole(g)
    BY <2>6, WholeIs
  <2> QED
    BY <2>1, <2>5, <2>7
<1> QED
  BY <1>4, <1>6, <1>7

\* The parts of every capture.
LEMMA FileIsWhole ==
  ASSUME NEW g, NEW f, GraphTyped(g), Clean(g, f), g.footer, Whole(g)
  PROVE  FileWhole(f)
<1>1. /\ f # <<>> /\ Lines(f, {"footer"}) = {Len(f)} /\ Lines(f, {"torn"}) = {}
      /\ f[Len(f)].complete
  BY DEF Clean, FooterIs
<1>2. IsInjective([i \in Lines(f, {"module"}) |-> f[i].module])
  BY DEF IsInjective, Clean, ModulesAre
<1>3. IsInjective([i \in Lines(f, {"site"}) |-> SiteOf(f[i])])
  BY DEF IsInjective, Clean, SitesAre
<1>4. ASSUME NEW i \in Lines(f, {"site"}) PROVE \E j \in Lines(f, {"module"}) : f[j].module = f[i].module
  <2>1. SiteOf(f[i]) \in g.sites
    BY <1>4 DEF Clean, SitesAre
  <2>2. SiteOf(f[i])[1] \in g.modules
    BY <2>1 DEF Whole
  <2>3. f[i].module \in g.modules
    BY <2>2 DEF SiteOf
  <2> QED
    BY <2>3 DEF Clean, ModulesAre
<1>5. ASSUME NEW i \in Lines(f, {"invocation", "counts"})
      PROVE  \E j \in Lines(f, {"site"}) : SiteOf(f[j]) = SiteOf(f[i])
  <2>1. i \in Lines(f, {"invocation"}) \/ i \in Lines(f, {"counts"})
    BY <1>5 DEF Lines
  <2>2. SiteOf(f[i]) \in DOMAIN g.counts
    <3>1. CASE g.mode = "detail"
      <4>1. g.counts = Tally(Invoked(f)) /\ i \in Lines(f, {"invocation"})
        BY <2>1, <3>1 DEF Clean, TablesAre
      <4>2. DOMAIN g.counts = Range(Invoked(f))
        BY <4>1 DEF Tally
      <4>3. i \in DOMAIN Invoked(f) /\ Invoked(f)[i] = SiteOf(f[i])
        BY <4>1 DEF Invoked
      <4> QED
        BY <4>2, <4>3 DEF Range
    <3>2. CASE g.mode = "counts"
      <4>1. i \notin Lines(f, {"invocation"})
        BY <3>2 DEF Clean, DetailEvents, Lines
      <4>2. DOMAIN g.counts = {SiteOf(f[j]) : j \in Lines(f, {"counts"})}
        BY <3>2 DEF Clean, SumsAre
      <4> QED
        BY <2>1, <4>1, <4>2
    <3> QED
      BY <3>1, <3>2, TypedFields
  <2>3. SiteOf(f[i]) \in g.sites
    BY <2>2 DEF Whole
  <2> QED
    BY <2>3 DEF Clean, SitesAre
<1> QED
  BY <1>1, <1>2, <1>3, <1>4, <1>5 DEF FileWhole

\* Those of a detailed graph.
LEMMA DetailIsWhole ==
  ASSUME NEW g, NEW f, NEW h, Clean(g, f), Whole(g), g.mode = "detail",
         h.counts = g.counts, h.edges = g.edges
  PROVE  DetailWhole(h, f)
<1>1. NodesAre(g.nodes, f) /\ TablesAre(g.counts, g.edges, f)
  BY DEF Clean
<1>2. DOMAIN g.nodes = Definitions(f)
  BY <1>1 DEF NodesAre, Whole
<1>3. IsInjective([i \in Lines(f, {"invocation"}) |-> f[i].inv])
  BY <1>1 DEF IsInjective, NodesAre
<1>4. IsInjective([i \in Lines(f, {"allocation"}) |-> f[i].thunk])
  BY <1>1 DEF IsInjective, NodesAre
<1>5. ASSUME NEW i \in Lines(f, RelationEvents \cup {"cache"})
      PROVE  \E j \in Lines(f, {"invocation"}) : f[j].inv = f[i].inv
  <2>1. Invocation(f[i].inv) \in Definitions(f)
    BY <1>1, <1>2, <1>5 DEF NodesAre
  <2> QED
    BY <2>1, KeysApart DEF Definitions
<1>6. ASSUME NEW i \in Lines(f, RelationEvents)
      PROVE  \E j \in Lines(f, {"allocation"}) : f[j].thunk = f[i].thunk
  <2>1. Thunk(f[i], i + 1) \in Definitions(f)
    BY <1>1, <1>2, <1>6 DEF NodesAre
  <2>2. Thunk(f[i], i + 1) = <<"thunk", f[i].thunk>>
    BY <2>1, KeysApart DEF Thunk, Definitions
  <2> QED
    BY <2>1, <2>2, KeysApart DEF Definitions
<1>7. /\ h.counts = Tally([i \in Lines(f, {"invocation"}) |-> SiteOf(f[i])])
      /\ h.edges = Tally([i \in Lines(f, RelationEvents) |-> EdgeOf(f[i], i + 1)])
  BY <1>1 DEF TablesAre, Invoked, Related
<1> QED
  BY <1>3, <1>4, <1>5, <1>6, <1>7 DEF DetailWhole

\* An execution with as many rows as its module has sites has one for each.
LEMMA RowsAll ==
  ASSUME NEW g, NEW f, GraphTyped(g), RowsAre(g.runs, g.sites, f), NEW e \in DOMAIN g.runs,
         Cardinality(g.runs[e].sites) = Cardinality(SitesOf(g, e)), NEW k \in SitesOf(g, e)
  PROVE  k[2] \in g.runs[e].sites
<1>1. PICK S : S = g.runs[e].sites
  OBVIOUS
<1>2. PICK T : T = SitesOf(g, e)
  OBVIOUS
<1>3. PICK m : m = g.runs[e].module
  OBVIOUS
<1>4. \A s \in S : <<m, s>> \in T
  <2>1. ASSUME NEW s \in S PROVE <<m, s>> \in T
    <3>1. PICK i \in Lines(f, {"counts"}) : f[i].exec = e /\ f[i].site = s
      BY <1>1, <2>1 DEF RowsAre
    <3>2. RowIs(g.runs, g.sites, f[i])
      BY <3>1 DEF RowsAre
    <3>3. f[i].module = m /\ SiteOf(f[i]) \in g.sites
      BY <1>3, <3>1, <3>2 DEF RowIs
    <3>4. <<m, s>> \in g.sites
      BY <3>1, <3>3 DEF SiteOf
    <3> QED
      BY <1>2, <1>3, <3>4 DEF SitesOf
  <2> QED
    BY <2>1
<1>5. PICK pair : pair = [s \in S |-> <<m, s>>]
  OBVIOUS
<1>6. pair \in [S -> T] /\ \A a, b \in S : pair[a] = pair[b] => a = b
  BY <1>4, <1>5
<1>7. pair \in Injection(S, T)
  BY <1>6 DEF Injection, IsInjective
<1>8. IsFiniteSet(T)
  <2>1. IsFiniteSet(g.sites) /\ T \in SUBSET g.sites
    BY <1>2, TypedFields DEF SitesOf
  <2> QED
    BY <2>1, FS_Subset
<1>9. Cardinality(S) = Cardinality(T)
  BY <1>1, <1>2
<1>10. pair \in Surjection(S, T)
  BY ONLY <1>7, <1>8, <1>9, FS_Injection
<1>11. \E s \in S : pair[s] = k
  BY <1>2, <1>10 DEF Surjection
<1> QED
  BY <1>1, <1>5, <1>11

\* Those of a table of counts.
LEMMA CountsIsWhole ==
  ASSUME NEW g, NEW f, NEW h, GraphTyped(g), Clean(g, f), Whole(g), g.mode = "counts",
         h.counts = g.counts, h.forces = g.forces, h.exact => ~g.overflow
  PROVE  CountsWhole(h, f)
<1>1. /\ RunsAre(g.runs, f) /\ RowsAre(g.runs, g.sites, f)
      /\ SumsAre(g.counts, g.forces, g.overflow, f) /\ SitesAre(g.sites, f)
  BY DEF Clean
<1>2. ASSUME NEW i \in Starts(f)
      PROVE  \E j \in Lines(f, {"execution"}) \ Starts(f) : j > i /\ f[j].exec = f[i].exec
  BY <1>1, <1>2 DEF RunsAre, Whole
<1>3. ASSUME NEW i \in Starts(f), NEW k \in Lines(f, {"site"}), f[k].module = f[i].module
      PROVE  Cardinality({j \in RowsAt(f, SiteOf(f[k])) : f[j].exec = f[i].exec}) = 1
  <2>1. PICK e : e = f[i].exec
    OBVIOUS
  <2>2. e \in DOMAIN g.runs /\ g.runs[e].module = f[k].module
    BY <1>1, <1>3, <2>1 DEF RunsAre
  <2>3. SiteOf(f[k]) \in SitesOf(g, e)
    <3>1. SiteOf(f[k]) \in g.sites /\ SiteOf(f[k])[1] = f[k].module
      BY <1>1, <1>3 DEF SitesAre, SiteOf
    <3> QED
      BY <2>2, <3>1 DEF SitesOf
  <2>4. f[k].site \in g.runs[e].sites
    <3>1. Cardinality(g.runs[e].sites) = Cardinality(SitesOf(g, e))
      BY <2>2 DEF Whole
    <3>2. SiteOf(f[k])[2] \in g.runs[e].sites
      BY <1>1, <2>2, <2>3, <3>1, RowsAll
    <3> QED
      BY <3>2 DEF SiteOf
  <2>5. PICK j \in Lines(f, {"counts"}) : f[j].exec = e /\ f[j].site = f[k].site
    BY <1>1, <2>2, <2>4 DEF RowsAre
  <2>6. f[j].module = f[k].module
    BY <1>1, <2>2, <2>5 DEF RowsAre, RowIs
  <2>7. SiteOf(f[j]) = SiteOf(f[k])
    BY <2>5, <2>6 DEF SiteOf
  <2>8. \A l \in RowsAt(f, SiteOf(f[k])) : f[l].exec = e => l = j
    <3>1. \A l \in RowsAt(f, SiteOf(f[k])) : l \in Lines(f, {"counts"}) /\ f[l].site = f[k].site
      BY DEF RowsAt, SiteOf
    <3> QED
      BY <1>1, <2>5, <3>1 DEF RowsAre
  <2>9. {l \in RowsAt(f, SiteOf(f[k])) : f[l].exec = f[i].exec} = {j}
    BY <2>1, <2>5, <2>7, <2>8 DEF RowsAt
  <2> QED
    BY <2>9, FS_Singleton
<1>4. ASSUME h.exact
      PROVE  /\ h.forces = SumOf(f, Lines(f, {"counts"}))
             /\ DOMAIN h.counts = {SiteOf(f[j]) : j \in Lines(f, {"counts"})}
             /\ \A k \in DOMAIN h.counts : h.counts[k] = SumOf(f, RowsAt(f, k))
  BY <1>1, <1>4 DEF SumsAre
<1> QED
  BY <1>2, <1>3, <1>4 DEF CountsWhole

-----------------------------------------------------------------------------
(* Queries *)

\* Both ends of an edge are nodes.
LEMMA NeighborsAreNodes ==
  ASSUME NEW g, \A e \in DOMAIN g.edges : e[1] \in DOMAIN g.nodes /\ e[2] \in DOMAIN g.nodes,
         NEW k \in DOMAIN g.nodes
  PROVE  NeighborNodes(g, k) \subseteq DOMAIN g.nodes
BY DEF NeighborNodes, Neighborhood

\* The order of the callable table is total and strict.
LEMMA AboveIs ==
  ASSUME NEW g, g.counts \in [DOMAIN g.counts -> Nat], DOMAIN g.counts \subseteq Nat \X Nat,
         NEW a \in DOMAIN g.counts, NEW b \in DOMAIN g.counts
  PROVE  /\ ~Above(g, a, a) /\ (a = b \/ Above(g, a, b) \/ Above(g, b, a))
         /\ \A c \in DOMAIN g.counts : Above(g, c, a) /\ Above(g, a, b) => Above(g, c, b)
<1>1. \A k \in DOMAIN g.counts : k[1] \in Nat /\ k[2] \in Nat /\ k = <<k[1], k[2]>> /\ g.counts[k] \in Nat
  OBVIOUS
<1>2. ~Above(g, a, a)
  BY <1>1 DEF Above
<1>3. a = b \/ Above(g, a, b) \/ Above(g, b, a)
  BY <1>1 DEF Above
<1>4. ASSUME NEW c \in DOMAIN g.counts, Above(g, c, a), Above(g, a, b) PROVE Above(g, c, b)
  BY <1>1, <1>4 DEF Above
<1> QED
  BY <1>2, <1>3, <1>4

\* Rows are distinct places, fewer than the rows there are.
LEMMA RowsApart ==
  ASSUME NEW g, g.counts \in [DOMAIN g.counts -> Nat], DOMAIN g.counts \subseteq Nat \X Nat,
         IsFiniteSet(DOMAIN g.counts), NEW a \in DOMAIN g.counts
  PROVE  /\ RowOf(g, a) \in Nat /\ RowOf(g, a) < Cardinality(DOMAIN g.counts)
         /\ \A b \in DOMAIN g.counts : Above(g, a, b) => RowOf(g, a) < RowOf(g, b)
<1>1. ASSUME NEW B, IsFiniteSet(B), NEW A \in SUBSET B, NEW x \in B, x \notin A
      PROVE  Cardinality(A) \in Nat /\ Cardinality(A) < Cardinality(B)
  <2>1. /\ IsFiniteSet(A) /\ Cardinality(A) <= Cardinality(B) /\ Cardinality(A) # Cardinality(B)
    BY <1>1, FS_Subset
  <2>2. Cardinality(A) \in Nat /\ Cardinality(B) \in Nat
    BY <1>1, <2>1, FS_CardinalityType
  <2> QED
    BY <2>1, <2>2
<1>2. PICK D : D = DOMAIN g.counts
  OBVIOUS
<1>3. PICK A : A = {l \in D : Above(g, l, a)}
  OBVIOUS
<1>4. A \in SUBSET D /\ a \notin A /\ a \in D /\ IsFiniteSet(D) /\ RowOf(g, a) = Cardinality(A)
  BY <1>2, <1>3, AboveIs DEF RowOf
<1>5. Cardinality(A) \in Nat /\ Cardinality(A) < Cardinality(D)
  BY <1>1, <1>4
<1>6. ASSUME NEW b \in D, Above(g, a, b) PROVE RowOf(g, a) < RowOf(g, b)
  <2>1. PICK B : B = {l \in D : Above(g, l, b)}
    OBVIOUS
  <2>2. RowOf(g, b) = Cardinality(B)
    BY <1>2, <2>1 DEF RowOf
  <2>3. B \in SUBSET D /\ a \in B
    BY <1>4, <1>6, <2>1
  <2>4. IsFiniteSet(B)
    BY <1>4, <2>3, FS_Subset
  <2>5. A \in SUBSET B
    <3>1. \A c \in D : Above(g, c, a) => Above(g, c, b)
      BY <1>2, <1>6, AboveIs
    <3> QED
      BY <1>3, <2>1, <3>1
  <2>6. Cardinality(A) < Cardinality(B)
    BY <1>1, <1>4, <2>3, <2>4, <2>5
  <2> QED
    BY <1>4, <2>2, <2>6
<1> QED
  BY <1>2, <1>4, <1>5, <1>6

\* A page of one row at a site's own place holds that site.
LEMMA AloneInPage ==
  ASSUME NEW g, GraphTyped(g), Cardinality(DOMAIN g.counts) <= EgNodeLimit, NEW k \in DOMAIN g.counts
  PROVE  \E offset \in 0 .. EgNodeLimit - 1 : Callables(g, offset, 1) = {k}
<1>1. /\ g.counts \in [DOMAIN g.counts -> Nat] /\ DOMAIN g.counts \subseteq Nat \X Nat
      /\ IsFiniteSet(DOMAIN g.counts)
  BY TypedFields
<1>2. \A a \in DOMAIN g.counts :
        /\ RowOf(g, a) \in Nat /\ RowOf(g, a) < Cardinality(DOMAIN g.counts)
        /\ \A b \in DOMAIN g.counts : Above(g, a, b) => RowOf(g, a) < RowOf(g, b)
  BY <1>1, RowsApart
<1>3. Cardinality(DOMAIN g.counts) \in Nat /\ EgNodeLimit \in Nat
  BY <1>1, FS_CardinalityType, EgAssumption
<1>4. PICK o \in Nat : o = RowOf(g, k)
  BY <1>2
<1>5. o \in 0 .. EgNodeLimit - 1
  BY <1>2, <1>3, <1>4
<1>6. \A a \in DOMAIN g.counts : o <= RowOf(g, a) /\ RowOf(g, a) < o + 1 <=> a = k
  <2>1. ASSUME NEW a \in DOMAIN g.counts, a # k PROVE RowOf(g, a) # o
    <3>1. Above(g, a, k) \/ Above(g, k, a)
      BY <1>1, <2>1, AboveIs
    <3>2. RowOf(g, a) < RowOf(g, k) \/ RowOf(g, k) < RowOf(g, a)
      BY <1>2, <3>1
    <3>3. RowOf(g, a) \in Nat
      BY <1>2
    <3> QED
      BY <1>4, <3>2, <3>3
  <2>2. ASSUME NEW a \in DOMAIN g.counts PROVE o <= RowOf(g, a) /\ RowOf(g, a) < o + 1 <=> RowOf(g, a) = o
    BY <1>2
  <2> QED
    BY <1>4, <2>1, <2>2
<1>7. Callables(g, o, 1) = {k}
  BY <1>6 DEF Callables
<1> QED
  BY <1>5, <1>7

-----------------------------------------------------------------------------
(* import_path, read to its end *)

\* What GraphFaithful says of one graph and its file.
Faithful(g, f) ==
  /\ g.complete =>
       /\ FileWhole(f)
       /\ IF g.mode = "counts" THEN CountsWhole(g, f) ELSE DetailWhole(g, f)
  /\ \A k \in DOMAIN g.nodes : NeighborNodes(g, k) \subseteq DOMAIN g.nodes
  /\ \A k \in DOMAIN g.counts : \E offset \in 0 .. EgNodeLimit - 1 : Callables(g, offset, 1) = {k}

\* The end of the file: finish's answer.
LEMMA FinishKeeps ==
  ASSUME NEW g, NEW f, Built(g, f), NEW h, h = FinishGraph(g)
  PROVE  Faithful(h, f)
<1>1. GraphTyped(g) /\ Cardinality(DOMAIN g.counts) <= EgNodeLimit /\ (g.diags = 0 => Clean(g, f))
  BY DEF Built
<1>2. /\ Same(g, h, {"missing", "diags", "complete", "exact"})
      /\ h.complete => g.footer /\ g.diags = 0 /\ Whole(g)
      /\ h.exact => ~g.overflow
  BY ONLY <1>1, h = FinishGraph(g), FinishIs
<1>3. /\ h.mode = g.mode /\ h.nodes = g.nodes /\ h.edges = g.edges /\ h.counts = g.counts
      /\ h.forces = g.forces
  BY <1>2 DEF Same, GraphFields
<1>4. ASSUME h.complete
      PROVE  /\ FileWhole(f)
             /\ IF h.mode = "counts" THEN CountsWhole(h, f) ELSE DetailWhole(h, f)
  <2>1. Clean(g, f) /\ Whole(g) /\ g.footer
    BY <1>1, <1>2, <1>4
  <2>2. FileWhole(f)
    BY <1>1, <2>1, FileIsWhole
  <2>3. CASE g.mode = "counts"
    <3>1. CountsWhole(h, f)
      BY ONLY <1>1, <1>2, <1>3, <2>1, <2>3, CountsIsWhole
    <3> QED
      BY <1>3, <2>2, <2>3, <3>1
  <2>4. CASE g.mode # "counts"
    <3>1. g.mode = "detail"
      BY <1>1, <2>4, TypedFields
    <3>2. DetailWhole(h, f)
      BY ONLY <1>3, <2>1, <3>1, DetailIsWhole
    <3> QED
      BY <1>3, <2>2, <2>4, <3>2
  <2> QED
    BY <2>3, <2>4
<1>5. \A k \in DOMAIN h.nodes : NeighborNodes(h, k) \subseteq DOMAIN h.nodes
  <2>1. \A e \in DOMAIN h.edges : e[1] \in DOMAIN h.nodes /\ e[2] \in DOMAIN h.nodes
    BY <1>1, <1>3, TypedFields
  <2> QED
    BY ONLY <2>1, NeighborsAreNodes
<1>6. ASSUME NEW k \in DOMAIN h.counts
      PROVE  \E offset \in 0 .. EgNodeLimit - 1 : Callables(h, offset, 1) = {k}
  <2>1. PICK offset \in 0 .. EgNodeLimit - 1 : Callables(g, offset, 1) = {k}
    BY <1>1, <1>3, AloneInPage
  <2>2. Callables(h, offset, 1) = Callables(g, offset, 1)
    BY <1>3 DEF Callables, RowOf, Above
  <2> QED
    BY <2>1, <2>2
<1> QED
  BY <1>4, <1>5, <1>6 DEF Faithful

\* One reader at a time: under construction its graph is that of its lines, and
\* when it is read it is what GraphFaithful says.
ImportInd ==
  \A c \in EgClients : /\ egPhase[c] = "reading" => Built(egGraph, egFile)
                       /\ egPhase[c] = "read" => Faithful(egGraph, egFile)
GraphInd == RegistryInd /\ ImportInd

\* Nobody reads yet.
LEMMA GraphInit == ASSUME EgInit PROVE GraphInd
<1>1. ImportInd
  BY DEF EgInit, ImportInd
<1> QED
  BY <1>1, RegistryInit DEF GraphInd

\* Every step of every client.
LEMMA GraphStep == ASSUME GraphInd, [EgNext]_egVars PROVE GraphInd'
<1>1. RegistryInd'
  BY RegistryStep DEF GraphInd
<1>2. egPhase \in [EgClients -> {"idle", "reading", "read"}]
  BY DEF GraphInd, RegistryInd, RegistryTyped
<1>3. \A c \in EgClients : egPhase[c] # "idle" => egLock = c
  BY DEF GraphInd, RegistryInd, CapturesBounded
<1>4. ASSUME NEW c \in EgClients, NEW mode \in EgModes, ImportPath(c, mode) PROVE ImportInd'
  <2>1. egLock = EgNobody /\ \A d \in EgClients : egPhase[d] = "idle"
    BY <1>3, <1>4, EgAssumption DEF ImportPath, Acquire
  <2>2. Built(egGraph', egFile')
    <3>1. mode \in {"detail", "counts"} /\ egGraph' = EmptyGraph(mode) /\ egFile' = <<>>
      BY <1>4, EgAssumption DEF ImportPath
    <3> QED
      BY ONLY <3>1, BuiltStart
  <2>3. \A d \in EgClients : egPhase'[d] # "read"
    BY <1>2, <1>4, <2>1 DEF ImportPath
  <2> QED
    BY <2>2, <2>3 DEF ImportInd
<1>5. ASSUME NEW c \in EgClients, Released(c), egPhase[c] # "idle" PROVE ImportInd'
  <2>1. \A d \in EgClients : egPhase'[d] = "idle"
    BY <1>2, <1>3, <1>5 DEF Released
  <2> QED
    BY <2>1 DEF ImportInd
<1>6. ASSUME NEW c \in EgClients, NEW r, ReadRecord(c, r) PROVE ImportInd'
  <2>1. CASE Released(c)
    BY <1>5, <1>6, <2>1 DEF ReadRecord
  <2>2. CASE ~Released(c)
    <3>1. /\ Readable(r) /\ egPhase[c] = "reading" /\ egPhase' = egPhase
          /\ egGraph' = ReadLine(egGraph, r) /\ WithinLimits(egGraph') /\ egFile' = Append(egFile, r)
      BY <1>6, <2>2 DEF ReadRecord
    <3>2. Built(egGraph, egFile)
      BY <3>1 DEF GraphInd, ImportInd
    <3>3. Built(egGraph', egFile')
      BY ONLY <3>1, <3>2, ReadKeeps
    <3>4. \A d \in EgClients : egPhase'[d] # "read"
      BY <1>3, <3>1
    <3> QED
      BY <3>3, <3>4 DEF ImportInd
  <2> QED
    BY <2>1, <2>2
<1>7. ASSUME NEW c \in EgClients, ReadEnd(c) PROVE ImportInd'
  <2>1. Built(egGraph, egFile)
    BY <1>7 DEF ReadEnd, GraphInd, ImportInd
  <2>2. egGraph' = FinishGraph(egGraph) /\ egFile' = egFile
    BY <1>7 DEF ReadEnd
  <2>3. Faithful(egGraph', egFile)
    BY ONLY <2>1, <2>2, FinishKeeps
  <2>4. \A d \in EgClients : egPhase'[d] # "reading"
    BY <1>2, <1>3, <1>7 DEF ReadEnd
  <2> QED
    BY <2>2, <2>3, <2>4 DEF ImportInd
<1>8. ASSUME egPhase' = egPhase, egGraph' = egGraph, egFile' = egFile PROVE ImportInd'
  <2>1. \A d \in EgClients : egPhase'[d] = "reading" => Built(egGraph', egFile')
    BY <1>8 DEF GraphInd, ImportInd
  <2>2. \A d \in EgClients : egPhase'[d] = "read" => Faithful(egGraph', egFile')
    BY <1>8 DEF GraphInd, ImportInd
  <2> QED
    BY <2>1, <2>2 DEF ImportInd
<1>9. ASSUME NEW c \in EgClients, ReadFailed(c) \/ Insert(c) PROVE ImportInd'
  BY <1>5, <1>9 DEF ReadFailed, Insert
<1>10. ASSUME NEW id, Close(id) PROVE ImportInd'
  BY <1>8, <1>10 DEF Close
<1>11. ASSUME UNCHANGED egVars PROVE ImportInd'
  <2>1. egPhase' = egPhase /\ egGraph' = egGraph /\ egFile' = egFile
    BY <1>11 DEF egVars, egReg
  <2> QED
    BY <1>8, <2>1
<1>12. ASSUME NEW c \in EgClients, Refused(c) PROVE ImportInd'
  BY <1>11, <1>12 DEF Refused
<1>13. ImportInd'
  BY <1>4, <1>6, <1>7, <1>9, <1>10, <1>11, <1>12 DEF EgNext
<1> QED
  BY <1>1, <1>13 DEF GraphInd

\* What a capture is called and what its queries answer are true to the file:
\* import_path, read_record, finish, callables and adjacency, for every file, any
\* limit on what is kept and any maximum of the sums.
THEOREM GraphFaithfulThm == EgSpec => []GraphFaithful
<1>1. GraphInd => GraphFaithful
  BY Zenon DEF GraphInd, ImportInd, Faithful, GraphFaithful
<1> QED
  BY GraphInit, GraphStep, <1>1, PTL DEF EgSpec

-----------------------------------------------------------------------------
(* build_blocks_and_edges *)

Instr == [address : Nat, length : Nat \ {0}, flow : Flows, target : Nat]
CfTyped == cfLen \in Nat /\ cfInstrs \in Seq(Instr)
\* One instruction begins where the one before it ended, and all are inside.
Laid ==
  /\ cfInstrs # <<>> => cfInstrs[1].address = CfBase
  /\ \A i \in DOMAIN cfInstrs : cfInstrs[i].address >= CfBase /\ After(i) <= FnHi
  /\ \A i, j \in DOMAIN cfInstrs : i < j => After(i) <= cfInstrs[j].address
  /\ \A i, j \in DOMAIN cfInstrs : j = i + 1 => After(i) = cfInstrs[j].address
CfInd == CfTyped /\ Laid

LEMMA CfIndInit == ASSUME CfInit PROVE CfInd
<1>1. cfLen \in Nat /\ cfInstrs = <<>>
  BY CfAssumption DEF CfInit
<1>2. <<>> \in Seq(Instr)
  OBVIOUS
<1> QED
  BY <1>1, <1>2 DEF CfInd, CfTyped, Laid

\* Decoding one more instruction.
LEMMA DecodedKeeps ==
  ASSUME CfInd, NEW length \in Nat \ {0}, NEW flow \in Flows, NEW target \in Nat,
         NextAddress + length <= FnHi, Decoded(length, flow, target)
  PROVE  CfInd'
<1>1. PICK n \in Nat : n = Len(cfInstrs) /\ DOMAIN cfInstrs = 1 .. n
  BY DEF CfInd, CfTyped
<1>2. CfBase \in Nat /\ cfLen \in Nat /\ cfLen' = cfLen /\ FnHi' = FnHi /\ FnHi \in Nat
  BY CfAssumption DEF CfInd, CfTyped, Decoded, FnHi
<1>3. \A i \in 1 .. n : /\ cfInstrs[i] \in Instr
                        /\ After(i) = cfInstrs[i].address + cfInstrs[i].length /\ After(i) \in Nat
  <2>1. \A i \in 1 .. n : cfInstrs[i] \in Instr
    BY <1>1 DEF CfInd, CfTyped
  <2>2. \A r \in Instr : r.address + r.length \in Nat
    BY DEF Instr
  <2> QED
    BY <2>1, <2>2 DEF After
<1>4. PICK a \in Nat : /\ a = NextAddress /\ a >= CfBase /\ (n = 0 => a = CfBase)
                       /\ (n > 0 => a = After(n))
                       /\ \A i \in 1 .. n : After(i) <= a
  <2>1. CASE n = 0
    <3>1. cfInstrs = <<>>
      BY <1>1, <2>1 DEF CfInd, CfTyped
    <3> QED
      BY <1>1, <1>2, <2>1, <3>1 DEF NextAddress
  <2>2. CASE n > 0
    <3>1. cfInstrs # <<>> /\ n \in 1 .. n
      BY <1>1, <2>2
    <3>2. NextAddress = After(n)
      BY <1>1, <3>1 DEF NextAddress, Last, After
    <3>3. After(n) \in Nat /\ After(n) >= CfBase /\ cfInstrs[n].address <= After(n)
          /\ cfInstrs[n].address \in Nat
      BY <1>1, <1>2, <1>3, <3>1 DEF CfInd, Laid, Instr
    <3>4. \A i \in 1 .. n : i < n => After(i) <= cfInstrs[n].address
      BY <1>1, <3>1 DEF CfInd, Laid
    <3>5. \A i \in 1 .. n : After(i) <= After(n)
      BY <1>3, <3>3, <3>4
    <3> QED
      BY <2>2, <3>2, <3>3, <3>5
  <2> QED
    BY <1>1, <2>1, <2>2
<1>5. PICK r : r = [address |-> a, length |-> length, flow |-> flow, target |-> target]
  OBVIOUS
<1>6. r \in Instr /\ r.address = a /\ r.length = length
  BY <1>5 DEF Instr
<1>7. PICK q : q = Append(cfInstrs, r)
  OBVIOUS
<1>8. cfInstrs' = q
  BY <1>4, <1>5, <1>7 DEF Decoded
<1>9. /\ q \in Seq(Instr) /\ DOMAIN q = 1 .. n + 1 /\ q[n + 1] = r
      /\ \A i \in 1 .. n : q[i] = cfInstrs[i]
  BY <1>1, <1>6, <1>7 DEF CfInd, CfTyped
<1>10. \A i \in 1 .. n + 1 : i \in 1 .. n \/ i = n + 1
  OBVIOUS
<1>11. \A i \in 1 .. n : After(i)' = After(i)
  BY <1>8, <1>9 DEF After
<1>12. After(n + 1)' = a + length /\ a + length <= FnHi
  BY <1>4, <1>6, <1>8, <1>9 DEF After
<1>13. CfTyped'
  BY <1>2, <1>8, <1>9 DEF CfTyped
<1>14. q[1].address = CfBase
  BY <1>1, <1>4, <1>6, <1>9 DEF CfInd, Laid
<1>15. \A i \in DOMAIN q : q[i].address >= CfBase /\ After(i)' <= FnHi
  BY <1>1, <1>4, <1>6, <1>9, <1>10, <1>11, <1>12 DEF CfInd, Laid
<1>16. \A i, j \in DOMAIN q : i < j => After(i)' <= q[j].address
  <2>1. ASSUME NEW i \in 1 .. n + 1, NEW j \in 1 .. n + 1, i < j PROVE After(i)' <= q[j].address
    <3>1. i \in 1 .. n
      BY <2>1
    <3>2. CASE j \in 1 .. n
      BY <1>1, <1>9, <1>11, <2>1, <3>1, <3>2 DEF CfInd, Laid
    <3>3. CASE j = n + 1
      BY <1>4, <1>6, <1>9, <1>11, <3>1, <3>3
    <3> QED
      BY <1>10, <3>2, <3>3
  <2> QED
    BY <1>9, <2>1
<1>17. \A i, j \in DOMAIN q : j = i + 1 => After(i)' = q[j].address
  <2>1. ASSUME NEW i \in 1 .. n + 1, NEW j \in 1 .. n + 1, j = i + 1 PROVE After(i)' = q[j].address
    <3>1. i \in 1 .. n
      BY <2>1
    <3>2. CASE j \in 1 .. n
      BY <1>1, <1>9, <1>11, <2>1, <3>1, <3>2 DEF CfInd, Laid
    <3>3. CASE j = n + 1
      <4>1. i = n /\ n > 0
        BY <2>1, <3>1, <3>3
      <4> QED
        BY <1>4, <1>6, <1>9, <1>11, <3>1, <3>3, <4>1
    <3> QED
      BY <1>10, <3>2, <3>3
  <2> QED
    BY <1>9, <2>1
<1>18. Laid'
  BY <1>2, <1>8, <1>14, <1>15, <1>16, <1>17 DEF Laid
<1> QED
  BY <1>13, <1>18 DEF CfInd

LEMMA CfIndStep == ASSUME CfInd, [CfNext]_cfVars PROVE CfInd'
<1>1. ASSUME NEW flow \in Flows, NEW target \in Targets(flow), DecodeAarch64(flow, target) PROVE CfInd'
  <2>1. target \in Nat
    BY CfAssumption DEF CfInd, CfTyped, Targets, FnHi
  <2> QED
    BY <1>1, <2>1, CfAssumption, DecodedKeeps DEF DecodeAarch64
<1>2. ASSUME NEW flow \in Flows, NEW target \in Targets(flow), NEW length \in 1 .. CfMaxInstr,
             DecodeAmd64(length, flow, target)
      PROVE  CfInd'
  <2>1. target \in Nat
    BY CfAssumption DEF CfInd, CfTyped, Targets, FnHi
  <2>2. length \in Nat \ {0}
    BY CfAssumption
  <2> QED
    BY <1>2, <2>1, <2>2, DecodedKeeps DEF DecodeAmd64
<1>3. CASE UNCHANGED cfVars
  BY <1>3 DEF cfVars, CfInd, CfTyped, Laid, After, FnHi
<1> QED
  BY <1>1, <1>2, <1>3 DEF CfNext

LEMMA CfIndAlways == CfSpec => []CfInd
BY CfIndInit, CfIndStep, PTL DEF CfSpec

\* The least and the greatest of some naturals.
LEMMA LeastOf ==
  ASSUME NEW S, S \subseteq Nat, S # {}
  PROVE  \E m \in S : \A y \in S : m <= y
<1>1. PICK m \in S : \A y \in S : ~(<<y, m>> \in OpToRel(<, Nat))
  BY NatLessThanWellFounded, WFMin
<1>2. \A y \in S : ~(y < m)
  BY <1>1 DEF OpToRel
<1> QED
  BY <1>2

LEMMA GreatestOf ==
  ASSUME NEW S, S \subseteq Nat, S # {}, NEW b \in Nat, \A x \in S : x <= b
  PROVE  \E m \in S : \A y \in S : m >= y
<1>1. PICK T : T = {b - x : x \in S}
  OBVIOUS
<1>2. T \subseteq Nat /\ T # {}
  <2>1. PICK x \in S : TRUE
    OBVIOUS
  <2>2. b - x \in T
    BY <1>1
  <2>3. T \subseteq Nat
    BY <1>1
  <2> QED
    BY <2>2, <2>3
<1>3. PICK d \in T : \A y \in T : d <= y
  BY <1>2, LeastOf
<1>4. PICK m \in S : d = b - m
  BY <1>1
<1>5. \A y \in S : b - m <= b - y
  BY <1>1, <1>3, <1>4
<1>6. \A y \in S : m >= y
  BY <1>5
<1> QED
  BY <1>6

\* Where the instructions are.
LEMMA Addresses ==
  ASSUME CfInd, NEW i \in DOMAIN cfInstrs
  PROVE  /\ i \in Nat /\ cfInstrs[i].address \in Nat /\ After(i) \in Nat /\ CfBase \in Nat /\ FnHi \in Nat
         /\ cfInstrs[i].target \in Nat /\ cfInstrs[i].flow \in Flows
         /\ CfBase <= cfInstrs[i].address /\ cfInstrs[i].address < After(i) /\ After(i) <= FnHi
<1>1. cfInstrs[i] \in Instr /\ i \in Nat
  BY DEF CfInd, CfTyped
<1>2. CfBase \in Nat /\ FnHi \in Nat
  BY CfAssumption DEF CfInd, CfTyped, FnHi
<1>3. /\ cfInstrs[i].address \in Nat /\ cfInstrs[i].length \in Nat \ {0}
      /\ cfInstrs[i].target \in Nat /\ cfInstrs[i].flow \in Flows
  BY <1>1 DEF Instr
<1>4. After(i) \in Nat /\ cfInstrs[i].address < After(i)
  BY <1>3 DEF After
<1>5. CfBase <= cfInstrs[i].address /\ After(i) <= FnHi
  BY <1>2, <1>3 DEF CfInd, Laid
<1> QED
  BY <1>1, <1>2, <1>3, <1>4, <1>5

\* The order of instructions is that of their addresses.
LEMMA InOrder ==
  ASSUME CfInd, NEW i \in DOMAIN cfInstrs, NEW j \in DOMAIN cfInstrs, i < j
  PROVE  After(i) <= cfInstrs[j].address /\ cfInstrs[i].address < cfInstrs[j].address
<1>1. After(i) <= cfInstrs[j].address
  BY DEF CfInd, Laid
<1> QED
  BY <1>1, Addresses

\* block_id_for.
LEMMA BlockForIs ==
  ASSUME CfInd, NEW a \in Nat, a >= CfBase
  PROVE  /\ BlockFor(a) \in Leaders /\ BlockFor(a) \in Nat /\ BlockFor(a) <= a
         /\ \A l \in Leaders : l <= a => l <= BlockFor(a)
<1>1. Leaders \subseteq Nat /\ CfBase \in Leaders
  BY CfAssumption, Addresses DEF Leaders
<1>2. PICK S : S = {l \in Leaders : l <= a}
  OBVIOUS
<1>3. S \subseteq Nat /\ S # {} /\ \A x \in S : x <= a
  BY <1>1, <1>2
<1>4. \E m \in S : \A y \in S : m >= y
  BY <1>3, GreatestOf
<1>5. Max(S) \in S /\ \A y \in S : Max(S) >= y
  BY <1>4 DEF Max
<1>6. BlockFor(a) = Max(S)
  BY <1>2 DEF BlockFor
<1>7. PICK m \in Nat : m = BlockFor(a) /\ m \in S /\ \A y \in S : m >= y
  BY <1>3, <1>5, <1>6
<1>8. \A l \in Leaders : l <= a => l <= m
  BY <1>1, <1>2, <1>7
<1> QED
  BY <1>2, <1>7, <1>8

\* An address that leads is its own block.
LEMMA LeaderLeads ==
  ASSUME CfInd, NEW a \in Leaders, a \in Nat, a >= CfBase
  PROVE  BlockFor(a) = a
<1>1. BlockFor(a) \in Nat /\ BlockFor(a) <= a /\ a <= BlockFor(a)
  BY BlockForIs
<1> QED
  BY <1>1

\* A leader between two instructions parts their blocks, and all before the
\* one from all after the other.
LEMMA LeaderParts ==
  ASSUME CfInd, NEW l \in Leaders, l \in Nat, NEW i \in DOMAIN cfInstrs, NEW j \in DOMAIN cfInstrs,
         cfInstrs[i].address < l, l <= cfInstrs[j].address
  PROVE  BlockOf(i) < BlockOf(j) /\ BlockOf(i) # BlockOf(j)
<1>1. BlockOf(i) \in Nat /\ BlockOf(i) <= cfInstrs[i].address
  BY Addresses, BlockForIs DEF BlockOf
<1>2. BlockOf(j) \in Nat /\ l <= BlockOf(j)
  BY Addresses, BlockForIs DEF BlockOf
<1> QED
  BY <1>1, <1>2, Addresses

\* The last and the first line of a block.
LEMMA LastLineIs ==
  ASSUME CfInd, NEW i \in DOMAIN cfInstrs,
         \A k \in DOMAIN cfInstrs : k > i => BlockOf(k) # BlockOf(i)
  PROVE  LastLine(BlockOf(i)) = i
<1>1. PICK S : S = BlockLines(BlockOf(i))
  OBVIOUS
<1>2. S \subseteq Nat /\ i \in S /\ \A k \in S : i >= k
  BY <1>1, Addresses DEF BlockLines, BlockOf
<1>3. Max(S) \in S /\ \A k \in S : Max(S) >= k
  BY <1>2 DEF Max
<1>4. Max(S) = i
  <2>1. PICK m \in Nat : m = Max(S)
    BY <1>2, <1>3
  <2>2. m <= i /\ i <= m /\ i \in Nat
    BY <1>2, <1>3, <2>1
  <2>3. m = i
    BY <2>2
  <2> QED
    BY <2>1, <2>3
<1> QED
  BY <1>1, <1>4 DEF LastLine

LEMMA FirstLineIs ==
  ASSUME CfInd, NEW j \in DOMAIN cfInstrs,
         \A k \in DOMAIN cfInstrs : k < j => BlockOf(k) # BlockOf(j)
  PROVE  Min(BlockLines(BlockOf(j))) = j
<1>1. PICK S : S = BlockLines(BlockOf(j))
  OBVIOUS
<1>2. S \subseteq Nat /\ j \in S /\ \A k \in S : j <= k
  BY <1>1, Addresses DEF BlockLines, BlockOf
<1>3. Min(S) \in S /\ \A k \in S : Min(S) <= k
  BY <1>2 DEF Min
<1>4. Min(S) = j
  <2>1. PICK m \in Nat : m = Min(S)
    BY <1>2, <1>3
  <2>2. m <= j /\ j <= m /\ j \in Nat
    BY <1>2, <1>3, <2>1
  <2>3. m = j
    BY <2>2
  <2> QED
    BY <2>1, <2>3
<1> QED
  BY <1>1, <1>4

\* An instruction the next one does not share a block with ends its own.
LEMMA PartedEnds ==
  ASSUME CfInd, NEW i \in DOMAIN cfInstrs, NEW l \in Leaders, l \in Nat, cfInstrs[i].address < l,
         l <= After(i)
  PROVE  LastLine(BlockOf(i)) = i
<1>1. ASSUME NEW k \in DOMAIN cfInstrs, k > i PROVE BlockOf(k) # BlockOf(i)
  <2>1. After(i) <= cfInstrs[k].address
    BY <1>1, Addresses, InOrder
  <2>2. l <= cfInstrs[k].address
    BY <2>1, Addresses
  <2> QED
    BY <2>2, LeaderParts
<1> QED
  BY <1>1, LastLineIs

LEMMA PartedBegins ==
  ASSUME CfInd, NEW j \in DOMAIN cfInstrs, NEW l \in Leaders, l \in Nat, l <= cfInstrs[j].address,
         \A k \in DOMAIN cfInstrs : k < j => cfInstrs[k].address < l
  PROVE  Min(BlockLines(BlockOf(j))) = j
<1>1. ASSUME NEW k \in DOMAIN cfInstrs, k < j PROVE BlockOf(k) # BlockOf(j)
  BY <1>1, LeaderParts
<1> QED
  BY <1>1, FirstLineIs

\* The edges off the instruction that ends a block.
LEMMA EdgesOff ==
  ASSUME CfInd, NEW i \in DOMAIN cfInstrs, LastLine(BlockOf(i)) = i
  PROVE  /\ Jumps(i) /\ InFunction(cfInstrs[i].target)
              => CfEdge(BlockOf(i), cfInstrs[i].target, cfInstrs[i].flow) \in Edges
         /\ cfInstrs[i].flow \in {"sequential", "call", "conditional"} /\ After(i) < FnHi
              => \E kind : CfEdge(BlockOf(i), After(i), kind) \in Edges
<1>1. PICK l : l = BlockOf(i)
  OBVIOUS
<1>2. l \in Leaders
  BY <1>1, Addresses, BlockForIs DEF BlockOf
<1>3. i \in BlockLines(l)
  BY <1>1 DEF BlockLines, BlockOf
<1>4. EdgesFrom(l) \subseteq Edges
  BY <1>2 DEF Edges
<1>5. /\ Jumps(i) /\ InFunction(cfInstrs[i].target)
           => CfEdge(l, cfInstrs[i].target, cfInstrs[i].flow) \in EdgesFrom(l)
      /\ cfInstrs[i].flow \in {"sequential", "call", "conditional"} /\ After(i) < FnHi
           => CfEdge(l, After(i), IF cfInstrs[i].flow = "call" THEN "call" ELSE "fallthrough")
                \in EdgesFrom(l)
  BY <1>1, <1>3 DEF EdgesFrom
<1> QED
  BY <1>1, <1>4, <1>5

\* The instruction after the one it follows.
LEMMA FollowsIs ==
  ASSUME CfInd, NEW i \in DOMAIN cfInstrs, NEW j \in DOMAIN cfInstrs,
         cfInstrs[j].address = After(i)
  PROVE  j = i + 1
<1>1. i \in Nat /\ j \in Nat
  BY Addresses
<1>2. ~(j <= i)
  <2>1. j < i => cfInstrs[j].address < cfInstrs[i].address
    BY <1>1, InOrder
  <2>2. cfInstrs[i].address < After(i) /\ cfInstrs[i].address \in Nat /\ After(i) \in Nat
    BY Addresses
  <2> QED
    BY <1>1, <2>1, <2>2
<1>3. ~(j > i + 1)
  <2>1. SUFFICES ASSUME j > i + 1 PROVE FALSE
    OBVIOUS
  <2>2. i + 1 \in DOMAIN cfInstrs
    <3>1. DOMAIN cfInstrs = 1 .. Len(cfInstrs) /\ Len(cfInstrs) \in Nat
      BY DEF CfInd, CfTyped
    <3> QED
      BY <1>1, <2>1, <3>1
  <2>3. cfInstrs[i + 1].address < cfInstrs[j].address /\ After(i) = cfInstrs[i + 1].address
    BY <1>1, <2>1, <2>2, InOrder DEF CfInd, Laid
  <2> QED
    BY <2>2, <2>3, Addresses
<1> QED
  BY <1>1, <1>2, <1>3

\* A step of control from one decoded instruction to another.
StepCovered(i, j) ==
  \/ j = i + 1 /\ BlockOf(i) = BlockOf(j) /\ ~Ends(i)
  \/ /\ i = LastLine(BlockOf(i)) /\ j = Min(BlockLines(BlockOf(j)))
     /\ \E e \in Edges : e.from = BlockOf(i) /\ e.to = BlockOf(j)

LEMMA JumpCovered ==
  ASSUME CfInd, NEW i \in DOMAIN cfInstrs, NEW j \in DOMAIN cfInstrs, Jumps(i),
         cfInstrs[j].address = cfInstrs[i].target
  PROVE  StepCovered(i, j)
<1>1. PICK a \in Nat : a = cfInstrs[i].target /\ a = cfInstrs[j].address
  BY Addresses
<1>2. a >= CfBase /\ InFunction(a)
  BY <1>1, Addresses DEF InFunction
<1>3. a \in Leaders
  BY <1>1, <1>2 DEF Leaders
<1>4. BlockOf(j) = BlockFor(a)
  BY <1>1 DEF BlockOf
<1>5. Min(BlockLines(BlockOf(j))) = j
  <2>1. ASSUME NEW k \in DOMAIN cfInstrs, k < j PROVE cfInstrs[k].address < a
    BY <1>1, <2>1, InOrder
  <2>2. a <= cfInstrs[j].address
    BY <1>1
  <2> QED
    BY <1>3, <2>1, <2>2, PartedBegins
<1>6. LastLine(BlockOf(i)) = i
  <2>1. CASE After(i) < FnHi
    <3>1. After(i) \in Leaders
      BY <2>1 DEF Leaders, Jumps, Ends
    <3>2. After(i) \in Nat /\ cfInstrs[i].address < After(i) /\ After(i) <= After(i)
      BY Addresses
    <3> QED
      BY <3>1, <3>2, PartedEnds
  <2>2. CASE ~(After(i) < FnHi)
    <3>1. ASSUME NEW k \in DOMAIN cfInstrs, k > i PROVE FALSE
      <4>1. After(i) <= cfInstrs[k].address
        BY <3>1, Addresses, InOrder
      <4> QED
        BY <2>2, <4>1, Addresses
    <3> QED
      BY <3>1, LastLineIs
  <2> QED
    BY <2>1, <2>2
<1>7. PICK e : e = CfEdge(BlockOf(i), a, cfInstrs[i].flow)
  OBVIOUS
<1>8. e \in Edges
  BY <1>1, <1>2, <1>6, <1>7, EdgesOff
<1>9. e.from = BlockOf(i) /\ e.to = BlockOf(j)
  BY <1>4, <1>7 DEF CfEdge
<1> QED
  BY <1>5, <1>6, <1>8, <1>9 DEF StepCovered

LEMMA FallCovered ==
  ASSUME CfInd, NEW i \in DOMAIN cfInstrs, NEW j \in DOMAIN cfInstrs,
         cfInstrs[i].flow \in {"sequential", "call", "conditional"},
         cfInstrs[j].address = After(i)
  PROVE  StepCovered(i, j)
<1>1. PICK a \in Nat : a = After(i) /\ a = cfInstrs[j].address /\ a >= CfBase
  BY Addresses
<1>2. j = i + 1
  BY FollowsIs
<1>3. After(i) < FnHi
  BY Addresses
<1>4. ASSUME NEW l \in Leaders, l \in Nat, cfInstrs[i].address < l, l <= a PROVE StepCovered(i, j)
  <2>1. LastLine(BlockOf(i)) = i
    BY <1>1, <1>4, PartedEnds
  <2>2. Min(BlockLines(BlockOf(j))) = j
    <3>1. ASSUME NEW k \in DOMAIN cfInstrs, k < j PROVE cfInstrs[k].address < l
      <4>1. k < i \/ k = i
        BY <1>2, <3>1, Addresses
      <4>2. cfInstrs[k].address <= cfInstrs[i].address
        BY <4>1, Addresses, InOrder
      <4> QED
        BY <1>4, <4>2, Addresses
    <3> QED
      BY <1>1, <1>4, <3>1, PartedBegins
  <2>3. PICK kind : CfEdge(BlockOf(i), After(i), kind) \in Edges
    BY <1>3, <2>1, EdgesOff
  <2>4. BlockOf(j) = BlockFor(After(i))
    BY DEF BlockOf
  <2>5. \E e \in Edges : e.from = BlockOf(i) /\ e.to = BlockOf(j)
    BY <2>3, <2>4 DEF CfEdge
  <2> QED
    BY <2>1, <2>2, <2>5 DEF StepCovered
<1>5. CASE cfInstrs[i].flow = "conditional"
  <2>1. After(i) \in Leaders
    BY <1>3, <1>5 DEF Leaders, Ends
  <2>2. a \in Leaders /\ cfInstrs[i].address < a /\ a <= a
    BY <1>1, <2>1, Addresses
  <2> QED
    BY <1>4, <2>2
<1>6. CASE cfInstrs[i].flow # "conditional"
  <2>1. ~Ends(i)
    BY <1>6 DEF Ends
  <2>2. CASE BlockOf(i) = BlockOf(j)
    BY <1>2, <2>1, <2>2 DEF StepCovered
  <2>3. CASE BlockOf(i) # BlockOf(j)
    <3>1. PICK l \in Leaders : l = BlockOf(j) /\ l \in Nat /\ l <= a
      BY <1>1, BlockForIs DEF BlockOf
    <3>2. cfInstrs[i].address < l
      <4>1. SUFFICES ASSUME ~(cfInstrs[i].address < l) PROVE FALSE
        OBVIOUS
      <4>2. /\ cfInstrs[i].address \in Nat /\ CfBase <= cfInstrs[i].address
            /\ cfInstrs[i].address < a
        BY <1>1, Addresses
      <4>3. l <= BlockOf(i)
        BY <3>1, <4>1, <4>2, BlockForIs DEF BlockOf
      <4>4. BlockOf(i) \in Leaders /\ BlockOf(i) \in Nat /\ BlockOf(i) <= cfInstrs[i].address
        BY <4>2, BlockForIs DEF BlockOf
      <4>5. BlockOf(i) <= BlockOf(j)
        <5>1. BlockOf(i) <= a
          BY <4>2, <4>4
        <5>2. \A m \in Leaders : m <= a => m <= BlockFor(a)
          BY <1>1, BlockForIs
        <5>3. BlockFor(a) = BlockOf(j)
          BY <1>1 DEF BlockOf
        <5> QED
          BY <4>4, <5>1, <5>2, <5>3
      <4> QED
        BY <2>3, <3>1, <4>3, <4>4, <4>5
    <3> QED
      BY <1>4, <3>1, <3>2
  <2> QED
    BY <2>2, <2>3
<1> QED
  BY <1>5, <1>6

\* An edge is a step of control, or comes of an address nothing was decoded at.
LEMMA EdgeIsAStep ==
  ASSUME CfInd, NEW e \in Edges, NEW i, i = LastLine(e.from)
  PROVE  \/ \E j \in Successors(i) : BlockOf(j) = e.to
         \/ \E a \in {cfInstrs[i].target, After(i)} : InFunction(a) /\ ~DecodedAt(a)
<1>1. PICK l \in Leaders : e \in EdgesFrom(l)
  BY DEF Edges
<1>2. PICK S : S = BlockLines(l) /\ S # {}
  BY <1>1 DEF EdgesFrom
<1>3. PICK k \in S : k = LastLine(l)
  <2>1. DOMAIN cfInstrs = 1 .. Len(cfInstrs) /\ Len(cfInstrs) \in Nat
    BY DEF CfInd, CfTyped
  <2>2. S \subseteq Nat /\ \A x \in S : x <= Len(cfInstrs)
    BY <1>2, <2>1 DEF BlockLines
  <2>3. \E m \in S : \A y \in S : m >= y
    BY <1>2, <2>1, <2>2, GreatestOf
  <2>4. Max(S) \in S
    BY <2>3 DEF Max
  <2> QED
    BY <1>2, <2>4 DEF LastLine
<1>4. k \in DOMAIN cfInstrs
  BY <1>2 DEF BlockLines
<1>5. \/ /\ Jumps(k) /\ InFunction(cfInstrs[k].target)
         /\ e = CfEdge(l, cfInstrs[k].target, cfInstrs[k].flow)
      \/ /\ cfInstrs[k].flow \in {"sequential", "call", "conditional"} /\ After(k) < FnHi
         /\ \E kind : e = CfEdge(l, After(k), kind)
  BY <1>1, <1>3 DEF EdgesFrom
<1>6. e.from = l /\ k = i
  BY <1>3, <1>5 DEF CfEdge
<1>7. PICK a : /\ a \in {cfInstrs[i].target, After(i)} /\ InFunction(a) /\ e.to = BlockFor(a)
               /\ \A j \in DOMAIN cfInstrs : cfInstrs[j].address = a => j \in Successors(i)
  <2>1. CASE Jumps(k) /\ InFunction(cfInstrs[k].target)
             /\ e = CfEdge(l, cfInstrs[k].target, cfInstrs[k].flow)
    BY <1>6, <2>1 DEF CfEdge, Successors
  <2>2. CASE cfInstrs[k].flow \in {"sequential", "call", "conditional"} /\ After(k) < FnHi
             /\ \E kind : e = CfEdge(l, After(k), kind)
    <3>1. InFunction(After(k))
      BY <1>4, <2>2, Addresses DEF InFunction
    <3> QED
      BY <1>6, <2>2, <3>1 DEF CfEdge, Successors
  <2> QED
    BY <1>5, <2>1, <2>2
<1>8. CASE DecodedAt(a)
  <2>1. PICK j \in DOMAIN cfInstrs : cfInstrs[j].address = a
    BY <1>8 DEF DecodedAt
  <2> QED
    BY <1>7, <2>1 DEF BlockOf
<1> QED
  BY <1>7, <1>8

\* build_blocks_and_edges: for any code, whatever its instructions' lengths
\* and wherever its branches point, the blocks and edges are its control flow.
THEOREM CfgCoversThm == CfSpec => []CfgCovers
<1>1. ASSUME CfInd PROVE CfgCovers
  <2>1. ASSUME NEW i \in DOMAIN cfInstrs, NEW j \in Successors(i) PROVE StepCovered(i, j)
    <3>1. /\ j \in DOMAIN cfInstrs
          /\ \/ Jumps(i) /\ cfInstrs[j].address = cfInstrs[i].target
             \/ /\ cfInstrs[i].flow \in {"sequential", "call", "conditional"}
                /\ cfInstrs[j].address = After(i)
      BY DEF Successors
    <3> QED
      BY <1>1, <3>1, JumpCovered, FallCovered
  <2>2. ASSUME NEW e \in Edges
        PROVE  LET i == LastLine(e.from)
               IN  \/ \E j \in Successors(i) : BlockOf(j) = e.to
                   \/ \E a \in {cfInstrs[i].target, After(i)} : InFunction(a) /\ ~DecodedAt(a)
    BY <1>1, EdgeIsAStep
  <2> QED
    BY <2>1, <2>2, Zenon DEF CfgCovers, StepCovered
<1> QED
  BY <1>1, CfIndAlways, PTL
=============================================================================
