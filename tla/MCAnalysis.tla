----------------------------- MODULE MCAnalysis -----------------------------
(* One TLC instance for the components that share no state: the initial state *)
(* picks the part whose steps are taken, the others rest in their first state. *)
EXTENDS KperfPipeline, LinuxImages, Contracts, LiveQueries, EvalGraph, Archive,
        RecordClient, StaxdClient, PerfRings, ControlFlow

VARIABLE part

(* ------------------------- kperf pipeline ---------------------------------- *)

Walk(t, chain, fixup, async, k) ==
  [tid |-> t, chain |-> chain, fixup |-> fixup, async |-> async, kernel |-> k]

\* A chain in two chunks, one with an async part, one cut by a null, an empty one.
MCWalks == {Walk(1, <<1, 2, 3>>, <<2>>, <<>>, <<9>>), Walk(2, <<1, 3>>, <<2>>, <<5>>, <<>>),
            Walk(1, <<1, 0, 7>>, <<4>>, <<>>, <<>>), Walk(2, <<>>, <<>>, <<>>, <<8>>)}

(* ------------------------- images ------------------------------------------ *)

JitEntry(start, size, name) == [start |-> start, size |-> size, name |-> name]
ElfSym(addr, size, name) == [addr |-> addr, size |-> size, name |-> name]

\* Code announced over code, across a mapping's end, and without a size.
MCJitEntries == {JitEntry(1, 4, "f"), JitEntry(1, 2, "g"), JitEntry(5, 0, "h")}
MCJitMmaps == {[lo |-> 0, hi |-> 3], [lo |-> 2, hi |-> 6]}

\* A segment whose file offset, address and page differ; an alias, an undefined
\* symbol, and a debug file that adds one and renames one.
MCElves ==
  [app |-> [loads |-> <<[off |-> 3, vaddr |-> 7, filesz |-> 4]>>,
            syms  |-> <<ElfSym(0, 2, "undef"), ElfSym(9, 2, "b"), ElfSym(7, 2, "a"), ElfSym(7, 2, "alias")>>,
            debug |-> <<ElfSym(8, 1, "static"), ElfSym(9, 2, "b2")>>]]
MCElfMmaps == {[file |-> "app", base |-> 20, pgoff |-> 2, len |-> 6]}

(* ------------------------- contracts --------------------------------------- *)

Entire(a, b) == [kind |-> "entire", startup |-> a, shutdown |-> b]

MCContracts ==
  {[kind |-> "off_cpu", duty |-> Entire(1, 0), max |-> 1],
   [kind |-> "signal_gap", duty |-> [kind |-> "recent", event |-> "work", within |-> 2],
    event |-> "beat", max |-> 1],
   [kind |-> "latency", duty |-> Entire(0, 1), start |-> "ask", stop |-> "done", max |-> 1]}

(* ------------------------- target signals ------------------------------------ *)

Item(k, s, src, tid, at, n, v) == [kind |-> k, set |-> s, src |-> src, tid |-> tid, at |-> at, n |-> n, v |-> v]
MCSamples == {Item("counter", 1, 7, SgNone, 2, 1, 1), Item("counter", 1, 7, SgNone, 4, 1, 0),
              Item("counter", 1, 7, "t", 6, 1, 1), Item("counter", 1, 7, SgNone, 6, 1, 2)}
MCItems == {Item("event", 1, 7, "t", 3, 1, 0), Item("event", 1, 8, SgNone, 5, 1, 0),
           Item("event", 2, 7, SgNone, 4, 1, 0), Item("event", 1, 8, "t", 4, 1, 0), Item("counter", 1, 7, "lane", 4, 1, 2),
           Item("counter", 1, 7, SgNone, 9, 1, 2), Item("counter", 1, 8, SgNone, 7, 1, 0),
           Item("counter", 1, 7, SgNone, SgNone, 1, 2)}
Def(k, n, ok) == [kind |-> k, set |-> 1, n |-> n, valid |-> ok]
Batch(defs, items) == [defs |-> defs, items |-> items]
MCDefinitions == <<Def("event", 1, TRUE), Def("counter", 1, TRUE)>>

\* In one batch, over two, out of order, falling, before and after the run, refused
\* for each of the reasons.
MCSgBatches ==
  {Batch(<<Def("counter", 2, TRUE), Def("event", 1, FALSE)>>, <<Item("counter", 1, 7, SgNone, 4, 2, 2)>>)}
  \cup {Batch(MCDefinitions, <<x>>) : x \in MCItems \cup MCSamples}
  \cup {Batch(MCDefinitions, <<x, y>>) : x, y \in MCSamples}
MCBounds == [start |-> 3, last |-> 5]

(* ------------------------- live queries ------------------------------------ *)

\* Two addresses of f, one of nothing.
MCSymbolOf == [a \in 1..6 |-> <<"main", "f", "f", NoSymbol, "span", "lane">>[a]]
MCSpanStack == <<5, 6, 2>>
MCStacks == {<<4, 3, 2, 1>>, <<2, 4, 3, 1>>}
MCReasonOf == [s \in {MCSymbolOf[a] : a \in 1..6} |-> IF s = "f" THEN "lock" ELSE "other"]
MCWakeups == {[tid |-> 2, user |-> <<3, 1>>, kernel |-> <<>>], [tid |-> 2, user |-> <<>>, kernel |-> <<4>>],
              [tid |-> 3, user |-> <<3>>, kernel |-> <<>>]}
MCFilters == {[from |-> 0, to |-> 0, exclude |-> {}], [from |-> 1, to |-> 3, exclude |-> {}],
              [from |-> 0, to |-> 0, exclude |-> {NoSymbol}]}

(* ------------------------- evaluation graphs -------------------------------- *)

FooterLine(complete, wrong) == [event |-> "footer", complete |-> complete, wrong |-> wrong]
CountsLine(e, n, o) == [event |-> "counts", exec |-> e, module |-> 1, site |-> 1, n |-> n, overflow |-> o]
ExecLine(e, status) == [event |-> "execution", exec |-> e, module |-> 1, status |-> status]

DetailLines ==
  {[event |-> "module", module |-> 1], [event |-> "site", module |-> 1, site |-> 1],
   [event |-> "allocation", thunk |-> 1], [event |-> "invocation", inv |-> 1, module |-> 1, site |-> 1],
   [event |-> "force", inv |-> 1, thunk |-> 1], FooterLine(TRUE, FALSE)}
OddDetail ==
  {[event |-> "argument", inv |-> 1, thunk |-> 0], [event |-> "cache", inv |-> 2],
   CountsLine(1, 1, FALSE), FooterLine(TRUE, TRUE), FooterLine(FALSE, FALSE), [event |-> "torn"]}
CountFile ==
  <<[event |-> "module", module |-> 1], [event |-> "site", module |-> 1, site |-> 1],
    ExecLine(1, "start"), CountsLine(1, 2, FALSE), ExecLine(2, "start"), ExecLine(1, "done"),
    CountsLine(2, 1, FALSE), ExecLine(2, "done"), FooterLine(TRUE, FALSE)>>
OddCount == {CountsLine(1, 1, FALSE), CountsLine(2, 2, FALSE), CountsLine(2, 1, TRUE),
             [event |-> "cache", inv |-> 2]}

\* A detailed capture: its lines in any order, with one repeated or odd.
MCDetail(file) ==
  IF Cardinality(Range(file) \cap DetailLines) = Len(file)
  THEN DetailLines \cup OddDetail ELSE DetailLines \ Range(file)

\* A table of counts: its lines in order, with one lost, early, repeated or odd.
MCCounts(file) ==
  LET read == {0} \cup {i \in DOMAIN CountFile : CountFile[i] \in Range(file)}
      follow == {i \in DOMAIN CountFile : i = Max(read) + 1 \/ (i \notin read /\ i - 1 \in read)}
  IN  IF IsPrefix(file, CountFile)
      THEN Range(CountFile) \cup OddCount ELSE {CountFile[i] : i \in follow}

MCLines(mode, file) == IF mode = "detail" THEN MCDetail(file) ELSE MCCounts(file)
MCLength(c, id) == IF c = 1 /\ id = 1 THEN 10 ELSE 0

(* ------------------------- archives ----------------------------------------- *)

Iv(s, e, kind, origin, depth) ==
  [start |-> s, end |-> e, kind |-> kind, origin |-> origin, depth |-> depth]
Streams3(samples, intervals, wakeups) ==
  [samples |-> samples, intervals |-> intervals, wakeups |-> wakeups]

\* Two lanes of one name with spans that came out of order, a binary without
\* text before one with; then a later state of the server: another order of the
\* binaries, a thread that only has a name, no events.
MCSnapshots ==
  {[at |-> 1, runs |-> <<"r1">>, clock |-> 5,
    names |-> (7 :> "lane" @@ 8 :> "lane"),
    threads |-> (7 :> Streams3(<<2>>, <<Iv(2, 3, "span", TRUE, 3), Iv(0, 1, "span", TRUE, 2)>>, <<>>)
                 @@ 8 :> Streams3(<<>>, <<Iv(1, 4, "span", FALSE, 2), Iv(1, 2, "off", FALSE, 1)>>, <<1>>)),
    binaries |-> <<[base |-> 4, text |-> ArNoText], [base |-> 2, text |-> "x"]>>,
    target |-> 1, signals |-> <<1, 3>>, markers |-> <<"m">>],
   [at |-> 2, runs |-> <<"r1", "r2">>, clock |-> 9,
    names |-> (8 :> "main"),
    threads |-> (8 :> Streams3(<<6, 7>>, <<Iv(6, 9, "on", FALSE, 0)>>, <<>>)
                 @@ 9 :> Streams3(<<>>, <<>>, <<>>)),
    binaries |-> <<[base |-> 2, text |-> "y"]>>,
    target |-> 2, signals |-> <<>>, markers |-> <<>>]}
MCLimits == [on |-> 0, target |-> 1, missing |-> 0, pct |-> 50]

(* ------------------------- control flow ------------------------------------- *)

\* Whole words and a trailing byte; x86 code of three bytes.
MCCodes == {<<"aarch64", 5>>, <<"aarch64", 6>>, <<"amd64", 3>>}
MCCounters == <<"cycles", "instructions", "l1d", "branch">>

(* ------------------------- the sum ------------------------------------------ *)

AnalysisInit ==
  /\ part \in {"kperf", "images", "contracts", "queries", "graphs", "archive", "record", "client",
               "setup", "ring", "cfg", "wakers", "signals"}
  /\ KpInit /\ LiInit /\ CtInit /\ LqInit /\ EgInit /\ ArInit /\ RcInit /\ ClInit
  /\ PfInit /\ RgInit /\ CfInit /\ WkInit /\ SgInit
  /\ part = "kperf" \/ \A c \in KpCpus : kern.on[c] = 0
  /\ part = "archive" \/ arDir = EmptyDir
  /\ part = "setup" \/ pf.via = "local"
  /\ part = "cfg" \/ cfArch = "amd64"

AnalysisNext ==
  \/ /\ part = "kperf" /\ KpNext
     /\ UNCHANGED <<part, liVars, ctVars, sgVars, lqVars, wkVars, egVars, arVars, rcVars, clVars, pfVars, rgVars, cfVars>>
  \/ /\ part = "images" /\ LiNext
     /\ UNCHANGED <<part, kpVars, ctVars, sgVars, lqVars, wkVars, egVars, arVars, rcVars, clVars, pfVars, rgVars, cfVars>>
  \/ /\ part = "contracts" /\ CtNext
     /\ UNCHANGED <<part, kpVars, liVars, sgVars, lqVars, wkVars, egVars, arVars, rcVars, clVars, pfVars, rgVars, cfVars>>
  \/ /\ part = "signals" /\ SgNext
     /\ UNCHANGED <<part, kpVars, liVars, ctVars, lqVars, wkVars, egVars, arVars, rcVars, clVars, pfVars, rgVars, cfVars>>
  \/ /\ part = "queries" /\ LqNext
     /\ UNCHANGED <<part, kpVars, liVars, ctVars, sgVars, wkVars, egVars, arVars, rcVars, clVars, pfVars, rgVars, cfVars>>
  \/ /\ part = "wakers" /\ WkNext
     /\ UNCHANGED <<part, kpVars, liVars, ctVars, sgVars, lqVars, egVars, arVars, rcVars, clVars, pfVars, rgVars, cfVars>>
  \/ /\ part = "graphs" /\ EgNext
     /\ UNCHANGED <<part, kpVars, liVars, ctVars, sgVars, lqVars, wkVars, arVars, rcVars, clVars, pfVars, rgVars, cfVars>>
  \/ /\ part = "archive" /\ ArNext
     /\ UNCHANGED <<part, kpVars, liVars, ctVars, sgVars, lqVars, wkVars, egVars, rcVars, clVars, pfVars, rgVars, cfVars>>
  \/ /\ part = "record" /\ RcNext
     /\ UNCHANGED <<part, kpVars, liVars, ctVars, sgVars, lqVars, wkVars, egVars, arVars, clVars, pfVars, rgVars, cfVars>>
  \/ /\ part = "client" /\ ClNext
     /\ UNCHANGED <<part, kpVars, liVars, ctVars, sgVars, lqVars, wkVars, egVars, arVars, rcVars, pfVars, rgVars, cfVars>>
  \/ /\ part = "setup" /\ PfNext
     /\ UNCHANGED <<part, kpVars, liVars, ctVars, sgVars, lqVars, wkVars, egVars, arVars, rcVars, clVars, rgVars, cfVars>>
  \/ /\ part = "ring" /\ RgNext
     /\ UNCHANGED <<part, kpVars, liVars, ctVars, sgVars, lqVars, wkVars, egVars, arVars, rcVars, clVars, pfVars, cfVars>>
  \/ /\ part = "cfg" /\ CfNext
     /\ UNCHANGED <<part, kpVars, liVars, ctVars, sgVars, lqVars, wkVars, egVars, arVars, rcVars, clVars, pfVars, rgVars>>

AnalysisSpec ==
  AnalysisInit /\ [][AnalysisNext]_<<part, kpVars, liVars, ctVars, sgVars, lqVars, wkVars, egVars,
                                   arVars, rcVars, clVars, pfVars, rgVars, cfVars>>
=============================================================================
