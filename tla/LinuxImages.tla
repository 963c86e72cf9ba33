---------------------------- MODULE LinuxImages ----------------------------
(***************************************************************************)
(* How a sampled address gets its name on Linux: the executable mappings   *)
(* the kernel reports (stax-linux-capture/src/session.rs), the ELF tables  *)
(* behind the file-backed ones (elf.rs), the regions and symbols of JIT    *)
(* code tailed from a perf map and a jitdump (jit.rs, jitdump_tail.rs),    *)
(* and the registry the queries look addresses up in                       *)
(* (stax-live/src/binaries.rs).                                            *)
(***************************************************************************)
EXTENDS Naturals, Sequences, FiniteSets, SequencesExt, FiniteSetsExt

CONSTANTS JitEntries,  \* symbols a runtime may announce: [start, size, name]
          JitMmaps,    \* anonymous executable mappings: [lo, hi]
          Elves,       \* file -> [loads, syms, debug]
          ElfMmaps,    \* file mappings: [file, base, pgoff, len]
          Page,        \* page size, in address units
          MinExtent,   \* the size given to a symbol that states none
          NoName,      \* "no symbol": the address is shown as file+offset
          MaxAnnounced \* bound: symbols announced in a behaviour

VARIABLES liKernel,  \* [anon |-> mapped anonymous ranges, ring |-> events not drained]
          files,   \* the two symbol files: [perf, dump, torn, left]
          tail,    \* [perf, dump]: entries consumed of each file
          jit,     \* JitImages: [regions, symbols, dirty, orphans]
          fileMaps,\* file mappings that exist in the target
          loaded,  \* BinaryRegistry.by_base
          told     \* history: every symbol extent the runtime announced

liVars == <<liKernel, files, tail, jit, fileMaps, loaded, told>>

-----------------------------------------------------------------------------
(* BinaryRegistry *)

\* insert: one binary per base address; the newest wins.
RegistryInsert(reg, b) == {c \in reg : c.base # b.base} \cup {b}

\* The index is searched for the last base at or below the address; only
\* that candidate's end is checked.
BinaryForAddress(reg, a) ==
  {b \in reg : /\ b.base <= a /\ a < b.end
               /\ \A c \in reg : c.base <= a => c.base <= b.base}

SvmaFor(b, a) == (a - b.base) + b.text

\* lookup_symbol: the last symbol starting at or below, if it reaches the address.
SymbolFor(syms, svma) ==
  {s \in syms : /\ s.start <= svma /\ svma < s.end
                /\ \A t \in syms : t.start <= svma => t.start <= s.start}

LookupSymbol(reg, a) ==
  LET hit == UNION {SymbolFor(b.syms, SvmaFor(b, a)) : b \in BinaryForAddress(reg, a)}
  IN  IF hit = {} THEN NoName ELSE (CHOOSE s \in hit : TRUE).name

-----------------------------------------------------------------------------
(* ELF images *)

\* svma_for_file_off: the first executable PT_LOAD holding the offset, its
\* start rounded down to the page; 0 when none does.
SvmaForFileOff(loads, off) ==
  LET in(i) == /\ (loads[i].off \div Page) * Page <= off
               /\ off < loads[i].off + loads[i].filesz
      hits  == {i \in DOMAIN loads : in(i)}
  IN  IF hits = {} THEN 0
      ELSE LET s == loads[Min(hits)] IN (off + s.vaddr) - s.off

\* extract_symbols: definitions with an address; of several at one address
\* the first listed; each extends to the next, the last by its size.
ExtractSymbols(raw) ==
  LET kept   == {i \in DOMAIN raw : raw[i].addr # 0 /\ raw[i].name # NoName}
      first  == {i \in kept : \A j \in kept : raw[j].addr = raw[i].addr => i <= j}
      starts == {raw[i].addr : i \in first}
      end(r) == LET next == {x \in starts : x > r.addr}
                IN  IF next = {} THEN r.addr + Max({r.size, MinExtent}) ELSE Min(next)
  IN  {[start |-> raw[i].addr, end |-> end(raw[i]), name |-> raw[i].name] : i \in first}

\* Detached debug symbols fill in the addresses the image's table lacks.
MergedSymbols(elf) ==
  LET own == ExtractSymbols(elf.syms)
  IN  own \cup {d \in ExtractSymbols(elf.debug) : \A s \in own : s.start # d.start}

ElfBinary(m) ==
  [base |-> m.base, end |-> m.base + m.len,
   text |-> SvmaForFileOff(Elves[m.file].loads, m.pgoff),
   syms |-> MergedSymbols(Elves[m.file])]

-----------------------------------------------------------------------------
(* JitImages *)

Intersecting(regions, lo, hi) == {r \in regions : r.lo < hi /\ r.hi > lo}

\* The maximal uncovered pieces of [lo, hi).
Gaps(regions, lo, hi) ==
  LET covered == Intersecting(regions, lo, hi)
      starts  == {lo} \cup {r.hi : r \in covered}
      ends    == {hi} \cup {r.lo : r \in covered}
      open(x) == x >= lo /\ x < hi /\ \A r \in covered : ~(r.lo <= x /\ x < r.hi)
  IN  {[lo |-> s, hi |-> Min({e \in ends : e > s})] : s \in {x \in starts : open(x)}}

MarkDirty(im, lo, hi) ==
  [im EXCEPT !.dirty = @ \cup {r.lo : r \in Intersecting(im.regions, lo, hi)}]

\* An orphan that now meets a region marks it; the others stay orphans.
Rehome(im, start) ==
  LET s == CHOOSE x \in im.symbols : x.start = start
  IN  IF Intersecting(im.regions, start, s.end) = {}
        THEN [im EXCEPT !.orphans = Append(@, start)]
        ELSE MarkDirty(im, start, s.end)

AddMapping(im, lo, hi) ==
  LET gaps  == IF hi <= lo THEN {} ELSE Gaps(im.regions, lo, hi)
      grown == [im EXCEPT !.regions = @ \cup gaps, !.dirty = @ \cup {g.lo : g \in gaps}]
  IN  IF gaps = {} THEN im
      ELSE FoldLeft(Rehome, [grown EXCEPT !.orphans = <<>>], im.orphans)

\* A later announcement at the same start replaces the earlier one.
AddSymbol(im, e) ==
  LET end == e.start + Max({e.size, 1})
      new == [start |-> e.start, end |-> end, name |-> e.name]
      put == [im EXCEPT !.symbols = {s \in @ : s.start # e.start} \cup {new}]
  IN  IF new \in im.symbols THEN im
      ELSE IF Intersecting(im.regions, e.start, end) = {}
        THEN [put EXCEPT !.orphans = Append(@, e.start)]
        ELSE MarkDirty(put, e.start, end)

\* adopt_orphans: a region of its own for each symbol still without one.
Adopt(im, start) ==
  LET s == CHOOSE x \in im.symbols : x.start = start
  IN  MarkDirty(AddMapping(im, start, s.end), start, s.end)

AdoptOrphans(im) == FoldLeft(Adopt, [im EXCEPT !.orphans = <<>>], im.orphans)

\* A table without the tail of a symbol that starts in the region before.
MutantOnlyInside(im, r) == {s \in im.symbols : r.lo <= s.start /\ s.start < r.hi}

\* take_dirty, for one region: the symbol running into it and those starting in it.
RegionSymbols(im, r) ==
  LET before == {s \in im.symbols : s.start < r.lo}
      last   == {s \in before : \A t \in before : t.start <= s.start}
  IN  {s \in last : s.end > r.lo} \cup {s \in im.symbols : r.lo <= s.start /\ s.start < r.hi}

\* publish_jit: every dirty region is sent again with its whole table.
Published(im, reg) ==
  LET image(r) == [base |-> r.lo, end |-> r.hi, text |-> r.lo, syms |-> RegionSymbols(im, r)]
      sent     == {image(r) : r \in {x \in im.regions : x.lo \in im.dirty}}
  IN  {b \in reg : \A s \in sent : s.base # b.base} \cup sent

Publish(im) == /\ loaded' = Published(im, loaded)
               /\ jit' = [im EXCEPT !.dirty = {}]

-----------------------------------------------------------------------------
(* The target *)

LiInit ==
  /\ liKernel = [anon |-> {}, ring |-> <<>>]
  /\ files = [perf |-> <<>>, dump |-> <<>>, torn |-> FALSE, left |-> MaxAnnounced]
  /\ tail = [perf |-> 0, dump |-> 0]
  /\ jit = [regions |-> {}, symbols |-> {}, dirty |-> {}, orphans |-> <<>>]
  /\ fileMaps = {}
  /\ loaded = {}
  /\ told = {}

\* The target maps anonymous executable memory; the event may be lost by a
\* full ring, and /proc still shows the mapping.
MmapAnon(m, lost) ==
  /\ m \notin liKernel.anon
  /\ liKernel' = [anon |-> liKernel.anon \cup {m},
                ring |-> IF lost THEN liKernel.ring ELSE Append(liKernel.ring, m)]
  /\ UNCHANGED <<files, tail, jit, fileMaps, loaded, told>>

Extent(e) == [start |-> e.start, end |-> e.start + Max({e.size, 1}), name |-> e.name]

\* The runtime appends a symbol to one of its files; a line of the perf map
\* may first be seen half written.
Announce(e, file) ==
  /\ ~files.torn /\ files.left > 0
  /\ \E torn \in BOOLEAN :
       /\ torn => file = "perf"
       /\ files' = [files EXCEPT ![file] = Append(@, e), !.torn = torn, !.left = @ - 1]
  /\ told' = told \cup {Extent(e)}
  /\ UNCHANGED <<liKernel, tail, jit, fileMaps, loaded>>

FinishLine ==
  /\ files.torn
  /\ files' = [files EXCEPT !.torn = FALSE]
  /\ UNCHANGED <<liKernel, tail, jit, fileMaps, loaded, told>>

\* The perf map is emptied (the process re-executes) and written again.
Truncate ==
  /\ files.perf # <<>>
  /\ files' = [files EXCEPT !.perf = <<>>, !.torn = FALSE]
  /\ UNCHANGED <<liKernel, tail, jit, fileMaps, loaded, told>>

-----------------------------------------------------------------------------
(* The drain loop *)

\* on_mmap2 of an anonymous mapping: jit_mapping.
JitMapping ==
  /\ liKernel.ring # <<>>
  /\ liKernel' = [liKernel EXCEPT !.ring = Tail(@)]
  /\ Publish(AddMapping(jit, Head(liKernel.ring).lo, Head(liKernel.ring).hi))
  /\ UNCHANGED <<files, tail, fileMaps, told>>

\* on_mmap2 of a file mapping, or /proc's at the start: only the first at a
\* base address becomes an image.
FileMapping(m) ==
  /\ \A n \in fileMaps : n.base # m.base
  /\ fileMaps' = fileMaps \cup {m}
  /\ loaded' = RegistryInsert(loaded, ElfBinary(m))
  /\ UNCHANGED <<liKernel, files, tail, jit, told>>

\* PerfMapTailer.tick: complete lines past the offset; a shorter file is
\* read again from its start.
PerfTick ==
  LET len  == Len(files.perf)
      done == IF files.torn THEN len - 1 ELSE len
      from == IF len < tail.perf THEN 0 ELSE tail.perf
  IN  [new |-> SubSeq(files.perf, from + 1, done), to |-> Max({from, done})]

\* JitdumpTailer.tick: a record counts once it is whole.
DumpTick == SubSeq(files.dump, tail.dump + 1, Len(files.dump))

\* JitTracker.poll, then the re-scan of /proc when a symbol has no region.
ScanMaps(im) == FoldSet(LAMBDA m, acc : AddMapping(acc, m.lo, m.hi), im, liKernel.anon)

PollJit ==
  LET read == FoldLeft(AddSymbol, jit, PerfTick.new)
      dump == FoldLeft(AddSymbol, read, DumpTick)
  IN  /\ tail' = [perf |-> PerfTick.to, dump |-> Len(files.dump)]
      /\ Publish(IF dump.orphans = <<>> THEN dump ELSE AdoptOrphans(ScanMaps(dump)))
      /\ UNCHANGED <<liKernel, files, fileMaps, told>>

LiNext ==
  \/ \E m \in JitMmaps, lost \in BOOLEAN : MmapAnon(m, lost)
  \/ \E e \in JitEntries, f \in {"perf", "dump"} : Announce(e, f)
  \/ FinishLine
  \/ Truncate
  \/ JitMapping
  \/ \E m \in ElfMmaps : FileMapping(m)
  \/ PollJit

LiSpec == LiInit /\ [][LiNext]_liVars

-----------------------------------------------------------------------------
(* Properties *)

Covers(s, a) == s.start <= a /\ a < s.end

\* JIT code: an address inside a symbol the tracker knows, with no other
\* symbol starting between, has that symbol's name, and no address shows a
\* name that was never announced for it.
JitNamed ==
  /\ \A s \in jit.symbols : \A a \in s.start .. (s.end - 1) :
       ((\A t \in jit.symbols : ~(s.start < t.start /\ t.start <= a))
          /\ (\E r \in jit.regions : r.lo <= a /\ a < r.hi))
       => LookupSymbol(loaded, a) = s.name
  /\ \A b \in loaded : (\E r \in jit.regions : r.lo = b.base) =>
       \A a \in b.base .. (b.end - 1) :
         LookupSymbol(loaded, a) = NoName
         \/ \E s \in told : Covers(s, a) /\ s.name = LookupSymbol(loaded, a)

\* File-backed code: a byte's offset in the mapping goes through the segment
\* that holds it to the nearest symbol of the image's or the debug file's table.
FileNamed ==
  \A m \in fileMaps : \A i \in 0 .. (m.len - 1) :
    \A k \in DOMAIN Elves[m.file].loads :
      LET seg  == Elves[m.file].loads[k]
          at   == ((m.pgoff + i) + seg.vaddr) - seg.off
          both == Elves[m.file].syms \o Elves[m.file].debug
          near == {j \in DOMAIN both : both[j].addr # 0 /\ both[j].addr <= at
                     /\ at < both[j].addr + both[j].size}
          best == {j \in near : \A l \in near : both[l].addr <= both[j].addr}
      IN  (seg.off <= m.pgoff + i /\ m.pgoff + i < seg.off + seg.filesz /\ best # {})
          => \E j \in best : LookupSymbol(loaded, m.base + i) = both[j].name

\* Sampled code resolves to the function that is there. However mappings and
\* announcements interleave, whichever file announced a function, whether or
\* not its mapping event was lost, a region is sent to the registry again
\* whenever its table changes, also when the function started in the region
\* before; regions stay disjoint and no known function is left without one.
NamesFaithful ==
  /\ JitNamed /\ FileNamed
  /\ \A r, q \in jit.regions : r # q => r.hi <= q.lo \/ q.hi <= r.lo
  /\ jit.orphans = <<>>
=============================================================================
