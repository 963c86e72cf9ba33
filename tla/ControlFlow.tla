---------------------------- MODULE ControlFlow ----------------------------
(***************************************************************************)
(* The control-flow graph of one function (stax-live/src/cfg.rs): its      *)
(* instructions are decoded one by one, each with what it does to the      *)
(* control flow, then grouped into blocks joined by typed edges.  Text,    *)
(* highlighting and sample counts ride along with an instruction.          *)
(***************************************************************************)
EXTENDS Naturals, Sequences, FiniteSets, SequencesExt, FiniteSetsExt

CONSTANTS CfBase,     \* base_address
          CfCodes,    \* architecture and bytes of code: <<arch, len>>
          CfWord,     \* bytes of an aarch64 instruction
          CfMaxInstr, \* bytes of the longest x86 instruction
          CfFar       \* an address outside the function

ASSUME CfAssumption ==
  /\ CfBase \in Nat /\ CfWord \in Nat \ {0} /\ CfMaxInstr \in Nat /\ CfFar \in Nat
  /\ \A code \in CfCodes : code[2] \in Nat

VARIABLES cfArch,  \* "aarch64" or "amd64"
          cfLen,   \* resolved.bytes.len()
          cfInstrs \* decoded so far: [address, length, flow, target]

cfVars == <<cfArch, cfLen, cfInstrs>>

FnHi == CfBase + cfLen
InFunction(a) == a >= CfBase /\ a < FnHi

Flows == {"sequential", "return", "indirect", "branch", "conditional", "call"}
Targets(flow) == IF flow \in {"branch", "conditional"} THEN (CfBase .. FnHi) \cup {CfFar} ELSE {0}

CfInit == /\ \E code \in CfCodes : cfArch = code[1] /\ cfLen = code[2]
          /\ cfInstrs = <<>>

\* Decoding goes on where the last instruction ended.
NextAddress ==
  IF cfInstrs = <<>> THEN CfBase ELSE Last(cfInstrs).address + Last(cfInstrs).length

Decoded(length, flow, target) ==
  /\ cfInstrs' = Append(cfInstrs, [address |-> NextAddress, length |-> length,
                                   flow |-> flow, target |-> target])
  /\ UNCHANGED <<cfArch, cfLen>>

\* decode_aarch64: whole words; bytes past the last one are left out. A word
\* that does not decode is sequential. Branches go to words.
DecodeAarch64(flow, target) ==
  /\ cfArch = "aarch64" /\ NextAddress + CfWord <= FnHi
  /\ target # 0 => (target - CfBase) % CfWord = 0 \/ target = CfFar
  /\ Decoded(CfWord, flow, target)

\* decode_amd64, classify_x86: instructions of any length; a byte that does not
\* decode is sequential. A target may lie inside an instruction.
DecodeAmd64(length, flow, target) ==
  /\ cfArch = "amd64" /\ NextAddress + length <= FnHi
  /\ Decoded(length, flow, target)

CfNext == \E flow \in Flows : \E target \in Targets(flow) :
            \/ DecodeAarch64(flow, target)
            \/ \E length \in 1 .. CfMaxInstr : DecodeAmd64(length, flow, target)

CfSpec == CfInit /\ [][CfNext]_cfVars

-----------------------------------------------------------------------------
(* build_blocks_and_edges *)

After(i) == cfInstrs[i].address + cfInstrs[i].length
Ends(i)  == cfInstrs[i].flow \in {"branch", "conditional", "return", "indirect"}
Jumps(i) == cfInstrs[i].flow \in {"branch", "conditional"}

\* Only the targets are leaders.
MutantLeaders == {CfBase} \cup {cfInstrs[i].target : i \in {j \in DOMAIN cfInstrs :
                                                           Jumps(j) /\ InFunction(cfInstrs[j].target)}}

\* The first instruction, every target inside the function, and what follows an
\* instruction that ends a block.
Leaders ==
  {CfBase}
  \cup {cfInstrs[i].target : i \in {j \in DOMAIN cfInstrs : Jumps(j) /\ InFunction(cfInstrs[j].target)}}
  \cup {After(i) : i \in {j \in DOMAIN cfInstrs : Ends(j) /\ After(j) < FnHi}}

\* block_id_for: the last leader at or before the address names the block.
BlockFor(a) == Max({l \in Leaders : l <= a})
BlockLines(l) == {i \in DOMAIN cfInstrs : BlockFor(cfInstrs[i].address) = l}
LastLine(l) == Max(BlockLines(l))

CfEdge(l, a, kind) == [from |-> l, to |-> BlockFor(a), kind |-> kind]

\* The edges off the last instruction of a block; a block without instructions
\* has none.
EdgesFrom(l) ==
  LET i     == LastLine(l)
      flow  == cfInstrs[i].flow
      taken == IF Jumps(i) /\ InFunction(cfInstrs[i].target)
               THEN {CfEdge(l, cfInstrs[i].target, flow)} ELSE {}
      next  == IF flow \in {"sequential", "call", "conditional"} /\ After(i) < FnHi
               THEN {CfEdge(l, After(i), IF flow = "call" THEN "call" ELSE "fallthrough")} ELSE {}
  IN  IF BlockLines(l) = {} THEN {} ELSE taken \cup next

Edges == UNION {EdgesFrom(l) : l \in Leaders}

-----------------------------------------------------------------------------
(* Properties *)

\* Where control may go from instruction i without leaving the function.
Successors(i) ==
  LET flow == cfInstrs[i].flow
      to   == (IF Jumps(i) THEN {cfInstrs[i].target} ELSE {})
              \cup (IF flow \in {"sequential", "call", "conditional"} THEN {After(i)} ELSE {})
  IN  {j \in DOMAIN cfInstrs : cfInstrs[j].address \in to}

BlockOf(i) == BlockFor(cfInstrs[i].address)

AllDecoded == NextAddress + (IF cfArch = "aarch64" THEN CfWord ELSE 1) > FnHi
DecodedAt(a) == \E j \in DOMAIN cfInstrs : cfInstrs[j].address = a

\* The blocks and edges are the function's control flow, with targets inside an
\* instruction, targets at the very end, trailing bytes and calls: a step from
\* one decoded instruction to another is either to the next line of its block or
\* an edge from its block, which it ends, to the other's, which the other begins;
\* and an edge that stands for no such step comes of an address inside the
\* function where no instruction was decoded.
CfgCovers ==
  AllDecoded =>
    /\ \A i \in DOMAIN cfInstrs : \A j \in Successors(i) :
         \/ j = i + 1 /\ BlockOf(i) = BlockOf(j) /\ ~Ends(i)
         \/ /\ i = LastLine(BlockOf(i)) /\ j = Min(BlockLines(BlockOf(j)))
            /\ \E e \in Edges : e.from = BlockOf(i) /\ e.to = BlockOf(j)
    /\ \A e \in Edges :
         LET i == LastLine(e.from)
         IN  \/ \E j \in Successors(i) : BlockOf(j) = e.to
             \/ \E a \in {cfInstrs[i].target, After(i)} : InFunction(a) /\ ~DecodedAt(a)
=============================================================================
