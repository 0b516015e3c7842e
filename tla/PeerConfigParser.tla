--------------------------- MODULE PeerConfigParser ---------------------------
(***************************************************************************)
(* The loops of src/src/wireguard_config.rs, line by line: the first cuts  *)
(* the text into blocks, the second makes an entry of every block and puts *)
(* it in the table. Checked against what PeerConfig says of the whole text.*)
(***************************************************************************)
EXTENDS PeerConfig

CONSTANT Texts  \* texts considered

ASSUME TextsType == Texts \subseteq Seq(Lines)

VARIABLES
  txt,              \* the joined text
  phase,            \* "cut", "parse" or "done"
  line,             \* in phase "cut": the next line of the text
  isOpen, curBlock, \* cur_block: whether there is one, and its lines
  vBlocks,          \* v_blocks: the blocks closed so far
  block, item,      \* in phase "parse": the block and its next line
  entry,            \* the locals of PeerEntry::try_from
  hm,               \* the table
  result            \* "none", "ok", "error" or "panic"

vars == <<txt, phase, line, isOpen, curBlock, vBlocks, block, item, entry, hm, result>>
cutting == <<line, isOpen, curBlock, vBlocks>>
parsing == <<block, item, entry, hm>>

NoEntry == [public_key |-> Empty, allowed_ips |-> Empty, description |-> NoDescription]

Init ==
  /\ txt \in Texts
  /\ phase = "cut" /\ line = 1
  /\ isOpen = FALSE /\ curBlock = <<>> /\ vBlocks = <<>>
  /\ block = 1 /\ item = 1 /\ entry = NoEntry
  /\ hm = [k \in Keys |-> NoDescription]
  /\ result = "none"

(***************************************************************************)
(* The first loop.                                                         *)
(***************************************************************************)
CloseBlock == vBlocks' = IF isOpen THEN Append(vBlocks, curBlock) ELSE vBlocks

OpensBlock_AnyHeader(l) == TRUE
OpensBlock(l) == l.tag = "peer"

HeaderLine ==
  /\ phase = "cut" /\ line <= Len(txt) /\ IsHeader(txt[line])
  /\ CloseBlock
  /\ isOpen' = OpensBlock(txt[line])
  /\ curBlock' = <<>>
  /\ line' = line + 1
  /\ UNCHANGED <<txt, phase, parsing, result>>

BodyLine ==
  /\ phase = "cut" /\ line <= Len(txt) /\ ~IsHeader(txt[line])
  /\ curBlock' = IF isOpen THEN Append(curBlock, txt[line]) ELSE curBlock
  /\ line' = line + 1
  /\ UNCHANGED <<txt, phase, isOpen, vBlocks, parsing, result>>

(* A block still open at the end of the text is a block too.               *)
Leftover ==
  /\ phase = "cut" /\ line > Len(txt)
  /\ CloseBlock
  /\ isOpen' = FALSE /\ curBlock' = <<>>
  /\ phase' = "parse"
  /\ UNCHANGED <<txt, line, parsing, result>>

(***************************************************************************)
(* The second loop, and in it the loop over the lines of a block.          *)
(***************************************************************************)
Fail(how) ==
  /\ phase' = "done" /\ result' = how
  /\ UNCHANGED <<block, item, entry, hm>>

Parsing == phase = "parse" /\ block <= Len(vBlocks)

Keeps(field, value) == entry' = [entry EXCEPT ![field] = value]

LineOutcome_Lenient(l) == IF l.tag = "wide" THEN "panic" ELSE "ok"
LineOutcome(l) ==
  IF l.tag = "wide" THEN "panic"
  ELSE IF l.tag = "json" /\ l.arg = "malformed" THEN "error"
  ELSE "ok"

EntryLine ==
  /\ Parsing /\ item <= Len(vBlocks[block])
  /\ LET l == vBlocks[block][item]
     IN  IF LineOutcome(l) # "ok" THEN Fail(LineOutcome(l))
         ELSE /\ \/ l.tag = "publickey" /\ Keeps("public_key", l.arg)
                 \/ l.tag = "allowedips" /\ Keeps("allowed_ips", l.arg)
                 \/ l.tag \in {"name", "json"} /\ Keeps("description", l)
                 \/ l.tag = "other" /\ UNCHANGED entry
              /\ item' = item + 1
              /\ UNCHANGED <<phase, block, hm, result>>
  /\ UNCHANGED <<txt, cutting>>

Insert_KeepsFirst(table, k, d) == IF table[k] = NoDescription THEN [table EXCEPT ![k] = d] ELSE table
Insert(table, k, d) == [table EXCEPT ![k] = d]

(* The locals of try_from start afresh with every block.                   *)
NextEntry_Carries == [entry EXCEPT !.public_key = Empty]
NextEntry == NoEntry

EntryEnd ==
  /\ Parsing /\ item > Len(vBlocks[block])
  /\ IF Empty \in {entry.public_key, entry.allowed_ips}
     THEN Fail("error")
     ELSE /\ hm' = Insert(hm, entry.public_key, entry.description)
          /\ entry' = NextEntry
          /\ block' = block + 1 /\ item' = 1
          /\ UNCHANGED <<phase, result>>
  /\ UNCHANGED <<txt, cutting>>

Return ==
  /\ phase = "parse" /\ block > Len(vBlocks)
  /\ phase' = "done" /\ result' = "ok"
  /\ UNCHANGED <<txt, cutting, parsing>>

Next == HeaderLine \/ BodyLine \/ Leftover \/ EntryLine \/ EntryEnd \/ Return

Spec == Init /\ [][Next]_vars

(***************************************************************************)
(* Properties.                                                             *)
(***************************************************************************)
TypeOK ==
  /\ txt \in Seq(Lines)
  /\ phase \in {"cut", "parse", "done"}
  /\ line \in 1 .. Len(txt) + 1
  /\ isOpen \in BOOLEAN
  /\ curBlock \in Seq(Lines)
  /\ vBlocks \in Seq(Seq(Lines))
  /\ block \in Nat \ {0} /\ item \in Nat \ {0}
  /\ entry \in [public_key : Keys \cup {Empty}, allowed_ips : Ips \cup {Empty},
                description : Descriptions]
  /\ hm \in [Keys -> Descriptions]
  /\ result \in {"none", "ok", "error", "panic"}

(* BlocksAreCut: the blocks closed so far and the open one are, in order,  *)
(* the blocks of the lines read: no line is lost, none is in two blocks,   *)
(* and a line before the first peer header or after another section header *)
(* is in none (wireguard_config.rs:120-145).                               *)
ReadSoFar == SubSeq(txt, 1, line - 1)
CutSoFar == IF isOpen THEN Append(vBlocks, curBlock) ELSE vBlocks
Rank(p) == Cardinality({q \in Blocks(txt) : q <= p})
BlockLines(p) ==
  LET B == Block(ReadSoFar, p) IN SubSeq(txt, p + 1, p + Cardinality(B))
BlocksAreCut ==
  /\ Len(CutSoFar) = Cardinality(Blocks(ReadSoFar))
  /\ \A p \in Blocks(ReadSoFar) : CutSoFar[Rank(p)] = BlockLines(p)

(* ParsesAsSpecified: the outcome and the table of the loops are those     *)
(* PeerConfig gives the text: an error or a panic is that of the first     *)
(* block that has one, the last block of a key describes it, and nothing   *)
(* is carried from a block into the next (wireguard_config.rs:56-157).     *)
ParsesAsSpecified ==
  phase = "done" =>
    /\ result = ParseOutcome(txt)
    /\ result = "ok" => hm = PeerEntryHashMap(txt)
===============================================================================
