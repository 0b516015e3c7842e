------------------------ MODULE PeerConfigParserProofs ------------------------
(***************************************************************************)
(* The loops of the parser of peer config files compute what PeerConfig    *)
(* says of the whole text, for every set of texts, of any length, and      *)
(* every set of keys, names and addresses.                                 *)
(***************************************************************************)
EXTENDS PeerConfigParser, PeerConfigProofs, FiniteSetTheorems

(***************************************************************************)
(* Peer lines by rank: the peer lines among the first n lines of a text,   *)
(* and how many there are.                                                 *)
(***************************************************************************)
Opened(t, n) == {p \in 1 .. n : t[p].tag = "peer"}
Count(t, n) == Cardinality(Opened(t, n))

LEMMA CountType ==
  ASSUME NEW t, NEW n \in Nat
  PROVE  IsFiniteSet(Opened(t, n)) /\ Count(t, n) \in Nat
<1>1. IsFiniteSet(1 .. n)
  BY FS_Interval
<1>2. IsFiniteSet(Opened(t, n))
  BY <1>1, FS_Subset DEF Opened
<1> QED BY <1>2, FS_CardinalityType DEF Count

(* One more line is one more peer line, or none.                           *)
LEMMA CountStep ==
  ASSUME NEW t, NEW n \in Nat
  PROVE  /\ t[n + 1].tag = "peer" => /\ Opened(t, n + 1) = Opened(t, n) \cup {n + 1}
                                     /\ Count(t, n + 1) = Count(t, n) + 1
         /\ t[n + 1].tag # "peer" => /\ Opened(t, n + 1) = Opened(t, n)
                                     /\ Count(t, n + 1) = Count(t, n)
<1>1. 1 .. n + 1 = (1 .. n) \cup {n + 1} /\ n + 1 \notin 1 .. n
  OBVIOUS
<1>2. CASE t[n + 1].tag = "peer"
  <2>1. Opened(t, n + 1) = Opened(t, n) \cup {n + 1} /\ n + 1 \notin Opened(t, n)
    BY <1>1, <1>2 DEF Opened
  <2>2. Cardinality(Opened(t, n) \cup {n + 1}) = Cardinality(Opened(t, n)) + 1
    BY <2>1, CountType, FS_AddElement
  <2> QED BY <1>2, <2>1, <2>2 DEF Count
<1>3. CASE t[n + 1].tag # "peer"
  <2>1. Opened(t, n + 1) = Opened(t, n)
    BY <1>1, <1>3 DEF Opened
  <2> QED BY <1>3, <2>1 DEF Count
<1> QED BY <1>2, <1>3

LEMMA CountGrows ==
  ASSUME NEW t, NEW m \in Nat, NEW n \in Nat, m <= n
  PROVE  Count(t, m) <= Count(t, n)
<1>1. Opened(t, m) \subseteq Opened(t, n)
  BY DEF Opened
<1> QED BY <1>1, CountType, FS_Subset DEF Count

(* The rank of a peer line is above that of every line before it.          *)
LEMMA CountOfPeer ==
  ASSUME NEW t, NEW n \in Nat, NEW p \in Opened(t, n)
  PROVE  /\ p \in 1 .. n /\ t[p].tag = "peer"
         /\ Count(t, p) \in 1 .. Count(t, n)
         /\ \A m \in Nat : m < p => Count(t, m) < Count(t, p)
<1>1. p \in 1 .. n /\ t[p].tag = "peer" /\ p - 1 \in Nat /\ (p - 1) + 1 = p
  BY DEF Opened
<1>2. Count(t, p) = Count(t, p - 1) + 1
  BY <1>1, CountStep
<1>3. Count(t, p - 1) \in Nat /\ Count(t, n) \in Nat
  BY <1>1, CountType
<1>4. Count(t, p) <= Count(t, n)
  BY <1>1, CountGrows
<1>5. ASSUME NEW m \in Nat, m < p PROVE Count(t, m) < Count(t, p)
  <2>1. Count(t, m) <= Count(t, p - 1)
    BY <1>1, <1>5, CountGrows
  <2> QED BY <2>1, <1>2, <1>3, CountType
<1> QED BY <1>1, <1>2, <1>3, <1>4, <1>5

LEMMA CountInjective ==
  ASSUME NEW t, NEW n \in Nat, NEW p \in Opened(t, n), NEW q \in Opened(t, n),
         Count(t, p) = Count(t, q)
  PROVE  p = q
<1>1. p \in Nat /\ q \in Nat /\ Count(t, p) \in Nat
  BY CountOfPeer, CountType
<1>2. ~(p < q) /\ ~(q < p)
  BY <1>1, CountOfPeer
<1> QED BY <1>1, <1>2

LEMMA CountNone ==
  ASSUME NEW t
  PROVE  Opened(t, 0) = {} /\ Count(t, 0) = 0
<1>1. Opened(t, 0) = {}
  BY DEF Opened
<1> QED BY <1>1, FS_EmptySet DEF Count

LEMMA IntervalSize ==
  ASSUME NEW m \in Nat, NEW n \in Nat
  PROVE  Cardinality(m + 1 .. m + n) = n
<1>1. \A i, j \in Int : Cardinality(i .. j) = IF i > j THEN 0 ELSE j - i + 1
  BY FS_Interval, Zenon
<1>2. PICK i \in Int : i = m + 1
  OBVIOUS
<1>3. PICK j \in Int : j = m + n
  OBVIOUS
<1>4. Cardinality(i .. j) = IF i > j THEN 0 ELSE j - i + 1
  BY <1>1
<1> QED BY <1>2, <1>3, <1>4

(***************************************************************************)
(* A block as the first loop collects it: the lines b that stand behind    *)
(* the peer line p in the first n lines of t, up to a header or line n.    *)
(***************************************************************************)
Holds(t, n, p, b) ==
  /\ b \in Seq(Lines)
  /\ p + Len(b) <= n
  /\ \A j \in 1 .. Len(b) : b[j] = t[p + j] /\ ~IsHeader(t[p + j])
  /\ p + Len(b) < n => IsHeader(t[p + Len(b) + 1])

(* Such a block has the lines that PeerConfig gives it.                    *)
LEMMA HoldsBlock ==
  ASSUME NEW t \in Seq(Lines), NEW p \in 1 .. Len(t), NEW b, Holds(t, Len(t), p, b)
  PROVE  Block(t, p) = p + 1 .. p + Len(b)
<1>1. DOMAIN t = 1 .. Len(t) /\ Len(t) \in Nat /\ Len(b) \in Nat /\ p \in Nat
  BY LenProperties DEF Holds
<1>2. ASSUME NEW q \in p + 1 .. p + Len(b) PROVE q \in Block(t, p)
  <2>1. q \in 1 .. Len(t) /\ p < q
    BY <1>1 DEF Holds
  <2>2. ASSUME NEW r \in p + 1 .. q PROVE ~IsHeader(t[r])
    <3>1. r - p \in 1 .. Len(b) /\ p + (r - p) = r
      BY <1>1, <2>1
    <3> QED BY <3>1 DEF Holds
  <2> QED BY <1>1, <2>1, <2>2 DEF Block
<1>3. ASSUME NEW q \in Block(t, p) PROVE q \in p + 1 .. p + Len(b)
  <2>1. q \in 1 .. Len(t) /\ p < q /\ \A r \in p + 1 .. q : ~IsHeader(t[r])
    BY <1>1 DEF Block
  <2>2. CASE q > p + Len(b)
    <3>1. p + Len(b) < Len(t) /\ p + Len(b) + 1 \in p + 1 .. q
      BY <1>1, <2>1, <2>2
    <3> QED BY <2>1, <3>1 DEF Holds
  <2> QED BY <1>1, <2>1, <2>2
<1> QED BY <1>2, <1>3

LEMMA HoldsLines ==
  ASSUME NEW t \in Seq(Lines), NEW n \in 0 .. Len(t), NEW p \in 1 .. n, NEW b,
         Holds(t, n, p, b)
  PROVE  LET B == Block(SubSeq(t, 1, n), p)
         IN  b = SubSeq(t, p + 1, p + Cardinality(B))
<1> DEFINE u == SubSeq(t, 1, n)
<1>1. /\ u \in Seq(Lines) /\ Len(u) = n
      /\ \A i \in 1 .. n : u[i] = t[i]
  BY SubSeqProperties, LenProperties
<1>2. Len(b) \in Nat /\ p \in Nat /\ n \in Nat /\ p + Len(b) <= n /\ n <= Len(t) /\ Len(t) \in Nat
  BY LenProperties DEF Holds
<1>3. Holds(u, Len(u), p, b)
  <2>1. \A j \in 1 .. Len(b) : u[p + j] = t[p + j]
    BY <1>1, <1>2
  <2>2. p + Len(b) < n => u[p + Len(b) + 1] = t[p + Len(b) + 1]
    BY <1>1, <1>2
  <2> HIDE DEF u
  <2> QED BY <1>1, <2>1, <2>2 DEF Holds
<1>4. Block(u, p) = p + 1 .. p + Len(b)
  <2> HIDE DEF u
  <2> QED BY <1>1, <1>3, HoldsBlock
<1>5. Cardinality(Block(u, p)) = Len(b)
  BY <1>2, <1>4, IntervalSize
<1> DEFINE s == SubSeq(t, p + 1, p + Len(b))
<1>6. s \in Seq(Lines) /\ Len(s) = Len(b) /\ \A j \in 1 .. Len(b) : s[j] = t[p + j]
  BY <1>2, SubSeqProperties
<1>7. b = s
  <2> HIDE DEF s
  <2> QED BY <1>2, <1>6, SeqEqual DEF Holds
<1> QED BY <1>5, <1>7

(***************************************************************************)
(* Reading a block line by line: what the lines B, and then line q, give.  *)
(***************************************************************************)
Grows(B, q, n) == n \in Nat /\ B \subseteq 1 .. n /\ q \in 1 .. n /\ \A y \in B : y < q

LEMMA TaggedStep ==
  ASSUME NEW t, NEW n, NEW B, NEW q, NEW tags, Grows(B, q, n)
  PROVE  /\ t[q].tag \in tags => /\ Tagged(t, B \cup {q}, tags) # {}
                                /\ Max(Tagged(t, B \cup {q}, tags)) = q
         /\ t[q].tag \notin tags => Tagged(t, B \cup {q}, tags) = Tagged(t, B, tags)
<1>1. ASSUME t[q].tag \in tags
      PROVE  /\ Tagged(t, B \cup {q}, tags) # {}
             /\ Max(Tagged(t, B \cup {q}, tags)) = q
  <2> DEFINE S == Tagged(t, B \cup {q}, tags)
  <2>1. \A y \in B \cup {q} : y \in 1 .. n /\ y \in Int /\ y <= q
    BY DEF Grows
  <2>2. q \in S /\ S \subseteq B \cup {q}
    BY <1>1 DEF Tagged
  <2> HIDE DEF S
  <2>3. S \in SUBSET (1 .. n) /\ \A y \in S : y \in Int /\ y <= q
    BY <2>1, <2>2
  <2>4. Max(S) \in S /\ \A y \in S : y <= Max(S)
    BY <2>3, <2>2, MaxOfPositions DEF Grows
  <2>5. Max(S) \in Int /\ q \in Int /\ q <= Max(S) /\ Max(S) <= q
    BY <2>3, <2>4, <2>2
  <2>6. Max(S) = q
    BY <2>5
  <2> QED BY <2>2, <2>6 DEF S
<1>2. ASSUME t[q].tag \notin tags
      PROVE  Tagged(t, B \cup {q}, tags) = Tagged(t, B, tags)
  BY <1>2 DEF Tagged
<1> QED BY <1>1, <1>2

LEMMA LastValueStep ==
  ASSUME NEW t, NEW n \in Nat, NEW B \in SUBSET (1 .. n), NEW q \in 1 .. n,
         \A y \in B : y < q, NEW tag
  PROVE  LastValue(t, B \cup {q}, tag)
           = IF t[q].tag = tag THEN t[q].arg ELSE LastValue(t, B, tag)
<1>0. Grows(B, q, n)
  BY DEF Grows
<1>1. /\ t[q].tag \in {tag} => /\ Tagged(t, B \cup {q}, {tag}) # {}
                              /\ Max(Tagged(t, B \cup {q}, {tag})) = q
      /\ t[q].tag \notin {tag} => Tagged(t, B \cup {q}, {tag}) = Tagged(t, B, {tag})
  BY <1>0, TaggedStep
<1>2. CASE t[q].tag = tag
  BY <1>1, <1>2 DEF LastValue
<1>3. CASE t[q].tag # tag
  <2>1. Tagged(t, B \cup {q}, {tag}) = Tagged(t, B, {tag})
    BY <1>1, <1>3
  <2> QED BY <1>3, <2>1 DEF LastValue
<1> QED BY <1>2, <1>3

LEMMA DescriptionStep ==
  ASSUME NEW t, NEW n \in Nat, NEW B \in SUBSET (1 .. n), NEW q \in 1 .. n,
         \A y \in B : y < q
  PROVE  Description(t, B \cup {q})
           = IF t[q].tag \in {"name", "json"} THEN t[q] ELSE Description(t, B)
<1> DEFINE T == {"name", "json"}
<1> HIDE DEF T
<1>0. Grows(B, q, n)
  BY DEF Grows
<1>1. /\ t[q].tag \in T => /\ Tagged(t, B \cup {q}, T) # {}
                          /\ Max(Tagged(t, B \cup {q}, T)) = q
      /\ t[q].tag \notin T => Tagged(t, B \cup {q}, T) = Tagged(t, B, T)
  BY <1>0, TaggedStep
<1>2. \A C : Description(t, C) = IF Tagged(t, C, T) = {} THEN NoDescription
                                 ELSE t[Max(Tagged(t, C, T))]
  BY DEF Description, T
<1>3. CASE t[q].tag \in T
  BY <1>1, <1>2, <1>3 DEF T
<1>4. CASE t[q].tag \notin T
  <2>1. Tagged(t, B \cup {q}, T) = Tagged(t, B, T)
    BY <1>1, <1>4
  <2>2. Description(t, B \cup {q}) = Description(t, B)
    BY <1>2, <2>1
  <2> QED BY <1>4, <2>2 DEF T
<1> QED BY <1>3, <1>4

(* Before the first line there is nothing.                                 *)
LEMMA NothingRead ==
  ASSUME NEW t, NEW p \in Nat
  PROVE  /\ \A tag : LastValue(t, p + 1 .. p, tag) = Empty
         /\ Description(t, p + 1 .. p) = NoDescription
         /\ Stops(t, p + 1 .. p) = {}
<1>1. p + 1 .. p = {}
  OBVIOUS
<1> QED BY <1>1 DEF LastValue, Description, Stops, Tagged

(* A line that can be read past is no stop.                                *)
LEMMA StopsStep ==
  ASSUME NEW t, NEW B, NEW q, LineOutcome(t[q]) = "ok"
  PROVE  Stops(t, B \cup {q}) = Stops(t, B)
<1>1. ~(t[q].tag = "wide" \/ (t[q].tag = "json" /\ t[q].arg = "malformed"))
  BY DEF LineOutcome
<1> QED BY <1>1 DEF Stops

(* The first line of a block that cannot be read past decides its outcome. *)
LEMMA FirstStop ==
  ASSUME NEW t \in Seq(Lines), NEW p \in 1 .. Len(t), NEW q \in Block(t, p),
         Stops(t, p + 1 .. q - 1) = {}, LineOutcome(t[q]) # "ok"
  PROVE  EntryOutcome(t, p) = LineOutcome(t[q])
<1> DEFINE S == Stops(t, Block(t, p))
<1>1. q \in S
  BY DEF Stops, LineOutcome
<1>2. S \in SUBSET Nat /\ p \in Nat /\ q \in Nat /\ \A y \in S : p < y
  BY LenProperties DEF Stops, Block
<1>3. ASSUME NEW y \in S PROVE q <= y
  <2>1. CASE y < q
    <3>1. y \in p + 1 .. q - 1
      BY <1>2, <1>3, <2>1
    <3> QED BY <3>1 DEF Stops
  <2> QED BY <1>2, <2>1
<1>4. Min(S) \in S /\ \A y \in S : Min(S) <= y
  <2> HIDE DEF S
  <2> QED BY <1>1, <1>2, MinOfNaturals
<1>5. Min(S) = q
  <2> HIDE DEF S
  <2>1. Min(S) <= q /\ q <= Min(S) /\ Min(S) \in Nat
    BY <1>1, <1>2, <1>3, <1>4
  <2> QED BY <1>2, <2>1
<1>6. t[q].tag # "wide" => t[q].tag = "json" /\ t[q].arg = "malformed"
  BY DEF LineOutcome
<1>7. EntryOutcome(t, p) = IF t[q].tag = "wide" THEN "panic" ELSE "error"
  BY <1>1, <1>5, Zenon DEF EntryOutcome
<1> QED BY <1>6, <1>7 DEF LineOutcome

(***************************************************************************)
(* Type correctness.                                                       *)
(***************************************************************************)

(* The line an action reads is a line.                                     *)
LEMMA LineRead ==
  ASSUME TypeOK
  PROVE  /\ line <= Len(txt) => line \in 1 .. Len(txt) /\ txt[line] \in Lines
         /\ block <= Len(vBlocks) =>
              /\ block \in 1 .. Len(vBlocks) /\ vBlocks[block] \in Seq(Lines)
              /\ item <= Len(vBlocks[block]) =>
                   item \in 1 .. Len(vBlocks[block]) /\ vBlocks[block][item] \in Lines
<1>1. line <= Len(txt) => line \in 1 .. Len(txt) /\ txt[line] \in Lines
  BY ElementOfSeq, LenProperties DEF TypeOK
<1>2. block <= Len(vBlocks) => block \in 1 .. Len(vBlocks) /\ vBlocks[block] \in Seq(Lines)
  BY ElementOfSeq, LenProperties DEF TypeOK
<1>3. ASSUME block <= Len(vBlocks), item <= Len(vBlocks[block])
      PROVE  item \in 1 .. Len(vBlocks[block]) /\ vBlocks[block][item] \in Lines
  <2>1. vBlocks[block] \in Seq(Lines) /\ item \in Nat \ {0}
    BY <1>2, <1>3 DEF TypeOK
  <2> QED BY <2>1, <1>3, ElementOfSeq, LenProperties
<1> QED BY <1>1, <1>2, <1>3

(* What a line of a block does to the entry.                               *)
LEMMA EntryKept ==
  ASSUME TypeOK, EntryLine, LineOutcome(vBlocks[block][item]) = "ok"
  PROVE  /\ item' = item + 1 /\ UNCHANGED <<phase, block, hm, result>>
         /\ LET l == vBlocks[block][item]
            IN  entry' = [public_key |-> IF l.tag = "publickey" THEN l.arg ELSE entry.public_key,
                          allowed_ips |-> IF l.tag = "allowedips" THEN l.arg ELSE entry.allowed_ips,
                          description |-> IF l.tag \in {"name", "json"} THEN l
                                          ELSE entry.description]
<1>1. entry = [public_key |-> entry.public_key, allowed_ips |-> entry.allowed_ips,
               description |-> entry.description]
  BY DEF TypeOK
<1> DEFINE l == vBlocks[block][item]
<1>2. /\ item' = item + 1 /\ UNCHANGED <<phase, block, hm, result>>
      /\ \/ l.tag = "publickey" /\ entry' = [entry EXCEPT !["public_key"] = l.arg]
         \/ l.tag = "allowedips" /\ entry' = [entry EXCEPT !["allowed_ips"] = l.arg]
         \/ l.tag \in {"name", "json"} /\ entry' = [entry EXCEPT !["description"] = l]
         \/ l.tag = "other" /\ UNCHANGED entry
  BY DEF EntryLine, Keeps
<1> HIDE DEF l
<1> QED BY <1>1, <1>2 DEF l

LEMMA InitType == Init => TypeOK
<1> SUFFICES ASSUME Init PROVE TypeOK
  OBVIOUS
<1>1. txt \in Seq(Lines) /\ Len(txt) \in Nat
  BY TextsType, LenProperties DEF Init
<1>2. NoDescription \in Descriptions
  BY DEF Descriptions
<1>3. entry \in [public_key : Keys \cup {Empty}, allowed_ips : Ips \cup {Empty},
                description : Descriptions]
  BY <1>2 DEF Init, NoEntry
<1>4. hm \in [Keys -> Descriptions]
  BY <1>2 DEF Init
<1>5. curBlock \in Seq(Lines) /\ vBlocks \in Seq(Seq(Lines))
  BY DEF Init
<1>6. isOpen \in BOOLEAN
  BY Zenon DEF Init
<1> QED BY <1>1, <1>3, <1>4, <1>5, <1>6 DEF Init, TypeOK

LEMMA NextType == TypeOK /\ [Next]_vars => TypeOK'
<1> SUFFICES ASSUME TypeOK, [Next]_vars PROVE TypeOK'
  OBVIOUS
<1>1. Len(txt) \in Nat /\ line \in Nat
  BY LenProperties DEF TypeOK
<1>2. vBlocks \in Seq(Seq(Lines)) /\ curBlock \in Seq(Lines)
      /\ Append(vBlocks, curBlock) \in Seq(Seq(Lines))
  BY AppendProperties DEF TypeOK
<1>3. CASE HeaderLine
  BY <1>1, <1>2, <1>3 DEF HeaderLine, CloseBlock, OpensBlock, TypeOK, parsing
<1>4. CASE BodyLine
  <2>1. Append(curBlock, txt[line]) \in Seq(Lines)
    BY <1>2, <1>4, LineRead, AppendProperties DEF BodyLine
  <2> QED BY <1>1, <1>2, <1>4, <2>1 DEF BodyLine, TypeOK, parsing
<1>5. CASE Leftover
  <2>1. vBlocks' \in Seq(Seq(Lines)) /\ curBlock' \in Seq(Lines)
    BY <1>2, <1>5 DEF Leftover, CloseBlock
  <2>2. isOpen' \in BOOLEAN
    BY <1>5, Zenon DEF Leftover
  <2>3. phase' = "parse" /\ UNCHANGED <<txt, line, block, item, entry, hm, result>>
    BY <1>5 DEF Leftover, parsing
  <2> QED BY <2>1, <2>3, <2>2 DEF TypeOK
<1>6. CASE EntryLine
  <2> DEFINE l == vBlocks[block][item]
  <2>1. l \in Lines
    BY <1>6, LineRead DEF EntryLine, Parsing
  <2>2. UNCHANGED <<txt, line, isOpen, curBlock, vBlocks>>
    BY <1>6 DEF EntryLine, cutting
  <2>3. CASE LineOutcome(l) # "ok"
    BY <1>6, <2>2, <2>3 DEF EntryLine, Fail, LineOutcome, TypeOK
  <2>4. CASE LineOutcome(l) = "ok"
    <3>1. l.tag \in {"name", "json"} => l \in Descriptions
      <4> HIDE DEF l
      <4> QED BY <2>1, <2>4 DEF LineOutcome, Lines, JsonValues, Descriptions
    <3>2. /\ l.tag = "publickey" => l.arg \in Keys \cup {Empty}
          /\ l.tag = "allowedips" => l.arg \in Ips \cup {Empty}
      <4> HIDE DEF l
      <4> QED BY <2>1 DEF Lines
    <3>3. /\ item' = item + 1 /\ UNCHANGED <<phase, block, hm, result>>
          /\ entry' = [public_key |-> IF l.tag = "publickey" THEN l.arg ELSE entry.public_key,
                       allowed_ips |-> IF l.tag = "allowedips" THEN l.arg ELSE entry.allowed_ips,
                       description |-> IF l.tag \in {"name", "json"} THEN l
                                       ELSE entry.description]
      BY <1>6, <2>4, EntryKept
    <3> HIDE DEF l
    <3> QED BY <2>2, <3>1, <3>2, <3>3 DEF TypeOK
  <2> QED BY <2>3, <2>4
<1>7. CASE EntryEnd
  <2>1. UNCHANGED <<txt, line, isOpen, curBlock, vBlocks>>
    BY <1>7 DEF EntryEnd, cutting
  <2>2. CASE Empty \in {entry.public_key, entry.allowed_ips}
    BY <1>7, <2>1, <2>2 DEF EntryEnd, Fail, TypeOK
  <2>3. CASE Empty \notin {entry.public_key, entry.allowed_ips}
    <3>1. hm' \in [Keys -> Descriptions]
      BY <1>7, <2>3 DEF EntryEnd, Insert, TypeOK
    <3>2. entry' = NoEntry /\ block' = block + 1 /\ item' = 1 /\ UNCHANGED <<phase, result>>
      BY <1>7, <2>3 DEF EntryEnd, NextEntry
    <3> QED BY <2>1, <3>1, <3>2 DEF TypeOK, NoEntry, Descriptions
  <2> QED BY <2>2, <2>3
<1>8. CASE Return
  BY <1>8 DEF Return, TypeOK, cutting, parsing
<1>9. CASE UNCHANGED vars
  BY <1>9 DEF vars, TypeOK
<1> QED BY <1>3, <1>4, <1>5, <1>6, <1>7, <1>8, <1>9 DEF Next

(* TypeCorrect: the variables of the parser keep their types; a malformed  *)
(* friendly_json never reaches the table (wireguard_config.rs:53-157).     *)
THEOREM TypeCorrect == Spec => []TypeOK
<1>1. Init => TypeOK
  BY InitType
<1>2. TypeOK /\ [Next]_vars => TypeOK'
  BY NextType
<1> QED BY <1>1, <1>2, PTL DEF Spec

(***************************************************************************)
(* The first loop. C are the blocks of the first n lines of t when the     *)
(* block of rank r is what stands behind the r-th peer line, and every     *)
(* block is behind one.                                                    *)
(***************************************************************************)
AreBlocks(t, n, C) ==
  /\ Len(C) = Count(t, n)
  /\ \A p \in Opened(t, n) : Holds(t, n, p, C[Count(t, p)])
  /\ \A r \in 1 .. Len(C) : \E p \in Opened(t, n) : Count(t, p) = r

(* One more line: a block that ends before line n stays as it is, one that *)
(* reaches line n is closed by a header and goes on with any other line.   *)
LEMMA HoldsGrows ==
  ASSUME NEW t, NEW n \in Nat, NEW p \in Nat, NEW b, Holds(t, n, p, b),
         p + Len(b) < n \/ IsHeader(t[n + 1])
  PROVE  Holds(t, n + 1, p, b) /\ p + Len(b) < n + 1
<1>1. Len(b) \in Nat /\ b \in Seq(Lines)
  BY LenProperties DEF Holds
<1>2. p + Len(b) <= n
  BY DEF Holds
<1>3. CASE p + Len(b) < n
  BY <1>1, <1>3 DEF Holds
<1>4. CASE p + Len(b) = n
  BY <1>1, <1>4 DEF Holds
<1> QED BY <1>1, <1>2, <1>3, <1>4

LEMMA HoldsExtends ==
  ASSUME NEW t, NEW n \in Nat, NEW p \in Nat, NEW b, Holds(t, n, p, b), p + Len(b) = n,
         t[n + 1] \in Lines, ~IsHeader(t[n + 1])
  PROVE  /\ Holds(t, n + 1, p, Append(b, t[n + 1]))
         /\ p + Len(Append(b, t[n + 1])) = n + 1
<1> DEFINE c == Append(b, t[n + 1])
<1>1. Len(b) \in Nat /\ b \in Seq(Lines)
  BY LenProperties DEF Holds
<1>2. /\ c \in Seq(Lines) /\ Len(c) = Len(b) + 1
      /\ \A j \in 1 .. Len(b) : c[j] = b[j]
      /\ c[Len(b) + 1] = t[n + 1]
  BY <1>1, AppendProperties
<1> HIDE DEF c
<1>3. ASSUME NEW j \in 1 .. Len(c) PROVE c[j] = t[p + j] /\ ~IsHeader(t[p + j])
  <2>1. CASE j \in 1 .. Len(b)
    BY <1>2, <2>1 DEF Holds
  <2>2. CASE j = Len(b) + 1
    <3>1. p + j = n + 1
      BY <1>1, <2>2
    <3> QED BY <1>2, <2>2, <3>1
  <2> QED BY <1>1, <1>2, <2>1, <2>2
<1>4. p + Len(c) = n + 1
  BY <1>1, <1>2
<1> QED BY <1>2, <1>3, <1>4 DEF Holds, c

(* A header closes the block that is open; a peer line opens another.      *)
LEMMA BlocksAtHeader ==
  ASSUME NEW t \in Seq(Lines), NEW n \in Nat, NEW C \in Seq(Seq(Lines)),
         AreBlocks(t, n, C), IsHeader(t[n + 1])
  PROVE  /\ \A p \in Opened(t, n) : p + Len(C[Count(t, p)]) < n + 1
         /\ t[n + 1].tag = "peer" => AreBlocks(t, n + 1, Append(C, <<>>))
         /\ t[n + 1].tag # "peer" => AreBlocks(t, n + 1, C)
<1>1. \A p \in Opened(t, n) :
        /\ Holds(t, n + 1, p, C[Count(t, p)])
        /\ p + Len(C[Count(t, p)]) < n + 1
  <2> TAKE p \in Opened(t, n)
  <2>1. p \in Nat /\ Holds(t, n, p, C[Count(t, p)])
    BY DEF AreBlocks, Opened
  <2> QED BY <2>1, HoldsGrows
<1>2. CASE t[n + 1].tag # "peer"
  <2>1. Opened(t, n + 1) = Opened(t, n) /\ Count(t, n + 1) = Count(t, n)
    BY <1>2, CountStep
  <2> QED BY <1>1, <1>2, <2>1 DEF AreBlocks
<1>3. CASE t[n + 1].tag = "peer"
  <2> DEFINE D == Append(C, <<>>)
  <2>1. Opened(t, n + 1) = Opened(t, n) \cup {n + 1} /\ Count(t, n + 1) = Count(t, n) + 1
    BY <1>3, CountStep
  <2>2. Len(C) \in Nat /\ Len(C) = Count(t, n)
    BY LenProperties DEF AreBlocks
  <2>3. /\ Len(D) = Len(C) + 1 /\ D[Len(C) + 1] = <<>>
        /\ \A r \in 1 .. Len(C) : D[r] = C[r]
    BY <2>2, AppendProperties
  <2> HIDE DEF D
  <2>4. ASSUME NEW p \in Opened(t, n + 1) PROVE Holds(t, n + 1, p, D[Count(t, p)])
    <3>1. CASE p \in Opened(t, n)
      <4>1. Count(t, p) \in 1 .. Len(C)
        BY <3>1, <2>2, CountOfPeer
      <4> QED BY <4>1, <3>1, <2>3, <1>1
    <3>2. CASE p = n + 1
      <4>1. D[Count(t, p)] = <<>>
        BY <3>2, <2>1, <2>2, <2>3
      <4>2. <<>> \in Seq(Lines) /\ Len(<<>>) = 0
        OBVIOUS
      <4>3. Holds(t, n + 1, n + 1, <<>>)
        BY <4>2 DEF Holds
      <4> QED BY <4>1, <4>3, <3>2
    <3> QED BY <2>1, <3>1, <3>2
  <2>5. ASSUME NEW r \in 1 .. Len(D) PROVE \E p \in Opened(t, n + 1) : Count(t, p) = r
    <3>1. CASE r \in 1 .. Len(C)
      BY <3>1, <2>1 DEF AreBlocks
    <3>2. CASE r = Len(C) + 1
      BY <3>2, <2>1, <2>2
    <3> QED BY <2>2, <2>3, <3>1, <3>2
  <2> QED BY <1>1, <1>3, <2>1, <2>2, <2>3, <2>4, <2>5 DEF AreBlocks, D
<1> QED BY <1>1, <1>2, <1>3

(* Any other line goes to the open block, the last one, if there is one.   *)
LEMMA BlocksAtBody ==
  ASSUME NEW t \in Seq(Lines), NEW n \in Nat, NEW C \in Seq(Seq(Lines)), NEW D \in Seq(Seq(Lines)),
         AreBlocks(t, n, C), ~IsHeader(t[n + 1]), Len(D) = Len(C),
         \A p \in Opened(t, n) : Holds(t, n + 1, p, D[Count(t, p)])
  PROVE  AreBlocks(t, n + 1, D) /\ Opened(t, n + 1) = Opened(t, n)
<1>1. Opened(t, n + 1) = Opened(t, n) /\ Count(t, n + 1) = Count(t, n)
  BY CountStep DEF IsHeader
<1> QED BY <1>1 DEF AreBlocks

(***************************************************************************)
(* The invariant of the first loop: the blocks cut are those of the lines  *)
(* read; the open block reaches to the last of them, a closed one does not. *)
(***************************************************************************)
CutInv ==
  /\ AreBlocks(txt, line - 1, CutSoFar)
  /\ phase = "cut" => \A p \in Opened(txt, line - 1) :
       /\ Count(txt, p) <= Len(vBlocks) => p + Len(vBlocks[Count(txt, p)]) < line - 1
       /\ Count(txt, p) > Len(vBlocks) => p + Len(curBlock) = line - 1
  /\ phase # "cut" => isOpen = FALSE /\ line = Len(txt) + 1

LEMMA CutSoFarType ==
  ASSUME TypeOK
  PROVE  /\ CutSoFar \in Seq(Seq(Lines)) /\ Len(vBlocks) \in Nat
         /\ \A r \in 1 .. Len(vBlocks) : CutSoFar[r] = vBlocks[r]
         /\ isOpen = TRUE => /\ Len(CutSoFar) = Len(vBlocks) + 1
                             /\ CutSoFar[Len(vBlocks) + 1] = curBlock
         /\ isOpen # TRUE => CutSoFar = vBlocks
<1>1. vBlocks \in Seq(Seq(Lines)) /\ curBlock \in Seq(Lines) /\ isOpen \in BOOLEAN
  BY DEF TypeOK
<1>2. /\ Append(vBlocks, curBlock) \in Seq(Seq(Lines)) /\ Len(vBlocks) \in Nat
      /\ Len(Append(vBlocks, curBlock)) = Len(vBlocks) + 1
      /\ \A r \in 1 .. Len(vBlocks) : Append(vBlocks, curBlock)[r] = vBlocks[r]
      /\ Append(vBlocks, curBlock)[Len(vBlocks) + 1] = curBlock
  BY <1>1, AppendProperties, LenProperties
<1>3. /\ isOpen = TRUE => CutSoFar = Append(vBlocks, curBlock)
      /\ isOpen # TRUE => CutSoFar = vBlocks
  BY <1>1, Zenon DEF CutSoFar
<1> QED BY <1>1, <1>2, <1>3

LEMMA InitCut == Init => CutInv
<1> SUFFICES ASSUME Init PROVE CutInv
  OBVIOUS
<1>1. line - 1 = 0 /\ phase = "cut"
  BY DEF Init
<1>2. CutSoFar = <<>>
  BY Zenon DEF Init, CutSoFar
<1>3. AreBlocks(txt, 0, <<>>)
  BY CountNone DEF AreBlocks
<1>4. Opened(txt, 0) = {}
  BY CountNone
<1> QED BY <1>1, <1>2, <1>3, <1>4 DEF CutInv

LEMMA NextCut == TypeOK /\ TypeOK' /\ CutInv /\ [Next]_vars => CutInv'
<1> SUFFICES ASSUME TypeOK, TypeOK', CutInv, [Next]_vars PROVE CutInv'
  OBVIOUS
<1>1. /\ txt \in Seq(Lines) /\ Len(txt) \in Nat /\ line - 1 \in Nat
      /\ line \in Nat /\ (line - 1) + 1 = line
  BY LenProperties DEF TypeOK
<1>2. AreBlocks(txt, line - 1, CutSoFar) /\ CutSoFar \in Seq(Seq(Lines))
  BY CutSoFarType DEF CutInv
<1>3. CASE HeaderLine
  <2>1. /\ txt' = txt /\ phase' = "cut" /\ line' - 1 = (line - 1) + 1
        /\ vBlocks' = CutSoFar /\ isOpen' = (txt[line].tag = "peer") /\ curBlock' = <<>>
    BY <1>1, <1>3 DEF HeaderLine, CloseBlock, CutSoFar, OpensBlock
  <2>2. CutSoFar' = IF txt[line].tag = "peer" THEN Append(CutSoFar, <<>>) ELSE CutSoFar
    BY <2>1 DEF CutSoFar
  <2>3. /\ \A p \in Opened(txt, line - 1) : p + Len(CutSoFar[Count(txt, p)]) < line
        /\ AreBlocks(txt, line, CutSoFar')
    BY <1>1, <1>2, <1>3, <2>2, BlocksAtHeader DEF HeaderLine
  <2>4. ASSUME NEW p \in Opened(txt, line)
        PROVE  /\ Count(txt, p) <= Len(CutSoFar) => p + Len(CutSoFar[Count(txt, p)]) < line
               /\ Count(txt, p) > Len(CutSoFar) => p + Len(<<>>) = line
    <3>1. /\ Opened(txt, line) \subseteq Opened(txt, line - 1) \cup {line}
          /\ line \in Opened(txt, line) => Count(txt, line) = Len(CutSoFar) + 1
      BY <1>1, <1>2, CountStep DEF AreBlocks, Opened
    <3>2. Len(CutSoFar) \in Nat /\ \A q \in Opened(txt, line - 1) : Count(txt, q) \in 1 .. Len(CutSoFar)
      BY <1>1, <1>2, CountOfPeer, LenProperties DEF AreBlocks
    <3>3. CASE p \in Opened(txt, line - 1)
      BY <2>3, <3>2, <3>3
    <3>4. CASE p = line
      <4>1. Count(txt, p) = Len(CutSoFar) + 1
        BY <3>1, <3>4
      <4>2. p + Len(<<>>) = line
        BY <1>1, <3>4
      <4> QED BY <3>2, <4>1, <4>2
    <3> QED BY <3>1, <3>3, <3>4
  <2> QED BY <1>1, <2>1, <2>3, <2>4 DEF CutInv
<1>4. CASE BodyLine
  <2>1. /\ txt' = txt /\ phase' = "cut" /\ phase = "cut" /\ line' - 1 = (line - 1) + 1
        /\ vBlocks' = vBlocks /\ isOpen' = isOpen
        /\ curBlock' = IF isOpen THEN Append(curBlock, txt[line]) ELSE curBlock
        /\ ~IsHeader(txt[line]) /\ txt[line] \in Lines
    BY <1>1, <1>4, LineRead DEF BodyLine
  <2>2. /\ Len(vBlocks) \in Nat
        /\ \A r \in 1 .. Len(vBlocks) : CutSoFar[r] = vBlocks[r] /\ CutSoFar'[r] = vBlocks[r]
        /\ isOpen = TRUE => /\ Len(CutSoFar) = Len(vBlocks) + 1 /\ Len(CutSoFar') = Len(vBlocks) + 1
                            /\ CutSoFar[Len(vBlocks) + 1] = curBlock
                            /\ CutSoFar'[Len(vBlocks) + 1] = Append(curBlock, txt[line])
        /\ isOpen # TRUE => CutSoFar = vBlocks /\ CutSoFar' = vBlocks
        /\ CutSoFar' \in Seq(Seq(Lines))
    <3>1. Append(curBlock, txt[line]) \in Seq(Lines) /\ vBlocks \in Seq(Seq(Lines))
      BY <2>1, AppendProperties DEF TypeOK
    <3> DEFINE D == Append(vBlocks, Append(curBlock, txt[line]))
    <3>2. /\ D \in Seq(Seq(Lines)) /\ Len(D) = Len(vBlocks) + 1
          /\ \A r \in 1 .. Len(vBlocks) : D[r] = vBlocks[r]
          /\ D[Len(vBlocks) + 1] = Append(curBlock, txt[line])
      BY <3>1, AppendProperties
    <3>3. CutSoFar' = IF isOpen THEN Append(vBlocks, curBlock') ELSE vBlocks
      BY <2>1 DEF CutSoFar
    <3>4. /\ isOpen = TRUE => CutSoFar' = D
          /\ isOpen # TRUE => CutSoFar' = vBlocks
      <4>1. CASE isOpen = TRUE
        BY <2>1, <3>3, <4>1, Zenon
      <4>2. CASE isOpen = FALSE
        BY <2>1, <3>3, <4>2, Zenon
      <4> QED BY <4>1, <4>2 DEF TypeOK
    <3> HIDE DEF D
    <3>5. CASE isOpen = TRUE
      BY <3>1, <3>2, <3>4, <3>5, CutSoFarType DEF D
    <3>6. CASE isOpen # TRUE
      BY <3>1, <3>4, <3>6, CutSoFarType
    <3> QED BY <3>5, <3>6
  <2>3. ASSUME NEW p \in Opened(txt, line - 1)
        PROVE  /\ Holds(txt, line, p, CutSoFar'[Count(txt, p)])
               /\ Count(txt, p) <= Len(vBlocks) => p + Len(vBlocks[Count(txt, p)]) < line
               /\ Count(txt, p) > Len(vBlocks) => p + Len(curBlock') = line
    <3>1. /\ p \in Nat /\ Count(txt, p) \in 1 .. Len(CutSoFar)
          /\ Holds(txt, line - 1, p, CutSoFar[Count(txt, p)])
      BY <1>1, <1>2, CountOfPeer DEF AreBlocks, Opened
    <3>2. /\ Count(txt, p) <= Len(vBlocks) => p + Len(vBlocks[Count(txt, p)]) < line - 1
          /\ Count(txt, p) > Len(vBlocks) => p + Len(curBlock) = line - 1
      BY <2>1 DEF CutInv
    <3>3. CASE Count(txt, p) <= Len(vBlocks)
      <4>1. CutSoFar[Count(txt, p)] = vBlocks[Count(txt, p)]
            /\ CutSoFar'[Count(txt, p)] = vBlocks[Count(txt, p)]
        BY <3>1, <3>3, <2>2
      <4> QED BY <1>1, <3>1, <3>2, <3>3, <4>1, HoldsGrows, <2>2
    <3>4. CASE Count(txt, p) > Len(vBlocks)
      <4>1. isOpen = TRUE
        <5>1. CutSoFar # vBlocks
          BY <3>1, <3>4, <2>2
        <5>2. isOpen # TRUE => CutSoFar = vBlocks
          BY CutSoFarType
        <5> QED BY <5>1, <5>2, Zenon
      <4>2. isOpen = TRUE /\ Count(txt, p) = Len(vBlocks) + 1
        BY <3>1, <3>4, <4>1, <2>2
      <4>3. CutSoFar[Count(txt, p)] = curBlock /\ CutSoFar'[Count(txt, p)] = Append(curBlock, txt[line])
        BY <4>2, <2>2
      <4>4. /\ Holds(txt, line, p, Append(curBlock, txt[line]))
            /\ p + Len(Append(curBlock, txt[line])) = line
        <5>1. PICK n \in Nat : n = line - 1 /\ n + 1 = line
          BY <1>1
        <5>2. Holds(txt, n, p, curBlock) /\ p + Len(curBlock) = n
          BY <3>1, <3>2, <3>4, <4>3, <5>1
        <5>3. /\ Holds(txt, n + 1, p, Append(curBlock, txt[n + 1]))
              /\ p + Len(Append(curBlock, txt[n + 1])) = n + 1
          BY <2>1, <3>1, <5>1, <5>2, HoldsExtends
        <5> QED BY <5>1, <5>3
      <4>5. curBlock' = Append(curBlock, txt[line])
        BY <2>1, <4>2
      <4> QED BY <3>1, <3>4, <4>3, <4>4, <4>5, <2>2
    <3> QED BY <3>1, <3>3, <3>4, <2>2
  <2>4. AreBlocks(txt, line, CutSoFar') /\ Opened(txt, line) = Opened(txt, line - 1)
    <3>1. Len(CutSoFar') = Len(CutSoFar)
      BY <2>2
    <3> QED BY <1>1, <1>2, <2>1, <2>2, <2>3, <3>1, BlocksAtBody
  <2> QED BY <1>1, <2>1, <2>3, <2>4 DEF CutInv
<1>5. CASE Leftover
  <2>1. /\ txt' = txt /\ phase' = "parse" /\ line' = line /\ line = Len(txt) + 1
        /\ vBlocks' = CutSoFar /\ isOpen' = FALSE
    BY <1>5 DEF Leftover, CloseBlock, CutSoFar, TypeOK
  <2>2. CutSoFar' = CutSoFar
    BY <2>1 DEF CutSoFar
  <2> QED BY <1>2, <2>1, <2>2 DEF CutInv
<1>6. CASE EntryLine \/ EntryEnd \/ Return
  <2>1. UNCHANGED <<txt, line, isOpen, curBlock, vBlocks>> /\ phase = "parse" /\ phase' # "cut"
    BY <1>6 DEF EntryLine, EntryEnd, Return, Parsing, Fail, cutting
  <2>2. CutSoFar' = CutSoFar
    BY <2>1 DEF CutSoFar
  <2> QED BY <1>2, <2>1, <2>2 DEF CutInv
<1>7. CASE UNCHANGED vars
  <2>1. UNCHANGED <<txt, line, isOpen, curBlock, vBlocks, phase>>
    BY <1>7 DEF vars
  <2> QED BY <2>1 DEF CutInv, CutSoFar
<1> QED BY <1>3, <1>4, <1>5, <1>6, <1>7 DEF Next

LEMMA BlocksOpened ==
  ASSUME NEW t \in Seq(Lines)
  PROVE  Blocks(t) = Opened(t, Len(t)) /\ Len(t) \in Nat
BY LenProperties DEF Blocks, Opened

(* BlocksCutCorrect: at every moment the blocks cut are, in order, those   *)
(* of the lines read so far: no line is lost, in the wrong block or in two *)
(* (wireguard_config.rs:115-145).                                          *)
THEOREM BlocksCutCorrect == Spec => []BlocksAreCut
<1>1. TypeOK /\ CutInv => BlocksAreCut
  <2> SUFFICES ASSUME TypeOK, CutInv PROVE BlocksAreCut
    OBVIOUS
  <2>1. /\ txt \in Seq(Lines) /\ Len(txt) \in Nat /\ line - 1 \in 0 .. Len(txt)
        /\ ReadSoFar \in Seq(Lines) /\ Len(ReadSoFar) = line - 1
        /\ \A i \in 1 .. line - 1 : ReadSoFar[i] = txt[i]
    <3>1. txt \in Seq(Lines) /\ Len(txt) \in Nat /\ line - 1 \in 0 .. Len(txt) /\ line \in Nat
      BY LenProperties DEF TypeOK
    <3>2. \A i \in 1 .. line - 1 : txt[i] \in Lines
      BY <3>1, ElementOfSeq
    <3> QED BY <3>1, <3>2, SubSeqProperties DEF ReadSoFar
  <2>2. Blocks(ReadSoFar) = Opened(txt, line - 1)
    <3>1. Opened(ReadSoFar, line - 1) = Opened(txt, line - 1)
      BY <2>1 DEF Opened
    <3> QED BY <2>1, <3>1, BlocksOpened
  <2>3. Len(CutSoFar) = Cardinality(Blocks(ReadSoFar))
    BY <2>2 DEF CutInv, AreBlocks, Count
  <2>4. ASSUME NEW p \in Opened(txt, line - 1) PROVE CutSoFar[Rank(p)] = BlockLines(p)
    <3>1. p \in 1 .. line - 1
      BY DEF Opened
    <3>2. Rank(p) = Count(txt, p)
      <4>1. {q \in Opened(txt, Len(txt)) : q <= p} = Opened(txt, p)
        BY <2>1, <3>1 DEF Opened
      <4> QED BY <2>1, <4>1, BlocksOpened DEF Rank, Count
    <3>3. Holds(txt, line - 1, p, CutSoFar[Count(txt, p)])
      BY DEF CutInv, AreBlocks
    <3> QED BY <2>1, <3>1, <3>2, <3>3, HoldsLines DEF BlockLines, ReadSoFar
  <2> QED BY <2>2, <2>3, <2>4 DEF BlocksAreCut
<1>2. Init => TypeOK /\ CutInv
  BY InitType, InitCut
<1>3. TypeOK /\ CutInv /\ [Next]_vars => TypeOK' /\ CutInv'
  BY NextType, NextCut
<1> QED BY <1>1, <1>2, <1>3, PTL DEF Spec

(***************************************************************************)
(* The second loop.                                                        *)
(***************************************************************************)

(* The table the peer lines S give: the last block of a key describes it.  *)
TableOf(t, S) ==
  [k \in Keys |->
     LET K == {p \in S : LastValue(t, Block(t, p), "publickey") = k}
     IN  IF K = {} THEN NoDescription ELSE Description(t, Block(t, Max(K)))]

EntryOf(t, B) == [public_key |-> LastValue(t, B, "publickey"),
                  allowed_ips |-> LastValue(t, B, "allowedips"),
                  description |-> Description(t, B)]

(* Peer lines of a rank below b.                                           *)
Before(t, b) == {p \in Opened(t, Len(t)) : Count(t, p) < b}

(* ParseInv: no block before the current one fails, the table is theirs,   *)
(* and the entry is that of the lines of the current block read so far.    *)
ParseInv ==
  /\ phase = "cut" => /\ block = 1 /\ item = 1 /\ entry = NoEntry
                      /\ hm = [k \in Keys |-> NoDescription]
  /\ phase = "parse" =>
       /\ block <= Len(vBlocks) + 1
       /\ \A p \in Before(txt, block) : EntryOutcome(txt, p) = "ok"
       /\ hm = TableOf(txt, Before(txt, block))
       /\ block <= Len(vBlocks) => item <= Len(vBlocks[block]) + 1
       /\ \A p \in Opened(txt, Len(txt)) :
            Count(txt, p) = block =>
              /\ Stops(txt, p + 1 .. p + item - 1) = {}
              /\ entry = EntryOf(txt, p + 1 .. p + item - 1)
  /\ ParsesAsSpecified

(* In the second loop the blocks are those of the text, and the current    *)
(* one is behind exactly one peer line.                                    *)
LEMMA CurrentBlock ==
  ASSUME TypeOK, CutInv, phase # "cut"
  PROVE  /\ Len(vBlocks) = Count(txt, Len(txt))
         /\ block <= Len(vBlocks) => \E p \in Opened(txt, Len(txt)) :
              /\ p \in 1 .. Len(txt)
              /\ Count(txt, p) = block
              /\ \A q \in Opened(txt, Len(txt)) : Count(txt, q) = block => q = p
              /\ p + Len(vBlocks[block]) <= Len(txt) /\ Len(vBlocks[block]) \in Nat
              /\ Block(txt, p) = p + 1 .. p + Len(vBlocks[block])
              /\ \A j \in 1 .. Len(vBlocks[block]) : vBlocks[block][j] = txt[p + j]
<1>1. txt \in Seq(Lines) /\ Len(txt) \in Nat
  BY LenProperties DEF TypeOK
<1>2. CutSoFar = vBlocks /\ line - 1 = Len(txt)
  <2>1. isOpen # TRUE
    BY Zenon DEF CutInv
  <2>2. line - 1 = Len(txt)
    BY <1>1 DEF CutInv
  <2> QED BY <2>1, <2>2, CutSoFarType
<1>3. AreBlocks(txt, Len(txt), vBlocks)
  BY <1>2 DEF CutInv
<1>4. ASSUME block <= Len(vBlocks)
      PROVE  \E p \in Opened(txt, Len(txt)) :
              /\ p \in 1 .. Len(txt)
              /\ Count(txt, p) = block
              /\ \A q \in Opened(txt, Len(txt)) : Count(txt, q) = block => q = p
              /\ p + Len(vBlocks[block]) <= Len(txt) /\ Len(vBlocks[block]) \in Nat
              /\ Block(txt, p) = p + 1 .. p + Len(vBlocks[block])
              /\ \A j \in 1 .. Len(vBlocks[block]) : vBlocks[block][j] = txt[p + j]
  <2>1. block \in 1 .. Len(vBlocks)
    BY <1>4, LineRead
  <2>2. PICK p \in Opened(txt, Len(txt)) : Count(txt, p) = block
    BY <1>3, <2>1 DEF AreBlocks
  <2>3. Holds(txt, Len(txt), p, vBlocks[block]) /\ p \in 1 .. Len(txt)
    BY <1>3, <2>2 DEF AreBlocks, Opened
  <2>4. Block(txt, p) = p + 1 .. p + Len(vBlocks[block])
    BY <1>1, <2>3, HoldsBlock
  <2>5. \A q \in Opened(txt, Len(txt)) : Count(txt, q) = block => q = p
    BY <1>1, <2>2, CountInjective
  <2>6. /\ p + Len(vBlocks[block]) <= Len(txt) /\ Len(vBlocks[block]) \in Nat
        /\ \A j \in 1 .. Len(vBlocks[block]) : vBlocks[block][j] = txt[p + j]
    BY <2>3, LenProperties DEF Holds
  <2> QED BY <2>2, <2>3, <2>4, <2>5, <2>6
<1> QED BY <1>3, <1>4 DEF AreBlocks

(* The first block that fails decides how the text fails.                  *)
LEMMA FirstBadBlock ==
  ASSUME NEW t \in Seq(Lines), NEW p \in Opened(t, Len(t)), EntryOutcome(t, p) # "ok",
         \A q \in Before(t, Count(t, p)) : EntryOutcome(t, q) = "ok"
  PROVE  ParseOutcome(t) = EntryOutcome(t, p)
<1> DEFINE bad == {q \in Blocks(t) : EntryOutcome(t, q) # "ok"}
<1>1. Blocks(t) = Opened(t, Len(t)) /\ Len(t) \in Nat
  BY BlocksOpened
<1>2. p \in bad /\ bad \subseteq Opened(t, Len(t)) /\ \A q \in bad : EntryOutcome(t, q) # "ok"
  BY <1>1
<1>3. bad \in SUBSET Nat /\ p \in Nat
  BY <1>1 DEF Opened
<1> HIDE DEF bad
<1>4. Min(bad) \in bad /\ Min(bad) <= p
  BY <1>2, <1>3, MinOfNaturals
<1>5. ~(Min(bad) < p)
  <2> SUFFICES ASSUME Min(bad) < p PROVE FALSE
    OBVIOUS
  <2>1. Count(t, Min(bad)) < Count(t, p)
    BY <1>1, <1>3, <1>4, CountOfPeer
  <2>2. Min(bad) \in Before(t, Count(t, p))
    BY <1>2, <1>4, <2>1 DEF Before
  <2> QED BY <2>2, <1>2, <1>4
<1>6. Min(bad) = p
  <2>1. Min(bad) \in Nat
    BY <1>3, <1>4
  <2> QED BY <1>3, <1>4, <1>5, <2>1
<1> QED BY <1>2, <1>6 DEF ParseOutcome, bad

(* With one more block, the table is that of the blocks before, with the   *)
(* description of the block for its key.                                   *)
LEMMA TableStep ==
  ASSUME NEW t \in Seq(Lines), NEW p \in Opened(t, Len(t)), NEW k \in Keys,
         LastValue(t, Block(t, p), "publickey") = k
  PROVE  /\ Before(t, Count(t, p) + 1) = Before(t, Count(t, p)) \cup {p}
         /\ TableOf(t, Before(t, Count(t, p) + 1))
              = [TableOf(t, Before(t, Count(t, p))) EXCEPT ![k] = Description(t, Block(t, p))]
<1>1. Len(t) \in Nat /\ p \in 1 .. Len(t)
  BY LenProperties DEF Opened
<1>2. \A q \in Opened(t, Len(t)) : q \in 1 .. Len(t) /\ Count(t, q) \in Nat
  <2> TAKE q \in Opened(t, Len(t))
  <2>1. q \in 1 .. Len(t) /\ q \in Nat
    BY <1>1 DEF Opened
  <2> QED BY <2>1, CountType
<1> DEFINE A == Before(t, Count(t, p))
           B == Before(t, Count(t, p) + 1)
<1>3. B = A \cup {p}
  <2>1. \A q \in Opened(t, Len(t)) : Count(t, q) = Count(t, p) => q = p
    BY <1>1, CountInjective
  <2>2. \A q \in Opened(t, Len(t)) :
          Count(t, q) < Count(t, p) + 1 <=> Count(t, q) < Count(t, p) \/ Count(t, q) = Count(t, p)
    BY <1>2
  <2> QED BY <2>1, <2>2 DEF Before
<1>4. \A q \in A : q \in 1 .. Len(t) /\ q < p
  <2> TAKE q \in A
  <2>1. q \in Opened(t, Len(t)) /\ Count(t, q) < Count(t, p)
    BY DEF Before
  <2>2. q \in 1 .. Len(t) /\ Count(t, q) \in Nat /\ Count(t, p) \in Nat
    BY <1>2, <2>1
  <2>3. ~(p <= q)
    <3> SUFFICES ASSUME p <= q PROVE FALSE
      OBVIOUS
    <3>1. Count(t, p) <= Count(t, q)
      BY <1>1, <2>2, CountGrows
    <3> QED BY <3>1, <2>1, <2>2
  <2> QED BY <1>1, <2>2, <2>3
<1> HIDE DEF A, B
<1> DEFINE K(S, key) == {q \in S : LastValue(t, Block(t, q), "publickey") = key}
           D(S, key) == IF K(S, key) = {} THEN NoDescription ELSE Description(t, Block(t, Max(K(S, key))))
<1>5. \A S : TableOf(t, S) = [key \in Keys |-> D(S, key)]
  BY DEF TableOf
<1>6. D(B, k) = Description(t, Block(t, p))
  <2>1. p \in K(B, k) /\ K(B, k) \in SUBSET (1 .. Len(t)) /\ \A q \in K(B, k) : q \in Int /\ q <= p
    BY <1>1, <1>3, <1>4
  <2> HIDE DEF K
  <2>2. Max(K(B, k)) \in K(B, k) /\ \A y \in K(B, k) : y <= Max(K(B, k))
    BY <1>1, <2>1, MaxOfPositions
  <2>3. Max(K(B, k)) = p
    <3>1. Max(K(B, k)) <= p /\ p <= Max(K(B, k)) /\ Max(K(B, k)) \in Int /\ p \in Int
      BY <2>1, <2>2
    <3> QED BY <3>1
  <2> QED BY <2>1, <2>3
<1>7. \A key \in Keys : key # k => D(B, key) = D(A, key)
  <2> TAKE key \in Keys
  <2>1. key # k => K(B, key) = K(A, key)
    BY <1>3
  <2> HIDE DEF K
  <2> QED BY <2>1
<1> HIDE DEF D
<1> QED BY <1>3, <1>5, <1>6, <1>7 DEF A, B

LEMMA InitParse == Init => ParseInv
BY DEF Init, ParseInv, ParsesAsSpecified

LEMMA NextParse == TypeOK /\ CutInv /\ ParseInv /\ [Next]_vars => ParseInv'
<1> SUFFICES ASSUME TypeOK, CutInv, ParseInv, [Next]_vars PROVE ParseInv'
  OBVIOUS
<1>1. txt \in Seq(Lines) /\ Len(txt) \in Nat
  BY LenProperties DEF TypeOK
<1>2. CASE HeaderLine \/ BodyLine
  <2>1. UNCHANGED <<phase, block, item, entry, hm>> /\ phase = "cut"
    BY <1>2 DEF HeaderLine, BodyLine, parsing
  <2> QED BY <2>1 DEF ParseInv, ParsesAsSpecified
<1>3. CASE Leftover
  <2>1. /\ phase' = "parse" /\ txt' = txt /\ block' = 1 /\ item' = 1 /\ entry' = NoEntry
        /\ hm' = [k \in Keys |-> NoDescription]
    BY <1>3 DEF Leftover, parsing, ParseInv
  <2>2. Len(vBlocks') \in Nat /\ \A b \in 1 .. Len(vBlocks') : Len(vBlocks'[b]) \in Nat
    <3>1. vBlocks' \in Seq(Seq(Lines))
      BY <1>3, CutSoFarType DEF Leftover, CloseBlock, CutSoFar
    <3> QED BY <3>1, ElementOfSeq, LenProperties
  <2>3. Before(txt, 1) = {}
    <3>1. \A p \in Opened(txt, Len(txt)) : Count(txt, p) \in 1 .. Count(txt, Len(txt))
      BY <1>1, CountOfPeer
    <3> QED BY <3>1, <1>1, CountType DEF Before
  <2>4. TableOf(txt, {}) = [k \in Keys |-> NoDescription]
    BY DEF TableOf
  <2>5. ASSUME NEW p \in Opened(txt, Len(txt))
        PROVE  Stops(txt, p + 1 .. p + 1 - 1) = {} /\ NoEntry = EntryOf(txt, p + 1 .. p + 1 - 1)
    <3>1. p \in Nat /\ p + 1 - 1 = p
      BY <1>1 DEF Opened
    <3> QED BY <3>1, NothingRead DEF EntryOf, NoEntry
  <2>6. /\ 1 <= Len(vBlocks') + 1
        /\ 1 <= Len(vBlocks') => 1 <= Len(vBlocks'[1]) + 1
    BY <2>2
  <2>7. /\ \A p \in Before(txt, 1) : EntryOutcome(txt, p) = "ok"
        /\ hm' = TableOf(txt, Before(txt, 1))
    BY <2>1, <2>3, <2>4
  <2> QED BY <2>1, <2>5, <2>6, <2>7 DEF ParseInv, ParsesAsSpecified
<1>4. CASE EntryLine
  <2> DEFINE l == vBlocks[block][item]
  <2>1. /\ phase = "parse" /\ block <= Len(vBlocks) /\ item <= Len(vBlocks[block])
        /\ UNCHANGED <<txt, vBlocks>> /\ item \in 1 .. Len(vBlocks[block])
    BY <1>4, LineRead DEF EntryLine, Parsing, cutting
  <2>2. PICK p \in Opened(txt, Len(txt)) :
          /\ p \in 1 .. Len(txt)
          /\ Count(txt, p) = block
          /\ \A q \in Opened(txt, Len(txt)) : Count(txt, q) = block => q = p
          /\ p + Len(vBlocks[block]) <= Len(txt) /\ Len(vBlocks[block]) \in Nat
          /\ Block(txt, p) = p + 1 .. p + Len(vBlocks[block])
          /\ \A j \in 1 .. Len(vBlocks[block]) : vBlocks[block][j] = txt[p + j]
    BY <2>1, CurrentBlock
  <2> DEFINE q == p + item
             B == p + 1 .. q - 1
  <2>3. /\ q \in Block(txt, p) /\ q \in 1 .. Len(txt) /\ p < q /\ q \in Nat /\ p \in Nat
        /\ txt[q] = l /\ B \in SUBSET (1 .. Len(txt)) /\ \A y \in B : y < q
        /\ B \cup {q} = p + 1 .. p + (item + 1) - 1
    BY <1>1, <2>1, <2>2
  <2>4. Stops(txt, B) = {} /\ entry = EntryOf(txt, B)
    BY <2>1, <2>2 DEF ParseInv
  <2>5. CASE LineOutcome(l) # "ok"
    <3>1. phase' = "done" /\ result' = LineOutcome(l)
      BY <1>4, <2>5 DEF EntryLine, Fail
    <3>2. EntryOutcome(txt, p) = LineOutcome(l)
      <4> HIDE DEF l, q
      <4>1. Stops(txt, p + 1 .. q - 1) = {} /\ LineOutcome(txt[q]) # "ok"
        BY <2>3, <2>4, <2>5
      <4> QED BY <1>1, <2>2, <2>3, <4>1, FirstStop
    <3>3. ParseOutcome(txt) = LineOutcome(l)
      BY <1>1, <2>1, <2>2, <2>5, <3>2, FirstBadBlock DEF ParseInv
    <3> QED BY <2>1, <2>5, <3>1, <3>3 DEF ParseInv, ParsesAsSpecified
  <2>6. CASE LineOutcome(l) = "ok"
    <3>1. /\ item' = item + 1 /\ UNCHANGED <<phase, block, hm, result>>
          /\ entry' = [public_key |-> IF l.tag = "publickey" THEN l.arg ELSE entry.public_key,
                       allowed_ips |-> IF l.tag = "allowedips" THEN l.arg ELSE entry.allowed_ips,
                       description |-> IF l.tag \in {"name", "json"} THEN l
                                       ELSE entry.description]
      BY <1>4, <2>6, EntryKept
    <3>2. Stops(txt, B \cup {q}) = {}
      BY <2>3, <2>4, <2>6, StopsStep
    <3>3. entry' = EntryOf(txt, B \cup {q})
      <4> HIDE DEF l, q, B
      <4>1. \A tag : LastValue(txt, B \cup {q}, tag)
                       = IF l.tag = tag THEN l.arg ELSE LastValue(txt, B, tag)
        BY <1>1, <2>3, LastValueStep
      <4>2. Description(txt, B \cup {q})
              = IF l.tag \in {"name", "json"} THEN l ELSE Description(txt, B)
        BY <1>1, <2>3, DescriptionStep
      <4> QED BY <2>4, <3>1, <4>1, <4>2 DEF EntryOf
    <3>4. item' <= Len(vBlocks[block]) + 1
      BY <2>1, <2>2, <3>1
    <3>5. ASSUME NEW r \in Opened(txt, Len(txt)), Count(txt, r) = block
          PROVE  Stops(txt, r + 1 .. r + item' - 1) = {} /\ entry' = EntryOf(txt, r + 1 .. r + item' - 1)
      <4>1. r = p
        BY <2>2, <3>5
      <4>2. B \cup {q} = r + 1 .. r + item' - 1
        BY <2>3, <3>1, <4>1
      <4> HIDE DEF B, q
      <4> QED BY <3>2, <3>3, <4>2
    <3> HIDE DEF l, q, B
    <3> QED BY <2>1, <3>1, <3>4, <3>5 DEF ParseInv, ParsesAsSpecified
  <2> QED BY <2>5, <2>6
<1>5. CASE EntryEnd
  <2>1. /\ phase = "parse" /\ block <= Len(vBlocks) /\ item > Len(vBlocks[block])
        /\ UNCHANGED <<txt, vBlocks>> /\ item \in Nat /\ block \in Nat
    BY <1>5 DEF EntryEnd, Parsing, cutting, TypeOK
  <2>2. PICK p \in Opened(txt, Len(txt)) :
          /\ p \in 1 .. Len(txt)
          /\ Count(txt, p) = block
          /\ \A q \in Opened(txt, Len(txt)) : Count(txt, q) = block => q = p
          /\ p + Len(vBlocks[block]) <= Len(txt) /\ Len(vBlocks[block]) \in Nat
          /\ Block(txt, p) = p + 1 .. p + Len(vBlocks[block])
          /\ \A j \in 1 .. Len(vBlocks[block]) : vBlocks[block][j] = txt[p + j]
    BY <2>1, CurrentBlock
  <2>3. Stops(txt, Block(txt, p)) = {} /\ entry = EntryOf(txt, Block(txt, p))
    <3>1. item <= Len(vBlocks[block]) + 1
      BY <2>1 DEF ParseInv
    <3>2. p + item - 1 = p + Len(vBlocks[block])
      BY <1>1, <2>1, <2>2, <3>1
    <3>3. \A r \in Opened(txt, Len(txt)) :
            Count(txt, r) = block =>
              /\ Stops(txt, r + 1 .. r + item - 1) = {}
              /\ entry = EntryOf(txt, r + 1 .. r + item - 1)
      BY <2>1, Zenon DEF ParseInv
    <3>4. Stops(txt, p + 1 .. p + item - 1) = {} /\ entry = EntryOf(txt, p + 1 .. p + item - 1)
      BY <2>2, <3>3, Zenon
    <3>5. Block(txt, p) = p + 1 .. p + item - 1
      BY <2>2, <3>2
    <3> QED BY <3>4, <3>5
  <2>4. /\ entry.public_key = LastValue(txt, Block(txt, p), "publickey")
        /\ entry.allowed_ips = LastValue(txt, Block(txt, p), "allowedips")
        /\ entry.description = Description(txt, Block(txt, p))
    BY <2>3 DEF EntryOf
  <2>5. EntryOutcome(txt, p) = IF Empty \in {entry.public_key, entry.allowed_ips} THEN "error" ELSE "ok"
    BY <2>3, <2>4, Zenon DEF EntryOutcome
  <2>6. CASE Empty \in {entry.public_key, entry.allowed_ips}
    <3>1. phase' = "done" /\ result' = "error"
      BY <1>5, <2>6 DEF EntryEnd, Fail
    <3>2. EntryOutcome(txt, p) = "error"
      BY <2>5, <2>6
    <3>3. ParseOutcome(txt) = "error"
      BY <1>1, <2>1, <2>2, <3>2, FirstBadBlock DEF ParseInv
    <3> QED BY <2>1, <3>1, <3>3 DEF ParseInv, ParsesAsSpecified
  <2>7. CASE Empty \notin {entry.public_key, entry.allowed_ips}
    <3>1. /\ hm' = [hm EXCEPT ![entry.public_key] = entry.description]
          /\ entry' = NoEntry /\ block' = block + 1 /\ item' = 1 /\ phase' = "parse"
      BY <1>5, <2>1, <2>7 DEF EntryEnd, Insert, NextEntry
    <3>2. entry.public_key \in Keys
      BY <2>7 DEF TypeOK
    <3>3. /\ Before(txt, block + 1) = Before(txt, block) \cup {p}
          /\ TableOf(txt, Before(txt, block + 1))
               = [TableOf(txt, Before(txt, block)) EXCEPT ![entry.public_key] = entry.description]
      BY <1>1, <2>2, <2>4, <3>2, TableStep
    <3>4. hm' = TableOf(txt, Before(txt, block + 1))
      BY <2>1, <3>1, <3>3 DEF ParseInv
    <3>5. \A q \in Before(txt, block + 1) : EntryOutcome(txt, q) = "ok"
      BY <2>1, <2>5, <2>7, <3>3 DEF ParseInv
    <3>6. ASSUME NEW r \in Opened(txt, Len(txt))
          PROVE  Stops(txt, r + 1 .. r + 1 - 1) = {} /\ NoEntry = EntryOf(txt, r + 1 .. r + 1 - 1)
      <4>1. r \in Nat /\ r + 1 - 1 = r
        BY <1>1 DEF Opened
      <4> QED BY <4>1, NothingRead DEF EntryOf, NoEntry
    <3>7. /\ block + 1 <= Len(vBlocks) + 1
          /\ block + 1 <= Len(vBlocks) => 1 <= Len(vBlocks[block + 1]) + 1
      <4>1. vBlocks \in Seq(Seq(Lines)) /\ Len(vBlocks) \in Nat
        BY LenProperties DEF TypeOK
      <4>2. block + 1 <= Len(vBlocks) => vBlocks[block + 1] \in Seq(Lines)
        BY <2>1, <4>1, ElementOfSeq
      <4> QED BY <2>1, <4>1, <4>2, LenProperties
    <3> QED BY <2>1, <3>1, <3>4, <3>5, <3>6, <3>7 DEF ParseInv, ParsesAsSpecified
  <2> QED BY <2>6, <2>7
<1>6. CASE Return
  <2>1. /\ phase = "parse" /\ block > Len(vBlocks) /\ UNCHANGED <<txt, hm>>
        /\ phase' = "done" /\ result' = "ok"
    BY <1>6 DEF Return, cutting, parsing
  <2>2. Before(txt, block) = Blocks(txt)
    <3>1. Len(vBlocks) = Count(txt, Len(txt)) /\ Len(vBlocks) \in Nat /\ block \in Nat
      BY <2>1, CurrentBlock, LenProperties DEF TypeOK
    <3>2. \A p \in Opened(txt, Len(txt)) : Count(txt, p) < block
      BY <1>1, <2>1, <3>1, CountOfPeer
    <3> QED BY <1>1, <3>2, BlocksOpened DEF Before
  <2>3. ParseOutcome(txt) = "ok"
    <3>1. {p \in Blocks(txt) : EntryOutcome(txt, p) # "ok"} = {}
      BY <2>1, <2>2 DEF ParseInv
    <3> QED BY <3>1, Zenon DEF ParseOutcome
  <2>4. hm = PeerEntryHashMap(txt)
    BY <2>1, <2>2 DEF ParseInv, TableOf, PeerEntryHashMap
  <2> QED BY <2>1, <2>3, <2>4 DEF ParseInv, ParsesAsSpecified
<1>7. CASE UNCHANGED vars
  <2>1. UNCHANGED <<phase, txt, vBlocks, block, item, entry, hm, result>>
    BY <1>7 DEF vars
  <2> QED BY <2>1 DEF ParseInv, ParsesAsSpecified
<1> QED BY <1>2, <1>3, <1>4, <1>5, <1>6, <1>7 DEF Next

(* ParsesCorrect: for every text, the loops return what PeerConfig defines *)
(* of the text as a whole: the error or panic of its first bad block, else *)
(* the table in which the last block of a key describes it                 *)
(* (wireguard_config.rs:53-157).                                           *)
THEOREM ParsesCorrect == Spec => []ParsesAsSpecified
<1>1. Init => TypeOK /\ CutInv /\ ParseInv
  BY InitType, InitCut, InitParse
<1>2. TypeOK /\ CutInv /\ ParseInv /\ [Next]_vars => TypeOK' /\ CutInv' /\ ParseInv'
  BY NextType, NextCut, NextParse
<1>3. ParseInv => ParsesAsSpecified
  BY DEF ParseInv
<1> QED BY <1>1, <1>2, <1>3, PTL DEF Spec
===============================================================================
