--------------------------- MODULE PeerConfigProofs ---------------------------
(***************************************************************************)
(* What holds of the table of friendly descriptions for every text, set of *)
(* keys and set of names.                                                  *)
(***************************************************************************)
EXTENDS PeerConfig, TLAPS, SequenceTheorems, WellFoundedInduction

(* A nonempty set of naturals has a least element.                         *)
LEMMA MinOfNaturals ==
  ASSUME NEW S \in SUBSET Nat, S # {}
  PROVE  Min(S) \in S /\ \A y \in S : Min(S) <= y
<1> DEFINE R == OpToRel(<, Nat)
<1>1. \E x \in S : \A y \in S : ~(<<y, x>> \in R)
  <2> HIDE DEF R
  <2> QED BY WFMin, NatLessThanWellFounded DEF R
<1>2. \E x \in S : \A y \in S : x <= y
  <2>1. PICK x \in S : \A y \in S : ~(<<y, x>> \in R)
    BY <1>1
  <2>2. \A y \in S : ~(y < x)
    BY <2>1 DEF OpToRel
  <2> QED BY <2>2
<1> QED BY <1>2 DEF Min

(* A nonempty set of positions of a text has a last one.                   *)
LEMMA MaxOfPositions ==
  ASSUME NEW n \in Nat, NEW S \in SUBSET (1 .. n), S # {}
  PROVE  Max(S) \in S /\ \A y \in S : y <= Max(S)
<1> DEFINE T == {d \in 0 .. n : n - d \in S}
<1>1. T \in SUBSET Nat
  OBVIOUS
<1>2. T # {}
  <2>1. PICK x \in S : x \in 1 .. n
    OBVIOUS
  <2>2. n - x \in 0 .. n /\ n - (n - x) = x
    BY <2>1
  <2> QED BY <2>2
<1>3. Min(T) \in T /\ \A y \in T : Min(T) <= y
  <2> HIDE DEF T
  <2> QED BY <1>1, <1>2, MinOfNaturals
<1>4. n - Min(T) \in S
  BY <1>3
<1>5. \A y \in S : y <= n - Min(T)
  <2> TAKE y \in S
  <2>1. y \in 1 .. n /\ n - y \in 0 .. n /\ n - (n - y) = y
    OBVIOUS
  <2>2. n - y \in T
    BY <2>1
  <2>3. Min(T) <= n - y /\ Min(T) \in 0 .. n
    BY <2>2, <1>3
  <2> HIDE DEF T
  <2> QED BY <2>1, <2>3
<1>6. \A x, y \in S : x >= y <=> y <= x
  OBVIOUS
<1> HIDE DEF T
<1> QED BY <1>4, <1>5, <1>6 DEF Max

(***************************************************************************)
(* Joining sequences. FlattenSeq is defined by a recursive function; that  *)
(* the function exists is shown here, by a least length without one.       *)
(***************************************************************************)
IsJoin(s, n, g) == g = [i \in 1 .. n |-> IF i = 1 THEN s[i] ELSE g[i - 1] \o s[i]]

LEMMA JoinUnique ==
  ASSUME NEW s, NEW n \in Nat, NEW f, NEW g, IsJoin(s, n, f), IsJoin(s, n, g)
  PROVE  f = g
<1> DEFINE F(h) == [i \in 1 .. n |-> IF i = 1 THEN s[i] ELSE h[i - 1] \o s[i]]
           D == {i \in 1 .. n : f[i] # g[i]}
<1>1. f = F(f) /\ g = F(g)
  BY Zenon DEF IsJoin
<1>2. /\ DOMAIN f = 1 .. n /\ DOMAIN g = 1 .. n
      /\ \A i \in 1 .. n : /\ f[i] = IF i = 1 THEN s[i] ELSE f[i - 1] \o s[i]
                          /\ g[i] = IF i = 1 THEN s[i] ELSE g[i - 1] \o s[i]
  <2>1. \A h : DOMAIN F(h) = 1 .. n /\ \A i \in 1 .. n :
          F(h)[i] = IF i = 1 THEN s[i] ELSE h[i - 1] \o s[i]
    OBVIOUS
  <2> HIDE DEF F
  <2> QED BY <1>1, <2>1, Zenon
<1>3. CASE D # {}
  <2>1. D \in SUBSET Nat
    OBVIOUS
  <2>2. Min(D) \in D /\ \A y \in D : Min(D) <= y
    <3> HIDE DEF D
    <3> QED BY <1>3, <2>1, MinOfNaturals
  <2>3. PICK m \in 1 .. n : f[m] # g[m] /\ \A y \in D : m <= y
    BY <2>2
  <2>4. m # 1
    BY <1>2, <2>3
  <2>5. m - 1 \in 1 .. n /\ m - 1 \notin D
    BY <2>3, <2>4
  <2>6. f[m - 1] = g[m - 1]
    BY <2>5
  <2>7. f[m] = f[m - 1] \o s[m] /\ g[m] = g[m - 1] \o s[m]
    BY <1>2, <2>4
  <2> QED BY <2>3, <2>6, <2>7
<1>4. CASE D = {}
  <2>1. \A i \in 1 .. n : f[i] = g[i]
    BY <1>4
  <2>2. f = [i \in 1 .. n |-> f[i]] /\ g = [i \in 1 .. n |-> g[i]]
    <3>1. \A h : F(h) = [i \in 1 .. n |-> F(h)[i]]
      OBVIOUS
    <3> HIDE DEF F
    <3> QED BY <1>1, <3>1, Zenon
  <2> QED BY <2>1, <2>2
<1> QED BY <1>3, <1>4

LEMMA JoinExtends ==
  ASSUME NEW s, NEW n \in Nat, NEW g, IsJoin(s, n, g)
  PROVE  \E h : /\ IsJoin(s, n + 1, h)
               /\ h[n + 1] = IF n = 0 THEN s[n + 1] ELSE g[n] \o s[n + 1]
<1> DEFINE v == IF n = 0 THEN s[n + 1] ELSE g[n] \o s[n + 1]
           h == [i \in 1 .. n + 1 |-> IF i = n + 1 THEN v ELSE g[i]]
<1>1. \A i \in 1 .. n : g[i] = IF i = 1 THEN s[i] ELSE g[i - 1] \o s[i]
  <2> DEFINE G == [i \in 1 .. n |-> IF i = 1 THEN s[i] ELSE g[i - 1] \o s[i]]
  <2>1. \A i \in 1 .. n : G[i] = IF i = 1 THEN s[i] ELSE g[i - 1] \o s[i]
    OBVIOUS
  <2>2. g = G
    BY Zenon DEF IsJoin
  <2> HIDE DEF G
  <2> QED BY <2>1, <2>2, Zenon
<1>2. ASSUME NEW i \in 1 .. n + 1
      PROVE  h[i] = IF i = 1 THEN s[i] ELSE h[i - 1] \o s[i]
  <2>1. CASE i = n + 1
    <3>1. h[i] = v
      BY <2>1
    <3>2. CASE n = 0
      BY <2>1, <3>1, <3>2
    <3>3. CASE n # 0
      <4>1. n \in 1 .. n + 1 /\ n # n + 1 /\ i - 1 = n /\ i # 1
        BY <2>1, <3>3
      <4>2. h[n] = g[n]
        BY <4>1
      <4> QED BY <2>1, <3>1, <3>3, <4>1, <4>2
    <3> QED BY <3>2, <3>3
  <2>2. CASE i # n + 1
    <3>1. i \in 1 .. n /\ h[i] = g[i]
      BY <2>2
    <3>2. CASE i = 1
      BY <1>1, <3>1, <3>2
    <3>3. CASE i # 1
      <4>1. i - 1 \in 1 .. n + 1 /\ i - 1 # n + 1
        BY <3>1, <3>3
      <4>2. h[i - 1] = g[i - 1]
        BY <4>1
      <4> QED BY <1>1, <3>1, <3>3, <4>2
    <3> QED BY <3>2, <3>3
  <2> QED BY <2>1, <2>2
<1>3. IsJoin(s, n + 1, h)
  <2>1. h = [i \in 1 .. n + 1 |-> h[i]]
    OBVIOUS
  <2> HIDE DEF h
  <2>2. [i \in 1 .. n + 1 |-> h[i]] = [i \in 1 .. n + 1 |-> IF i = 1 THEN s[i] ELSE h[i - 1] \o s[i]]
    BY <1>2
  <2> QED BY <2>1, <2>2, Zenon DEF IsJoin
<1>4. h[n + 1] = v
  OBVIOUS
<1> HIDE DEF h
<1> QED BY <1>3, <1>4

LEMMA JoinExists ==
  ASSUME NEW s
  PROVE  \A n \in Nat : \E g : IsJoin(s, n, g)
<1> DEFINE D == {n \in Nat : ~\E g : IsJoin(s, n, g)}
<1>1. CASE D # {}
  <2>1. Min(D) \in D /\ \A y \in D : Min(D) <= y
    <3>1. D \in SUBSET Nat
      OBVIOUS
    <3> HIDE DEF D
    <3> QED BY <1>1, <3>1, MinOfNaturals
  <2>2. PICK m \in Nat : (~\E g : IsJoin(s, m, g)) /\ \A y \in D : m <= y
    BY <2>1
  <2>3. m # 0
    <3>1. IsJoin(s, 0, <<>>)
      BY DEF IsJoin
    <3> QED BY <2>2, <3>1
  <2>4. m - 1 \in Nat /\ m - 1 \notin D /\ (m - 1) + 1 = m
    BY <2>2, <2>3
  <2>5. PICK k \in Nat : k = m - 1 /\ k + 1 = m /\ \E g : IsJoin(s, k, g)
    BY <2>4
  <2>6. \E h : IsJoin(s, k + 1, h)
    BY <2>5, JoinExtends
  <2> QED BY <2>2, <2>5, <2>6
<1> QED BY <1>1

(* The join of one sequence more.                                          *)
LEMMA FlattenJoin ==
  ASSUME NEW s, Len(s) \in Nat, NEW g, IsJoin(s, Len(s), g)
  PROVE  FlattenSeq(s) = IF Len(s) = 0 THEN s ELSE g[Len(s)]
<1> DEFINE c == CHOOSE f : IsJoin(s, Len(s), f)
<1>1. IsJoin(s, Len(s), c)
  OBVIOUS
<1>2. c = g
  <2> HIDE DEF c
  <2> QED BY <1>1, JoinUnique
<1>3. FlattenSeq(s) = IF Len(s) = 0 THEN s ELSE c[Len(s)]
  BY Zenon DEF FlattenSeq, IsJoin
<1> HIDE DEF c
<1> QED BY <1>2, <1>3

LEMMA FlattenEmpty == FlattenSeq(<<>>) = <<>>
BY DEF FlattenSeq

LEMMA FlattenAppend ==
  ASSUME NEW S, NEW s \in Seq(Seq(S)), NEW x \in Seq(S)
  PROVE  FlattenSeq(Append(s, x)) = FlattenSeq(s) \o x
<1> DEFINE t == Append(s, x)
<1>1. PICK n \in Nat : n = Len(s)
  BY LenProperties
<1>2. Len(t) = n + 1 /\ t[n + 1] = x /\ \A i \in 1 .. n : t[i] = s[i]
  BY <1>1, AppendProperties
<1> HIDE DEF t
<1>3. PICK g : IsJoin(s, n, g)
  BY JoinExists
<1>4. IsJoin(t, n, g)
  <2>1. [i \in 1 .. n |-> IF i = 1 THEN s[i] ELSE g[i - 1] \o s[i]]
          = [i \in 1 .. n |-> IF i = 1 THEN t[i] ELSE g[i - 1] \o t[i]]
    BY <1>2
  <2> QED BY <1>3, <2>1, Zenon DEF IsJoin
<1>5. PICK h : /\ IsJoin(t, n + 1, h)
               /\ h[n + 1] = IF n = 0 THEN t[n + 1] ELSE g[n] \o t[n + 1]
  BY <1>4, JoinExtends
<1>6. FlattenSeq(t) = h[n + 1]
  <2>1. PICK m \in Nat : m = n + 1 /\ m # 0
    BY <1>1
  <2>2. Len(t) = m /\ IsJoin(t, m, h)
    BY <1>2, <1>5, <2>1
  <2>3. Len(t) \in Nat /\ IsJoin(t, Len(t), h) /\ Len(t) # 0
    BY <2>1, <2>2
  <2>4. FlattenSeq(t) = h[Len(t)]
    BY <2>3, FlattenJoin
  <2> QED BY <2>1, <2>2, <2>4
<1>7. FlattenSeq(s) = IF n = 0 THEN s ELSE g[n]
  BY <1>1, <1>3, FlattenJoin
<1>8. CASE n = 0
  <2>1. s = <<>>
    BY <1>1, <1>8, EmptySeq
  <2>2. <<>> \o x = x
    BY ConcatEmptySeq
  <2> QED BY <1>2, <1>5, <1>6, <1>7, <1>8, <2>1, <2>2 DEF t
<1>9. CASE n # 0
  BY <1>2, <1>5, <1>6, <1>7, <1>9 DEF t
<1> QED BY <1>8, <1>9

(* The lines picked from a block are positions of the text.                *)
LEMMA TaggedPositions ==
  ASSUME NEW txt \in Seq(Lines), NEW p, NEW tags,
         Tagged(txt, Block(txt, p), tags) # {}
  PROVE  LET S == Tagged(txt, Block(txt, p), tags)
         IN  /\ Max(S) \in S /\ \A q \in S : q <= Max(S)
             /\ Max(S) \in Block(txt, p)
             /\ Max(S) \in 1 .. Len(txt)
             /\ txt[Max(S)] \in Lines /\ txt[Max(S)].tag \in tags
<1> DEFINE S == Tagged(txt, Block(txt, p), tags)
<1>1. DOMAIN txt = 1 .. Len(txt) /\ Len(txt) \in Nat
  BY LenProperties
<1>2. S \in SUBSET (1 .. Len(txt)) /\ S \subseteq Block(txt, p) /\ \A q \in S : txt[q].tag \in tags
  BY <1>1 DEF Tagged, Block
<1>3. Max(S) \in S /\ \A q \in S : q <= Max(S)
  <2> HIDE DEF S
  <2> QED BY <1>1, <1>2, MaxOfPositions DEF S
<1>4. txt[Max(S)] \in Lines
  <2> HIDE DEF S
  <2> QED BY <1>2, <1>3, ElementOfSeq
<1> QED BY <1>2, <1>3, <1>4

(* A block that parses has a description the renderer knows.               *)
LEMMA DescriptionType ==
  ASSUME NEW txt \in Seq(Lines), NEW p \in Blocks(txt), EntryOutcome(txt, p) = "ok"
  PROVE  Description(txt, Block(txt, p)) \in Descriptions
<1> DEFINE B == Block(txt, p)
           S == Tagged(txt, B, {"name", "json"})
<1>1. Stops(txt, B) = {}
  BY DEF EntryOutcome
<1>2. CASE S = {}
  BY <1>2 DEF Description, Descriptions
<1>3. CASE S # {}
  <2>1. /\ Max(S) \in B /\ txt[Max(S)] \in Lines
        /\ txt[Max(S)].tag \in {"name", "json"}
    BY <1>3, TaggedPositions
  <2>2. ~(txt[Max(S)].tag = "json" /\ txt[Max(S)].arg = "malformed")
    <3> HIDE DEF S
    <3> QED BY <1>1, <2>1 DEF Stops
  <2>3. txt[Max(S)] \in Descriptions
    <3> HIDE DEF S
    <3> QED BY <2>1, <2>2 DEF Lines, JsonValues, Descriptions
  <2>4. Description(txt, B) = txt[Max(S)]
    BY <1>3 DEF Description
  <2> QED BY <2>3, <2>4
<1> QED BY <1>2, <1>3

(* The blocks of a key: those whose last public key line names it.         *)
BlocksOf(txt, k) == {p \in Blocks(txt) : LastValue(txt, Block(txt, p), "publickey") = k}

(* The block that decides about a key is the last one with that key.       *)
LEMMA DecidingBlock ==
  ASSUME NEW txt \in Seq(Lines), NEW k \in Keys, BlocksOf(txt, k) # {}
  PROVE  LET p == Max(BlocksOf(txt, k))
         IN  /\ p \in BlocksOf(txt, k) /\ \A q \in BlocksOf(txt, k) : q <= p
             /\ PeerEntryHashMap(txt)[k] = Description(txt, Block(txt, p))
<1>1. BlocksOf(txt, k) \in SUBSET (1 .. Len(txt)) /\ Len(txt) \in Nat
  BY LenProperties DEF BlocksOf, Blocks
<1>2. /\ Max(BlocksOf(txt, k)) \in BlocksOf(txt, k)
      /\ \A q \in BlocksOf(txt, k) : q <= Max(BlocksOf(txt, k))
  BY <1>1, MaxOfPositions
<1> QED BY <1>2 DEF PeerEntryHashMap, BlocksOf

(* TableType: when the text parses, every key has a description the        *)
(* renderer can handle or a nested JSON value (wireguard_config.rs:111).   *)
THEOREM TableType ==
  ASSUME NEW txt \in Seq(Lines), ParseOutcome(txt) = "ok"
  PROVE  PeerEntryHashMap(txt) \in [Keys -> Descriptions]
<1>1. \A p \in Blocks(txt) : EntryOutcome(txt, p) = "ok"
  <2> DEFINE bad == {p \in Blocks(txt) : EntryOutcome(txt, p) # "ok"}
  <2>1. CASE bad = {}
    BY <2>1
  <2>2. CASE bad # {}
    <3>1. bad \in SUBSET Nat
      BY LenProperties DEF Blocks
    <3>2. Min(bad) \in bad
      <4> HIDE DEF bad
      <4> QED BY <2>2, <3>1, MinOfNaturals
    <3> QED BY <2>2, <3>2 DEF ParseOutcome
  <2> QED BY <2>1, <2>2
<1>2. ASSUME NEW k \in Keys PROVE PeerEntryHashMap(txt)[k] \in Descriptions
  <2>1. CASE BlocksOf(txt, k) = {}
    BY <2>1 DEF PeerEntryHashMap, BlocksOf, Descriptions
  <2>2. CASE BlocksOf(txt, k) # {}
    <3>1. PICK p \in Blocks(txt) : PeerEntryHashMap(txt)[k] = Description(txt, Block(txt, p))
      BY <2>2, DecidingBlock DEF BlocksOf
    <3> QED BY <3>1, <1>1, DescriptionType
  <2> QED BY <2>1, <2>2
<1>3. PeerEntryHashMap(txt) = [k \in Keys |-> PeerEntryHashMap(txt)[k]]
  BY DEF PeerEntryHashMap
<1> QED BY <1>2, <1>3

(* OwnBlock: a description given to a key is a comment of a block that     *)
(* names the key and that opens with a peer line; no section header lies   *)
(* between the two, so a comment never crosses into another peer's block   *)
(* from above (wireguard_config.rs:120-140).                               *)
THEOREM OwnBlock ==
  ASSUME NEW txt \in Seq(Lines), NEW k \in Keys, PeerEntryHashMap(txt)[k] # NoDescription
  PROVE  \E p \in Blocks(txt) : \E q, r \in Block(txt, p) :
           /\ txt[q] = PeerEntryHashMap(txt)[k]
           /\ txt[r].tag = "publickey" /\ txt[r].arg = k
           /\ \A other \in Blocks(txt) : p < other => q < other /\ r < other
<1>1. BlocksOf(txt, k) # {}
  BY DEF PeerEntryHashMap, BlocksOf
<1>2. PICK p \in BlocksOf(txt, k) : PeerEntryHashMap(txt)[k] = Description(txt, Block(txt, p))
  BY <1>1, DecidingBlock
<1> DEFINE B == Block(txt, p)
           D == Tagged(txt, B, {"name", "json"})
           K == Tagged(txt, B, {"publickey"})
<1>3. D # {}
  BY <1>2 DEF Description
<1>4. Max(D) \in B /\ txt[Max(D)] = PeerEntryHashMap(txt)[k]
  BY <1>2, <1>3, TaggedPositions DEF Description
<1>5. K # {}
  BY EmptyIsNoValue DEF BlocksOf, LastValue
<1>6. Max(K) \in B /\ txt[Max(K)].tag = "publickey" /\ txt[Max(K)].arg = k
  <2>1. Max(K) \in B /\ txt[Max(K)].tag \in {"publickey"}
    BY <1>5, TaggedPositions
  <2>2. txt[Max(K)].arg = k
    BY <1>5 DEF BlocksOf, LastValue
  <2> QED BY <2>1, <2>2
<1>7. ASSUME NEW q \in B, NEW other \in Blocks(txt), p < other
      PROVE  q < other
  <2>1. q \in Nat /\ other \in Nat /\ p \in Nat /\ IsHeader(txt[other])
    BY LenProperties DEF Block, BlocksOf, Blocks, IsHeader
  <2>2. ~(other \in p + 1 .. q)
    BY <2>1 DEF Block
  <2> QED BY <2>1, <2>2, <1>7
<1> HIDE DEF B, D, K
<1>8. p \in Blocks(txt)
  BY DEF BlocksOf
<1> QED BY <1>4, <1>6, <1>7, <1>8 DEF B
===============================================================================
