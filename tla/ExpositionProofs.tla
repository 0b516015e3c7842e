--------------------------- MODULE ExpositionProofs ---------------------------
(***************************************************************************)
(* The three safety properties of Exposition, for every peer, address,     *)
(* description and number its constants admit.                             *)
(*                                                                         *)
(* The dump, the parser and the renderer are one line of work whose state  *)
(* is what is done and what is left: PipeInv says that the lines still to  *)
(* be parsed, or the endpoints still to be rendered, with what was made of *)
(* the others, are those of the peers of the dump, in order. HeardInv says *)
(* the same of the scraper: what it has heard and what is still to be read *)
(* are the response. What a response says follows from what its families   *)
(* say, a family from its rows, a row from its labels, a label from its    *)
(* value, each by induction over the length of a sequence.                 *)
(*                                                                         *)
(* The module goes from the texts to the system: joins of sequences; the   *)
(* reader, a token, a label, a row, a family and a response at a time;     *)
(* split, the dump and its parser; the renderer; the invariants; and what  *)
(* the labels of a peer and the rows of a family are meant to say.         *)
(***************************************************************************)
EXTENDS Exposition, TLAPS, SequenceTheorems, WellFoundedInduction, FiniteSetTheorems

(***************************************************************************)
(* Induction over the naturals, for a set.                                 *)
(***************************************************************************)
LEMMA Least ==
  ASSUME NEW D \in SUBSET Nat, D # {}
  PROVE  \E x \in D : \A y \in D : x <= y
<1> DEFINE R == OpToRel(<, Nat)
<1>1. \E x \in D : \A y \in D : ~(<<y, x>> \in R)
  <2> HIDE DEF R
  <2> QED BY WFMin, NatLessThanWellFounded, Zenon DEF R
<1>2. PICK x \in D : \A y \in D : ~(<<y, x>> \in R)
  <2> HIDE DEF R
  <2> QED BY <1>1
<1>3. \A y \in D : ~(y < x)
  BY <1>2 DEF OpToRel
<1> HIDE DEF R
<1> QED BY <1>3

LEMMA Induction ==
  ASSUME NEW S, 0 \in S, \A n \in Nat : n \in S => n + 1 \in S
  PROVE  \A n \in Nat : n \in S
<1> DEFINE D == {n \in Nat : n \notin S}
<1> SUFFICES ASSUME D # {} PROVE FALSE
  OBVIOUS
<1>1. PICK x \in D : \A y \in D : x <= y
  <2>1. D \in SUBSET Nat
    OBVIOUS
  <2> HIDE DEF D
  <2> QED BY <2>1, Least
<1>2. x # 0 /\ x - 1 \in Nat /\ (x - 1) + 1 = x
  OBVIOUS
<1>3. x - 1 \in S
  BY <1>1, <1>2
<1> QED BY <1>2, <1>3

(* A recursion over a sequence has a solution.                             *)
Folds(g, step, b, s, n) ==
  /\ g[0] = b
  /\ \A m \in 1 .. n : g[m] = step[<<g[m - 1], s[m]>>]

LEMMA FoldExists ==
  ASSUME NEW V, NEW E, NEW step \in [V \X E -> V], NEW b \in V, NEW s, NEW N \in Nat,
         \A n \in 1 .. N : s[n] \in E
  PROVE  \E g \in [0 .. N -> V] : Folds(g, step, b, s, N)
<1> DEFINE S == {n \in Nat : n <= N => \E g \in [0 .. n -> V] : Folds(g, step, b, s, n)}
<1>1. 0 \in S
  <2> DEFINE g == [m \in 0 .. 0 |-> b]
  <2>1. g \in [0 .. 0 -> V] /\ Folds(g, step, b, s, 0)
    BY DEF Folds
  <2> QED BY <2>1
<1>2. ASSUME NEW n \in Nat, n \in S
      PROVE  n + 1 \in S
  <2> SUFFICES ASSUME n + 1 <= N
               PROVE  \E h \in [0 .. n + 1 -> V] : Folds(h, step, b, s, n + 1)
    OBVIOUS
  <2>1. PICK g \in [0 .. n -> V] : Folds(g, step, b, s, n)
    BY <1>2
  <2> DEFINE h == [m \in 0 .. n + 1 |-> IF m = n + 1 THEN step[<<g[n], s[n + 1]>>] ELSE g[m]]
  <2>2. s[n + 1] \in E /\ g[n] \in V
    OBVIOUS
  <2>3. step[<<g[n], s[n + 1]>>] \in V
    BY <2>2
  <2>4. h \in [0 .. n + 1 -> V]
    BY <2>3
  <2>5. h[0] = b
    BY <2>1 DEF Folds
  <2>6. ASSUME NEW m \in 1 .. n + 1
        PROVE  h[m] = step[<<h[m - 1], s[m]>>]
    <3>1. CASE m = n + 1
      <4>1. m - 1 = n /\ m - 1 \in 0 .. n + 1 /\ m - 1 # n + 1
        BY <3>1
      <4>2. h[m - 1] = g[n] /\ h[m] = step[<<g[n], s[n + 1]>>]
        BY <3>1, <4>1
      <4> HIDE DEF h
      <4> QED BY <3>1, <4>2
    <3>2. CASE m # n + 1
      <4>1. m \in 1 .. n /\ m - 1 \in 0 .. n /\ h[m] = g[m] /\ h[m - 1] = g[m - 1]
        BY <3>2
      <4> QED BY <2>1, <4>1 DEF Folds
    <3> QED BY <3>1, <3>2
  <2>7. Folds(h, step, b, s, n + 1)
    BY <2>5, <2>6 DEF Folds
  <2> QED BY <2>4, <2>7
<1>3. N \in S
  <2> HIDE DEF S
  <2> QED BY <1>1, <1>2, Induction
<1> QED BY <1>3

(***************************************************************************)
(* FlattenSeq: the recursive function it is defined by, and the join of    *)
(* one sequence more.                                                      *)
(***************************************************************************)
IsJoin(g, s, n) == g = [i \in 1 .. n |-> IF i = 1 THEN s[i] ELSE g[i - 1] \o s[i]]

LEMMA JoinSteps ==
  ASSUME NEW g, NEW s, NEW n \in Nat, IsJoin(g, s, n)
  PROVE  \A i \in 1 .. n : g[i] = IF i = 1 THEN s[i] ELSE g[i - 1] \o s[i]
<1> DEFINE G == [i \in 1 .. n |-> IF i = 1 THEN s[i] ELSE g[i - 1] \o s[i]]
<1>1. \A i \in 1 .. n : G[i] = IF i = 1 THEN s[i] ELSE g[i - 1] \o s[i]
  OBVIOUS
<1>2. g = G
  BY Zenon DEF IsJoin
<1> HIDE DEF G
<1> QED BY <1>1, <1>2, Zenon

LEMMA JoinExists ==
  ASSUME NEW S, NEW s \in Seq(Seq(S))
  PROVE  \E g : IsJoin(g, s, Len(s))
<1> DEFINE V == Seq(S)
           step == [x \in V \X V |-> x[1] \o x[2]]
<1>1. PICK n \in Nat : n = Len(s)
  BY LenProperties
<1>2. \A i \in 1 .. n : s[i] \in V
  BY <1>1
<1>3. step \in [V \X V -> V]
  OBVIOUS
<1>4. \A x, y \in V : step[<<x, y>>] = x \o y
  OBVIOUS
<1>5. <<>> \in V /\ \A x \in V : <<>> \o x = x
  BY ConcatEmptySeq
<1> HIDE DEF step, V
<1>6. PICK g \in [0 .. n -> V] : Folds(g, step, <<>>, s, n)
  BY <1>2, <1>3, <1>5, FoldExists, ZenonT(60)
<1> DEFINE h == [i \in 1 .. n |-> g[i]]
<1>7. \A i \in 1 .. n : g[i] = g[i - 1] \o s[i]
  <2> TAKE i \in 1 .. n
  <2>1. g[i - 1] \in V /\ s[i] \in V
    BY <1>2
  <2> QED BY <1>4, <1>6, <2>1 DEF Folds
<1>8. \A i \in 1 .. n : h[i] = IF i = 1 THEN s[i] ELSE h[i - 1] \o s[i]
  <2> TAKE i \in 1 .. n
  <2>1. CASE i = 1
    <3>1. g[1] = g[0] \o s[1] /\ g[0] = <<>> /\ s[1] \in V
      <4>1. 1 \in 1 .. n /\ 1 - 1 = 0
        BY <2>1
      <4>2. g[1] = g[1 - 1] \o s[1] /\ s[1] \in V
        BY <1>2, <1>7, <4>1
      <4>3. g[0] = <<>>
        BY <1>6, Zenon DEF Folds
      <4> QED BY <4>1, <4>2, <4>3
    <3>2. g[1] = s[1]
      BY <1>5, <3>1
    <3> QED BY <2>1, <3>2
  <2>2. CASE i # 1
    <3>1. i - 1 \in 1 .. n /\ h[i - 1] = g[i - 1] /\ h[i] = g[i]
      BY <2>2
    <3> QED BY <1>7, <2>2, <3>1
  <2> QED BY <2>1, <2>2
<1>9. IsJoin(h, s, n)
  <2>1. h = [i \in 1 .. n |-> h[i]]
    OBVIOUS
  <2> HIDE DEF h
  <2>2. [i \in 1 .. n |-> h[i]] = [i \in 1 .. n |-> IF i = 1 THEN s[i] ELSE h[i - 1] \o s[i]]
    BY <1>8
  <2> QED BY <2>1, <2>2, Zenon DEF IsJoin
<1> HIDE DEF h
<1> QED BY <1>1, <1>9

LEMMA FlattenSteps ==
  ASSUME NEW S, NEW s \in Seq(Seq(S)), s # <<>>
  PROVE  \E g : /\ \A i \in 1 .. Len(s) : g[i] = IF i = 1 THEN s[i] ELSE g[i - 1] \o s[i]
                /\ FlattenSeq(s) = g[Len(s)]
<1> DEFINE c == CHOOSE g : IsJoin(g, s, Len(s))
<1>1. IsJoin(c, s, Len(s))
  BY JoinExists, Zenon
<1>2. Len(s) \in Nat /\ Len(s) # 0
  BY LenProperties, EmptySeq
<1>3. FlattenSeq(s) = c[Len(s)]
  BY <1>2, Zenon DEF FlattenSeq, IsJoin
<1> HIDE DEF c
<1> QED BY <1>1, <1>2, <1>3, JoinSteps

LEMMA FlattenEmpty == FlattenSeq(<<>>) = <<>>
BY DEF FlattenSeq

LEMMA FlattenAppend ==
  ASSUME NEW S, NEW s \in Seq(Seq(S)), NEW x \in Seq(S)
  PROVE  FlattenSeq(Append(s, x)) = FlattenSeq(s) \o x
<1> DEFINE t == Append(s, x)
<1>1. PICK n \in Nat : n = Len(s)
  BY LenProperties
<1>2. /\ t \in Seq(Seq(S)) /\ t # <<>> /\ Len(t) = n + 1
      /\ t[n + 1] = x /\ \A i \in 1 .. n : t[i] = s[i]
  BY <1>1, AppendProperties
<1> HIDE DEF t
<1>3. PICK g : /\ \A i \in 1 .. n + 1 : g[i] = IF i = 1 THEN t[i] ELSE g[i - 1] \o t[i]
               /\ FlattenSeq(t) = g[n + 1]
  <2>1. \E g : /\ \A i \in 1 .. Len(t) : g[i] = IF i = 1 THEN t[i] ELSE g[i - 1] \o t[i]
               /\ FlattenSeq(t) = g[Len(t)]
    BY <1>2, FlattenSteps
  <2> QED BY <1>2, <2>1
<1>4. CASE n = 0
  <2>1. s = <<>> /\ <<>> \o x = x
    BY <1>1, <1>4, EmptySeq, ConcatEmptySeq
  <2>2. FlattenSeq(t) = x
    BY <1>2, <1>3, <1>4
  <2> QED BY <2>1, <2>2, FlattenEmpty DEF t
<1>5. CASE n # 0
  <2>1. s # <<>>
    BY <1>1, <1>5
  <2>2. PICK h : /\ \A i \in 1 .. n : h[i] = IF i = 1 THEN s[i] ELSE h[i - 1] \o s[i]
                 /\ FlattenSeq(s) = h[n]
    BY <1>1, <2>1, FlattenSteps
  <2> DEFINE E == {i \in Nat : i + 1 <= n => g[i + 1] = h[i + 1]}
  <2>3. 0 \in E
    BY <1>2, <1>3, <1>5, <2>2
  <2>4. ASSUME NEW i \in Nat, i \in E
        PROVE  i + 1 \in E
    <3> SUFFICES ASSUME i + 2 <= n PROVE g[i + 2] = h[i + 2]
      OBVIOUS
    <3>1. i + 2 \in 1 .. n /\ i + 2 \in 1 .. n + 1 /\ i + 2 # 1 /\ (i + 2) - 1 = i + 1 /\ g[i + 1] = h[i + 1]
      BY <2>4
    <3>2. g[i + 2] = g[i + 1] \o t[i + 2] /\ h[i + 2] = h[i + 1] \o s[i + 2] /\ t[i + 2] = s[i + 2]
      BY <1>2, <1>3, <2>2, <3>1
    <3> QED BY <3>1, <3>2
  <2>5. n - 1 \in E
    <3>1. n - 1 \in Nat
      BY <1>5
    <3> HIDE DEF E
    <3> QED BY <2>3, <2>4, <3>1, Induction
  <2>6. g[n] = h[n]
    BY <1>5, <2>5
  <2>7. g[n + 1] = g[n] \o x
    <3>1. n + 1 \in 1 .. n + 1 /\ n + 1 # 1 /\ (n + 1) - 1 = n
      BY <1>5
    <3> QED BY <1>2, <1>3, <3>1
  <2> QED BY <1>3, <2>2, <2>6, <2>7 DEF t
<1> QED BY <1>4, <1>5

LEMMA FlattenType ==
  ASSUME NEW S
  PROVE  \A s \in Seq(Seq(S)) : FlattenSeq(s) \in Seq(S)
<1> DEFINE E == {n \in Nat : \A s \in Seq(Seq(S)) : Len(s) = n => FlattenSeq(s) \in Seq(S)}
<1>1. 0 \in E
  <2>1. \A s \in Seq(Seq(S)) : Len(s) = 0 => s = <<>>
    OBVIOUS
  <2>2. <<>> \in Seq(S)
    OBVIOUS
  <2> QED BY <2>1, <2>2, FlattenEmpty
<1>2. ASSUME NEW n \in Nat, n \in E
      PROVE  n + 1 \in E
  <2> SUFFICES ASSUME NEW s \in Seq(Seq(S)), Len(s) = n + 1 PROVE FlattenSeq(s) \in Seq(S)
    OBVIOUS
  <2>1. s # <<>>
    OBVIOUS
  <2>2. PICK t \in Seq(Seq(S)), x \in Seq(S) : s = Append(t, x)
    BY <2>1, SequenceEmptyOrAppend
  <2>3. Len(t) = n
    BY <2>2, AppendProperties, LenProperties
  <2>4. FlattenSeq(t) \in Seq(S) /\ FlattenSeq(s) = FlattenSeq(t) \o x
    BY <1>2, <2>2, <2>3, FlattenAppend
  <2> QED BY <2>4, ConcatProperties
<1>3. \A n \in Nat : n \in E
  <2> HIDE DEF E
  <2> QED BY <1>1, <1>2, Induction
<1> QED BY <1>3, LenProperties

(***************************************************************************)
(* The join of what F makes of the elements of a sequence.                 *)
(***************************************************************************)
Gather(F, s) == FlattenSeq([n \in DOMAIN s |-> F[s[n]]])

(* F makes a sequence over T of every element of A.                        *)
Maps(F, A, T) == F \in [A -> Seq(T)]

LEMMA MapsAt ==
  ASSUME NEW F, NEW A, NEW T, Maps(F, A, T)
  PROVE  \A x \in A : F[x] \in Seq(T)
BY DEF Maps

LEMMA ImageSeq ==
  ASSUME NEW A, NEW T, NEW F, Maps(F, A, T), NEW s \in Seq(A)
  PROVE  /\ [n \in DOMAIN s |-> F[s[n]]] \in Seq(Seq(T))
         /\ Len([n \in DOMAIN s |-> F[s[n]]]) = Len(s)
<1>1. PICK k \in Nat : k = Len(s) /\ DOMAIN s = 1 .. k
  BY LenProperties
<1>2. \A n \in 1 .. k : F[s[n]] \in Seq(T)
  BY <1>1, ElementOfSeq, MapsAt
<1>3. [n \in 1 .. k |-> F[s[n]]] \in Seq(Seq(T))
  BY <1>2, IsASeq
<1>4. Len([n \in 1 .. k |-> F[s[n]]]) = k
  BY <1>2
<1> QED BY <1>1, <1>3, <1>4

LEMMA GatherEmpty ==
  ASSUME NEW F
  PROVE  Gather(F, <<>>) = <<>>
<1>1. [n \in DOMAIN <<>> |-> F[<<>>[n]]] = <<>>
  OBVIOUS
<1> QED BY <1>1, FlattenEmpty, Zenon DEF Gather

LEMMA GatherType ==
  ASSUME NEW A, NEW T, NEW F, Maps(F, A, T), NEW s \in Seq(A)
  PROVE  Gather(F, s) \in Seq(T)
<1>1. [n \in DOMAIN s |-> F[s[n]]] \in Seq(Seq(T))
  BY ImageSeq
<1> QED BY <1>1, FlattenType DEF Gather

LEMMA GatherAppend ==
  ASSUME NEW A, NEW T, NEW F, Maps(F, A, T), NEW s \in Seq(A), NEW x \in A
  PROVE  Gather(F, Append(s, x)) = Gather(F, s) \o F[x]
<1> DEFINE m(t) == [n \in DOMAIN t |-> F[t[n]]]
<1>1. Append(s, x) \in Seq(A)
  BY AppendProperties
<1>2. m(s) \in Seq(Seq(T)) /\ Len(m(s)) = Len(s) /\ m(Append(s, x)) \in Seq(Seq(T))
      /\ Len(m(Append(s, x))) = Len(s) + 1
  <2>1. Len(Append(s, x)) = Len(s) + 1
    BY AppendProperties
  <2>2. \A t \in Seq(A) : m(t) \in Seq(Seq(T)) /\ Len(m(t)) = Len(t)
    <3> TAKE t \in Seq(A)
    <3> QED BY ImageSeq
  <2> HIDE DEF m
  <2> QED BY <1>1, <2>1, <2>2
<1>3. m(Append(s, x)) = Append(m(s), F[x])
  <2>1. PICK k \in Nat : k = Len(s) /\ DOMAIN s = 1 .. k
    BY LenProperties
  <2>2. DOMAIN Append(s, x) = 1 .. k + 1
    BY <1>1, <2>1, LenProperties, AppendProperties
  <2>3. Append(m(s), F[x]) \in Seq(Seq(T)) /\ Len(Append(m(s), F[x])) = k + 1
        /\ Append(m(s), F[x])[k + 1] = F[x]
        /\ \A n \in 1 .. k : Append(m(s), F[x])[n] = m(s)[n]
    <3>1. F[x] \in Seq(T)
      BY MapsAt
    <3> HIDE DEF m
    <3> QED BY <1>2, <2>1, <3>1, AppendProperties
  <2>4. \A n \in 1 .. k : m(s)[n] = F[s[n]]
    BY <2>1
  <2>5. \A n \in 1 .. k + 1 : m(Append(s, x))[n] = F[Append(s, x)[n]]
    BY <2>2
  <2>6. \A n \in 1 .. k : Append(s, x)[n] = s[n]
    BY <2>1, AppendProperties
  <2>7. Append(s, x)[k + 1] = x
    BY <2>1, AppendProperties
  <2>8. ASSUME NEW n \in 1 .. k + 1
        PROVE  m(Append(s, x))[n] = Append(m(s), F[x])[n]
    <3>1. m(Append(s, x))[n] = F[Append(s, x)[n]]
      BY <2>5
    <3>2. CASE n = k + 1
      <4> HIDE DEF m
      <4> QED BY <2>3, <2>7, <3>1, <3>2
    <3>3. CASE n # k + 1
      <4>1. n \in 1 .. k
        BY <3>3
      <4> HIDE DEF m
      <4> QED BY <2>3, <2>4, <2>6, <3>1, <4>1
    <3> QED BY <3>2, <3>3
  <2> HIDE DEF m
  <2> QED BY <1>2, <2>1, <2>3, <2>8, SeqEqual
<1>4. F[x] \in Seq(T)
  BY MapsAt
<1>5. FlattenSeq(Append(m(s), F[x])) = FlattenSeq(m(s)) \o F[x]
  <2> HIDE DEF m
  <2> QED BY <1>2, <1>4, FlattenAppend
<1> QED BY <1>3, <1>5 DEF Gather

(* Induction over sequences, for a set of them.                            *)
LEMMA SeqInduction ==
  ASSUME NEW A, NEW S, <<>> \in S, \A s \in Seq(A), x \in A : s \in S => Append(s, x) \in S
  PROVE  \A s \in Seq(A) : s \in S
<1> DEFINE E == {n \in Nat : \A s \in Seq(A) : Len(s) = n => s \in S}
<1>1. 0 \in E
  <2>1. \A s \in Seq(A) : Len(s) = 0 => s = <<>>
    OBVIOUS
  <2> QED BY <2>1
<1>2. ASSUME NEW n \in Nat, n \in E
      PROVE  n + 1 \in E
  <2> SUFFICES ASSUME NEW s \in Seq(A), Len(s) = n + 1 PROVE s \in S
    OBVIOUS
  <2>1. s # <<>>
    OBVIOUS
  <2>2. PICK t \in Seq(A), x \in A : s = Append(t, x)
    BY <2>1, SequenceEmptyOrAppend
  <2>3. Len(t) = n
    BY <2>2, AppendProperties, LenProperties
  <2> QED BY <1>2, <2>2, <2>3
<1>3. \A n \in Nat : n \in E
  <2> HIDE DEF E
  <2> QED BY <1>1, <1>2, Induction
<1> QED BY <1>3, LenProperties

LEMMA GatherConcat ==
  ASSUME NEW A, NEW T, NEW F, Maps(F, A, T), NEW s \in Seq(A), NEW t \in Seq(A)
  PROVE  Gather(F, s \o t) = Gather(F, s) \o Gather(F, t)
<1> DEFINE S == {u \in Seq(A) : Gather(F, s \o u) = Gather(F, s) \o Gather(F, u)}
<1>1. <<>> \in S
  <2>1. s \o <<>> = s /\ <<>> \in Seq(A)
    BY ConcatEmptySeq
  <2>2. Gather(F, s) \o <<>> = Gather(F, s)
    BY GatherType, ConcatEmptySeq
  <2> QED BY <2>1, <2>2, GatherEmpty
<1>2. ASSUME NEW u \in Seq(A), NEW x \in A, u \in S
      PROVE  Append(u, x) \in S
  <2>1. Append(u, x) \in Seq(A) /\ s \o u \in Seq(A) /\ s \o Append(u, x) = Append(s \o u, x)
    <3>1. <<x>> \in Seq(A) /\ Append(u, x) = u \o <<x>> /\ s \o u \in Seq(A)
      BY AppendIsConcat, ConcatProperties
    <3>2. Append(s \o u, x) = (s \o u) \o <<x>>
      BY <3>1, AppendIsConcat
    <3> QED BY <3>1, <3>2, ConcatAssociative, AppendProperties
  <2>2. Gather(F, Append(s \o u, x)) = Gather(F, s \o u) \o F[x]
    <3> DEFINE v == s \o u
    <3>1. v \in Seq(A)
      BY <2>1
    <3> HIDE DEF v
    <3>2. Gather(F, Append(v, x)) = Gather(F, v) \o F[x]
      BY <3>1, GatherAppend
    <3> QED BY <3>2 DEF v
  <2>3. Gather(F, Append(u, x)) = Gather(F, u) \o F[x]
    BY GatherAppend
  <2>4. Gather(F, s) \in Seq(T) /\ Gather(F, u) \in Seq(T) /\ F[x] \in Seq(T)
    BY GatherType, MapsAt
  <2>5. (Gather(F, s) \o Gather(F, u)) \o F[x] = Gather(F, s) \o (Gather(F, u) \o F[x])
    <3> DEFINE a == Gather(F, s)
               b == Gather(F, u)
               c == F[x]
    <3>1. a \in Seq(T) /\ b \in Seq(T) /\ c \in Seq(T)
      BY <2>4
    <3> HIDE DEF a, b, c
    <3>2. (a \o b) \o c = a \o (b \o c)
      BY <3>1, ConcatAssociative, SMTT(60)
    <3> QED BY <3>2 DEF a, b, c
  <2> QED BY <1>2, <2>1, <2>2, <2>3, <2>5
<1>3. t \in S
  <2> HIDE DEF S
  <2> QED BY <1>1, <1>2, SeqInduction
<1> QED BY <1>3

LEMMA GatherOne ==
  ASSUME NEW A, NEW T, NEW F, Maps(F, A, T), NEW x \in A
  PROVE  Gather(F, <<x>>) = F[x]
<1>1. <<>> \in Seq(A) /\ Append(<<>>, x) = <<x>>
  OBVIOUS
<1>2. Gather(F, <<x>>) = <<>> \o F[x]
  BY <1>1, GatherAppend, GatherEmpty, ZenonT(60)
<1> QED BY <1>2, ConcatEmptySeq

LEMMA GatherHead ==
  ASSUME NEW A, NEW T, NEW F, Maps(F, A, T), NEW s \in Seq(A), s # <<>>
  PROVE  Gather(F, s) = F[Head(s)] \o Gather(F, Tail(s))
<1>1. Head(s) \in A /\ Tail(s) \in Seq(A) /\ s = <<Head(s)>> \o Tail(s) /\ <<Head(s)>> \in Seq(A)
  <2>1. Head(s) \in A /\ Tail(s) \in Seq(A) /\ <<Head(s)>> \in Seq(A)
    BY HeadTailProperties
  <2>2. <<Head(s)>> \o Tail(s) \in Seq(A) /\ Len(<<Head(s)>> \o Tail(s)) = 1 + Len(Tail(s))
        /\ \A i \in 1 .. 1 + Len(Tail(s)) : (<<Head(s)>> \o Tail(s))[i] =
             IF i <= 1 THEN <<Head(s)>>[i] ELSE Tail(s)[i - 1]
    BY <2>1, ConcatProperties
  <2>3. Len(Tail(s)) = Len(s) - 1 /\ Len(s) \in Nat /\ Len(s) # 0 /\ Head(s) = s[1]
        /\ \A i \in 1 .. Len(Tail(s)) : Tail(s)[i] = s[i + 1]
    BY HeadTailProperties, LenProperties, EmptySeq
  <2>4. ASSUME NEW i \in 1 .. Len(s)
        PROVE  s[i] = (<<Head(s)>> \o Tail(s))[i]
    <3>1. CASE i = 1
      BY <2>2, <2>3, <3>1
    <3>2. CASE i # 1
      <4>1. i - 1 \in 1 .. Len(Tail(s)) /\ ~(i <= 1) /\ i \in 1 .. 1 + Len(Tail(s)) /\ (i - 1) + 1 = i
        BY <2>3, <3>2
      <4>2. (<<Head(s)>> \o Tail(s))[i] = Tail(s)[i - 1] /\ Tail(s)[i - 1] = s[i]
        BY <2>2, <2>3, <4>1
      <4> QED BY <4>2
    <3> QED BY <3>1, <3>2
  <2> QED BY <2>1, <2>2, <2>3, <2>4, SeqEqual
<1>2. Gather(F, s) = Gather(F, <<Head(s)>>) \o Gather(F, Tail(s))
  <2> DEFINE a == <<Head(s)>>
             b == Tail(s)
  <2>1. a \in Seq(A) /\ b \in Seq(A)
    BY <1>1
  <2>2. Gather(F, a \o b) = Gather(F, a) \o Gather(F, b)
    <3> HIDE DEF a, b
    <3> QED BY <2>1, GatherConcat
  <2>3. Gather(F, s) = Gather(F, <<Head(s)>> \o Tail(s))
    BY <1>1, Zenon
  <2> QED BY <2>2, <2>3, Zenon
<1>3. Gather(F, <<Head(s)>>) = F[Head(s)]
  BY <1>1, GatherOne
<1> QED BY <1>2, <1>3, Zenon

(* What is the same on every element gathers the same.                     *)
LEMMA GatherSame ==
  ASSUME NEW F, NEW G, NEW s, \A n \in DOMAIN s : F[s[n]] = G[s[n]]
  PROVE  Gather(F, s) = Gather(G, s)
<1>1. [n \in DOMAIN s |-> F[s[n]]] = [n \in DOMAIN s |-> G[s[n]]]
  OBVIOUS
<1> QED BY <1>1 DEF Gather

(* To gather from what was gathered.                                       *)
LEMMA GatherGather ==
  ASSUME NEW A, NEW B, NEW T, NEW G, Maps(G, A, B), NEW F, Maps(F, B, T), NEW s \in Seq(A)
  PROVE  Gather(F, Gather(G, s)) = Gather([x \in A |-> Gather(F, G[x])], s)
<1> DEFINE H == [x \in A |-> Gather(F, G[x])]
           S == {u \in Seq(A) : Gather(F, Gather(G, u)) = Gather(H, u)}
<1>1. Maps(H, A, T)
  <2>1. \A x \in A : Gather(F, G[x]) \in Seq(T)
    BY GatherType, MapsAt
  <2> QED BY <2>1 DEF Maps
<1>2. <<>> \in S
  BY GatherEmpty
<1>3. ASSUME NEW u \in Seq(A), NEW x \in A, u \in S
      PROVE  Append(u, x) \in S
  <2>1. Append(u, x) \in Seq(A) /\ G[x] \in Seq(B) /\ H[x] = Gather(F, G[x])
    BY AppendProperties, MapsAt
  <2>2. Gather(G, Append(u, x)) = Gather(G, u) \o G[x] /\ Gather(G, u) \in Seq(B)
    BY GatherAppend, GatherType
  <2>3. Gather(F, Gather(G, u) \o G[x]) = Gather(F, Gather(G, u)) \o Gather(F, G[x])
    <3> DEFINE a == Gather(G, u)
               b == G[x]
    <3>1. a \in Seq(B) /\ b \in Seq(B)
      BY <2>1, <2>2
    <3> HIDE DEF a, b
    <3>2. Gather(F, a \o b) = Gather(F, a) \o Gather(F, b)
      BY <3>1, GatherConcat
    <3> QED BY <3>2 DEF a, b
  <2>4. Gather(H, Append(u, x)) = Gather(H, u) \o H[x]
    <3> HIDE DEF H
    <3> QED BY <1>1, GatherAppend
  <2> HIDE DEF H
  <2> QED BY <1>3, <2>1, <2>2, <2>3, <2>4
<1>4. s \in S
  <2> HIDE DEF S
  <2> QED BY <1>2, <1>3, SeqInduction
<1> QED BY <1>4

LEMMA GatherNothing ==
  ASSUME NEW A, NEW T, NEW F, Maps(F, A, T), NEW s \in Seq(A), \A x \in A : F[x] = <<>>
  PROVE  Gather(F, s) = <<>>
<1> DEFINE S == {u \in Seq(A) : Gather(F, u) = <<>>}
<1>1. <<>> \in S
  BY GatherEmpty
<1>2. ASSUME NEW u \in Seq(A), NEW x \in A, u \in S
      PROVE  Append(u, x) \in S
  <2>1. Gather(F, Append(u, x)) = Gather(F, u) \o F[x]
    BY GatherAppend
  <2>2. <<>> \o <<>> = <<>>
    OBVIOUS
  <2> QED BY <1>2, <2>1, <2>2, AppendProperties
<1>3. s \in S
  <2> HIDE DEF S
  <2> QED BY <1>1, <1>2, SeqInduction
<1> QED BY <1>3

LEMMA GatherMap ==
  ASSUME NEW A, NEW T, NEW F, Maps(F, A, T), NEW g \in [A -> T], NEW s \in Seq(A),
         \A x \in A : F[x] = <<g[x]>>
  PROVE  Gather(F, s) = [n \in DOMAIN s |-> g[s[n]]]
<1> DEFINE m(u) == [n \in DOMAIN u |-> g[u[n]]]
           S == {u \in Seq(A) : Gather(F, u) = m(u)}
<1>1. <<>> \in S
  <2>1. m(<<>>) = <<>>
    OBVIOUS
  <2> HIDE DEF m
  <2> QED BY <2>1, GatherEmpty
<1>2. ASSUME NEW u \in Seq(A), NEW x \in A, u \in S
      PROVE  Append(u, x) \in S
  <2>1. Gather(F, Append(u, x)) = Gather(F, u) \o F[x]
    BY GatherAppend
  <2>2. F[x] = <<g[x]>> /\ g[x] \in T
    OBVIOUS
  <2>3. PICK k \in Nat : k = Len(u) /\ DOMAIN u = 1 .. k
    BY LenProperties
  <2>4. m(u) \in Seq(T) /\ Len(m(u)) = k
    <3>1. \A n \in 1 .. k : g[u[n]] \in T
      BY <2>3
    <3>2. [n \in 1 .. k |-> g[u[n]]] \in Seq(T)
      BY <3>1, IsASeq
    <3>3. Len([n \in 1 .. k |-> g[u[n]]]) = k
      BY <3>1
    <3> QED BY <2>3, <3>2, <3>3
  <2>5. Append(u, x) \in Seq(A) /\ DOMAIN Append(u, x) = 1 .. k + 1
        /\ Append(u, x)[k + 1] = x /\ \A n \in 1 .. k : Append(u, x)[n] = u[n]
    <3>1. Append(u, x) \in Seq(A) /\ Len(Append(u, x)) = k + 1
      BY <2>3, AppendProperties
    <3> QED BY <2>3, <3>1, AppendProperties, LenProperties
  <2>6. m(Append(u, x)) \in Seq(T) /\ Len(m(Append(u, x))) = k + 1
    <3> DEFINE v == Append(u, x)
    <3>1. v \in Seq(A) /\ DOMAIN v = 1 .. k + 1
      BY <2>5
    <3> HIDE DEF v
    <3>2. \A n \in 1 .. k + 1 : g[v[n]] \in T
      BY <3>1
    <3>3. [n \in 1 .. k + 1 |-> g[v[n]]] \in Seq(T)
      BY <3>2, IsASeq
    <3>4. Len([n \in 1 .. k + 1 |-> g[v[n]]]) = k + 1
      BY <3>2
    <3> QED BY <3>1, <3>3, <3>4 DEF v
  <2>7. /\ m(u) \o <<g[x]>> \in Seq(T) /\ Len(m(u) \o <<g[x]>>) = k + 1
        /\ \A n \in 1 .. k + 1 : (m(u) \o <<g[x]>>)[n] = IF n <= k THEN m(u)[n] ELSE g[x]
    <3> DEFINE a == m(u)
               b == <<g[x]>>
    <3>1. a \in Seq(T) /\ Len(a) = k /\ b \in Seq(T) /\ Len(b) = 1 /\ b[1] = g[x]
      BY <2>2, <2>4
    <3> HIDE DEF a, b
    <3>2. a \o b \in Seq(T) /\ Len(a \o b) = k + 1
          /\ \A n \in 1 .. k + 1 : (a \o b)[n] = IF n <= k THEN a[n] ELSE b[n - k]
      <4>1. a \o b \in Seq(T) /\ Len(a \o b) = Len(a) + Len(b)
            /\ \A n \in 1 .. Len(a) + Len(b) : (a \o b)[n] = IF n <= Len(a) THEN a[n] ELSE b[n - Len(a)]
        BY <3>1, ConcatProperties, Zenon
      <4> QED BY <3>1, <4>1
    <3>3. \A n \in 1 .. k + 1 : ~(n <= k) => n - k = 1
      OBVIOUS
    <3>4. \A n \in 1 .. k + 1 : (a \o b)[n] = IF n <= k THEN a[n] ELSE g[x]
      BY <3>1, <3>2, <3>3
    <3> QED BY <3>2, <3>4 DEF a, b
  <2>8. ASSUME NEW n \in 1 .. k + 1
        PROVE  (m(u) \o <<g[x]>>)[n] = m(Append(u, x))[n]
    <3>1. m(Append(u, x))[n] = g[Append(u, x)[n]]
      BY <2>5
    <3>2. CASE n <= k
      <4>1. n \in 1 .. k
        BY <3>2
      <4>2. m(u)[n] = g[u[n]]
        BY <2>3, <4>1
      <4> HIDE DEF m
      <4> QED BY <2>5, <2>7, <3>1, <3>2, <4>1, <4>2
    <3>3. CASE ~(n <= k)
      <4>1. n = k + 1
        BY <3>3
      <4> HIDE DEF m
      <4> QED BY <2>5, <2>7, <3>1, <3>3, <4>1
    <3> QED BY <3>2, <3>3
  <2>9. m(u) \o <<g[x]>> = m(Append(u, x))
    <3> DEFINE a == m(u) \o <<g[x]>>
               b == m(Append(u, x))
    <3>1. a \in Seq(T) /\ b \in Seq(T) /\ Len(a) = k + 1 /\ Len(b) = k + 1 /\ \A n \in 1 .. k + 1 : a[n] = b[n]
      BY <2>6, <2>7, <2>8
    <3> HIDE DEF a, b
    <3>2. a = b
      BY <3>1, SeqEqual
    <3> QED BY <3>2 DEF a, b
  <2> HIDE DEF m
  <2> QED BY <1>2, <2>1, <2>2, <2>5, <2>9
<1>3. s \in S
  <2> HIDE DEF S
  <2> QED BY <1>1, <1>2, SeqInduction
<1> QED BY <1>3

(* F makes something of one element only, which occurs once.               *)
LEMMA GatherOnly ==
  ASSUME NEW A, NEW T, NEW F, Maps(F, A, T), NEW s \in Seq(A), NEW i,
         \A m, n \in DOMAIN s : s[m] = s[n] => m = n,
         \A x \in A : x # i => F[x] = <<>>
  PROVE  Gather(F, s) = IF \E n \in DOMAIN s : s[n] = i THEN F[i] ELSE <<>>
<1> DEFINE S == {u \in Seq(A) : (\A m, n \in DOMAIN u : u[m] = u[n] => m = n) =>
                   Gather(F, u) = IF \E n \in DOMAIN u : u[n] = i THEN F[i] ELSE <<>>}
<1>1. <<>> \in S
  BY GatherEmpty
<1>2. ASSUME NEW u \in Seq(A), NEW x \in A, u \in S
      PROVE  Append(u, x) \in S
  <2> DEFINE v == Append(u, x)
  <2>1. PICK k \in Nat : k = Len(u) /\ DOMAIN u = 1 .. k
    BY LenProperties
  <2>2. v \in Seq(A) /\ DOMAIN v = 1 .. k + 1 /\ v[k + 1] = x /\ \A n \in 1 .. k : v[n] = u[n]
    <3>1. v \in Seq(A) /\ Len(v) = k + 1
      BY <2>1, AppendProperties
    <3> QED BY <2>1, <3>1, AppendProperties, LenProperties
  <2>3. Gather(F, v) = Gather(F, u) \o F[x] /\ F[x] \in Seq(T)
    BY GatherAppend, MapsAt
  <2> HIDE DEF v
  <2> SUFFICES ASSUME \A m, n \in DOMAIN v : v[m] = v[n] => m = n
               PROVE  Gather(F, v) = IF \E n \in DOMAIN v : v[n] = i THEN F[i] ELSE <<>>
    BY <2>2 DEF v
  <2>4. \A m, n \in DOMAIN u : u[m] = u[n] => m = n
    BY <2>1, <2>2
  <2>5. Gather(F, u) = IF \E n \in DOMAIN u : u[n] = i THEN F[i] ELSE <<>>
    BY <1>2, <2>4
  <2>6. CASE x = i
    <3>1. ~ \E n \in DOMAIN u : u[n] = i
      <4> SUFFICES ASSUME NEW n \in 1 .. k, u[n] = i PROVE FALSE
        BY <2>1
      <4>1. n \in DOMAIN v /\ k + 1 \in DOMAIN v /\ v[n] = v[k + 1] /\ n # k + 1
        BY <2>2, <2>6
      <4> QED BY <4>1
    <3>2. \E n \in DOMAIN v : v[n] = i
      BY <2>2, <2>6
    <3>3. <<>> \o F[x] = F[x]
      BY <2>3, ConcatEmptySeq
    <3> QED BY <2>3, <2>5, <2>6, <3>1, <3>2, <3>3
  <2>7. CASE x # i
    <3>1. F[x] = <<>>
      BY <2>7
    <3>2. Gather(F, u) \o <<>> = Gather(F, u)
      BY GatherType, ConcatEmptySeq
    <3>3. (\E n \in DOMAIN v : v[n] = i) <=> \E n \in DOMAIN u : u[n] = i
      <4>1. \A n \in 1 .. k + 1 : n = k + 1 \/ n \in 1 .. k
        OBVIOUS
      <4>2. \A n \in 1 .. k : n \in 1 .. k + 1
        OBVIOUS
      <4> QED BY <2>1, <2>2, <2>7, <4>1, <4>2
    <3> QED BY <2>3, <2>5, <3>1, <3>2, <3>3
  <2> QED BY <2>6, <2>7
<1>3. s \in S
  <2> HIDE DEF S
  <2> QED BY <1>1, <1>2, SeqInduction
<1> QED BY <1>3

(***************************************************************************)
(* The reader after a piece of text.                                       *)
(***************************************************************************)
IsReading(g, r, p, n) == g = [m \in 0 .. n |-> IF m = 0 THEN r ELSE Advance(g[m - 1], p[m])]
Reads(g, r, p, n) == g[0] = r /\ \A m \in 1 .. n : g[m] = Advance(g[m - 1], p[m])

LEMMA ReadsExists ==
  ASSUME NEW r, NEW p, NEW N \in Nat
  PROVE  \E g : Reads(g, r, p, N)
<1> DEFINE S == {n \in Nat : \E g : Reads(g, r, p, n)}
<1>1. 0 \in S
  <2>1. Reads([m \in 0 .. 0 |-> r], r, p, 0)
    BY DEF Reads
  <2> QED BY <2>1
<1>2. ASSUME NEW n \in Nat, n \in S
      PROVE  n + 1 \in S
  <2>1. PICK g : Reads(g, r, p, n)
    BY <1>2
  <2> DEFINE h == [m \in 0 .. n + 1 |-> IF m = n + 1 THEN Advance(g[n], p[n + 1]) ELSE g[m]]
  <2>2. h[0] = r
    BY <2>1 DEF Reads
  <2>3. ASSUME NEW m \in 1 .. n + 1
        PROVE  h[m] = Advance(h[m - 1], p[m])
    <3>1. CASE m = n + 1
      <4>1. m - 1 = n /\ m - 1 \in 0 .. n + 1 /\ m - 1 # n + 1
        BY <3>1
      <4>2. h[m - 1] = g[n] /\ h[m] = Advance(g[n], p[n + 1])
        BY <3>1, <4>1
      <4> HIDE DEF h
      <4> QED BY <3>1, <4>2
    <3>2. CASE m # n + 1
      <4>1. m \in 1 .. n /\ m - 1 \in 0 .. n /\ h[m] = g[m] /\ h[m - 1] = g[m - 1]
        BY <3>2
      <4> HIDE DEF h
      <4> QED BY <2>1, <4>1 DEF Reads
    <3> QED BY <3>1, <3>2
  <2>4. Reads(h, r, p, n + 1)
    <3> HIDE DEF h
    <3> QED BY <2>2, <2>3 DEF Reads
  <2> HIDE DEF h
  <2> QED BY <2>4
<1> HIDE DEF S
<1>3. N \in S
  BY <1>1, <1>2, Induction
<1> QED BY <1>3 DEF S

LEMMA ReadingSteps ==
  ASSUME NEW r, NEW p, Len(p) \in Nat
  PROVE  \E g : Reads(g, r, p, Len(p)) /\ Reading(r, p) = g[Len(p)]
<1> DEFINE N == Len(p)
           c == CHOOSE g : IsReading(g, r, p, N)
<1>1. PICK h : Reads(h, r, p, N)
  BY ReadsExists
<1> DEFINE g == [m \in 0 .. N |-> h[m]]
<1>2. IsReading(g, r, p, N)
  <2>1. g = [m \in 0 .. N |-> g[m]]
    OBVIOUS
  <2>2. ASSUME NEW m \in 0 .. N
        PROVE  g[m] = IF m = 0 THEN r ELSE Advance(g[m - 1], p[m])
    <3>1. CASE m = 0
      BY <1>1, <3>1 DEF Reads
    <3>2. CASE m # 0
      <4>1. m \in 1 .. N /\ m - 1 \in 0 .. N /\ g[m] = h[m] /\ g[m - 1] = h[m - 1]
        BY <3>2
      <4> HIDE DEF g
      <4> QED BY <1>1, <3>2, <4>1 DEF Reads
    <3> QED BY <3>1, <3>2
  <2> HIDE DEF g
  <2>3. [m \in 0 .. N |-> g[m]] = [m \in 0 .. N |-> IF m = 0 THEN r ELSE Advance(g[m - 1], p[m])]
    BY <2>2
  <2> QED BY <2>1, <2>3, Zenon DEF IsReading
<1>3. IsReading(c, r, p, N)
  <2> HIDE DEF g
  <2> QED BY <1>2, Zenon
<1>4. Reading(r, p) = c[N]
  BY Zenon DEF Reading, IsReading
<1>5. Reads(c, r, p, N)
  <2> HIDE DEF c, g
  <2> DEFINE G == [m \in 0 .. N |-> IF m = 0 THEN r ELSE Advance(c[m - 1], p[m])]
  <2>1. G[0] = r /\ \A m \in 1 .. N : G[m] = Advance(c[m - 1], p[m])
    OBVIOUS
  <2>2. c = G
    BY <1>3, Zenon DEF IsReading
  <2> HIDE DEF G
  <2> QED BY <2>1, <2>2 DEF Reads
<1> HIDE DEF c
<1> QED BY <1>4, <1>5

LEMMA ReadsUnique ==
  ASSUME NEW r, NEW p, NEW N \in Nat, NEW g, NEW h, Reads(g, r, p, N), Reads(h, r, p, N)
  PROVE  \A n \in 0 .. N : g[n] = h[n]
<1> DEFINE S == {n \in Nat : n <= N => g[n] = h[n]}
<1>1. 0 \in S
  BY DEF Reads
<1>2. ASSUME NEW n \in Nat, n \in S
      PROVE  n + 1 \in S
  <2> SUFFICES ASSUME n + 1 <= N PROVE g[n + 1] = h[n + 1]
    OBVIOUS
  <2>1. n + 1 \in 1 .. N /\ (n + 1) - 1 = n /\ g[n] = h[n]
    BY <1>2
  <2>2. g[n + 1] = Advance(g[n], p[n + 1]) /\ h[n + 1] = Advance(h[n], p[n + 1])
    BY <2>1 DEF Reads
  <2> QED BY <2>1, <2>2
<1>3. \A n \in Nat : n \in S
  <2> HIDE DEF S
  <2> QED BY <1>1, <1>2, Induction
<1> QED BY <1>3

(* To read two pieces is to read one after the other.                      *)
LEMMA ReadingConcat ==
  ASSUME NEW T, NEW r, NEW p \in Seq(T), NEW q \in Seq(T)
  PROVE  Reading(r, p \o q) = Reading(Reading(r, p), q)
<1>1. PICK m \in Nat, n \in Nat : m = Len(p) /\ n = Len(q)
  BY LenProperties
<1>2. /\ Len(p \o q) = m + n
      /\ \A i \in 1 .. m : (p \o q)[i] = p[i]
      /\ \A i \in 1 .. n : (p \o q)[m + i] = q[i]
  <2>1. Len(p \o q) = Len(p) + Len(q) /\ \A i \in 1 .. Len(p) + Len(q) :
          (p \o q)[i] = IF i <= Len(p) THEN p[i] ELSE q[i - Len(p)]
    BY ConcatProperties
  <2>2. \A i \in 1 .. m : i \in 1 .. m + n /\ i <= m
    OBVIOUS
  <2>3. \A i \in 1 .. n : m + i \in 1 .. m + n /\ ~(m + i <= m) /\ (m + i) - m = i
    OBVIOUS
  <2> QED BY <1>1, <2>1, <2>2, <2>3
<1> DEFINE s == p \o q
<1>3. Len(s) = m + n /\ (\A i \in 1 .. m : s[i] = p[i]) /\ (\A i \in 1 .. n : s[m + i] = q[i])
  BY <1>2
<1> HIDE DEF s
<1>4. PICK g : Reads(g, r, s, m + n) /\ Reading(r, s) = g[m + n]
  <2>1. Len(s) \in Nat
    BY <1>3
  <2>2. \E g : Reads(g, r, s, Len(s)) /\ Reading(r, s) = g[Len(s)]
    BY <2>1, ReadingSteps
  <2> QED BY <1>3, <2>2
<1>5. PICK h : Reads(h, r, p, m) /\ Reading(r, p) = h[m]
  BY <1>1, ReadingSteps
<1>6. Reads(g, r, p, m)
  BY <1>3, <1>4 DEF Reads
<1>7. g[m] = Reading(r, p)
  BY <1>5, <1>6, ReadsUnique
<1>8. PICK k : Reads(k, g[m], q, n) /\ Reading(g[m], q) = k[n]
  BY <1>1, ReadingSteps
<1> DEFINE f == [i \in 0 .. n |-> g[m + i]]
<1>9. Reads(f, g[m], q, n)
  <2>1. f[0] = g[m]
    OBVIOUS
  <2>2. ASSUME NEW i \in 1 .. n
        PROVE  f[i] = Advance(f[i - 1], q[i])
    <3>1. m + i \in 1 .. m + n /\ (m + i) - 1 = m + (i - 1) /\ i - 1 \in 0 .. n
      OBVIOUS
    <3>2. g[m + i] = Advance(g[(m + i) - 1], s[m + i])
      BY <1>4, <3>1 DEF Reads
    <3>3. f[i] = g[m + i] /\ f[i - 1] = g[m + (i - 1)]
      BY <3>1
    <3> HIDE DEF f
    <3> QED BY <1>3, <3>1, <3>2, <3>3
  <2> HIDE DEF f
  <2> QED BY <2>1, <2>2 DEF Reads
<1>10. f[n] = k[n] /\ f[n] = g[m + n]
  <2>1. f[n] = g[m + n]
    OBVIOUS
  <2> HIDE DEF f
  <2>2. \A i \in 0 .. n : f[i] = k[i]
    BY <1>8, <1>9, ReadsUnique
  <2>3. n \in 0 .. n
    OBVIOUS
  <2> QED BY <2>1, <2>2, <2>3
<1> QED BY <1>4, <1>7, <1>8, <1>10 DEF s

LEMMA ReadingNothing ==
  ASSUME NEW r
  PROVE  Reading(r, <<>>) = r
<1>1. Len(<<>>) = 0
  OBVIOUS
<1>2. \E g : Reads(g, r, <<>>, 0) /\ Reading(r, <<>>) = g[0]
  BY <1>1, ReadingSteps
<1> QED BY <1>2 DEF Reads

LEMMA ReadingOne ==
  ASSUME NEW r, NEW c
  PROVE  Reading(r, <<c>>) = Advance(r, c)
<1> DEFINE p == <<c>>
<1>1. Len(p) = 1 /\ p[1] = c
  OBVIOUS
<1> HIDE DEF p
<1>2. PICK g : Reads(g, r, p, 1) /\ Reading(r, p) = g[1]
  BY <1>1, ReadingSteps
<1>3. g[1] = Advance(g[1 - 1], p[1]) /\ g[0] = r
  BY <1>2 DEF Reads
<1> QED BY <1>1, <1>2, <1>3 DEF p

LEMMA ReadingAppend ==
  ASSUME NEW T, NEW r, NEW p \in Seq(T), NEW c \in T
  PROVE  Reading(r, Append(p, c)) = Advance(Reading(r, p), c)
<1>1. Append(p, c) = p \o <<c>> /\ <<c>> \in Seq(T)
  BY AppendIsConcat
<1> DEFINE q == <<c>>
<1>2. q \in Seq(T)
  BY <1>1
<1> HIDE DEF q
<1>3. Reading(r, p \o q) = Reading(Reading(r, p), q)
  BY <1>2, ReadingConcat
<1> QED BY <1>1, <1>3, ReadingOne DEF q

(* Every token is a string. The provers do not know that a literal is one. *)
Tokens ==
  STRING \cup Punctuation \cup {"# HELP ", "# TYPE ", "counter", "gauge", "/", "(none)"}
  \cup {"interface", "public_key", "allowed_ips", "friendly_name", "remote_ip", "remote_port"}
  \cup {"wireguard_sent_bytes_total", "wireguard_received_bytes_total",
        "wireguard_latest_handshake_seconds", "wireguard_latest_handshake_delay_seconds"}
  \cup {"Bytes sent to the peer", "Bytes received from the peer",
        "UNIX timestamp seconds of the last handshake", "Seconds from the last handshake"}

(***************************************************************************)
(* What one token does to the reader.                                      *)
(***************************************************************************)
State(mode, word, types, samples, labels, label, inside) ==
  [mode |-> mode, word |-> word, types |-> types, samples |-> samples,
   labels |-> labels, label |-> label, inside |-> inside]
In(mode, value) == [mode |-> mode, value |-> value]

LEMMA Marks ==
  /\ Quote # Backslash /\ Quote # NewLine /\ Backslash # NewLine /\ "n" \notin {Quote, Backslash}
  /\ {"{", "}", "=", ",", " ", Quote, Backslash, NewLine} = Punctuation
  /\ {"{", "}", "=", ",", " ", "# HELP ", "# TYPE "} \cap {Quote, Backslash, NewLine} = {}
  /\ Punctuation \subseteq Tokens /\ Punctuation \cap {"# HELP ", "# TYPE "} = {}
BY DEF Punctuation, Quote, Backslash, NewLine, Tokens

LEMMA InsideSteps ==
  ASSUME NEW v
  PROVE  /\ \A c : c \notin {Quote, Backslash, NewLine} => Inside(In("string", v), c) = In("string", Append(v, c))
         /\ Inside(In("string", v), Backslash) = In("escape", v)
         /\ Inside(In("string", v), Quote) = In("closed", v)
         /\ Inside(In("string", v), NewLine) = In("error", v)
         /\ \A c : c \in {Quote, Backslash} => Inside(In("escape", v), c) = In("string", Append(v, c))
         /\ Inside(In("escape", v), "n") = In("string", Append(v, NewLine))
         /\ \A c : c \notin {Quote, Backslash, "n"} => Inside(In("escape", v), c) = In("error", v)
BY Marks, Zenon DEF Inside, In

(***************************************************************************)
(* From a state to a state.                                                *)
(***************************************************************************)
LEMMA StateGoto ==
  ASSUME NEW m, NEW w, NEW t, NEW s, NEW b, NEW l, NEW i, NEW n
  PROVE  Goto(State(m, w, t, s, b, l, i), n) = State(n, w, t, s, b, l, i)
BY DEF State, Goto

LEMMA LabelsBrace ==
  ASSUME NEW w, NEW t, NEW s, NEW b, NEW l, NEW i
  PROVE  Advance(State("labels", w, t, s, b, l, i), "{") = State("label", w, t, s, b, l, i)
BY DEF Advance, State, Goto, Expect

LEMMA LabelsSpace ==
  ASSUME NEW w, NEW t, NEW s, NEW b, NEW l, NEW i
  PROVE  Advance(State("labels", w, t, s, b, l, i), " ") = State("value", w, t, s, b, l, i)
BY DEF Advance, State, Goto, Expect

LEMMA LabelName ==
  ASSUME NEW w, NEW t, NEW s, NEW b, NEW l, NEW i, NEW c,
         c \notin Punctuation, \A x \in b : x[1] # c
  PROVE  Advance(State("label", w, t, s, b, l, i), c) = State("equals", w, t, s, b, c, i)
BY DEF Advance, State, Goto, AtLabel

LEMMA LabelEquals ==
  ASSUME NEW w, NEW t, NEW s, NEW b, NEW l, NEW i
  PROVE  Advance(State("equals", w, t, s, b, l, i), "=") = State("open", w, t, s, b, l, i)
BY DEF Advance, State, Goto, Expect

LEMMA LabelOpen ==
  ASSUME NEW w, NEW t, NEW s, NEW b, NEW l, NEW i
  PROVE  Advance(State("open", w, t, s, b, l, i), Quote) = State("string", w, t, s, b, l, Opened)
BY DEF Advance, State, Goto, Expect

LEMMA NextComma ==
  ASSUME NEW w, NEW t, NEW s, NEW b, NEW l, NEW i
  PROVE  Advance(State("next", w, t, s, b, l, i), ",") = State("label", w, t, s, b, l, i)
BY DEF Advance, State, Goto, Expect

LEMMA NextBrace ==
  ASSUME NEW w, NEW t, NEW s, NEW b, NEW l, NEW i
  PROVE  Advance(State("next", w, t, s, b, l, i), "}") = State("space", w, t, s, b, l, i)
BY DEF Advance, State, Goto, Expect

LEMMA SpaceSpace ==
  ASSUME NEW w, NEW t, NEW s, NEW b, NEW l, NEW i
  PROVE  Advance(State("space", w, t, s, b, l, i), " ") = State("value", w, t, s, b, l, i)
BY DEF Advance, State, Goto, Expect

LEMMA ValueWord ==
  ASSUME NEW w, NEW t, NEW s, NEW b, NEW l, NEW i, NEW c,
         c \notin Punctuation
  PROVE  Advance(State("value", w, t, s, b, l, i), c) = State("sample", c, t, s, b, l, i)
BY DEF Advance, State, Goto

LEMMA SampleEnd ==
  ASSUME NEW w, NEW t, NEW s, NEW b, NEW l, NEW i
  PROVE  Advance(State("sample", w, t, s, b, l, i), NewLine) = State("line", w, t, Append(s, [family |-> t[Len(t)][1], labels |-> b, value |-> w]), b, l, i)
BY DEF Advance, State, Goto, AtEndOfSample, Family

LEMMA HelpWord ==
  ASSUME NEW w, NEW t, NEW s, NEW b, NEW l, NEW i, NEW c,
         c # NewLine
  PROVE  Advance(State("help", w, t, s, b, l, i), c) = State("help", w, t, s, b, l, i)
BY DEF Advance, State

LEMMA HelpEnd ==
  ASSUME NEW w, NEW t, NEW s, NEW b, NEW l, NEW i
  PROVE  Advance(State("help", w, t, s, b, l, i), NewLine) = State("line", w, t, s, b, l, i)
BY DEF Advance, State, Goto

LEMMA TypedWord ==
  ASSUME NEW w, NEW t, NEW s, NEW b, NEW l, NEW i, NEW c,
         \A n \in DOMAIN t : t[n][1] # c
  PROVE  Advance(State("typed", w, t, s, b, l, i), c) = State("type", c, t, s, b, l, i)
BY DEF Advance, State, Goto, AtTyped

LEMMA TypeWord ==
  ASSUME NEW w, NEW t, NEW s, NEW b, NEW l, NEW i, NEW c
  PROVE  Advance(State("type", w, t, s, b, l, i), c) = State("end", w, Append(t, <<w, c>>), s, b, l, i)
BY DEF Advance, State, Goto

LEMMA EndEnd ==
  ASSUME NEW w, NEW t, NEW s, NEW b, NEW l, NEW i
  PROVE  Advance(State("end", w, t, s, b, l, i), NewLine) = State("line", w, t, s, b, l, i)
BY DEF Advance, State, Goto, Expect

LEMMA LineEmpty ==
  ASSUME NEW w, NEW t, NEW s, NEW b, NEW l, NEW i
  PROVE  Advance(State("line", w, t, s, b, l, i), NewLine) = State("line", w, t, s, b, l, i)
<1> DEFINE r == State("line", w, t, s, b, l, i)
<1>1. Advance(r, NewLine) = AtLine(r, NewLine)
  BY DEF Advance, State
<1>2. NewLine \in Punctuation /\ NewLine # "# HELP " /\ NewLine # "# TYPE "
  BY DEF NewLine, Punctuation
<1> HIDE DEF r
<1>3. AtLine(r, NewLine) = r
  BY <1>2, Zenon DEF AtLine
<1> QED BY <1>1, <1>3, Zenon DEF r

(* No family is named like the start of a comment.                         *)
NoComment(types) == types # <<>> => types[Len(types)][1] \notin {"# HELP ", "# TYPE "}

LEMMA LineHelp ==
  ASSUME NEW w, NEW t, NEW s, NEW b, NEW l, NEW i,
         NoComment(t)
  PROVE  Advance(State("line", w, t, s, b, l, i), "# HELP ") = State("help", w, t, s, b, l, i)
<1> DEFINE r == State("line", w, t, s, b, l, i)
<1>1. Advance(r, "# HELP ") = AtLine(r, "# HELP ")
  BY DEF Advance, State
<1>2. Goto(r, "help") = State("help", w, t, s, b, l, i)
  BY StateGoto
<1>3. r.types = <<>> \/ (Family(r) # "# HELP " /\ Family(r) # "# TYPE ")
  BY Zenon DEF State, Family, NoComment
<1>4. "# HELP " # NewLine /\ "# TYPE " # "# HELP "
  BY DEF NewLine
<1> HIDE DEF r
<1>5. AtLine(r, "# HELP ") = Goto(r, "help")
  BY <1>3, <1>4, Zenon DEF AtLine
<1> QED BY <1>1, <1>2, <1>5, Zenon DEF r

LEMMA LineType ==
  ASSUME NEW w, NEW t, NEW s, NEW b, NEW l, NEW i,
         NoComment(t)
  PROVE  Advance(State("line", w, t, s, b, l, i), "# TYPE ") = State("typed", w, t, s, b, l, i)
<1> DEFINE r == State("line", w, t, s, b, l, i)
<1>1. Advance(r, "# TYPE ") = AtLine(r, "# TYPE ")
  BY DEF Advance, State
<1>2. Goto(r, "typed") = State("typed", w, t, s, b, l, i)
  BY StateGoto
<1>3. r.types = <<>> \/ (Family(r) # "# HELP " /\ Family(r) # "# TYPE ")
  BY Zenon DEF State, Family, NoComment
<1>4. "# TYPE " # NewLine /\ "# TYPE " # "# HELP "
  BY DEF NewLine
<1> HIDE DEF r
<1>5. AtLine(r, "# TYPE ") = Goto(r, "typed")
  BY <1>3, <1>4, Zenon DEF AtLine
<1> QED BY <1>1, <1>2, <1>5, Zenon DEF r

FamilyName(t, name) ==
  t # <<>> /\ name = t[Len(t)][1] /\ name \notin Punctuation \cup {"# HELP ", "# TYPE "}

LEMMA LineName ==
  ASSUME NEW w, NEW t, NEW s, NEW b, NEW l, NEW i, NEW c, FamilyName(t, c)
  PROVE  Advance(State("line", w, t, s, b, l, i), c) = State("labels", w, t, s, {}, l, i)
<1>1. c \notin Punctuation \cup {"# HELP ", "# TYPE "} /\ t # <<>> /\ c = t[Len(t)][1]
  BY Zenon DEF FamilyName
<1> QED BY <1>1, Marks, Zenon DEF Advance, State, Goto, AtLine, Family

(* In a string, by what becomes of the value.                              *)
LEMMA StringClosed ==
  ASSUME NEW w, NEW t, NEW s, NEW b, NEW l, NEW i, NEW d, NEW x, Inside(i, d) = In("closed", x)
  PROVE  Advance(State("string", w, t, s, b, l, i), d) = State("next", w, t, s, b \cup {<<l, x>>}, l, i)
<1>1. Inside(i, d).mode = "closed" /\ Inside(i, d).value = x
  BY DEF In
<1> QED BY <1>1 DEF Advance, State, Goto, AtString

LEMMA StringFailed ==
  ASSUME NEW w, NEW t, NEW s, NEW b, NEW l, NEW i, NEW d, NEW x, Inside(i, d) = In("error", x)
  PROVE  Advance(State("string", w, t, s, b, l, i), d) = State("error", w, t, s, b, l, i)
<1>1. Inside(i, d).mode = "error"
  BY DEF In
<1> QED BY <1>1 DEF Advance, State, Goto, AtString

LEMMA StringStays ==
  ASSUME NEW w, NEW t, NEW s, NEW b, NEW l, NEW i, NEW d, NEW m, NEW x, Inside(i, d) = In(m, x),
         m \in {"string", "escape"}
  PROVE  Advance(State("string", w, t, s, b, l, i), d) = State("string", w, t, s, b, l, In(m, x))
<1>1. Inside(i, d).mode \notin {"closed", "error"}
  BY DEF In
<1>2. Advance(State("string", w, t, s, b, l, i), d) = State("string", w, t, s, b, l, Inside(i, d))
  BY <1>1 DEF Advance, State, Goto, AtString
<1> QED BY <1>2

LEMMA StringOrdinary ==
  ASSUME NEW w, NEW t, NEW s, NEW b, NEW l, NEW v, NEW c,
         c \notin {Quote, Backslash, NewLine}
  PROVE  Advance(State("string", w, t, s, b, l, In("string", v)), c) = State("string", w, t, s, b, l, In("string", Append(v, c)))
BY InsideSteps, StringStays

LEMMA StringBackslash ==
  ASSUME NEW w, NEW t, NEW s, NEW b, NEW l, NEW v
  PROVE  Advance(State("string", w, t, s, b, l, In("string", v)), Backslash) = State("string", w, t, s, b, l, In("escape", v))
BY InsideSteps, StringStays

LEMMA StringQuote ==
  ASSUME NEW w, NEW t, NEW s, NEW b, NEW l, NEW v
  PROVE  Advance(State("string", w, t, s, b, l, In("string", v)), Quote) = State("next", w, t, s, b \cup {<<l, v>>}, l, In("string", v))
BY InsideSteps, StringClosed

LEMMA StringNewLine ==
  ASSUME NEW w, NEW t, NEW s, NEW b, NEW l, NEW v
  PROVE  Advance(State("string", w, t, s, b, l, In("string", v)), NewLine) = State("error", w, t, s, b, l, In("string", v))
BY InsideSteps, StringFailed

LEMMA EscapedMark ==
  ASSUME NEW w, NEW t, NEW s, NEW b, NEW l, NEW v, NEW c,
         c \in {Quote, Backslash}
  PROVE  Advance(State("string", w, t, s, b, l, In("escape", v)), c) = State("string", w, t, s, b, l, In("string", Append(v, c)))
BY InsideSteps, StringStays

LEMMA EscapedN ==
  ASSUME NEW w, NEW t, NEW s, NEW b, NEW l, NEW v
  PROVE  Advance(State("string", w, t, s, b, l, In("escape", v)), "n") = State("string", w, t, s, b, l, In("string", Append(v, NewLine)))
BY InsideSteps, StringStays

LEMMA EscapedOther ==
  ASSUME NEW w, NEW t, NEW s, NEW b, NEW l, NEW v, NEW c,
         c \notin {Quote, Backslash, "n"}
  PROVE  Advance(State("string", w, t, s, b, l, In("escape", v)), c) = State("error", w, t, s, b, l, In("escape", v))
BY InsideSteps, StringFailed

(***************************************************************************)
(* A few tokens at once.                                                   *)
(***************************************************************************)
LEMMA ReadingTwo ==
  ASSUME NEW r, NEW c, NEW d
  PROVE  Reading(r, <<c, d>>) = Advance(Advance(r, c), d)
<1> DEFINE p == <<c, d>>
<1>1. Len(p) = 2 /\ p[1] = c /\ p[2] = d
  OBVIOUS
<1> HIDE DEF p
<1>2. PICK g : Reads(g, r, p, 2) /\ Reading(r, p) = g[2]
  <2>1. Len(p) \in Nat
    BY <1>1
  <2>2. \E g : Reads(g, r, p, Len(p)) /\ Reading(r, p) = g[Len(p)]
    BY <2>1, ReadingSteps
  <2> QED BY <1>1, <2>2, Zenon
<1>3. g[0] = r /\ g[1] = Advance(g[1 - 1], p[1]) /\ g[2] = Advance(g[2 - 1], p[2])
  BY <1>2 DEF Reads
<1> QED BY <1>1, <1>2, <1>3 DEF p

LEMMA ReadingThree ==
  ASSUME NEW r, NEW c, NEW d, NEW e
  PROVE  Reading(r, <<c, d, e>>) = Advance(Advance(Advance(r, c), d), e)
<1> DEFINE p == <<c, d, e>>
<1>1. Len(p) = 3 /\ p[1] = c /\ p[2] = d /\ p[3] = e
  OBVIOUS
<1> HIDE DEF p
<1>2. PICK g : Reads(g, r, p, 3) /\ Reading(r, p) = g[3]
  <2>1. Len(p) \in Nat
    BY <1>1
  <2>2. \E g : Reads(g, r, p, Len(p)) /\ Reading(r, p) = g[Len(p)]
    BY <2>1, ReadingSteps
  <2> QED BY <1>1, <2>2, Zenon
<1>3. g[0] = r /\ g[1] = Advance(g[1 - 1], p[1]) /\ g[2] = Advance(g[2 - 1], p[2]) /\ g[3] = Advance(g[3 - 1], p[3])
  BY <1>2 DEF Reads
<1> QED BY <1>1, <1>2, <1>3 DEF p

(***************************************************************************)
(* A value, as it is written and as it is read.                            *)
(***************************************************************************)
LEMMA EscapeGathers ==
  ASSUME NEW tag, NEW v \in Seq(Tokens), NEW F, F = [c \in Tokens |-> EscapeChar(tag, c)]
  PROVE  Maps(F, Tokens, Tokens) /\ Escape(tag, v) = Gather(F, v)
<1>1. \A c \in Tokens : EscapeChar(tag, c) \in Seq(Tokens)
  <2> TAKE c \in Tokens
  <2>1. Backslash \in Tokens
    BY Marks, Zenon DEF Punctuation
  <2>2. <<c>> \in Seq(Tokens) /\ <<Backslash, c>> \in Seq(Tokens)
    BY <2>1
  <2> QED BY <2>2 DEF EscapeChar
<1>2. Maps(F, Tokens, Tokens)
  BY <1>1 DEF Maps
<1>3. \A n \in DOMAIN v : v[n] \in Tokens
  BY ElementOfSeq, LenProperties
<1>4. [n \in DOMAIN v |-> EscapeChar(tag, v[n])] = [n \in DOMAIN v |-> F[v[n]]]
  BY <1>3
<1> QED BY <1>2, <1>4 DEF Escape, Gather

LEMMA EscapeAppends ==
  ASSUME NEW tag, NEW v \in Seq(Tokens), NEW c \in Tokens
  PROVE  /\ Escape(tag, Append(v, c)) = Escape(tag, v) \o EscapeChar(tag, c)
         /\ Escape(tag, v) \in Seq(Tokens) /\ EscapeChar(tag, c) \in Seq(Tokens)
<1> DEFINE F == [x \in Tokens |-> EscapeChar(tag, x)]
           u == Append(v, c)
<1>1. u \in Seq(Tokens)
  BY AppendProperties
<1>2. F[c] = EscapeChar(tag, c)
  OBVIOUS
<1>3. F = [x \in Tokens |-> EscapeChar(tag, x)]
  OBVIOUS
<1> HIDE DEF F, u
<1>4. Maps(F, Tokens, Tokens) /\ Escape(tag, v) = Gather(F, v) /\ Escape(tag, u) = Gather(F, u)
  BY <1>1, <1>3, EscapeGathers
<1>5. Gather(F, Append(v, c)) = Gather(F, v) \o F[c]
  BY <1>4, GatherAppend
<1>6. Gather(F, v) \in Seq(Tokens) /\ F[c] \in Seq(Tokens)
  BY <1>4, GatherType, MapsAt
<1> QED BY <1>2, <1>4, <1>5, <1>6 DEF u

LEMMA EscapeEmpty ==
  ASSUME NEW tag PROVE Escape(tag, <<>>) = <<>>
<1>1. [n \in DOMAIN <<>> |-> EscapeChar(tag, <<>>[n])] = <<>>
  OBVIOUS
<1> QED BY <1>1, FlattenEmpty, Zenon DEF Escape

(* A string of a friendly_json is written as it is.                        *)
LEMMA EscapeNothing ==
  ASSUME NEW tag, tag # "name"
  PROVE  \A v \in Seq(Tokens) : Escape(tag, v) = v
<1> DEFINE S == {v \in Seq(Tokens) : Escape(tag, v) = v}
<1>1. <<>> \in S
  BY EscapeEmpty
<1>2. ASSUME NEW v \in Seq(Tokens), NEW c \in Tokens, v \in S
      PROVE  Append(v, c) \in S
  <2>1. EscapeChar(tag, c) = <<c>>
    BY DEF EscapeChar
  <2>2. Escape(tag, Append(v, c)) = Escape(tag, v) \o <<c>> /\ Escape(tag, v) = v
    BY <1>2, <2>1, EscapeAppends
  <2>3. Append(v, c) = v \o <<c>> /\ Append(v, c) \in Seq(Tokens)
    BY AppendIsConcat, AppendProperties
  <2> QED BY <2>2, <2>3
<1>3. \A v \in Seq(Tokens) : v \in S
  <2> HIDE DEF S
  <2> QED BY <1>1, <1>2, SeqInduction
<1> QED BY <1>3

LEMMA PlainAppend ==
  ASSUME NEW tag, NEW v \in Seq(Tokens), NEW c \in Tokens
  PROVE  Plain(tag, Append(v, c)) <=> Plain(tag, v) /\ c \notin Special(tag)
<1>1. PICK k \in Nat : k = Len(v) /\ DOMAIN v = 1 .. k
  BY LenProperties
<1>2. DOMAIN Append(v, c) = 1 .. k + 1 /\ Append(v, c)[k + 1] = c /\ \A n \in 1 .. k : Append(v, c)[n] = v[n]
  <2>1. Append(v, c) \in Seq(Tokens) /\ Len(Append(v, c)) = k + 1
    BY <1>1, AppendProperties
  <2> QED BY <1>1, <2>1, AppendProperties, LenProperties
<1>3. \A n \in 1 .. k + 1 : n \in 1 .. k \/ n = k + 1
  OBVIOUS
<1>4. \A n \in 1 .. k : n \in 1 .. k + 1
  OBVIOUS
<1>5. k + 1 \in 1 .. k + 1
  OBVIOUS
<1> DEFINE u == Append(v, c)
<1>6. DOMAIN u = 1 .. k + 1 /\ u[k + 1] = c /\ \A n \in 1 .. k : u[n] = v[n]
  BY <1>2
<1> HIDE DEF u
<1>7. Plain(tag, u) <=> Plain(tag, v) /\ c \notin Special(tag)
  BY <1>1, <1>3, <1>4, <1>5, <1>6 DEF Plain
<1> QED BY <1>7 DEF u

(* A plain value reads back.                                               *)
LEMMA PlainReads ==
  ASSUME NEW w, NEW t, NEW s, NEW b, NEW l, NEW tag
  PROVE  \A v \in Seq(Tokens) : Plain(tag, v) =>
           Reading(State("string", w, t, s, b, l, Opened), Escape(tag, v)) =
             State("string", w, t, s, b, l, In("string", v))
<1> DEFINE q(v) == State("string", w, t, s, b, l, In("string", v))
           r == State("string", w, t, s, b, l, Opened)
           S == {v \in Seq(Tokens) : Plain(tag, v) => Reading(r, Escape(tag, v)) = q(v)}
<1>0. \A v, c : /\ c \notin {Quote, Backslash, NewLine} => Advance(q(v), c) = q(Append(v, c))
               /\ Advance(Advance(q(v), Backslash), Quote) = q(Append(v, Quote))
  <2> TAKE v, c
  <2>1. c \notin {Quote, Backslash, NewLine} => Advance(q(v), c) = q(Append(v, c))
    BY StringOrdinary
  <2>2. Advance(q(v), Backslash) = State("string", w, t, s, b, l, In("escape", v))
    BY StringBackslash
  <2>3. Quote \in {Quote, Backslash}
    OBVIOUS
  <2>4. Advance(State("string", w, t, s, b, l, In("escape", v)), Quote) = q(Append(v, Quote))
    BY <2>3, EscapedMark
  <2> QED BY <2>1, <2>2, <2>4, Zenon
<1>1. <<>> \in S
  <2>1. r = q(<<>>)
    BY DEF Opened, In
  <2>2. Reading(r, Escape(tag, <<>>)) = r
    BY EscapeEmpty, ReadingNothing, Zenon
  <2>3. <<>> \in Seq(Tokens)
    OBVIOUS
  <2> HIDE DEF r, q
  <2> QED BY <2>1, <2>2, <2>3
<1>2. ASSUME NEW v \in Seq(Tokens), NEW c \in Tokens, v \in S
      PROVE  Append(v, c) \in S
  <2> SUFFICES ASSUME Plain(tag, Append(v, c))
               PROVE  Reading(r, Escape(tag, Append(v, c))) = q(Append(v, c))
    BY AppendProperties
  <2>1. Plain(tag, v) /\ c \notin Special(tag)
    BY PlainAppend
  <2>2. Reading(r, Escape(tag, v)) = q(v)
    BY <1>2, <2>1
  <2>3. Reading(q(v), EscapeChar(tag, c)) = q(Append(v, c))
    <3>4. CASE tag = "name" /\ c = Quote
      <4>1. EscapeChar(tag, c) = <<Backslash, Quote>>
        BY <3>4 DEF EscapeChar
      <4>2. Reading(q(v), <<Backslash, Quote>>) = Advance(Advance(q(v), Backslash), Quote)
        BY ReadingTwo
      <4> HIDE DEF q
      <4> QED BY <1>0, <3>4, <4>1, <4>2
    <3>5. CASE ~(tag = "name" /\ c = Quote)
      <4>1. EscapeChar(tag, c) = <<c>>
        BY <3>5 DEF EscapeChar
      <4>2. c \notin {Quote, Backslash, NewLine}
        BY <2>1, <3>5 DEF Special
      <4> HIDE DEF q
      <4> QED BY <1>0, <4>1, <4>2, ReadingOne
    <3> QED BY <3>4, <3>5
  <2>4. Reading(r, Escape(tag, v) \o EscapeChar(tag, c)) = Reading(Reading(r, Escape(tag, v)), EscapeChar(tag, c))
    <3> DEFINE a == Escape(tag, v)
               d == EscapeChar(tag, c)
    <3>1. a \in Seq(Tokens) /\ d \in Seq(Tokens)
      BY EscapeAppends
    <3> HIDE DEF a, d, r
    <3>2. Reading(r, a \o d) = Reading(Reading(r, a), d)
      BY <3>1, ReadingConcat
    <3> QED BY <3>2 DEF a, d
  <2>5. Escape(tag, Append(v, c)) = Escape(tag, v) \o EscapeChar(tag, c)
    BY EscapeAppends
  <2> HIDE DEF q, r
  <2> QED BY <2>2, <2>3, <2>4, <2>5
<1>3. \A v \in Seq(Tokens) : v \in S
  <2> HIDE DEF S
  <2> QED BY <1>1, <1>2, SeqInduction
<1> QED BY <1>3

(***************************************************************************)
(* The entries of a row: what its labels are to say, and whether as a      *)
(* friendly name or as it is.                                              *)
(***************************************************************************)
Entry == [name : Tokens, tag : {"name", "json"}, value : Seq(Tokens)]
Shown(e) == <<e.name, Escape(e.tag, e.value)>>
Piece(first, e) == (IF first THEN <<>> ELSE <<",">>) \o RenderLabel(Shown(e))
LabelsText(es) == FlattenSeq([n \in DOMAIN es |-> (IF n = 1 THEN <<>> ELSE <<",">>) \o RenderLabel(Shown(es[n]))])
Pairs(es) == {<<es[n].name, es[n].value>> : n \in DOMAIN es}
Distinct(es) == \A m, n \in DOMAIN es : es[m].name = es[n].name => m = n
Sane(es) == Distinct(es) /\ \A n \in DOMAIN es : es[n].name \notin Punctuation
AllPlain(es) == \A n \in DOMAIN es : Plain(es[n].tag, es[n].value)

LEMMA EscapeType ==
  ASSUME NEW tag, NEW v \in Seq(Tokens)
  PROVE  Escape(tag, v) \in Seq(Tokens)
<1> DEFINE F == [c \in Tokens |-> EscapeChar(tag, c)]
<1>1. F = [c \in Tokens |-> EscapeChar(tag, c)]
  OBVIOUS
<1> HIDE DEF F
<1>2. Maps(F, Tokens, Tokens) /\ Escape(tag, v) = Gather(F, v)
  BY <1>1, EscapeGathers
<1> QED BY <1>2, GatherType

LEMMA Tuples ==
  ASSUME NEW S
  PROVE  /\ <<>> \in Seq(S)
         /\ \A a, b, c, d \in S :
              <<a>> \in Seq(S) /\ <<a, b>> \in Seq(S) /\ <<a, b, c>> \in Seq(S) /\ <<a, b, c, d>> \in Seq(S)
OBVIOUS

LEMMA LabelTypes ==
  ASSUME NEW e \in Entry
  PROVE  /\ <<e.name, "=", Quote>> \in Seq(Tokens) /\ Escape(e.tag, e.value) \in Seq(Tokens)
         /\ <<Quote>> \in Seq(Tokens) /\ <<",">> \in Seq(Tokens)
         /\ RenderLabel(Shown(e)) = (<<e.name, "=", Quote>> \o Escape(e.tag, e.value)) \o <<Quote>>
         /\ <<e.name, "=", Quote>> \o Escape(e.tag, e.value) \in Seq(Tokens)
         /\ RenderLabel(Shown(e)) \in Seq(Tokens)
         /\ \A first \in BOOLEAN : Piece(first, e) \in Seq(Tokens)
<1>1. "=" \in Tokens /\ Quote \in Tokens /\ "," \in Tokens /\ e.name \in Tokens /\ e.value \in Seq(Tokens)
  BY Marks, Zenon DEF Punctuation, Entry
<1>2. <<e.name, "=", Quote>> \in Seq(Tokens) /\ <<Quote>> \in Seq(Tokens) /\ <<",">> \in Seq(Tokens)
  BY <1>1, Tuples, Zenon
<1>3. Escape(e.tag, e.value) \in Seq(Tokens)
  BY <1>1, EscapeType, Zenon
<1>4. Shown(e)[1] = e.name /\ Shown(e)[2] = Escape(e.tag, e.value)
  BY DEF Shown
<1>5. RenderLabel(Shown(e)) = (<<e.name, "=", Quote>> \o Escape(e.tag, e.value)) \o <<Quote>>
  BY <1>4, Zenon DEF RenderLabel
<1>6. <<e.name, "=", Quote>> \o Escape(e.tag, e.value) \in Seq(Tokens)
  BY <1>2, <1>3, ConcatProperties, Zenon
<1>7. RenderLabel(Shown(e)) \in Seq(Tokens)
  <2> DEFINE a == <<e.name, "=", Quote>> \o Escape(e.tag, e.value)
             d == <<Quote>>
  <2>1. a \in Seq(Tokens) /\ d \in Seq(Tokens)
    BY <1>2, <1>6, Zenon
  <2> HIDE DEF a, d
  <2>2. a \o d \in Seq(Tokens)
    BY <2>1, ConcatProperties
  <2> QED BY <1>5, <2>2 DEF a, d
<1>8. \A first \in BOOLEAN : Piece(first, e) \in Seq(Tokens)
  <2> TAKE first \in BOOLEAN
  <2> DEFINE a == IF first THEN <<>> ELSE <<",">>
             d == RenderLabel(Shown(e))
  <2>1. a \in Seq(Tokens) /\ d \in Seq(Tokens)
    BY <1>2, <1>7, Tuples, Zenon
  <2> HIDE DEF a, d
  <2>2. a \o d \in Seq(Tokens)
    BY <2>1, ConcatProperties
  <2> QED BY <2>2, Zenon DEF a, d, Piece
<1> QED BY <1>2, <1>3, <1>5, <1>6, <1>7, <1>8, Zenon

(* A label is opened, its value read, and closed.                          *)
LEMMA OpenReads ==
  ASSUME NEW w, NEW t, NEW s, NEW b, NEW l, NEW i, NEW c, c \notin Punctuation, \A x \in b : x[1] # c
  PROVE  Reading(State("label", w, t, s, b, l, i), <<c, "=", Quote>>) = State("string", w, t, s, b, c, Opened)
<1> DEFINE r == State("label", w, t, s, b, l, i)
<1>1. Reading(r, <<c, "=", Quote>>) = Advance(Advance(Advance(r, c), "="), Quote)
  BY ReadingThree
<1>2. Advance(r, c) = State("equals", w, t, s, b, c, i)
  BY LabelName
<1>3. Advance(State("equals", w, t, s, b, c, i), "=") = State("open", w, t, s, b, c, i)
  BY LabelEquals
<1>4. Advance(State("open", w, t, s, b, c, i), Quote) = State("string", w, t, s, b, c, Opened)
  BY LabelOpen
<1> HIDE DEF r
<1> QED BY <1>1, <1>2, <1>3, <1>4, Zenon DEF r

LEMMA LabelSplits ==
  ASSUME NEW r, NEW e \in Entry
  PROVE  Reading(r, RenderLabel(Shown(e))) =
           Advance(Reading(Reading(r, <<e.name, "=", Quote>>), Escape(e.tag, e.value)), Quote)
<1> DEFINE a == <<e.name, "=", Quote>>
           d == Escape(e.tag, e.value)
           q == <<Quote>>
           u == a \o d
<1>1. a \in Seq(Tokens) /\ d \in Seq(Tokens) /\ q \in Seq(Tokens) /\ u \in Seq(Tokens)
      /\ RenderLabel(Shown(e)) = u \o q
  BY LabelTypes, Zenon
<1>2. \A x : Reading(x, q) = Advance(x, Quote)
  BY ReadingOne
<1> HIDE DEF a, d, q
<1>3. Reading(r, a \o d) = Reading(Reading(r, a), d)
  BY <1>1, ReadingConcat
<1> HIDE DEF u
<1>4. Reading(r, u \o q) = Reading(Reading(r, u), q)
  BY <1>1, ReadingConcat
<1> QED BY <1>1, <1>2, <1>3, <1>4, Zenon DEF u, a, d

ReadyFor(e, b) == e.name \notin Punctuation /\ (\A x \in b : x[1] # e.name) /\ Plain(e.tag, e.value)
LEMMA PlainLabelReads ==
  ASSUME NEW w, NEW t, NEW s, NEW b, NEW l, NEW i, NEW e \in Entry, ReadyFor(e, b)
  PROVE  Reading(State("label", w, t, s, b, l, i), RenderLabel(Shown(e))) =
           State("next", w, t, s, b \cup {<<e.name, e.value>>}, e.name, In("string", e.value))
<1> DEFINE r == State("label", w, t, s, b, l, i)
           c == e.name
           v == e.value
<1>0. c \notin Punctuation /\ (\A x \in b : x[1] # c) /\ Plain(e.tag, v)
  BY DEF ReadyFor
<1>1. Reading(r, <<c, "=", Quote>>) = State("string", w, t, s, b, c, Opened)
  BY <1>0, OpenReads
<1>2. v \in Seq(Tokens)
  BY DEF Entry
<1>3. Reading(State("string", w, t, s, b, c, Opened), Escape(e.tag, v)) = State("string", w, t, s, b, c, In("string", v))
  BY <1>0, <1>2, PlainReads
<1>4. Advance(State("string", w, t, s, b, c, In("string", v)), Quote) =
        State("next", w, t, s, b \cup {<<c, v>>}, c, In("string", v))
  BY StringQuote
<1>5. Reading(r, RenderLabel(Shown(e))) = Advance(Reading(Reading(r, <<c, "=", Quote>>), Escape(e.tag, v)), Quote)
  BY LabelSplits
<1> HIDE DEF r, c, v
<1>6. Reading(r, RenderLabel(Shown(e))) = State("next", w, t, s, b \cup {<<c, v>>}, c, In("string", v))
  BY <1>1, <1>3, <1>4, <1>5, Zenon
<1> QED BY <1>6 DEF r, c, v

(***************************************************************************)
(* What a friendly name can make of the reader: it may still be inside the *)
(* string, or ahead of the writer, or have refused the text. No sample and *)
(* no family is read on the way.                                           *)
(***************************************************************************)
AheadModes == {"next", "label", "equals", "open", "space", "value", "sample", "error"}
Failed(q, t, s) == \E w, b, l, i : q = State("error", w, t, s, b, l, i)
Stuck(q, t, s) == \E w, b, l, v : q = State("string", w, t, s, b, l, In("string", v))
Ahead(q, t, s) == \E m \in AheadModes : \E w, b, l, i : q = State(m, w, t, s, b, l, i)
Within(q, w, t, s, b, l) ==
  \/ \E v : q = State("string", w, t, s, b, l, In("string", v))
  \/ \E v : q = State("string", w, t, s, b, l, In("escape", v))

LEMMA FailedStays ==
  ASSUME NEW q, NEW t, NEW s, Failed(q, t, s), NEW p, Len(p) \in Nat
  PROVE  Reading(q, p) = q
<1>1. \A c : Advance(q, c) = q
  BY DEF Failed, Advance, State
<1>2. PICK g : Reads(g, q, p, Len(p)) /\ Reading(q, p) = g[Len(p)]
  BY ReadingSteps
<1> DEFINE S == {n \in Nat : n <= Len(p) => g[n] = q}
<1>3. 0 \in S
  BY <1>2 DEF Reads
<1>4. ASSUME NEW n \in Nat, n \in S
      PROVE  n + 1 \in S
  <2> SUFFICES ASSUME n + 1 <= Len(p) PROVE g[n + 1] = q
    OBVIOUS
  <2>1. n + 1 \in 1 .. Len(p) /\ (n + 1) - 1 = n /\ g[n] = q
    BY <1>4
  <2>2. g[n + 1] = Advance(g[(n + 1) - 1], p[n + 1])
    BY <1>2, <2>1 DEF Reads
  <2> QED BY <1>1, <2>1, <2>2
<1>5. \A n \in Nat : n \in S
  <2> HIDE DEF S
  <2> QED BY <1>3, <1>4, Induction
<1> QED BY <1>2, <1>5

LEMMA AheadMoves ==
  ASSUME NEW m \in AheadModes, NEW w, NEW t, NEW s, NEW b, NEW l, NEW i, NEW c
  PROVE  /\ c \notin {Quote, NewLine} => Ahead(Advance(State(m, w, t, s, b, l, i), c), t, s)
         /\ c = Backslash => Failed(Advance(State(m, w, t, s, b, l, i), c), t, s)
         /\ c = Quote => \/ Failed(Advance(State(m, w, t, s, b, l, i), c), t, s)
                         \/ Stuck(Advance(State(m, w, t, s, b, l, i), c), t, s)
<1> DEFINE r == State(m, w, t, s, b, l, i)
           q == Advance(r, c)
<1>0. /\ {Quote, Backslash, NewLine} \subseteq Punctuation
      /\ {Quote, Backslash, NewLine} \cap {"=", ",", " ", "}"} = {}
      /\ Quote # Backslash /\ Backslash # NewLine /\ Quote # NewLine
  BY Marks, Zenon DEF Punctuation
<1>1. \A n \in AheadModes : \A x, a, d, j : Ahead(State(n, x, t, s, a, d, j), t, s)
  BY DEF Ahead
<1>2. \A x, a, d, j : Failed(State("error", x, t, s, a, d, j), t, s)
  BY DEF Failed
<1>3. CASE m = "next"
  <2>1. q = State(IF c = "," THEN "label" ELSE IF c = "}" THEN "space" ELSE "error", w, t, s, b, l, i)
    BY <1>3, Zenon DEF Advance, State, Goto, Expect
  <2> QED BY <1>0, <1>1, <1>2, <2>1, Zenon DEF AheadModes
<1>4. CASE m = "label"
  <2>1. \/ c \notin Punctuation /\ q = State("equals", w, t, s, b, c, i)
        \/ q = State("error", w, t, s, b, l, i)
    BY <1>4, Zenon DEF Advance, State, Goto, AtLabel
  <2> QED BY <1>0, <1>1, <1>2, <2>1 DEF AheadModes
<1>5. CASE m = "equals"
  <2>1. q = State(IF c = "=" THEN "open" ELSE "error", w, t, s, b, l, i)
    BY <1>5 DEF Advance, State, Goto, Expect
  <2> QED BY <1>0, <1>1, <1>2, <2>1 DEF AheadModes
<1>6. CASE m = "open"
  <2>1. q = State(IF c = Quote THEN "string" ELSE "error", w, t, s, b, l, Opened)
    BY <1>6, Zenon DEF Advance, State, Goto, Expect
  <2>2. c = Quote => Stuck(q, t, s)
    BY <2>1 DEF Stuck, Opened, In
  <2> QED BY <1>0, <1>1, <1>2, <2>1, <2>2 DEF AheadModes
<1>7. CASE m = "space"
  <2>1. q = State(IF c = " " THEN "value" ELSE "error", w, t, s, b, l, i)
    BY <1>7, Zenon DEF Advance, State, Goto, Expect
  <2> QED BY <1>0, <1>1, <1>2, <2>1, Zenon DEF AheadModes
<1>8. CASE m = "value"
  <2>1. \/ c \notin Punctuation /\ q = State("sample", c, t, s, b, l, i)
        \/ q = State("error", w, t, s, b, l, i)
    BY <1>8 DEF Advance, State, Goto
  <2> QED BY <1>0, <1>1, <1>2, <2>1, Zenon DEF AheadModes
<1>9. CASE m = "sample"
  <2>1. c # NewLine => q = State("error", w, t, s, b, l, i)
    BY <1>9 DEF Advance, State, Goto, AtEndOfSample
  <2> QED BY <1>0, <1>1, <1>2, <2>1 DEF AheadModes
<1>10. CASE m = "error"
  <2>1. q = State("error", w, t, s, b, l, i)
    BY <1>10 DEF Advance, State
  <2> QED BY <1>0, <1>1, <1>2, <2>1 DEF AheadModes
<1> QED BY <1>3, <1>4, <1>5, <1>6, <1>7, <1>8, <1>9, <1>10 DEF AheadModes

(* One character of a friendly name.                                       *)
LEMMA NameStep ==
  ASSUME NEW w, NEW t, NEW s, NEW b, NEW l, NEW q, NEW c, c # NewLine,
         Within(q, w, t, s, b, l) \/ Ahead(q, t, s)
  PROVE  \/ Within(Reading(q, EscapeChar("name", c)), w, t, s, b, l)
         \/ Ahead(Reading(q, EscapeChar("name", c)), t, s)
<1>0. Quote # Backslash /\ Quote # NewLine /\ Backslash # NewLine
  BY Marks, Zenon
<1>6. \A u : Advance(State("string", w, t, s, b, l, In("string", u)), Quote) =
               State("next", w, t, s, b \cup {<<l, u>>}, l, In("string", u))
  BY StringQuote
<1>1. c = Quote => Reading(q, EscapeChar("name", c)) = Advance(Advance(q, Backslash), Quote)
  BY ReadingTwo DEF EscapeChar
<1>2. c # Quote => Reading(q, EscapeChar("name", c)) = Advance(q, c)
  BY ReadingOne DEF EscapeChar
<1>3. ASSUME NEW v, q = State("string", w, t, s, b, l, In("string", v))
      PROVE  Within(Reading(q, EscapeChar("name", c)), w, t, s, b, l)
  <2>1. Advance(q, Backslash) = State("string", w, t, s, b, l, In("escape", v))
    BY <1>3, StringBackslash
  <2>2. Advance(State("string", w, t, s, b, l, In("escape", v)), Quote) =
          State("string", w, t, s, b, l, In("string", Append(v, Quote)))
    BY EscapedMark
  <2>3. c \notin {Quote, Backslash, NewLine} =>
          Advance(q, c) = State("string", w, t, s, b, l, In("string", Append(v, c)))
    BY <1>3, StringOrdinary
  <2> QED BY <1>1, <1>2, <2>1, <2>2, <2>3 DEF Within
<1>4. ASSUME NEW v, q = State("string", w, t, s, b, l, In("escape", v))
      PROVE  \/ Within(Reading(q, EscapeChar("name", c)), w, t, s, b, l)
             \/ Ahead(Reading(q, EscapeChar("name", c)), t, s)
  <2>1. Advance(q, Backslash) = State("string", w, t, s, b, l, In("string", Append(v, Backslash)))
    BY <1>4, EscapedMark
  <2>2. Advance(State("string", w, t, s, b, l, In("string", Append(v, Backslash))), Quote) =
          State("next", w, t, s, b \cup {<<l, Append(v, Backslash)>>}, l, In("string", Append(v, Backslash)))
    BY <1>6
  <2>3. c = "n" => Advance(q, c) = State("string", w, t, s, b, l, In("string", Append(v, NewLine)))
    BY <1>4, EscapedN
  <2>4. c \notin {Quote, Backslash, "n"} => Advance(q, c) = State("error", w, t, s, b, l, In("escape", v))
    BY <1>4, EscapedOther
  <2>5. c = Quote => Ahead(Reading(q, EscapeChar("name", c)), t, s)
    <3> SUFFICES ASSUME c = Quote PROVE Ahead(Reading(q, EscapeChar("name", c)), t, s)
      OBVIOUS
    <3>1. Reading(q, EscapeChar("name", c)) =
            State("next", w, t, s, b \cup {<<l, Append(v, Backslash)>>}, l, In("string", Append(v, Backslash)))
      BY <1>1, <2>1, <2>2, Zenon
    <3>2. "next" \in AheadModes
      BY DEF AheadModes
    <3> QED BY <3>1, <3>2, Zenon DEF Ahead
  <2>6. c \notin {Quote, Backslash, "n"} => Ahead(Reading(q, EscapeChar("name", c)), t, s)
    BY <1>2, <2>4 DEF Ahead, AheadModes
  <2>7. c = Backslash => Within(Reading(q, EscapeChar("name", c)), w, t, s, b, l)
    BY <1>0, <1>2, <2>1 DEF Within
  <2>8. c = "n" /\ c # Quote => Within(Reading(q, EscapeChar("name", c)), w, t, s, b, l)
    BY <1>2, <2>3 DEF Within
  <2> QED BY <2>5, <2>6, <2>7, <2>8
<1>5. ASSUME NEW m \in AheadModes, NEW x, NEW a, NEW d, NEW i, q = State(m, x, t, s, a, d, i)
      PROVE  Ahead(Reading(q, EscapeChar("name", c)), t, s)
  <2>1. c # Quote => Ahead(Advance(q, c), t, s)
    BY <1>5, AheadMoves
  <2>2. Failed(Advance(q, Backslash), t, s)
    BY <1>5, AheadMoves
  <2>3. PICK y, e, f, j : Advance(q, Backslash) = State("error", y, t, s, e, f, j)
    BY <2>2 DEF Failed
  <2>4. Advance(State("error", y, t, s, e, f, j), Quote) = State("error", y, t, s, e, f, j)
    BY DEF Advance, State
  <2>5. Ahead(State("error", y, t, s, e, f, j), t, s)
    BY DEF Ahead, AheadModes
  <2> QED BY <1>1, <1>2, <2>1, <2>3, <2>4, <2>5
<1> QED BY <1>3, <1>4, <1>5 DEF Within, Ahead

(* A whole friendly name, and the quote that ends it.                      *)
LEMMA NameReads ==
  ASSUME NEW w, NEW t, NEW s, NEW b, NEW l
  PROVE  \A v \in Seq(Tokens) : (\A n \in DOMAIN v : v[n] # NewLine) =>
           \/ Within(Reading(State("string", w, t, s, b, l, Opened), Escape("name", v)), w, t, s, b, l)
           \/ Ahead(Reading(State("string", w, t, s, b, l, Opened), Escape("name", v)), t, s)
<1> DEFINE r == State("string", w, t, s, b, l, Opened)
           Ok(q) == Within(q, w, t, s, b, l) \/ Ahead(q, t, s)
           S == {v \in Seq(Tokens) : (\A n \in DOMAIN v : v[n] # NewLine) => Ok(Reading(r, Escape("name", v)))}
<1>1. <<>> \in S
  <2>1. r = State("string", w, t, s, b, l, In("string", <<>>))
    BY DEF Opened, In
  <2>2. Reading(r, Escape("name", <<>>)) = r
    BY EscapeEmpty, ReadingNothing, Zenon
  <2>3. <<>> \in Seq(Tokens)
    OBVIOUS
  <2>4. Ok(r)
    BY <2>1 DEF Within
  <2> HIDE DEF r, Ok
  <2> QED BY <2>2, <2>3, <2>4
<1>2. ASSUME NEW v \in Seq(Tokens), NEW c \in Tokens, v \in S
      PROVE  Append(v, c) \in S
  <2>0. Append(v, c) \in Seq(Tokens)
    BY AppendProperties
  <2> SUFFICES ASSUME \A n \in DOMAIN Append(v, c) : Append(v, c)[n] # NewLine
               PROVE  Ok(Reading(r, Escape("name", Append(v, c))))
    BY <2>0
  <2>1. c # NewLine /\ \A n \in DOMAIN v : v[n] # NewLine
    <3>1. PICK k \in Nat : k = Len(v) /\ DOMAIN v = 1 .. k
      BY LenProperties
    <3>2. DOMAIN Append(v, c) = 1 .. k + 1 /\ Append(v, c)[k + 1] = c /\ \A n \in 1 .. k : Append(v, c)[n] = v[n]
      <4>1. Append(v, c) \in Seq(Tokens) /\ Len(Append(v, c)) = k + 1
        BY <3>1, AppendProperties
      <4> QED BY <3>1, <4>1, AppendProperties, LenProperties
    <3>3. k + 1 \in 1 .. k + 1 /\ \A n \in 1 .. k : n \in 1 .. k + 1
      OBVIOUS
    <3> QED BY <3>1, <3>2, <3>3
  <2>2. Ok(Reading(r, Escape("name", v)))
    BY <1>2, <2>1
  <2> DEFINE q == Reading(r, Escape("name", v))
  <2>3. Ok(Reading(q, EscapeChar("name", c)))
    <3> HIDE DEF q
    <3> QED BY <2>1, <2>2, NameStep DEF q
  <2>4. Reading(r, Escape("name", v) \o EscapeChar("name", c)) = Reading(q, EscapeChar("name", c))
    <3> DEFINE a == Escape("name", v)
               d == EscapeChar("name", c)
    <3>1. a \in Seq(Tokens) /\ d \in Seq(Tokens)
      BY EscapeAppends
    <3> HIDE DEF a, d, r
    <3>2. Reading(r, a \o d) = Reading(Reading(r, a), d)
      BY <3>1, ReadingConcat
    <3> QED BY <3>2 DEF a, d
  <2>5. Escape("name", Append(v, c)) = Escape("name", v) \o EscapeChar("name", c)
    BY EscapeAppends
  <2> HIDE DEF Ok, r, q
  <2> QED BY <2>3, <2>4, <2>5
<1>3. \A v \in Seq(Tokens) : v \in S
  <2> HIDE DEF S
  <2> QED BY <1>1, <1>2, SeqInduction
<1> QED BY <1>3

LEMMA NameLabelReads ==
  ASSUME NEW w, NEW t, NEW s, NEW b, NEW l, NEW i, NEW e \in Entry, e.tag = "name",
         e.name \notin Punctuation, \A x \in b : x[1] # e.name, \A n \in DOMAIN e.value : e.value[n] # NewLine,
         NEW q, q = Reading(State("label", w, t, s, b, l, i), RenderLabel(Shown(e)))
  PROVE  \/ \E v : q = State("next", w, t, s, b \cup {<<e.name, v>>}, e.name, In("string", v))
         \/ Stuck(q, t, s)
         \/ Failed(q, t, s)
<1> DEFINE r == State("label", w, t, s, b, l, i)
           c == e.name
           p == Reading(State("string", w, t, s, b, c, Opened), Escape("name", e.value))
<1>1. Reading(r, <<c, "=", Quote>>) = State("string", w, t, s, b, c, Opened)
  BY OpenReads
<1>2. e.value \in Seq(Tokens)
  BY DEF Entry
<1>3. Within(p, w, t, s, b, c) \/ Ahead(p, t, s)
  BY <1>2, NameReads
<1>4. Reading(r, RenderLabel(Shown(e))) = Advance(Reading(Reading(r, <<c, "=", Quote>>), Escape(e.tag, e.value)), Quote)
  BY LabelSplits
<1>5. q = Advance(p, Quote)
  BY <1>1, <1>4, Zenon
<1> HIDE DEF p, c
<1>6. ASSUME NEW v, p = State("string", w, t, s, b, c, In("string", v))
      PROVE  q = State("next", w, t, s, b \cup {<<c, v>>}, c, In("string", v))
  BY <1>5, <1>6, StringQuote
<1>7. ASSUME NEW v, p = State("string", w, t, s, b, c, In("escape", v))
      PROVE  Stuck(q, t, s)
  <2>1. q = State("string", w, t, s, b, c, In("string", Append(v, Quote)))
    BY <1>5, <1>7, EscapedMark
  <2> QED BY <2>1 DEF Stuck
<1>8. ASSUME NEW m \in AheadModes, NEW x, NEW a, NEW d, NEW j, p = State(m, x, t, s, a, d, j)
      PROVE  Stuck(q, t, s) \/ Failed(q, t, s)
  <2>1. Quote = Quote => \/ Failed(Advance(State(m, x, t, s, a, d, j), Quote), t, s)
                         \/ Stuck(Advance(State(m, x, t, s, a, d, j), Quote), t, s)
    BY AheadMoves
  <2> QED BY <1>5, <1>8, <2>1
<1> QED BY <1>3, <1>6, <1>7, <1>8 DEF Within, Ahead, c

(* Still inside the string, the reader takes the next quote for its end,   *)
(* and refuses the first character of the value that follows.              *)
Firm(e) == e.tag = "json" /\ e.value # <<>> /\ e.value[1] \notin Punctuation

LEMMA StuckLabel ==
  ASSUME NEW t, NEW s, NEW p, Stuck(p, t, s), NEW e \in Entry, e.name \notin Punctuation, Firm(e)
  PROVE  Failed(Reading(p, RenderLabel(Shown(e))), t, s)
<1>1. PICK w, b, l, v : p = State("string", w, t, s, b, l, In("string", v))
  BY DEF Stuck
<1>0. Punctuation = {"{", "}", "=", ",", " ", Quote, Backslash, NewLine} /\ "=" \notin {Quote, Backslash, NewLine}
  BY Marks, Zenon
<1> DEFINE u == Append(v, e.name)
           x == Append(u, "=")
           q == State("next", w, t, s, b \cup {<<l, x>>}, l, In("string", x))
<1>2. Reading(p, <<e.name, "=", Quote>>) = q
  <2>1. Reading(p, <<e.name, "=", Quote>>) = Advance(Advance(Advance(p, e.name), "="), Quote)
    BY ReadingThree
  <2>2. Advance(p, e.name) = State("string", w, t, s, b, l, In("string", u))
    <3>1. e.name \notin {Quote, Backslash, NewLine}
      BY <1>0, Zenon
    <3> QED BY <1>1, <3>1, StringOrdinary
  <2> HIDE DEF u
  <2>3. Advance(State("string", w, t, s, b, l, In("string", u)), "=") = State("string", w, t, s, b, l, In("string", x))
    <3> DEFINE c == "="
    <3>1. c \notin {Quote, Backslash, NewLine} /\ x = Append(u, c)
      BY <1>0, Zenon
    <3> HIDE DEF c, x
    <3>2. Advance(State("string", w, t, s, b, l, In("string", u)), c) = State("string", w, t, s, b, l, In("string", Append(u, c)))
      BY <3>1, StringOrdinary
    <3> QED BY <3>1, <3>2, Zenon DEF c
  <2> HIDE DEF x
  <2>4. Advance(State("string", w, t, s, b, l, In("string", x)), Quote) = q
    BY StringQuote
  <2> HIDE DEF q
  <2> QED BY <2>1, <2>2, <2>3, <2>4, Zenon
<1> HIDE DEF u, x
<1>3. e.value \in Seq(Tokens) /\ e.tag # "name" /\ e.value # <<>>
  BY DEF Entry, Firm
<1>4. Escape(e.tag, e.value) = e.value
  BY <1>3, EscapeNothing
<1> DEFINE h == Head(e.value)
           o == Tail(e.value)
<1>5. <<h>> \in Seq(Tokens) /\ o \in Seq(Tokens) /\ e.value = <<h>> \o o /\ h \notin Punctuation
  <2>1. h \in Tokens /\ o \in Seq(Tokens) /\ h = e.value[1] /\ e.value = <<h>> \o o
    BY <1>3, HeadTailProperties
  <2> QED BY <2>1 DEF Firm
<1> HIDE DEF h, o
<1>6. Reading(q, <<h>> \o o) = Reading(Reading(q, <<h>>), o)
  <2> DEFINE a == <<h>>
  <2>1. a \in Seq(Tokens)
    BY <1>5
  <2> HIDE DEF a, q
  <2>2. Reading(q, a \o o) = Reading(Reading(q, a), o)
    BY <1>5, <2>1, ReadingConcat
  <2> QED BY <2>2 DEF a
<1>7. Reading(q, <<h>>) = Advance(q, h)
  BY ReadingOne
<1>8. Advance(q, h) = State("error", w, t, s, b \cup {<<l, x>>}, l, In("string", x))
  <2>1. h # "," /\ h # "}"
    BY <1>0, <1>5, Zenon
  <2> QED BY <2>1, Zenon DEF Advance, State, Goto, Expect
<1>9. Failed(Advance(q, h), t, s)
  BY <1>8 DEF Failed
<1> HIDE DEF q
<1>10. Len(o) \in Nat
  BY <1>5, LenProperties
<1>11. Reading(Advance(q, h), o) = Advance(q, h)
  <2> DEFINE z == Advance(q, h)
  <2>1. Failed(z, t, s)
    BY <1>9
  <2> HIDE DEF z
  <2>2. Reading(z, o) = z
    BY <1>10, <2>1, FailedStays
  <2> QED BY <2>2 DEF z
<1>12. Reading(p, RenderLabel(Shown(e))) = Advance(Reading(Reading(p, <<e.name, "=", Quote>>), Escape(e.tag, e.value)), Quote)
  BY LabelSplits
<1>13. Reading(p, RenderLabel(Shown(e))) = Advance(Advance(q, h), Quote)
  BY <1>2, <1>4, <1>5, <1>6, <1>7, <1>11, <1>12, Zenon
<1>14. Advance(Advance(q, h), Quote) = Advance(q, h)
  <2> DEFINE y == b \cup {<<l, x>>}
             i == In("string", x)
             z == State("error", w, t, s, y, l, i)
  <2>1. Advance(z, Quote) = z
    <3> HIDE DEF y, i
    <3> QED BY DEF Advance, State
  <2>2. Advance(q, h) = z
    BY <1>8
  <2> HIDE DEF z
  <2> QED BY <2>1, <2>2, Zenon
<1> QED BY <1>9, <1>13, <1>14

(***************************************************************************)
(* One token adds at most one sample, at the end.                          *)
(***************************************************************************)
Made(q, s) == \E m, w, t, b, l, i : q = State(m, w, t, s, b, l, i)

LEMMA AdvanceMakes ==
  ASSUME NEW m, NEW w, NEW t, NEW s, NEW b, NEW l, NEW i, NEW c
  PROVE  LET q == Advance(State(m, w, t, s, b, l, i), c) IN Made(q, s) \/ \E x : Made(q, Append(s, x))
<1> DEFINE q == Advance(State(m, w, t, s, b, l, i), c)
           Ok == Made(q, s) \/ \E x : Made(q, Append(s, x))
<1>1. \A n, x, u, a, d, j : Made(State(n, x, u, s, a, d, j), s)
  BY DEF Made
<1>2. ASSUME m = "line" PROVE Ok
  <2> DEFINE r == State(m, w, t, s, b, l, i)
  <2>1. \A n : Goto(r, n) = State(n, w, t, s, b, l, i)
    BY DEF Goto, State
  <2>2. [State("labels", w, t, s, b, l, i) EXCEPT !.labels = {}] = State("labels", w, t, s, {}, l, i)
    BY DEF State
  <2>3. q = AtLine(r, c)
    BY <1>2 DEF Advance, State
  <2> HIDE DEF r, q
  <2>4. q \in {r, Goto(r, "help"), Goto(r, "typed"), Goto(r, "error"), [Goto(r, "labels") EXCEPT !.labels = {}]}
    BY <2>3, Zenon DEF AtLine
  <2> QED BY <1>1, <2>1, <2>2, <2>4 DEF r
<1>3. ASSUME m = "help" PROVE Ok
  <2>1. q = State(IF c = NewLine THEN "line" ELSE "help", w, t, s, b, l, i)
    BY <1>3 DEF Advance, State, Goto
  <2> HIDE DEF q
  <2> QED BY <1>1, <2>1
<1>4. ASSUME m = "typed" PROVE Ok
  <2>1. \/ q = State("error", w, t, s, b, l, i)
        \/ q = State("type", c, t, s, b, l, i)
    BY <1>4, Zenon DEF Advance, State, Goto, AtTyped
  <2> HIDE DEF q
  <2> QED BY <1>1, <2>1
<1>5. ASSUME m = "type" PROVE Ok
  <2>1. q = State("end", w, Append(t, <<w, c>>), s, b, l, i)
    BY <1>5, Zenon DEF Advance, State, Goto
  <2> HIDE DEF q
  <2> QED BY <1>1, <2>1
<1>6. ASSUME m = "labels" PROVE Ok
  <2>1. q = State(IF c = " " THEN "value" ELSE IF c = "{" THEN "label" ELSE "error", w, t, s, b, l, i)
    BY <1>6, Zenon DEF Advance, State, Goto, Expect
  <2> HIDE DEF q
  <2> QED BY <1>1, <2>1, Zenon
<1>7. ASSUME m = "string" PROVE Ok
  <2> DEFINE j == Inside(i, c)
  <2>1. \/ q = State("next", w, t, s, b \cup {<<l, j.value>>}, l, i)
        \/ q = State("error", w, t, s, b, l, i)
        \/ q = State("string", w, t, s, b, l, j)
    BY <1>7, Zenon DEF Advance, State, Goto, AtString
  <2> HIDE DEF q, j
  <2> QED BY <1>1, <2>1
<1>8. ASSUME m = "end" PROVE Ok
  <2>1. q = State(IF c = NewLine THEN "line" ELSE "error", w, t, s, b, l, i)
    BY <1>8 DEF Advance, State, Goto, Expect
  <2> HIDE DEF q
  <2> QED BY <1>1, <2>1
<1>9. ASSUME m = "sample" PROVE Ok
  <2> DEFINE x == [family |-> t[Len(t)][1], labels |-> b, value |-> w]
  <2>1. \/ q = State("line", w, t, Append(s, x), b, l, i)
        \/ q = State("error", w, t, s, b, l, i)
    BY <1>9, Zenon DEF Advance, State, Goto, AtEndOfSample, Family
  <2>2. \A u : Made(State("line", w, t, u, b, l, i), u)
    BY DEF Made
  <2> HIDE DEF q, x
  <2> QED BY <1>1, <2>1, <2>2
<1>10. ASSUME m \notin {"line", "help", "typed", "type", "labels", "string", "end", "sample"}, m \notin AheadModes PROVE Ok
  <2>1. q = State(m, w, t, s, b, l, i)
    BY <1>10, Zenon DEF Advance, State, AheadModes
  <2> HIDE DEF q
  <2> QED BY <1>1, <2>1
<1>11. ASSUME m \in AheadModes, m # "sample" PROVE Ok
  <2>1. c \notin {Quote, NewLine} => Ahead(q, t, s)
    BY <1>11, AheadMoves
  <2>2. c = Quote => Failed(q, t, s) \/ Stuck(q, t, s)
    BY <1>11, AheadMoves
  <2>3. ASSUME c = NewLine PROVE Failed(q, t, s)
    <3>1. c # "," /\ c # "}" /\ c # "=" /\ c # " " /\ c # Quote /\ c \in Punctuation
      BY <2>3, Marks, Zenon DEF Punctuation
    <3>2. ASSUME m # "open" PROVE q = State("error", w, t, s, b, l, i)
      BY <1>11, <3>1, <3>2, Zenon DEF AheadModes, Advance, State, Goto, Expect, AtLabel
    <3>3. ASSUME m = "open" PROVE q = State("error", w, t, s, b, l, Opened)
      BY <1>11, <3>1, <3>3, Zenon DEF AheadModes, Advance, State, Goto, Expect, AtLabel
    <3> QED BY <3>2, <3>3 DEF Failed
  <2>4. Ahead(q, t, s) \/ Failed(q, t, s) \/ Stuck(q, t, s) => Made(q, s)
    <3> HIDE DEF q
    <3> QED BY DEF Ahead, Failed, Stuck, Made
  <2> QED BY <2>1, <2>2, <2>3, <2>4
<1> QED BY <1>2, <1>3, <1>4, <1>5, <1>6, <1>7, <1>8, <1>9, <1>10, <1>11

(***************************************************************************)
(* The labels of a row, one after the other.                               *)
(***************************************************************************)
LEMMA AppendAt ==
  ASSUME NEW T, NEW s \in Seq(T), NEW x \in T
  PROVE  \E k \in Nat : /\ DOMAIN s = 1 .. k /\ Len(s) = k /\ Append(s, x) \in Seq(T)
                        /\ DOMAIN Append(s, x) = 1 .. k + 1 /\ Len(Append(s, x)) = k + 1
                        /\ Append(s, x)[k + 1] = x /\ (\A n \in 1 .. k : Append(s, x)[n] = s[n])
                        /\ (\A n \in 1 .. k : n \in 1 .. k + 1) /\ k + 1 \in 1 .. k + 1
                        /\ (\A n \in 1 .. k + 1 : n \in 1 .. k \/ n = k + 1)
                        /\ (s = <<>> <=> k = 0) /\ Append(s, x) # <<>>
<1>1. PICK k \in Nat : k = Len(s) /\ DOMAIN s = 1 .. k
  BY LenProperties
<1>2. Append(s, x) \in Seq(T) /\ Len(Append(s, x)) = k + 1
  BY <1>1, AppendProperties
<1>3. DOMAIN Append(s, x) = 1 .. k + 1 /\ Append(s, x)[k + 1] = x /\ \A n \in 1 .. k : Append(s, x)[n] = s[n]
  BY <1>1, <1>2, AppendProperties, LenProperties
<1>4. (\A n \in 1 .. k : n \in 1 .. k + 1) /\ k + 1 \in 1 .. k + 1 /\ \A n \in 1 .. k + 1 : n \in 1 .. k \/ n = k + 1
  OBVIOUS
<1>5. (s = <<>> <=> k = 0) /\ Append(s, x) # <<>>
  BY <1>1, <1>2, EmptySeq
<1> QED BY <1>1, <1>2, <1>3, <1>4, <1>5

LEMMA LabelsTextAppend ==
  ASSUME NEW es \in Seq(Entry), NEW e \in Entry
  PROVE  LabelsText(Append(es, e)) = LabelsText(es) \o Piece(es = <<>>, e) /\ LabelsText(es) \in Seq(Tokens)
<1> DEFINE P(f, n) == (IF n = 1 THEN <<>> ELSE <<",">>) \o RenderLabel(Shown(f[n]))
           T(f) == [n \in DOMAIN f |-> P(f, n)]
           u == Append(es, e)
<1>0. PICK k \in Nat : /\ DOMAIN es = 1 .. k /\ Len(es) = k /\ u \in Seq(Entry)
                       /\ DOMAIN u = 1 .. k + 1 /\ Len(u) = k + 1
                       /\ u[k + 1] = e /\ (\A n \in 1 .. k : u[n] = es[n])
                       /\ (\A n \in 1 .. k : n \in 1 .. k + 1) /\ k + 1 \in 1 .. k + 1
                       /\ (\A n \in 1 .. k + 1 : n \in 1 .. k \/ n = k + 1)
                       /\ (es = <<>> <=> k = 0)
  BY AppendAt
<1>1. \A n, f : P(f, n) = Piece(n = 1, f[n])
  BY DEF Piece
<1>2. \A n \in 1 .. k : es[n] \in Entry
  BY <1>0, ElementOfSeq
<1>3. \A n \in 1 .. k : P(es, n) \in Seq(Tokens)
  <2> TAKE n \in 1 .. k
  <2>1. es[n] \in Entry
    BY <1>2
  <2>2. Piece(n = 1, es[n]) \in Seq(Tokens)
    <3> DEFINE d == es[n]
               a == n = 1
    <3>1. d \in Entry /\ a \in BOOLEAN
      BY <2>1
    <3> HIDE DEF d, a
    <3>2. Piece(a, d) \in Seq(Tokens)
      BY <3>1, LabelTypes, Zenon
    <3> QED BY <3>2 DEF a, d
  <2> QED BY <1>1, <2>2, Zenon
<1>4. T(es) \in Seq(Seq(Tokens)) /\ DOMAIN T(es) = 1 .. k /\ Len(T(es)) = k
  <2> HIDE DEF P
  <2>1. T(es) \in [1 .. k -> Seq(Tokens)] /\ DOMAIN T(es) = 1 .. k
    BY <1>0, <1>3
  <2>2. T(es) \in Seq(Seq(Tokens))
    BY <2>1
  <2> HIDE DEF T
  <2> QED BY <2>1, <2>2, LenProperties
<1>5. P(u, k + 1) = Piece(es = <<>>, e) /\ Piece(es = <<>>, e) \in Seq(Tokens)
  <2>1. P(u, k + 1) = Piece(k + 1 = 1, u[k + 1])
    BY <1>1, Zenon
  <2>2. (k + 1 = 1) = (es = <<>>)
    BY <1>0
  <2>3. \A first \in BOOLEAN : Piece(first, e) \in Seq(Tokens)
    BY LabelTypes, Zenon
  <2> QED BY <1>0, <2>1, <2>2, <2>3, Zenon
<1>6. T(u) = Append(T(es), P(u, k + 1))
  <2>1. \A n \in 1 .. k : P(u, n) = P(es, n)
    BY <1>0, Zenon
  <2> DEFINE x == P(u, k + 1)
             a == T(es)
             o == T(u)
  <2>2. x \in Seq(Tokens) /\ a \in Seq(Seq(Tokens)) /\ DOMAIN a = 1 .. k
    BY <1>4, <1>5, Zenon
  <2>3. PICK j \in Nat : /\ DOMAIN a = 1 .. j /\ DOMAIN Append(a, x) = 1 .. j + 1
                         /\ Append(a, x)[j + 1] = x /\ (\A n \in 1 .. j : Append(a, x)[n] = a[n])
                         /\ Append(a, x) \in Seq(Seq(Tokens)) /\ Len(a) = j /\ Len(Append(a, x)) = j + 1
    <3> DEFINE Q == Seq(Tokens)
    <3>1. a \in Seq(Q) /\ x \in Q
      BY <2>2, Zenon
    <3> HIDE DEF a, x, Q
    <3>2. \E j \in Nat : /\ DOMAIN a = 1 .. j /\ Len(a) = j /\ Append(a, x) \in Seq(Q)
                         /\ DOMAIN Append(a, x) = 1 .. j + 1 /\ Len(Append(a, x)) = j + 1
                         /\ Append(a, x)[j + 1] = x /\ (\A n \in 1 .. j : Append(a, x)[n] = a[n])
      BY <3>1, AppendAt
    <3> QED BY <3>2, Zenon DEF Q
  <2>4. j = k
    <3> HIDE DEF a
    <3> QED BY <1>4, <2>3, Zenon DEF a
  <2>5. \A n \in 1 .. k : a[n] = P(es, n) /\ o[n] = P(u, n)
    BY <1>0, Zenon
  <2>6. o[k + 1] = x /\ DOMAIN o = 1 .. k + 1
    BY <1>0, Zenon
  <2> HIDE DEF P
  <2>7. \A n \in 1 .. k + 1 : o[n] = Append(a, x)[n]
    <3> HIDE DEF a, o, x
    <3> TAKE n \in 1 .. k + 1
    <3>1. CASE n \in 1 .. k
      BY <2>1, <2>3, <2>4, <2>5, <3>1
    <3>2. CASE n = k + 1
      BY <2>3, <2>4, <2>6, <3>2
    <3> QED BY <1>0, <3>1, <3>2
  <2>8. o = [n \in 1 .. k + 1 |-> o[n]]
    BY <1>0
  <2>9. Append(a, x) = [n \in 1 .. k + 1 |-> Append(a, x)[n]]
    <3> DEFINE z == Append(a, x)
    <3>1. z \in Seq(Seq(Tokens)) /\ Len(z) = k + 1
      BY <2>3, <2>4
    <3> HIDE DEF z
    <3>2. z \in [1 .. k + 1 -> Seq(Tokens)]
      BY <3>1, LenProperties
    <3> QED BY <3>2 DEF z
  <2> HIDE DEF a, o, x
  <2>10. o = Append(a, x)
    BY <2>7, <2>8, <2>9
  <2> QED BY <2>10 DEF a, o, x
<1>7. LabelsText(u) = FlattenSeq(T(u)) /\ LabelsText(es) = FlattenSeq(T(es))
  BY DEF LabelsText
<1>8. FlattenSeq(Append(T(es), Piece(es = <<>>, e))) = FlattenSeq(T(es)) \o Piece(es = <<>>, e)
  <2> DEFINE a == T(es)
             x == Piece(es = <<>>, e)
  <2>1. a \in Seq(Seq(Tokens)) /\ x \in Seq(Tokens)
    BY <1>4, <1>5, Zenon
  <2> HIDE DEF a, x
  <2>2. FlattenSeq(Append(a, x)) = FlattenSeq(a) \o x
    BY <2>1, FlattenAppend
  <2> QED BY <2>2, Zenon DEF a, x
<1>9. FlattenSeq(T(es)) \in Seq(Tokens)
  BY <1>4, FlattenType, Zenon
<1> HIDE DEF T, P
<1>10. LabelsText(u) = LabelsText(es) \o Piece(es = <<>>, e)
  BY <1>5, <1>6, <1>7, <1>8, Zenon
<1> QED BY <1>7, <1>9, <1>10

(* The first label follows a brace, another one a comma.                   *)
LEMMA PieceOpens ==
  ASSUME NEW w, NEW t, NEW s, NEW b, NEW l, NEW i, NEW e \in Entry, NEW first \in BOOLEAN
  PROVE  Reading(State(IF first THEN "label" ELSE "next", w, t, s, b, l, i), Piece(first, e)) =
           Reading(State("label", w, t, s, b, l, i), RenderLabel(Shown(e)))
<1> DEFINE p == RenderLabel(Shown(e))
           c == <<",">>
           o == <<>>
<1>1. p \in Seq(Tokens) /\ c \in Seq(Tokens) /\ o \in Seq(Tokens)
  <2>1. RenderLabel(Shown(e)) \in Seq(Tokens) /\ <<",">> \in Seq(Tokens)
    BY LabelTypes, Zenon
  <2>2. <<>> \in Seq(Tokens)
    OBVIOUS
  <2> QED BY <2>1, <2>2, Zenon
<1>2. \A r : Reading(r, c) = Advance(r, ",")
  BY ReadingOne, Zenon
<1>3. \A r : Reading(r, o) = r
  BY ReadingNothing
<1> HIDE DEF p, c, o
<1>4. \A r : Reading(r, c \o p) = Reading(Reading(r, c), p)
  BY <1>1, ReadingConcat
<1>5. \A r : Reading(r, o \o p) = Reading(Reading(r, o), p)
  BY <1>1, ReadingConcat
<1>6. CASE first
  <2>1. Piece(first, e) = o \o p
    BY <1>6, Zenon DEF Piece, o, p
  <2>2. (IF first THEN "label" ELSE "next") = "label"
    BY <1>6
  <2> DEFINE x == State("label", w, t, s, b, l, i)
             z == State(IF first THEN "label" ELSE "next", w, t, s, b, l, i)
  <2>3. z = x
    BY <2>2
  <2> HIDE DEF x, z
  <2>4. Reading(z, Piece(first, e)) = Reading(x, p)
    BY <1>3, <1>5, <2>1, <2>3, Zenon
  <2> QED BY <2>4 DEF p, x, z
<1>7. CASE ~first
  <2>1. Piece(first, e) = c \o p
    BY <1>7, Zenon DEF Piece, c, p
  <2>2. Advance(State("next", w, t, s, b, l, i), ",") = State("label", w, t, s, b, l, i)
    BY NextComma, Zenon
  <2>3. (IF first THEN "label" ELSE "next") = "next"
    BY <1>7
  <2> DEFINE x == State("next", w, t, s, b, l, i)
             y == State("label", w, t, s, b, l, i)
             z == State(IF first THEN "label" ELSE "next", w, t, s, b, l, i)
  <2>4. z = x
    BY <2>3
  <2>5. Advance(x, ",") = y
    BY <2>2, Zenon
  <2> HIDE DEF x, y, z
  <2>6. Reading(z, Piece(first, e)) = Reading(y, p)
    BY <1>2, <1>4, <2>1, <2>4, <2>5, Zenon
  <2> QED BY <2>6 DEF p, y, z
<1> QED BY <1>6, <1>7 DEF p

LEMMA LabelsSplit ==
  ASSUME NEW r, NEW es \in Seq(Entry), NEW e \in Entry
  PROVE  Reading(r, LabelsText(Append(es, e))) = Reading(Reading(r, LabelsText(es)), Piece(es = <<>>, e))
<1> DEFINE a == LabelsText(es)
           p == Piece(es = <<>>, e)
<1>1. a \in Seq(Tokens) /\ LabelsText(Append(es, e)) = a \o p
  BY LabelsTextAppend
<1>2. p \in Seq(Tokens)
  <2>1. \A first \in BOOLEAN : Piece(first, e) \in Seq(Tokens)
    BY LabelTypes, Zenon
  <2> QED BY <2>1
<1> HIDE DEF a, p
<1>3. Reading(r, a \o p) = Reading(Reading(r, a), p)
  BY <1>1, <1>2, ReadingConcat
<1> QED BY <1>1, <1>3, Zenon DEF a, p

LEMMA LabelsTextEmpty == LabelsText(<<>>) = <<>>
<1>1. [n \in DOMAIN <<>> |-> (IF n = 1 THEN <<>> ELSE <<",">>) \o RenderLabel(Shown(<<>>[n]))] = <<>>
  OBVIOUS
<1> QED BY <1>1, FlattenEmpty, Zenon DEF LabelsText

LEMMA PairsAppend ==
  ASSUME NEW es \in Seq(Entry), NEW e \in Entry
  PROVE  /\ Pairs(Append(es, e)) = Pairs(es) \cup {<<e.name, e.value>>}
         /\ Sane(Append(es, e)) => /\ Sane(es) /\ e.name \notin Punctuation
                                   /\ \A n \in DOMAIN es : es[n].name # e.name
         /\ AllPlain(Append(es, e)) => AllPlain(es) /\ Plain(e.tag, e.value)
<1> DEFINE u == Append(es, e)
<1>0. PICK k \in Nat : /\ DOMAIN es = 1 .. k /\ DOMAIN u = 1 .. k + 1
                       /\ u[k + 1] = e /\ (\A n \in 1 .. k : u[n] = es[n])
                       /\ (\A n \in 1 .. k : n \in 1 .. k + 1) /\ k + 1 \in 1 .. k + 1
                       /\ (\A n \in 1 .. k + 1 : n \in 1 .. k \/ n = k + 1)
  BY AppendAt
<1> HIDE DEF u
<1>1. Pairs(u) = Pairs(es) \cup {<<e.name, e.value>>}
  BY <1>0 DEF Pairs
<1>2. Distinct(u) => Distinct(es) /\ \A n \in DOMAIN es : es[n].name # e.name
  <2> SUFFICES ASSUME Distinct(u) PROVE Distinct(es) /\ \A n \in DOMAIN es : es[n].name # e.name
    OBVIOUS
  <2>1. \A n \in 1 .. k : n # k + 1
    OBVIOUS
  <2> QED BY <1>0, <2>1 DEF Distinct
<1>3. Sane(u) => /\ Sane(es) /\ e.name \notin Punctuation
                /\ \A n \in DOMAIN es : es[n].name # e.name
  BY <1>0, <1>2 DEF Sane
<1>4. AllPlain(u) => AllPlain(es) /\ Plain(e.tag, e.value)
  BY <1>0 DEF AllPlain
<1> QED BY <1>1, <1>3, <1>4 DEF u

(* Plain labels read back.                                                 *)
LEMMA PlainLabelsRead ==
  ASSUME NEW w, NEW t, NEW s, NEW l, NEW i
  PROVE  \A es \in Seq(Entry) : Sane(es) /\ AllPlain(es) =>
           \E m, j : Reading(State("label", w, t, s, {}, l, i), LabelsText(es)) =
                      State(IF es = <<>> THEN "label" ELSE "next", w, t, s, Pairs(es), m, j)
<1> DEFINE r == State("label", w, t, s, {}, l, i)
           Ok(es) == \E m, j : Reading(r, LabelsText(es)) =
                      State(IF es = <<>> THEN "label" ELSE "next", w, t, s, Pairs(es), m, j)
           S == {es \in Seq(Entry) : Sane(es) /\ AllPlain(es) => Ok(es)}
<1>0. \A e \in Entry : \A b, m, j : ReadyFor(e, b) =>
        Reading(State("label", w, t, s, b, m, j), RenderLabel(Shown(e))) =
           State("next", w, t, s, b \cup {<<e.name, e.value>>}, e.name, In("string", e.value))
  BY PlainLabelReads
<1>1. <<>> \in S
  <2>1. Pairs(<<>>) = {} /\ <<>> \in Seq(Entry)
    BY DEF Pairs
  <2>2. Reading(r, LabelsText(<<>>)) = r
    BY LabelsTextEmpty, ReadingNothing, Zenon
  <2>3. Ok(<<>>)
    BY <2>1, <2>2
  <2> HIDE DEF Ok
  <2> QED BY <2>1, <2>3
<1>2. ASSUME NEW es \in Seq(Entry), NEW e \in Entry, es \in S
      PROVE  Append(es, e) \in S
  <2> DEFINE u == Append(es, e)
  <2>0. u \in Seq(Entry) /\ u # <<>>
    BY AppendProperties
  <2> SUFFICES ASSUME Sane(u), AllPlain(u) PROVE Ok(u)
    BY <2>0
  <2>1. /\ Sane(es) /\ e.name \notin Punctuation /\ Pairs(u) = Pairs(es) \cup {<<e.name, e.value>>}
        /\ AllPlain(es) /\ Plain(e.tag, e.value)
    BY PairsAppend
  <2>2. \A x \in Pairs(es) : x[1] # e.name
    <3>1. \A n \in DOMAIN es : es[n].name # e.name
      BY PairsAppend
    <3> QED BY <3>1 DEF Pairs
  <2>3. PICK m, j : Reading(r, LabelsText(es)) =
                      State(IF es = <<>> THEN "label" ELSE "next", w, t, s, Pairs(es), m, j)
    BY <1>2, <2>1
  <2> DEFINE f == es = <<>>
             b == Pairs(es)
             q == State(IF f THEN "label" ELSE "next", w, t, s, b, m, j)
  <2>4. f \in BOOLEAN
    OBVIOUS
  <2>5. Reading(r, LabelsText(es)) = q
    BY <2>3
  <2>6. Reading(r, LabelsText(u)) = Reading(Reading(r, LabelsText(es)), Piece(f, e))
    <3> HIDE DEF r
    <3> QED BY LabelsSplit
  <2>7. Reading(q, Piece(f, e)) = Reading(State("label", w, t, s, b, m, j), RenderLabel(Shown(e)))
    <3> HIDE DEF f, b
    <3> QED BY <2>4, PieceOpens
  <2>8. Reading(State("label", w, t, s, b, m, j), RenderLabel(Shown(e))) =
           State("next", w, t, s, b \cup {<<e.name, e.value>>}, e.name, In("string", e.value))
    <3> HIDE DEF b
    <3>1. ReadyFor(e, b)
      BY <2>1, <2>2 DEF b, ReadyFor
    <3> QED BY <1>0, <3>1
  <2>9. Reading(r, LabelsText(u)) = State("next", w, t, s, b \cup {<<e.name, e.value>>}, e.name, In("string", e.value))
    <3> HIDE DEF r, q, b, u
    <3> QED BY <2>5, <2>6, <2>7, <2>8, Zenon
  <2>10. (IF u = <<>> THEN "label" ELSE "next") = "next"
    BY <2>0
  <2> HIDE DEF u, r
  <2> QED BY <2>1, <2>9, <2>10
<1>3. \A es \in Seq(Entry) : es \in S
  <2> HIDE DEF S
  <2> QED BY <1>1, <1>2, SeqInduction
<1> QED BY <1>3

(***************************************************************************)
(* The labels of a row with a friendly name of any kind: what is accepted  *)
(* has the names and, but for the friendly name, the values it should.     *)
(***************************************************************************)
NamesOf(b) == {x[1] : x \in b}
OthersOf(b) == {x \in b : x[1] # "friendly_name"}
Fits(es, b) == NamesOf(b) = NamesOf(Pairs(es)) /\ OthersOf(b) = OthersOf(Pairs(es))
Tame(e) ==
  \/ e.tag = "name" /\ e.name = "friendly_name" /\ \A n \in DOMAIN e.value : e.value[n] # NewLine
  \/ Firm(e) /\ e.name # "friendly_name" /\ Plain(e.tag, e.value)
AllTame(es) == \A n \in DOMAIN es : Tame(es[n])
HasName(es) == \E n \in DOMAIN es : es[n].tag = "name"
Arrived(q, w, t, s, es) ==
  \E b, m, j : q = State(IF es = <<>> THEN "label" ELSE "next", w, t, s, b, m, j) /\ Fits(es, b)

LEMMA FitsAppend ==
  ASSUME NEW es, NEW e, NEW u, NEW b, NEW v, Fits(es, b), Pairs(u) = Pairs(es) \cup {<<e.name, e.value>>},
         e.name = "friendly_name" \/ v = e.value
  PROVE  Fits(u, b \cup {<<e.name, v>>})
<1> DEFINE P == Pairs(es)
           c == e.name
           x == <<c, v>>
           y == <<c, e.value>>
<1>1. x[1] = c /\ y[1] = c /\ (c = "friendly_name" \/ x = y)
  OBVIOUS
<1>2. NamesOf(b) = NamesOf(P) /\ OthersOf(b) = OthersOf(P)
  BY DEF Fits
<1>3. Pairs(u) = P \cup {y}
  OBVIOUS
<1> HIDE DEF P, c, x, y
<1>4. NamesOf(b \cup {x}) = NamesOf(P \cup {y})
  BY <1>1, <1>2 DEF NamesOf
<1>5. OthersOf(b \cup {x}) = OthersOf(P \cup {y})
  BY <1>1, <1>2 DEF OthersOf
<1>6. Fits(u, b \cup {x})
  BY <1>3, <1>4, <1>5, Zenon DEF Fits
<1> QED BY <1>6 DEF x, c

LEMMA StuckPiece ==
  ASSUME NEW t, NEW s, NEW p, Stuck(p, t, s), NEW e \in Entry, e.name \notin Punctuation, Firm(e)
  PROVE  Failed(Reading(p, Piece(FALSE, e)), t, s)
<1> DEFINE c == ","
           a == <<c>>
           d == RenderLabel(Shown(e))
<1>1. a \in Seq(Tokens) /\ d \in Seq(Tokens)
  BY LabelTypes, Zenon
<1>2. c \notin {Quote, Backslash, NewLine}
  BY Marks, Zenon
<1>3. Piece(FALSE, e) = a \o d
  BY DEF Piece
<1>4. PICK w, b, l, v : p = State("string", w, t, s, b, l, In("string", v))
  BY DEF Stuck
<1> HIDE DEF c, d
<1>5. Reading(p, a) = Advance(p, c)
  BY ReadingOne
<1>6. Advance(p, c) = State("string", w, t, s, b, l, In("string", Append(v, c)))
  BY <1>2, <1>4, StringOrdinary
<1> HIDE DEF a
<1> DEFINE q == Reading(p, a)
<1>7. Stuck(q, t, s)
  BY <1>5, <1>6 DEF Stuck
<1>8. Reading(p, a \o d) = Reading(q, d)
  BY <1>1, ReadingConcat
<1> HIDE DEF q
<1>9. Failed(Reading(q, RenderLabel(Shown(e))), t, s)
  BY <1>7, StuckLabel
<1> QED BY <1>3, <1>8, <1>9 DEF d

LEMMA TameAppend ==
  ASSUME NEW es \in Seq(Entry), NEW e \in Entry
  PROVE  /\ AllTame(Append(es, e)) => AllTame(es) /\ Tame(e)
         /\ HasName(Append(es, e)) <=> HasName(es) \/ e.tag = "name"
         /\ (Sane(Append(es, e)) /\ AllTame(Append(es, e)) /\ HasName(es)) => e.tag # "name"
<1> DEFINE u == Append(es, e)
<1>0. PICK k \in Nat : /\ DOMAIN es = 1 .. k /\ DOMAIN u = 1 .. k + 1
                       /\ u[k + 1] = e /\ (\A n \in 1 .. k : u[n] = es[n])
                       /\ (\A n \in 1 .. k : n \in 1 .. k + 1) /\ k + 1 \in 1 .. k + 1
                       /\ (\A n \in 1 .. k + 1 : n \in 1 .. k \/ n = k + 1)
  BY AppendAt
<1>1. Sane(u) => \A n \in DOMAIN es : es[n].name # e.name
  BY PairsAppend
<1> HIDE DEF u
<1>2. AllTame(u) => AllTame(es) /\ Tame(e)
  BY <1>0 DEF AllTame
<1>3. HasName(u) <=> HasName(es) \/ e.tag = "name"
  BY <1>0 DEF HasName
<1>4. ASSUME Sane(u), AllTame(u), HasName(es), e.tag = "name"
      PROVE  FALSE
  <2>1. PICK n \in DOMAIN es : es[n].tag = "name"
    BY <1>4 DEF HasName
  <2>2. Tame(es[n]) /\ Tame(e)
    BY <1>2, <1>4 DEF AllTame
  <2>3. es[n].name = "friendly_name" /\ e.name = "friendly_name"
    BY <1>4, <2>1, <2>2 DEF Tame, Firm
  <2> QED BY <1>1, <1>4, <2>3
<1> QED BY <1>2, <1>3, <1>4 DEF u

LEMMA TamePieceReads ==
  ASSUME NEW w, NEW t, NEW s, NEW b, NEW m, NEW j, NEW e \in Entry, NEW first \in BOOLEAN, NEW q,
         Tame(e), e.name \notin Punctuation, \A x \in b : x[1] # e.name,
         q = Reading(State(IF first THEN "label" ELSE "next", w, t, s, b, m, j), Piece(first, e))
  PROVE  \/ \E v, i : /\ q = State("next", w, t, s, b \cup {<<e.name, v>>}, e.name, i)
                      /\ e.name = "friendly_name" \/ v = e.value
         \/ e.tag = "name" /\ Stuck(q, t, s)
         \/ Failed(q, t, s)
<1>1. q = Reading(State("label", w, t, s, b, m, j), RenderLabel(Shown(e)))
  BY PieceOpens
<1>2. CASE Firm(e) /\ e.name # "friendly_name" /\ Plain(e.tag, e.value)
  <2>1. ReadyFor(e, b)
    BY <1>2 DEF ReadyFor
  <2>2. q = State("next", w, t, s, b \cup {<<e.name, e.value>>}, e.name, In("string", e.value))
    BY <1>1, <2>1, PlainLabelReads
  <2> QED BY <2>2
<1>3. CASE e.tag = "name" /\ e.name = "friendly_name" /\ \A n \in DOMAIN e.value : e.value[n] # NewLine
  <2>1. \/ \E v : q = State("next", w, t, s, b \cup {<<e.name, v>>}, e.name, In("string", v))
        \/ Stuck(q, t, s)
        \/ Failed(q, t, s)
    BY <1>1, <1>3, NameLabelReads
  <2> QED BY <1>3, <2>1
<1> QED BY <1>2, <1>3 DEF Tame

LEMMA TameLabelsRead ==
  ASSUME NEW w, NEW t, NEW s, NEW l, NEW i
  PROVE  \A es \in Seq(Entry) : Sane(es) /\ AllTame(es) =>
           \/ Arrived(Reading(State("label", w, t, s, {}, l, i), LabelsText(es)), w, t, s, es)
           \/ HasName(es) /\ Stuck(Reading(State("label", w, t, s, {}, l, i), LabelsText(es)), t, s)
           \/ Failed(Reading(State("label", w, t, s, {}, l, i), LabelsText(es)), t, s)
<1> DEFINE r == State("label", w, t, s, {}, l, i)
           Ok(q, es) == \/ Arrived(q, w, t, s, es)
                        \/ HasName(es) /\ Stuck(q, t, s)
                        \/ Failed(q, t, s)
           S == {es \in Seq(Entry) : Sane(es) /\ AllTame(es) => Ok(Reading(r, LabelsText(es)), es)}
<1>1. <<>> \in S
  <2>1. Pairs(<<>>) = {} /\ <<>> \in Seq(Entry)
    BY DEF Pairs
  <2>2. Reading(r, LabelsText(<<>>)) = r
    BY LabelsTextEmpty, ReadingNothing, Zenon
  <2>3. Fits(<<>>, {})
    BY <2>1 DEF Fits
  <2>4. Ok(r, <<>>)
    BY <2>3 DEF Arrived
  <2> HIDE DEF Ok
  <2> QED BY <2>1, <2>2, <2>4
<1>2. ASSUME NEW es \in Seq(Entry), NEW e \in Entry, es \in S
      PROVE  Append(es, e) \in S
  <2> DEFINE u == Append(es, e)
             p == Reading(r, LabelsText(es))
             f == es = <<>>
             q == Reading(p, Piece(f, e))
  <2>0. u \in Seq(Entry) /\ u # <<>> /\ f \in BOOLEAN
    BY AppendProperties
  <2>1. Reading(r, LabelsText(u)) = q
    <3> HIDE DEF r
    <3> QED BY LabelsSplit
  <2> SUFFICES ASSUME Sane(u), AllTame(u) PROVE Ok(q, u)
    BY <2>0, <2>1
  <2>2. /\ Sane(es) /\ e.name \notin Punctuation /\ Pairs(u) = Pairs(es) \cup {<<e.name, e.value>>}
        /\ \A n \in DOMAIN es : es[n].name # e.name
    BY PairsAppend
  <2>3. AllTame(es) /\ Tame(e) /\ (HasName(u) <=> HasName(es) \/ e.tag = "name") /\ (HasName(es) => e.tag # "name")
    BY TameAppend
  <2>4. Ok(p, es)
    BY <1>2, <2>2, <2>3
  <2> HIDE DEF r, p, u
  <2>5. ASSUME NEW b, NEW m, NEW j, p = State(IF f THEN "label" ELSE "next", w, t, s, b, m, j), Fits(es, b)
        PROVE  Ok(q, u)
    <3>1. \A x \in b : x[1] # e.name
      <4>1. \A x \in b : x[1] \in NamesOf(Pairs(es))
        BY <2>5 DEF Fits, NamesOf
      <4>2. \A y \in Pairs(es) : y[1] # e.name
        BY <2>2 DEF Pairs
      <4> QED BY <4>1, <4>2 DEF NamesOf
    <3>2. \/ \E v, o : /\ q = State("next", w, t, s, b \cup {<<e.name, v>>}, e.name, o)
                       /\ e.name = "friendly_name" \/ v = e.value
          \/ e.tag = "name" /\ Stuck(q, t, s)
          \/ Failed(q, t, s)
      <4> HIDE DEF f, Ok
      <4> QED BY <2>0, <2>2, <2>3, <2>5, <3>1, TamePieceReads
    <3> HIDE DEF q, Ok
    <3>3. ASSUME NEW v, NEW o, q = State("next", w, t, s, b \cup {<<e.name, v>>}, e.name, o),
                 e.name = "friendly_name" \/ v = e.value
          PROVE  Ok(q, u)
      <4>1. Fits(u, b \cup {<<e.name, v>>})
        BY <2>2, <2>5, <3>3, FitsAppend
      <4>2. (IF u = <<>> THEN "label" ELSE "next") = "next"
        BY <2>0
      <4>3. Arrived(q, w, t, s, u)
        BY <3>3, <4>1, <4>2 DEF Arrived
      <4> QED BY <4>3 DEF Ok
    <3>4. e.tag = "name" /\ Stuck(q, t, s) => Ok(q, u)
      BY <2>3 DEF Ok
    <3>5. Failed(q, t, s) => Ok(q, u)
      BY DEF Ok
    <3> QED BY <3>2, <3>3, <3>4, <3>5
  <2>6. ASSUME HasName(es), Stuck(p, t, s)
        PROVE  Ok(q, u)
    <3>1. ~f
      BY <2>6 DEF HasName
    <3>2. Firm(e)
      BY <2>3, <2>6 DEF Tame
    <3>3. Failed(Reading(p, Piece(FALSE, e)), t, s)
      BY <2>2, <2>6, <3>2, StuckPiece
    <3>4. q = Reading(p, Piece(FALSE, e))
      BY <3>1
    <3> QED BY <3>3, <3>4
  <2>7. ASSUME Failed(p, t, s)
        PROVE  Ok(q, u)
    <3>1. Piece(f, e) \in Seq(Tokens)
      <4>1. \A first \in BOOLEAN : Piece(first, e) \in Seq(Tokens)
        BY LabelTypes, Zenon
      <4> QED BY <2>0, <4>1
    <3> DEFINE o == Piece(f, e)
    <3>2. Len(o) \in Nat
      <4>1. o \in Seq(Tokens)
        BY <3>1
      <4> HIDE DEF o
      <4> QED BY <4>1, LenProperties
    <3> HIDE DEF o
    <3>3. Reading(p, o) = p
      BY <2>7, <3>2, FailedStays
    <3> QED BY <2>7, <3>3 DEF o
  <2> QED BY <2>4, <2>5, <2>6, <2>7 DEF Arrived
<1>3. \A es \in Seq(Entry) : es \in S
  <2> HIDE DEF S
  <2> QED BY <1>1, <1>2, SeqInduction
<1> QED BY <1>3

(***************************************************************************)
(* A whole row.                                                            *)
(***************************************************************************)
RowOf(name, es, number) ==
  (<<name>> \o (((<<"{">> \o LabelsText(es)) \o <<"}">>) \o <<" ", number>>)) \o <<NewLine>>
Ending(q, number) == Advance(Advance(Advance(Advance(q, "}"), " "), number), NewLine)
Sample(name, b, number) == [family |-> name, labels |-> b, value |-> number]

LEMMA LabelsType ==
  ASSUME NEW es \in Seq(Entry)
  PROVE  LabelsText(es) \in Seq(Tokens)
<1> DEFINE S == {x \in Seq(Entry) : LabelsText(x) \in Seq(Tokens)}
<1>1. <<>> \in S
  <2>1. <<>> \in Seq(Entry) /\ <<>> \in Seq(Tokens)
    OBVIOUS
  <2> QED BY <2>1, LabelsTextEmpty
<1>2. ASSUME NEW x \in Seq(Entry), NEW e \in Entry, x \in S
      PROVE  Append(x, e) \in S
  <2>1. LabelsText(Append(x, e)) = LabelsText(x) \o Piece(x = <<>>, e) /\ LabelsText(x) \in Seq(Tokens)
    BY LabelsTextAppend
  <2>2. Piece(x = <<>>, e) \in Seq(Tokens)
    <3>1. \A first \in BOOLEAN : Piece(first, e) \in Seq(Tokens)
      BY LabelTypes, Zenon
    <3> QED BY <3>1
  <2> DEFINE a == LabelsText(x)
             d == Piece(x = <<>>, e)
  <2>3. a \o d \in Seq(Tokens)
    <3>1. a \in Seq(Tokens) /\ d \in Seq(Tokens)
      BY <2>1, <2>2
    <3> HIDE DEF a, d
    <3> QED BY <3>1, ConcatProperties
  <2>4. Append(x, e) \in Seq(Entry)
    BY AppendProperties
  <2> QED BY <2>1, <2>3, <2>4
<1>3. \A x \in Seq(Entry) : x \in S
  <2> HIDE DEF S
  <2> QED BY <1>1, <1>2, SeqInduction
<1> QED BY <1>3

LEMMA RowSplits ==
  ASSUME NEW r, NEW name \in Tokens, NEW es \in Seq(Entry), NEW number \in Tokens
  PROVE  /\ Reading(r, RowOf(name, es, number)) =
              Ending(Reading(Advance(Advance(r, name), "{"), LabelsText(es)), number)
         /\ RowOf(name, es, number) \in Seq(Tokens)
<1> DEFINE a == <<name>>
           o == <<"{">>
           p == LabelsText(es)
           c == <<"}">>
           v == <<" ", number>>
           e == <<NewLine>>
           x == o \o p
           y == x \o c
           z == y \o v
           u == a \o z
<1>1. /\ a \in Seq(Tokens) /\ o \in Seq(Tokens) /\ c \in Seq(Tokens)
      /\ v \in Seq(Tokens) /\ e \in Seq(Tokens)
  <2>1. "{" \in Tokens /\ "}" \in Tokens /\ " " \in Tokens /\ NewLine \in Tokens
    BY Marks, Zenon DEF Punctuation
  <2> QED BY <2>1, Tuples, Zenon
<1>2. p \in Seq(Tokens)
  BY LabelsType
<1>3. /\ \A q : Reading(q, a) = Advance(q, name)
      /\ \A q : Reading(q, o) = Advance(q, "{")
      /\ \A q : Reading(q, c) = Advance(q, "}")
      /\ \A q : Reading(q, e) = Advance(q, NewLine)
  BY ReadingOne, Zenon
<1>4. \A q : Reading(q, v) = Advance(Advance(q, " "), number)
  <2> DEFINE d == " "
             f == <<d, number>>
  <2>1. \A q : Reading(q, f) = Advance(Advance(q, d), number)
    <3> HIDE DEF d
    <3> QED BY ReadingTwo
  <2> QED BY <2>1, Zenon
<1>5. RowOf(name, es, number) = u \o e
  BY DEF RowOf
<1> HIDE DEF a, o, p, c, v, e
<1>6. x \in Seq(Tokens) /\ \A q : Reading(q, x) = Reading(Reading(q, o), p)
  <2>1. o \o p \in Seq(Tokens)
    BY <1>1, <1>2, ConcatProperties
  <2>2. \A q : Reading(q, o \o p) = Reading(Reading(q, o), p)
    BY <1>1, <1>2, ReadingConcat
  <2> QED BY <2>1, <2>2
<1> HIDE DEF x
<1>7. y \in Seq(Tokens) /\ \A q : Reading(q, y) = Reading(Reading(q, x), c)
  <2>1. x \o c \in Seq(Tokens)
    BY <1>1, <1>6, ConcatProperties
  <2>2. \A q : Reading(q, x \o c) = Reading(Reading(q, x), c)
    BY <1>1, <1>6, ReadingConcat
  <2> QED BY <2>1, <2>2
<1> HIDE DEF y
<1>8. z \in Seq(Tokens) /\ \A q : Reading(q, z) = Reading(Reading(q, y), v)
  <2>1. y \o v \in Seq(Tokens)
    BY <1>1, <1>7, ConcatProperties
  <2>2. \A q : Reading(q, y \o v) = Reading(Reading(q, y), v)
    BY <1>1, <1>7, ReadingConcat
  <2> QED BY <2>1, <2>2
<1> HIDE DEF z
<1>9. u \in Seq(Tokens) /\ \A q : Reading(q, u) = Reading(Reading(q, a), z)
  <2>1. a \o z \in Seq(Tokens)
    BY <1>1, <1>8, ConcatProperties
  <2>2. \A q : Reading(q, a \o z) = Reading(Reading(q, a), z)
    BY <1>1, <1>8, ReadingConcat
  <2> QED BY <2>1, <2>2
<1> HIDE DEF u
<1>10. u \o e \in Seq(Tokens) /\ \A q : Reading(q, u \o e) = Reading(Reading(q, u), e)
  <2>1. u \o e \in Seq(Tokens)
    BY <1>1, <1>9, ConcatProperties
  <2>2. \A q : Reading(q, u \o e) = Reading(Reading(q, u), e)
    BY <1>1, <1>9, ReadingConcat
  <2> QED BY <2>1, <2>2
<1>11. Reading(r, u \o e) = Ending(Reading(Advance(Advance(r, name), "{"), p), number)
  <2> DEFINE q == Advance(r, name)
             k == Reading(Advance(q, "{"), p)
  <2>1. Reading(r, u \o e) = Advance(Reading(r, u), NewLine)
    BY <1>3, <1>10, Zenon
  <2>2. Reading(r, u) = Reading(q, z)
    BY <1>3, <1>9, Zenon
  <2>3. Reading(q, z) = Advance(Advance(Reading(q, y), " "), number)
    BY <1>4, <1>8, Zenon
  <2>4. Reading(q, y) = Advance(Reading(q, x), "}")
    BY <1>3, <1>7, Zenon
  <2>5. Reading(q, x) = k
    BY <1>3, <1>6, Zenon
  <2> HIDE DEF q, k
  <2>6. Reading(r, u \o e) = Ending(k, number)
    BY <2>1, <2>2, <2>3, <2>4, <2>5, Zenon DEF Ending
  <2> QED BY <2>6, Zenon DEF q, k
<1> QED BY <1>5, <1>10, <1>11, Zenon DEF p

LEMMA ErrorStays ==
  ASSUME NEW w, NEW t, NEW s, NEW b, NEW l, NEW i, NEW c
  PROVE  Advance(State("error", w, t, s, b, l, i), c) = State("error", w, t, s, b, l, i)
<1> DEFINE r == State("error", w, t, s, b, l, i)
           p == <<c>>
<1>1. Failed(r, t, s)
  BY DEF Failed
<1>2. Len(p) \in Nat /\ Reading(r, p) = Advance(r, c)
  BY ReadingOne
<1> HIDE DEF r, p
<1>3. Reading(r, p) = r
  BY <1>1, <1>2, FailedStays
<1> QED BY <1>2, <1>3 DEF r

LEMMA EndingReads ==
  ASSUME NEW w, NEW t, NEW s, NEW b, NEW l, NEW i, NEW number, number \notin Punctuation
  PROVE  Ending(State("next", w, t, s, b, l, i), number) =
           State("line", number, t, Append(s, Sample(t[Len(t)][1], b, number)), b, l, i)
<1> DEFINE S(m, x) == State(m, x, t, s, b, l, i)
<1>1. Advance(S("next", w), "}") = S("space", w)
  BY NextBrace, Zenon
<1>2. Advance(S("space", w), " ") = S("value", w)
  BY SpaceSpace, Zenon
<1>3. Advance(S("value", w), number) = S("sample", number)
  BY ValueWord
<1>4. Advance(S("sample", number), NewLine) =
        State("line", number, t, Append(s, Sample(t[Len(t)][1], b, number)), b, l, i)
  BY SampleEnd DEF Sample
<1> HIDE DEF S
<1>5. Ending(S("next", w), number) = State("line", number, t, Append(s, Sample(t[Len(t)][1], b, number)), b, l, i)
  BY <1>1, <1>2, <1>3, <1>4, Zenon DEF Ending
<1> QED BY <1>5 DEF S

LEMMA EndingFails ==
  ASSUME NEW t, NEW s, NEW q, NEW number \in Tokens, number \notin Punctuation, Failed(q, t, s) \/ Stuck(q, t, s)
  PROVE  Failed(Ending(q, number), t, s)
<1>1. CASE Failed(q, t, s)
  <2>1. \A c : Advance(q, c) = q
    <3>1. PICK w, b, l, i : q = State("error", w, t, s, b, l, i)
      BY <1>1 DEF Failed
    <3>2. \A c : Advance(State("error", w, t, s, b, l, i), c) = State("error", w, t, s, b, l, i)
      BY ErrorStays
    <3> QED BY <3>1, <3>2
  <2>2. Ending(q, number) = q
    BY <2>1, Zenon DEF Ending
  <2> QED BY <1>1, <2>2
<1>2. CASE Stuck(q, t, s)
  <2>1. PICK w, b, l, v : q = State("string", w, t, s, b, l, In("string", v))
    BY <1>2 DEF Stuck
  <2> DEFINE S(x) == State("string", w, t, s, b, l, In("string", x))
             brace == "}"
             space == " "
             y == Append(v, brace)
             z == Append(y, space)
             o == Append(z, number)
  <2>2. \A x, c : c \notin {Quote, Backslash, NewLine} => Advance(S(x), c) = S(Append(x, c))
    BY StringOrdinary
  <2>3. brace \notin {Quote, Backslash, NewLine} /\ space \notin {Quote, Backslash, NewLine}
        /\ number \notin {Quote, Backslash, NewLine}
    BY Marks, Zenon
  <2>4. \A x : Advance(S(x), NewLine) = State("error", w, t, s, b, l, In("string", x))
    BY StringNewLine
  <2>5. q = S(v)
    BY <2>1
  <2>6. Ending(q, number) = Advance(Advance(Advance(Advance(q, brace), space), number), NewLine)
    BY DEF Ending
  <2> HIDE DEF S, brace, space
  <2>7. Advance(S(v), brace) = S(y) /\ Advance(S(y), space) = S(z) /\ Advance(S(z), number) = S(o)
    BY <2>2, <2>3
  <2> HIDE DEF y, z, o
  <2>8. Ending(q, number) = State("error", w, t, s, b, l, In("string", o))
    BY <2>4, <2>5, <2>6, <2>7, Zenon
  <2> QED BY <2>8 DEF Failed
<1> QED BY <1>1, <1>2

LEMMA RowStarts ==
  ASSUME NEW w, NEW t, NEW s, NEW b, NEW l, NEW i, NEW name \in Tokens, FamilyName(t, name),
         NEW es \in Seq(Entry), NEW number \in Tokens
  PROVE  Reading(State("line", w, t, s, b, l, i), RowOf(name, es, number)) =
           Ending(Reading(State("label", w, t, s, {}, l, i), LabelsText(es)), number)
<1> DEFINE r == State("line", w, t, s, b, l, i)
<1>1. Advance(r, name) = State("labels", w, t, s, {}, l, i)
  BY LineName
<1>2. Advance(State("labels", w, t, s, {}, l, i), "{") = State("label", w, t, s, {}, l, i)
  BY LabelsBrace, Zenon
<1>3. Reading(r, RowOf(name, es, number)) =
              Ending(Reading(Advance(Advance(r, name), "{"), LabelsText(es)), number)
  BY RowSplits, Zenon
<1> HIDE DEF r
<1> QED BY <1>1, <1>2, <1>3, Zenon DEF r

Readable(es, number) == es # <<>> /\ Sane(es) /\ AllPlain(es) /\ number \notin Punctuation

LEMMA RowReadsBack ==
  ASSUME NEW w, NEW t, NEW s, NEW b, NEW l, NEW i, NEW name \in Tokens, FamilyName(t, name),
         NEW es \in Seq(Entry), NEW number \in Tokens, Readable(es, number)
  PROVE  \E m, j : Reading(State("line", w, t, s, b, l, i), RowOf(name, es, number)) =
           State("line", number, t, Append(s, Sample(name, Pairs(es), number)), Pairs(es), m, j)
<1>0. es # <<>> /\ Sane(es) /\ AllPlain(es) /\ number \notin Punctuation
  BY DEF Readable
<1>1. PICK m, j : Reading(State("label", w, t, s, {}, l, i), LabelsText(es)) =
                      State(IF es = <<>> THEN "label" ELSE "next", w, t, s, Pairs(es), m, j)
  <2>1. Sane(es) /\ AllPlain(es)
    BY <1>0
  <2> QED BY <2>1, PlainLabelsRead
<1>2. Reading(State("label", w, t, s, {}, l, i), LabelsText(es)) = State("next", w, t, s, Pairs(es), m, j)
  BY <1>0, <1>1
<1> DEFINE x == Pairs(es)
<1>3. Ending(State("next", w, t, s, x, m, j), number) =
           State("line", number, t, Append(s, Sample(t[Len(t)][1], x, number)), x, m, j)
  BY <1>0, EndingReads
<1>4. Reading(State("line", w, t, s, b, l, i), RowOf(name, es, number)) =
           Ending(Reading(State("label", w, t, s, {}, l, i), LabelsText(es)), number)
  BY RowStarts
<1>5. t[Len(t)][1] = name
  BY Zenon DEF FamilyName
<1> QED BY <1>2, <1>3, <1>4, <1>5

LEMMA RowForges ==
  ASSUME NEW w, NEW t, NEW s, NEW b, NEW l, NEW i, NEW name \in Tokens, FamilyName(t, name),
         NEW es \in Seq(Entry), NEW number \in Tokens, number \notin Punctuation,
         es # <<>>, Sane(es), AllTame(es)
  PROVE  \/ \E d, m, j : /\ Reading(State("line", w, t, s, b, l, i), RowOf(name, es, number)) =
                              State("line", number, t, Append(s, Sample(name, d, number)), d, m, j)
                         /\ Fits(es, d)
         \/ Failed(Reading(State("line", w, t, s, b, l, i), RowOf(name, es, number)), t, s)
<1> DEFINE q == Reading(State("label", w, t, s, {}, l, i), LabelsText(es))
           z == Reading(State("line", w, t, s, b, l, i), RowOf(name, es, number))
<1>1. Arrived(q, w, t, s, es) \/ Stuck(q, t, s) \/ Failed(q, t, s)
  BY TameLabelsRead
<1>2. z = Ending(q, number)
  BY RowStarts
<1>3. t[Len(t)][1] = name
  BY Zenon DEF FamilyName
<1> HIDE DEF q, z
<1>4. CASE Arrived(q, w, t, s, es)
  <2>1. PICK d, m, j : q = State("next", w, t, s, d, m, j) /\ Fits(es, d)
    BY <1>4 DEF Arrived
  <2>2. Ending(State("next", w, t, s, d, m, j), number) =
           State("line", number, t, Append(s, Sample(t[Len(t)][1], d, number)), d, m, j)
    BY EndingReads
  <2>3. z = State("line", number, t, Append(s, Sample(name, d, number)), d, m, j)
    BY <1>2, <1>3, <2>1, <2>2, Zenon
  <2> QED BY <2>1, <2>3 DEF z
<1>5. CASE Failed(q, t, s) \/ Stuck(q, t, s)
  BY <1>2, <1>5, EndingFails DEF z
<1> QED BY <1>1, <1>4, <1>5

(***************************************************************************)
(* Pieces with a separator between them.                                   *)
(***************************************************************************)
Glued(c, s) == FlattenSeq([n \in DOMAIN s |-> (IF n = 1 THEN <<>> ELSE <<c>>) \o s[n]])
Glue(first, c, x) == (IF first THEN <<>> ELSE <<c>>) \o x

LEMMA GlueType ==
  ASSUME NEW T, NEW c \in T, NEW x \in Seq(T), NEW first \in BOOLEAN
  PROVE  Glue(first, c, x) \in Seq(T)
<1> DEFINE a == IF first THEN <<>> ELSE <<c>>
<1>1. a \in Seq(T)
  BY Tuples, Zenon
<1> HIDE DEF a
<1>2. a \o x \in Seq(T)
  BY <1>1, ConcatProperties
<1> QED BY <1>2 DEF Glue, a

LEMMA GluedAppend ==
  ASSUME NEW T, NEW c \in T, NEW s \in Seq(Seq(T)), NEW x \in Seq(T)
  PROVE  Glued(c, Append(s, x)) = Glued(c, s) \o Glue(s = <<>>, c, x) /\ Glued(c, s) \in Seq(T)
<1> DEFINE Q == Seq(T)
           P(f, n) == Glue(n = 1, c, f[n])
           m(f) == [n \in DOMAIN f |-> P(f, n)]
           u == Append(s, x)
<1>0. PICK k \in Nat : /\ DOMAIN s = 1 .. k /\ Len(s) = k /\ u \in Seq(Q)
                       /\ DOMAIN u = 1 .. k + 1 /\ Len(u) = k + 1
                       /\ u[k + 1] = x /\ (\A n \in 1 .. k : u[n] = s[n])
                       /\ (\A n \in 1 .. k : n \in 1 .. k + 1) /\ k + 1 \in 1 .. k + 1
                       /\ (\A n \in 1 .. k + 1 : n \in 1 .. k \/ n = k + 1)
                       /\ (s = <<>> <=> k = 0)
  <2>1. s \in Seq(Q) /\ x \in Q
    OBVIOUS
  <2> HIDE DEF Q
  <2> QED BY <2>1, AppendAt
<1>2. \A n \in 1 .. k + 1 : u[n] \in Q
  <2> HIDE DEF Q, u
  <2> QED BY <1>0, ElementOfSeq
<1>3. \A f, n : f[n] \in Q => P(f, n) \in Q
  <2> TAKE f, n
  <2> DEFINE d == f[n]
             a == n = 1
  <2>1. a \in BOOLEAN /\ P(f, n) = Glue(a, c, d)
    OBVIOUS
  <2> HIDE DEF a, d
  <2>2. d \in Seq(T) => Glue(a, c, d) \in Seq(T)
    BY <2>1, GlueType
  <2> QED BY <2>1, <2>2 DEF d
<1>4. \A n \in 1 .. k : P(u, n) = P(s, n) /\ P(s, n) \in Q
  <2> HIDE DEF Q
  <2>1. \A n \in 1 .. k : u[n] = s[n] /\ s[n] \in Q
    BY <1>0, <1>2
  <2> HIDE DEF u
  <2>2. \A n \in 1 .. k : P(u, n) = P(s, n)
    BY <2>1
  <2>3. \A n \in 1 .. k : P(s, n) \in Q
    <3> HIDE DEF P
    <3> QED BY <1>3, <2>1
  <2> QED BY <2>2, <2>3
<1>5. P(u, k + 1) = Glue(s = <<>>, c, x) /\ P(u, k + 1) \in Q
  <2>1. P(u, k + 1) = Glue(k + 1 = 1, c, u[k + 1])
    OBVIOUS
  <2>2. (k + 1 = 1) = (s = <<>>)
    BY <1>0
  <2>3. P(u, k + 1) \in Q
    <3> HIDE DEF P, Q, u
    <3> QED BY <1>0, <1>2, <1>3
  <2> QED BY <1>0, <2>1, <2>2, <2>3
<1> DEFINE a == m(s)
           o == m(u)
           y == P(u, k + 1)
<1>6. a \in Seq(Q) /\ DOMAIN a = 1 .. k /\ \A n \in 1 .. k : a[n] = P(s, n)
  <2> HIDE DEF P, Q
  <2>1. a \in [1 .. k -> Q]
    BY <1>0, <1>4
  <2>2. DOMAIN a = 1 .. k /\ \A n \in 1 .. k : a[n] = P(s, n)
    BY <1>0
  <2> HIDE DEF a
  <2> QED BY <2>1, <2>2
<1>7. DOMAIN o = 1 .. k + 1 /\ \A n \in 1 .. k + 1 : o[n] = P(u, n)
  <2> HIDE DEF P
  <2> QED BY <1>0
<1>8. o = Append(a, y)
  <2> DEFINE z == Append(a, y)
  <2>1. y \in Q
    BY <1>5
  <2>2. PICK j \in Nat : /\ DOMAIN a = 1 .. j /\ DOMAIN z = 1 .. j + 1
                         /\ z[j + 1] = y /\ (\A n \in 1 .. j : z[n] = a[n])
                         /\ z \in Seq(Q) /\ Len(a) = j /\ Len(z) = j + 1
    <3> HIDE DEF a, y, Q
    <3> QED BY <1>6, <2>1, AppendAt
  <2>3. j = k
    <3> HIDE DEF a, z, y
    <3>1. Len(a) = k
      BY <1>6, LenProperties
    <3> QED BY <2>2, <3>1
  <2>4. \A n \in 1 .. k + 1 : o[n] = z[n]
    <3> HIDE DEF a, o, z, P, m, u
    <3> TAKE n \in 1 .. k + 1
    <3>1. CASE n \in 1 .. k
      BY <1>4, <1>6, <1>7, <2>2, <2>3, <3>1
    <3>2. CASE n = k + 1
      BY <1>7, <2>2, <2>3, <3>2 DEF y
    <3> QED BY <1>0, <3>1, <3>2
  <2>5. o = [n \in 1 .. k + 1 |-> o[n]]
    BY <1>0
  <2>6. z = [n \in 1 .. k + 1 |-> z[n]]
    <3>1. z \in Seq(Q) /\ Len(z) = k + 1
      BY <2>2, <2>3
    <3> HIDE DEF z
    <3>2. z \in [1 .. k + 1 -> Q]
      BY <3>1, LenProperties
    <3> QED BY <3>2
  <2> HIDE DEF o, z
  <2>7. o = z
    BY <2>4, <2>5, <2>6
  <2> QED BY <2>7 DEF z
<1>9. Glued(c, u) = FlattenSeq(o) /\ Glued(c, s) = FlattenSeq(a)
  BY DEF Glued, Glue
<1> HIDE DEF a, o, y, u
<1>10. FlattenSeq(Append(a, y)) = FlattenSeq(a) \o y
  BY <1>5, <1>6, FlattenAppend DEF y, Q
<1>11. FlattenSeq(a) \in Seq(T)
  BY <1>6, FlattenType DEF Q
<1>12. y = Glue(s = <<>>, c, x)
  BY <1>5 DEF y
<1> QED BY <1>8, <1>9, <1>10, <1>11, <1>12 DEF u

LEMMA GluedEmpty ==
  ASSUME NEW c
  PROVE  Glued(c, <<>>) = <<>>
<1>1. [n \in DOMAIN <<>> |-> (IF n = 1 THEN <<>> ELSE <<c>>) \o <<>>[n]] = <<>>
  OBVIOUS
<1> QED BY <1>1, FlattenEmpty, Zenon DEF Glued

(***************************************************************************)
(* Rows with their labels and their number; what they are meant to say.    *)
(***************************************************************************)
RowData == [labels : Seq(Entry), number : Tokens]
Says(name, d) == Sample(name, Pairs(d.labels), d.number)
Like(x, y) ==
  /\ x.family = y.family /\ x.value = y.value
  /\ NamesOf(x.labels) = NamesOf(y.labels) /\ OthersOf(x.labels) = OthersOf(y.labels)

(* A reader between two lines, with what it has read.                      *)
Lined(q, t, s) == \E w, b, l, i : q = State("line", w, t, s, b, l, i)

(* What it has read is like what is meant, up to where it failed.          *)
IsList(s) == \E S : s \in Seq(S)
Honest(s, M) == IsList(s) /\ \A n \in DOMAIN s : \E y \in M : Like(s[n], y)
HonestAt(q, t, M) == \E s : Honest(s, M) /\ (Lined(q, t, s) \/ \E u : Failed(q, u, s))

(* Both promises at once: "plain" that all is read back, "tame" that what  *)
(* is read is honest.                                                      *)
Promise(q, t, s, M, plain, tame) ==
  /\ plain => Lined(q, t, s)
  /\ tame => HonestAt(q, t, M)
GoodRow(d, name, M, plain, tame) ==
  /\ d.labels # <<>> /\ Sane(d.labels) /\ d.number \notin Punctuation
  /\ Says(name, d) \in M
  /\ plain => AllPlain(d.labels)
  /\ tame => AllTame(d.labels)

LEMMA ListGrows ==
  ASSUME NEW s, IsList(s), NEW x
  PROVE  /\ IsList(Append(s, x))
         /\ \A n \in DOMAIN Append(s, x) : (n \in DOMAIN s /\ Append(s, x)[n] = s[n]) \/ Append(s, x)[n] = x
<1>1. PICK S : s \in Seq(S)
  BY DEF IsList
<1> DEFINE T == S \cup {x}
<1>2. s \in Seq(T) /\ x \in T
  <2>1. s \in [1 .. Len(s) -> S] /\ Len(s) \in Nat
    BY <1>1, LenProperties
  <2>2. s \in [1 .. Len(s) -> T]
    BY <2>1
  <2> QED BY <2>1, <2>2
<1> HIDE DEF T
<1>3. PICK k \in Nat : /\ DOMAIN s = 1 .. k /\ Append(s, x) \in Seq(T)
                       /\ DOMAIN Append(s, x) = 1 .. k + 1
                       /\ Append(s, x)[k + 1] = x /\ (\A n \in 1 .. k : Append(s, x)[n] = s[n])
                       /\ (\A n \in 1 .. k + 1 : n \in 1 .. k \/ n = k + 1)
  BY <1>2, AppendAt
<1>4. \A n \in DOMAIN Append(s, x) : (n \in DOMAIN s /\ Append(s, x)[n] = s[n]) \/ Append(s, x)[n] = x
  <2> DEFINE u == Append(s, x)
  <2>1. DOMAIN u = 1 .. k + 1 /\ u[k + 1] = x /\ (\A n \in 1 .. k : u[n] = s[n])
    BY <1>3
  <2> HIDE DEF u
  <2>2. \A n \in DOMAIN u : (n \in DOMAIN s /\ u[n] = s[n]) \/ u[n] = x
    BY <1>3, <2>1
  <2> QED BY <2>2 DEF u
<1>5. IsList(Append(s, x))
  BY <1>3 DEF IsList
<1> QED BY <1>4, <1>5

LEMMA HonestGrows ==
  ASSUME NEW s, NEW M, Honest(s, M), NEW x, NEW y \in M, Like(x, y)
  PROVE  Honest(Append(s, x), M)
<1>1. IsList(s) /\ \A n \in DOMAIN s : \E z \in M : Like(s[n], z)
  BY DEF Honest
<1> DEFINE u == Append(s, x)
<1>2. IsList(u) /\ \A n \in DOMAIN u : (n \in DOMAIN s /\ u[n] = s[n]) \/ u[n] = x
  BY <1>1, ListGrows
<1> HIDE DEF u
<1>3. \A n \in DOMAIN u : \E z \in M : Like(u[n], z)
  BY <1>1, <1>2
<1>4. Honest(u, M)
  BY <1>2, <1>3 DEF Honest
<1> QED BY <1>4 DEF u

LEMMA FitsLike ==
  ASSUME NEW es, NEW b, NEW name, NEW number, Fits(es, b)
  PROVE  Like(Sample(name, b, number), Sample(name, Pairs(es), number))
BY DEF Fits, Like, Sample

(* One row.                                                                *)
LEMMA RowKeepsPromise ==
  ASSUME NEW t, NEW s, NEW M, NEW plain \in BOOLEAN, NEW tame \in BOOLEAN, NEW name \in Tokens, FamilyName(t, name),
         NEW d \in RowData, GoodRow(d, name, M, plain, tame), NEW q, Promise(q, t, s, M, plain, tame)
  PROVE  Promise(Reading(q, RowOf(name, d.labels, d.number)), t, Append(s, Says(name, d)), M, plain, tame)
<1> DEFINE es == d.labels
           number == d.number
           z == Reading(q, RowOf(name, es, number))
<1>1. /\ es \in Seq(Entry) /\ number \in Tokens /\ number \notin Punctuation
      /\ es # <<>> /\ Sane(es) /\ Says(name, d) = Sample(name, Pairs(es), number)
      /\ Sample(name, Pairs(es), number) \in M
      /\ (plain => AllPlain(es)) /\ (tame => AllTame(es))
  BY DEF RowData, GoodRow, Says
<1> HIDE DEF es, number
<1>2. ASSUME plain
      PROVE  Lined(z, t, Append(s, Sample(name, Pairs(es), number)))
  <2>1. PICK w, b, l, i : q = State("line", w, t, s, b, l, i)
    BY <1>2 DEF Promise, Lined
  <2>2. \E m, j : Reading(State("line", w, t, s, b, l, i), RowOf(name, es, number)) =
           State("line", number, t, Append(s, Sample(name, Pairs(es), number)), Pairs(es), m, j)
    <3>1. Readable(es, number)
      BY <1>1, <1>2 DEF Readable
    <3>2. es \in Seq(Entry) /\ number \in Tokens
      BY <1>1
    <3> QED BY <3>1, <3>2, RowReadsBack
  <2> QED BY <2>1, <2>2 DEF Lined
<1>3. ASSUME tame
      PROVE  HonestAt(z, t, M)
  <2>1. PICK o : Honest(o, M) /\ (Lined(q, t, o) \/ \E u : Failed(q, u, o))
    BY <1>3 DEF Promise, HonestAt
  <2>2. CASE \E u : Failed(q, u, o)
    <3>1. PICK u : Failed(q, u, o)
      BY <2>2
    <3> DEFINE p == RowOf(name, es, number)
    <3>2. Len(p) \in Nat
      <4>1. p \in Seq(Tokens)
        BY <1>1, RowSplits, Zenon
      <4> HIDE DEF p
      <4> QED BY <4>1, LenProperties
    <3> HIDE DEF p
    <3>3. Reading(q, p) = q
      BY <3>1, <3>2, FailedStays
    <3> QED BY <2>1, <3>1, <3>3 DEF p, HonestAt
  <2>3. CASE Lined(q, t, o)
    <3>1. PICK w, b, l, i : q = State("line", w, t, o, b, l, i)
      BY <2>3 DEF Lined
    <3>2. \/ \E x, m, j : /\ Reading(State("line", w, t, o, b, l, i), RowOf(name, es, number)) =
                              State("line", number, t, Append(o, Sample(name, x, number)), x, m, j)
                         /\ Fits(es, x)
         \/ Failed(Reading(State("line", w, t, o, b, l, i), RowOf(name, es, number)), t, o)
      BY <1>1, <1>3, RowForges
    <3>3. ASSUME NEW x, NEW m, NEW j, Fits(es, x),
                 z = State("line", number, t, Append(o, Sample(name, x, number)), x, m, j)
          PROVE  HonestAt(z, t, M)
      <4>1. Like(Sample(name, x, number), Sample(name, Pairs(es), number))
        BY <3>3, FitsLike
      <4>2. Honest(Append(o, Sample(name, x, number)), M)
        BY <1>1, <2>1, <4>1, HonestGrows
      <4>3. Lined(z, t, Append(o, Sample(name, x, number)))
        BY <3>3 DEF Lined
      <4> HIDE DEF z
      <4> QED BY <4>2, <4>3 DEF HonestAt
    <3>4. Failed(z, t, o) => HonestAt(z, t, M)
      BY <2>1 DEF HonestAt
    <3> QED BY <3>1, <3>2, <3>3, <3>4
  <2> QED BY <2>1, <2>2, <2>3
<1>4. Promise(z, t, Append(s, Sample(name, Pairs(es), number)), M, plain, tame)
  <2> HIDE DEF z
  <2> QED BY <1>2, <1>3 DEF Promise
<1> QED BY <1>1, <1>4 DEF es, number, z

(***************************************************************************)
(* The rows of a family.                                                   *)
(***************************************************************************)
Samples == [family : Tokens, labels : SUBSET (Tokens \X Seq(Tokens)), value : Tokens]
RowTexts(name) == [d \in RowData |-> RowOf(name, d.labels, d.number)]
RowSays(name) == [d \in RowData |-> <<Says(name, d)>>]

LEMMA SaysType ==
  ASSUME NEW name \in Tokens, NEW d \in RowData
  PROVE  Says(name, d) \in Samples
<1>1. d.labels \in Seq(Entry) /\ d.number \in Tokens
  BY DEF RowData
<1> DEFINE es == d.labels
<1>2. \A n \in DOMAIN es : es[n].name \in Tokens /\ es[n].value \in Seq(Tokens)
  <2>1. es \in Seq(Entry)
    BY <1>1
  <2> HIDE DEF es
  <2>2. \A n \in DOMAIN es : es[n] \in Entry
    BY <2>1, ElementOfSeq, LenProperties
  <2> QED BY <2>2 DEF Entry
<1> HIDE DEF es
<1>3. Pairs(es) \in SUBSET (Tokens \X Seq(Tokens))
  BY <1>2 DEF Pairs
<1> QED BY <1>1, <1>3 DEF Says, Sample, Samples, es

LEMMA RowMaps ==
  ASSUME NEW name \in Tokens
  PROVE  Maps(RowTexts(name), RowData, Tokens) /\ Maps(RowSays(name), RowData, Samples)
<1>1. \A d \in RowData : RowOf(name, d.labels, d.number) \in Seq(Tokens)
  <2> TAKE d \in RowData
  <2>1. d.labels \in Seq(Entry) /\ d.number \in Tokens
    BY DEF RowData
  <2> QED BY <2>1, RowSplits, Zenon
<1>2. \A d \in RowData : <<Says(name, d)>> \in Seq(Samples)
  <2> TAKE d \in RowData
  <2> DEFINE x == Says(name, d)
  <2>1. x \in Samples
    BY SaysType
  <2> HIDE DEF x
  <2>2. <<x>> \in Seq(Samples)
    BY <2>1
  <2> QED BY <2>2 DEF x
<1> QED BY <1>1, <1>2 DEF Maps, RowTexts, RowSays

LEMMA ConcatAppend ==
  ASSUME NEW T, NEW s \in Seq(T), NEW u \in Seq(T), NEW x \in T
  PROVE  s \o (u \o <<x>>) = Append(s \o u, x)
<1>1. s \o u \in Seq(T) /\ <<x>> \in Seq(T)
  BY ConcatProperties
<1>2. (s \o u) \o <<x>> = Append(s \o u, x)
  BY <1>1, AppendIsConcat
<1>3. s \o (u \o <<x>>) = (s \o u) \o <<x>>
  BY <1>1, ConcatAssociative
<1> QED BY <1>2, <1>3

LEMMA AllOfAppend ==
  ASSUME NEW T, NEW s \in Seq(T), NEW x \in T, NEW S, \A n \in DOMAIN Append(s, x) : Append(s, x)[n] \in S
  PROVE  x \in S /\ \A n \in DOMAIN s : s[n] \in S
<1> DEFINE u == Append(s, x)
<1>0. PICK k \in Nat : /\ DOMAIN s = 1 .. k /\ DOMAIN u = 1 .. k + 1
                       /\ u[k + 1] = x /\ (\A n \in 1 .. k : u[n] = s[n])
                       /\ (\A n \in 1 .. k : n \in 1 .. k + 1) /\ k + 1 \in 1 .. k + 1
  BY AppendAt
<1>1. \A n \in DOMAIN u : u[n] \in S
  OBVIOUS
<1> HIDE DEF u
<1> QED BY <1>0, <1>1

LEMMA RowsKeepPromise ==
  ASSUME NEW t, NEW s \in Seq(Samples), NEW M, NEW plain \in BOOLEAN, NEW tame \in BOOLEAN,
         NEW name \in Tokens, FamilyName(t, name), NEW q, Promise(q, t, s, M, plain, tame)
  PROVE  \A rows \in Seq(RowData) : (\A n \in DOMAIN rows : GoodRow(rows[n], name, M, plain, tame)) =>
           Promise(Reading(q, Gather(RowTexts(name), rows)), t, s \o Gather(RowSays(name), rows), M, plain, tame)
<1> DEFINE F == RowTexts(name)
           H == RowSays(name)
           G == {d \in RowData : GoodRow(d, name, M, plain, tame)}
           Kept(p, x) == Promise(p, t, x, M, plain, tame)
           S == {rows \in Seq(RowData) : (\A n \in DOMAIN rows : rows[n] \in G) =>
                    Kept(Reading(q, Gather(F, rows)), s \o Gather(H, rows))}
<1>0. Maps(F, RowData, Tokens) /\ Maps(H, RowData, Samples)
  BY RowMaps
<1>1. <<>> \in S
  <2>1. Gather(F, <<>>) = <<>> /\ Gather(H, <<>>) = <<>>
    BY GatherEmpty
  <2>2. s \o <<>> = s
    BY ConcatEmptySeq
  <2>3. Reading(q, <<>>) = q
    BY ReadingNothing
  <2>4. <<>> \in Seq(RowData)
    OBVIOUS
  <2>5. Kept(q, s)
    OBVIOUS
  <2> HIDE DEF F, H, Kept
  <2> QED BY <2>1, <2>2, <2>3, <2>4, <2>5
<1>2. ASSUME NEW rows \in Seq(RowData), NEW d \in RowData, rows \in S
      PROVE  Append(rows, d) \in S
  <2> DEFINE u == Append(rows, d)
             p == Reading(q, Gather(F, rows))
             x == s \o Gather(H, rows)
  <2>0. u \in Seq(RowData)
    BY AppendProperties
  <2> SUFFICES ASSUME \A n \in DOMAIN u : u[n] \in G
               PROVE  Kept(Reading(q, Gather(F, u)), s \o Gather(H, u))
    BY <2>0
  <2>1. d \in G /\ \A n \in DOMAIN rows : rows[n] \in G
    <3> HIDE DEF G
    <3> QED BY AllOfAppend
  <2>2. Kept(p, x)
    BY <1>2, <2>1
  <2>3. Gather(F, u) = Gather(F, rows) \o F[d] /\ Gather(F, rows) \in Seq(Tokens) /\ F[d] \in Seq(Tokens)
    <3> HIDE DEF F
    <3> QED BY <1>0, GatherAppend, GatherType, MapsAt
  <2>4. Gather(H, u) = Gather(H, rows) \o H[d] /\ Gather(H, rows) \in Seq(Samples)
    <3> HIDE DEF H
    <3> QED BY <1>0, GatherAppend, GatherType, MapsAt
  <2>5. Reading(q, Gather(F, u)) = Reading(p, F[d])
    <3> DEFINE a == Gather(F, rows)
               e == F[d]
    <3>1. a \in Seq(Tokens) /\ e \in Seq(Tokens)
      BY <2>3
    <3> HIDE DEF a, e
    <3>2. Reading(q, a \o e) = Reading(Reading(q, a), e)
      BY <3>1, ReadingConcat
    <3> QED BY <2>3, <3>2 DEF a, e
  <2>6. s \o Gather(H, u) = Append(x, Says(name, d))
    <3> DEFINE a == Gather(H, rows)
               e == Says(name, d)
    <3>1. a \in Seq(Samples) /\ e \in Samples
      BY <2>4, SaysType
    <3>2. H[d] = <<e>>
      BY DEF RowSays
    <3> HIDE DEF a, e
    <3>3. s \o (a \o <<e>>) = Append(s \o a, e)
      BY <3>1, ConcatAppend
    <3> QED BY <2>4, <3>2, <3>3 DEF a, e
  <2>7. Kept(Reading(p, RowOf(name, d.labels, d.number)), Append(x, Says(name, d)))
    <3>1. GoodRow(d, name, M, plain, tame)
      BY <2>1
    <3> HIDE DEF p, x
    <3>2. Promise(p, t, x, M, plain, tame)
      BY <2>2
    <3> QED BY <3>1, <3>2, RowKeepsPromise
  <2>8. F[d] = RowOf(name, d.labels, d.number)
    BY DEF RowTexts
  <2> HIDE DEF Kept, F, H, p, x, u
  <2> QED BY <2>5, <2>6, <2>7, <2>8
<1>3. \A rows \in Seq(RowData) : rows \in S
  <2> HIDE DEF S
  <2> QED BY <1>1, <1>2, SeqInduction
<1>4. ASSUME NEW rows \in Seq(RowData), \A n \in DOMAIN rows : GoodRow(rows[n], name, M, plain, tame)
      PROVE  Promise(Reading(q, Gather(F, rows)), t, s \o Gather(H, rows), M, plain, tame)
  <2>1. \A n \in DOMAIN rows : rows[n] \in RowData
    BY ElementOfSeq, LenProperties
  <2>2. \A n \in DOMAIN rows : rows[n] \in G
    BY <1>4, <2>1
  <2> HIDE DEF F, H, G
  <2> QED BY <1>3, <2>2
<1> QED BY <1>4

(***************************************************************************)
(* The comments before the rows of a family.                               *)
(***************************************************************************)
HeaderOf(name, help, type) == <<"# HELP ", name, help, NewLine, "# TYPE ", name, type, NewLine>>
NewFamily(t, name) ==
  /\ NoComment(t) /\ name # NewLine
  /\ \A n \in DOMAIN t : t[n][1] # name

LEMMA ReadingFour ==
  ASSUME NEW r, NEW a \in Tokens, NEW b \in Tokens, NEW c \in Tokens, NEW d \in Tokens
  PROVE  Reading(r, <<a, b, c, d>>) = Advance(Advance(Advance(Advance(r, a), b), c), d)
<1> DEFINE p == <<a, b>>
           q == <<c, d>>
<1>1. p \in Seq(Tokens) /\ q \in Seq(Tokens)
  BY Tuples, Zenon
<1>2. <<a, b, c, d>> = p \o q
  OBVIOUS
<1>3. \A x : Reading(x, p) = Advance(Advance(x, a), b)
  BY ReadingTwo
<1>4. \A x : Reading(x, q) = Advance(Advance(x, c), d)
  BY ReadingTwo
<1> HIDE DEF p, q
<1>5. Reading(r, p \o q) = Reading(Reading(r, p), q)
  BY <1>1, ReadingConcat
<1> QED BY <1>2, <1>3, <1>4, <1>5, Zenon

LEMMA EightTokens ==
  ASSUME NEW a, NEW b, NEW c, NEW d, NEW e, NEW f, NEW g, NEW h
  PROVE  <<a, b, c, d, e, f, g, h>> = <<a, b, c, d>> \o <<e, f, g, h>>
OBVIOUS

LEMMA HeaderSplits ==
  ASSUME NEW name \in Tokens, NEW help \in Tokens, NEW type \in Tokens
  PROVE  /\ HeaderOf(name, help, type) \in Seq(Tokens)
         /\ <<"# HELP ", name, help, NewLine>> \in Seq(Tokens)
         /\ <<"# TYPE ", name, type, NewLine>> \in Seq(Tokens)
         /\ HeaderOf(name, help, type) = <<"# HELP ", name, help, NewLine>> \o <<"# TYPE ", name, type, NewLine>>
<1>1. "# HELP " \in Tokens /\ "# TYPE " \in Tokens /\ NewLine \in Tokens
  BY Marks, Zenon DEF Tokens
<1> DEFINE p == <<"# HELP ", name, help, NewLine>>
           q == <<"# TYPE ", name, type, NewLine>>
<1>2. p \in Seq(Tokens) /\ q \in Seq(Tokens)
  BY <1>1, Tuples, Zenon
<1>3. HeaderOf(name, help, type) = p \o q
  <2> DEFINE a == "# HELP "
             d == NewLine
             e == "# TYPE "
             u == <<a, name, help, d, e, name, type, d>>
  <2>1. u = <<a, name, help, d>> \o <<e, name, type, d>>
    <3> HIDE DEF a, d, e
    <3> QED BY EightTokens
  <2>2. HeaderOf(name, help, type) = u /\ p = <<a, name, help, d>> /\ q = <<e, name, type, d>>
    BY DEF HeaderOf
  <2> HIDE DEF u, p, q, a, d, e
  <2> QED BY <2>1, <2>2, Zenon
<1> HIDE DEF p, q
<1>4. p \o q \in Seq(Tokens)
  BY <1>2, ConcatProperties
<1> QED BY <1>2, <1>3, <1>4, Zenon DEF p, q

LEMMA HeaderReads ==
  ASSUME NEW w, NEW t, NEW s, NEW b, NEW l, NEW i, NEW name \in Tokens, NEW help \in Tokens, NEW type \in Tokens,
         help # NewLine, NewFamily(t, name)
  PROVE  Reading(State("line", w, t, s, b, l, i), HeaderOf(name, help, type)) =
           State("line", name, Append(t, <<name, type>>), s, b, l, i)
<1> DEFINE S(m, x, y) == State(m, x, y, s, b, l, i)
           p == <<"# HELP ", name, help, NewLine>>
           q == <<"# TYPE ", name, type, NewLine>>
           u == Append(t, <<name, type>>)
           header == HeaderOf(name, help, type)
<1>0. NoComment(t) /\ name # NewLine /\ \A n \in DOMAIN t : t[n][1] # name
  BY DEF NewFamily
<1>1. p \in Seq(Tokens) /\ q \in Seq(Tokens) /\ header = p \o q
  BY HeaderSplits, Zenon
<1>2. Advance(S("line", w, t), "# HELP ") = S("help", w, t) /\ Advance(S("line", w, t), "# TYPE ") = S("typed", w, t)
  BY <1>0, LineHelp, LineType, Zenon
<1>3. Advance(S("help", w, t), name) = S("help", w, t) /\ Advance(S("help", w, t), help) = S("help", w, t)
      /\ Advance(S("help", w, t), NewLine) = S("line", w, t)
  BY <1>0, HelpWord, HelpEnd
<1>4. Advance(S("typed", w, t), name) = S("type", name, t)
  <2>1. \A n \in DOMAIN t : t[n][1] # name
    BY <1>0
  <2> QED BY <2>1, TypedWord
<1>5. Advance(S("type", name, t), type) = S("end", name, u)
  BY TypeWord
<1>6. Advance(S("end", name, u), NewLine) = S("line", name, u)
  BY EndEnd
<1>7. \A x : Reading(x, p) = Advance(Advance(Advance(Advance(x, "# HELP "), name), help), NewLine)
  <2>1. "# HELP " \in Tokens /\ NewLine \in Tokens
    BY Marks, Zenon DEF Tokens
  <2> DEFINE a == "# HELP "
             d == NewLine
             y == <<a, name, help, d>>
  <2>2. a \in Tokens /\ d \in Tokens
    BY <2>1, Zenon
  <2>3. \A x : Reading(x, y) = Advance(Advance(Advance(Advance(x, a), name), help), d)
    <3> HIDE DEF a, d
    <3> QED BY <2>2, ReadingFour
  <2> QED BY <2>3, Zenon
<1>8. \A x : Reading(x, q) = Advance(Advance(Advance(Advance(x, "# TYPE "), name), type), NewLine)
  <2>1. "# TYPE " \in Tokens /\ NewLine \in Tokens
    BY Marks, Zenon DEF Tokens
  <2> DEFINE a == "# TYPE "
             d == NewLine
             y == <<a, name, type, d>>
  <2>2. a \in Tokens /\ d \in Tokens
    BY <2>1, Zenon
  <2>3. \A x : Reading(x, y) = Advance(Advance(Advance(Advance(x, a), name), type), d)
    <3> HIDE DEF a, d
    <3> QED BY <2>2, ReadingFour
  <2> QED BY <2>3, Zenon
<1> HIDE DEF p, q, u, S
<1>9. Reading(S("line", w, t), p) = S("line", w, t)
  BY <1>2, <1>3, <1>7, Zenon
<1>10. Reading(S("line", w, t), q) = S("line", name, u)
  BY <1>2, <1>4, <1>5, <1>6, <1>8, Zenon
<1>11. Reading(S("line", w, t), p \o q) = Reading(Reading(S("line", w, t), p), q)
  BY <1>1, ReadingConcat
<1>12. Reading(S("line", w, t), header) = S("line", name, u)
  BY <1>1, <1>9, <1>10, <1>11, Zenon
<1> QED BY <1>12 DEF S, u

(***************************************************************************)
(* Any text, once the reader has failed.                                   *)
(***************************************************************************)
LEMMA PromisePasses ==
  ASSUME NEW t, NEW v, NEW s, NEW M, NEW plain \in BOOLEAN, NEW tame \in BOOLEAN, NEW p \in Seq(Tokens),
         NEW q, Promise(q, t, s, M, plain, tame),
         \A x : Lined(q, t, x) => Lined(Reading(q, p), v, x)
  PROVE  Promise(Reading(q, p), v, s, M, plain, tame)
<1>1. plain => Lined(Reading(q, p), v, s)
  BY DEF Promise
<1>2. ASSUME tame PROVE HonestAt(Reading(q, p), v, M)
  <2>1. PICK o : Honest(o, M) /\ (Lined(q, t, o) \/ \E u : Failed(q, u, o))
    BY <1>2 DEF Promise, HonestAt
  <2>2. CASE \E u : Failed(q, u, o)
    <3>1. PICK u : Failed(q, u, o)
      BY <2>2
    <3>2. Len(p) \in Nat
      BY LenProperties
    <3>3. Reading(q, p) = q
      BY <3>1, <3>2, FailedStays
    <3> QED BY <2>1, <3>1, <3>3 DEF HonestAt
  <2>3. CASE Lined(q, t, o)
    <3>1. Lined(Reading(q, p), v, o)
      BY <2>3
    <3> QED BY <2>1, <3>1 DEF HonestAt
  <2> QED BY <2>1, <2>2, <2>3
<1> QED BY <1>1, <1>2 DEF Promise

LEMMA HeaderKeepsPromise ==
  ASSUME NEW t, NEW s, NEW M, NEW plain \in BOOLEAN, NEW tame \in BOOLEAN,
         NEW name \in Tokens, NEW help \in Tokens, NEW type \in Tokens, help # NewLine, NewFamily(t, name),
         NEW q, Promise(q, t, s, M, plain, tame)
  PROVE  Promise(Reading(q, HeaderOf(name, help, type)), Append(t, <<name, type>>), s, M, plain, tame)
<1> DEFINE p == HeaderOf(name, help, type)
           v == Append(t, <<name, type>>)
<1>1. p \in Seq(Tokens)
  BY HeaderSplits, Zenon
<1>2. \A x : Lined(q, t, x) => Lined(Reading(q, p), v, x)
  <2> SUFFICES ASSUME NEW x, Lined(q, t, x) PROVE Lined(Reading(q, p), v, x)
    OBVIOUS
  <2>1. PICK w, b, l, i : q = State("line", w, t, x, b, l, i)
    BY DEF Lined
  <2>2. Reading(State("line", w, t, x, b, l, i), p) = State("line", name, v, x, b, l, i)
    BY HeaderReads
  <2> QED BY <2>1, <2>2 DEF Lined
<1> HIDE DEF p, v
<1>3. Promise(Reading(q, p), v, s, M, plain, tame)
  BY <1>1, <1>2, PromisePasses
<1> QED BY <1>3 DEF p, v

LEMMA EmptyLineKeepsPromise ==
  ASSUME NEW t, NEW s, NEW M, NEW plain \in BOOLEAN, NEW tame \in BOOLEAN, NEW q, Promise(q, t, s, M, plain, tame)
  PROVE  Promise(Reading(q, <<NewLine>>), t, s, M, plain, tame)
<1> DEFINE p == <<NewLine>>
<1>1. p \in Seq(Tokens)
  <2>1. NewLine \in Tokens
    BY Marks, Zenon DEF Punctuation
  <2> QED BY <2>1, Tuples, Zenon
<1>2. \A x : Lined(q, t, x) => Lined(Reading(q, p), t, x)
  <2> SUFFICES ASSUME NEW x, Lined(q, t, x) PROVE Lined(Reading(q, p), t, x)
    OBVIOUS
  <2>1. PICK w, b, l, i : q = State("line", w, t, x, b, l, i)
    BY DEF Lined
  <2>2. Reading(q, p) = Advance(q, NewLine)
    BY ReadingOne
  <2>3. Advance(State("line", w, t, x, b, l, i), NewLine) = State("line", w, t, x, b, l, i)
    BY LineEmpty
  <2> QED BY <2>1, <2>2, <2>3 DEF Lined
<1> HIDE DEF p
<1>3. Promise(Reading(q, p), t, s, M, plain, tame)
  BY <1>1, <1>2, PromisePasses
<1> QED BY <1>3 DEF p

(***************************************************************************)
(* A family, and all of them.                                              *)
(***************************************************************************)
Fam == [name : Tokens, help : Tokens, type : Tokens, rows : Seq(RowData)]
FamilyText(f) == HeaderOf(f.name, f.help, f.type) \o Gather(RowTexts(f.name), f.rows)
FamilySays(f) == Gather(RowSays(f.name), f.rows)
GoodFamily(f, M, plain, tame) ==
  /\ f.help # NewLine /\ f.name \notin Punctuation \cup {"# HELP ", "# TYPE "}
  /\ \A n \in DOMAIN f.rows : GoodRow(f.rows[n], f.name, M, plain, tame)

LEMMA FamilyTypes ==
  ASSUME NEW f \in Fam
  PROVE  FamilyText(f) \in Seq(Tokens) /\ FamilySays(f) \in Seq(Samples)
<1>1. f.name \in Tokens /\ f.help \in Tokens /\ f.type \in Tokens /\ f.rows \in Seq(RowData)
  BY DEF Fam
<1> DEFINE a == HeaderOf(f.name, f.help, f.type)
           d == Gather(RowTexts(f.name), f.rows)
<1>2. a \in Seq(Tokens)
  BY <1>1, HeaderSplits, Zenon
<1>3. d \in Seq(Tokens) /\ FamilySays(f) \in Seq(Samples)
  BY <1>1, RowMaps, GatherType DEF FamilySays
<1> HIDE DEF a, d
<1>4. a \o d \in Seq(Tokens)
  BY <1>2, <1>3, ConcatProperties
<1> QED BY <1>3, <1>4 DEF a, d, FamilyText

LEMMA LastAppended ==
  ASSUME NEW T, NEW t \in Seq(T), NEW x \in T
  PROVE  Append(t, x) # <<>> /\ Append(t, x)[Len(Append(t, x))] = x
BY AppendAt

LEMMA FamilyKeepsPromise ==
  ASSUME NEW t \in Seq(Tokens \X Tokens), NEW s \in Seq(Samples), NEW M, NEW plain \in BOOLEAN, NEW tame \in BOOLEAN,
         NEW f \in Fam, GoodFamily(f, M, plain, tame), NewFamily(t, f.name),
         NEW q, Promise(q, t, s, M, plain, tame)
  PROVE  Promise(Reading(q, FamilyText(f)), Append(t, <<f.name, f.type>>), s \o FamilySays(f), M, plain, tame)
<1>1. f.name \in Tokens /\ f.help \in Tokens /\ f.type \in Tokens /\ f.rows \in Seq(RowData)
  BY DEF Fam
<1>2. /\ f.help # NewLine /\ f.name \notin Punctuation \cup {"# HELP ", "# TYPE "}
      /\ \A n \in DOMAIN f.rows : GoodRow(f.rows[n], f.name, M, plain, tame)
  BY Zenon DEF GoodFamily
<1> DEFINE name == f.name
           type == f.type
           a == HeaderOf(name, f.help, type)
           d == Gather(RowTexts(name), f.rows)
           v == Append(t, <<name, type>>)
           p == Reading(q, a)
<1>3. Promise(p, v, s, M, plain, tame)
  BY <1>1, <1>2, HeaderKeepsPromise, ZenonT(60)
<1>4. FamilyName(v, name)
  <2> DEFINE x == <<name, type>>
  <2>1. x \in Tokens \X Tokens /\ x[1] = name
    BY <1>1
  <2>2. name \notin Punctuation \cup {"# HELP ", "# TYPE "}
    BY <1>2, Zenon
  <2>3. v = Append(t, x)
    OBVIOUS
  <2> HIDE DEF x, name, v
  <2>4. Append(t, x) # <<>> /\ Append(t, x)[Len(Append(t, x))] = x
    BY <2>1, LastAppended
  <2>5. v # <<>> /\ v[Len(v)] = x
    BY <2>3, <2>4, Zenon
  <2> QED BY <2>1, <2>2, <2>5, Zenon DEF FamilyName
<1>5. Promise(Reading(p, d), v, s \o FamilySays(f), M, plain, tame)
  <2> DEFINE rows == f.rows
  <2>1. rows \in Seq(RowData) /\ (\A n \in DOMAIN rows : GoodRow(rows[n], name, M, plain, tame)) /\ name \in Tokens
    BY <1>1, <1>2, Zenon
  <2>2. FamilySays(f) = Gather(RowSays(name), rows) /\ d = Gather(RowTexts(name), rows)
    BY DEF FamilySays
  <2> HIDE DEF rows, name, p, v, d
  <2>3. \A r \in Seq(RowData) : (\A n \in DOMAIN r : GoodRow(r[n], name, M, plain, tame)) =>
           Promise(Reading(p, Gather(RowTexts(name), r)), v, s \o Gather(RowSays(name), r), M, plain, tame)
    BY <1>3, <1>4, <2>1, RowsKeepPromise
  <2>4. Promise(Reading(p, Gather(RowTexts(name), rows)), v, s \o Gather(RowSays(name), rows), M, plain, tame)
    BY <2>1, <2>3
  <2> QED BY <2>2, <2>4, Zenon
<1>6. FamilyText(f) = a \o d
  BY DEF FamilyText
<1>7. a \in Seq(Tokens)
  BY <1>1, HeaderSplits, Zenon
<1>8. d \in Seq(Tokens)
  BY <1>1, RowMaps, GatherType
<1> HIDE DEF a, d
<1>9. Reading(q, a \o d) = Reading(Reading(q, a), d)
  BY <1>7, <1>8, ReadingConcat
<1> HIDE DEF v
<1>10. Promise(Reading(q, FamilyText(f)), v, s \o FamilySays(f), M, plain, tame)
  BY <1>5, <1>6, <1>9
<1> QED BY <1>10 DEF v

Image(g, s) == [n \in DOMAIN s |-> g[s[n]]]
Takes(g, A, T) == g \in [A -> T]

LEMMA ImageType ==
  ASSUME NEW A, NEW T, NEW g, Takes(g, A, T), NEW s \in Seq(A)
  PROVE  Image(g, s) \in Seq(T)
<1>1. s \in [1 .. Len(s) -> A] /\ Len(s) \in Nat
  BY LenProperties
<1> DEFINE u == Image(g, s)
<1>2. u \in [1 .. Len(s) -> T]
  BY <1>1 DEF Image, Takes
<1> HIDE DEF u
<1>4. u \in Seq(T)
  BY <1>1, <1>2, LenProperties
<1> QED BY <1>4 DEF u

LEMMA ImageLen ==
  ASSUME NEW A, NEW T, NEW g, Takes(g, A, T), NEW s \in Seq(A)
  PROVE  DOMAIN Image(g, s) = DOMAIN s /\ Len(Image(g, s)) = Len(s)
<1> DEFINE u == Image(g, s)
<1>1. u \in Seq(T)
  BY ImageType
<1>2. DOMAIN u = DOMAIN s
  BY DEF Image
<1> HIDE DEF u
<1>3. DOMAIN u = 1 .. Len(u) /\ Len(u) \in Nat /\ DOMAIN s = 1 .. Len(s) /\ Len(s) \in Nat
  BY <1>1, LenProperties
<1>4. \A m, n \in Nat : 1 .. m = 1 .. n => m = n
  OBVIOUS
<1>5. Len(u) = Len(s)
  BY <1>2, <1>3, <1>4, Zenon
<1> QED BY <1>2, <1>5 DEF u

LEMMA ImageAppend ==
  ASSUME NEW A, NEW T, NEW g, Takes(g, A, T), NEW s \in Seq(A), NEW x \in A
  PROVE  Image(g, Append(s, x)) = Append(Image(g, s), g[x])
<1> DEFINE u == Append(s, x)
           a == Image(g, s)
           y == g[x]
           z == Append(a, y)
           o == Image(g, u)
<1>0. PICK k \in Nat : /\ DOMAIN s = 1 .. k /\ Len(s) = k /\ u \in Seq(A)
                       /\ DOMAIN u = 1 .. k + 1 /\ u[k + 1] = x /\ (\A n \in 1 .. k : u[n] = s[n])
                       /\ (\A n \in 1 .. k + 1 : n \in 1 .. k \/ n = k + 1)
  BY AppendAt
<1>1. a \in Seq(T) /\ DOMAIN a = 1 .. k /\ Len(a) = k /\ y \in T
  <2>1. a \in Seq(T)
    BY ImageType
  <2>2. DOMAIN a = DOMAIN s /\ Len(a) = Len(s)
    BY ImageLen
  <2>3. y \in T
    BY DEF Takes
  <2> QED BY <1>0, <2>1, <2>2, <2>3
<1>2. \A n \in 1 .. k : a[n] = g[s[n]]
  BY <1>0 DEF Image
<1>3. DOMAIN o = 1 .. k + 1 /\ \A n \in 1 .. k + 1 : o[n] = g[u[n]]
  BY <1>0 DEF Image
<1>4. o = [n \in 1 .. k + 1 |-> o[n]]
  BY <1>0 DEF Image
<1> HIDE DEF a, o, u
<1>5. PICK j \in Nat : /\ DOMAIN a = 1 .. j /\ DOMAIN z = 1 .. j + 1 /\ Len(a) = j /\ Len(z) = j + 1
                       /\ z[j + 1] = y /\ (\A n \in 1 .. j : z[n] = a[n]) /\ z \in Seq(T)
  BY <1>1, AppendAt
<1>6. j = k
  BY <1>1, <1>5
<1> HIDE DEF z
<1>7. z = [n \in 1 .. k + 1 |-> z[n]]
  <2>1. z \in [1 .. k + 1 -> T]
    BY <1>5, <1>6, LenProperties
  <2> QED BY <2>1
<1>8. \A n \in 1 .. k + 1 : o[n] = z[n]
  <2> TAKE n \in 1 .. k + 1
  <2>1. CASE n \in 1 .. k
    BY <1>0, <1>2, <1>3, <1>5, <1>6, <2>1
  <2>2. CASE n = k + 1
    BY <1>0, <1>3, <1>5, <1>6, <2>2
  <2> QED BY <1>0, <2>1, <2>2
<1>9. o = z
  BY <1>4, <1>7, <1>8
<1> QED BY <1>9 DEF o, z, a, u

(***************************************************************************)
(* A whole response.                                                       *)
(***************************************************************************)
TextOf == [f \in Fam |-> FamilyText(f)]
TypeOf == [f \in Fam |-> <<f.name, f.type>>]
SaidOf == [f \in Fam |-> FamilySays(f)]
BodyOf(fams) == Glued(NewLine, Image(TextOf, fams))
GoodBody(fams, M, plain, tame) ==
  /\ \A n \in DOMAIN fams : GoodFamily(fams[n], M, plain, tame)
  /\ \A m, n \in DOMAIN fams : fams[m].name = fams[n].name => m = n

LEMMA FamMaps ==
  Takes(TextOf, Fam, Seq(Tokens)) /\ Takes(TypeOf, Fam, Tokens \X Tokens) /\ Maps(SaidOf, Fam, Samples)
<1>1. \A f \in Fam : FamilyText(f) \in Seq(Tokens) /\ FamilySays(f) \in Seq(Samples)
  BY FamilyTypes
<1>2. \A f \in Fam : <<f.name, f.type>> \in Tokens \X Tokens
  BY DEF Fam
<1> QED BY <1>1, <1>2 DEF Maps, Takes, TextOf, TypeOf, SaidOf

LEMMA BodySteps ==
  ASSUME NEW fams \in Seq(Fam), NEW f \in Fam
  PROVE  /\ BodyOf(Append(fams, f)) = BodyOf(fams) \o Glue(fams = <<>>, NewLine, FamilyText(f))
         /\ BodyOf(fams) \in Seq(Tokens)
         /\ Image(TypeOf, Append(fams, f)) = Append(Image(TypeOf, fams), <<f.name, f.type>>)
         /\ Gather(SaidOf, Append(fams, f)) = Gather(SaidOf, fams) \o FamilySays(f)
<1> DEFINE a == Image(TextOf, fams)
           x == TextOf[f]
           u == Append(fams, f)
           Q == Seq(Tokens)
<1>1. Image(TextOf, u) = Append(a, x) /\ a \in Seq(Q) /\ x \in Q
  <2>1. Takes(TextOf, Fam, Q)
    BY FamMaps
  <2>2. x \in Q
    BY <2>1 DEF Takes
  <2> HIDE DEF Q
  <2>3. Image(TextOf, Append(fams, f)) = Append(Image(TextOf, fams), TextOf[f])
    BY <2>1, ImageAppend
  <2>4. Image(TextOf, fams) \in Seq(Q)
    BY <2>1, ImageType
  <2> QED BY <2>2, <2>3, <2>4
<1>2. (a = <<>>) = (fams = <<>>)
  <2>1. fams = <<>> => a = <<>>
    BY DEF Image
  <2>2. Len(a) = Len(fams)
    <3> DEFINE g == TextOf
    <3>1. Takes(g, Fam, Q)
      BY FamMaps
    <3> HIDE DEF g, Q
    <3>2. Len(Image(g, fams)) = Len(fams)
      BY <3>1, ImageLen
    <3> QED BY <3>2 DEF g
  <2>3. a = <<>> => fams = <<>>
    <3> HIDE DEF a
    <3>1. Len(fams) = 0 => fams = <<>>
      BY EmptySeq
    <3> QED BY <2>2, <3>1
  <2> QED BY <2>1, <2>3
<1>3. NewLine \in Tokens
  BY Marks, Zenon DEF Punctuation
<1>4. x = FamilyText(f) /\ TypeOf[f] = <<f.name, f.type>> /\ SaidOf[f] = FamilySays(f)
  BY DEF TextOf, TypeOf, SaidOf
<1> HIDE DEF a, x, u
<1>5. Glued(NewLine, Append(a, x)) = Glued(NewLine, a) \o Glue(a = <<>>, NewLine, x) /\ Glued(NewLine, a) \in Seq(Tokens)
  BY <1>1, <1>3, GluedAppend
<1>6. BodyOf(u) = Glued(NewLine, Append(a, x)) /\ BodyOf(fams) = Glued(NewLine, a)
  BY <1>1 DEF BodyOf, a
<1>7. Image(TypeOf, u) = Append(Image(TypeOf, fams), TypeOf[f])
  <2> DEFINE g == TypeOf
             T == Tokens \X Tokens
  <2>1. Takes(g, Fam, T)
    BY FamMaps
  <2> HIDE DEF g, T
  <2>2. Image(g, Append(fams, f)) = Append(Image(g, fams), g[f])
    BY <2>1, ImageAppend
  <2> QED BY <2>2 DEF g, u
<1>8. Gather(SaidOf, u) = Gather(SaidOf, fams) \o SaidOf[f]
  BY FamMaps, GatherAppend DEF u
<1>9. BodyOf(u) = BodyOf(fams) \o Glue(fams = <<>>, NewLine, FamilyText(f)) /\ BodyOf(fams) \in Seq(Tokens)
  BY <1>2, <1>4, <1>5, <1>6
<1> QED BY <1>4, <1>7, <1>8, <1>9 DEF u

LEMMA GoodAppend ==
  ASSUME NEW fams \in Seq(Fam), NEW f \in Fam, NEW M, NEW plain, NEW tame, GoodBody(Append(fams, f), M, plain, tame)
  PROVE  /\ GoodBody(fams, M, plain, tame) /\ GoodFamily(f, M, plain, tame)
         /\ NewFamily(Image(TypeOf, fams), f.name)
<1> DEFINE u == Append(fams, f)
<1>0. PICK k \in Nat : /\ DOMAIN fams = 1 .. k /\ Len(fams) = k
                       /\ DOMAIN u = 1 .. k + 1 /\ u[k + 1] = f /\ (\A n \in 1 .. k : u[n] = fams[n])
                       /\ (\A n \in 1 .. k : n \in 1 .. k + 1) /\ k + 1 \in 1 .. k + 1
                       /\ (fams = <<>> <=> k = 0)
  BY AppendAt
<1>1. /\ \A n \in DOMAIN u : GoodFamily(u[n], M, plain, tame)
      /\ \A m, n \in DOMAIN u : u[m].name = u[n].name => m = n
  BY DEF GoodBody
<1>2. \A n \in 1 .. k : n # k + 1
  OBVIOUS
<1> HIDE DEF u
<1>3. GoodBody(fams, M, plain, tame) /\ GoodFamily(f, M, plain, tame)
  BY <1>0, <1>1 DEF GoodBody
<1>4. \A n \in DOMAIN fams : fams[n].name # f.name
  BY <1>0, <1>1, <1>2
<1> DEFINE t == Image(TypeOf, fams)
<1>5. DOMAIN t = DOMAIN fams /\ Len(t) = k /\ \A n \in DOMAIN fams : t[n] = TypeOf[fams[n]]
  <2>1. DOMAIN t = DOMAIN fams /\ Len(t) = k
    <3> DEFINE g == TypeOf
               T == Tokens \X Tokens
    <3>1. Takes(g, Fam, T)
      BY FamMaps
    <3> HIDE DEF g, T
    <3>2. DOMAIN Image(g, fams) = DOMAIN fams /\ Len(Image(g, fams)) = Len(fams)
      BY <3>1, ImageLen
    <3> QED BY <1>0, <3>2 DEF g
  <2>2. \A n \in DOMAIN fams : t[n] = TypeOf[fams[n]]
    BY DEF Image
  <2> QED BY <2>1, <2>2
<1>6. \A n \in DOMAIN fams : fams[n] \in Fam
  BY ElementOfSeq, LenProperties
<1>7. \A n \in DOMAIN fams : t[n][1] = fams[n].name
  <2>1. \A g \in Fam : TypeOf[g][1] = g.name
    BY DEF TypeOf
  <2> QED BY <1>5, <1>6, <2>1
<1> HIDE DEF t
<1>8. NoComment(t)
  <2> SUFFICES ASSUME t # <<>> PROVE t[Len(t)][1] \notin {"# HELP ", "# TYPE "}
    BY Zenon DEF NoComment
  <2>1. k # 0
    <3>1. k = 0 => t = <<>>
      <4>1. fams = <<>> => t = <<>>
        BY DEF t, Image
      <4> QED BY <1>0, <4>1
    <3> QED BY <3>1
  <2>2. Len(t) \in DOMAIN fams
    BY <1>0, <1>5, <2>1
  <2>3. fams[Len(t)].name \notin {"# HELP ", "# TYPE "}
    BY <1>3, <2>2, Zenon DEF GoodBody, GoodFamily
  <2> QED BY <1>7, <2>2, <2>3, Zenon
<1>9. f.name # NewLine
  BY <1>3, Marks, Zenon DEF GoodFamily, Punctuation
<1>10. NewFamily(t, f.name)
  BY <1>4, <1>5, <1>7, <1>8, <1>9 DEF NewFamily
<1> QED BY <1>3, <1>10 DEF t

LEMMA BodyKeepsPromise ==
  ASSUME NEW M, NEW plain \in BOOLEAN, NEW tame \in BOOLEAN
  PROVE  \A fams \in Seq(Fam) : GoodBody(fams, M, plain, tame) =>
           Promise(Reading(Start, BodyOf(fams)), Image(TypeOf, fams), Gather(SaidOf, fams), M, plain, tame)
<1> DEFINE Kept(q, t, s) == Promise(q, t, s, M, plain, tame)
           S == {fams \in Seq(Fam) : GoodBody(fams, M, plain, tame) =>
                   Kept(Reading(Start, BodyOf(fams)), Image(TypeOf, fams), Gather(SaidOf, fams))}
<1>1. <<>> \in S
  <2>1. Image(TypeOf, <<>>) = <<>> /\ Image(TextOf, <<>>) = <<>>
    BY DEF Image
  <2>2. BodyOf(<<>>) = <<>>
    BY <2>1, GluedEmpty, Zenon DEF BodyOf
  <2>3. Gather(SaidOf, <<>>) = <<>> /\ Reading(Start, <<>>) = Start
    BY GatherEmpty, ReadingNothing
  <2>4. Start = State("line", None, <<>>, <<>>, {}, None, Opened)
    BY DEF Start, State
  <2>5. Lined(Start, <<>>, <<>>)
    BY <2>4, Zenon DEF Lined
  <2>6. Honest(<<>>, M)
    <3>1. <<>> \in Seq({})
      OBVIOUS
    <3> QED BY <3>1 DEF Honest, IsList
  <2>7. Kept(Start, <<>>, <<>>)
    BY <2>5, <2>6 DEF Promise, HonestAt
  <2>8. <<>> \in Seq(Fam)
    OBVIOUS
  <2> HIDE DEF Kept
  <2> QED BY <2>1, <2>2, <2>3, <2>7, <2>8
<1>2. ASSUME NEW fams \in Seq(Fam), NEW f \in Fam, fams \in S
      PROVE  Append(fams, f) \in S
  <2> DEFINE u == Append(fams, f)
             t == Image(TypeOf, fams)
             s == Gather(SaidOf, fams)
             q == Reading(Start, BodyOf(fams))
             first == fams = <<>>
             x == FamilyText(f)
             p == IF first THEN q ELSE Reading(q, <<NewLine>>)
  <2>0. u \in Seq(Fam)
    BY AppendProperties
  <2> SUFFICES ASSUME GoodBody(u, M, plain, tame)
               PROVE  Kept(Reading(Start, BodyOf(u)), Image(TypeOf, u), Gather(SaidOf, u))
    BY <2>0
  <2>1. /\ GoodBody(fams, M, plain, tame) /\ GoodFamily(f, M, plain, tame)
        /\ NewFamily(Image(TypeOf, fams), f.name)
    BY GoodAppend
  <2>2. Kept(q, t, s)
    BY <1>2, <2>1
  <2>3. t \in Seq(Tokens \X Tokens) /\ s \in Seq(Samples)
    BY FamMaps, ImageType, GatherType
  <2>4. Promise(p, t, s, M, plain, tame)
    <3> HIDE DEF q, t, s, first
    <3>1. Promise(q, t, s, M, plain, tame)
      BY <2>2
    <3>2. Promise(Reading(q, <<NewLine>>), t, s, M, plain, tame)
      BY <3>1, EmptyLineKeepsPromise
    <3> QED BY <3>1, <3>2
  <2>5. Promise(Reading(p, x), Append(t, <<f.name, f.type>>), s \o FamilySays(f), M, plain, tame)
    <3> HIDE DEF p, t, s, x
    <3> QED BY <2>1, <2>3, <2>4, FamilyKeepsPromise DEF t, x
  <2>6. Reading(Start, BodyOf(u)) = Reading(p, x)
    <3> DEFINE a == BodyOf(fams)
               d == Glue(first, NewLine, x)
               e == <<NewLine>>
               o == <<>>
    <3>1. BodyOf(u) = a \o d /\ a \in Seq(Tokens) /\ x \in Seq(Tokens) /\ NewLine \in Tokens /\ first \in BOOLEAN
      BY BodySteps, FamilyTypes, Marks, Zenon DEF Punctuation
    <3>2. e \in Seq(Tokens) /\ o \in Seq(Tokens)
      BY <3>1, Tuples, Zenon
    <3>3. d = (IF first THEN o ELSE e) \o x
      BY DEF Glue
    <3>4. d \in Seq(Tokens)
      <4> HIDE DEF x, first
      <4> QED BY <3>1, GlueType
    <3>5. Reading(Start, a) = q /\ Reading(q, o) = q
      BY ReadingNothing
    <3> HIDE DEF a, d, e, o, q, x, first
    <3>6. Reading(Start, a \o d) = Reading(Reading(Start, a), d)
      BY <3>1, <3>4, ReadingConcat
    <3>7. Reading(q, o \o x) = Reading(Reading(q, o), x) /\ Reading(q, e \o x) = Reading(Reading(q, e), x)
      BY <3>1, <3>2, ReadingConcat
    <3>8. CASE first
      <4>1. d = o \o x /\ p = q
        BY <3>3, <3>8
      <4> QED BY <3>1, <3>5, <3>6, <3>7, <4>1
    <3>9. CASE ~first
      <4>1. d = e \o x /\ p = Reading(q, e)
        BY <3>3, <3>9 DEF e
      <4> QED BY <3>1, <3>5, <3>6, <3>7, <4>1
    <3> QED BY <3>8, <3>9
  <2>7. Image(TypeOf, u) = Append(t, <<f.name, f.type>>) /\ Gather(SaidOf, u) = s \o FamilySays(f)
    BY BodySteps
  <2>8. Promise(Reading(Start, BodyOf(u)), Image(TypeOf, u), Gather(SaidOf, u), M, plain, tame)
    BY <2>5, <2>6, <2>7, Zenon
  <2> QED BY <2>8
<1>3. \A fams \in Seq(Fam) : fams \in S
  <2> HIDE DEF S
  <2> QED BY <1>1, <1>2, SeqInduction
<1> QED BY <1>3

(***************************************************************************)
(* Images, concatenations and selections.                                  *)
(***************************************************************************)
LEMMA ImageGathers ==
  ASSUME NEW A, NEW T, NEW g, Takes(g, A, T), NEW s \in Seq(A), NEW F, F = [x \in A |-> <<g[x]>>]
  PROVE  Gather(F, s) = Image(g, s) /\ Maps(F, A, T)
<1> DEFINE h == [x \in A |-> g[x]]
<1>1. \A x \in A : g[x] \in T /\ h[x] = g[x] /\ F[x] = <<g[x]>> /\ F[x] = <<h[x]>>
  BY DEF Takes
<1>2. Maps(F, A, T)
  <2>1. \A x \in T : <<x>> \in Seq(T)
    OBVIOUS
  <2> QED BY <1>1, <2>1 DEF Maps
<1>3. h \in [A -> T]
  BY <1>1
<1>4. \A x \in A : F[x] = <<h[x]>>
  BY <1>1
<1>5. \A n \in DOMAIN s : s[n] \in A
  BY ElementOfSeq, LenProperties
<1>6. [n \in DOMAIN s |-> h[s[n]]] = [n \in DOMAIN s |-> g[s[n]]]
  BY <1>1, <1>5
<1> HIDE DEF h
<1>7. Gather(F, s) = [n \in DOMAIN s |-> h[s[n]]]
  BY <1>2, <1>3, <1>4, GatherMap
<1> QED BY <1>2, <1>6, <1>7 DEF Image

LEMMA ImageConcat ==
  ASSUME NEW A, NEW T, NEW g, Takes(g, A, T), NEW s \in Seq(A), NEW t \in Seq(A)
  PROVE  Image(g, s \o t) = Image(g, s) \o Image(g, t)
<1> DEFINE F == [x \in A |-> <<g[x]>>]
           u == s \o t
<1>1. u \in Seq(A)
  BY ConcatProperties
<1>2. F = [x \in A |-> <<g[x]>>]
  OBVIOUS
<1> HIDE DEF F, u
<1>3. Gather(F, s) = Image(g, s) /\ Gather(F, t) = Image(g, t) /\ Gather(F, u) = Image(g, u) /\ Maps(F, A, T)
  BY <1>1, <1>2, ImageGathers
<1>4. Gather(F, s \o t) = Gather(F, s) \o Gather(F, t)
  BY <1>3, GatherConcat
<1> QED BY <1>3, <1>4 DEF u

LEMMA ImageFlatten ==
  ASSUME NEW A, NEW T, NEW g, Takes(g, A, T)
  PROVE  \A ss \in Seq(Seq(A)) : Image(g, FlattenSeq(ss)) = FlattenSeq([n \in DOMAIN ss |-> Image(g, ss[n])])
<1> DEFINE Q == Seq(A)
           P == Seq(T)
           I == [s \in Q |-> Image(g, s)]
           S == {ss \in Seq(Q) : Image(g, FlattenSeq(ss)) = FlattenSeq(Image(I, ss))}
<1>0. Takes(I, Q, P)
  <2>1. \A s \in Q : Image(g, s) \in P
    BY ImageType
  <2> QED BY <2>1 DEF Takes
<1>1. <<>> \in S
  <2>1. Image(I, <<>>) = <<>> /\ Image(g, <<>>) = <<>>
    BY DEF Image
  <2>2. Image(g, FlattenSeq(<<>>)) = FlattenSeq(Image(I, <<>>))
    BY <2>1, FlattenEmpty, Zenon
  <2> QED BY <2>2
<1>2. ASSUME NEW ss \in Seq(Q), NEW x \in Q, ss \in S
      PROVE  Append(ss, x) \in S
  <2>0. Append(ss, x) \in Seq(Q)
    <3> HIDE DEF Q
    <3> QED BY AppendProperties
  <2>1. FlattenSeq(Append(ss, x)) = FlattenSeq(ss) \o x
    BY FlattenAppend
  <2>2. FlattenSeq(ss) \in Seq(A)
    BY FlattenType
  <2>3. Image(g, FlattenSeq(ss) \o x) = Image(g, FlattenSeq(ss)) \o Image(g, x)
    <3> DEFINE a == FlattenSeq(ss)
    <3>1. a \in Seq(A) /\ x \in Seq(A)
      BY <2>2
    <3> HIDE DEF a
    <3>2. Image(g, a \o x) = Image(g, a) \o Image(g, x)
      BY <3>1, ImageConcat
    <3> QED BY <3>2 DEF a
  <2>4. Image(I, Append(ss, x)) = Append(Image(I, ss), I[x]) /\ Image(I, ss) \in Seq(P)
    <3> HIDE DEF I, Q, P
    <3> QED BY <1>0, ImageAppend, ImageType
  <2>5. I[x] = Image(g, x) /\ I[x] \in P
    BY <1>0 DEF Takes
  <2>6. FlattenSeq(Append(Image(I, ss), I[x])) = FlattenSeq(Image(I, ss)) \o I[x]
    <3> DEFINE a == Image(I, ss)
               y == I[x]
    <3>1. a \in Seq(Seq(T)) /\ y \in Seq(T)
      BY <2>4, <2>5
    <3> HIDE DEF a, y
    <3>2. FlattenSeq(Append(a, y)) = FlattenSeq(a) \o y
      BY <3>1, FlattenAppend
    <3> QED BY <3>2 DEF a, y
  <2>7. Image(g, FlattenSeq(ss)) = FlattenSeq(Image(I, ss))
    BY <1>2
  <2> HIDE DEF I
  <2>8. Image(g, FlattenSeq(Append(ss, x))) = FlattenSeq(Image(I, Append(ss, x)))
    BY <2>1, <2>3, <2>4, <2>5, <2>6, <2>7, Zenon
  <2> QED BY <2>0, <2>8
<1>3. \A ss \in Seq(Q) : ss \in S
  <2> HIDE DEF S, Q
  <2> QED BY <1>1, <1>2, SeqInduction
<1>4. ASSUME NEW ss \in Seq(Q)
      PROVE  Image(I, ss) = [n \in DOMAIN ss |-> Image(g, ss[n])]
  <2>1. \A n \in DOMAIN ss : ss[n] \in Q
    <3> HIDE DEF Q
    <3> QED BY ElementOfSeq, LenProperties
  <2> QED BY <2>1 DEF Image
<1> HIDE DEF I
<1> QED BY <1>3, <1>4

(* To keep the elements of a set.                                          *)
Select(A, S) == [x \in A |-> IF x \in S THEN <<x>> ELSE <<>>]
LEMMA Selects ==
  ASSUME NEW A, NEW S
  PROVE  Maps(Select(A, S), A, A \cap S)
<1>1. \A x \in A : (IF x \in S THEN <<x>> ELSE <<>>) \in Seq(A \cap S)
  <2> TAKE x \in A
  <2>1. x \in S => <<x>> \in Seq(A \cap S)
    <3> SUFFICES ASSUME x \in S PROVE <<x>> \in Seq(A \cap S)
      OBVIOUS
    <3> DEFINE B == A \cap S
    <3>1. x \in B
      OBVIOUS
    <3> HIDE DEF B
    <3>2. <<x>> \in Seq(B)
      BY <3>1
    <3> QED BY <3>2 DEF B
  <2>2. <<>> \in Seq(A \cap S)
    OBVIOUS
  <2> QED BY <2>1, <2>2
<1> QED BY <1>1 DEF Maps, Select

LEMMA SelectType ==
  ASSUME NEW A, NEW S, NEW s \in Seq(A)
  PROVE  Gather(Select(A, S), s) \in Seq(A \cap S)
<1> DEFINE F == Select(A, S)
           B == A \cap S
<1>1. Maps(F, A, B)
  BY Selects
<1> HIDE DEF F, B
<1>2. Gather(F, s) \in Seq(B)
  BY <1>1, GatherType
<1> QED BY <1>2 DEF F, B

LEMMA SelectTakes ==
  ASSUME NEW A, NEW S, NEW s \in Seq(A), NEW x \in A, x \in S
  PROVE  Gather(Select(A, S), Append(s, x)) = Append(Gather(Select(A, S), s), x)
<1> DEFINE F == Select(A, S)
           B == A \cap S
<1>1. Maps(F, A, B) /\ F[x] = <<x>> /\ x \in B
  BY Selects DEF Select
<1> HIDE DEF F, B
<1>2. Gather(F, s) \in Seq(B) /\ Gather(F, Append(s, x)) = Gather(F, s) \o F[x]
  <2>1. Maps(F, A, B)
    BY <1>1
  <2>2. Gather(F, s) \in Seq(B)
    BY <2>1, GatherType
  <2>3. Gather(F, Append(s, x)) = Gather(F, s) \o F[x]
    BY <2>1, GatherAppend
  <2> QED BY <2>2, <2>3
<1>3. Gather(F, Append(s, x)) = Append(Gather(F, s), x)
  BY <1>1, <1>2, AppendIsConcat
<1> QED BY <1>3 DEF F

LEMMA SelectDrops ==
  ASSUME NEW A, NEW S, NEW s \in Seq(A), NEW x \in A, x \notin S
  PROVE  Gather(Select(A, S), Append(s, x)) = Gather(Select(A, S), s)
<1> DEFINE F == Select(A, S)
           B == A \cap S
<1>1. Maps(F, A, B) /\ F[x] = <<>>
  BY Selects DEF Select
<1> HIDE DEF F, B
<1>2. Gather(F, s) \in Seq(B) /\ Gather(F, Append(s, x)) = Gather(F, s) \o F[x]
  BY <1>1, GatherType, GatherAppend, ZenonT(60)
<1>3. Gather(F, Append(s, x)) = Gather(F, s)
  BY <1>1, <1>2, ConcatEmptySeq
<1> QED BY <1>3 DEF F

(* What all lists have that are empty or made by appending.                *)
LEMMA SelectSet ==
  ASSUME NEW A, NEW S
  PROVE  \A s \in Seq(A) :
           {Gather(Select(A, S), s)[n] : n \in DOMAIN Gather(Select(A, S), s)} = {s[n] : n \in DOMAIN s} \cap S
<1> DEFINE Els(s) == {s[n] : n \in DOMAIN s}
           G(s) == Gather(Select(A, S), s)
           R == {s \in Seq(A) : Els(G(s)) = Els(s) \cap S}
<1>0. \A T : \A s \in Seq(T), x \in T : Els(Append(s, x)) = Els(s) \cup {x}
  <2> TAKE T
  <2> TAKE s \in Seq(T), x \in T
  <2> DEFINE u == Append(s, x)
  <2>1. PICK k \in Nat : /\ DOMAIN s = 1 .. k /\ DOMAIN u = 1 .. k + 1
                         /\ u[k + 1] = x /\ (\A n \in 1 .. k : u[n] = s[n])
                         /\ (\A n \in 1 .. k : n \in 1 .. k + 1) /\ k + 1 \in 1 .. k + 1
                         /\ (\A n \in 1 .. k + 1 : n \in 1 .. k \/ n = k + 1)
    BY AppendAt
  <2> HIDE DEF u
  <2>2. Els(u) = Els(s) \cup {x}
    BY <2>1
  <2> QED BY <2>2 DEF u
<1>1. <<>> \in R
  <2>1. G(<<>>) = <<>> /\ Els(<<>>) = {} /\ <<>> \in Seq(A)
    BY GatherEmpty
  <2> HIDE DEF Els, G
  <2> QED BY <2>1
<1>2. ASSUME NEW s \in Seq(A), NEW x \in A, s \in R
      PROVE  Append(s, x) \in R
  <2>1. Append(s, x) \in Seq(A) /\ Els(Append(s, x)) = Els(s) \cup {x}
    <3>1. Append(s, x) \in Seq(A)
      BY AppendProperties
    <3> HIDE DEF Els
    <3> QED BY <1>0, <3>1
  <2>2. Els(G(s)) = Els(s) \cap S
    BY <1>2
  <2>3. /\ G(s) \in Seq(A \cap S)
        /\ x \in S => G(Append(s, x)) = Append(G(s), x)
        /\ x \notin S => G(Append(s, x)) = G(s)
    BY SelectType, SelectTakes, SelectDrops
  <2> HIDE DEF G
  <2>4. x \in S => Els(Append(G(s), x)) = Els(G(s)) \cup {x}
    <3> SUFFICES ASSUME x \in S PROVE Els(Append(G(s), x)) = Els(G(s)) \cup {x}
      OBVIOUS
    <3> DEFINE T == A \cap S
               a == G(s)
    <3>1. a \in Seq(T) /\ x \in T
      BY <2>3
    <3> HIDE DEF T, a, Els
    <3>2. Els(Append(a, x)) = Els(a) \cup {x}
      BY <1>0, <3>1
    <3> QED BY <3>2 DEF a
  <2> HIDE DEF Els
  <2>5. Els(G(Append(s, x))) = Els(Append(s, x)) \cap S
    BY <2>1, <2>2, <2>3, <2>4
  <2> QED BY <2>1, <2>5
<1>3. \A s \in Seq(A) : s \in R
  <2> HIDE DEF R
  <2> QED BY <1>1, <1>2, SeqInduction
<1> QED BY <1>3

(***************************************************************************)
(* split, a character at a time.                                           *)
(***************************************************************************)
IsCutting(g, p, d, n) == g = [m \in 0 .. n |-> IF m = 0 THEN << <<>> >> ELSE Cut(g[m - 1], p[m], d)]
Cuts(g, p, d, n) == g[0] = << <<>> >> /\ \A m \in 1 .. n : g[m] = Cut(g[m - 1], p[m], d)

LEMMA CutsExist ==
  ASSUME NEW p, NEW d, NEW N \in Nat
  PROVE  \E g : Cuts(g, p, d, N)
<1> DEFINE S == {n \in Nat : \E g : Cuts(g, p, d, n)}
<1>1. 0 \in S
  <2>1. Cuts([m \in 0 .. 0 |-> << <<>> >>], p, d, 0)
    BY DEF Cuts
  <2> QED BY <2>1
<1>2. ASSUME NEW n \in Nat, n \in S
      PROVE  n + 1 \in S
  <2>1. PICK g : Cuts(g, p, d, n)
    BY <1>2
  <2> DEFINE h == [m \in 0 .. n + 1 |-> IF m = n + 1 THEN Cut(g[n], p[n + 1], d) ELSE g[m]]
  <2>2. h[0] = << <<>> >>
    BY <2>1 DEF Cuts
  <2>3. ASSUME NEW m \in 1 .. n + 1
        PROVE  h[m] = Cut(h[m - 1], p[m], d)
    <3>1. CASE m = n + 1
      <4>1. m - 1 = n /\ m - 1 \in 0 .. n + 1 /\ m - 1 # n + 1
        BY <3>1
      <4>2. h[m - 1] = g[n] /\ h[m] = Cut(g[n], p[n + 1], d)
        BY <3>1, <4>1
      <4> HIDE DEF h
      <4> QED BY <3>1, <4>2
    <3>2. CASE m # n + 1
      <4>1. m \in 1 .. n /\ m - 1 \in 0 .. n /\ h[m] = g[m] /\ h[m - 1] = g[m - 1]
        BY <3>2
      <4> HIDE DEF h
      <4> QED BY <2>1, <4>1 DEF Cuts
    <3> QED BY <3>1, <3>2
  <2>4. Cuts(h, p, d, n + 1)
    <3> HIDE DEF h
    <3> QED BY <2>2, <2>3 DEF Cuts
  <2> HIDE DEF h
  <2> QED BY <2>4
<1> HIDE DEF S
<1>3. N \in S
  BY <1>1, <1>2, Induction
<1> QED BY <1>3 DEF S

LEMMA SplitSteps ==
  ASSUME NEW p, NEW d, Len(p) \in Nat
  PROVE  \E g : Cuts(g, p, d, Len(p)) /\ Split(p, d) = g[Len(p)]
<1> DEFINE N == Len(p)
           c == CHOOSE g : IsCutting(g, p, d, N)
<1>1. PICK h : Cuts(h, p, d, N)
  BY CutsExist
<1> DEFINE g == [m \in 0 .. N |-> h[m]]
<1>2. IsCutting(g, p, d, N)
  <2>1. g = [m \in 0 .. N |-> g[m]]
    OBVIOUS
  <2>2. ASSUME NEW m \in 0 .. N
        PROVE  g[m] = IF m = 0 THEN << <<>> >> ELSE Cut(g[m - 1], p[m], d)
    <3>1. CASE m = 0
      BY <1>1, <3>1 DEF Cuts
    <3>2. CASE m # 0
      <4>1. m \in 1 .. N /\ m - 1 \in 0 .. N /\ g[m] = h[m] /\ g[m - 1] = h[m - 1]
        BY <3>2
      <4> HIDE DEF g
      <4> QED BY <1>1, <3>2, <4>1 DEF Cuts
    <3> QED BY <3>1, <3>2
  <2> HIDE DEF g
  <2>3. [m \in 0 .. N |-> g[m]] = [m \in 0 .. N |-> IF m = 0 THEN << <<>> >> ELSE Cut(g[m - 1], p[m], d)]
    BY <2>2
  <2> QED BY <2>1, <2>3, Zenon DEF IsCutting
<1>3. IsCutting(c, p, d, N)
  <2> HIDE DEF g
  <2> QED BY <1>2, Zenon
<1>4. Split(p, d) = c[N]
  BY Zenon DEF Split, IsCutting
<1>5. Cuts(c, p, d, N)
  <2> HIDE DEF c, g
  <2> DEFINE G == [m \in 0 .. N |-> IF m = 0 THEN << <<>> >> ELSE Cut(c[m - 1], p[m], d)]
  <2>1. G[0] = << <<>> >> /\ \A m \in 1 .. N : G[m] = Cut(c[m - 1], p[m], d)
    OBVIOUS
  <2>2. c = G
    BY <1>3, Zenon DEF IsCutting
  <2> HIDE DEF G
  <2> QED BY <2>1, <2>2 DEF Cuts
<1> HIDE DEF c
<1> QED BY <1>4, <1>5

LEMMA CutsAgree ==
  ASSUME NEW p, NEW q, NEW d, NEW N \in Nat, NEW g, NEW h, Cuts(g, p, d, N), Cuts(h, q, d, N),
         \A n \in 1 .. N : p[n] = q[n]
  PROVE  g[N] = h[N]
<1> DEFINE S == {n \in Nat : n <= N => g[n] = h[n]}
<1>1. 0 \in S
  BY DEF Cuts
<1>2. ASSUME NEW n \in Nat, n \in S
      PROVE  n + 1 \in S
  <2> SUFFICES ASSUME n + 1 <= N PROVE g[n + 1] = h[n + 1]
    OBVIOUS
  <2>1. n + 1 \in 1 .. N /\ (n + 1) - 1 = n /\ g[n] = h[n]
    BY <1>2
  <2>2. g[n + 1] = Cut(g[n], p[n + 1], d) /\ h[n + 1] = Cut(h[n], q[n + 1], d)
    BY <2>1 DEF Cuts
  <2> QED BY <2>1, <2>2
<1>3. \A n \in Nat : n \in S
  <2> HIDE DEF S
  <2> QED BY <1>1, <1>2, Induction
<1> QED BY <1>3

LEMMA SplitNothing ==
  ASSUME NEW d
  PROVE  Split(<<>>, d) = << <<>> >>
<1>1. Len(<<>>) = 0
  OBVIOUS
<1>2. \E g : Cuts(g, <<>>, d, 0) /\ Split(<<>>, d) = g[0]
  BY <1>1, SplitSteps
<1> QED BY <1>2 DEF Cuts

LEMMA SplitAppend ==
  ASSUME NEW T, NEW d, NEW p \in Seq(T), NEW c \in T
  PROVE  Split(Append(p, c), d) = Cut(Split(p, d), c, d)
<1> DEFINE u == Append(p, c)
<1>0. PICK k \in Nat : /\ Len(p) = k /\ Len(u) = k + 1
                       /\ u[k + 1] = c /\ (\A n \in 1 .. k : u[n] = p[n])
                       /\ (\A n \in 1 .. k : n \in 1 .. k + 1) /\ k + 1 \in 1 .. k + 1
  BY AppendAt
<1> HIDE DEF u
<1>1. PICK g : Cuts(g, u, d, k + 1) /\ Split(u, d) = g[k + 1]
  <2>1. Len(u) \in Nat
    BY <1>0
  <2>2. \E g : Cuts(g, u, d, Len(u)) /\ Split(u, d) = g[Len(u)]
    BY <2>1, SplitSteps
  <2> QED BY <1>0, <2>2
<1>2. PICK h : Cuts(h, p, d, k) /\ Split(p, d) = h[k]
  <2>1. Len(p) \in Nat
    BY <1>0
  <2>2. \E h : Cuts(h, p, d, Len(p)) /\ Split(p, d) = h[Len(p)]
    BY <2>1, SplitSteps
  <2> QED BY <1>0, <2>2
<1>3. Cuts(g, u, d, k)
  BY <1>0, <1>1 DEF Cuts
<1>4. g[k] = h[k]
  BY <1>0, <1>2, <1>3, CutsAgree
<1>5. g[k + 1] = Cut(g[(k + 1) - 1], u[k + 1], d) /\ (k + 1) - 1 = k
  BY <1>0, <1>1 DEF Cuts
<1>6. Split(u, d) = Cut(Split(p, d), c, d)
  BY <1>0, <1>1, <1>2, <1>4, <1>5
<1> QED BY <1>6 DEF u

LEMMA LastReplaced ==
  ASSUME NEW Q, NEW s \in Seq(Q), NEW y \in Q, NEW z \in Q
  PROVE  [Append(s, y) EXCEPT ![Len(Append(s, y))] = z] = Append(s, z)
<1> DEFINE u == Append(s, y)
           v == Append(s, z)
<1>1. \A x \in Q : \E k \in Nat :
        /\ DOMAIN s = 1 .. k /\ DOMAIN Append(s, x) = 1 .. k + 1 /\ Len(Append(s, x)) = k + 1 /\ Append(s, x) \in Seq(Q)
        /\ Append(s, x)[k + 1] = x /\ (\A n \in 1 .. k : Append(s, x)[n] = s[n]) /\ k + 1 \in 1 .. k + 1
        /\ (\A n \in 1 .. k + 1 : n \in 1 .. k \/ n = k + 1)
  <2> TAKE x \in Q
  <2> QED BY AppendAt
<1>2. PICK k \in Nat : /\ DOMAIN s = 1 .. k /\ DOMAIN u = 1 .. k + 1 /\ Len(u) = k + 1 /\ u \in Seq(Q)
                       /\ u[k + 1] = y /\ (\A n \in 1 .. k : u[n] = s[n]) /\ k + 1 \in 1 .. k + 1
                       /\ (\A n \in 1 .. k + 1 : n \in 1 .. k \/ n = k + 1)
  BY <1>1
<1>3. PICK j \in Nat : /\ DOMAIN s = 1 .. j /\ DOMAIN v = 1 .. j + 1 /\ Len(v) = j + 1 /\ v \in Seq(Q)
                       /\ v[j + 1] = z /\ (\A n \in 1 .. j : v[n] = s[n])
  BY <1>1
<1>4. j = k
  <2>1. \A m, n \in Nat : 1 .. m = 1 .. n => m = n
    OBVIOUS
  <2> QED BY <1>2, <1>3, <2>1
<1> HIDE DEF u, v
<1>6. [u EXCEPT ![k + 1] = z] = [n \in 1 .. k + 1 |-> IF n = k + 1 THEN z ELSE u[n]]
  <2>1. u \in [1 .. k + 1 -> Q]
    BY <1>2, LenProperties
  <2> QED BY <2>1
<1>7. v = [n \in 1 .. k + 1 |-> v[n]]
  <2>1. v \in [1 .. k + 1 -> Q]
    BY <1>3, <1>4, LenProperties
  <2> QED BY <2>1
<1>8. \A n \in 1 .. k + 1 : v[n] = IF n = k + 1 THEN z ELSE u[n]
  <2> TAKE n \in 1 .. k + 1
  <2>1. CASE n = k + 1
    BY <1>3, <1>4, <2>1
  <2>2. CASE n # k + 1
    BY <1>2, <1>3, <1>4, <2>2
  <2> QED BY <2>1, <2>2
<1>9. [u EXCEPT ![Len(u)] = z] = v
  BY <1>2, <1>6, <1>7, <1>8
<1> QED BY <1>9 DEF u, v

LEMMA LastOf ==
  ASSUME NEW Q, NEW s \in Seq(Q), NEW y \in Q
  PROVE  Append(s, y)[Len(Append(s, y))] = y
BY AppendProperties

LEMMA CutLast ==
  ASSUME NEW T, NEW s \in Seq(Seq(T)), NEW y \in Seq(T), NEW c \in T, NEW d, c # d
  PROVE  Cut(Append(s, y), c, d) = Append(s, Append(y, c))
<1> DEFINE Q == Seq(T)
           u == Append(s, y)
           z == Append(y, c)
<1>1. s \in Seq(Q) /\ y \in Q /\ z \in Q
  BY AppendProperties
<1>2. u[Len(u)] = y /\ [u EXCEPT ![Len(u)] = z] = Append(s, z)
  <2> HIDE DEF Q, z
  <2> QED BY <1>1, LastReplaced, LastOf
<1>3. Cut(u, c, d) = [u EXCEPT ![Len(u)] = Append(u[Len(u)], c)]
  BY DEF Cut
<1> HIDE DEF u
<1>4. Cut(u, c, d) = Append(s, z)
  BY <1>2, <1>3 DEF z
<1> QED BY <1>4 DEF u, z

LEMMA Single ==
  ASSUME NEW a
  PROVE  Append(<<>>, a) = <<a>>
OBVIOUS

LEMMA Double ==
  ASSUME NEW a, NEW b
  PROVE  Append(<<a>>, b) = <<a, b>>
<1> DEFINE T == {a, b}
           s == <<a>>
           u == Append(s, b)
           v == <<a, b>>
<1>1. s \in Seq(T) /\ b \in T /\ Len(s) = 1 /\ s[1] = a
  OBVIOUS
<1>2. v \in Seq(T) /\ Len(v) = 2 /\ v[1] = a /\ v[2] = b
  OBVIOUS
<1> HIDE DEF s, v, T
<1>3. u \in Seq(T) /\ Len(u) = 2 /\ u[1] = a /\ u[2] = b
  <2>1. u \in Seq(T) /\ Len(u) = Len(s) + 1 /\ u[Len(s) + 1] = b /\ \A n \in 1 .. Len(s) : u[n] = s[n]
    <3>1. s \in Seq(T) /\ b \in T
      BY <1>1
    <3>2. \E k \in Nat : /\ Len(s) = k /\ u \in Seq(T) /\ Len(u) = k + 1 /\ u[k + 1] = b /\ (\A n \in 1 .. k : u[n] = s[n])
      BY <3>1, AppendAt
    <3> QED BY <3>2
  <2> HIDE DEF u
  <2>2. 1 \in 1 .. Len(s) /\ Len(s) + 1 = 2
    BY <1>1
  <2> QED BY <1>1, <2>1, <2>2
<1> HIDE DEF u
<1>4. \A n \in 1 .. 2 : u[n] = v[n]
  BY <1>2, <1>3
<1>5. u = v
  BY <1>2, <1>3, <1>4, SeqEqual
<1> QED BY <1>5 DEF u, v, s

LEMMA Triple ==
  ASSUME NEW a, NEW b, NEW c
  PROVE  Append(Append(Append(<<>>, a), b), c) = <<a, b, c>>
<1> DEFINE T == {a, b, c}
           s == <<a, b>>
           u == Append(s, c)
           v == <<a, b, c>>
<1>1. s \in Seq(T) /\ c \in T /\ Len(s) = 2 /\ s[1] = a /\ s[2] = b
  OBVIOUS
<1>2. v \in Seq(T) /\ Len(v) = 3 /\ v[1] = a /\ v[2] = b /\ v[3] = c
  OBVIOUS
<1> HIDE DEF s, v, T
<1>3. u \in Seq(T) /\ Len(u) = 3 /\ u[1] = a /\ u[2] = b /\ u[3] = c
  <2>1. u \in Seq(T) /\ Len(u) = Len(s) + 1 /\ u[Len(s) + 1] = c /\ \A n \in 1 .. Len(s) : u[n] = s[n]
    <3>1. s \in Seq(T) /\ c \in T
      BY <1>1
    <3>2. \E k \in Nat : /\ Len(s) = k /\ u \in Seq(T) /\ Len(u) = k + 1 /\ u[k + 1] = c /\ (\A n \in 1 .. k : u[n] = s[n])
      BY <3>1, AppendAt
    <3> QED BY <3>2
  <2> HIDE DEF u
  <2>2. 1 \in 1 .. Len(s) /\ 2 \in 1 .. Len(s) /\ Len(s) + 1 = 3
    BY <1>1
  <2> QED BY <1>1, <2>1, <2>2
<1> HIDE DEF u
<1>4. \A n \in 1 .. 3 : u[n] = v[n]
  BY <1>2, <1>3
<1>5. u = v
  BY <1>2, <1>3, <1>4, SeqEqual
<1>6. Append(<<a, b>>, c) = <<a, b, c>>
  BY <1>5 DEF u, v, s
<1> QED BY <1>6, Single, Double, Zenon

LEMMA Nothing ==
  ASSUME NEW T
  PROVE  <<>> \in Seq(T)
OBVIOUS

(* Two words and what is between them, none of which is the separator.     *)
Cuttable(T, d, p, s, a, b, c) ==
  /\ p \in Seq(T) /\ s \in Seq(Seq(T)) /\ Split(p, d) = Append(s, <<>>)
  /\ a \in T /\ b \in T /\ c \in T /\ a # d /\ b # d /\ c # d
LEMMA SplitPiece ==
  ASSUME NEW T, NEW d, NEW p, NEW s, NEW a, NEW b, NEW c, Cuttable(T, d, p, s, a, b, c)
  PROVE  Split(p \o <<a, b, c>>, d) = Append(s, <<a, b, c>>)
<1>0. /\ p \in Seq(T) /\ s \in Seq(Seq(T)) /\ Split(p, d) = Append(s, <<>>)
      /\ a \in T /\ b \in T /\ c \in T /\ a # d /\ b # d /\ c # d
  BY DEF Cuttable
<1> DEFINE p1 == Append(p, a)
           p2 == Append(p1, b)
           p3 == Append(p2, c)
           o == <<>>
           o1 == Append(o, a)
           o2 == Append(o1, b)
           o3 == Append(o2, c)
<1>1. p1 \in Seq(T)
  BY <1>0, AppendProperties
<1>2. p2 \in Seq(T)
  <2> HIDE DEF p1
  <2> QED BY <1>0, <1>1, AppendProperties
<1>3. o \in Seq(T) /\ o3 = <<a, b, c>>
  BY Nothing, Triple, Zenon
<1>4. p \o <<a, b, c>> = p3
  BY <1>0
<1>5. Split(p, d) = Append(s, o)
  BY <1>0
<1> HIDE DEF o
<1>6. o1 \in Seq(T)
  BY <1>0, <1>3, AppendProperties
<1>7. Split(p1, d) = Append(s, o1)
  <2>1. Split(p1, d) = Cut(Split(p, d), a, d)
    BY <1>0, SplitAppend
  <2>2. Cut(Append(s, o), a, d) = Append(s, Append(o, a))
    BY <1>0, <1>3, CutLast
  <2> QED BY <1>5, <2>1, <2>2, Zenon
<1> HIDE DEF p1, o1
<1>8. o2 \in Seq(T)
  BY <1>0, <1>6, AppendProperties
<1>9. Split(p2, d) = Append(s, o2)
  <2>1. Split(p2, d) = Cut(Split(p1, d), b, d)
    BY <1>0, <1>1, SplitAppend
  <2>2. Cut(Append(s, o1), b, d) = Append(s, Append(o1, b))
    BY <1>0, <1>6, CutLast
  <2> QED BY <1>7, <2>1, <2>2, Zenon
<1> HIDE DEF p2, o2
<1>10. Split(p3, d) = Append(s, o3)
  <2>1. Split(p3, d) = Cut(Split(p2, d), c, d)
    BY <1>0, <1>2, SplitAppend
  <2>2. Cut(Append(s, o2), c, d) = Append(s, Append(o2, c))
    BY <1>0, <1>8, CutLast
  <2> QED BY <1>9, <2>1, <2>2, Zenon
<1> HIDE DEF p3, o3
<1> QED BY <1>3, <1>4, <1>10

(* An address and the length of its prefix.                                *)
LEMMA SplitPair ==
  ASSUME NEW T, NEW d \in T, NEW a \in T, NEW b \in T, a # d, b # d
  PROVE  Split(<<a, d, b>>, d) = << <<a>>, <<b>> >>
<1> DEFINE o == <<>>
           p1 == Append(o, a)
           p2 == Append(p1, d)
           p3 == Append(p2, b)
           e == << <<>> >>
           e1 == << <<a>> >>
           e2 == << <<a>>, <<>> >>
           e3 == << <<a>>, <<b>> >>
<1>1. o \in Seq(T) /\ p3 = <<a, d, b>>
  BY Nothing, Triple, Zenon
<1>2. Split(o, d) = e
  BY SplitNothing
<1>3. Cut(e, a, d) = e1
  BY DEF Cut
<1>4. Cut(e1, d, d) = e2
  <2>1. Cut(e1, d, d) = Append(e1, o)
    BY Zenon DEF Cut
  <2> QED BY <2>1, Double, Zenon
<1>5. Cut(e2, b, d) = e3
  BY DEF Cut
<1> HIDE DEF o, e, e1, e2, e3
<1>6. p1 \in Seq(T) /\ Split(p1, d) = e1
  BY <1>1, <1>2, <1>3, SplitAppend, AppendProperties
<1> HIDE DEF p1
<1>7. p2 \in Seq(T) /\ Split(p2, d) = e2
  BY <1>4, <1>6, SplitAppend, AppendProperties
<1> HIDE DEF p2
<1>8. Split(p3, d) = e3
  BY <1>5, <1>7, SplitAppend
<1> HIDE DEF p3
<1> QED BY <1>1, <1>8 DEF e3

LEMMA SplitOne ==
  ASSUME NEW d, NEW a, a # d
  PROVE  Split(<<a>>, d) = << <<a>> >>
<1> DEFINE T == {a, d}
           o == <<>>
           p1 == Append(o, a)
           e == << <<>> >>
           e1 == << <<a>> >>
<1>1. o \in Seq(T) /\ a \in T /\ p1 = <<a>>
  OBVIOUS
<1>2. Split(o, d) = e
  BY SplitNothing
<1>3. Cut(e, a, d) = e1
  BY DEF Cut
<1> HIDE DEF T, o, e, e1
<1>4. Split(p1, d) = Cut(Split(o, d), a, d)
  BY <1>1, SplitAppend
<1>5. Split(p1, d) = e1
  BY <1>2, <1>3, <1>4, Zenon
<1> QED BY <1>1, <1>5 DEF e1, o

(***************************************************************************)
(* The addresses of a peer, as wg prints them and the exporter splits them.*)
(***************************************************************************)
Net == Word \X Word
Printable == Word \cup {",", "/", "(none)"}
NetText == [a \in Net |-> <<a[1], "/", a[2]>>]

LEMMA Words ==
  /\ \A w \in Word : w # "," /\ w # "/" /\ w \notin Punctuation /\ w \in STRING /\ w # None
  /\ "," \in Printable /\ "/" \in Printable /\ "(none)" \in Printable
  /\ "," # "/" /\ "(none)" # "," /\ "(none)" # "/"
BY Zenon DEF Word, Printable, Punctuation

LEMMA NetTexts ==
  /\ Takes(NetText, Net, Seq(Printable))
  /\ \A a \in Net : a[1] \in Word /\ a[2] \in Word /\ NetText[a] = <<a[1], "/", a[2]>>
<1>1. \A a \in Net : a[1] \in Word /\ a[2] \in Word /\ NetText[a] = <<a[1], "/", a[2]>>
  BY DEF Net, NetText
<1>2. \A x, y, z \in Printable : <<x, y, z>> \in Seq(Printable)
  OBVIOUS
<1>3. \A a \in Net : NetText[a] \in Seq(Printable)
  <2> TAKE a \in Net
  <2>1. a[1] \in Printable /\ a[2] \in Printable /\ "/" \in Printable
    BY <1>1, Zenon DEF Printable
  <2>2. <<a[1], "/", a[2]>> \in Seq(Printable)
    BY <1>2, <2>1
  <2> QED BY <1>1, <2>2
<1>4. Takes(NetText, Net, Seq(Printable))
  BY <1>3 DEF Takes, NetText
<1> QED BY <1>1, <1>4

LEMMA ImageNothing ==
  ASSUME NEW g
  PROVE  Image(g, <<>>) = <<>>
BY DEF Image

NetsText(nets) == Glued(",", Image(NetText, nets))

LEMMA NetsTextAppend ==
  ASSUME NEW nets \in Seq(Net), NEW a \in Net
  PROVE  /\ NetsText(Append(nets, a)) = NetsText(nets) \o Glue(nets = <<>>, ",", NetText[a])
         /\ NetsText(nets) \in Seq(Printable)
         /\ Image(NetText, Append(nets, a)) = Append(Image(NetText, nets), NetText[a])
         /\ Image(NetText, nets) \in Seq(Seq(Printable))
<1> DEFINE T == Printable
           s == Image(NetText, nets)
           x == NetText[a]
           u == Append(nets, a)
           Q == Seq(T)
           c == ","
<1>1. c \in T
  BY DEF Printable
<1>2. s \in Seq(Seq(T)) /\ x \in Seq(T) /\ Image(NetText, u) = Append(s, x)
  <2>1. Takes(NetText, Net, Q)
    BY NetTexts
  <2> HIDE DEF Q
  <2>2. s \in Seq(Q)
    BY <2>1, ImageType
  <2>3. Image(NetText, u) = Append(s, x)
    BY <2>1, ImageAppend
  <2>4. x \in Q
    BY <2>1 DEF Takes
  <2> QED BY <2>2, <2>3, <2>4 DEF Q
<1>3. (s = <<>>) = (nets = <<>>)
  <2>1. Takes(NetText, Net, Q)
    BY NetTexts
  <2> HIDE DEF Q
  <2>2. Len(s) = Len(nets) /\ s \in Seq(Q)
    BY <2>1, ImageLen, ImageType
  <2> HIDE DEF s
  <2>3. (s = <<>> <=> Len(s) = 0) /\ (nets = <<>> <=> Len(nets) = 0)
    BY <2>2, EmptySeq
  <2> QED BY <2>2, <2>3
<1> HIDE DEF T, s, x, c
<1>4. Glued(c, Append(s, x)) = Glued(c, s) \o Glue(s = <<>>, c, x) /\ Glued(c, s) \in Seq(T)
  BY <1>1, <1>2, GluedAppend
<1> QED BY <1>2, <1>3, <1>4, Zenon DEF NetsText, s, T, x, c

(* The text of the addresses is cut where wg put them together.            *)
LEMMA NetsSplit == \A nets \in Seq(Net) : nets # <<>> => Split(NetsText(nets), ",") = Image(NetText, nets)
<1> DEFINE S == {nets \in Seq(Net) : nets # <<>> => Split(NetsText(nets), ",") = Image(NetText, nets)}
<1>1. <<>> \in S
  OBVIOUS
<1>2. ASSUME NEW nets \in Seq(Net), NEW a \in Net, nets \in S
      PROVE  Append(nets, a) \in S
  <2> DEFINE c == ","
             p == NetsText(nets)
             s == Image(NetText, nets)
             x == NetText[a]
             e == <<>>
             T == Printable
  <2>1. /\ NetsText(Append(nets, a)) = p \o Glue(nets = <<>>, c, x) /\ p \in Seq(T)
        /\ Image(NetText, Append(nets, a)) = Append(s, x) /\ s \in Seq(Seq(T))
    BY NetsTextAppend, Zenon
  <2>2. a[1] \in T /\ "/" \in T /\ a[2] \in T /\ c \in T /\ a[1] # c /\ "/" # c /\ a[2] # c
        /\ x = <<a[1], "/", a[2]>>
    BY NetTexts, Words, Zenon DEF Printable
  <2>3. Append(nets, a) \in Seq(Net)
    BY AppendProperties
  <2>4. CASE nets = <<>>
    <3>1. s = <<>> /\ p = <<>>
      BY <2>4, GluedEmpty, ImageNothing, Zenon DEF NetsText
    <3>2. Split(<<>>, c) = Append(<<>>, <<>>)
      BY SplitNothing, Single, Zenon
    <3>3. Split(<<>> \o x, c) = Append(<<>>, x)
      <4> DEFINE f == a[1]
                 g == "/"
                 h == a[2]
                 o == <<>>
      <4>1. f \in T /\ g \in T /\ h \in T /\ f # c /\ g # c /\ h # c /\ x = <<f, g, h>>
        BY <2>2, Zenon
      <4>2. e \in Seq(T) /\ o \in Seq(Seq(T)) /\ Split(e, c) = Append(o, <<>>)
        BY <3>2, Nothing, Zenon
      <4> HIDE DEF f, g, h, c, e, T, x, o
      <4>3. Split(e \o <<f, g, h>>, c) = Append(o, <<f, g, h>>)
        <5>1. Cuttable(T, c, e, o, f, g, h)
          BY <4>1, <4>2 DEF Cuttable
        <5> QED BY <5>1, SplitPiece
      <4> QED BY <4>1, <4>3, Zenon DEF e, o
    <3>4. p \o Glue(nets = <<>>, c, x) = <<>> \o x
      <4>1. Glue(nets = <<>>, c, x) = <<>> \o x
        BY <2>4, Zenon DEF Glue
      <4>2. x \in Seq(T)
        BY NetTexts DEF Takes
      <4> HIDE DEF x
      <4>3. <<>> \o x = x
        BY <4>2, ConcatEmptySeq
      <4> QED BY <3>1, <4>1, <4>3, Zenon
    <3>5. Split(NetsText(Append(nets, a)), c) = Image(NetText, Append(nets, a))
      BY <2>1, <3>1, <3>3, <3>4, Zenon
    <3> QED BY <2>3, <3>5, Zenon
  <2>5. CASE nets # <<>>
    <3>1. Split(p, c) = s
      BY <1>2, <2>5, Zenon
    <3> DEFINE q == Append(p, c)
    <3>2. Split(q, c) = Append(s, <<>>) /\ q \in Seq(T)
      <4>0. p \in Seq(T) /\ c \in T
        BY <2>1, <2>2, Zenon
      <4> HIDE DEF p, c, T
      <4>1. Split(q, c) = Cut(Split(p, c), c, c)
        BY <4>0, SplitAppend
      <4>2. Cut(s, c, c) = Append(s, <<>>)
        BY Zenon DEF Cut
      <4>3. q \in Seq(T)
        BY <4>0, AppendProperties
      <4> QED BY <3>1, <4>1, <4>2, <4>3, Zenon
    <3>3. Split(q \o x, c) = Append(s, x)
      <4> DEFINE f == a[1]
                 g == "/"
                 h == a[2]
      <4>1. f \in T /\ g \in T /\ h \in T /\ f # c /\ g # c /\ h # c /\ q \in Seq(T) /\ s \in Seq(Seq(T))
            /\ Split(q, c) = Append(s, <<>>) /\ x = <<f, g, h>>
        BY <2>1, <2>2, <3>2, Zenon
      <4> HIDE DEF f, g, h, c, q, s, T, x
      <4>2. Split(q \o <<f, g, h>>, c) = Append(s, <<f, g, h>>)
        <5>1. Cuttable(T, c, q, s, f, g, h)
          BY <4>1 DEF Cuttable
        <5> QED BY <5>1, SplitPiece
      <4> QED BY <4>1, <4>2
    <3>4. p \o Glue(nets = <<>>, c, x) = q \o x
      <4>1. Glue(nets = <<>>, c, x) = <<c>> \o x
        BY <2>5, Zenon DEF Glue
      <4> DEFINE y == <<c>>
      <4>2. p \in Seq(T) /\ y \in Seq(T) /\ x \in Seq(T) /\ c \in T
        <5>1. x \in Seq(T)
          BY NetTexts DEF Takes
        <5>2. y \in Seq(T)
          <6>1. c \in T
            BY <2>2, Zenon
          <6> HIDE DEF c, T
          <6> QED BY <6>1, Tuples
        <5>3. p \in Seq(T) /\ c \in T
          BY <2>1, <2>2, Zenon
        <5> HIDE DEF p, x, y, T, c
        <5> QED BY <5>1, <5>2, <5>3
      <4>3. q = p \o y
        <5>1. p \in Seq(T) /\ c \in T
          BY <4>2, Zenon
        <5> HIDE DEF c, p, T
        <5> QED BY <5>1, AppendIsConcat
      <4> HIDE DEF p, y, x, T, q, c
      <4>4. p \o (y \o x) = (p \o y) \o x
        BY <4>2, ConcatAssociative, SMTT(60)
      <4> QED BY <4>1, <4>3, <4>4, Zenon DEF y
    <3>5. Split(NetsText(Append(nets, a)), c) = Image(NetText, Append(nets, a))
      BY <2>1, <3>3, <3>4, Zenon
    <3> QED BY <2>3, <3>5, Zenon
  <2> QED BY <2>4, <2>5, Zenon
<1>3. \A nets \in Seq(Net) : nets \in S
  <2> HIDE DEF S
  <2> QED BY <1>1, <1>2, SeqInduction
<1> QED BY <1>3, Zenon

(* What is printed of the addresses, and what split makes of it.           *)
LEMMA Printed ==
  ASSUME NEW nets \in Seq(Net), nets # <<>>
  PROVE  PrintAllowed(nets) = NetsText(nets)
<1>1. \A n \in DOMAIN nets : nets[n] \in Net
  BY ElementOfSeq, LenProperties
<1>2. \A n \in DOMAIN nets : Image(NetText, nets)[n] = <<nets[n][1], "/", nets[n][2]>>
  BY <1>1, NetTexts DEF Image
<1>3. DOMAIN Image(NetText, nets) = DOMAIN nets
  BY DEF Image
<1>4. [n \in DOMAIN nets |-> (IF n = 1 THEN <<>> ELSE <<",">>) \o <<nets[n][1], "/", nets[n][2]>>]
      = [n \in DOMAIN Image(NetText, nets) |-> (IF n = 1 THEN <<>> ELSE <<",">>) \o Image(NetText, nets)[n]]
  BY <1>2, <1>3, Zenon
<1> QED BY <1>4, Zenon DEF PrintAllowed, NetsText, Glued

LEMMA PrintedType ==
  ASSUME NEW nets \in Seq(Net)
  PROVE  PrintAllowed(nets) \in Seq(Printable)
<1>1. CASE nets = <<>>
  <2> DEFINE x == "(none)"
             T == Printable
  <2>1. x \in T
    BY Words, Zenon
  <2> HIDE DEF x, T
  <2>2. <<x>> \in Seq(T)
    BY <2>1, Tuples
  <2> QED BY <1>1, <2>2, Zenon DEF PrintAllowed, Absent, x, T
<1>2. CASE nets # <<>>
  <2>1. PICK a : a \in Net
    <3>1. nets[1] \in Net
      BY <1>2, EmptySeq, ElementOfSeq, LenProperties
    <3> QED BY <3>1
  <2>2. NetsText(nets) \in Seq(Printable)
    BY <2>1, NetsTextAppend, Zenon
  <2> QED BY <1>2, <2>2, Printed
<1> QED BY <1>1, <1>2

LEMMA PrintedNetworks ==
  ASSUME NEW nets \in Seq(Net), nets # <<>>
  PROVE  Networks(PrintAllowed(nets)) = [n \in DOMAIN nets |-> << <<nets[n][1]>>, <<nets[n][2]>> >>]
<1> DEFINE s == Image(NetText, nets)
<1>1. Split(PrintAllowed(nets), ",") = s
  BY Printed, NetsSplit, Zenon
<1>2. Networks(PrintAllowed(nets)) = [n \in DOMAIN s |-> Split(s[n], "/")]
  BY <1>1, Zenon DEF Networks
<1>3. \A n \in DOMAIN nets : nets[n] \in Net
  BY ElementOfSeq, LenProperties
<1>4. DOMAIN s = DOMAIN nets /\ \A n \in DOMAIN nets : s[n] = <<nets[n][1], "/", nets[n][2]>>
  BY <1>3, NetTexts DEF Image
<1>5. ASSUME NEW n \in DOMAIN nets
      PROVE  Split(s[n], "/") = << <<nets[n][1]>>, <<nets[n][2]>> >>
  <2> DEFINE T == Printable
             a == nets[n][1]
             b == nets[n][2]
             d == "/"
  <2>1. a \in T /\ b \in T /\ d \in T /\ a # d /\ b # d
    BY <1>3, NetTexts, Words, Zenon DEF Printable
  <2> HIDE DEF T, a, b, d
  <2>2. Split(<<a, d, b>>, d) = << <<a>>, <<b>> >>
    BY <2>1, SplitPair
  <2> QED BY <1>4, <2>2 DEF a, b, d
<1> HIDE DEF s
<1> QED BY <1>2, <1>4, <1>5

LEMMA AbsentNetworks == Networks(Absent) = << <<Absent>> >>
<1>1. Split(Absent, ",") = <<Absent>>
  BY SplitOne, Words, Zenon DEF Absent
<1>2. Split(Absent, "/") = <<Absent>>
  BY SplitOne, Words, Zenon DEF Absent
<1> DEFINE s == <<Absent>>
<1>3. DOMAIN s = {1} /\ s[1] = Absent
  OBVIOUS
<1>4. Networks(Absent) = [n \in DOMAIN s |-> Split(s[n], "/")]
  BY <1>1, Zenon DEF Networks
<1>5. [n \in DOMAIN s |-> Split(s[n], "/")] = [n \in {1} |-> s]
  BY <1>2, <1>3
<1>6. [n \in {1} |-> s] = << s >>
  OBVIOUS
<1> QED BY <1>4, <1>5, <1>6, Zenon

(* The exporter finds no prefix length only where there is no address.     *)
LEMMA NoSubnetMeansNone ==
  ASSUME NEW nets \in Seq(Net)
  PROVE  NoSubnet(PrintAllowed(nets)) <=> nets = <<>>
<1>1. CASE nets = <<>>
  <2>1. PrintAllowed(nets) = Absent
    BY <1>1 DEF PrintAllowed
  <2> DEFINE w == << <<Absent>> >>
  <2>2. 1 \in DOMAIN w /\ Len(w[1]) < 2
    OBVIOUS
  <2>3. Networks(PrintAllowed(nets)) = w
    BY <2>1, AbsentNetworks
  <2> HIDE DEF w
  <2> QED BY <1>1, <2>2, <2>3 DEF NoSubnet
<1>2. CASE nets # <<>>
  <2> DEFINE w == [n \in DOMAIN nets |-> << <<nets[n][1]>>, <<nets[n][2]>> >>]
  <2>1. Networks(PrintAllowed(nets)) = w
    BY <1>2, PrintedNetworks
  <2>2. \A n \in DOMAIN w : Len(w[n]) = 2
    OBVIOUS
  <2> HIDE DEF w
  <2> QED BY <1>2, <2>1, <2>2 DEF NoSubnet
<1> QED BY <1>1, <1>2

(***************************************************************************)
(* The lines of the dump, and what is parsed of them.                      *)
(***************************************************************************)
Ifaces == ToSet(Interfaces)
Local == [public_key |-> <<"private">>, private_key |-> <<"public">>, local_port |-> <<"51820">>]
EpOf(p) == [public_key |-> p.key,
            remote_ip |-> IF p.endpoint.kind = "none" THEN None ELSE p.endpoint.ip,
            remote_port |-> IF p.endpoint.kind = "none" THEN None ELSE p.endpoint.port,
            allowed_ips |-> PrintAllowed(p.allowed), latest_handshake |-> p.hs,
            received_bytes |-> p.rx, sent_bytes |-> p.tx]
InterfaceLine(i) == << <<i>> >> \o PrintInterface
PeerLine(p) == << <<p.iface>> >> \o PrintPeer(p)

LEMMA TwoThree ==
  ASSUME NEW a, NEW b, NEW c, NEW d, NEW e
  PROVE  <<a, b>> \o <<c, d, e>> = <<a, b, c, d, e>>
<1> DEFINE T == {a, b, c, d, e}
           s == <<a, b>>
           t == <<c, d, e>>
           u == s \o t
           v == <<a, b, c, d, e>>
<1>1. s \in Seq(T) /\ Len(s) = 2 /\ s[1] = a /\ s[2] = b
  OBVIOUS
<1>2. t \in Seq(T) /\ Len(t) = 3 /\ t[1] = c /\ t[2] = d /\ t[3] = e
  OBVIOUS
<1>3. v \in Seq(T) /\ Len(v) = 5 /\ v[1] = a /\ v[2] = b /\ v[3] = c /\ v[4] = d /\ v[5] = e
  OBVIOUS
<1> HIDE DEF s, t, v, T
<1>4. u \in Seq(T) /\ Len(u) = Len(s) + Len(t)
  BY <1>1, <1>2, ConcatProperties
<1>5. \A n \in 1 .. Len(s) + Len(t) : u[n] = IF n <= Len(s) THEN s[n] ELSE t[n - Len(s)]
  BY <1>1, <1>2, ConcatProperties
<1> HIDE DEF u
<1>6. \A n \in 1 .. 5 : u[n] = v[n]
  <2> TAKE n \in 1 .. 5
  <2>1. n = 1 \/ n = 2 \/ n = 3 \/ n = 4 \/ n = 5
    OBVIOUS
  <2>2. n \in 1 .. Len(s) + Len(t)
    BY <1>1, <1>2
  <2>3. u[n] = IF n <= Len(s) THEN s[n] ELSE t[n - Len(s)]
    BY <1>5, <2>2
  <2> QED BY <1>1, <1>2, <1>3, <2>1, <2>3
<1>7. u = v
  <2>1. u \in Seq(T) /\ v \in Seq(T) /\ Len(u) = Len(v) /\ \A n \in 1 .. Len(u) : u[n] = v[n]
    BY <1>1, <1>2, <1>3, <1>4, <1>6
  <2> QED BY <2>1, SeqEqual
<1> QED BY <1>7 DEF u, v, s, t

LEMMA OneFour ==
  ASSUME NEW a, NEW b, NEW c, NEW d, NEW e
  PROVE  <<a>> \o <<b, c, d, e>> = <<a, b, c, d, e>>
<1> DEFINE T == {a, b, c, d, e}
           s == <<a>>
           t == <<b, c, d, e>>
           u == s \o t
           v == <<a, b, c, d, e>>
<1>1. s \in Seq(T) /\ Len(s) = 1 /\ s[1] = a
  OBVIOUS
<1>2. t \in Seq(T) /\ Len(t) = 4 /\ t[1] = b /\ t[2] = c /\ t[3] = d /\ t[4] = e
  OBVIOUS
<1>3. v \in Seq(T) /\ Len(v) = 5 /\ v[1] = a /\ v[2] = b /\ v[3] = c /\ v[4] = d /\ v[5] = e
  OBVIOUS
<1> HIDE DEF s, t, v, T
<1>4. u \in Seq(T) /\ Len(u) = Len(s) + Len(t)
  BY <1>1, <1>2, ConcatProperties
<1>5. \A n \in 1 .. Len(s) + Len(t) : u[n] = IF n <= Len(s) THEN s[n] ELSE t[n - Len(s)]
  BY <1>1, <1>2, ConcatProperties
<1> HIDE DEF u
<1>6. \A n \in 1 .. 5 : u[n] = v[n]
  <2> TAKE n \in 1 .. 5
  <2>1. n = 1 \/ n = 2 \/ n = 3 \/ n = 4 \/ n = 5
    OBVIOUS
  <2>2. n \in 1 .. Len(s) + Len(t)
    BY <1>1, <1>2
  <2>3. u[n] = IF n <= Len(s) THEN s[n] ELSE t[n - Len(s)]
    BY <1>5, <2>2
  <2> QED BY <1>1, <1>2, <1>3, <2>1, <2>3
<1>7. u = v
  <2>1. u \in Seq(T) /\ v \in Seq(T) /\ Len(u) = Len(v) /\ \A n \in 1 .. Len(u) : u[n] = v[n]
    BY <1>1, <1>2, <1>3, <1>4, <1>6
  <2> QED BY <2>1, SeqEqual
<1> QED BY <1>7 DEF u, v, s, t

LEMMA OneEight ==
  ASSUME NEW a, NEW b, NEW c, NEW d, NEW e, NEW f, NEW g, NEW h, NEW k
  PROVE  <<a>> \o <<b, c, d, e, f, g, h, k>> = <<a, b, c, d, e, f, g, h, k>>
<1> DEFINE T == {a, b, c, d, e, f, g, h, k}
           s == <<a>>
           t == <<b, c, d, e, f, g, h, k>>
           u == s \o t
           v == <<a, b, c, d, e, f, g, h, k>>
<1>1. s \in Seq(T) /\ Len(s) = 1 /\ s[1] = a
  OBVIOUS
<1>2. t \in Seq(T) /\ Len(t) = 8 /\ t[1] = b /\ t[2] = c /\ t[3] = d /\ t[4] = e /\ t[5] = f /\ t[6] = g /\ t[7] = h /\ t[8] = k
  OBVIOUS
<1>3. v \in Seq(T) /\ Len(v) = 9 /\ v[1] = a /\ v[2] = b /\ v[3] = c /\ v[4] = d /\ v[5] = e /\ v[6] = f /\ v[7] = g /\ v[8] = h /\ v[9] = k
  OBVIOUS
<1> HIDE DEF s, t, v, T
<1>4. u \in Seq(T) /\ Len(u) = Len(s) + Len(t)
  BY <1>1, <1>2, ConcatProperties
<1>5. \A n \in 1 .. Len(s) + Len(t) : u[n] = IF n <= Len(s) THEN s[n] ELSE t[n - Len(s)]
  BY <1>1, <1>2, ConcatProperties
<1> HIDE DEF u
<1>6. \A n \in 1 .. 9 : u[n] = v[n]
  <2> TAKE n \in 1 .. 9
  <2>1. n = 1 \/ n = 2 \/ n = 3 \/ n = 4 \/ n = 5 \/ n = 6 \/ n = 7 \/ n = 8 \/ n = 9
    OBVIOUS
  <2>2. n \in 1 .. Len(s) + Len(t)
    BY <1>1, <1>2
  <2>3. u[n] = IF n <= Len(s) THEN s[n] ELSE t[n - Len(s)]
    BY <1>5, <2>2
  <2> QED BY <1>1, <1>2, <1>3, <2>1, <2>3
<1>7. u = v
  <2>1. u \in Seq(T) /\ v \in Seq(T) /\ Len(u) = Len(v) /\ \A n \in 1 .. Len(u) : u[n] = v[n]
    BY <1>1, <1>2, <1>3, <1>4, <1>6
  <2> QED BY <2>1, SeqEqual
<1> QED BY <1>7 DEF u, v, s, t

LEMMA FirstTwo ==
  ASSUME NEW a, NEW b, NEW c, NEW d, NEW e, NEW f, NEW g, NEW t, t = <<a, b, c, d, e, f, g>>
  PROVE  SubSeq(t, 1, 2) = <<a, b>>
<1> DEFINE T == {a, b, c, d, e, f, g}
           u == SubSeq(t, 1, 2)
           v == <<a, b>>
<1>1. t \in Seq(T) /\ Len(t) = 7 /\ t[1] = a /\ t[2] = b
  OBVIOUS
<1>2. v \in Seq(T) /\ Len(v) = 2 /\ v[1] = a /\ v[2] = b
  OBVIOUS
<1>3. u = [n \in 1 .. 2 |-> t[n]]
  BY <1>1
<1> HIDE DEF u, v, T
<1>4. v = [n \in 1 .. 2 |-> v[n]]
  BY <1>2 DEF v
<1>5. \A n \in 1 .. 2 : t[n] = v[n]
  BY <1>1, <1>2
<1>6. u = v
  BY <1>3, <1>4, <1>5
<1> QED BY <1>6 DEF u, v

LEMMA LastThree ==
  ASSUME NEW a, NEW b, NEW c, NEW d, NEW e, NEW f, NEW g, NEW t, t = <<a, b, c, d, e, f, g>>
  PROVE  SubSeq(t, 5, 7) = <<e, f, g>>
<1> DEFINE T == {a, b, c, d, e, f, g}
           u == SubSeq(t, 5, 7)
           v == <<e, f, g>>
<1>1. t \in Seq(T) /\ Len(t) = 7 /\ t[5] = e /\ t[6] = f /\ t[7] = g
  OBVIOUS
<1>2. v \in Seq(T) /\ Len(v) = 3 /\ v[1] = e /\ v[2] = f /\ v[3] = g
  OBVIOUS
<1>3. u = [n \in 1 .. 3 |-> t[n + 4]]
  BY <1>1
<1> HIDE DEF u, v, T
<1>4. v = [n \in 1 .. 3 |-> v[n]]
  BY <1>2 DEF v
<1>5. \A n \in 1 .. 3 : t[n + 4] = v[n]
  <2> TAKE n \in 1 .. 3
  <2>1. n = 1 \/ n = 2 \/ n = 3
    OBVIOUS
  <2> QED BY <1>1, <1>2, <2>1
<1>6. u = v
  BY <1>3, <1>4, <1>5
<1> QED BY <1>6 DEF u, v

LEMMA InterfaceLineIs ==
  ASSUME NEW i
  PROVE  InterfaceLine(i) = << <<i>>, <<"private">>, <<"public">>, <<"51820">>, <<"off">> >>
BY OneFour, Zenon DEF InterfaceLine, PrintInterface

LEMMA PeerLineIs ==
  ASSUME NEW p
  PROVE  PeerLine(p) = << <<p.iface>>, <<p.key>>, Absent, PrintEndpoint(p.endpoint), PrintAllowed(p.allowed),
                          <<Decimal(p.hs)>>, <<Decimal(p.rx)>>, <<Decimal(p.tx)>>, <<"off">> >>
<1> DEFINE c == Absent
           d == PrintEndpoint(p.endpoint)
           e == PrintAllowed(p.allowed)
           f == <<Decimal(p.hs)>>
           g == <<Decimal(p.rx)>>
           h == <<Decimal(p.tx)>>
           a == <<p.iface>>
           b == <<p.key>>
           k == <<"off">>
<1>1. PeerLine(p) = <<a>> \o <<b, c, d, e, f, g, h, k>>
  BY DEF PeerLine, PrintPeer
<1> HIDE DEF a, b, c, d, e, f, g, h, k
<1>2. <<a>> \o <<b, c, d, e, f, g, h, k>> = <<a, b, c, d, e, f, g, h, k>>
  BY OneEight
<1> QED BY <1>1, <1>2, Zenon DEF a, b, c, d, e, f, g, h, k

LEMMA NothingDropped ==
  ASSUME NEW A, NEW s \in Seq(A), \A n \in DOMAIN s : s[n] # <<>>
  PROVE  Columns(s) = s
<1> DEFINE F == [x \in A |-> <<x>>]
           g == [x \in A |-> x]
<1>1. Gather(F, s) = Image(g, s)
  <2>1. Takes(g, A, A)
    BY DEF Takes
  <2>2. F = [x \in A |-> <<g[x]>>]
    OBVIOUS
  <2> HIDE DEF F, g
  <2> QED BY <2>1, <2>2, ImageGathers
<1>2. \A n \in DOMAIN s : s[n] \in A
  BY ElementOfSeq, LenProperties
<1>3. Image(g, s) = s
  <2>1. s = [n \in DOMAIN s |-> s[n]]
    OBVIOUS
  <2> QED BY <1>2, <2>1 DEF Image
<1>4. [n \in DOMAIN s |-> IF s[n] # <<>> THEN <<s[n]>> ELSE <<>>] = [n \in DOMAIN s |-> F[s[n]]]
  BY <1>2
<1>5. Columns(s) = FlattenSeq([n \in DOMAIN s |-> IF s[n] # <<>> THEN <<s[n]>> ELSE <<>>])
  BY DEF Columns, Filter
<1>6. Columns(s) = Gather(F, s)
  BY <1>4, <1>5, Zenon DEF Gather
<1> QED BY <1>1, <1>3, <1>6

LEMMA PrintedNotEmpty ==
  ASSUME NEW nets \in Seq(Net)
  PROVE  PrintAllowed(nets) # <<>>
<1>1. CASE nets = <<>>
  BY <1>1 DEF PrintAllowed, Absent
<1>2. CASE nets # <<>>
  <2> SUFFICES ASSUME PrintAllowed(nets) = <<>> PROVE FALSE
    OBVIOUS
  <2>1. Split(<<>>, ",") = Image(NetText, nets)
    BY <1>2, Printed, NetsSplit, Zenon
  <2>2. << <<>> >> = Image(NetText, nets)
    BY <2>1, SplitNothing, Zenon
  <2>3. 1 \in DOMAIN nets /\ nets[1] \in Net
    BY <1>2, EmptySeq, ElementOfSeq, LenProperties
  <2>4. Image(NetText, nets)[1] = <<nets[1][1], "/", nets[1][2]>>
    BY <2>3, NetTexts DEF Image
  <2>5. << <<>> >>[1] = <<>>
    OBVIOUS
  <2>6. <<>> = <<nets[1][1], "/", nets[1][2]>>
    BY <2>2, <2>4, <2>5, Zenon
  <2> QED BY <2>6
<1> QED BY <1>1, <1>2

LEMMA NumberPrinted ==
  ASSUME NEW n \in 0 .. MaxNumber
  PROVE  Number(<<Decimal(n)>>) = n
<1>1. \A m \in 0 .. MaxNumber : <<Decimal(m)>> = <<Decimal(n)>> => m = n
  <2> TAKE m \in 0 .. MaxNumber
  <2> HAVE <<Decimal(m)>> = <<Decimal(n)>>
  <2>1. Decimal(m) = Decimal(n)
    OBVIOUS
  <2> QED BY <2>1, NumbersDiffer
<1> QED BY <1>1 DEF Number

LEMMA EndpointPrinted ==
  ASSUME NEW p \in Peer, NEW t, t = PrintEndpoint(p.endpoint)
  PROVE  /\ t # <<>> /\ (t = Absent <=> p.endpoint.kind = "none")
         /\ p.endpoint.kind # "none" => /\ IsSocketAddr(WithoutZone(t))
                                        /\ Ip(WithoutZone(t)) = p.endpoint.ip
                                        /\ Port(WithoutZone(t)) = p.endpoint.port
<1> DEFINE e == p.endpoint
           x == e.ip
           y == e.port
           none == e.kind = "none"
           Ok(z) == IsSocketAddr(z) /\ Ip(z) = x /\ Port(z) = y
<1>1. e.kind \in {"none", "v4", "v6", "scoped"}
  BY DEF Peer
<1>2. CASE e.kind = "none"
  <2>1. t = <<"(none)">>
    BY <1>2 DEF PrintEndpoint, Absent
  <2>2. t # <<>>
    BY <2>1
  <2> QED BY <1>2, <2>1, <2>2 DEF Absent
<1>3. CASE e.kind = "v4"
  <2>1. t = <<x, ":", y>>
    BY <1>3 DEF PrintEndpoint
  <2> HIDE DEF x, y
  <2>2. t # <<>> /\ t # Absent /\ Len(t) = 3 /\ t[1] = x /\ t[2] = ":" /\ t[3] = y
    BY <2>1 DEF Absent
  <2>3. WithoutZone(t) = t /\ Ok(t)
    BY <2>2 DEF WithoutZone, IsSocketAddr, Ip, Port
  <2> QED BY <1>3, <2>2, <2>3 DEF x, y
<1>4. CASE e.kind = "v6"
  <2>1. t = <<"[", x, "]", ":", y>>
    BY <1>4 DEF PrintEndpoint
  <2> HIDE DEF x, y
  <2>2. t # <<>> /\ t # Absent /\ Len(t) = 5 /\ t[1] = "[" /\ t[2] = x /\ t[3] = "]" /\ t[4] = ":" /\ t[5] = y
    BY <2>1 DEF Absent
  <2>3. WithoutZone(t) = t /\ Ok(t)
    BY <2>2 DEF WithoutZone, IsSocketAddr, Ip, Port
  <2> QED BY <1>4, <2>2, <2>3 DEF x, y
<1>5. CASE e.kind = "scoped"
  <2>1. t = <<"[", x, "%", "eth0", "]", ":", y>>
    BY <1>5 DEF PrintEndpoint
  <2> HIDE DEF x, y
  <2>2. t # <<>> /\ t # Absent /\ Len(t) = 7 /\ t[1] = "[" /\ t[3] = "%"
    BY <2>1 DEF Absent
  <2> DEFINE u == <<"[", x, "]", ":", y>>
  <2>3. WithoutZone(t) = u
    <3>1. WithoutZone(t) = SubSeq(t, 1, 2) \o SubSeq(t, 5, 7)
      BY <2>2 DEF WithoutZone
    <3>2. SubSeq(t, 1, 2) = <<"[", x>>
      BY <2>1, FirstTwo, ZenonT(60)
    <3>3. SubSeq(t, 5, 7) = <<"]", ":", y>>
      <4> DEFINE o == "["
                 d == "%"
                 f == "eth0"
                 g == "]"
                 h == ":"
      <4>1. t = <<o, x, d, f, g, h, y>>
        BY <2>1
      <4> HIDE DEF o, d, f, g, h
      <4>2. SubSeq(t, 5, 7) = <<g, h, y>>
        BY <4>1, LastThree
      <4> QED BY <4>2 DEF g, h
    <3>4. <<"[", x>> \o <<"]", ":", y>> = u
      BY TwoThree, Zenon
    <3> QED BY <3>1, <3>2, <3>3, <3>4, Zenon
  <2>4. Len(u) = 5 /\ u[1] = "[" /\ u[2] = x /\ u[3] = "]" /\ u[4] = ":" /\ u[5] = y
    OBVIOUS
  <2> HIDE DEF u
  <2>5. Ok(u)
    BY <2>4 DEF IsSocketAddr, Ip, Port
  <2> QED BY <1>5, <2>2, <2>3, <2>5 DEF x, y
<1> QED BY <1>1, <1>2, <1>3, <1>4, <1>5

LEMMA InterfaceParsed ==
  ASSUME NEW i, NEW l, l = InterfaceLine(i)
  PROVE  /\ Columns(l) = l /\ ~Panics(l) /\ l[1][1] = i
         /\ Endpoint(l) = Local /\ ~IsRemote(Local)
<1>1. l = << <<i>>, <<"private">>, <<"public">>, <<"51820">>, <<"off">> >>
  BY InterfaceLineIs
<1>2. /\ Len(l) = 5 /\ DOMAIN l = 1 .. 5 /\ l[1] = <<i>> /\ l[2] = <<"private">> /\ l[3] = <<"public">>
      /\ l[4] = <<"51820">> /\ l[5] = <<"off">>
  BY <1>1
<1>3. \A n \in DOMAIN l : l[n] # <<>>
  <2>1. \A x : <<x>> # <<>>
    OBVIOUS
  <2>2. \A n \in 1 .. 5 : n = 1 \/ n = 2 \/ n = 3 \/ n = 4 \/ n = 5
    OBVIOUS
  <2> QED BY <1>2, <2>1, <2>2
<1>4. Columns(l) = l
  <2> DEFINE A == {<<i>>, <<"private">>, <<"public">>, <<"51820">>, <<"off">>}
  <2>1. l \in Seq(A)
    BY <1>1
  <2> HIDE DEF A
  <2> QED BY <1>3, <2>1, NothingDropped
<1>5. IsLocal(l)
  BY <1>2 DEF IsLocal
<1>6. Endpoint(l) = Local
  BY <1>2, <1>5 DEF Endpoint, Local
<1>7. ~IsRemote(Local)
  BY DEF IsRemote, Local
<1> QED BY <1>2, <1>4, <1>5, <1>6, <1>7 DEF Panics

LEMMA PeerParsed ==
  ASSUME NEW p \in Peer, NEW l, l = PeerLine(p)
  PROVE  /\ Columns(l) = l /\ ~Panics(l) /\ l[1][1] = p.iface
         /\ Endpoint(l) = EpOf(p) /\ IsRemote(EpOf(p))
<1> DEFINE c == Absent
           t == PrintEndpoint(p.endpoint)
           e == PrintAllowed(p.allowed)
           f == <<Decimal(p.hs)>>
           g == <<Decimal(p.rx)>>
           h == <<Decimal(p.tx)>>
           a == <<p.iface>>
           b == <<p.key>>
           k == <<"off">>
<1>1. l = <<a, b, c, t, e, f, g, h, k>>
  BY PeerLineIs
<1>2. p.allowed \in Seq(Net) /\ p.hs \in 0 .. MaxNumber /\ p.rx \in 0 .. MaxNumber /\ p.tx \in 0 .. MaxNumber
  BY NumbersDiffer DEF Peer, Net
<1>3. a # <<>> /\ b # <<>> /\ c # <<>> /\ t # <<>> /\ e # <<>> /\ f # <<>> /\ g # <<>> /\ h # <<>> /\ k # <<>>
  <2>1. \A x : <<x>> # <<>>
    OBVIOUS
  <2>2. t # <<>> /\ e # <<>>
    BY <1>2, EndpointPrinted, PrintedNotEmpty
  <2> QED BY <2>1, <2>2 DEF Absent
<1>4. a[1] = p.iface /\ b[1] = p.key /\ Number(f) = p.hs /\ Number(g) = p.rx /\ Number(h) = p.tx
  BY <1>2, NumberPrinted
<1>5. /\ t = Absent <=> p.endpoint.kind = "none"
      /\ p.endpoint.kind # "none" => /\ IsSocketAddr(WithoutZone(t))
                                     /\ Ip(WithoutZone(t)) = p.endpoint.ip
                                     /\ Port(WithoutZone(t)) = p.endpoint.port
  BY EndpointPrinted
<1> HIDE DEF a, b, c, t, e, f, g, h, k
<1>6. /\ Len(l) = 9 /\ DOMAIN l = 1 .. 9 /\ l[1] = a /\ l[2] = b /\ l[3] = c /\ l[4] = t /\ l[5] = e
      /\ l[6] = f /\ l[7] = g /\ l[8] = h /\ l[9] = k
  BY <1>1
<1>7. \A n \in DOMAIN l : l[n] # <<>>
  <2>1. \A n \in 1 .. 9 : n = 1 \/ n = 2 \/ n = 3 \/ n = 4 \/ n = 5 \/ n = 6 \/ n = 7 \/ n = 8 \/ n = 9
    OBVIOUS
  <2> QED BY <1>3, <1>6, <2>1
<1>8. Columns(l) = l
  <2> DEFINE A == {a, b, c, t, e, f, g, h, k}
  <2>1. l \in Seq(A)
    BY <1>1
  <2> HIDE DEF A
  <2> QED BY <1>7, <2>1, NothingDropped
<1>9. ~IsLocal(l) /\ ~Panics(l)
  BY <1>5, <1>6 DEF IsLocal, Panics
<1>10. Endpoint(l) = EpOf(p)
  <2>1. Endpoint(l) = [public_key |-> l[2][1],
            remote_ip |-> IF l[4] = Absent THEN None ELSE Ip(WithoutZone(l[4])),
            remote_port |-> IF l[4] = Absent THEN None ELSE Port(WithoutZone(l[4])),
            allowed_ips |-> l[5], latest_handshake |-> Number(l[6]),
            received_bytes |-> Number(l[7]), sent_bytes |-> Number(l[8])]
    BY <1>9, Zenon DEF Endpoint
  <2> QED BY <1>4, <1>5, <1>6, <2>1 DEF EpOf, e
<1>11. IsRemote(EpOf(p))
  BY DEF IsRemote, EpOf
<1> QED BY <1>4, <1>6, <1>8, <1>9, <1>10, <1>11

(***************************************************************************)
(* From the peers to the lines of the dump, and from the lines to the      *)
(* endpoints of each interface.                                            *)
(***************************************************************************)
Of(i) == {p \in Peer : p.iface = i}
Lines == {InterfaceLine(i) : i \in Ifaces} \cup {PeerLine(p) : p \in Peer}
Ends == {Local} \cup {EpOf(p) : p \in Peer}
LineFn == [p \in Peer |-> PeerLine(p)]
EpFn == [p \in Peer |-> EpOf(p)]
EndsOf(i) == [l \in Lines |-> IF l[1][1] = i THEN <<Endpoint(l)>> ELSE <<>>]
DeviceLines == [i \in Ifaces |-> <<InterfaceLine(i)>> \o Image(LineFn, PeersIn(i))]
Filled(i) == IF i \in ToSet(Dumped) THEN <<Local>> \o Image(EpFn, PeersIn(i)) ELSE <<>>

LEMMA WorldPeers ==
  ASSUME world \in Worlds
  PROVE  world.peers \in Seq(Peer)
BY KernelAndFiles

LEMMA PeersInAre ==
  ASSUME world \in Worlds, NEW i
  PROVE  PeersIn(i) \in Seq(Of(i)) /\ PeersIn(i) \in Seq(Peer) /\ PeersIn(i) = Gather(Select(Peer, Of(i)), world.peers)
<1> DEFINE s == world.peers
           F == Select(Peer, Of(i))
           B == Peer \cap Of(i)
<1>1. s \in Seq(Peer)
  BY WorldPeers
<1>2. \A n \in DOMAIN s : s[n] \in Peer
  BY <1>1, ElementOfSeq, LenProperties
<1>3. \A n \in DOMAIN s : (IF s[n].iface = i THEN <<s[n]>> ELSE <<>>) = F[s[n]]
  BY <1>2 DEF Select, Of
<1>4. [n \in DOMAIN s |-> IF s[n].iface = i THEN <<s[n]>> ELSE <<>>] = [n \in DOMAIN s |-> F[s[n]]]
  BY <1>3
<1>5. PeersIn(i) = FlattenSeq([n \in DOMAIN s |-> IF s[n].iface = i THEN <<s[n]>> ELSE <<>>])
  BY DEF PeersIn, Filter
<1>6. PeersIn(i) = Gather(F, s)
  BY <1>4, <1>5, Zenon DEF Gather
<1>7. Gather(F, s) \in Seq(B)
  <2> HIDE DEF s, B
  <2> QED BY <1>1, SelectType DEF B
<1>8. B = Of(i)
  BY DEF Of
<1>9. \A A, D : A \subseteq D => Seq(A) \subseteq Seq(D)
  OBVIOUS
<1>10. Of(i) \subseteq Peer
  BY DEF Of
<1> HIDE DEF B, F, s
<1> QED BY <1>6, <1>7, <1>8, <1>9, <1>10 DEF F, s

LEMMA DumpedAre ==
  ASSUME target \in Targets
  PROVE  /\ Dumped \in Seq(Ifaces) /\ \A m, n \in DOMAIN Dumped : Dumped[m] = Dumped[n] => m = n
         /\ Interfaces \in Seq(Ifaces) /\ \A m, n \in DOMAIN Interfaces : Interfaces[m] = Interfaces[n] => m = n
         /\ Ifaces \subseteq Word
<1>1. Interfaces \in Seq(Word) /\ \A m, n \in DOMAIN Interfaces : Interfaces[m] = Interfaces[n] => m = n
  BY NamesDiffer DEF IsInjective
<1>2. Interfaces \in Seq(Ifaces)
  <2>1. Interfaces \in [1 .. Len(Interfaces) -> Word] /\ Len(Interfaces) \in Nat
    BY <1>1, LenProperties
  <2>2. Interfaces \in [1 .. Len(Interfaces) -> Ifaces]
    BY <2>1 DEF Ifaces, ToSet
  <2> QED BY <2>1, <2>2
<1>3. Ifaces \subseteq Word
  BY <1>1, ElementOfSeq, LenProperties DEF Ifaces, ToSet
<1>4. CASE target = "all"
  BY <1>1, <1>2, <1>3, <1>4 DEF Dumped
<1>5. CASE target # "all"
  <2>1. Dumped = <<target>> /\ target \in Ifaces
    BY <1>5, NamesDiffer DEF Dumped, Ifaces
  <2>2. <<target>> \in Seq(Ifaces)
    BY <2>1, Tuples
  <2>3. \A x : \A m, n \in DOMAIN <<x>> : <<x>>[m] = <<x>>[n] => m = n
    OBVIOUS
  <2> QED BY <1>1, <1>2, <1>3, <2>1, <2>2, <2>3
<1> QED BY <1>4, <1>5

LEMMA LinesAre ==
  ASSUME NEW i
  PROVE  /\ \A l \in Lines : /\ Columns(l) = l /\ ~Panics(l) /\ l[1][1] \in Ifaces /\ Endpoint(l) \in Ends
         /\ Takes(LineFn, Peer, Lines) /\ Takes(EpFn, Peer, Ends)
         /\ Maps(EndsOf(i), Lines, Ends)
<1>1. ASSUME NEW l \in Lines
      PROVE  Columns(l) = l /\ ~Panics(l) /\ l[1][1] \in Ifaces /\ Endpoint(l) \in Ends
  <2>1. CASE \E j \in Ifaces : l = InterfaceLine(j)
    <3>1. PICK j \in Ifaces : l = InterfaceLine(j)
      BY <2>1
    <3> QED BY <3>1, InterfaceParsed DEF Ends
  <2>2. CASE \E p \in Peer : l = PeerLine(p)
    <3>1. PICK p \in Peer : l = PeerLine(p)
      BY <2>2
    <3>2. p.iface \in Ifaces
      BY DEF Peer, Ifaces
    <3> QED BY <3>1, <3>2, PeerParsed DEF Ends
  <2> QED BY <2>1, <2>2 DEF Lines
<1>2. Takes(LineFn, Peer, Lines) /\ Takes(EpFn, Peer, Ends)
  BY DEF Takes, LineFn, EpFn, Lines, Ends
<1>3. \A l \in Lines : (IF l[1][1] = i THEN <<Endpoint(l)>> ELSE <<>>) \in Seq(Ends)
  <2> TAKE l \in Lines
  <2>1. Endpoint(l) \in Ends
    BY <1>1
  <2>2. <<Endpoint(l)>> \in Seq(Ends)
    <3> DEFINE e == Endpoint(l)
    <3> HIDE DEF e
    <3>1. e \in Ends => <<e>> \in Seq(Ends)
      BY Tuples
    <3> QED BY <2>1, <3>1 DEF e
  <2>3. <<>> \in Seq(Ends)
    BY Nothing
  <2> QED BY <2>2, <2>3
<1>4. Maps(EndsOf(i), Lines, Ends)
  BY <1>3 DEF Maps, EndsOf
<1> QED BY <1>1, <1>2, <1>4

(***************************************************************************)
(* The lines that wg prints and the exporter completes.                    *)
(***************************************************************************)
LEMMA ImageSingle ==
  ASSUME NEW g, NEW x
  PROVE  Image(g, <<x>>) = <<g[x]>>
BY DEF Image

LEMMA DeviceLinesAre ==
  ASSUME world \in Worlds, NEW i \in Ifaces
  PROVE  [n \in DOMAIN PeersIn(i) |-> << <<i>> >> \o PrintPeer(PeersIn(i)[n])] = Image(LineFn, PeersIn(i))
<1> DEFINE s == PeersIn(i)
<1>1. s \in Seq(Of(i))
  BY PeersInAre
<1> HIDE DEF s
<1>2. \A n \in DOMAIN s : s[n] \in Of(i)
  BY <1>1, ElementOfSeq, LenProperties
<1>3. \A n \in DOMAIN s : LineFn[s[n]] = << <<i>> >> \o PrintPeer(s[n])
  <2> TAKE n \in DOMAIN s
  <2>1. s[n] \in Peer /\ s[n].iface = i
    BY <1>2 DEF Of
  <2> QED BY <2>1 DEF LineFn, PeerLine
<1>4. [n \in DOMAIN s |-> << <<i>> >> \o PrintPeer(s[n])] = [n \in DOMAIN s |-> LineFn[s[n]]]
  BY <1>3
<1> QED BY <1>4 DEF Image, s

LEMMA DeviceLinesMap ==
  ASSUME world \in Worlds
  PROVE  Maps(DeviceLines, Ifaces, Lines)
<1>1. ASSUME NEW j \in Ifaces
      PROVE  <<InterfaceLine(j)>> \o Image(LineFn, PeersIn(j)) \in Seq(Lines)
  <2> DEFINE a == <<InterfaceLine(j)>>
             b == Image(LineFn, PeersIn(j))
             v == InterfaceLine(j)
  <2>1. v \in Lines
    BY DEF Lines
  <2>2. a \in Seq(Lines)
    <3> HIDE DEF v
    <3> QED BY <2>1, Tuples DEF v
  <2>3. b \in Seq(Lines)
    <3> DEFINE w == PeersIn(j)
    <3>1. w \in Seq(Peer) /\ Takes(LineFn, Peer, Lines)
      BY PeersInAre, LinesAre
    <3> HIDE DEF w
    <3>2. Image(LineFn, w) \in Seq(Lines)
      BY <3>1, ImageType
    <3> QED BY <3>2 DEF w
  <2> HIDE DEF a, b
  <2>4. a \o b \in Seq(Lines)
    BY <2>2, <2>3, ConcatProperties
  <2> QED BY <2>4 DEF a, b
<1> QED BY <1>1 DEF Maps, DeviceLines

LEMMA DumpsLines ==
  ASSUME world \in Worlds, target \in Targets
  PROVE  Inject(target, FlattenSeq([n \in DOMAIN Dumped |-> PrintDevice(target, Dumped[n], world.peers)]))
           = Gather(DeviceLines, Dumped)
<1>0. \A n \in DOMAIN Dumped : Dumped[n] \in Ifaces
  BY DumpedAre, ElementOfSeq, LenProperties
<1>1. CASE target = "all"
  <2>1. \A i \in Ifaces : PrintDevice(target, i, world.peers) = DeviceLines[i]
    <3> TAKE i \in Ifaces
    <3>1. PrintDevice(target, i, world.peers) =
            << << <<i>> >> \o PrintInterface >> \o [n \in DOMAIN PeersIn(i) |-> << <<i>> >> \o PrintPeer(PeersIn(i)[n])]
      BY <1>1, Zenon DEF PrintDevice, PeersIn
    <3>2. DeviceLines[i] = <<InterfaceLine(i)>> \o Image(LineFn, PeersIn(i))
      BY DEF DeviceLines
    <3> QED BY <3>1, <3>2, DeviceLinesAre, Zenon DEF InterfaceLine
  <2>2. [n \in DOMAIN Dumped |-> PrintDevice(target, Dumped[n], world.peers)]
          = [n \in DOMAIN Dumped |-> DeviceLines[Dumped[n]]]
    BY <1>0, <2>1
  <2> QED BY <1>1, <2>2, Zenon DEF Inject, Gather
<1>2. CASE target # "all"
  <2>1. Dumped = <<target>> /\ target \in Ifaces
    BY <1>2, NamesDiffer DEF Dumped, Ifaces
  <2> DEFINE i == target
             s == PeersIn(i)
             L == {PrintInterface} \cup {PrintPeer(p) : p \in Peer}
             h == [l \in L |-> << <<i>> >> \o l]
             P == [p \in Peer |-> PrintPeer(p)]
             x == PrintInterface
             y == Image(P, s)
             d == PrintDevice(target, i, world.peers)
  <2>2. s \in Seq(Peer) /\ Takes(P, Peer, L) /\ x \in L /\ Takes(h, L, {<< <<i>> >> \o l : l \in L})
    BY PeersInAre DEF Takes
  <2>3. y \in Seq(L)
    <3> HIDE DEF s, P, L
    <3> QED BY <2>2, ImageType
  <2>5. d = <<x>> \o y
    <3>1. d = << <<>> \o x >> \o [n \in DOMAIN s |-> <<>> \o PrintPeer(s[n])]
      BY <1>2, Zenon DEF PrintDevice, PeersIn
    <3>2. <<>> \o x = x
      <4>1. x \in Seq({<<"private">>, <<"public">>, <<"51820">>, <<"off">>})
        BY DEF PrintInterface
      <4> QED BY <4>1, ConcatEmptySeq
    <3>3. \A p : <<>> \o PrintPeer(p) = PrintPeer(p)
      <4> TAKE p
      <4>1. PrintPeer(p) \in Seq({PrintPeer(p)[1], PrintPeer(p)[2], PrintPeer(p)[3], PrintPeer(p)[4],
                                   PrintPeer(p)[5], PrintPeer(p)[6], PrintPeer(p)[7], PrintPeer(p)[8]})
        BY DEF PrintPeer
      <4> DEFINE u == PrintPeer(p)
                 T == {u[1], u[2], u[3], u[4], u[5], u[6], u[7], u[8]}
      <4> HIDE DEF u
      <4>2. u \in Seq(T)
        BY <4>1 DEF u
      <4> HIDE DEF T
      <4>3. <<>> \o u = u
        BY <4>2, ConcatEmptySeq
      <4> QED BY <4>3 DEF u
    <3>4. \A n \in DOMAIN s : s[n] \in Peer
      <4> HIDE DEF s
      <4> QED BY <2>2, ElementOfSeq, LenProperties
    <3>5. [n \in DOMAIN s |-> <<>> \o PrintPeer(s[n])] = y
      <4> HIDE DEF s
      <4> QED BY <3>3, <3>4 DEF Image
    <3> QED BY <3>1, <3>2, <3>5, Zenon
  <2>6. FlattenSeq([n \in DOMAIN Dumped |-> PrintDevice(target, Dumped[n], world.peers)]) = d /\ d \in Seq(L)
    <3> DEFINE D == [j \in {i} |-> d]
    <3>1. d \in Seq(L)
      <4> DEFINE z == <<x>>
      <4>1. z \in Seq(L)
        BY <2>2, Tuples
      <4> HIDE DEF z, y, L
      <4>2. z \o y \in Seq(L)
        BY <2>3, <4>1, ConcatProperties
      <4> QED BY <2>5, <4>2 DEF z
    <3>2. Maps(D, {i}, L)
      <4> HIDE DEF d, L
      <4> QED BY <3>1 DEF Maps
    <3>3. Gather(D, <<i>>) = D[i] /\ D[i] = d
      <4> HIDE DEF D, L
      <4>1. i \in {i}
        OBVIOUS
      <4>2. Gather(D, <<i>>) = D[i]
        BY <3>2, <4>1, GatherOne
      <4>3. D[i] = d
        BY DEF D
      <4> QED BY <4>2, <4>3
    <3>4. [n \in DOMAIN <<i>> |-> PrintDevice(target, <<i>>[n], world.peers)] = [n \in DOMAIN <<i>> |-> D[<<i>>[n]]]
      OBVIOUS
    <3>5. FlattenSeq([n \in DOMAIN <<i>> |-> PrintDevice(target, <<i>>[n], world.peers)]) = Gather(D, <<i>>)
      BY <3>4, Zenon DEF Gather
    <3> QED BY <2>1, <3>1, <3>3, <3>5, Zenon
  <2>7. Inject(target, d) = Image(h, d)
    <3>1. Inject(target, d) = [n \in DOMAIN d |-> << <<i>> >> \o d[n]]
      BY <1>2, Zenon DEF Inject
    <3>2. \A n \in DOMAIN d : d[n] \in L
      <4> HIDE DEF d, L
      <4> QED BY <2>6, ElementOfSeq, LenProperties
    <3>3. [n \in DOMAIN d |-> << <<i>> >> \o d[n]] = [n \in DOMAIN d |-> h[d[n]]]
      <4> HIDE DEF d, L
      <4> QED BY <3>2
    <3> QED BY <3>1, <3>3, Zenon DEF Image
  <2>8. Image(h, d) = <<h[x]>> \o Image(h, y)
    <3> DEFINE z == <<x>>
               T == {<< <<i>> >> \o l : l \in L}
    <3>1. z \in Seq(L) /\ Takes(h, L, T)
      BY <2>2, Tuples
    <3>2. Image(h, z) = <<h[x]>>
      BY ImageSingle, Zenon
    <3> HIDE DEF z, y, L, T, h
    <3>3. Image(h, z \o y) = Image(h, z) \o Image(h, y)
      BY <2>3, <3>1, ImageConcat
    <3> QED BY <2>5, <3>2, <3>3, Zenon DEF z
  <2>9. h[x] = InterfaceLine(i)
    BY <2>2 DEF InterfaceLine
  <2>10. Image(h, y) = Image(LineFn, s)
    <3>1. DOMAIN y = DOMAIN s /\ \A n \in DOMAIN s : y[n] = PrintPeer(s[n])
      <4> HIDE DEF s, L
      <4>1. \A n \in DOMAIN s : s[n] \in Peer
        BY <2>2, ElementOfSeq, LenProperties
      <4> QED BY <4>1 DEF Image
    <3>2. \A n \in DOMAIN s : s[n] \in Peer
      <4> HIDE DEF s, L
      <4> QED BY <2>2, ElementOfSeq, LenProperties
    <3>3. \A n \in DOMAIN s : h[y[n]] = << <<i>> >> \o PrintPeer(s[n])
      <4> HIDE DEF s, y
      <4> QED BY <3>1, <3>2
    <3>4. [n \in DOMAIN y |-> h[y[n]]] = [n \in DOMAIN s |-> << <<i>> >> \o PrintPeer(s[n])]
      <4> HIDE DEF s, y, h
      <4> QED BY <3>1, <3>3
    <3> QED BY <2>1, <3>4, DeviceLinesAre, Zenon DEF Image
  <2>11. Gather(DeviceLines, <<i>>) = DeviceLines[i]
    <3>2. Maps(DeviceLines, Ifaces, Lines)
      BY DeviceLinesMap
    <3>3. i \in Ifaces
      BY <2>1
    <3> HIDE DEF i
    <3> QED BY <3>2, <3>3, GatherOne
  <2>12. DeviceLines[i] = <<InterfaceLine(i)>> \o Image(LineFn, s)
    BY <2>1 DEF DeviceLines
  <2> HIDE DEF d, h, y, s, L, P, x
  <2>13. Image(h, d) = Gather(DeviceLines, <<i>>)
    BY <2>8, <2>9, <2>10, <2>11, <2>12, Zenon
  <2> QED BY <2>1, <2>6, <2>7, <2>13, Zenon
<1> QED BY <1>1, <1>2

LEMMA GatherImage ==
  ASSUME NEW A, NEW g, NEW F, NEW s \in Seq(A)
  PROVE  Gather(F, Image(g, s)) = Gather([x \in A |-> F[g[x]]], s)
<1> DEFINE u == Image(g, s)
           H == [x \in A |-> F[g[x]]]
<1>1. \A n \in DOMAIN s : s[n] \in A
  BY ElementOfSeq, LenProperties
<1>2. DOMAIN u = DOMAIN s /\ \A n \in DOMAIN s : u[n] = g[s[n]]
  BY DEF Image
<1> HIDE DEF u
<1>3. [n \in DOMAIN u |-> F[u[n]]] = [n \in DOMAIN s |-> H[s[n]]]
  BY <1>1, <1>2
<1> HIDE DEF H
<1>4. Gather(F, u) = Gather(H, s)
  BY <1>3, Zenon DEF Gather
<1> QED BY <1>4 DEF u, H

LEMMA PeersEnds ==
  ASSUME world \in Worlds, NEW i, NEW j
  PROVE  Gather(EndsOf(i), Image(LineFn, PeersIn(j))) = IF j = i THEN Image(EpFn, PeersIn(j)) ELSE <<>>
<1> DEFINE s == PeersIn(j)
           E == EndsOf(i)
           H == [p \in Peer |-> E[LineFn[p]]]
           G == [p \in Peer |-> <<EpFn[p]>>]
           N == [p \in Peer |-> <<>>]
<1>1. s \in Seq(Peer) /\ \A n \in DOMAIN s : s[n] \in Peer /\ s[n].iface = j
  <2>1. s \in Seq(Peer) /\ s \in Seq(Of(j))
    BY PeersInAre
  <2> HIDE DEF s
  <2>2. \A n \in DOMAIN s : s[n] \in Of(j)
    BY <2>1, ElementOfSeq, LenProperties
  <2> QED BY <2>1, <2>2 DEF Of
<1> HIDE DEF s
<1>2. Gather(E, Image(LineFn, s)) = Gather(H, s)
  BY <1>1, GatherImage
<1>3. \A n \in DOMAIN s : H[s[n]] = IF j = i THEN <<EpOf(s[n])>> ELSE <<>>
  <2> TAKE n \in DOMAIN s
  <2> DEFINE p == s[n]
             l == PeerLine(p)
  <2>1. p \in Peer /\ p.iface = j /\ LineFn[p] = l /\ l \in Lines
    BY <1>1 DEF LineFn, Lines
  <2>2. l[1][1] = p.iface /\ Endpoint(l) = EpOf(p)
    BY <2>1, PeerParsed
  <2> HIDE DEF l, p
  <2>3. H[p] = IF j = i THEN <<EpOf(p)>> ELSE <<>>
    BY <2>1, <2>2 DEF EndsOf
  <2> QED BY <2>3 DEF p
<1>4. CASE j = i
  <2>1. \A n \in DOMAIN s : H[s[n]] = G[s[n]]
    BY <1>1, <1>3, <1>4 DEF EpFn
  <2>2. Takes(EpFn, Peer, Ends) /\ G = [p \in Peer |-> <<EpFn[p]>>]
    BY LinesAre
  <2> HIDE DEF H, G
  <2>3. Gather(H, s) = Gather(G, s)
    BY <2>1, GatherSame
  <2>4. Gather(G, s) = Image(EpFn, s)
    BY <1>1, <2>2, ImageGathers
  <2> HIDE DEF E
  <2>5. Gather(E, Image(LineFn, s)) = Image(EpFn, s)
    BY <1>2, <2>3, <2>4, Zenon
  <2> QED BY <1>4, <2>5 DEF E, s
<1>5. CASE j # i
  <2>1. \A n \in DOMAIN s : H[s[n]] = N[s[n]]
    BY <1>1, <1>3, <1>5
  <2>2. Maps(N, Peer, Ends) /\ \A p \in Peer : N[p] = <<>>
    <3>1. <<>> \in Seq(Ends)
      BY Nothing
    <3> QED BY <3>1 DEF Maps
  <2> HIDE DEF H, N
  <2>3. Gather(H, s) = Gather(N, s)
    BY <2>1, GatherSame
  <2>4. Gather(N, s) = <<>>
    BY <1>1, <2>2, GatherNothing
  <2> HIDE DEF E
  <2>5. Gather(E, Image(LineFn, s)) = <<>>
    BY <1>2, <2>3, <2>4, Zenon
  <2> QED BY <1>5, <2>5 DEF E, s
<1> QED BY <1>4, <1>5

LEMMA DeviceEnds ==
  ASSUME world \in Worlds, NEW i, NEW j \in Ifaces
  PROVE  Gather(EndsOf(i), DeviceLines[j]) = IF j = i THEN <<Local>> \o Image(EpFn, PeersIn(j)) ELSE <<>>
<1> DEFINE v == InterfaceLine(j)
           a == <<v>>
           w == PeersIn(j)
           b == Image(LineFn, w)
           E == EndsOf(i)
<1>1. v \in Lines /\ Maps(E, Lines, Ends)
  BY LinesAre DEF Lines
<1>2. w \in Seq(Peer) /\ Takes(LineFn, Peer, Lines)
  BY PeersInAre, LinesAre
<1>3. E[v] = IF j = i THEN <<Local>> ELSE <<>>
  <2>1. v[1][1] = j /\ Endpoint(v) = Local
    BY InterfaceParsed
  <2> HIDE DEF v
  <2> QED BY <1>1, <2>1 DEF EndsOf
<1>4. Gather(E, b) = IF j = i THEN Image(EpFn, w) ELSE <<>>
  BY PeersEnds
<1>5. DeviceLines[j] = a \o b
  BY DEF DeviceLines
<1> HIDE DEF v, w, E
<1>6. a \in Seq(Lines) /\ b \in Seq(Lines)
  <2>1. a \in Seq(Lines)
    BY <1>1, Tuples
  <2>2. b \in Seq(Lines)
    BY <1>2, ImageType
  <2> QED BY <2>1, <2>2
<1>7. Gather(E, a) = E[v]
  BY <1>1, GatherOne
<1> HIDE DEF a, b
<1>8. Gather(E, a \o b) = Gather(E, a) \o Gather(E, b)
  BY <1>1, <1>6, GatherConcat
<1>9. <<>> \o <<>> = <<>>
  OBVIOUS
<1>10. CASE j = i
  <2>1. Gather(E, DeviceLines[j]) = <<Local>> \o Image(EpFn, w)
    BY <1>3, <1>4, <1>5, <1>7, <1>8, <1>10, Zenon
  <2> QED BY <1>10, <2>1 DEF E, w
<1>11. CASE j # i
  <2>1. Gather(E, DeviceLines[j]) = <<>>
    BY <1>3, <1>4, <1>5, <1>7, <1>8, <1>9, <1>11, Zenon
  <2> QED BY <1>11, <2>1 DEF E, w
<1> QED BY <1>10, <1>11

(* The lines of the dump hold every interface that was asked for.          *)
LEMMA DumpFills ==
  ASSUME world \in Worlds, target \in Targets, NEW i \in Ifaces
  PROVE  /\ Gather(DeviceLines, Dumped) \in Seq(Lines)
         /\ Gather(EndsOf(i), Gather(DeviceLines, Dumped)) = Filled(i)
<1> DEFINE E == EndsOf(i)
           D == DeviceLines
           s == Dumped
           H == [j \in Ifaces |-> Gather(E, D[j])]
<1>1. Maps(D, Ifaces, Lines) /\ Maps(E, Lines, Ends) /\ s \in Seq(Ifaces)
  BY DeviceLinesMap, LinesAre, DumpedAre
<1>2. \A m, n \in DOMAIN s : s[m] = s[n] => m = n
  BY DumpedAre
<1>3. \A j \in Ifaces : H[j] = IF j = i THEN <<Local>> \o Image(EpFn, PeersIn(i)) ELSE <<>>
  BY DeviceEnds
<1>4. \A j \in Ifaces : Gather(E, D[j]) \in Seq(Ends)
  <2> HIDE DEF E, D
  <2> TAKE j \in Ifaces
  <2>1. D[j] \in Seq(Lines)
    BY <1>1, MapsAt
  <2> QED BY <1>1, <2>1, GatherType
<1>5. Maps(H, Ifaces, Ends)
  <2> HIDE DEF E, D
  <2> QED BY <1>4 DEF Maps
<1>6. (\E n \in DOMAIN s : s[n] = i) <=> i \in ToSet(s)
  BY DEF ToSet
<1>7. Gather(E, Gather(D, s)) = Gather(H, s) /\ Gather(D, s) \in Seq(Lines)
  <2> HIDE DEF E, D, s
  <2>1. Gather(E, Gather(D, s)) = Gather(H, s)
    BY <1>1, GatherGather
  <2>2. Gather(D, s) \in Seq(Lines)
    BY <1>1, GatherType
  <2> QED BY <2>1, <2>2
<1> HIDE DEF E, D, s, H
<1>8. Gather(H, s) = IF \E n \in DOMAIN s : s[n] = i THEN H[i] ELSE <<>>
  <2>1. \A j \in Ifaces : j # i => H[j] = <<>>
    BY <1>3
  <2> QED BY <1>1, <1>2, <1>5, <2>1, GatherOnly
<1>9. Gather(E, Gather(D, s)) = IF i \in ToSet(s) THEN <<Local>> \o Image(EpFn, PeersIn(i)) ELSE <<>>
  BY <1>3, <1>6, <1>7, <1>8
<1> QED BY <1>7, <1>9 DEF Filled, E, D, s

(* A line is taken from the dump and its endpoint is put at the end.       *)
LEMMA ParseKeeps ==
  ASSUME NEW j, NEW a \in Seq(Ends), NEW ls \in Seq(Lines), ls # <<>>
  PROVE  (IF Head(ls)[1][1] = j THEN Append(a, Endpoint(Head(ls))) ELSE a) \o Gather(EndsOf(j), Tail(ls))
           = a \o Gather(EndsOf(j), ls)
<1> DEFINE l == Head(ls)
           t == Tail(ls)
           E == EndsOf(j)
           e == Endpoint(l)
           x == <<e>>
           g == Gather(E, t)
<1>1. l \in Lines /\ t \in Seq(Lines)
  BY HeadTailProperties
<1>2. Maps(E, Lines, Ends) /\ e \in Ends
  BY <1>1, LinesAre
<1>3. E[l] = IF l[1][1] = j THEN x ELSE <<>>
  <2> HIDE DEF l
  <2> QED BY <1>1 DEF EndsOf
<1>4. Gather(E, ls) = E[l] \o g
  <2> HIDE DEF E
  <2> QED BY <1>2, GatherHead
<1>5. g \in Seq(Ends)
  <2> HIDE DEF E, t
  <2> QED BY <1>1, <1>2, GatherType
<1>6. x \in Seq(Ends)
  <2> HIDE DEF e
  <2> QED BY <1>2, Tuples
<1>7. Append(a, e) = a \o x
  <2> HIDE DEF e
  <2> QED BY <1>2, AppendIsConcat
<1> HIDE DEF l, t, E, e, x, g
<1>8. (a \o x) \o g = a \o (x \o g)
  BY <1>5, <1>6, ConcatAssociative
<1>9. <<>> \o g = g
  BY <1>5, ConcatEmptySeq
<1>10. CASE l[1][1] = j
  <2>1. Append(a, e) \o g = a \o Gather(E, ls)
    BY <1>3, <1>4, <1>7, <1>8, <1>10, Zenon
  <2> QED BY <1>10, <2>1 DEF l, t, E, e, g
<1>11. CASE l[1][1] # j
  <2>1. a \o g = a \o Gather(E, ls)
    BY <1>3, <1>4, <1>9, <1>11, Zenon
  <2> QED BY <1>11, <2>1 DEF l, t, E, e, g
<1> QED BY <1>10, <1>11

(***************************************************************************)
(* What is still to be rendered.                                           *)
(***************************************************************************)
LEMMA GatherNone ==
  ASSUME NEW A, NEW T, NEW F, NEW s \in Seq(A), \A n \in DOMAIN s : F[s[n]] = <<>>
  PROVE  Gather(F, s) = <<>>
<1> DEFINE N == [x \in A |-> <<>>]
<1>1. \A n \in DOMAIN s : s[n] \in A
  BY ElementOfSeq, LenProperties
<1>2. \A n \in DOMAIN s : F[s[n]] = N[s[n]]
  BY <1>1
<1>3. Maps(N, A, T) /\ \A x \in A : N[x] = <<>>
  <2>1. <<>> \in Seq(T)
    BY Nothing
  <2> QED BY <2>1 DEF Maps
<1> HIDE DEF N
<1>4. Gather(F, s) = Gather(N, s)
  BY <1>2, GatherSame
<1>5. Gather(N, s) = <<>>
  BY <1>3, GatherNothing
<1> QED BY <1>4, <1>5

(* F is G but for what it makes of the first element where it makes        *)
(* something.                                                              *)
FirstAt(F, G, h, s, k) ==
  /\ k \in DOMAIN s /\ F[s[k]] = h \o G[s[k]]
  /\ \A n \in DOMAIN s : (n < k => F[s[n]] = <<>>) /\ (n # k => F[s[n]] = G[s[n]])
LEMMA GatherStep ==
  ASSUME NEW A, NEW T, NEW F, NEW G, Maps(F, A, T), Maps(G, A, T), NEW h \in Seq(T)
  PROVE  \A s \in Seq(A) : \A k : FirstAt(F, G, h, s, k) => Gather(F, s) = h \o Gather(G, s)
<1> DEFINE S == {s \in Seq(A) : \A k : FirstAt(F, G, h, s, k) => Gather(F, s) = h \o Gather(G, s)}
<1>1. <<>> \in S
  BY DEF FirstAt
<1>2. ASSUME NEW s \in Seq(A), NEW x \in A, s \in S
      PROVE  Append(s, x) \in S
  <2> DEFINE u == Append(s, x)
  <2>1. PICK m \in Nat : /\ DOMAIN s = 1 .. m /\ Len(s) = m /\ u \in Seq(A)
                         /\ DOMAIN u = 1 .. m + 1 /\ u[m + 1] = x /\ (\A n \in 1 .. m : u[n] = s[n])
                         /\ (\A n \in 1 .. m : n \in 1 .. m + 1) /\ m + 1 \in 1 .. m + 1
                         /\ (\A n \in 1 .. m + 1 : n \in 1 .. m \/ n = m + 1)
    BY AppendAt
  <2>2. Gather(F, u) = Gather(F, s) \o F[x] /\ Gather(G, u) = Gather(G, s) \o G[x]
    BY GatherAppend
  <2>3. Gather(F, s) \in Seq(T) /\ Gather(G, s) \in Seq(T) /\ F[x] \in Seq(T) /\ G[x] \in Seq(T)
    BY GatherType, MapsAt
  <2> SUFFICES ASSUME NEW k, FirstAt(F, G, h, u, k)
               PROVE  Gather(F, u) = h \o Gather(G, u)
    <3>1. u \in Seq(A)
      BY <2>1
    <3> QED BY <3>1
  <2> HIDE DEF u
  <2>4. /\ k \in DOMAIN u /\ F[u[k]] = h \o G[u[k]]
        /\ \A n \in DOMAIN u : (n < k => F[u[n]] = <<>>) /\ (n # k => F[u[n]] = G[u[n]])
    BY DEF FirstAt
  <2>5. CASE k = m + 1
    <3>1. \A n \in DOMAIN s : F[s[n]] = <<>> /\ G[s[n]] = <<>>
      <4> TAKE n \in DOMAIN s
      <4>1. n \in DOMAIN u /\ n < k /\ n # k /\ u[n] = s[n]
        BY <2>1, <2>5
      <4> QED BY <2>4, <4>1
    <3>2. Gather(F, s) = <<>> /\ Gather(G, s) = <<>>
      BY <3>1, GatherNone
    <3>3. F[x] = h \o G[x]
      BY <2>1, <2>4, <2>5
    <3>4. <<>> \o F[x] = F[x] /\ <<>> \o G[x] = G[x]
      BY <2>3, ConcatEmptySeq
    <3> QED BY <2>2, <3>2, <3>3, <3>4, Zenon
  <2>6. CASE k # m + 1
    <3>1. k \in DOMAIN s
      BY <2>1, <2>4, <2>6
    <3>2. FirstAt(F, G, h, s, k)
      <4>1. F[s[k]] = h \o G[s[k]]
        BY <2>1, <2>4, <3>1
      <4>2. \A n \in DOMAIN s : n \in DOMAIN u /\ u[n] = s[n]
        BY <2>1
      <4>3. \A n \in DOMAIN s : (n < k => F[s[n]] = <<>>) /\ (n # k => F[s[n]] = G[s[n]])
        BY <2>4, <4>2
      <4> QED BY <3>1, <4>1, <4>3 DEF FirstAt
    <3>3. Gather(F, s) = h \o Gather(G, s)
      BY <1>2, <3>2
    <3>4. F[x] = G[x]
      BY <2>1, <2>4, <2>6
    <3>5. (h \o Gather(G, s)) \o G[x] = h \o (Gather(G, s) \o G[x])
      <4> DEFINE a == Gather(G, s)
                 b == G[x]
      <4>1. a \in Seq(T) /\ b \in Seq(T)
        BY <2>3
      <4> HIDE DEF a, b
      <4>2. (h \o a) \o b = h \o (a \o b)
        BY <4>1, ConcatAssociative, SMTT(60)
      <4> QED BY <4>2 DEF a, b
    <3> QED BY <2>2, <3>3, <3>4, <3>5, Zenon
  <2> QED BY <2>5, <2>6
<1>3. \A s \in Seq(A) : s \in S
  <2> HIDE DEF S
  <2> QED BY <1>1, <1>2, SeqInduction
<1> QED BY <1>3

Owing == Ifaces \X Ends
PairFn == [p \in Peer |-> <<p.iface, EpOf(p)>>]
RemotesOf(i) == [e \in Ends |-> IF IsRemote(e) THEN << <<i, e>> >> ELSE <<>>]
OwedBy(held) == [i \in Ifaces |-> Gather(RemotesOf(i), held[i])]
Owed(held) == Gather(OwedBy(held), Interfaces)
Holds(held) == held \in [Ifaces -> Seq(Ends)]

LEMMA RemotesMap ==
  ASSUME NEW i \in Ifaces
  PROVE  Maps(RemotesOf(i), Ends, Owing)
<1>1. \A e \in Ends : <<i, e>> \in Owing
  BY DEF Owing
<1>2. \A x \in Owing : <<x>> \in Seq(Owing)
  BY Tuples
<1>3. <<>> \in Seq(Owing)
  BY Nothing
<1>4. \A e \in Ends : (IF IsRemote(e) THEN << <<i, e>> >> ELSE <<>>) \in Seq(Owing)
  BY <1>1, <1>2, <1>3
<1> QED BY <1>4 DEF Maps, RemotesOf

LEMMA OwedMaps ==
  ASSUME NEW held, Holds(held)
  PROVE  Maps(OwedBy(held), Ifaces, Owing)
<1>1. \A i \in Ifaces : Gather(RemotesOf(i), held[i]) \in Seq(Owing)
  <2> TAKE i \in Ifaces
  <2> DEFINE R == RemotesOf(i)
             a == held[i]
  <2>1. Maps(R, Ends, Owing) /\ a \in Seq(Ends)
    BY RemotesMap DEF Holds
  <2> HIDE DEF R, a
  <2>2. Gather(R, a) \in Seq(Owing)
    BY <2>1, GatherType
  <2> QED BY <2>2 DEF R, a
<1> QED BY <1>1 DEF Maps, OwedBy

LEMMA OwedType ==
  ASSUME target \in Targets, NEW held, Holds(held)
  PROVE  Owed(held) \in Seq(Owing)
BY OwedMaps, DumpedAre, GatherType DEF Owed

LEMMA OwedNone ==
  ASSUME target \in Targets, NEW held, Holds(held), \A n \in DOMAIN Interfaces : held[Interfaces[n]] = <<>>
  PROVE  Owed(held) = <<>>
<1>1. \A n \in DOMAIN Interfaces : Interfaces[n] \in Ifaces
  BY DEF Ifaces, ToSet
<1>2. \A n \in DOMAIN Interfaces : OwedBy(held)[Interfaces[n]] = <<>>
  <2> TAKE n \in DOMAIN Interfaces
  <2>1. OwedBy(held)[Interfaces[n]] = Gather(RemotesOf(Interfaces[n]), <<>>)
    BY <1>1 DEF OwedBy
  <2> QED BY <2>1, GatherEmpty, Zenon
<1>3. Interfaces \in Seq(Ifaces)
  BY DumpedAre
<1> QED BY <1>2, <1>3, GatherNone DEF Owed

LEMMA OwedStep ==
  ASSUME target \in Targets, NEW held, Holds(held), NEW k \in DOMAIN Interfaces,
         held[Interfaces[k]] # <<>>, \A n \in DOMAIN Interfaces : n < k => held[Interfaces[n]] = <<>>
  PROVE  LET i == Interfaces[k]
             e == Head(held[i])
             after == [held EXCEPT ![i] = Tail(@)]
         IN  /\ Holds(after) /\ e \in Ends
             /\ Owed(held) = (IF IsRemote(e) THEN << <<i, e>> >> ELSE <<>>) \o Owed(after)
<1> DEFINE i == Interfaces[k]
           a == held[i]
           e == Head(a)
           z == Tail(a)
           after == [held EXCEPT ![i] = z]
           F == OwedBy(held)
           G == OwedBy(after)
           h == IF IsRemote(e) THEN << <<i, e>> >> ELSE <<>>
           R == RemotesOf(i)
<1>0. i \in Ifaces /\ Interfaces \in Seq(Ifaces) /\ \A n \in DOMAIN Interfaces : Interfaces[n] \in Ifaces
  BY DumpedAre DEF Ifaces, ToSet
<1>1. a \in Seq(Ends) /\ a # <<>> /\ e \in Ends /\ z \in Seq(Ends)
  <2>1. a \in Seq(Ends) /\ a # <<>>
    BY <1>0 DEF Holds
  <2> HIDE DEF a
  <2> QED BY <2>1, HeadTailProperties
<1>2. Holds(after)
  <2> HIDE DEF z, i
  <2> QED BY <1>0, <1>1 DEF Holds
<1>3. Maps(R, Ends, Owing) /\ R[e] = h /\ h \in Seq(Owing)
  <2>1. Maps(R, Ends, Owing)
    BY <1>0, RemotesMap
  <2>2. R[e] = h
    <3> HIDE DEF e, i
    <3> QED BY <1>1 DEF RemotesOf
  <2>3. R[e] \in Seq(Owing)
    <3> HIDE DEF R, e
    <3> QED BY <1>1, <2>1, MapsAt
  <2> QED BY <2>1, <2>2, <2>3
<1>4. Gather(R, a) = R[e] \o Gather(R, z)
  <2> HIDE DEF R, a
  <2> QED BY <1>1, <1>3, GatherHead
<1>5. F[i] = Gather(R, a) /\ G[i] = Gather(R, z)
  <2>1. F[i] = Gather(R, a)
    BY <1>0 DEF OwedBy
  <2>2. after[i] = z
    <3> HIDE DEF z, i
    <3> QED BY <1>0 DEF Holds
  <2>3. G[i] = Gather(R, after[i])
    <3> HIDE DEF after
    <3> QED BY <1>0 DEF OwedBy
  <2> QED BY <2>1, <2>2, <2>3, Zenon
<1>6. ASSUME NEW n \in DOMAIN Interfaces
      PROVE  (n < k => F[Interfaces[n]] = <<>>) /\ (n # k => F[Interfaces[n]] = G[Interfaces[n]])
  <2> DEFINE j == Interfaces[n]
  <2>1. j \in Ifaces /\ F[j] = Gather(RemotesOf(j), held[j])
    BY <1>0 DEF OwedBy
  <2>2. G[j] = Gather(RemotesOf(j), after[j])
    <3> HIDE DEF after
    <3> QED BY <1>0 DEF OwedBy
  <2>3. n < k => F[j] = <<>>
    <3> SUFFICES ASSUME n < k PROVE F[j] = <<>>
      OBVIOUS
    <3>1. held[j] = <<>>
      OBVIOUS
    <3>2. Gather(RemotesOf(j), <<>>) = <<>>
      BY GatherEmpty
    <3> QED BY <2>1, <3>1, <3>2, Zenon
  <2>4. n # k => F[j] = G[j]
    <3> SUFFICES ASSUME n # k PROVE F[j] = G[j]
      OBVIOUS
    <3>1. j # i
      BY DumpedAre
    <3>2. after[j] = held[j]
      <4> HIDE DEF i, j, z
      <4> QED BY <2>1, <3>1 DEF Holds
    <3> QED BY <2>1, <2>2, <3>2, Zenon
  <2> QED BY <2>3, <2>4
<1>7. FirstAt(F, G, h, Interfaces, k)
  <2>1. F[Interfaces[k]] = h \o G[Interfaces[k]]
    BY <1>3, <1>4, <1>5, Zenon
  <2> HIDE DEF F, G, h
  <2> QED BY <1>6, <2>1 DEF FirstAt
<1>8. Gather(F, Interfaces) = h \o Gather(G, Interfaces)
  <2>1. Maps(F, Ifaces, Owing) /\ Maps(G, Ifaces, Owing)
    <3> HIDE DEF after
    <3> QED BY <1>2, OwedMaps
  <2> HIDE DEF F, G, h
  <2>2. \A s \in Seq(Ifaces) : \A m : FirstAt(F, G, h, s, m) => Gather(F, s) = h \o Gather(G, s)
    BY <1>3, <2>1, GatherStep
  <2> QED BY <1>0, <1>7, <2>2
<1> QED BY <1>1, <1>2, <1>8 DEF Owed

LEMMA FilledOwes ==
  ASSUME world \in Worlds, NEW i \in Ifaces
  PROVE  Gather(RemotesOf(i), Filled(i)) = IF i \in ToSet(Dumped) THEN Image(PairFn, PeersIn(i)) ELSE <<>>
<1> DEFINE R == RemotesOf(i)
           s == PeersIn(i)
           H == [p \in Peer |-> R[EpFn[p]]]
           G == [p \in Peer |-> <<PairFn[p]>>]
           x == <<Local>>
           y == Image(EpFn, s)
<1>1. s \in Seq(Peer) /\ \A n \in DOMAIN s : s[n] \in Peer /\ s[n].iface = i
  <2>1. s \in Seq(Peer) /\ s \in Seq(Of(i))
    BY PeersInAre
  <2> HIDE DEF s
  <2>2. \A n \in DOMAIN s : s[n] \in Of(i)
    BY <2>1, ElementOfSeq, LenProperties
  <2> QED BY <2>1, <2>2 DEF Of
<1>2. Maps(R, Ends, Owing) /\ Local \in Ends /\ Takes(EpFn, Peer, Ends) /\ Takes(PairFn, Peer, Owing)
  <2>1. \A p \in Peer : <<p.iface, EpOf(p)>> \in Owing
    BY DEF Owing, Ends, Peer, Ifaces
  <2> QED BY <2>1, RemotesMap, LinesAre DEF Ends, Takes, PairFn
<1>3. R[Local] = <<>>
  BY <1>2, InterfaceParsed DEF RemotesOf
<1>4. \A n \in DOMAIN s : H[s[n]] = G[s[n]]
  <2> TAKE n \in DOMAIN s
  <2> DEFINE p == s[n]
             e == EpOf(p)
  <2>1. p \in Peer /\ p.iface = i
    BY <1>1
  <2>2. IsRemote(e)
    BY <2>1, PeerParsed
  <2>3. EpFn[p] = e /\ e \in Ends /\ PairFn[p] = <<i, e>>
    BY <2>1 DEF EpFn, Ends, PairFn
  <2>4. R[e] = << <<i, e>> >>
    <3> HIDE DEF e
    <3> QED BY <2>2, <2>3 DEF RemotesOf
  <2> HIDE DEF p, R, e
  <2>5. H[p] = G[p]
    BY <2>1, <2>3, <2>4
  <2> QED BY <2>5 DEF p
<1> HIDE DEF R, s
<1>5. Gather(R, y) = Image(PairFn, s)
  <2>1. Gather(R, y) = Gather(H, s)
    BY <1>1, GatherImage
  <2>2. G = [p \in Peer |-> <<PairFn[p]>>]
    OBVIOUS
  <2> HIDE DEF H, G
  <2>3. Gather(H, s) = Gather(G, s)
    BY <1>4, GatherSame
  <2>4. Gather(G, s) = Image(PairFn, s)
    BY <1>1, <1>2, <2>2, ImageGathers
  <2> QED BY <2>1, <2>3, <2>4, Zenon
<1>6. x \in Seq(Ends) /\ y \in Seq(Ends)
  BY <1>1, <1>2, ImageType, Tuples
<1>7. Gather(R, x) = R[Local]
  BY <1>2, GatherOne
<1>8. Image(PairFn, s) \in Seq(Owing)
  BY <1>1, <1>2, ImageType
<1> HIDE DEF x, y
<1>9. Gather(R, x \o y) = Gather(R, x) \o Gather(R, y)
  BY <1>2, <1>6, GatherConcat
<1> DEFINE w == Image(PairFn, s)
<1> HIDE DEF w
<1>10. <<>> \o w = w
  BY <1>8, ConcatEmptySeq DEF w
<1>11. Gather(R, x \o y) = w
  BY <1>3, <1>5, <1>7, <1>9, <1>10, Zenon DEF w
<1>12. CASE i \in ToSet(Dumped)
  BY <1>11, <1>12, Zenon DEF Filled, x, y, w, R, s
<1>13. CASE i \notin ToSet(Dumped)
  BY <1>13, GatherEmpty, Zenon DEF Filled
<1> QED BY <1>12, <1>13

LEMMA PeersPairs ==
  ASSUME world \in Worlds, target \in Targets
  PROVE  /\ Peers \in Seq(Peer) /\ Image(PairFn, Peers) \in Seq(Owing)
         /\ Image(PairFn, Peers) = FlattenSeq([n \in DOMAIN Dumped |-> Image(PairFn, PeersIn(Dumped[n]))])
<1> DEFINE D == [i \in Ifaces |-> PeersIn(i)]
           ss == Image(D, Dumped)
           Q == Seq(Peer)
<1>1. Dumped \in Seq(Ifaces) /\ \A n \in DOMAIN Dumped : Dumped[n] \in Ifaces
  <2>1. Dumped \in Seq(Ifaces)
    BY DumpedAre
  <2> QED BY <2>1, ElementOfSeq, LenProperties
<1>2. Takes(D, Ifaces, Q)
  <2>1. \A i \in Ifaces : PeersIn(i) \in Q
    BY PeersInAre
  <2> QED BY <2>1 DEF Takes
<1>3. ss = [n \in DOMAIN Dumped |-> PeersIn(Dumped[n])]
  BY <1>1 DEF Image
<1>4. ss \in Seq(Q)
  <2> HIDE DEF D, Q
  <2> QED BY <1>1, <1>2, ImageType
<1>5. Peers = FlattenSeq(ss)
  BY <1>3, Zenon DEF Peers
<1>6. \A n \in DOMAIN Dumped : ss[n] = PeersIn(Dumped[n])
  BY <1>3
<1>7. DOMAIN ss = DOMAIN Dumped
  BY DEF Image
<1> HIDE DEF ss
<1>8. Peers \in Seq(Peer)
  BY <1>4, <1>5, FlattenType
<1>9. Takes(PairFn, Peer, Owing)
  <2>1. \A p \in Peer : <<p.iface, EpOf(p)>> \in Owing
    BY DEF Owing, Ends, Peer, Ifaces
  <2> QED BY <2>1 DEF Takes, PairFn
<1>10. Image(PairFn, FlattenSeq(ss)) = FlattenSeq([n \in DOMAIN ss |-> Image(PairFn, ss[n])])
  BY <1>4, <1>9, ImageFlatten
<1>11. [n \in DOMAIN ss |-> Image(PairFn, ss[n])] = [n \in DOMAIN Dumped |-> Image(PairFn, PeersIn(Dumped[n]))]
  BY <1>6, <1>7
<1>12. Image(PairFn, Peers) \in Seq(Owing)
  <2> DEFINE w == Peers
  <2>1. w \in Seq(Peer)
    BY <1>8
  <2> HIDE DEF w
  <2>2. Image(PairFn, w) \in Seq(Owing)
    BY <1>9, <2>1, ImageType
  <2> QED BY <2>2 DEF w
<1> QED BY <1>5, <1>8, <1>10, <1>11, <1>12, Zenon

(* When all lines are parsed, every peer of the dump is to be rendered.    *)
LEMMA OwedAll ==
  ASSUME world \in Worlds, target \in Targets, NEW held, \A i \in Ifaces : held[i] = Filled(i)
  PROVE  Owed(held) = Image(PairFn, Peers)
<1> DEFINE F == OwedBy(held)
           I(i) == Image(PairFn, PeersIn(i))
<1>1. \A i \in Ifaces : F[i] = IF i \in ToSet(Dumped) THEN I(i) ELSE <<>>
  <2> TAKE i \in Ifaces
  <2>1. F[i] = Gather(RemotesOf(i), Filled(i))
    BY DEF OwedBy
  <2> QED BY <2>1, FilledOwes
<1>2. \A n \in DOMAIN Dumped : Dumped[n] \in Ifaces /\ Dumped[n] \in ToSet(Dumped)
  <2>1. Dumped \in Seq(Ifaces)
    BY DumpedAre
  <2>2. \A n \in DOMAIN Dumped : Dumped[n] \in Ifaces
    BY <2>1, ElementOfSeq, LenProperties
  <2> QED BY <2>2 DEF ToSet
<1>3. [n \in DOMAIN Dumped |-> F[Dumped[n]]] = [n \in DOMAIN Dumped |-> I(Dumped[n])]
  <2> HIDE DEF F, I
  <2> QED BY <1>1, <1>2
<1>4. Gather(F, Dumped) = Image(PairFn, Peers)
  BY <1>3, PeersPairs, Zenon DEF Gather
<1>5. CASE target = "all"
  <2>1. Dumped = Interfaces
    BY <1>5 DEF Dumped
  <2> QED BY <1>4, <2>1 DEF Owed
<1>6. CASE target # "all"
  <2>1. Dumped = <<target>> /\ target \in Ifaces
    BY <1>6, NamesDiffer DEF Dumped, Ifaces
  <2>2. ToSet(Dumped) = {target}
    BY <2>1 DEF ToSet
  <2>3. Maps(F, Ifaces, Owing)
    <3>1. \A i \in Ifaces : I(i) \in Seq(Owing)
      <4> TAKE i \in Ifaces
      <4> DEFINE w == PeersIn(i)
      <4>1. w \in Seq(Peer)
        BY PeersInAre
      <4>2. Takes(PairFn, Peer, Owing)
        <5>1. \A p \in Peer : <<p.iface, EpOf(p)>> \in Owing
          BY DEF Owing, Ends, Peer, Ifaces
        <5> QED BY <5>1 DEF Takes, PairFn
      <4> HIDE DEF w
      <4>3. Image(PairFn, w) \in Seq(Owing)
        BY <4>1, <4>2, ImageType
      <4> QED BY <4>3 DEF w
    <3>2. <<>> \in Seq(Owing)
      BY Nothing
    <3>3. F = [i \in Ifaces |-> F[i]]
      BY DEF OwedBy
    <3> HIDE DEF F, I
    <3>4. \A i \in Ifaces : F[i] \in Seq(Owing)
      BY <1>1, <3>1, <3>2
    <3> QED BY <3>3, <3>4 DEF Maps
  <2>4. \A i \in Ifaces : i # target => F[i] = <<>>
    BY <1>1, <2>2
  <2>5. Interfaces \in Seq(Ifaces) /\ \A m, n \in DOMAIN Interfaces : Interfaces[m] = Interfaces[n] => m = n
    BY DumpedAre
  <2>6. \E n \in DOMAIN Interfaces : Interfaces[n] = target
    BY <2>1 DEF Ifaces, ToSet
  <2> HIDE DEF F
  <2>7. Gather(F, Interfaces) = F[target]
    <3>1. Gather(F, Interfaces) = IF \E n \in DOMAIN Interfaces : Interfaces[n] = target THEN F[target] ELSE <<>>
      BY <2>3, <2>4, <2>5, GatherOnly
    <3> QED BY <2>6, <3>1
  <2>8. Gather(F, <<target>>) = F[target]
    BY <2>1, <2>3, GatherOne
  <2>9. Gather(F, Interfaces) = Image(PairFn, Peers)
    BY <1>4, <2>1, <2>7, <2>8, Zenon
  <2> QED BY <2>9 DEF Owed, F
<1> QED BY <1>5, <1>6

(***************************************************************************)
(* The families while peers are rendered.                                  *)
(***************************************************************************)
KindOf(f) == IF f \in {"sent", "received"} THEN "Counter" ELSE "Gauge"
HelpOf(f) == CASE f = "sent" -> "Bytes sent to the peer" [] f = "received" -> "Bytes received from the peer"
               [] f = "handshake" -> "UNIX timestamp seconds of the last handshake"
               [] f = "delay" -> "Seconds from the last handshake"
PairRow(f) == [x \in Owing |->
  <<FullName[f]>> \o RenderInstance(Labels(x[1], x[2], Keep(world.table[x[2].public_key]), options), Value(x[2], f))
  \o <<NewLine>>]
Rendered(f, done) == [counter_name |-> FullName[f], counter_type |-> KindOf(f), counter_help |-> HelpOf(f),
                      rendered_instances |-> Image(PairRow(f), done)]
MetricsAt(done) == [f \in ToSet(Exported) |-> Rendered(f, done)]

LEMMA ThreeOfFour ==
  ASSUME NEW a, NEW b, NEW c, NEW d
  PROVE  SubSeq(<<a, b, c, d>>, 1, 3) = <<a, b, c>>
<1> DEFINE T == {a, b, c, d}
           t == <<a, b, c, d>>
           u == SubSeq(t, 1, 3)
           v == <<a, b, c>>
<1>1. t \in Seq(T) /\ Len(t) = 4 /\ t[1] = a /\ t[2] = b /\ t[3] = c
  OBVIOUS
<1>2. v \in Seq(T) /\ Len(v) = 3 /\ v[1] = a /\ v[2] = b /\ v[3] = c
  OBVIOUS
<1> HIDE DEF t
<1>3. u = [n \in 1 .. 3 |-> t[n]]
  BY <1>1
<1> HIDE DEF u, v, T
<1>4. v = [n \in 1 .. 3 |-> v[n]]
  BY <1>2 DEF v
<1>5. \A n \in 1 .. 3 : t[n] = v[n]
  <2> TAKE n \in 1 .. 3
  <2>1. n = 1 \/ n = 2 \/ n = 3
    OBVIOUS
  <2> QED BY <1>1, <1>2, <2>1
<1>6. u = v
  BY <1>3, <1>4, <1>5
<1> QED BY <1>6 DEF u, v, t

LEMMA ExportedAre ==
  /\ options.delay => Exported = <<"sent", "received", "handshake", "delay">>
  /\ ~options.delay => Exported = <<"sent", "received", "handshake">>
BY ThreeOfFour, Zenon DEF Exported, Families

LEMMA ExportedSet ==
  /\ options.delay => ToSet(Exported) = {"sent", "received", "handshake", "delay"}
  /\ ~options.delay => ToSet(Exported) = {"sent", "received", "handshake"}
<1>1. \A a, b, c, d : ToSet(<<a, b, c, d>>) = {a, b, c, d} /\ ToSet(<<a, b, c>>) = {a, b, c}
  <2> TAKE a, b, c, d
  <2>1. \A n \in 1 .. 4 : n = 1 \/ n = 2 \/ n = 3 \/ n = 4
    OBVIOUS
  <2>2. \A n \in 1 .. 3 : n = 1 \/ n = 2 \/ n = 3
    OBVIOUS
  <2>3. ToSet(<<a, b, c, d>>) = {a, b, c, d}
    BY <2>1 DEF ToSet
  <2>4. ToSet(<<a, b, c>>) = {a, b, c}
    BY <2>2 DEF ToSet
  <2> QED BY <2>3, <2>4
<1>2. CASE options.delay
  BY <1>1, <1>2, ExportedAre
<1>3. CASE ~options.delay
  BY <1>1, <1>3, ExportedAre
<1> QED BY <1>2, <1>3

LEMMA MetricIs ==
  ASSUME NEW n, NEW t, NEW h
  PROVE  Metric(n, t, h) = [counter_name |-> n, counter_type |-> t, counter_help |-> h, rendered_instances |-> <<>>]
BY DEF Metric, Build, WithHelp, WithMetricType, WithName, NewBuilder

LEMMA MetricsBegin == NewMetrics(options) = MetricsAt(<<>>)
<1> DEFINE a == Metric("wireguard_sent_bytes_total", "Counter", "Bytes sent to the peer")
           b == Metric("wireguard_received_bytes_total", "Counter", "Bytes received from the peer")
           c == Metric("wireguard_latest_handshake_seconds", "Gauge", "UNIX timestamp seconds of the last handshake")
           d == Metric("wireguard_latest_handshake_delay_seconds", "Gauge", "Seconds from the last handshake")
<1>1. \A f : Image(PairRow(f), <<>>) = <<>>
  BY ImageNothing
<1>2. /\ a = Rendered("sent", <<>>) /\ b = Rendered("received", <<>>)
      /\ c = Rendered("handshake", <<>>) /\ d = Rendered("delay", <<>>)
  BY <1>1, MetricIs, Zenon DEF Rendered, FullName, KindOf, HelpOf
<1>3. NewMetrics(options) = IF options.delay
        THEN [sent |-> a, received |-> b, handshake |-> c, delay |-> d] ELSE [sent |-> a, received |-> b, handshake |-> c]
  BY DEF NewMetrics
<1> HIDE DEF a, b, c, d
<1>4. CASE options.delay
  <2>1. MetricsAt(<<>>) = [f \in {"sent", "received", "handshake", "delay"} |-> Rendered(f, <<>>)]
    BY <1>4, ExportedSet DEF MetricsAt
  <2> QED BY <1>2, <1>3, <1>4, <2>1
<1>5. CASE ~options.delay
  <2>1. MetricsAt(<<>>) = [f \in {"sent", "received", "handshake"} |-> Rendered(f, <<>>)]
    BY <1>5, ExportedSet DEF MetricsAt
  <2> QED BY <1>2, <1>3, <1>5, <2>1
<1> QED BY <1>4, <1>5

LEMMA MetricsGrow ==
  ASSUME NEW done \in Seq(Owing), NEW x \in Owing
  PROVE  [f \in DOMAIN MetricsAt(done) |->
            RenderAndAppendInstance(MetricsAt(done)[f],
              Labels(x[1], x[2], Keep(world.table[x[2].public_key]), options), Value(x[2], f))]
           = MetricsAt(Append(done, x))
<1> DEFINE Row(f) == <<FullName[f]>> \o RenderInstance(Labels(x[1], x[2], Keep(world.table[x[2].public_key]), options),
                                                       Value(x[2], f)) \o <<NewLine>>
           L == Labels(x[1], x[2], Keep(world.table[x[2].public_key]), options)
<1>1. \A f : PairRow(f)[x] = Row(f)
  BY DEF PairRow
<1>2. \A f : Image(PairRow(f), Append(done, x)) = Append(Image(PairRow(f), done), Row(f))
  <2> TAKE f
  <2> DEFINE g == PairRow(f)
             T == {g[y] : y \in Owing}
  <2>1. Takes(g, Owing, T)
    BY DEF Takes, PairRow
  <2> HIDE DEF g, T
  <2>2. Image(g, Append(done, x)) = Append(Image(g, done), g[x])
    BY <2>1, ImageAppend
  <2> QED BY <1>1, <2>2 DEF g
<1>3. \A f : RenderAndAppendInstance(Rendered(f, done), L, Value(x[2], f)) = Rendered(f, Append(done, x))
  <2> TAKE f
  <2> DEFINE m == Rendered(f, done)
             u == Append(m.rendered_instances, <<m.counter_name>> \o RenderInstance(L, Value(x[2], f)) \o <<NewLine>>)
  <2>1. RenderAndAppendInstance(m, L, Value(x[2], f)) = [m EXCEPT !.rendered_instances = u]
    BY Zenon DEF RenderAndAppendInstance
  <2>2. m.counter_name = FullName[f] /\ m.rendered_instances = Image(PairRow(f), done)
    BY DEF Rendered
  <2>3. u = Image(PairRow(f), Append(done, x))
    BY <1>2, <2>2
  <2> HIDE DEF u
  <2>4. [m EXCEPT !.rendered_instances = u] = Rendered(f, Append(done, x))
    BY <2>3 DEF Rendered
  <2> QED BY <2>1, <2>4
<1>4. DOMAIN MetricsAt(done) = ToSet(Exported) /\ \A f \in ToSet(Exported) : MetricsAt(done)[f] = Rendered(f, done)
  BY DEF MetricsAt
<1> HIDE DEF L
<1>5. [f \in DOMAIN MetricsAt(done) |-> RenderAndAppendInstance(MetricsAt(done)[f], L, Value(x[2], f))]
        = [f \in ToSet(Exported) |-> Rendered(f, Append(done, x))]
  BY <1>3, <1>4
<1> QED BY <1>5 DEF MetricsAt, L

(***************************************************************************)
(* The steps of the pipeline.                                              *)
(***************************************************************************)
Chosen == options \in OptionSet /\ world \in Worlds /\ target \in Targets
Parsing == /\ lines \in Seq(Lines)
           /\ \A i \in Ifaces : interfaces[i] \o Gather(EndsOf(i), lines) = Filled(i)
Rendering == \E done \in Seq(Owing) :
  /\ Image(PairFn, Peers) = done \o Owed(interfaces)
  /\ metrics = MetricsAt(done)
  /\ \A n \in DOMAIN done : ~RenderPanics(done[n][2])
SomeUnprintable == \E n \in DOMAIN Peers : Unprintable(Peers[n])
PipeInv ==
  /\ Chosen
  /\ pc \in {"dump", "parse", "render", "panic", "sent", "read"}
  /\ Holds(interfaces)
  /\ pc = "dump" => interfaces = [i \in Ifaces |-> <<>>]
  /\ pc = "parse" => Parsing
  /\ pc = "render" => Rendering
  /\ pc = "panic" => SomeUnprintable
  /\ pc \in {"sent", "read"} => metrics = MetricsAt(Image(PairFn, Peers)) /\ ~SomeUnprintable

LEMMA Frame ==
  ASSUME UNCHANGED fixed
  PROVE  /\ Chosen' = Chosen /\ Peers' = Peers /\ SomeUnprintable' = SomeUnprintable
         /\ \A i : Filled(i)' = Filled(i)
         /\ \A done : MetricsAt(done)' = MetricsAt(done)
         /\ \A ep : RenderPanics(ep)' = RenderPanics(ep)
<1>1. options' = options /\ world' = world /\ target' = target
  BY DEF fixed
<1>2. Dumped' = Dumped /\ \A i : PeersIn(i)' = PeersIn(i)
  BY <1>1 DEF Dumped, PeersIn, Filter
<1>3. Peers' = Peers
  BY <1>2 DEF Peers
<1>4. \A i : Filled(i)' = Filled(i)
  BY <1>2 DEF Filled
<1>5. \A done : MetricsAt(done)' = MetricsAt(done)
  <2>1. Exported' = Exported
    BY <1>1 DEF Exported
  <2>2. \A f : PairRow(f)' = PairRow(f)
    BY <1>1 DEF PairRow
  <2>3. \A f, done : Rendered(f, done)' = Rendered(f, done)
    BY <2>2 DEF Rendered
  <2> QED BY <2>1, <2>3 DEF MetricsAt
<1>6. SomeUnprintable' = SomeUnprintable /\ Chosen' = Chosen
  <2>1. \A p : Unprintable(p)' = Unprintable(p)
    BY <1>1 DEF Unprintable, Desc
  <2> QED BY <1>1, <1>3, <2>1 DEF SomeUnprintable, Chosen
<1>7. \A ep : RenderPanics(ep)' = RenderPanics(ep)
  BY <1>1 DEF RenderPanics
<1> QED BY <1>3, <1>4, <1>5, <1>6, <1>7

LEMMA DumpParses ==
  ASSUME Chosen, NEW L, L = Inject(target, FlattenSeq([n \in DOMAIN Dumped |-> PrintDevice(target, Dumped[n], world.peers)]))
  PROVE  L \in Seq(Lines) /\ \A i \in Ifaces : <<>> \o Gather(EndsOf(i), L) = Filled(i)
<1>1. L = Gather(DeviceLines, Dumped)
  BY DumpsLines DEF Chosen
<1>2. \A i \in Ifaces : L \in Seq(Lines) /\ Gather(EndsOf(i), L) = Filled(i)
  BY <1>1, DumpFills DEF Chosen
<1>3. L \in Seq(Lines)
  BY <1>1, DeviceLinesMap, DumpedAre, GatherType DEF Chosen
<1>4. \A i \in Ifaces : <<>> \o Gather(EndsOf(i), L) = Gather(EndsOf(i), L)
  <2> TAKE i \in Ifaces
  <2> DEFINE g == Gather(EndsOf(i), L)
  <2>1. Maps(EndsOf(i), Lines, Ends)
    BY LinesAre
  <2>2. g \in Seq(Ends)
    BY <1>3, <2>1, GatherType
  <2> HIDE DEF g
  <2>3. <<>> \o g = g
    BY <2>2, ConcatEmptySeq, SMTT(30)
  <2> QED BY <2>3 DEF g
<1> QED BY <1>2, <1>3, <1>4

LEMMA LineParses ==
  ASSUME Holds(interfaces), Parsing, lines # <<>>
  PROVE  LET v == Columns(Head(lines))
             after == [interfaces EXCEPT ![v[1][1]] = Append(@, Endpoint(v))]
         IN  /\ ~Panics(v) /\ Tail(lines) \in Seq(Lines) /\ Holds(after)
             /\ \A i \in Ifaces : after[i] \o Gather(EndsOf(i), Tail(lines)) = Filled(i)
<1> DEFINE l == Head(lines)
           j == l[1][1]
           e == Endpoint(l)
           after == [interfaces EXCEPT ![j] = Append(@, e)]
<1>1. l \in Lines /\ Tail(lines) \in Seq(Lines)
  BY HeadTailProperties DEF Parsing
<1>2. Columns(l) = l /\ ~Panics(l) /\ j \in Ifaces /\ e \in Ends
  BY <1>1, LinesAre
<1>3. \A i \in Ifaces : after[i] = IF j = i THEN Append(interfaces[i], e) ELSE interfaces[i]
  <2> HIDE DEF j, e
  <2> QED BY <1>2 DEF Holds
<1>4. Holds(after)
  <2>1. \A a \in Seq(Ends) : Append(a, e) \in Seq(Ends)
    <3> HIDE DEF e
    <3> QED BY <1>2, AppendProperties
  <2> HIDE DEF j, e
  <2> QED BY <1>2, <2>1 DEF Holds
<1>5. \A i \in Ifaces : after[i] \o Gather(EndsOf(i), Tail(lines)) = Filled(i)
  <2> TAKE i \in Ifaces
  <2> DEFINE a == interfaces[i]
  <2>1. a \in Seq(Ends) /\ lines \in Seq(Lines) /\ a \o Gather(EndsOf(i), lines) = Filled(i)
    BY DEF Holds, Parsing
  <2> HIDE DEF a
  <2>2. (IF j = i THEN Append(a, e) ELSE a) \o Gather(EndsOf(i), Tail(lines)) = a \o Gather(EndsOf(i), lines)
    BY <2>1, ParseKeeps
  <2>3. after[i] = IF j = i THEN Append(a, e) ELSE a
    BY <1>3 DEF a
  <2> DEFINE z == after[i]
  <2> HIDE DEF after, z, j, e
  <2>4. z \o Gather(EndsOf(i), Tail(lines)) = a \o Gather(EndsOf(i), lines)
    <3> DEFINE y == IF j = i THEN Append(a, e) ELSE a
    <3>1. z = y /\ y \o Gather(EndsOf(i), Tail(lines)) = a \o Gather(EndsOf(i), lines)
      BY <2>2, <2>3 DEF z
    <3> HIDE DEF y
    <3> QED BY <3>1, Zenon
  <2> QED BY <2>1, <2>4, Zenon DEF z
<1> HIDE DEF l, after
<1>6. Columns(Head(lines)) = l
  BY <1>2 DEF l
<1> QED BY <1>1, <1>2, <1>4, <1>5, <1>6 DEF after

LEMMA ParsedOwes ==
  ASSUME Chosen, Holds(interfaces), Parsing, lines = <<>>
  PROVE  Owed(interfaces) = Image(PairFn, Peers)
<1>1. \A i \in Ifaces : interfaces[i] = Filled(i)
  <2> TAKE i \in Ifaces
  <2> DEFINE a == interfaces[i]
  <2>1. a \in Seq(Ends) /\ a \o Gather(EndsOf(i), <<>>) = Filled(i)
    BY DEF Holds, Parsing
  <2> HIDE DEF a
  <2>2. a \o <<>> = a /\ Gather(EndsOf(i), <<>>) = <<>>
    BY <2>1, ConcatEmptySeq, GatherEmpty
  <2>3. a = Filled(i)
    BY <2>1, <2>2, Zenon
  <2> QED BY <2>3 DEF a
<1> QED BY <1>1, OwedAll DEF Chosen

LEMMA PendingFirst ==
  ASSUME Pending # {}
  PROVE  /\ Min(Pending) \in DOMAIN Interfaces /\ interfaces[Interfaces[Min(Pending)]] # <<>>
         /\ \A n \in DOMAIN Interfaces : n < Min(Pending) => interfaces[Interfaces[n]] = <<>>
<1> DEFINE S == Pending
           k == Min(S)
<1>1. S \in SUBSET Nat /\ DOMAIN Interfaces \subseteq Nat
  <2>1. DOMAIN Interfaces = 1 .. Len(Interfaces)
    BY NamesDiffer, LenProperties
  <2> QED BY <2>1 DEF Pending
<1>2. \E x \in S : \A y \in S : x <= y
  <2> HIDE DEF S
  <2> QED BY <1>1, Least DEF S
<1>3. k \in S /\ \A y \in S : k <= y
  <2> HIDE DEF S
  <2> QED BY <1>2 DEF Min
<1> HIDE DEF k
<1>4. \A n \in DOMAIN Interfaces : n < k => n \notin S
  <2> HIDE DEF S
  <2> QED BY <1>1, <1>3
<1>5. k \in DOMAIN Interfaces /\ interfaces[Interfaces[k]] # <<>>
  BY <1>3 DEF Pending
<1>6. \A n \in DOMAIN Interfaces : n < k => interfaces[Interfaces[n]] = <<>>
  BY <1>4 DEF Pending
<1> QED BY <1>5, <1>6 DEF k

LEMMA PanicsAre ==
  ASSUME NEW p \in Peer
  PROVE  RenderPanics(EpOf(p)) <=> Unprintable(p)
<1>1. p.allowed \in Seq(Net)
  BY DEF Peer, Net
<1>2. NoSubnet(EpOf(p).allowed_ips) <=> p.allowed = <<>>
  BY <1>1, NoSubnetMeansNone DEF EpOf
<1>3. EpOf(p).public_key = p.key /\ EpOf(p).latest_handshake = p.hs
  BY DEF EpOf
<1>4. p.hs \in Nat /\ Now \in Nat
  BY NumbersDiffer DEF Peer
<1>5. Now < EpOf(p).latest_handshake <=> p.hs > Now
  BY <1>3, <1>4
<1> QED BY <1>2, <1>3, <1>5 DEF RenderPanics, Unprintable, NoJsonText, Desc

LEMMA PeerOwed ==
  ASSUME Chosen, NEW done \in Seq(Owing), NEW x \in Owing, NEW rest \in Seq(Owing),
         Image(PairFn, Peers) = done \o (<<x>> \o rest)
  PROVE  /\ Image(PairFn, Peers) = Append(done, x) \o rest
         /\ RenderPanics(x[2]) => SomeUnprintable
<1> DEFINE a == Append(done, x)
           o == <<x>>
           P == Peers
           all == Image(PairFn, P)
<1>1. o \in Seq(Owing) /\ a = done \o o
  BY Tuples, AppendIsConcat
<1>2. (done \o o) \o rest = done \o (o \o rest)
  <2> HIDE DEF o
  <2> QED BY <1>1, ConcatAssociative, SMTT(60)
<1>3. all = a \o rest
  <2> HIDE DEF o, a, all
  <2> QED BY <1>1, <1>2 DEF o, all
<1>4. PICK k \in Nat : /\ a \in Seq(Owing) /\ DOMAIN a = 1 .. k + 1 /\ a[k + 1] = x /\ k + 1 \in 1 .. k + 1
  <2> HIDE DEF a
  <2> QED BY AppendAt DEF a
<1> HIDE DEF a, o
<1>5. Len(a) = k + 1
  BY <1>4, LenProperties
<1>6. k + 1 \in DOMAIN (a \o rest) /\ (a \o rest)[k + 1] = x
  BY <1>4, <1>5, ConcatProperties, LenProperties
<1>7. k + 1 \in DOMAIN P /\ PairFn[P[k + 1]] = x
  <2> HIDE DEF P
  <2> QED BY <1>3, <1>6 DEF Image
<1>8. P[k + 1] \in Peer
  <2>1. P \in Seq(Peer)
    BY PeersPairs DEF Chosen
  <2> HIDE DEF P
  <2> QED BY <1>7, <2>1, ElementOfSeq, LenProperties
<1> DEFINE p == P[k + 1]
<1>9. x[2] = EpOf(p) /\ p \in Peer
  <2>1. p \in Peer /\ PairFn[p] = x
    BY <1>7, <1>8
  <2> HIDE DEF p
  <2>2. x = <<p.iface, EpOf(p)>>
    BY <2>1 DEF PairFn
  <2> QED BY <2>1, <2>2
<1>10. RenderPanics(x[2]) => Unprintable(p)
  BY <1>9, PanicsAre
<1>11. RenderPanics(x[2]) => SomeUnprintable
  BY <1>7, <1>10, Zenon DEF SomeUnprintable
<1> QED BY <1>3, <1>11 DEF a

LEMMA RenderSteps ==
  ASSUME Chosen, Holds(interfaces), Rendering, Pending # {}
  PROVE  LET i == Interfaces[Min(Pending)]
             ep == Head(interfaces[i])
             after == [interfaces EXCEPT ![i] = Tail(@)]
         IN  /\ Holds(after)
             /\ ~IsRemote(ep) => \E done \in Seq(Owing) :
                  /\ Image(PairFn, Peers) = done \o Owed(after) /\ metrics = MetricsAt(done)
                  /\ \A n \in DOMAIN done : ~RenderPanics(done[n][2])
             /\ IsRemote(ep) /\ RenderPanics(ep) => SomeUnprintable
             /\ IsRemote(ep) /\ ~RenderPanics(ep) => \E done \in Seq(Owing) :
                  /\ Image(PairFn, Peers) = done \o Owed(after)
                  /\ [f \in DOMAIN metrics |-> RenderAndAppendInstance(metrics[f],
                        Labels(i, ep, Keep(world.table[ep.public_key]), options), Value(ep, f))] = MetricsAt(done)
                  /\ \A n \in DOMAIN done : ~RenderPanics(done[n][2])
<1> DEFINE k == Min(Pending)
           i == Interfaces[k]
           ep == Head(interfaces[i])
           after == [interfaces EXCEPT ![i] = Tail(@)]
           x == <<i, ep>>
           o == <<x>>
           w == Owed(interfaces)
           rest == Owed(after)
           all == Image(PairFn, Peers)
           Clear(done) == \A n \in DOMAIN done : ~RenderPanics(done[n][2])
<1>1. /\ k \in DOMAIN Interfaces /\ interfaces[Interfaces[k]] # <<>>
      /\ \A n \in DOMAIN Interfaces : n < k => interfaces[Interfaces[n]] = <<>>
  BY PendingFirst
<1>2. target \in Targets /\ i \in Ifaces
  <2>1. target \in Targets
    BY DEF Chosen
  <2> HIDE DEF k
  <2> QED BY <1>1, <2>1 DEF Ifaces, ToSet
<1>3. Holds(after) /\ ep \in Ends /\ w = (IF IsRemote(ep) THEN o ELSE <<>>) \o rest
  <2> HIDE DEF k
  <2> QED BY <1>1, <1>2, OwedStep
<1> HIDE DEF k, i, after
<1>4. rest \in Seq(Owing)
  BY <1>2, <1>3, OwedType
<1>5. PICK done \in Seq(Owing) : all = done \o w /\ metrics = MetricsAt(done) /\ Clear(done)
  BY DEF Rendering
<1> HIDE DEF w, rest, all, Clear
<1>6. ~IsRemote(ep) => all = done \o rest
  <2> SUFFICES ASSUME ~IsRemote(ep) PROVE all = done \o rest
    OBVIOUS
  <2>1. w = <<>> \o rest
    BY <1>3
  <2>2. <<>> \o rest = rest
    BY <1>4, ConcatEmptySeq
  <2> QED BY <1>5, <2>1, <2>2, Zenon
<1>7. x \in Owing
  <2> HIDE DEF ep
  <2> QED BY <1>2, <1>3 DEF Owing
<1> HIDE DEF x
<1>8. IsRemote(ep) => /\ all = Append(done, x) \o rest
                      /\ RenderPanics(x[2]) => SomeUnprintable
  <2> SUFFICES ASSUME IsRemote(ep)
               PROVE  /\ all = Append(done, x) \o rest
                      /\ RenderPanics(x[2]) => SomeUnprintable
    OBVIOUS
  <2>1. w = o \o rest
    BY <1>3
  <2>2. all = done \o (o \o rest)
    BY <1>5, <2>1
  <2> QED BY <1>4, <1>7, <2>2, PeerOwed DEF all
<1>9. x[1] = i /\ x[2] = ep
  BY DEF x
<1>10. IsRemote(ep) /\ RenderPanics(ep) => SomeUnprintable
  BY <1>8, <1>9
<1> DEFINE u == Append(done, x)
           next == [f \in DOMAIN metrics |-> RenderAndAppendInstance(metrics[f],
                        Labels(i, ep, Keep(world.table[ep.public_key]), options), Value(ep, f))]
<1>11. u \in Seq(Owing)
  BY <1>7, AppendProperties
<1>12. next = MetricsAt(u)
  <2>1. [f \in DOMAIN MetricsAt(done) |->
            RenderAndAppendInstance(MetricsAt(done)[f],
              Labels(x[1], x[2], Keep(world.table[x[2].public_key]), options), Value(x[2], f))]
           = MetricsAt(Append(done, x))
    BY <1>7, MetricsGrow
  <2> HIDE DEF ep
  <2> QED BY <1>5, <1>9, <2>1
<1>13. ~RenderPanics(ep) => Clear(u)
  <2> SUFFICES ASSUME ~RenderPanics(ep)
               PROVE  \A n \in DOMAIN u : ~RenderPanics(u[n][2])
    BY DEF Clear
  <2>1. PICK m \in Nat : /\ DOMAIN done = 1 .. m /\ DOMAIN u = 1 .. m + 1 /\ u[m + 1] = x /\ (\A n \in 1 .. m : u[n] = done[n])
                         /\ (\A n \in 1 .. m + 1 : n \in 1 .. m \/ n = m + 1)
    BY <1>7, AppendAt
  <2>2. \A n \in DOMAIN done : ~RenderPanics(done[n][2])
    BY <1>5 DEF Clear
  <2> HIDE DEF u, ep
  <2> TAKE n \in DOMAIN u
  <2>3. CASE n = m + 1
    BY <1>9, <2>1, <2>3
  <2>4. CASE n \in 1 .. m
    BY <2>1, <2>2, <2>4
  <2> QED BY <2>1, <2>3, <2>4
<1> HIDE DEF u, next, ep
<1>14. ~IsRemote(ep) => \E d \in Seq(Owing) : all = d \o rest /\ metrics = MetricsAt(d) /\ Clear(d)
  BY <1>5, <1>6
<1>15. IsRemote(ep) /\ ~RenderPanics(ep) =>
         \E d \in Seq(Owing) : all = d \o rest /\ next = MetricsAt(d) /\ Clear(d)
  BY <1>8, <1>11, <1>12, <1>13 DEF u
<1> QED BY <1>3, <1>10, <1>14, <1>15 DEF all, rest, Clear, next, after, ep, i, k

LEMMA AllRendered ==
  ASSUME Chosen, Holds(interfaces), Rendering, Pending = {}
  PROVE  metrics = MetricsAt(Image(PairFn, Peers)) /\ ~SomeUnprintable
<1> DEFINE w == Owed(interfaces)
           P == Peers
           all == Image(PairFn, P)
<1>1. PICK done \in Seq(Owing) : /\ all = done \o w /\ metrics = MetricsAt(done)
                                 /\ \A n \in DOMAIN done : ~RenderPanics(done[n][2])
  BY DEF Rendering
<1>2. w = <<>>
  BY OwedNone DEF Pending, Chosen
<1>3. done \o <<>> = done
  BY ConcatEmptySeq
<1> HIDE DEF w, all
<1>4. all = done
  BY <1>1, <1>2, <1>3, Zenon
<1>5. metrics = MetricsAt(all)
  BY <1>1, <1>4
<1>6. ~SomeUnprintable
  <2> SUFFICES ASSUME NEW n \in DOMAIN P, Unprintable(P[n])
               PROVE  FALSE
    BY DEF SomeUnprintable
  <2> DEFINE p == P[n]
  <2>1. p \in Peer
    <3>1. P \in Seq(Peer)
      BY PeersPairs DEF Chosen
    <3> HIDE DEF P
    <3> QED BY <3>1, ElementOfSeq, LenProperties
  <2> HIDE DEF P
  <2>2. n \in DOMAIN done /\ done[n] = PairFn[p]
    BY <1>4 DEF all, Image
  <2>3. ~RenderPanics(done[n][2])
    BY <1>1, <2>2
  <2>4. Unprintable(p)
    OBVIOUS
  <2> HIDE DEF p
  <2>5. done[n] = <<p.iface, EpOf(p)>>
    BY <2>1, <2>2 DEF PairFn
  <2> QED BY <2>1, <2>3, <2>4, <2>5, PanicsAre
<1> QED BY <1>5, <1>6 DEF all

LEMMA PipeInit == Init => PipeInv
<1> SUFFICES ASSUME Init PROVE PipeInv
  OBVIOUS
<1>1. interfaces = [i \in Ifaces |-> <<>>]
  BY DEF Init, Ifaces
<1>2. Holds(interfaces)
  <2>1. <<>> \in Seq(Ends)
    BY Nothing
  <2> QED BY <1>1, <2>1 DEF Holds
<1> QED BY <1>1, <1>2 DEF Init, PipeInv, Chosen

LEMMA PipeStep == PipeInv /\ [Next]_vars => PipeInv'
<1> SUFFICES ASSUME PipeInv, [Next]_vars PROVE PipeInv'
  OBVIOUS
<1>0. Chosen /\ Holds(interfaces)
  BY DEF PipeInv
<1>1. CASE Dump
  <2>1. UNCHANGED fixed /\ pc = "dump" /\ pc' = "parse" /\ interfaces' = interfaces /\ interfaces = [i \in Ifaces |-> <<>>]
    BY <1>1 DEF Dump, PipeInv
  <2>2. Chosen' /\ \A i : Filled(i)' = Filled(i)
    BY <1>0, <2>1, Frame
  <2>3. lines' \in Seq(Lines) /\ \A i \in Ifaces : <<>> \o Gather(EndsOf(i), lines') = Filled(i)
    BY <1>0, <1>1, DumpParses DEF Dump
  <2>4. \A i \in Ifaces : interfaces'[i] = <<>>
    BY <2>1
  <2>5. \A i \in Ifaces : interfaces'[i] \o Gather(EndsOf(i), lines') = Filled(i)'
    BY <2>2, <2>3, <2>4
  <2>6. Parsing'
    BY <2>3, <2>5 DEF Parsing
  <2>7. Holds(interfaces)'
    BY <1>0, <2>1 DEF Holds
  <2> QED BY <2>1, <2>2, <2>6, <2>7 DEF PipeInv
<1>2. CASE ParseLine
  <2>0. UNCHANGED fixed /\ Parsing /\ lines # <<>>
    BY <1>2 DEF ParseLine, PipeInv
  <2>1. pc = "parse" /\ lines' = Tail(lines)
    BY <1>2 DEF ParseLine
  <2>2. Chosen' /\ \A i : Filled(i)' = Filled(i)
    BY <1>0, <2>0, Frame, Zenon
  <2> DEFINE v == Columns(Head(lines))
             after == [interfaces EXCEPT ![v[1][1]] = Append(@, Endpoint(v))]
  <2>3. /\ ~Panics(v) /\ Tail(lines) \in Seq(Lines) /\ Holds(after)
        /\ \A i \in Ifaces : after[i] \o Gather(EndsOf(i), Tail(lines)) = Filled(i)
    BY <1>0, <2>0, LineParses, Zenon
  <2>4. interfaces' = after /\ pc' = "parse"
    BY <1>2, <2>1, <2>3, Zenon DEF ParseLine
  <2> HIDE DEF after
  <2>5. \A i \in Ifaces : interfaces'[i] \o Gather(EndsOf(i), lines') = Filled(i)'
    BY <2>1, <2>2, <2>3, <2>4
  <2>6. Parsing'
    BY <2>1, <2>3, <2>5 DEF Parsing
  <2>7. Holds(interfaces)'
    BY <2>3, <2>4 DEF Holds
  <2> QED BY <2>2, <2>4, <2>6, <2>7 DEF PipeInv
<1>3. CASE BeginRender
  <2>1. /\ UNCHANGED fixed /\ pc = "parse" /\ pc' = "render" /\ Parsing /\ lines = <<>>
        /\ interfaces' = interfaces /\ metrics' = NewMetrics(options)
    BY <1>3 DEF BeginRender, PipeInv
  <2>2. Chosen' /\ Peers' = Peers /\ \A done : MetricsAt(done)' = MetricsAt(done)
    BY <1>0, <2>1, Frame
  <2>3. metrics' = MetricsAt(<<>>)'
    BY <2>1, <2>2, MetricsBegin
  <2> DEFINE w == Owed(interfaces)
  <2>4. Image(PairFn, Peers) = w /\ w \in Seq(Owing)
    BY <1>0, <2>1, ParsedOwes, OwedType DEF Chosen
  <2>5. w = <<>> \o w
    <3> HIDE DEF w
    <3> QED BY <2>4, ConcatEmptySeq
  <2>6. (Image(PairFn, Peers) = <<>> \o w)'
    <3> HIDE DEF w
    <3>1. Image(PairFn, Peers)' = <<>> \o w
      BY <2>2, <2>4, <2>5
    <3> QED BY <2>1, <3>1 DEF w
  <2>7. <<>> \in Seq(Owing)
    BY Nothing
  <2>8. Rendering'
    <3> DEFINE o == <<>>
    <3>1. \A n \in DOMAIN o : FALSE
      OBVIOUS
    <3>2. o \in Seq(Owing) /\ metrics' = MetricsAt(o)' /\ (Image(PairFn, Peers) = o \o w)'
      BY <2>3, <2>6, <2>7
    <3> HIDE DEF o
    <3> QED BY <3>1, <3>2 DEF Rendering
  <2>9. Holds(interfaces)'
    BY <1>0, <2>1 DEF Holds
  <2> QED BY <2>1, <2>2, <2>8, <2>9 DEF PipeInv
<1>4. CASE RenderEndpoint
  <2> DEFINE i == Interfaces[Min(Pending)]
             ep == Head(interfaces[i])
             after == [interfaces EXCEPT ![i] = Tail(@)]
             next == [f \in DOMAIN metrics |-> RenderAndAppendInstance(metrics[f],
                        Labels(i, ep, Keep(world.table[ep.public_key]), options), Value(ep, f))]
             Done(m) == \E done \in Seq(Owing) :
                  /\ Image(PairFn, Peers) = done \o Owed(after) /\ m = MetricsAt(done)
                  /\ \A n \in DOMAIN done : ~RenderPanics(done[n][2])
  <2>1. UNCHANGED fixed /\ pc = "render" /\ Rendering /\ Pending # {} /\ interfaces' = after
    BY <1>4 DEF RenderEndpoint, PipeInv
  <2>2. /\ Chosen' /\ Peers' = Peers /\ SomeUnprintable' = SomeUnprintable
        /\ (\A done : MetricsAt(done)' = MetricsAt(done)) /\ \A e : RenderPanics(e)' = RenderPanics(e)
    BY <1>0, <2>1, Frame
  <2>3. /\ Holds(after)
        /\ ~IsRemote(ep) => Done(metrics)
        /\ IsRemote(ep) /\ RenderPanics(ep) => SomeUnprintable
        /\ IsRemote(ep) /\ ~RenderPanics(ep) => Done(next)
    BY <1>0, <2>1, RenderSteps
  <2>4. \/ ~IsRemote(ep) /\ pc' = pc /\ metrics' = metrics
        \/ IsRemote(ep) /\ RenderPanics(ep) /\ pc' = "panic"
        \/ IsRemote(ep) /\ ~RenderPanics(ep) /\ pc' = pc /\ metrics' = next
    BY <1>4 DEF RenderEndpoint
  <2> HIDE DEF after, next, ep
  <2>5. Holds(interfaces)'
    BY <2>1, <2>3 DEF Holds
  <2>6. Done(metrics') => Rendering'
    BY <2>1, <2>2 DEF Rendering
  <2> HIDE DEF Done
  <2>7. CASE pc' = "panic"
    BY <2>1, <2>2, <2>3, <2>4, <2>5, <2>7 DEF PipeInv
  <2>8. CASE pc' = pc
    <3>1. Rendering'
      BY <2>1, <2>3, <2>4, <2>6, <2>8
    <3> QED BY <2>1, <2>2, <2>5, <2>8, <3>1 DEF PipeInv
  <2> QED BY <2>4, <2>7, <2>8
<1>5. CASE Format
  <2>1. UNCHANGED fixed /\ Rendering /\ Pending = {} /\ pc' = "sent" /\ interfaces' = interfaces /\ metrics' = metrics
    BY <1>5 DEF Format, PipeInv
  <2>2. Chosen' /\ Peers' = Peers /\ SomeUnprintable' = SomeUnprintable /\ \A done : MetricsAt(done)' = MetricsAt(done)
    BY <1>0, <2>1, Frame
  <2>3. metrics = MetricsAt(Image(PairFn, Peers)) /\ ~SomeUnprintable
    BY <1>0, <2>1, AllRendered
  <2>4. (metrics = MetricsAt(Image(PairFn, Peers)))' /\ ~SomeUnprintable'
    BY <2>1, <2>2, <2>3
  <2>5. Holds(interfaces)'
    BY <1>0, <2>1 DEF Holds
  <2> QED BY <2>1, <2>2, <2>4, <2>5 DEF PipeInv
<1>6. CASE ReadLine
  <2>1. UNCHANGED fixed /\ pc = "sent" /\ pc' \in {"sent", "read"} /\ interfaces' = interfaces /\ metrics' = metrics
    BY <1>6 DEF ReadLine
  <2>2. Chosen' /\ Peers' = Peers /\ SomeUnprintable' = SomeUnprintable /\ \A done : MetricsAt(done)' = MetricsAt(done)
    BY <1>0, <2>1, Frame
  <2>3. metrics = MetricsAt(Image(PairFn, Peers)) /\ ~SomeUnprintable
    BY <2>1 DEF PipeInv
  <2>4. (metrics = MetricsAt(Image(PairFn, Peers)))' /\ ~SomeUnprintable'
    BY <2>1, <2>2, <2>3
  <2>5. Holds(interfaces)'
    BY <1>0, <2>1 DEF Holds
  <2> QED BY <2>1, <2>2, <2>4, <2>5 DEF PipeInv
<1>7. CASE UNCHANGED vars
  <2>1. UNCHANGED fixed /\ pc' = pc /\ lines' = lines /\ interfaces' = interfaces /\ metrics' = metrics
    BY <1>7 DEF vars, fixed
  <2>2. /\ Chosen' /\ Peers' = Peers /\ SomeUnprintable' = SomeUnprintable /\ options' = options
        /\ (\A done : MetricsAt(done)' = MetricsAt(done)) /\ (\A i : Filled(i)' = Filled(i))
        /\ \A e : RenderPanics(e)' = RenderPanics(e)
    BY <1>0, <2>1, Frame DEF fixed
  <2>3. Parsing' = Parsing /\ Holds(interfaces)' = Holds(interfaces)
    BY <2>1, <2>2 DEF Parsing, Holds
  <2>4. Rendering' = Rendering /\ (metrics = MetricsAt(Image(PairFn, Peers)))' = (metrics = MetricsAt(Image(PairFn, Peers)))
    BY <2>1, <2>2 DEF Rendering
  <2> QED BY <2>1, <2>2, <2>3, <2>4 DEF PipeInv
<1> QED BY <1>1, <1>2, <1>3, <1>4, <1>5, <1>6, <1>7 DEF Next

(* PipeInvariant: the lines that are parsed and those that are left, the   *)
(* endpoints that are rendered and those that are left, are at every step  *)
(* those of the peers of the dump (main.rs:83-103, wireguard.rs:78-137).   *)
THEOREM PipeInvariant == Spec => []PipeInv
<1> QED BY PipeInit, PipeStep, PTL DEF Spec

(* ExpositionPanicsOnUnprintable: whatever wg prints and the config files  *)
(* describe, the pipeline panics for a peer without allowed IPs in split   *)
(* mode, for one whose friendly_json has a null, an array or an object,    *)
(* for one whose handshake is ahead of the clock when delays are exported, *)
(* and for nothing else; no response is sent when the dump has such a peer *)
(* (wireguard.rs:90-137, 243, 285, 323).                                   *)
THEOREM ExpositionPanicsOnUnprintable == Spec => []PanicsOnUnprintable
<1>1. PipeInv => PanicsOnUnprintable
  BY DEF PipeInv, PanicsOnUnprintable, SomeUnprintable
<1> QED BY <1>1, PipeInvariant, PTL

(***************************************************************************)
(* Entries of a row that are written as ls, say B and are of S.            *)
(***************************************************************************)
ShownFn == [e \in Entry |-> Shown(e)]
Label == {Shown(e) : e \in Entry}
Block(es, ls, B, S) ==
  /\ es \in Seq(Entry) /\ Image(ShownFn, es) = ls /\ Pairs(es) = B
  /\ Distinct(es) /\ \A n \in DOMAIN es : es[n] \in S
Apart(B, C) == \A x \in B, y \in C : x[1] # y[1]

LEMMA BlockNothing ==
  ASSUME NEW S
  PROVE  Block(<<>>, <<>>, {}, S)
<1>1. <<>> \in Seq(Entry)
  BY Nothing
<1>2. DOMAIN <<>> = {}
  OBVIOUS
<1> QED BY <1>1, <1>2, ImageNothing DEF Block, Pairs, Distinct

LEMMA BlockOne ==
  ASSUME NEW S, NEW e \in Entry, e \in S
  PROVE  Block(<<e>>, <<Shown(e)>>, {<<e.name, e.value>>}, S)
<1>1. <<e>> \in Seq(Entry) /\ DOMAIN <<e>> = {1} /\ <<e>>[1] = e
  OBVIOUS
<1>2. Image(ShownFn, <<e>>) = <<Shown(e)>>
  <2>1. ShownFn[e] = Shown(e)
    BY DEF ShownFn
  <2> QED BY <2>1, ImageSingle
<1>3. Pairs(<<e>>) = {<<e.name, e.value>>}
  BY <1>1 DEF Pairs
<1>4. Distinct(<<e>>) /\ \A n \in DOMAIN <<e>> : <<e>>[n] \in S
  BY <1>1 DEF Distinct
<1> QED BY <1>1, <1>2, <1>3, <1>4 DEF Block

LEMMA BlockConcat ==
  ASSUME NEW S, NEW es, NEW ls, NEW B, Block(es, ls, B, S),
         NEW fs, NEW ms, NEW C, Block(fs, ms, C, S), Apart(B, C)
  PROVE  Block(es \o fs, ls \o ms, B \cup C, S)
<1> DEFINE u == es \o fs
<1>0. /\ es \in Seq(Entry) /\ Image(ShownFn, es) = ls /\ Pairs(es) = B
      /\ Distinct(es) /\ (\A n \in DOMAIN es : es[n] \in S)
      /\ fs \in Seq(Entry) /\ Image(ShownFn, fs) = ms /\ Pairs(fs) = C
      /\ Distinct(fs) /\ (\A n \in DOMAIN fs : fs[n] \in S)
  BY DEF Block
<1>1. PICK i \in Nat, j \in Nat : /\ DOMAIN es = 1 .. i /\ DOMAIN fs = 1 .. j /\ Len(es) = i /\ Len(fs) = j
  BY <1>0, LenProperties
<1>2. /\ u \in Seq(Entry) /\ DOMAIN u = 1 .. i + j
      /\ (\A n \in 1 .. i : u[n] = es[n]) /\ \A n \in i + 1 .. i + j : u[n] = fs[n - i]
  <2>1. u \in Seq(Entry) /\ Len(u) = i + j
    BY <1>0, <1>1, ConcatProperties
  <2>2. \A n \in 1 .. i + j : u[n] = IF n <= i THEN es[n] ELSE fs[n - i]
    BY <1>0, <1>1, ConcatProperties
  <2> HIDE DEF u
  <2>3. DOMAIN u = 1 .. i + j
    BY <2>1, LenProperties
  <2>4. \A n \in 1 .. i : n \in 1 .. i + j /\ n <= i
    OBVIOUS
  <2>5. \A n \in i + 1 .. i + j : n \in 1 .. i + j /\ ~(n <= i)
    OBVIOUS
  <2> QED BY <2>1, <2>2, <2>3, <2>4, <2>5
<1>3. \A n \in 1 .. i + j : \/ n \in 1 .. i /\ u[n] = es[n]
                            \/ n \notin 1 .. i /\ n - i \in 1 .. j /\ u[n] = fs[n - i]
  BY <1>1, <1>2
<1>4. \A n \in 1 .. j : n + i \in 1 .. i + j /\ u[n + i] = fs[n]
  <2> TAKE n \in 1 .. j
  <2>1. n + i \in i + 1 .. i + j /\ (n + i) - i = n
    BY <1>1
  <2> QED BY <1>1, <1>2, <2>1
<1>5. \A n \in 1 .. i : n \in 1 .. i + j
  BY <1>1
<1> HIDE DEF u
<1>6. Pairs(u) = B \cup C
  <2>1. \A x \in Pairs(u) : x \in Pairs(es) \/ x \in Pairs(fs)
    <3> TAKE x \in Pairs(u)
    <3>1. PICK n \in 1 .. i + j : x = <<u[n].name, u[n].value>>
      BY <1>2 DEF Pairs
    <3>2. CASE n \in 1 .. i /\ u[n] = es[n]
      BY <1>1, <3>1, <3>2 DEF Pairs
    <3>3. CASE n - i \in 1 .. j /\ u[n] = fs[n - i]
      BY <1>1, <3>1, <3>3 DEF Pairs
    <3> QED BY <1>3, <3>2, <3>3
  <2>2. \A x \in Pairs(es) : x \in Pairs(u)
    BY <1>1, <1>2, <1>5 DEF Pairs
  <2>3. \A x \in Pairs(fs) : x \in Pairs(u)
    BY <1>1, <1>2, <1>4, ZenonT(60) DEF Pairs
  <2> QED BY <1>0, <2>1, <2>2, <2>3
<1>7. \A n \in DOMAIN u : u[n] \in S
  BY <1>0, <1>1, <1>2, <1>3
<1>8. \A m \in DOMAIN es, n \in DOMAIN fs : es[m].name # fs[n].name
  <2> TAKE m \in DOMAIN es, n \in DOMAIN fs
  <2>1. <<es[m].name, es[m].value>> \in B /\ <<fs[n].name, fs[n].value>> \in C
    BY <1>0 DEF Pairs
  <2> QED BY <2>1 DEF Apart
<1>9. Distinct(u)
  <2> SUFFICES ASSUME NEW m \in DOMAIN u, NEW n \in DOMAIN u, u[m].name = u[n].name
               PROVE  m = n
    BY DEF Distinct
  <2>1. CASE m \in 1 .. i /\ n \in 1 .. i
    BY <1>0, <1>1, <1>2, <2>1 DEF Distinct
  <2>2. CASE m \in 1 .. i /\ n \notin 1 .. i
    BY <1>1, <1>2, <1>3, <1>8, <2>2
  <2>3. CASE m \notin 1 .. i /\ n \in 1 .. i
    BY <1>1, <1>2, <1>3, <1>8, <2>3
  <2>4. CASE m \notin 1 .. i /\ n \notin 1 .. i
    <3>1. m - i \in DOMAIN fs /\ n - i \in DOMAIN fs /\ fs[m - i].name = fs[n - i].name
      BY <1>1, <1>2, <1>3, <2>4
    <3>2. m - i = n - i
      BY <1>0, <3>1 DEF Distinct
    <3>3. m \in Int /\ n \in Int
      BY <1>2
    <3> QED BY <1>1, <3>2, <3>3
  <2> QED BY <2>1, <2>2, <2>3, <2>4
<1>10. Image(ShownFn, es \o fs) = ls \o ms
  <2>1. Takes(ShownFn, Entry, Label)
    BY DEF Takes, ShownFn, Label
  <2>2. es \in Seq(Entry) /\ fs \in Seq(Entry)
    BY <1>0
  <2>3. Image(ShownFn, es \o fs) = Image(ShownFn, es) \o Image(ShownFn, fs)
    BY <2>1, <2>2, ImageConcat
  <2> QED BY <1>0, <2>3
<1> QED BY <1>2, <1>6, <1>7, <1>9, <1>10 DEF Block, u

LEMMA BlockIf ==
  ASSUME NEW S, NEW c \in BOOLEAN, NEW es, NEW ls, NEW B, c => Block(es, ls, B, S)
  PROVE  Block(If(c, es), If(c, ls), IF c THEN B ELSE {}, S)
<1>1. CASE c
  <2>1. If(c, es) = es /\ If(c, ls) = ls
    BY <1>1 DEF If
  <2> QED BY <1>1, <2>1, Zenon
<1>2. CASE ~c
  <2>1. If(c, es) = <<>> /\ If(c, ls) = <<>>
    BY <1>2 DEF If
  <2> QED BY <1>2, <2>1, BlockNothing
<1> QED BY <1>1, <1>2

LEMMA BlockTwo ==
  ASSUME NEW S, NEW e \in Entry, e \in S, NEW f \in Entry, f \in S, e.name # f.name
  PROVE  Block(<<e, f>>, <<Shown(e), Shown(f)>>, {<<e.name, e.value>>, <<f.name, f.value>>}, S)
<1> DEFINE x == <<e.name, e.value>>
           y == <<f.name, f.value>>
           o == Shown(e)
           u == Shown(f)
<1>1. Apart({x}, {y})
  BY DEF Apart
<1>2. Block(<<e>>, <<o>>, {x}, S) /\ Block(<<f>>, <<u>>, {y}, S)
  BY BlockOne
<1> HIDE DEF x, y, o, u
<1>3. Block(<<e>> \o <<f>>, <<o>> \o <<u>>, {x} \cup {y}, S)
  BY <1>1, <1>2, BlockConcat
<1>4. \A a, b : <<a>> \o <<b>> = <<a, b>>
  <2> TAKE a, b
  <2>1. <<a>> \in Seq({a, b}) /\ b \in {a, b}
    OBVIOUS
  <2>2. Append(<<a>>, b) = <<a>> \o <<b>>
    BY <2>1, AppendIsConcat
  <2> QED BY <2>2, Double
<1>5. {x} \cup {y} = {x, y}
  OBVIOUS
<1>6. <<e>> \o <<f>> = <<e, f>> /\ <<o>> \o <<u>> = <<o, u>>
  BY <1>4
<1>7. Block(<<e, f>>, <<o, u>>, {x, y}, S)
  BY <1>3, <1>5, <1>6, Zenon
<1> QED BY <1>7 DEF x, y, o, u

(***************************************************************************)
(* The entries of a peer.                                                  *)
(***************************************************************************)
Proper(plain, tame) ==
  {e \in Entry : /\ e.name \notin Punctuation
                 /\ plain => Plain(e.tag, e.value)
                 /\ tame => Tame(e)}
Written(name, v) == [name |-> name, tag |-> "json", value |-> v]
Settled(name, v) ==
  /\ name \in Tokens /\ name \notin Punctuation /\ name # "friendly_name"
  /\ v \in Seq(Tokens) /\ v # <<>> /\ v[1] \notin Punctuation
  /\ \A n \in DOMAIN v : v[n] \notin {Quote, Backslash, NewLine}

LEMMA WrittenShows ==
  ASSUME NEW name \in Tokens, NEW v \in Seq(Tokens)
  PROVE  Written(name, v) \in Entry /\ Shown(Written(name, v)) = <<name, v>>
<1>1. Written(name, v) \in Entry
  BY DEF Entry, Written
<1>2. Escape("json", v) = v
  <2>1. \A u \in Seq(Tokens) : Escape("json", u) = u
    BY EscapeNothing
  <2> QED BY <2>1
<1>3. Shown(Written(name, v)) = <<name, Escape("json", v)>>
  BY DEF Shown, Written
<1> QED BY <1>1, <1>2, <1>3

LEMMA SettledProper ==
  ASSUME NEW name, NEW v, Settled(name, v), NEW plain, NEW tame
  PROVE  /\ Written(name, v) \in Entry /\ Written(name, v) \in Proper(plain, tame)
         /\ Shown(Written(name, v)) = <<name, v>> /\ Written(name, v).name = name /\ Written(name, v).value = v
<1> DEFINE e == Written(name, v)
<1>1. e.name = name /\ e.tag = "json" /\ e.value = v
  BY DEF Written
<1>2. e \in Entry /\ Shown(e) = <<name, v>>
  BY WrittenShows DEF Settled
<1> HIDE DEF e
<1>3. Plain(e.tag, e.value)
  BY <1>1 DEF Settled, Plain, Special
<1>4. Tame(e)
  BY <1>1, <1>3 DEF Settled, Tame, Firm
<1>5. e.name \notin Punctuation
  BY <1>1 DEF Settled
<1> QED BY <1>1, <1>2, <1>3, <1>4, <1>5 DEF Proper, e

(* Words, printed lists and the names the exporter uses.                   *)
LEMMA WordSettles ==
  ASSUME NEW name \in Tokens, name \notin Punctuation, name # "friendly_name", NEW w \in Word
  PROVE  Settled(name, <<w>>)
<1>1. w \in Tokens /\ w \notin Punctuation /\ w \notin {Quote, Backslash, NewLine}
  BY Zenon DEF Word, Tokens, Punctuation
<1>2. <<w>> \in Seq(Tokens)
  BY <1>1, Tuples
<1>3. <<w>> # <<>> /\ DOMAIN <<w>> = {1} /\ <<w>>[1] = w
  OBVIOUS
<1> QED BY <1>1, <1>2, <1>3 DEF Settled

LEMMA NameTokens ==
  /\ LabelNames \subseteq Tokens /\ LabelNames \cap Punctuation = {}
  /\ \A n \in 0 .. MaxNumber, part \in AddressNames :
       /\ AddressLabel(part, n) \in Tokens /\ AddressLabel(part, n) \notin Punctuation
       /\ AddressLabel(part, n) \notin LabelNames
<1>1. LabelNames \subseteq Tokens
  BY DEF LabelNames, Tokens
<1>2. LabelNames \cap Punctuation = {}
  BY DEF LabelNames, Punctuation, Quote, Backslash, NewLine
<1>3. \A w \in Word : w \in Tokens /\ w \notin Punctuation
  BY Zenon DEF Word, Tokens
<1> QED BY <1>1, <1>2, <1>3, NumbersDiffer

LEMMA FirstOf ==
  ASSUME NEW T, NEW s \in Seq(T), NEW t \in Seq(T), s # <<>>
  PROVE  s \o t # <<>> /\ (s \o t)[1] = s[1]
<1>1. Len(s) \in Nat /\ Len(s) >= 1 /\ Len(t) \in Nat
  BY EmptySeq, LenProperties
<1>2. Len(s \o t) = Len(s) + Len(t) /\ s \o t \in Seq(T) /\ (s \o t)[1] = s[1]
  BY <1>1, ConcatProperties
<1>3. Len(<<>>) = 0
  OBVIOUS
<1> DEFINE u == s \o t
<1> HIDE DEF u
<1>4. Len(u) # 0
  BY <1>1, <1>2 DEF u
<1> QED BY <1>2, <1>3, <1>4 DEF u

LEMMA NetsFirst ==
  \A nets \in Seq(Net) : nets # <<>> => NetsText(nets) # <<>> /\ NetsText(nets)[1] \in Word
<1> DEFINE Ok(s) == NetsText(s) # <<>> /\ NetsText(s)[1] \in Word
           S == {s \in Seq(Net) : s # <<>> => Ok(s)}
<1>1. <<>> \in S
  BY Nothing
<1>2. ASSUME NEW s \in Seq(Net), NEW a \in Net, s \in S
      PROVE  Append(s, a) \in S
  <2> DEFINE p == NetsText(s)
             x == NetText[a]
             g == Glue(s = <<>>, ",", x)
             T == Printable
  <2>1. NetsText(Append(s, a)) = p \o g /\ p \in Seq(T)
    BY NetsTextAppend, Zenon
  <2>2. x = <<a[1], "/", a[2]>> /\ a[1] \in Word /\ x \in Seq(T)
    BY NetTexts DEF Takes
  <2>3. g \in Seq(T)
    <3> HIDE DEF x
    <3>1. "," \in T
      BY Words, Zenon
    <3> QED BY <2>2, <3>1, GlueType, Zenon
  <2>4. Append(s, a) \in Seq(Net)
    BY AppendProperties
  <2>5. CASE s = <<>>
    <3>1. p = <<>>
      BY <2>5, GluedEmpty, ImageNothing, Zenon DEF NetsText
    <3>2. g = <<>> \o x
      BY <2>5, Zenon DEF Glue
    <3>3. <<>> \o g = g /\ <<>> \o x = x
      <4> HIDE DEF g, x
      <4> QED BY <2>2, <2>3, ConcatEmptySeq
    <3>4. NetsText(Append(s, a)) = x
      BY <2>1, <3>1, <3>2, <3>3, Zenon
    <3>5. x # <<>> /\ x[1] = a[1]
      BY <2>2
    <3> QED BY <2>2, <2>4, <3>4, <3>5
  <2>6. CASE s # <<>>
    <3>1. Ok(s)
      BY <1>2, <2>6
    <3> HIDE DEF p, g
    <3>2. p # <<>> /\ p[1] \in Word
      BY <3>1 DEF p
    <3>3. p \o g # <<>> /\ (p \o g)[1] = p[1]
      BY <2>1, <2>3, <3>2, FirstOf
    <3> QED BY <2>1, <2>4, <3>2, <3>3
  <2> QED BY <2>5, <2>6
<1>3. \A s \in Seq(Net) : s \in S
  <2> HIDE DEF S
  <2> QED BY <1>1, <1>2, SeqInduction
<1> QED BY <1>3

LEMMA PrintedSettles ==
  ASSUME NEW nets \in Seq(Net)
  PROVE  Settled("allowed_ips", PrintAllowed(nets))
<1> DEFINE v == PrintAllowed(nets)
<1>1. \A c \in Printable : c \in Tokens /\ c \notin {Quote, Backslash, NewLine}
  BY Zenon DEF Printable, Word, Tokens, Punctuation, Quote, Backslash, NewLine
<1>2. v \in Seq(Printable) /\ v # <<>>
  BY PrintedType, PrintedNotEmpty
<1>3. v[1] \notin Punctuation
  <2>1. CASE nets = <<>>
    <3>1. v = <<"(none)">>
      BY <2>1 DEF PrintAllowed, Absent
    <3>2. v[1] = "(none)"
      BY <3>1
    <3> QED BY <3>2 DEF Punctuation, Quote, Backslash, NewLine
  <2>2. CASE nets # <<>>
    <3>1. v[1] \in Word
      BY <2>2, Printed, NetsFirst
    <3> HIDE DEF v
    <3> QED BY <3>1 DEF Word
  <2> QED BY <2>1, <2>2
<1> HIDE DEF v
<1>4. \A n \in DOMAIN v : v[n] \in Printable
  BY <1>2, ElementOfSeq, LenProperties
<1>5. Printable \subseteq Tokens
  BY <1>1
<1>6. v \in Seq(Tokens)
  <2>1. \A A, B : A \subseteq B => Seq(A) \subseteq Seq(B)
    OBVIOUS
  <2> QED BY <1>2, <1>5, <2>1
<1>7. "allowed_ips" \in Tokens /\ "allowed_ips" \notin Punctuation /\ "allowed_ips" # "friendly_name"
  BY NameTokens DEF LabelNames
<1>8. \A n \in DOMAIN v : v[n] \notin {Quote, Backslash, NewLine}
  BY <1>1, <1>4
<1> QED BY <1>2, <1>3, <1>6, <1>7, <1>8 DEF Settled, v
(***************************************************************************)
(* The labels of the addresses of a peer.                                  *)
(***************************************************************************)
AddressPair(n, a) == <<Written(AddressLabel("allowed_ip_", n - 1), <<a[1]>>),
                       Written(AddressLabel("allowed_subnet_", n - 1), <<a[2]>>)>>
AddressTextPair(n, a) == << <<AddressLabel("allowed_ip_", n - 1), <<a[1]>> >>,
                            <<AddressLabel("allowed_subnet_", n - 1), <<a[2]>> >> >>
AddressSays(n, a) == {<<AddressLabel("allowed_ip_", n - 1), <<a[1]>> >>,
                      <<AddressLabel("allowed_subnet_", n - 1), <<a[2]>> >>}
AddressEntries(nets) == FlattenSeq([n \in DOMAIN nets |-> AddressPair(n, nets[n])])
AddressTexts(nets) == FlattenSeq([n \in DOMAIN nets |-> AddressTextPair(n, nets[n])])
AllAddresses(nets) == UNION {AddressSays(n, nets[n]) : n \in DOMAIN nets}

LEMMA AddressOne ==
  ASSUME NEW n \in 1 .. MaxNumber, NEW a \in Net, NEW plain, NEW tame
  PROVE  Block(AddressPair(n, a), AddressTextPair(n, a), AddressSays(n, a), Proper(plain, tame))
<1> DEFINE x == AddressLabel("allowed_ip_", n - 1)
           y == AddressLabel("allowed_subnet_", n - 1)
           e == Written(x, <<a[1]>>)
           f == Written(y, <<a[2]>>)
           u == <<a[1]>>
           v == <<a[2]>>
           P == Proper(plain, tame)
<1>1. n - 1 \in 0 .. MaxNumber /\ "allowed_ip_" \in AddressNames /\ "allowed_subnet_" \in AddressNames
      /\ "allowed_ip_" # "allowed_subnet_"
  BY NumbersDiffer DEF AddressNames
<1>2. /\ x \in Tokens /\ x \notin Punctuation /\ x # "friendly_name"
      /\ y \in Tokens /\ y \notin Punctuation /\ y # "friendly_name"
  BY <1>1, NameTokens DEF LabelNames
<1>3. x # y
  BY <1>1, NumbersDiffer
<1>4. a[1] \in Word /\ a[2] \in Word
  BY DEF Net
<1> HIDE DEF x, y
<1>5. Settled(x, u) /\ Settled(y, v)
  BY <1>2, <1>4, WordSettles
<1> HIDE DEF u, v
<1>6. /\ e \in Entry /\ e \in P /\ Shown(e) = <<x, u>> /\ e.name = x /\ e.value = u
      /\ f \in Entry /\ f \in P /\ Shown(f) = <<y, v>> /\ f.name = y /\ f.value = v
  BY <1>5, SettledProper DEF u, v
<1> HIDE DEF e, f, P
<1>7. Block(<<e, f>>, <<Shown(e), Shown(f)>>, {<<e.name, e.value>>, <<f.name, f.value>>}, P)
  BY <1>3, <1>6, BlockTwo
<1>8. Block(<<e, f>>, << <<x, u>>, <<y, v>> >>, {<<x, u>>, <<y, v>>}, P)
  BY <1>6, <1>7
<1> QED BY <1>8, Zenon DEF AddressPair, AddressTextPair, AddressSays, e, f, x, y, u, v, P

(* Pieces made of the elements of a list and their positions.              *)
Numbered(F, s) == [n \in DOMAIN s |-> F[<<n, s[n]>>]]
Places(F, A, T) == F \in [Nat \X A -> Seq(T)]
LEMMA NumberedAppend ==
  ASSUME NEW A, NEW T, NEW F, Places(F, A, T), NEW s \in Seq(A), NEW x \in A
  PROVE  FlattenSeq(Numbered(F, Append(s, x))) = FlattenSeq(Numbered(F, s)) \o F[<<Len(s) + 1, x>>]
<1> DEFINE Q == Seq(T)
           u == Append(s, x)
           a == Numbered(F, s)
           o == Numbered(F, u)
<1>0. PICK k \in Nat : /\ DOMAIN s = 1 .. k /\ Len(s) = k /\ u \in Seq(A)
                       /\ DOMAIN u = 1 .. k + 1 /\ Len(u) = k + 1
                       /\ u[k + 1] = x /\ (\A n \in 1 .. k : u[n] = s[n])
                       /\ (\A n \in 1 .. k + 1 : n \in 1 .. k \/ n = k + 1)
  BY AppendAt
<1> DEFINE y == F[<<k + 1, x>>]
           z == Append(a, y)
<1> HIDE DEF u, Q
<1>1. \A n \in 1 .. k : s[n] \in A /\ n \in Nat
  BY <1>0, ElementOfSeq
<1>2. F \in [Nat \X A -> Q]
  BY DEF Q, Places
<1>3. y \in Q /\ \A n \in 1 .. k : F[<<n, s[n]>>] \in Q
  BY <1>0, <1>1, <1>2
<1>4. DOMAIN a = 1 .. k /\ \A n \in 1 .. k : a[n] = F[<<n, s[n]>>]
  BY <1>0 DEF Numbered
<1>5. a \in [1 .. k -> Q]
  BY <1>0, <1>3 DEF Numbered
<1>6. o = [n \in 1 .. k + 1 |-> F[<<n, u[n]>>]]
  BY <1>0 DEF Numbered
<1> HIDE DEF a, o, y
<1>7. a \in Seq(Q) /\ Len(a) = k
  BY <1>5
<1>8. /\ z \in Seq(Q) /\ Len(z) = k + 1 /\ z[k + 1] = y /\ \A n \in 1 .. k : z[n] = a[n]
  BY <1>3, <1>7, AppendProperties
<1> HIDE DEF z
<1>9. z \in [1 .. k + 1 -> Q]
  BY <1>8, LenProperties
<1>10. z = [n \in 1 .. k + 1 |-> z[n]]
  BY <1>9
<1>11. \A n \in 1 .. k + 1 : z[n] = F[<<n, u[n]>>]
  <2> TAKE n \in 1 .. k + 1
  <2>1. CASE n \in 1 .. k
    BY <1>0, <1>4, <1>8, <2>1
  <2>2. CASE n = k + 1
    BY <1>0, <1>8, <2>2 DEF y
  <2> QED BY <1>0, <2>1, <2>2
<1>12. o = z
  BY <1>6, <1>10, <1>11
<1>13. FlattenSeq(Append(a, y)) = FlattenSeq(a) \o y
  BY <1>3, <1>7, FlattenAppend DEF Q
<1>14. FlattenSeq(o) = FlattenSeq(a) \o y
  BY <1>12, <1>13 DEF z
<1> QED BY <1>0, <1>7, <1>14 DEF a, o, u, y, Q

LEMMA AddressGrows ==
  ASSUME NEW s \in Seq(Net), NEW a \in Net
  PROVE  /\ AddressEntries(Append(s, a)) = AddressEntries(s) \o AddressPair(Len(s) + 1, a)
         /\ AddressTexts(Append(s, a)) = AddressTexts(s) \o AddressTextPair(Len(s) + 1, a)
         /\ AllAddresses(Append(s, a)) = AllAddresses(s) \cup AddressSays(Len(s) + 1, a)
<1> DEFINE u == Append(s, a)
           E == [x \in Nat \X Net |-> AddressPair(x[1], x[2])]
           L == [x \in Nat \X Net |-> AddressTextPair(x[1], x[2])]
           S == UNION {{AddressPair(x[1], x[2])[1], AddressPair(x[1], x[2])[2]} : x \in Nat \X Net}
           T == UNION {{AddressTextPair(x[1], x[2])[1], AddressTextPair(x[1], x[2])[2]} : x \in Nat \X Net}
<1>0. PICK k \in Nat : /\ DOMAIN s = 1 .. k /\ Len(s) = k /\ u \in Seq(Net)
                       /\ DOMAIN u = 1 .. k + 1 /\ Len(u) = k + 1
                       /\ u[k + 1] = a /\ (\A n \in 1 .. k : u[n] = s[n])
                       /\ (\A n \in 1 .. k : n \in 1 .. k + 1) /\ k + 1 \in 1 .. k + 1
                       /\ (\A n \in 1 .. k + 1 : n \in 1 .. k \/ n = k + 1)
  BY AppendAt
<1>1. \A n, b : /\ AddressPair(n, b) = <<AddressPair(n, b)[1], AddressPair(n, b)[2]>>
                /\ AddressTextPair(n, b) = <<AddressTextPair(n, b)[1], AddressTextPair(n, b)[2]>>
  BY DEF AddressPair, AddressTextPair
<1>2. \A c, d, W : c \in W /\ d \in W => <<c, d>> \in Seq(W)
  BY Tuples
<1>3. \A n \in Nat, b \in Net : /\ AddressPair(n, b)[1] \in S /\ AddressPair(n, b)[2] \in S
                                 /\ AddressTextPair(n, b)[1] \in T /\ AddressTextPair(n, b)[2] \in T
  <2> TAKE n \in Nat, b \in Net
  <2>1. <<n, b>> \in Nat \X Net /\ <<n, b>>[1] = n /\ <<n, b>>[2] = b
    OBVIOUS
  <2> QED BY <2>1
<1> HIDE DEF S, T
<1>4. \A n \in Nat, b \in Net : AddressPair(n, b) \in Seq(S) /\ AddressTextPair(n, b) \in Seq(T)
  BY <1>1, <1>2, <1>3, Zenon
<1>5. Places(E, Net, S) /\ Places(L, Net, T)
  BY <1>4 DEF Places
<1>6. \A v \in Seq(Net) : AddressEntries(v) = FlattenSeq(Numbered(E, v)) /\ AddressTexts(v) = FlattenSeq(Numbered(L, v))
  <2> TAKE v \in Seq(Net)
  <2>1. \A n \in DOMAIN v : v[n] \in Net /\ n \in Nat
    BY ElementOfSeq, LenProperties
  <2>2. \A n \in DOMAIN v : <<n, v[n]>> \in Nat \X Net /\ <<n, v[n]>>[1] = n /\ <<n, v[n]>>[2] = v[n]
    BY <2>1
  <2>3. [n \in DOMAIN v |-> AddressPair(n, v[n])] = Numbered(E, v)
    BY <2>2 DEF Numbered
  <2>4. [n \in DOMAIN v |-> AddressTextPair(n, v[n])] = Numbered(L, v)
    BY <2>2 DEF Numbered
  <2> QED BY <2>3, <2>4, Zenon DEF AddressEntries, AddressTexts
<1>7. E[<<k + 1, a>>] = AddressPair(k + 1, a) /\ L[<<k + 1, a>>] = AddressTextPair(k + 1, a)
  <2>1. <<k + 1, a>> \in Nat \X Net /\ <<k + 1, a>>[1] = k + 1 /\ <<k + 1, a>>[2] = a
    OBVIOUS
  <2> QED BY <2>1
<1> HIDE DEF E, L, u
<1>8. FlattenSeq(Numbered(E, Append(s, a))) = FlattenSeq(Numbered(E, s)) \o E[<<Len(s) + 1, a>>]
  BY <1>5, NumberedAppend, SMTT(30)
<1>9. FlattenSeq(Numbered(L, Append(s, a))) = FlattenSeq(Numbered(L, s)) \o L[<<Len(s) + 1, a>>]
  BY <1>5, NumberedAppend, SMTT(30)
<1>10. AllAddresses(u) = AllAddresses(s) \cup AddressSays(k + 1, a)
  <2>1. \A x \in AllAddresses(u) : x \in AllAddresses(s) \/ x \in AddressSays(k + 1, a)
    <3> TAKE x \in AllAddresses(u)
    <3>1. PICK n \in 1 .. k + 1 : x \in AddressSays(n, u[n])
      BY <1>0 DEF AllAddresses
    <3>2. CASE n \in 1 .. k
      BY <1>0, <3>1, <3>2 DEF AllAddresses
    <3>3. CASE n = k + 1
      BY <1>0, <3>1, <3>3
    <3> QED BY <1>0, <3>2, <3>3
  <2>2. \A x \in AllAddresses(s) : x \in AllAddresses(u)
    <3> TAKE x \in AllAddresses(s)
    <3>1. PICK n \in 1 .. k : x \in AddressSays(n, s[n])
      BY <1>0 DEF AllAddresses
    <3> QED BY <1>0, <3>1 DEF AllAddresses
  <2>3. \A x \in AddressSays(k + 1, a) : x \in AllAddresses(u)
    BY <1>0 DEF AllAddresses
  <2> QED BY <2>1, <2>2, <2>3
<1>11. Len(s) + 1 = k + 1
  BY <1>0
<1> QED BY <1>0, <1>6, <1>7, <1>8, <1>9, <1>10, <1>11, Zenon DEF u

LEMMA AddressBlock ==
  ASSUME NEW plain, NEW tame
  PROVE  \A nets \in Seq(Net) : Len(nets) <= MaxNumber =>
           Block(AddressEntries(nets), AddressTexts(nets), AllAddresses(nets), Proper(plain, tame))
<1> DEFINE P == Proper(plain, tame)
           Ok(s) == Block(AddressEntries(s), AddressTexts(s), AllAddresses(s), P)
           S == {s \in Seq(Net) : Len(s) <= MaxNumber => Ok(s)}
<1>1. <<>> \in S
  <2>1. [n \in DOMAIN <<>> |-> AddressPair(n, <<>>[n])] = <<>> /\ [n \in DOMAIN <<>> |-> AddressTextPair(n, <<>>[n])] = <<>>
    OBVIOUS
  <2>2. AddressEntries(<<>>) = <<>> /\ AddressTexts(<<>>) = <<>>
    BY <2>1, FlattenEmpty, Zenon DEF AddressEntries, AddressTexts
  <2>3. AllAddresses(<<>>) = {}
    BY DEF AllAddresses
  <2>4. Ok(<<>>)
    BY <2>2, <2>3, BlockNothing
  <2> QED BY <2>4, Nothing
<1>2. ASSUME NEW s \in Seq(Net), NEW a \in Net, s \in S
      PROVE  Append(s, a) \in S
  <2> DEFINE u == Append(s, a)
             k == Len(s)
  <2>0. k \in Nat /\ Len(u) = k + 1 /\ u \in Seq(Net)
    BY AppendProperties, LenProperties
  <2> SUFFICES ASSUME k + 1 <= MaxNumber
               PROVE  Ok(u)
    BY <2>0
  <2>1. k + 1 \in 1 .. MaxNumber /\ k <= MaxNumber
    BY <2>0, NumbersDiffer
  <2>2. Ok(s)
    BY <1>2, <2>1
  <2>3. Block(AddressPair(k + 1, a), AddressTextPair(k + 1, a), AddressSays(k + 1, a), P)
    BY <2>1, AddressOne
  <2>4. Apart(AllAddresses(s), AddressSays(k + 1, a))
    <3> SUFFICES ASSUME NEW x \in AllAddresses(s), NEW y \in AddressSays(k + 1, a)
                 PROVE  x[1] # y[1]
      BY DEF Apart
    <3>1. PICK n \in 1 .. k : x \in AddressSays(n, s[n])
      BY LenProperties DEF AllAddresses
    <3>2. n - 1 \in 0 .. MaxNumber /\ (k + 1) - 1 \in 0 .. MaxNumber /\ n - 1 # (k + 1) - 1
      <4>1. MaxNumber \in Nat
        BY NumbersDiffer
      <4> HIDE DEF k, u
      <4> QED BY <2>0, <2>1, <4>1
    <3>3. PICK part \in AddressNames : x[1] = AddressLabel(part, n - 1)
      BY <3>1 DEF AddressSays, AddressNames
    <3>4. PICK other \in AddressNames : y[1] = AddressLabel(other, (k + 1) - 1)
      BY DEF AddressSays, AddressNames
    <3> QED BY <3>2, <3>3, <3>4, NumbersDiffer
  <2> HIDE DEF P
  <2>5. Block(AddressEntries(s) \o AddressPair(k + 1, a), AddressTexts(s) \o AddressTextPair(k + 1, a),
              AllAddresses(s) \cup AddressSays(k + 1, a), P)
    <3> DEFINE es == AddressEntries(s)
               ls == AddressTexts(s)
               B == AllAddresses(s)
               fs == AddressPair(k + 1, a)
               ms == AddressTextPair(k + 1, a)
               C == AddressSays(k + 1, a)
    <3>1. Block(es, ls, B, P) /\ Block(fs, ms, C, P) /\ Apart(B, C)
      BY <2>2, <2>3, <2>4
    <3> HIDE DEF es, ls, B, fs, ms, C
    <3>2. Block(es \o fs, ls \o ms, B \cup C, P)
      BY <3>1, BlockConcat
    <3> QED BY <3>2 DEF es, ls, B, fs, ms, C
  <2>6. /\ AddressEntries(u) = AddressEntries(s) \o AddressPair(k + 1, a)
        /\ AddressTexts(u) = AddressTexts(s) \o AddressTextPair(k + 1, a)
        /\ AllAddresses(u) = AllAddresses(s) \cup AddressSays(k + 1, a)
    BY AddressGrows
  <2> QED BY <2>5, <2>6, Zenon
<1>3. \A s \in Seq(Net) : s \in S
  <2> HIDE DEF S
  <2> QED BY <1>1, <1>2, SeqInduction
<1> QED BY <1>3

LEMMA AddressLabels ==
  ASSUME NEW nets \in Seq(Net), nets # <<>>
  PROVE  SplitLabels(PrintAllowed(nets)) = AddressTexts(nets)
<1> DEFINE w == Networks(PrintAllowed(nets))
<1>1. w = [n \in DOMAIN nets |-> << <<nets[n][1]>>, <<nets[n][2]>> >>]
  BY PrintedNetworks
<1> HIDE DEF w
<1>2. DOMAIN w = DOMAIN nets /\ \A n \in DOMAIN nets : w[n][1] = <<nets[n][1]>> /\ w[n][2] = <<nets[n][2]>>
  BY <1>1
<1>3. [n \in DOMAIN w |-> << <<AddressLabel("allowed_ip_", n - 1), w[n][1]>>, <<AddressLabel("allowed_subnet_", n - 1), w[n][2]>> >>]
        = [n \in DOMAIN nets |-> AddressTextPair(n, nets[n])]
  BY <1>2 DEF AddressTextPair
<1> QED BY <1>3, Zenon DEF SplitLabels, AddressTexts, w

(***************************************************************************)
(* The labels of a friendly_json.                                          *)
(***************************************************************************)
Keys == ToSet(JsonKeys)
IsJson(json) == DOMAIN json \subseteq Keys /\ json \in [DOMAIN json -> Seq(STRING)]
Labelled(json) == \A k \in DOMAIN json : k \notin Punctuation /\ Plain("json", json[k])
JsonEntry(json) == [k \in DOMAIN json |-> Written(k, json[k])]
JsonText(json) == [k \in DOMAIN json |-> <<k, json[k]>>]
JsonNames(json, s) == Gather(Select(Keys, DOMAIN json), s)
JsonSays(json, s) == {<<k, json[k]>> : k \in ToSet(s) \cap DOMAIN json}

LEMMA JsonOne ==
  ASSUME NEW json, IsJson(json), Labelled(json), NEW k \in DOMAIN json, NEW plain
  PROVE  /\ JsonEntry(json)[k] \in Entry /\ JsonEntry(json)[k] \in Proper(plain, FALSE)
         /\ Shown(JsonEntry(json)[k]) = JsonText(json)[k]
         /\ JsonEntry(json)[k].name = k /\ JsonEntry(json)[k].value = json[k]
<1> DEFINE v == json[k]
           e == Written(k, v)
<1>1. k \in STRING /\ v \in Seq(STRING) /\ k \notin Punctuation /\ Plain("json", v)
  <2>1. \A n \in DOMAIN JsonKeys : JsonKeys[n] \in STRING
    BY NamesDiffer, ElementOfSeq, LenProperties
  <2> QED BY <2>1 DEF IsJson, Labelled, Keys, ToSet
<1>2. STRING \subseteq Tokens
  BY Zenon DEF Tokens
<1>3. k \in Tokens /\ v \in Seq(Tokens)
  <2>1. \A A, B : A \subseteq B => Seq(A) \subseteq Seq(B)
    OBVIOUS
  <2> HIDE DEF v
  <2> QED BY <1>1, <1>2, <2>1
<1> HIDE DEF v
<1>4. e \in Entry /\ Shown(e) = <<k, v>>
  BY <1>3, WrittenShows
<1>5. e.name = k /\ e.value = v /\ e.tag = "json"
  BY DEF Written
<1> HIDE DEF e
<1>6. e \in Proper(plain, FALSE)
  BY <1>1, <1>4, <1>5 DEF Proper
<1> QED BY <1>4, <1>5, <1>6 DEF JsonEntry, JsonText, e, v

LEMMA JsonImages ==
  ASSUME NEW json, NEW s \in Seq(Keys), NEW k \in Keys
  PROVE  /\ JsonNames(json, s) \in Seq(DOMAIN json \cap Keys)
         /\ k \in DOMAIN json => \A g : Image(g, JsonNames(json, Append(s, k))) = Append(Image(g, JsonNames(json, s)), g[k])
         /\ k \notin DOMAIN json => JsonNames(json, Append(s, k)) = JsonNames(json, s)
<1> DEFINE D == DOMAIN json
           a == JsonNames(json, s)
           A == Keys \cap D
<1>1. a \in Seq(A)
  <2> HIDE DEF A, D
  <2> QED BY SelectType DEF JsonNames, A, D
<1>2. k \notin D => JsonNames(json, Append(s, k)) = a
  BY SelectDrops DEF JsonNames
<1>3. k \in D => JsonNames(json, Append(s, k)) = Append(a, k)
  BY SelectTakes DEF JsonNames
<1>4. k \in D => \A g : Image(g, Append(a, k)) = Append(Image(g, a), g[k])
  <2> SUFFICES ASSUME k \in D, NEW g PROVE Image(g, Append(a, k)) = Append(Image(g, a), g[k])
    OBVIOUS
  <2> DEFINE f == [x \in A |-> g[x]]
             T == {g[x] : x \in A}
             u == Append(a, k)
  <2>1. Takes(f, A, T) /\ k \in A
    BY DEF Takes
  <2>2. f[k] = g[k] /\ \A x \in A : f[x] = g[x]
    BY <2>1
  <2> HIDE DEF f, T, a, A
  <2>3. u \in Seq(A)
    BY <1>1, <2>1, AppendProperties
  <2>4. \A v \in Seq(A) : Image(f, v) = Image(g, v)
    <3> TAKE v \in Seq(A)
    <3>1. \A n \in DOMAIN v : v[n] \in A
      BY ElementOfSeq, LenProperties
    <3> QED BY <2>2, <3>1 DEF Image
  <2>5. Image(f, Append(a, k)) = Append(Image(f, a), f[k])
    BY <1>1, <2>1, ImageAppend
  <2> QED BY <1>1, <2>2, <2>3, <2>4, <2>5
<1>5. A = DOMAIN json \cap Keys
  OBVIOUS
<1> QED BY <1>1, <1>2, <1>3, <1>4, <1>5

LEMMA JsonBlock ==
  ASSUME NEW json, IsJson(json), Labelled(json), NEW plain
  PROVE  \A s \in Seq(Keys) : (\A m, n \in DOMAIN s : s[m] = s[n] => m = n) =>
           Block(Image(JsonEntry(json), JsonNames(json, s)), Image(JsonText(json), JsonNames(json, s)),
                 JsonSays(json, s), Proper(plain, FALSE))
<1> DEFINE P == Proper(plain, FALSE)
           D == DOMAIN json
           E == JsonEntry(json)
           L == JsonText(json)
           N(s) == JsonNames(json, s)
           B(s) == JsonSays(json, s)
           Once(s) == \A m, n \in DOMAIN s : s[m] = s[n] => m = n
           Ok(s) == Block(Image(E, N(s)), Image(L, N(s)), B(s), P)
           S == {s \in Seq(Keys) : Once(s) => Ok(s)}
<1>1. <<>> \in S
  <2>1. N(<<>>) = <<>>
    BY GatherEmpty DEF JsonNames
  <2>2. B(<<>>) = {}
    BY DEF JsonSays, ToSet
  <2>3. Image(E, <<>>) = <<>> /\ Image(L, <<>>) = <<>>
    BY ImageNothing
  <2>4. Ok(<<>>)
    <3> HIDE DEF E, L, B, N, P
    <3> QED BY <2>1, <2>2, <2>3, BlockNothing
  <2> QED BY <2>4, Nothing
<1>2. ASSUME NEW s \in Seq(Keys), NEW k \in Keys, s \in S
      PROVE  Append(s, k) \in S
  <2> DEFINE u == Append(s, k)
  <2>0. PICK i \in Nat : /\ DOMAIN s = 1 .. i /\ u \in Seq(Keys) /\ DOMAIN u = 1 .. i + 1
                         /\ u[i + 1] = k /\ (\A n \in 1 .. i : u[n] = s[n])
                         /\ (\A n \in 1 .. i : n \in 1 .. i + 1) /\ i + 1 \in 1 .. i + 1
                         /\ (\A n \in 1 .. i + 1 : n \in 1 .. i \/ n = i + 1)
    BY AppendAt
  <2> SUFFICES ASSUME Once(u) PROVE Ok(u)
    BY <2>0
  <2> HIDE DEF u
  <2>1. Once(s)
    BY <2>0
  <2>2. \A n \in DOMAIN s : s[n] # k
    <3> TAKE n \in DOMAIN s
    <3>1. n # i + 1
      BY <2>0
    <3> QED BY <2>0, <3>1
  <2>3. Ok(s)
    BY <1>2, <2>1
  <2>4. ToSet(u) = ToSet(s) \cup {k}
    <3>1. \A x \in ToSet(u) : x \in ToSet(s) \/ x = k
      BY <2>0 DEF ToSet
    <3>2. \A x \in ToSet(s) : x \in ToSet(u)
      BY <2>0 DEF ToSet
    <3>3. k \in ToSet(u)
      BY <2>0 DEF ToSet
    <3> QED BY <3>1, <3>2, <3>3
  <2>5. CASE k \in D
    <3> DEFINE e == E[k]
               l == L[k]
               x == <<k, json[k]>>
               es == Image(E, N(s))
               ls == Image(L, N(s))
    <3>1. e \in Entry /\ e \in P /\ Shown(e) = l /\ <<e.name, e.value>> = x
      BY <2>5, JsonOne
    <3>2. Image(E, N(u)) = Append(es, e) /\ Image(L, N(u)) = Append(ls, l)
      <4> HIDE DEF E, L
      <4>1. \A g : Image(g, JsonNames(json, Append(s, k))) = Append(Image(g, JsonNames(json, s)), g[k])
        BY <2>5, JsonImages
      <4> QED BY <4>1, Zenon DEF u
    <3>3. B(u) = B(s) \cup {x}
      BY <2>4, <2>5 DEF JsonSays
    <3>4. Apart(B(s), {x})
      BY <2>2 DEF Apart, JsonSays, ToSet
    <3>5. Block(es, ls, B(s), P)
      BY <2>3
    <3> HIDE DEF e, l, x, es, ls, P, B, E, L, N
    <3>6. Block(<<e>>, <<l>>, {x}, P)
      BY <3>1, BlockOne
    <3>7. Block(es \o <<e>>, ls \o <<l>>, B(s) \cup {x}, P)
      BY <3>4, <3>5, <3>6, BlockConcat
    <3>8. Append(es, e) = es \o <<e>>
      <4>1. es \in Seq(Entry)
        BY <3>5 DEF Block
      <4> QED BY <3>1, <4>1, AppendIsConcat
    <3>9. Append(ls, l) = ls \o <<l>>
      <4>1. ls \in Seq(Label) /\ l \in Label
        <5>1. Takes(ShownFn, Entry, Label)
          BY DEF Takes, ShownFn, Label
        <5>2. es \in Seq(Entry) /\ Image(ShownFn, es) = ls
          BY <3>5 DEF Block
        <5> QED BY <3>1, <5>1, <5>2, ImageType DEF Label
      <4> QED BY <4>1, AppendIsConcat
    <3> QED BY <3>2, <3>3, <3>7, <3>8, <3>9
  <2>6. CASE k \notin D
    <3>1. N(u) = N(s)
      BY <2>6, JsonImages DEF u
    <3>2. B(u) = B(s)
      BY <2>4, <2>6 DEF JsonSays
    <3> HIDE DEF P, B, E, L, N
    <3> QED BY <2>3, <3>1, <3>2
  <2> QED BY <2>5, <2>6
<1>3. \A s \in Seq(Keys) : s \in S
  <2> HIDE DEF S
  <2> QED BY <1>1, <1>2, SeqInduction
<1> QED BY <1>3

LEMMA JsonAll ==
  ASSUME NEW json, IsJson(json), Labelled(json), NEW plain
  PROVE  Block(Image(JsonEntry(json), JsonNames(json, JsonKeys)), JsonLabels(json),
               {<<k, json[k]>> : k \in DOMAIN json}, Proper(plain, FALSE))
<1> DEFINE D == DOMAIN json
           F == Select(Keys, D)
           s == JsonKeys
           N == JsonNames(json, s)
<1>1. s \in Seq(Keys) /\ \A m, n \in DOMAIN s : s[m] = s[n] => m = n
  <2>1. s \in [1 .. Len(s) -> STRING] /\ Len(s) \in Nat
    BY NamesDiffer, LenProperties
  <2>2. s \in [1 .. Len(s) -> Keys]
    BY <2>1 DEF Keys, ToSet
  <2> QED BY <2>1, <2>2, NamesDiffer DEF IsInjective
<1>2. JsonSays(json, s) = {<<k, json[k]>> : k \in D}
  BY DEF JsonSays, IsJson, Keys
<1>3. Filter(s, LAMBDA k : k \in D) = N
  <2>1. \A n \in DOMAIN s : s[n] \in Keys
    BY DEF Keys, ToSet
  <2>2. [n \in DOMAIN s |-> IF s[n] \in D THEN <<s[n]>> ELSE <<>>] = [n \in DOMAIN s |-> F[s[n]]]
    BY <2>1 DEF Select
  <2>3. Filter(s, LAMBDA k : k \in D) = FlattenSeq([n \in DOMAIN s |-> IF s[n] \in D THEN <<s[n]>> ELSE <<>>])
    BY DEF Filter
  <2> QED BY <2>2, <2>3, Zenon DEF Gather, JsonNames
<1>4. JsonLabels(json) = [n \in DOMAIN N |-> <<N[n], json[N[n]]>>]
  BY <1>3, Zenon DEF JsonLabels
<1>5. N \in Seq(D)
  <2>1. D \cap Keys = D
    BY DEF IsJson
  <2>2. \A k \in Keys : N \in Seq(D \cap Keys)
    BY <1>1, JsonImages
  <2>3. CASE Keys = {}
    <3>1. Select(Keys, D) = Select(Keys, D) /\ Gather(Select(Keys, D), s) \in Seq(Keys \cap D)
      BY <1>1, SelectType
    <3> QED BY <2>1, <3>1 DEF JsonNames
  <2> QED BY <2>1, <2>2, <2>3
<1>6. [n \in DOMAIN N |-> <<N[n], json[N[n]]>>] = Image(JsonText(json), N)
  <2> HIDE DEF N
  <2>1. \A n \in DOMAIN N : N[n] \in D
    BY <1>5, ElementOfSeq, LenProperties
  <2> QED BY <2>1 DEF Image, JsonText
<1>7. Block(Image(JsonEntry(json), N), Image(JsonText(json), N), JsonSays(json, s), Proper(plain, FALSE))
  <2> HIDE DEF s, N
  <2> QED BY <1>1, JsonBlock DEF N
<1> QED BY <1>2, <1>4, <1>6, <1>7, Zenon

(***************************************************************************)
(* All entries of a peer, in the order of its labels.                      *)
(***************************************************************************)
Reached(p) == options.remote /\ p.endpoint.kind # "none"
First(p) == <<Written("interface", <<p.iface>>), Written("public_key", <<p.key>>)>>
Ips(p) == Written("allowed_ips", PrintAllowed(p.allowed))
Friendly(p) == [name |-> "friendly_name", tag |-> "name", value |-> Desc(p).name]
RemoteIp(p) == Written("remote_ip", <<p.endpoint.ip>>)
RemotePort(p) == Written("remote_port", <<p.endpoint.port>>)
JsonEntries(p) == Image(JsonEntry(Desc(p).json), JsonNames(Desc(p).json, JsonKeys))
Entries(p) ==
  (((First(p) \o If(~options.split, <<Ips(p)>>)) \o If(Desc(p).tag = "name", <<Friendly(p)>>)) \o If(Reached(p), <<RemoteIp(p)>>))
  \o ((If(options.split, AddressEntries(p.allowed)) \o If(Desc(p).tag = "json", JsonEntries(p))) \o If(Reached(p), <<RemotePort(p)>>))

Known(p) ==
  /\ p \in Peer /\ IsDescription(Desc(p)) /\ Len(p.allowed) <= MaxNumber
  /\ ~Unprintable(p)
Fitting(p, plain, tame) ==
  /\ plain \/ tame
  /\ plain => Harmless(p)
  /\ tame => Desc(p).tag # "json"

FirstSays(p) == {<<"interface", <<p.iface>> >>, <<"public_key", <<p.key>> >>}
IpsSay(p) == IF ~options.split THEN {<<"allowed_ips", PrintAllowed(p.allowed)>>} ELSE {}
FriendlySays(p) == IF Desc(p).tag = "name" THEN {<<"friendly_name", Desc(p).name>>} ELSE {}
RemoteIpSays(p) == IF Reached(p) THEN {<<"remote_ip", <<p.endpoint.ip>> >>} ELSE {}
AddressesSay(p) == IF options.split THEN AllAddresses(p.allowed) ELSE {}
JsonEntriesSay(p) == IF Desc(p).tag = "json" THEN {<<k, Desc(p).json[k]>> : k \in DOMAIN Desc(p).json} ELSE {}
RemotePortSays(p) == IF Reached(p) THEN {<<"remote_port", <<p.endpoint.port>> >>} ELSE {}

LEMMA DescriptionIs ==
  ASSUME NEW p, Known(p)
  PROVE  /\ Desc(p).tag \in {"none", "name", "json"}
         /\ Desc(p).tag = "name" => Desc(p).name \in Seq(STRING \ {NewLine}) /\ Keep(Desc(p)).name = Escape("name", Desc(p).name)
         /\ Desc(p).tag = "json" => IsJson(Desc(p).json) /\ Keep(Desc(p)) = Desc(p)
         /\ Keep(Desc(p)).tag = Desc(p).tag
<1> DEFINE d == Desc(p)
<1>1. IsDescription(d)
  BY DEF Known
<1> HIDE DEF d
<1>2. CASE d \in [tag : {"none"}]
  BY <1>2 DEF Keep, d
<1>3. CASE d \in [tag : {"name"}, name : Seq(STRING \ {NewLine})]
  BY <1>3 DEF Keep, d
<1>4. CASE \E K \in SUBSET Keys : d \in [tag : {"json"}, json : [K -> JsonValue]]
  <2>1. PICK K \in SUBSET Keys : d \in [tag : {"json"}, json : [K -> JsonValue]]
    BY <1>4
  <2>2. d.tag = "json" /\ d.json \in [K -> JsonValue] /\ DOMAIN d.json = K
    BY <2>1
  <2>3. \A k \in K : d.json[k] # Nested
    BY <2>2 DEF Known, Unprintable, d
  <2>4. d.json \in [K -> Seq(STRING)]
    BY <2>2, <2>3 DEF JsonValue
  <2>5. IsJson(d.json)
    BY <2>2, <2>4 DEF IsJson
  <2> QED BY <2>2, <2>5 DEF Keep, d
<1> QED BY <1>1, <1>2, <1>3, <1>4 DEF IsDescription, Keys

LEMMA RemoteIs ==
  ASSUME NEW p \in Peer
  PROVE  /\ p.iface \in Word /\ p.key \in Word /\ p.allowed \in Seq(Net)
         /\ p.endpoint.kind # "none" => p.endpoint.ip \in Word /\ p.endpoint.port \in Word
         /\ (options.remote /\ EpOf(p).remote_ip # None) = Reached(p)
         /\ (options.remote /\ EpOf(p).remote_port # None) = Reached(p)
         /\ Reached(p) => EpOf(p).remote_ip = p.endpoint.ip /\ EpOf(p).remote_port = p.endpoint.port
         /\ EpOf(p).public_key = p.key /\ EpOf(p).allowed_ips = PrintAllowed(p.allowed)
<1>1. p.iface \in Ifaces /\ p.key \in Word /\ p.allowed \in Seq(Net)
  BY DEF Peer, Net, Ifaces
<1>2. Ifaces \subseteq Word
  <2>1. \A n \in DOMAIN Interfaces : Interfaces[n] \in Word
    BY NamesDiffer, ElementOfSeq, LenProperties
  <2> QED BY <2>1 DEF Ifaces, ToSet
<1>3. p.endpoint.kind # "none" => p.endpoint.ip \in Word /\ p.endpoint.port \in Word
  BY DEF Peer
<1>4. None \notin Word
  BY DEF Word
<1>5. (EpOf(p).remote_ip # None) = (p.endpoint.kind # "none") /\ (EpOf(p).remote_port # None) = (p.endpoint.kind # "none")
  BY <1>3, <1>4 DEF EpOf
<1>6. Reached(p) => EpOf(p).remote_ip = p.endpoint.ip /\ EpOf(p).remote_port = p.endpoint.port
  BY DEF Reached, EpOf
<1> QED BY <1>1, <1>2, <1>3, <1>5, <1>6 DEF Reached, EpOf

LEMMA OneBlock ==
  ASSUME NEW p, NEW c \in BOOLEAN, NEW name, NEW v, c => Settled(name, v), NEW plain, NEW tame
  PROVE  Block(If(c, <<Written(name, v)>>), If(c, << <<name, v>> >>), IF c THEN {<<name, v>>} ELSE {}, Proper(plain, tame))
<1> DEFINE e == Written(name, v)
           P == Proper(plain, tame)
           l == <<name, v>>
<1>1. c => Block(<<e>>, <<l>>, {l}, P)
  <2> SUFFICES ASSUME c PROVE Block(<<e>>, <<l>>, {l}, P)
    OBVIOUS
  <2>1. e \in Entry /\ e \in P /\ Shown(e) = l /\ e.name = name /\ e.value = v
    BY SettledProper
  <2>2. Block(<<e>>, <<Shown(e)>>, {<<e.name, e.value>>}, P)
    <3> HIDE DEF e, P
    <3> QED BY <2>1, BlockOne
  <2> HIDE DEF e, P
  <2> QED BY <2>1, <2>2
<1> HIDE DEF e, P, l
<1> QED BY <1>1, BlockIf DEF e, P, l

LEMMA Blocks ==
  ASSUME options \in OptionSet, NEW p, Known(p), NEW plain \in BOOLEAN, NEW tame \in BOOLEAN, Fitting(p, plain, tame)
  PROVE  LET P == Proper(plain, tame)
             ep == EpOf(p)
             desc == Keep(Desc(p))
         IN  /\ Block(First(p), << <<"interface", <<p.iface>> >>, <<"public_key", <<ep.public_key>> >> >>, FirstSays(p), P)
             /\ Block(If(~options.split, <<Ips(p)>>), If(~options.split, << <<"allowed_ips", ep.allowed_ips>> >>), IpsSay(p), P)
             /\ Block(If(Desc(p).tag = "name", <<Friendly(p)>>), If(desc.tag = "name", << <<"friendly_name", desc.name>> >>),
                      FriendlySays(p), P)
             /\ Block(If(Reached(p), <<RemoteIp(p)>>),
                      If(options.remote /\ ep.remote_ip # None, << <<"remote_ip", <<ep.remote_ip>> >> >>), RemoteIpSays(p), P)
             /\ Block(If(options.split, AddressEntries(p.allowed)), If(options.split, SplitLabels(ep.allowed_ips)),
                      AddressesSay(p), P)
             /\ Block(If(Desc(p).tag = "json", JsonEntries(p)), If(desc.tag = "json", JsonLabels(desc.json)),
                      JsonEntriesSay(p), P)
             /\ Block(If(Reached(p), <<RemotePort(p)>>),
                      If(options.remote /\ ep.remote_port # None, << <<"remote_port", <<ep.remote_port>> >> >>),
                      RemotePortSays(p), P)
<1> DEFINE P == Proper(plain, tame)
           ep == EpOf(p)
           desc == Keep(Desc(p))
<1>0. p \in Peer /\ options.split \in BOOLEAN /\ options.remote \in BOOLEAN
  BY NamesDiffer DEF Known
<1>1. /\ p.iface \in Word /\ p.key \in Word /\ p.allowed \in Seq(Net)
      /\ p.endpoint.kind # "none" => p.endpoint.ip \in Word /\ p.endpoint.port \in Word
      /\ (options.remote /\ ep.remote_ip # None) = Reached(p)
      /\ (options.remote /\ ep.remote_port # None) = Reached(p)
      /\ Reached(p) => ep.remote_ip = p.endpoint.ip /\ ep.remote_port = p.endpoint.port
      /\ ep.public_key = p.key /\ ep.allowed_ips = PrintAllowed(p.allowed)
  BY <1>0, RemoteIs
<1>2. /\ \A name \in LabelNames : name \in Tokens /\ name \notin Punctuation
      /\ {"interface", "public_key", "allowed_ips", "remote_ip", "remote_port", "friendly_name"} = LabelNames
  BY NameTokens DEF LabelNames
<1>3. Reached(p) \in BOOLEAN
  BY <1>0 DEF Reached
<1>4. \A w \in Word : \A name \in LabelNames : name # "friendly_name" => Settled(name, <<w>>)
  BY <1>2, WordSettles
<1> HIDE DEF ep, P
<1>5. Block(First(p), << <<"interface", <<p.iface>> >>, <<"public_key", <<ep.public_key>> >> >>, FirstSays(p), P)
  <2> DEFINE x == "interface"
             y == "public_key"
             u == <<p.iface>>
             v == <<p.key>>
             e == Written(x, u)
             f == Written(y, v)
  <2>1. Settled(x, u) /\ Settled(y, v) /\ x # y
    BY <1>1, <1>2, <1>4
  <2> HIDE DEF x, y, u, v
  <2>2. /\ e \in Entry /\ e \in P /\ Shown(e) = <<x, u>> /\ e.name = x /\ e.value = u
        /\ f \in Entry /\ f \in P /\ Shown(f) = <<y, v>> /\ f.name = y /\ f.value = v
    BY <2>1, SettledProper DEF P
  <2> HIDE DEF e, f
  <2>3. Block(<<e, f>>, <<Shown(e), Shown(f)>>, {<<e.name, e.value>>, <<f.name, f.value>>}, P)
    BY <2>1, <2>2, BlockTwo
  <2>4. Block(<<e, f>>, << <<x, u>>, <<y, v>> >>, {<<x, u>>, <<y, v>>}, P)
    BY <2>2, <2>3
  <2>5. First(p) = <<e, f>> /\ FirstSays(p) = {<<x, u>>, <<y, v>>}
    BY Zenon DEF First, FirstSays, e, f, x, y, u, v
  <2>6. << <<"interface", <<p.iface>> >>, <<"public_key", <<ep.public_key>> >> >> = << <<x, u>>, <<y, v>> >>
    BY <1>1, Zenon DEF x, y, u, v
  <2> QED BY <2>4, <2>5, <2>6, Zenon
<1>6. Block(If(~options.split, <<Ips(p)>>), If(~options.split, << <<"allowed_ips", ep.allowed_ips>> >>), IpsSay(p), P)
  <2> DEFINE v == PrintAllowed(p.allowed)
             x == "allowed_ips"
             c == ~options.split
  <2>1. Settled(x, v) /\ c \in BOOLEAN
    BY <1>0, <1>1, PrintedSettles
  <2> HIDE DEF v, x, c
  <2>2. Block(If(c, <<Written(x, v)>>), If(c, << <<x, v>> >>), IF c THEN {<<x, v>>} ELSE {}, P)
    BY <2>1, OneBlock DEF P
  <2>3. Ips(p) = Written(x, v) /\ ep.allowed_ips = v
    BY <1>1 DEF Ips, x, v
  <2>4. IpsSay(p) = IF c THEN {<<x, v>>} ELSE {}
    BY Zenon DEF IpsSay, c, x, v
  <2> QED BY <2>2, <2>3, <2>4, Zenon DEF x, c
<1>7. Block(If(Reached(p), <<RemoteIp(p)>>),
            If(options.remote /\ ep.remote_ip # None, << <<"remote_ip", <<ep.remote_ip>> >> >>), RemoteIpSays(p), P)
  <2> DEFINE v == <<p.endpoint.ip>>
             x == "remote_ip"
             c == Reached(p)
             g == options.remote /\ ep.remote_ip # None
  <2>1. c => Settled(x, v)
    BY <1>1, <1>2, <1>4 DEF Reached
  <2>2. c \in BOOLEAN /\ g = c
    BY <1>1, <1>3
  <2>3. If(g, << <<x, <<ep.remote_ip>> >> >>) = If(c, << <<x, v>> >>)
    BY <1>1, <2>2 DEF If
  <2> HIDE DEF v, x, c, g
  <2>4. Block(If(c, <<Written(x, v)>>), If(c, << <<x, v>> >>), IF c THEN {<<x, v>>} ELSE {}, P)
    BY <2>1, <2>2, OneBlock DEF P
  <2>5. RemoteIp(p) = Written(x, v) /\ RemoteIpSays(p) = IF c THEN {<<x, v>>} ELSE {}
    BY Zenon DEF RemoteIp, RemoteIpSays, x, v, c
  <2> QED BY <2>3, <2>4, <2>5, Zenon DEF x, c, g
<1>8. Block(If(Reached(p), <<RemotePort(p)>>),
            If(options.remote /\ ep.remote_port # None, << <<"remote_port", <<ep.remote_port>> >> >>), RemotePortSays(p), P)
  <2> DEFINE v == <<p.endpoint.port>>
             x == "remote_port"
             c == Reached(p)
             g == options.remote /\ ep.remote_port # None
  <2>1. c => Settled(x, v)
    BY <1>1, <1>2, <1>4 DEF Reached
  <2>2. c \in BOOLEAN /\ g = c
    BY <1>1, <1>3
  <2>3. If(g, << <<x, <<ep.remote_port>> >> >>) = If(c, << <<x, v>> >>)
    BY <1>1, <2>2 DEF If
  <2> HIDE DEF v, x, c, g
  <2>4. Block(If(c, <<Written(x, v)>>), If(c, << <<x, v>> >>), IF c THEN {<<x, v>>} ELSE {}, P)
    BY <2>1, <2>2, OneBlock DEF P
  <2>5. RemotePort(p) = Written(x, v) /\ RemotePortSays(p) = IF c THEN {<<x, v>>} ELSE {}
    BY Zenon DEF RemotePort, RemotePortSays, x, v, c
  <2> QED BY <2>3, <2>4, <2>5, Zenon DEF x, c, g
<1>9. Block(If(options.split, AddressEntries(p.allowed)), If(options.split, SplitLabels(ep.allowed_ips)), AddressesSay(p), P)
  <2> DEFINE c == options.split
             es == AddressEntries(p.allowed)
             ls == SplitLabels(ep.allowed_ips)
             B == AllAddresses(p.allowed)
  <2>1. c \in BOOLEAN
    BY <1>0
  <2>2. c => Block(es, ls, B, P)
    <3> SUFFICES ASSUME c PROVE Block(es, ls, B, P)
      OBVIOUS
    <3>1. p.allowed # <<>> /\ Len(p.allowed) <= MaxNumber
      BY DEF Known, Unprintable
    <3>2. ls = AddressTexts(p.allowed)
      BY <1>1, <3>1, AddressLabels
    <3>3. Block(AddressEntries(p.allowed), AddressTexts(p.allowed), AllAddresses(p.allowed), P)
      BY <1>1, <3>1, AddressBlock DEF P
    <3> QED BY <3>2, <3>3, Zenon
  <2> HIDE DEF c, es, ls, B
  <2>3. Block(If(c, es), If(c, ls), IF c THEN B ELSE {}, P)
    BY <2>1, <2>2, BlockIf
  <2> QED BY <2>3, Zenon DEF c, es, ls, B, AddressesSay
<1>10. Block(If(Desc(p).tag = "name", <<Friendly(p)>>), If(desc.tag = "name", << <<"friendly_name", desc.name>> >>), FriendlySays(p), P)
  <2> DEFINE c == Desc(p).tag = "name"
             v == Desc(p).name
             x == "friendly_name"
             e == Friendly(p)
             l == <<x, desc.name>>
  <2>1. desc.tag = Desc(p).tag
    BY DescriptionIs
  <2>2. c => Block(<<e>>, <<l>>, {<<x, v>>}, P)
    <3> SUFFICES ASSUME c PROVE Block(<<e>>, <<l>>, {<<x, v>>}, P)
      OBVIOUS
    <3>1. v \in Seq(STRING \ {NewLine}) /\ desc.name = Escape("name", v)
      BY DescriptionIs
    <3>2. e.name = x /\ e.tag = "name" /\ e.value = v
      BY DEF Friendly
    <3>3. v \in Seq(Tokens) /\ \A n \in DOMAIN v : v[n] # NewLine
      <4> HIDE DEF v
      <4>1. \A A, B : A \subseteq B => Seq(A) \subseteq Seq(B)
        OBVIOUS
      <4>2. STRING \ {NewLine} \subseteq Tokens
        BY Zenon DEF Tokens
      <4>3. \A n \in DOMAIN v : v[n] \in STRING \ {NewLine}
        BY <3>1, ElementOfSeq, LenProperties
      <4> QED BY <3>1, <4>1, <4>2, <4>3
    <3>4. x \in Tokens /\ x \notin Punctuation
      BY <1>2
    <3>5. e \in Entry
      BY <3>3, <3>4 DEF Friendly, Entry
    <3>6. plain => Plain(e.tag, e.value)
      BY <3>2 DEF Fitting, Harmless
    <3>7. Tame(e)
      BY <3>2, <3>3 DEF Tame
    <3>8. e \in P
      BY <3>2, <3>4, <3>5, <3>6, <3>7 DEF Proper, P
    <3>9. Shown(e) = l
      BY <3>1, <3>2 DEF Shown
    <3> HIDE DEF e, l, x, v
    <3>10. Block(<<e>>, <<Shown(e)>>, {<<e.name, e.value>>}, P)
      BY <3>5, <3>8, BlockOne
    <3> QED BY <3>2, <3>9, <3>10
  <2>3. c \in BOOLEAN
    OBVIOUS
  <2> HIDE DEF c, v, x, e, l
  <2>4. Block(If(c, <<e>>), If(c, <<l>>), IF c THEN {<<x, v>>} ELSE {}, P)
    <3> DEFINE es == <<e>>
               ls == <<l>>
               B == {<<x, v>>}
    <3> HIDE DEF es, ls, B
    <3>1. c => Block(es, ls, B, P)
      BY <2>2 DEF es, ls, B
    <3> QED BY <2>3, <3>1, BlockIf DEF es, ls, B
  <2> QED BY <2>1, <2>4, Zenon DEF c, v, x, e, l, FriendlySays
<1>11. Block(If(Desc(p).tag = "json", JsonEntries(p)), If(desc.tag = "json", JsonLabels(desc.json)), JsonEntriesSay(p), P)
  <2> DEFINE c == Desc(p).tag = "json"
             json == Desc(p).json
             es == JsonEntries(p)
             ls == JsonLabels(desc.json)
             B == {<<k, json[k]>> : k \in DOMAIN json}
  <2>1. desc.tag = Desc(p).tag
    BY DescriptionIs
  <2>2. c => Block(es, ls, B, P)
    <3> SUFFICES ASSUME c PROVE Block(es, ls, B, P)
      OBVIOUS
    <3>1. IsJson(json) /\ desc.json = json
      BY DescriptionIs
    <3>2. tame = FALSE /\ Harmless(p)
      BY DEF Fitting
    <3>3. Labelled(json)
      BY <3>2 DEF Harmless, Labelled
    <3>4. Block(Image(JsonEntry(json), JsonNames(json, JsonKeys)), JsonLabels(json),
               {<<k, json[k]>> : k \in DOMAIN json}, Proper(plain, FALSE))
      <4> HIDE DEF json
      <4> QED BY <3>1, <3>3, JsonAll
    <3> QED BY <3>1, <3>2, <3>4, Zenon DEF JsonEntries, P
  <2>3. c \in BOOLEAN
    OBVIOUS
  <2> HIDE DEF c, es, ls, B
  <2>4. Block(If(c, es), If(c, ls), IF c THEN B ELSE {}, P)
    BY <2>2, <2>3, BlockIf
  <2> QED BY <2>1, <2>4, Zenon DEF c, es, ls, B, JsonEntriesSay
<1> QED BY <1>5, <1>6, <1>7, <1>8, <1>9, <1>10, <1>11 DEF P, ep

(***************************************************************************)
(* The entries of a peer are its labels.                                   *)
(***************************************************************************)
LEMMA NamesApart ==
  /\ \A B, C : Apart(B, C) <=> NamesOf(B) \cap NamesOf(C) = {}
  /\ \A B, C : NamesOf(B \cup C) = NamesOf(B) \cup NamesOf(C)
<1>1. \A B, C : Apart(B, C) <=> NamesOf(B) \cap NamesOf(C) = {}
  BY DEF Apart, NamesOf
<1>2. \A B, C : NamesOf(B \cup C) = NamesOf(B) \cup NamesOf(C)
  BY DEF NamesOf
<1> QED BY <1>1, <1>2

LEMMA SaysAll ==
  ASSUME options \in OptionSet, NEW p, Known(p)
  PROVE  /\ OwnLabels(p) = ((FirstSays(p) \cup IpsSay(p)) \cup RemoteIpSays(p)) \cup (AddressesSay(p) \cup RemotePortSays(p))
         /\ Description(p) = FriendlySays(p) \cup JsonEntriesSay(p)
<1>0. options.split \in BOOLEAN /\ options.remote \in BOOLEAN
  BY NamesDiffer
<1>1. Addresses(p) = AllAddresses(p.allowed)
  BY DEF Addresses, AllAddresses, AddressSays
<1>2. (IF options.split THEN Addresses(p) ELSE {<<"allowed_ips", PrintAllowed(p.allowed)>>}) = IpsSay(p) \cup AddressesSay(p)
  BY <1>0, <1>1 DEF IpsSay, AddressesSay
<1>3. (IF options.remote THEN Remote(p) ELSE {}) = RemoteIpSays(p) \cup RemotePortSays(p)
  <2> DEFINE x == <<"remote_ip", <<p.endpoint.ip>> >>
             y == <<"remote_port", <<p.endpoint.port>> >>
  <2>1. RemoteIpSays(p) = (IF Reached(p) THEN {x} ELSE {}) /\ RemotePortSays(p) = (IF Reached(p) THEN {y} ELSE {})
    BY DEF RemoteIpSays, RemotePortSays
  <2>2. Remote(p) = IF p.endpoint.kind = "none" THEN {} ELSE {x, y}
    BY DEF Remote
  <2> HIDE DEF x, y
  <2> QED BY <1>0, <2>1, <2>2 DEF Reached
<1>4. OwnLabels(p) = (FirstSays(p) \cup (IpsSay(p) \cup AddressesSay(p))) \cup (RemoteIpSays(p) \cup RemotePortSays(p))
  BY <1>2, <1>3, Zenon DEF OwnLabels, FirstSays
<1>5. Description(p) = FriendlySays(p) \cup JsonEntriesSay(p)
  <2> DEFINE x == {<<"friendly_name", Desc(p).name>>}
             y == {<<k, Desc(p).json[k]>> : k \in DOMAIN Desc(p).json}
             t == Desc(p).tag
  <2>1. t \in {"none", "name", "json"}
    BY DescriptionIs
  <2>2. Description(p) = CASE t = "none" -> {} [] t = "name" -> x [] t = "json" -> y
    BY Zenon DEF Description
  <2>3. FriendlySays(p) = (IF t = "name" THEN x ELSE {}) /\ JsonEntriesSay(p) = (IF t = "json" THEN y ELSE {})
    BY DEF FriendlySays, JsonEntriesSay
  <2> HIDE DEF x, y, t
  <2> QED BY <2>1, <2>2, <2>3
<1> QED BY <1>4, <1>5

LEMMA SaysApart ==
  ASSUME options \in OptionSet, NEW p, Known(p), NEW plain \in BOOLEAN, NEW tame \in BOOLEAN, Fitting(p, plain, tame)
  PROVE  /\ Apart(FirstSays(p), IpsSay(p))
         /\ Apart(FirstSays(p) \cup IpsSay(p), FriendlySays(p))
         /\ Apart((FirstSays(p) \cup IpsSay(p)) \cup FriendlySays(p), RemoteIpSays(p))
         /\ Apart(AddressesSay(p), JsonEntriesSay(p))
         /\ Apart(AddressesSay(p) \cup JsonEntriesSay(p), RemotePortSays(p))
         /\ Apart(((FirstSays(p) \cup IpsSay(p)) \cup FriendlySays(p)) \cup RemoteIpSays(p),
                  (AddressesSay(p) \cup JsonEntriesSay(p)) \cup RemotePortSays(p))
<1> DEFINE N1 == NamesOf(FirstSays(p))
           N2 == NamesOf(IpsSay(p))
           N3 == NamesOf(FriendlySays(p))
           N4 == NamesOf(RemoteIpSays(p))
           N5 == NamesOf(AddressesSay(p))
           N6 == NamesOf(JsonEntriesSay(p))
           N7 == NamesOf(RemotePortSays(p))
<1>1. /\ N1 \subseteq {"interface", "public_key"} /\ N2 \subseteq {"allowed_ips"} /\ N3 \subseteq {"friendly_name"}
      /\ N4 \subseteq {"remote_ip"} /\ N7 \subseteq {"remote_port"}
  BY DEF NamesOf, FirstSays, IpsSay, FriendlySays, RemoteIpSays, RemotePortSays
<1>2. N5 \cap LabelNames = {}
  <2> SUFFICES ASSUME NEW x \in AddressesSay(p) PROVE x[1] \notin LabelNames
    BY DEF NamesOf
  <2>1. PICK n \in DOMAIN p.allowed : x \in AddressSays(n, p.allowed[n])
    BY DEF AddressesSay, AllAddresses
  <2>2. n - 1 \in 0 .. MaxNumber
    <3>1. p.allowed \in Seq(Net) /\ Len(p.allowed) <= MaxNumber
      BY RemoteIs DEF Known
    <3>2. n \in 1 .. Len(p.allowed) /\ Len(p.allowed) \in Nat
      BY <3>1, LenProperties
    <3> QED BY <3>1, <3>2, NumbersDiffer
  <2>3. "allowed_ip_" \in AddressNames /\ "allowed_subnet_" \in AddressNames
    BY DEF AddressNames
  <2>4. x[1] \in {AddressLabel("allowed_ip_", n - 1), AddressLabel("allowed_subnet_", n - 1)}
    BY <2>1 DEF AddressSays
  <2> QED BY <2>2, <2>3, <2>4, NameTokens
<1>3. N6 \cap (N1 \cup N2 \cup N4 \cup N5 \cup N7) = {}
  <2> SUFFICES ASSUME NEW k \in N6, NEW l \in (FirstSays(p) \cup IpsSay(p)) \cup RemoteIpSays(p) \cup (AddressesSay(p) \cup RemotePortSays(p)), l[1] = k
               PROVE  FALSE
    BY DEF NamesOf
  <2>1. Desc(p).tag = "json" /\ k \in DOMAIN Desc(p).json
    <3>1. JsonEntriesSay(p) # {}
      BY DEF NamesOf
    <3>2. Desc(p).tag = "json"
      BY <3>1 DEF JsonEntriesSay
    <3>3. JsonEntriesSay(p) = {<<x, Desc(p).json[x]>> : x \in DOMAIN Desc(p).json}
      BY <3>2 DEF JsonEntriesSay
    <3> QED BY <3>2, <3>3 DEF NamesOf
  <2>2. Harmless(p)
    BY <2>1 DEF Fitting
  <2>3. l \in OwnLabels(p)
    BY SaysAll
  <2>4. l[1] # k
    BY <2>1, <2>2, <2>3 DEF Harmless
  <2> QED BY <2>4
<1>4. N3 \cap N6 = {}
  <2>1. Desc(p).tag = "name" => JsonEntriesSay(p) = {}
    BY DEF JsonEntriesSay
  <2>2. Desc(p).tag # "name" => FriendlySays(p) = {}
    BY DEF FriendlySays
  <2> QED BY <2>1, <2>2 DEF NamesOf
<1> HIDE DEF N1, N2, N3, N4, N5, N6, N7
<1>5. /\ N1 \cap N2 = {} /\ (N1 \cup N2) \cap N3 = {} /\ ((N1 \cup N2) \cup N3) \cap N4 = {}
      /\ N5 \cap N6 = {} /\ (N5 \cup N6) \cap N7 = {} /\ (((N1 \cup N2) \cup N3) \cup N4) \cap ((N5 \cup N6) \cup N7) = {}
  BY <1>1, <1>2, <1>3, <1>4 DEF LabelNames
<1> DEFINE b1 == FirstSays(p)
           b2 == IpsSay(p)
           b3 == FriendlySays(p)
           b4 == RemoteIpSays(p)
           b5 == AddressesSay(p)
           b6 == JsonEntriesSay(p)
           b7 == RemotePortSays(p)
<1>6. /\ NamesOf(b1) = N1 /\ NamesOf(b2) = N2 /\ NamesOf(b3) = N3 /\ NamesOf(b4) = N4
      /\ NamesOf(b5) = N5 /\ NamesOf(b6) = N6 /\ NamesOf(b7) = N7
  BY DEF N1, N2, N3, N4, N5, N6, N7
<1> HIDE DEF b1, b2, b3, b4, b5, b6, b7
<1>7. /\ NamesOf(b1 \cup b2) = N1 \cup N2 /\ NamesOf((b1 \cup b2) \cup b3) = (N1 \cup N2) \cup N3
      /\ NamesOf(((b1 \cup b2) \cup b3) \cup b4) = ((N1 \cup N2) \cup N3) \cup N4
      /\ NamesOf(b5 \cup b6) = N5 \cup N6 /\ NamesOf((b5 \cup b6) \cup b7) = (N5 \cup N6) \cup N7
  <2>0. \A B, C : NamesOf(B \cup C) = NamesOf(B) \cup NamesOf(C)
    BY NamesApart, Zenon
  <2>1. NamesOf(b1 \cup b2) = N1 \cup N2
    BY <1>6, <2>0
  <2>2. NamesOf((b1 \cup b2) \cup b3) = (N1 \cup N2) \cup N3
    BY <1>6, <2>0, <2>1
  <2>3. NamesOf(((b1 \cup b2) \cup b3) \cup b4) = ((N1 \cup N2) \cup N3) \cup N4
    BY <1>6, <2>0, <2>2
  <2>4. NamesOf(b5 \cup b6) = N5 \cup N6
    BY <1>6, <2>0
  <2>5. NamesOf((b5 \cup b6) \cup b7) = (N5 \cup N6) \cup N7
    BY <1>6, <2>0, <2>4
  <2> QED BY <2>1, <2>2, <2>3, <2>4, <2>5
<1>8. /\ Apart(b1, b2) /\ Apart(b1 \cup b2, b3) /\ Apart((b1 \cup b2) \cup b3, b4) /\ Apart(b5, b6)
      /\ Apart(b5 \cup b6, b7) /\ Apart(((b1 \cup b2) \cup b3) \cup b4, (b5 \cup b6) \cup b7)
  BY <1>5, <1>6, <1>7, NamesApart, Zenon
<1> QED BY <1>8 DEF b1, b2, b3, b4, b5, b6, b7

LEMMA EntriesAre ==
  ASSUME options \in OptionSet, NEW p, Known(p), NEW plain \in BOOLEAN, NEW tame \in BOOLEAN, Fitting(p, plain, tame)
  PROVE  Block(Entries(p), Labels(p.iface, EpOf(p), Keep(Desc(p)), options), OwnLabels(p) \cup Description(p), Proper(plain, tame))
<1> DEFINE P == Proper(plain, tame)
           ep == EpOf(p)
           desc == Keep(Desc(p))
           e1 == First(p)
           l1 == << <<"interface", <<p.iface>> >>, <<"public_key", <<ep.public_key>> >> >>
           b1 == FirstSays(p)
           e2 == If(~options.split, <<Ips(p)>>)
           l2 == If(~options.split, << <<"allowed_ips", ep.allowed_ips>> >>)
           b2 == IpsSay(p)
           e3 == If(Desc(p).tag = "name", <<Friendly(p)>>)
           l3 == If(desc.tag = "name", << <<"friendly_name", desc.name>> >>)
           b3 == FriendlySays(p)
           e4 == If(Reached(p), <<RemoteIp(p)>>)
           l4 == If(options.remote /\ ep.remote_ip # None, << <<"remote_ip", <<ep.remote_ip>> >> >>)
           b4 == RemoteIpSays(p)
           e5 == If(options.split, AddressEntries(p.allowed))
           l5 == If(options.split, SplitLabels(ep.allowed_ips))
           b5 == AddressesSay(p)
           e6 == If(Desc(p).tag = "json", JsonEntries(p))
           l6 == If(desc.tag = "json", JsonLabels(desc.json))
           b6 == JsonEntriesSay(p)
           e7 == If(Reached(p), <<RemotePort(p)>>)
           l7 == If(options.remote /\ ep.remote_port # None, << <<"remote_port", <<ep.remote_port>> >> >>)
           b7 == RemotePortSays(p)
<1>1. /\ Block(e1, l1, b1, P) /\ Block(e2, l2, b2, P) /\ Block(e3, l3, b3, P) /\ Block(e4, l4, b4, P)
      /\ Block(e5, l5, b5, P) /\ Block(e6, l6, b6, P) /\ Block(e7, l7, b7, P)
  BY Blocks
<1>2. /\ Apart(b1, b2) /\ Apart(b1 \cup b2, b3) /\ Apart((b1 \cup b2) \cup b3, b4) /\ Apart(b5, b6) /\ Apart(b5 \cup b6, b7)
      /\ Apart(((b1 \cup b2) \cup b3) \cup b4, (b5 \cup b6) \cup b7)
  BY SaysApart
<1>3. Entries(p) = (((e1 \o e2) \o e3) \o e4) \o ((e5 \o e6) \o e7)
  BY Zenon DEF Entries
<1>4. Labels(p.iface, ep, desc, options) = (((l1 \o l2) \o l3) \o l4) \o ((l5 \o l6) \o l7)
  BY Zenon DEF Labels
<1>5. OwnLabels(p) \cup Description(p) = (((b1 \cup b2) \cup b3) \cup b4) \cup ((b5 \cup b6) \cup b7)
  <2>1. OwnLabels(p) = ((b1 \cup b2) \cup b4) \cup (b5 \cup b7) /\ Description(p) = b3 \cup b6
    BY SaysAll
  <2> HIDE DEF b1, b2, b3, b4, b5, b6, b7
  <2> QED BY <2>1
<1> HIDE DEF P, ep, desc, e1, e2, e3, e4, e5, e6, e7, l1, l2, l3, l4, l5, l6, l7, b1, b2, b3, b4, b5, b6, b7
<1>6. Block(e1 \o e2, l1 \o l2, b1 \cup b2, P)
  BY <1>1, <1>2, BlockConcat
<1>7. Block((e1 \o e2) \o e3, (l1 \o l2) \o l3, (b1 \cup b2) \cup b3, P)
  BY <1>1, <1>2, <1>6, BlockConcat
<1>8. Block(((e1 \o e2) \o e3) \o e4, ((l1 \o l2) \o l3) \o l4, ((b1 \cup b2) \cup b3) \cup b4, P)
  BY <1>1, <1>2, <1>7, BlockConcat
<1>9. Block(e5 \o e6, l5 \o l6, b5 \cup b6, P)
  BY <1>1, <1>2, BlockConcat
<1>10. Block((e5 \o e6) \o e7, (l5 \o l6) \o l7, (b5 \cup b6) \cup b7, P)
  BY <1>1, <1>2, <1>9, BlockConcat
<1>11. Block((((e1 \o e2) \o e3) \o e4) \o ((e5 \o e6) \o e7), (((l1 \o l2) \o l3) \o l4) \o ((l5 \o l6) \o l7),
             (((b1 \cup b2) \cup b3) \cup b4) \cup ((b5 \cup b6) \cup b7), P)
  BY <1>2, <1>8, <1>10, BlockConcat
<1>12. Block(Entries(p), Labels(p.iface, ep, desc, options), OwnLabels(p) \cup Description(p), P)
  BY <1>3, <1>4, <1>5, <1>11, Zenon
<1> QED BY <1>12 DEF P, ep, desc

(***************************************************************************)
(* The rows of the peers.                                                  *)
(***************************************************************************)
Knowns == {p \in Peer : Known(p)}
Datum(f, p) == [labels |-> Entries(p), number |-> Decimal(Held(p, f))]
DatumFn(f) == [p \in Knowns |-> Datum(f, p)]
MeantOf(f, p) == [family |-> FullName[f], labels |-> OwnLabels(p) \cup Description(p), value |-> Decimal(Held(p, f))]

LEMMA SeqWithin ==
  ASSUME NEW A, NEW B, NEW s \in Seq(A), \A n \in DOMAIN s : s[n] \in B
  PROVE  s \in Seq(B)
<1>1. s \in [1 .. Len(s) -> A] /\ Len(s) \in Nat /\ DOMAIN s = 1 .. Len(s)
  BY LenProperties
<1>2. s \in [1 .. Len(s) -> B]
  BY <1>1
<1> QED BY <1>1, <1>2

LEMMA PeersListed ==
  ASSUME Chosen
  PROVE  Peers \in Seq({p \in Peer : IsDescription(Desc(p)) /\ Len(p.allowed) <= MaxNumber})
<1> DEFINE A == {p \in Peer : IsDescription(Desc(p)) /\ Len(p.allowed) <= MaxNumber}
           Els(s) == {s[n] : n \in DOMAIN s}
<1>1. world.peers \in Seq(Peer) /\ \A n \in DOMAIN world.peers : world.peers[n] \in A
  <2>1. world \in Worlds
    BY DEF Chosen
  <2>2. /\ world.peers \in Seq(Peer)
        /\ \A n \in DOMAIN world.peers : /\ IsDescription(world.table[world.peers[n].key])
                                         /\ Len(world.peers[n].allowed) <= MaxNumber
    BY <2>1, KernelAndFiles
  <2>3. \A n \in DOMAIN world.peers : world.peers[n] \in Peer
    BY <2>2, ElementOfSeq, LenProperties
  <2> QED BY <2>2, <2>3 DEF Desc
<1> HIDE DEF A
<1>2. \A i \in Ifaces : PeersIn(i) \in Seq(A)
  <2> TAKE i \in Ifaces
  <2> DEFINE s == PeersIn(i)
             w == world.peers
             g == Gather(Select(Peer, Of(i)), w)
  <2>1. s \in Seq(Peer) /\ s = g
    BY PeersInAre DEF Chosen
  <2>2. Els(g) = Els(w) \cap Of(i)
    BY <1>1, SelectSet
  <2> HIDE DEF g, s, w
  <2>3. \A n \in DOMAIN s : s[n] \in A
    BY <1>1, <2>1, <2>2 DEF w
  <2> QED BY <2>1, <2>3, SeqWithin DEF s
<1>3. Dumped \in Seq(Ifaces)
  BY DumpedAre DEF Chosen
<1> DEFINE ss == [n \in DOMAIN Dumped |-> PeersIn(Dumped[n])]
           D == [i \in Ifaces |-> PeersIn(i)]
           Q == Seq(A)
<1>4. ss \in Seq(Q)
  <2>1. Takes(D, Ifaces, Q)
    BY <1>2 DEF Takes
  <2>2. ss = Image(D, Dumped)
    <3>1. \A n \in DOMAIN Dumped : Dumped[n] \in Ifaces
      BY <1>3, ElementOfSeq, LenProperties
    <3> QED BY <3>1 DEF Image
  <2> HIDE DEF ss, D, Q
  <2> QED BY <1>3, <2>1, <2>2, ImageType
<1> HIDE DEF ss
<1>5. FlattenSeq(ss) \in Seq(A)
  BY <1>4, FlattenType
<1> QED BY <1>5 DEF Peers, ss, A

LEMMA PeersKnown ==
  ASSUME Chosen, ~SomeUnprintable
  PROVE  Peers \in Seq(Knowns)
<1> DEFINE A == {p \in Peer : IsDescription(Desc(p)) /\ Len(p.allowed) <= MaxNumber}
           P == Peers
<1>1. P \in Seq(A)
  BY PeersListed
<1>2. \A n \in DOMAIN P : P[n] \in A
  <2> HIDE DEF P, A
  <2> QED BY <1>1, ElementOfSeq, LenProperties
<1>3. \A n \in DOMAIN P : ~Unprintable(P[n])
  BY DEF SomeUnprintable
<1>4. \A n \in DOMAIN P : P[n] \in Knowns
  <2> HIDE DEF P
  <2> QED BY <1>2, <1>3 DEF Knowns, Known
<1> HIDE DEF A, P
<1>5. P \in Seq(Knowns)
  BY <1>1, <1>4, SeqWithin
<1> QED BY <1>5 DEF P

(* The numbers.                                                            *)
LEMMA Numbers ==
  ASSUME NEW p \in Peer, NEW f \in {"sent", "received", "handshake", "delay"}, f = "delay" => p.hs <= Now
  PROVE  /\ Value(EpOf(p), f) = Held(p, f) /\ Decimal(Held(p, f)) \in Tokens /\ Decimal(Held(p, f)) \notin Punctuation
<1>1. /\ EpOf(p).sent_bytes = p.tx /\ EpOf(p).received_bytes = p.rx /\ EpOf(p).latest_handshake = p.hs
  BY DEF EpOf
<1>2. Value(EpOf(p), f) = Held(p, f)
  BY <1>1 DEF Value, Held
<1>3. p.tx \in 0 .. MaxNumber /\ p.rx \in 0 .. MaxNumber /\ p.hs \in 0 .. MaxNumber
  BY DEF Peer
<1>4. Held(p, f) \in 0 .. MaxNumber
  <2>1. MaxNumber \in Nat /\ Now \in 0 .. MaxNumber
    BY NumbersDiffer
  <2> QED BY <1>3, <2>1 DEF Held
<1>5. Decimal(Held(p, f)) \in Word
  <2> DEFINE n == Held(p, f)
  <2>1. n \in 0 .. MaxNumber
    BY <1>4
  <2> HIDE DEF n
  <2> QED BY <2>1, NumbersDiffer DEF n
<1>6. Word \subseteq Tokens /\ \A w \in Word : w \notin Punctuation
  BY Zenon DEF Word, Tokens
<1> QED BY <1>2, <1>5, <1>6

(***************************************************************************)
(* The families of the response.                                           *)
(***************************************************************************)
FamilyNames == {"sent", "received", "handshake", "delay"}
TypeIs(f) == IF f \in {"sent", "received"} THEN "counter" ELSE "gauge"
FamOf(f) == [name |-> FullName[f], help |-> HelpOf(f), type |-> TypeIs(f), rows |-> Image(DatumFn(f), Peers)]
FamFn == [f \in FamilyNames |-> FamOf(f)]
AllMeant == {Meant(f)[n] : n \in DOMAIN Peers, f \in ToSet(Exported)}
Told(plain, tame) ==
  /\ plain \/ tame
  /\ plain => \A n \in DOMAIN Peers : Harmless(Peers[n])
  /\ tame => \A n \in DOMAIN Peers : Desc(Peers[n]).tag # "json"

LEMMA LabelsRender ==
  ASSUME NEW es \in Seq(Entry), es # <<>>, NEW value
  PROVE  /\ Image(ShownFn, es) # <<>>
         /\ RenderInstance(Image(ShownFn, es), value)
              = ((<<"{">> \o LabelsText(es)) \o <<"}">>) \o <<" ", Decimal(value)>>
<1> DEFINE ls == Image(ShownFn, es)
<1>1. DOMAIN ls = DOMAIN es
  BY DEF Image
<1>2. \A n \in DOMAIN es : ls[n] = Shown(es[n])
  <2>1. \A n \in DOMAIN es : es[n] \in Entry
    BY ElementOfSeq, LenProperties
  <2> QED BY <2>1 DEF Image, ShownFn
<1>3. ls # <<>>
  <2>1. DOMAIN es # {}
    <3>1. Len(es) # 0 /\ DOMAIN es = 1 .. Len(es) /\ Len(es) \in Nat
      BY EmptySeq, LenProperties
    <3>2. 1 \in DOMAIN es
      <4> DEFINE k == Len(es)
      <4>1. k # 0 /\ k \in Nat /\ DOMAIN es = 1 .. k
        BY <3>1
      <4> HIDE DEF k
      <4> QED BY <4>1
    <3> QED BY <3>2
  <2>2. DOMAIN <<>> = {}
    OBVIOUS
  <2> HIDE DEF ls
  <2> QED BY <1>1, <2>1, <2>2
<1>4. [n \in DOMAIN ls |-> (IF n = 1 THEN <<>> ELSE <<",">>) \o RenderLabel(ls[n])]
        = [n \in DOMAIN es |-> (IF n = 1 THEN <<>> ELSE <<",">>) \o RenderLabel(Shown(es[n]))]
  <2> HIDE DEF ls
  <2> QED BY <1>1, <1>2, Zenon
<1>5. FlattenSeq([n \in DOMAIN ls |-> (IF n = 1 THEN <<>> ELSE <<",">>) \o RenderLabel(ls[n])]) = LabelsText(es)
  BY <1>4, Zenon DEF LabelsText
<1> HIDE DEF ls
<1>6. RenderInstance(ls, value) = ((<<"{">> \o LabelsText(es)) \o <<"}">>) \o <<" ", Decimal(value)>>
  <2> DEFINE x == FlattenSeq([n \in DOMAIN ls |-> (IF n = 1 THEN <<>> ELSE <<",">>) \o RenderLabel(ls[n])])
  <2>1. RenderInstance(ls, value) = (IF ls = <<>> THEN <<>> ELSE (<<"{">> \o x) \o <<"}">>) \o <<" ", Decimal(value)>>
    BY Zenon DEF RenderInstance
  <2>2. x = LabelsText(es)
    BY <1>5, Zenon
  <2> HIDE DEF x
  <2>3. (IF ls = <<>> THEN <<>> ELSE (<<"{">> \o x) \o <<"}">>) = (<<"{">> \o x) \o <<"}">>
    BY <1>3, Zenon
  <2> QED BY <2>1, <2>2, <2>3, Zenon
<1> QED BY <1>3, <1>6, Zenon DEF ls

LEMMA EntriesSay ==
  ASSUME options \in OptionSet, NEW p \in Knowns, NEW plain \in BOOLEAN, NEW tame \in BOOLEAN, Fitting(p, plain, tame)
  PROVE  /\ Entries(p) \in Seq(Entry) /\ Entries(p) # <<>> /\ Sane(Entries(p))
         /\ Image(ShownFn, Entries(p)) = Labels(p.iface, EpOf(p), Keep(Desc(p)), options)
         /\ Pairs(Entries(p)) = OwnLabels(p) \cup Description(p)
         /\ plain => AllPlain(Entries(p))
         /\ tame => AllTame(Entries(p))
<1> DEFINE es == Entries(p)
           ls == Labels(p.iface, EpOf(p), Keep(Desc(p)), options)
           B == OwnLabels(p) \cup Description(p)
<1>1. Block(es, ls, B, Proper(plain, tame))
  BY EntriesAre DEF Knowns
<1>2. <<"interface", <<p.iface>> >> \in B
  BY DEF OwnLabels
<1> HIDE DEF es, ls, B
<1>3. es \in Seq(Entry) /\ Image(ShownFn, es) = ls /\ Pairs(es) = B /\ Distinct(es)
      /\ \A n \in DOMAIN es : es[n] \in Proper(plain, tame)
  BY <1>1 DEF Block
<1>4. es # <<>>
  <2>1. \E n \in DOMAIN es : TRUE
    BY <1>2, <1>3 DEF Pairs
  <2>2. DOMAIN <<>> = {}
    OBVIOUS
  <2> QED BY <2>1, <2>2
<1>5. Sane(es) /\ (plain => AllPlain(es)) /\ (tame => AllTame(es))
  BY <1>3 DEF Proper, Sane, AllPlain, AllTame
<1> QED BY <1>3, <1>4, <1>5 DEF es, ls, B

LEMMA DatumSays ==
  ASSUME options \in OptionSet, NEW p \in Knowns, NEW plain \in BOOLEAN, NEW tame \in BOOLEAN, Fitting(p, plain, tame),
         NEW f \in ToSet(Exported)
  PROVE  /\ Datum(f, p) \in RowData
         /\ PairRow(f)[PairFn[p]] = RowOf(FullName[f], Datum(f, p).labels, Datum(f, p).number)
         /\ Says(FullName[f], Datum(f, p)) = MeantOf(f, p)
         /\ Datum(f, p).labels # <<>> /\ Sane(Datum(f, p).labels) /\ Datum(f, p).number \notin Punctuation
         /\ plain => AllPlain(Datum(f, p).labels)
         /\ tame => AllTame(Datum(f, p).labels)
<1> DEFINE es == Entries(p)
           number == Decimal(Held(p, f))
           d == Datum(f, p)
           x == PairFn[p]
           ls == Labels(p.iface, EpOf(p), Keep(Desc(p)), options)
<1>1. /\ es \in Seq(Entry) /\ es # <<>> /\ Sane(es) /\ Image(ShownFn, es) = ls
      /\ Pairs(es) = OwnLabels(p) \cup Description(p) /\ (plain => AllPlain(es)) /\ (tame => AllTame(es))
  BY EntriesSay
<1>2. p \in Peer /\ f \in FamilyNames /\ (f = "delay" => p.hs <= Now)
  <2>1. p \in Peer /\ ~Unprintable(p)
    BY DEF Knowns, Known
  <2>2. f \in FamilyNames /\ (f = "delay" => options.delay)
    BY ExportedSet DEF FamilyNames
  <2>3. p.hs \in Nat /\ Now \in Nat
    BY <2>1, NumbersDiffer DEF Peer
  <2> QED BY <2>1, <2>2, <2>3 DEF Unprintable
<1>3. Value(EpOf(p), f) = Held(p, f) /\ number \in Tokens /\ number \notin Punctuation
  BY <1>2, Numbers DEF FamilyNames
<1>4. d.labels = es /\ d.number = number /\ d = [labels |-> es, number |-> number]
  BY DEF Datum
<1>5. PairRow(f)[x] = RowOf(FullName[f], es, number)
  <2>1. x = <<p.iface, EpOf(p)>> /\ x \in Owing
    <3>1. x = <<p.iface, EpOf(p)>>
      BY <1>2 DEF PairFn
    <3>2. p.iface \in Ifaces /\ EpOf(p) \in Ends
      BY <1>2 DEF Ends, Peer, Ifaces
    <3> HIDE DEF x
    <3> QED BY <3>1, <3>2 DEF Owing
  <2>2. EpOf(p).public_key = p.key
    BY DEF EpOf
  <2> DEFINE v == Value(EpOf(p), f)
             L == Labels(x[1], x[2], Keep(world.table[x[2].public_key]), options)
  <2>3. PairRow(f)[x] = (<<FullName[f]>> \o RenderInstance(L, Value(x[2], f))) \o <<NewLine>>
    BY <2>1, Zenon DEF PairRow
  <2>4. L = ls
    BY <2>1, <2>2 DEF Desc
  <2>5. x[2] = EpOf(p)
    BY <2>1
  <2>6. PairRow(f)[x] = (<<FullName[f]>> \o RenderInstance(ls, v)) \o <<NewLine>>
    <3> HIDE DEF L, ls, x
    <3> QED BY <2>3, <2>4, <2>5
  <2> HIDE DEF es, ls, v, number
  <2>7. RenderInstance(ls, v) = ((<<"{">> \o LabelsText(es)) \o <<"}">>) \o <<" ", Decimal(v)>>
    BY <1>1, LabelsRender, Zenon
  <2>8. Decimal(v) = number
    BY <1>3 DEF v, number
  <2> QED BY <2>6, <2>7, <2>8, Zenon DEF RowOf
<1>6. Says(FullName[f], d) = MeantOf(f, p)
  BY <1>1, <1>4 DEF Says, Sample, MeantOf
<1> HIDE DEF es, number, d, x
<1>7. d \in RowData
  BY <1>1, <1>3, <1>4 DEF RowData
<1> QED BY <1>1, <1>3, <1>4, <1>5, <1>6, <1>7 DEF d, x

LEMMA FullNames ==
  ASSUME NEW f \in FamilyNames
  PROVE  /\ FullName[f] \in Tokens /\ FullName[f] \notin Punctuation \cup {"# HELP ", "# TYPE "}
         /\ HelpOf(f) \in Tokens /\ HelpOf(f) # NewLine /\ TypeIs(f) \in Tokens /\ TypeName[KindOf(f)] = TypeIs(f)
         /\ \A g \in FamilyNames : FullName[g] = FullName[f] => g = f
<1>1. FullName[f] \in Tokens /\ FullName[f] \notin Punctuation \cup {"# HELP ", "# TYPE "}
  <2> DEFINE N == {"wireguard_sent_bytes_total", "wireguard_received_bytes_total",
                   "wireguard_latest_handshake_seconds", "wireguard_latest_handshake_delay_seconds"}
  <2>1. FullName[f] \in N
    BY DEF FamilyNames, FullName
  <2>2. N \subseteq Tokens
    BY DEF Tokens
  <2>3. \A x \in N : x \notin Punctuation \cup {"# HELP ", "# TYPE "}
    BY Zenon DEF Punctuation, Quote, Backslash, NewLine
  <2> HIDE DEF N
  <2> QED BY <2>1, <2>2, <2>3, Zenon
<1>2. HelpOf(f) \in Tokens /\ HelpOf(f) # NewLine
  BY Zenon DEF FamilyNames, HelpOf, Tokens, NewLine
<1>3. TypeIs(f) \in Tokens /\ TypeName[KindOf(f)] = TypeIs(f)
  BY DEF FamilyNames, TypeIs, Tokens, TypeName, KindOf
<1>4. \A g \in FamilyNames : FullName[g] = FullName[f] => g = f
  BY DEF FamilyNames, FullName
<1> QED BY <1>1, <1>2, <1>3, <1>4, Zenon

LEMMA RowsSay ==
  ASSUME Chosen, ~SomeUnprintable, NEW plain \in BOOLEAN, NEW tame \in BOOLEAN, Told(plain, tame), NEW f \in ToSet(Exported)
  PROVE  LET rows == Image(DatumFn(f), Peers)
         IN  /\ rows \in Seq(RowData)
             /\ Gather(RowTexts(FullName[f]), rows) = FlattenSeq(Image(PairRow(f), Image(PairFn, Peers)))
             /\ Gather(RowSays(FullName[f]), rows) = Meant(f)
             /\ \A n \in DOMAIN rows : GoodRow(rows[n], FullName[f], AllMeant, plain, tame)
<1> DEFINE P == Peers
           g == DatumFn(f)
           rows == Image(g, P)
           name == FullName[f]
<1>1. P \in Seq(Knowns) /\ \A n \in DOMAIN P : P[n] \in Knowns
  <2>1. P \in Seq(Knowns)
    BY PeersKnown
  <2> HIDE DEF P
  <2> QED BY <2>1, ElementOfSeq, LenProperties
<1>2. options \in OptionSet
  BY DEF Chosen
<1>3. \A n \in DOMAIN P : Fitting(P[n], plain, tame)
  BY DEF Told, Fitting
<1>4. \A n \in DOMAIN P :
        /\ Datum(f, P[n]) \in RowData
        /\ PairRow(f)[PairFn[P[n]]] = RowOf(name, Datum(f, P[n]).labels, Datum(f, P[n]).number)
        /\ Says(name, Datum(f, P[n])) = MeantOf(f, P[n])
        /\ Datum(f, P[n]).labels # <<>> /\ Sane(Datum(f, P[n]).labels) /\ Datum(f, P[n]).number \notin Punctuation
        /\ plain => AllPlain(Datum(f, P[n]).labels)
        /\ tame => AllTame(Datum(f, P[n]).labels)
  <2> TAKE n \in DOMAIN P
  <2> DEFINE p == P[n]
  <2>1. p \in Knowns /\ Fitting(p, plain, tame)
    BY <1>1, <1>3
  <2> HIDE DEF p, name
  <2> QED BY <1>2, <2>1, DatumSays DEF p, name
<1>5. DOMAIN rows = DOMAIN P /\ \A n \in DOMAIN P : rows[n] = Datum(f, P[n])
  BY <1>1 DEF Image, DatumFn
<1> HIDE DEF g, name
<1>6. rows \in Seq(RowData)
  <2> DEFINE A == {Datum(f, p) : p \in Knowns}
  <2>1. Takes(g, Knowns, A)
    BY DEF Takes, g, DatumFn
  <2>2. rows \in Seq(A)
    <3> HIDE DEF P, A
    <3> QED BY <1>1, <2>1, ImageType
  <2>3. \A n \in DOMAIN rows : rows[n] \in RowData
    BY <1>4, <1>5
  <2> HIDE DEF rows, A
  <2> QED BY <2>2, <2>3, SeqWithin
<1>7. \A n \in DOMAIN rows : rows[n] \in RowData
  BY <1>4, <1>5
<1>8. Gather(RowTexts(name), rows) = FlattenSeq(Image(PairRow(f), Image(PairFn, P)))
  <2> DEFINE a == [n \in DOMAIN rows |-> RowTexts(name)[rows[n]]]
             b == Image(PairRow(f), Image(PairFn, P))
  <2>1. DOMAIN b = DOMAIN P /\ b = [n \in DOMAIN P |-> PairRow(f)[PairFn[P[n]]]]
    BY DEF Image
  <2>2. \A n \in DOMAIN P : RowTexts(name)[rows[n]] = PairRow(f)[PairFn[P[n]]]
    <3> TAKE n \in DOMAIN P
    <3>1. rows[n] \in RowData /\ rows[n] = Datum(f, P[n])
      BY <1>5, <1>7
    <3>2. PairRow(f)[PairFn[P[n]]] = RowOf(name, Datum(f, P[n]).labels, Datum(f, P[n]).number)
      BY <1>4
    <3> HIDE DEF rows, P
    <3>3. RowTexts(name)[rows[n]] = RowOf(name, rows[n].labels, rows[n].number)
      BY <3>1 DEF RowTexts
    <3> QED BY <3>1, <3>2, <3>3
  <2>3. a = b
    <3> HIDE DEF b, rows, P
    <3> QED BY <1>5, <2>1, <2>2
  <2> HIDE DEF a, b, rows
  <2> QED BY <2>3, Zenon DEF Gather, a, b
<1>9. Gather(RowSays(name), rows) = Meant(f)
  <2> DEFINE F == RowSays(name)
             h == [d \in RowData |-> Says(name, d)]
  <2>0. name \in Tokens
    <3>1. f \in FamilyNames
      BY ExportedSet DEF FamilyNames
    <3> QED BY <3>1, FullNames, Zenon DEF name
  <2>1. Maps(F, RowData, Samples) /\ h \in [RowData -> Samples] /\ \A d \in RowData : F[d] = <<h[d]>> /\ h[d] = Says(name, d)
    BY <2>0, RowMaps, SaysType DEF RowSays
  <2> HIDE DEF F, h, rows, P
  <2>2. Gather(F, rows) = [n \in DOMAIN rows |-> h[rows[n]]]
    BY <1>6, <2>1, GatherMap
  <2>3. \A n \in DOMAIN P : h[rows[n]] = MeantOf(f, P[n])
    BY <1>4, <1>5, <1>7, <2>1
  <2>4. [n \in DOMAIN rows |-> h[rows[n]]] = [n \in DOMAIN P |-> MeantOf(f, P[n])]
    BY <1>5, <2>3
  <2>5. Meant(f) = [n \in DOMAIN P |-> MeantOf(f, P[n])]
    BY Zenon DEF Meant, MeantOf, P
  <2> QED BY <2>2, <2>4, <2>5, Zenon DEF F
<1>10. \A n \in DOMAIN rows : GoodRow(rows[n], name, AllMeant, plain, tame)
  <2> SUFFICES ASSUME NEW n \in DOMAIN P PROVE GoodRow(rows[n], name, AllMeant, plain, tame)
    BY <1>5
  <2>1. Meant(f)[n] = MeantOf(f, P[n])
    BY DEF Meant, MeantOf
  <2>2. MeantOf(f, P[n]) \in AllMeant
    BY <2>1 DEF AllMeant
  <2> DEFINE d == Datum(f, P[n])
             r == rows[n]
  <2>3. r = d
    BY <1>5
  <2>4. /\ Says(name, d) \in AllMeant /\ d.labels # <<>> /\ Sane(d.labels) /\ d.number \notin Punctuation
        /\ plain => AllPlain(d.labels)
        /\ tame => AllTame(d.labels)
    BY <1>4, <2>2
  <2> HIDE DEF d, r
  <2>5. GoodRow(r, name, AllMeant, plain, tame)
    BY <2>3, <2>4 DEF GoodRow
  <2> QED BY <2>5 DEF r
<1> QED BY <1>6, <1>8, <1>9, <1>10 DEF g, name

(***************************************************************************)
(* The whole response.                                                     *)
(***************************************************************************)
Response == RenderBody(MetricsAt(Image(PairFn, Peers)))
AllSaid == FlattenSeq([n \in DOMAIN Exported |-> Meant(Exported[n])])

LEMMA ExportedCount ==
  ASSUME options \in OptionSet
  PROVE  /\ Exported \in Seq(FamilyNames) /\ DOMAIN Exported = 1 .. Cardinality(ToSet(Exported))
         /\ \A n \in DOMAIN Exported : Exported[n] = Families[n] /\ Exported[n] \in FamilyNames /\ Exported[n] \in ToSet(Exported)
         /\ \A m, n \in DOMAIN Exported : Exported[m] = Exported[n] => m = n
<1>1. Cardinality({"sent", "received", "handshake"}) = 3 /\ Cardinality({"sent", "received", "handshake", "delay"}) = 4
  <2>1. \A S, x : IsFiniteSet(S) /\ x \notin S => IsFiniteSet(S \cup {x}) /\ Cardinality(S \cup {x}) = Cardinality(S) + 1
    BY FS_AddElement
  <2>2. IsFiniteSet({"sent"}) /\ Cardinality({"sent"}) = 1
    BY FS_Singleton
  <2>3. IsFiniteSet({"sent", "received"}) /\ Cardinality({"sent", "received"}) = 2
    <3>1. {"sent", "received"} = {"sent"} \cup {"received"} /\ "received" \notin {"sent"}
      OBVIOUS
    <3> QED BY <2>1, <2>2, <3>1
  <2>4. IsFiniteSet({"sent", "received", "handshake"}) /\ Cardinality({"sent", "received", "handshake"}) = 3
    <3>1. {"sent", "received", "handshake"} = {"sent", "received"} \cup {"handshake"} /\ "handshake" \notin {"sent", "received"}
      OBVIOUS
    <3> QED BY <2>1, <2>3, <3>1
  <2>5. Cardinality({"sent", "received", "handshake", "delay"}) = 4
    <3>1. /\ {"sent", "received", "handshake", "delay"} = {"sent", "received", "handshake"} \cup {"delay"}
          /\ "delay" \notin {"sent", "received", "handshake"}
      OBVIOUS
    <3> QED BY <2>1, <2>4, <3>1
  <2> QED BY <2>4, <2>5
<1>2. CASE options.delay
  <2>1. Exported = <<"sent", "received", "handshake", "delay">> /\ Cardinality(ToSet(Exported)) = 4
    BY <1>1, <1>2, ExportedAre, ExportedSet
  <2> QED BY <2>1 DEF Families, FamilyNames, ToSet
<1>3. CASE ~options.delay
  <2>1. Exported = <<"sent", "received", "handshake">> /\ Cardinality(ToSet(Exported)) = 3
    BY <1>1, <1>3, ExportedAre, ExportedSet
  <2> QED BY <2>1 DEF Families, FamilyNames, ToSet
<1> QED BY <1>2, <1>3

LEMMA FamilyIs ==
  ASSUME Chosen, ~SomeUnprintable, NEW plain \in BOOLEAN, NEW tame \in BOOLEAN, Told(plain, tame), NEW f \in ToSet(Exported)
  PROVE  /\ FamOf(f) \in Fam
         /\ FamilyText(FamOf(f)) = RenderMetric(Rendered(f, Image(PairFn, Peers)))
         /\ FamilySays(FamOf(f)) = Meant(f)
         /\ GoodFamily(FamOf(f), AllMeant, plain, tame)
<1> DEFINE F == FamOf(f)
           rows == Image(DatumFn(f), Peers)
           done == Image(PairFn, Peers)
           m == Rendered(f, done)
<1>1. /\ rows \in Seq(RowData) /\ Gather(RowTexts(FullName[f]), rows) = FlattenSeq(Image(PairRow(f), done))
      /\ Gather(RowSays(FullName[f]), rows) = Meant(f)
      /\ \A n \in DOMAIN rows : GoodRow(rows[n], FullName[f], AllMeant, plain, tame)
  BY RowsSay
<1>0. f \in FamilyNames
  BY ExportedSet DEF FamilyNames
<1>2. /\ FullName[f] \in Tokens /\ FullName[f] \notin Punctuation \cup {"# HELP ", "# TYPE "}
      /\ HelpOf(f) \in Tokens /\ HelpOf(f) # NewLine /\ TypeIs(f) \in Tokens /\ TypeName[KindOf(f)] = TypeIs(f)
  BY <1>0, FullNames, Zenon
<1> HIDE DEF rows, done
<1>3. F.name = FullName[f] /\ F.help = HelpOf(f) /\ F.type = TypeIs(f) /\ F.rows = rows
  BY DEF FamOf, rows
<1>4. F \in Fam
  <2>1. F = [name |-> FullName[f], help |-> HelpOf(f), type |-> TypeIs(f), rows |-> rows]
    BY DEF FamOf, rows
  <2> HIDE DEF F
  <2> QED BY <1>1, <1>2, <2>1, Zenon DEF Fam
<1>5. m.counter_name = FullName[f] /\ m.counter_type = KindOf(f) /\ m.counter_help = HelpOf(f)
      /\ m.rendered_instances = Image(PairRow(f), done)
  BY DEF Rendered
<1> HIDE DEF F, m
<1>6. FamilyText(F) = RenderMetric(m)
  <2>1. RenderHeader(m) = HeaderOf(F.name, F.help, F.type)
    BY <1>2, <1>3, <1>5, Zenon DEF RenderHeader, HeaderOf
  <2>2. FlattenSeq(m.rendered_instances) = Gather(RowTexts(F.name), F.rows)
    BY <1>1, <1>3, <1>5
  <2> QED BY <2>1, <2>2 DEF RenderMetric, FamilyText
<1>7. FamilySays(F) = Meant(f)
  BY <1>1, <1>3 DEF FamilySays
<1>8. GoodFamily(F, AllMeant, plain, tame)
  BY <1>1, <1>2, <1>3, Zenon DEF GoodFamily
<1> QED BY <1>4, <1>6, <1>7, <1>8 DEF F, m, done

LEMMA ResponseSays ==
  ASSUME Chosen, ~SomeUnprintable, NEW plain \in BOOLEAN, NEW tame \in BOOLEAN, Told(plain, tame)
  PROVE  /\ Response \in Seq(Tokens)
         /\ Promise(Reading(Start, Response), MeantTypes, AllSaid, AllMeant, plain, tame)
<1> DEFINE X == Exported
           done == Image(PairFn, Peers)
           fams == Image(FamFn, X)
<1>0. options \in OptionSet
  BY DEF Chosen
<1>1. /\ X \in Seq(FamilyNames) /\ DOMAIN X = 1 .. Cardinality(ToSet(X))
      /\ \A n \in DOMAIN X : X[n] = Families[n] /\ X[n] \in FamilyNames /\ X[n] \in ToSet(X)
      /\ \A m, n \in DOMAIN X : X[m] = X[n] => m = n
  BY <1>0, ExportedCount
<1>2. \A f \in ToSet(X) :
         /\ FamOf(f) \in Fam /\ FamilyText(FamOf(f)) = RenderMetric(Rendered(f, done)) /\ FamilySays(FamOf(f)) = Meant(f)
         /\ GoodFamily(FamOf(f), AllMeant, plain, tame)
  BY FamilyIs
<1>3. fams \in Seq(Fam)
  <2>1. \A f \in ToSet(X) : f \in FamilyNames
    BY <1>0, ExportedSet DEF FamilyNames
  <2> DEFINE h == [f \in ToSet(X) |-> FamOf(f)]
  <2> HIDE DEF X, done
  <2>2. Takes(h, ToSet(X), Fam)
    BY <1>2 DEF Takes
  <2>3. X \in Seq(ToSet(X))
    BY <1>1, SeqWithin
  <2>4. Image(h, X) \in Seq(Fam)
    <3> HIDE DEF h
    <3> QED BY <2>2, <2>3, ImageType
  <2>5. Image(h, X) = fams
    <3>1. \A n \in DOMAIN X : h[X[n]] = FamFn[X[n]]
      BY <1>1, <2>1 DEF FamFn
    <3> HIDE DEF h
    <3> QED BY <3>1 DEF Image
  <2> QED BY <2>4, <2>5
<1> HIDE DEF X, done
<1>4. DOMAIN fams = DOMAIN X /\ \A n \in DOMAIN X : fams[n] = FamOf(X[n])
  BY <1>1 DEF Image, FamFn
<1> HIDE DEF fams
<1>5. \A n \in DOMAIN X : fams[n] \in Fam
  BY <1>1, <1>2, <1>4
<1>6. GoodBody(fams, AllMeant, plain, tame)
  <2>1. \A n \in DOMAIN fams : GoodFamily(fams[n], AllMeant, plain, tame)
    BY <1>1, <1>2, <1>4 DEF X
  <2>2. \A n \in DOMAIN fams : fams[n].name = FullName[X[n]]
    BY <1>4 DEF FamOf
  <2>3. \A m, n \in DOMAIN fams : fams[m].name = fams[n].name => m = n
    <3>1. \A f, g \in FamilyNames : FullName[g] = FullName[f] => g = f
      BY FullNames, Zenon
    <3>2. \A m, n \in DOMAIN fams : FullName[X[m]] = FullName[X[n]] => X[m] = X[n]
      BY <1>1, <1>4, <3>1
    <3> QED BY <1>1, <1>4, <2>2, <3>2
  <2> QED BY <2>1, <2>3 DEF GoodBody
<1>7. Image(TypeOf, fams) = MeantTypes
  <2>1. \A n \in DOMAIN X : TypeOf[fams[n]] = <<FullName[X[n]], TypeIs(X[n])>>
    <3> TAKE n \in DOMAIN X
    <3> DEFINE g == fams[n]
    <3>1. g \in Fam /\ g.name = FullName[X[n]] /\ g.type = TypeIs(X[n])
      BY <1>4, <1>5 DEF FamOf
    <3> HIDE DEF g
    <3>2. TypeOf[g] = <<g.name, g.type>>
      BY <3>1 DEF TypeOf
    <3> QED BY <3>1, <3>2 DEF g
  <2>2. Image(TypeOf, fams) = [n \in DOMAIN X |-> <<FullName[X[n]], TypeIs(X[n])>>]
    BY <1>4, <2>1 DEF Image
  <2> QED BY <2>2, Zenon DEF MeantTypes, X, TypeIs
<1>8. Gather(SaidOf, fams) = AllSaid
  <2>1. \A n \in DOMAIN X : SaidOf[fams[n]] = Meant(X[n])
    BY <1>1, <1>2, <1>4, <1>5 DEF SaidOf
  <2>2. [n \in DOMAIN fams |-> SaidOf[fams[n]]] = [n \in DOMAIN X |-> Meant(X[n])]
    BY <1>4, <2>1
  <2> QED BY <2>2, Zenon DEF Gather, AllSaid, X
<1>9. Response = BodyOf(fams) /\ BodyOf(fams) \in Seq(Tokens)
  <2> DEFINE M == MetricsAt(done)
             x == Image(TextOf, fams)
  <2>1. DOMAIN M = ToSet(X) /\ \A f \in ToSet(X) : M[f] = Rendered(f, done)
    BY DEF MetricsAt, X
  <2>2. DOMAIN x = DOMAIN X /\ \A n \in DOMAIN X : x[n] = RenderMetric(M[Families[n]])
    <3>1. \A n \in DOMAIN X : TextOf[fams[n]] = RenderMetric(Rendered(X[n], done))
      BY <1>1, <1>2, <1>4, <1>5 DEF TextOf
    <3>2. \A n \in DOMAIN X : M[Families[n]] = Rendered(X[n], done)
      BY <1>1, <2>1
    <3> QED BY <1>4, <3>1, <3>2 DEF Image
  <2> HIDE DEF M, x
  <2>3. [n \in 1 .. Cardinality(DOMAIN M) |-> (IF n = 1 THEN <<>> ELSE <<NewLine>>) \o RenderMetric(M[Families[n]])]
          = [n \in DOMAIN x |-> (IF n = 1 THEN <<>> ELSE <<NewLine>>) \o x[n]]
    BY <1>1, <2>1, <2>2
  <2>4. RenderBody(M) = Glued(NewLine, x)
    BY <2>3, Zenon DEF RenderBody, Glued
  <2>5. Response = BodyOf(fams)
    BY <2>4, Zenon DEF Response, BodyOf, M, done, x
  <2>6. BodyOf(fams) \in Seq(Tokens)
    <3> DEFINE T == Seq(Tokens)
    <3>1. x \in Seq(T)
      <4>1. Takes(TextOf, Fam, T)
        BY FamMaps
      <4> HIDE DEF T
      <4> QED BY <1>3, <4>1, ImageType DEF x
    <3>2. NewLine \in Tokens /\ <<>> \in T
      <4>1. <<>> \in Seq(Tokens)
        BY Tuples
      <4> QED BY <4>1, Marks, Zenon DEF Punctuation
    <3> HIDE DEF T
    <3>3. Glued(NewLine, x) \in Seq(Tokens)
      BY <3>1, <3>2, GluedAppend DEF T
    <3> QED BY <3>3 DEF BodyOf, x
  <2> QED BY <2>5, <2>6
<1>10. Promise(Reading(Start, BodyOf(fams)), Image(TypeOf, fams), Gather(SaidOf, fams), AllMeant, plain, tame)
  BY <1>3, <1>6, BodyKeepsPromise
<1> QED BY <1>7, <1>8, <1>9, <1>10, Zenon

(***************************************************************************)
(* The scraper reads the response a line at a time; what it has read stays *)
(* read.                                                                   *)
(***************************************************************************)
Listing(r) == Made(r, r.samples) /\ IsList(r.samples)
Keeps(q, r) == \A n \in DOMAIN q.samples : n \in DOMAIN r.samples /\ r.samples[n] = q.samples[n]

LEMMA MadeOf == \A q, s : Made(q, s) => q.samples = s
  BY DEF Made, State

LEMMA AdvanceKeeps ==
  ASSUME NEW r, Listing(r), NEW c
  PROVE  Listing(Advance(r, c)) /\ Keeps(r, Advance(r, c))
<1> DEFINE q == Advance(r, c)
           s == r.samples
<1>1. Made(q, s) \/ \E x : Made(q, Append(s, x))
  <2>1. PICK m, w, t, b, l, i : r = State(m, w, t, s, b, l, i)
    BY DEF Listing, Made
  <2> HIDE DEF s
  <2> QED BY <2>1, AdvanceMakes
<1>2. IsList(s)
  BY DEF Listing
<1> HIDE DEF q
<1>3. ASSUME Made(q, s)
      PROVE  Listing(q) /\ Keeps(r, q)
  <2>0. q.samples = s
    BY <1>3, MadeOf
  <2>1. Listing(q)
    BY <1>2, <1>3, <2>0 DEF Listing
  <2>2. Keeps(r, q)
    BY <2>0 DEF Keeps
  <2> QED BY <2>1, <2>2 DEF q
<1>4. ASSUME NEW x, Made(q, Append(s, x))
      PROVE  Listing(q) /\ Keeps(r, q)
  <2>0. q.samples = Append(s, x)
    BY <1>4, MadeOf
  <2>1. IsList(Append(s, x))
    BY <1>2, ListGrows
  <2>2. \A n \in DOMAIN s : n \in DOMAIN Append(s, x) /\ Append(s, x)[n] = s[n]
    <3>1. PICK S : s \in Seq(S)
      BY <1>2 DEF IsList
    <3> DEFINE T == S \cup {x}
    <3>2. s \in Seq(T) /\ x \in T
      <4>1. \A A, B : A \subseteq B => Seq(A) \subseteq Seq(B)
        OBVIOUS
      <4>2. S \subseteq T
        OBVIOUS
      <4> HIDE DEF s
      <4> QED BY <3>1, <4>1, <4>2
    <3> HIDE DEF T, s
    <3>3. PICK k \in Nat : /\ DOMAIN s = 1 .. k /\ DOMAIN Append(s, x) = 1 .. k + 1
                           /\ (\A n \in 1 .. k : Append(s, x)[n] = s[n]) /\ (\A n \in 1 .. k : n \in 1 .. k + 1)
      BY <3>2, AppendAt
    <3> QED BY <3>3
  <2> QED BY <1>4, <2>0, <2>1, <2>2 DEF Listing, Keeps
<1> QED BY <1>1, <1>3, <1>4 DEF q

LEMMA ReadingKeeps ==
  ASSUME NEW r, Listing(r)
  PROVE  \A p \in Seq(Tokens) : Listing(Reading(r, p)) /\ Keeps(r, Reading(r, p))
<1> DEFINE S == {p \in Seq(Tokens) : Listing(Reading(r, p)) /\ Keeps(r, Reading(r, p))}
<1>1. <<>> \in S
  BY ReadingNothing, Tuples DEF Keeps
<1>2. ASSUME NEW p \in Seq(Tokens), NEW c \in Tokens, p \in S
      PROVE  Append(p, c) \in S
  <2> DEFINE q == Reading(r, p)
  <2>1. Append(p, c) \in Seq(Tokens) /\ Reading(r, Append(p, c)) = Advance(q, c)
    BY AppendProperties, ReadingAppend
  <2>2. Listing(q) /\ Keeps(r, q)
    BY <1>2
  <2> HIDE DEF q
  <2>3. Listing(Advance(q, c)) /\ Keeps(q, Advance(q, c))
    BY <2>2, AdvanceKeeps
  <2>4. Keeps(r, Advance(q, c))
    BY <2>2, <2>3 DEF Keeps
  <2> QED BY <2>1, <2>3, <2>4
<1>3. \A p \in Seq(Tokens) : p \in S
  <2> HIDE DEF S
  <2> QED BY <1>1, <1>2, SeqInduction
<1> QED BY <1>3

LEMMA StartLists == Listing(Start)
<1>1. <<>> \in Seq({})
  OBVIOUS
<1>2. Start = State("line", None, <<>>, <<>>, {}, None, Opened) /\ Start.samples = <<>>
  BY DEF Start, State
<1> QED BY <1>1, <1>2 DEF Listing, IsList, Made

(* A line, if there is one, and what comes after it.                       *)
LEMMA LineCuts ==
  ASSUME NEW text \in Seq(Tokens)
  PROVE  LET eol == SelectInSeq(text, LAMBDA c : c = NewLine)
         IN  /\ SubSeq(text, 1, eol) \in Seq(Tokens) /\ SubSeq(text, eol + 1, Len(text)) \in Seq(Tokens)
             /\ SubSeq(text, 1, eol) \o SubSeq(text, eol + 1, Len(text)) = text
<1> DEFINE eol == SelectInSeq(text, LAMBDA c : c = NewLine)
           I == {i \in 1 .. Len(text) : text[i] = NewLine}
<1>0. Len(text) \in Nat /\ \A i \in 1 .. Len(text) : text[i] \in Tokens
  BY ElementOfSeq, LenProperties
<1>1. eol = IF I # {} THEN Min(I) ELSE 0
  BY DEF SelectInSeq
<1>2. I # {} => Min(I) \in I
  <2> SUFFICES ASSUME I # {} PROVE Min(I) \in I
    OBVIOUS
  <2>1. I \in SUBSET Nat /\ I # {}
    BY <1>0
  <2> HIDE DEF I
  <2>2. \E x \in I : \A y \in I : x <= y
    BY <2>1, Least
  <2> QED BY <2>2 DEF Min
<1>3. eol \in 0 .. Len(text)
  <2>1. \A i \in I : i \in 0 .. Len(text)
    BY <1>0
  <2>2. 0 \in 0 .. Len(text)
    BY <1>0
  <2> HIDE DEF I, eol
  <2> QED BY <1>1, <1>2, <2>1, <2>2
<1> HIDE DEF eol
<1> DEFINE k == Len(text)
<1> HIDE DEF k
<1>4. k \in Nat /\ eol \in 0 .. k /\ eol \in Int /\ 1 \in Int /\ eol + 1 \in Int
  BY <1>0, <1>3 DEF k
<1>5. /\ \A i \in 1 .. eol : text[i] \in Tokens
      /\ \A i \in eol + 1 .. k : text[i] \in Tokens
  <2>1. \A i \in 1 .. k : text[i] \in Tokens
    BY <1>0 DEF k
  <2>2. \A i \in 1 .. eol : i \in 1 .. k
    BY <1>4
  <2>3. \A i \in eol + 1 .. k : i \in 1 .. k
    BY <1>4
  <2> QED BY <2>1, <2>2, <2>3
<1>6. SubSeq(text, 1, eol) \in Seq(Tokens)
  BY <1>4, <1>5, SubSeqProperties
<1>7. SubSeq(text, eol + 1, k) \in Seq(Tokens)
  <2>1. k \in Int
    BY <1>4
  <2> QED BY <1>4, <1>5, <2>1, SubSeqProperties
<1>8. SubSeq(text, 1, eol) \o SubSeq(text, eol + 1, k) = text
  <2>1. SubSeq(text, 1, k) = text
    BY SubSeqFull DEF k
  <2>2. 1 \in 1 .. Len(text) + 1 /\ eol \in 1 - 1 .. Len(text) /\ k \in eol .. Len(text)
    BY <1>0, <1>4 DEF k
  <2>3. SubSeq(text, 1, eol) \o SubSeq(text, eol + 1, k) = SubSeq(text, 1, k)
    BY <2>2, ConcatAdjacentSubSeq
  <2> QED BY <2>1, <2>3
<1> QED BY <1>6, <1>7, <1>8 DEF k, eol

(***************************************************************************)
(* While the response is read, what has been heard and what is still to be *)
(* read make up the response.                                              *)
(***************************************************************************)
Sayable == Told(TRUE, FALSE) \/ Told(FALSE, TRUE)
Underway == body \in Seq(Tokens) /\ Listing(heard) /\ Reading(heard, body) = Reading(Start, Response)
HeardInv ==
  /\ pc \notin {"sent", "read"} => heard = Start
  /\ pc = "read" => body = <<>>
  /\ pc \in {"sent", "read"} /\ Sayable => Underway

LEMMA SayableFrame ==
  ASSUME UNCHANGED fixed
  PROVE  Sayable' = Sayable /\ Response' = Response
<1>1. options' = options /\ world' = world /\ target' = target
  BY DEF fixed
<1>2. Peers' = Peers /\ \A done : MetricsAt(done)' = MetricsAt(done)
  BY Frame
<1>3. \A p : Desc(p)' = Desc(p)
  BY <1>1 DEF Desc
<1>4. \A p : OwnLabels(p)' = OwnLabels(p)
  BY <1>1 DEF OwnLabels, Addresses, Remote
<1>5. \A p : Harmless(p)' = Harmless(p)
  BY <1>3, <1>4 DEF Harmless
<1>6. \A plain, tame \in BOOLEAN : Told(plain, tame)' = Told(plain, tame)
  BY <1>2, <1>3, <1>5 DEF Told
<1>7. Sayable' = Sayable
  BY <1>6 DEF Sayable
<1>8. Response' = Response
  <2>1. Image(PairFn, Peers)' = Image(PairFn, Peers)
    BY <1>2
  <2> DEFINE a == Image(PairFn, Peers)
  <2>2. MetricsAt(a)' = MetricsAt(a)
    <3>1. a' = a
      BY <2>1
    <3> HIDE DEF a
    <3> QED BY <1>2, <3>1
  <2> QED BY <2>2 DEF Response
<1> QED BY <1>7, <1>8

LEMMA HeardStep == PipeInv /\ HeardInv /\ [Next]_vars => HeardInv'
<1> SUFFICES ASSUME PipeInv, HeardInv, [Next]_vars PROVE HeardInv'
  OBVIOUS
<1>0. Chosen /\ pc \in {"dump", "parse", "render", "panic", "sent", "read"}
  BY DEF PipeInv
<1>1. CASE pc \notin {"sent", "read"} /\ pc' \notin {"sent", "read"} /\ heard' = heard
  BY <1>1 DEF HeardInv
<1>2. CASE Format
  <2>1. UNCHANGED fixed /\ pc = "render" /\ Rendering /\ Pending = {} /\ pc' = "sent" /\ body' = RenderBody(metrics) /\ heard' = heard
    BY <1>2 DEF Format, PipeInv
  <2>2. metrics = MetricsAt(Image(PairFn, Peers)) /\ ~SomeUnprintable
    BY <2>1, AllRendered DEF PipeInv
  <2>3. body' = Response /\ heard' = Start
    BY <2>1, <2>2 DEF Response, HeardInv
  <2>4. Sayable => Response \in Seq(Tokens)
    BY <1>0, <2>2, ResponseSays DEF Sayable
  <2>5. Sayable' = Sayable /\ Response' = Response
    BY <2>1, SayableFrame
  <2>6. Sayable' => Underway'
    BY <2>3, <2>4, <2>5, StartLists DEF Underway
  <2> QED BY <2>1, <2>6 DEF HeardInv
<1>3. CASE ReadLine
  <2> DEFINE eol == SelectInSeq(body, LAMBDA c : c = NewLine)
             line == SubSeq(body, 1, eol)
             rest == SubSeq(body, eol + 1, Len(body))
  <2>1. UNCHANGED fixed /\ pc = "sent" /\ heard' = Reading(heard, line) /\ body' = rest
        /\ pc' = (IF body' = <<>> THEN "read" ELSE pc)
    BY <1>3 DEF ReadLine
  <2>2. Sayable' = Sayable /\ Response' = Response
    BY <2>1, SayableFrame
  <2>3. ASSUME Sayable PROVE Underway'
    <3>1. Underway
      BY <2>1, <2>3 DEF HeardInv
    <3>2. line \in Seq(Tokens) /\ rest \in Seq(Tokens) /\ line \o rest = body
      BY <3>1, LineCuts DEF Underway
    <3> HIDE DEF line, rest
    <3>3. Reading(heard, line \o rest) = Reading(Reading(heard, line), rest)
      <4>1. \A r : \A p, q \in Seq(Tokens) : Reading(r, p \o q) = Reading(Reading(r, p), q)
        BY ReadingConcat
      <4> QED BY <3>2, <4>1
    <3>4. Listing(Reading(heard, line))
      BY <3>1, <3>2, ReadingKeeps DEF Underway
    <3>5. Reading(heard', body') = Reading(Start, Response)'
      BY <2>1, <2>2, <3>1, <3>2, <3>3 DEF Underway
    <3>6. body' \in Seq(Tokens) /\ Listing(heard')
      BY <2>1, <3>2, <3>4
    <3> QED BY <3>5, <3>6 DEF Underway
  <2> HIDE DEF line, rest
  <2>4. pc' \in {"sent", "read"} /\ (pc' = "read" => body' = <<>>)
    BY <2>1
  <2> QED BY <2>2, <2>3, <2>4 DEF HeardInv
<1>4. CASE UNCHANGED vars
  <2>1. UNCHANGED fixed /\ pc' = pc /\ body' = body /\ heard' = heard
    BY <1>4 DEF vars, fixed
  <2>2. Sayable' = Sayable /\ Response' = Response
    BY <2>1, SayableFrame
  <2>3. Underway' = Underway
    BY <2>1, <2>2 DEF Underway
  <2> QED BY <2>1, <2>2, <2>3 DEF HeardInv
<1>5. CASE Dump
  BY <1>1, <1>5 DEF Dump
<1>6. CASE ParseLine
  <2>1. pc = "parse" /\ pc' \in {"parse", "panic"} /\ heard' = heard
    BY <1>6 DEF ParseLine
  <2> QED BY <1>1, <2>1
<1>7. CASE BeginRender
  BY <1>1, <1>7 DEF BeginRender
<1>8. CASE RenderEndpoint
  <2>1. pc = "render" /\ pc' \in {"render", "panic"} /\ heard' = heard
    BY <1>8 DEF RenderEndpoint
  <2> QED BY <1>1, <2>1
<1> QED BY <1>2, <1>3, <1>4, <1>5, <1>6, <1>7, <1>8 DEF Next

(* HeardInvariant: where every description can be written without harm, or *)
(* none is a friendly_json, what the scraper has heard and what it has     *)
(* still to read are, together, the response (main.rs:102-103).            *)
THEOREM HeardInvariant == Spec => []HeardInv
<1>1. Init => HeardInv
  BY DEF Init, HeardInv
<1> QED BY <1>1, HeardStep, PipeInvariant, PTL DEF Spec

(* ExpositionReadsBack: any number of peers with harmless descriptions are *)
(* read back from the response, each with its labels and its four values   *)
(* (main.rs:83-92, wireguard.rs:218-354).                                  *)
THEOREM ExpositionReadsBack == Spec => []ReadsBack
<1>1. PipeInv /\ HeardInv => ReadsBack
  <2> SUFFICES ASSUME PipeInv, HeardInv, pc = "read", \A n \in DOMAIN Peers : Harmless(Peers[n])
               PROVE  heard.mode = "line" /\ heard.types = MeantTypes /\ heard.samples = AllSaid
    BY Zenon DEF ReadsBack, AllSaid
  <2>1. Told(TRUE, FALSE)
    BY DEF Told
  <2>2. Chosen /\ ~SomeUnprintable
    BY DEF PipeInv
  <2>3. Promise(Reading(Start, Response), MeantTypes, AllSaid, AllMeant, TRUE, FALSE)
    BY <2>1, <2>2, ResponseSays
  <2>4. Reading(heard, <<>>) = Reading(Start, Response)
    BY <2>1 DEF HeardInv, Sayable, Underway
  <2>5. Reading(heard, <<>>) = heard
    BY ReadingNothing
  <2>6. Lined(heard, MeantTypes, AllSaid)
    BY <2>3, <2>4, <2>5 DEF Promise
  <2> QED BY <2>6 DEF Lined, State
<1> QED BY <1>1, PipeInvariant, HeardInvariant, PTL

(* ExpositionNothingForged: no friendly_name, of any length and over any   *)
(* alphabet, makes a scraper accept a sample that is not a peer's, but for *)
(* the value of friendly_name (friendly_description.rs:17,                 *)
(* prometheus_instance.rs:53-75).                                          *)
THEOREM ExpositionNothingForged == Spec => []NothingForged
<1>1. PipeInv /\ HeardInv => NothingForged
  <2> SUFFICES ASSUME PipeInv, HeardInv, \A n \in DOMAIN Peers : Desc(Peers[n]).tag # "json",
                      NEW n \in DOMAIN heard.samples
               PROVE  \E y \in AllMeant : Like(heard.samples[n], y)
    <3>1. ASSUME NEW x, NEW y \in AllMeant, Like(x, y)
          PROVE  \E m \in DOMAIN Peers, f \in ToSet(Exported) :
                   /\ x.family = Meant(f)[m].family /\ x.value = Meant(f)[m].value
                   /\ WithoutName(x.labels) = WithoutName(Meant(f)[m].labels)
                   /\ {l[1] : l \in x.labels} = {l[1] : l \in Meant(f)[m].labels}
      <4>1. PICK m \in DOMAIN Peers, f \in ToSet(Exported) : y = Meant(f)[m]
        BY <3>1 DEF AllMeant
      <4> QED BY <3>1, <4>1 DEF Like, NamesOf, OthersOf, WithoutName
    <3> QED BY <3>1 DEF NothingForged
  <2>1. Told(FALSE, TRUE)
    BY DEF Told
  <2>2. CASE pc \notin {"sent", "read"}
    BY <2>2 DEF HeardInv, Start
  <2>3. CASE pc \in {"sent", "read"}
    <3>1. Chosen /\ ~SomeUnprintable
      BY <2>3 DEF PipeInv
    <3> DEFINE q == Reading(Start, Response)
    <3>2. Promise(q, MeantTypes, AllSaid, AllMeant, FALSE, TRUE)
      BY <2>1, <3>1, ResponseSays
    <3>3. PICK s : Honest(s, AllMeant) /\ (Lined(q, MeantTypes, s) \/ \E u : Failed(q, u, s))
      <4> HIDE DEF q
      <4> QED BY <3>2 DEF Promise, HonestAt
    <3>4. q.samples = s
      <4> HIDE DEF q
      <4> QED BY <3>3 DEF Lined, Failed, State
    <3>5. Underway
      BY <2>1, <2>3 DEF HeardInv, Sayable
    <3>6. Keeps(heard, Reading(heard, body))
      BY <3>5, ReadingKeeps DEF Underway
    <3>7. Keeps(heard, q)
      BY <3>5, <3>6 DEF Underway
    <3> HIDE DEF q
    <3>8. n \in DOMAIN s /\ heard.samples[n] = s[n]
      BY <3>4, <3>7 DEF Keeps
    <3> QED BY <3>3, <3>8 DEF Honest
  <2> QED BY <2>2, <2>3
<1> QED BY <1>1, PipeInvariant, HeardInvariant, PTL
===============================================================================
