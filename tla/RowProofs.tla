------------------------------- MODULE RowProofs -------------------------------
(***************************************************************************)
(* Theorems about Row, for rows of any number of labels with values of any *)
(* length over any alphabet: a plain row reads back, and a friendly_name   *)
(* forges nothing.                                                         *)
(***************************************************************************)
EXTENDS Row, TLAPS, SequenceTheorems

(***************************************************************************)
(* The reader, mode by mode.                                               *)
(***************************************************************************)
LEMMA AdvanceLine ==
  ASSUME NEW r, NEW c, r.mode = "line" PROVE Advance(r, c) = AtLine(r, c)
BY Zenon DEF Advance
LEMMA AdvanceLabels ==
  ASSUME NEW r, NEW c, r.mode = "labels"
  PROVE  Advance(r, c) = IF c = " " THEN Goto(r, "value") ELSE Expect(r, c, "{", "label")
BY Zenon DEF Advance
LEMMA AdvanceLabel ==
  ASSUME NEW r, NEW c, r.mode = "label" PROVE Advance(r, c) = AtLabel(r, c)
BY Zenon DEF Advance
LEMMA AdvanceEquals ==
  ASSUME NEW r, NEW c, r.mode = "equals" PROVE Advance(r, c) = Expect(r, c, "=", "open")
BY Zenon DEF Advance
LEMMA AdvanceOpen ==
  ASSUME NEW r, NEW c, r.mode = "open"
  PROVE  Advance(r, c) = [Expect(r, c, Quote, "string") EXCEPT !.inside = Opened]
BY Zenon DEF Advance
LEMMA AdvanceString ==
  ASSUME NEW r, NEW c, r.mode = "string" PROVE Advance(r, c) = AtString(r, c)
BY Zenon DEF Advance
LEMMA AdvanceNext ==
  ASSUME NEW r, NEW c, r.mode = "next"
  PROVE  Advance(r, c) = IF c = "," THEN Goto(r, "label") ELSE Expect(r, c, "}", "space")
BY Zenon DEF Advance
LEMMA AdvanceSpace ==
  ASSUME NEW r, NEW c, r.mode = "space" PROVE Advance(r, c) = Expect(r, c, " ", "value")
BY Zenon DEF Advance
LEMMA AdvanceValue ==
  ASSUME NEW r, NEW c, r.mode = "value"
  PROVE  Advance(r, c) = IF c \in Punctuation THEN Goto(r, "error")
                         ELSE [Goto(r, "sample") EXCEPT !.word = c]
BY Zenon DEF Advance
LEMMA AdvanceSample ==
  ASSUME NEW r, NEW c, r.mode = "sample" PROVE Advance(r, c) = AtEndOfSample(r, c)
BY Zenon DEF Advance
LEMMA AdvanceError ==
  ASSUME NEW r, NEW c, r.mode = "error" PROVE Advance(r, c) = r
BY Zenon DEF Advance
LEMMA AdvanceHelp ==
  ASSUME NEW r, NEW c, r.mode = "help"
  PROVE  Advance(r, c) = IF c = NewLine THEN Goto(r, "line") ELSE r
BY Zenon DEF Advance
LEMMA AdvanceTyped ==
  ASSUME NEW r, NEW c, r.mode = "typed" PROVE Advance(r, c) = AtTyped(r, c)
BY Zenon DEF Advance
LEMMA AdvanceType ==
  ASSUME NEW r, NEW c, r.mode = "type"
  PROVE  Advance(r, c) = [Goto(r, "end") EXCEPT !.types = Append(@, <<r.word, c>>)]
BY Zenon DEF Advance
LEMMA AdvanceEnd ==
  ASSUME NEW r, NEW c, r.mode = "end" PROVE Advance(r, c) = Expect(r, c, NewLine, "line")
BY Zenon DEF Advance

(***************************************************************************)
(* Types.                                                                  *)
(***************************************************************************)
Modes == {"line", "help", "typed", "type", "end", "labels", "label", "equals", "open",
          "string", "next", "space", "value", "sample", "error"}
Inner == [mode : {"string", "escape"}, value : Seq(Tokens)]

LEMMA Marks ==
  /\ Quote \in Tokens /\ Backslash \in Tokens /\ NewLine \in Tokens
  /\ {"{", "}", "=", ",", " ", "n", "counter", None, MetricName, Number} \subseteq Tokens
  /\ Quote # Backslash /\ Quote # NewLine /\ Backslash # NewLine /\ "n" \notin {Quote, Backslash}
  /\ {Quote, Backslash, NewLine} \subseteq Punctuation
  /\ {"{", "}", "=", ",", " "} \cap {Quote, Backslash, NewLine} = {}
BY RowConstants DEF Punctuation, Quote, Backslash, NewLine

LEMMA InsideType ==
  ASSUME NEW i \in Inner, NEW c \in Tokens
  PROVE  /\ Inside(i, c).mode \in {"string", "escape", "closed", "error"}
         /\ Inside(i, c).value \in Seq(Tokens)
         /\ Inside(i, c).mode \notin {"closed", "error"} => Inside(i, c) \in Inner
<1>1. i.value \in Seq(Tokens) /\ Append(i.value, c) \in Seq(Tokens)
      /\ Append(i.value, NewLine) \in Seq(Tokens)
  BY Marks, AppendProperties DEF Inner
<1> DEFINE R == [mode : {"string", "escape", "closed", "error"}, value : Seq(Tokens)]
<1>2. i \in R
  BY DEF Inner
<1>3. Inside(i, c) \in R
  BY <1>1, <1>2 DEF Inside
<1> QED BY <1>3 DEF Inner

LEMMA GotoType ==
  ASSUME NEW r \in Reader, NEW m \in Modes
  PROVE  /\ Goto(r, m) \in Reader /\ Goto(r, m).mode = m
         /\ Goto(r, m).types = r.types /\ Goto(r, m).samples = r.samples
         /\ Goto(r, m).labels = r.labels /\ Goto(r, m).label = r.label
         /\ Goto(r, m).word = r.word /\ Goto(r, m).inside = r.inside
BY DEF Goto, Reader, Modes

LEMMA AdvanceTypes ==
  ASSUME NEW r \in Reader, NEW c \in Tokens, r.types # <<>>
  PROVE  Advance(r, c) \in Reader /\ Advance(r, c).types # <<>>
<1>1. \A m \in Modes : Goto(r, m) \in Reader /\ Goto(r, m).types # <<>>
  BY GotoType
<1>2. \A d, m : m \in Modes => Expect(r, c, d, m) \in Reader /\ Expect(r, c, d, m).types # <<>>
  BY <1>1 DEF Expect, Modes
<1>3. r.types \in Seq(Tokens \X Tokens) /\ r.word \in Tokens /\ r.label \in Tokens
      /\ r.inside \in Inner /\ r.labels \in LabelSets
      /\ r.samples \in Seq([family : Tokens, labels : LabelSets, value : Tokens])
  BY DEF Reader, Inner
<1>4. Family(r) \in Tokens
  <2>1. Len(r.types) \in 1 .. Len(r.types)
    BY <1>3
  <2>2. r.types[Len(r.types)] \in Tokens \X Tokens
    BY <1>3, <2>1, ElementOfSeq
  <2> QED BY <2>2 DEF Family
<1>5. CASE r.mode = "line"
  <2>1. [Goto(r, "labels") EXCEPT !.labels = {}] \in Reader
        /\ [Goto(r, "labels") EXCEPT !.labels = {}].types # <<>>
    BY <1>1 DEF Reader, Modes, LabelSets
  <2>2. AtLine(r, c) \in {r, Goto(r, "help"), Goto(r, "typed"),
                          [Goto(r, "labels") EXCEPT !.labels = {}], Goto(r, "error")}
    <3> HIDE DEF Goto
    <3> QED BY Zenon DEF AtLine
  <2> QED BY <1>1, <1>5, <2>1, <2>2, AdvanceLine DEF Modes
<1>6. CASE r.mode = "help"
  BY <1>1, <1>6, AdvanceHelp DEF Modes
<1>7. CASE r.mode = "typed"
  <2>1. [Goto(r, "type") EXCEPT !.word = c] \in Reader
        /\ [Goto(r, "type") EXCEPT !.word = c].types # <<>>
    BY <1>1 DEF Reader, Modes
  <2> QED BY <1>1, <1>7, <2>1, AdvanceTyped DEF AtTyped, Modes
<1>8. CASE r.mode = "type"
  <2>1. Append(r.types, <<r.word, c>>) \in Seq(Tokens \X Tokens)
        /\ Append(r.types, <<r.word, c>>) # <<>>
    BY <1>3, AppendProperties
  <2>2. [Goto(r, "end") EXCEPT !.types = Append(@, <<r.word, c>>)] \in Reader
        /\ [Goto(r, "end") EXCEPT !.types = Append(@, <<r.word, c>>)].types # <<>>
    <3>1. Goto(r, "end") \in Reader /\ Goto(r, "end").types = r.types
      BY GotoType DEF Modes
    <3> HIDE DEF Goto
    <3> QED BY <2>1, <3>1 DEF Reader
  <2> QED BY <1>8, <2>2, AdvanceType
<1>9. CASE r.mode = "labels"
  BY <1>1, <1>2, <1>9, AdvanceLabels DEF Modes
<1>10. CASE r.mode = "label"
  <2>1. [Goto(r, "equals") EXCEPT !.label = c] \in Reader
        /\ [Goto(r, "equals") EXCEPT !.label = c].types # <<>>
    BY <1>1 DEF Reader, Modes
  <2> QED BY <1>1, <1>10, <2>1, AdvanceLabel DEF AtLabel, Modes
<1>11. CASE r.mode = "equals"
  BY <1>2, <1>11, AdvanceEquals DEF Modes
<1>12. CASE r.mode = "open"
  <2>1. Opened \in Inner
    BY DEF Opened, Inner
  <2>2. \A q \in Reader : q.types # <<>> => /\ [q EXCEPT !.inside = Opened] \in Reader
                                            /\ [q EXCEPT !.inside = Opened].types # <<>>
    BY <2>1 DEF Reader, Inner
  <2> DEFINE q == Expect(r, c, Quote, "string")
             o == [q EXCEPT !.inside = Opened]
  <2>3. q \in Reader /\ q.types # <<>>
    BY <1>2 DEF Modes
  <2>4. o \in Reader /\ o.types # <<>>
    <3> HIDE DEF q
    <3> QED BY <2>2, <2>3, Zenon
  <2>5. Advance(r, c) = o
    BY <1>12, AdvanceOpen, Zenon
  <2> HIDE DEF o
  <2> QED BY <2>4, <2>5
<1>13. CASE r.mode = "string"
  <2> DEFINE i == Inside(r.inside, c)
  <2>1. /\ i.value \in Seq(Tokens)
        /\ i.mode \notin {"closed", "error"} => i \in Inner
    BY <1>3, InsideType
  <2> DEFINE closed == [Goto(r, "next") EXCEPT !.labels = @ \cup {<<r.label, i.value>>}]
             on == [r EXCEPT !.inside = i]
  <2>2. closed \in Reader /\ closed.types # <<>>
    <3>1. Goto(r, "next") \in Reader /\ Goto(r, "next").types = r.types /\ Goto(r, "next").labels = r.labels
      BY GotoType DEF Modes
    <3>2. r.labels \cup {<<r.label, i.value>>} \in LabelSets
      BY <1>3, <2>1 DEF LabelSets
    <3> HIDE DEF Goto, i
    <3> QED BY <3>1, <3>2 DEF Reader
  <2>3. i \in Inner => on \in Reader /\ on.types # <<>>
    <3> HIDE DEF i
    <3> QED BY DEF Reader, Inner
  <2>4. Advance(r, c) \in {closed, Goto(r, "error")} \/ (Advance(r, c) = on /\ i.mode \notin {"closed", "error"})
    BY <1>13, AdvanceString, Zenon DEF AtString
  <2> HIDE DEF i, closed, on
  <2> QED BY <1>1, <2>1, <2>2, <2>3, <2>4 DEF Modes
<1>14. CASE r.mode = "next"
  BY <1>1, <1>2, <1>14, AdvanceNext DEF Modes
<1>15. CASE r.mode = "space"
  BY <1>2, <1>15, AdvanceSpace DEF Modes
<1>16. CASE r.mode = "value"
  <2>1. [Goto(r, "sample") EXCEPT !.word = c] \in Reader
        /\ [Goto(r, "sample") EXCEPT !.word = c].types # <<>>
    BY <1>1 DEF Reader, Modes
  <2> QED BY <1>1, <1>16, <2>1, AdvanceValue DEF Modes
<1>17. CASE r.mode = "sample"
  <2> DEFINE e == [family |-> Family(r), labels |-> r.labels, value |-> r.word]
  <2>1. Append(r.samples, e) \in Seq([family : Tokens, labels : LabelSets, value : Tokens])
    BY <1>3, <1>4, AppendProperties
  <2>2. /\ [Goto(r, "line") EXCEPT !.samples = Append(@, e)] \in Reader
        /\ [Goto(r, "line") EXCEPT !.samples = Append(@, e)].types # <<>>
    <3>1. Goto(r, "line") \in Reader /\ Goto(r, "line").types = r.types /\ Goto(r, "line").samples = r.samples
      BY GotoType DEF Modes
    <3> HIDE DEF Goto, e
    <3> QED BY <2>1, <3>1 DEF Reader
  <2> QED BY <1>1, <1>17, <2>2, AdvanceSample DEF AtEndOfSample, Modes
<1>18. CASE r.mode = "end"
  BY <1>2, <1>18, AdvanceEnd DEF Modes
<1>19. CASE r.mode = "error"
  BY <1>19, AdvanceError
<1>20. r.mode \in Modes
  BY DEF Reader, Modes
<1> QED BY <1>5, <1>6, <1>7, <1>8, <1>9, <1>10, <1>11, <1>12, <1>13, <1>14, <1>15, <1>16, <1>17,
           <1>18, <1>19, <1>20 DEF Modes

LEMMA LabelType ==
  ASSUME labels \in Seq(Label)
  PROVE  /\ Len(labels) \in Nat /\ DOMAIN labels = 1 .. Len(labels)
         /\ \A n \in 1 .. Len(labels) :
              /\ labels[n].name \in Tokens /\ labels[n].tag \in {"own", "name", "json"}
              /\ labels[n].value \in Seq(Tokens) /\ Len(labels[n].value) \in Nat
              /\ \A m \in 1 .. Len(labels[n].value) : labels[n].value[m] \in Tokens
<1>1. Len(labels) \in Nat /\ DOMAIN labels = 1 .. Len(labels)
  BY LenProperties
<1>2. ASSUME NEW n \in 1 .. Len(labels)
      PROVE  /\ labels[n].name \in Tokens /\ labels[n].tag \in {"own", "name", "json"}
             /\ labels[n].value \in Seq(Tokens) /\ Len(labels[n].value) \in Nat
             /\ \A m \in 1 .. Len(labels[n].value) : labels[n].value[m] \in Tokens
  <2>1. labels[n] \in Label
    BY ElementOfSeq
  <2>2. /\ labels[n].name \in Tokens /\ labels[n].tag \in {"own", "name", "json"}
        /\ labels[n].value \in Seq(Tokens)
    BY <2>1 DEF Label
  <2> QED BY <2>2, LenProperties, ElementOfSeq
<1> QED BY <1>1, <1>2

LEMMA Tuples ==
  ASSUME NEW S
  PROVE  \A a, b, c, d \in S :
           <<a>> \in Seq(S) /\ <<a, b>> \in Seq(S) /\ <<a, b, c>> \in Seq(S) /\ <<a, b, c, d>> \in Seq(S)
OBVIOUS

(* Whatever is written is a sequence of tokens.                            *)
LEMMA Pieces ==
  /\ <<Quote>> \in Seq(Tokens) /\ <<MetricName>> \in Seq(Tokens)
  /\ <<" ", Number, NewLine>> \in Seq(Tokens) /\ <<"}", " ", Number, NewLine>> \in Seq(Tokens)
  /\ \A m, nm \in Tokens : <<m, nm, "=", Quote>> \in Seq(Tokens)
<1>1. /\ Quote \in Tokens /\ NewLine \in Tokens /\ MetricName \in Tokens /\ Number \in Tokens
      /\ " " \in Tokens /\ "}" \in Tokens /\ "=" \in Tokens
  BY Marks
<1>2. /\ <<Quote>> \in Seq(Tokens) /\ <<MetricName>> \in Seq(Tokens)
      /\ <<" ", Number, NewLine>> \in Seq(Tokens) /\ <<"}", " ", Number, NewLine>> \in Seq(Tokens)
  BY <1>1, Tuples, Zenon
<1>3. ASSUME NEW m \in Tokens, NEW nm \in Tokens
      PROVE  <<m, nm, "=", Quote>> \in Seq(Tokens)
  BY <1>1, Tuples, Zenon
<1> QED BY <1>2, <1>3

LEMMA InitType == Init => TypeOK
<1> SUFFICES ASSUME Init PROVE TypeOK
  OBVIOUS
<1>1. labels \in Seq(Label) /\ Len(labels) \in Nat
  BY RowConstants, LenProperties DEF Init
<1>2. text \in Seq(Tokens)
  BY Pieces DEF Init
<1>3. heard \in Reader /\ heard.types # <<>>
  <2>1. Start \in Reader
    <3>1. None \in Tokens
      BY Marks
    <3>2. Opened \in Inner
      BY DEF Opened, Inner
    <3>3. {} \in LabelSets
      BY DEF LabelSets
    <3> QED BY <3>1, <3>2, <3>3 DEF Start, Reader, Inner
  <2>2. << <<MetricName, "counter">> >> \in Seq(Tokens \X Tokens)
    <3>1. <<MetricName, "counter">> \in Tokens \X Tokens
      BY Marks
    <3> QED BY <3>1, Tuples, Zenon
  <2> QED BY <2>1, <2>2 DEF Init, Reader
<1>4. at \in 0 .. Len(labels) /\ done \in Nat /\ at = 0 /\ stage = "between"
  BY <1>1 DEF Init
<1> QED BY <1>1, <1>2, <1>3, <1>4 DEF TypeOK

LEMMA EscapeType ==
  ASSUME NEW tag, NEW c \in Tokens
  PROVE  EscapeChar(tag, c) \in Seq(Tokens)
<1>1. Backslash \in Tokens
  BY Marks
<1>2. <<c>> \in Seq(Tokens) /\ <<Backslash, c>> \in Seq(Tokens)
  BY <1>1, Tuples, Zenon
<1> QED BY <1>2 DEF EscapeChar

LEMMA NextType ==
  ASSUME TypeOK, [Next]_vars
  PROVE  TypeOK'
<1>1. /\ Len(labels) \in Nat /\ labels \in Seq(Label) /\ at \in 0 .. Len(labels) /\ done \in Nat
      /\ text \in Seq(Tokens) /\ heard \in Reader /\ heard.types # <<>>
  <2>1. labels \in Seq(Label)
    BY DEF TypeOK
  <2>2. Len(labels) \in Nat
    BY <2>1, LenProperties
  <2> QED BY <2>1, <2>2 DEF TypeOK
<1>2. CASE OpenLabel
  <2>1. at + 1 \in 1 .. Len(labels) /\ at' = at + 1 /\ done' = 0 /\ UNCHANGED <<labels, heard>>
    <3>1. at < Len(labels) /\ at' = at + 1 /\ done' = 0 /\ UNCHANGED <<labels, heard>>
      BY <1>2 DEF OpenLabel
    <3> QED BY <1>1, <3>1
  <2>2. labels[at + 1].name \in Tokens /\ Len(labels[at + 1].value) \in Nat
    BY <1>1, <2>1, LabelType
  <2>3. text' \in Seq(Tokens)
    <3>2. (IF at = 0 THEN "{" ELSE ",") \in Tokens
      BY Marks
    <3>3. text' = <<IF at = 0 THEN "{" ELSE ",", labels[at + 1].name, "=", Quote>>
      BY <1>2 DEF OpenLabel
    <3> QED BY <2>2, <3>2, <3>3, Pieces
  <2>4. stage' = "value"
    BY <1>2 DEF OpenLabel
  <2> QED BY <1>1, <2>1, <2>2, <2>3, <2>4 DEF TypeOK
<1>3. CASE Write
  <2>1. at \in 1 .. Len(labels) /\ done + 1 \in 1 .. Len(labels[at].value)
    BY <1>1, <1>3, LabelType DEF Write, TypeOK
  <2>2. text' \in Seq(Tokens)
    BY <1>1, <1>3, <2>1, LabelType, EscapeType DEF Write
  <2> QED BY <1>1, <1>3, <2>1, <2>2 DEF Write, TypeOK
<1>4. CASE CloseLabel
  <2>1. text' \in Seq(Tokens)
    BY <1>4, Pieces DEF CloseLabel
  <2> QED BY <1>1, <1>4, <2>1 DEF CloseLabel, TypeOK
<1>5. CASE End
  <2>1. text' \in Seq(Tokens)
    BY <1>5, Pieces DEF End
  <2> QED BY <1>1, <1>5, <2>1 DEF End, TypeOK
<1>6. CASE Read
  <2>1. Head(text) \in Tokens /\ text' \in Seq(Tokens)
    BY <1>1, <1>6, HeadTailProperties DEF Read
  <2>2. heard' \in Reader /\ heard'.types # <<>>
    BY <1>1, <1>6, <2>1, AdvanceTypes DEF Read
  <2> QED BY <1>1, <1>6, <2>1, <2>2 DEF Read, TypeOK
<1>7. CASE UNCHANGED vars
  BY <1>7 DEF vars, TypeOK
<1> QED BY <1>2, <1>3, <1>4, <1>5, <1>6, <1>7 DEF Next

(* TypeCorrect: writer and reader keep their types for rows of any number  *)
(* of labels with values of any length (friendly_description.rs:17,        *)
(* prometheus_instance.rs:61-78).                                          *)
THEOREM TypeCorrect == Spec => []TypeOK
BY InitType, NextType, PTL DEF Spec

(***************************************************************************)
(* What one token does to the reader.                                      *)
(***************************************************************************)
Keeps(q, r) == q.types = r.types /\ q.samples = r.samples /\ q.labels = r.labels

LEMMA ExpectMoves ==
  ASSUME NEW r \in Reader, NEW c, NEW d, NEW m \in Modes
  PROVE  /\ Expect(r, c, d, m) \in Reader /\ Keeps(Expect(r, c, d, m), r)
         /\ Expect(r, c, d, m).label = r.label
         /\ Expect(r, c, d, m).mode = IF c = d THEN m ELSE "error"
<1> DEFINE n == IF c = d THEN m ELSE "error"
<1>1. n \in Modes
  BY DEF Modes
<1>2. Expect(r, c, d, m) = Goto(r, n)
  BY Zenon DEF Expect
<1> HIDE DEF n
<1>3. Expect(r, c, d, m) \in Reader /\ Keeps(Expect(r, c, d, m), r) /\ Expect(r, c, d, m).label = r.label
      /\ Expect(r, c, d, m).mode = n
  BY <1>1, <1>2, GotoType DEF Keeps
<1> QED BY <1>3 DEF n

LEMMA ErrorMoves ==
  ASSUME NEW r \in Reader
  PROVE  Goto(r, "error").mode = "error" /\ Keeps(Goto(r, "error"), r)
BY GotoType DEF Modes, Keeps

LEMMA LineMoves ==
  ASSUME NEW r \in Reader, NEW c \in Tokens, r.mode = "line", r.types # <<>>,
         c \notin Punctuation, c \notin {"# HELP ", "# TYPE "}, c = Family(r)
  PROVE  /\ Advance(r, c).mode = "labels" /\ Advance(r, c).labels = {}
         /\ Advance(r, c).types = r.types /\ Advance(r, c).samples = r.samples
<1> DEFINE q == Goto(r, "labels")
<1>1. q \in Reader /\ q.mode = "labels" /\ q.types = r.types /\ q.samples = r.samples
  BY GotoType DEF Modes
<1>2. Advance(r, c) = [q EXCEPT !.labels = {}]
  <2>1. c # NewLine
    BY Marks
  <2> QED BY <2>1, AdvanceLine, Zenon DEF AtLine
<1> HIDE DEF q
<1>3. \A o \in Reader : /\ [o EXCEPT !.labels = {}].mode = o.mode /\ [o EXCEPT !.labels = {}].labels = {}
                        /\ [o EXCEPT !.labels = {}].types = o.types
                        /\ [o EXCEPT !.labels = {}].samples = o.samples
  BY DEF Reader
<1> QED BY <1>1, <1>2, <1>3

LEMMA LabelsMoves ==
  ASSUME NEW r \in Reader, NEW c \in Tokens, r.mode = "labels"
  PROVE  /\ Keeps(Advance(r, c), r)
         /\ Advance(r, c).mode = IF c = " " THEN "value" ELSE IF c = "{" THEN "label" ELSE "error"
<1>1. CASE c = " "
  <2>1. Advance(r, c) = Goto(r, "value")
    BY <1>1, AdvanceLabels, Zenon
  <2>2. "value" \in Modes
    BY DEF Modes
  <2>3. Goto(r, "value").mode = "value" /\ Keeps(Goto(r, "value"), r)
    BY <2>2, GotoType, Zenon DEF Keeps
  <2> QED BY <1>1, <2>1, <2>3, Zenon
<1>2. CASE c # " "
  <2>1. Advance(r, c) = Expect(r, c, "{", "label")
    BY <1>2, AdvanceLabels, Zenon
  <2>2. "label" \in Modes
    BY DEF Modes
  <2>3. /\ Keeps(Expect(r, c, "{", "label"), r)
        /\ Expect(r, c, "{", "label").mode = IF c = "{" THEN "label" ELSE "error"
    <3> DEFINE t == "{"
    <3> HIDE DEF t
    <3>1. /\ Keeps(Expect(r, c, t, "label"), r)
          /\ Expect(r, c, t, "label").mode = IF c = t THEN "label" ELSE "error"
      BY <2>2, ExpectMoves
    <3> QED BY <3>1 DEF t
  <2> QED BY <1>2, <2>1, <2>3, Zenon
<1> QED BY <1>1, <1>2

LEMMA LabelMoves ==
  ASSUME NEW r \in Reader, NEW c \in Tokens, r.mode = "label"
  PROVE  /\ Keeps(Advance(r, c), r)
         /\ Advance(r, c).mode \in {"equals", "error"}
         /\ (c \notin Punctuation /\ \A l \in r.labels : l[1] # c) =>
              Advance(r, c).mode = "equals" /\ Advance(r, c).label = c
<1>1. CASE c \in Punctuation \/ \E l \in r.labels : l[1] = c
  <2>1. Advance(r, c) = Goto(r, "error")
    BY <1>1, AdvanceLabel, Zenon DEF AtLabel
  <2> QED BY <1>1, <2>1, ErrorMoves
<1>2. CASE ~(c \in Punctuation \/ \E l \in r.labels : l[1] = c)
  <2> DEFINE q == Goto(r, "equals")
  <2>1. Advance(r, c) = [q EXCEPT !.label = c]
    BY <1>2, AdvanceLabel, Zenon DEF AtLabel
  <2>2. q \in Reader /\ q.mode = "equals" /\ Keeps(q, r)
    BY GotoType DEF Modes, Keeps
  <2> HIDE DEF q
  <2>3. \A o \in Reader : /\ [o EXCEPT !.label = c].mode = o.mode /\ [o EXCEPT !.label = c].label = c
                          /\ Keeps([o EXCEPT !.label = c], o)
    BY DEF Reader, Keeps
  <2> QED BY <2>1, <2>2, <2>3 DEF Keeps
<1> QED BY <1>1, <1>2

LEMMA EqualsMoves ==
  ASSUME NEW r \in Reader, NEW c \in Tokens, r.mode = "equals"
  PROVE  /\ Keeps(Advance(r, c), r) /\ Advance(r, c).label = r.label
         /\ Advance(r, c).mode = IF c = "=" THEN "open" ELSE "error"
BY AdvanceEquals, ExpectMoves DEF Modes

LEMMA OpenMoves ==
  ASSUME NEW r \in Reader, NEW c \in Tokens, r.mode = "open"
  PROVE  /\ Keeps(Advance(r, c), r) /\ Advance(r, c).label = r.label
         /\ Advance(r, c).mode = IF c = Quote THEN "string" ELSE "error"
         /\ Advance(r, c).inside = Opened
<1> DEFINE q == Expect(r, c, Quote, "string")
<1>1. q \in Reader /\ Keeps(q, r) /\ q.label = r.label /\ q.mode = IF c = Quote THEN "string" ELSE "error"
  BY ExpectMoves DEF Modes
<1>2. Advance(r, c) = [q EXCEPT !.inside = Opened]
  BY AdvanceOpen, Zenon
<1> HIDE DEF q
<1>3. \A o \in Reader : /\ [o EXCEPT !.inside = Opened].mode = o.mode
                        /\ [o EXCEPT !.inside = Opened].label = o.label
                        /\ [o EXCEPT !.inside = Opened].inside = Opened
                        /\ Keeps([o EXCEPT !.inside = Opened], o)
  BY DEF Reader, Keeps
<1> QED BY <1>1, <1>2, <1>3 DEF Keeps

LEMMA NextMoves ==
  ASSUME NEW r \in Reader, NEW c \in Tokens, r.mode = "next"
  PROVE  /\ Keeps(Advance(r, c), r)
         /\ Advance(r, c).mode = IF c = "," THEN "label" ELSE IF c = "}" THEN "space" ELSE "error"
<1>1. CASE c = ","
  <2>1. Advance(r, c) = Goto(r, "label")
    BY <1>1, AdvanceNext, Zenon
  <2>2. "label" \in Modes
    BY DEF Modes
  <2>3. Goto(r, "label").mode = "label" /\ Keeps(Goto(r, "label"), r)
    BY <2>2, GotoType, Zenon DEF Keeps
  <2> QED BY <1>1, <2>1, <2>3, Zenon
<1>2. CASE c # ","
  <2>1. Advance(r, c) = Expect(r, c, "}", "space")
    BY <1>2, AdvanceNext, Zenon
  <2>2. "space" \in Modes
    BY DEF Modes
  <2>3. /\ Keeps(Expect(r, c, "}", "space"), r)
        /\ Expect(r, c, "}", "space").mode = IF c = "}" THEN "space" ELSE "error"
    <3> DEFINE t == "}"
    <3> HIDE DEF t
    <3>1. /\ Keeps(Expect(r, c, t, "space"), r)
          /\ Expect(r, c, t, "space").mode = IF c = t THEN "space" ELSE "error"
      BY <2>2, ExpectMoves
    <3> QED BY <3>1 DEF t
  <2> QED BY <1>2, <2>1, <2>3, Zenon
<1> QED BY <1>1, <1>2

LEMMA SpaceMoves ==
  ASSUME NEW r \in Reader, NEW c \in Tokens, r.mode = "space"
  PROVE  Keeps(Advance(r, c), r) /\ Advance(r, c).mode = IF c = " " THEN "value" ELSE "error"
<1>1. Advance(r, c) = Expect(r, c, " ", "value")
  BY AdvanceSpace, Zenon
<1>2. "value" \in Modes
  BY DEF Modes
<1>3. /\ Keeps(Expect(r, c, " ", "value"), r)
      /\ Expect(r, c, " ", "value").mode = IF c = " " THEN "value" ELSE "error"
  <2> DEFINE t == " "
  <2> HIDE DEF t
  <2>1. /\ Keeps(Expect(r, c, t, "value"), r)
        /\ Expect(r, c, t, "value").mode = IF c = t THEN "value" ELSE "error"
    BY <1>2, ExpectMoves
  <2> QED BY <2>1 DEF t
<1> QED BY <1>1, <1>3, Zenon

LEMMA ValueMoves ==
  ASSUME NEW r \in Reader, NEW c \in Tokens, r.mode = "value"
  PROVE  /\ Keeps(Advance(r, c), r)
         /\ Advance(r, c).mode = IF c \in Punctuation THEN "error" ELSE "sample"
         /\ c \notin Punctuation => Advance(r, c).word = c
<1>1. CASE c \in Punctuation
  <2>1. Advance(r, c) = Goto(r, "error")
    BY <1>1, AdvanceValue, Zenon
  <2> QED BY <1>1, <2>1, ErrorMoves
<1>2. CASE c \notin Punctuation
  <2> DEFINE q == Goto(r, "sample")
  <2>1. Advance(r, c) = [q EXCEPT !.word = c]
    BY <1>2, AdvanceValue, Zenon
  <2>2. q \in Reader /\ q.mode = "sample" /\ Keeps(q, r)
    BY GotoType DEF Modes, Keeps
  <2> HIDE DEF q
  <2>3. \A o \in Reader : /\ [o EXCEPT !.word = c].mode = o.mode /\ [o EXCEPT !.word = c].word = c
                          /\ Keeps([o EXCEPT !.word = c], o)
    BY DEF Reader, Keeps
  <2> QED BY <1>2, <2>1, <2>2, <2>3 DEF Keeps
<1> QED BY <1>1, <1>2

LEMMA SampleMoves ==
  ASSUME NEW r \in Reader, NEW c \in Tokens, r.mode = "sample"
  PROVE  /\ c # NewLine => Keeps(Advance(r, c), r) /\ Advance(r, c).mode = "error"
         /\ c = NewLine =>
              /\ Advance(r, c).mode = "line" /\ Advance(r, c).labels = r.labels
              /\ Advance(r, c).samples =
                   Append(r.samples, [family |-> Family(r), labels |-> r.labels, value |-> r.word])
<1>1. CASE c # NewLine
  <2> DEFINE e == Append(Goto(r, "line").samples,
                           [family |-> Family(r), labels |-> r.labels, value |-> r.word])
             a == [Goto(r, "line") EXCEPT !.samples = e]
  <2>0. Advance(r, c) = IF c # NewLine THEN Goto(r, "error") ELSE a
    BY AdvanceSample, Zenon DEF AtEndOfSample
  <2> HIDE DEF a
  <2>1. Advance(r, c) = Goto(r, "error")
    BY <1>1, <2>0
  <2> QED BY <1>1, <2>1, ErrorMoves
<1>2. CASE c = NewLine
  <2> DEFINE q == Goto(r, "line")
             e == [family |-> Family(r), labels |-> r.labels, value |-> r.word]
  <2>1. Advance(r, c) = [q EXCEPT !.samples = Append(q.samples, e)]
    BY <1>2, AdvanceSample, Zenon DEF AtEndOfSample
  <2>2. q \in Reader /\ q.mode = "line" /\ q.labels = r.labels /\ q.samples = r.samples
    BY GotoType DEF Modes
  <2> HIDE DEF q, e
  <2>3. \A o \in Reader : /\ [o EXCEPT !.samples = Append(o.samples, e)].mode = o.mode
                          /\ [o EXCEPT !.samples = Append(o.samples, e)].labels = o.labels
                          /\ [o EXCEPT !.samples = Append(o.samples, e)].samples = Append(o.samples, e)
    BY DEF Reader
  <2>4. /\ Advance(r, c).mode = "line" /\ Advance(r, c).labels = r.labels
        /\ Advance(r, c).samples = Append(r.samples, e)
    BY <2>1, <2>2, <2>3
  <2> QED BY <1>2, <2>4 DEF e
<1> QED BY <1>1, <1>2

(* Inside a string, by what becomes of the value.                          *)
LEMMA StringMoves ==
  ASSUME NEW r \in Reader, NEW c \in Tokens, r.mode = "string"
  PROVE  /\ Advance(r, c).types = r.types /\ Advance(r, c).samples = r.samples
         /\ Inside(r.inside, c).mode = "closed" =>
              /\ Advance(r, c).mode = "next"
              /\ Advance(r, c).labels = r.labels \cup {<<r.label, Inside(r.inside, c).value>>}
         /\ Inside(r.inside, c).mode = "error" => Advance(r, c).mode = "error"
         /\ Inside(r.inside, c).mode \notin {"closed", "error"} =>
              /\ Advance(r, c).mode = "string" /\ Advance(r, c).inside = Inside(r.inside, c)
              /\ Advance(r, c).label = r.label /\ Advance(r, c).labels = r.labels
<1> DEFINE i == Inside(r.inside, c)
           q == Goto(r, "next")
           S == q.labels \cup {<<r.label, i.value>>}
<1>1. CASE i.mode = "closed"
  <2>1. Advance(r, c) = [q EXCEPT !.labels = S]
    BY <1>1, AdvanceString, Zenon DEF AtString
  <2>2. q \in Reader /\ q.mode = "next" /\ Keeps(q, r)
    BY GotoType DEF Modes, Keeps
  <2> HIDE DEF q, S
  <2>3. \A o \in Reader : /\ [o EXCEPT !.labels = S].mode = o.mode /\ [o EXCEPT !.labels = S].labels = S
                          /\ [o EXCEPT !.labels = S].types = o.types
                          /\ [o EXCEPT !.labels = S].samples = o.samples
    BY DEF Reader
  <2>4. /\ Advance(r, c).mode = "next" /\ Advance(r, c).labels = S
        /\ Advance(r, c).types = r.types /\ Advance(r, c).samples = r.samples
    BY <2>1, <2>2, <2>3 DEF Keeps
  <2> QED BY <1>1, <2>2, <2>4 DEF S, Keeps
<1>2. CASE i.mode = "error"
  <2>1. i.mode # "closed"
    BY <1>2
  <2>2. Advance(r, c) = Goto(r, "error")
    BY <1>2, <2>1, AdvanceString, Zenon DEF AtString
  <2> QED BY <1>2, <2>2, ErrorMoves DEF Keeps
<1>3. CASE i.mode \notin {"closed", "error"}
  <2>1. i.mode # "closed" /\ i.mode # "error"
    BY <1>3
  <2>2. Advance(r, c) = [r EXCEPT !.inside = i]
    BY <2>1, AdvanceString, Zenon DEF AtString
  <2> HIDE DEF i
  <2>3. /\ [r EXCEPT !.inside = i].mode = r.mode /\ [r EXCEPT !.inside = i].inside = i
        /\ [r EXCEPT !.inside = i].label = r.label /\ Keeps([r EXCEPT !.inside = i], r)
    BY DEF Reader, Keeps
  <2> QED BY <1>3, <2>2, <2>3 DEF Keeps, i
<1> QED BY <1>1, <1>2, <1>3

LEMMA InsidePlain ==
  ASSUME NEW i \in Inner, NEW c, c \notin {Quote, Backslash, NewLine}, i.mode = "string"
  PROVE  Inside(i, c).mode = "string" /\ Inside(i, c).value = Append(i.value, c)
BY DEF Inside, Inner

LEMMA InsideQuote ==
  ASSUME NEW i \in Inner
  PROVE  /\ i.mode = "string" => Inside(i, Quote).mode = "closed" /\ Inside(i, Quote).value = i.value
         /\ i.mode = "escape" =>
              Inside(i, Quote).mode = "string" /\ Inside(i, Quote).value = Append(i.value, Quote)
<1> DEFINE R == [mode : {"string", "escape", "closed", "error"}, value : Seq(Tokens)]
<1>1. i \in R
  BY DEF Inner
<1>2. ASSUME i.mode = "string"
      PROVE  Inside(i, Quote).mode = "closed" /\ Inside(i, Quote).value = i.value
  BY <1>1, <1>2, Marks DEF Inside
<1>3. ASSUME i.mode = "escape"
      PROVE  Inside(i, Quote).mode = "string" /\ Inside(i, Quote).value = Append(i.value, Quote)
  BY <1>1, <1>3, Marks DEF Inside
<1> QED BY <1>2, <1>3

LEMMA InsideBackslash ==
  ASSUME NEW i \in Inner, i.mode = "string"
  PROVE  Inside(i, Backslash).mode = "escape" /\ Inside(i, Backslash).value = i.value
BY Marks DEF Inside, Inner

LEMMA InsideNewLine ==
  ASSUME NEW i \in Inner, i.mode = "string"
  PROVE  Inside(i, NewLine).mode = "error"
BY Marks DEF Inside, Inner

(***************************************************************************)
(* The inductive invariant. While every quote of the exporter is read as   *)
(* the writer meant it, the two are in step: they agree on the label under *)
(* way and on what is left of it. Only the value of a friendly name may    *)
(* put the reader out of step, ahead of the writer or still inside the     *)
(* string; it then has no sample of the row, and meets one of the          *)
(* characters it refuses before the line ends.                             *)
(***************************************************************************)
L == labels[at]
Length == Len(labels)
AllPlain == \A n \in DOMAIN labels : PlainLabel(labels[n])
OnlyNameOpen ==
  \A n \in DOMAIN labels :
    IF labels[n].name = "friendly_name" THEN labels[n].tag = "name" ELSE Clean(labels[n])

(* The labels S are the first k of the row ls, but for values not plain.   *)
Named(ls, S, k) ==
  /\ \A n \in 1 .. k : \E l \in S : l[1] = ls[n].name
  /\ \A l \in S : \E n \in 1 .. k :
       l[1] = ls[n].name /\ (PlainLabel(ls[n]) => l[2] = ls[n].value)

(* Nothing has been read of the row but labels.                            *)
Clear == heard.samples = <<>> /\ heard.types = << <<MetricName, "counter">> >>

(* What has been read of a value is its first n characters.                *)
Begun(read, value, n) == Len(read) = n /\ \A m \in 1 .. n : read[m] = value[m]
Heard(n) == Begun(heard.inside.value, L.value, n)

AtName ==
  /\ stage = "between" /\ at = 0 /\ text = <<MetricName>>
  /\ heard.mode = "line" /\ Clear

BetweenLabels ==
  /\ stage = "between" /\ text = <<>>
  /\ heard.mode = IF at = 0 THEN "labels" ELSE "next"
  /\ Named(labels, heard.labels, at) /\ Clear

OpeningLabel ==
  /\ stage = "value" /\ done = 0
  /\ Named(labels, heard.labels, at - 1) /\ Clear
  /\ \/ /\ text = <<IF at = 1 THEN "{" ELSE ",", L.name, "=", Quote>>
        /\ heard.mode = IF at = 1 THEN "labels" ELSE "next"
     \/ text = <<L.name, "=", Quote>> /\ heard.mode = "label"
     \/ text = <<"=", Quote>> /\ heard.mode = "equals" /\ heard.label = L.name
     \/ text = <<Quote>> /\ heard.mode = "open" /\ heard.label = L.name

InString ==
  /\ at # 0 /\ heard.mode = "string" /\ heard.label = L.name
  /\ Named(labels, heard.labels, at - 1) /\ Clear

(* Inside a plain value the reader has what has been written; while a      *)
(* character is under way it has one less. An escaped quote is the only    *)
(* one that takes two steps, and the reader knows it is inside one.        *)
BetweenCharacters ==
  stage = "value" /\ text = <<>> /\ heard.inside.mode = "string" /\ Heard(done)
AtClosingQuote ==
  stage = "between" /\ text = <<Quote>> /\ heard.inside.mode = "string" /\ Heard(Len(L.value))
InEscapedQuote ==
  /\ stage = "value" /\ done > 0 /\ L.value[done] = Quote /\ Heard(done - 1)
  /\ \/ text = <<Backslash, Quote>> /\ heard.inside.mode = "string"
     \/ text = <<Quote>> /\ heard.inside.mode = "escape"
AtCharacter ==
  /\ stage = "value" /\ done > 0 /\ Heard(done - 1)
  /\ text = <<L.value[done]>> /\ L.value[done] \notin {Quote, Backslash, NewLine}
  /\ heard.inside.mode = "string"
InValue ==
  /\ InString /\ PlainLabel(L)
  /\ BetweenCharacters \/ AtClosingQuote \/ InEscapedQuote \/ AtCharacter

(* Inside a friendly name with a backslash nothing is known of what the    *)
(* reader takes it for.                                                    *)
OfName ==
  \/ text = <<>>
  \/ \E c \in Tokens \ {Quote, NewLine} : text = <<c>>
  \/ text = <<Backslash, Quote>>
InName ==
  /\ InString /\ ~PlainLabel(L) /\ L.name = "friendly_name"
  /\ \/ stage = "value" /\ (OfName \/ text = <<Quote>>)
     \/ stage = "between" /\ text = <<Quote>>

Ending ==
  /\ stage = "ended" /\ at = Length
  /\ Named(labels, heard.labels, at) /\ Clear
  /\ \/ text = <<"}", " ", Number, NewLine>> /\ at # 0 /\ heard.mode = "next"
     \/ text = <<" ", Number, NewLine>> /\ heard.mode = IF at = 0 THEN "labels" ELSE "space"
     \/ text = <<Number, NewLine>> /\ heard.mode = "value"
     \/ text = <<NewLine>> /\ heard.mode = "sample" /\ heard.word = Number

Finished ==
  /\ stage = "ended" /\ text = <<>> /\ heard.mode = "line"
  /\ Named(labels, heard.labels, Length)
  /\ heard.samples = <<[family |-> MetricName, labels |-> heard.labels, value |-> Number]>>

InStep == AtName \/ BetweenLabels \/ OpeningLabel \/ InValue \/ InName \/ Ending \/ Finished

(* The reader took a quote of the name for the one that ends it.           *)
Ahead ==
  /\ at # 0 /\ L.name = "friendly_name"
  /\ heard.mode \in {"next", "label", "equals", "open", "space", "value", "sample"}
  /\ \/ stage = "value" /\ OfName
     \/ stage = "between" /\ text = <<Quote>>

(* The reader took the quote that ends the name, or one that begins the    *)
(* value of a later label, for a character of the name.                    *)
Opening == {<<",", L.name, "=", Quote>>, <<L.name, "=", Quote>>, <<"=", Quote>>, <<Quote>>}
EndOfRow == {<<"}", " ", Number, NewLine>>, <<" ", Number, NewLine>>, <<Number, NewLine>>, <<NewLine>>}
StillInString ==
  /\ at # 0 /\ heard.mode = "string" /\ heard.inside.mode = "string"
  /\ \/ stage = "between" /\ text = <<>> /\ L.name = "friendly_name"
     \/ stage = "value" /\ done = 0 /\ L.name # "friendly_name" /\ text \in Opening
     \/ stage = "ended" /\ text \in EndOfRow

(* It is then outside the string when the value of a clean label comes.    *)
BeforeValue ==
  /\ at # 0 /\ heard.mode = "next" /\ stage = "value" /\ L.name # "friendly_name"
  /\ \/ done = 0 /\ text = <<>>
     \/ text # <<>> /\ Head(text) \notin {",", "}"}

Astray ==
  /\ Clear
  /\ Ahead \/ StillInString \/ BeforeValue \/ heard.mode = "error"

Expected == WellNamed /\ (AllPlain \/ OnlyNameOpen)
OneLine ==
  \A n \in DOMAIN labels :
    labels[n].tag = "name" => \A m \in DOMAIN labels[n].value : labels[n].value[m] # NewLine
Kept == InStep \/ (Astray /\ ~AllPlain)
Inv ==
  /\ TypeOK
  /\ OneLine
  /\ Expected => Kept

(***************************************************************************)
(* Facts about the labels of a row.                                        *)
(***************************************************************************)
LEMMA NamedMore ==
  ASSUME NEW ls, NEW S, NEW k \in Nat, k # 0, Named(ls, S, k - 1), NEW v,
         PlainLabel(ls[k]) => v = ls[k].value
  PROVE  Named(ls, S \cup {<<ls[k].name, v>>}, k)
<1> DEFINE T == S \cup {<<ls[k].name, v>>}
<1>1. ASSUME NEW n \in 1 .. k PROVE \E l \in T : l[1] = ls[n].name
  <2>1. CASE n = k
    <3>1. <<ls[k].name, v>> \in T /\ <<ls[k].name, v>>[1] = ls[k].name
      OBVIOUS
    <3> QED BY <2>1, <3>1
  <2>2. CASE n # k
    <3>1. n \in 1 .. k - 1
      BY <2>2
    <3> QED BY <3>1 DEF Named
  <2> QED BY <2>1, <2>2
<1>2. ASSUME NEW l \in T
      PROVE  \E n \in 1 .. k : l[1] = ls[n].name /\ (PlainLabel(ls[n]) => l[2] = ls[n].value)
  <2>1. CASE l \in S
    <3>1. PICK n \in 1 .. k - 1 : l[1] = ls[n].name /\ (PlainLabel(ls[n]) => l[2] = ls[n].value)
      BY <2>1 DEF Named
    <3>2. n \in 1 .. k
      OBVIOUS
    <3> QED BY <3>1, <3>2
  <2>2. CASE l = <<ls[k].name, v>>
    <3>1. k \in 1 .. k /\ l[1] = ls[k].name /\ l[2] = v
      BY <2>2
    <3> QED BY <3>1
  <2> QED BY <2>1, <2>2
<1> HIDE DEF T
<1>3. Named(ls, T, k)
  BY <1>1, <1>2 DEF Named
<1> QED BY <1>3 DEF T

(* A row and where it stands.                                              *)
LEMMA Here ==
  ASSUME TypeOK
  PROVE  /\ Length \in Nat /\ DOMAIN labels = 1 .. Length /\ at \in 0 .. Length /\ done \in Nat
         /\ text \in Seq(Tokens) /\ heard \in Reader /\ heard.inside \in Inner
         /\ heard.inside.value \in Seq(Tokens) /\ heard.labels \in LabelSets
         /\ stage = "value" => at # 0
         /\ at # 0 => /\ at \in 1 .. Length /\ L.name \in Tokens /\ L.tag \in {"own", "name", "json"}
                      /\ L.value \in Seq(Tokens) /\ Len(L.value) \in Nat /\ done <= Len(L.value)
                      /\ DOMAIN L.value = 1 .. Len(L.value)
                      /\ \A m \in 1 .. Len(L.value) : L.value[m] \in Tokens
<1>1. labels \in Seq(Label) /\ heard \in Reader
  BY DEF TypeOK
<1>2. Length \in Nat /\ DOMAIN labels = 1 .. Length
  BY <1>1, LabelType DEF Length
<1>3. heard.inside \in Inner /\ heard.inside.value \in Seq(Tokens) /\ heard.labels \in LabelSets
  BY <1>1 DEF Reader, Inner
<1>4. at \in 0 .. Length /\ done \in Nat /\ text \in Seq(Tokens) /\ (stage = "value" => at # 0)
      /\ (at # 0 => done <= Len(L.value))
  BY DEF TypeOK, Length, L
<1>5. ASSUME at # 0
      PROVE  /\ at \in 1 .. Length /\ L.name \in Tokens /\ L.tag \in {"own", "name", "json"}
             /\ L.value \in Seq(Tokens) /\ Len(L.value) \in Nat
             /\ DOMAIN L.value = 1 .. Len(L.value)
             /\ \A m \in 1 .. Len(L.value) : L.value[m] \in Tokens
  <2>1. at \in 1 .. Length
    BY <1>2, <1>4, <1>5
  <2>2. /\ L.name \in Tokens /\ L.tag \in {"own", "name", "json"}
        /\ L.value \in Seq(Tokens) /\ Len(L.value) \in Nat
        /\ \A m \in 1 .. Len(L.value) : L.value[m] \in Tokens
    BY <1>1, <2>1, LabelType DEF L, Length
  <2>3. DOMAIN L.value = 1 .. Len(L.value)
    BY <2>2, LenProperties
  <2> QED BY <2>1, <2>2, <2>3
<1> QED BY <1>1, <1>2, <1>3, <1>4, <1>5

(* The label under way has a name of its own, and only a friendly name is  *)
(* open.                                                                   *)
LEMMA OwnName ==
  ASSUME TypeOK, Expected, at # 0
  PROVE  /\ L.name \notin Punctuation
         /\ \A n \in 1 .. at - 1 : labels[n].name # L.name
         /\ at < Length => labels[at + 1].name # L.name /\ labels[at + 1].name \in Tokens
                           /\ labels[at + 1].name \notin Punctuation
         /\ \A S : Named(labels, S, at - 1) => \A l \in S : l[1] # L.name
<1>1. Length \in Nat /\ DOMAIN labels = 1 .. Length /\ at \in 1 .. Length
  BY Here
<1>2. /\ \A n \in 1 .. Length : labels[n].name \notin Punctuation
      /\ \A m, n \in 1 .. Length : labels[m].name = labels[n].name => m = n
  BY <1>1 DEF Expected, WellNamed
<1>3. L.name \notin Punctuation
  BY <1>1, <1>2 DEF L
<1>4. \A n \in 1 .. at - 1 : labels[n].name # L.name
  BY <1>1, <1>2 DEF L
<1>5. ASSUME at < Length
      PROVE  labels[at + 1].name # L.name /\ labels[at + 1].name \in Tokens
             /\ labels[at + 1].name \notin Punctuation
  <2>1. at + 1 \in 1 .. Length /\ at + 1 # at
    BY <1>1, <1>5
  <2>2. labels[at + 1].name \in Tokens
    BY <2>1, LabelType DEF Length, TypeOK
  <2> QED BY <1>1, <1>2, <2>1, <2>2 DEF L
<1>6. \A S : Named(labels, S, at - 1) => \A l \in S : l[1] # L.name
  BY <1>4 DEF Named
<1> QED BY <1>3, <1>4, <1>5, <1>6

LEMMA OpenName ==
  ASSUME TypeOK, Expected, at # 0
  PROVE  /\ ~PlainLabel(L) => ~AllPlain /\ L.name = "friendly_name"
         /\ ~AllPlain /\ L.name = "friendly_name" => L.tag = "name"
         /\ ~AllPlain /\ L.name # "friendly_name" => Clean(L)
<1>1. at \in DOMAIN labels
  BY Here
<1>2. ~PlainLabel(L) => ~AllPlain
  BY <1>1 DEF AllPlain, L
<1>3. ~AllPlain => IF L.name = "friendly_name" THEN L.tag = "name" ELSE Clean(L)
  BY <1>1 DEF Expected, OnlyNameOpen, L
<1> QED BY <1>2, <1>3 DEF Clean

LEMMA RowStays ==
  ASSUME labels' = labels
  PROVE  (AllPlain' <=> AllPlain) /\ (Expected' <=> Expected) /\ (OneLine' <=> OneLine)
BY DEF AllPlain, Expected, WellNamed, OnlyNameOpen, OneLine

LEMMA Ends ==
  \A a, b, c, d :
    /\ Head(<<a>>) = a /\ Tail(<<a>>) = <<>> /\ <<a>> # <<>>
    /\ Head(<<a, b>>) = a /\ Tail(<<a, b>>) = <<b>> /\ <<a, b>> # <<>>
    /\ Head(<<a, b, c>>) = a /\ Tail(<<a, b, c>>) = <<b, c>> /\ <<a, b, c>> # <<>>
    /\ Head(<<a, b, c, d>>) = a /\ Tail(<<a, b, c, d>>) = <<b, c, d>> /\ <<a, b, c, d>> # <<>>
OBVIOUS

(***************************************************************************)
(* The writer's steps.                                                     *)
(***************************************************************************)
LEMMA OpenKeeps ==
  ASSUME Inv, Expected, OpenLabel
  PROVE  Kept'
<1>1. /\ TypeOK /\ Length \in Nat /\ at \in 0 .. Length /\ at < Length /\ at' = at + 1 /\ done' = 0
      /\ text = <<>> /\ text' = <<IF at = 0 THEN "{" ELSE ",", labels[at + 1].name, "=", Quote>>
      /\ stage = "between" /\ stage' = "value" /\ labels' = labels /\ heard' = heard
      /\ L' = labels[at + 1] /\ Length' = Length
  BY Here DEF Inv, OpenLabel, Length, L
<1>2. at' - 1 = at /\ (at = 0 <=> at' = 1) /\ at' # 0
  <2>1. at' = at + 1
    BY Zenon DEF OpenLabel
  <2>2. at \in Nat
    BY Here DEF Inv
  <2> QED BY <2>1, <2>2
<1>3. AllPlain' <=> AllPlain
  BY <1>1, RowStays
<1>4. CASE InStep
  <2>1. BetweenLabels
    BY <1>1, <1>4, Ends DEF InStep, AtName, BetweenLabels, OpeningLabel, InValue, InName, Ending,
         Finished, BetweenCharacters, AtClosingQuote, InEscapedQuote, AtCharacter
  <2>2. Named(labels', heard'.labels, at' - 1) /\ Clear'
    <3> QED BY <1>1, <1>2, <2>1 DEF BetweenLabels, Clear
  <2>3. text' = <<IF at' = 1 THEN "{" ELSE ",", L'.name, "=", Quote>>
        /\ heard'.mode = IF at' = 1 THEN "labels" ELSE "next"
    <3>1. heard'.mode = IF at = 0 THEN "labels" ELSE "next"
      BY <1>1, <2>1 DEF BetweenLabels
    <3> QED BY <1>1, <1>2, <3>1, Zenon
  <2> QED BY <1>1, <2>2, <2>3, Zenon DEF Kept, InStep, OpeningLabel
<1>5. CASE Astray /\ ~AllPlain
  <2>1. Clear'
    BY <1>1, <1>5 DEF Astray, Clear
  <2>2. CASE heard.mode = "error"
    BY <1>1, <1>3, <1>5, <2>1, <2>2 DEF Kept, Astray
  <2>3. CASE StillInString
    <3>1. /\ at # 0 /\ L.name = "friendly_name"
          /\ heard'.mode = "string" /\ heard'.inside.mode = "string"
      BY <1>1, <2>3, Ends DEF StillInString
    <3>2. L'.name # "friendly_name" /\ at' # 0
      <4>1. labels[at + 1].name # L.name
        BY <1>1, <3>1, OwnName
      <4> QED BY <1>1, <1>2, <3>1, <4>1
    <3>3. text' \in Opening'
      <4>1. text' = <<",", L'.name, "=", Quote>>
        BY <1>1, <3>1
      <4> QED BY <4>1, Zenon DEF Opening
    <3> QED BY <1>1, <1>3, <1>5, <2>1, <3>1, <3>2, <3>3 DEF Kept, Astray, StillInString
  <2>4. ~Ahead /\ ~BeforeValue
    BY <1>1, Ends DEF Ahead, BeforeValue
  <2> QED BY <1>5, <2>2, <2>3, <2>4 DEF Astray
<1> QED BY <1>4, <1>5 DEF Inv, Kept

(* What an escape gives the reader.                                        *)
LEMMA EscapeWrites ==
  ASSUME NEW tag, NEW c \in Tokens
  PROVE  /\ EscapeChar(tag, c) # <<>>
         /\ tag = "name" /\ c = Quote => EscapeChar(tag, c) = <<Backslash, Quote>>
         /\ ~(tag = "name" /\ c = Quote) => EscapeChar(tag, c) = <<c>>
         /\ Head(EscapeChar(tag, c)) \in {c, Backslash}
BY Ends DEF EscapeChar

LEMMA WriteKeeps ==
  ASSUME Inv, Expected, Write
  PROVE  Kept'
<1> DEFINE c == L.value[done + 1]
<1>1. /\ TypeOK /\ Length \in Nat /\ at \in 1 .. Length /\ done \in Nat /\ done < Len(L.value)
      /\ done' = done + 1 /\ text = <<>> /\ text' = EscapeChar(L.tag, c)
      /\ stage = "value" /\ labels' = labels /\ heard' = heard /\ at' = at /\ stage' = "value"
      /\ L' = L /\ Length' = Length /\ at # 0
  <2>1. TypeOK /\ stage = "value"
    BY DEF Inv, Write
  <2>2. Length \in Nat /\ at # 0 /\ at \in 1 .. Length /\ done \in Nat
    BY <2>1, Here
  <2> QED BY <2>1, <2>2 DEF Write, Length, L
<1>2. AllPlain' <=> AllPlain
  BY <1>1, RowStays
<1>3. c \in Tokens /\ done + 1 \in DOMAIN L.value /\ L.tag \in {"own", "name", "json"}
  <2>1. done + 1 \in 1 .. Len(L.value)
    BY <1>1, Here
  <2> QED BY <1>1, <2>1, Here
<1>4. L.tag = "name" => c # NewLine
  <2>1. at \in DOMAIN labels
    BY <1>1, Here
  <2> QED BY <1>3, <2>1 DEF Inv, OneLine, L
<1> HIDE DEF c
<1>5. ASSUME L.tag = "name" PROVE OfName'
  <2>1. CASE c = Quote
    BY <1>1, <1>3, <1>5, <2>1, EscapeWrites DEF OfName
  <2>2. CASE c # Quote
    <3>1. text' = <<c>> /\ c \in Tokens \ {Quote, NewLine}
      BY <1>1, <1>3, <1>4, <1>5, <2>2, EscapeWrites
    <3> QED BY <3>1, Zenon DEF OfName
  <2> QED BY <2>1, <2>2
<1>6. CASE InStep
  <2>1. (InValue /\ BetweenCharacters) \/ InName
    BY <1>1, <1>6, Ends DEF InStep, AtName, BetweenLabels, OpeningLabel, InValue, Ending,
         Finished, AtClosingQuote, InEscapedQuote, AtCharacter
  <2>2. InString'
    BY <1>1, <2>1 DEF InValue, InName, InString, Clear
  <2>3. CASE InValue /\ BetweenCharacters
    <3>1. /\ PlainLabel(L') /\ heard'.inside.mode = "string"
          /\ Begun(heard'.inside.value, L'.value, done' - 1) /\ done' > 0
      <4>1. done' - 1 = done /\ done' > 0
        BY <1>1
      <4> QED BY <1>1, <2>3, <4>1 DEF InValue, BetweenCharacters, Heard
    <3>2. L'.value[done'] = c
      BY <1>1 DEF c
    <3>3. c \notin Special(L.tag)
      BY <1>3, <2>3 DEF InValue, PlainLabel, Plain, c
    <3>4. CASE L.tag = "name" /\ c = Quote
      <4>1. text' = <<Backslash, Quote>>
        BY <1>1, <1>3, <3>4, EscapeWrites
      <4>2. InEscapedQuote'
        BY <1>1, <3>1, <3>2, <3>4, <4>1, Zenon DEF InEscapedQuote, Heard
      <4> QED BY <2>2, <3>1, <4>2, Zenon DEF Kept, InStep, InValue
    <3>5. CASE ~(L.tag = "name" /\ c = Quote)
      <4>1. text' = <<c>>
        BY <1>1, <1>3, <3>5, EscapeWrites
      <4>2. c \notin {Quote, Backslash, NewLine}
        BY <3>3, <3>5 DEF Special
      <4>3. AtCharacter'
        BY <1>1, <3>1, <3>2, <4>1, <4>2, Zenon DEF AtCharacter, Heard
      <4> QED BY <2>2, <3>1, <4>3, Zenon DEF Kept, InStep, InValue
    <3> QED BY <3>4, <3>5
  <2>4. CASE InName
    <3>1. ~PlainLabel(L) /\ L.name = "friendly_name"
      BY <2>4 DEF InName
    <3>2. L.tag = "name"
      BY <1>1, <3>1, OpenName
    <3>3. InName'
      BY <1>1, <1>5, <2>2, <3>1, <3>2 DEF InName
    <3> QED BY <3>3 DEF Kept, InStep
  <2> QED BY <2>1, <2>3, <2>4
<1>7. CASE Astray /\ ~AllPlain
  <2>1. Clear'
    BY <1>1, <1>7 DEF Astray, Clear
  <2>2. CASE heard.mode = "error"
    BY <1>1, <1>2, <1>7, <2>1, <2>2 DEF Kept, Astray
  <2>3. CASE Ahead
    <3>1. L.name = "friendly_name"
      BY <2>3 DEF Ahead
    <3>2. L.tag = "name"
      BY <1>1, <1>7, <3>1, OpenName
    <3>3. Ahead'
      BY <1>1, <1>5, <2>3, <3>1, <3>2 DEF Ahead
    <3> QED BY <1>2, <1>7, <2>1, <3>3 DEF Kept, Astray
  <2>4. CASE BeforeValue
    <3>1. done = 0 /\ L.name # "friendly_name" /\ heard.mode = "next"
      BY <1>1, <2>4 DEF BeforeValue
    <3>2. Clean(L)
      BY <1>1, <1>7, <3>1, OpenName
    <3>3. c \notin {",", "}"} /\ Backslash \notin {",", "}"}
      <4>1. c = L.value[1]
        BY <3>1 DEF c
      <4> QED BY <3>2, <4>1, Marks DEF Clean
    <3>4. text' # <<>> /\ Head(text') \notin {",", "}"}
      BY <1>1, <1>3, <3>3, EscapeWrites
    <3>5. BeforeValue'
      BY <1>1, <3>1, <3>4 DEF BeforeValue
    <3> QED BY <1>2, <1>7, <2>1, <3>5 DEF Kept, Astray
  <2>5. ~StillInString
    BY <1>1, Ends DEF StillInString, Opening
  <2> QED BY <1>7, <2>2, <2>3, <2>4, <2>5 DEF Astray
<1> QED BY <1>6, <1>7 DEF Inv, Kept

LEMMA CloseKeeps ==
  ASSUME Inv, Expected, CloseLabel
  PROVE  Kept'
<1>1. /\ TypeOK /\ at # 0 /\ done = Len(L.value) /\ text = <<>> /\ text' = <<Quote>>
      /\ stage = "value" /\ labels' = labels /\ heard' = heard /\ at' = at /\ done' = done
      /\ stage' = "between" /\ L' = L /\ Length' = Length
  <2>1. TypeOK /\ stage = "value"
    BY DEF Inv, CloseLabel
  <2>2. at # 0
    BY <2>1, Here
  <2> QED BY <2>1, <2>2 DEF CloseLabel, Length, L
<1>2. AllPlain' <=> AllPlain
  BY <1>1, RowStays
<1>3. CASE InStep
  <2>1. (InValue /\ BetweenCharacters) \/ InName
    BY <1>1, <1>3, Ends DEF InStep, AtName, BetweenLabels, OpeningLabel, InValue, Ending,
         Finished, AtClosingQuote, InEscapedQuote, AtCharacter
  <2>2. InString'
    BY <1>1, <2>1 DEF InValue, InName, InString, Clear
  <2>3. CASE InValue /\ BetweenCharacters
    <3>1. AtClosingQuote'
      BY <1>1, <2>3 DEF AtClosingQuote, BetweenCharacters, Heard
    <3>2. PlainLabel(L')
      BY <1>1, <2>3 DEF InValue
    <3> QED BY <2>2, <3>1, <3>2 DEF Kept, InStep, InValue
  <2>4. CASE InName
    <3>1. InName'
      BY <1>1, <2>2, <2>4 DEF InName
    <3> QED BY <3>1 DEF Kept, InStep
  <2> QED BY <2>1, <2>3, <2>4
<1>4. CASE Astray /\ ~AllPlain
  <2>1. Clear'
    BY <1>1, <1>4 DEF Astray, Clear
  <2>2. CASE heard.mode = "error"
    BY <1>1, <1>2, <1>4, <2>1, <2>2 DEF Kept, Astray
  <2>3. CASE Ahead
    <3>1. Ahead'
      BY <1>1, <2>3 DEF Ahead
    <3> QED BY <1>2, <1>4, <2>1, <3>1 DEF Kept, Astray
  <2>4. ~BeforeValue
    <3> SUFFICES ASSUME BeforeValue PROVE FALSE
      OBVIOUS
    <3>1. done = 0 /\ L.name # "friendly_name"
      BY <1>1 DEF BeforeValue
    <3>2. L.value # <<>> /\ L.value \in Seq(Tokens)
      BY <1>1, <1>4, <3>1, OpenName, Here DEF Clean
    <3> QED BY <1>1, <3>1, <3>2, EmptySeq
  <2>5. ~StillInString
    BY <1>1, Ends DEF StillInString, Opening
  <2> QED BY <1>4, <2>2, <2>3, <2>4, <2>5 DEF Astray
<1> QED BY <1>3, <1>4 DEF Inv, Kept

LEMMA EndKeeps ==
  ASSUME Inv, Expected, End
  PROVE  Kept'
<1>1. /\ TypeOK /\ at = Length /\ text = <<>>
      /\ text' = IF at = 0 THEN <<" ", Number, NewLine>> ELSE <<"}", " ", Number, NewLine>>
      /\ stage = "between" /\ labels' = labels /\ heard' = heard /\ at' = at /\ done' = done
      /\ stage' = "ended" /\ L' = L /\ Length' = Length
  BY DEF Inv, End, Length, L
<1>2. AllPlain' <=> AllPlain
  BY <1>1, RowStays
<1>3. CASE InStep
  <2>1. BetweenLabels
    BY <1>1, <1>3, Ends DEF InStep, AtName, BetweenLabels, OpeningLabel, InValue, InName, Ending,
         Finished, BetweenCharacters, AtClosingQuote, InEscapedQuote, AtCharacter
  <2>2. Named(labels', heard'.labels, at') /\ Clear'
    BY <1>1, <2>1 DEF BetweenLabels, Clear
  <2>3. heard'.mode = IF at' = 0 THEN "labels" ELSE "next"
    BY <1>1, <2>1 DEF BetweenLabels
  <2>4. Ending'
    <3>1. CASE at = 0
      BY <1>1, <2>2, <2>3, <3>1, Zenon DEF Ending
    <3>2. CASE at # 0
      BY <1>1, <2>2, <2>3, <3>2, Zenon DEF Ending
    <3> QED BY <3>1, <3>2
  <2> QED BY <2>4 DEF Kept, InStep
<1>4. CASE Astray /\ ~AllPlain
  <2>1. Clear'
    BY <1>1, <1>4 DEF Astray, Clear
  <2>2. CASE heard.mode = "error"
    BY <1>1, <1>2, <1>4, <2>1, <2>2 DEF Kept, Astray
  <2>3. CASE StillInString
    <3>1. at # 0 /\ heard'.mode = "string" /\ heard'.inside.mode = "string"
      BY <1>1, <2>3 DEF StillInString
    <3>2. text' \in EndOfRow'
      BY <1>1, <3>1 DEF EndOfRow
    <3> QED BY <1>1, <1>2, <1>4, <2>1, <3>1, <3>2 DEF Kept, Astray, StillInString
  <2>4. ~Ahead /\ ~BeforeValue
    BY <1>1, Ends DEF Ahead, BeforeValue
  <2> QED BY <1>4, <2>2, <2>3, <2>4 DEF Astray
<1> QED BY <1>3, <1>4 DEF Inv, Kept

(***************************************************************************)
(* The reader's steps.                                                     *)
(***************************************************************************)
LEMMA Reads ==
  ASSUME Inv, Read
  PROVE  /\ TypeOK /\ text \in Seq(Tokens) /\ text # <<>> /\ Head(text) \in Tokens /\ heard \in Reader
         /\ heard' = Advance(heard, Head(text)) /\ text' = Tail(text)
         /\ labels' = labels /\ at' = at /\ done' = done /\ stage' = stage
         /\ L' = L /\ Length' = Length
         /\ AllPlain' <=> AllPlain
         /\ Keeps(heard', heard) => heard'.labels = heard.labels /\ (Clear => Clear')
<1>1. TypeOK /\ text \in Seq(Tokens) /\ heard \in Reader
  BY Here DEF Inv
<1>2. /\ text # <<>> /\ heard' = Advance(heard, Head(text)) /\ text' = Tail(text)
      /\ labels' = labels /\ at' = at /\ done' = done /\ stage' = stage
  BY DEF Read
<1>3. Head(text) \in Tokens
  BY <1>1, <1>2, HeadTailProperties
<1>4. L' = L /\ Length' = Length
  BY <1>2 DEF L, Length
<1>5. AllPlain' <=> AllPlain
  BY <1>2, RowStays
<1>6. Keeps(heard', heard) => heard'.labels = heard.labels /\ (Clear => Clear')
  BY DEF Keeps, Clear
<1> QED BY <1>1, <1>2, <1>3, <1>4, <1>5, <1>6

LEMMA ReadAtName ==
  ASSUME Inv, Expected, Read, AtName
  PROVE  Kept'
<1> DEFINE c == Head(text)
<1>1. /\ c = MetricName /\ text' = <<>> /\ stage' = "between" /\ at' = 0
      /\ heard.mode = "line" /\ Clear
  BY Reads, Ends DEF AtName
<1>2. Family(heard) = MetricName /\ heard.types # <<>>
  <2>1. heard.types = << <<MetricName, "counter">> >>
    BY <1>1 DEF Clear
  <2> QED BY <2>1, Ends DEF Family
<1>3. c \notin Punctuation /\ c \notin {"# HELP ", "# TYPE "}
  BY <1>1, RowConstants
<1>4. /\ heard'.mode = "labels" /\ heard'.labels = {}
      /\ heard'.types = heard.types /\ heard'.samples = heard.samples
  <2>1. heard \in Reader /\ c \in Tokens /\ heard' = Advance(heard, c)
    BY Reads
  <2> HIDE DEF c
  <2> QED BY <1>1, <1>2, <1>3, <2>1, LineMoves
<1>5. Named(labels', heard'.labels, at') /\ Clear'
  BY <1>1, <1>4 DEF Named, Clear
<1> QED BY <1>1, <1>4, <1>5 DEF Kept, InStep, BetweenLabels

LEMMA ReadOpening ==
  ASSUME Inv, Expected, Read, OpeningLabel
  PROVE  Kept'
<1> DEFINE c == Head(text)
<1>1. /\ c \in Tokens /\ heard \in Reader /\ heard' = Advance(heard, c) /\ stage' = "value" /\ done' = 0
      /\ Named(labels, heard.labels, at - 1) /\ Clear /\ at # 0 /\ L' = L /\ at' = at /\ labels' = labels
      /\ Keeps(heard', heard) => Named(labels', heard'.labels, at' - 1) /\ Clear'
  <2>1. stage = "value" /\ done = 0 /\ Named(labels, heard.labels, at - 1) /\ Clear
    BY DEF OpeningLabel
  <2>2. at # 0
    BY <2>1, Here DEF Inv
  <2> QED BY <2>1, <2>2, Reads
<1>2. CASE /\ text = <<IF at = 1 THEN "{" ELSE ",", L.name, "=", Quote>>
           /\ heard.mode = IF at = 1 THEN "labels" ELSE "next"
  <2> DEFINE m == IF at = 1 THEN "{" ELSE ","
  <2>1. c = m /\ text' = <<L.name, "=", Quote>>
    <3>1. text = <<m, L.name, "=", Quote>>
      BY <1>2
    <3> HIDE DEF m
    <3> QED BY <3>1, Reads, Ends
  <2>2. Keeps(heard', heard) /\ heard'.mode = "label"
    <3> HIDE DEF c
    <3>1. CASE at = 1
      <4>1. heard.mode = "labels" /\ c = "{"
        BY <1>2, <2>1, <3>1
      <4> QED BY <1>1, <4>1, LabelsMoves
    <3>2. CASE at # 1
      <4>1. heard.mode = "next" /\ c = ","
        BY <1>2, <2>1, <3>2
      <4> QED BY <1>1, <4>1, NextMoves
    <3> QED BY <3>1, <3>2
  <2>3. OpeningLabel'
    BY <1>1, <2>1, <2>2, Zenon DEF OpeningLabel
  <2> QED BY <2>3 DEF Kept, InStep
<1>3. CASE text = <<L.name, "=", Quote>> /\ heard.mode = "label"
  <2>1. c = L.name /\ text' = <<"=", Quote>>
    BY <1>3, Reads, Ends
  <2>2. c \notin Punctuation /\ \A l \in heard.labels : l[1] # c
    BY <1>1, <2>1, OwnName DEF Inv
  <2>3. Keeps(heard', heard) /\ heard'.mode = "equals" /\ heard'.label = L.name
    <3> HIDE DEF c
    <3> QED BY <1>1, <1>3, <2>1, <2>2, LabelMoves
  <2>4. OpeningLabel'
    BY <1>1, <2>1, <2>3, Zenon DEF OpeningLabel
  <2> QED BY <2>4 DEF Kept, InStep
<1>4. CASE text = <<"=", Quote>> /\ heard.mode = "equals" /\ heard.label = L.name
  <2>1. c = "=" /\ text' = <<Quote>>
    BY <1>4, Reads, Ends
  <2>2. Keeps(heard', heard) /\ heard'.mode = "open" /\ heard'.label = L.name
    <3> HIDE DEF c
    <3> QED BY <1>1, <1>4, <2>1, EqualsMoves
  <2>3. OpeningLabel'
    BY <1>1, <2>1, <2>2, Zenon DEF OpeningLabel
  <2> QED BY <2>3 DEF Kept, InStep
<1>5. CASE text = <<Quote>> /\ heard.mode = "open" /\ heard.label = L.name
  <2>1. c = Quote /\ text' = <<>>
    BY <1>5, Reads, Ends
  <2>2. Keeps(heard', heard) /\ heard'.mode = "string" /\ heard'.label = L.name /\ heard'.inside = Opened
    <3> HIDE DEF c
    <3> QED BY <1>1, <1>5, <2>1, OpenMoves
  <2>3. InString'
    BY <1>1, <2>2 DEF InString
  <2>4. CASE PlainLabel(L)
    <3>1. heard'.inside.mode = "string" /\ heard'.inside.value = <<>>
      BY <2>2 DEF Opened
    <3>2. Begun(<<>>, L.value, 0)
      BY DEF Begun
    <3>3. BetweenCharacters'
      BY <1>1, <2>1, <3>1, <3>2 DEF BetweenCharacters, Heard
    <3> QED BY <1>1, <2>3, <2>4, <3>3 DEF Kept, InStep, InValue
  <2>5. CASE ~PlainLabel(L)
    <3>1. L.name = "friendly_name"
      BY <1>1, <2>5, OpenName DEF Inv
    <3>2. InName'
      BY <1>1, <2>1, <2>3, <2>5, <3>1 DEF InName, OfName
    <3> QED BY <3>2 DEF Kept, InStep
  <2> QED BY <2>4, <2>5
<1> QED BY <1>2, <1>3, <1>4, <1>5 DEF OpeningLabel

(* A reader that has heard everything up to a character, and then reads    *)
(* it, has heard it too.                                                   *)
LEMMA OneMore ==
  ASSUME NEW read \in Seq(Tokens), NEW value, NEW n \in Nat, n # 0, Begun(read, value, n - 1),
         value[n] \in Tokens
  PROVE  Begun(Append(read, value[n]), value, n)
<1>1. Len(read) = n - 1 /\ \A m \in 1 .. n - 1 : read[m] = value[m]
  BY DEF Begun
<1>2. /\ Len(Append(read, value[n])) = n
      /\ Append(read, value[n])[n] = value[n]
      /\ \A m \in 1 .. n - 1 : Append(read, value[n])[m] = read[m]
  BY <1>1, AppendProperties
<1>3. ASSUME NEW m \in 1 .. n PROVE Append(read, value[n])[m] = value[m]
  <2>1. CASE m = n
    BY <1>2, <2>1
  <2>2. CASE m # n
    <3>1. m \in 1 .. n - 1
      BY <2>2
    <3> QED BY <1>1, <1>2, <3>1
  <2> QED BY <2>1, <2>2
<1> QED BY <1>2, <1>3 DEF Begun

LEMMA ReadInValue ==
  ASSUME Inv, Expected, Read, InValue
  PROVE  Kept'
<1> DEFINE c == Head(text)
           i == heard.inside
<1>1. /\ c \in Tokens /\ heard \in Reader /\ heard' = Advance(heard, c) /\ stage' = stage /\ done' = done
      /\ L' = L /\ at' = at /\ labels' = labels /\ text' = Tail(text) /\ text # <<>>
  BY Reads
<1>2. /\ at # 0 /\ heard.mode = "string" /\ heard.label = L.name /\ Named(labels, heard.labels, at - 1)
      /\ Clear /\ PlainLabel(L)
  BY DEF InValue, InString
<1>3. /\ i \in Inner /\ i.value \in Seq(Tokens) /\ at \in Nat /\ done \in Nat /\ done <= Len(L.value)
      /\ Len(L.value) \in Nat /\ \A m \in 1 .. Len(L.value) : L.value[m] \in Tokens
  BY <1>2, Here DEF Inv
<1> HIDE DEF c
<1>4. ASSUME Inside(i, c).mode \in {"string", "escape"}
      PROVE  /\ heard'.inside = Inside(i, c)
             /\ InString'
  <2>1. /\ heard'.mode = "string" /\ heard'.inside = Inside(i, c) /\ heard'.label = heard.label
        /\ heard'.labels = heard.labels /\ heard'.types = heard.types /\ heard'.samples = heard.samples
    BY <1>1, <1>2, <1>4, StringMoves
  <2>2. Clear'
    BY <1>2, <2>1 DEF Clear
  <2> QED BY <1>1, <1>2, <2>1, <2>2 DEF InString
<1>5. CASE AtClosingQuote
  <2>1. c = Quote /\ text' = <<>> /\ stage' = "between" /\ i.mode = "string" /\ Heard(Len(L.value))
    BY <1>1, <1>5, Ends DEF AtClosingQuote, c
  <2>2. Inside(i, c).mode = "closed" /\ Inside(i, c).value = i.value
    BY <1>3, <2>1, InsideQuote
  <2>3. /\ heard'.mode = "next" /\ heard'.labels = heard.labels \cup {<<L.name, i.value>>}
        /\ heard'.types = heard.types /\ heard'.samples = heard.samples
    BY <1>1, <1>2, <2>2, StringMoves
  <2>4. i.value = L.value
    <3>1. L.value \in Seq(Tokens)
      BY <1>2, Here DEF Inv
    <3>2. Len(i.value) = Len(L.value) /\ \A m \in 1 .. Len(L.value) : i.value[m] = L.value[m]
      BY <2>1 DEF Heard, Begun
    <3> HIDE DEF i
    <3> QED BY <1>3, <3>1, <3>2, SeqEqual
  <2>5. Named(labels', heard'.labels, at')
    <3>1. Named(labels, heard.labels \cup {<<labels[at].name, i.value>>}, at)
      BY <1>2, <1>3, <2>4, NamedMore DEF L
    <3> QED BY <1>1, <2>3, <3>1 DEF L
  <2>6. Clear'
    BY <1>2, <2>3 DEF Clear
  <2> QED BY <1>1, <1>2, <2>1, <2>3, <2>5, <2>6 DEF Kept, InStep, BetweenLabels
<1>6. CASE InEscapedQuote /\ text = <<Backslash, Quote>> /\ i.mode = "string"
  <2>1. c = Backslash /\ text' = <<Quote>>
    BY <1>1, <1>6, Ends DEF c
  <2>2. Inside(i, c).mode = "escape" /\ Inside(i, c).value = i.value
    BY <1>3, <1>6, <2>1, InsideBackslash
  <2>3. heard'.inside.mode = "escape" /\ heard'.inside.value = i.value /\ InString'
    BY <1>4, <2>2
  <2>4. InEscapedQuote'
    BY <1>1, <1>6, <2>1, <2>3 DEF InEscapedQuote, Heard
  <2> QED BY <1>1, <1>2, <2>3, <2>4 DEF Kept, InStep, InValue
<1>7. CASE InEscapedQuote /\ text = <<Quote>> /\ i.mode = "escape"
  <2>1. c = Quote /\ text' = <<>> /\ L.value[done] = Quote /\ done # 0 /\ Heard(done - 1) /\ stage = "value"
    BY <1>1, <1>3, <1>7, Ends DEF c, InEscapedQuote
  <2>2. Inside(i, c).mode = "string" /\ Inside(i, c).value = Append(i.value, L.value[done])
    BY <1>3, <1>7, <2>1, InsideQuote
  <2>3. heard'.inside.mode = "string" /\ heard'.inside.value = Append(i.value, L.value[done]) /\ InString'
    BY <1>4, <2>2
  <2>4. Begun(heard'.inside.value, L.value, done)
    BY <1>3, <2>1, <2>3, Marks, OneMore DEF Heard
  <2>5. BetweenCharacters'
    BY <1>1, <2>1, <2>3, <2>4 DEF BetweenCharacters, Heard
  <2> QED BY <1>1, <1>2, <2>3, <2>5 DEF Kept, InStep, InValue
<1>8. CASE AtCharacter
  <2>1. /\ c = L.value[done] /\ text' = <<>> /\ done # 0 /\ Heard(done - 1) /\ stage = "value"
        /\ c \notin {Quote, Backslash, NewLine} /\ i.mode = "string"
    BY <1>1, <1>3, <1>8, Ends DEF c, AtCharacter
  <2>2. Inside(i, c).mode = "string" /\ Inside(i, c).value = Append(i.value, L.value[done])
    BY <1>3, <2>1, InsidePlain
  <2>3. heard'.inside.mode = "string" /\ heard'.inside.value = Append(i.value, L.value[done]) /\ InString'
    BY <1>4, <2>2
  <2>4. Begun(heard'.inside.value, L.value, done)
    BY <1>1, <1>3, <2>1, <2>3, OneMore DEF Heard
  <2>5. BetweenCharacters'
    BY <1>1, <2>1, <2>3, <2>4 DEF BetweenCharacters, Heard
  <2> QED BY <1>1, <1>2, <2>3, <2>5 DEF Kept, InStep, InValue
<1>9. ~BetweenCharacters
  BY <1>1 DEF BetweenCharacters
<1> QED BY <1>5, <1>6, <1>7, <1>8, <1>9 DEF InValue, InEscapedQuote

LEMMA InsideOutcome ==
  ASSUME NEW i \in Inner, NEW c \in Tokens
  PROVE  /\ Inside(i, c).mode \in {"string", "escape", "closed", "error"}
         /\ Inside(i, c).mode = "closed" => c = Quote
<1> DEFINE R == [mode : {"string", "escape", "closed", "error"}, value : Seq(Tokens)]
<1>1. i \in R /\ i.mode \in {"string", "escape"}
  BY DEF Inner
<1>2. CASE c # Quote
  <2>1. CASE i.mode = "string"
    BY <1>1, <1>2, <2>1, Marks DEF Inside
  <2>2. CASE i.mode = "escape"
    BY <1>1, <1>2, <2>2, Marks DEF Inside
  <2> QED BY <1>1, <1>2, <2>1, <2>2, InsideType
<1> QED BY <1>2, InsideType

LEMMA ReadInName ==
  ASSUME Inv, Expected, Read, InName
  PROVE  Kept'
<1> DEFINE c == Head(text)
           i == heard.inside
<1>1. /\ c \in Tokens /\ heard \in Reader /\ heard' = Advance(heard, c) /\ stage' = stage /\ done' = done
      /\ L' = L /\ at' = at /\ labels' = labels /\ text' = Tail(text) /\ text # <<>>
      /\ AllPlain' <=> AllPlain
  BY Reads
<1>2. /\ at # 0 /\ heard.mode = "string" /\ heard.label = L.name /\ Named(labels, heard.labels, at - 1)
      /\ Clear /\ ~PlainLabel(L) /\ L.name = "friendly_name"
  BY DEF InName, InString
<1>3. i \in Inner /\ at \in Nat /\ ~AllPlain'
  BY <1>1, <1>2, Here, OpenName DEF Inv
<1>4. \/ stage = "value" /\ text' = <<>>
      \/ stage = "value" /\ text' = <<Quote>> /\ c = Backslash
      \/ stage = "between" /\ text' = <<>> /\ c = Quote
  <2>1. \A d : text = <<d>> => text' = <<>> /\ c = d
    BY <1>1, Ends
  <2>2. text = <<Backslash, Quote>> => text' = <<Quote>> /\ c = Backslash
    BY <1>1, Ends
  <2>3. CASE stage = "value" /\ OfName
    BY <1>1, <2>1, <2>2, <2>3 DEF OfName
  <2>4. CASE text = <<Quote>> /\ stage \in {"value", "between"}
    BY <2>1, <2>4
  <2> QED BY <2>3, <2>4 DEF InName
<1> HIDE DEF c
<1>5. CASE Inside(i, c).mode = "error"
  <2>1. heard'.mode = "error" /\ heard'.types = heard.types /\ heard'.samples = heard.samples
    BY <1>1, <1>2, <1>5, StringMoves
  <2>2. Clear'
    BY <1>2, <2>1 DEF Clear
  <2> QED BY <1>3, <2>1, <2>2 DEF Kept, Astray
<1>6. CASE Inside(i, c).mode \in {"string", "escape"}
  <2>1. /\ heard'.mode = "string" /\ heard'.inside = Inside(i, c) /\ heard'.label = heard.label
        /\ heard'.labels = heard.labels /\ heard'.types = heard.types /\ heard'.samples = heard.samples
    BY <1>1, <1>2, <1>6, StringMoves
  <2>2. Clear'
    BY <1>2, <2>1 DEF Clear
  <2>3. CASE stage = "value"
    <3>1. InString'
      BY <1>1, <1>2, <2>1, <2>2 DEF InString
    <3>2. text' = <<>> \/ text' = <<Quote>>
      BY <1>4, <2>3
    <3>3. InName'
      BY <1>1, <1>2, <2>3, <3>1, <3>2 DEF InName, OfName
    <3> QED BY <3>3 DEF Kept, InStep
  <2>4. CASE stage # "value"
    <3>1. stage' = "between" /\ text' = <<>> /\ c = Quote
      BY <1>1, <1>4, <2>4
    <3>2. i.mode \in {"string", "escape"}
      BY <1>3 DEF Inner
    <3>3. heard'.inside.mode = "string"
      BY <1>3, <1>6, <2>1, <3>1, <3>2, InsideQuote
    <3>4. StillInString'
      BY <1>1, <1>2, <2>1, <3>1, <3>3 DEF StillInString
    <3> QED BY <1>3, <2>2, <3>4 DEF Kept, Astray
  <2> QED BY <2>3, <2>4
<1>7. CASE Inside(i, c).mode = "closed"
  <2>1. /\ heard'.mode = "next" /\ heard'.labels = heard.labels \cup {<<L.name, Inside(i, c).value>>}
        /\ heard'.types = heard.types /\ heard'.samples = heard.samples
    BY <1>1, <1>2, <1>7, StringMoves
  <2>2. Clear'
    BY <1>2, <2>1 DEF Clear
  <2>3. text' = <<>>
    BY <1>1, <1>3, <1>4, <1>7, InsideOutcome, Marks
  <2>4. CASE stage = "value"
    <3>1. Ahead'
      BY <1>1, <1>2, <2>1, <2>3, <2>4 DEF Ahead, OfName
    <3> QED BY <1>3, <2>2, <3>1 DEF Kept, Astray
  <2>5. CASE stage # "value"
    <3>1. stage' = "between"
      BY <1>1, <1>4, <2>5
    <3>2. Named(labels', heard'.labels, at')
      <4>1. Named(labels, heard.labels \cup {<<labels[at].name, Inside(i, c).value>>}, at)
        BY <1>2, <1>3, NamedMore DEF L
      <4> QED BY <1>1, <2>1, <4>1 DEF L
    <3> QED BY <1>1, <1>2, <2>1, <2>2, <2>3, <3>1, <3>2 DEF Kept, InStep, BetweenLabels
  <2> QED BY <2>4, <2>5
<1> QED BY <1>1, <1>3, <1>5, <1>6, <1>7, InsideOutcome

LEMMA ReadEnding ==
  ASSUME Inv, Expected, Read, Ending
  PROVE  Kept'
<1> DEFINE c == Head(text)
<1>1. /\ c \in Tokens /\ heard \in Reader /\ heard' = Advance(heard, c) /\ stage' = "ended"
      /\ Named(labels, heard.labels, at) /\ Clear /\ at' = Length' /\ at' = at /\ labels' = labels
      /\ Keeps(heard', heard) => Named(labels', heard'.labels, at') /\ Clear'
  <2>1. stage = "ended" /\ Named(labels, heard.labels, at) /\ Clear /\ at = Length
    BY DEF Ending
  <2> QED BY <2>1, Reads
<1>2. CASE text = <<"}", " ", Number, NewLine>> /\ at # 0 /\ heard.mode = "next"
  <2>1. c = "}" /\ text' = <<" ", Number, NewLine>>
    <3> DEFINE b == "}"
               z == " "
    <3>1. text = <<b, z, Number, NewLine>>
      BY <1>2
    <3> HIDE DEF b, z
    <3>2. c = b /\ text' = <<z, Number, NewLine>>
      BY <3>1, Reads, Ends
    <3> QED BY <3>2 DEF b, z
  <2>2. Keeps(heard', heard) /\ heard'.mode = "space"
    <3> HIDE DEF c
    <3> QED BY <1>1, <1>2, <2>1, NextMoves
  <2>3. Ending'
    BY <1>1, <1>2, <2>1, <2>2, Zenon DEF Ending
  <2> QED BY <2>3 DEF Kept, InStep
<1>3. CASE text = <<" ", Number, NewLine>> /\ heard.mode = IF at = 0 THEN "labels" ELSE "space"
  <2>1. c = " " /\ text' = <<Number, NewLine>>
    <3> DEFINE z == " "
    <3>1. text = <<z, Number, NewLine>>
      BY <1>3
    <3> HIDE DEF z
    <3>2. c = z /\ text' = <<Number, NewLine>>
      BY <3>1, Reads, Ends
    <3> QED BY <3>2 DEF z
  <2>2. Keeps(heard', heard) /\ heard'.mode = "value"
    <3> HIDE DEF c
    <3>1. CASE at = 0
      BY <1>1, <1>3, <2>1, <3>1, LabelsMoves
    <3>2. CASE at # 0
      BY <1>1, <1>3, <2>1, <3>2, SpaceMoves
    <3> QED BY <3>1, <3>2
  <2>3. Ending'
    BY <1>1, <2>1, <2>2, Zenon DEF Ending
  <2> QED BY <2>3 DEF Kept, InStep
<1>4. CASE text = <<Number, NewLine>> /\ heard.mode = "value"
  <2>1. c = Number /\ text' = <<NewLine>>
    BY <1>4, Reads, Ends
  <2>2. c \notin Punctuation
    BY <2>1, RowConstants
  <2>3. Keeps(heard', heard) /\ heard'.mode = "sample" /\ heard'.word = Number
    <3> HIDE DEF c
    <3> QED BY <1>1, <1>4, <2>1, <2>2, ValueMoves
  <2>4. Ending'
    BY <1>1, <2>1, <2>3, Zenon DEF Ending
  <2> QED BY <2>4 DEF Kept, InStep
<1>5. CASE text = <<NewLine>> /\ heard.mode = "sample" /\ heard.word = Number
  <2>1. c = NewLine /\ text' = <<>>
    BY <1>5, Reads, Ends
  <2>2. /\ heard'.mode = "line" /\ heard'.labels = heard.labels
        /\ heard'.samples = Append(heard.samples, [family |-> Family(heard), labels |-> heard.labels,
                                                   value |-> heard.word])
    <3> HIDE DEF c
    <3> QED BY <1>1, <1>5, <2>1, SampleMoves
  <2>3. Family(heard) = MetricName /\ heard.samples = <<>>
    <3>1. heard.types = << <<MetricName, "counter">> >> /\ heard.samples = <<>>
      BY <1>1 DEF Clear
    <3> QED BY <3>1 DEF Family
  <2>4. heard'.samples = <<[family |-> MetricName, labels |-> heard'.labels, value |-> Number]>>
    <3> DEFINE e == [family |-> MetricName, labels |-> heard'.labels, value |-> Number]
    <3>1. heard'.samples = Append(<<>>, e)
      BY <1>5, <2>2, <2>3
    <3> HIDE DEF e
    <3>2. heard'.samples = <<e>>
      BY <3>1
    <3> QED BY <3>2 DEF e
  <2>5. Finished'
    BY <1>1, <2>1, <2>2, <2>4 DEF Finished
  <2> QED BY <2>5 DEF Kept, InStep
<1> QED BY <1>2, <1>3, <1>4, <1>5 DEF Ending

(* Outside the string no character but the quote begins one, and a         *)
(* backslash or a quote is refused.                                        *)
AheadModes == {"next", "label", "equals", "open", "space", "value", "sample"}
LEMMA AheadMoves ==
  ASSUME NEW r \in Reader, NEW c \in Tokens, r.mode \in AheadModes, c # NewLine
  PROVE  /\ Keeps(Advance(r, c), r)
         /\ c = Backslash => Advance(r, c).mode = "error"
         /\ c = Quote => Advance(r, c).mode = "error"
                         \/ (Advance(r, c).mode = "string" /\ Advance(r, c).inside = Opened)
         /\ c # Quote => Advance(r, c).mode \in AheadModes \cup {"error"}
<1>1. CASE r.mode = "next"
  BY <1>1, NextMoves, Marks DEF AheadModes
<1>2. CASE r.mode = "label"
  <2>1. c \in {Backslash, Quote} => Advance(r, c).mode = "error"
    BY <1>2, AdvanceLabel, ErrorMoves, Marks DEF AtLabel
  <2> QED BY <1>2, <2>1, LabelMoves DEF AheadModes
<1>3. CASE r.mode = "equals"
  BY <1>3, EqualsMoves, Marks DEF AheadModes
<1>4. CASE r.mode = "open"
  BY <1>4, OpenMoves, Marks DEF AheadModes
<1>5. CASE r.mode = "space"
  BY <1>5, SpaceMoves, Marks DEF AheadModes
<1>6. CASE r.mode = "value"
  BY <1>6, ValueMoves, Marks DEF AheadModes
<1>7. CASE r.mode = "sample"
  BY <1>7, SampleMoves DEF AheadModes
<1> QED BY <1>1, <1>2, <1>3, <1>4, <1>5, <1>6, <1>7 DEF AheadModes

LEMMA ReadAstray ==
  ASSUME Inv, Expected, Read, Astray, ~AllPlain
  PROVE  Kept'
<1> DEFINE c == Head(text)
           i == heard.inside
<1>1. /\ c \in Tokens /\ heard \in Reader /\ heard' = Advance(heard, c) /\ stage' = stage /\ done' = done
      /\ L' = L /\ at' = at /\ labels' = labels /\ text' = Tail(text) /\ text # <<>>
      /\ ~AllPlain' /\ Clear /\ i \in Inner
  BY Reads, Here DEF Inv, Astray
<1>2. ASSUME heard'.types = heard.types, heard'.samples = heard.samples,
             Ahead' \/ StillInString' \/ BeforeValue' \/ heard'.mode = "error"
      PROVE  Kept'
  <2>1. Clear'
    BY <1>1, <1>2 DEF Clear
  <2> QED BY <1>1, <1>2, <2>1 DEF Kept, Astray
<1>3. CASE heard.mode = "error"
  <2>1. heard' = heard
    BY <1>1, <1>3, AdvanceError
  <2> QED BY <1>2, <1>3, <2>1
<1>4. CASE Ahead
  <2>1. at # 0 /\ L.name = "friendly_name" /\ heard.mode \in AheadModes
    BY <1>4 DEF Ahead, AheadModes
  <2>2. \/ stage = "value" /\ text' = <<>> /\ c \notin {Quote, NewLine}
        \/ stage = "value" /\ c = Backslash
        \/ stage = "between" /\ text' = <<>> /\ c = Quote
    <3>1. \A d : text = <<d>> => text' = <<>> /\ c = d
      BY <1>1, Ends
    <3>2. text = <<Backslash, Quote>> => c = Backslash
      BY <1>1, Ends
    <3>3. CASE stage = "value" /\ OfName
      BY <1>1, <3>1, <3>2, <3>3 DEF OfName
    <3>4. CASE stage = "between" /\ text = <<Quote>>
      BY <3>1, <3>4
    <3> QED BY <1>4, <3>3, <3>4 DEF Ahead
  <2>3. c # NewLine
    BY <2>2, Marks
  <2> HIDE DEF c
  <2>4. /\ Keeps(heard', heard)
        /\ c = Backslash => heard'.mode = "error"
        /\ c = Quote => heard'.mode = "error" \/ (heard'.mode = "string" /\ heard'.inside = Opened)
        /\ c # Quote => heard'.mode \in AheadModes \cup {"error"}
    BY <1>1, <2>1, <2>3, AheadMoves
  <2>5. CASE heard'.mode = "error"
    BY <1>2, <2>4, <2>5 DEF Keeps
  <2>6. CASE heard'.mode # "error" /\ stage = "value"
    <3>1. text' = <<>> /\ c # Quote
      BY <2>2, <2>4, <2>6
    <3>2. Ahead'
      BY <1>1, <2>1, <2>4, <2>6, <3>1 DEF Ahead, AheadModes, OfName
    <3> QED BY <1>2, <2>4, <3>2 DEF Keeps
  <2>7. CASE heard'.mode # "error" /\ stage # "value"
    <3>1. stage' = "between" /\ text' = <<>> /\ heard'.mode = "string" /\ heard'.inside = Opened
      BY <1>1, <2>2, <2>4, <2>7
    <3>2. heard'.inside.mode = "string"
      BY <3>1 DEF Opened
    <3>3. StillInString'
      BY <1>1, <2>1, <3>1, <3>2 DEF StillInString
    <3> QED BY <1>2, <2>4, <3>3 DEF Keeps
  <2> QED BY <2>5, <2>6, <2>7
<1>5. CASE StillInString
  <2>1. at # 0 /\ heard.mode = "string" /\ i.mode = "string"
    BY <1>5 DEF StillInString
  <2>2. ASSUME c \notin {Quote, Backslash, NewLine}
        PROVE  /\ heard'.mode = "string" /\ heard'.inside.mode = "string"
               /\ heard'.types = heard.types /\ heard'.samples = heard.samples
    <3> HIDE DEF c
    <3>1. Inside(i, c).mode = "string"
      BY <1>1, <2>1, <2>2, InsidePlain
    <3> QED BY <1>1, <2>1, <3>1, StringMoves
  <2>3. CASE stage = "value" /\ done = 0 /\ L.name # "friendly_name" /\ text \in Opening
    <3>1. L.name \notin {Quote, Backslash, NewLine} /\ "," \notin {Quote, Backslash, NewLine}
          /\ "=" \notin {Quote, Backslash, NewLine}
      BY <2>1, OwnName, Marks DEF Inv
    <3>2. CASE text # <<Quote>>
      <4>1. c \notin {Quote, Backslash, NewLine} /\ text' \in Opening
        <5> DEFINE b == ","
                   z == "="
        <5>1. text \in {<<b, L.name, z, Quote>>, <<L.name, z, Quote>>, <<z, Quote>>}
          BY <2>3, <3>2 DEF Opening
        <5>2. L.name \notin {Quote, Backslash, NewLine} /\ b \notin {Quote, Backslash, NewLine}
              /\ z \notin {Quote, Backslash, NewLine}
          BY <3>1
        <5> HIDE DEF b, z
        <5>3. CASE text = <<b, L.name, z, Quote>>
          <6>1. c = b /\ text' = <<L.name, z, Quote>>
            BY <1>1, <5>3, Ends
          <6> QED BY <5>2, <6>1, Zenon DEF Opening, b, z
        <5>4. CASE text = <<L.name, z, Quote>>
          <6>1. c = L.name /\ text' = <<z, Quote>>
            BY <1>1, <5>4, Ends
          <6> QED BY <5>2, <6>1, Zenon DEF Opening, b, z
        <5>5. CASE text = <<z, Quote>>
          <6>1. c = z /\ text' = <<Quote>>
            BY <1>1, <5>5, Ends
          <6> QED BY <5>2, <6>1, Zenon DEF Opening, b, z
        <5> QED BY <5>1, <5>3, <5>4, <5>5
      <4>2. Opening' = Opening
        BY <1>1 DEF Opening
      <4>3. StillInString'
        BY <1>1, <2>1, <2>2, <2>3, <4>1, <4>2 DEF StillInString
      <4> QED BY <1>2, <2>2, <4>1, <4>3
    <3>3. CASE text = <<Quote>>
      <4>1. c = Quote /\ text' = <<>>
        BY <1>1, <3>3, Ends
      <4> HIDE DEF c
      <4>2. Inside(i, c).mode = "closed"
        BY <1>1, <2>1, <4>1, InsideQuote
      <4>3. heard'.mode = "next" /\ heard'.types = heard.types /\ heard'.samples = heard.samples
        BY <1>1, <2>1, <4>2, StringMoves
      <4>4. BeforeValue'
        BY <1>1, <2>1, <2>3, <4>1, <4>3 DEF BeforeValue
      <4> QED BY <1>2, <4>3, <4>4
    <3> QED BY <3>2, <3>3
  <2>4. CASE stage = "ended" /\ text \in EndOfRow
    <3>1. Number \notin {Quote, Backslash, NewLine} /\ "}" \notin {Quote, Backslash, NewLine}
          /\ " " \notin {Quote, Backslash, NewLine}
      BY RowConstants, Marks
    <3>2. CASE text # <<NewLine>>
      <4>1. c \notin {Quote, Backslash, NewLine} /\ text' \in EndOfRow
        <5> DEFINE b == "}"
                   z == " "
        <5>1. text \in {<<b, z, Number, NewLine>>, <<z, Number, NewLine>>, <<Number, NewLine>>}
          BY <2>4, <3>2 DEF EndOfRow
        <5>2. Number \notin {Quote, Backslash, NewLine} /\ b \notin {Quote, Backslash, NewLine}
              /\ z \notin {Quote, Backslash, NewLine}
          BY <3>1
        <5> HIDE DEF b, z
        <5>3. CASE text = <<b, z, Number, NewLine>>
          <6>1. c = b /\ text' = <<z, Number, NewLine>>
            BY <1>1, <5>3, Ends
          <6> QED BY <5>2, <6>1, Zenon DEF EndOfRow, b, z
        <5>4. CASE text = <<z, Number, NewLine>>
          <6>1. c = z /\ text' = <<Number, NewLine>>
            BY <1>1, <5>4, Ends
          <6> QED BY <5>2, <6>1, Zenon DEF EndOfRow, b, z
        <5>5. CASE text = <<Number, NewLine>>
          <6>1. c = Number /\ text' = <<NewLine>>
            BY <1>1, <5>5, Ends
          <6> QED BY <5>2, <6>1, Zenon DEF EndOfRow, b, z
        <5> QED BY <5>1, <5>3, <5>4, <5>5
      <4>2. StillInString'
        BY <1>1, <2>1, <2>2, <2>4, <4>1 DEF StillInString, EndOfRow
      <4> QED BY <1>2, <2>2, <4>1, <4>2
    <3>3. CASE text = <<NewLine>>
      <4>1. c = NewLine
        BY <1>1, <3>3, Ends
      <4> HIDE DEF c
      <4>2. Inside(i, c).mode = "error"
        BY <1>1, <2>1, <4>1, InsideNewLine
      <4>3. heard'.mode = "error" /\ heard'.types = heard.types /\ heard'.samples = heard.samples
        BY <1>1, <2>1, <4>2, StringMoves
      <4> QED BY <1>2, <4>3
    <3> QED BY <3>2, <3>3
  <2> QED BY <1>1, <1>5, <2>3, <2>4 DEF StillInString
<1>6. CASE BeforeValue
  <2>1. heard.mode = "next" /\ c \notin {",", "}"}
    BY <1>1, <1>6 DEF BeforeValue
  <2> HIDE DEF c
  <2>2. heard'.mode = "error" /\ Keeps(heard', heard)
    BY <1>1, <2>1, NextMoves
  <2> QED BY <1>2, <2>2 DEF Keeps
<1> QED BY <1>3, <1>4, <1>5, <1>6 DEF Astray

(***************************************************************************)
(* The invariant.                                                          *)
(***************************************************************************)
LEMMA InitInv == Init => Inv
<1> SUFFICES ASSUME Init PROVE Inv
  OBVIOUS
<1>1. AtName
  <2>1. heard.mode = "line" /\ Clear
    BY DEF Init, Start, Clear
  <2> QED BY <2>1 DEF Init, AtName
<1>2. TypeOK /\ OneLine
  BY InitType DEF Init, OneLine
<1> QED BY <1>1, <1>2 DEF Inv, Kept, InStep

LEMMA ReadKeeps ==
  ASSUME Inv, Expected, Read
  PROVE  Kept'
<1>1. text # <<>>
  BY DEF Read
<1>2. ~BetweenLabels /\ ~Finished
  BY <1>1 DEF BetweenLabels, Finished
<1> QED BY <1>2, ReadAtName, ReadOpening, ReadInValue, ReadInName, ReadEnding, ReadAstray
        DEF Inv, Kept, InStep

LEMMA NextInv ==
  ASSUME Inv, [Next]_vars
  PROVE  Inv'
<1>1. TypeOK'
  BY NextType DEF Inv
<1>2. labels' = labels
  BY Zenon DEF Next, OpenLabel, Write, CloseLabel, End, Read, vars
<1>3. OneLine' /\ (Expected' <=> Expected) /\ (AllPlain' <=> AllPlain)
  BY <1>2, RowStays DEF Inv
<1>4. ASSUME Expected PROVE Kept'
  <2>1. CASE UNCHANGED vars
    <3>0. /\ labels' = labels /\ at' = at /\ done' = done /\ stage' = stage /\ text' = text
          /\ heard' = heard /\ L' = L /\ Length' = Length
      BY <2>1 DEF vars, L, Length
    <3>1. InStep' <=> InStep
      <4>1. (AtName' <=> AtName) /\ (BetweenLabels' <=> BetweenLabels) /\ (OpeningLabel' <=> OpeningLabel)
        BY <3>0, Zenon DEF AtName, BetweenLabels, OpeningLabel, Clear
      <4>2. InString' <=> InString
        BY <3>0, Zenon DEF InString, Clear
      <4>3. /\ BetweenCharacters' <=> BetweenCharacters
            /\ AtClosingQuote' <=> AtClosingQuote
            /\ InEscapedQuote' <=> InEscapedQuote
            /\ AtCharacter' <=> AtCharacter
        BY <3>0, Zenon DEF BetweenCharacters, AtClosingQuote, InEscapedQuote, AtCharacter, Heard
      <4>4. InValue' <=> InValue
        BY <3>0, <4>2, <4>3, Zenon DEF InValue
      <4>5. InName' <=> InName
        BY <3>0, <4>2, Zenon DEF InName, OfName
      <4>6. (Ending' <=> Ending) /\ (Finished' <=> Finished)
        BY <3>0, Zenon DEF Ending, Finished, Clear
      <4> QED BY <4>1, <4>4, <4>5, <4>6, Zenon DEF InStep
    <3>2. Astray' <=> Astray
      BY <2>1, Zenon DEF vars, Astray, Ahead, StillInString, BeforeValue, OfName, Opening, EndOfRow, Clear, L
    <3> QED BY <1>3, <1>4, <3>1, <3>2 DEF Inv, Kept
  <2> QED BY <1>4, <2>1, OpenKeeps, WriteKeeps, CloseKeeps, EndKeeps, ReadKeeps DEF Next
<1> QED BY <1>1, <1>3, <1>4 DEF Inv

(* What has been read of a whole row.                                      *)
LEMMA WholeRow ==
  ASSUME TypeOK, Named(labels, heard.labels, Length)
  PROVE  /\ {l[1] : l \in heard.labels} = {labels[n].name : n \in DOMAIN labels}
         /\ \A l \in heard.labels : \E n \in DOMAIN labels :
              /\ l[1] = labels[n].name
              /\ PlainLabel(labels[n]) => l = <<labels[n].name, labels[n].value>>
<1>1. DOMAIN labels = 1 .. Length /\ heard.labels \in LabelSets
  BY Here
<1>2. ASSUME NEW l \in heard.labels
      PROVE  \E n \in DOMAIN labels :
               /\ l[1] = labels[n].name
               /\ PlainLabel(labels[n]) => l = <<labels[n].name, labels[n].value>>
  <2>1. l = <<l[1], l[2]>>
    BY <1>1 DEF LabelSets
  <2>2. PICK n \in 1 .. Length : l[1] = labels[n].name /\ (PlainLabel(labels[n]) => l[2] = labels[n].value)
    BY DEF Named
  <2> QED BY <1>1, <2>1, <2>2
<1>3. \A n \in DOMAIN labels : \E l \in heard.labels : l[1] = labels[n].name
  BY <1>1 DEF Named
<1> QED BY <1>2, <1>3

LEMMA InvReadsBack == Inv => PlainRowReadsBack
<1> SUFFICES ASSUME Inv, WellNamed, \A n \in DOMAIN labels : PlainLabel(labels[n])
             PROVE  /\ heard.mode # "error"
                    /\ (stage = "ended" /\ text = <<>>) =>
                         heard.samples = <<[family |-> MetricName, value |-> Number,
                           labels |-> {<<labels[n].name, labels[n].value>> : n \in DOMAIN labels}]>>
  BY DEF PlainRowReadsBack
<1>1. TypeOK /\ InStep
  BY DEF Inv, Expected, Kept, AllPlain
<1>2. heard.mode # "error"
  BY <1>1 DEF InStep, AtName, BetweenLabels, OpeningLabel, InValue, InName, InString, Ending, Finished
<1>3. ASSUME stage = "ended", text = <<>>
      PROVE  heard.samples = <<[family |-> MetricName, value |-> Number,
               labels |-> {<<labels[n].name, labels[n].value>> : n \in DOMAIN labels}]>>
  <2>1. Finished
    BY <1>1, <1>3, Ends DEF InStep, AtName, BetweenLabels, OpeningLabel, InValue, InName, Ending,
         BetweenCharacters, AtClosingQuote, InEscapedQuote, AtCharacter
  <2>2. Named(labels, heard.labels, Length)
    BY <2>1 DEF Finished
  <2> DEFINE S == {<<labels[n].name, labels[n].value>> : n \in DOMAIN labels}
  <2>3. heard.labels \subseteq S
    BY <1>1, <2>2, WholeRow
  <2>4. S \subseteq heard.labels
    <3> SUFFICES ASSUME NEW n \in DOMAIN labels PROVE <<labels[n].name, labels[n].value>> \in heard.labels
      OBVIOUS
    <3>1. n \in 1 .. Length
      BY <1>1, Here
    <3>2. PICK l \in heard.labels : l[1] = labels[n].name
      BY <2>2, <3>1 DEF Named
    <3>3. PICK m \in DOMAIN labels : l[1] = labels[m].name /\ l = <<labels[m].name, labels[m].value>>
      BY <1>1, <2>2, WholeRow
    <3>4. m = n
      BY <3>2, <3>3 DEF WellNamed
    <3> QED BY <3>2, <3>3, <3>4
  <2>5. heard.labels = S
    BY <2>3, <2>4
  <2> HIDE DEF S
  <2>6. heard.samples = <<[family |-> MetricName, value |-> Number, labels |-> S]>>
    <3>1. [family |-> MetricName, labels |-> S, value |-> Number]
            = [family |-> MetricName, value |-> Number, labels |-> S]
      OBVIOUS
    <3> QED BY <2>1, <2>5, <3>1, Zenon DEF Finished
  <2> QED BY <2>6 DEF S
<1> QED BY <1>2, <1>3

LEMMA InvNothingForged == Inv => NothingForgedInRow
<1> SUFFICES ASSUME Inv, WellNamed, OnlyNameOpen, NEW s \in ToSet(heard.samples)
             PROVE  /\ s.family = MetricName /\ s.value = Number
                    /\ {l[1] : l \in s.labels} = {labels[n].name : n \in DOMAIN labels}
                    /\ \A l \in s.labels : l[1] # "friendly_name" =>
                         \E n \in DOMAIN labels : l = <<labels[n].name, labels[n].value>>
  BY DEF NothingForgedInRow, OnlyNameOpen
<1>1. TypeOK /\ Kept
  BY DEF Inv, Expected
<1>2. heard.samples # <<>>
  BY DEF ToSet
<1>3. ~Clear
  BY <1>2 DEF Clear
<1>4. Finished
  BY <1>1, <1>3 DEF Kept, Astray, InStep, AtName, BetweenLabels, OpeningLabel, InValue, InName, InString, Ending
<1>5. Named(labels, heard.labels, Length)
  BY <1>4 DEF Finished
<1>6. s = [family |-> MetricName, labels |-> heard.labels, value |-> Number]
  <2> DEFINE e == [family |-> MetricName, labels |-> heard.labels, value |-> Number]
  <2>1. heard.samples = <<e>>
    BY <1>4 DEF Finished
  <2> HIDE DEF e
  <2>2. s = e
    BY <2>1 DEF ToSet
  <2> QED BY <2>2 DEF e
<1>7. s.labels = heard.labels /\ s.family = MetricName /\ s.value = Number
  BY <1>6
<1>8. ASSUME NEW l \in heard.labels, l[1] # "friendly_name"
      PROVE  \E n \in DOMAIN labels : l = <<labels[n].name, labels[n].value>>
  <2>1. PICK n \in DOMAIN labels :
          l[1] = labels[n].name /\ (PlainLabel(labels[n]) => l = <<labels[n].name, labels[n].value>>)
    BY <1>1, <1>5, WholeRow
  <2>2. PlainLabel(labels[n])
    BY <1>8, <2>1 DEF OnlyNameOpen, Clean
  <2> QED BY <2>1, <2>2
<1> QED BY <1>1, <1>5, <1>7, <1>8, WholeRow

(* ReadsBackCorrect: a row of any number of labels with values of any      *)
(* length reads back as it is, as long as no value has a character the     *)
(* exporter leaves alone: escaping only the quotes of a friendly name is   *)
(* enough for a name with neither backslash nor line feed                  *)
(* (friendly_description.rs:17, prometheus_instance.rs:61-78).             *)
THEOREM ReadsBackCorrect == Spec => []PlainRowReadsBack
BY InitInv, NextInv, InvReadsBack, PTL DEF Spec

(* NothingForgedCorrect: for every friendly name, in a row of any length,  *)
(* a sample that is read has the labels and the value of the row, but for  *)
(* the value of friendly_name: the quote that ends a name for a reader     *)
(* comes before a character it refuses, or is the one the exporter wrote   *)
(* (friendly_description.rs:17, prometheus_instance.rs:61-78).             *)
THEOREM NothingForgedCorrect == Spec => []NothingForgedInRow
BY InitInv, NextInv, InvNothingForged, PTL DEF Spec

================================================================================
