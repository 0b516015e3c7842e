------------------------------ MODULE TextReader ------------------------------
(***************************************************************************)
(* External: a scraper that reads the text of a response, as the format    *)
(* (version 0.0.4, server.rs:105) defines it. It keeps the types declared, *)
(* in order, and the samples; it refuses a text that has no well-formed    *)
(* next token, declares a family twice, has a sample outside its family or *)
(* a label twice in a sample.                                              *)
(***************************************************************************)
EXTENDS LabelText

Start == [mode |-> "line", word |-> None, types |-> <<>>, samples |-> <<>>,
          labels |-> {}, label |-> None, inside |-> Opened]
Punctuation == {"{", "}", "=", ",", " ", Quote, Backslash, NewLine}
Family(r) == r.types[Len(r.types)][1]

Goto(r, mode) == [r EXCEPT !.mode = mode]
Expect(r, c, token, mode) == Goto(r, IF c = token THEN mode ELSE "error")

AtLine(r, c) ==
  CASE c = NewLine -> r
    [] c = "# HELP " -> Goto(r, "help")
    [] c = "# TYPE " -> Goto(r, "typed")
    [] c \notin Punctuation /\ r.types # <<>> /\ c = Family(r) -> [Goto(r, "labels") EXCEPT !.labels = {}]
    [] OTHER -> Goto(r, "error")

AtTyped(r, c) ==
  IF \E n \in DOMAIN r.types : r.types[n][1] = c THEN Goto(r, "error")
  ELSE [Goto(r, "type") EXCEPT !.word = c]

AtLabel(r, c) ==
  IF c \in Punctuation \/ \E l \in r.labels : l[1] = c THEN Goto(r, "error")
  ELSE [Goto(r, "equals") EXCEPT !.label = c]

AtString(r, c) ==
  LET i == Inside(r.inside, c)
  IN  CASE i.mode = "closed" -> [Goto(r, "next") EXCEPT !.labels = @ \cup {<<r.label, i.value>>}]
        [] i.mode = "error" -> Goto(r, "error")
        [] OTHER -> [r EXCEPT !.inside = i]

AtEndOfSample(r, c) ==
  IF c # NewLine THEN Goto(r, "error")
  ELSE [Goto(r, "line") EXCEPT !.samples =
          Append(@, [family |-> Family(r), labels |-> r.labels, value |-> r.word])]

Advance(r, c) ==
  CASE r.mode = "line" -> AtLine(r, c)
    [] r.mode = "help" -> IF c = NewLine THEN Goto(r, "line") ELSE r
    [] r.mode = "typed" -> AtTyped(r, c)
    [] r.mode = "type" -> [Goto(r, "end") EXCEPT !.types = Append(@, <<r.word, c>>)]
    [] r.mode = "labels" -> IF c = " " THEN Goto(r, "value") ELSE Expect(r, c, "{", "label")
    [] r.mode = "label" -> AtLabel(r, c)
    [] r.mode = "equals" -> Expect(r, c, "=", "open")
    [] r.mode = "open" -> [Expect(r, c, Quote, "string") EXCEPT !.inside = Opened]
    [] r.mode = "string" -> AtString(r, c)
    [] r.mode = "next" -> IF c = "," THEN Goto(r, "label") ELSE Expect(r, c, "}", "space")
    [] r.mode = "space" -> Expect(r, c, " ", "value")
    [] r.mode = "value" ->
         IF c \in Punctuation THEN Goto(r, "error")
         ELSE [Goto(r, "sample") EXCEPT !.word = c]
    [] r.mode = "sample" -> AtEndOfSample(r, c)
    [] r.mode = "end" -> Expect(r, c, NewLine, "line")
    [] OTHER -> r

(* The reader after a piece of text.                                       *)
Reading(r, piece) ==
  LET reader[n \in 0 .. Len(piece)] == IF n = 0 THEN r ELSE Advance(reader[n - 1], piece[n])
  IN  reader[Len(piece)]
===============================================================================
