------------------------------- MODULE LabelText -------------------------------
(***************************************************************************)
(* The characters of a label value: how the exporter writes them (src/src/ *)
(* friendly_description.rs, src/src/prometheus/prometheus_instance.rs),    *)
(* and how a reader of the exposition format (external) finds the end of   *)
(* the value and undoes the escapes.                                       *)
(***************************************************************************)
EXTENDS Naturals, Sequences, SequencesExt, TLC

Quote == "\""
Backslash == "\\"
NewLine == "\n"
None == "none"

(* A number as it is printed, and the elements of a sequence that pass a   *)
(* test (SelectSeq, in a form the proofs can unfold).                      *)
Decimal(n) == ToString(n)
Filter(s, Test(_)) == FlattenSeq([n \in DOMAIN s |-> IF Test(s[n]) THEN <<s[n]>> ELSE <<>>])

(* A friendly name has every quote replaced by a backslash and a quote. A  *)
(* string of a friendly_json is written as serde_json decoded it.          *)
EscapeChar_Nothing(tag, c) == <<c>>
EscapeChar(tag, c) == IF tag = "name" /\ c = Quote THEN <<Backslash, c>> ELSE <<c>>
Escape(tag, value) == FlattenSeq([n \in DOMAIN value |-> EscapeChar(tag, value[n])])

(* External: the reader inside the quotes of a value. An escape that the   *)
(* format does not define, and the end of the line, are errors.            *)
Opened == [mode |-> "string", value |-> <<>>]
Inside(r, c) ==
  CASE r.mode = "string" /\ c = Quote -> [r EXCEPT !.mode = "closed"]
    [] r.mode = "string" /\ c = Backslash -> [r EXCEPT !.mode = "escape"]
    [] r.mode = "string" /\ c \notin {Quote, Backslash, NewLine} ->
         [r EXCEPT !.value = Append(@, c)]
    [] r.mode = "escape" /\ c \in {Quote, Backslash} ->
         [mode |-> "string", value |-> Append(r.value, c)]
    [] r.mode = "escape" /\ c = "n" ->
         [mode |-> "string", value |-> Append(r.value, NewLine)]
    [] OTHER -> [r EXCEPT !.mode = "error"]

(* The values that read back: what the format would have escaped does not  *)
(* occur in them, but for the quotes of a name.                            *)
Special(tag) == IF tag = "name" THEN {Backslash, NewLine} ELSE {Quote, Backslash, NewLine}
Plain(tag, value) == \A n \in DOMAIN value : value[n] \notin Special(tag)
===============================================================================
