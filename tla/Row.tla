---------------------------------- MODULE Row ----------------------------------
(***************************************************************************)
(* One row of a family on its way to the reader of the response:           *)
(* PrometheusInstance::render of src/src/prometheus/prometheus_instance.rs *)
(* writes its labels one after the other, the value of a label a character *)
(* at a time. The reader never looks ahead, so that a token may be read as *)
(* soon as it is written.                                                  *)
(***************************************************************************)
EXTENDS TextReader

CONSTANTS Tokens,       \* names, numbers and characters
          LabelLists,   \* the labels of the rows to consider
          MetricName,   \* the name of the family
          Number        \* the value of the row, as it prints

(* A label comes from the exporter itself, from a friendly_name or from a  *)
(* friendly_json.                                                          *)
Label == [name : Tokens, tag : {"own", "name", "json"}, value : Seq(Tokens)]

ASSUME RowConstants ==
  /\ Punctuation \cup {"n", "counter", None, MetricName, Number} \subseteq Tokens
  /\ {MetricName, Number} \cap Punctuation = {} /\ MetricName \notin {"# HELP ", "# TYPE "}
  /\ LabelLists \subseteq Seq(Label)

VARIABLES labels,   \* what is to be written
          at,       \* the label begun last
          done,     \* characters of its value already written
          stage,    \* between labels, in a value, or ended
          text,     \* written and not yet read
          heard     \* the reader
vars == <<labels, at, done, stage, text, heard>>

(* A friendly name is a piece of a line.                                   *)
Init ==
  /\ labels \in LabelLists
  /\ \A n \in DOMAIN labels :
       labels[n].tag = "name" => \A m \in DOMAIN labels[n].value : labels[n].value[m] # NewLine
  /\ at = 0 /\ done = 0 /\ stage = "between"
  /\ text = <<MetricName>>
  /\ heard = [Start EXCEPT !.types = << <<MetricName, "counter">> >>]

OpenLabel ==
  /\ text = <<>>
  /\ stage = "between" /\ at < Len(labels)
  /\ text' = <<IF at = 0 THEN "{" ELSE ",", labels[at + 1].name, "=", Quote>>
  /\ at' = at + 1 /\ done' = 0 /\ stage' = "value"
  /\ UNCHANGED <<labels, heard>>

Write_SkipsNext ==
  /\ text = <<>>
  /\ stage = "value" /\ done < Len(labels[at].value)
  /\ text' = EscapeChar(labels[at].tag, labels[at].value[done + 1])
  /\ done' = done + Len(text')
  /\ UNCHANGED <<labels, at, stage, heard>>
Write ==
  /\ text = <<>>
  /\ stage = "value" /\ done < Len(labels[at].value)
  /\ text' = EscapeChar(labels[at].tag, labels[at].value[done + 1])
  /\ done' = done + 1
  /\ UNCHANGED <<labels, at, stage, heard>>

CloseLabel ==
  /\ text = <<>>
  /\ stage = "value" /\ done = Len(labels[at].value)
  /\ text' = <<Quote>>
  /\ stage' = "between"
  /\ UNCHANGED <<labels, at, done, heard>>

(* Without labels there are no braces.                                     *)
End ==
  /\ text = <<>>
  /\ stage = "between" /\ at = Len(labels)
  /\ text' = IF at = 0 THEN <<" ", Number, NewLine>> ELSE <<"}", " ", Number, NewLine>>
  /\ stage' = "ended"
  /\ UNCHANGED <<labels, at, done, heard>>

(* External: the reader.                                                   *)
Read ==
  /\ text # <<>>
  /\ heard' = Advance(heard, Head(text))
  /\ text' = Tail(text)
  /\ UNCHANGED <<labels, at, done, stage>>

Next == OpenLabel \/ Write \/ CloseLabel \/ End \/ Read
Spec == Init /\ [][Next]_vars

LabelSets == SUBSET (Tokens \X Seq(Tokens))
Reader == [mode : {"line", "help", "typed", "type", "end", "labels", "label", "equals", "open",
                   "string", "next", "space", "value", "sample", "error"},
           word : Tokens, types : Seq(Tokens \X Tokens),
           samples : Seq([family : Tokens, labels : LabelSets, value : Tokens]),
           labels : LabelSets, label : Tokens,
           inside : [mode : {"string", "escape"}, value : Seq(Tokens)]]

TypeOK ==
  /\ labels \in Seq(Label)
  /\ at \in 0 .. Len(labels)
  /\ done \in Nat /\ (at # 0 => done <= Len(labels[at].value))
  /\ stage \in {"between", "value", "ended"} /\ (stage = "value" => at # 0)
  /\ text \in Seq(Tokens)
  /\ heard \in Reader /\ heard.types # <<>>

(***************************************************************************)
(* Properties.                                                             *)
(***************************************************************************)
PlainLabel(l) == Plain(l.tag, l.value)

(* Names a reader can tell from the punctuation and from each other.       *)
WellNamed ==
  /\ \A n \in DOMAIN labels : labels[n].name \notin Punctuation
  /\ \A m, n \in DOMAIN labels : labels[m].name = labels[n].name => m = n

(* PlainRowReadsBack: a row in which no value has a character that the     *)
(* exporter leaves alone and the format would escape is never refused,     *)
(* wherever the reader stands, and is read as one sample with its labels   *)
(* and its value, the quotes of a friendly name included                   *)
(* (friendly_description.rs:17, prometheus_instance.rs:61-78).             *)
PlainRowReadsBack ==
  (WellNamed /\ \A n \in DOMAIN labels : PlainLabel(labels[n])) =>
    /\ heard.mode # "error"
    /\ (stage = "ended" /\ text = <<>>) =>
         heard.samples = <<[family |-> MetricName, value |-> Number,
                            labels |-> {<<labels[n].name, labels[n].value>> : n \in DOMAIN labels}]>>

(* A value as the exporter itself makes them: an address, a port, a key.   *)
Clean(l) == PlainLabel(l) /\ l.value # <<>> /\ l.value[1] \notin {",", "}"}

(* NothingForgedInRow: whatever a friendly_name says, and whatever labels  *)
(* are written before and after it, a sample that is read has the labels   *)
(* of the row and its value, but for the value of friendly_name            *)
(* (friendly_description.rs:17, prometheus_instance.rs:61-78).             *)
NothingForgedInRow ==
  (WellNamed /\ \A n \in DOMAIN labels :
     IF labels[n].name = "friendly_name" THEN labels[n].tag = "name" ELSE Clean(labels[n])) =>
  \A s \in ToSet(heard.samples) :
    /\ s.family = MetricName /\ s.value = Number
    /\ {l[1] : l \in s.labels} = {labels[n].name : n \in DOMAIN labels}
    /\ \A l \in s.labels : l[1] # "friendly_name" =>
         \E n \in DOMAIN labels : l = <<labels[n].name, labels[n].value>>
===============================================================================
