--------------------------------- MODULE MCRow ---------------------------------
(***************************************************************************)
(* Rows for TLC with one value of up to four characters, every escape      *)
(* complete or cut off with a neighbour on both sides, or with a           *)
(* friendly_name of up to four pieces of what a name would need to end its *)
(* label, start another and end the row; with and without labels of the    *)
(* exporter before and after it.                                           *)
(***************************************************************************)
EXTENDS Row

SomeTokens == Punctuation \cup {
  "n", "x", "counter", None, "total", "1", "interface", "wg0", "friendly_name", "mtu",
  "remote_ip", "10.0.0.2", "remote_port" }

ValuesOf(alphabet) == {FlattenSeq(p) : p \in UNION {[1 .. l -> alphabet] : l \in 0 .. 4}}
Texts == ValuesOf({<<Quote>>, <<Backslash>>, <<NewLine>>, <<"n">>, <<"x">>})
Forgeries == ValuesOf({<<Quote>>, <<Backslash>>, <<"x">>, <<",", "x", "=">>, <<"}", " ", "1">>})

Own(name, token) == [name |-> name, tag |-> "own", value |-> <<token>>]
Interface == Own("interface", "wg0")
Followers == { <<>>, <<Own("remote_ip", "10.0.0.2")>>,
               <<Own("remote_ip", "10.0.0.2"), Own("remote_port", "1")>> }

Named(value) == [name |-> "friendly_name", tag |-> "name", value |-> value]
Json(value) == [name |-> "mtu", tag |-> "json", value |-> value]

SomeLists ==
  { <<>> }
  \cup {<<Interface, Named(v)>> \o f : v \in Texts \cup Forgeries, f \in Followers}
  \cup {<<Json(v)>> \o f : v \in Texts, f \in Followers}
================================================================================
