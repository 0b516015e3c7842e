----------------------------- MODULE MCExposition -----------------------------
(***************************************************************************)
(* Instances of Exposition for TLC: two or three peers over two interfaces *)
(* with every form of endpoint, of allowed IPs and of description, peers   *)
(* with a handshake ahead of the clock, and one peer with friendly names   *)
(* that try to leave their label.                                          *)
(***************************************************************************)
EXTENDS Exposition

TwoInterfaces == <<"wg0", "wg1">>
Keys == {"A", "B"}
Names == <<"mtu", "public_key", "site">>

AnyOptions == [split : BOOLEAN, remote : BOOLEAN, delay : BOOLEAN]
Defaults == {[split |-> FALSE, remote |-> FALSE, delay |-> FALSE]}

Nowhere == [kind |-> "none", ip |-> None, port |-> None]
V4 == [kind |-> "v4", ip |-> "192.0.2.1", port |-> "51820"]
V6 == [kind |-> "v6", ip |-> "2001:db8::1", port |-> "51821"]
Scoped == [kind |-> "scoped", ip |-> "fe80::1", port |-> "51822"]
One == << <<"10.0.0.2", "32">> >>
Two == << <<"10.0.0.2", "32">>, <<"fd00::2", "128">> >>

PeerOf(i, k, endpoint, allowed, n) ==
  [iface |-> i, key |-> k, endpoint |-> endpoint, allowed |-> allowed,
   hs |-> n, rx |-> n + 1, tx |-> n + 2]

NoDesc == [tag |-> "none"]
Name(text) == [tag |-> "name", name |-> text]
Json(entries) == [tag |-> "json", json |-> entries]

Named(names) ==
  { [peers |-> <<PeerOf("wg0", "A", V4, One, 1)>>, table |-> [k \in Keys |-> Name(name)]] : name \in names }

(* Every name of up to four pieces: what ends a value or undoes an escape, *)
(* what would start a label, and what would end a row.                     *)
Pieces == { <<Quote>>, <<Backslash>>, <<"x">>, <<",", "x", "=">>, <<"}", " ", "1">> }
NamesOfPieces(n) == {FlattenSeq(p) : p \in UNION {[1 .. l -> Pieces] : l \in 0 .. n}}

Quoted == <<"x", Quote, "x", Quote>>
SomeDescriptions == {
  NoDesc, Name(Quoted), Name(<<"x">>),
  Json("mtu" :> <<"1420">> @@ "site" :> <<"x">>), Json("public_key" :> <<"x">>),
  Json("mtu" :> Nested @@ "site" :> <<"x">>) }

(* Two peers of one interface, or of two in either order; the same key on  *)
(* both interfaces; an interface without peers.                            *)
Shapes(e, f, a, b) == {
  <<PeerOf("wg0", "A", e, a, 1), PeerOf("wg0", "B", f, b, 2)>>,
  <<PeerOf("wg1", "A", e, a, 1), PeerOf("wg0", "B", f, b, 2)>>,
  <<PeerOf("wg1", "B", f, b, 1), PeerOf("wg0", "B", f, b, 3)>> }
Mixed ==
  { [peers |-> ps, table |-> "A" :> d @@ "B" :> c] :
      ps \in Shapes(V4, Nowhere, Two, One) \cup Shapes(Scoped, V6, One, <<>>),
      d \in SomeDescriptions, c \in SomeDescriptions }

(* A handshake at the clock, behind a peer whose handshake is ahead of it. *)
Ahead ==
  { [peers |-> <<PeerOf(i, "A", V4, One, Now + 1), PeerOf("wg0", "B", V6, Two, Now)>>,
     table |-> [k \in Keys |-> NoDesc]] : i \in {"wg0", "wg1"} }

ManyWorlds == Mixed \cup Ahead \cup Named(NamesOfPieces(4))
AllAndOne == {"all", "wg0"}

(* The instance of the disagreement with README.md.                        *)
ShortNames == Named(NamesOfPieces(2))
JustAll == {"all"}
===============================================================================
