------------------------------ MODULE PeerConfig ------------------------------
(***************************************************************************)
(* What src/src/wireguard_config.rs makes of the joined text of the peer   *)
(* config files: the table from public key to friendly description.        *)
(*                                                                         *)
(* A text is the sequence of its lines, a line is [tag, arg]: which test   *)
(* of the parser it passes, and the value the parser takes from it.        *)
(*   peer       exactly "[Peer]" or "[WireGuardPeer]"                      *)
(*   section    any other line whose first character is "["               *)
(*   publickey  "PublicKey = arg", a trailing comment stripped             *)
(*   allowedips "AllowedIPs = arg", a trailing comment stripped            *)
(*   name       "# friendly_name = arg", the pound sign in column one      *)
(*   json       "# friendly_json = arg"                                    *)
(*   wide       a comment indented by white space of more than one byte    *)
(*   other      any other line, the empty line included                    *)
(***************************************************************************)
EXTENDS Naturals, Sequences, SequencesExt

CONSTANTS Keys,    \* public keys
          Names,   \* values of friendly_name
          Ips,     \* values of AllowedIPs
          Empty    \* the empty string, as the value of an option

ASSUME EmptyIsNoValue == Empty \notin Keys \cup Names \cup Ips

(* How serde_json reads the value of a friendly_json comment: a flat       *)
(* object, an object with a null, an array or an object in it, or an error. *)
JsonValues == {"flat", "nested", "malformed"}

Lines == [tag : {"peer", "section", "wide", "other"}, arg : {Empty}]
           \cup [tag : {"publickey"}, arg : Keys \cup {Empty}]
           \cup [tag : {"allowedips"}, arg : Ips \cup {Empty}]
           \cup [tag : {"name"}, arg : Names \cup {Empty}]
           \cup [tag : {"json"}, arg : JsonValues]

(* A friendly description; a peer without one has NoDescription.           *)
NoDescription == [tag |-> "none", arg |-> Empty]
Descriptions == {NoDescription} \cup [tag : {"name"}, arg : Names \cup {Empty}]
                  \cup [tag : {"json"}, arg : {"flat", "nested"}]

(***************************************************************************)
(* Blocks: a block is opened by a peer line and holds the lines up to the  *)
(* next line that starts with "[", or up to the end of the joined text. It *)
(* is named by the position of its peer line.                              *)
(***************************************************************************)
IsHeader(line) == line.tag \in {"peer", "section"}
Blocks(txt) == {p \in DOMAIN txt : txt[p].tag = "peer"}
Block(txt, p) ==
  {q \in DOMAIN txt : p < q /\ \A r \in p + 1 .. q : ~IsHeader(txt[r])}

Tagged(txt, B, tags) == {q \in B : txt[q].tag \in tags}

(* A later line of a block overrides an earlier one of the same kind.      *)
LastValue(txt, B, tag) ==
  LET S == Tagged(txt, B, {tag}) IN IF S = {} THEN Empty ELSE txt[Max(S)].arg
Description(txt, B) ==
  LET S == Tagged(txt, B, {"name", "json"})
  IN  IF S = {} THEN NoDescription ELSE txt[Max(S)]

(***************************************************************************)
(* PeerEntry::try_from on one block. A malformed friendly_json returns an  *)
(* error from inside the loop over the lines; a comment behind wide white  *)
(* space panics there, because the line is cut after its first byte.       *)
(***************************************************************************)
Stops(txt, B) ==
  {q \in B : txt[q].tag = "wide" \/ (txt[q].tag = "json" /\ txt[q].arg = "malformed")}

EntryOutcome(txt, p) ==
  LET B == Block(txt, p)
  IN  CASE Stops(txt, B) # {} ->
             IF txt[Min(Stops(txt, B))].tag = "wide" THEN "panic" ELSE "error"
        [] Stops(txt, B) = {} ->
             IF Empty \in {LastValue(txt, B, "publickey"), LastValue(txt, B, "allowedips")}
             THEN "error" ELSE "ok"

(***************************************************************************)
(* peer_entry_hashmap_try_from: the first block that fails decides how the *)
(* whole text fails; with none, the last block of a key gives its          *)
(* description.                                                            *)
(***************************************************************************)
ParseOutcome(txt) ==
  LET bad == {p \in Blocks(txt) : EntryOutcome(txt, p) # "ok"}
  IN  IF bad = {} THEN "ok" ELSE EntryOutcome(txt, Min(bad))

PeerEntryHashMap(txt) ==
  [k \in Keys |->
     LET S == {p \in Blocks(txt) : LastValue(txt, Block(txt, p), "publickey") = k}
     IN  IF S = {} THEN NoDescription ELSE Description(txt, Block(txt, Max(S)))]
===============================================================================
