-------------------------- MODULE MCPeerConfigParser --------------------------
(***************************************************************************)
(* Instances of PeerConfigParser for TLC: every text of up to three lines, *)
(* and texts of up to three chunks, a chunk being a block with its         *)
(* comments, a comment or a header in the wrong place, or part of a file   *)
(* that the next file completes.                                           *)
(***************************************************************************)
EXTENDS PeerConfigParser

CONSTANTS a, b, phone, tablet, net

Line(tag, arg) == [tag |-> tag, arg |-> arg]
Key(k) == Line("publickey", k)
Net == Line("allowedips", net)
Header == Line("peer", Empty)

Chunks ==
  { <<Header, Line("name", phone), Key(a), Net>>,
    <<Header, Key(a), Net, Line("name", tablet)>>,
    <<Header, Key(b), Net, Line("json", "nested"), Line("name", Empty)>>,
    <<Header, Key(a), Net>>,
    <<Header, Key(b), Line("json", "malformed"), Net>>,
    <<Header, Net, Line("wide", Empty)>>,
    <<Header>>,
    <<Key(b), Net>>,
    <<Line("name", tablet)>>,
    <<Line("section", Empty), Key(b)>> }

MCTexts ==
  UNION {[1 .. n -> Lines] : n \in 0 .. 3}
    \cup {FlattenSeq(s) : s \in UNION {[1 .. n -> Chunks] : n \in 1 .. 3}}
===============================================================================
