------------------------------ MODULE MCExporter ------------------------------
(***************************************************************************)
(* Instances of Exporter for TLC. Two clients: one waits for the scrape of *)
(* the other, or sends a second request behind its first. One interface,   *)
(* a peer that has moved bytes already, so that counters could go back.    *)
(***************************************************************************)
EXTENDS Exporter

CONSTANTS a, f

Scrapes == {[form |-> "http", creds |-> "valid", path |-> "/metrics", method |-> "GET",
             connection |-> "keep-alive"]}
LastElsewhere == {[r EXCEPT !.path = "other", !.connection = "close"] : r \in Scrapes}
ScrapeOrNot == Scrapes \cup LastElsewhere

Options(i, n, split, delay) ==
  [interfaces |-> i, files |-> n, sudo |-> FALSE, split |-> split, delay |-> delay]
Plainly == Options(Unset, <<>>, FALSE, FALSE)
WithFile == Options(Unset, <<f>>, FALSE, FALSE)
NoInterface == Options(<<>>, <<>>, FALSE, FALSE)
SplitDelay == Options(Unset, <<>>, TRUE, TRUE)

Peer == [ips |-> "some", hs |-> 0, rx |-> 1, tx |-> 1]
NoFile == <<>>
Nested == << [tag |-> "peer", arg |-> Empty], [tag |-> "json", arg |-> "nested"],
             [tag |-> "publickey", arg |-> a], [tag |-> "allowedips", arg |-> "net"] >>
SomeTexts == {NoFile, Nested}
OnePeer == {[up |-> {1}, kernel |-> <<[k \in Keys |-> IF k = a THEN Peer ELSE NoPeer]>>,
             files |-> [n \in FileNames |-> NoFile], wg |-> "works", now |-> 1]}

(* What the environment does depends on what the scrape reads of it.       *)
Kinds(o) ==
  CASE o = Plainly -> {"traffic", "peers"}
    [] o = WithFile -> {"files", "wg"}
    [] o = NoInterface -> {}
    [] o = SplitDelay -> {"ips", "handshakes", "clock", "steps"}

SafeOptions == {Plainly, WithFile, NoInterface}
SafeStarts == [o \in SafeOptions |-> OnePeer]
SafeKinds == [o \in SafeOptions |-> Kinds(o)]
SafeEvents == [o \in SafeOptions |-> IF o = Plainly THEN 2 ELSE 1]

LiveOptions == {Plainly, WithFile, SplitDelay}
LiveStarts == [o \in LiveOptions |-> OnePeer]
LiveKinds == [o \in LiveOptions |-> Kinds(o)]
LiveEvents == [o \in LiveOptions |-> 2]
===============================================================================
