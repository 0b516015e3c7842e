------------------------------- MODULE MCScrape -------------------------------
(***************************************************************************)
(* Instances of Scrape for TLC. Two interfaces, two keys: enough for two   *)
(* dumps with a change between them, for two interface arguments that      *)
(* overlap or do not, and for a peer that moves while its neighbour stays. *)
(* The command line decides what the environment does.                     *)
(***************************************************************************)
EXTENDS Scrape

CONSTANTS a, b,        \* public keys
          f, g,        \* file names
          phone        \* a friendly name

CommandLine(i, n, sudo, split, delay) ==
  [interfaces |-> i, files |-> n, sudo |-> sudo, split |-> split, delay |-> delay]

Peer == [ips |-> "some", hs |-> 0, rx |-> 0, tx |-> 0]
NoPeers == [k \in Keys |-> NoPeer]
Both == [k \in Keys |-> Peer]
Only(k) == [NoPeers EXCEPT ![k] = Peer]

Line(tag, arg) == [tag |-> tag, arg |-> arg]
NoFile == <<>>
NoTexts == {NoFile}
PeerBlock(k, comment) ==
  <<Line("peer", Empty), comment, Line("publickey", k), Line("allowedips", "net")>>

Start(up_, kernel_, files_) ==
  [up |-> up_, kernel |-> kernel_, files |-> files_, wg |-> "works", now |-> 1]
NoFiles == [n \in FileNames |-> NoFile]

(* Peers, traffic and interfaces changing under dumps of several arguments. *)
PeersOptions ==
  {CommandLine(i, <<>>, TRUE, FALSE, FALSE) : i \in {Unset, <<2, 1>>, <<1>>}}
PeersStarts == {Start({1, 2}, <<Both, Only(a)>>, NoFiles)}

(* Overlapping arguments, a missing interface, wg without output, with and *)
(* without sudo.                                                           *)
WgOptions ==
  {CommandLine(i, <<>>, TRUE, FALSE, FALSE) : i \in {<<1, 2>>, <<1, 1>>, <<All, 2>>}}
  \cup {CommandLine(i, <<>>, FALSE, FALSE, FALSE) : i \in {Unset, <<1, 2>>, <<All, 2>>}}
WgStarts == {Start({1}, <<Only(a), NoPeers>>, NoFiles)}

(* Config files that are edited, cannot be read, do not parse, or panic.   *)
ConfigTexts ==
  { <<>>,
    PeerBlock(a, Line("name", phone)),
    PeerBlock(a, Line("json", "nested")),
    PeerBlock(b, Line("json", "malformed")),
    PeerBlock(b, Line("wide", Empty)),
    <<Line("publickey", b), Line("allowedips", "net"), Line("name", phone)>> }
ConfigOptions ==
  { CommandLine(Unset, <<f, g>>, TRUE, FALSE, FALSE), CommandLine(Unset, <<f>>, TRUE, TRUE, FALSE),
    CommandLine(<<>>, <<f>>, TRUE, FALSE, FALSE) }
ConfigStarts(o) ==
  {[Start({1}, <<[Only(a) EXCEPT ![a].ips = ips], NoPeers>>, NoFiles) EXCEPT !.files = fs] :
      ips \in AllowedIps,
      fs \in {fs \in [FileNames -> ConfigTexts \cup {Unreadable}] :
               \A n \in FileNames \ Range(o.files) : fs[n] = NoFile}}

(* Delays with handshakes and a clock that may be stepped back.            *)
ClockOptions == {CommandLine(Unset, <<>>, TRUE, FALSE, TRUE)}
ClockStarts == {[Start({1, 2}, <<Only(a), Only(b)>>, NoFiles) EXCEPT !.now = 2]}

EveryOption == PeersOptions \cup WgOptions \cup ConfigOptions \cup ClockOptions
EveryStart == [o \in EveryOption |->
  CASE o \in PeersOptions -> PeersStarts [] o \in WgOptions -> WgStarts
    [] o \in ConfigOptions -> ConfigStarts(o) [] o \in ClockOptions -> ClockStarts]
EveryDisturbance == [o \in EveryOption |->
  CASE o \in PeersOptions -> {"peers", "interfaces", "traffic"}
    [] o \in WgOptions -> {"peers", "ips", "interfaces", "wg"}
    [] o \in ConfigOptions -> {"files", "ips"}
    [] o \in ClockOptions -> {"handshakes", "clock", "steps"}]
TwoOrThree == [o \in EveryOption |-> IF o \in ConfigOptions THEN 2 ELSE 3]

(* The command line of the disagreement with README.md.                    *)
WithSudo == {CommandLine(Unset, <<>>, TRUE, FALSE, FALSE)}
NoWg == [o \in WithSudo |-> {[Start({1}, <<Only(a)>>, NoFiles) EXCEPT !.wg = "absent"]}]
Nothing == [o \in WithSudo |-> {}]
NoEvents == [o \in WithSudo |-> 0]
===============================================================================
