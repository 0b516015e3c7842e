------------------------------ MODULE Exposition ------------------------------
(***************************************************************************)
(* A response from end to end: the dump of one wg process, its parsing,    *)
(* the rendering of every peer with its friendly description, the text of  *)
(* the families and a scraper that reads it. Scrape models the same steps  *)
(* with a world that moves and samples instead of text; here the world     *)
(* stands still and every character counts.                                *)
(***************************************************************************)
EXTENDS TextFormat, TextReader, WireGuardDump

CONSTANTS Interfaces,   \* interface names in lexicographic order
          Worlds,       \* peers, in the order wg dumps them, and a description for
                        \* each key, as the config files have it
          OptionSet,    \* command lines to consider
          Targets,      \* interface arguments to consider
          Now           \* the clock

(* Words: keys, addresses, ports, numbers and names, none of which has a   *)
(* character that the formats give a meaning. wg prints no empty column.   *)
Word == STRING \ (Punctuation \cup {"/", None})
LabelNames == {"interface", "public_key", "allowed_ips", "friendly_name", "remote_ip", "remote_port"}
AddressNames == {"allowed_ip_", "allowed_subnet_"}

(* What the kernel holds of a peer, and a description as the parser leaves *)
(* it: a friendly_name is a piece of a line, a friendly_json an object of  *)
(* any JSON values.                                                        *)
Peer == [iface : ToSet(Interfaces), key : Word,
         endpoint : [kind : {"none"}, ip : {None}, port : {None}]
                    \cup [kind : {"v4", "v6", "scoped"}, ip : Word, port : Word],
         allowed : Seq(Word \X Word), hs : 0 .. MaxNumber, rx : 0 .. MaxNumber, tx : 0 .. MaxNumber]
JsonValue == Seq(STRING) \cup {Nested}
IsDescription(d) ==
  \/ d \in [tag : {"none"}] \cup [tag : {"name"}, name : Seq(STRING \ {NewLine})]
  \/ \E K \in SUBSET ToSet(JsonKeys) : d \in [tag : {"json"}, json : [K -> JsonValue]]

ASSUME NamesDiffer ==
  /\ Interfaces \in Seq(Word) /\ IsInjective(Interfaces)
  /\ JsonKeys \in Seq(STRING) /\ IsInjective(JsonKeys) /\ Nested \notin Seq(STRING)
  /\ Targets \subseteq {"all"} \cup ToSet(Interfaces)
  /\ OptionSet \subseteq [split : BOOLEAN, remote : BOOLEAN, delay : BOOLEAN]

ASSUME KernelAndFiles ==
  \A w \in Worlds :
    /\ w.peers \in Seq(Peer)
    /\ \A n \in DOMAIN w.peers : /\ IsDescription(w.table[w.peers[n].key])
                                  /\ Len(w.peers[n].allowed) <= MaxNumber

(* Different numbers print differently.                                    *)
ASSUME NumbersDiffer ==
  /\ MaxNumber \in Nat /\ Now \in 0 .. MaxNumber
  /\ \A n \in 0 .. MaxNumber : /\ Decimal(n) \in Word
                                /\ \A m \in 0 .. MaxNumber : Decimal(m) = Decimal(n) => m = n
  /\ \A n \in 0 .. MaxNumber, part \in AddressNames :
       /\ AddressLabel(part, n) \in Word \ LabelNames
       /\ \A m \in 0 .. MaxNumber, other \in AddressNames :
            AddressLabel(other, m) = AddressLabel(part, n) => m = n /\ other = part

VARIABLES options, world, target, \* fixed during a run
          pc,
          lines,       \* output of wg that is not yet parsed
          interfaces,  \* endpoints by interface, not yet rendered
          metrics,     \* the families, by short name
          body,        \* the response, from where it is not yet read
          heard        \* what the scraper has read
vars == <<options, world, target, pc, lines, interfaces, metrics, body, heard>>
fixed == <<options, world, target>>

Dumped == IF target = "all" THEN Interfaces ELSE <<target>>
PeersIn(i) == Filter(world.peers, LAMBDA p : p.iface = i)
Peers == FlattenSeq([n \in DOMAIN Dumped |-> PeersIn(Dumped[n])])

Desc(p) == world.table[p.key]

Init ==
  /\ options \in OptionSet /\ world \in Worlds /\ target \in Targets
  /\ pc = "dump"
  /\ lines = <<>>
  /\ interfaces = [i \in ToSet(Interfaces) |-> <<>>]
  /\ metrics = <<>> /\ body = <<>> /\ heard = Start

Dump ==
  /\ pc = "dump"
  /\ pc' = "parse"
  /\ lines' = Inject(target, FlattenSeq([n \in DOMAIN Dumped |-> PrintDevice(target, Dumped[n], world.peers)]))
  /\ UNCHANGED <<fixed, interfaces, metrics, body, heard>>

ParseLine ==
  /\ pc = "parse"
  /\ lines # <<>>
  /\ LET v == Columns(Head(lines))
     IN  IF Panics(v)
         THEN pc' = "panic" /\ UNCHANGED interfaces
         ELSE /\ interfaces' = [interfaces EXCEPT ![v[1][1]] = Append(@, Endpoint(v))]
              /\ UNCHANGED pc
  /\ lines' = Tail(lines)
  /\ UNCHANGED <<fixed, metrics, body, heard>>

BeginRender ==
  /\ pc = "parse"
  /\ lines = <<>>
  /\ pc' = "render"
  /\ metrics' = NewMetrics(options)
  /\ UNCHANGED <<fixed, lines, interfaces, body, heard>>

(* The interface to render next; none is left when all are empty.          *)
Pending == {n \in DOMAIN Interfaces : interfaces[Interfaces[n]] # <<>>}

Value(ep, f) ==
  CASE f = "sent" -> ep.sent_bytes [] f = "received" -> ep.received_bytes
    [] f = "handshake" -> ep.latest_handshake [] f = "delay" -> Now - ep.latest_handshake

RenderPanics(ep) ==
  \/ options.split /\ NoSubnet(ep.allowed_ips)
  \/ world.table[ep.public_key].tag = "json" /\ NoJsonText(world.table[ep.public_key].json)
  \/ options.delay /\ Now < ep.latest_handshake

RenderEndpoint ==
  /\ pc = "render"
  /\ Pending # {}
  /\ LET i == Interfaces[Min(Pending)]
         ep == Head(interfaces[i])
     IN  /\ interfaces' = [interfaces EXCEPT ![i] = Tail(@)]
         /\ IF ~IsRemote(ep)
            THEN UNCHANGED <<pc, metrics>>
            ELSE IF RenderPanics(ep)
                 THEN pc' = "panic" /\ UNCHANGED metrics
                 ELSE /\ metrics' = [f \in DOMAIN metrics |->
                           RenderAndAppendInstance(metrics[f],
                             Labels(i, ep, Keep(world.table[ep.public_key]), options), Value(ep, f))]
                      /\ UNCHANGED pc
  /\ UNCHANGED <<fixed, lines, body, heard>>

Format ==
  /\ pc = "render"
  /\ Pending = {}
  /\ pc' = "sent"
  /\ body' = RenderBody(metrics)
  /\ UNCHANGED <<fixed, lines, interfaces, metrics, heard>>

(* External: the scraper, a line at a time.                                *)
ReadLine ==
  /\ pc = "sent"
  /\ LET eol == SelectInSeq(body, LAMBDA c : c = NewLine)
     IN  /\ heard' = Reading(heard, SubSeq(body, 1, eol))
         /\ body' = SubSeq(body, eol + 1, Len(body))
  /\ pc' = IF body' = <<>> THEN "read" ELSE pc
  /\ UNCHANGED <<fixed, lines, interfaces, metrics>>

Next == Dump \/ ParseLine \/ BeginRender \/ RenderEndpoint \/ Format \/ ReadLine
Spec == Init /\ [][Next]_vars

(***************************************************************************)
(* What the response is meant to say, from what the kernel holds and the   *)
(* config files say, and nothing of the code.                              *)
(***************************************************************************)
Addresses(p) ==
  UNION {{<<AddressLabel("allowed_ip_", n - 1), <<p.allowed[n][1]>> >>,
          <<AddressLabel("allowed_subnet_", n - 1), <<p.allowed[n][2]>> >>} : n \in DOMAIN p.allowed}
Description(p) ==
  CASE Desc(p).tag = "none" -> {}
    [] Desc(p).tag = "name" -> {<<"friendly_name", Desc(p).name>>}
    [] Desc(p).tag = "json" -> {<<k, Desc(p).json[k]>> : k \in DOMAIN Desc(p).json}
Remote(p) == IF p.endpoint.kind = "none" THEN {}
             ELSE {<<"remote_ip", <<p.endpoint.ip>> >>, <<"remote_port", <<p.endpoint.port>> >>}
OwnLabels(p) ==
  {<<"interface", <<p.iface>> >>, <<"public_key", <<p.key>> >>}
  \cup (IF options.split THEN Addresses(p) ELSE {<<"allowed_ips", PrintAllowed(p.allowed)>>})
  \cup (IF options.remote THEN Remote(p) ELSE {})

Held(p, f) == CASE f = "sent" -> p.tx [] f = "received" -> p.rx
                [] f = "handshake" -> p.hs [] f = "delay" -> Now - p.hs
Exported == IF options.delay THEN Families ELSE SubSeq(Families, 1, 3)
FullName == [sent |-> "wireguard_sent_bytes_total", received |-> "wireguard_received_bytes_total",
             handshake |-> "wireguard_latest_handshake_seconds",
             delay |-> "wireguard_latest_handshake_delay_seconds"]
Meant(f) == [n \in DOMAIN Peers |->
  [family |-> FullName[f], labels |-> OwnLabels(Peers[n]) \cup Description(Peers[n]),
   value |-> Decimal(Held(Peers[n], f))]]
MeantTypes == [n \in DOMAIN Exported |->
  <<FullName[Exported[n]], IF Exported[n] \in {"sent", "received"} THEN "counter" ELSE "gauge">>]

(* A description the exporter can write without harm: every value of it    *)
(* reads back, and every entry has a name that can be a label's and is not *)
(* that of a label the exporter adds.                                      *)
Harmless(p) ==
  CASE Desc(p).tag = "none" -> TRUE
    [] Desc(p).tag = "name" -> Plain("name", Desc(p).name)
    [] Desc(p).tag = "json" -> \A k \in DOMAIN Desc(p).json :
         Plain("json", Desc(p).json[k]) /\ k \notin Punctuation /\ \A l \in OwnLabels(p) : l[1] # k

(* ReadsBack: when every description is harmless, a scraper accepts the    *)
(* response and reads from it the families with their types and, in each,  *)
(* one sample per peer, grouped by interface, with the labels and the      *)
(* value that the kernel and the config files give it: in both modes for   *)
(* allowed IPs, with or without remote addresses, for every form of an     *)
(* endpoint and for "all" as for one interface (main.rs:83-92,             *)
(* wireguard.rs:90-137, 218-354, prometheus_instance.rs:53-75,             *)
(* prometheus_metric.rs:18-40).                                            *)
ReadsBack ==
  (pc = "read" /\ \A n \in DOMAIN Peers : Harmless(Peers[n])) =>
    /\ heard.mode = "line"
    /\ heard.types = MeantTypes
    /\ heard.samples = FlattenSeq([n \in DOMAIN Exported |-> Meant(Exported[n])])

(* NothingForged: whatever a friendly_name says, a sample the scraper      *)
(* accepts is that of a peer, with its value and exactly its labels, but   *)
(* for the value of friendly_name: a name can spoil a response, it cannot  *)
(* add a label or touch another one (friendly_description.rs:17).          *)
WithoutName(labels) == {l \in labels : l[1] # "friendly_name"}
NothingForged ==
  (\A n \in DOMAIN Peers : Desc(Peers[n]).tag # "json") =>
    \A n \in DOMAIN heard.samples : \E m \in DOMAIN Peers, f \in ToSet(Exported) :
      LET read == heard.samples[n]
          meant == Meant(f)[m]
      IN  /\ read.family = meant.family /\ read.value = meant.value
          /\ WithoutName(read.labels) = WithoutName(meant.labels)
          /\ {l[1] : l \in read.labels} = {l[1] : l \in meant.labels}

(* PanicsOnUnprintable: the pipeline panics for a peer that has no allowed *)
(* IPs in split mode, a null, an array or an object in its friendly_json,  *)
(* or a handshake ahead of the clock with delays, and for nothing else: no *)
(* endpoint wg prints, with or without a zone, and neither form of the     *)
(* dump. One such peer costs the whole response, wherever it comes in the  *)
(* dump (wireguard.rs:90-137, 243, 285, 323).                              *)
Unprintable(p) ==
  \/ options.split /\ p.allowed = <<>>
  \/ Desc(p).tag = "json" /\ \E k \in DOMAIN Desc(p).json : Desc(p).json[k] = Nested
  \/ options.delay /\ p.hs > Now
PanicsOnUnprintable ==
  /\ pc = "panic" => \E n \in DOMAIN Peers : Unprintable(Peers[n])
  /\ pc \in {"sent", "read"} => \A n \in DOMAIN Peers : ~Unprintable(Peers[n])

(***************************************************************************)
(* What README.md says and the code does not do.                           *)
(***************************************************************************)

(* QuotesEscaped: "the exporter correctly escapes the double quotes in     *)
(* friendly_name": a response whose only special characters are quotes,    *)
(* and what stands before them, in friendly names is accepted.             *)
QuotesEscaped ==
  (pc = "read" /\ \A n \in DOMAIN Peers : Desc(Peers[n]).tag = "name" =>
                    \A m \in DOMAIN Desc(Peers[n]).name :
                      Desc(Peers[n]).name[m] = Backslash =>
                        m < Len(Desc(Peers[n]).name) /\ Desc(Peers[n]).name[m + 1] = Quote)
  => heard.mode # "error"
===============================================================================
