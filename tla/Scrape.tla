-------------------------------- MODULE Scrape --------------------------------
(***************************************************************************)
(* One scrape: perform_request of src/src/main.rs, with the parsing of the *)
(* dump, the merge and the rendering of src/src/wireguard.rs, interleaved  *)
(* with what it reads and does not own: the WireGuard interfaces of the    *)
(* kernel, the peer config files, the wg executable and the clock.         *)
(*                                                                         *)
(* perform_request never awaits, so no two scrapes overlap; between any    *)
(* two of its reads the environment may change anything.                   *)
(***************************************************************************)
EXTENDS PeerConfig

CONSTANTS Interfaces,   \* interface names, numbered in lexicographic order
          NoPeer,       \* what the kernel holds for a key that is no peer
          Unset,        \* an option that is not on the command line
          FileNames,    \* peer config files
          Texts,        \* contents a peer config file may have
          Unreadable,   \* a file that cannot be read to a string
          OptionSet,    \* command lines considered; for each of them
          Starts,       \*   states of the environment considered at the start
          Disturbances, \*   what the environment may do during a run
          MaxEvents,    \*   bound: events of the environment in a run
          MaxBytes,     \* bound: value of a transfer counter
          MaxNow        \* bound: the clock, in seconds since the epoch

(* The interface name that makes wg dump every interface.                  *)
All == 0

(* Whether wg prints "(none)" for the allowed IPs of a peer.               *)
AllowedIps == {"none", "some"}
Peers == [ips : AllowedIps, hs : Nat, rx : Nat, tx : Nat]
Statuses == {"works", "denied", "absent"}
Options == [interfaces : {Unset} \cup Seq(Interfaces \cup {All}), files : Seq(FileNames),
            sudo : BOOLEAN, split : BOOLEAN, delay : BOOLEAN]
(* A device that does not exist has no peers.                              *)
EnvStates ==
  {s \in [up : SUBSET Interfaces,
          kernel : [Interfaces -> [Keys -> Peers \cup {NoPeer}]],
          files : [FileNames -> Texts \cup {Unreadable}],
          wg : Statuses, now : Nat] :
     \A i \in Interfaces \ s.up, k \in Keys : s.kernel[i][k] = NoPeer}

ASSUME ConstantsType ==
  /\ Interfaces \subseteq Nat \ {0}
  /\ IsFiniteSet(Keys)
  /\ NoPeer \notin Peers
  /\ Unset \notin Seq(Interfaces \cup {All})
  /\ Texts \subseteq Seq(Lines)
  /\ Unreadable \notin Texts
  /\ OptionSet \subseteq Options
  /\ Starts \in [OptionSet -> SUBSET EnvStates]

VARIABLES
  options,             \* the parsed command line, fixed for the life of the process
  up, kernel,          \* the interfaces that exist; the peers of each
  files, wg, now,      \* file contents; what running wg does; the clock
  events,              \* how many events the environment has spent
  pc, outcome,         \* where the scrape is; how it ended
  fileNo, text, table, \* next file to read; lines read so far; friendly descriptions
  next,                \* next interface argument
  devs, stdout,        \* devices the running wg has yet to dump; its output
  acc,                 \* wg_accumulator: endpoints by interface, not yet rendered
  body,                \* the samples rendered so far, by metric family
  begun, stable, met, noted, held, dumped \* history since the scrape began, see Observe

env == <<up, kernel, files, wg, now>>
reading == <<fileNo, text, table>>
history == <<begun, stable, met, noted, held, dumped>>
vars == <<options, env, events, pc, outcome, reading, next, devs, stdout, acc, body, history>>

(***************************************************************************)
(* Endpoints and samples. An endpoint is the interface itself (Local) or a *)
(* peer as wg printed it. A sample carries the labels that identify its    *)
(* series: interface, public key and friendly description.                 *)
(***************************************************************************)
Local == [key |-> Empty, peer |-> NoPeer]
Remotes == [key : Keys, peer : Peers]
Endpoints == Remotes \cup {Local}

Families == {"sent", "received", "handshake", "delay"}
Samples == [iface : Interfaces, key : Keys, desc : Descriptions, value : Nat]

NoEndpoints == [i \in Interfaces |-> <<>>]
NoText == <<>>
NoTable == [k \in Keys |-> NoDescription]
NoBody == [f \in Families |-> <<>>]
NothingHeld == [f \in FileNames |-> {}]

Targets == IF options.interfaces = Unset THEN <<All>> ELSE options.interfaces
PeersOf(i) == {k \in Keys : kernel[i][k] # NoPeer}
Present == {p \in Interfaces \X Keys : kernel[p[1]][p[2]] # NoPeer}

(***************************************************************************)
(* The environment. Everything here is external to the program.            *)
(***************************************************************************)
Conditions ==
  {c \in {"bare", "ahead", "unreadable"} \cup Statuses :
     \/ c = "bare" /\ \E p \in Present : kernel[p[1]][p[2]].ips = "none"
     \/ c = "ahead" /\ \E p \in Present : kernel[p[1]][p[2]].hs > now
     \/ c = "unreadable" /\ \E f \in FileNames : files[f] = Unreadable
     \/ c = wg}

(* What has been true since the scrape began: the peers that were there    *)
(* all along (stable) or at some moment (met), what was noted, and until   *)
(* the files are parsed the contents each of them had (held). The moment   *)
(* of the last dump is dumped.                                             *)
Observe(marks) ==
  IF pc = "idle"
  THEN UNCHANGED history
  ELSE /\ stable' = stable \cap Present'
       /\ met' = met \cup Present'
       /\ noted' = noted \cup marks \cup Conditions'
       /\ held' = IF pc = "read" THEN [f \in FileNames |-> held[f] \cup {files'[f]}] ELSE held
       /\ UNCHANGED <<begun, dumped>>

Disturb(kind, marks) ==
  /\ kind \in Disturbances[options]
  /\ events < MaxEvents[options]
  /\ events' = events + 1
  /\ Observe(marks)
  /\ UNCHANGED <<options, pc, outcome, reading, next, devs, stdout, acc, body>>

SetPeer(i, k, p) ==
  /\ kernel' = [kernel EXCEPT ![i][k] = p]
  /\ UNCHANGED <<up, files, wg, now>>

AddPeer == \E i \in up, k \in Keys, ips \in AllowedIps :
  /\ kernel[i][k] = NoPeer
  /\ SetPeer(i, k, [ips |-> ips, hs |-> 0, rx |-> 0, tx |-> 0])
  /\ Disturb("peers", {})

RemovePeer == \E p \in Present :
  /\ SetPeer(p[1], p[2], NoPeer)
  /\ Disturb("peers", {})

ReplaceIps == \E p \in Present, ips \in AllowedIps :
  /\ kernel[p[1]][p[2]].ips # ips
  /\ SetPeer(p[1], p[2], [kernel[p[1]][p[2]] EXCEPT !.ips = ips])
  /\ Disturb("ips", {})

Receive == \E p \in Present :
  /\ kernel[p[1]][p[2]].rx < MaxBytes
  /\ SetPeer(p[1], p[2], [kernel[p[1]][p[2]] EXCEPT !.rx = @ + 1])
  /\ Disturb("traffic", {})

Send == \E p \in Present :
  /\ kernel[p[1]][p[2]].tx < MaxBytes
  /\ SetPeer(p[1], p[2], [kernel[p[1]][p[2]] EXCEPT !.tx = @ + 1])
  /\ Disturb("traffic", {})

Handshake == \E p \in Present :
  /\ kernel[p[1]][p[2]].hs # now
  /\ SetPeer(p[1], p[2], [kernel[p[1]][p[2]] EXCEPT !.hs = now])
  /\ Disturb("handshakes", {})

AddInterface == \E i \in Interfaces \ up :
  /\ up' = up \cup {i}
  /\ UNCHANGED <<kernel, files, wg, now>>
  /\ Disturb("interfaces", {})

DeleteInterface == \E i \in up :
  /\ up' = up \ {i}
  /\ kernel' = [kernel EXCEPT ![i] = [k \in Keys |-> NoPeer]]
  /\ UNCHANGED <<files, wg, now>>
  /\ Disturb("interfaces", {})

EditFile == \E f \in FileNames, t \in Texts \cup {Unreadable} :
  /\ files[f] # t
  /\ files' = [files EXCEPT ![f] = t]
  /\ UNCHANGED <<up, kernel, wg, now>>
  /\ Disturb("files", {})

SetWg == \E s \in Statuses \ {wg} :
  /\ wg' = s
  /\ UNCHANGED <<up, kernel, files, now>>
  /\ Disturb("wg", {})

Tick ==
  /\ now < MaxNow
  /\ now' = now + 1
  /\ UNCHANGED <<up, kernel, files, wg>>
  /\ Disturb("clock", {})

StepBack == \E t \in 1 .. now - 1 :
  /\ now' = t
  /\ UNCHANGED <<up, kernel, files, wg>>
  /\ Disturb("steps", {"stepped"})

Environment ==
  \/ AddPeer \/ RemovePeer \/ ReplaceIps \/ Receive \/ Send \/ Handshake
  \/ AddInterface \/ DeleteInterface \/ EditFile \/ SetWg \/ Tick \/ StepBack

(***************************************************************************)
(* The scrape.                                                             *)
(***************************************************************************)
End(result) == pc' = "answer" /\ outcome' = result

Begin ==
  /\ pc = "idle"
  /\ pc' = "read"
  /\ begun' = [kernel |-> kernel, now |-> now]
  /\ stable' = Present
  /\ met' = Present
  /\ noted' = Conditions
  /\ held' = [f \in FileNames |-> {files[f]}]
  /\ dumped' = now
  /\ UNCHANGED <<options, env, events, outcome, reading, next, devs, stdout, acc, body>>

(* Read the next file; the first that cannot be read ends the scrape.      *)
Join_Replaces(txt, lines) == lines
Join(txt, lines) == txt \o lines

ReadFile ==
  /\ pc = "read"
  /\ fileNo <= Len(options.files)
  /\ LET content == files[options.files[fileNo]]
     IN  IF content = Unreadable
         THEN /\ End("error")
              /\ UNCHANGED <<fileNo, text>>
         ELSE /\ text' = Join(text, content)
              /\ fileNo' = fileNo + 1
              /\ UNCHANGED <<pc, outcome>>
  /\ UNCHANGED <<options, env, events, table, next, devs, stdout, acc, body, history>>

(* Parse the joined text before the first interface is dumped.             *)
ParseConfig ==
  /\ pc = "read"
  /\ fileNo > Len(options.files)
  /\ IF ParseOutcome(text) = "ok"
     THEN /\ table' = PeerEntryHashMap(text)
          /\ pc' = "spawn"
          /\ UNCHANGED outcome
     ELSE /\ End(ParseOutcome(text))
          /\ UNCHANGED table
  /\ UNCHANGED <<options, env, events, fileNo, text, next, devs, stdout, acc, body, history>>

(* Start wg on the next interface argument. Only a process that cannot be  *)
(* started is an error: sudo that is refused or finds no wg, and wg that   *)
(* lacks the right or the interface, exit without output, and the exit     *)
(* status is not looked at.                                                *)
Devices_All(target) == up
Devices(target) == IF target = All THEN up ELSE {target}

Spawn ==
  /\ pc = "spawn"
  /\ next <= Len(Targets)
  /\ IF wg = "absent" /\ ~options.sudo
     THEN /\ End("error")
          /\ UNCHANGED devs
     ELSE /\ pc' = "dump"
          /\ devs' = IF wg = "works" THEN Devices(Targets[next]) ELSE {}
          /\ UNCHANGED outcome
  /\ UNCHANGED <<options, env, events, reading, next, stdout, acc, body, history>>

(* External: wg prints one device, itself first and its peers in any       *)
(* order, or nothing for a device that is gone.                            *)
DumpDevice == \E i \in devs :
  /\ pc = "dump"
  /\ devs' = devs \ {i}
  /\ dumped' = now
  /\ IF i \in up
     THEN \E ks \in SetToSeqs(PeersOf(i)) :
            stdout' = [stdout EXCEPT ![i] =
              <<Local>> \o [n \in DOMAIN ks |-> [key |-> ks[n], peer |-> kernel[i][ks[n]]]]]
     ELSE UNCHANGED stdout
  /\ UNCHANGED <<options, env, events, pc, outcome, reading, next, acc, body,
                 begun, stable, met, noted, held>>

(* wg puts the interface name in front of every line for "all" only; the   *)
(* exporter puts it there for any other argument. try_from tells a Local   *)
(* line by its five columns: with no name, or with two, it takes it for a  *)
(* peer and panics on a column that is missing or no address.              *)
Inject_Never(target) == 0
Inject(target) == IF target # All THEN 1 ELSE 0
NamesInFront(target) == (IF target = All THEN 1 ELSE 0) + Inject(target)

Merge_Replaces(old, new) == new
Merge(old, new) == [i \in Interfaces |-> old[i] \o new[i]]

Collect ==
  /\ pc = "dump"
  /\ devs = {}
  /\ IF stdout # NoEndpoints /\ NamesInFront(Targets[next]) # 1
     THEN /\ End("panic")
          /\ UNCHANGED <<acc, next>>
     ELSE /\ acc' = Merge(acc, stdout)
          /\ next' = next + 1
          /\ pc' = "spawn"
          /\ UNCHANGED outcome
  /\ stdout' = NoEndpoints
  /\ UNCHANGED <<options, env, events, reading, devs, body, history>>

(* The accumulator is still None when there was no argument to handle.     *)
BeginRender ==
  /\ pc = "spawn"
  /\ next > Len(Targets)
  /\ IF next = 1 THEN End("panic") ELSE pc' = "render" /\ UNCHANGED outcome
  /\ UNCHANGED <<options, env, events, reading, next, devs, stdout, acc, body, history>>

(***************************************************************************)
(* render_with_names, one endpoint at a time: interfaces in name order,    *)
(* the endpoints of each in the order they were merged. It reads the clock *)
(* anew for every peer.                                                    *)
(***************************************************************************)
Pending == {i \in Interfaces : acc[i] # <<>>}
NextInterface_Any == CHOOSE i \in Pending : \A j \in Pending : j <= i
NextInterface == Min(Pending)

Exported == IF options.delay THEN Families ELSE Families \ {"delay"}
Value_Swapped(p, f) ==
  CASE f = "sent" -> p.rx [] f = "received" -> p.tx
    [] f = "handshake" -> p.hs [] f = "delay" -> now - p.hs
Value_EarlyClock(p, f) ==
  CASE f = "sent" -> p.tx [] f = "received" -> p.rx
    [] f = "handshake" -> p.hs [] f = "delay" -> begun.now - p.hs
Value(p, f) ==
  CASE f = "sent" -> p.tx [] f = "received" -> p.rx
    [] f = "handshake" -> p.hs [] f = "delay" -> now - p.hs

RenderPanics_NoClock(e) ==
  \/ options.split /\ e.peer.ips = "none"
  \/ table[e.key].tag = "json" /\ table[e.key].arg = "nested"
RenderPanics(e) ==
  \/ options.split /\ e.peer.ips = "none"
  \/ table[e.key].tag = "json" /\ table[e.key].arg = "nested"
  \/ options.delay /\ now < e.peer.hs

RenderEndpoint ==
  /\ pc = "render"
  /\ Pending # {}
  /\ LET i == NextInterface
         e == Head(acc[i])
     IN  /\ acc' = [acc EXCEPT ![i] = Tail(@)]
         /\ IF e = Local
            THEN UNCHANGED <<pc, outcome, body>>
            ELSE IF RenderPanics(e)
                 THEN End("panic") /\ UNCHANGED body
                 ELSE /\ body' = [f \in Families |->
                           IF f \in Exported
                           THEN Append(body[f], [iface |-> i, key |-> e.key,
                                                 desc |-> table[e.key], value |-> Value(e.peer, f)])
                           ELSE body[f]]
                      /\ UNCHANGED <<pc, outcome>>
  /\ UNCHANGED <<options, env, events, reading, next, devs, stdout, history>>

Finish ==
  /\ pc = "render"
  /\ Pending = {}
  /\ End("ok")
  /\ UNCHANGED <<options, env, events, reading, next, devs, stdout, acc, body, history>>

(* The answer leaves the process and its locals are dropped.               *)
DropLocals_KeepsBody ==
  /\ fileNo' = 1 /\ text' = NoText /\ table' = NoTable
  /\ next' = 1 /\ devs' = {} /\ stdout' = NoEndpoints
  /\ acc' = NoEndpoints /\ body' = body
DropLocals ==
  /\ fileNo' = 1 /\ text' = NoText /\ table' = NoTable
  /\ next' = 1 /\ devs' = {} /\ stdout' = NoEndpoints
  /\ acc' = NoEndpoints /\ body' = NoBody

Answer ==
  /\ pc = "answer"
  /\ pc' = "idle"
  /\ outcome' = "none"
  /\ DropLocals
  /\ begun' = [kernel |-> kernel, now |-> now]
  /\ stable' = {} /\ met' = {} /\ noted' = {}
  /\ held' = NothingHeld /\ dumped' = 0
  /\ UNCHANGED <<options, env, events>>

Init ==
  /\ options \in OptionSet
  /\ \E s \in Starts[options] :
       /\ up = s.up /\ kernel = s.kernel /\ files = s.files /\ wg = s.wg /\ now = s.now
       /\ begun = [kernel |-> s.kernel, now |-> s.now]
  /\ events = 0
  /\ pc = "idle" /\ outcome = "none"
  /\ fileNo = 1 /\ text = NoText /\ table = NoTable
  /\ next = 1 /\ devs = {} /\ stdout = NoEndpoints
  /\ acc = NoEndpoints /\ body = NoBody
  /\ stable = {} /\ met = {} /\ noted = {}
  /\ held = NothingHeld /\ dumped = 0

Step ==
  \/ ReadFile \/ ParseConfig \/ Spawn \/ DumpDevice \/ Collect
  \/ BeginRender \/ RenderEndpoint \/ Finish \/ Answer

Next == Begin \/ Step \/ Environment

Spec == Init /\ [][Next]_vars

(***************************************************************************)
(* Properties.                                                             *)
(***************************************************************************)
TypeOK ==
  /\ options \in OptionSet
  /\ up \subseteq Interfaces
  /\ kernel \in [Interfaces -> [Keys -> Peers \cup {NoPeer}]]
  /\ files \in [FileNames -> Texts \cup {Unreadable}]
  /\ wg \in Statuses
  /\ now \in Nat
  /\ events \in Nat
  /\ pc \in {"idle", "read", "spawn", "dump", "render", "answer"}
  /\ outcome \in {"none", "ok", "error", "panic"}
  /\ fileNo \in Nat \ {0}
  /\ text \in Seq(Lines)
  /\ table \in [Keys -> Descriptions]
  /\ next \in Nat \ {0}
  /\ devs \subseteq Interfaces
  /\ stdout \in [Interfaces -> Seq(Endpoints)]
  /\ acc \in [Interfaces -> Seq(Endpoints)]
  /\ body \in [Families -> Seq(Samples)]
  /\ begun \in [kernel : [Interfaces -> [Keys -> Peers \cup {NoPeer}]], now : Nat]
  /\ stable \subseteq Interfaces \X Keys
  /\ met \subseteq Interfaces \X Keys
  /\ noted \subseteq {"bare", "ahead", "unreadable", "stepped"} \cup Statuses
  /\ held \in [FileNames -> SUBSET (Texts \cup {Unreadable})]
  /\ dumped \in Nat

Succeeded == pc = "answer" /\ outcome = "ok"

(* CountersInWindow: a transfer counter the scrape has rendered for a peer *)
(* that stayed configured while it ran is a value the kernel's counter had *)
(* at some moment of the scrape, however the dumps, the traffic and other  *)
(* peers interleave (main.rs:51-100, wireguard.rs:125-126, 329-335).       *)
Counter(p, f) == IF f = "sent" THEN p.tx ELSE p.rx
CountersInWindow ==
  \A f \in {"sent", "received"} : \A n \in DOMAIN body[f] :
    LET s == body[f][n]
    IN  <<s.iface, s.key>> \in stable =>
          /\ Counter(begun.kernel[s.iface][s.key], f) <= s.value
          /\ s.value <= Counter(kernel[s.iface][s.key], f)

(* EveryPeerOnce: when wg worked throughout, a successful scrape has in    *)
(* each exported family exactly one sample of a requested peer that stayed *)
(* configured for each argument that covers its interface: none is lost    *)
(* and none comes from a dump that was not asked for. An interface asked   *)
(* for twice is reported twice (main.rs:94-99, wireguard.rs:139-163,       *)
(* 218-339).                                                               *)
Requested == IF All \in Range(Targets) THEN Interfaces ELSE Range(Targets)
Covering(i) == {n \in DOMAIN Targets : Targets[n] \in {All, i}}
SamplesOf(f, i, k) == {n \in DOMAIN body[f] : body[f][n].iface = i /\ body[f][n].key = k}
EveryPeerOnce ==
  (Succeeded /\ {"denied", "absent"} \cap noted = {}) =>
    \A p \in stable, f \in Exported :
      Cardinality(SamplesOf(f, p[1], p[2])) = Cardinality(Covering(p[1]))

(* NoGhosts: nothing is reported of a peer that was configured at no       *)
(* moment of the scrape, or on an interface that was not asked for; no     *)
(* endpoint outlives the scrape that read it (main.rs:49-100).             *)
NoGhosts ==
  \A f \in Families : \A n \in DOMAIN body[f] :
    /\ <<body[f][n].iface, body[f][n].key>> \in met
    /\ body[f][n].iface \in Requested

(* NamesMatchFiles: the names of a success are those of the command line's *)
(* files, joined in order, as each of them stood at some moment after the  *)
(* scrape began and before the first dump, whatever is edited meanwhile:   *)
(* none is left from an earlier scrape, from a content that was never      *)
(* there or from half of a text, and every file was readable (main.rs:     *)
(* 29-45, wireguard.rs:260-269). A name may be older than its peer.        *)
NamesMatchFiles ==
  Succeeded =>
    \E read \in [DOMAIN options.files -> Texts] :
      /\ \A n \in DOMAIN options.files : read[n] \in held[options.files[n]]
      /\ ParseOutcome(FlattenSeq(read)) = "ok"
      /\ \A f \in Families : \A n \in DOMAIN body[f] :
           body[f][n].desc = PeerEntryHashMap(FlattenSeq(read))[body[f][n].key]

(* RowsGrouped: the samples of an interface are together and interfaces    *)
(* are in name order in every family, whatever order the arguments and the *)
(* devices were dumped in (wireguard.rs:204-216).                          *)
RowsGrouped ==
  \A f \in Families : \A m, n \in DOMAIN body[f] :
    m < n => body[f][m].iface <= body[f][n].iface

(* DelayInWindow: unless the clock is stepped back during the scrape, the  *)
(* handshake time and the delay of a peer that has shaken hands add up to  *)
(* a moment no earlier than the dump of any peer, and a later row is taken *)
(* no earlier. For a peer that has not, the code gives the time since the  *)
(* epoch, of which the documentation does not speak: it is at least not    *)
(* below the delay of a row before it (wireguard.rs:314-327).              *)
TakenAt(n) == body["handshake"][n].value + body["delay"][n].value
Shaken(n) == body["handshake"][n].value # 0
DelayInWindow ==
  "stepped" \notin noted =>
    \A n \in DOMAIN body["delay"] :
      /\ Shaken(n) => /\ dumped <= TakenAt(n) /\ TakenAt(n) <= now
                      /\ \A m \in 1 .. n : Shaken(m) => TakenAt(m) <= TakenAt(n)
      /\ ~Shaken(n) => \A m \in 1 .. n : body["delay"][m].value <= body["delay"][n].value

(* FailureHasCause: a scrape fails only for a reason found outside it: a   *)
(* file that was unreadable or does not parse, a wg that was missing, an   *)
(* empty list of interfaces, a peer without allowed IPs in split mode, a   *)
(* handshake ahead of the clock with delays, a nested friendly_json        *)
(* (main.rs:39-45, 58-70, 105; wireguard.rs:84-131, 243, 285, 323).        *)
FailureHasCause ==
  /\ (pc = "answer" /\ outcome = "error") =>
       \/ "unreadable" \in noted
       \/ ParseOutcome(text) = "error"
       \/ "absent" \in noted /\ ~options.sudo
  /\ (pc = "answer" /\ outcome = "panic") =>
       \/ Targets = <<>>
       \/ ParseOutcome(text) = "panic"
       \/ options.split /\ "bare" \in noted
       \/ options.delay /\ {"ahead", "stepped"} \cap noted # {}
       \/ \E p \in met : table[p[2]] = [tag |-> "json", arg |-> "nested"]

(* Nothing outside makes a scrape fail.                                    *)
JoinedFiles == FlattenSeq([n \in DOMAIN options.files |-> files[options.files[n]]])
Healthy ==
  /\ wg = "works"
  /\ Targets # <<>>
  /\ \A n \in DOMAIN options.files : files[options.files[n]] # Unreadable
  /\ ParseOutcome(JoinedFiles) = "ok"
  /\ \A k \in Keys : PeerEntryHashMap(JoinedFiles)[k].arg # "nested"
  /\ options.split => "bare" \notin Conditions
  /\ options.delay => "ahead" \notin Conditions

(***************************************************************************)
(* What README.md says and the code does not do.                           *)
(***************************************************************************)

(* FailsWithoutWg: the tool "will fail if the wg executable is not found": *)
(* no scrape succeeds when wg was missing from its start to its end.       *)
FailsWithoutWg == ~(Succeeded /\ noted \cap Statuses = {"absent"})
===============================================================================
