# Verification of prometheus_wireguard_exporter

TLA+ models of the exporter, TLC runs that check them on small instances, and
TLAPS proofs of what should hold for every instance. Paths such as
`main.rs:51` are files of `src/src/`.

## 1. Inventory

The exporter is one process with one thread. Prometheus connects over HTTP and
asks for `/metrics`; the answer is made anew for each request by running
`wg show ... dump`, reading the peer config files for friendly names, and
rendering rows. Nothing is kept from one request to the next.

| Component | State | Operations | What makes it correct |
| -- | -- | -- | -- |
| scrape (`main.rs:22-107`) | locals: joined text, table of names, accumulator | read files, parse them, run wg per interface argument, merge, render | the response shows what was true during the scrape, failures have a cause outside, a failure leaves nothing behind |
| dump and rendering (`wireguard.rs`) | `WireGuard.interfaces`, the metric families | `try_from`, `merge`, `render_with_names` | each peer once, in the right interface, with its own values, grouped |
| peer config parser (`wireguard_config.rs`) | `cur_block`, `v_blocks`, locals of an entry, the table | cut the text into blocks, an entry per block, insert | a peer gets the description of its own block, the first bad block decides the failure |
| friendly descriptions (`friendly_description.rs`) | none | parse a name or a JSON object | the description is what the comment says |
| HTTP server (`server.rs`) | listen queue, one task per connection, descriptors | accept, check a request, call back, respond, end a task | responses in order, right status, no descriptor lost, connections independent |
| options, startup (`options.rs`, `main.rs:109-227`) | constant after start | parse the command line, bind | each option from its right source, no start with a command line that is refused or an address that is taken |
| text format (`prometheus/*.rs`) | a family's rows | build a family, append a row, format | a reader gets back the peers, their labels and their values |
| errors (`exporter_error.rs`) | none | conversions | - |

How they interact. The server calls `perform_request` from the task of a
connection (`server.rs:100`). `perform_request` never awaits: while it runs, the
only thread is blocked (`main.rs:109`, `flavor = "current_thread"`), so scrapes
do not overlap with each other or with any other work of the server. They do
overlap with everything the process does not own: the kernel's interfaces and
peers, files, the wg executable, the clock, and the clients.

What is hard about it:

- a scrape is many reads of a world that moves: one read per file, one dump per
  device, one reading of the clock per row;
- the same failure has several exits: an error is a 500 response, a panic drops
  the connection, and an exit status of wg that is not looked at is an empty
  success;
- texts of several files are joined before they are cut into blocks;
- the server has a limit of descriptors, keeps connections alive without a
  timeout, and stands still for as long as wg runs.

`PROJECT.json` lists the components with their status and every hazard at its
line.

## 2. Modules

| Module | What it is |
| -- | -- |
| `PeerConfig` | what the parser makes of a whole text: blocks as sets of positions, the entry of a block, the table and the outcome. No state. |
| `PeerConfigParser` | the loops of `wireguard_config.rs`, one action per line, checked against `PeerConfig` |
| `PeerConfigProofs` | theorems about the table, for all texts, and lemmas about joined sequences |
| `PeerConfigParserProofs` | the loops compute what `PeerConfig` defines, for all texts |
| `Scrape` | one scrape, interleaved with its environment |
| `ScrapeProofs` | theorems about `Scrape`: types, counters, what a scrape reports and how it ends: order, delays, ghosts, causes, names, and every peer once |
| `HttpService` | what a client is promised: the abstract specification of the server |
| `Server` | the accept loop, the connections, the callback |
| `ServerProofs` | theorems about `Server`; among them that it implements `HttpService` |
| `Exporter` | `Server` and `Scrape` composed: the callback of a request is a scrape |
| `ExporterProofs` | the composition implements `Server`; scrapes do not overlap; counters and freshness over successive responses |
| `WireGuardDump` | the text of a dump, its columns, and the endpoint made of a line |
| `TextFormat` | label lists, rows and families as text (`prometheus/`, `render_with_names`) |
| `TextReader` | a reader of the exposition format (external) |
| `Exposition` | a response from the dump to its reader, while the world stands still |
| `ExpositionProofs` | theorems about `Exposition`: what reads back, what a friendly name cannot forge, when it panics |
| `LabelText` | the characters of a label value: escaping, and the reader inside quotes |
| `Row` | one row of a family, written and read a token at a time |
| `RowProofs` | theorems about `Row`: what reads back, and what a friendly name cannot forge |
| `CommandLine` | from the arguments of the process to a bound socket |
| `CommandLineProofs` | its options and its end, for all command lines |
| `MCPeerConfigParser`, `MCScrape`, `MCServer`, `MCExporter`, `MCExposition`, `MCRow`, `MCCommandLine` | instances for TLC |

```
PeerConfig <- PeerConfigParser          HttpService <- Server  (Implements)
    ^                                                     ^
    +---- Scrape <------------- Exporter -----------------+  (ImplementsServer)

LabelText <- TextReader <- Row
    ^            ^
    +------------+---- TextFormat, WireGuardDump <- Exposition            CommandLine
```

Operators named `X_Something` next to an operator `X` are deliberate mistakes:
`PROJECT.json` names for every property one of them that breaks it.

### PeerConfig and PeerConfigParser

A line of a config file is `[tag, arg]`: the test of the parser it passes and
the value the parser takes from it. `txt.lines()`, lower-casing, trimming and
the search for `=` and `#` are in that classification; the tag `wide` is the
comment whose indentation makes the slice of `wireguard_config.rs:40` panic.
`PeerConfig` defines `Blocks`, `Block`, `EntryOutcome`, `ParseOutcome` and
`PeerEntryHashMap` declaratively. `PeerConfigParser` has the code's locals as
variables (`cur_block` is `isOpen` and `curBlock`) and its loops as actions:
`HeaderLine`, `BodyLine`, `Leftover` for the first, `EntryLine`, `EntryEnd`,
`Return` for the second. Empty lines are pushed or not in the code; they change
nothing and are lines with tag `other` here.

### Scrape

`pc` is where `perform_request` stands; `fileNo`, `text`, `table`, `next`, `acc`
and `body` are its locals and those of `render_with_names`; `devs` and `stdout`
belong to the running wg.

| Action | Code |
| -- | -- |
| `Begin`, `Answer` | the call and the return in `handle_request`; the locals are dropped |
| `ReadFile` | one `read_to_string`; the first failure ends the scrape |
| `ParseConfig` | the parse of the joined text, by `PeerConfig` |
| `Spawn` | `Command::output` of the next interface argument starts its process |
| `DumpDevice` | wg prints a device (external) |
| `Collect` | the output is complete: name column, `try_from`, `merge` |
| `BeginRender`, `RenderEndpoint`, `Finish` | `render_with_names`, a row at a time, rows before `format!` in `body` |

Joining, name columns, merging and values are operators of their own (`Join`,
`NamesInFront`, `Merge`, `Value`). A sample carries what identifies its series:
interface, key and description. Addresses, ports, allowed IPs and keepalive are
not told apart, except that `(none)` as allowed IPs is (`wireguard.rs:243`).

The environment adds and removes peers and interfaces, replaces allowed IPs,
carries traffic, shakes hands, edits files, breaks and repairs wg, lets the
clock run and steps it back. For each command line `Starts` says in which world
the scrapes begin, `Disturbances` which kinds of events occur and `MaxEvents`
how many; `MaxBytes` and `MaxNow` bound counters and the clock. The program's
own actions carry no bound.

`begun`, `stable`, `met`, `noted`, `held` and `dumped` are history: the kernel at the
start of the scrape, the peers that were there throughout or at some moment, the
conditions seen, the contents each file had until the texts were parsed, and the
clock at the last dump. Properties use them; no action of the program reads them.
With `held`, `NamesMatchFiles` speaks of scrapes during which files are edited too:
the code reads one file after the other, so that the names are those of one content
per file, not of one moment. With `dumped`, `DelayInWindow` tells a clock that is
read for each row from one that is read once when the scrape begins.

How wg dumps is external and modelled from its use: with `all` it prints every
interface that exists when it starts, each with its name in front, the interface
itself first; a device that vanished prints nothing; a transfer counter only
grows while the peer stays.

### Server and HttpService

A connection is `away`, `queued` in the listen queue, `open` or `closed`. `sent`,
`taken` and `answers` are its requests, how many were read and the statuses
written; `busy` is the connection whose callback runs, `fds` the descriptors
held. `Take` is hyper reading the next request and `handle_request` up to the
callback, in the code's order of checks (`Verdict`); `CallbackOk`,
`CallbackError` and `CallbackPanic` are the three ways `perform_request` can
come back; `Close` ends the task of a client that left. `Accept` needs a free
descriptor: an accept that fails is logged and tried again, which changes no
state.

`HttpService` knows only what a client sees: requests asked, statuses answered,
connections gone. `Implements` substitutes `asked <- sent`,
`answered <- answers`, `gone <-` the closed connections.

The callback is abstract in `Server` (any of its ways to end), so what is proved
of `Server` does not depend on `Scrape`.

### Exporter

`H == INSTANCE Server` and `P == INSTANCE Scrape` share no variable; `Exporter`
says which of their steps happen together. `Take` of a request that passes the
checks is `P!Begin`; `Work` is a step of the scrape while its connection is
`busy`; `Reply` is `P!Answer` and the end of the callback, and the outcome of the
scrape decides which end: 200, 500, or a connection that closes. The clients and
the environment go on meanwhile. `Starved` is what the two parts share in
earnest, the descriptors of the process: a file to open needs one, wg needs
`ScrapeFds` for its pipes, and without them the scrape ends with an error.

`asked` and `served` are history: what the kernel held when a request was sent,
and the counters of a peer last sent to anybody. `ImplementsServer` is
`H!Spec`: the refinement mapping is the identity on the variables of `Server`
and hides the scrape.

### Exposition and the modules it is made of

`Scrape` keeps samples; these modules keep the text. A token is a name, a number
or one of the characters the format gives a meaning; the values of labels are
sequences of characters. The actions of `Exposition` are `Dump` (wg prints,
`main.rs` puts the interface in front), `ParseLine` (`try_from`), `BeginRender`
and `RenderEndpoint` (`render_with_names`), `Format`, and `ReadLine`, the reader.
`TextFormat` has one operator per method of `prometheus/`: the builder with its
fields in any order, `RenderAndAppendInstance`, `RenderHeader`, `RenderMetric`.
`Meant` says what a response should say, from the kernel and the config files
alone, and shares nothing with the code's path.

The world stands still from the dump to the last row. `RenderPanics` has the three
ways rendering a peer ends in a panic: no allowed IPs in split mode
(`wireguard.rs:243`), a JSON value without a text (285) and a handshake ahead of the
clock (323); `PanicsOnUnprintable` says in terms of the kernel and the files which
peers these are, and that there is no fourth. A `Word` (a key, an
address, a port, a number, a name) has none of the characters the formats give a
meaning, which is true of what wg prints; a friendly name is any piece of a line, a
friendly JSON any strings under the names `JsonKeys`, or `Nested`, which stands for
null, arrays and objects. `Decimal` is a number as it is
printed; `Filter`, `Cut` (one character of a `split`) and `AddressLabel` are the
operators the code's iterators and `format!` stand for.

`Row` is the same writing and reading of one row, with the same escapes
(`LabelText`) and the same reader, one token per action: `OpenLabel`, `Write` for a
character of a value, `CloseLabel`, `End`, and `Read` as long as something has been
written and not read. The reader never looks ahead, so that reading early reads the
same, and the argument about escapes can be an invariant of the two.

### CommandLine

clap is external: `ReadFlag`, `ReadValue` and `EndOfArguments` are how it reads
arguments with the settings `main` gives them, one token per action. `ReadEnv`
fills in environment variables and defaults, `MakeOptions` is `from_claps`,
`Bind` the listener. `Given` and `Misused` define declaratively, from the command
line as a whole, what the result is. They follow the code where the documentation
differs: a list that is given twice is refused, which the run `repeats` is about, and
an argument without a value is not one that is absent. The properties leave out
command lines with such an argument (`Valued`). Help and version flags are left out.

## 3. Runs

All bounds are in the `.cfg` files and in the named definitions of the MC modules.

| Run | Instance | What it shows |
| -- | -- | -- |
| `parser` | every text of at most three lines, and every sequence of at most three of ten chunks: blocks with comments, misplaced comments and headers, halves of a block | `BlocksAreCut`: at every line the blocks so far are those of the lines read. `ParsesAsSpecified`: outcome and table are `PeerConfig`'s. |
| `scrape` | two interfaces, two keys, thirteen command lines, each with the disturbances its scrape reads (see below); 960 000 states | `CountersInWindow`, `EveryPeerOnce`, `NoGhosts`, `NamesMatchFiles`, `RowsGrouped`, `DelayInWindow`, `FailureHasCause` |
| `requests` | two connections over two descriptors, six kinds of request that fail each check alone and all together, with a password | `NoResponseLost`, `Implements`, `OnlyOwnFaultCloses` |
| `live` | fair; three clients over two descriptors | `FdsAccounted`, `EveryRequestSettled`, `WaitingIsAccepted`, `HungUpIsClosed` |
| `exporter` | two clients with two requests each, over two descriptors of which a scrape needs one; peers and traffic, two events; files and wg, one event; an empty list of interfaces | `ScrapesOneByOne`, `ImplementsServer`, `CountersNeverGoBack` |
| `exporter_live` | fair; two clients, three descriptors; traffic and peers, files and wg, or allowed IPs, handshakes and the clock, two events | `Served`, `FreshSinceSent` |
| `row` | every name and JSON string of at most four of five characters, and every friendly name of at most four pieces of a forged row, with none to three labels of the exporter; 200 000 states | `PlainRowReadsBack`, `NothingForgedInRow` |
| `text` | two or three peers over two interfaces, four forms of endpoint, none to two networks, six descriptions each, one of them with a nested value, handshakes behind, at and ahead of the clock, all options, `all` and one interface; and every friendly name of at most four of five pieces; 340 000 states | `ReadsBack`, `NothingForged`, `PanicsOnUnprintable` |
| `command_line` | fair; every command line of at most four of seven tokens, four environments, a port free or taken | `OptionsAsGiven`, `StartsUnlessMisused` |

The command lines of `scrape`:

| Command lines | The world | Disturbances, events |
| -- | -- | -- |
| `all`, `wg1 wg0`, one interface | both interfaces, three peers | peers, interfaces, traffic: 3 |
| overlapping and repeated arguments, with and without sudo | one interface, the other to come | peers, interfaces, allowed IPs, wg denied or absent: 3 |
| two files, one file in split mode, one with an empty list of interfaces | one peer; every pair of seven contents: empty, a name, nested and malformed JSON, wide white space, a block without header, unreadable | files, allowed IPs: 2 |
| delays | two peers | handshakes, ticks and steps back: 3 |

Why the bounds are enough. The hazards of a scrape are an event between two of
its reads, so two dumps, two files and two or three events reach every pair of
reads with a change between them, and one more. Interfaces or keys beyond two
are handled by the same loop body. A rule of the parser relates at most two
neighbouring blocks and a later block of the same key: three chunks contain all
of these. In the server, one connection can disturb another only through
`busy`, the queue and `fds`; two connections use all three, and three are used
for the order of the queue. In the composition, three scrapes in a row are what
it takes to send a row that one scrape left behind to a client that was told a
later value; the runs reach four. A label value is written and read with one
character of context, so four characters contain every escape, complete or cut
off, with a neighbour on both sides; the pieces of a friendly name are what a
name would need to end its label, start another, and end the row. The rows of a
peer differ by its position in its interface and by the interface before, which
three peers over two interfaces cover. An argument of the command line interacts
with the token before it and with an earlier use of itself, which four tokens
hold.

`CHECK_DEADLOCK FALSE` is set where the system really stops: the parser returns,
a response is read, the process has started or exited, and clients of `Server`
and of `Exporter` connect once each, so that all may be closed.

### Where the documentation says otherwise

Three runs refute a sentence of the documentation:

| Run | Documentation | Code |
| -- | -- | -- |
| `repeats` | `src/README.md:33`: "the exporter accepts multiple interfaces in the command line options. Just pass the `-i` parameter multiple times." | the argument has `num_args(0..)` and the default action, clap refuses a second `-i` (`main.rs:177`); `-i wg0 wg1` works |
| `no_wg` | `src/README.md:77`: "of course will fail if the `wg` executable is not found" | with `-a true` sudo is found; its exit status is ignored, the response is empty and has status 200 (`main.rs:58`) |
| `quotes` | `src/README.md:27`: "the exporter correctly escapes the double quotes in `friendly_name`" | a backslash is not escaped: before a quote it turns the escape into the end of the value (`friendly_description.rs:17`) |

The passing properties carry the exact premise of five more:

| Documentation | Code | Where it shows |
| -- | -- | -- |
| `src/README.md:111`: a parameter without value "(for example `-v`) is the same of not passing the parameter at all" | clap refuses `-v` without a value | `Valued` in `StartsUnlessMisused`; `EndsCorrect` |
| the same sentence | `-i` without a value is an empty list, and every scrape panics (`main.rs:105`) | `Valued` in `OptionsAsGiven`; the empty list in `FailureHasCause` |
| `wireguard_config.rs:39`: "since the pound sign is 1 byte the below slice will work" | the line is tested after trimming and sliced before: white space of several bytes in front of the pound sign makes the slice panic | the tag `wide` in `ParseOutcome`, which `ParsesAsSpecified` and `FailureHasCause` follow |
| `src/README.md:133`: "a Prometheus valid response" | an interface given twice has every series twice (`wireguard.rs:157`) | `Covering` in `EveryPeerOnce` |
| the same sentence | a string of a `friendly_json` is written as it was decoded: a quote or a line feed in it makes the response invalid, and so does an entry called like a label (`wireguard.rs:273-295`) | `Harmless` in `ReadsBack` |

## 4. Fairness

`Scrape` states no fairness: its runs check safety, and its progress is part of
`Exporter`.

`Server!FairSpec`: a callback returns (weak fairness; `perform_request` has no
loop that waits, wg terminates). `Accept`, `Take` and `Close` have strong
fairness, because each is enabled only while no callback runs: callbacks of
other connections disable them again and again, and tokio's scheduler polls
woken tasks in order, so that none is passed over forever. Clients have no
fairness. In particular an idle client may keep its connection for ever, which
is why `WaitingIsAccepted` assumes that a descriptor is free again and again.

`Exporter!FairSpec` is the same with the scrape in place of the callback: `Work`
and `Reply` have weak fairness (an enabled step of a single thread is taken, wg
terminates), `Accept` and `Take` strong fairness. Nothing is assumed of the
environment: that it stops breaking things is the premise `[]Healthy` of
`Served`, and a client that hangs up is excluded there too. The instance has a
descriptor for each client and for wg, so that `Served` is about contention for
the thread; what happens without a descriptor is the run `exporter`.

`CommandLine!FairSpec` is weak fairness of the next step: the process runs.

## 5. Proofs

No assumption is made beyond the `ASSUME`s of the modules, which TLC evaluates
in the runs. Those of `CommandLine` say that no value is a flag, that `Unset` is
neither an argument nor a sequence of tokens, and that the defaults `9586` and
`0.0.0.0` are a port and an address (`main.rs:119-130`). Those of `Exposition` are
`NamesDiffer` (interfaces are distinct words, an argument is `all` or one of them),
`KernelAndFiles` (the types of what wg prints and of a parsed description) and
`NumbersDiffer`: numbers up to `MaxNumber` print as words, different ones
differently, and so do the names of the labels made with them. The last is an
assumption because `ToString` has no definition a prover could expand; TLC evaluates
it for the numbers of the instances.

`PeerConfigProofs`. `TableType`: for every text the table gives each key a
description. `OwnBlock`: a description given to a key is a comment of a block
that names this key, and no other block begins in between. The argument: the
table takes the last block of a key (`DecidingBlock`, from the existence of the
maximum of a set of positions), and all positions of a block lie between its
header and the next one.

`PeerConfigParserProofs`. The loops keep their place by counting (`block`,
`item`), `PeerConfig` by positions in the text: the two are connected by the rank
of a peer line, the number of peer lines up to it. `CountGrows` and its lemmas
are about ranks. `CutInv` for `BlocksCutCorrect` says that the blocks pushed so
far are those of the ranks below the open one, each up to the next peer line, and
that the open one is what was read since the last; the second loop leaves it as
the first ended it. `ParseInv` for `ParsesCorrect` says, inside a block, that the
entry is the last value of each tag among the lines read and that none of them
stops it, and, between blocks, that all earlier blocks have parsed and the table
has for each key the entry of the last of them. When a block fails, the second
part makes it the first to fail. `TypeCorrect` comes from the same lemmas.

`ScrapeProofs`. `TypeCorrect` is one lemma per action, on top of lemmas about
the types of `Merge`, `Value`, `NextInterface` and a dump. `CountersCorrect`
needs the inductive invariant `IInv`: `CountersInWindow` speaks of `body`, and
the values get there through wg's output and the accumulator, so that the window
must already hold for the endpoints in `stdout` and in `acc`; and a peer that is
stable must be configured with counters at least those at the start
(`StablePeersGrow`). While the exporter is idle `stdout`, `acc` and `body` are
empty (`IdleIsClean`), which starts the argument for each scrape anew. A step of
the environment only widens the window (`EnvironmentKeepsWindow`), a step of the
program copies values within it (`StepKeepsWindow`).

The rest of `ScrapeProofs` has an inductive invariant for each thing a row has to
remember:

- `RowsInv` for `GroupedCorrect`: nothing is rendered before the last dump is in,
  and every row comes from an interface no later than those that still have
  endpoints to render;
- `DelayInv` for `DelayCorrect`: the families of handshakes and delays grow
  together, so that the n-th of both are of one endpoint, and the row added last
  was taken now, which is no earlier than the last dump and than any row before;
- `CauseInv` for `GhostsCorrect` and `CauseCorrect`: every endpoint on its way, in
  wg's output or in the accumulator, is `Explained` by what has been met and noted
  since the scrape began. A panic while rendering is then explained by its endpoint;
- `NamesInv` for `NamesCorrect`: the text is the join of some contents of the files
  read so far, each one the file has had since the scrape began (`ReadSoFar`); once it
  is parsed the table is `PeerEntryHashMap` of such a join of all of them, and stays
  so whatever is edited later, and every row has the description the table gives its
  key. The join
  is a fold; `JoinExists` and `JoinUnique` of `PeerConfigProofs` unfold it
  (`FlattenAppend`) without an induction over data, by a least counterexample.

`OnceCorrect` is a conservation law. For a peer that stays
configured, the copies in the accumulator and in wg's output, the dump wg still
owes and the rows already rendered add up to the number of arguments asked so
far (`Counted`). One lemma per way the sum moves: `SpawnCounts` adds to both
sides, `DumpCounts` turns a debt into output, `CollectCounts` output into
accumulator, `RenderCounts` accumulator into a row. Beneath them are lemmas about
counting in sequences (`CopiesConcat`, `CopiesTail`, and `CopiesDumped`: wg prints
a peer once). When the scrape has succeeded only the rows are left.

`ServerProofs`. `FdsCorrect`, `NoResponseLostCorrect` and `ImplementsCorrect`
come from one inductive invariant: the queue holds distinct clients that are not
open yet (otherwise `Accept` would count a descriptor for a connection that has
one); a running callback belongs to an open connection and to a request that
passed all checks; every connection that is not closed has been answered what was
read from it, but for the request of the callback. The refinement has one lemma
per action: `Send` maps to `Ask`, `Take` to `Reply` or to a stutter, a callback
that returns to `Reply`, a panic and `Close` to `Leave`, all else to a stutter.
The same invariant gives `TypeCorrect` and, step by step, `OwnFaultCorrect`:
`ClosingStep` goes through the actions that close a connection, and each of
them closes one only (`ShutIsLocal`), for a reason of its own.

`RowProofs`. Both theorems hold for rows of any number of labels with values of any
length over any tokens, under one invariant that says where writer and reader stand
to each other. While they are `InStep` the reader has the labels before the one under
way (`Named`) and, of a plain value, exactly the characters written: an escaped quote
is the only one that takes two steps, in which the reader knows it is inside an
escape. Of a friendly name with a backslash in it nothing is known but that it is in
the string (`InName`). There the two may part (`Astray`): `Ahead`, when the reader
took a quote of the name for its end, and `StillInString`, when it took the end for a
character. The invariant says why neither forges a row. A reader that is ahead meets
a quote or a backslash where it takes none, since the exporter writes no quote of a
name without a backslash, or is inside a string again at the end of the name; one
still in the string comes out of it at the start of a later value, where it refuses
whatever a clean value begins with (`BeforeValue`), or meets the end of the line. No
sample is added in any of them (`Clear`). The modes of the reader have one lemma each
(`LineMoves` to `StringMoves`), and the step of each action one.

`ExpositionProofs`. The three properties hold for any number of peers, networks and
interfaces and for descriptions of any length over any tokens. Two inductive
invariants carry them, both of the form "what is done, with what is left, is the
whole":

- `PipeInv`: while lines are parsed, the endpoints of an interface so far, with those of
  the lines left, are the ones of its peers in the dump (`Parsing`); while rows are
  rendered, the rows so far are those of some endpoints `done`, and `done` with the
  endpoints left is the peers of the dump, in order (`Rendering`); once the response is
  sent the families have exactly the rows of all peers. A step moves one element from
  the left to the done. `done` has no endpoint that panics, which gives
  `ExpositionPanicsOnUnprintable` by `PanicsAre`: the code's condition on an endpoint is
  the one on the peer it was made of. That the parser panics on no line wg prints is
  part of `PeerParsed`.
- `HeardInv`: reading the rest of the body from where the scraper stands gives what
  reading the whole response from `Start` gives, as long as the descriptions are all
  harmless, or none is a JSON object (`Sayable`). It is stated for these only since
  nothing is claimed of the others.

Both invariants leave a question about a text: what does `Reading(Start, Response)`
give? The answer is made from the inside out, a label (`Entry`), a row (`RowData`), a
family (`Fam`), the response (`ResponseSays`), each by induction over the length of a
sequence, and for two promises at once (`Promise`): `plain`, that all is read back, and `tame`, that
a sample which is accepted is, but for the value of `friendly_name`, one that is meant
(`Like`). For `tame` the reader may be astray inside a row, in the ways of `RowProofs`
(`Ahead`, `Stuck`): by the end of the line it has read the row or refused the text. What the labels of a peer say (`Entries`, `OwnLabels`) and that their names differ is
the last part, where `split` enters: allowed IPs are printed with commas and
slashes and cut again, and cutting what was glued gives the pieces (`NetsSplit`).

Induction. The library's induction theorems take an operator, which none of the
provers can instantiate. `Least` and `Induction` are the same for a set, from the
well-foundedness of `<` on the naturals; a fact about all sequences is proved by
making the set of the lengths for which it holds. Recursions (`FlattenSeq`, `Reading`,
`Split`) are recursive functions: that one exists follows from `FoldExists`, and its
equations determine it.

`ExporterProofs`. `OneByOneCorrect` and `ImplementsServerCorrect` come from
`InStep`: a scrape is on exactly while a connection is busy, and from the moment
wg was started the descriptors it needs stay free (`StartedWg`), because nothing
is accepted while a scrape is on. The second part is what the refinement needs:
`Server` allows a 200 only with descriptors to spare, and a scrape can succeed
only if it started wg. With the refinement `PromisesCorrect` carries the theorems
of `ServerProofs` over, by an instance of that module.

`NeverGoBackCorrect` uses `ScrapeProofs` as an instance:
two instances of `Scrape` over the same variables have the same actions (the
lemmas `Same...`), so that `IInv` is an invariant of the composition. `ToldBelow`
is added to it: what a client was told of a peer is at most what the kernel
counts now and, for a peer that has been there since the running scrape began,
at most what it counted then. A counter in the next response lies above the
latter by the window of `Scrape`.

`FreshCorrect` needs both `OnceCorrect`, so that a peer that stayed is in the
response at all, and the window, so that its counters are no older than the start
of the scrape. Between the request and that start stands `Asks`: there is a note
for every request that has not been answered (`Askings`), a peer in it has been
configured ever since it was written (`Kept`, `AskedDue`), with counters no larger
than now (`AskedBelow`), and the note of the request being answered is no younger
than the scrape (`AskedBeforeBegun`).

`CommandLineProofs`. `OptionsCorrect` and `EndsCorrect` come from `Inv`. While the
tokens are read the matches of an argument are the tokens between its flag and the
next one, as far as they have been read (`SeenValues`), it has been seen once
(`SeenOnce`), and the open argument is the one of the last flag (`OpenIsLast`). At
the end of the tokens that is what `Given` reads from the command line as a whole
(`ParsedGiven`). A refusal comes earlier, when only a prefix has been seen: that no
continuation would mend it is `StarvedIsMisused` for a missing value,
`StrayIsRefused` for one too many or not accepted, `UsedTwice` for a second use.
`EndsCorrect` is the safety half of `StartsUnlessMisused`; that the process gets to
one of its ends is left to TLC.

Every invariant, action property and refinement that a passing run checks is proved, with
one exception: of `StartsUnlessMisused` the safety half (`EndsCorrect`) is. Model-checked
only is liveness: `EveryRequestSettled`, `WaitingIsAccepted`, `HungUpIsClosed`, `Served`
and `StartsUnlessMisused`, since fairness and `ENABLED` are out of the prover's reach. What the
proofs take from the runs is that the `ASSUME`s have instances, and that the instances reach
the states the properties are about.

## 6. Not modelled

- `MetricInstance` timestamps: `prometheus_instance.rs` can write one, and no
  caller sets it. The states of the builder types: the compiler checks them.
- Log output and `RUST_LOG`, the help and version flags.
- The comparison of Basic credentials: one boolean (`creds`). `main` always
  starts the server without authorization (`main.rs:221`); the instances with
  `Password = TRUE` cover what `server.rs` offers and its tests use.
- The texts and variants of `exporter_error.rs`: that an error occurs, and that
  the request is answered with 500, is part of `Scrape` and `Server`; which error
  it was is only logged.
- Output of wg that is not UTF-8 and numbers that do not parse: wg prints neither.
- `Endpoint::Local` is parsed and never rendered; its key and port do not matter.
- `tests` modules, the Dockerfile, CI files and documents: no code of the running
  program.

## 7. What is left

1. That a dump of `all` and the dumps of every interface give one response when
   nothing changes: a refinement of `Scrape` by an atomic snapshot.
2. The comparison of credentials byte by byte, and the texts of errors.
