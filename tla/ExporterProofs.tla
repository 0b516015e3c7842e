---------------------------- MODULE ExporterProofs ----------------------------
(***************************************************************************)
(* Theorems about Exporter, for every set of clients, requests, interfaces *)
(* and keys, every command line and every number of descriptors: it        *)
(* implements Server, counters never go back from one response to the      *)
(* next, and a response reports every peer that has been there since its   *)
(* request was sent. The last two rest on the theorems about one scrape,   *)
(* which come in by an instance of ScrapeProofs.                           *)
(***************************************************************************)
EXTENDS Exporter, TLAPS, SequenceTheorems

(***************************************************************************)
(* The inductive invariant. What a response of status 200 needs is that    *)
(* the descriptors wg had are still free when it is made: no connection is *)
(* accepted while a scrape is on, and a scrape cannot succeed without      *)
(* having started wg, for it renders nothing before the second argument.   *)
(***************************************************************************)
StartedWg ==
  \/ pc \in {"dump", "render"}
  \/ pc = "spawn" /\ next # 1
  \/ pc = "answer" /\ outcome = "ok"

InStep ==
  /\ fds \in Int
  /\ pc = "idle" <=> busy = Nobody
  /\ pc \in {"idle", "read"} => next = 1
  /\ StartedWg => fds + ScrapeFds <= MaxFds

LEMMA InitInStep == Init => InStep
BY DEF Init, H!Init, P!Init, InStep, StartedWg

(* While a callback runs the server does not touch the descriptors.        *)
LEMMA EnvironmentStutters ==
  ASSUME P!Environment
  PROVE  UNCHANGED <<pc, outcome, next>>
BY DEF P!Environment, P!AddPeer, P!RemovePeer, P!ReplaceIps, P!Receive, P!Send, P!Handshake,
       P!AddInterface, P!DeleteInterface, P!EditFile, P!SetWg, P!Tick, P!StepBack, P!Disturb

LEMMA AsideKeepsStep ==
  ASSUME InStep, NEW c \in Clients, Send(c) \/ Aside(c)
  PROVE  InStep'
<1>1. UNCHANGED <<pc, outcome, next, busy>>
  BY DEF Send, Aside, H!Send, H!Connect, H!HangUp, H!Close, scrape
<1>2. CASE fds' = fds
  BY <1>1, <1>2 DEF InStep, StartedWg
<1>3. CASE busy = Nobody /\ fds' = fds - 1
  BY <1>1, <1>3 DEF InStep, StartedWg
<1> QED BY <1>2, <1>3 DEF Send, Aside, H!Send, H!Connect, H!HangUp, H!Close, H!Shut

LEMMA TakeKeepsStep ==
  ASSUME InStep, NEW c \in Clients, Take(c)
  PROVE  InStep'
<1>1. busy = Nobody /\ pc = "idle" /\ next = 1
  BY DEF Take, H!Take, InStep
<1>2. fds' \in Int
  BY DEF Take, H!Take, H!KeepOpen, H!AfterResponse, H!Shut, InStep
<1>3. CASE busy' = Nobody
  BY <1>1, <1>2, <1>3 DEF Take, scrape, InStep, StartedWg
<1>4. CASE busy' # Nobody
  BY <1>1, <1>2, <1>4 DEF Take, P!Begin, InStep, StartedWg
<1> QED BY <1>3, <1>4

LEMMA WorkKeepsStep ==
  ASSUME InStep, Work
  PROVE  InStep'
<1>1. UNCHANGED <<busy, fds>> /\ busy # Nobody /\ pc # "answer" /\ pc # "idle"
  BY DEF Work, server, InStep
<1>2. CASE Starved
  <2>1. pc' = "answer" /\ outcome' = "error"
    BY <1>2 DEF Work, P!End
  <2> QED BY <1>1, <2>1 DEF InStep, StartedWg
<1>3. CASE ~Starved
  <2>1. P!Step /\ ~P!Answer
    BY <1>1, <1>3 DEF Work, P!Answer
  <2>2. CASE P!ReadFile \/ P!ParseConfig
    <3>1. /\ pc = "read" /\ next' = next
          /\ (pc' \in {"read", "spawn"}) \/ (pc' = "answer" /\ outcome' # "ok")
      BY <2>2 DEF P!ReadFile, P!ParseConfig, P!End
    <3> QED BY <1>1, <3>1 DEF InStep, StartedWg
  <2>3. CASE P!Spawn
    <3>1. /\ pc = "spawn" /\ next <= Len(P!Targets) /\ next' = next
          /\ (pc' = "dump") \/ (pc' = "answer" /\ outcome' # "ok")
      BY <2>3 DEF P!Spawn, P!End
    <3>2. fds + ScrapeFds <= MaxFds
      BY <1>3, <3>1, ExporterConstants DEF Starved, InStep, H!ServerConstants
    <3> QED BY <1>1, <3>1, <3>2 DEF InStep, StartedWg
  <2>4. CASE P!DumpDevice
    BY <1>1, <2>4 DEF P!DumpDevice, InStep, StartedWg
  <2>5. CASE P!Collect
    <3>1. pc = "dump" /\ pc' \in {"spawn", "answer"}
      BY <2>5 DEF P!Collect, P!End
    <3> QED BY <1>1, <3>1 DEF InStep, StartedWg
  <2>6. CASE P!BeginRender
    <3>1. /\ pc = "spawn" /\ next' = next
          /\ (pc' = "answer" /\ outcome' # "ok") \/ (pc' = "render" /\ next # 1)
      BY <2>6 DEF P!BeginRender, P!End
    <3> QED BY <1>1, <3>1 DEF InStep, StartedWg
  <2>7. CASE P!RenderEndpoint \/ P!Finish
    <3>1. pc = "render" /\ pc' \in {"render", "answer"} /\ next' = next
      BY <2>7 DEF P!RenderEndpoint, P!Finish, P!End
    <3> QED BY <1>1, <3>1 DEF InStep, StartedWg
  <2> QED BY <2>1, <2>2, <2>3, <2>4, <2>5, <2>6, <2>7 DEF P!Step
<1> QED BY <1>2, <1>3

LEMMA NextInStep ==
  ASSUME InStep, [Next]_vars
  PROVE  InStep'
<1>1. CASE UNCHANGED vars
  BY <1>1 DEF vars, server, scrape, InStep, StartedWg
<1>2. CASE Accept
  <2>1. UNCHANGED <<pc, outcome, next, busy>> /\ busy = Nobody /\ fds' = fds + 1
    BY <1>2 DEF Accept, H!Accept, scrape
  <2> QED BY <2>1 DEF InStep, StartedWg
<1>3. CASE Work
  BY <1>3, WorkKeepsStep
<1>4. CASE Environment
  <2>1. UNCHANGED <<pc, outcome, next, busy, fds>>
    BY <1>4, EnvironmentStutters DEF Environment, server
  <2> QED BY <2>1 DEF InStep, StartedWg
<1>5. ASSUME NEW c \in Clients, Send(c) \/ Aside(c)
      PROVE  InStep'
  BY <1>5, AsideKeepsStep
<1>6. ASSUME NEW c \in Clients, Take(c)
      PROVE  InStep'
  BY <1>6, TakeKeepsStep
<1>7. ASSUME NEW c \in Clients, Reply(c)
      PROVE  InStep'
  <2>1. fds' \in Int
    BY <1>7 DEF Reply, H!Shut, H!AfterResponse, H!KeepOpen, InStep
  <2> QED BY <1>7, <2>1 DEF Reply, P!Answer, P!DropLocals, InStep, StartedWg
<1> QED BY <1>1, <1>2, <1>3, <1>4, <1>5, <1>6, <1>7 DEF Next

(* OneByOneCorrect: two scrapes never overlap, and one that runs wg has    *)
(* the descriptors for it, whatever the clients do to the accept loop      *)
(* (main.rs:51-65, server.rs:100).                                         *)
THEOREM OneByOneCorrect == Spec => []ScrapesOneByOne
<1>1. InStep => ScrapesOneByOne
  BY DEF InStep, StartedWg, ScrapesOneByOne
<1> QED BY <1>1, InitInStep, NextInStep, PTL DEF Spec

(***************************************************************************)
(* Every step of the exporter is a step of Server or a stutter: the work   *)
(* of a scrape is hidden, its end is one of the ways a callback can end.   *)
(***************************************************************************)
LEMMA ReplyIsCallback ==
  ASSUME InStep, NEW c \in Clients, Reply(c)
  PROVE  H!Callback(c)
<1>1. H!Done(c) /\ pc = "answer"
  BY DEF Reply, H!Done, P!Answer
<1>2. CASE outcome = "panic"
  BY <1>1, <1>2 DEF Reply, H!Callback, H!CallbackPanic
<1>3. CASE outcome = "ok"
  <2>1. fds + ScrapeFds <= MaxFds
    BY <1>1, <1>3 DEF InStep, StartedWg
  <2> QED BY <1>1, <1>3, <2>1 DEF Reply, H!Callback, H!CallbackOk
<1>4. CASE outcome # "panic" /\ outcome # "ok"
  BY <1>1, <1>4 DEF Reply, H!Callback, H!CallbackError
<1> QED BY <1>2, <1>3, <1>4

LEMMA StepIsServers ==
  ASSUME InStep, [Next]_vars
  PROVE  [H!Next]_H!vars
<1>1. CASE UNCHANGED server
  BY <1>1 DEF server, H!vars
<1>2. CASE Accept
  BY <1>2 DEF Accept, H!Next
<1>3. ASSUME NEW c \in Clients, Send(c) \/ Aside(c)
      PROVE  H!Next
  BY <1>3 DEF Send, Aside, H!Next, H!Client, H!Serve
<1>4. ASSUME NEW c \in Clients, Take(c)
      PROVE  H!Next
  BY <1>4 DEF Take, H!Next, H!Serve
<1>5. ASSUME NEW c \in Clients, Reply(c)
      PROVE  H!Next
  BY <1>5, ReplyIsCallback DEF H!Next
<1> QED BY <1>1, <1>2, <1>3, <1>4, <1>5 DEF Next, vars, Work, Environment

(* ImplementsServerCorrect: with real scrapes for callbacks the exporter   *)
(* implements Server, so that whatever Server promises its clients, one    *)
(* response per request in order and none from a callback that lacked its  *)
(* descriptors, the exporter promises (server.rs:80-175, main.rs:22-107).  *)
THEOREM ImplementsServerCorrect == Spec => ImplementsServer
<1>1. Init => H!Init
  BY DEF Init
<1> QED BY <1>1, InitInStep, NextInStep, StepIsServers, PTL DEF Spec, ImplementsServer, H!Spec

(***************************************************************************)
(* What is proved of Server holds of the exporter. SP is Server again,     *)
(* with its theorems.                                                      *)
(***************************************************************************)
SP == INSTANCE ServerProofs

LEMMA SameInit == H!Init <=> SP!Init
BY DEF H!Init, SP!Init

LEMMA SameStep == [H!Next]_H!vars <=> [SP!Next]_SP!vars
<1>1. UNCHANGED H!vars <=> UNCHANGED SP!vars
  BY DEF H!vars, SP!vars
<1>2. H!Accept <=> SP!Accept
  BY DEF H!Accept, SP!Accept, H!Room, SP!Room
<1>3. ASSUME NEW c \in Clients
      PROVE  /\ H!Client(c) <=> SP!Client(c)
             /\ H!Serve(c) <=> SP!Serve(c)
             /\ H!Callback(c) <=> SP!Callback(c)
  <2>1. H!Client(c) <=> SP!Client(c)
    BY DEF H!Client, SP!Client, H!Connect, SP!Connect, H!Send, SP!Send, H!HangUp, SP!HangUp
  <2>2. ASSUME NEW r
        PROVE  /\ H!Verdict(r) = SP!Verdict(r)
               /\ H!AfterResponse(c, r) <=> SP!AfterResponse(c, r)
    BY DEF H!Verdict, SP!Verdict, H!Authorized, SP!Authorized, H!AfterResponse,
           SP!AfterResponse, H!Shut, SP!Shut, H!KeepOpen, SP!KeepOpen
  <2>3. H!Take(c) <=> SP!Take(c)
    BY <2>2 DEF H!Take, SP!Take, H!KeepOpen, SP!KeepOpen
  <2>4. H!Close(c) <=> SP!Close(c)
    BY DEF H!Close, SP!Close, H!Shut, SP!Shut
  <2>5. H!Callback(c) <=> SP!Callback(c)
    BY <2>2 DEF H!Callback, SP!Callback, H!CallbackOk, SP!CallbackOk, H!CallbackError,
       SP!CallbackError, H!CallbackPanic, SP!CallbackPanic, H!Done, SP!Done, H!Shut, SP!Shut
  <2> QED BY <2>1, <2>3, <2>4, <2>5 DEF H!Serve, SP!Serve
<1>4. H!Next <=> SP!Next
  BY <1>2, <1>3 DEF H!Next, SP!Next
<1> QED BY <1>1, <1>4

(* PromisesCorrect: with scrapes for callbacks, every descriptor is        *)
(* accounted for and no response that is due is lost, however scrapes end  *)
(* and whatever the clients do meanwhile (server.rs:131-175).              *)
THEOREM PromisesCorrect == Spec => [](H!FdsAccounted /\ H!NoResponseLost)
<1>1. SP!ServerConstants
  BY ExporterConstants DEF H!ServerConstants, SP!ServerConstants, H!HTTP!RequestType,
     SP!HTTP!RequestType, H!IsFiniteSet, SP!IsFiniteSet
<1>2. SP!Spec => []SP!IInv
  BY <1>1, SP!Invariant
<1>3. SP!IInv => H!FdsAccounted
  BY DEF SP!IInv, SP!FdsAccounted, SP!Open, H!FdsAccounted, H!Open, SP!Cardinality, H!Cardinality
<1>4. SP!IInv => H!NoResponseLost
  BY DEF SP!IInv, SP!AnswersKeepUp, SP!Due, H!NoResponseLost, H!Open
<1>5. Spec => H!Spec
  BY ImplementsServerCorrect DEF ImplementsServer
<1>6. H!Spec => SP!Spec
  BY SameInit, SameStep, PTL DEF H!Spec, SP!Spec
<1> QED BY <1>2, <1>3, <1>4, <1>5, <1>6, PTL

(***************************************************************************)
(* That the counters a client sees never go back, however scrapes          *)
(* interleave with the kernel. It rests on the theorems about Scrape: SC   *)
(* is Scrape again, with its theorems.                                     *)
(***************************************************************************)
SC == INSTANCE ScrapeProofs

(***************************************************************************)
(* The two instances of Scrape are the same specification.                 *)
(***************************************************************************)
LEMMA SameConstants == SC!ConstantsType
BY ExporterConstants DEF P!ConstantsType, SC!ConstantsType, P!Peers, SC!Peers, P!AllowedIps,
   SC!AllowedIps, P!All, SC!All, P!Lines, SC!Lines, P!JsonValues, SC!JsonValues, P!Options,
   SC!Options, P!EnvStates, SC!EnvStates, P!Statuses, SC!Statuses, P!IsFiniteSet, SC!IsFiniteSet

LEMMA SameStart == P!Init <=> SC!Init
BY DEF
        P!Init, SC!Init, P!NoText, SC!NoText, P!NoTable, SC!NoTable, P!NoDescription,
        SC!NoDescription, P!NoEndpoints, SC!NoEndpoints, P!NoBody, SC!NoBody,
        P!NothingHeld, SC!NothingHeld,
        P!Families, SC!Families

LEMMA SameBegin == P!Begin <=> SC!Begin
BY DEF
        P!Begin, SC!Begin, P!Present, SC!Present, P!Conditions, SC!Conditions,
        P!Statuses, SC!Statuses, P!env, SC!env, P!reading, SC!reading

LEMMA SameWork == P!Step <=> SC!Step
<1>1. P!ReadFile <=> SC!ReadFile
  BY DEF
        P!ReadFile, SC!ReadFile, P!End, SC!End, P!Join, SC!Join, P!env, SC!env,
        P!history, SC!history
<1>2. P!ParseConfig <=> SC!ParseConfig
  BY DEF
        P!ParseConfig, SC!ParseConfig, P!ParseOutcome, SC!ParseOutcome, P!Blocks,
        SC!Blocks, P!EntryOutcome, SC!EntryOutcome, P!Block, SC!Block, P!IsHeader,
        SC!IsHeader, P!Stops, SC!Stops, P!Min, SC!Min, P!LastValue, SC!LastValue,
        P!Tagged, SC!Tagged, P!Max, SC!Max, P!PeerEntryHashMap, SC!PeerEntryHashMap,
        P!NoDescription, SC!NoDescription, P!Description, SC!Description, P!End, SC!End,
        P!env, SC!env, P!history, SC!history
<1>3. P!Spawn <=> SC!Spawn
  BY DEF
        P!Spawn, SC!Spawn, P!Targets, SC!Targets, P!All, SC!All, P!End, SC!End,
        P!Devices, SC!Devices, P!env, SC!env, P!reading, SC!reading, P!history,
        SC!history
<1>4. P!DumpDevice <=> SC!DumpDevice
  BY DEF
        P!DumpDevice, SC!DumpDevice, P!SetToSeqs, SC!SetToSeqs, P!Cardinality,
        SC!Cardinality, P!PeersOf, SC!PeersOf, P!Local, SC!Local, P!env, SC!env,
        P!reading, SC!reading, P!history, SC!history
<1>5. P!Collect <=> SC!Collect
  BY DEF
        P!Collect, SC!Collect, P!NoEndpoints, SC!NoEndpoints, P!NamesInFront,
        SC!NamesInFront, P!All, SC!All, P!Inject, SC!Inject, P!Targets, SC!Targets,
        P!End, SC!End, P!Merge, SC!Merge, P!env, SC!env, P!reading, SC!reading,
        P!history, SC!history
<1>6. P!BeginRender <=> SC!BeginRender
  BY DEF
        P!BeginRender, SC!BeginRender, P!Targets, SC!Targets, P!All, SC!All, P!End,
        SC!End, P!env, SC!env, P!reading, SC!reading, P!history, SC!history
<1>7. P!RenderEndpoint <=> SC!RenderEndpoint
  BY DEF
        P!RenderEndpoint, SC!RenderEndpoint, P!Pending, SC!Pending, P!NextInterface,
        SC!NextInterface, P!Min, SC!Min, P!Local, SC!Local, P!RenderPanics,
        SC!RenderPanics, P!End, SC!End, P!Families, SC!Families, P!Exported,
        SC!Exported, P!Value, SC!Value, P!env, SC!env, P!reading, SC!reading, P!history,
        SC!history
<1>8. P!Finish <=> SC!Finish
  BY DEF
        P!Finish, SC!Finish, P!Pending, SC!Pending, P!End, SC!End, P!env, SC!env,
        P!reading, SC!reading, P!history, SC!history
<1>9. P!Answer <=> SC!Answer
  BY DEF
        P!Answer, SC!Answer, P!DropLocals, SC!DropLocals, P!NoText, SC!NoText,
        P!NoTable, SC!NoTable, P!NoDescription, SC!NoDescription, P!NoEndpoints,
        SC!NoEndpoints, P!NoBody, SC!NoBody, P!NothingHeld, SC!NothingHeld,
        P!Families, SC!Families, P!env, SC!env
<1> QED BY <1>1, <1>2, <1>3, <1>4, <1>5, <1>6, <1>7, <1>8, <1>9 DEF P!Step, SC!Step

LEMMA SameEnvironment == P!Environment <=> SC!Environment
BY DEF
        P!Environment, SC!Environment, P!AddPeer, SC!AddPeer, P!AllowedIps,
        SC!AllowedIps, P!SetPeer, SC!SetPeer, P!Disturb, SC!Disturb, P!Observe,
        SC!Observe, P!history, SC!history, P!Present, SC!Present, P!Conditions,
        SC!Conditions, P!Statuses, SC!Statuses, P!reading, SC!reading, P!RemovePeer,
        SC!RemovePeer, P!ReplaceIps, SC!ReplaceIps, P!Receive, SC!Receive, P!Send,
        SC!Send, P!Handshake, SC!Handshake, P!AddInterface, SC!AddInterface,
        P!DeleteInterface, SC!DeleteInterface, P!EditFile, SC!EditFile, P!SetWg,
        SC!SetWg, P!Tick, SC!Tick, P!StepBack, SC!StepBack

LEMMA ScrapeAssumptions == SC!ConstantsType /\ SC!EmptyIsNoValue
BY SameConstants, ExporterConstants DEF P!EmptyIsNoValue, SC!EmptyIsNoValue

(* The window invariant of Scrape survives every step of the exporter: a   *)
(* scrape that finds no descriptor ends as any failed scrape does.         *)
LEMMA WindowKept ==
  ASSUME SC!IInv, [Next]_vars
  PROVE  SC!IInv'
<1>1. CASE [SC!Next]_SC!vars
  BY <1>1, ScrapeAssumptions, SC!NextWindow
<1>2. CASE UNCHANGED scrape
  <2>1. UNCHANGED SC!vars
    BY <1>2 DEF scrape, SC!vars, SC!env, SC!reading, SC!history
  <2> QED BY <2>1, <1>1
<1>3. CASE Work /\ Starved
  <2>1. pc' = "answer" /\ outcome' = "error"
    BY <1>3 DEF Work, P!End
  <2>2. UNCHANGED <<options, up, kernel, files, wg, now, events, fileNo, text, table,
                    next, devs, stdout, acc, body, begun, stable, met, noted,
                    held, dumped>>
    BY <1>3 DEF Work
  <2>3. SC!TypeOK'
    BY <2>1, <2>2 DEF SC!IInv, SC!TypeOK
  <2>4. SC!IdleIsClean' /\ SC!StablePeersGrow'
    BY <2>1, <2>2 DEF SC!IInv, SC!IdleIsClean, SC!StablePeersGrow, SC!Between
  <2>5. SC!InWindow(stdout)' /\ SC!InWindow(acc)'
    BY <2>2 DEF SC!IInv, SC!InWindow, SC!Between, SC!Local
  <2>6. SC!CountersInWindow'
    BY <2>2 DEF SC!IInv, SC!CountersInWindow, SC!Counter
  <2> QED BY <2>3, <2>4, <2>5, <2>6 DEF SC!IInv
<1>4. CASE Work /\ ~Starved
  <2>1. SC!Step
    BY <1>4, SameWork DEF Work
  <2> QED BY <2>1, <1>1 DEF SC!Next
<1>5. CASE Environment
  BY <1>5, <1>1, SameEnvironment DEF Environment, SC!Next
<1>6. ASSUME NEW c \in Clients, Take(c)
      PROVE  SC!IInv'
  BY <1>6, <1>1, <1>2, SameBegin DEF Take, SC!Next
<1>7. ASSUME NEW c \in Clients, Reply(c)
      PROVE  SC!IInv'
  <2>1. P!Step
    BY <1>7 DEF Reply, P!Step
  <2> QED BY <2>1, <1>1, SameWork DEF SC!Next
<1>8. CASE UNCHANGED vars
  BY <1>8, <1>2 DEF vars
<1> QED BY <1>2, <1>3, <1>4, <1>5, <1>6, <1>7, <1>8 DEF Next, Accept, Send, Aside

(***************************************************************************)
(* The inductive invariant: what a client was told of a peer is below what *)
(* the kernel counts now and, for a peer that was there when the running   *)
(* scrape began, below what the kernel counted then.                       *)
(***************************************************************************)
ToldBelow ==
  \A i \in Interfaces, k \in Keys : served[<<i, k>>] # Unset =>
    /\ kernel[i][k] \in SC!Peers
    /\ \A f \in {"sent", "received"} :
         /\ served[<<i, k>>][f] \in Nat
         /\ served[<<i, k>>][f] <= SC!Counter(kernel[i][k], f)
         /\ <<i, k>> \in stable => served[<<i, k>>][f] <= SC!Counter(begun.kernel[i][k], f)

Told == SC!IInv /\ ToldBelow

LEMMA InitTold == Init => Told
<1> SUFFICES ASSUME Init PROVE Told
  OBVIOUS
<1>1. SC!IInv
  BY ScrapeAssumptions, SameStart, SC!InitWindow DEF Init
<1>2. ToldBelow
  BY DEF Init, ToldBelow
<1> QED BY <1>1, <1>2 DEF Told

(* A step that leaves the kernel, the history of the scrape and what was   *)
(* told alone.                                                             *)
LEMMA FrameKeepsTold ==
  ASSUME ToldBelow, UNCHANGED <<kernel, begun, stable, served>>
  PROVE  ToldBelow'
BY DEF ToldBelow

LEMMA BeginKeepsTold ==
  ASSUME ToldBelow, P!Begin, UNCHANGED served
  PROVE  ToldBelow'
<1>1. kernel' = kernel /\ begun'.kernel = kernel
  BY DEF P!Begin, P!env
<1> QED BY <1>1 DEF ToldBelow

(* Only a peer that is there before and after the step keeps what was told *)
(* of it, and such a peer's counters have not gone back.                   *)
LEMMA EnvironmentKeepsTold ==
  ASSUME Told, Environment
  PROVE  ToldBelow'
<1>1. SC!EnvEffect
  BY ScrapeAssumptions, SameEnvironment, SC!EnvironmentGrows DEF Told, SC!IInv, Environment
<1>2. PICK marks, kind : SC!Disturb(kind, marks)
  BY <1>1 DEF SC!EnvEffect
<1>3. stable' \subseteq stable /\ begun' = begun
  BY <1>2 DEF SC!Disturb, SC!Observe, SC!history
<1>4. \A i \in Interfaces, k \in Keys : served'[<<i, k>>] # Unset =>
        kernel'[i][k] # NoPeer /\ served'[<<i, k>>] = served[<<i, k>>]
  BY DEF Environment, P!Present
<1>5. ASSUME NEW i \in Interfaces, NEW k \in Keys, served'[<<i, k>>] # Unset
      PROVE  /\ kernel'[i][k] \in SC!Peers /\ kernel[i][k] \in SC!Peers
             /\ SC!Grows(kernel[i][k], kernel'[i][k])
  <2>1. kernel'[i][k] # NoPeer /\ kernel[i][k] \in SC!Peers
    BY <1>4, <1>5 DEF Told, ToldBelow
  <2>2. kernel'[i][k] \in SC!Peers /\ kernel[i][k] # NoPeer
    BY <1>1, <2>1, ScrapeAssumptions DEF SC!EnvEffect, SC!ConstantsType
  <2> QED BY <1>1, <2>1, <2>2 DEF SC!EnvEffect
<1>6. ASSUME NEW i \in Interfaces, NEW k \in Keys, served'[<<i, k>>] # Unset,
             NEW f \in {"sent", "received"}
      PROVE  /\ served'[<<i, k>>][f] \in Nat
             /\ served'[<<i, k>>][f] <= SC!Counter(kernel'[i][k], f)
             /\ <<i, k>> \in stable' =>
                  served'[<<i, k>>][f] <= SC!Counter(begun'.kernel[i][k], f)
  <2>1. /\ served[<<i, k>>][f] \in Nat
        /\ served[<<i, k>>][f] <= SC!Counter(kernel[i][k], f)
        /\ <<i, k>> \in stable => served[<<i, k>>][f] <= SC!Counter(begun.kernel[i][k], f)
    BY <1>4, <1>6 DEF Told, ToldBelow
  <2>2. /\ SC!Counter(kernel[i][k], f) \in Nat /\ SC!Counter(kernel'[i][k], f) \in Nat
        /\ SC!Counter(kernel[i][k], f) <= SC!Counter(kernel'[i][k], f)
    BY <1>5, <1>6 DEF SC!Counter, SC!Grows, SC!Peers
  <2>3. \A told, before, after \in Nat : told <= before /\ before <= after => told <= after
    OBVIOUS
  <2>4. served'[<<i, k>>][f] <= SC!Counter(kernel'[i][k], f)
    BY <1>4, <1>6, <2>1, <2>2, <2>3
  <2> QED BY <1>3, <1>4, <1>6, <2>1, <2>4
<1> QED BY <1>5, <1>6 DEF ToldBelow

(* A row is a sample, and its value is within the window when its peer was *)
(* there all along.                                                        *)
LEMMA RowInWindow ==
  ASSUME SC!IInv, NEW f \in {"sent", "received"}, NEW n \in DOMAIN body[f],
         <<body[f][n].iface, body[f][n].key>> \in stable
  PROVE  LET i == body[f][n].iface
             k == body[f][n].key
         IN  /\ i \in Interfaces /\ k \in Keys /\ body[f][n].value \in Nat
             /\ kernel[i][k] \in SC!Peers /\ begun.kernel[i][k] \in SC!Peers
             /\ SC!Counter(begun.kernel[i][k], f) <= body[f][n].value
             /\ body[f][n].value <= SC!Counter(kernel[i][k], f)
<1>1. body[f][n] \in SC!Samples
  <2>1. body[f] \in Seq(SC!Samples)
    BY DEF SC!IInv, SC!TypeOK, SC!Families
  <2> QED BY <2>1
<1>2. /\ body[f][n].iface \in Interfaces /\ body[f][n].key \in Keys
      /\ body[f][n].value \in Nat
  BY <1>1 DEF SC!Samples
<1> QED BY <1>2 DEF SC!IInv, SC!StablePeersGrow, SC!CountersInWindow

(* The greatest of the values of a peer's rows is the value of one.        *)
LEMMA GreatestIsARow ==
  ASSUME NEW p, NEW f, Rows(p, f) # {}, NEW top \in Nat,
         \A n \in Rows(p, f) : body[f][n].value \in Nat /\ body[f][n].value <= top
  PROVE  \E n \in Rows(p, f) : Greatest(p, f) = body[f][n].value
<1> DEFINE V == {body[f][n].value : n \in Rows(p, f)}
           D == {d \in 0 .. top : top - d \in V}
<1>1. V \in SUBSET Nat /\ V # {} /\ \A v \in V : v <= top
  OBVIOUS
<1>2. D \in SUBSET Nat /\ D # {}
  <2>1. PICK v \in V : v \in Nat /\ v <= top
    BY <1>1
  <2>2. top - v \in 0 .. top /\ top - (top - v) = v
    BY <2>1
  <2>3. D \in SUBSET Nat
    OBVIOUS
  <2>4. top - v \in D
    BY <2>1, <2>2
  <2> QED BY <2>3, <2>4
<1>3. PICK d \in D : \A e \in D : d <= e
  <2> HIDE DEF D
  <2> QED BY <1>2, ScrapeAssumptions, SC!MinOfNaturals
<1>4. PICK v \in V : v = top - d
  OBVIOUS
<1>5. \A u \in V : u <= v
  <2> TAKE u \in V
  <2>1. u \in Nat /\ u <= top
    BY <1>1
  <2>2. top - u \in 0 .. top /\ top - (top - u) = u /\ d \in 0 .. top
    BY <2>1
  <2>3. d <= top - u
    BY <1>3, <2>2
  <2> HIDE DEF V, D
  <2> QED BY <1>4, <2>1, <2>2, <2>3
<1>6. Greatest(p, f) = CHOOSE u \in V : \A n \in Rows(p, f) : body[f][n].value <= u
  BY DEF Greatest
<1>7. \A n \in Rows(p, f) : body[f][n].value <= v
  BY <1>5
<1>8. Greatest(p, f) \in V
  <2> HIDE DEF V
  <2> QED BY <1>4, <1>6, <1>7
<1> QED BY <1>8

LEMMA ReplyKeepsTold ==
  ASSUME Told, NEW c \in Clients, Reply(c)
  PROVE  ToldBelow'
<1>1. kernel' = kernel /\ stable' = {}
  BY DEF Reply, P!Answer, P!env
<1>2. CASE outcome # "ok"
  BY <1>1, <1>2 DEF Reply, Told, ToldBelow
<1>3. CASE outcome = "ok"
  <2>1. ASSUME NEW i \in Interfaces, NEW k \in Keys
        PROVE  served'[<<i, k>>] = IF <<i, k>> \in Sampled THEN Counters(<<i, k>>)
                                   ELSE served[<<i, k>>]
    BY <1>3 DEF Reply
  <2>2. ASSUME NEW i \in Interfaces, NEW k \in Keys, <<i, k>> \in Sampled,
               NEW f \in {"sent", "received"}
        PROVE  /\ kernel[i][k] \in SC!Peers
               /\ Counters(<<i, k>>)[f] \in Nat
               /\ Counters(<<i, k>>)[f] <= SC!Counter(kernel[i][k], f)
    <3> DEFINE p == <<i, k>>
    <3>1. p \in stable /\ Rows(p, f) # {}
      BY <2>2 DEF Sampled
    <3>2. ASSUME NEW n \in Rows(p, f)
          PROVE  /\ body[f][n].value \in Nat /\ kernel[i][k] \in SC!Peers
                 /\ body[f][n].value <= SC!Counter(kernel[i][k], f)
      <4>1. n \in DOMAIN body[f] /\ body[f][n].iface = i /\ body[f][n].key = k
        BY DEF Rows
      <4> QED BY <3>1, <4>1, RowInWindow DEF Told
    <3>3. kernel[i][k] \in SC!Peers
      BY <3>1, <3>2
    <3>4. SC!Counter(kernel[i][k], f) \in Nat
      BY <3>3 DEF SC!Counter, SC!Peers
    <3>5. PICK n \in Rows(p, f) : Greatest(p, f) = body[f][n].value
      BY <3>1, <3>2, <3>4, GreatestIsARow
    <3>6. Counters(p)[f] = Greatest(p, f)
      BY DEF Counters
    <3> QED BY <3>2, <3>3, <3>5, <3>6
  <2> QED BY <1>1, <2>1, <2>2 DEF Told, ToldBelow
<1> QED BY <1>2, <1>3

LEMMA NextTold ==
  ASSUME Told, [Next]_vars
  PROVE  Told'
<1>1. SC!IInv'
  BY WindowKept DEF Told
<1>2. CASE UNCHANGED <<kernel, begun, stable, served>>
  BY <1>1, <1>2, FrameKeepsTold DEF Told
<1>3. CASE Work
  <2>1. UNCHANGED <<kernel, begun, stable>>
    <3>1. CASE Starved
      BY <1>3, <3>1 DEF Work
    <3>2. CASE ~Starved
      <4>1. SC!Step /\ ~SC!Answer
        BY <1>3, <3>2, SameWork DEF Work, SC!Answer
      <4> QED BY <4>1, ScrapeAssumptions, SC!StepFrame DEF SC!Frame
    <3> QED BY <3>1, <3>2
  <2> QED BY <1>2, <1>3, <2>1 DEF Work
<1>4. CASE Environment
  BY <1>1, <1>4, EnvironmentKeepsTold DEF Told
<1>5. ASSUME NEW c \in Clients, Take(c)
      PROVE  Told'
  BY <1>1, <1>2, <1>5, BeginKeepsTold DEF Take, scrape, Told
<1>6. ASSUME NEW c \in Clients, Reply(c)
      PROVE  Told'
  BY <1>1, <1>6, ReplyKeepsTold DEF Told
<1>7. CASE UNCHANGED vars
  BY <1>2, <1>7 DEF vars, scrape
<1>8. CASE UNCHANGED <<scrape, served>>
  BY <1>2, <1>8 DEF scrape
<1> QED BY <1>3, <1>4, <1>5, <1>6, <1>7, <1>8 DEF Next, Accept, Send, Aside

LEMMA ToldIsBelow ==
  ASSUME Told, NEW f \in {"sent", "received"}, NEW n \in DOMAIN body[f],
         <<body[f][n].iface, body[f][n].key>> \in stable,
         served[<<body[f][n].iface, body[f][n].key>>] # Unset
  PROVE  body[f][n].value >= served[<<body[f][n].iface, body[f][n].key>>][f]
<1> DEFINE i == body[f][n].iface
           k == body[f][n].key
           told == served[<<i, k>>][f]
           v == body[f][n].value
           low == SC!Counter(begun.kernel[i][k], f)
<1>1. /\ i \in Interfaces /\ k \in Keys /\ v \in Nat /\ begun.kernel[i][k] \in SC!Peers
      /\ low <= v
  BY RowInWindow DEF Told
<1>2. told \in Nat /\ told <= low
  BY <1>1 DEF Told, ToldBelow
<1>3. low \in Nat
  BY <1>1 DEF SC!Counter, SC!Peers
<1> HIDE DEF told, v, low
<1>4. v >= told
  BY <1>1, <1>2, <1>3
<1> QED BY <1>4 DEF told, v

(* NeverGoBackCorrect: over successive responses, to whatever clients, the *)
(* transfer counters of a peer that stays configured never decrease, while *)
(* connections, scrapes and the kernel interleave as they like and scrapes *)
(* fail at any point in between (main.rs:49-103, wireguard.rs:329-335).    *)
THEOREM NeverGoBackCorrect == Spec => CountersNeverGoBack
<1>1. Told => [\A c \in Clients : (busy = c /\ busy' = Nobody /\ outcome = "ok") =>
        \A f \in {"sent", "received"} : \A n \in DOMAIN body[f] :
          LET p == <<body[f][n].iface, body[f][n].key>>
          IN  p \in stable /\ served[p] # Unset => body[f][n].value >= served[p][f]]_vars
  BY ToldIsBelow
<1> QED BY <1>1, InitTold, NextTold, PTL DEF Spec, CountersNeverGoBack

(***************************************************************************)
(* That a response is about the time since its request was sent. It rests  *)
(* on the theorem that a scrape reports every stable peer once.            *)
(***************************************************************************)

(* The counting invariant of Scrape survives every step of the exporter:   *)
(* it says nothing of a scrape that has failed.                            *)
LEMMA OnceKept ==
  ASSUME SC!OnceInv, [Next]_vars
  PROVE  SC!OnceInv'
<1>1. CASE [SC!Next]_SC!vars
  BY <1>1, ScrapeAssumptions, SC!NextOnce
<1>2. CASE UNCHANGED scrape
  <2>1. UNCHANGED SC!vars
    BY <1>2 DEF scrape, SC!vars, SC!env, SC!reading, SC!history
  <2> QED BY <2>1, <1>1
<1>3. CASE Work /\ Starved
  <2>1. pc' = "answer" /\ outcome' = "error" /\ pc \in {"read", "spawn"}
    BY <1>3 DEF Work, Starved, P!End
  <2>2. UNCHANGED <<options, up, kernel, files, wg, now, events, fileNo, text, table,
                    next, devs, stdout, acc, body, begun, stable, met, noted,
                    held, dumped>>
    BY <1>3 DEF Work
  <2>3. SC!TypeOK'
    BY <2>1, <2>2 DEF SC!OnceInv, SC!Base, SC!TypeOK
  <2>4. SC!Resting' /\ SC!Watched'
    BY <2>1, <2>2 DEF SC!OnceInv, SC!Base, SC!Resting, SC!Watched, SC!Present, SC!Conditions
  <2>5. SC!PeersOnUp' /\ SC!StablePresent'
    BY <2>1, <2>2 DEF SC!OnceInv, SC!PeersOnUp, SC!StablePresent, SC!Present
  <2>6. SC!Phases'
    BY <2>1, <2>2 DEF SC!OnceInv, SC!Phases, SC!NoEndpoints
  <2>7. SC!Counted'
    BY <2>1 DEF SC!Counted, SC!Alive
  <2> QED BY <2>3, <2>4, <2>5, <2>6, <2>7 DEF SC!OnceInv, SC!Base
<1>4. CASE Work /\ ~Starved
  <2>1. SC!Step
    BY <1>4, SameWork DEF Work
  <2> QED BY <2>1, <1>1 DEF SC!Next
<1>5. CASE Environment
  BY <1>5, <1>1, SameEnvironment DEF Environment, SC!Next
<1>6. ASSUME NEW c \in Clients, Take(c)
      PROVE  SC!OnceInv'
  BY <1>6, <1>1, <1>2, SameBegin DEF Take, SC!Next
<1>7. ASSUME NEW c \in Clients, Reply(c)
      PROVE  SC!OnceInv'
  <2>1. P!Step
    BY <1>7 DEF Reply, P!Step
  <2> QED BY <2>1, <1>1, SameWork DEF SC!Next
<1>8. CASE UNCHANGED vars
  BY <1>8, <1>2 DEF vars
<1> QED BY <1>2, <1>3, <1>4, <1>5, <1>6, <1>7, <1>8 DEF Next, Accept, Send, Aside

(***************************************************************************)
(* The inductive invariant: asked holds one entry for each request that    *)
(* has no response yet, the one a scrape is on for in front; a peer that   *)
(* is still there since a request was sent counts no less now and, for the *)
(* request in front, was there and counted no less when the scrape began.  *)
(***************************************************************************)
Askings == [kernel : [Interfaces -> [Keys -> SC!Peers \cup {NoPeer}]],
            still : SUBSET (Interfaces \X Keys)]

Kept(old, new, i, k) ==
  old[i][k] \in SC!Peers /\ new[i][k] \in SC!Peers /\ SC!Grows(old[i][k], new[i][k])

AskedDue ==
  /\ sent \in [Clients -> Seq(Requests)]
  /\ taken \in [Clients -> Nat]
  /\ asked \in [Clients -> Seq(Askings)]
  /\ \A c \in Clients :
       /\ taken[c] <= Len(sent[c])
       /\ Len(asked[c]) = Len(sent[c]) - taken[c] + (IF busy = c THEN 1 ELSE 0)
AskedBelow ==
  \A c \in Clients : \A n \in 1 .. Len(asked[c]) : \A i \in Interfaces, k \in Keys :
    <<i, k>> \in asked[c][n].still => Kept(asked[c][n].kernel, kernel, i, k)
AskedBeforeBegun ==
  \A c \in Clients : busy = c => \A i \in Interfaces, k \in Keys :
    <<i, k>> \in asked[c][1].still =>
      <<i, k>> \in stable /\ Kept(asked[c][1].kernel, begun.kernel, i, k)

Asks == AskedDue /\ AskedBelow /\ AskedBeforeBegun

(* Requests that are due can be counted.                                   *)
LEMMA AsksType ==
  ASSUME AskedDue, NEW c \in Clients
  PROVE  /\ asked[c] \in Seq(Askings) /\ sent[c] \in Seq(Requests)
         /\ Len(asked[c]) \in Nat /\ Len(sent[c]) \in Nat /\ taken[c] \in Nat
         /\ DOMAIN asked[c] = 1 .. Len(asked[c])
         /\ \A n \in 1 .. Len(asked[c]) : asked[c][n] \in Askings
         /\ (busy = c \/ taken[c] < Len(sent[c])) => 1 \in 1 .. Len(asked[c])
<1>1. asked[c] \in Seq(Askings) /\ sent[c] \in Seq(Requests) /\ taken[c] \in Nat
  BY DEF AskedDue
<1>2. /\ Len(asked[c]) \in Nat /\ Len(sent[c]) \in Nat
      /\ DOMAIN asked[c] = 1 .. Len(asked[c])
  BY <1>1, LenProperties
<1>3. \A n \in 1 .. Len(asked[c]) : asked[c][n] \in Askings
  BY <1>1, ElementOfSeq
<1>4. (busy = c \/ taken[c] < Len(sent[c])) => Len(asked[c]) >= 1
  BY <1>1, <1>2 DEF AskedDue
<1> QED BY <1>1, <1>2, <1>3, <1>4

(* A step that none of it is about.                                        *)
LEMMA FrameKeepsAsks ==
  ASSUME Asks, UNCHANGED <<kernel, begun, stable, sent, taken, busy, asked>>
  PROVE  Asks'
BY DEF Asks, AskedDue, AskedBelow, AskedBeforeBegun, Kept

(* A peer that the kernel has counts no less than itself.                  *)
LEMMA PresentKept ==
  ASSUME SC!TypeOK, NEW i \in Interfaces, NEW k \in Keys, <<i, k>> \in P!Present
  PROVE  Kept(kernel, kernel, i, k)
<1>1. kernel[i][k] \in SC!Peers
  BY DEF SC!TypeOK, P!Present
<1>2. SC!Grows(kernel[i][k], kernel[i][k])
  BY <1>1 DEF SC!Grows, SC!Peers
<1> QED BY <1>1, <1>2 DEF Kept

LEMMA SendKeepsAsks ==
  ASSUME Asks, SC!TypeOK, NEW c \in Clients, Send(c)
  PROVE  Asks'
<1> DEFINE x == [kernel |-> kernel, still |-> P!Present]
<1>1. x \in Askings
  <2>1. P!Present \subseteq Interfaces \X Keys
    BY DEF P!Present
  <2> QED BY <2>1 DEF Askings, SC!TypeOK
<1>2. /\ UNCHANGED <<kernel, begun, stable, taken, busy>>
      /\ asked' = [asked EXCEPT ![c] = Append(@, x)]
  BY DEF Send, H!Send, scrape
<1>3. PICK r \in Requests : sent' = [sent EXCEPT ![c] = Append(@, r)]
  BY DEF Send, H!Send
<1> HIDE DEF x
<1>4. /\ asked'[c] \in Seq(Askings) /\ Len(asked'[c]) = Len(asked[c]) + 1
      /\ asked'[c][Len(asked[c]) + 1] = x
      /\ \A n \in 1 .. Len(asked[c]) : asked'[c][n] = asked[c][n]
      /\ sent'[c] \in Seq(Requests) /\ Len(sent'[c]) = Len(sent[c]) + 1
  <2>1. asked'[c] = Append(asked[c], x) /\ sent'[c] = Append(sent[c], r)
    BY <1>2, <1>3 DEF Asks, AskedDue
  <2> QED BY <1>1, <2>1, AsksType, AppendProperties DEF Asks
<1>5. \A d \in Clients \ {c} : asked'[d] = asked[d] /\ sent'[d] = sent[d]
  BY <1>2, <1>3 DEF Asks, AskedDue
<1>6. AskedDue'
  <2>1. sent' \in [Clients -> Seq(Requests)] /\ asked' \in [Clients -> Seq(Askings)]
    BY <1>2, <1>3, <1>4 DEF Asks, AskedDue
  <2>2. ASSUME NEW d \in Clients
        PROVE  /\ taken[d] <= Len(sent'[d])
               /\ Len(asked'[d]) = Len(sent'[d]) - taken[d] + (IF busy = d THEN 1 ELSE 0)
    <3>1. CASE d = c
      <4>1. /\ taken[c] \in Nat /\ Len(sent[c]) \in Nat /\ taken[c] <= Len(sent[c])
            /\ Len(asked[c]) = Len(sent[c]) - taken[c] + (IF busy = c THEN 1 ELSE 0)
        BY AsksType DEF Asks, AskedDue
      <4>2. Len(sent'[c]) = Len(sent[c]) + 1 /\ Len(asked'[c]) = Len(asked[c]) + 1
        BY <1>4
      <4> QED BY <3>1, <4>1, <4>2
    <3>2. CASE d # c
      BY <1>5, <3>2 DEF Asks, AskedDue
    <3> QED BY <3>1, <3>2
  <2> QED BY <1>2, <2>1, <2>2 DEF Asks, AskedDue
<1>7. AskedBelow'
  <2> SUFFICES ASSUME NEW d \in Clients, NEW n \in 1 .. Len(asked'[d]),
                      NEW i \in Interfaces, NEW k \in Keys, <<i, k>> \in asked'[d][n].still
               PROVE  Kept(asked'[d][n].kernel, kernel, i, k)
    BY <1>2 DEF AskedBelow, Kept
  <2>1. CASE n \in 1 .. Len(asked[d]) /\ asked'[d][n] = asked[d][n]
    BY <2>1 DEF Asks, AskedBelow
  <2>2. CASE d = c /\ n = Len(asked[c]) + 1
    <3>1. asked'[d][n] = x
      BY <1>4, <2>2
    <3> QED BY <3>1, PresentKept DEF x
  <2>3. CASE d = c /\ n # Len(asked[c]) + 1
    <3>1. n \in 1 .. Len(asked[c])
      BY <1>4, <2>3, AsksType DEF Asks
    <3> QED BY <1>4, <2>1, <2>3, <3>1
  <2>4. CASE d # c
    BY <1>5, <2>1, <2>4
  <2> QED BY <2>2, <2>3, <2>4
<1>8. AskedBeforeBegun'
  <2> SUFFICES ASSUME NEW d \in Clients, busy = d
               PROVE  asked'[d][1] = asked[d][1]
    BY <1>2 DEF Asks, AskedBeforeBegun, Kept
  <2> QED BY <1>4, <1>5, AsksType DEF Asks
<1> QED BY <1>6, <1>7, <1>8 DEF Asks

(* Dropping the first entry of asked, for a request that has its response. *)
LEMMA TailOfAsked ==
  ASSUME AskedDue, NEW c \in Clients, 1 \in 1 .. Len(asked[c])
  PROVE  /\ Tail(asked[c]) \in Seq(Askings) /\ Len(Tail(asked[c])) = Len(asked[c]) - 1
         /\ \A n \in 1 .. Len(Tail(asked[c])) :
              n + 1 \in 1 .. Len(asked[c]) /\ Tail(asked[c])[n] = asked[c][n + 1]
         /\ Head(asked[c]) = asked[c][1]
<1>1. asked[c] \in Seq(Askings) /\ asked[c] # <<>> /\ Len(asked[c]) \in Nat
  <2>1. asked[c] \in Seq(Askings) /\ Len(asked[c]) \in Nat
    BY AsksType
  <2>2. Len(asked[c]) # 0
    BY <2>1
  <2> QED BY <2>1, <2>2, EmptySeq
<1>2. /\ Tail(asked[c]) \in Seq(Askings) /\ Len(Tail(asked[c])) = Len(asked[c]) - 1
      /\ \A n \in 1 .. Len(Tail(asked[c])) : Tail(asked[c])[n] = asked[c][n + 1]
      /\ Head(asked[c]) = asked[c][1]
  BY <1>1, HeadTailProperties
<1>3. \A n \in 1 .. Len(Tail(asked[c])) : n + 1 \in 1 .. Len(asked[c])
  BY <1>1, <1>2
<1> QED BY <1>2, <1>3

(* A response that is written without a scrape.                            *)
LEMMA AnswerKeepsAsks ==
  ASSUME Asks, NEW c \in Clients, UNCHANGED <<kernel, sent>>, busy' = Nobody,
         1 \in 1 .. Len(asked[c]), asked' = [asked EXCEPT ![c] = Tail(@)],
         taken' \in [Clients -> Nat], \A d \in Clients \ {c} : taken'[d] = taken[d] /\ busy # d,
         taken'[c] <= Len(sent[c]), Len(asked[c]) - 1 = Len(sent[c]) - taken'[c]
  PROVE  Asks'
<1>1. Nobody \notin Clients
  BY ExporterConstants DEF H!ServerConstants
<1>2. /\ asked'[c] = Tail(asked[c]) /\ \A d \in Clients \ {c} : asked'[d] = asked[d]
  BY DEF Asks, AskedDue
<1>3. AskedDue'
  <2>1. asked' \in [Clients -> Seq(Askings)]
    BY TailOfAsked DEF Asks, AskedDue
  <2>2. ASSUME NEW d \in Clients
        PROVE  /\ taken'[d] <= Len(sent[d])
               /\ Len(asked'[d]) = Len(sent[d]) - taken'[d] + (IF busy' = d THEN 1 ELSE 0)
    <3>1. busy' # d
      BY <1>1
    <3>2. CASE d = c
      BY <1>2, <3>1, <3>2, TailOfAsked, AsksType DEF Asks, AskedDue
    <3>3. CASE d # c
      BY <1>2, <3>1, <3>3 DEF Asks, AskedDue
    <3> QED BY <3>2, <3>3
  <2> QED BY <2>1, <2>2 DEF Asks, AskedDue
<1>4. AskedBelow'
  <2> SUFFICES ASSUME NEW d \in Clients, NEW n \in 1 .. Len(asked'[d]),
                      NEW i \in Interfaces, NEW k \in Keys, <<i, k>> \in asked'[d][n].still
               PROVE  Kept(asked'[d][n].kernel, kernel, i, k)
    BY DEF AskedBelow, Kept
  <2>1. PICK m \in 1 .. Len(asked[d]) : asked'[d][n] = asked[d][m]
    <3>1. CASE d = c
      BY <1>2, <3>1, TailOfAsked DEF Asks
    <3>2. CASE d # c
      BY <1>2, <3>2
    <3> QED BY <3>1, <3>2
  <2> QED BY <2>1 DEF Asks, AskedBelow
<1>5. AskedBeforeBegun'
  BY <1>1 DEF AskedBeforeBegun
<1> QED BY <1>3, <1>4, <1>5 DEF Asks

(* A request that starts a scrape: whatever is still there is stable now.  *)
LEMMA BeginKeepsAsks ==
  ASSUME Asks, SC!TypeOK, NEW c \in Clients, busy = Nobody, busy' = c, P!Begin,
         UNCHANGED <<sent, asked>>, taken' = [taken EXCEPT ![c] = @ + 1], taken[c] < Len(sent[c])
  PROVE  Asks'
<1>1. Nobody \notin Clients
  BY ExporterConstants DEF H!ServerConstants
<1>2. kernel' = kernel /\ begun'.kernel = kernel /\ stable' = P!Present
  BY DEF P!Begin, P!env
<1>3. AskedDue'
  <2>1. taken' \in [Clients -> Nat]
    BY DEF Asks, AskedDue
  <2>2. ASSUME NEW d \in Clients
        PROVE  /\ taken'[d] <= Len(sent[d])
               /\ Len(asked[d]) = Len(sent[d]) - taken'[d] + (IF busy' = d THEN 1 ELSE 0)
    <3>1. busy # d
      BY <1>1
    <3>2. CASE d = c
      <4>1. taken'[c] = taken[c] + 1
        BY DEF Asks, AskedDue
      <4> QED BY <3>1, <3>2, <4>1, AsksType DEF Asks, AskedDue
    <3>3. CASE d # c
      BY <3>1, <3>3 DEF Asks, AskedDue
    <3> QED BY <3>2, <3>3
  <2> QED BY <2>1, <2>2 DEF Asks, AskedDue
<1>4. AskedBelow'
  BY <1>2 DEF Asks, AskedBelow, Kept
<1>5. AskedBeforeBegun'
  <2> SUFFICES ASSUME NEW i \in Interfaces, NEW k \in Keys, <<i, k>> \in asked[c][1].still
               PROVE  <<i, k>> \in P!Present /\ Kept(asked[c][1].kernel, kernel, i, k)
    BY <1>2 DEF AskedBeforeBegun, Kept
  <2>1. 1 \in 1 .. Len(asked[c])
    BY AsksType DEF Asks
  <2>2. Kept(asked[c][1].kernel, kernel, i, k)
    BY <2>1 DEF Asks, AskedBelow
  <2>3. kernel[i][k] # NoPeer
    BY <2>2, ScrapeAssumptions DEF Kept, SC!ConstantsType
  <2>4. <<i, k>> \in Interfaces \X Keys /\ <<i, k>>[1] = i /\ <<i, k>>[2] = k
    OBVIOUS
  <2> QED BY <2>2, <2>3, <2>4 DEF P!Present
<1> QED BY <1>3, <1>4, <1>5 DEF Asks

LEMMA TakeKeepsAsks ==
  ASSUME Asks, SC!TypeOK, NEW c \in Clients, Take(c)
  PROVE  Asks'
<1>1. Nobody \notin Clients
  BY ExporterConstants DEF H!ServerConstants
<1>2. /\ busy = Nobody /\ taken[c] < Len(sent[c]) /\ taken' = [taken EXCEPT ![c] = @ + 1]
      /\ sent' = sent /\ (busy' = c \/ busy' = Nobody)
  BY DEF Take, H!Take
<1>3. CASE busy' = Nobody
  <2>1. kernel' = kernel /\ asked' = [asked EXCEPT ![c] = Tail(@)]
    BY <1>3 DEF Take, scrape
  <2>2. 1 \in 1 .. Len(asked[c])
    BY <1>2, AsksType DEF Asks
  <2>3. /\ taken' \in [Clients -> Nat] /\ taken'[c] = taken[c] + 1
        /\ \A d \in Clients \ {c} : taken'[d] = taken[d] /\ busy # d
    BY <1>1, <1>2 DEF Asks, AskedDue
  <2>4. taken'[c] <= Len(sent[c]) /\ Len(asked[c]) - 1 = Len(sent[c]) - taken'[c]
    BY <1>1, <1>2, <2>3, AsksType DEF Asks, AskedDue
  <2> QED BY <1>2, <1>3, <2>1, <2>2, <2>3, <2>4, AnswerKeepsAsks
<1>4. CASE busy' = c
  <2>1. P!Begin /\ asked' = asked
    BY <1>1, <1>4 DEF Take
  <2> QED BY <1>2, <1>4, <2>1, BeginKeepsAsks
<1> QED BY <1>2, <1>3, <1>4

LEMMA ReplyKeepsAsks ==
  ASSUME Asks, NEW c \in Clients, Reply(c)
  PROVE  Asks'
<1>1. /\ busy = c /\ busy' = Nobody /\ asked' = [asked EXCEPT ![c] = Tail(@)]
      /\ UNCHANGED <<kernel, sent, taken>>
  BY DEF Reply, P!Answer, P!env
<1>2. 1 \in 1 .. Len(asked[c])
  BY <1>1, AsksType DEF Asks
<1>3. /\ taken' \in [Clients -> Nat] /\ taken'[c] <= Len(sent[c])
      /\ \A d \in Clients \ {c} : taken'[d] = taken[d] /\ busy # d
  BY <1>1 DEF Asks, AskedDue
<1>4. Len(asked[c]) - 1 = Len(sent[c]) - taken'[c]
  BY <1>1, AsksType DEF Asks, AskedDue
<1> QED BY <1>1, <1>2, <1>3, <1>4, AnswerKeepsAsks

(* A peer is still there only if it was before and is after the step, and  *)
(* then it counts no less.                                                 *)
LEMMA EnvironmentKeepsAsks ==
  ASSUME Asks, SC!TypeOK, InStep, Environment
  PROVE  Asks'
<1>1. SC!EnvEffect
  BY ScrapeAssumptions, SameEnvironment, SC!EnvironmentGrows DEF Environment
<1>2. PICK marks, kind : SC!Disturb(kind, marks)
  BY <1>1 DEF SC!EnvEffect
<1>3. /\ begun' = begun /\ P!Present' = SC!Present'
      /\ pc # "idle" => stable' = stable \cap SC!Present'
  BY <1>2 DEF SC!Disturb, SC!Observe, SC!history, P!Present, SC!Present
<1>4. UNCHANGED <<sent, taken, busy>>
  BY DEF Environment, server
<1>5. ASSUME NEW c \in Clients
      PROVE  /\ asked'[c] \in Seq(Askings) /\ Len(asked'[c]) = Len(asked[c])
             /\ \A n \in 1 .. Len(asked[c]) :
                  /\ asked'[c][n].kernel = asked[c][n].kernel
                  /\ asked'[c][n].still = asked[c][n].still \cap SC!Present'
  <2>1. asked'[c] = [n \in 1 .. Len(asked[c]) |->
                       [asked[c][n] EXCEPT !.still = @ \cap SC!Present']]
    BY <1>3, AsksType DEF Asks, Environment
  <2>2. ASSUME NEW n \in 1 .. Len(asked[c])
        PROVE  /\ asked'[c][n] \in Askings
               /\ asked'[c][n].kernel = asked[c][n].kernel
               /\ asked'[c][n].still = asked[c][n].still \cap SC!Present'
    <3>1. asked[c][n] \in Askings
      BY AsksType DEF Asks
    <3> QED BY <2>1, <3>1 DEF Askings
  <2>3. asked'[c] \in [1 .. Len(asked[c]) -> Askings]
    BY <2>1, <2>2
  <2>4. asked'[c] \in Seq(Askings)
    BY <2>3, AsksType, SeqDef DEF Asks
  <2>5. Len(asked'[c]) = Len(asked[c])
    BY <2>3, <2>4, AsksType, LenProperties DEF Asks
  <2> QED BY <2>2, <2>4, <2>5
<1>6. AskedDue'
  <2>1. asked' \in [Clients -> Seq(Askings)]
    <3>1. asked' = [c \in Clients |-> asked'[c]]
      BY DEF Environment
    <3> QED BY <1>5, <3>1
  <2> QED BY <1>4, <1>5, <2>1 DEF Asks, AskedDue
<1>7. ASSUME NEW i \in Interfaces, NEW k \in Keys, <<i, k>> \in SC!Present',
             NEW old, Kept(old, kernel, i, k)
      PROVE  Kept(old, kernel', i, k)
  <2>1. kernel'[i][k] # NoPeer /\ kernel[i][k] \in SC!Peers
    BY <1>7 DEF SC!Present, Kept
  <2>2. kernel'[i][k] \in SC!Peers /\ kernel[i][k] # NoPeer
    BY <1>1, <2>1, ScrapeAssumptions DEF SC!EnvEffect, SC!ConstantsType
  <2>3. SC!Grows(kernel[i][k], kernel'[i][k])
    BY <1>1, <2>1, <2>2 DEF SC!EnvEffect
  <2>4. SC!Grows(old[i][k], kernel'[i][k])
    BY <1>7, <2>1, <2>2, <2>3 DEF Kept, SC!Grows, SC!Peers
  <2> QED BY <1>7, <2>2, <2>4 DEF Kept
<1>8. AskedBelow'
  <2> SUFFICES ASSUME NEW c \in Clients, NEW n \in 1 .. Len(asked'[c]),
                      NEW i \in Interfaces, NEW k \in Keys, <<i, k>> \in asked'[c][n].still
               PROVE  Kept(asked'[c][n].kernel, kernel', i, k)
    BY DEF AskedBelow, Kept
  <2>1. /\ n \in 1 .. Len(asked[c]) /\ <<i, k>> \in asked[c][n].still
        /\ <<i, k>> \in SC!Present' /\ asked'[c][n].kernel = asked[c][n].kernel
    BY <1>5
  <2>2. Kept(asked[c][n].kernel, kernel, i, k)
    BY <2>1 DEF Asks, AskedBelow
  <2> QED BY <1>7, <2>1, <2>2
<1>9. AskedBeforeBegun'
  <2> SUFFICES ASSUME NEW c \in Clients, busy = c,
                      NEW i \in Interfaces, NEW k \in Keys, <<i, k>> \in asked'[c][1].still
               PROVE  <<i, k>> \in stable' /\ Kept(asked'[c][1].kernel, begun.kernel, i, k)
    BY <1>3, <1>4 DEF AskedBeforeBegun, Kept
  <2>1. 1 \in 1 .. Len(asked[c])
    BY AsksType DEF Asks
  <2>2. /\ <<i, k>> \in asked[c][1].still /\ <<i, k>> \in SC!Present'
        /\ asked'[c][1].kernel = asked[c][1].kernel
    BY <1>5, <2>1
  <2>3. pc # "idle"
    <3>1. Nobody \notin Clients
      BY ExporterConstants DEF H!ServerConstants
    <3> QED BY <3>1 DEF InStep
  <2> QED BY <1>3, <2>2, <2>3 DEF Asks, AskedBeforeBegun
<1> QED BY <1>6, <1>8, <1>9 DEF Asks

Fresh == InStep /\ SC!IInv /\ SC!OnceInv /\ Asks

LEMMA NextFresh ==
  ASSUME Fresh, [Next]_vars
  PROVE  Fresh'
<1>1. InStep' /\ SC!IInv' /\ SC!OnceInv'
  BY NextInStep, WindowKept, OnceKept DEF Fresh
<1>2. Asks /\ SC!TypeOK /\ InStep
  BY DEF Fresh, SC!IInv
<1>3. CASE UNCHANGED <<kernel, begun, stable, sent, taken, busy, asked>>
  BY <1>1, <1>2, <1>3, FrameKeepsAsks DEF Fresh
<1>4. CASE Accept
  BY <1>3, <1>4 DEF Accept, H!Accept, scrape
<1>5. CASE Work
  <2>1. UNCHANGED <<kernel, begun, stable>>
    <3>1. CASE Starved
      BY <1>5, <3>1 DEF Work
    <3>2. CASE ~Starved
      <4>1. SC!Step /\ ~SC!Answer
        BY <1>5, <3>2, SameWork DEF Work, SC!Answer
      <4> QED BY <4>1, ScrapeAssumptions, SC!StepFrame DEF SC!Frame
    <3> QED BY <3>1, <3>2
  <2> QED BY <1>3, <1>5, <2>1 DEF Work, server
<1>6. CASE Environment
  BY <1>1, <1>2, <1>6, EnvironmentKeepsAsks DEF Fresh
<1>7. ASSUME NEW c \in Clients, Send(c) PROVE Fresh'
  BY <1>1, <1>2, <1>7, SendKeepsAsks DEF Fresh
<1>8. ASSUME NEW c \in Clients, Aside(c) PROVE Fresh'
  BY <1>3, <1>8 DEF Aside, H!Connect, H!HangUp, H!Close, scrape
<1>9. ASSUME NEW c \in Clients, Take(c) PROVE Fresh'
  BY <1>1, <1>2, <1>9, TakeKeepsAsks DEF Fresh
<1>10. ASSUME NEW c \in Clients, Reply(c) PROVE Fresh'
  BY <1>1, <1>2, <1>10, ReplyKeepsAsks DEF Fresh
<1>11. CASE UNCHANGED vars
  BY <1>3, <1>11 DEF vars, server, scrape
<1> QED BY <1>4, <1>5, <1>6, <1>7, <1>8, <1>9, <1>10, <1>11 DEF Next

LEMMA InitFresh == Init => Fresh
<1> SUFFICES ASSUME Init PROVE Fresh
  OBVIOUS
<1>1. InStep /\ SC!IInv /\ SC!OnceInv
  BY InitInStep, ScrapeAssumptions, SameStart, SC!InitWindow, SC!InitOnce DEF Init
<1>2. /\ sent = [c \in Clients |-> <<>>] /\ taken = [c \in Clients |-> 0]
      /\ asked = [c \in Clients |-> <<>>] /\ busy = Nobody
  BY DEF Init, H!Init
<1>3. Nobody \notin Clients
  BY ExporterConstants DEF H!ServerConstants
<1>4. AskedDue
  <2>1. \A S : <<>> \in Seq(S) /\ Len(<<>>) = 0
    BY EmptySeq
  <2>2. sent \in [Clients -> Seq(Requests)] /\ asked \in [Clients -> Seq(Askings)]
    BY <1>2, <2>1
  <2> QED BY <1>2, <1>3, <2>1, <2>2 DEF AskedDue
<1>5. AskedBelow /\ AskedBeforeBegun
  <2>1. \A c \in Clients : 1 .. Len(asked[c]) = {}
    BY <1>2
  <2> QED BY <1>2, <1>3, <2>1 DEF AskedBelow, AskedBeforeBegun
<1> QED BY <1>1, <1>4, <1>5 DEF Fresh, Asks

(* A connection waits for its scrape until the response is written.        *)
LEMMA OnlyReplyEnds ==
  ASSUME [Next]_vars, NEW c \in Clients, busy = c, busy' = Nobody
  PROVE  pc = "answer"
<1>1. busy # Nobody /\ busy' # busy
  BY ExporterConstants DEF H!ServerConstants
<1>2. CASE Accept \/ Work \/ Environment \/ UNCHANGED vars
  BY <1>1, <1>2 DEF Accept, H!Accept, Work, Environment, vars, server
<1>3. ASSUME NEW d \in Clients, Send(d) \/ Aside(d) \/ Take(d)
      PROVE  FALSE
  BY <1>1, <1>3 DEF Send, H!Send, Aside, H!Connect, H!HangUp, H!Close, Take, H!Take
<1>4. ASSUME NEW d \in Clients, Reply(d)
      PROVE  pc = "answer"
  BY <1>4 DEF Reply, P!Answer
<1> QED BY <1>1, <1>2, <1>3, <1>4 DEF Next

LEMMA RequestedTwice == P!Requested = SC!Requested
BY DEF P!Requested, SC!Requested, P!Targets, SC!Targets, P!Range, SC!Range, P!All, SC!All

LEMMA FreshIsFresh ==
  ASSUME Fresh, [Next]_vars, NEW c \in Clients, busy = c, busy' = Nobody, outcome = "ok",
         {"denied", "absent"} \cap noted = {}, NEW p \in Head(asked[c]).still,
         p[1] \in P!Requested, NEW f \in {"sent", "received"}
  PROVE  /\ Rows(p, f) # {}
         /\ \A n \in Rows(p, f) :
              body[f][n].value >= P!Counter(Head(asked[c]).kernel[p[1]][p[2]], f)
<1> DEFINE old == asked[c][1].kernel
<1>1. /\ asked[c][1] \in Askings /\ Head(asked[c]) = asked[c][1]
      /\ 1 \in 1 .. Len(asked[c])
  <2>1. 1 \in 1 .. Len(asked[c]) /\ asked[c][1] \in Askings
    BY AsksType DEF Fresh, Asks
  <2> QED BY <2>1, TailOfAsked DEF Fresh, Asks
<1>2. PICK i \in Interfaces, k \in Keys : p = <<i, k>>
  <2>1. p \in Interfaces \X Keys
    BY <1>1 DEF Askings
  <2> QED BY <2>1
<1>3. <<i, k>> \in stable /\ Kept(old, begun.kernel, i, k)
  <2>1. <<i, k>> \in asked[c][1].still
    BY <1>1, <1>2
  <2> QED BY <2>1 DEF Fresh, Asks, AskedBeforeBegun
<1>4. p[1] = i /\ p[2] = k
  BY <1>2
<1>5. Rows(p, f) = SC!SamplesOf(f, i, k)
  BY <1>4 DEF Rows, SC!SamplesOf
<1>6. SC!SamplesOf(f, i, k) # {}
  <2>1. SC!Succeeded /\ SC!WgWorked
    BY OnlyReplyEnds DEF SC!Succeeded, SC!WgWorked
  <2>2. i \in SC!Requested
    BY <1>4, RequestedTwice
  <2>3. f \in SC!Exported
    BY DEF SC!Exported, SC!Families
  <2>4. SC!OnceInv
    BY DEF Fresh
  <2> QED BY <1>3, <2>1, <2>2, <2>3, <2>4, ScrapeAssumptions, SC!RequestedReported
<1>7. ASSUME NEW n \in Rows(p, f)
      PROVE  body[f][n].value >= SC!Counter(old[i][k], f)
  <2>1. n \in DOMAIN body[f] /\ body[f][n].iface = i /\ body[f][n].key = k
    BY <1>4, <1>7 DEF Rows
  <2>2. /\ body[f][n].value \in Nat /\ begun.kernel[i][k] \in SC!Peers
        /\ SC!Counter(begun.kernel[i][k], f) <= body[f][n].value
    BY <1>3, <2>1, RowInWindow DEF Fresh
  <2>3. /\ SC!Counter(old[i][k], f) \in Nat /\ SC!Counter(begun.kernel[i][k], f) \in Nat
        /\ SC!Counter(old[i][k], f) <= SC!Counter(begun.kernel[i][k], f)
    BY <1>3 DEF Kept, SC!Grows, SC!Counter, SC!Peers
  <2> HIDE DEF old
  <2>4. \A a, b, v \in Nat : a <= b /\ b <= v => v >= a
    OBVIOUS
  <2> QED BY <2>2, <2>3, <2>4
<1>8. P!Counter(Head(asked[c]).kernel[p[1]][p[2]], f) = SC!Counter(old[i][k], f)
  BY <1>1, <1>4 DEF P!Counter, SC!Counter
<1> HIDE DEF old
<1> QED BY <1>5, <1>6, <1>7, <1>8

(* FreshCorrect: unless wg fails, a response of status 200 has each        *)
(* requested peer that stayed configured since its request was sent, with  *)
(* counters that are no older than the request, however long the request   *)
(* waited for scrapes on behalf of other clients, behind others of its own *)
(* connection or in the listen queue (main.rs:49-103, server.rs:100-108).  *)
THEOREM FreshCorrect == Spec => FreshSinceSent
<1>1. Fresh /\ [Next]_vars =>
        [\A c \in Clients :
           (busy = c /\ busy' = Nobody /\ outcome = "ok" /\ {"denied", "absent"} \cap noted = {}) =>
           \A p \in Head(asked[c]).still : p[1] \in P!Requested =>
             \A f \in {"sent", "received"} :
               /\ Rows(p, f) # {}
               /\ \A n \in Rows(p, f) :
                    body[f][n].value >= P!Counter(Head(asked[c]).kernel[p[1]][p[2]], f)]_vars
  BY FreshIsFresh
<1> QED BY <1>1, InitFresh, NextFresh, PTL DEF Spec, FreshSinceSent
===============================================================================
