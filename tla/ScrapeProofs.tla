----------------------------- MODULE ScrapeProofs -----------------------------
(***************************************************************************)
(* Theorems about Scrape, for every set of interfaces, keys, files, texts, *)
(* command lines, starting states and disturbances, and for every bound.   *)
(* First its type and the window of its counters; then what a scrape       *)
(* reports and how it ends.                                                *)
(***************************************************************************)
EXTENDS Scrape, PeerConfigProofs, FiniteSetTheorems

(***************************************************************************)
(* The inductive invariant. CountersInWindow alone is not inductive: the   *)
(* values a sample will carry lie in the output of wg first, then in the   *)
(* accumulator, and what bounds them from below is that a stable peer's    *)
(* counters have only grown since the scrape began.                        *)
(***************************************************************************)
Between(i, k, p) ==
  /\ begun.kernel[i][k].rx <= p.rx /\ p.rx <= kernel[i][k].rx
  /\ begun.kernel[i][k].tx <= p.tx /\ p.tx <= kernel[i][k].tx

IdleIsClean ==
  pc = "idle" => stable = {} /\ stdout = NoEndpoints /\ acc = NoEndpoints /\ body = NoBody

StablePeersGrow ==
  \A i \in Interfaces, k \in Keys : <<i, k>> \in stable =>
    /\ kernel[i][k] \in Peers /\ begun.kernel[i][k] \in Peers
    /\ Between(i, k, kernel[i][k])

InWindow(endpoints) ==
  \A i \in Interfaces : \A n \in 1 .. Len(endpoints[i]) :
    (endpoints[i][n] # Local /\ <<i, endpoints[i][n].key>> \in stable) =>
      Between(i, endpoints[i][n].key, endpoints[i][n].peer)

IInv ==
  /\ TypeOK
  /\ IdleIsClean
  /\ StablePeersGrow
  /\ InWindow(stdout)
  /\ InWindow(acc)
  /\ CountersInWindow

(***************************************************************************)
(* The environment.                                                        *)
(***************************************************************************)
Grows(p, q) == p.rx <= q.rx /\ p.tx <= q.tx

(* Changing one entry of the kernel leaves it well typed and every other   *)
(* entry alone.                                                            *)
LEMMA SetPeerEffect ==
  ASSUME TypeOK, NEW i \in Interfaces, NEW k \in Keys, NEW p \in Peers \cup {NoPeer}, SetPeer(i, k, p)
  PROVE  /\ kernel' \in [Interfaces -> [Keys -> Peers \cup {NoPeer}]]
         /\ kernel'[i][k] = p
         /\ \A j \in Interfaces, l \in Keys : <<j, l>> # <<i, k>> => kernel'[j][l] = kernel[j][l]
         /\ UNCHANGED <<up, files, wg, now>>
BY DEF TypeOK, SetPeer

EnvEffect ==
  /\ up' \subseteq Interfaces
  /\ kernel' \in [Interfaces -> [Keys -> Peers \cup {NoPeer}]]
  /\ files' \in [FileNames -> Texts \cup {Unreadable}]
  /\ wg' \in Statuses
  /\ now' \in Nat
  /\ \A i \in Interfaces, k \in Keys :
       (kernel[i][k] # NoPeer /\ kernel'[i][k] # NoPeer) => Grows(kernel[i][k], kernel'[i][k])
  /\ \E marks \in SUBSET {"stepped"}, kind \in Disturbances[options] : Disturb(kind, marks)

(* A step that writes one entry of the kernel, as most of them do.         *)
LEMMA SetPeerStep ==
  ASSUME TypeOK, NEW i \in Interfaces, NEW k \in Keys, NEW p \in Peers \cup {NoPeer},
         SetPeer(i, k, p), NEW kind, Disturb(kind, {}),
         (kernel[i][k] # NoPeer /\ p # NoPeer) => Grows(kernel[i][k], p)
  PROVE  EnvEffect
<1>1. /\ kernel' \in [Interfaces -> [Keys -> Peers \cup {NoPeer}]]
      /\ UNCHANGED <<up, files, wg, now>>
  BY SetPeerEffect
<1>2. ASSUME NEW j \in Interfaces, NEW l \in Keys, kernel[j][l] # NoPeer, kernel'[j][l] # NoPeer
      PROVE  Grows(kernel[j][l], kernel'[j][l])
  <2>1. CASE <<j, l>> = <<i, k>>
    BY <1>2, <2>1, SetPeerEffect
  <2>2. CASE <<j, l>> # <<i, k>>
    <3>1. kernel'[j][l] = kernel[j][l] /\ kernel[j][l] \in Peers
      BY <1>2, <2>2, SetPeerEffect DEF TypeOK
    <3> QED BY <3>1 DEF Grows, Peers
  <2> QED BY <2>1, <2>2
<1>3. kind \in Disturbances[options]
  BY DEF Disturb
<1> QED BY <1>1, <1>2, <1>3 DEF EnvEffect, TypeOK

(* A step that leaves the kernel alone.                                    *)
LEMMA KernelUnchanged ==
  ASSUME TypeOK, UNCHANGED kernel, NEW i \in Interfaces, NEW k \in Keys, kernel[i][k] # NoPeer
  PROVE  Grows(kernel[i][k], kernel'[i][k])
BY DEF TypeOK, Grows, Peers

(* EnvironmentGrows: whatever the environment does in one step, its state  *)
(* keeps its type and a peer that is there before and after the step has   *)
(* not lost a byte of its counters.                                        *)
LEMMA EnvironmentGrows ==
  ASSUME TypeOK, Environment
  PROVE  EnvEffect
<1>1. CASE AddPeer
  <2>1. PICK i \in up, k \in Keys, ips \in AllowedIps :
          /\ kernel[i][k] = NoPeer
          /\ SetPeer(i, k, [ips |-> ips, hs |-> 0, rx |-> 0, tx |-> 0])
          /\ Disturb("peers", {})
    BY <1>1 DEF AddPeer
  <2>2. i \in Interfaces /\ [ips |-> ips, hs |-> 0, rx |-> 0, tx |-> 0] \in Peers
    BY DEF TypeOK, Peers
  <2> QED BY <2>1, <2>2, SetPeerStep
<1>2. CASE RemovePeer
  <2>1. PICK p \in Present : SetPeer(p[1], p[2], NoPeer) /\ Disturb("peers", {})
    BY <1>2 DEF RemovePeer
  <2>2. p[1] \in Interfaces /\ p[2] \in Keys
    BY DEF Present
  <2> QED BY <2>1, <2>2, SetPeerStep
<1>3. ASSUME NEW p \in Present
      PROVE  LET i == p[1]
                 k == p[2]
             IN  /\ i \in Interfaces /\ k \in Keys
                 /\ kernel[i][k] \in Peers
                 /\ \A ips \in AllowedIps :
                      LET q == [kernel[i][k] EXCEPT !.ips = ips]
                      IN  q \in Peers /\ Grows(kernel[i][k], q)
                 /\ LET q == [kernel[i][k] EXCEPT !.rx = @ + 1]
                    IN  q \in Peers /\ Grows(kernel[i][k], q)
                 /\ LET q == [kernel[i][k] EXCEPT !.tx = @ + 1]
                    IN  q \in Peers /\ Grows(kernel[i][k], q)
                 /\ LET q == [kernel[i][k] EXCEPT !.hs = now]
                    IN  q \in Peers /\ Grows(kernel[i][k], q)
  <2>1. p[1] \in Interfaces /\ p[2] \in Keys /\ kernel[p[1]][p[2]] \in Peers
    BY DEF TypeOK, Present
  <2> DEFINE r == kernel[p[1]][p[2]]
  <2>2. r \in [ips : AllowedIps, hs : Nat, rx : Nat, tx : Nat] /\ now \in Nat
    BY <2>1 DEF Peers, TypeOK
  <2> HIDE DEF r
  <2>3. ASSUME NEW ips \in AllowedIps
        PROVE  [r EXCEPT !.ips = ips] \in Peers /\ Grows(r, [r EXCEPT !.ips = ips])
    BY <2>2 DEF Grows, Peers
  <2>4. [r EXCEPT !.rx = @ + 1] \in Peers /\ Grows(r, [r EXCEPT !.rx = @ + 1])
    BY <2>2 DEF Grows, Peers
  <2>5. [r EXCEPT !.tx = @ + 1] \in Peers /\ Grows(r, [r EXCEPT !.tx = @ + 1])
    BY <2>2 DEF Grows, Peers
  <2>6. [r EXCEPT !.hs = now] \in Peers /\ Grows(r, [r EXCEPT !.hs = now])
    BY <2>2 DEF Grows, Peers
  <2> QED BY <2>1, <2>3, <2>4, <2>5, <2>6 DEF r
<1>4. CASE ReplaceIps
  BY <1>3, <1>4, SetPeerStep DEF ReplaceIps
<1>5. CASE Receive
  BY <1>3, <1>5, SetPeerStep DEF Receive
<1>6. CASE Send
  BY <1>3, <1>6, SetPeerStep DEF Send
<1>7. CASE Handshake
  BY <1>3, <1>7, SetPeerStep DEF Handshake
<1>8. CASE AddInterface
  <2>1. UNCHANGED <<kernel, files, wg, now>> /\ up' \subseteq Interfaces
    BY <1>8 DEF AddInterface, TypeOK
  <2>2. Disturb("interfaces", {}) /\ "interfaces" \in Disturbances[options]
    BY <1>8 DEF AddInterface, Disturb
  <2> QED BY <2>1, <2>2, KernelUnchanged DEF EnvEffect, TypeOK
<1>9. CASE DeleteInterface
  <2>1. PICK i \in up : kernel' = [kernel EXCEPT ![i] = [k \in Keys |-> NoPeer]]
    BY <1>9 DEF DeleteInterface
  <2>2. up' \subseteq Interfaces /\ UNCHANGED <<files, wg, now>>
    BY <1>9 DEF DeleteInterface, TypeOK
  <2>3. Disturb("interfaces", {}) /\ "interfaces" \in Disturbances[options]
    BY <1>9 DEF DeleteInterface, Disturb
  <2>4. kernel' \in [Interfaces -> [Keys -> Peers \cup {NoPeer}]]
    BY <2>1 DEF TypeOK
  <2>5. ASSUME NEW j \in Interfaces, NEW k \in Keys, kernel[j][k] # NoPeer, kernel'[j][k] # NoPeer
        PROVE  Grows(kernel[j][k], kernel'[j][k])
    <3>1. kernel'[j][k] = kernel[j][k] /\ kernel[j][k] \in Peers
      BY <2>1, <2>5 DEF TypeOK
    <3> QED BY <3>1 DEF Grows, Peers
  <2> QED BY <2>2, <2>3, <2>4, <2>5 DEF EnvEffect, TypeOK
<1>10. CASE EditFile
  <2>1. UNCHANGED <<up, kernel, wg, now>> /\ files' \in [FileNames -> Texts \cup {Unreadable}]
    BY <1>10 DEF EditFile, TypeOK
  <2>2. Disturb("files", {}) /\ "files" \in Disturbances[options]
    BY <1>10 DEF EditFile, Disturb
  <2> QED BY <2>1, <2>2, KernelUnchanged DEF EnvEffect, TypeOK
<1>11. CASE SetWg
  <2>1. UNCHANGED <<up, kernel, files, now>> /\ wg' \in Statuses
    BY <1>11 DEF SetWg, TypeOK
  <2>2. Disturb("wg", {}) /\ "wg" \in Disturbances[options]
    BY <1>11 DEF SetWg, Disturb
  <2> QED BY <2>1, <2>2, KernelUnchanged DEF EnvEffect, TypeOK
<1>12. CASE Tick
  <2>1. UNCHANGED <<up, kernel, files, wg>> /\ now' \in Nat
    BY <1>12 DEF Tick, TypeOK
  <2>2. Disturb("clock", {}) /\ "clock" \in Disturbances[options]
    BY <1>12 DEF Tick, Disturb
  <2> QED BY <2>1, <2>2, KernelUnchanged DEF EnvEffect, TypeOK
<1>13. CASE StepBack
  <2>1. UNCHANGED <<up, kernel, files, wg>> /\ now' \in Nat
    BY <1>13 DEF StepBack, TypeOK
  <2>2. Disturb("steps", {"stepped"}) /\ "steps" \in Disturbances[options]
    BY <1>13 DEF StepBack, Disturb
  <2> QED BY <2>1, <2>2, KernelUnchanged DEF EnvEffect, TypeOK
<1> QED BY <1>1, <1>2, <1>4, <1>5, <1>6, <1>7, <1>8, <1>9, <1>10, <1>11, <1>12, <1>13
        DEF Environment

LEMMA ConditionsType == Conditions \subseteq {"bare", "ahead", "unreadable"} \cup Statuses
BY DEF Conditions

LEMMA PresentType == Present \subseteq Interfaces \X Keys
BY DEF Present

(***************************************************************************)
(* Helpers of the scrape's steps.                                          *)
(***************************************************************************)
LEMMA TargetsType ==
  ASSUME TypeOK
  PROVE  Targets \in Seq(Interfaces \cup {All})
<1>1. options \in Options
  BY ConstantsType DEF TypeOK
<1>2. <<All>> \in Seq(Interfaces \cup {All})
  OBVIOUS
<1> QED BY <1>1, <1>2 DEF Targets, Options

LEMMA DevicesType ==
  ASSUME TypeOK, NEW target \in Interfaces \cup {All}
  PROVE  Devices(target) \subseteq Interfaces
BY DEF Devices, TypeOK

(* What wg prints of a device are Local and the peers of the moment.       *)
LEMMA DumpType ==
  ASSUME TypeOK, NEW i \in Interfaces, NEW ks \in SetToSeqs(PeersOf(i))
  PROVE  LET peers == [n \in DOMAIN ks |-> [key |-> ks[n], peer |-> kernel[i][ks[n]]]]
             out == <<Local>> \o peers
         IN  /\ out \in Seq(Endpoints)
             /\ \A n \in 1 .. Len(out) :
                  out[n] = Local \/ (out[n].key \in Keys /\ out[n].peer = kernel[i][out[n].key])
<1> DEFINE c == Cardinality(PeersOf(i))
           peers == [n \in 1 .. c |-> [key |-> ks[n], peer |-> kernel[i][ks[n]]]]
           out == <<Local>> \o peers
<1>1. c \in Nat
  <2>1. PeersOf(i) \in SUBSET Keys /\ IsFiniteSet(Keys)
    BY ConstantsType DEF PeersOf
  <2> QED BY <2>1, FS_Subset, FS_CardinalityType
<1>2. ks \in [1 .. c -> PeersOf(i)] /\ DOMAIN ks = 1 .. c
  BY DEF SetToSeqs
<1>3. ASSUME NEW n \in 1 .. c
      PROVE  ks[n] \in Keys /\ kernel[i][ks[n]] \in Peers /\ peers[n] \in Remotes
  <2>1. ks[n] \in PeersOf(i)
    BY <1>2
  <2>2. ks[n] \in Keys /\ kernel[i][ks[n]] \in Peers
    BY <2>1 DEF PeersOf, TypeOK
  <2> QED BY <2>2 DEF Remotes
<1>4. peers \in Seq(Endpoints) /\ Len(peers) = c
  <2>1. peers \in [1 .. c -> Endpoints]
    BY <1>3 DEF Endpoints
  <2> HIDE DEF peers
  <2>2. peers \in Seq(Endpoints)
    BY <1>1, <2>1, SeqDef
  <2> QED BY <1>1, <2>1, <2>2, LenProperties
<1>5. <<Local>> \in Seq(Endpoints) /\ Len(<<Local>>) = 1 /\ <<Local>>[1] = Local
  BY DEF Endpoints
<1>6. /\ out \in Seq(Endpoints) /\ Len(out) = 1 + c
      /\ \A n \in 1 .. 1 + c : out[n] = IF n <= 1 THEN <<Local>>[n] ELSE peers[n - 1]
  <2> HIDE DEF peers
  <2> QED BY <1>4, <1>5, ConcatProperties
<1>7. ASSUME NEW n \in 1 .. 1 + c
      PROVE  out[n] = Local \/ (out[n].key \in Keys /\ out[n].peer = kernel[i][out[n].key])
  <2>1. CASE n = 1
    BY <2>1, <1>5, <1>6
  <2>2. CASE n # 1
    <3>1. n - 1 \in 1 .. c /\ out[n] = peers[n - 1]
      BY <2>2, <1>1, <1>6
    <3>2. peers[n - 1] = [key |-> ks[n - 1], peer |-> kernel[i][ks[n - 1]]]
      BY <3>1
    <3> HIDE DEF out, peers
    <3> QED BY <3>1, <3>2, <1>3
  <2> QED BY <2>1, <2>2
<1> QED BY <1>2, <1>6, <1>7

(* Merging keeps every endpoint of both sides and adds none.               *)
LEMMA MergeType ==
  ASSUME NEW old \in [Interfaces -> Seq(Endpoints)], NEW new \in [Interfaces -> Seq(Endpoints)]
  PROVE  /\ Merge(old, new) \in [Interfaces -> Seq(Endpoints)]
         /\ \A i \in Interfaces : \A n \in 1 .. Len(Merge(old, new)[i]) :
              \/ \E m \in 1 .. Len(old[i]) : Merge(old, new)[i][n] = old[i][m]
              \/ \E m \in 1 .. Len(new[i]) : Merge(old, new)[i][n] = new[i][m]
<1>1. ASSUME NEW i \in Interfaces
      PROVE  /\ old[i] \o new[i] \in Seq(Endpoints)
             /\ \A n \in 1 .. Len(old[i] \o new[i]) :
                  \/ \E m \in 1 .. Len(old[i]) : (old[i] \o new[i])[n] = old[i][m]
                  \/ \E m \in 1 .. Len(new[i]) : (old[i] \o new[i])[n] = new[i][m]
  <2>1. old[i] \in Seq(Endpoints) /\ new[i] \in Seq(Endpoints)
    OBVIOUS
  <2>2. Len(old[i]) \in Nat /\ Len(new[i]) \in Nat
    BY <2>1, LenProperties
  <2>3. /\ old[i] \o new[i] \in Seq(Endpoints)
        /\ Len(old[i] \o new[i]) = Len(old[i]) + Len(new[i])
        /\ \A n \in 1 .. Len(old[i]) + Len(new[i]) :
             (old[i] \o new[i])[n] = IF n <= Len(old[i]) THEN old[i][n] ELSE new[i][n - Len(old[i])]
    BY <2>1, ConcatProperties
  <2>4. ASSUME NEW n \in 1 .. Len(old[i]) + Len(new[i])
        PROVE  \/ \E m \in 1 .. Len(old[i]) : (old[i] \o new[i])[n] = old[i][m]
               \/ \E m \in 1 .. Len(new[i]) : (old[i] \o new[i])[n] = new[i][m]
    <3>1. CASE n <= Len(old[i])
      <4>1. n \in 1 .. Len(old[i]) /\ (old[i] \o new[i])[n] = old[i][n]
        BY <2>2, <2>3, <3>1
      <4> QED BY <4>1
    <3>2. CASE ~(n <= Len(old[i]))
      <4>1. /\ n - Len(old[i]) \in 1 .. Len(new[i])
            /\ (old[i] \o new[i])[n] = new[i][n - Len(old[i])]
        BY <2>2, <2>3, <3>2
      <4> QED BY <4>1
    <3> QED BY <3>1, <3>2
  <2> QED BY <2>3, <2>4
<1>2. \A i \in Interfaces : Merge(old, new)[i] = old[i] \o new[i]
  BY DEF Merge
<1>3. Merge(old, new) \in [Interfaces -> Seq(Endpoints)]
  BY <1>1 DEF Merge
<1>4. ASSUME NEW i \in Interfaces, NEW n \in 1 .. Len(Merge(old, new)[i])
      PROVE  \/ \E m \in 1 .. Len(old[i]) : Merge(old, new)[i][n] = old[i][m]
             \/ \E m \in 1 .. Len(new[i]) : Merge(old, new)[i][n] = new[i][m]
  <2>1. Merge(old, new)[i] = old[i] \o new[i]
    BY <1>2
  <2> QED BY <2>1, <1>1
<1> QED BY <1>3, <1>4

(* The interface rendered next has an endpoint left.                       *)
LEMMA NextInterfaceType ==
  ASSUME TypeOK, Pending # {}
  PROVE  /\ NextInterface \in Interfaces
         /\ acc[NextInterface] \in Seq(Endpoints) /\ acc[NextInterface] # <<>>
<1>1. Pending \in SUBSET Nat
  <2>1. Pending \subseteq Interfaces
    BY DEF Pending
  <2> QED BY <2>1, ConstantsType
<1>2. NextInterface \in Pending
  BY <1>1, MinOfNaturals DEF NextInterface
<1> QED BY <1>2 DEF Pending, TypeOK

(* A peer that does not make the renderer panic has a natural for every    *)
(* exported family, the delay included.                                    *)
LEMMA ValueType ==
  ASSUME TypeOK, NEW e \in Remotes, ~RenderPanics(e), NEW fam \in Exported
  PROVE  Value(e.peer, fam) \in Nat
<1>1. e.peer.rx \in Nat /\ e.peer.tx \in Nat /\ e.peer.hs \in Nat /\ now \in Nat
  BY DEF Remotes, Peers, TypeOK
<1>2. fam \in Families
  BY DEF Exported
<1>3. CASE fam = "delay"
  <2>1. options.delay
    BY <1>3 DEF Exported
  <2>2. e.peer.hs <= now
    BY <1>1, <2>1 DEF RenderPanics
  <2>3. Value(e.peer, fam) = now - e.peer.hs
    BY <1>3 DEF Value
  <2> QED BY <1>1, <2>2, <2>3
<1>4. CASE fam # "delay"
  BY <1>1, <1>2, <1>4 DEF Value, Families
<1> QED BY <1>3, <1>4

(***************************************************************************)
(* Type correctness.                                                       *)
(***************************************************************************)
LEMMA EmptyValuesType ==
  /\ NoText \in Seq(Lines)
  /\ NoTable \in [Keys -> Descriptions]
  /\ NoEndpoints \in [Interfaces -> Seq(Endpoints)]
  /\ NoBody \in [Families -> Seq(Samples)]
  /\ NothingHeld \in [FileNames -> SUBSET (Texts \cup {Unreadable})]
<1>1. \A S : <<>> \in Seq(S)
  BY EmptySeq
<1>2. NoTable \in [Keys -> Descriptions]
  BY DEF NoTable, Descriptions
<1> QED BY <1>1, <1>2 DEF NoText, NoEndpoints, NoBody, NothingHeld

LEMMA InitType == Init => TypeOK
<1> SUFFICES ASSUME Init PROVE TypeOK
  OBVIOUS
<1>1. PICK s \in Starts[options] :
        /\ up = s.up /\ kernel = s.kernel /\ files = s.files /\ wg = s.wg /\ now = s.now
        /\ begun = [kernel |-> s.kernel, now |-> s.now]
  BY DEF Init
<1>2. s \in EnvStates
  BY ConstantsType DEF Init
<1> QED BY <1>1, <1>2, EmptyValuesType DEF Init, EnvStates, TypeOK

LEMMA NextType ==
  ASSUME TypeOK, [Next]_vars
  PROVE  TypeOK'
<1>1. CASE UNCHANGED vars
  BY <1>1 DEF vars, env, reading, history, TypeOK
<1>2. CASE Begin
  <2>1. Present \subseteq Interfaces \X Keys
    BY PresentType
  <2>2. begun' \in [kernel : [Interfaces -> [Keys -> Peers \cup {NoPeer}]], now : Nat]
    BY <1>2 DEF Begin, TypeOK
  <2> QED BY <1>2, <2>1, <2>2, ConditionsType DEF Begin, env, reading, TypeOK
<1>3. CASE ReadFile
  <2>1. fileNo \in 1 .. Len(options.files) /\ options.files \in Seq(FileNames)
    BY <1>3, ConstantsType DEF ReadFile, TypeOK, Options
  <2>2. options.files[fileNo] \in FileNames
    BY <2>1, ElementOfSeq
  <2> DEFINE content == files[options.files[fileNo]]
  <2>3. content = Unreadable \/ content \in Seq(Lines)
    BY <2>2, ConstantsType DEF TypeOK
  <2>4. CASE content = Unreadable
    BY <1>3, <2>4 DEF ReadFile, End, env, history, TypeOK
  <2>5. CASE content # Unreadable
    <3>1. text' \in Seq(Lines)
      <4>1. text' = text \o content /\ text \in Seq(Lines) /\ content \in Seq(Lines)
        BY <1>3, <2>3, <2>5 DEF ReadFile, Join, TypeOK
      <4> HIDE DEF content
      <4> QED BY <4>1, ConcatProperties
    <3> QED BY <1>3, <2>5, <3>1 DEF ReadFile, env, history, TypeOK
  <2> QED BY <2>4, <2>5
<1>4. CASE ParseConfig
  <2>1. CASE ParseOutcome(text) = "ok"
    <3>1. PeerEntryHashMap(text) \in [Keys -> Descriptions]
      BY <2>1, TableType DEF TypeOK
    <3> QED BY <1>4, <2>1, <3>1 DEF ParseConfig, env, history, TypeOK
  <2>2. CASE ParseOutcome(text) # "ok"
    <3>1. ParseOutcome(text) \in {"error", "panic"}
      <4> DEFINE bad == {p \in Blocks(text) : EntryOutcome(text, p) # "ok"}
      <4>1. bad # {} /\ ParseOutcome(text) = EntryOutcome(text, Min(bad))
        BY <2>2 DEF ParseOutcome
      <4>2. bad \in SUBSET Nat
        BY LenProperties DEF Blocks, TypeOK
      <4>3. Min(bad) \in bad
        <5> HIDE DEF bad
        <5> QED BY <4>1, <4>2, MinOfNaturals
      <4>4. \A p : EntryOutcome(text, p) \in {"ok", "error", "panic"}
        <5> TAKE p
        <5>1. Stops(text, Block(text, p)) = {} \/ Stops(text, Block(text, p)) # {}
          OBVIOUS
        <5> QED BY <5>1 DEF EntryOutcome
      <4> QED BY <4>1, <4>3, <4>4, <2>2
    <3> QED BY <1>4, <2>2, <3>1 DEF ParseConfig, End, env, history, TypeOK
  <2> QED BY <2>1, <2>2
<1>5. CASE Spawn
  <2>1. Targets[next] \in Interfaces \cup {All}
    <3>1. next \in 1 .. Len(Targets) /\ Targets \in Seq(Interfaces \cup {All})
      BY <1>5, TargetsType, LenProperties DEF Spawn, TypeOK
    <3> QED BY <3>1, ElementOfSeq
  <2>2. Devices(Targets[next]) \subseteq Interfaces
    BY <2>1, DevicesType
  <2> QED BY <1>5, <2>2 DEF Spawn, End, env, reading, history, TypeOK
<1>6. CASE DumpDevice
  <2>1. stdout' \in [Interfaces -> Seq(Endpoints)]
    <3>1. PICK i \in devs :
            /\ devs' = devs \ {i}
            /\ \/ stdout' = stdout
               \/ \E ks \in SetToSeqs(PeersOf(i)) : stdout' = [stdout EXCEPT ![i] =
                    <<Local>> \o [n \in DOMAIN ks |-> [key |-> ks[n], peer |-> kernel[i][ks[n]]]]]
      BY <1>6 DEF DumpDevice
    <3>2. i \in Interfaces /\ stdout \in [Interfaces -> Seq(Endpoints)]
      BY DEF TypeOK
    <3>3. CASE stdout' = stdout
      BY <3>2, <3>3
    <3>4. CASE stdout' # stdout
      <4>1. PICK ks \in SetToSeqs(PeersOf(i)) : stdout' = [stdout EXCEPT ![i] =
              <<Local>> \o [n \in DOMAIN ks |-> [key |-> ks[n], peer |-> kernel[i][ks[n]]]]]
        BY <3>1, <3>4
      <4>2. <<Local>> \o [n \in DOMAIN ks |-> [key |-> ks[n], peer |-> kernel[i][ks[n]]]]
              \in Seq(Endpoints)
        BY <3>2, DumpType
      <4> QED BY <3>2, <4>1, <4>2
    <3> QED BY <3>3, <3>4
  <2>2. devs' \subseteq Interfaces
    BY <1>6 DEF DumpDevice, TypeOK
  <2>3. /\ UNCHANGED <<options, env, events, pc, outcome, reading, next, acc, body>>
        /\ UNCHANGED <<begun, stable, met, noted, held>> /\ dumped' = now
    BY <1>6 DEF DumpDevice
  <2> QED BY <2>1, <2>2, <2>3 DEF env, reading, TypeOK
<1>7. CASE Collect
  <2>1. Merge(acc, stdout) \in [Interfaces -> Seq(Endpoints)]
    BY MergeType DEF TypeOK
  <2>2. /\ acc' \in [Interfaces -> Seq(Endpoints)] /\ next' \in Nat \ {0}
        /\ pc' \in {"spawn", "answer"} /\ outcome' \in {"none", "ok", "error", "panic"}
    BY <1>7, <2>1 DEF Collect, End, TypeOK
  <2>3. stdout' \in [Interfaces -> Seq(Endpoints)]
    BY <1>7, EmptyValuesType DEF Collect
  <2>4. UNCHANGED <<options, env, events, reading, devs, body, history>>
    BY <1>7 DEF Collect
  <2> QED BY <2>2, <2>3, <2>4 DEF env, reading, history, TypeOK
<1>8. CASE BeginRender
  BY <1>8 DEF BeginRender, End, env, reading, history, TypeOK
<1>9. CASE RenderEndpoint
  <2> DEFINE i == NextInterface
             e == Head(acc[i])
  <2>1. i \in Interfaces /\ acc[i] \in Seq(Endpoints) /\ acc[i] # <<>>
    BY <1>9, NextInterfaceType DEF RenderEndpoint
  <2>2. e \in Endpoints /\ Tail(acc[i]) \in Seq(Endpoints)
    BY <2>1, HeadTailProperties
  <2>3. acc' = [acc EXCEPT ![i] = Tail(@)]
    BY <1>9 DEF RenderEndpoint
  <2>4. acc' \in [Interfaces -> Seq(Endpoints)]
    BY <2>1, <2>2, <2>3 DEF TypeOK
  <2>5. pc' \in {"render", "answer"} /\ outcome' \in {"none", "ok", "error", "panic"}
    BY <1>9 DEF RenderEndpoint, End, TypeOK
  <2>6. body' \in [Families -> Seq(Samples)]
    <3>1. CASE body' = body
      BY <3>1 DEF TypeOK
    <3>2. CASE body' # body
      <4> DEFINE sample(fam) == [iface |-> i, key |-> e.key,
                                 desc |-> table[e.key], value |-> Value(e.peer, fam)]
      <4>1. /\ e # Local /\ ~RenderPanics(e)
            /\ body' = [fam \in Families |->
                 IF fam \in Exported THEN Append(body[fam], sample(fam)) ELSE body[fam]]
        BY <1>9, <3>2 DEF RenderEndpoint
      <4>2. e \in Remotes
        BY <2>2, <4>1 DEF Endpoints
      <4>3. e.key \in Keys /\ table[e.key] \in Descriptions
        BY <4>2 DEF Remotes, TypeOK
      <4>4. \A fam \in Exported : Value(e.peer, fam) \in Nat
        BY <4>1, <4>2, ValueType
      <4>5. \A fam \in Exported : sample(fam) \in Samples
        BY <2>1, <4>3, <4>4 DEF Samples
      <4>6. \A fam \in Families : body[fam] \in Seq(Samples)
        BY DEF TypeOK
      <4> HIDE DEF sample
      <4> QED BY <4>1, <4>5, <4>6
    <3> QED BY <3>1, <3>2
  <2>7. UNCHANGED <<options, env, events, reading, next, devs, stdout, history>>
    BY <1>9 DEF RenderEndpoint
  <2> QED BY <2>4, <2>5, <2>6, <2>7 DEF env, reading, history, TypeOK
<1>10. CASE Finish
  BY <1>10 DEF Finish, End, env, reading, history, TypeOK
<1>11. CASE Answer
  <2>1. begun' \in [kernel : [Interfaces -> [Keys -> Peers \cup {NoPeer}]], now : Nat]
    BY <1>11 DEF Answer, TypeOK
  <2> QED BY <1>11, <2>1, EmptyValuesType DEF Answer, DropLocals, env, TypeOK
<1>12. CASE Environment
  <2>1. EnvEffect
    BY <1>12, EnvironmentGrows
  <2>2. PICK marks \in SUBSET {"stepped"}, kind \in Disturbances[options] : Disturb(kind, marks)
    BY <2>1 DEF EnvEffect
  <2>3. /\ UNCHANGED <<options, pc, outcome, reading, next, devs, stdout, acc, body, begun>>
        /\ events' \in Nat
    BY <2>2 DEF Disturb, Observe, history, TypeOK
  <2>4. /\ stable' \subseteq Interfaces \X Keys /\ met' \subseteq Interfaces \X Keys
        /\ noted' \subseteq {"bare", "ahead", "unreadable", "stepped"} \cup Statuses
        /\ held' \in [FileNames -> SUBSET (Texts \cup {Unreadable})] /\ dumped' \in Nat
    <3>1. Present' \subseteq Interfaces \X Keys
      BY DEF Present
    <3>2. Conditions' \subseteq {"bare", "ahead", "unreadable"} \cup Statuses
      BY DEF Conditions
    <3>3. held' \in [FileNames -> SUBSET (Texts \cup {Unreadable})] /\ dumped' \in Nat
      <4>1. files' \in [FileNames -> Texts \cup {Unreadable}]
        BY <2>1 DEF EnvEffect
      <4> QED BY <2>2, <4>1 DEF Disturb, Observe, history, TypeOK
    <3>4. stable' \subseteq Interfaces \X Keys /\ met' \subseteq Interfaces \X Keys
      BY <2>2, <3>1 DEF Disturb, Observe, history, TypeOK
    <3>5. noted' \subseteq {"bare", "ahead", "unreadable", "stepped"} \cup Statuses
      BY <2>2, <3>2 DEF Disturb, Observe, history, TypeOK
    <3> QED BY <3>3, <3>4, <3>5
  <2> QED BY <2>1, <2>3, <2>4 DEF EnvEffect, reading, TypeOK
<1> QED BY <1>1, <1>2, <1>3, <1>4, <1>5, <1>6, <1>7, <1>8, <1>9, <1>10, <1>11, <1>12
        DEF Next, Step

(* TypeCorrect: every reachable state has the type the model gives it; in  *)
(* particular no delay is ever negative (wireguard.rs:322-325).            *)
THEOREM TypeCorrect == Spec => []TypeOK
BY InitType, NextType, PTL DEF Spec

(***************************************************************************)
(* The counters stay in the window of the scrape.                          *)
(***************************************************************************)

(* Steps of the scrape between Begin and Answer touch neither the kernel   *)
(* nor the history.                                                        *)
Frame == UNCHANGED <<kernel, begun, stable>>

LEMMA StepFrame ==
  ASSUME Step, ~Answer
  PROVE  Frame /\ pc # "idle" /\ pc' # "idle"
<1>1. CASE ReadFile
  BY <1>1 DEF ReadFile, End, Frame, env, history
<1>2. CASE ParseConfig
  BY <1>2 DEF ParseConfig, End, Frame, env, history
<1>3. CASE Spawn
  BY <1>3 DEF Spawn, End, Frame, env, history
<1>4. CASE DumpDevice
  BY <1>4 DEF DumpDevice, Frame, env, history
<1>5. CASE Collect
  BY <1>5 DEF Collect, End, Frame, env, history
<1>6. CASE BeginRender
  BY <1>6 DEF BeginRender, End, Frame, env, history
<1>7. CASE RenderEndpoint
  BY <1>7 DEF RenderEndpoint, End, Frame, env, history
<1>8. CASE Finish
  BY <1>8 DEF Finish, End, Frame, env, history
<1> QED BY <1>1, <1>2, <1>3, <1>4, <1>5, <1>6, <1>7, <1>8 DEF Step

(* An endpoint in the window stays there, as long as its peer is stable.   *)
LEMMA WindowWidens ==
  ASSUME IInv, EnvEffect, stable' \subseteq stable \cap Present', UNCHANGED begun,
         NEW i \in Interfaces, NEW k \in Keys, <<i, k>> \in stable'
  PROVE  /\ kernel'[i][k] \in Peers /\ kernel[i][k] \in Peers /\ begun.kernel[i][k] \in Peers
         /\ Grows(kernel[i][k], kernel'[i][k])
<1>1. <<i, k>> \in stable /\ <<i, k>> \in Present'
  OBVIOUS
<1>2. kernel[i][k] \in Peers /\ begun.kernel[i][k] \in Peers
  BY <1>1 DEF IInv, StablePeersGrow
<1>3. kernel'[i][k] # NoPeer
  BY <1>1 DEF Present
<1>4. kernel'[i][k] \in Peers
  BY <1>3 DEF EnvEffect
<1>5. kernel[i][k] # NoPeer
  BY <1>2, ConstantsType
<1> QED BY <1>2, <1>3, <1>4, <1>5 DEF EnvEffect

LEMMA EnvironmentKeepsWindow ==
  ASSUME IInv, TypeOK', Environment
  PROVE  IInv'
<1>1. EnvEffect
  BY EnvironmentGrows DEF IInv
<1>2. PICK marks, kind : Disturb(kind, marks)
  BY <1>1 DEF EnvEffect
<1>3. UNCHANGED <<pc, stdout, acc, body, begun>>
  BY <1>2 DEF Disturb, Observe, history
<1>4. stable' \subseteq stable \cap Present' /\ (pc = "idle" => stable' = {})
  BY <1>2 DEF Disturb, Observe, history, IInv, IdleIsClean
<1>5. IdleIsClean'
  BY <1>3, <1>4 DEF IInv, IdleIsClean, NoEndpoints, NoBody
<1>6. ASSUME NEW i \in Interfaces, NEW k \in Keys, <<i, k>> \in stable'
      PROVE  /\ kernel'[i][k] \in Peers /\ kernel[i][k] \in Peers /\ begun.kernel[i][k] \in Peers
             /\ Grows(kernel[i][k], kernel'[i][k]) /\ <<i, k>> \in stable
  BY <1>1, <1>3, <1>4, <1>6, WindowWidens
<1>7. ASSUME NEW i \in Interfaces, NEW k \in Keys, <<i, k>> \in stable',
             NEW p \in Peers, Between(i, k, p)
      PROVE  /\ begun'.kernel[i][k].rx <= p.rx /\ p.rx <= kernel'[i][k].rx
             /\ begun'.kernel[i][k].tx <= p.tx /\ p.tx <= kernel'[i][k].tx
  BY <1>3, <1>6, <1>7 DEF Between, Grows, Peers
<1>8. StablePeersGrow'
  <2> SUFFICES ASSUME NEW i \in Interfaces, NEW k \in Keys, <<i, k>> \in stable'
               PROVE  /\ kernel'[i][k] \in Peers /\ begun'.kernel[i][k] \in Peers
                      /\ Between(i, k, kernel[i][k])'
    BY DEF StablePeersGrow
  <2>1. Between(i, k, kernel[i][k]) /\ Grows(kernel[i][k], kernel'[i][k])
    BY <1>6 DEF IInv, StablePeersGrow
  <2> QED BY <1>3, <1>6, <2>1 DEF Between, Grows, Peers
<1>9. ASSUME NEW es \in [Interfaces -> Seq(Endpoints)], InWindow(es),
             NEW i \in Interfaces, NEW n \in 1 .. Len(es[i]),
             es[i][n] # Local, <<i, es[i][n].key>> \in stable'
      PROVE  LET p == es[i][n].peer
                 k == es[i][n].key
             IN  /\ begun'.kernel[i][k].rx <= p.rx /\ p.rx <= kernel'[i][k].rx
                 /\ begun'.kernel[i][k].tx <= p.tx /\ p.tx <= kernel'[i][k].tx
  <2>1. es[i][n] \in Endpoints
    <3>1. es[i] \in Seq(Endpoints)
      OBVIOUS
    <3> QED BY <3>1, ElementOfSeq
  <2>2. es[i][n].key \in Keys /\ es[i][n].peer \in Peers
    BY <1>9, <2>1 DEF Endpoints, Remotes
  <2>3. <<i, es[i][n].key>> \in stable
    BY <1>4, <1>9
  <2>4. Between(i, es[i][n].key, es[i][n].peer)
    BY <1>9, <2>3 DEF InWindow
  <2> QED BY <1>7, <1>9, <2>2, <2>4
<1>10. InWindow(stdout)'
  <2>1. stdout \in [Interfaces -> Seq(Endpoints)] /\ InWindow(stdout)
    BY DEF IInv, TypeOK
  <2> QED BY <2>1, <1>3, <1>9 DEF InWindow, Between
<1>11. InWindow(acc)'
  <2>1. acc \in [Interfaces -> Seq(Endpoints)] /\ InWindow(acc)
    BY DEF IInv, TypeOK
  <2> QED BY <2>1, <1>3, <1>9 DEF InWindow, Between
<1>12. CountersInWindow'
  <2> SUFFICES ASSUME NEW fam \in {"sent", "received"}, NEW n \in DOMAIN body[fam],
                      <<body[fam][n].iface, body[fam][n].key>> \in stable'
               PROVE  LET i == body[fam][n].iface
                          k == body[fam][n].key
                      IN  /\ Counter(begun.kernel[i][k], fam) <= body[fam][n].value
                          /\ body[fam][n].value <= Counter(kernel'[i][k], fam)
    BY <1>3 DEF CountersInWindow, Counter
  <2>1. body[fam][n] \in Samples
    <3>1. body[fam] \in Seq(Samples)
      BY DEF IInv, TypeOK, Families
    <3> QED BY <3>1, LenProperties, ElementOfSeq
  <2>2. /\ Counter(begun.kernel[body[fam][n].iface][body[fam][n].key], fam) <= body[fam][n].value
        /\ body[fam][n].value <= Counter(kernel[body[fam][n].iface][body[fam][n].key], fam)
    BY <1>4 DEF IInv, CountersInWindow
  <2> DEFINE i == body[fam][n].iface
             k == body[fam][n].key
             v == body[fam][n].value
  <2>3. i \in Interfaces /\ k \in Keys /\ v \in Nat
    BY <2>1 DEF Samples
  <2>4. kernel'[i][k] \in Peers /\ kernel[i][k] \in Peers /\ Grows(kernel[i][k], kernel'[i][k])
    BY <1>6, <2>3
  <2>5. Counter(kernel[i][k], fam) <= Counter(kernel'[i][k], fam)
    BY <2>4 DEF Counter, Grows
  <2>6. Counter(kernel[i][k], fam) \in Nat /\ Counter(kernel'[i][k], fam) \in Nat
    BY <2>4 DEF Counter, Peers
  <2>7. v <= Counter(kernel'[i][k], fam)
    <3> HIDE DEF i, k, v
    <3>1. v <= Counter(kernel[i][k], fam)
      BY <2>2 DEF i, k, v
    <3> QED BY <3>1, <2>3, <2>5, <2>6
  <2> QED BY <2>2, <2>7
<1> QED BY <1>5, <1>8, <1>10, <1>11, <1>12 DEF IInv

LEMMA StepKeepsWindow ==
  ASSUME IInv, TypeOK', Step, ~Answer
  PROVE  IInv'
<1>1. UNCHANGED <<kernel, begun, stable>> /\ pc' # "idle" /\ pc # "idle"
  BY StepFrame DEF Frame
<1>2. IdleIsClean' /\ StablePeersGrow'
  BY <1>1 DEF IInv, IdleIsClean, StablePeersGrow, Between
<1>3. ASSUME stdout' = stdout
      PROVE  InWindow(stdout)'
  BY <1>1, <1>3 DEF IInv, InWindow, Between
<1>4. ASSUME acc' = acc
      PROVE  InWindow(acc)'
  BY <1>1, <1>4 DEF IInv, InWindow, Between
<1>5. ASSUME body' = body
      PROVE  CountersInWindow'
  BY <1>1, <1>5 DEF IInv, CountersInWindow, Counter
<1>6. CASE UNCHANGED <<stdout, acc, body>>
  BY <1>2, <1>3, <1>4, <1>5, <1>6 DEF IInv
<1>7. CASE DumpDevice
  <2>1. acc' = acc /\ body' = body
    BY <1>7 DEF DumpDevice
  <2>2. PICK d \in devs :
          \/ stdout' = stdout
          \/ \E ks \in SetToSeqs(PeersOf(d)) : stdout' = [stdout EXCEPT ![d] =
               <<Local>> \o [n \in DOMAIN ks |-> [key |-> ks[n], peer |-> kernel[d][ks[n]]]]]
    BY <1>7 DEF DumpDevice
  <2>3. CASE stdout' = stdout
    BY <2>1, <2>3, <1>6
  <2>4. CASE stdout' # stdout
    <3>1. PICK ks \in SetToSeqs(PeersOf(d)) : stdout' = [stdout EXCEPT ![d] =
            <<Local>> \o [n \in DOMAIN ks |-> [key |-> ks[n], peer |-> kernel[d][ks[n]]]]]
      BY <2>2, <2>4
    <3> DEFINE out == <<Local>> \o [n \in DOMAIN ks |-> [key |-> ks[n], peer |-> kernel[d][ks[n]]]]
    <3>2. d \in Interfaces /\ stdout \in [Interfaces -> Seq(Endpoints)]
      BY DEF IInv, TypeOK
    <3>3. \A n \in 1 .. Len(out) :
            out[n] = Local \/ (out[n].key \in Keys /\ out[n].peer = kernel[d][out[n].key])
      BY <3>2, DumpType DEF IInv
    <3> HIDE DEF out
    <3>4. stdout' = [stdout EXCEPT ![d] = out]
      BY <3>1 DEF out
    <3>5. ASSUME NEW i \in Interfaces, NEW n \in 1 .. Len(stdout'[i]),
                 stdout'[i][n] # Local, <<i, stdout'[i][n].key>> \in stable
          PROVE  Between(i, stdout'[i][n].key, stdout'[i][n].peer)
      <4>1. CASE i = d
        <5>1. stdout'[i] = out
          BY <4>1, <3>2, <3>4
        <5>2. stdout'[i][n].key \in Keys /\ stdout'[i][n].peer = kernel[i][stdout'[i][n].key]
          BY <4>1, <5>1, <3>3, <3>5
        <5> QED BY <5>2, <3>5 DEF IInv, StablePeersGrow
      <4>2. CASE i # d
        <5>1. stdout'[i] = stdout[i]
          BY <4>2, <3>2, <3>4
        <5> QED BY <5>1, <3>5 DEF IInv, InWindow
      <4> QED BY <4>1, <4>2
    <3>6. InWindow(stdout)'
      BY <1>1, <3>5 DEF InWindow, Between
    <3> QED BY <1>2, <1>4, <1>5, <2>1, <3>6 DEF IInv
  <2> QED BY <2>3, <2>4
<1>8. CASE Collect
  <2>1. body' = body /\ stdout' = NoEndpoints
    BY <1>8 DEF Collect
  <2>2. InWindow(stdout)'
    <3>1. ASSUME NEW i \in Interfaces PROVE 1 .. Len(stdout'[i]) = {}
      BY <2>1 DEF NoEndpoints
    <3> QED BY <3>1 DEF InWindow
  <2>3. acc' = acc \/ acc' = Merge(acc, stdout)
    BY <1>8 DEF Collect
  <2>4. CASE acc' = acc
    BY <1>2, <1>4, <1>5, <2>1, <2>2, <2>4 DEF IInv
  <2>5. CASE acc' = Merge(acc, stdout)
    <3>1. ASSUME NEW i \in Interfaces, NEW n \in 1 .. Len(acc'[i]),
                 acc'[i][n] # Local, <<i, acc'[i][n].key>> \in stable
          PROVE  Between(i, acc'[i][n].key, acc'[i][n].peer)
      <4>1. acc \in [Interfaces -> Seq(Endpoints)] /\ stdout \in [Interfaces -> Seq(Endpoints)]
        BY DEF IInv, TypeOK
      <4>2. \/ \E m \in 1 .. Len(acc[i]) : acc'[i][n] = acc[i][m]
            \/ \E m \in 1 .. Len(stdout[i]) : acc'[i][n] = stdout[i][m]
        <5> DEFINE all == Merge(acc, stdout)
        <5>1. \A m \in 1 .. Len(all[i]) :
                \/ \E l \in 1 .. Len(acc[i]) : all[i][m] = acc[i][l]
                \/ \E l \in 1 .. Len(stdout[i]) : all[i][m] = stdout[i][l]
          BY <4>1, MergeType
        <5>2. acc' = all
          BY <2>5
        <5> HIDE DEF all
        <5> QED BY <3>1, <5>1, <5>2
      <4> QED BY <3>1, <4>2 DEF IInv, InWindow
    <3>2. InWindow(acc)'
      BY <1>1, <3>1 DEF InWindow, Between
    <3> QED BY <1>2, <1>5, <2>1, <2>2, <3>2 DEF IInv
  <2> QED BY <2>3, <2>4, <2>5
<1>9. CASE RenderEndpoint
  <2> DEFINE i == NextInterface
             e == Head(acc[i])
  <2>1. i \in Interfaces /\ acc[i] \in Seq(Endpoints) /\ acc[i] # <<>>
    BY <1>9, NextInterfaceType DEF RenderEndpoint, IInv
  <2>2. /\ Tail(acc[i]) \in Seq(Endpoints) /\ Len(Tail(acc[i])) = Len(acc[i]) - 1
        /\ \A n \in 1 .. Len(Tail(acc[i])) : Tail(acc[i])[n] = acc[i][n + 1]
        /\ Len(acc[i]) \in Nat \ {0} /\ e = acc[i][1] /\ e \in Endpoints
    <3>1. Len(acc[i]) \in Nat \ {0}
      BY <2>1, EmptySeq
    <3>2. e = acc[i][1]
      BY <2>1
    <3> QED BY <2>1, <3>1, <3>2, HeadTailProperties
  <2>3. stdout' = stdout /\ acc' = [acc EXCEPT ![i] = Tail(@)]
    BY <1>9 DEF RenderEndpoint
  <2>4. InWindow(acc)'
    <3>1. ASSUME NEW j \in Interfaces, NEW n \in 1 .. Len(acc'[j]),
                 acc'[j][n] # Local, <<j, acc'[j][n].key>> \in stable
          PROVE  Between(j, acc'[j][n].key, acc'[j][n].peer)
      <4>1. PICK m \in 1 .. Len(acc[j]) : acc'[j][n] = acc[j][m]
        <5>1. CASE j = i
          <6>1. acc'[j] = Tail(acc[i])
            BY <2>1, <2>3, <5>1 DEF IInv, TypeOK
          <6>2. n + 1 \in 1 .. Len(acc[i]) /\ acc'[j][n] = acc[i][n + 1]
            BY <2>2, <6>1
          <6> QED BY <5>1, <6>2
        <5>2. CASE j # i
          <6>1. acc'[j] = acc[j]
            BY <2>1, <2>3, <5>2 DEF IInv, TypeOK
          <6> QED BY <6>1
        <5> QED BY <5>1, <5>2
      <4> QED BY <3>1, <4>1 DEF IInv, InWindow
    <3> QED BY <1>1, <3>1 DEF InWindow, Between
  <2>5. CountersInWindow'
    <3>1. CASE body' = body
      BY <1>5, <3>1
    <3>2. CASE body' # body
      <4> DEFINE sample(fam) == [iface |-> i, key |-> e.key,
                                 desc |-> table[e.key], value |-> Value(e.peer, fam)]
      <4>1. /\ e # Local
            /\ body' = [fam \in Families |->
                 IF fam \in Exported THEN Append(body[fam], sample(fam)) ELSE body[fam]]
        BY <1>9, <3>2 DEF RenderEndpoint
      <4>2. ASSUME <<i, e.key>> \in stable PROVE Between(i, e.key, e.peer)
        <5>1. 1 \in 1 .. Len(acc[i])
          BY <2>2
        <5> QED BY <2>1, <2>2, <4>1, <4>2, <5>1 DEF IInv, InWindow
      <4>3. ASSUME NEW fam \in {"sent", "received"}, NEW n \in DOMAIN body'[fam],
                   <<body'[fam][n].iface, body'[fam][n].key>> \in stable
            PROVE  LET s == body'[fam][n]
                   IN  /\ Counter(begun.kernel[s.iface][s.key], fam) <= s.value
                       /\ s.value <= Counter(kernel[s.iface][s.key], fam)
        <5>1. body[fam] \in Seq(Samples) /\ fam \in Families
          BY DEF IInv, TypeOK, Families
        <5>2. Len(body[fam]) \in Nat /\ DOMAIN body[fam] = 1 .. Len(body[fam])
          BY <5>1, LenProperties
        <5>3. body'[fam] = body[fam] \/ body'[fam] = Append(body[fam], sample(fam))
          BY <4>1, <5>1
        <5>4. CASE n \in DOMAIN body[fam] /\ body'[fam][n] = body[fam][n]
          BY <4>3, <5>4 DEF IInv, CountersInWindow
        <5>5. CASE body'[fam][n] = sample(fam)
          <6>1. Between(i, e.key, e.peer)
            BY <4>2, <4>3, <5>5
          <6>2. Value(e.peer, fam) = Counter(e.peer, fam)
            BY DEF Value, Counter
          <6>3. /\ body'[fam][n].iface = i /\ body'[fam][n].key = e.key
                /\ body'[fam][n].value = Counter(e.peer, fam)
            BY <5>5, <6>2
          <6> HIDE DEF i, e
          <6> QED BY <6>1, <6>3 DEF Between, Counter
        <5> HIDE DEF sample
        <5>6. \/ n \in DOMAIN body[fam] /\ body'[fam][n] = body[fam][n]
              \/ body'[fam][n] = sample(fam)
          BY <5>1, <5>2, <5>3
        <5> QED BY <5>4, <5>5, <5>6
      <4> QED BY <1>1, <4>3 DEF CountersInWindow, Counter
    <3> QED BY <3>1, <3>2
  <2> QED BY <1>2, <1>3, <2>3, <2>4, <2>5 DEF IInv
<1>10. CASE ~DumpDevice /\ ~Collect /\ ~RenderEndpoint
  <2>1. UNCHANGED <<stdout, acc, body>>
    BY <1>10 DEF Step, ReadFile, ParseConfig, Spawn, BeginRender, Finish
  <2> QED BY <2>1, <1>6
<1> QED BY <1>7, <1>8, <1>9, <1>10

LEMMA InitWindow == Init => IInv
<1> SUFFICES ASSUME Init PROVE IInv
  OBVIOUS
<1>1. TypeOK
  BY InitType
<1>2. /\ stable = {} /\ stdout = NoEndpoints /\ acc = NoEndpoints /\ body = NoBody
  BY DEF Init
<1> QED BY <1>1, <1>2 DEF IInv, IdleIsClean, StablePeersGrow, InWindow, CountersInWindow

LEMMA NextWindow ==
  ASSUME IInv, [Next]_vars
  PROVE  IInv'
<1>1. TypeOK'
  BY NextType DEF IInv
<1>2. CASE UNCHANGED vars
  <2>1. UNCHANGED <<pc, kernel, stdout, acc, body, begun, stable>>
    BY <1>2 DEF vars, env, history
  <2>2. IdleIsClean' /\ StablePeersGrow'
    BY <2>1 DEF IInv, IdleIsClean, StablePeersGrow, Between
  <2>3. InWindow(stdout)' /\ InWindow(acc)'
    BY <2>1 DEF IInv, InWindow, Between
  <2>4. CountersInWindow'
    BY <2>1 DEF IInv, CountersInWindow, Counter
  <2> QED BY <1>1, <2>2, <2>3, <2>4 DEF IInv
<1>3. CASE Begin
  <2>1. /\ stdout' = NoEndpoints /\ acc' = NoEndpoints /\ body' = NoBody /\ pc' # "idle"
        /\ kernel' = kernel /\ begun'.kernel = kernel /\ stable' = Present
    BY <1>3 DEF Begin, env, IInv, IdleIsClean
  <2>2. StablePeersGrow'
    <3> SUFFICES ASSUME NEW i \in Interfaces, NEW k \in Keys, <<i, k>> \in Present
                 PROVE  kernel[i][k] \in Peers /\ Grows(kernel[i][k], kernel[i][k])
      BY <2>1 DEF StablePeersGrow, Between, Grows
    <3>1. kernel[i][k] \in Peers
      BY DEF IInv, TypeOK, Present
    <3> QED BY <3>1 DEF Grows, Peers
  <2>3. ASSUME NEW i \in Interfaces PROVE 1 .. Len(NoEndpoints[i]) = {}
    BY DEF NoEndpoints
  <2>4. InWindow(stdout)' /\ InWindow(acc)'
    BY <2>1, <2>3 DEF InWindow
  <2>5. CountersInWindow'
    BY <2>1 DEF CountersInWindow, NoBody, Families
  <2>6. IdleIsClean'
    BY <2>1 DEF IdleIsClean
  <2> QED BY <1>1, <2>2, <2>4, <2>5, <2>6 DEF IInv
<1>4. CASE Answer
  <2>1. stable' = {} /\ stdout' = NoEndpoints /\ acc' = NoEndpoints /\ body' = NoBody
    BY <1>4 DEF Answer, DropLocals
  <2>2. ASSUME NEW i \in Interfaces PROVE 1 .. Len(NoEndpoints[i]) = {}
    BY DEF NoEndpoints
  <2>3. InWindow(stdout)' /\ InWindow(acc)'
    BY <2>1, <2>2 DEF InWindow
  <2>4. CountersInWindow' /\ StablePeersGrow' /\ IdleIsClean'
    BY <2>1 DEF CountersInWindow, StablePeersGrow, IdleIsClean, NoEndpoints, NoBody
  <2> QED BY <1>1, <2>3, <2>4 DEF IInv
<1>5. CASE Step /\ ~Answer
  BY <1>1, <1>5, StepKeepsWindow
<1>6. CASE Environment
  BY <1>1, <1>6, EnvironmentKeepsWindow
<1> QED BY <1>2, <1>3, <1>4, <1>5, <1>6 DEF Next

(* CountersCorrect: whatever changes under a scrape, in whatever order the *)
(* interfaces are dumped, the bytes it reports for a peer that stayed      *)
(* configured lie between what the kernel counted when the scrape began    *)
(* and what it counts now (main.rs:51-100, wireguard.rs:125-126, 329-335). *)
THEOREM CountersCorrect == Spec => []CountersInWindow
<1>1. IInv => CountersInWindow
  BY DEF IInv
<1> QED BY <1>1, InitWindow, NextWindow, PTL DEF Spec

(***************************************************************************)
(* What a scrape reports and how it ends: no ghosts, rows grouped by       *)
(* interface, delays in the window of the scrape, no failure without a     *)
(* cause, and every peer as often as it was asked for: none is lost        *)
(* between wg's output, the accumulator and the response, and none is      *)
(* counted twice.                                                          *)
(***************************************************************************)


(***************************************************************************)
(* What one step does, whatever the invariant.                             *)
(***************************************************************************)

(* A step of the program between Begin and Answer leaves the environment   *)
(* alone, and the history but for the moment of the last dump.             *)
LEMMA ProgramFrame ==
  ASSUME Step, ~Answer
  PROVE  /\ UNCHANGED <<options, env, begun, stable, met, noted, held>>
         /\ dumped' = IF DumpDevice THEN now ELSE dumped
         /\ pc # "idle" /\ pc' # "idle"
<1>1. CASE ReadFile
  BY <1>1 DEF ReadFile, End, DumpDevice, history
<1>2. CASE ParseConfig
  BY <1>2 DEF ParseConfig, End, DumpDevice, history
<1>3. CASE Spawn
  BY <1>3 DEF Spawn, End, DumpDevice, history
<1>4. CASE DumpDevice
  BY <1>4 DEF DumpDevice
<1>5. CASE Collect
  BY <1>5 DEF Collect, End, DumpDevice, history
<1>6. CASE BeginRender
  BY <1>6 DEF BeginRender, End, DumpDevice, history
<1>7. CASE RenderEndpoint
  BY <1>7 DEF RenderEndpoint, End, DumpDevice, history
<1>8. CASE Finish
  BY <1>8 DEF Finish, End, DumpDevice, history
<1> QED BY <1>1, <1>2, <1>3, <1>4, <1>5, <1>6, <1>7, <1>8 DEF Step

(* A step of the environment leaves the program alone, and a running       *)
(* scrape's history takes note of it.                                      *)
LEMMA EnvironmentFrame ==
  ASSUME TypeOK, Environment
  PROVE  /\ UNCHANGED <<options, pc, outcome, reading, next, devs, stdout, acc, body, begun>>
         /\ pc = "idle" => UNCHANGED history
         /\ pc # "idle" => met' = met \cup Present' /\ noted \cup Conditions' \subseteq noted'
         /\ dumped' = dumped /\ \A fn \in FileNames : held[fn] \subseteq held'[fn]
         /\ pc = "read" => \A fn \in FileNames : files'[fn] \in held'[fn]
<1>1. PICK marks, kind : Disturb(kind, marks)
  BY EnvironmentGrows DEF EnvEffect
<1>2. /\ UNCHANGED <<options, pc, outcome, reading, next, devs, stdout, acc, body, begun, dumped>>
      /\ pc = "idle" => UNCHANGED history
      /\ pc # "idle" => met' = met \cup Present' /\ noted \cup Conditions' \subseteq noted'
  BY <1>1 DEF Disturb, Observe, history
<1>3. \/ held' = held /\ pc # "read"
      \/ held' = [fn \in FileNames |-> held[fn] \cup {files'[fn]}]
  BY <1>1 DEF Disturb, Observe, history
<1> QED BY <1>2, <1>3

(* The clock goes forward unless the step was noted.                       *)
LEMMA ClockForward ==
  ASSUME TypeOK, Environment, pc # "idle"
  PROVE  now <= now' \/ "stepped" \in noted'
<1>1. now \in Nat
  BY DEF TypeOK
<1>2. CASE Tick
  BY <1>1, <1>2 DEF Tick
<1>3. CASE StepBack
  <2>1. Disturb("steps", {"stepped"})
    BY <1>3 DEF StepBack
  <2> QED BY <2>1 DEF Disturb, Observe
<1>4. CASE ~Tick /\ ~StepBack
  <2>1. now' = now
    BY <1>4 DEF Environment, AddPeer, RemovePeer, ReplaceIps, Receive, Send, Handshake, SetPeer,
                AddInterface, DeleteInterface, EditFile, SetWg
  <2> QED BY <1>1, <2>1
<1> QED BY <1>2, <1>3, <1>4

(* The endpoint the renderer takes.                                        *)
Rendered == Head(acc[NextInterface])
RowOf(i, e, fam) == [iface |-> i, key |-> e.key, desc |-> table[e.key], value |-> Value(e.peer, fam)]

LEMMA RenderedEndpoint ==
  ASSUME TypeOK, RenderEndpoint
  PROVE  /\ NextInterface \in Interfaces /\ NextInterface \in Pending
         /\ \A j \in Pending : NextInterface <= j
         /\ 1 \in 1 .. Len(acc[NextInterface]) /\ Rendered = acc[NextInterface][1]
         /\ Rendered \in Endpoints
         /\ acc' = [acc EXCEPT ![NextInterface] = Tail(@)]
         /\ Tail(acc[NextInterface]) \in Seq(Endpoints)
         /\ \A n \in 1 .. Len(Tail(acc[NextInterface])) :
              n + 1 \in 1 .. Len(acc[NextInterface])
                /\ Tail(acc[NextInterface])[n] = acc[NextInterface][n + 1]
<1> DEFINE i == NextInterface
<1>1. Pending # {} /\ acc' = [acc EXCEPT ![i] = Tail(@)]
  BY DEF RenderEndpoint
<1>2. i \in Interfaces /\ acc[i] \in Seq(Endpoints) /\ acc[i] # <<>>
  BY <1>1, NextInterfaceType
<1>3. Pending \in SUBSET Nat
  BY ConstantsType DEF Pending
<1>4. i \in Pending /\ \A j \in Pending : i <= j
  BY <1>1, <1>3, MinOfNaturals DEF NextInterface
<1>5. Len(acc[i]) \in Nat \ {0}
  BY <1>2, EmptySeq
<1> HIDE DEF i
<1>6. /\ Tail(acc[i]) \in Seq(Endpoints) /\ Len(Tail(acc[i])) = Len(acc[i]) - 1
      /\ \A n \in 1 .. Len(Tail(acc[i])) : Tail(acc[i])[n] = acc[i][n + 1]
      /\ Head(acc[i]) = acc[i][1] /\ Head(acc[i]) \in Endpoints
  BY <1>2, <1>5, HeadTailProperties
<1>7. \A n \in 1 .. Len(Tail(acc[i])) : n + 1 \in 1 .. Len(acc[i])
  BY <1>5, <1>6
<1>8. 1 \in 1 .. Len(acc[i])
  BY <1>5
<1> QED BY <1>1, <1>2, <1>4, <1>6, <1>7, <1>8 DEF Rendered, i

(* Every family either stays or gets the row of the rendered endpoint.     *)
LEMMA RowsGrow ==
  ASSUME TypeOK, Step, ~Answer, body' # body
  PROVE  /\ RenderEndpoint /\ Rendered \in Remotes /\ ~RenderPanics(Rendered)
         /\ \A fam \in Families : body'[fam] =
              IF fam \in Exported THEN Append(body[fam], RowOf(NextInterface, Rendered, fam))
              ELSE body[fam]
<1>1. RenderEndpoint
  BY DEF Step, ReadFile, ParseConfig, Spawn, DumpDevice, Collect, BeginRender, Finish
<1>2. /\ Rendered # Local /\ ~RenderPanics(Rendered)
      /\ body' = [fam \in Families |->
           IF fam \in Exported THEN Append(body[fam], RowOf(NextInterface, Rendered, fam))
           ELSE body[fam]]
  BY <1>1 DEF RenderEndpoint, Rendered, RowOf
<1>3. Rendered \in Remotes
  BY <1>1, <1>2, RenderedEndpoint DEF Endpoints
<1> QED BY <1>1, <1>2, <1>3

(* Appending a row keeps the rows there are.                               *)
LEMMA AppendRow ==
  ASSUME NEW S, NEW s \in Seq(S), NEW r
  PROVE  /\ Len(s) \in Nat /\ DOMAIN s = 1 .. Len(s)
         /\ DOMAIN Append(s, r) = 1 .. Len(s) + 1 /\ Len(Append(s, r)) = Len(s) + 1
         /\ \A n \in 1 .. Len(s) : Append(s, r)[n] = s[n]
         /\ Append(s, r)[Len(s) + 1] = r
<1>1. s \in Seq(S \cup {r}) /\ r \in S \cup {r}
  <2>1. Len(s) \in Nat /\ s \in [1 .. Len(s) -> S]
    BY LenProperties
  <2>2. s \in [1 .. Len(s) -> S \cup {r}]
    BY <2>1
  <2> QED BY <2>1, <2>2, SeqDef
<1>2. Len(s) \in Nat /\ DOMAIN s = 1 .. Len(s)
  BY LenProperties
<1> QED BY <1>1, <1>2, AppendProperties

(* The rows of a family after a step: the old ones, and at most the row of *)
(* the rendered endpoint behind them.                                      *)
LEMMA RowAfterStep ==
  ASSUME TypeOK, Step, ~Answer, NEW fam \in Families, NEW n \in DOMAIN body'[fam]
  PROVE  \/ n \in DOMAIN body[fam] /\ body'[fam][n] = body[fam][n]
         \/ /\ body' # body /\ fam \in Exported
            /\ \A m \in DOMAIN body[fam] : m < n
            /\ body'[fam][n] = RowOf(NextInterface, Rendered, fam)
<1> DEFINE r == RowOf(NextInterface, Rendered, fam)
<1>1. CASE body'[fam] = body[fam]
  BY <1>1
<1>2. CASE body'[fam] # body[fam]
  <2>1. body' # body /\ fam \in Exported /\ body'[fam] = Append(body[fam], r)
    BY <1>2, RowsGrow
  <2>2. body[fam] \in Seq(Samples)
    BY DEF TypeOK
  <2> HIDE DEF r
  <2>3. /\ Len(body[fam]) \in Nat /\ DOMAIN body[fam] = 1 .. Len(body[fam])
        /\ DOMAIN body'[fam] = 1 .. Len(body[fam]) + 1
        /\ \A m \in 1 .. Len(body[fam]) : body'[fam][m] = body[fam][m]
        /\ body'[fam][Len(body[fam]) + 1] = r
    BY <2>1, <2>2, AppendRow
  <2>4. CASE n \in 1 .. Len(body[fam])
    BY <2>3, <2>4
  <2>5. CASE n = Len(body[fam]) + 1
    BY <2>1, <2>3, <2>5 DEF r
  <2> QED BY <2>3, <2>4, <2>5
<1> QED BY <1>1, <1>2

(***************************************************************************)
(* Rows are grouped by interface. What is inductive: nothing is rendered   *)
(* before every dump is in, and every row comes from an interface no later *)
(* than those that still have endpoints to render.                         *)
(***************************************************************************)
RowsBeforePending ==
  \A fam \in Families : \A n \in DOMAIN body[fam] : \A j \in Pending : body[fam][n].iface <= j

RowsInv ==
  /\ TypeOK
  /\ pc \in {"idle", "read", "spawn", "dump"} => body = NoBody
  /\ RowsBeforePending
  /\ RowsGrouped

LEMMA NoRows ==
  ASSUME body = NoBody
  PROVE  RowsBeforePending /\ RowsGrouped
BY DEF NoBody, RowsBeforePending, RowsGrouped

LEMMA RenderKeepsRows ==
  ASSUME RowsInv, TypeOK', RenderEndpoint
  PROVE  RowsBeforePending' /\ RowsGrouped'
<1> DEFINE i == NextInterface
<1>1. TypeOK /\ Step /\ ~Answer
  BY DEF RowsInv, Step, RenderEndpoint, Answer
<1>2. /\ i \in Interfaces /\ i \in Pending /\ \A j \in Pending : i <= j
      /\ acc' = [acc EXCEPT ![i] = Tail(@)]
  BY <1>1, RenderedEndpoint
<1>3. ASSUME NEW fam \in Families, NEW n \in DOMAIN body'[fam]
      PROVE  \/ n \in DOMAIN body[fam] /\ body'[fam][n] = body[fam][n]
             \/ (\A m \in DOMAIN body[fam] : m < n) /\ body'[fam][n].iface = i
  <2>1. RowOf(i, Rendered, fam).iface = i
    BY DEF RowOf
  <2>2. \/ n \in DOMAIN body[fam] /\ body'[fam][n] = body[fam][n]
        \/ (\A m \in DOMAIN body[fam] : m < n) /\ body'[fam][n] = RowOf(i, Rendered, fam)
    BY <1>1, <1>3, RowAfterStep
  <2> QED BY <2>1, <2>2
<1> HIDE DEF i
<1>4. Pending' \subseteq Pending
  <2> SUFFICES ASSUME NEW j \in Pending' PROVE j \in Pending
    OBVIOUS
  <2>1. j \in Interfaces /\ acc'[j] # <<>>
    BY DEF Pending
  <2>2. CASE j = i
    BY <1>2, <2>2
  <2>3. CASE j # i
    BY <1>1, <1>2, <2>1, <2>3 DEF Pending, TypeOK
  <2> QED BY <2>2, <2>3
<1>5. RowsBeforePending'
  <2> SUFFICES ASSUME NEW fam \in Families, NEW n \in DOMAIN body'[fam], NEW j \in Pending'
               PROVE  body'[fam][n].iface <= j
    BY DEF RowsBeforePending
  <2> QED BY <1>2, <1>3, <1>4 DEF RowsInv, RowsBeforePending
<1>6. RowsGrouped'
  <2> SUFFICES ASSUME NEW fam \in Families, NEW m \in DOMAIN body'[fam], NEW n \in DOMAIN body'[fam], m < n
               PROVE  body'[fam][m].iface <= body'[fam][n].iface
    BY DEF RowsGrouped
  <2>1. m \in Nat /\ n \in Nat
    <3>1. body'[fam] \in Seq(Samples)'
      BY DEF TypeOK
    <3> QED BY <3>1, LenProperties
  <2>2. CASE n \in DOMAIN body[fam] /\ body'[fam][n] = body[fam][n]
    <3>1. m \in DOMAIN body[fam] /\ body'[fam][m] = body[fam][m]
      <4>1. ~ \A l \in DOMAIN body[fam] : l < m
        BY <2>1, <2>2
      <4> QED BY <1>3, <4>1
    <3> QED BY <2>2, <3>1 DEF RowsInv, RowsGrouped
  <2>3. CASE (\A l \in DOMAIN body[fam] : l < n) /\ body'[fam][n].iface = i
    <3>1. CASE m \in DOMAIN body[fam] /\ body'[fam][m] = body[fam][m]
      BY <1>2, <2>3, <3>1 DEF RowsInv, RowsBeforePending
    <3>2. CASE body'[fam][m].iface = i
      <4>1. i <= i
        BY <1>2, ConstantsType
      <4> QED BY <2>3, <3>2, <4>1
    <3> QED BY <1>3, <3>1, <3>2
  <2> QED BY <1>3, <2>2, <2>3
<1> QED BY <1>5, <1>6

LEMMA NextRows ==
  ASSUME RowsInv, [Next]_vars
  PROVE  RowsInv'
<1>1. TypeOK'
  BY NextType DEF RowsInv
<1>2. ASSUME UNCHANGED <<acc, body>>
      PROVE  RowsBeforePending' /\ RowsGrouped'
  BY <1>2 DEF RowsInv, RowsBeforePending, RowsGrouped, Pending
<1>3. ASSUME body' = NoBody
      PROVE  RowsInv'
  BY <1>1, <1>3 DEF RowsInv, NoBody, RowsBeforePending, RowsGrouped
<1>4. CASE UNCHANGED <<pc, acc, body>>
  BY <1>1, <1>2, <1>4 DEF RowsInv
<1>5. CASE Begin \/ ReadFile \/ ParseConfig \/ Spawn \/ DumpDevice \/ Collect
  <2>1. body' = body /\ body = NoBody
    BY <1>5 DEF Begin, ReadFile, ParseConfig, Spawn, DumpDevice, Collect, RowsInv
  <2> QED BY <1>3, <2>1
<1>6. CASE BeginRender \/ Finish
  <2>1. UNCHANGED <<acc, body>> /\ pc' \in {"render", "answer"}
    BY <1>6 DEF BeginRender, Finish, End
  <2> QED BY <1>1, <1>2, <2>1 DEF RowsInv
<1>7. CASE RenderEndpoint
  <2>1. pc' \in {"render", "answer"}
    BY <1>7 DEF RenderEndpoint, End
  <2> QED BY <1>1, <1>7, <2>1, RenderKeepsRows DEF RowsInv
<1>8. CASE Answer
  BY <1>3, <1>8 DEF Answer, DropLocals
<1>9. CASE Environment
  <2>1. UNCHANGED <<pc, acc, body>>
    BY <1>9, EnvironmentFrame DEF RowsInv
  <2> QED BY <1>4, <2>1
<1>10. CASE UNCHANGED vars
  BY <1>4, <1>10 DEF vars
<1> QED BY <1>5, <1>6, <1>7, <1>8, <1>9, <1>10 DEF Next, Step

(* GroupedCorrect: in whatever order the arguments name the interfaces and *)
(* wg dumps them, the samples of an interface are together and interfaces  *)
(* come in name order in every metric family (wireguard.rs:204-216).       *)
THEOREM GroupedCorrect == Spec => []RowsGrouped
<1>1. Init => RowsInv
  BY InitType, NoRows DEF Init, RowsInv
<1>2. RowsInv => RowsGrouped
  BY DEF RowsInv
<1> QED BY <1>1, <1>2, NextRows, PTL DEF Spec

(***************************************************************************)
(* Delays. Nothing is rendered before the last dump, whose moment is past. *)
(* The two families grow together, so that the n-th delay and the n-th     *)
(* handshake are of the same endpoint; the row added last was taken at the *)
(* present moment, which is no earlier than any before it.                 *)
(***************************************************************************)
DelaysMatch ==
  IF options.delay THEN Len(body["delay"]) = Len(body["handshake"]) ELSE body["delay"] = <<>>

TakenInWindow ==
  "stepped" \notin noted =>
    \A n \in DOMAIN body["delay"] :
      /\ dumped <= TakenAt(n) /\ TakenAt(n) <= now
      /\ \A m \in 1 .. n : TakenAt(m) <= TakenAt(n)

DelayInv ==
  /\ TypeOK
  /\ pc \in {"idle", "read", "spawn", "dump"} => body = NoBody
  /\ (pc # "idle" /\ "stepped" \notin noted) => dumped <= now
  /\ DelaysMatch
  /\ TakenInWindow

LEMMA NoDelays ==
  ASSUME body = NoBody
  PROVE  DelaysMatch /\ TakenInWindow
<1>1. body["delay"] = <<>> /\ body["handshake"] = <<>>
  BY DEF NoBody, Families
<1> QED BY <1>1 DEF DelaysMatch, TakenInWindow

(* The moments at which the rows were taken are numbers.                   *)
LEMMA TakenAtType ==
  ASSUME TypeOK, DelaysMatch, NEW n \in DOMAIN body["delay"]
  PROVE  /\ options.delay /\ n \in 1 .. Len(body["delay"]) /\ Len(body["delay"]) \in Nat
         /\ TakenAt(n) \in Nat
         /\ \A m \in 1 .. n : m \in DOMAIN body["delay"]
<1>1. body["delay"] \in Seq(Samples) /\ body["handshake"] \in Seq(Samples)
  BY DEF TypeOK, Families
<1>2. options.delay
  BY DEF DelaysMatch
<1>3. /\ n \in 1 .. Len(body["delay"]) /\ n \in 1 .. Len(body["handshake"])
      /\ DOMAIN body["delay"] = 1 .. Len(body["delay"]) /\ Len(body["delay"]) \in Nat
  BY <1>1, <1>2, LenProperties DEF DelaysMatch
<1>4. body["delay"][n] \in Samples /\ body["handshake"][n] \in Samples
  BY <1>1, <1>3, ElementOfSeq
<1> QED BY <1>2, <1>3, <1>4 DEF TakenAt, Samples

LEMMA RenderKeepsDelays ==
  ASSUME DelayInv, TypeOK', RenderEndpoint, body' # body
  PROVE  DelaysMatch' /\ TakenInWindow'
<1>1. TypeOK /\ Step /\ ~Answer /\ DelaysMatch /\ TakenInWindow /\ pc # "idle"
  BY DEF DelayInv, Step, RenderEndpoint, Answer
<1>2. UNCHANGED <<options, now, dumped, noted>>
  BY <1>1, ProgramFrame DEF env, DumpDevice, RenderEndpoint
<1> DEFINE d == body["delay"]
           h == body["handshake"]
           r(fam) == RowOf(NextInterface, Rendered, fam)
<1>3. d \in Seq(Samples) /\ h \in Seq(Samples)
  BY <1>1 DEF TypeOK, Families
<1>4. CASE ~options.delay
  <2>1. body'["delay"] = d
    BY <1>1, <1>4, RowsGrow DEF Families, Exported
  <2>2. body'["delay"] = <<>>
    BY <1>1, <1>4, <2>1 DEF DelaysMatch
  <2> QED BY <1>2, <1>4, <2>2 DEF DelaysMatch, TakenInWindow
<1>5. CASE options.delay
  <2>1. body'["delay"] = Append(d, r("delay")) /\ body'["handshake"] = Append(h, r("handshake"))
    BY <1>1, <1>5, RowsGrow DEF Families, Exported
  <2>2. r("handshake").value + r("delay").value = now
    <3>1. Rendered.peer.hs \in Nat /\ now \in Nat
      BY <1>1, RowsGrow DEF Remotes, Peers, TypeOK
    <3>2. r("handshake").value = Rendered.peer.hs /\ r("delay").value = now - Rendered.peer.hs
      BY DEF RowOf, Value
    <3> QED BY <3>1, <3>2
  <2>3. PICK l \in Nat : Len(d) = l /\ Len(h) = l /\ DOMAIN d = 1 .. l
    <3>1. Len(d) \in Nat /\ Len(h) = Len(d) /\ DOMAIN d = 1 .. Len(d)
      BY <1>1, <1>3, <1>5, LenProperties DEF DelaysMatch
    <3> HIDE DEF d, h
    <3> QED BY <3>1
  <2> HIDE DEF r, d, h
  <2>4. /\ DOMAIN body'["delay"] = 1 .. l + 1 /\ Len(body'["delay"]) = l + 1
        /\ \A n \in 1 .. l : body'["delay"][n] = d[n]
        /\ body'["delay"][l + 1] = r("delay")
    <3>1. \A row : /\ DOMAIN Append(d, row) = 1 .. Len(d) + 1 /\ Len(Append(d, row)) = Len(d) + 1
                   /\ \A n \in 1 .. Len(d) : Append(d, row)[n] = d[n]
                   /\ Append(d, row)[Len(d) + 1] = row
      BY <1>3, AppendRow
    <3> QED BY <2>1, <2>3, <3>1
  <2>5. /\ Len(body'["handshake"]) = l + 1
        /\ \A n \in 1 .. l : body'["handshake"][n] = h[n]
        /\ body'["handshake"][l + 1] = r("handshake")
    <3>1. \A row : /\ Len(Append(h, row)) = Len(h) + 1
                   /\ \A n \in 1 .. Len(h) : Append(h, row)[n] = h[n]
                   /\ Append(h, row)[Len(h) + 1] = row
      BY <1>3, AppendRow
    <3> QED BY <2>1, <2>3, <3>1
  <2>6. DelaysMatch'
    BY <1>2, <1>5, <2>4, <2>5 DEF DelaysMatch
  <2>7. /\ \A n \in 1 .. l : TakenAt(n)' = TakenAt(n)
        /\ TakenAt(l + 1)' = now
    BY <2>2, <2>4, <2>5 DEF TakenAt, d, h
  <2>8. TakenInWindow'
    <3> SUFFICES ASSUME "stepped" \notin noted, NEW n \in 1 .. l + 1
                 PROVE  /\ dumped <= TakenAt(n)' /\ TakenAt(n)' <= now
                        /\ \A m \in 1 .. n : TakenAt(m)' <= TakenAt(n)'
      BY <1>2, <2>4 DEF TakenInWindow
    <3>1. dumped <= now /\ now \in Nat /\ now <= now
      BY <1>1 DEF DelayInv, TypeOK
    <3>2. \A m \in 1 .. l : /\ dumped <= TakenAt(m) /\ TakenAt(m) <= now
                            /\ \A j \in 1 .. m : TakenAt(j) <= TakenAt(m)
      BY <1>1, <2>3 DEF TakenInWindow, d
    <3>3. CASE n \in 1 .. l
      <4>1. \A m \in 1 .. n : m \in 1 .. l
        BY <2>3, <3>3
      <4> QED BY <2>7, <3>2, <3>3, <4>1
    <3>4. CASE n = l + 1
      <4>1. \A m \in 1 .. n : m \in 1 .. l \/ m = l + 1
        BY <2>3, <3>4
      <4> QED BY <2>7, <3>1, <3>2, <3>4, <4>1
    <3> QED BY <2>3, <3>3, <3>4
  <2> QED BY <2>6, <2>8
<1> QED BY <1>4, <1>5

LEMMA NextDelays ==
  ASSUME DelayInv, [Next]_vars
  PROVE  DelayInv'
<1>1. TypeOK'
  BY NextType DEF DelayInv
<1>2. ASSUME UNCHANGED <<options, body, dumped, now, noted>>
      PROVE  DelaysMatch' /\ TakenInWindow'
  BY <1>2 DEF DelayInv, DelaysMatch, TakenInWindow, TakenAt
<1>3. ASSUME body' = NoBody
      PROVE  DelaysMatch' /\ TakenInWindow'
  BY <1>3 DEF NoBody, DelaysMatch, TakenInWindow, Families
<1>4. CASE Begin
  <2>1. body' = NoBody /\ pc' = "read" /\ now' = now /\ dumped' = now
    BY <1>4 DEF Begin, DelayInv, env
  <2>2. now <= now
    BY DEF DelayInv, TypeOK
  <2> QED BY <1>1, <1>3, <2>1, <2>2 DEF DelayInv
<1>5. CASE Answer
  <2>1. body' = NoBody /\ pc' = "idle"
    BY <1>5 DEF Answer, DropLocals
  <2> QED BY <1>1, <1>3, <2>1 DEF DelayInv
<1>6. CASE Step /\ ~Answer
  <2>1. /\ UNCHANGED <<options, now, noted>> /\ pc # "idle" /\ pc' # "idle"
        /\ dumped' = IF DumpDevice THEN now ELSE dumped
    BY <1>6, ProgramFrame DEF env
  <2>2. ("stepped" \notin noted => dumped <= now)'
    <3>1. now <= now
      BY DEF DelayInv, TypeOK
    <3> QED BY <2>1, <3>1 DEF DelayInv
  <2>3. pc' \in {"idle", "read", "spawn", "dump"} => body' = NoBody
    <3>1. CASE RenderEndpoint \/ BeginRender \/ Finish
      BY <3>1 DEF RenderEndpoint, BeginRender, Finish, End, DelayInv
    <3>2. CASE ReadFile \/ ParseConfig \/ Spawn \/ DumpDevice \/ Collect
      BY <3>2 DEF ReadFile, ParseConfig, Spawn, DumpDevice, Collect, DelayInv
    <3> QED BY <1>6, <3>1, <3>2 DEF Step
  <2>4. DelaysMatch' /\ TakenInWindow'
    <3>1. CASE DumpDevice
      BY <1>3, <3>1 DEF DumpDevice, DelayInv
    <3>2. CASE ~DumpDevice /\ body' = body
      BY <1>2, <2>1, <3>2
    <3>3. CASE ~DumpDevice /\ body' # body
      BY <1>1, <1>6, <3>3, RowsGrow, RenderKeepsDelays DEF DelayInv
    <3> QED BY <3>1, <3>2, <3>3
  <2> QED BY <1>1, <2>1, <2>2, <2>3, <2>4 DEF DelayInv
<1>7. CASE Environment
  <2>1. UNCHANGED <<options, pc, body, dumped>>
    BY <1>7, EnvironmentFrame DEF DelayInv
  <2>2. CASE pc = "idle"
    BY <1>1, <1>3, <2>1, <2>2 DEF DelayInv
  <2>3. CASE pc # "idle"
    <3>1. noted \subseteq noted' /\ (now <= now' \/ "stepped" \in noted')
      BY <1>7, <2>3, EnvironmentFrame, ClockForward DEF DelayInv
    <3>2. DelaysMatch'
      BY <2>1 DEF DelayInv, DelaysMatch
    <3>3. now \in Nat /\ now' \in Nat /\ dumped \in Nat
      BY <1>1 DEF DelayInv, TypeOK
    <3>4. "stepped" \notin noted' => dumped <= now'
      BY <2>3, <3>1, <3>3 DEF DelayInv
    <3>5. TakenInWindow'
      <4> SUFFICES ASSUME "stepped" \notin noted', NEW n \in DOMAIN body["delay"]
                   PROVE  /\ dumped <= TakenAt(n) /\ TakenAt(n) <= now'
                          /\ \A m \in 1 .. n : TakenAt(m) <= TakenAt(n)
        BY <2>1 DEF TakenInWindow, TakenAt
      <4>1. /\ dumped <= TakenAt(n) /\ TakenAt(n) <= now
            /\ \A m \in 1 .. n : TakenAt(m) <= TakenAt(n)
        BY <3>1 DEF DelayInv, TakenInWindow
      <4>2. TakenAt(n) \in Nat
        BY TakenAtType DEF DelayInv
      <4>3. TakenAt(n) <= now'
        BY <3>1, <3>3, <4>1, <4>2
      <4> QED BY <4>1, <4>3
    <3> QED BY <1>1, <2>1, <2>3, <3>2, <3>4, <3>5 DEF DelayInv
  <2> QED BY <2>2, <2>3
<1>8. CASE UNCHANGED vars
  <2>1. UNCHANGED <<options, pc, body, dumped, now, noted>>
    BY <1>8 DEF vars, env, history
  <2> QED BY <1>1, <1>2, <2>1 DEF DelayInv
<1> QED BY <1>4, <1>5, <1>6, <1>7, <1>8 DEF Next

(* The delay of a peer that has not shaken hands is the whole time since   *)
(* the epoch, which no delay of an earlier row exceeds.                    *)
LEMMA TakenGivesDelays == DelayInv => DelayInWindow
<1> SUFFICES ASSUME DelayInv, "stepped" \notin noted, NEW n \in DOMAIN body["delay"]
             PROVE  /\ Shaken(n) => /\ dumped <= TakenAt(n) /\ TakenAt(n) <= now
                                    /\ \A m \in 1 .. n : Shaken(m) => TakenAt(m) <= TakenAt(n)
                    /\ ~Shaken(n) => \A m \in 1 .. n : body["delay"][m].value <= body["delay"][n].value
  BY DEF DelayInWindow
<1>1. /\ dumped <= TakenAt(n) /\ TakenAt(n) <= now
      /\ \A m \in 1 .. n : TakenAt(m) <= TakenAt(n)
  BY DEF DelayInv, TakenInWindow
<1>2. ASSUME NEW m \in DOMAIN body["delay"]
      PROVE  body["delay"][m].value \in Nat /\ body["handshake"][m].value \in Nat
  <2>1. body["delay"] \in Seq(Samples) /\ body["handshake"] \in Seq(Samples)
    BY DEF DelayInv, TypeOK, Families
  <2>2. m \in 1 .. Len(body["delay"]) /\ m \in 1 .. Len(body["handshake"])
    BY <1>2, TakenAtType DEF DelayInv, DelaysMatch
  <2>3. body["delay"][m] \in Samples /\ body["handshake"][m] \in Samples
    BY <2>1, <2>2, ElementOfSeq
  <2> QED BY <2>3 DEF Samples
<1>3. \A m \in 1 .. n : m \in DOMAIN body["delay"]
  BY TakenAtType DEF DelayInv
<1>4. ASSUME ~Shaken(n), NEW m \in 1 .. n
      PROVE  body["delay"][m].value <= body["delay"][n].value
  <2>1. body["handshake"][n].value = 0
    BY <1>4 DEF Shaken
  <2>2. TakenAt(m) <= TakenAt(n)
    BY <1>1
  <2>3. body["delay"][n].value \in Nat /\ body["delay"][m].value \in Nat /\ body["handshake"][m].value \in Nat
    BY <1>2, <1>3
  <2> QED BY <2>1, <2>2, <2>3 DEF TakenAt
<1> QED BY <1>1, <1>4

(* DelayCorrect: unless the clock is stepped back, the handshake time and  *)
(* the delay of a peer that has shaken hands add up to a moment after the  *)
(* last dump, and later rows are taken no earlier, however many peers are  *)
(* rendered while the clock runs; the delay of a peer that has not is the  *)
(* time since the epoch (wireguard.rs:314-327).                            *)
THEOREM DelayCorrect == Spec => []DelayInWindow
<1>1. Init => DelayInv
  BY InitType, NoDelays DEF Init, DelayInv
<1> QED BY <1>1, TakenGivesDelays, NextDelays, PTL DEF Spec

(***************************************************************************)
(* No ghosts, and no failure without a cause. Both speak of what the       *)
(* history noted; the endpoints on their way through wg's output and the   *)
(* accumulator must already be explained by it, because the renderer finds *)
(* in them what makes it panic.                                            *)
(***************************************************************************)
Explained(i, e) ==
  /\ <<i, e.key>> \in met /\ i \in Requested
  /\ e.peer.ips = "none" => "bare" \in noted
  /\ now < e.peer.hs => {"ahead", "stepped"} \cap noted # {}

AllExplained(endpoints) ==
  \A i \in Interfaces : \A n \in 1 .. Len(endpoints[i]) :
    endpoints[i][n] # Local => Explained(i, endpoints[i][n])

Resting == pc = "idle" => /\ devs = {} /\ stdout = NoEndpoints
                          /\ acc = NoEndpoints /\ body = NoBody
Watched == pc # "idle" => Present \subseteq met /\ Conditions \subseteq noted

Base == TypeOK /\ Resting /\ Watched

CauseInv ==
  /\ TypeOK
  /\ Resting
  /\ Watched
  /\ devs \subseteq Requested
  /\ AllExplained(stdout)
  /\ AllExplained(acc)
  /\ NoGhosts
  /\ FailureHasCause

LEMMA NothingToExplain == AllExplained(NoEndpoints)
<1>1. ASSUME NEW i \in Interfaces PROVE 1 .. Len(NoEndpoints[i]) = {}
  BY DEF NoEndpoints
<1> QED BY <1>1 DEF AllExplained, NoEndpoints

(* What wg prints of a peer is explained by what is true at that moment.   *)
LEMMA KernelExplained ==
  ASSUME TypeOK, Watched, pc # "idle", NEW i \in Requested, i \in Interfaces,
         NEW e \in Remotes, e.peer = kernel[i][e.key]
  PROVE  Explained(i, e)
<1>1. e.key \in Keys /\ e.peer # NoPeer
  BY ConstantsType DEF Remotes
<1>2. <<i, e.key>> \in Present
  BY <1>1 DEF Present
<1> DEFINE p == <<i, e.key>>
<1>3. p \in Present /\ kernel[p[1]][p[2]] = e.peer
  BY <1>2
<1> HIDE DEF p
<1>4. e.peer.ips = "none" => "bare" \in Conditions
  BY <1>3 DEF Conditions
<1>5. now < e.peer.hs => "ahead" \in Conditions
  <2>1. now \in Nat /\ e.peer.hs \in Nat
    BY DEF TypeOK, Remotes, Peers
  <2>2. now < e.peer.hs => e.peer.hs > now
    BY <2>1
  <2> QED BY <1>3, <2>2 DEF Conditions
<1> QED BY <1>2, <1>4, <1>5 DEF Watched, Explained

(* The endpoints of a step: those there were, or what wg printed of the    *)
(* kernel's peers.                                                         *)
LEMMA OutputAfterStep ==
  ASSUME TypeOK, TypeOK', Step, ~Answer, NEW i \in Interfaces, NEW n \in 1 .. Len(stdout'[i]),
         stdout'[i][n] # Local
  PROVE  \/ n \in 1 .. Len(stdout[i]) /\ stdout'[i][n] = stdout[i][n]
         \/ /\ i \in devs /\ stdout'[i][n] \in Remotes
            /\ stdout'[i][n].peer = kernel[i][stdout'[i][n].key]
<1>1. CASE stdout' = stdout
  BY <1>1
<1>2. CASE Collect
  <2>1. 1 .. Len(stdout'[i]) = {}
    BY <1>2 DEF Collect, NoEndpoints
  <2> QED BY <2>1
<1>3. CASE DumpDevice /\ stdout' # stdout
  <2>1. PICK d \in devs : \E ks \in SetToSeqs(PeersOf(d)) : stdout' = [stdout EXCEPT ![d] =
          <<Local>> \o [m \in DOMAIN ks |-> [key |-> ks[m], peer |-> kernel[d][ks[m]]]]]
    BY <1>3 DEF DumpDevice
  <2>2. PICK ks \in SetToSeqs(PeersOf(d)) : stdout' = [stdout EXCEPT ![d] =
          <<Local>> \o [m \in DOMAIN ks |-> [key |-> ks[m], peer |-> kernel[d][ks[m]]]]]
    BY <2>1
  <2> DEFINE out == <<Local>> \o [m \in DOMAIN ks |-> [key |-> ks[m], peer |-> kernel[d][ks[m]]]]
  <2>3. d \in Interfaces /\ stdout \in [Interfaces -> Seq(Endpoints)]
    BY DEF TypeOK
  <2>4. out \in Seq(Endpoints) /\ \A m \in 1 .. Len(out) :
          out[m] = Local \/ (out[m].key \in Keys /\ out[m].peer = kernel[d][out[m].key])
    BY <2>3, DumpType
  <2> HIDE DEF out
  <2>5. stdout' = [stdout EXCEPT ![d] = out]
    BY <2>2 DEF out
  <2>6. CASE i = d
    <3>1. stdout'[i] = out
      BY <2>3, <2>5, <2>6
    <3>2. out[n] \in Endpoints
      BY <2>4, <3>1, ElementOfSeq
    <3> QED BY <2>4, <2>6, <3>1, <3>2 DEF Endpoints
  <2>7. CASE i # d
    BY <2>3, <2>5, <2>7
  <2> QED BY <2>6, <2>7
<1>4. CASE ~DumpDevice /\ ~Collect
  <2>1. stdout' = stdout
    BY <1>4 DEF Step, ReadFile, ParseConfig, Spawn, BeginRender, RenderEndpoint, Finish
  <2> QED BY <2>1
<1> QED BY <1>1, <1>2, <1>3, <1>4

LEMMA AccAfterStep ==
  ASSUME TypeOK, Step, ~Answer, NEW i \in Interfaces, NEW n \in 1 .. Len(acc'[i])
  PROVE  \/ \E m \in 1 .. Len(acc[i]) : acc'[i][n] = acc[i][m]
         \/ \E m \in 1 .. Len(stdout[i]) : acc'[i][n] = stdout[i][m]
<1>1. CASE acc' = acc
  BY <1>1
<1>2. CASE Collect /\ acc' # acc
  <2> DEFINE all == Merge(acc, stdout)
  <2>1. \A m \in 1 .. Len(all[i]) :
          \/ \E l \in 1 .. Len(acc[i]) : all[i][m] = acc[i][l]
          \/ \E l \in 1 .. Len(stdout[i]) : all[i][m] = stdout[i][l]
    BY MergeType DEF TypeOK
  <2>2. acc' = all
    BY <1>2 DEF Collect
  <2> HIDE DEF all
  <2> QED BY <2>1, <2>2
<1>3. CASE RenderEndpoint
  <2> DEFINE j == NextInterface
  <2>1. /\ j \in Interfaces /\ acc' = [acc EXCEPT ![j] = Tail(@)]
        /\ \A m \in 1 .. Len(Tail(acc[j])) :
             m + 1 \in 1 .. Len(acc[j]) /\ Tail(acc[j])[m] = acc[j][m + 1]
    BY <1>3, RenderedEndpoint
  <2> HIDE DEF j
  <2>2. CASE i = j
    BY <2>1, <2>2 DEF TypeOK
  <2>3. CASE i # j
    BY <2>1, <2>3 DEF TypeOK
  <2> QED BY <2>2, <2>3
<1>4. CASE ~Collect /\ ~RenderEndpoint
  <2>1. acc' = acc
    BY <1>4 DEF Step, ReadFile, ParseConfig, Spawn, DumpDevice, BeginRender, Finish
  <2> QED BY <2>1
<1> QED BY <1>1, <1>2, <1>3, <1>4

(* wg is only asked about interfaces the command line covers.              *)
LEMMA DevicesRequested ==
  ASSUME TypeOK, Spawn
  PROVE  devs' \subseteq Requested \/ devs' = devs
<1> DEFINE t == Targets[next]
<1>1. devs' = devs \/ devs' = {} \/ devs' = Devices(t)
  BY DEF Spawn
<1>2. next \in DOMAIN Targets /\ t \in Interfaces \cup {All}
  <2>1. next \in 1 .. Len(Targets) /\ Targets \in Seq(Interfaces \cup {All})
    BY TargetsType, LenProperties DEF Spawn, TypeOK
  <2> QED BY <2>1, ElementOfSeq, LenProperties
<1>3. t \in Range(Targets)
  BY <1>2 DEF Range
<1> HIDE DEF t
<1>4. CASE t = All
  BY <1>1, <1>3, <1>4 DEF Requested, Devices, TypeOK
<1>5. CASE t # All
  <2>1. Devices(t) = {t}
    BY <1>5 DEF Devices
  <2>2. t \in Requested
    BY <1>2, <1>3, <1>5 DEF Requested
  <2> QED BY <1>1, <2>1, <2>2
<1> QED BY <1>4, <1>5

(* A step of the program that ends the scrape has a cause.                 *)
LEMMA StepHasCause ==
  ASSUME CauseInv, Step, ~Answer
  PROVE  FailureHasCause'
<1>1. TypeOK /\ UNCHANGED <<options, env, met, noted>> /\ pc # "idle"
  BY ProgramFrame DEF CauseInv
<1>2. Conditions \subseteq noted /\ noted' = noted /\ met' = met /\ options' = options
  BY <1>1 DEF CauseInv, Watched
<1>3. Targets' = Targets
  BY <1>2 DEF Targets
<1>4. ASSUME pc' = "answer" => outcome' = "ok"
      PROVE  FailureHasCause'
  BY <1>4 DEF FailureHasCause
<1>5. CASE ReadFile
  <2>1. CASE files[options.files[fileNo]] = Unreadable
    <3>1. fileNo \in 1 .. Len(options.files) /\ options.files \in Seq(FileNames)
      BY <1>1, <1>5, ConstantsType DEF ReadFile, TypeOK, Options
    <3>2. options.files[fileNo] \in FileNames
      BY <3>1, ElementOfSeq
    <3>3. "unreadable" \in Conditions
      BY <2>1, <3>2 DEF Conditions
    <3>4. outcome' = "error"
      BY <1>5, <2>1 DEF ReadFile, End
    <3> QED BY <1>2, <3>3, <3>4 DEF FailureHasCause
  <2>2. CASE files[options.files[fileNo]] # Unreadable
    BY <1>4, <1>5, <2>2 DEF ReadFile
  <2> QED BY <2>1, <2>2
<1>6. CASE ParseConfig
  <2>1. CASE ParseOutcome(text) = "ok"
    BY <1>4, <1>6, <2>1 DEF ParseConfig
  <2>2. CASE ParseOutcome(text) # "ok"
    <3>1. outcome' = ParseOutcome(text) /\ text' = text
      BY <1>6, <2>2 DEF ParseConfig, End
    <3>2. ParseOutcome(text)' = ParseOutcome(text)
      BY <3>1
    <3> QED BY <3>1, <3>2 DEF FailureHasCause
  <2> QED BY <2>1, <2>2
<1>7. CASE Spawn
  <2>1. CASE wg = "absent" /\ ~options.sudo
    <3>1. "absent" \in Conditions
      BY <2>1 DEF Conditions, Statuses
    <3>2. outcome' = "error"
      BY <1>7, <2>1 DEF Spawn, End
    <3> QED BY <1>2, <2>1, <3>1, <3>2 DEF FailureHasCause
  <2>2. CASE ~(wg = "absent" /\ ~options.sudo)
    BY <1>4, <1>7, <2>2 DEF Spawn
  <2> QED BY <2>1, <2>2
<1>8. CASE DumpDevice
  BY <1>4, <1>8 DEF DumpDevice
<1>9. CASE Collect
  <2>1. NamesInFront(Targets[next]) = 1
    BY DEF NamesInFront, Inject
  <2> QED BY <1>4, <1>9, <2>1 DEF Collect
<1>10. CASE BeginRender
  <2>1. CASE next = 1
    <3>1. Targets \in Seq(Interfaces \cup {All}) /\ ~(1 <= Len(Targets))
      BY <1>1, <1>10, <2>1, TargetsType, LenProperties DEF BeginRender
    <3>2. Targets = <<>>
      BY <3>1, LenProperties, EmptySeq
    <3>3. outcome' = "panic"
      BY <1>10, <2>1 DEF BeginRender, End
    <3> QED BY <1>3, <3>2, <3>3 DEF FailureHasCause
  <2>2. CASE next # 1
    BY <1>4, <1>10, <2>2 DEF BeginRender
  <2> QED BY <2>1, <2>2
<1>11. CASE RenderEndpoint
  <2> DEFINE e == Rendered
             i == NextInterface
  <2>1. CASE e # Local /\ RenderPanics(e)
    <3>1. e \in Remotes /\ Explained(i, e)
      BY <1>1, <1>11, <2>1, RenderedEndpoint DEF CauseInv, AllExplained, Endpoints
    <3>2. outcome' = "panic" /\ table' = table
      BY <1>11, <2>1 DEF RenderEndpoint, Rendered, End, reading
    <3>3. ASSUME table[e.key].tag = "json", table[e.key].arg = "nested"
          PROVE  \E p \in met : table[p[2]] = [tag |-> "json", arg |-> "nested"]
      <4>1. table[e.key] \in Descriptions
        BY <1>1, <3>1 DEF TypeOK, Remotes
      <4>2. table[e.key] = [tag |-> "json", arg |-> "nested"]
        <5> HIDE DEF e
        <5> QED BY <3>3, <4>1 DEF Descriptions, NoDescription
      <4>3. <<i, e.key>> \in met
        BY <3>1 DEF Explained
      <4>4. <<i, e.key>>[2] = e.key
        OBVIOUS
      <4> QED BY <4>2, <4>3, <4>4
    <3> HIDE DEF e, i
    <3>4. \/ options.split /\ "bare" \in noted
          \/ options.delay /\ {"ahead", "stepped"} \cap noted # {}
          \/ \E p \in met : table[p[2]] = [tag |-> "json", arg |-> "nested"]
      BY <2>1, <3>1, <3>3 DEF RenderPanics, Explained
    <3> QED BY <1>2, <3>2, <3>4 DEF FailureHasCause
  <2>2. CASE ~(e # Local /\ RenderPanics(e))
    <3>1. pc' = "render"
      BY <1>11, <2>2 DEF RenderEndpoint, Rendered
    <3> QED BY <1>4, <3>1
  <2> QED BY <2>1, <2>2
<1>12. CASE Finish
  BY <1>4, <1>12 DEF Finish, End
<1> QED BY <1>5, <1>6, <1>7, <1>8, <1>9, <1>10, <1>11, <1>12 DEF Step

LEMMA StepKeepsCause ==
  ASSUME CauseInv, TypeOK', Step, ~Answer
  PROVE  CauseInv'
<1>1. /\ TypeOK /\ Watched /\ UNCHANGED <<options, env, met, noted>>
      /\ pc # "idle" /\ pc' # "idle"
  BY ProgramFrame DEF CauseInv
<1>2. Resting' /\ Watched'
  BY <1>1 DEF Resting, Watched, Present, Conditions, env
<1>3. Requested' = Requested
  BY <1>1 DEF Requested, Targets
<1>4. ASSUME NEW i \in Interfaces, NEW e, Explained(i, e)
      PROVE  /\ <<i, e.key>> \in met' /\ i \in Requested'
             /\ e.peer.ips = "none" => "bare" \in noted'
             /\ now' < e.peer.hs => {"ahead", "stepped"} \cap noted' # {}
  BY <1>1, <1>3, <1>4 DEF Explained, env
<1>5. (devs \subseteq Requested)'
  <2>1. devs' \subseteq Requested
    <3>1. CASE Spawn
      BY <1>1, <3>1, DevicesRequested DEF CauseInv
    <3>2. CASE ~Spawn
      <4>1. devs' \subseteq devs
        BY <3>2 DEF Step, ReadFile, ParseConfig, DumpDevice, Collect, BeginRender, RenderEndpoint, Finish
      <4> QED BY <4>1 DEF CauseInv
    <3> QED BY <3>1, <3>2
  <2> QED BY <1>3, <2>1
<1>6. AllExplained(stdout)'
  <2> SUFFICES ASSUME NEW i \in Interfaces, NEW n \in 1 .. Len(stdout'[i]), stdout'[i][n] # Local
               PROVE  Explained(i, stdout'[i][n])
    BY <1>4 DEF AllExplained, Explained
  <2>1. CASE n \in 1 .. Len(stdout[i]) /\ stdout'[i][n] = stdout[i][n]
    BY <2>1 DEF CauseInv, AllExplained
  <2>2. CASE /\ i \in devs /\ stdout'[i][n] \in Remotes
             /\ stdout'[i][n].peer = kernel[i][stdout'[i][n].key]
    <3>1. i \in Requested
      BY <2>2 DEF CauseInv
    <3> QED BY <1>1, <2>2, <3>1, KernelExplained
  <2> QED BY <1>1, <2>1, <2>2, OutputAfterStep
<1>7. AllExplained(acc)'
  <2> SUFFICES ASSUME NEW i \in Interfaces, NEW n \in 1 .. Len(acc'[i]), acc'[i][n] # Local
               PROVE  Explained(i, acc'[i][n])
    BY <1>4 DEF AllExplained, Explained
  <2> QED BY <1>1, AccAfterStep DEF CauseInv, AllExplained
<1>8. NoGhosts'
  <2> SUFFICES ASSUME NEW fam \in Families, NEW n \in DOMAIN body'[fam]
               PROVE  /\ <<body'[fam][n].iface, body'[fam][n].key>> \in met
                      /\ body'[fam][n].iface \in Requested
    BY <1>1, <1>3 DEF NoGhosts
  <2>1. CASE n \in DOMAIN body[fam] /\ body'[fam][n] = body[fam][n]
    BY <2>1 DEF CauseInv, NoGhosts
  <2>2. CASE body' # body /\ body'[fam][n] = RowOf(NextInterface, Rendered, fam)
    <3>1. RenderEndpoint /\ Rendered # Local
      BY <1>1, <2>2, RowsGrow, ConstantsType DEF Remotes, Local
    <3>2. Explained(NextInterface, Rendered)
      BY <1>1, <3>1, RenderedEndpoint DEF CauseInv, AllExplained
    <3>3. body'[fam][n].iface = NextInterface /\ body'[fam][n].key = Rendered.key
      BY <2>2 DEF RowOf
    <3> QED BY <3>2, <3>3 DEF Explained
  <2> QED BY <1>1, <2>1, <2>2, RowAfterStep
<1> QED BY <1>2, <1>5, <1>6, <1>7, <1>8, StepHasCause DEF CauseInv

LEMMA EnvironmentKeepsCause ==
  ASSUME CauseInv, TypeOK', Environment
  PROVE  CauseInv'
<1>1. TypeOK /\ UNCHANGED <<options, pc, outcome, reading, devs, stdout, acc, body>>
  BY EnvironmentFrame DEF CauseInv
<1>2. Requested' = Requested /\ Targets' = Targets
  BY <1>1 DEF Requested, Targets
<1>3. Resting' /\ (devs \subseteq Requested)'
  BY <1>1, <1>2 DEF CauseInv, Resting, NoEndpoints, NoBody
<1>4. CASE pc = "idle"
  <2>1. Watched' /\ FailureHasCause'
    BY <1>1, <1>4 DEF Watched, FailureHasCause
  <2>2. stdout' = NoEndpoints /\ acc' = NoEndpoints /\ body' = NoBody
    BY <1>1, <1>4 DEF CauseInv, Resting
  <2>3. NoGhosts'
    BY <2>2 DEF NoGhosts, NoBody
  <2>4. AllExplained(stdout)' /\ AllExplained(acc)'
    <3>1. ASSUME NEW i \in Interfaces PROVE 1 .. Len(NoEndpoints[i]) = {}
      BY DEF NoEndpoints
    <3> QED BY <2>2, <3>1 DEF AllExplained
  <2> QED BY <1>3, <2>1, <2>3, <2>4 DEF CauseInv
<1>5. CASE pc # "idle"
  <2>1. /\ met' = met \cup Present' /\ noted \cup Conditions' \subseteq noted'
        /\ now <= now' \/ "stepped" \in noted'
    BY <1>1, <1>5, EnvironmentFrame, ClockForward
  <2>2. Watched'
    BY <2>1 DEF Watched
  <2>3. ASSUME NEW i \in Interfaces, NEW e \in Endpoints, e # Local, Explained(i, e)
        PROVE  /\ <<i, e.key>> \in met' /\ i \in Requested'
               /\ e.peer.ips = "none" => "bare" \in noted'
               /\ now' < e.peer.hs => {"ahead", "stepped"} \cap noted' # {}
    <3>1. e.peer.hs \in Nat /\ now \in Nat /\ now' \in Nat
      BY <1>1, <2>3 DEF TypeOK, Endpoints, Remotes, Peers
    <3>2. now' < e.peer.hs => now < e.peer.hs \/ "stepped" \in noted'
      BY <2>1, <3>1
    <3> QED BY <1>2, <2>1, <2>3, <3>2 DEF Explained
  <2>4. ASSUME NEW es \in [Interfaces -> Seq(Endpoints)], NEW i \in Interfaces, NEW n \in 1 .. Len(es[i])
        PROVE  es[i][n] \in Endpoints
    <3>1. es[i] \in Seq(Endpoints)
      OBVIOUS
    <3> QED BY <3>1, ElementOfSeq
  <2>5. AllExplained(stdout)'
    <3>1. stdout \in [Interfaces -> Seq(Endpoints)] /\ AllExplained(stdout)
      BY DEF CauseInv, TypeOK
    <3> QED BY <1>1, <2>3, <2>4, <3>1 DEF AllExplained, Explained
  <2>6. AllExplained(acc)'
    <3>1. acc \in [Interfaces -> Seq(Endpoints)] /\ AllExplained(acc)
      BY DEF CauseInv, TypeOK
    <3> QED BY <1>1, <2>3, <2>4, <3>1 DEF AllExplained, Explained
  <2>7. NoGhosts'
    BY <1>1, <1>2, <2>1 DEF CauseInv, NoGhosts
  <2>8. FailureHasCause'
    <3>1. text' = text /\ table' = table
      BY <1>1 DEF reading
    <3>2. ParseOutcome(text)' = ParseOutcome(text)
      BY <3>1
    <3> QED BY <1>1, <1>2, <2>1, <3>1, <3>2 DEF CauseInv, FailureHasCause
  <2> QED BY <1>3, <2>2, <2>5, <2>6, <2>7, <2>8 DEF CauseInv
<1> QED BY <1>4, <1>5

LEMMA NextCause ==
  ASSUME CauseInv, [Next]_vars
  PROVE  CauseInv'
<1>1. TypeOK'
  BY NextType DEF CauseInv
<1>2. ASSUME devs' = {}, stdout' = NoEndpoints, acc' = NoEndpoints, body' = NoBody,
             pc' # "answer", Watched'
      PROVE  CauseInv'
  <2>1. Resting' /\ NoGhosts' /\ FailureHasCause' /\ (devs \subseteq Requested)'
    BY <1>2 DEF Resting, NoGhosts, FailureHasCause, NoBody, NoEndpoints
  <2>2. AllExplained(stdout)' /\ AllExplained(acc)'
    <3>1. ASSUME NEW i \in Interfaces PROVE 1 .. Len(NoEndpoints[i]) = {}
      BY DEF NoEndpoints
    <3> QED BY <1>2, <3>1 DEF AllExplained
  <2> QED BY <1>1, <1>2, <2>1, <2>2 DEF CauseInv
<1>3. CASE Begin
  <2>1. /\ devs' = {} /\ stdout' = NoEndpoints /\ acc' = NoEndpoints /\ body' = NoBody
        /\ pc' = "read" /\ UNCHANGED env /\ met' = Present /\ noted' = Conditions
    BY <1>3 DEF Begin, CauseInv, Resting
  <2>2. Watched'
    BY <2>1 DEF Watched, Present, Conditions, env
  <2> QED BY <1>2, <2>1, <2>2
<1>4. CASE Answer
  <2>1. /\ devs' = {} /\ stdout' = NoEndpoints /\ acc' = NoEndpoints /\ body' = NoBody
        /\ pc' = "idle"
    BY <1>4 DEF Answer, DropLocals
  <2> QED BY <1>2, <2>1 DEF Watched
<1>5. CASE Step /\ ~Answer
  BY <1>1, <1>5, StepKeepsCause
<1>6. CASE Environment
  BY <1>1, <1>6, EnvironmentKeepsCause
<1>7. CASE UNCHANGED vars
  <2>1. UNCHANGED <<options, env, pc, outcome, reading, devs, stdout, acc, body, history>>
    BY <1>7 DEF vars
  <2>2. Requested' = Requested /\ Targets' = Targets /\ Present' = Present /\ Conditions' = Conditions
    BY <2>1 DEF Requested, Targets, Present, Conditions, env
  <2>3. Resting' /\ Watched' /\ (devs \subseteq Requested)'
    BY <2>1, <2>2 DEF CauseInv, Resting, Watched, history, NoEndpoints, NoBody
  <2>4. AllExplained(stdout)' /\ AllExplained(acc)' /\ NoGhosts'
    BY <2>1, <2>2 DEF CauseInv, AllExplained, Explained, NoGhosts, env, history
  <2>5. FailureHasCause'
    <3>1. text' = text /\ table' = table /\ met' = met /\ noted' = noted
      BY <2>1 DEF reading, history
    <3>2. ParseOutcome(text)' = ParseOutcome(text)
      BY <3>1
    <3> QED BY <2>1, <2>2, <3>1, <3>2 DEF CauseInv, FailureHasCause
  <2> QED BY <1>1, <2>3, <2>4, <2>5 DEF CauseInv
<1> QED BY <1>3, <1>4, <1>5, <1>6, <1>7 DEF Next

LEMMA InitCause == Init => CauseInv
<1> SUFFICES ASSUME Init PROVE CauseInv
  OBVIOUS
<1>1. /\ devs = {} /\ stdout = NoEndpoints /\ acc = NoEndpoints /\ body = NoBody /\ pc = "idle"
  BY DEF Init
<1>2. AllExplained(stdout) /\ AllExplained(acc)
  BY <1>1, NothingToExplain
<1> QED BY <1>1, <1>2, InitType DEF CauseInv, Resting, Watched, NoGhosts, FailureHasCause, NoBody

(* GhostsCorrect: a peer that is configured at no moment of the scrape, or *)
(* only on interfaces the command line leaves out, appears in no family,   *)
(* however peers and interfaces come and go while wg runs (main.rs:49-100).*)
THEOREM GhostsCorrect == Spec => []NoGhosts
<1>1. CauseInv => NoGhosts
  BY DEF CauseInv
<1> QED BY <1>1, InitCause, NextCause, PTL DEF Spec

(* CauseCorrect: a scrape that fails has one of the listed causes outside  *)
(* it, whatever the files, the command line and the interleaving           *)
(* (main.rs:39-45, 58-70, 105; wireguard.rs:84-131, 243, 285, 323).        *)
THEOREM CauseCorrect == Spec => []FailureHasCause
<1>1. CauseInv => FailureHasCause
  BY DEF CauseInv
<1> QED BY <1>1, InitCause, NextCause, PTL DEF Spec

(***************************************************************************)
(* Names. What is inductive: the text is the join of contents that the     *)
(* files read so far had at some moment since the scrape began, the table  *)
(* is made of the text once every file is read, and every row carries what *)
(* the table gives its key.                                                *)
(***************************************************************************)
Settled == pc \in {"spawn", "dump", "render"} \/ Succeeded

Unread ==
  /\ pc = "idle" => fileNo = 1 /\ text = NoText
  /\ pc \in {"idle", "read"} => body = NoBody
FilesHeld == pc = "read" => \A fn \in FileNames : files[fn] \in held[fn]
ReadAs(k, txt) ==
  \E read \in [1 .. k -> Texts] :
    /\ \A n \in 1 .. k : read[n] \in held[options.files[n]]
    /\ txt = FlattenSeq(read)
ReadSoFar == fileNo <= Len(options.files) + 1 /\ ReadAs(fileNo - 1, text)
TableOfText ==
  Settled => /\ fileNo > Len(options.files)
             /\ ParseOutcome(text) = "ok" /\ table = PeerEntryHashMap(text)
RowsNamed ==
  \A fam \in Families : \A n \in DOMAIN body[fam] : body[fam][n].desc = table[body[fam][n].key]

NamesInv == TypeOK /\ Unread /\ FilesHeld /\ ReadSoFar /\ TableOfText /\ RowsNamed

LEMMA FilesType ==
  ASSUME TypeOK
  PROVE  /\ options.files \in Seq(FileNames) /\ Len(options.files) \in Nat
         /\ DOMAIN options.files = 1 .. Len(options.files)
         /\ \A n \in DOMAIN options.files : options.files[n] \in FileNames
         /\ fileNo \in Nat /\ fileNo >= 1
<1>1. options.files \in Seq(FileNames)
  BY ConstantsType DEF TypeOK, Options
<1>2. fileNo \in Nat /\ fileNo >= 1
  BY DEF TypeOK
<1> QED BY <1>1, <1>2, LenProperties, ElementOfSeq

(* The text before the first file.                                         *)
LEMMA NothingRead ==
  ASSUME TypeOK
  PROVE  ReadAs(0, NoText) /\ 1 <= Len(options.files) + 1
<1>1. 1 .. 0 = {} /\ <<>> \in [1 .. 0 -> Texts]
  OBVIOUS
<1>2. NoText = FlattenSeq(<<>>)
  BY FlattenEmpty DEF NoText
<1>3. ReadAs(0, NoText)
  <2> SUFFICES \E read \in [1 .. 0 -> Texts] :
                 (\A n \in 1 .. 0 : read[n] \in held[options.files[n]]) /\ NoText = FlattenSeq(read)
    BY DEF ReadAs
  <2> WITNESS <<>> \in [1 .. 0 -> Texts]
  <2> QED BY <1>1, <1>2
<1>4. 1 <= Len(options.files) + 1
  BY FilesType
<1> QED BY <1>3, <1>4

(* Reading one file more.                                                  *)
LEMMA ReadMore ==
  ASSUME TypeOK, NEW k \in Nat, ReadAs(k, text), k + 1 <= Len(options.files),
         NEW content \in Texts, content \in held[options.files[k + 1]]
  PROVE  ReadAs(k + 1, text \o content)
<1>1. PICK read \in [1 .. k -> Texts] :
        /\ \A n \in 1 .. k : read[n] \in held[options.files[n]]
        /\ text = FlattenSeq(read)
  BY DEF ReadAs
<1>2. read \in Seq(Texts) /\ Len(read) = k
  BY <1>1, SeqDef, LenProperties
<1> DEFINE more == Append(read, content)
<1>3. /\ more \in Seq(Texts) /\ Len(more) = k + 1
      /\ more[k + 1] = content /\ \A n \in 1 .. k : more[n] = read[n]
  BY <1>2, AppendProperties
<1>4. FlattenSeq(more) = FlattenSeq(read) \o content
  <2>1. Texts \subseteq Seq(Lines)
    BY ConstantsType
  <2>2. read \in Seq(Seq(Lines))
    <3>1. read \in [1 .. k -> Seq(Lines)]
      BY <1>1, <2>1
    <3> QED BY <3>1, SeqDef
  <2> QED BY <2>1, <2>2, FlattenAppend
<1> HIDE DEF more
<1>5. more \in [1 .. k + 1 -> Texts]
  BY <1>3, LenProperties
<1>6. \A n \in 1 .. k + 1 : more[n] \in held[options.files[n]]
  BY <1>1, <1>3
<1> QED BY <1>1, <1>4, <1>5, <1>6 DEF ReadAs

LEMMA ReadKeepsText ==
  ASSUME TypeOK, FilesHeld, ReadSoFar, ReadFile
  PROVE  ReadSoFar'
<1>1. UNCHANGED <<options, held>> /\ pc = "read"
  BY DEF ReadFile, history
<1>2. fileNo \in 1 .. Len(options.files) /\ options.files[fileNo] \in FileNames
  BY FilesType DEF ReadFile
<1> DEFINE content == files[options.files[fileNo]]
<1>3. CASE content = Unreadable
  <2>1. fileNo' = fileNo /\ text' = text
    BY <1>3 DEF ReadFile
  <2> QED BY <1>1, <2>1 DEF ReadSoFar, ReadAs
<1>4. CASE content # Unreadable
  <2>1. fileNo' = fileNo + 1 /\ text' = text \o content
    BY <1>4 DEF ReadFile, Join
  <2>2. PICK k \in Nat : fileNo = k + 1
    BY FilesType
  <2>3. content \in Texts /\ content \in held[options.files[k + 1]]
    BY <1>1, <1>2, <1>4, <2>2 DEF TypeOK, FilesHeld
  <2>4. fileNo - 1 = k /\ fileNo' - 1 = k + 1 /\ k + 1 <= Len(options.files)
    BY <1>2, <2>1, <2>2
  <2>5. ReadAs(k, text)
    BY <2>4 DEF ReadSoFar
  <2> HIDE DEF content
  <2>6. ReadAs(k + 1, text \o content)
    BY <2>3, <2>4, <2>5, ReadMore
  <2>7. fileNo' <= Len(options'.files) + 1
    BY <1>1, <1>2, <2>1, FilesType
  <2> QED BY <1>1, <2>1, <2>4, <2>6, <2>7 DEF ReadSoFar, ReadAs
<1> QED BY <1>3, <1>4

(* A row is named from the table when it is rendered.                      *)
LEMMA RenderKeepsNames ==
  ASSUME TypeOK, RowsNamed, RenderEndpoint
  PROVE  RowsNamed'
<1>1. Step /\ ~Answer /\ table' = table
  BY DEF Step, RenderEndpoint, Answer, reading
<1> SUFFICES ASSUME NEW fam \in Families, NEW n \in DOMAIN body'[fam]
             PROVE  body'[fam][n].desc = table[body'[fam][n].key]
  BY <1>1 DEF RowsNamed
<1>2. CASE n \in DOMAIN body[fam] /\ body'[fam][n] = body[fam][n]
  BY <1>2 DEF RowsNamed
<1>3. CASE body'[fam][n] = RowOf(NextInterface, Rendered, fam)
  BY <1>3 DEF RowOf
<1> QED BY <1>1, <1>2, <1>3, RowAfterStep

LEMMA NextNames ==
  ASSUME NamesInv, [Next]_vars
  PROVE  NamesInv'
<1>1. TypeOK /\ TypeOK'
  BY NextType DEF NamesInv
<1>0. ASSUME fileNo' = 1, text' = NoText, UNCHANGED options PROVE ReadSoFar'
  <2>1. fileNo' - 1 = 0
    BY <1>0
  <2>2. 1 .. 0 = {}
    OBVIOUS
  <2>3. ReadAs(0, NoText) /\ 1 <= Len(options.files) + 1
    BY <1>1, NothingRead
  <2> QED BY <1>0, <2>1, <2>2, <2>3 DEF ReadSoFar, ReadAs
<1>2. ASSUME UNCHANGED <<options, fileNo, text>>, \A fn \in FileNames : held[fn] \subseteq held'[fn]
      PROVE  ReadSoFar'
  <2>1. fileNo <= Len(options.files) + 1 /\ ReadAs(fileNo - 1, text)
    BY DEF NamesInv, ReadSoFar
  <2>2. PICK read \in [1 .. fileNo - 1 -> Texts] :
          /\ \A n \in 1 .. fileNo - 1 : read[n] \in held[options.files[n]]
          /\ text = FlattenSeq(read)
    BY <2>1 DEF ReadAs
  <2>3. \A n \in 1 .. fileNo - 1 : options.files[n] \in FileNames
    BY <1>1, <2>1, FilesType
  <2>4. \A n \in 1 .. fileNo - 1 : read[n] \in held'[options.files[n]]
    BY <1>2, <2>2, <2>3
  <2> QED BY <1>2, <2>1, <2>2, <2>4 DEF ReadSoFar, ReadAs
<1>3. ASSUME UNCHANGED <<table, body>> PROVE RowsNamed'
  BY <1>3 DEF NamesInv, RowsNamed
<1>4. ASSUME body' = NoBody PROVE RowsNamed'
  BY <1>4 DEF RowsNamed, NoBody
<1>5. ASSUME UNCHANGED <<options, text, fileNo, table>>, Settled' => Settled PROVE TableOfText'
  <2>1. PeerEntryHashMap(text)' = PeerEntryHashMap(text) /\ ParseOutcome(text)' = ParseOutcome(text)
    BY <1>5
  <2> QED BY <1>5, <2>1 DEF NamesInv, TableOfText
<1>6. CASE Begin
  <2>1. UNCHANGED <<options, files, fileNo, text, table, body>> /\ pc = "idle" /\ pc' = "read"
    BY <1>6 DEF Begin, env, reading
  <2>2. fileNo' = 1 /\ text' = NoText /\ body' = NoBody
    BY <2>1 DEF NamesInv, Unread
  <2>3. ReadSoFar'
    BY <1>0, <2>1, <2>2
  <2>4. ~Settled'
    BY <2>1 DEF Settled, Succeeded
  <2>5. FilesHeld'
    BY <1>6, <2>1 DEF Begin, FilesHeld
  <2> QED BY <1>1, <1>3, <2>1, <2>2, <2>3, <2>4, <2>5 DEF NamesInv, Unread, TableOfText
<1>7. CASE Step /\ ~Answer
  <2>1. UNCHANGED <<options, env, held>> /\ pc # "idle" /\ pc' # "idle"
    BY <1>7, ProgramFrame
  <2>2. UNCHANGED <<options, files, held>>
    BY <2>1 DEF env
  <2>6. ASSUME pc = "read" \/ pc' # "read" PROVE FilesHeld'
    BY <2>2, <2>6 DEF NamesInv, FilesHeld
  <2>3. CASE ReadFile
    <3>1. body' = body /\ table' = table /\ pc = "read" /\ body = NoBody
      BY <2>3 DEF ReadFile, NamesInv, Unread
    <3>2. ReadSoFar'
      BY <2>3, ReadKeepsText DEF NamesInv
    <3>3. ~Settled'
      <4>1. pc' = "read" \/ (pc' = "answer" /\ outcome' = "error")
        BY <2>3, <3>1 DEF ReadFile, End
      <4> QED BY <4>1 DEF Settled, Succeeded
    <3> QED BY <1>1, <1>3, <2>1, <2>6, <3>1, <3>2, <3>3 DEF NamesInv, Unread, TableOfText
  <2>4. CASE ParseConfig
    <3>1. UNCHANGED <<fileNo, text, body>> /\ body = NoBody /\ fileNo > Len(options.files)
      BY <2>4 DEF ParseConfig, NamesInv, Unread
    <3>2. ReadSoFar'
      BY <1>2, <2>2, <3>1
    <3>3. TableOfText'
      <4>1. CASE ParseOutcome(text) = "ok"
        <5>1. table' = PeerEntryHashMap(text)
          BY <2>4, <4>1 DEF ParseConfig
        <5>2. PeerEntryHashMap(text)' = PeerEntryHashMap(text) /\ ParseOutcome(text)' = "ok"
          BY <3>1, <4>1
        <5> QED BY <2>2, <3>1, <5>1, <5>2 DEF TableOfText
      <4>2. CASE ParseOutcome(text) # "ok"
        <5>1. pc' = "answer" /\ outcome' # "ok"
          BY <2>4, <4>2 DEF ParseConfig, End
        <5> QED BY <5>1 DEF TableOfText, Settled, Succeeded
      <4> QED BY <4>1, <4>2
    <3>4. RowsNamed'
      BY <1>4, <3>1
    <3>5. FilesHeld'
      BY <2>4, <2>6 DEF ParseConfig
    <3> QED BY <1>1, <2>1, <3>1, <3>2, <3>3, <3>4, <3>5 DEF NamesInv, Unread
  <2>5. CASE Spawn \/ DumpDevice \/ Collect \/ BeginRender \/ RenderEndpoint \/ Finish
    <3>1. UNCHANGED <<fileNo, text, table>>
      BY <2>5 DEF Spawn, DumpDevice, Collect, BeginRender, RenderEndpoint, Finish, reading
    <3>2. Settled /\ pc' \notin {"idle", "read"}
      BY <2>5 DEF Spawn, DumpDevice, Collect, BeginRender, RenderEndpoint, Finish, End, Settled
    <3>3. RowsNamed'
      <4>1. CASE RenderEndpoint
        BY <4>1, RenderKeepsNames DEF NamesInv
      <4>2. CASE ~RenderEndpoint
        <5>1. body' = body
          BY <2>5, <4>2 DEF Spawn, DumpDevice, Collect, BeginRender, Finish
        <5> QED BY <1>3, <3>1, <5>1
      <4> QED BY <4>1, <4>2
    <3>4. ReadSoFar' /\ TableOfText'
      BY <1>2, <1>5, <2>2, <3>1, <3>2
    <3> QED BY <1>1, <2>6, <3>2, <3>3, <3>4 DEF NamesInv, Unread
  <2> QED BY <1>7, <2>3, <2>4, <2>5 DEF Step
<1>8. CASE Answer
  <2>1. fileNo' = 1 /\ text' = NoText /\ body' = NoBody /\ pc' = "idle"
    BY <1>8 DEF Answer, DropLocals
  <2>2. ReadSoFar'
    BY <1>0, <1>8, <2>1 DEF Answer
  <2>3. ~Settled' /\ FilesHeld'
    BY <2>1 DEF Settled, Succeeded, FilesHeld
  <2> QED BY <1>1, <1>4, <2>1, <2>2, <2>3 DEF NamesInv, Unread, TableOfText
<1>9. CASE Environment
  <2>1. UNCHANGED <<options, pc, outcome, fileNo, text, table, body>>
    BY <1>1, <1>9, EnvironmentFrame DEF reading
  <2>2. Settled' => Settled
    BY <2>1 DEF Settled, Succeeded
  <2>3. /\ \A fn \in FileNames : held[fn] \subseteq held'[fn]
        /\ pc = "read" => \A fn \in FileNames : files'[fn] \in held'[fn]
    BY <1>1, <1>9, EnvironmentFrame
  <2>4. ReadSoFar' /\ FilesHeld'
    BY <1>2, <2>1, <2>3 DEF FilesHeld
  <2> QED BY <1>1, <1>3, <1>5, <2>1, <2>2, <2>4 DEF NamesInv, Unread
<1>10. CASE UNCHANGED vars
  <2>1. UNCHANGED <<options, files, pc, outcome, held, fileNo, text, table, body>>
    BY <1>10 DEF vars, env, reading, history
  <2>2. Settled' => Settled
    BY <2>1 DEF Settled, Succeeded
  <2>3. ReadSoFar' /\ FilesHeld'
    BY <1>2, <2>1 DEF NamesInv, FilesHeld
  <2> QED BY <1>1, <1>3, <1>5, <2>1, <2>2, <2>3 DEF NamesInv, Unread
<1> QED BY <1>6, <1>7, <1>8, <1>9, <1>10 DEF Next

(* NamesCorrect: whatever is edited while the scrape runs, the samples of  *)
(* a success carry the descriptions that the files, joined in command line *)
(* order, give their keys, with the content each file had at some moment   *)
(* between the start of the scrape and the first dump: no file is skipped  *)
(* or read twice, and no row is named before the table is whole or from an *)
(* earlier scrape's (main.rs:29-45, wireguard.rs:260-269).                 *)
THEOREM NamesCorrect == Spec => []NamesMatchFiles
<1>1. Init => NamesInv
  <2> SUFFICES ASSUME Init PROVE NamesInv
    OBVIOUS
  <2>1. TypeOK /\ pc = "idle" /\ fileNo = 1 /\ text = NoText /\ body = NoBody
    BY InitType DEF Init
  <2>2. fileNo - 1 = 0
    BY <2>1
  <2> QED BY <2>1, <2>2, NothingRead
          DEF NamesInv, Unread, FilesHeld, ReadSoFar, TableOfText, Settled, Succeeded, RowsNamed, NoBody
<1>2. NamesInv => NamesMatchFiles
  <2> SUFFICES ASSUME NamesInv, Succeeded
               PROVE  \E read \in [DOMAIN options.files -> Texts] :
                        /\ \A n \in DOMAIN options.files : read[n] \in held[options.files[n]]
                        /\ ParseOutcome(FlattenSeq(read)) = "ok"
                        /\ \A fam \in Families : \A n \in DOMAIN body[fam] :
                             body[fam][n].desc = PeerEntryHashMap(FlattenSeq(read))[body[fam][n].key]
    BY DEF NamesMatchFiles
  <2>1. /\ TypeOK /\ fileNo > Len(options.files)
        /\ ParseOutcome(text) = "ok" /\ table = PeerEntryHashMap(text)
    BY DEF NamesInv, TableOfText, Settled
  <2>2. fileNo <= Len(options.files) + 1 /\ ReadAs(fileNo - 1, text)
    BY DEF NamesInv, ReadSoFar
  <2>3. 1 .. fileNo - 1 = DOMAIN options.files
    <3>1. fileNo - 1 = Len(options.files)
      BY <2>1, <2>2, FilesType
    <3> QED BY <2>1, <3>1, FilesType
  <2>4. PICK read \in [DOMAIN options.files -> Texts] :
          /\ \A n \in DOMAIN options.files : read[n] \in held[options.files[n]]
          /\ text = FlattenSeq(read)
    BY <2>2, <2>3 DEF ReadAs
  <2>5. \A fam \in Families : \A n \in DOMAIN body[fam] :
          body[fam][n].desc = PeerEntryHashMap(FlattenSeq(read))[body[fam][n].key]
    BY <2>1, <2>4 DEF NamesInv, RowsNamed
  <2> QED BY <2>1, <2>4, <2>5
<1> QED BY <1>1, <1>2, NextNames, PTL DEF Spec

(***************************************************************************)
(* Counting the endpoints of a key in a sequence.                          *)
(***************************************************************************)
At(es, k) == {n \in 1 .. Len(es) : es[n].key = k}
Copies(es, k) == Cardinality(At(es, k))

LEMMA CopiesType ==
  ASSUME NEW S, NEW es \in Seq(S), NEW k
  PROVE  IsFiniteSet(At(es, k)) /\ Copies(es, k) \in Nat
<1>1. Len(es) \in Nat
  BY LenProperties
<1>2. IsFiniteSet(1 .. Len(es))
  BY <1>1, FS_Interval
<1>3. At(es, k) \in SUBSET (1 .. Len(es))
  BY DEF At
<1>4. IsFiniteSet(At(es, k))
  BY <1>2, <1>3, FS_Subset
<1> QED BY <1>4, FS_CardinalityType DEF Copies

LEMMA NoCopies == \A k : Copies(<<>>, k) = 0
<1> TAKE k
<1>1. At(<<>>, k) = {}
  BY DEF At
<1> QED BY <1>1, FS_EmptySet DEF Copies

(* Positions of one sequence, and of another that is put behind it.        *)
LEMMA ShiftedUnion ==
  ASSUME NEW m \in Nat, NEW l \in Nat, NEW S \in SUBSET (1 .. m), NEW T \in SUBSET (1 .. l)
  PROVE  Cardinality({x \in 1 .. m + l : x \in S \/ x - m \in T}) = Cardinality(S) + Cardinality(T)
<1> DEFINE U == {x \in 1 .. m + l : x \in S \/ x - m \in T}
           V == {x \in m + 1 .. m + l : x - m \in T}
           shift == [x \in T |-> x + m]
<1>1. IsFiniteSet(S) /\ IsFiniteSet(T)
  <2>1. IsFiniteSet(1 .. m) /\ IsFiniteSet(1 .. l)
    BY FS_Interval
  <2> QED BY <2>1, FS_Subset
<1>2. shift \in Bijection(T, V)
  <2>1. shift \in [T -> V]
    <3>1. ASSUME NEW x \in T PROVE x + m \in V
      <4>1. x \in 1 .. l /\ x + m \in m + 1 .. m + l /\ (x + m) - m = x
        OBVIOUS
      <4> QED BY <4>1
    <3> HIDE DEF V
    <3> QED BY <3>1
  <2>2. \A x, y \in T : shift[x] = shift[y] => x = y
    <3>1. \A x, y \in 1 .. l : x + m = y + m => x = y
      OBVIOUS
    <3> QED BY <3>1
  <2>3. ASSUME NEW y \in V PROVE \E x \in T : shift[x] = y
    <3>1. y - m \in T /\ (y - m) + m = y
      OBVIOUS
    <3> QED BY <3>1
  <2> HIDE DEF shift, V
  <2> QED BY <2>1, <2>2, <2>3 DEF Bijection, Injection, Surjection, IsInjective
<1>3. IsFiniteSet(V) /\ Cardinality(V) = Cardinality(T)
  <2>1. ExistsBijection(T, V)
    BY <1>2 DEF ExistsBijection
  <2> HIDE DEF V
  <2> QED BY <1>1, <2>1, FS_Bijection
<1>4. U = S \cup V /\ S \cap V = {}
  <2>1. ASSUME NEW x \in U PROVE x \in S \cup V
    <3>1. CASE x \in S
      BY <3>1
    <3>2. CASE x - m \in T
      <4>1. x \in Int /\ x - m \in 1 .. l
        BY <3>2
      <4>2. x \in m + 1 .. m + l
        BY <4>1
      <4> QED BY <3>2, <4>2
    <3> QED BY <3>1, <3>2
  <2>2. ASSUME NEW x \in S \cup V PROVE x \in U
    OBVIOUS
  <2>3. \A x \in S : x \notin V
    <3>1. \A x \in 1 .. m : x \notin m + 1 .. m + l
      OBVIOUS
    <3> QED BY <3>1
  <2> HIDE DEF U, V
  <2> QED BY <2>1, <2>2, <2>3
<1> HIDE DEF U, V
<1>5. Cardinality(S \cup V) = Cardinality(S) + Cardinality(V) - Cardinality(S \cap V)
  BY <1>1, <1>3, FS_Union
<1>6. /\ Cardinality(S) \in Nat /\ Cardinality(V) \in Nat
      /\ Cardinality(S \cap V) = 0 /\ Cardinality(U) = Cardinality(S \cup V)
  <2>1. Cardinality(S) \in Nat /\ Cardinality(V) \in Nat
    BY <1>1, <1>3, FS_CardinalityType
  <2>2. Cardinality({}) = 0
    BY FS_EmptySet
  <2> QED BY <1>4, <2>1, <2>2, Zenon
<1>7. Cardinality(U) = Cardinality(S) + Cardinality(T)
  <2> HIDE DEF shift
  <2> QED BY <1>3, <1>5, <1>6
<1> QED BY <1>7 DEF U

(* Merging neither loses nor doubles an endpoint.                          *)
LEMMA CopiesConcat ==
  ASSUME NEW S, NEW s \in Seq(S), NEW t \in Seq(S), NEW k
  PROVE  Copies(s \o t, k) = Copies(s, k) + Copies(t, k)
<1>1. /\ Len(s) \in Nat /\ Len(t) \in Nat /\ Len(s \o t) = Len(s) + Len(t)
      /\ \A n \in 1 .. Len(s) + Len(t) :
           (s \o t)[n] = IF n <= Len(s) THEN s[n] ELSE t[n - Len(s)]
  BY LenProperties, ConcatProperties
<1> DEFINE both == {x \in 1 .. Len(s) + Len(t) : x \in At(s, k) \/ x - Len(s) \in At(t, k)}
<1>2. At(s \o t, k) = both
  <2>1. ASSUME NEW x \in 1 .. Len(s) + Len(t)
        PROVE  (s \o t)[x].key = k <=> (x \in At(s, k) \/ x - Len(s) \in At(t, k))
    <3>1. CASE x <= Len(s)
      <4>1. x \in 1 .. Len(s) /\ ~(x - Len(s) \in 1 .. Len(t)) /\ (s \o t)[x] = s[x]
        BY <1>1, <3>1
      <4> QED BY <4>1 DEF At
    <3>2. CASE ~(x <= Len(s))
      <4>1. /\ ~(x \in 1 .. Len(s)) /\ x - Len(s) \in 1 .. Len(t)
            /\ (s \o t)[x] = t[x - Len(s)]
        BY <1>1, <3>2
      <4> QED BY <4>1 DEF At
    <3> QED BY <3>1, <3>2
  <2>2. At(s \o t, k) = {x \in 1 .. Len(s) + Len(t) : (s \o t)[x].key = k}
    BY <1>1 DEF At
  <2> QED BY <2>1, <2>2
<1>3. At(s, k) \in SUBSET (1 .. Len(s)) /\ At(t, k) \in SUBSET (1 .. Len(t))
  BY DEF At
<1>4. Cardinality(both) = Cardinality(At(s, k)) + Cardinality(At(t, k))
  BY <1>1, <1>3, ShiftedUnion
<1> QED BY <1>2, <1>4 DEF Copies

(* Taking the head takes one endpoint, of its own key.                     *)
LEMMA CopiesTail ==
  ASSUME NEW S, NEW s \in Seq(S), s # <<>>, NEW k
  PROVE  Copies(s, k) = (IF Head(s).key = k THEN 1 ELSE 0) + Copies(Tail(s), k)
<1>1. Len(s) \in Nat \ {0} /\ Head(s) = s[1]
  BY EmptySeq, LenProperties
<1>2. /\ Tail(s) \in Seq(S) /\ Len(Tail(s)) = Len(s) - 1
      /\ \A n \in 1 .. Len(Tail(s)) : Tail(s)[n] = s[n + 1]
  BY <1>1, HeadTailProperties
<1> DEFINE first == IF Head(s).key = k THEN {1} ELSE {}
           l == Len(Tail(s))
           all == {x \in 1 .. 1 + l : x \in first \/ x - 1 \in At(Tail(s), k)}
<1>3. l \in Nat /\ Len(s) = 1 + l
  BY <1>1, <1>2
<1>4. At(s, k) = all
  <2>1. ASSUME NEW x \in 1 .. 1 + l
        PROVE  s[x].key = k <=> (x \in first \/ x - 1 \in At(Tail(s), k))
    <3>1. CASE x = 1
      <4>1. ~(x - 1 \in 1 .. Len(Tail(s)))
        BY <3>1, <1>3
      <4> QED BY <1>1, <3>1, <4>1 DEF At
    <3>2. CASE x # 1
      <4>1. x - 1 \in 1 .. Len(Tail(s)) /\ x \notin first /\ (x - 1) + 1 = x
        BY <1>3, <3>2
      <4>2. Tail(s)[x - 1] = s[x]
        BY <1>2, <4>1
      <4> QED BY <4>1, <4>2 DEF At
    <3> QED BY <3>1, <3>2
  <2>2. At(s, k) = {x \in 1 .. 1 + l : s[x].key = k}
    BY <1>3 DEF At
  <2> HIDE DEF l, first
  <2> QED BY <2>1, <2>2
<1>5. first \in SUBSET (1 .. 1) /\ At(Tail(s), k) \in SUBSET (1 .. l)
  BY DEF At
<1>6. Cardinality(first) = IF Head(s).key = k THEN 1 ELSE 0
  BY FS_Singleton, FS_EmptySet
<1> HIDE DEF first, l
<1>7. Cardinality(all) = Cardinality(first) + Cardinality(At(Tail(s), k))
  BY <1>3, <1>5, ShiftedUnion
<1> QED BY <1>4, <1>6, <1>7 DEF Copies

(* wg prints every peer of a device once.                                  *)
LEMMA CopiesDumped ==
  ASSUME TypeOK, NEW i \in Interfaces, NEW ks \in SetToSeqs(PeersOf(i)), NEW k \in PeersOf(i)
  PROVE  LET out == <<Local>> \o [n \in DOMAIN ks |-> [key |-> ks[n], peer |-> kernel[i][ks[n]]]]
         IN  Copies(out, k) = 1
<1> DEFINE c == Cardinality(PeersOf(i))
           peers == [n \in DOMAIN ks |-> [key |-> ks[n], peer |-> kernel[i][ks[n]]]]
           out == <<Local>> \o peers
<1>1. IsFiniteSet(PeersOf(i)) /\ c \in Nat /\ PeersOf(i) \subseteq Keys
  <2>1. PeersOf(i) \in SUBSET Keys /\ IsFiniteSet(Keys)
    BY ConstantsType DEF PeersOf
  <2> QED BY <2>1, FS_Subset, FS_CardinalityType
<1>2. /\ ks \in [1 .. c -> PeersOf(i)] /\ DOMAIN ks = 1 .. c
      /\ \A m, n \in 1 .. c : ks[m] = ks[n] => m = n
  BY DEF SetToSeqs
<1>3. PICK p \in 1 .. c : ks[p] = k
  <2> HIDE DEF c
  <2>1. ks \in Injection(1 .. c, PeersOf(i))
    BY <1>2 DEF Injection, IsInjective
  <2>2. Cardinality(1 .. c) = c
    BY <1>1, FS_Interval
  <2>3. ks \in Surjection(1 .. c, PeersOf(i))
    BY <1>1, <2>1, <2>2, FS_Injection DEF c
  <2> QED BY <2>3 DEF Surjection
<1>4. peers \in Seq(Endpoints) /\ Len(peers) = c /\ \A n \in 1 .. c : peers[n].key = ks[n]
  <2>1. ASSUME NEW n \in 1 .. c PROVE [key |-> ks[n], peer |-> kernel[i][ks[n]]] \in Endpoints
    <3>1. ks[n] \in PeersOf(i)
      BY <1>2
    <3>2. ks[n] \in Keys /\ kernel[i][ks[n]] \in Peers
      BY <3>1 DEF PeersOf, TypeOK
    <3> QED BY <3>2 DEF Endpoints, Remotes
  <2>2. peers \in [1 .. c -> Endpoints] /\ \A n \in 1 .. c : peers[n].key = ks[n]
    BY <1>2, <2>1
  <2> HIDE DEF peers, c
  <2>3. peers \in Seq(Endpoints)
    BY <1>1, <2>2, SeqDef DEF c
  <2> QED BY <1>1, <2>2, <2>3, LenProperties DEF c
<1>5. <<Local>> \in Seq(Endpoints) /\ Len(<<Local>>) = 1 /\ <<Local>>[1] = Local
  BY DEF Endpoints
<1>6. Copies(out, k) = Copies(<<Local>>, k) + Copies(peers, k)
  <2> HIDE DEF peers
  <2> QED BY <1>4, <1>5, CopiesConcat
<1>7. Copies(<<Local>>, k) = 0
  <2>1. Local.key # k
    BY <1>1, EmptyIsNoValue DEF Local
  <2>2. At(<<Local>>, k) = {}
    BY <1>5, <2>1 DEF At
  <2> QED BY <2>2, FS_EmptySet DEF Copies
<1>8. Copies(peers, k) = 1
  <2> HIDE DEF peers, c
  <2>1. At(peers, k) = {p}
    BY <1>2, <1>3, <1>4 DEF At
  <2> QED BY <2>1, FS_Singleton DEF Copies
<1> HIDE DEF out
<1>9. Copies(out, k) = 1
  BY <1>6, <1>7, <1>8
<1> QED BY <1>9 DEF out

(***************************************************************************)
(* The inductive invariant: what has been asked of wg about a peer that    *)
(* stays configured is, at every moment, rendered, in the accumulator, in  *)
(* wg's output or still to be dumped, each time once.                      *)
(***************************************************************************)
RowCount(fam, i, k) == Cardinality(SamplesOf(fam, i, k))
Asked(i) == {n \in Covering(i) : n < next \/ (n = next /\ pc = "dump")}
Owing(i) == IF i \in devs THEN 1 ELSE 0

WgWorked == {"denied", "absent"} \cap noted = {}
Alive == pc # "idle" /\ (pc = "answer" => outcome = "ok")

CountedOf(i, k, fam) ==
  Copies(acc[i], k) + Copies(stdout[i], k) + Owing(i) + RowCount(fam, i, k) = Cardinality(Asked(i))
Counted ==
  (Alive /\ WgWorked) =>
    \A i \in Interfaces, k \in Keys, fam \in Exported : <<i, k>> \in stable => CountedOf(i, k, fam)

PeersOnUp == \A i \in Interfaces \ up, k \in Keys : kernel[i][k] = NoPeer
StablePresent == stable \subseteq Present /\ (pc = "idle" => stable = {})
Phases ==
  /\ pc \in {"idle", "read"} => next = 1
  /\ pc # "dump" => devs = {} /\ stdout = NoEndpoints
  /\ \A i \in devs : stdout[i] = <<>>
  /\ pc = "render" => next > Len(Targets)
  /\ (pc = "answer" /\ outcome = "ok") => next > Len(Targets) /\ Pending = {}

OnceInv == Base /\ PeersOnUp /\ StablePresent /\ Phases /\ Counted

(***************************************************************************)
(* Rows and arguments can be counted.                                      *)
(***************************************************************************)
LEMMA RowCountType ==
  ASSUME TypeOK, NEW fam \in Families, NEW i, NEW k
  PROVE  IsFiniteSet(SamplesOf(fam, i, k)) /\ RowCount(fam, i, k) \in Nat
<1>1. body[fam] \in Seq(Samples)
  BY DEF TypeOK
<1>2. DOMAIN body[fam] = 1 .. Len(body[fam]) /\ Len(body[fam]) \in Nat
  BY <1>1, LenProperties
<1>3. IsFiniteSet(1 .. Len(body[fam]))
  BY <1>2, FS_Interval
<1>4. SamplesOf(fam, i, k) \in SUBSET (1 .. Len(body[fam]))
  BY <1>2 DEF SamplesOf
<1>5. IsFiniteSet(SamplesOf(fam, i, k))
  BY <1>3, <1>4, FS_Subset
<1> QED BY <1>5, FS_CardinalityType DEF RowCount

LEMMA AskedType ==
  ASSUME TypeOK, NEW i
  PROVE  /\ IsFiniteSet(Asked(i)) /\ Cardinality(Asked(i)) \in Nat
         /\ DOMAIN Targets = 1 .. Len(Targets) /\ Len(Targets) \in Nat
<1>1. DOMAIN Targets = 1 .. Len(Targets) /\ Len(Targets) \in Nat
  BY TargetsType, LenProperties
<1>2. IsFiniteSet(1 .. Len(Targets))
  BY <1>1, FS_Interval
<1>3. Asked(i) \in SUBSET (1 .. Len(Targets))
  BY <1>1 DEF Asked, Covering
<1>4. IsFiniteSet(Asked(i))
  BY <1>2, <1>3, FS_Subset
<1> QED BY <1>1, <1>4, FS_CardinalityType

LEMMA EndpointCounts ==
  ASSUME TypeOK, NEW i \in Interfaces, NEW k
  PROVE  Copies(acc[i], k) \in Nat /\ Copies(stdout[i], k) \in Nat
<1>1. acc[i] \in Seq(Endpoints) /\ stdout[i] \in Seq(Endpoints)
  BY DEF TypeOK
<1> QED BY <1>1, CopiesType

(* Rendering an endpoint adds one row, of its own peer, to every family.   *)
LEMMA RowCountGrows ==
  ASSUME TypeOK, Step, ~Answer, body' # body,
         NEW fam \in Exported, NEW i \in Interfaces, NEW k \in Keys
  PROVE  RowCount(fam, i, k)' = RowCount(fam, i, k)
           + (IF NextInterface = i /\ Rendered.key = k THEN 1 ELSE 0)
<1> DEFINE r == RowOf(NextInterface, Rendered, fam)
<1>1. fam \in Families
  BY DEF Exported
<1>2. body[fam] \in Seq(Samples) /\ body'[fam] = Append(body[fam], r)
  BY <1>1, RowsGrow DEF TypeOK
<1>3. r.iface = NextInterface /\ r.key = Rendered.key
  BY DEF RowOf
<1> HIDE DEF r
<1>4. PICK l \in Nat : l = Len(body[fam])
  BY <1>2, LenProperties
<1>5. /\ DOMAIN body[fam] = 1 .. l /\ DOMAIN body'[fam] = 1 .. l + 1
      /\ \A n \in 1 .. l : body'[fam][n] = body[fam][n]
      /\ body'[fam][l + 1] = r
  <2>1. \A row : /\ DOMAIN body[fam] = 1 .. Len(body[fam])
                 /\ DOMAIN Append(body[fam], row) = 1 .. Len(body[fam]) + 1
                 /\ \A n \in 1 .. Len(body[fam]) : Append(body[fam], row)[n] = body[fam][n]
                 /\ Append(body[fam], row)[Len(body[fam]) + 1] = row
    BY <1>2, AppendRow
  <2> QED BY <1>2, <1>4, <2>1
<1>6. IsFiniteSet(SamplesOf(fam, i, k)) /\ RowCount(fam, i, k) \in Nat
  BY <1>1, RowCountType
<1>7. l + 1 \notin SamplesOf(fam, i, k)
  BY <1>4, <1>5 DEF SamplesOf
<1>8. CASE NextInterface = i /\ Rendered.key = k
  <2>1. SamplesOf(fam, i, k)' = SamplesOf(fam, i, k) \cup {l + 1}
    BY <1>3, <1>4, <1>5, <1>8 DEF SamplesOf
  <2>2. Cardinality(SamplesOf(fam, i, k) \cup {l + 1}) = Cardinality(SamplesOf(fam, i, k)) + 1
    BY <1>6, <1>7, FS_AddElement
  <2> QED BY <1>8, <2>1, <2>2 DEF RowCount
<1>9. CASE ~(NextInterface = i /\ Rendered.key = k)
  <2>1. SamplesOf(fam, i, k)' = SamplesOf(fam, i, k)
    BY <1>3, <1>4, <1>5, <1>9 DEF SamplesOf
  <2> QED BY <1>6, <1>9, <2>1 DEF RowCount
<1> QED BY <1>8, <1>9

(***************************************************************************)
(* One lemma for every way the sum changes.                                *)
(***************************************************************************)

(* A peer that stays configured, and what wg needs to dump it.             *)
LEMMA StablePeer ==
  ASSUME OnceInv, NEW i \in Interfaces, NEW k \in Keys, <<i, k>> \in stable
  PROVE  kernel[i][k] # NoPeer /\ k \in PeersOf(i) /\ i \in up
<1>1. <<i, k>> \in Present
  BY DEF OnceInv, StablePresent
<1>2. kernel[i][k] # NoPeer
  BY <1>1 DEF Present
<1> QED BY <1>2 DEF OnceInv, PeersOnUp, PeersOf

LEMMA SameArguments ==
  ASSUME UNCHANGED options
  PROVE  Targets' = Targets /\ Exported' = Exported /\ \A i : Covering(i)' = Covering(i)
BY DEF Targets, Exported, Covering

LEMMA SpawnCounts ==
  ASSUME OnceInv, Spawn, WgWorked, pc' # "answer",
         NEW i \in Interfaces, NEW k \in Keys, NEW fam \in Exported,
         <<i, k>> \in stable, CountedOf(i, k, fam)
  PROVE  CountedOf(i, k, fam)'
<1> DEFINE t == Targets[next]
<1>1. TypeOK /\ UNCHANGED <<options, next, stdout, acc, body>> /\ pc = "spawn" /\ pc' = "dump"
  BY DEF OnceInv, Base, Spawn, End
<1>2. devs = {} /\ next \in 1 .. Len(Targets)
  BY <1>1 DEF OnceInv, Phases, Spawn, TypeOK
<1>3. wg = "works"
  <2>1. wg \in Conditions
    BY <1>1 DEF Conditions, TypeOK
  <2>2. wg \in noted
    BY <1>1, <2>1 DEF OnceInv, Base, Watched
  <2> QED BY <1>1, <2>2 DEF WgWorked, TypeOK, Statuses
<1>4. devs' = Devices(t)
  BY <1>1, <1>3 DEF Spawn, End
<1>5. i \in Devices(t) <=> t \in {All, i}
  BY StablePeer DEF Devices
<1>6. Asked(i)' = IF t \in {All, i} THEN Asked(i) \cup {next} ELSE Asked(i)
  <2>1. Covering(i)' = Covering(i)
    BY <1>1, SameArguments
  <2>2. next \in Covering(i) <=> t \in {All, i}
    BY <1>1, <1>2, AskedType DEF Covering
  <2> QED BY <1>1, <2>1, <2>2 DEF Asked
<1>7. next \notin Asked(i)
  BY <1>1, <1>2 DEF Asked
<1>8. IsFiniteSet(Asked(i)) /\ Cardinality(Asked(i)) \in Nat
  BY <1>1, AskedType
<1>9. Cardinality(Asked(i) \cup {next}) = Cardinality(Asked(i)) + 1
  BY <1>7, <1>8, FS_AddElement
<1>10. RowCount(fam, i, k)' = RowCount(fam, i, k) /\ fam \in Families
  BY <1>1 DEF RowCount, SamplesOf, Exported
<1>11. /\ Copies(acc[i], k) \in Nat /\ Copies(stdout[i], k) \in Nat
       /\ RowCount(fam, i, k) \in Nat
  BY <1>1, <1>10, EndpointCounts, RowCountType
<1>12. Owing(i) = 0 /\ Owing(i)' = IF t \in {All, i} THEN 1 ELSE 0
  BY <1>2, <1>4, <1>5 DEF Owing
<1>13. Copies(acc[i], k)' = Copies(acc[i], k) /\ Copies(stdout[i], k)' = Copies(stdout[i], k)
  BY <1>1 DEF Copies, At
<1>14. Cardinality(Asked(i))' = Cardinality(Asked(i)) + (IF t \in {All, i} THEN 1 ELSE 0)
  BY <1>6, <1>8, <1>9
<1> QED BY <1>8, <1>10, <1>11, <1>12, <1>13, <1>14 DEF CountedOf

LEMMA DumpCounts ==
  ASSUME OnceInv, DumpDevice,
         NEW i \in Interfaces, NEW k \in Keys, NEW fam \in Exported,
         <<i, k>> \in stable, CountedOf(i, k, fam)
  PROVE  CountedOf(i, k, fam)'
<1>1. TypeOK /\ UNCHANGED <<options, next, pc, acc, body>>
  BY DEF OnceInv, Base, DumpDevice
<1>2. PICK j \in devs : /\ devs' = devs \ {j}
                        /\ IF j \in up
                           THEN \E ks \in SetToSeqs(PeersOf(j)) :
                                  stdout' = [stdout EXCEPT ![j] =
                                    <<Local>> \o [n \in DOMAIN ks |-> [key |-> ks[n], peer |-> kernel[j][ks[n]]]]]
                           ELSE UNCHANGED stdout
  BY DEF DumpDevice
<1>3. Asked(i)' = Asked(i)
  BY <1>1, SameArguments DEF Asked
<1>4. RowCount(fam, i, k)' = RowCount(fam, i, k) /\ Copies(acc[i], k)' = Copies(acc[i], k)
  BY <1>1 DEF RowCount, SamplesOf, Copies, At
<1>5. Copies(stdout[i], k)' + Owing(i)' = Copies(stdout[i], k) + Owing(i)
  <2>1. CASE j # i
    <3>1. stdout'[i] = stdout[i]
      BY <1>1, <1>2, <2>1 DEF TypeOK
    <3>2. Copies(stdout[i], k)' = Copies(stdout[i], k)
      BY <3>1 DEF Copies, At
    <3> QED BY <1>2, <2>1, <3>2 DEF Owing
  <2>2. CASE j = i
    <3>1. i \in up /\ k \in PeersOf(i) /\ stdout[i] = <<>>
      BY <1>2, <2>2, StablePeer DEF OnceInv, Phases
    <3>2. PICK ks \in SetToSeqs(PeersOf(i)) :
            stdout' = [stdout EXCEPT ![i] =
              <<Local>> \o [n \in DOMAIN ks |-> [key |-> ks[n], peer |-> kernel[i][ks[n]]]]]
      BY <1>2, <2>2, <3>1
    <3>3. stdout'[i] = <<Local>> \o [n \in DOMAIN ks |-> [key |-> ks[n], peer |-> kernel[i][ks[n]]]]
      BY <1>1, <3>2 DEF TypeOK
    <3>4. Copies(stdout'[i], k) = 1
      BY <1>1, <3>1, <3>3, CopiesDumped
    <3>5. Copies(stdout[i], k)' = 1
      BY <3>4 DEF Copies, At
    <3>6. Copies(stdout[i], k) = 0
      BY <3>1, NoCopies
    <3>7. Owing(i) = 1 /\ Owing(i)' = 0
      BY <1>2, <2>2 DEF Owing
    <3> QED BY <3>5, <3>6, <3>7
  <2> QED BY <2>1, <2>2
<1>6. /\ Copies(acc[i], k) \in Nat /\ Copies(stdout[i], k) \in Nat /\ Owing(i) \in Nat
      /\ RowCount(fam, i, k) \in Nat
  BY <1>1, EndpointCounts, RowCountType DEF Owing, Exported
<1>7. Copies(stdout[i], k)' \in Nat /\ Owing(i)' \in Nat
  <2>1. TypeOK'
    BY <1>1, NextType DEF Next, Step
  <2>2. stdout'[i] \in Seq(Endpoints)
    BY <2>1 DEF TypeOK
  <2>3. Copies(stdout'[i], k) \in Nat
    BY <2>2, CopiesType
  <2> QED BY <2>3 DEF Owing, Copies, At
<1> QED BY <1>3, <1>4, <1>5, <1>6, <1>7 DEF CountedOf

LEMMA CollectCounts ==
  ASSUME OnceInv, Collect,
         NEW i \in Interfaces, NEW k \in Keys, NEW fam \in Exported, CountedOf(i, k, fam)
  PROVE  CountedOf(i, k, fam)'
<1>1. NamesInFront(Targets[next]) = 1
  BY DEF NamesInFront, Inject
<1>2. /\ TypeOK /\ pc = "dump" /\ pc' = "spawn" /\ devs = {} /\ UNCHANGED <<options, devs, body>>
      /\ acc' = Merge(acc, stdout) /\ next' = next + 1 /\ stdout' = NoEndpoints
  BY <1>1 DEF OnceInv, Base, Collect
<1>3. Asked(i)' = Asked(i)
  <2>1. Covering(i)' = Covering(i)
    BY <1>2, SameArguments
  <2>2. \A n \in Covering(i) : n \in Nat
    BY <1>2, AskedType DEF Covering
  <2>3. \A n \in Covering(i) : n < next + 1 <=> n < next \/ n = next
    BY <1>2, <2>2 DEF TypeOK
  <2> QED BY <1>2, <2>1, <2>3 DEF Asked
<1>4. RowCount(fam, i, k)' = RowCount(fam, i, k) /\ Owing(i)' = Owing(i)
  BY <1>2 DEF RowCount, SamplesOf, Owing
<1>5. Copies(acc[i], k)' = Copies(acc[i], k) + Copies(stdout[i], k)
  <2>1. acc'[i] = acc[i] \o stdout[i] /\ acc[i] \in Seq(Endpoints) /\ stdout[i] \in Seq(Endpoints)
    BY <1>2 DEF Merge, TypeOK
  <2>2. Copies(acc'[i], k) = Copies(acc[i], k) + Copies(stdout[i], k)
    BY <2>1, CopiesConcat
  <2> QED BY <2>2 DEF Copies, At
<1>6. Copies(stdout[i], k)' = 0
  <2>1. stdout'[i] = <<>>
    BY <1>2 DEF NoEndpoints
  <2>2. Copies(stdout'[i], k) = 0
    BY <2>1, NoCopies
  <2> QED BY <2>2 DEF Copies, At
<1>7. /\ Copies(acc[i], k) \in Nat /\ Copies(stdout[i], k) \in Nat /\ Owing(i) \in Nat
      /\ RowCount(fam, i, k) \in Nat
  BY <1>2, EndpointCounts, RowCountType DEF Owing, Exported
<1> QED BY <1>3, <1>4, <1>5, <1>6, <1>7 DEF CountedOf

(* An interface line carries no key and adds no row; a peer's leaves the   *)
(* accumulator for one row of every family.                                *)
LEMMA RenderCounts ==
  ASSUME OnceInv, RenderEndpoint, pc' # "answer",
         NEW i \in Interfaces, NEW k \in Keys, NEW fam \in Exported, CountedOf(i, k, fam)
  PROVE  CountedOf(i, k, fam)'
<1> DEFINE taken == IF NextInterface = i /\ Rendered.key = k THEN 1 ELSE 0
<1>1. /\ TypeOK /\ Step /\ ~Answer /\ pc = "render" /\ pc' = "render"
      /\ UNCHANGED <<options, next, devs, stdout>>
  BY DEF OnceInv, Base, RenderEndpoint, Step, Answer, End
<1>2. Asked(i)' = Asked(i)
  BY <1>1, SameArguments DEF Asked
<1>3. Owing(i)' = Owing(i) /\ Copies(stdout[i], k)' = Copies(stdout[i], k)
  BY <1>1 DEF Owing, Copies, At
<1>4. Copies(acc[i], k) = taken + Copies(acc[i], k)'
  <2>1. /\ NextInterface \in Interfaces /\ NextInterface \in Pending
        /\ acc' = [acc EXCEPT ![NextInterface] = Tail(@)] /\ acc[i] \in Seq(Endpoints)
    BY <1>1, RenderedEndpoint DEF TypeOK
  <2>2. CASE NextInterface = i
    <3>1. acc'[i] = Tail(acc[i]) /\ acc[i] # <<>> /\ Head(acc[i]) = Rendered
      BY <1>1, <2>1, <2>2 DEF TypeOK, Pending, Rendered
    <3>2. Copies(acc[i], k) = taken + Copies(acc'[i], k)
      BY <2>1, <2>2, <3>1, CopiesTail
    <3> QED BY <3>2 DEF Copies, At
  <2>3. CASE NextInterface # i
    <3>1. acc'[i] = acc[i]
      BY <1>1, <2>1, <2>3 DEF TypeOK
    <3>2. Copies(acc[i], k) \in Nat /\ Copies(acc[i], k)' = Copies(acc[i], k)
      BY <1>1, <3>1, EndpointCounts DEF Copies, At
    <3> QED BY <2>3, <3>2
  <2> QED BY <2>2, <2>3
<1>5. fam \in Families /\ RowCount(fam, i, k) \in Nat
  BY <1>1, RowCountType DEF Exported
<1>6. RowCount(fam, i, k)' = RowCount(fam, i, k) + taken
  <2>1. CASE Rendered = Local
    <3>1. body' = body
      BY <2>1 DEF RenderEndpoint, Rendered
    <3>2. Rendered.key # k
      BY <2>1, EmptyIsNoValue DEF Local
    <3> QED BY <1>5, <3>1, <3>2 DEF RowCount, SamplesOf
  <2>2. CASE Rendered # Local
    <3>1. ~RenderPanics(Rendered)
      BY <1>1, <2>2 DEF RenderEndpoint, Rendered, End
    <3>2. body' = [f \in Families |->
            IF f \in Exported THEN Append(body[f], RowOf(NextInterface, Rendered, f)) ELSE body[f]]
      BY <2>2, <3>1 DEF RenderEndpoint, Rendered, RowOf
    <3>3. body'[fam] # body[fam]
      <4> DEFINE r == RowOf(NextInterface, Rendered, fam)
      <4>1. body[fam] \in Seq(Samples) /\ body'[fam] = Append(body[fam], r)
        BY <1>1, <1>5, <3>2 DEF TypeOK
      <4> HIDE DEF r
      <4>2. \A row : Len(Append(body[fam], row)) = Len(body[fam]) + 1 /\ Len(body[fam]) \in Nat
        BY <4>1, AppendRow
      <4>3. Len(body'[fam]) = Len(body[fam]) + 1 /\ Len(body[fam]) \in Nat
        BY <4>1, <4>2
      <4> QED BY <4>3
    <3>4. body' # body
      BY <3>3
    <3> QED BY <1>1, <3>4, RowCountGrows
  <2> QED BY <2>1, <2>2
<1>7. /\ Copies(acc[i], k) \in Nat /\ Copies(stdout[i], k) \in Nat /\ Owing(i) \in Nat
      /\ taken \in Nat /\ Copies(acc[i], k)' \in Nat
  <2>1. TypeOK'
    BY <1>1, NextType DEF Next
  <2>2. acc'[i] \in Seq(Endpoints)
    BY <2>1 DEF TypeOK
  <2>3. Copies(acc'[i], k) \in Nat
    BY <2>2, CopiesType
  <2> QED BY <1>1, <2>3, EndpointCounts DEF Owing, Copies, At
<1> HIDE DEF taken
<1> QED BY <1>2, <1>3, <1>4, <1>5, <1>6, <1>7 DEF CountedOf

(* A step that moves no endpoint.                                          *)
LEMMA QuietCounts ==
  ASSUME UNCHANGED <<options, next, devs, stdout, acc, body>>, pc = "dump" <=> pc' = "dump",
         NEW i \in Interfaces, NEW k \in Keys, NEW fam, CountedOf(i, k, fam)
  PROVE  CountedOf(i, k, fam)'
<1>1. Asked(i)' = Asked(i)
  BY SameArguments DEF Asked
<1>2. RowCount(fam, i, k)' = RowCount(fam, i, k) /\ Owing(i)' = Owing(i)
  BY DEF RowCount, SamplesOf, Owing
<1>3. Copies(acc[i], k)' = Copies(acc[i], k) /\ Copies(stdout[i], k)' = Copies(stdout[i], k)
  BY DEF Copies, At
<1> QED BY <1>1, <1>2, <1>3 DEF CountedOf

(***************************************************************************)
(* The shape of the state that the sum relies on.                          *)
(***************************************************************************)
Shape == PeersOnUp /\ StablePresent /\ Phases

LEMMA EnvironmentKeepsUp ==
  ASSUME TypeOK, PeersOnUp, Environment
  PROVE  PeersOnUp'
<1> SUFFICES ASSUME NEW j \in Interfaces, NEW l \in Keys, j \notin up' PROVE kernel'[j][l] = NoPeer
  BY DEF PeersOnUp
<1>1. ASSUME NEW i \in up, NEW k \in Keys, NEW p \in Peers \cup {NoPeer}, SetPeer(i, k, p)
      PROVE  kernel'[j][l] = NoPeer
  <2>1. i \in Interfaces
    BY DEF TypeOK
  <2>2. up' = up /\ <<j, l>> # <<i, k>> => kernel'[j][l] = kernel[j][l]
    BY <1>1, <2>1, SetPeerEffect
  <2>3. j \notin up /\ kernel'[j][l] = kernel[j][l]
    BY <1>1, <2>1, <2>2, SetPeerEffect
  <2> QED BY <2>3 DEF PeersOnUp
<1>2. ASSUME NEW p \in Present
      PROVE  p[1] \in up /\ p[2] \in Keys /\ kernel[p[1]][p[2]] \in Peers
  BY <1>2 DEF Present, PeersOnUp, TypeOK
<1>3. CASE AddPeer
  <2>1. PICK i \in up, k \in Keys, ips \in AllowedIps :
          SetPeer(i, k, [ips |-> ips, hs |-> 0, rx |-> 0, tx |-> 0])
    BY <1>3 DEF AddPeer
  <2>2. [ips |-> ips, hs |-> 0, rx |-> 0, tx |-> 0] \in Peers
    BY DEF Peers
  <2> QED BY <1>1, <2>1, <2>2
<1>4. CASE RemovePeer
  BY <1>1, <1>2, <1>4 DEF RemovePeer
<1>5. ASSUME NEW p \in Present, NEW q \in Peers, SetPeer(p[1], p[2], q)
      PROVE  kernel'[j][l] = NoPeer
  BY <1>1, <1>2, <1>5
<1>6. CASE ReplaceIps
  <2>1. PICK p \in Present, ips \in AllowedIps : SetPeer(p[1], p[2], [kernel[p[1]][p[2]] EXCEPT !.ips = ips])
    BY <1>6 DEF ReplaceIps
  <2>2. [kernel[p[1]][p[2]] EXCEPT !.ips = ips] \in Peers
    BY <1>2 DEF Peers
  <2> QED BY <1>5, <2>1, <2>2
<1>7. CASE Receive
  <2>1. PICK p \in Present : SetPeer(p[1], p[2], [kernel[p[1]][p[2]] EXCEPT !.rx = @ + 1])
    BY <1>7 DEF Receive
  <2>2. [kernel[p[1]][p[2]] EXCEPT !.rx = @ + 1] \in Peers
    BY <1>2 DEF Peers
  <2> QED BY <1>5, <2>1, <2>2
<1>8. CASE Send
  <2>1. PICK p \in Present : SetPeer(p[1], p[2], [kernel[p[1]][p[2]] EXCEPT !.tx = @ + 1])
    BY <1>8 DEF Send
  <2>2. [kernel[p[1]][p[2]] EXCEPT !.tx = @ + 1] \in Peers
    BY <1>2 DEF Peers
  <2> QED BY <1>5, <2>1, <2>2
<1>9. CASE Handshake
  <2>1. PICK p \in Present : SetPeer(p[1], p[2], [kernel[p[1]][p[2]] EXCEPT !.hs = now])
    BY <1>9 DEF Handshake
  <2>2. [kernel[p[1]][p[2]] EXCEPT !.hs = now] \in Peers
    BY <1>2 DEF Peers, TypeOK
  <2> QED BY <1>5, <2>1, <2>2
<1>10. CASE AddInterface
  BY <1>10 DEF AddInterface, PeersOnUp
<1>11. CASE DeleteInterface
  <2>1. PICK i \in up : /\ up' = up \ {i}
                        /\ kernel' = [kernel EXCEPT ![i] = [k \in Keys |-> NoPeer]]
    BY <1>11 DEF DeleteInterface
  <2>2. CASE j = i
    BY <2>1, <2>2 DEF TypeOK
  <2>3. CASE j # i
    BY <2>1, <2>3 DEF TypeOK, PeersOnUp
  <2> QED BY <2>2, <2>3
<1>12. CASE EditFile \/ SetWg \/ Tick \/ StepBack
  BY <1>12 DEF EditFile, SetWg, Tick, StepBack, PeersOnUp
<1> QED BY <1>3, <1>4, <1>6, <1>7, <1>8, <1>9, <1>10, <1>11, <1>12 DEF Environment

LEMMA NextBase ==
  ASSUME Base, [Next]_vars
  PROVE  Base'
<1>1. TypeOK /\ TypeOK'
  BY NextType DEF Base
<1>2. CASE Begin
  <2>1. pc' = "read" /\ UNCHANGED env /\ met' = Present /\ noted' = Conditions
    BY <1>2 DEF Begin
  <2> QED BY <1>1, <2>1 DEF Base, Resting, Watched, Present, Conditions, env
<1>3. CASE Answer
  BY <1>1, <1>3 DEF Answer, DropLocals, Base, Resting, Watched, NoEndpoints, NoBody
<1>4. CASE Step /\ ~Answer
  <2>1. UNCHANGED <<env, met, noted>> /\ pc # "idle" /\ pc' # "idle"
    BY <1>4, ProgramFrame
  <2> QED BY <1>1, <2>1 DEF Base, Resting, Watched, Present, Conditions, env
<1>5. CASE Environment
  <2>1. /\ UNCHANGED <<pc, devs, stdout, acc, body>>
        /\ pc # "idle" => met' = met \cup Present' /\ noted \cup Conditions' \subseteq noted'
    BY <1>1, <1>5, EnvironmentFrame
  <2> QED BY <1>1, <2>1 DEF Base, Resting, Watched, NoEndpoints, NoBody
<1>6. CASE UNCHANGED vars
  <2>1. UNCHANGED <<env, pc, devs, stdout, acc, body, history>>
    BY <1>6 DEF vars
  <2> QED BY <1>1, <2>1 DEF Base, Resting, Watched, Present, Conditions, env, history, NoEndpoints, NoBody
<1> QED BY <1>2, <1>3, <1>4, <1>5, <1>6 DEF Next

LEMMA StepKeepsPhases ==
  ASSUME Base, Phases, Step
  PROVE  Phases'
<1>1. TypeOK
  BY DEF Base
<1>2. CASE ReadFile
  <2>1. UNCHANGED <<next, devs, stdout>> /\ pc = "read"
        /\ (pc' = "read" \/ (pc' = "answer" /\ outcome' = "error"))
    BY <1>2 DEF ReadFile, End
  <2> QED BY <2>1 DEF Phases, NoEndpoints
<1>3. CASE ParseConfig
  <2>1. /\ UNCHANGED <<next, devs, stdout>> /\ pc = "read"
        /\ (pc' = "spawn" \/ (pc' = "answer" /\ outcome' # "ok"))
    BY <1>3 DEF ParseConfig, End
  <2> QED BY <2>1 DEF Phases, NoEndpoints
<1>4. CASE Spawn
  <2>1. /\ UNCHANGED <<next, stdout>> /\ stdout = NoEndpoints /\ devs = {}
        /\ \/ pc' = "dump"
           \/ pc' = "answer" /\ outcome' = "error" /\ devs' = devs
    BY <1>4 DEF Spawn, End, Phases
  <2>2. \A i \in devs' : stdout'[i] = <<>>
    <3>1. devs' \subseteq Interfaces
      BY <1>1, <1>4, NextType DEF Next, Step, TypeOK
    <3> QED BY <2>1, <3>1 DEF NoEndpoints
  <2> QED BY <2>1, <2>2 DEF Phases, NoEndpoints
<1>5. CASE DumpDevice
  <2>1. PICK i \in devs : /\ devs' = devs \ {i}
                          /\ \A j \in Interfaces \ {i} : stdout'[j] = stdout[j]
    BY <1>1, <1>5 DEF DumpDevice, TypeOK
  <2>2. pc' = "dump"
    BY <1>5 DEF DumpDevice
  <2> QED BY <1>1, <2>1, <2>2 DEF Phases, TypeOK
<1>6. CASE Collect
  <2>1. NamesInFront(Targets[next]) = 1
    BY DEF NamesInFront, Inject
  <2>2. pc' = "spawn" /\ devs' = {} /\ stdout' = NoEndpoints
    BY <1>6, <2>1 DEF Collect
  <2> QED BY <2>2 DEF Phases, NoEndpoints
<1>7. CASE BeginRender
  <2>1. /\ UNCHANGED <<options, next, devs, stdout>> /\ pc = "spawn" /\ next > Len(Targets)
        /\ (pc' = "render" \/ (pc' = "answer" /\ outcome' = "panic"))
    BY <1>7 DEF BeginRender, End
  <2>2. Targets' = Targets
    BY <2>1 DEF Targets
  <2> QED BY <2>1, <2>2 DEF Phases, NoEndpoints
<1>8. CASE RenderEndpoint
  <2>1. /\ UNCHANGED <<options, next, devs, stdout>> /\ pc = "render"
        /\ (pc' = "render" \/ (pc' = "answer" /\ outcome' = "panic"))
    BY <1>8 DEF RenderEndpoint, End
  <2>2. Targets' = Targets
    BY <2>1 DEF Targets
  <2> QED BY <2>1, <2>2 DEF Phases, NoEndpoints
<1>9. CASE Finish
  <2>1. /\ UNCHANGED <<options, next, devs, stdout, acc>> /\ pc = "render" /\ pc' = "answer"
        /\ Pending = {}
    BY <1>9 DEF Finish, End
  <2>2. Targets' = Targets /\ Pending' = Pending
    BY <2>1 DEF Targets, Pending
  <2> QED BY <2>1, <2>2 DEF Phases, NoEndpoints
<1>10. CASE Answer
  BY <1>10 DEF Answer, DropLocals, Phases, NoEndpoints
<1> QED BY <1>2, <1>3, <1>4, <1>5, <1>6, <1>7, <1>8, <1>9, <1>10 DEF Step

LEMMA NextShape ==
  ASSUME Base, Shape, [Next]_vars
  PROVE  Shape'
<1>1. TypeOK
  BY DEF Base
<1>2. CASE Begin
  <2>1. /\ UNCHANGED <<env, next, devs, stdout>> /\ pc = "idle" /\ pc' = "read" /\ stable' = Present
    BY <1>2 DEF Begin
  <2> QED BY <2>1 DEF Shape, PeersOnUp, StablePresent, Phases, Present, env, NoEndpoints
<1>3. CASE Step
  <2>1. PeersOnUp' /\ StablePresent'
    <3>1. CASE Answer
      <4>1. UNCHANGED env /\ stable' = {}
        BY <3>1 DEF Answer
      <4> QED BY <4>1 DEF Shape, PeersOnUp, StablePresent, env
    <3>2. CASE ~Answer
      BY <1>3, <3>2, ProgramFrame DEF Shape, PeersOnUp, StablePresent, Present, env
    <3> QED BY <3>1, <3>2
  <2> QED BY <1>3, <2>1, StepKeepsPhases DEF Shape
<1>4. CASE Environment
  <2>1. UNCHANGED <<options, pc, outcome, next, devs, stdout, acc>>
    BY <1>1, <1>4, EnvironmentFrame
  <2>2. Phases'
    <3>1. Targets' = Targets /\ Pending' = Pending
      BY <2>1 DEF Targets, Pending
    <3> QED BY <2>1, <3>1 DEF Shape, Phases, NoEndpoints
  <2>3. StablePresent'
    <3>1. PICK marks, kind : Disturb(kind, marks)
      BY <1>1, <1>4, EnvironmentGrows DEF EnvEffect
    <3>2. IF pc = "idle" THEN stable' = stable ELSE stable' = stable \cap Present'
      BY <3>1 DEF Disturb, Observe, history
    <3> QED BY <2>1, <3>2 DEF Shape, StablePresent
  <2> QED BY <1>1, <1>4, <2>2, <2>3, EnvironmentKeepsUp DEF Shape
<1>5. CASE UNCHANGED vars
  <2>1. UNCHANGED <<options, env, pc, outcome, next, devs, stdout, acc, history>>
    BY <1>5 DEF vars
  <2>2. Targets' = Targets /\ Pending' = Pending /\ Present' = Present
    BY <2>1 DEF Targets, Pending, Present, env
  <2> QED BY <2>1, <2>2 DEF Shape, PeersOnUp, StablePresent, Phases, env, history, NoEndpoints
<1> QED BY <1>2, <1>3, <1>4, <1>5 DEF Next

(***************************************************************************)
(* The sum is kept.                                                        *)
(***************************************************************************)
LEMMA StepCounts ==
  ASSUME OnceInv, Step, ~Answer, Alive', WgWorked,
         NEW i \in Interfaces, NEW k \in Keys, NEW fam \in Exported,
         <<i, k>> \in stable, CountedOf(i, k, fam)
  PROVE  CountedOf(i, k, fam)'
<1>1. pc' # "answer" \/ outcome' = "ok"
  BY DEF Alive
<1>2. CASE ReadFile
  BY <1>2, QuietCounts DEF ReadFile, End
<1>3. CASE ParseConfig
  BY <1>3, QuietCounts DEF ParseConfig, End
<1>4. CASE Spawn
  BY <1>1, <1>4, SpawnCounts DEF Spawn, End
<1>5. CASE DumpDevice
  BY <1>5, DumpCounts
<1>6. CASE Collect
  BY <1>6, CollectCounts
<1>7. CASE BeginRender
  BY <1>7, QuietCounts DEF BeginRender, End
<1>8. CASE RenderEndpoint
  BY <1>1, <1>8, RenderCounts DEF RenderEndpoint, End, OnceInv, Base, TypeOK
<1>9. CASE Finish
  BY <1>9, QuietCounts DEF Finish, End
<1> QED BY <1>2, <1>3, <1>4, <1>5, <1>6, <1>7, <1>8, <1>9 DEF Step

(* Nothing is owed before the first argument.                              *)
LEMMA BeginCounts ==
  ASSUME OnceInv, Begin,
         NEW i \in Interfaces, NEW k \in Keys, NEW fam \in Exported
  PROVE  CountedOf(i, k, fam)'
<1>1. /\ devs' = {} /\ stdout' = NoEndpoints /\ acc' = NoEndpoints /\ body' = NoBody
      /\ pc' = "read" /\ next' = 1 /\ UNCHANGED options
  BY DEF Begin, OnceInv, Base, Resting, Phases
<1>2. Asked(i)' = {}
  <2>1. \A n \in Covering(i) : n \in 1 .. Len(Targets) /\ Len(Targets) \in Nat
    BY AskedType DEF Covering, OnceInv, Base
  <2>2. Covering(i)' = Covering(i)
    BY <1>1, SameArguments
  <2>3. \A n \in Covering(i) : ~(n < 1)
    BY <2>1
  <2> QED BY <1>1, <2>2, <2>3 DEF Asked
<1>3. SamplesOf(fam, i, k)' = {}
  BY <1>1 DEF SamplesOf, NoBody, Exported
<1>4. acc'[i] = <<>> /\ stdout'[i] = <<>>
  BY <1>1 DEF NoEndpoints
<1>5. Copies(acc'[i], k) = 0 /\ Copies(stdout'[i], k) = 0
  BY <1>4, NoCopies
<1>6. Copies(acc[i], k)' = 0 /\ Copies(stdout[i], k)' = 0
  BY <1>5 DEF Copies, At
<1>7. Owing(i)' = 0
  BY <1>1 DEF Owing
<1>8. RowCount(fam, i, k)' = 0 /\ Cardinality(Asked(i))' = 0
  BY <1>2, <1>3, FS_EmptySet DEF RowCount
<1> QED BY <1>6, <1>7, <1>8 DEF CountedOf

LEMMA NextOnce ==
  ASSUME OnceInv, [Next]_vars
  PROVE  OnceInv'
<1>1. Base' /\ Shape'
  BY NextBase, NextShape DEF OnceInv, Shape
<1>2. TypeOK
  BY DEF OnceInv, Base
<1>3. Counted'
  <2> SUFFICES ASSUME Alive', WgWorked',
                      NEW i \in Interfaces, NEW k \in Keys, NEW fam \in Exported', <<i, k>> \in stable'
               PROVE  CountedOf(i, k, fam)'
    BY DEF Counted
  <2>1. CASE Begin
    <3>1. fam \in Exported
      BY <2>1, SameArguments DEF Begin
    <3> QED BY <2>1, <3>1, BeginCounts
  <2>2. CASE Step /\ ~Answer
    <3>1. UNCHANGED <<options, stable, noted>> /\ pc # "idle"
      BY <2>2, ProgramFrame
    <3>2. fam \in Exported /\ <<i, k>> \in stable /\ WgWorked
      BY <3>1, SameArguments DEF WgWorked
    <3>3. pc # "answer"
      BY <2>2 DEF Step, ReadFile, ParseConfig, Spawn, DumpDevice, Collect, BeginRender,
                  RenderEndpoint, Finish
    <3>4. CountedOf(i, k, fam)
      BY <3>1, <3>2, <3>3 DEF OnceInv, Counted, Alive
    <3> QED BY <2>2, <3>2, <3>4, StepCounts
  <2>3. CASE Answer
    BY <2>3 DEF Answer
  <2>4. CASE Environment \/ UNCHANGED vars
    <3>1. /\ UNCHANGED <<options, pc, outcome, next, devs, stdout, acc, body>>
          /\ stable' \subseteq stable /\ (pc # "idle" => noted \subseteq noted')
      <4>1. CASE Environment
        <5>1. PICK marks, kind : Disturb(kind, marks)
          BY <1>2, <4>1, EnvironmentGrows DEF EnvEffect
        <5> QED BY <5>1 DEF Disturb, Observe, history
      <4>2. CASE UNCHANGED vars
        BY <4>2 DEF vars, history
      <4> QED BY <2>4, <4>1, <4>2
    <3>2. fam \in Exported /\ <<i, k>> \in stable /\ Alive
      BY <3>1, SameArguments DEF Alive
    <3>3. WgWorked
      BY <3>1, <3>2 DEF WgWorked, Alive
    <3>4. CountedOf(i, k, fam)
      BY <3>2, <3>3 DEF OnceInv, Counted
    <3> QED BY <3>1, <3>4, QuietCounts
  <2> QED BY <2>1, <2>2, <2>3, <2>4 DEF Next
<1> QED BY <1>1, <1>3 DEF OnceInv, Shape

LEMMA InitOnce == Init => OnceInv
<1> SUFFICES ASSUME Init PROVE OnceInv
  OBVIOUS
<1>1. Base
  BY InitType DEF Init, Base, Resting, Watched
<1>2. PeersOnUp
  <2>1. PICK s \in Starts[options] : up = s.up /\ kernel = s.kernel
    BY DEF Init
  <2>2. s \in EnvStates
    BY <2>1, ConstantsType DEF Init
  <2> QED BY <2>1, <2>2 DEF EnvStates, PeersOnUp
<1>3. StablePresent /\ Phases /\ Counted
  <2>1. pc = "idle" /\ next = 1 /\ devs = {} /\ stdout = NoEndpoints /\ stable = {}
    BY DEF Init
  <2> QED BY <2>1 DEF StablePresent, Phases, Counted
<1> QED BY <1>1, <1>2, <1>3 DEF OnceInv

(* When the scrape is over nothing is left of the sum but the rows.        *)
LEMMA CountedIsOnce == OnceInv => EveryPeerOnce
<1> SUFFICES ASSUME OnceInv, Succeeded, WgWorked, NEW p \in stable, NEW fam \in Exported
             PROVE  Cardinality(SamplesOf(fam, p[1], p[2])) = Cardinality(Covering(p[1]))
  BY DEF EveryPeerOnce, WgWorked
<1>1. TypeOK /\ p[1] \in Interfaces /\ p[2] \in Keys /\ <<p[1], p[2]>> \in stable
  <2>1. TypeOK /\ stable \subseteq Interfaces \X Keys
    BY DEF OnceInv, Base, TypeOK
  <2>2. p \in Interfaces \X Keys
    BY <2>1
  <2>3. p[1] \in Interfaces /\ p[2] \in Keys /\ p = <<p[1], p[2]>>
    BY <2>2
  <2> QED BY <2>1, <2>3
<1> DEFINE i == p[1]
           k == p[2]
<1>2. CountedOf(i, k, fam)
  BY <1>1 DEF OnceInv, Counted, Alive, Succeeded
<1>3. next > Len(Targets) /\ Pending = {} /\ devs = {} /\ stdout = NoEndpoints
  BY DEF OnceInv, Phases, Succeeded
<1> HIDE DEF i, k
<1>4. i \in Interfaces
  BY <1>1 DEF i
<1>5. acc[i] = <<>> /\ stdout[i] = <<>>
  BY <1>3, <1>4 DEF Pending, NoEndpoints
<1>6. Copies(acc[i], k) = 0 /\ Copies(stdout[i], k) = 0 /\ Owing(i) = 0
  BY <1>3, <1>5, NoCopies DEF Owing
<1>7. Asked(i) = Covering(i)
  <2>1. Covering(i) \subseteq 1 .. Len(Targets) /\ Len(Targets) \in Nat /\ next \in Nat
    BY <1>1, AskedType DEF Covering, TypeOK
  <2>2. \A n \in 1 .. Len(Targets) : n < next
    BY <1>3, <2>1
  <2> QED BY <2>1, <2>2 DEF Asked
<1>8. RowCount(fam, i, k) \in Nat
  BY <1>1, RowCountType DEF Exported
<1>9. RowCount(fam, i, k) = Cardinality(Covering(i))
  BY <1>2, <1>6, <1>7, <1>8 DEF CountedOf
<1> QED BY <1>9 DEF RowCount, i, k

(* In particular a requested peer that stayed configured has a row.        *)
LEMMA RequestedReported ==
  ASSUME OnceInv, Succeeded, WgWorked, NEW i \in Requested, NEW k, <<i, k>> \in stable,
         NEW fam \in Exported
  PROVE  SamplesOf(fam, i, k) # {}
<1>1. Cardinality(SamplesOf(fam, i, k)) = Cardinality(Covering(i))
  <2>1. <<i, k>>[1] = i /\ <<i, k>>[2] = k
    OBVIOUS
  <2>2. Cardinality(SamplesOf(fam, <<i, k>>[1], <<i, k>>[2])) = Cardinality(Covering(<<i, k>>[1]))
    BY CountedIsOnce DEF EveryPeerOnce, WgWorked
  <2> QED BY <2>1, <2>2
<1>2. Covering(i) # {}
  BY DEF Covering, Requested, Range
<1>3. IsFiniteSet(Covering(i))
  <2>1. DOMAIN Targets = 1 .. Len(Targets) /\ Len(Targets) \in Nat
    BY AskedType DEF OnceInv, Base
  <2>2. IsFiniteSet(1 .. Len(Targets)) /\ Covering(i) \in SUBSET (1 .. Len(Targets))
    BY <2>1, FS_Interval DEF Covering
  <2> QED BY <2>2, FS_Subset
<1>4. Cardinality(Covering(i)) # 0
  BY <1>2, <1>3, FS_EmptySet
<1> QED BY <1>1, <1>4, FS_EmptySet

(* OnceCorrect: whenever wg worked throughout, a successful scrape reports *)
(* a requested peer that stayed configured exactly once in every family    *)
(* for each argument that covers its interface, whatever else changes      *)
(* while it runs (main.rs:94-99, wireguard.rs:139-163, 218-339).           *)
THEOREM OnceCorrect == Spec => []EveryPeerOnce
BY CountedIsOnce, InitOnce, NextOnce, PTL DEF Spec
===============================================================================
