------------------------------- MODULE Exporter -------------------------------
(***************************************************************************)
(* The exporter as it runs: Server, whose callback is one Scrape after the *)
(* other (src/src/main.rs:224, src/src/server.rs:100). The callback holds  *)
(* the only thread, so a connection is busy exactly while a scrape is on;  *)
(* clients and the environment of the scrape go on in the meantime. How a  *)
(* scrape ends decides the response.                                       *)
(***************************************************************************)
EXTENDS Naturals, Sequences, FiniteSets, SequencesExt

CONSTANTS Clients, Requests, Password, Nobody, MaxFds, ScrapeFds, MaxRequests
CONSTANTS Interfaces, NoPeer, Unset, FileNames, Texts, Unreadable, OptionSet, Starts,
          Disturbances, MaxEvents, MaxBytes, MaxNow, Keys, Names, Ips, Empty

VARIABLES conn, backlog, fds, sent, taken, answers, eof, busy
VARIABLES options, up, kernel, files, wg, now, events, pc, outcome, fileNo, text, table,
          next, devs, stdout, acc, body, begun, stable, met, noted, held, dumped

H == INSTANCE Server
P == INSTANCE Scrape

ASSUME ExporterConstants ==
  H!ServerConstants /\ P!ConstantsType /\ P!EmptyIsNoValue

(* History, of the two properties that relate a response to other moments. *)
VARIABLES
  asked,  \* per client and request that is due: the kernel when it was sent, and
          \* the peers that have been configured ever since
  served  \* per peer: the counters last sent to a client, or Unset

server == <<conn, backlog, fds, sent, taken, answers, eof, busy>>
scrape == <<options, up, kernel, files, wg, now, events, pc, outcome, fileNo, text, table,
            next, devs, stdout, acc, body, begun, stable, met, noted, held, dumped>>
vars == <<server, scrape, asked, served>>

Init ==
  /\ H!Init
  /\ P!Init
  /\ asked = [c \in Clients |-> <<>>]
  /\ served = [p \in Interfaces \X Keys |-> Unset]

(***************************************************************************)
(* The clients and the accept loop; a scrape is not involved.              *)
(***************************************************************************)
Send(c) ==
  /\ H!Send(c)
  /\ asked' = [asked EXCEPT ![c] = Append(@, [kernel |-> kernel, still |-> P!Present])]
  /\ UNCHANGED <<scrape, served>>

Aside(c) ==
  /\ H!Connect(c) \/ H!HangUp(c) \/ H!Close(c)
  /\ UNCHANGED <<scrape, asked, served>>

Accept ==
  /\ H!Accept
  /\ UNCHANGED <<scrape, asked, served>>

(* A request that passes the checks calls perform_request; any other is    *)
(* answered at once.                                                       *)
Take(c) ==
  /\ H!Take(c)
  /\ IF busy' = Nobody
     THEN asked' = [asked EXCEPT ![c] = Tail(@)] /\ UNCHANGED scrape
     ELSE P!Begin /\ UNCHANGED asked
  /\ UNCHANGED served

(***************************************************************************)
(* The scrape. Opening a file needs a descriptor and starting wg needs     *)
(* some for its pipes; without them the call is an error like any other.   *)
(***************************************************************************)
Starved_Never == FALSE
Starved ==
  \/ pc = "read" /\ fileNo <= Len(options.files) /\ fds >= MaxFds
  \/ pc = "spawn" /\ next <= Len(P!Targets) /\ fds + ScrapeFds > MaxFds

Work ==
  /\ busy # Nobody
  /\ pc # "answer"
  /\ IF Starved
     THEN /\ P!End("error")
          /\ UNCHANGED <<options, up, kernel, files, wg, now, events, fileNo, text, table,
                         next, devs, stdout, acc, body, begun, stable, met, noted, held, dumped>>
     ELSE P!Step
  /\ UNCHANGED <<server, asked, served>>

(* The counters of a peer in the response: only those of a peer that       *)
(* stayed configured are compared with later ones.                         *)
Rows(p, f) == {n \in DOMAIN body[f] : body[f][n].iface = p[1] /\ body[f][n].key = p[2]}
Greatest(p, f) == CHOOSE v \in {body[f][n].value : n \in Rows(p, f)} :
                    \A n \in Rows(p, f) : body[f][n].value <= v
Counters(p) == [f \in {"sent", "received"} |-> Greatest(p, f)]
Sampled == {p \in stable : \A f \in {"sent", "received"} : Rows(p, f) # {}}

Reply(c) ==
  /\ busy = c
  /\ P!Answer
  /\ busy' = Nobody
  /\ IF outcome = "panic"
     THEN H!Shut(c) /\ UNCHANGED answers
     ELSE /\ answers' = [answers EXCEPT ![c] = Append(@, IF outcome = "ok" THEN 200 ELSE 500)]
          /\ H!AfterResponse(c, sent[c][taken[c]])
  /\ asked' = [asked EXCEPT ![c] = Tail(@)]
  /\ served' = IF outcome = "ok"
               THEN [p \in Interfaces \X Keys |-> IF p \in Sampled THEN Counters(p) ELSE served[p]]
               ELSE served
  /\ UNCHANGED <<backlog, sent, taken, eof>>

Environment ==
  /\ P!Environment
  /\ asked' = [c \in Clients |-> [n \in DOMAIN asked[c] |->
                 [asked[c][n] EXCEPT !.still = @ \cap P!Present']]]
  /\ served' = [p \in Interfaces \X Keys |-> IF p \in P!Present' THEN served[p] ELSE Unset]
  /\ UNCHANGED server

Next ==
  \/ Accept \/ Work \/ Environment
  \/ \E c \in Clients : Send(c) \/ Aside(c) \/ Take(c) \/ Reply(c)

Spec == Init /\ [][Next]_vars

(* As in Server and Scrape: the runtime passes no task over forever, the   *)
(* thread goes on, and wg terminates.                                      *)
FairSpec ==
  /\ Spec
  /\ SF_vars(Accept) /\ WF_vars(Work)
  /\ \A c \in Clients : SF_vars(Take(c)) /\ WF_vars(Reply(c))

(***************************************************************************)
(* Properties.                                                             *)
(***************************************************************************)

(* ScrapesOneByOne: a scrape is on exactly while a connection waits for    *)
(* its callback, and one that starts wg has the descriptors for it         *)
(* (main.rs:109, 51-65, server.rs:100).                                    *)
ScrapesOneByOne ==
  /\ pc = "idle" <=> busy = Nobody
  /\ pc \in {"dump", "render"} => fds + ScrapeFds <= MaxFds

(* ImplementsServer: with real scrapes for callbacks the exporter is still *)
(* a Server: in particular a response of status 200 is never sent when the *)
(* descriptors that wg needs are held by connections (server.rs:80-175).   *)
ImplementsServer == H!Spec

(* FreshSinceSent: unless wg fails, a response of status 200 is about the  *)
(* time since its request was sent: it has each requested peer that stayed *)
(* configured since then, with counters that are no older, also when the   *)
(* request had to wait for a scrape on behalf of another client or was     *)
(* pipelined behind one (main.rs:49-103, server.rs:100-108).               *)
FreshSinceSent ==
  [][\A c \in Clients :
       (busy = c /\ busy' = Nobody /\ outcome = "ok" /\ {"denied", "absent"} \cap noted = {}) =>
       \A p \in Head(asked[c]).still : p[1] \in P!Requested =>
         \A f \in {"sent", "received"} :
           /\ Rows(p, f) # {}
           /\ \A n \in Rows(p, f) :
                body[f][n].value >= P!Counter(Head(asked[c]).kernel[p[1]][p[2]], f)
    ]_vars

(* CountersNeverGoBack: over successive responses, to whatever clients,    *)
(* the transfer counters of a peer that stays configured never decrease:   *)
(* the families are declared counters (wireguard.rs:176-185, 329-335).     *)
CountersNeverGoBack ==
  [][\A c \in Clients : (busy = c /\ busy' = Nobody /\ outcome = "ok") =>
       \A f \in {"sent", "received"} : \A n \in DOMAIN body[f] :
         LET p == <<body[f][n].iface, body[f][n].key>>
         IN  p \in stable /\ served[p] # Unset => body[f][n].value >= served[p][f]
    ]_vars

(* Served: a request for metrics that waits, on a connection that is open  *)
(* or still in the listen queue, is answered with status 200 when nothing  *)
(* stands in the way of scrapes any more, unless its client hangs up       *)
(* (main.rs:22-107, server.rs:80-175).                                     *)
Served ==
  \A c \in Clients, n \in 1 .. MaxRequests :
    [](/\ conn[c] \in {"queued", "open"} /\ taken[c] < n /\ n <= Len(sent[c])
       /\ \A m \in 1 .. n : sent[c][m].connection # "close"
       /\ [](P!Healthy /\ c \notin eof)
       => <>(Len(answers[c]) >= n /\ answers[c][n] = 200))
===============================================================================
