-------------------------------- MODULE Server --------------------------------
(***************************************************************************)
(* The HTTP server of src/src/server.rs: the accept loop, one task per     *)
(* connection, and handle_request with a callback that blocks the only     *)
(* thread of the runtime while it makes the metrics. The callback itself   *)
(* is reduced to how it can end. The listen queue, TCP and hyper's HTTP/1  *)
(* connection are modelled from how server.rs uses them.                   *)
(***************************************************************************)
EXTENDS Naturals, Sequences, FiniteSets, SequencesExt

CONSTANTS Clients,     \* connections a client may open
          Requests,    \* requests a client may send
          Password,    \* TRUE for Authorization::Basic
          Nobody,      \* no connection
          MaxFds,      \* descriptors left to connections and to wg
          ScrapeFds,   \* descriptors a scrape needs while it runs wg
          MaxRequests  \* bound: requests per connection

VARIABLES conn,     \* state of each connection
          backlog,  \* connections the kernel has completed, not yet accepted
          fds,      \* descriptors held by accepted connections
          sent,     \* requests each client has sent
          taken,    \* how many of them the server has read
          answers,  \* statuses written to each client
          eof,      \* clients that have closed their side
          busy      \* the connection whose callback is running

vars == <<conn, backlog, fds, sent, taken, answers, eof, busy>>

HTTP == INSTANCE HttpService WITH
          asked <- sent, answered <- answers,
          gone <- {c \in Clients : conn[c] = "closed"}

ASSUME ServerConstants ==
  /\ Requests \subseteq HTTP!RequestType
  /\ Password \in BOOLEAN
  /\ Nobody \notin Clients
  /\ IsFiniteSet(Clients)
  /\ MaxFds \in Nat /\ ScrapeFds \in Nat \ {0} /\ MaxRequests \in Nat

(***************************************************************************)
(* The clients (external).                                                 *)
(***************************************************************************)
Connect(c) ==
  /\ conn[c] = "away"
  /\ conn' = [conn EXCEPT ![c] = "queued"]
  /\ backlog' = Append(backlog, c)
  /\ UNCHANGED <<fds, sent, taken, answers, eof, busy>>

Send(c) == \E r \in Requests :
  /\ conn[c] \in {"queued", "open"}
  /\ c \notin eof
  /\ Len(sent[c]) < MaxRequests
  /\ sent' = [sent EXCEPT ![c] = Append(@, r)]
  /\ UNCHANGED <<conn, backlog, fds, taken, answers, eof, busy>>

HangUp(c) ==
  /\ conn[c] \in {"queued", "open"}
  /\ c \notin eof
  /\ eof' = eof \cup {c}
  /\ UNCHANGED <<conn, backlog, fds, sent, taken, answers, busy>>

(***************************************************************************)
(* The server. A task runs only while no callback blocks the thread.       *)
(***************************************************************************)

(* With no descriptor left accept fails, the loop logs it and tries again; *)
(* connections already open do not keep the loop from accepting.           *)
Room_ServesInline == fds = 0
Room == fds < MaxFds

Accept ==
  /\ busy = Nobody
  /\ backlog # <<>>
  /\ Room
  /\ conn' = [conn EXCEPT ![Head(backlog)] = "open"]
  /\ backlog' = Tail(backlog)
  /\ fds' = fds + 1
  /\ UNCHANGED <<sent, taken, answers, eof, busy>>

(* The connection's task ends and its stream is dropped.                   *)
Shut_Twice(c) == conn' = [conn EXCEPT ![c] = "closed"] /\ fds' = fds - 2
Shut_Leaks(c) == conn' = [conn EXCEPT ![c] = "closed"] /\ fds' = fds
Shut(c) == conn' = [conn EXCEPT ![c] = "closed"] /\ fds' = fds - 1
KeepOpen == UNCHANGED <<conn, fds>>

Authorized(r) == Password => r.creds = "valid"

(* The first check that fails answers without calling the callback; junk   *)
(* is answered by hyper.                                                   *)
Verdict_PathFirst(r) ==
  IF r.form = "junk" THEN 400
  ELSE IF r.path # "/metrics" THEN 404
  ELSE IF ~Authorized(r) THEN 401
  ELSE IF r.method # "GET" THEN 405
  ELSE 200
Verdict(r) ==
  IF r.form = "junk" THEN 400
  ELSE IF ~Authorized(r) THEN 401
  ELSE IF r.path # "/metrics" THEN 404
  ELSE IF r.method # "GET" THEN 405
  ELSE 200

(* After the response to r: hyper closes on request and on junk.           *)
AfterResponse(c, r) ==
  IF r.form = "junk" \/ r.connection = "close" THEN Shut(c) ELSE KeepOpen

(* hyper reads the next request of a connection when the last is answered. *)
Take(c) ==
  /\ busy = Nobody
  /\ conn[c] = "open"
  /\ taken[c] < Len(sent[c])
  /\ taken' = [taken EXCEPT ![c] = @ + 1]
  /\ LET r == sent[c][taken[c] + 1]
     IN  IF Verdict(r) = 200
         THEN busy' = c /\ KeepOpen /\ UNCHANGED answers
         ELSE /\ answers' = [answers EXCEPT ![c] = Append(@, Verdict(r))]
              /\ AfterResponse(c, r)
              /\ UNCHANGED busy
  /\ UNCHANGED <<backlog, sent, eof>>

Done(c) ==
  /\ busy = c
  /\ busy' = Nobody
  /\ UNCHANGED <<backlog, sent, taken, eof>>

(* Starting wg needs descriptors: without them the scrape is an error.     *)
CallbackOk(c) ==
  /\ Done(c)
  /\ fds + ScrapeFds <= MaxFds
  /\ answers' = [answers EXCEPT ![c] = Append(@, 200)]
  /\ AfterResponse(c, sent[c][taken[c]])

CallbackError_Silent(c) ==
  /\ Done(c)
  /\ KeepOpen
  /\ UNCHANGED answers
CallbackError(c) ==
  /\ Done(c)
  /\ answers' = [answers EXCEPT ![c] = Append(@, 500)]
  /\ AfterResponse(c, sent[c][taken[c]])

(* A panic unwinds the task of this connection and no other.               *)
CallbackPanic_TakesAll(c) ==
  /\ Done(c)
  /\ conn' = [d \in Clients |-> IF conn[d] = "open" THEN "closed" ELSE conn[d]]
  /\ fds' = 0
  /\ UNCHANGED answers
CallbackPanic(c) ==
  /\ Done(c)
  /\ Shut(c)
  /\ UNCHANGED answers

(* The client is gone: what it sent last may or may not be read.           *)
Close_AfterRequest(c) ==
  /\ busy = Nobody
  /\ conn[c] = "open" /\ taken[c] > 0
  /\ c \in eof
  /\ Shut(c)
  /\ UNCHANGED <<backlog, sent, taken, answers, eof, busy>>
Close(c) ==
  /\ busy = Nobody
  /\ conn[c] = "open"
  /\ c \in eof
  /\ Shut(c)
  /\ UNCHANGED <<backlog, sent, taken, answers, eof, busy>>

Init ==
  /\ conn = [c \in Clients |-> "away"]
  /\ backlog = <<>>
  /\ fds = 0
  /\ sent = [c \in Clients |-> <<>>]
  /\ taken = [c \in Clients |-> 0]
  /\ answers = [c \in Clients |-> <<>>]
  /\ eof = {}
  /\ busy = Nobody

Client(c) == Connect(c) \/ Send(c) \/ HangUp(c)
Callback(c) == CallbackOk(c) \/ CallbackError(c) \/ CallbackPanic(c)
Serve(c) == Take(c) \/ Close(c)

Next == Accept \/ \E c \in Clients : Client(c) \/ Serve(c) \/ Callback(c)

Spec == Init /\ [][Next]_vars

(* The runtime polls woken tasks in turn, so neither the accept loop nor a *)
(* connection is passed over forever, and wg terminates.                   *)
FairSpec ==
  /\ Spec
  /\ SF_vars(Accept)
  /\ \A c \in Clients : SF_vars(Take(c)) /\ SF_vars(Close(c)) /\ WF_vars(Callback(c))

(***************************************************************************)
(* Properties.                                                             *)
(***************************************************************************)
Open == {c \in Clients : conn[c] = "open"}

TypeOK ==
  /\ conn \in [Clients -> {"away", "queued", "open", "closed"}]
  /\ backlog \in Seq(Clients)
  /\ fds \in 0 .. MaxFds
  /\ sent \in [Clients -> Seq(Requests)]
  /\ taken \in [Clients -> Nat]
  /\ answers \in [Clients -> Seq(HTTP!Statuses)]
  /\ eof \subseteq Clients
  /\ busy \in Clients \cup {Nobody}

(* FdsAccounted: a descriptor is held for every open connection and for no *)
(* other: however a connection ends, by its client, after its last         *)
(* response or by a panic in the callback, its descriptor is given back    *)
(* (server.rs:131-147).                                                    *)
FdsAccounted == fds = Cardinality(Open)

(* NoResponseLost: between two polls a connection that is open has been    *)
(* answered everything that was read from it; while its callback runs      *)
(* exactly the last request is due (server.rs:150-175).                    *)
NoResponseLost ==
  \A c \in Open : taken[c] = Len(answers[c]) + (IF busy = c THEN 1 ELSE 0)

(* Implements: seen by one client, whatever the others do, the server is   *)
(* an HttpService: every response answers the oldest request that has      *)
(* none, with the status of the first check it fails, and a closed         *)
(* connection gets none (server.rs:46-114).                                *)
Implements == HTTP!Spec

(* OnlyOwnFaultCloses: a connection is closed only when its client hung    *)
(* up, or by its own request: an explicit close, junk, or a panic of its   *)
(* own callback; the step leaves every other connection as it was          *)
(* (server.rs:142-146).                                                    *)
OnlyOwnFaultCloses ==
  [][\A c \in Clients : (conn[c] = "open" /\ conn'[c] # "open") =>
       /\ \/ c \in eof
          \/ busy = c
          \/ \E n \in 1 .. taken'[c] :
               sent[c][n].form = "junk" \/ sent[c][n].connection = "close"
       /\ \A d \in Clients \ {c} :
            conn'[d] = conn[d] /\ answers'[d] = answers[d] /\ taken'[d] = taken[d]]_vars

(* EveryRequestSettled: a request on an open connection is answered, or    *)
(* the connection closes (server.rs:80-114, 150-175).                      *)
EveryRequestSettled ==
  \A c \in Clients, n \in 1 .. MaxRequests :
    (conn[c] = "open" /\ n <= Len(sent[c])) ~> (n <= Len(answers[c]) \/ conn[c] = "closed")

(* WaitingIsAccepted: a client in the listen queue is accepted if, again   *)
(* and again, some descriptor is free; nothing but clients that hang up    *)
(* frees one, for the server never closes an idle connection               *)
(* (server.rs:131-138, 172).                                               *)
WaitingIsAccepted ==
  \A c \in Clients : []<>(fds < MaxFds) => (conn[c] = "queued" ~> conn[c] # "queued")

(* HungUpIsClosed: a connection whose client has gone is closed and its    *)
(* descriptor is free again (server.rs:142-146).                           *)
HungUpIsClosed ==
  \A c \in Clients : (conn[c] = "open" /\ c \in eof) ~> conn[c] = "closed"
===============================================================================
