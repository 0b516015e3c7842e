------------------------------ MODULE HttpService ------------------------------
(***************************************************************************)
(* What the server promises to each of its clients, whatever the others    *)
(* do: requests are answered in the order they were sent, each with a      *)
(* status that fits it, until the connection is gone; nothing is answered  *)
(* after that.                                                             *)
(***************************************************************************)
EXTENDS Naturals, Sequences

CONSTANTS Clients,   \* connections a client may open
          Requests,  \* requests a client may send
          Password   \* TRUE if the server asks for Basic authorization

RequestType == [form : {"http", "junk"}, creds : {"valid", "invalid"},
                path : {"/metrics", "other"}, method : {"GET", "other"},
                connection : {"keep-alive", "close"}]
Statuses == {200, 400, 401, 404, 405, 500}

VARIABLES asked,    \* requests sent, per connection
          answered, \* statuses received, per connection
          gone      \* connections that are over

vars == <<asked, answered, gone>>

(* What is wrong with a request; the first of these decides its status.    *)
Wrong(r) ==
  { s \in {400, 401, 404, 405} :
      \/ s = 400 /\ r.form = "junk"
      \/ s = 401 /\ Password /\ r.creds = "invalid"
      \/ s = 404 /\ r.path # "/metrics"
      \/ s = 405 /\ r.method # "GET" }
Fits(s, r) ==
  IF Wrong(r) = {} THEN s \in {200, 500}
  ELSE s \in Wrong(r) /\ \A w \in Wrong(r) : s <= w

Init ==
  /\ asked = [c \in Clients |-> <<>>]
  /\ answered = [c \in Clients |-> <<>>]
  /\ gone = {}

Ask(c) == \E r \in Requests :
  /\ asked' = [asked EXCEPT ![c] = Append(@, r)]
  /\ UNCHANGED <<answered, gone>>

(* An answer may end the connection.                                       *)
Reply(c) == \E s \in Statuses :
  /\ c \notin gone
  /\ Len(answered[c]) < Len(asked[c])
  /\ Fits(s, asked[c][Len(answered[c]) + 1])
  /\ answered' = [answered EXCEPT ![c] = Append(@, s)]
  /\ gone' \in {gone, gone \cup {c}}
  /\ UNCHANGED asked

Leave(c) ==
  /\ c \notin gone
  /\ gone' = gone \cup {c}
  /\ UNCHANGED <<asked, answered>>

Next == \E c \in Clients : Ask(c) \/ Reply(c) \/ Leave(c)

Spec == Init /\ [][Next]_vars
===============================================================================
