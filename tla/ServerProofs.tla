----------------------------- MODULE ServerProofs -----------------------------
(***************************************************************************)
(* Theorems about Server, for every set of clients and requests, with and  *)
(* without a password, and for every number of descriptors.                *)
(***************************************************************************)
EXTENDS Server, TLAPS, SequenceTheorems, FiniteSetTheorems

(***************************************************************************)
(* The inductive invariant. The count of descriptors is right because a    *)
(* client in the listen queue is there once and is not open yet; no        *)
(* response is lost because a running callback belongs to an open          *)
(* connection, for the last request read from it, and because a connection *)
(* that is not open yet has neither been read nor answered.                *)
(***************************************************************************)
QueueWaits ==
  /\ \A n \in 1 .. Len(backlog) : conn[backlog[n]] = "queued"
  /\ \A m, n \in 1 .. Len(backlog) : m # n => backlog[m] # backlog[n]

TakenWereSent == \A c \in Clients : taken[c] <= Len(sent[c])

BusyIsOpen ==
  busy # Nobody =>
    /\ conn[busy] = "open"
    /\ taken[busy] # 0
    /\ Verdict(sent[busy][taken[busy]]) = 200

Due(c) == IF busy = c THEN 1 ELSE 0
AnswersKeepUp ==
  \A c \in Clients : conn[c] # "closed" => taken[c] = Len(answers[c]) + Due(c)

IInv ==
  /\ TypeOK
  /\ FdsAccounted
  /\ QueueWaits
  /\ TakenWereSent
  /\ BusyIsOpen
  /\ AnswersKeepUp

(***************************************************************************)
(* Open connections and their descriptors.                                 *)
(***************************************************************************)
LEMMA OpenIsFinite == IsFiniteSet(Open)
BY ServerConstants, FS_Subset DEF Open

(* Closing an open connection gives back one descriptor.                   *)
LEMMA ShutEffect ==
  ASSUME IInv, NEW c \in Clients, conn[c] = "open", Shut(c)
  PROVE  /\ conn' \in [Clients -> {"away", "queued", "open", "closed"}]
         /\ \A d \in Clients : conn'[d] = IF d = c THEN "closed" ELSE conn[d]
         /\ fds' \in 0 .. MaxFds
         /\ fds' = Cardinality(Open')
<1>1. /\ conn' \in [Clients -> {"away", "queued", "open", "closed"}]
      /\ \A d \in Clients : conn'[d] = IF d = c THEN "closed" ELSE conn[d]
  BY DEF Shut, IInv, TypeOK
<1>2. Open' = Open \ {c} /\ c \in Open
  BY <1>1 DEF Open
<1>3. Cardinality(Open') = Cardinality(Open) - 1
  BY <1>2, OpenIsFinite, FS_RemoveElement
<1>4. fds = Cardinality(Open) /\ fds \in 0 .. MaxFds /\ fds' = fds - 1
  BY DEF Shut, IInv, TypeOK, FdsAccounted
<1>5. fds # 0
  <2>1. Open # {}
    BY <1>2
  <2> QED BY <1>4, <2>1, OpenIsFinite, FS_EmptySet
<1> QED BY <1>1, <1>3, <1>4, <1>5, ServerConstants

(* Accepting the head of the queue takes one.                              *)
LEMMA AcceptEffect ==
  ASSUME IInv, Accept
  PROVE  /\ Head(backlog) \in Clients /\ conn[Head(backlog)] = "queued"
         /\ conn' \in [Clients -> {"away", "queued", "open", "closed"}]
         /\ \A d \in Clients : conn'[d] = IF d = Head(backlog) THEN "open" ELSE conn[d]
         /\ backlog' \in Seq(Clients)
         /\ fds' \in 0 .. MaxFds
         /\ fds' = Cardinality(Open')
         /\ QueueWaits'
<1> DEFINE c == Head(backlog)
<1>1. backlog \in Seq(Clients) /\ backlog # <<>>
  BY DEF IInv, TypeOK, Accept
<1>2. /\ c \in Clients /\ c = backlog[1] /\ Len(backlog) \in Nat \ {0}
      /\ backlog' = Tail(backlog) /\ backlog' \in Seq(Clients) /\ Len(backlog') = Len(backlog) - 1
      /\ \A n \in 1 .. Len(backlog') : backlog'[n] = backlog[n + 1]
  <2>1. Len(backlog) \in Nat \ {0}
    BY <1>1, EmptySeq
  <2>2. c = backlog[1]
    BY <1>1
  <2> QED BY <1>1, <2>1, <2>2, HeadTailProperties DEF Accept
<1>3. conn[c] = "queued"
  <2>1. 1 \in 1 .. Len(backlog)
    BY <1>2
  <2> QED BY <1>2, <2>1 DEF IInv, QueueWaits
<1>4. conn' = [conn EXCEPT ![c] = "open"] /\ fds' = fds + 1 /\ fds < MaxFds
  BY DEF Accept, Room
<1> HIDE DEF c
<1>5. /\ conn' \in [Clients -> {"away", "queued", "open", "closed"}]
      /\ \A d \in Clients : conn'[d] = IF d = c THEN "open" ELSE conn[d]
  BY <1>2, <1>4 DEF IInv, TypeOK
<1>6. Open' = Open \cup {c} /\ c \notin Open
  BY <1>2, <1>3, <1>5 DEF Open
<1>7. Cardinality(Open') = Cardinality(Open) + 1
  BY <1>6, OpenIsFinite, FS_AddElement
<1>8. fds' \in 0 .. MaxFds /\ fds' = Cardinality(Open')
  BY <1>4, <1>7, ServerConstants DEF IInv, TypeOK, FdsAccounted
<1>9. QueueWaits'
  <2>1. ASSUME NEW n \in 1 .. Len(backlog')
        PROVE  n + 1 \in 1 .. Len(backlog) /\ 1 \in 1 .. Len(backlog) /\ n + 1 # 1
    BY <1>2
  <2>2. ASSUME NEW n \in 1 .. Len(backlog')
        PROVE  conn'[backlog'[n]] = "queued"
    <3>1. backlog'[n] = backlog[n + 1] /\ backlog[n + 1] # c /\ conn[backlog[n + 1]] = "queued"
      BY <1>2, <2>1 DEF IInv, QueueWaits
    <3>2. backlog[n + 1] \in Clients
      BY <1>1, <2>1, ElementOfSeq
    <3> QED BY <3>1, <3>2, <1>5
  <2>3. ASSUME NEW m \in 1 .. Len(backlog'), NEW n \in 1 .. Len(backlog'), m # n
        PROVE  backlog'[m] # backlog'[n]
    <3>1. m + 1 \in 1 .. Len(backlog) /\ n + 1 \in 1 .. Len(backlog) /\ m + 1 # n + 1
      BY <1>2, <2>3
    <3> QED BY <3>1, <1>2 DEF IInv, QueueWaits
  <2> QED BY <2>2, <2>3 DEF QueueWaits
<1> QED BY <1>2, <1>3, <1>5, <1>8, <1>9 DEF c

(* A response is a status, and leaves its connection open or closes it.    *)
LEMMA AfterResponseEffect ==
  ASSUME IInv, NEW c \in Clients, NEW r, conn[c] = "open", AfterResponse(c, r)
  PROVE  /\ conn' \in [Clients -> {"away", "queued", "open", "closed"}]
         /\ \A d \in Clients : d # c => conn'[d] = conn[d]
         /\ conn'[c] \in {"open", "closed"}
         /\ fds' \in 0 .. MaxFds
         /\ fds' = Cardinality(Open')
<1>1. CASE Shut(c)
  BY <1>1, ShutEffect
<1>2. CASE KeepOpen
  BY <1>2 DEF KeepOpen, IInv, TypeOK, FdsAccounted, Open
<1> QED BY <1>1, <1>2 DEF AfterResponse

(* What a step must keep of the queue when only open connections change.   *)
LEMMA QueueUntouched ==
  ASSUME IInv, UNCHANGED backlog, NEW c \in Clients, conn[c] = "open",
         \A d \in Clients : d # c => conn'[d] = conn[d]
  PROVE  QueueWaits'
<1>1. ASSUME NEW n \in 1 .. Len(backlog)
      PROVE  conn'[backlog[n]] = "queued"
  <2>1. backlog[n] \in Clients /\ conn[backlog[n]] = "queued"
    BY ElementOfSeq DEF IInv, TypeOK, QueueWaits
  <2> QED BY <2>1
<1> QED BY <1>1 DEF IInv, QueueWaits

LEMMA VerdictType == \A r : Verdict(r) \in HTTP!Statuses
BY DEF Verdict, HTTP!Statuses

(***************************************************************************)
(* The invariant is inductive.                                             *)
(***************************************************************************)
LEMMA InitInvariant == Init => IInv
<1> SUFFICES ASSUME Init PROVE IInv
  OBVIOUS
<1>1. Open = {} /\ \A S : <<>> \in Seq(S) /\ Len(<<>>) = 0
  BY EmptySeq DEF Init, Open
<1>2. Cardinality(Open) = 0
  BY <1>1, FS_EmptySet
<1>3. TypeOK
  BY <1>1, ServerConstants DEF Init, TypeOK
<1>4. FdsAccounted
  BY <1>2 DEF Init, FdsAccounted
<1>5. QueueWaits /\ TakenWereSent /\ BusyIsOpen /\ AnswersKeepUp
  BY <1>1, ServerConstants DEF Init, QueueWaits, TakenWereSent, BusyIsOpen, AnswersKeepUp, Due
<1> QED BY <1>3, <1>4, <1>5 DEF IInv

LEMMA ConnectKeeps ==
  ASSUME IInv, NEW c \in Clients, Connect(c)
  PROVE  IInv'
<1>1. /\ backlog' = Append(backlog, c) /\ backlog \in Seq(Clients) /\ backlog' \in Seq(Clients)
      /\ conn' \in [Clients -> {"away", "queued", "open", "closed"}]
      /\ \A d \in Clients : conn'[d] = IF d = c THEN "queued" ELSE conn[d]
      /\ conn[c] = "away"
      /\ UNCHANGED <<fds, sent, taken, answers, eof, busy>>
  BY DEF Connect, IInv, TypeOK
<1>2. Open' = Open
  BY <1>1 DEF Open
<1>3. TypeOK' /\ FdsAccounted'
  BY <1>1, <1>2 DEF IInv, TypeOK, FdsAccounted
<1>4. QueueWaits'
  <2>1. /\ Len(backlog) \in Nat /\ Len(backlog') = Len(backlog) + 1
        /\ backlog'[Len(backlog) + 1] = c
        /\ \A n \in 1 .. Len(backlog) : backlog'[n] = backlog[n]
    BY <1>1, LenProperties
  <2>2. ASSUME NEW n \in 1 .. Len(backlog)
        PROVE  backlog[n] \in Clients /\ conn[backlog[n]] = "queued" /\ backlog[n] # c
    BY <1>1, ElementOfSeq DEF IInv, QueueWaits
  <2>3. \A n \in 1 .. Len(backlog') : n = Len(backlog) + 1 \/ n \in 1 .. Len(backlog)
    BY <2>1
  <2>4. \A n \in 1 .. Len(backlog') : conn'[backlog'[n]] = "queued"
    BY <1>1, <2>1, <2>2, <2>3
  <2>5. \A m, n \in 1 .. Len(backlog') : m # n => backlog'[m] # backlog'[n]
    BY <2>1, <2>2, <2>3 DEF IInv, QueueWaits
  <2> QED BY <2>4, <2>5 DEF QueueWaits
<1>5. TakenWereSent' /\ BusyIsOpen' /\ AnswersKeepUp'
  BY <1>1, <1>2 DEF IInv, TypeOK, TakenWereSent, BusyIsOpen, AnswersKeepUp, Due
<1> QED BY <1>3, <1>4, <1>5 DEF IInv

LEMMA SendKeeps ==
  ASSUME IInv, NEW c \in Clients, Send(c)
  PROVE  IInv'
<1>1. PICK r \in Requests : sent' = [sent EXCEPT ![c] = Append(@, r)]
  BY DEF Send
<1>2. UNCHANGED <<conn, backlog, fds, taken, answers, eof, busy>>
  BY DEF Send
<1>3. \A d \in Clients : sent[d] \in Seq(Requests)
  BY DEF IInv, TypeOK
<1>4. /\ sent' \in [Clients -> Seq(Requests)]
      /\ \A d \in Clients : /\ Len(sent[d]) \in Nat /\ Len(sent[d]) <= Len(sent'[d])
                            /\ \A n \in 1 .. Len(sent[d]) : sent'[d][n] = sent[d][n]
  BY <1>1, <1>3 DEF IInv, TypeOK
<1>5. TypeOK' /\ FdsAccounted' /\ QueueWaits' /\ AnswersKeepUp'
  BY <1>2, <1>4 DEF IInv, TypeOK, FdsAccounted, Open, QueueWaits, AnswersKeepUp, Due
<1>6. TakenWereSent'
  <2>1. ASSUME NEW d \in Clients PROVE taken[d] <= Len(sent'[d])
    <3>1. taken[d] \in Nat /\ taken[d] <= Len(sent[d]) /\ Len(sent'[d]) \in Nat
      BY <1>4, LenProperties DEF IInv, TypeOK, TakenWereSent
    <3> QED BY <3>1, <1>4
  <2> QED BY <1>2, <2>1 DEF TakenWereSent
<1>7. BusyIsOpen'
  <2> SUFFICES ASSUME busy # Nobody
               PROVE  /\ conn[busy] = "open" /\ taken[busy] # 0
                      /\ Verdict(sent'[busy][taken[busy]]) = 200
    BY <1>2 DEF BusyIsOpen, Verdict, Authorized
  <2>1. busy \in Clients /\ taken[busy] \in Nat /\ taken[busy] <= Len(sent[busy])
    BY DEF IInv, TypeOK, TakenWereSent
  <2>2. taken[busy] # 0
    BY DEF IInv, BusyIsOpen
  <2>3. sent'[busy][taken[busy]] = sent[busy][taken[busy]]
    BY <1>4, <2>1, <2>2
  <2> QED BY <2>3 DEF IInv, BusyIsOpen
<1> QED BY <1>5, <1>6, <1>7 DEF IInv

(* Facts about the request a connection reads next.                        *)
LEMMA TakeEffect ==
  ASSUME IInv, NEW c \in Clients, Take(c)
  PROVE  /\ taken' \in [Clients -> Nat] /\ taken'[c] = taken[c] + 1
         /\ taken'[c] <= Len(sent[c])
         /\ \A d \in Clients : d # c => taken'[d] = taken[d]
         /\ conn[c] = "open" /\ busy = Nobody /\ taken[c] = Len(answers[c])
<1>1. taken \in [Clients -> Nat] /\ taken[c] \in Nat /\ Len(sent[c]) \in Nat
  BY LenProperties DEF IInv, TypeOK
<1>2. conn[c] = "open" /\ busy = Nobody /\ taken' = [taken EXCEPT ![c] = @ + 1]
      /\ taken[c] < Len(sent[c])
  BY DEF Take
<1>3. conn[c] # "closed" /\ busy # c
  BY <1>2, ServerConstants
<1>4. taken[c] = Len(answers[c])
  <2>1. taken[c] = Len(answers[c]) + 0
    BY <1>3 DEF IInv, AnswersKeepUp, Due
  <2>2. Len(answers[c]) \in Nat
    BY LenProperties DEF IInv, TypeOK
  <2> QED BY <2>1, <2>2
<1> QED BY <1>1, <1>2, <1>4

LEMMA AnswerEffect ==
  ASSUME IInv, NEW c \in Clients, NEW s \in HTTP!Statuses,
         answers' = [answers EXCEPT ![c] = Append(@, s)]
  PROVE  /\ answers' \in [Clients -> Seq(HTTP!Statuses)]
         /\ Len(answers'[c]) = Len(answers[c]) + 1 /\ Len(answers[c]) \in Nat
         /\ \A d \in Clients : d # c => answers'[d] = answers[d]
<1>1. answers[c] \in Seq(HTTP!Statuses) /\ answers \in [Clients -> Seq(HTTP!Statuses)]
  BY DEF IInv, TypeOK
<1>2. Append(answers[c], s) \in Seq(HTTP!Statuses) /\ Len(answers[c]) \in Nat
      /\ Len(Append(answers[c], s)) = Len(answers[c]) + 1
  BY <1>1
<1>3. answers'[c] = Append(answers[c], s) /\ \A d \in Clients : d # c => answers'[d] = answers[d]
  BY <1>1
<1>4. answers' \in [Clients -> Seq(HTTP!Statuses)]
  BY <1>1, <1>2
<1> QED BY <1>2, <1>3, <1>4

LEMMA TakeKeeps ==
  ASSUME IInv, NEW c \in Clients, Take(c)
  PROVE  IInv'
<1> DEFINE r == sent[c][taken[c] + 1]
<1>1. UNCHANGED <<backlog, sent, eof>>
  BY DEF Take
<1>2. CASE Verdict(r) = 200
  <2>1. busy' = c /\ UNCHANGED <<conn, fds, answers>>
    BY <1>2 DEF Take, KeepOpen
  <2>2. TypeOK' /\ FdsAccounted' /\ QueueWaits' /\ TakenWereSent'
    BY <1>1, <2>1, TakeEffect DEF IInv, TypeOK, FdsAccounted, Open, QueueWaits, TakenWereSent
  <2>3. BusyIsOpen'
    <3>1. taken'[c] # 0 /\ sent'[c][taken'[c]] = r /\ conn'[c] = "open"
      BY <1>1, <2>1, TakeEffect DEF IInv, TypeOK
    <3> QED BY <1>2, <2>1, <3>1 DEF BusyIsOpen, Verdict, Authorized
  <2>4. AnswersKeepUp'
    <3> SUFFICES ASSUME NEW d \in Clients, conn[d] # "closed"
                 PROVE  taken'[d] = Len(answers[d]) + (IF busy' = d THEN 1 ELSE 0)
      BY <2>1 DEF AnswersKeepUp, Due
    <3>1. CASE d = c
      BY <3>1, <2>1, TakeEffect
    <3>2. CASE d # c
      <4>1. busy # d /\ taken'[d] = taken[d]
        BY <3>2, TakeEffect, ServerConstants
      <4> QED BY <2>1, <3>2, <4>1 DEF IInv, AnswersKeepUp, Due
    <3> QED BY <3>1, <3>2
  <2> QED BY <2>2, <2>3, <2>4 DEF IInv
<1>3. CASE Verdict(r) # 200
  <2>1. busy' = busy /\ busy = Nobody /\ AfterResponse(c, r)
        /\ answers' = [answers EXCEPT ![c] = Append(@, Verdict(r))]
    BY <1>3 DEF Take
  <2>2. /\ answers' \in [Clients -> Seq(HTTP!Statuses)]
        /\ Len(answers'[c]) = Len(answers[c]) + 1 /\ Len(answers[c]) \in Nat
        /\ \A d \in Clients : d # c => answers'[d] = answers[d]
    BY <2>1, VerdictType, AnswerEffect
  <2>3. /\ conn' \in [Clients -> {"away", "queued", "open", "closed"}]
        /\ \A d \in Clients : d # c => conn'[d] = conn[d]
        /\ fds' \in 0 .. MaxFds /\ fds' = Cardinality(Open')
    BY <2>1, TakeEffect, AfterResponseEffect
  <2>4. QueueWaits'
    BY <1>1, <2>3, TakeEffect, QueueUntouched
  <2>5. TypeOK'
    <3>1. taken' \in [Clients -> Nat]
      BY TakeEffect
    <3> QED BY <1>1, <2>1, <2>2, <2>3, <3>1 DEF IInv, TypeOK
  <2>7. FdsAccounted' /\ BusyIsOpen'
    BY <2>1, <2>3 DEF FdsAccounted, BusyIsOpen
  <2>8. TakenWereSent'
    BY <1>1, TakeEffect DEF IInv, TakenWereSent
  <2>6. AnswersKeepUp'
    <3> SUFFICES ASSUME NEW d \in Clients, conn'[d] # "closed"
                 PROVE  taken'[d] = Len(answers'[d]) + (IF busy' = d THEN 1 ELSE 0)
      BY DEF AnswersKeepUp, Due
    <3>1. busy' # d
      BY <2>1, ServerConstants
    <3>2. CASE d = c
      BY <2>2, <3>1, <3>2, TakeEffect
    <3>3. CASE d # c
      <4>1. conn[d] # "closed" /\ busy # d
        BY <2>1, <2>3, <3>1, <3>3
      <4> QED BY <2>1, <2>2, <3>1, <3>3, <4>1, TakeEffect DEF IInv, AnswersKeepUp, Due
    <3> QED BY <3>2, <3>3
  <2> QED BY <2>4, <2>5, <2>6, <2>7, <2>8 DEF IInv
<1> QED BY <1>2, <1>3

LEMMA CallbackKeeps ==
  ASSUME IInv, NEW c \in Clients, Callback(c)
  PROVE  IInv'
<1>1. busy = c /\ busy' = Nobody /\ UNCHANGED <<backlog, sent, taken, eof>>
  BY DEF Callback, CallbackOk, CallbackError, CallbackPanic, Done
<1>2. conn[c] = "open" /\ c \in Open /\ busy # Nobody
  BY <1>1, ServerConstants DEF IInv, BusyIsOpen, Open
<1>3. TakenWereSent' /\ BusyIsOpen'
  BY <1>1 DEF IInv, TakenWereSent, BusyIsOpen
<1>4. ASSUME NEW d \in Clients, d # c, conn[d] # "closed"
      PROVE  taken[d] = Len(answers[d]) + 0
  BY <1>1, <1>4 DEF IInv, AnswersKeepUp, Due
<1>5. taken[c] = Len(answers[c]) + 1
  BY <1>1, <1>2 DEF IInv, AnswersKeepUp, Due
<1>6. CASE CallbackPanic(c)
  <2>1. Shut(c) /\ answers' = answers
    BY <1>6 DEF CallbackPanic
  <2>2. /\ conn' \in [Clients -> {"away", "queued", "open", "closed"}]
        /\ \A d \in Clients : conn'[d] = IF d = c THEN "closed" ELSE conn[d]
        /\ fds' \in 0 .. MaxFds /\ fds' = Cardinality(Open')
    BY <1>2, <2>1, ShutEffect
  <2>3. TypeOK' /\ FdsAccounted' /\ QueueWaits'
    BY <1>1, <1>2, <2>1, <2>2, QueueUntouched DEF IInv, TypeOK, FdsAccounted
  <2>4. AnswersKeepUp'
    <3> SUFFICES ASSUME NEW d \in Clients, conn'[d] # "closed"
                 PROVE  taken'[d] = Len(answers'[d]) + (IF busy' = d THEN 1 ELSE 0)
      BY DEF AnswersKeepUp, Due
    <3>1. d \in Clients /\ d # c /\ conn[d] # "closed" /\ busy' # d
      BY <1>1, <2>2, ServerConstants
    <3> QED BY <1>1, <1>4, <2>1, <3>1
  <2> QED BY <1>3, <2>3, <2>4 DEF IInv
<1>7. ASSUME NEW s \in HTTP!Statuses, answers' = [answers EXCEPT ![c] = Append(@, s)],
             AfterResponse(c, sent[c][taken[c]])
      PROVE  IInv'
  <2>2. /\ answers' \in [Clients -> Seq(HTTP!Statuses)]
        /\ Len(answers'[c]) = Len(answers[c]) + 1 /\ Len(answers[c]) \in Nat
        /\ \A d \in Clients : d # c => answers'[d] = answers[d]
    BY <1>7, AnswerEffect
  <2>3. /\ conn' \in [Clients -> {"away", "queued", "open", "closed"}]
        /\ \A d \in Clients : d # c => conn'[d] = conn[d]
        /\ fds' \in 0 .. MaxFds /\ fds' = Cardinality(Open')
    BY <1>2, <1>7, AfterResponseEffect
  <2>4. TypeOK' /\ FdsAccounted' /\ QueueWaits'
    BY <1>1, <1>2, <2>2, <2>3, QueueUntouched DEF IInv, TypeOK, FdsAccounted
  <2>5. AnswersKeepUp'
    <3> SUFFICES ASSUME NEW d \in Clients, conn'[d] # "closed"
                 PROVE  taken'[d] = Len(answers'[d]) + (IF busy' = d THEN 1 ELSE 0)
      BY DEF AnswersKeepUp, Due
    <3>1. busy' # d
      BY <1>1, ServerConstants
    <3>2. CASE d = c
      BY <1>1, <1>5, <2>2, <3>1, <3>2
    <3>3. CASE d # c
      <4>1. conn[d] # "closed"
        BY <2>3, <3>3
      <4> QED BY <1>1, <1>4, <2>2, <3>1, <3>3, <4>1
    <3> QED BY <3>2, <3>3
  <2> QED BY <1>3, <2>4, <2>5 DEF IInv
<1>8. 200 \in HTTP!Statuses /\ 500 \in HTTP!Statuses
  BY DEF HTTP!Statuses
<1> QED BY <1>6, <1>7, <1>8 DEF Callback, CallbackOk, CallbackError

LEMMA AcceptKeeps ==
  ASSUME IInv, Accept
  PROVE  IInv'
<1>1. UNCHANGED <<sent, taken, answers, eof, busy>> /\ busy = Nobody
  BY DEF Accept
<1>2. TypeOK' /\ FdsAccounted' /\ TakenWereSent' /\ BusyIsOpen'
  BY <1>1, AcceptEffect DEF IInv, TypeOK, FdsAccounted, TakenWereSent, BusyIsOpen
<1>3. \A d \in Clients : conn'[d] # "closed" => conn[d] # "closed"
  BY AcceptEffect
<1>4. AnswersKeepUp'
  BY <1>1, <1>3 DEF IInv, AnswersKeepUp, Due
<1> QED BY <1>2, <1>4, AcceptEffect DEF IInv

LEMMA CloseKeeps ==
  ASSUME IInv, NEW c \in Clients, Close(c)
  PROVE  IInv'
<1>1. /\ UNCHANGED <<backlog, sent, taken, answers, eof, busy>> /\ busy = Nobody
      /\ conn[c] = "open" /\ Shut(c)
  BY DEF Close
<1>2. /\ conn' \in [Clients -> {"away", "queued", "open", "closed"}]
      /\ \A d \in Clients : conn'[d] = IF d = c THEN "closed" ELSE conn[d]
      /\ fds' \in 0 .. MaxFds /\ fds' = Cardinality(Open')
  BY <1>1, ShutEffect
<1>3. TypeOK' /\ FdsAccounted' /\ TakenWereSent' /\ BusyIsOpen'
  BY <1>1, <1>2 DEF IInv, TypeOK, FdsAccounted, TakenWereSent, BusyIsOpen
<1>4. QueueWaits'
  BY <1>1, <1>2, QueueUntouched
<1>5. AnswersKeepUp'
  BY <1>1, <1>2 DEF IInv, AnswersKeepUp, Due
<1> QED BY <1>3, <1>4, <1>5 DEF IInv

LEMMA NextInvariant ==
  ASSUME IInv, [Next]_vars
  PROVE  IInv'
<1>1. CASE UNCHANGED vars
  BY <1>1 DEF vars, IInv, TypeOK, FdsAccounted, Open, QueueWaits, TakenWereSent, BusyIsOpen,
              Verdict, Authorized, AnswersKeepUp, Due
<1>2. CASE Accept
  BY <1>2, AcceptKeeps
<1>3. ASSUME NEW c \in Clients, HangUp(c)
      PROVE  IInv'
  BY <1>3 DEF HangUp, IInv, TypeOK, FdsAccounted, Open, QueueWaits, TakenWereSent, BusyIsOpen,
              Verdict, Authorized, AnswersKeepUp, Due
<1>4. ASSUME NEW c \in Clients, Client(c) \/ Serve(c) \/ Callback(c)
      PROVE  IInv'
  BY <1>3, <1>4, ConnectKeeps, SendKeeps, TakeKeeps, CloseKeeps, CallbackKeeps DEF Client, Serve
<1> QED BY <1>1, <1>2, <1>4 DEF Next

(* IInv holds throughout: queue, descriptors and answers fit together      *)
(* whatever clients do and however callbacks end: server.rs:116-175.       *)
THEOREM Invariant == Spec => []IInv
BY InitInvariant, NextInvariant, PTL DEF Spec

(* However connections end, the server holds exactly one descriptor per    *)
(* open connection, and never more than it may: server.rs:131-147.         *)
THEOREM FdsCorrect == Spec => [](TypeOK /\ FdsAccounted)
<1>1. IInv => TypeOK /\ FdsAccounted
  BY DEF IInv
<1> QED BY <1>1, Invariant, PTL

(* Between two polls an open connection has been answered everything that  *)
(* was read from it: server.rs:150-175.                                    *)
THEOREM NoResponseLostCorrect == Spec => []NoResponseLost
<1>1. IInv => NoResponseLost
  BY DEF IInv, AnswersKeepUp, Due, NoResponseLost, Open
<1> QED BY <1>1, Invariant, PTL

(* Every variable of the server keeps its type: server.rs:116-175.         *)
THEOREM TypeCorrect == Spec => []TypeOK
<1>1. IInv => TypeOK
  BY DEF IInv
<1> QED BY <1>1, Invariant, PTL

(***************************************************************************)
(* A connection closes through no fault but its own.                       *)
(***************************************************************************)
OwnFault(c) ==
  \/ c \in eof
  \/ busy = c
  \/ \E n \in 1 .. taken'[c] : sent[c][n].form = "junk" \/ sent[c][n].connection = "close"
OthersUntouched(c) ==
  \A d \in Clients \ {c} : conn'[d] = conn[d] /\ answers'[d] = answers[d] /\ taken'[d] = taken[d]

(* A step that shuts one connection shuts no other.                        *)
LEMMA ShutIsLocal ==
  ASSUME TypeOK, NEW c \in Clients, NEW d \in Clients, conn[c] = "open", conn'[c] # "open",
         Shut(d) \/ KeepOpen
  PROVE  c = d /\ Shut(d) /\ \A e \in Clients \ {c} : conn'[e] = conn[e]
BY DEF TypeOK, Shut, KeepOpen

LEMMA ClosingStep ==
  ASSUME IInv, Next, NEW c \in Clients, conn[c] = "open", conn'[c] # "open"
  PROVE  OwnFault(c) /\ OthersUntouched(c)
<1>1. TypeOK
  BY DEF IInv
<1>2. CASE Accept
  BY <1>2, AcceptEffect
<1>3. ASSUME NEW d \in Clients, Client(d)
      PROVE  FALSE
  BY <1>1, <1>3 DEF Client, Connect, Send, HangUp, TypeOK
<1>4. ASSUME NEW d \in Clients, Take(d)
      PROVE  OwnFault(c) /\ OthersUntouched(c)
  <2> DEFINE n == taken[d] + 1
             r == sent[d][n]
  <2>1. /\ taken' = [taken EXCEPT ![d] = n]
        /\ answers' = answers \/ answers' = [answers EXCEPT ![d] = Append(@, Verdict(r))]
        /\ KeepOpen \/ AfterResponse(d, r)
    BY <1>4 DEF Take
  <2>2. c = d /\ AfterResponse(d, r) /\ \A e \in Clients \ {c} : conn'[e] = conn[e]
    BY <1>1, <2>1, ShutIsLocal DEF AfterResponse
  <2>3. r.form = "junk" \/ r.connection = "close"
    BY <2>2 DEF AfterResponse, KeepOpen
  <2>4. taken'[c] = n /\ n \in 1 .. n
    BY <1>1, <2>1, <2>2 DEF TypeOK
  <2>5. OwnFault(c)
    BY <2>2, <2>3, <2>4 DEF OwnFault
  <2>6. OthersUntouched(c)
    BY <1>1, <2>1, <2>2 DEF TypeOK, OthersUntouched
  <2> QED BY <2>5, <2>6
<1>5. ASSUME NEW d \in Clients, Callback(d)
      PROVE  OwnFault(c) /\ OthersUntouched(c)
  <2>1. /\ busy = d /\ taken' = taken
        /\ Shut(d) \/ KeepOpen
        /\ \/ answers' = answers
           \/ \E status : answers' = [answers EXCEPT ![d] = Append(@, status)]
    BY <1>5 DEF Callback, CallbackOk, CallbackError, CallbackPanic, Done, AfterResponse
  <2>2. c = d /\ \A e \in Clients \ {c} : conn'[e] = conn[e]
    BY <1>1, <2>1, ShutIsLocal
  <2> QED BY <1>1, <2>1, <2>2 DEF OwnFault, OthersUntouched, TypeOK
<1>6. ASSUME NEW d \in Clients, Close(d)
      PROVE  OwnFault(c) /\ OthersUntouched(c)
  <2>1. Shut(d) /\ d \in eof /\ UNCHANGED <<taken, answers>>
    BY <1>6 DEF Close
  <2>2. c = d /\ \A e \in Clients \ {c} : conn'[e] = conn[e]
    BY <1>1, <2>1, ShutIsLocal
  <2> QED BY <2>1, <2>2 DEF OwnFault, OthersUntouched
<1> QED BY <1>2, <1>3, <1>4, <1>5, <1>6 DEF Next, Serve

(* OwnFaultCorrect: no connection is closed by what another client sends,  *)
(* by another's callback that fails or panics, or by a listen queue that   *)
(* runs out of descriptors: server.rs:131-147.                             *)
THEOREM OwnFaultCorrect == Spec => OnlyOwnFaultCloses
<1>1. ASSUME IInv, [Next]_vars
      PROVE  [\A c \in Clients : (conn[c] = "open" /\ conn'[c] # "open") =>
                /\ \/ c \in eof
                   \/ busy = c
                   \/ \E n \in 1 .. taken'[c] :
                        sent[c][n].form = "junk" \/ sent[c][n].connection = "close"
                /\ \A d \in Clients \ {c} :
                     conn'[d] = conn[d] /\ answers'[d] = answers[d] /\ taken'[d] = taken[d]]_vars
  <2>1. CASE Next
    BY <1>1, <2>1, ClosingStep DEF OwnFault, OthersUntouched
  <2>2. CASE UNCHANGED vars
    BY <2>2
  <2> QED BY <1>1, <2>1, <2>2
<1> QED BY <1>1, Invariant, PTL DEF Spec, OnlyOwnFaultCloses

(***************************************************************************)
(* The server implements HttpService: sending is asking; reading a request *)
(* that fails a check, and a callback that returns, reply; a panic and the *)
(* end of a connection leave; accepting and starting a callback are        *)
(* invisible to the client.                                                *)
(***************************************************************************)
Gone == {c \in Clients : conn[c] = "closed"}

LEMMA VerdictFits ==
  ASSUME NEW r \in Requests
  PROVE  /\ Verdict(r) # 200 => HTTP!Fits(Verdict(r), r)
         /\ Verdict(r) = 200 => HTTP!Fits(200, r) /\ HTTP!Fits(500, r)
<1>1. r \in HTTP!RequestType /\ Password \in BOOLEAN
  BY ServerConstants
<1>2. r.creds = "invalid" <=> r.creds # "valid"
  BY <1>1 DEF HTTP!RequestType
<1>3. (Password /\ r.creds = "invalid") <=> ~Authorized(r)
  BY <1>1, <1>2, Zenon DEF Authorized
<1>4. \A w : w \in HTTP!Wrong(r) <=>
              \/ w = 400 /\ r.form = "junk"
              \/ w = 401 /\ Password /\ r.creds = "invalid"
              \/ w = 404 /\ r.path # "/metrics"
              \/ w = 405 /\ r.method # "GET"
  BY DEF HTTP!Wrong
<1>5. CASE Verdict(r) = 200
  <2>1. HTTP!Wrong(r) = {}
    BY <1>3, <1>4, <1>5 DEF Verdict
  <2> QED BY <1>5, <2>1 DEF HTTP!Fits
<1>6. CASE Verdict(r) # 200
  <2>1. Verdict(r) \in HTTP!Wrong(r)
    BY <1>3, <1>4, <1>6 DEF Verdict
  <2>2. \A w \in HTTP!Wrong(r) : Verdict(r) <= w
    BY <1>3, <1>4, <1>6 DEF Verdict
  <2> QED BY <1>6, <2>1, <2>2 DEF HTTP!Fits
<1> QED BY <1>5, <1>6

LEMMA InitRefines == Init => HTTP!Init
BY DEF Init, HTTP!Init

LEMMA AfterResponseGone ==
  ASSUME IInv, NEW c \in Clients, NEW r, conn[c] = "open", AfterResponse(c, r)
  PROVE  Gone' \in {Gone, Gone \cup {c}}
<1>1. CASE Shut(c)
  BY <1>1, ShutEffect DEF Gone
<1>2. CASE KeepOpen
  BY <1>2 DEF KeepOpen, Gone
<1> QED BY <1>1, <1>2 DEF AfterResponse

LEMMA ReplyRefines ==
  ASSUME IInv, NEW c \in Clients, NEW s \in HTTP!Statuses, conn[c] = "open",
         Len(answers[c]) < Len(sent[c]), HTTP!Fits(s, sent[c][Len(answers[c]) + 1]),
         answers' = [answers EXCEPT ![c] = Append(@, s)], UNCHANGED sent,
         Gone' \in {Gone, Gone \cup {c}}
  PROVE  HTTP!Reply(c)
<1>1. c \notin Gone
  BY DEF Gone
<1> QED BY <1>1 DEF HTTP!Reply, Gone

LEMMA TakeRefines ==
  ASSUME IInv, NEW c \in Clients, Take(c)
  PROVE  HTTP!Reply(c) \/ UNCHANGED HTTP!vars
<1> DEFINE r == sent[c][taken[c] + 1]
<1>1. taken[c] = Len(answers[c]) /\ conn[c] = "open" /\ UNCHANGED sent
      /\ Len(answers[c]) < Len(sent[c])
  BY TakeEffect DEF Take
<1>2. r \in Requests
  <2>1. sent[c] \in Seq(Requests) /\ taken[c] \in Nat /\ taken[c] < Len(sent[c])
    BY DEF IInv, TypeOK, Take
  <2> QED BY <2>1, ElementOfSeq
<1>3. CASE Verdict(r) = 200
  BY <1>1, <1>3 DEF Take, KeepOpen, HTTP!vars
<1>4. CASE Verdict(r) # 200
  <2>1. AfterResponse(c, r) /\ answers' = [answers EXCEPT ![c] = Append(@, Verdict(r))]
    BY <1>4 DEF Take
  <2>2. HTTP!Fits(Verdict(r), sent[c][Len(answers[c]) + 1])
    BY <1>1, <1>2, <1>4, VerdictFits
  <2>3. Gone' \in {Gone, Gone \cup {c}}
    BY <1>1, <2>1, AfterResponseGone
  <2>4. Verdict(r) \in HTTP!Statuses
    BY VerdictType
  <2> HIDE DEF r
  <2> QED BY <1>1, <2>1, <2>2, <2>3, <2>4, ReplyRefines
<1> QED BY <1>3, <1>4

LEMMA LeaveRefines ==
  ASSUME IInv, NEW c \in Clients, conn[c] = "open", Shut(c), UNCHANGED <<sent, answers>>
  PROVE  HTTP!Leave(c)
<1>1. Gone' = Gone \cup {c} /\ c \notin Gone
  BY ShutEffect DEF Gone
<1> QED BY <1>1 DEF HTTP!Leave, Gone

LEMMA ReturnRefines ==
  ASSUME IInv, NEW c \in Clients, conn[c] = "open", UNCHANGED sent,
         taken[c] = Len(answers[c]) + 1, Len(answers[c]) \in Nat,
         taken[c] <= Len(sent[c]), Len(sent[c]) \in Nat,
         \E s \in HTTP!Statuses :
           /\ HTTP!Fits(s, sent[c][taken[c]]) /\ AfterResponse(c, sent[c][taken[c]])
           /\ answers' = [answers EXCEPT ![c] = Append(@, s)]
  PROVE  HTTP!Reply(c)
<1> DEFINE r == sent[c][taken[c]]
<1>1. Len(answers[c]) < Len(sent[c]) /\ r = sent[c][Len(answers[c]) + 1]
  OBVIOUS
<1> HIDE DEF r
<1>2. PICK s \in HTTP!Statuses :
        /\ HTTP!Fits(s, r) /\ AfterResponse(c, r)
        /\ answers' = [answers EXCEPT ![c] = Append(@, s)]
  BY Zenon DEF r
<1>3. HTTP!Fits(s, sent[c][Len(answers[c]) + 1])
  BY <1>1, <1>2
<1>4. Gone' \in {Gone, Gone \cup {c}}
  BY <1>2, AfterResponseGone
<1>5. answers' = [answers EXCEPT ![c] = Append(@, s)]
  BY <1>2
<1> QED BY <1>1, <1>3, <1>4, <1>5, ReplyRefines

LEMMA CallbackRefines ==
  ASSUME IInv, NEW c \in Clients, Callback(c)
  PROVE  HTTP!Reply(c) \/ HTTP!Leave(c)
<1> DEFINE r == sent[c][taken[c]]
<1>1. busy = c /\ UNCHANGED sent
  BY DEF Callback, CallbackOk, CallbackError, CallbackPanic, Done
<1>2. conn[c] = "open" /\ Verdict(r) = 200 /\ busy # Nobody
  BY <1>1, ServerConstants DEF IInv, BusyIsOpen
<1>3. taken[c] = Len(answers[c]) + 1 /\ Len(answers[c]) \in Nat /\ taken[c] <= Len(sent[c])
      /\ Len(sent[c]) \in Nat
  BY <1>1, <1>2, LenProperties DEF IInv, TypeOK, AnswersKeepUp, Due, TakenWereSent
<1>4. r \in Requests
  <2>1. sent[c] \in Seq(Requests) /\ taken[c] \in 1 .. Len(sent[c])
    BY <1>3 DEF IInv, TypeOK
  <2> QED BY <2>1, ElementOfSeq
<1>5. HTTP!Fits(200, r) /\ HTTP!Fits(500, r)
  BY <1>2, <1>4, VerdictFits
<1>6. CASE CallbackOk(c) \/ CallbackError(c)
  <2>1. PICK t \in {200, 500} :
          AfterResponse(c, r) /\ answers' = [answers EXCEPT ![c] = Append(@, t)]
    BY <1>6 DEF CallbackOk, CallbackError
  <2>2. t \in HTTP!Statuses
    BY DEF HTTP!Statuses
  <2>3. HTTP!Fits(t, r)
    BY <1>5
  <2> HIDE DEF r
  <2>4. \E s \in HTTP!Statuses :
          /\ HTTP!Fits(s, r) /\ AfterResponse(c, r)
          /\ answers' = [answers EXCEPT ![c] = Append(@, s)]
    <3> WITNESS t \in HTTP!Statuses
    <3> QED BY <2>1, <2>3
  <2> QED BY <1>1, <1>2, <1>3, <2>4, ReturnRefines DEF r
<1>7. CASE CallbackPanic(c)
  BY <1>1, <1>2, <1>7, LeaveRefines DEF CallbackPanic
<1> QED BY <1>6, <1>7 DEF Callback

LEMMA StepRefines ==
  ASSUME IInv, [Next]_vars
  PROVE  [HTTP!Next]_(HTTP!vars)
<1>1. CASE UNCHANGED vars
  BY <1>1 DEF vars, HTTP!vars
<1>2. CASE Accept
  <2>1. Gone' = Gone
    BY <1>2, AcceptEffect DEF Gone
  <2> QED BY <1>2, <2>1 DEF Accept, HTTP!vars, Gone
<1>3. ASSUME NEW c \in Clients, Connect(c)
      PROVE  UNCHANGED HTTP!vars
  <2>1. Gone' = Gone
    BY <1>3 DEF Connect, Gone, IInv, TypeOK
  <2> QED BY <1>3, <2>1 DEF Connect, HTTP!vars, Gone
<1>4. ASSUME NEW c \in Clients, Send(c)
      PROVE  HTTP!Ask(c)
  BY <1>4 DEF Send, HTTP!Ask
<1>5. ASSUME NEW c \in Clients, HangUp(c)
      PROVE  UNCHANGED HTTP!vars
  BY <1>5 DEF HangUp, HTTP!vars
<1>6. ASSUME NEW c \in Clients, Close(c)
      PROVE  HTTP!Leave(c)
  BY <1>6, LeaveRefines DEF Close
<1>7. ASSUME NEW c \in Clients, Client(c) \/ Serve(c) \/ Callback(c)
      PROVE  HTTP!Ask(c) \/ HTTP!Reply(c) \/ HTTP!Leave(c) \/ UNCHANGED HTTP!vars
  BY <1>3, <1>4, <1>5, <1>6, <1>7, TakeRefines, CallbackRefines DEF Client, Serve
<1> QED BY <1>1, <1>2, <1>7 DEF Next, HTTP!Next

(* For any clients, with and without a password, the server implements     *)
(* HttpService: src/src/server.rs:46-175.                                  *)
THEOREM ImplementsCorrect == Spec => Implements
BY Invariant, InitRefines, StepRefines, PTL DEF Spec, HTTP!Spec, Implements
===============================================================================
