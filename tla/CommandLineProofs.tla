--------------------------- MODULE CommandLineProofs ---------------------------
(***************************************************************************)
(* What CommandLine makes of every command line, environment and set of    *)
(* bound sockets: the options are those given (OptionsCorrect) and the     *)
(* process ends as the arguments as a whole have it end (EndsCorrect).     *)
(*                                                                         *)
(* The argument: while the tokens are read, matches[x] is the part of argv *)
(* between the flag of x and the first flag after it, as far as it has     *)
(* been read (SeenValues), and the open argument is the one whose flag was *)
(* the last (OpenIsLast). At the end of argv that part is what Given reads *)
(* from the whole command line (ParsedGiven); an early refusal sees a      *)
(* prefix only, and has to show that no continuation could mend it.        *)
(***************************************************************************)
EXTENDS CommandLine, FiniteSetTheorems, SequenceTheorems, WellFoundedInduction, TLAPS

Tokens == Flags \cup Values

(***************************************************************************)
(* The inductive invariant.                                                *)
(***************************************************************************)
World ==
  /\ argv \in Seq(Tokens) /\ env \in [Args -> Values \cup {Unset}]
  /\ at \in 1 .. Len(argv) + 1
  /\ phase \in {"args", "env", "options", "bind", "serving", "usage", "failed"}

Reading == phase \in {"args", "env"}
Seen(x) == {n \in Uses(x) : n < at}

(* No flag lies strictly between the positions n and e.                    *)
NoFlag(n, e) == \A k \in n + 1 .. e - 1 : argv[k] \notin Flags
Between(n, e) == SubSeq(argv, n + 1, e - 1)

SeenOnce ==
  /\ DOMAIN matches = {x \in Args : Seen(x) # {}}
  /\ \A x \in Args : \A m, n \in Seen(x) : m = n
SeenValues ==
  \A x \in DOMAIN matches : \A n \in Seen(x) : \A e \in n + 1 .. at :
    NoFlag(n, e) /\ (e = at \/ argv[e] \in Flags) => matches[x] = Between(n, e)
OpenIsLast ==
  IF open = Unset
  THEN at = 1 \/ \E x \in Singles \cap DOMAIN matches : \A n \in Seen(x) : NoFlag(n, at)
  ELSE open \in DOMAIN matches /\ \A n \in Seen(open) : NoFlag(n, at)
OneValue ==
  \A x \in Singles \cap DOMAIN matches :
    IF x = open THEN matches[x] = <<>> ELSE matches[x] = <<matches[x][1]>>
ValuesAccepted ==
  \A x \in DOMAIN matches : \A i \in DOMAIN matches[x] : Accepts(x, matches[x][i])
FlagFirst == at = 1 \/ argv[1] \in Flags

Parsed == SeenOnce /\ SeenValues /\ OpenIsLast /\ OneValue /\ ValuesAccepted /\ FlagFirst
Complete == at = Len(argv) + 1 /\ ~Starved
Settled ==
  /\ matches = [x \in Args |-> Given(x)]
  /\ \A x \in Singles : Given(x) = <<Given(x)[1]>>
  /\ ~Refused

Inv ==
  /\ World
  /\ Reading => Parsed /\ options = Unset
  /\ phase = "env" => Complete
  /\ phase \in {"options", "bind", "serving", "failed"} => Settled
  /\ phase = "options" => options = Unset
  /\ phase \in {"bind", "serving", "failed"} => options = FromClaps
  /\ phase = "usage" => Refused /\ options = Unset
  /\ phase = "serving" => <<GetOne("l"), GetOne("p")>> \notin sockets
  /\ phase = "failed" => <<GetOne("l"), GetOne("p")>> \in sockets

(***************************************************************************)
(* Flags and positions.                                                    *)
(***************************************************************************)

(* No two arguments have the same flag.                                    *)
LEMMA FlagsDiffer == \A x, y \in Args : Flag[x] = Flag[y] => x = y
BY DEF Args, Singles, Switches, Lists, Flag

LEMMA ArgOfFlag ==
  ASSUME NEW token \in Flags
  PROVE  ArgOf(token) \in Args /\ Flag[ArgOf(token)] = token
<1>1. \E x \in Args : Flag[x] = token
  BY DEF Flags
<1> QED BY <1>1 DEF ArgOf

(* A nonempty set of naturals has a least element.                         *)
LEMMA LeastOfNaturals ==
  ASSUME NEW S \in SUBSET Nat, S # {}
  PROVE  \E x \in S : \A y \in S : x <= y
<1> DEFINE R == OpToRel(<, Nat)
<1>1. \E x \in S : \A y \in S : ~(<<y, x>> \in R)
  <2> HIDE DEF R
  <2> QED BY WFMin, NatLessThanWellFounded DEF R
<1>2. PICK x \in S : \A y \in S : ~(<<y, x>> \in R)
  BY <1>1
<1>3. \A y \in S : ~(y < x)
  BY <1>2 DEF OpToRel
<1> QED BY <1>3

(* The values after the flag at n end at the next flag, or with argv.      *)
EndOf(n, e) ==
  /\ e \in n + 1 .. Len(argv) + 1
  /\ NoFlag(n, e)
  /\ e = Len(argv) + 1 \/ argv[e] \in Flags

LEMMA EndExists ==
  ASSUME World, NEW n \in 1 .. Len(argv)
  PROVE  \E e : EndOf(n, e)
<1> DEFINE S == {m \in n + 1 .. Len(argv) + 1 : m = Len(argv) + 1 \/ argv[m] \in Flags}
<1>1. Len(argv) \in Nat
  BY DEF World
<1>2. S \in SUBSET Nat /\ Len(argv) + 1 \in S
  BY <1>1
<1>3. PICK e \in S : \A k \in S : e <= k
  BY <1>2, LeastOfNaturals
<1>4. e \in n + 1 .. Len(argv) + 1 /\ (e = Len(argv) + 1 \/ argv[e] \in Flags)
  BY <1>3
<1>5. NoFlag(n, e)
  <2> SUFFICES ASSUME NEW k \in n + 1 .. e - 1, argv[k] \in Flags PROVE FALSE
    BY DEF NoFlag
  <2>1. k \in n + 1 .. Len(argv) + 1 /\ ~(e <= k)
    BY <1>1, <1>4
  <2> QED BY <2>1, <1>3
<1> QED BY <1>4, <1>5 DEF EndOf

LEMMA AfterIs ==
  ASSUME World, NEW n \in 1 .. Len(argv), NEW e, EndOf(n, e)
  PROVE  After(n) = Between(n, e)
<1> DEFINE ends == {m \in n + 1 .. Len(argv) : argv[m] \in Flags} \cup {Len(argv) + 1}
<1>1. Len(argv) \in Nat /\ e \in Nat
  BY DEF World, EndOf
<1>2. e \in ends
  BY <1>1 DEF EndOf
<1>3. \A k \in ends : e <= k
  <2> SUFFICES ASSUME NEW k \in ends, ~(e <= k) PROVE FALSE
    OBVIOUS
  <2>1. k \in n + 1 .. e - 1 /\ argv[k] \in Flags
    BY <1>1 DEF EndOf
  <2> QED BY <2>1 DEF EndOf, NoFlag
<1>4. \A m \in ends : (\A k \in ends : m <= k) => m = e
  BY <1>1, <1>2, <1>3
<1> HIDE DEF ends
<1>5. (CHOOSE m \in ends : \A k \in ends : m <= k) = e
  BY <1>2, <1>3, <1>4
<1> QED BY <1>5 DEF After, Between, ends

(* Two uses of an argument are one too many.                               *)
LEMMA UsedTwice ==
  ASSUME World, NEW x, NEW m \in Uses(x), NEW n \in Uses(x), m # n
  PROVE  Cardinality(Uses(x)) > 1
<1>1. IsFiniteSet(Uses(x))
  <2>1. PICK l \in Nat : l = Len(argv)
    BY DEF World
  <2>2. IsFiniteSet(1 .. l)
    <3>1. \A i, j \in Int : IsFiniteSet(i .. j)
      BY FS_Interval, Zenon
    <3>2. 1 \in Int /\ l \in Int
      OBVIOUS
    <3> QED BY <3>1, <3>2, Zenon
  <2>3. Uses(x) \subseteq 1 .. l
    BY <2>1 DEF World, Uses
  <2> QED BY <2>2, <2>3, FS_Subset
<1>2. IsFiniteSet({m}) /\ Cardinality({m}) = 1
  BY FS_Singleton
<1>3. Cardinality({m} \cup {n}) = 2
  BY <1>2, FS_AddElement
<1>4. Cardinality({m} \cup {n}) <= Cardinality(Uses(x))
  BY <1>1, FS_Subset
<1>5. Cardinality(Uses(x)) \in Nat
  BY <1>1, FS_CardinalityType
<1> QED BY <1>3, <1>4, <1>5

LEMMA UsedOnce ==
  ASSUME World, NEW x, NEW n \in Uses(x), \A m \in Uses(x) : m = n
  PROVE  Given(x) = After(n) /\ ~(Cardinality(Uses(x)) > 1)
<1>1. Uses(x) = {n}
  OBVIOUS
<1>2. Cardinality(Uses(x)) = 1
  BY <1>1, FS_Singleton
<1>3. (CHOOSE m \in Uses(x) : TRUE) = n
  BY <1>1
<1> QED BY <1>1, <1>2, <1>3 DEF Given

(* An argument whose one use would be wrong is misused.                    *)
LEMMA MisusedAfter ==
  ASSUME World, NEW x \in Args, NEW n \in Uses(x),
         \/ x \in Singles /\ Len(After(n)) # 1
         \/ After(n) # Unset /\ \E i \in DOMAIN After(n) : ~Accepts(x, After(n)[i])
  PROVE  Refused
<1>1. CASE \E m \in Uses(x) : m # n
  BY <1>1, UsedTwice DEF Refused, Misused
<1>2. CASE \A m \in Uses(x) : m = n
  <2>1. Given(x) = After(n)
    BY <1>2, UsedOnce
  <2> QED BY <2>1 DEF Refused, Misused
<1> QED BY <1>1, <1>2

(***************************************************************************)
(* Reading the tokens.                                                     *)
(***************************************************************************)

LEMMA NothingBetween ==
  ASSUME NEW n \in Nat
  PROVE  Between(n, n + 1) = <<>>
BY SubSeqEmpty DEF Between

LEMMA OneMoreBetween ==
  ASSUME World, at <= Len(argv), NEW n \in 1 .. at - 1
  PROVE  /\ Between(n, at) \in Seq(Tokens)
         /\ Between(n, at + 1) = Append(Between(n, at), argv[at])
<1>1. Len(argv) \in Nat /\ at \in Nat /\ n + 1 \in Int /\ at - 1 \in Int
  BY DEF World
<1>2. Between(n, at) \in Seq(Tokens)
  <2>1. \A i \in n + 1 .. at - 1 : argv[i] \in Tokens
    BY <1>1 DEF World
  <2> QED BY <1>1, <2>1, SubSeqProperties DEF Between
<1>3. SubSeq(argv, n + 1, at) = SubSeq(argv, n + 1, at - 1) \o <<argv[at]>>
  <2>1. n + 1 \in 1 .. Len(argv) /\ at \in n + 1 .. Len(argv)
    BY <1>1
  <2> QED BY <2>1, SubSeqRecursiveSecond DEF World
<1>4. Between(n, at + 1) = SubSeq(argv, n + 1, at)
  <2>1. (at + 1) - 1 = at
    BY <1>1
  <2> QED BY <2>1 DEF Between
<1>5. Between(n, at) \o <<argv[at]>> = Append(Between(n, at), argv[at])
  BY <1>2
<1> QED BY <1>2, <1>3, <1>4, <1>5 DEF Between

(* The values of the open argument are those from its flag to here.        *)
LEMMA OpenValues ==
  ASSUME World, Parsed, open # Unset
  PROVE  /\ open \in Args \cap DOMAIN matches
         /\ \E n \in Seen(open) :
              /\ n \in 1 .. at - 1 /\ n \in Uses(open) /\ argv[n] = Flag[open]
              /\ NoFlag(n, at) /\ matches[open] = Between(n, at)
<1>1. open \in DOMAIN matches /\ open \in Args /\ Seen(open) # {}
  BY DEF Parsed, OpenIsLast, SeenOnce
<1>2. PICK n \in Seen(open) : NoFlag(n, at)
  BY <1>1 DEF Parsed, OpenIsLast
<1>3. n \in 1 .. at - 1 /\ n \in Uses(open) /\ argv[n] = Flag[open] /\ at \in n + 1 .. at
  BY DEF World, Seen, Uses
<1>4. matches[open] = Between(n, at)
  BY <1>1, <1>2, <1>3 DEF Parsed, SeenValues
<1> QED BY <1>1, <1>2, <1>3, <1>4

(* An argument without its value stays without.                            *)
LEMMA StarvedIsMisused ==
  ASSUME World, Parsed, Starved, Unset \notin Args,
         at = Len(argv) + 1 \/ argv[at] \in Flags
  PROVE  Refused
<1>1. open \in Singles /\ open \in Args /\ open # Unset
  BY DEF Starved, Args
<1>2. PICK n \in Seen(open) :
        /\ n \in 1 .. at - 1 /\ n \in Uses(open)
        /\ NoFlag(n, at) /\ matches[open] = Between(n, at)
  BY <1>1, OpenValues
<1>3. EndOf(n, at) /\ n \in 1 .. Len(argv)
  BY <1>2 DEF EndOf, World
<1>4. After(n) = <<>>
  BY <1>2, <1>3, AfterIs DEF Starved
<1> QED BY <1>1, <1>2, <1>4, MisusedAfter

(* Nor does one more value go away.                                        *)
LEMMA AfterReaches ==
  ASSUME World, at <= Len(argv), argv[at] \notin Flags, NEW n \in 1 .. at - 1, NoFlag(n, at)
  PROVE  /\ After(n) \in Seq(Tokens)
         /\ Len(After(n)) >= at - n
         /\ at - n \in DOMAIN After(n) /\ After(n)[at - n] = argv[at]
<1>1. Len(argv) \in Nat /\ at \in Nat /\ n \in 1 .. Len(argv)
  BY DEF World
<1>2. PICK e : EndOf(n, e)
  BY <1>1, EndExists
<1>3. e \in at + 1 .. Len(argv) + 1
  <2>1. e \in n + 1 .. Len(argv) + 1 /\ (e = Len(argv) + 1 \/ argv[e] \in Flags)
    BY <1>2 DEF EndOf
  <2>2. ~(e <= at - 1)
    <3> SUFFICES ASSUME e <= at - 1 PROVE FALSE
      OBVIOUS
    <3>1. e \in n + 1 .. at - 1 /\ argv[e] \in Flags
      BY <1>1, <2>1
    <3> QED BY <3>1 DEF NoFlag
  <2>3. e # at
    BY <1>1, <2>1
  <2> QED BY <1>1, <2>1, <2>2, <2>3
<1>4. After(n) = SubSeq(argv, n + 1, e - 1)
  BY <1>1, <1>2, AfterIs DEF Between
<1>5. /\ SubSeq(argv, n + 1, e - 1) \in Seq(Tokens)
      /\ Len(SubSeq(argv, n + 1, e - 1)) = (e - 1) - (n + 1) + 1
      /\ \A i \in 1 .. (e - 1) - (n + 1) + 1 : SubSeq(argv, n + 1, e - 1)[i] = argv[n + 1 + i - 1]
  <2>1. n + 1 \in Int /\ e - 1 \in Int /\ n + 1 <= e - 1
    BY <1>1, <1>3
  <2>2. \A i \in n + 1 .. e - 1 : argv[i] \in Tokens
    BY <1>1, <1>3 DEF World
  <2> QED BY <2>1, <2>2, SubSeqProperties
<1>6. /\ at - n \in 1 .. (e - 1) - (n + 1) + 1 /\ n + 1 + (at - n) - 1 = at
      /\ (e - 1) - (n + 1) + 1 \in Nat /\ (e - 1) - (n + 1) + 1 >= at - n
  BY <1>1, <1>3
<1> DEFINE l == (e - 1) - (n + 1) + 1
           s == After(n)
<1>7. s \in Seq(Tokens) /\ Len(s) = l /\ \A i \in 1 .. l : s[i] = argv[n + 1 + i - 1]
  <2> HIDE DEF l
  <2> QED BY <1>4, <1>5, Zenon DEF l
<1>8. at - n \in 1 .. l /\ l \in Nat /\ l >= at - n /\ argv[n + 1 + (at - n) - 1] = argv[at]
  BY <1>6
<1> HIDE DEF l, s
<1>9. at - n \in DOMAIN s
  BY <1>7, <1>8, LenProperties
<1>10. s[at - n] = argv[at]
  BY <1>7, <1>8
<1> QED BY <1>7, <1>8, <1>9, <1>10 DEF s

(***************************************************************************)
(* The steps of reading.                                                   *)
(***************************************************************************)

(* A flag that is accepted begins the values of its argument.              *)
LEMMA FlagIsRead ==
  ASSUME World, Parsed, NEW x \in Args, at <= Len(argv), argv[at] = Flag[x],
         ~Starved, x \notin DOMAIN matches, Unset \notin Args,
         open' = x,
         matches' = [y \in DOMAIN matches \cup {x} |-> IF y = x THEN <<>> ELSE matches[y]],
         at' = at + 1, argv' = argv
  PROVE  Parsed'
<1>1. Len(argv) \in Nat /\ at \in 1 .. Len(argv) /\ argv[at] \in Flags /\ x # Unset
  BY DEF World, Flags
<1>2. /\ \A y \in Args : y # x => Seen(y)' = Seen(y)
      /\ Seen(x)' = {at}
  <2>1. \A y : Seen(y)' = {n \in Uses(y) : n < at + 1}
    BY DEF Seen, Uses
  <2>2. Seen(x) = {}
    BY DEF Parsed, SeenOnce
  <2>3. at \in Uses(x) /\ \A y \in Args : y # x => at \notin Uses(y)
    BY <1>1, FlagsDiffer DEF Uses
  <2>4. \A y : \A n \in Uses(y) : n < at + 1 <=> (n < at \/ n = at)
    BY <1>1 DEF Uses
  <2> QED BY <2>1, <2>2, <2>3, <2>4 DEF Seen
<1>3. DOMAIN matches' = DOMAIN matches \cup {x}
  OBVIOUS
<1>4. SeenOnce'
  <2>1. (DOMAIN matches)' = {y \in Args : Seen(y)' # {}}
    <3>1. DOMAIN matches = {y \in Args : Seen(y) # {}}
      BY DEF Parsed, SeenOnce
    <3> QED BY <1>2, <1>3, <3>1
  <2>2. ASSUME NEW y \in Args, NEW m \in Seen(y)', NEW n \in Seen(y)' PROVE m = n
    <3>1. CASE y = x
      BY <3>1, <1>2
    <3>2. CASE y # x
      BY <3>2, <1>2 DEF Parsed, SeenOnce
    <3> QED BY <3>1, <3>2
  <2> QED BY <2>1, <2>2 DEF SeenOnce
<1>5. SeenValues'
  <2> SUFFICES ASSUME NEW y \in DOMAIN matches', NEW n \in Seen(y)', NEW e \in n + 1 .. at',
                      NoFlag(n, e)', e = at' \/ argv'[e] \in Flags
               PROVE  matches'[y] = Between(n, e)'
    BY Zenon DEF SeenValues
  <2>0. /\ e \in n + 1 .. at + 1 /\ (e = at + 1 \/ argv[e] \in Flags)
        /\ \A k \in n + 1 .. e - 1 : argv[k] \notin Flags
        /\ Between(n, e)' = SubSeq(argv, n + 1, e - 1)
    BY DEF NoFlag, Between
  <2>1. CASE y = x
    <3>1. n = at /\ e = at + 1
      BY <2>0, <2>1, <1>1, <1>2
    <3>2. Between(at, at + 1) = <<>>
      BY <1>1, NothingBetween
    <3> QED BY <2>0, <2>1, <3>1, <3>2 DEF Between
  <2>2. CASE y # x
    <3>1. y \in DOMAIN matches /\ y \in Args /\ n \in Seen(y) /\ matches'[y] = matches[y]
      BY <2>2, <1>2, <1>3 DEF Parsed, SeenOnce
    <3>2. n \in 1 .. at - 1
      BY <3>1, <1>1 DEF Seen, Uses
    <3>3. e # at + 1
      BY <2>0, <3>2, <1>1
    <3>4. e \in n + 1 .. at /\ argv[e] \in Flags
      BY <2>0, <3>2, <3>3, <1>1
    <3> QED BY <2>0, <3>1, <3>4 DEF Parsed, SeenValues, NoFlag, Between
  <2> QED BY <2>1, <2>2
<1>6. OpenIsLast'
  <2>1. \A n \in Seen(x)' : \A k \in n + 1 .. (at + 1) - 1 : argv[k] \notin Flags
    BY <1>1, <1>2
  <2>2. open' # Unset /\ open' \in DOMAIN matches'
    BY <1>1, <1>3
  <2> QED BY <2>1, <2>2 DEF OpenIsLast, NoFlag
<1>7. OneValue'
  <2> SUFFICES ASSUME NEW y \in Singles \cap DOMAIN matches', y # x
               PROVE  matches'[y] = <<matches'[y][1]>>
    BY DEF OneValue
  <2>1. y \in Singles \cap DOMAIN matches /\ matches'[y] = matches[y]
    BY <1>3
  <2>2. y # open
    BY <2>1 DEF Starved, Parsed, OneValue
  <2> QED BY <2>1, <2>2 DEF Parsed, OneValue
<1>8. ValuesAccepted'
  <2> SUFFICES ASSUME NEW y \in DOMAIN matches', NEW i \in DOMAIN (matches'[y])
               PROVE  Accepts(y, matches'[y][i])
    BY DEF ValuesAccepted, Accepts
  <2>1. y # x /\ y \in DOMAIN matches /\ matches'[y] = matches[y]
    BY <1>3
  <2> QED BY <2>1 DEF Parsed, ValuesAccepted
<1>9. FlagFirst'
  <2>1. CASE at = 1
    BY <2>1, <1>1 DEF FlagFirst
  <2>2. CASE at # 1
    BY <2>2 DEF Parsed, FlagFirst
  <2> QED BY <2>1, <2>2
<1> QED BY <1>4, <1>5, <1>6, <1>7, <1>8, <1>9 DEF Parsed

(* A value that is accepted goes to the open argument.                     *)
LEMMA ValueIsRead ==
  ASSUME World, Parsed, at <= Len(argv), argv[at] \notin Flags, Unset \notin Args,
         open # Unset, Accepts(open, argv[at]),
         matches' = [matches EXCEPT ![open] = Append(@, argv[at])],
         open' = IF open \in Lists THEN open ELSE Unset,
         at' = at + 1, argv' = argv
  PROVE  Parsed'
<1>1. Len(argv) \in Nat /\ at \in 1 .. Len(argv)
  BY DEF World
<1>2. open \in Args \cap DOMAIN matches
  BY OpenValues
<1>3. PICK p \in Seen(open) :
        /\ p \in 1 .. at - 1 /\ argv[p] = Flag[open]
        /\ NoFlag(p, at) /\ matches[open] = Between(p, at)
  BY OpenValues
<1>4. /\ Between(p, at) \in Seq(Tokens)
      /\ Between(p, at + 1) = Append(Between(p, at), argv[at])
  BY <1>3, OneMoreBetween
<1>5. \A y \in Args : Seen(y)' = Seen(y)
  <2>1. \A y \in Args : at \notin Uses(y)
    BY DEF Uses, Flags
  <2>2. \A y : Seen(y)' = {n \in Uses(y) : n < at + 1}
    BY DEF Seen, Uses
  <2>3. \A y : \A n \in Uses(y) : n < at + 1 <=> (n < at \/ n = at)
    BY <1>1 DEF Uses
  <2> QED BY <2>1, <2>2, <2>3 DEF Seen
<1>6. /\ DOMAIN matches' = DOMAIN matches
      /\ matches'[open] = Append(matches[open], argv[at])
      /\ \A y \in DOMAIN matches : y # open => matches'[y] = matches[y]
  BY <1>2
<1>7. \A n \in Seen(open) : n = p
  BY <1>2 DEF Parsed, SeenOnce
<1>8. SeenOnce'
  <2>1. (DOMAIN matches)' = {y \in Args : Seen(y)' # {}}
    <3>1. DOMAIN matches = {y \in Args : Seen(y) # {}}
      BY DEF Parsed, SeenOnce
    <3> QED BY <1>5, <1>6, <3>1
  <2>2. \A y \in Args : \A m, n \in Seen(y)' : m = n
    BY <1>5 DEF Parsed, SeenOnce
  <2> QED BY <2>1, <2>2 DEF SeenOnce
<1>9. SeenValues'
  <2> SUFFICES ASSUME NEW y \in DOMAIN matches', NEW n \in Seen(y)', NEW e \in n + 1 .. at',
                      NoFlag(n, e)', e = at' \/ argv'[e] \in Flags
               PROVE  matches'[y] = Between(n, e)'
    BY DEF SeenValues
  <2>0. /\ e \in n + 1 .. at + 1 /\ (e = at + 1 \/ argv[e] \in Flags)
        /\ \A k \in n + 1 .. e - 1 : argv[k] \notin Flags
        /\ Between(n, e)' = SubSeq(argv, n + 1, e - 1)
    BY DEF NoFlag, Between
  <2>1. y \in DOMAIN matches /\ y \in Args /\ n \in Seen(y)
    BY <1>5, <1>6 DEF Parsed, SeenOnce
  <2>2. n \in 1 .. at - 1 /\ argv[n] = Flag[y]
    BY <2>1, <1>1 DEF Seen, Uses
  <2>3. CASE y = open
    <3>1. n = p
      BY <2>1, <2>3, <1>7
    <3>2. e = at + 1
      <4> SUFFICES ASSUME e # at + 1 PROVE FALSE
        OBVIOUS
      <4>1. argv[e] \in Flags /\ e # at
        BY <2>0
      <4>2. e \in p + 1 .. at - 1
        BY <1>1, <2>0, <2>2, <3>1, <4>1
      <4> QED BY <4>1, <4>2, <1>3 DEF NoFlag
    <3>3. matches'[y] = Between(p, at + 1)
      BY <2>3, <1>3, <1>4, <1>6
    <3> QED BY <1>1, <2>0, <3>1, <3>2, <3>3 DEF Between
  <2>4. CASE y # open
    <3>1. n # p /\ argv[n] \in Flags /\ argv[p] \in Flags
      BY <2>1, <2>2, <2>4, <1>2, <1>3, FlagsDiffer DEF Flags
    <3>2. n < p
      <4> SUFFICES ASSUME ~(n < p) PROVE FALSE
        OBVIOUS
      <4>1. n \in p + 1 .. at - 1
        BY <1>1, <1>3, <2>2, <3>1
      <4> QED BY <3>1, <4>1, <1>3 DEF NoFlag
    <3>3. e # at + 1
      <4> SUFFICES ASSUME e = at + 1 PROVE FALSE
        OBVIOUS
      <4>1. p \in n + 1 .. e - 1
        BY <1>1, <1>3, <2>2, <3>2
      <4> QED BY <2>0, <3>1, <4>1
    <3>4. e \in n + 1 .. at /\ argv[e] \in Flags
      BY <2>0, <2>2, <3>3, <1>1
    <3>5. matches[y] = SubSeq(argv, n + 1, e - 1)
      BY <2>0, <2>1, <3>4 DEF Parsed, SeenValues, NoFlag, Between
    <3> QED BY <2>0, <3>5, <2>1, <2>4, <1>6
  <2> QED BY <2>3, <2>4
<1>10. \A n \in Seen(open) : NoFlag(n, at + 1)
  <2> SUFFICES ASSUME NEW k \in p + 1 .. (at + 1) - 1 PROVE argv[k] \notin Flags
    BY <1>7 DEF NoFlag
  <2>1. k = at \/ k \in p + 1 .. at - 1
    BY <1>1, <1>3
  <2> QED BY <2>1, <1>3 DEF NoFlag
<1>11. OpenIsLast'
  <2>1. PICK x \in Args : x = open
    BY <1>2
  <2>2. x \in DOMAIN matches' /\ \A n \in Seen(x)' : \A k \in n + 1 .. (at + 1) - 1 : argv[k] \notin Flags
    BY <2>1, <1>2, <1>5, <1>6, <1>10 DEF NoFlag
  <2>3. CASE x \in Lists
    <3>1. open' = x /\ x # Unset
      BY <2>1, <2>3
    <3> QED BY <2>2, <3>1 DEF OpenIsLast, NoFlag
  <2>4. CASE x \notin Lists
    <3>1. open' = Unset /\ x \in Singles
      BY <2>1, <2>4 DEF Args
    <3> QED BY <2>2, <3>1 DEF OpenIsLast, NoFlag
  <2> QED BY <2>3, <2>4
<1>12. OneValue'
  <2> SUFFICES ASSUME NEW y \in Singles \cap DOMAIN matches'
               PROVE  y # open' /\ matches'[y] = <<matches'[y][1]>>
    BY DEF OneValue
  <2>1. y # open'
    <3>1. y \in Args /\ y \notin Lists
      BY DEF Args, Singles, Switches, Lists
    <3> QED BY <3>1
  <2>2. CASE y = open
    <3>1. matches[open] = <<>>
      BY <2>2, <1>2 DEF Parsed, OneValue
    <3>2. matches'[y] = <<argv[at]>>
      BY <2>2, <3>1, <1>6
    <3> QED BY <2>1, <3>2
  <2>3. CASE y # open
    BY <2>1, <2>3, <1>6 DEF Parsed, OneValue
  <2> QED BY <2>1, <2>2, <2>3
<1>13. ValuesAccepted'
  <2> SUFFICES ASSUME NEW y \in DOMAIN matches', NEW i \in DOMAIN (matches'[y])
               PROVE  Accepts(y, matches'[y][i])
    BY DEF ValuesAccepted, Accepts
  <2>1. CASE y = open
    <3>1. PICK s \in Seq(Tokens) : s = matches[open]
      BY <1>3, <1>4
    <3>2. matches'[y] = Append(s, argv[at])
      BY <2>1, <3>1, <1>6
    <3>3. (i \in DOMAIN s /\ matches'[y][i] = s[i]) \/ matches'[y][i] = argv[at]
      BY <3>1, <3>2
    <3> QED BY <2>1, <3>1, <3>3, <1>2 DEF Parsed, ValuesAccepted
  <2>2. CASE y # open
    BY <2>2, <1>6 DEF Parsed, ValuesAccepted
  <2> QED BY <2>1, <2>2
<1>14. FlagFirst'
  <2>1. at # 1
    BY <1>1, <1>3
  <2> QED BY <2>1 DEF Parsed, FlagFirst
<1> QED BY <1>8, <1>9, <1>11, <1>12, <1>13, <1>14 DEF Parsed

(* A value that is not taken, because no argument is open or because the   *)
(* open one does not accept it, is one the whole command line should not   *)
(* have.                                                                   *)
LEMMA StrayIsRefused ==
  ASSUME World, Parsed, at <= Len(argv), argv[at] \notin Flags,
         Unset \notin Args, Unset \notin Seq(Tokens),
         open = Unset \/ ~Accepts(open, argv[at])
  PROVE  Refused
<1>1. Len(argv) \in Nat /\ at \in 1 .. Len(argv)
  BY DEF World
<1>2. CASE open = Unset /\ at = 1
  <2>1. argv # <<>> /\ argv[1] \notin Flags
    BY <1>1, <1>2
  <2> QED BY <2>1 DEF Refused, Stray
<1>3. CASE open = Unset /\ at # 1
  <2>1. PICK x \in Singles \cap DOMAIN matches : \A n \in Seen(x) : NoFlag(n, at)
    BY <1>3 DEF Parsed, OpenIsLast
  <2>2. x \in Args /\ Seen(x) # {}
    BY <2>1 DEF Parsed, SeenOnce, Args
  <2>3. PICK n \in Seen(x) : NoFlag(n, at)
    BY <2>1, <2>2
  <2>4. n \in 1 .. at - 1 /\ n \in Uses(x) /\ at \in n + 1 .. at
    BY <1>1 DEF Seen, Uses
  <2>5. matches[x] = Between(n, at) /\ matches[x] = <<matches[x][1]>>
    <3>1. x # open
      BY <1>3, <2>2
    <3>2. matches[x] = <<matches[x][1]>>
      BY <2>1, <3>1 DEF Parsed, OneValue
    <3>3. matches[x] = Between(n, at)
      BY <2>1, <2>3, <2>4 DEF Parsed, SeenValues
    <3> QED BY <3>2, <3>3
  <2>6. n # at - 1
    <3> SUFFICES ASSUME n = at - 1 PROVE FALSE
      OBVIOUS
    <3>1. Between(n, n + 1) = <<>> /\ n + 1 = at
      BY <1>1, <2>4, NothingBetween
    <3> QED BY <3>1, <2>5
  <2>7. Len(After(n)) >= at - n /\ Len(After(n)) \in Nat
    BY <1>1, <2>3, <2>4, AfterReaches
  <2>8. Len(After(n)) # 1
    <3>1. at - n \in Nat /\ at - n >= 2
      BY <2>4, <2>6, <1>1
    <3>2. PICK l \in Nat : l = Len(After(n)) /\ l >= at - n
      BY <2>7
    <3> QED BY <3>1, <3>2
  <2> QED BY <2>1, <2>2, <2>4, <2>8, MisusedAfter
<1>4. CASE open # Unset
  <2>1. open \in Args
    BY <1>4, OpenValues
  <2>2. PICK n \in Seen(open) : n \in 1 .. at - 1 /\ n \in Uses(open) /\ NoFlag(n, at)
    BY <1>4, OpenValues
  <2>3. /\ After(n) \in Seq(Tokens)
        /\ at - n \in DOMAIN After(n) /\ After(n)[at - n] = argv[at]
    BY <2>2, AfterReaches
  <2>4. After(n) # Unset /\ ~Accepts(open, After(n)[at - n])
    BY <1>4, <2>3
  <2> QED BY <2>1, <2>2, <2>3, <2>4, MisusedAfter
<1> QED BY <1>2, <1>3, <1>4

(***************************************************************************)
(* The end of the command line.                                            *)
(***************************************************************************)

(* At its end, what was read of an argument is what was given of it.       *)
LEMMA ParsedGiven ==
  ASSUME World, Parsed, at = Len(argv) + 1, NEW x \in Args
  PROVE  /\ x \in DOMAIN matches <=> Uses(x) # {}
         /\ x \in DOMAIN matches => matches[x] = Given(x)
         /\ ~(Cardinality(Uses(x)) > 1)
<1>1. Seen(x) = Uses(x)
  BY DEF World, Seen, Uses
<1>2. x \in DOMAIN matches <=> Uses(x) # {}
  BY <1>1 DEF Parsed, SeenOnce
<1>3. CASE Uses(x) = {}
  <2>1. Cardinality(Uses(x)) = 0
    BY <1>3, FS_EmptySet
  <2> QED BY <2>1, <1>2, <1>3
<1>4. CASE Uses(x) # {}
  <2>1. PICK n \in Uses(x) : \A m \in Uses(x) : m = n
    BY <1>1, <1>4 DEF Parsed, SeenOnce
  <2>2. n \in 1 .. Len(argv)
    BY DEF World, Uses
  <2>3. PICK e : EndOf(n, e)
    BY <2>2, EndExists
  <2>4. After(n) = Between(n, e)
    BY <2>2, <2>3, AfterIs
  <2>5. matches[x] = Between(n, e)
    BY <1>1, <1>2, <2>1, <2>3 DEF Parsed, SeenValues, EndOf
  <2> QED BY <2>1, <2>4, <2>5, <1>2, UsedOnce
<1> QED BY <1>2, <1>3, <1>4

(* A default is accepted and, but for a list, one value.                   *)
LEMMA DefaultIs ==
  ASSUME NEW x \in Args, "9586" \in PortNumbers, "0.0.0.0" \in Addresses
  PROVE  /\ x \in Lists => Default[x] = Unset
         /\ x \in Singles => \E w : Default[x] = <<w>> /\ Accepts(x, w)
<1>1. x \in Switches \/ x = "p" \/ x = "l" \/ x \in Lists
  BY DEF Args, Singles
<1>2. Default[x] = CASE x \in Switches -> <<"false">>
                     [] x = "p" -> <<"9586">>
                     [] x = "l" -> <<"0.0.0.0">>
                     [] OTHER -> Unset
  BY Zenon DEF Default
<1>3. x \in Switches => x \in Singles /\ x \notin Lists /\ x # "p" /\ x # "l"
  BY DEF Switches, Singles, Lists
<1>4. "p" \notin Lists /\ "l" \notin Lists /\ "p" \notin Switches /\ "l" \notin Switches /\ "p" # "l"
  BY DEF Switches, Lists
<1>5. x \in Lists => x \notin Singles /\ x # "p" /\ x # "l"
  BY DEF Switches, Lists, Singles
<1>6. CASE x \in Switches
  <2>1. Default[x] = <<"false">>
    BY <1>2, <1>3, <1>6, Zenon
  <2>2. Accepts(x, "false")
    BY <1>3, <1>6, Zenon DEF Accepts
  <2> QED BY <1>3, <1>6, <2>1, <2>2
<1>7. CASE x = "p"
  <2>1. Default[x] = <<"9586">>
    BY <1>2, <1>4, <1>7, Zenon
  <2>2. Accepts(x, "9586")
    BY <1>4, <1>7, Zenon DEF Accepts
  <2> QED BY <1>4, <1>7, <2>1, <2>2
<1>8. CASE x = "l"
  <2>1. Default[x] = <<"0.0.0.0">>
    BY <1>2, <1>4, <1>8, Zenon
  <2>2. Accepts(x, "0.0.0.0")
    BY <1>4, <1>8, Zenon DEF Accepts
  <2> QED BY <1>4, <1>8, <2>1, <2>2
<1>9. CASE x \in Lists
  <2>1. Default[x] = Unset
    BY <1>2, <1>3, <1>5, <1>9, Zenon
  <2> QED BY <1>5, <1>9, <2>1
<1> QED BY <1>1, <1>6, <1>7, <1>8, <1>9

(* The environment and the defaults complete what was given.               *)
LEMMA EnvironmentSettles ==
  ASSUME World, Parsed, Complete, Unset \notin Args, Unset \notin Seq(Tokens),
         "9586" \in PortNumbers, "0.0.0.0" \in Addresses,
         \A x \in FromEnv : Accepts(x, env[x])
  PROVE  /\ [x \in Args |-> IF x \in FromEnv THEN <<env[x]>>
                            ELSE IF x \in DOMAIN matches THEN matches[x]
                            ELSE Default[x]]
            = [x \in Args |-> Given(x)]
         /\ \A x \in Singles : Given(x) = <<Given(x)[1]>>
         /\ ~Refused
<1> USE DEF Complete
<1>1. ASSUME NEW x \in Args, x \in FromEnv
      PROVE  Given(x) = <<env[x]>> /\ ~Misused(x)
  <2>1. x \notin DOMAIN matches /\ env[x] # Unset /\ Accepts(x, env[x])
    BY <1>1 DEF FromEnv
  <2>2. Uses(x) = {} /\ ~(Cardinality(Uses(x)) > 1)
    BY <2>1, ParsedGiven
  <2>3. Given(x) = <<env[x]>>
    BY <2>1, <2>2 DEF Given
  <2>4. Len(Given(x)) = 1 /\ \A n \in DOMAIN Given(x) : Given(x)[n] = env[x]
    BY <2>3
  <2>5. \A n \in DOMAIN Given(x) : Accepts(x, Given(x)[n])
    BY <2>1, <2>4
  <2> QED BY <2>2, <2>3, <2>4, <2>5 DEF Misused
<1>2. ASSUME NEW x \in Args, x \in DOMAIN matches
      PROVE  /\ Given(x) = matches[x] /\ ~Misused(x)
             /\ x \in Singles => matches[x] = <<matches[x][1]>>
  <2>1. Given(x) = matches[x] /\ ~(Cardinality(Uses(x)) > 1)
    BY <1>2, ParsedGiven
  <2>2. x \in Singles => matches[x] = <<matches[x][1]>>
    <3> SUFFICES ASSUME x \in Singles PROVE matches[x] = <<matches[x][1]>>
      OBVIOUS
    <3>1. IF x = open THEN matches[x] = <<>> ELSE matches[x] = <<matches[x][1]>>
      BY <1>2 DEF Parsed, OneValue
    <3>2. ~(x = open /\ matches[x] = <<>>)
      BY DEF Starved
    <3> QED BY <3>1, <3>2
  <2>3. x \in Singles => Len(matches[x]) = 1
    <3>1. PICK w : w = matches[x][1]
      OBVIOUS
    <3>2. Len(<<w>>) = 1
      OBVIOUS
    <3> QED BY <2>2, <3>1, <3>2, Zenon
  <2>4. \A n \in DOMAIN Given(x) : Accepts(x, Given(x)[n])
    BY <1>2, <2>1 DEF Parsed, ValuesAccepted
  <2> QED BY <2>1, <2>2, <2>3, <2>4 DEF Misused
<1>3. ASSUME NEW x \in Args, x \notin FromEnv, x \notin DOMAIN matches
      PROVE  /\ Given(x) = Default[x] /\ ~Misused(x)
             /\ x \in Singles => Default[x] = <<Default[x][1]>>
  <2>1. Uses(x) = {} /\ env[x] = Unset /\ ~(Cardinality(Uses(x)) > 1)
    BY <1>3, ParsedGiven DEF FromEnv
  <2>2. Given(x) = Default[x]
    BY <2>1 DEF Given
  <2>3. CASE x \in Lists
    <3>1. x \notin Singles /\ Default[x] = Unset
      BY <2>3, DefaultIs DEF Lists, Singles, Switches
    <3> QED BY <2>1, <2>2, <3>1 DEF Misused
  <2>4. CASE x \in Singles
    <3>1. PICK w : Default[x] = <<w>> /\ Accepts(x, w)
      BY <2>4, DefaultIs
    <3>2. Len(Default[x]) = 1 /\ Default[x] = <<Default[x][1]>>
          /\ \A n \in DOMAIN Default[x] : Default[x][n] = w
      BY <3>1
    <3>3. \A n \in DOMAIN Given(x) : Accepts(x, Given(x)[n])
      BY <2>2, <3>1, <3>2
    <3> QED BY <2>1, <2>2, <3>2, <3>3 DEF Misused
  <2> QED BY <2>3, <2>4 DEF Args
<1>4. ~Stray
  <2>1. argv # <<>> => argv[1] \in Flags
    <3>1. CASE at = 1
      <4>1. Len(argv) = 0
        BY <3>1 DEF World
      <4> QED BY <4>1 DEF World
    <3>2. CASE at # 1
      BY <3>2 DEF Parsed, FlagFirst
    <3> QED BY <3>1, <3>2
  <2> QED BY <2>1 DEF Stray
<1>5. \A x \in Args : Given(x) = (IF x \in FromEnv THEN <<env[x]>>
                                  ELSE IF x \in DOMAIN matches THEN matches[x]
                                  ELSE Default[x])
  BY <1>1, <1>2, <1>3
<1>6. \A x \in Args : ~Misused(x)
  BY <1>1, <1>2, <1>3
<1>7. \A x \in Singles : Given(x) = <<Given(x)[1]>>
  <2> TAKE x \in Singles
  <2>0. x \in Args
    BY DEF Args
  <2>1. CASE x \in FromEnv
    BY <2>0, <2>1, <1>1
  <2>2. CASE x \in DOMAIN matches
    BY <2>0, <2>2, <1>2
  <2>3. CASE x \notin FromEnv /\ x \notin DOMAIN matches
    BY <2>0, <2>3, <1>3
  <2> QED BY <2>1, <2>2, <2>3
<1> QED BY <1>4, <1>5, <1>6, <1>7, Zenon DEF Refused

(* A value of the environment that is not accepted is one given.           *)
LEMMA EnvironmentRefused ==
  ASSUME World, Parsed, Complete, Unset \notin Seq(Tokens),
         NEW x \in FromEnv, ~Accepts(x, env[x])
  PROVE  Refused
<1>1. x \in Args /\ x \notin DOMAIN matches /\ env[x] # Unset /\ env[x] \in Values
  BY DEF FromEnv, World
<1>2. Given(x) = <<env[x]>>
  BY <1>1, ParsedGiven DEF Complete, Given
<1>3. <<env[x]>> \in Seq(Tokens)
  BY <1>1 DEF Tokens
<1>4. Given(x) # Unset /\ 1 \in DOMAIN Given(x) /\ Given(x)[1] = env[x]
  <2>1. PICK w : w = env[x]
    OBVIOUS
  <2>2. 1 \in DOMAIN <<w>> /\ <<w>>[1] = w
    OBVIOUS
  <2> QED BY <1>2, <1>3, <2>1, <2>2, Zenon
<1> QED BY <1>1, <1>4 DEF Refused, Misused

(* What was given does not change.                                         *)
LEMMA GivenStays ==
  ASSUME argv' = argv, env' = env
  PROVE  Refused' = Refused /\ \A x : Given(x)' = Given(x)
<1>1. \A x : Uses(x)' = Uses(x)
  BY DEF Uses
<1>2. \A n : After(n)' = After(n)
  BY DEF After
<1>3. \A x : Given(x)' = Given(x)
  BY DEF Given, Uses, After
<1>4. \A x : Misused(x)' <=> Misused(x)
  BY <1>1, <1>3, Zenon DEF Misused, Accepts
<1> QED BY <1>3, <1>4, Zenon DEF Refused, Stray

(***************************************************************************)
(* The invariant holds.                                                    *)
(***************************************************************************)

LEMMA UnsetApart == Unset \notin Args /\ Unset \notin Seq(Tokens)
BY CommandLineConstants DEF Tokens

LEMMA InitInv == Init => Inv
<1> SUFFICES ASSUME Init PROVE Inv
  OBVIOUS
<1>1. World
  BY CommandLineConstants DEF Init, World, Tokens
<1>2. \A x : Seen(x) = {}
  BY <1>1 DEF Init, World, Seen, Uses
<1>3. DOMAIN matches = {}
  BY DEF Init
<1>4. Parsed
  BY <1>2, <1>3 DEF Init, Parsed, SeenOnce, SeenValues, OpenIsLast, OneValue, ValuesAccepted, FlagFirst
<1>5. phase = "args" /\ options = Unset
  BY DEF Init
<1> QED BY <1>1, <1>4, <1>5 DEF Inv, Reading

LEMMA ReadFlagInv == Inv /\ ReadFlag => Inv'
<1> SUFFICES ASSUME Inv, ReadFlag PROVE Inv'
  OBVIOUS
<1>1. World /\ Parsed /\ options = Unset /\ phase = "args"
  BY DEF Inv, ReadFlag, Reading
<1>2. PICK x \in Args : x = ArgOf(argv[at]) /\ Flag[x] = argv[at]
  BY ArgOfFlag DEF ReadFlag
<1>3. /\ at <= Len(argv) /\ argv[at] \in Flags
      /\ at' = at + 1 /\ argv' = argv /\ env' = env /\ options' = options
  BY DEF ReadFlag, world
<1>4. at' \in 1 .. Len(argv') + 1
  BY <1>1, <1>3 DEF World
<1>5. CASE Starved \/ Again(x)
  <2>1. Refused
    <3>1. CASE Starved
      BY <1>1, <1>3, <3>1, StarvedIsMisused, UnsetApart
    <3>2. CASE Again(x)
      <4>1. Seen(x) # {}
        BY <1>1, <3>2 DEF Again, Parsed, SeenOnce
      <4>2. PICK n \in Uses(x) : n < at
        BY <4>1 DEF Seen
      <4>3. at \in Uses(x) /\ at # n
        BY <1>1, <1>2, <1>3, <4>2 DEF Uses, World
      <4>4. Cardinality(Uses(x)) > 1
        BY <1>1, <4>3, UsedTwice
      <4> QED BY <4>4 DEF Refused, Misused
    <3> QED BY <1>5, <3>1, <3>2
  <2>2. Refused'
    BY <1>3, <2>1, GivenStays
  <2>3. phase' = "usage"
    BY <1>2, <1>5 DEF ReadFlag, Usage
  <2>4. World'
    BY <1>1, <1>3, <1>4, <2>3 DEF World
  <2> QED BY <1>1, <1>3, <2>2, <2>3, <2>4 DEF Inv, Reading
<1>6. CASE ~(Starved \/ Again(x))
  <2>1. /\ open' = x /\ phase' = "args"
        /\ matches' = [y \in DOMAIN matches \cup {x} |-> IF y = x THEN <<>> ELSE matches[y]]
    BY <1>1, <1>2, <1>6 DEF ReadFlag
  <2>2. Parsed'
    BY <1>1, <1>2, <1>3, <1>6, <2>1, FlagIsRead, UnsetApart DEF Again
  <2>3. World'
    BY <1>1, <1>3, <1>4, <2>1 DEF World
  <2> QED BY <1>1, <1>3, <2>1, <2>2, <2>3 DEF Inv, Reading
<1> QED BY <1>5, <1>6

LEMMA ReadValueInv == Inv /\ ReadValue => Inv'
<1> SUFFICES ASSUME Inv, ReadValue PROVE Inv'
  OBVIOUS
<1>1. World /\ Parsed /\ options = Unset /\ phase = "args"
  BY DEF Inv, ReadValue, Reading
<1>2. /\ at <= Len(argv) /\ argv[at] \notin Flags
      /\ at' = at + 1 /\ argv' = argv /\ env' = env /\ options' = options
  BY DEF ReadValue, world
<1>3. at' \in 1 .. Len(argv') + 1
  BY <1>1, <1>2 DEF World
<1>4. CASE open = Unset \/ ~Accepts(open, argv[at])
  <2>1. Refused
    BY <1>1, <1>2, <1>4, StrayIsRefused, UnsetApart
  <2>2. Refused'
    BY <1>2, <2>1, GivenStays
  <2>3. phase' = "usage"
    <3> HIDE DEF Accepts
    <3> QED BY <1>4 DEF ReadValue, Usage
  <2>4. World'
    BY <1>1, <1>2, <1>3, <2>3 DEF World
  <2> QED BY <1>1, <1>2, <2>2, <2>3, <2>4 DEF Inv, Reading
<1>5. CASE ~(open = Unset \/ ~Accepts(open, argv[at]))
  <2>1. /\ matches' = [matches EXCEPT ![open] = Append(@, argv[at])]
        /\ open' = IF open \in Lists THEN open ELSE Unset
        /\ phase' = "args"
    BY <1>1, <1>5 DEF ReadValue
  <2>2. Parsed'
    BY <1>1, <1>2, <1>5, <2>1, ValueIsRead, UnsetApart
  <2>3. World'
    BY <1>1, <1>2, <1>3, <2>1 DEF World
  <2> QED BY <1>1, <1>2, <2>1, <2>2, <2>3 DEF Inv, Reading
<1> QED BY <1>4, <1>5

(* Nothing that Parsed speaks of changes.                                  *)
LEMMA ParsedStays ==
  ASSUME Parsed, argv' = argv, at' = at, open' = open, matches' = matches
  PROVE  Parsed'
<1>1. \A x : Seen(x)' = Seen(x)
  BY DEF Seen, Uses
<1>2. SeenOnce' /\ SeenValues'
  BY <1>1 DEF Parsed, SeenOnce, SeenValues, NoFlag, Between
<1>3. OpenIsLast'
  BY <1>1 DEF Parsed, OpenIsLast, NoFlag
<1>4. OneValue' /\ ValuesAccepted' /\ FlagFirst'
  BY DEF Parsed, OneValue, ValuesAccepted, FlagFirst
<1> QED BY <1>2, <1>3, <1>4 DEF Parsed

LEMMA EndOfArgumentsInv == Inv /\ EndOfArguments => Inv'
<1> SUFFICES ASSUME Inv, EndOfArguments PROVE Inv'
  OBVIOUS
<1>1. World /\ Parsed /\ options = Unset /\ phase = "args"
  BY DEF Inv, EndOfArguments, Reading
<1>2. /\ at = Len(argv) + 1 /\ at' = at /\ argv' = argv /\ env' = env /\ options' = options
      /\ open' = open /\ matches' = matches
  BY <1>1 DEF EndOfArguments, Usage, world, World
<1>3. CASE Starved
  <2>1. Refused'
    BY <1>1, <1>2, <1>3, StarvedIsMisused, UnsetApart, GivenStays
  <2>2. phase' = "usage"
    BY <1>3 DEF EndOfArguments, Usage
  <2> QED BY <1>1, <1>2, <2>1, <2>2 DEF Inv, World, Reading
<1>4. CASE ~Starved
  <2>1. phase' = "env"
    BY <1>4 DEF EndOfArguments
  <2>2. Parsed'
    BY <1>1, <1>2, ParsedStays
  <2>3. Complete'
    BY <1>2, <1>4 DEF Complete, Starved
  <2> QED BY <1>1, <1>2, <2>1, <2>2, <2>3 DEF Inv, World, Reading
<1> QED BY <1>3, <1>4

LEMMA ReadEnvInv == Inv /\ ReadEnv => Inv'
<1> SUFFICES ASSUME Inv, ReadEnv PROVE Inv'
  OBVIOUS
<1>1. World /\ Parsed /\ Complete /\ options = Unset /\ phase = "env"
  BY DEF Inv, ReadEnv, Reading
<1>2. at' = at /\ argv' = argv /\ env' = env /\ options' = options
  BY DEF ReadEnv, world
<1>3. Refused' = Refused /\ \A x : Given(x)' = Given(x)
  BY <1>2, GivenStays
<1>4. CASE \E x \in FromEnv : ~Accepts(x, env[x])
  <2>1. Refused
    BY <1>1, <1>4, EnvironmentRefused, UnsetApart
  <2>2. phase' = "usage"
    BY <1>4 DEF ReadEnv, Usage
  <2> QED BY <1>1, <1>2, <1>3, <2>1, <2>2 DEF Inv, World, Reading
<1>5. CASE \A x \in FromEnv : Accepts(x, env[x])
  <2>1. "9586" \in PortNumbers /\ "0.0.0.0" \in Addresses
    BY CommandLineConstants
  <2>2. /\ phase' = "options"
        /\ matches' = [x \in Args |-> IF x \in FromEnv THEN <<env[x]>>
                                      ELSE IF x \in DOMAIN matches THEN matches[x]
                                      ELSE Default[x]]
    BY <1>5 DEF ReadEnv
  <2>3. /\ matches' = [x \in Args |-> Given(x)]
        /\ \A x \in Singles : Given(x) = <<Given(x)[1]>>
        /\ ~Refused
    BY <1>1, <1>5, <2>1, <2>2, EnvironmentSettles, UnsetApart
  <2>4. Settled'
    BY <1>3, <2>3 DEF Settled
  <2> QED BY <1>1, <1>2, <2>2, <2>4 DEF Inv, World, Reading
<1> QED BY <1>4, <1>5

LEMMA MakeOptionsInv == Inv /\ MakeOptions => Inv'
<1> SUFFICES ASSUME Inv, MakeOptions PROVE Inv'
  OBVIOUS
<1>1. World /\ Settled
  BY DEF Inv, MakeOptions
<1>2. /\ at' = at /\ argv' = argv /\ env' = env /\ matches' = matches
      /\ options' = FromClaps /\ phase' = "bind"
  BY DEF MakeOptions, world
<1>3. Settled'
  BY <1>1, <1>2, GivenStays DEF Settled
<1>4. options' = FromClaps'
  BY <1>2 DEF FromClaps, GetOne
<1> QED BY <1>1, <1>2, <1>3, <1>4 DEF Inv, World, Reading

LEMMA BindInv == Inv /\ Bind => Inv'
<1> SUFFICES ASSUME Inv, Bind PROVE Inv'
  OBVIOUS
<1>1. World /\ Settled /\ options = FromClaps
  BY DEF Inv, Bind
<1>2. /\ at' = at /\ argv' = argv /\ env' = env /\ matches' = matches
      /\ sockets' = sockets /\ options' = options
      /\ phase' = IF <<GetOne("l"), GetOne("p")>> \in sockets THEN "failed" ELSE "serving"
  BY DEF Bind, world
<1>3. Settled'
  BY <1>1, <1>2, GivenStays DEF Settled
<1>4. options' = FromClaps'
  BY <1>1, <1>2 DEF FromClaps, GetOne
<1>5. GetOne("l")' = GetOne("l") /\ GetOne("p")' = GetOne("p")
  BY <1>2 DEF GetOne
<1> QED BY <1>1, <1>2, <1>3, <1>4, <1>5 DEF Inv, World, Reading

LEMMA StutterInv == Inv /\ UNCHANGED vars => Inv'
<1> SUFFICES ASSUME Inv, UNCHANGED vars PROVE Inv'
  OBVIOUS
<1>1. /\ at' = at /\ argv' = argv /\ env' = env /\ matches' = matches /\ open' = open
      /\ sockets' = sockets /\ options' = options /\ phase' = phase
  BY DEF vars
<1>2. Refused' = Refused /\ \A x : Given(x)' = Given(x)
  BY <1>1, GivenStays
<1>3. Parsed => Parsed'
  BY <1>1, ParsedStays
<1>4. (Settled => Settled') /\ (Complete => Complete')
  BY <1>1, <1>2 DEF Settled, Complete, Starved
<1>5. FromClaps' = FromClaps /\ GetOne("l")' = GetOne("l") /\ GetOne("p")' = GetOne("p")
  BY <1>1 DEF FromClaps, GetOne
<1> QED BY <1>1, <1>2, <1>3, <1>4, <1>5 DEF Inv, World, Reading

LEMMA InvHolds == Spec => []Inv
<1>1. Inv /\ [Next]_vars => Inv'
  BY ReadFlagInv, ReadValueInv, EndOfArgumentsInv, ReadEnvInv, MakeOptionsInv, BindInv,
     StutterInv DEF Next
<1> QED BY InitInv, <1>1, PTL DEF Spec

(***************************************************************************)
(* The theorems.                                                           *)
(***************************************************************************)

(* For every environment, set of bound sockets and command line whose      *)
(* arguments have values, the options and the address bound are those      *)
(* given, whatever the order of the flags (main.rs:111-215,                *)
(* options.rs:15-33).                                                      *)
THEOREM OptionsCorrect == Spec => []OptionsAsGiven
<1>1. Inv => OptionsAsGiven
  <2> SUFFICES ASSUME Inv, options # Unset PROVE OptionsAsGiven
    BY DEF OptionsAsGiven
  <2>1. Settled /\ options = FromClaps
    BY DEF Inv, World, Reading
  <2>2. /\ \A x \in Args : matches[x] = Given(x)
        /\ \A x \in Singles : Given(x) = <<Given(x)[1]>>
    BY <2>1 DEF Settled
  <2>3. \A x \in Singles : <<GetOne(x)>> = Given(x) /\ GetOne(x) = Given(x)[1]
    <3> TAKE x \in Singles
    <3>1. PICK w : w = Given(x)[1]
      OBVIOUS
    <3>2. Given(x) = <<w>> /\ matches[x] = <<w>>
      BY <2>2, <3>1 DEF Args
    <3>3. GetOne(x) = w
      BY <3>2 DEF GetOne
    <3> QED BY <3>1, <3>2, <3>3
  <2>4. /\ {"v", "a", "s", "r", "d", "l", "p"} \subseteq Singles
        /\ "n" \in Args /\ "i" \in Args
    BY DEF Singles, Switches, Args, Lists
  <2>5. phase = "serving" => <<Given("l")[1], Given("p")[1]>> \notin sockets
    BY <2>3, <2>4 DEF Inv
  <2> QED BY <2>1, <2>2, <2>3, <2>4, <2>5 DEF OptionsAsGiven, FromClaps
<1> QED BY InvHolds, <1>1, PTL

(* The process never ends in another way than StartsUnlessMisused says: it *)
(* refuses, fails to bind or serves exactly as the arguments as a whole    *)
(* call for (main.rs:111-226, server.rs:126). A switch without a value is  *)
(* a refusal here as in the code, which StartsUnlessMisused leaves open    *)
(* because README.md has it ignored. That the process does end is left to  *)
(* the liveness that TLC checks.                                           *)
THEOREM EndsCorrect ==
  Spec => [](phase \in {"usage", "failed", "serving"} => phase = Ending)
<1>1. Inv => (phase \in {"usage", "failed", "serving"} => phase = Ending)
  <2> SUFFICES ASSUME Inv, phase \in {"usage", "failed", "serving"} PROVE phase = Ending
    OBVIOUS
  <2>1. CASE phase = "usage"
    BY <2>1 DEF Inv, Ending
  <2>2. CASE phase \in {"failed", "serving"}
    <3>1. Settled
      BY <2>2 DEF Inv
    <3>2. \A x \in Singles : GetOne(x) = Given(x)[1]
      <4> TAKE x \in Singles
      <4>1. PICK w : w = Given(x)[1]
        OBVIOUS
      <4>2. matches[x] = <<w>>
        BY <3>1, <4>1 DEF Settled, Args
      <4> QED BY <4>1, <4>2 DEF GetOne
    <3>3. GetOne("l") = Given("l")[1] /\ GetOne("p") = Given("p")[1]
      BY <3>2 DEF Singles
    <3>4. Taken <=> phase = "failed"
      BY <2>2, <3>3 DEF Inv, Taken
    <3> QED BY <2>2, <3>1, <3>4 DEF Ending, Settled
  <2> QED BY <2>1, <2>2
<1> QED BY InvHolds, <1>1, PTL

================================================================================
