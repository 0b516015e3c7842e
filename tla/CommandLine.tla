------------------------------ MODULE CommandLine ------------------------------
(***************************************************************************)
(* From the arguments of the process to a bound socket: the arguments that *)
(* main declares (src/src/main.rs:111-193), read by clap (external), their *)
(* fallback to environment variables and defaults, Options::from_claps and *)
(* the start of the server. A token is a flag, "-" and the name of an      *)
(* argument, or a value.                                                   *)
(***************************************************************************)
EXTENDS Naturals, Sequences, FiniteSets, SequencesExt

CONSTANTS Values,        \* tokens that are no flags
          PortNumbers,   \* the values that are a u16
          Addresses,     \* the values that are an IP address
          ArgVectors,    \* command lines to consider
          Environments,  \* environment variables: by argument, a value or Unset
          Sockets,       \* pairs of address and port that are already bound
          Unset

Switches == {"v", "a", "s", "r", "d"}
Singles == Switches \cup {"l", "p"}
Lists == {"n", "i"}
Args == Singles \cup Lists

Flag == [v |-> "-v", a |-> "-a", s |-> "-s", r |-> "-r", d |-> "-d",
         l |-> "-l", p |-> "-p", n |-> "-n", i |-> "-i"]
Flags == {Flag[x] : x \in Args}
ArgOf(token) == CHOOSE x \in Args : Flag[x] = token

(* What the value parser of an argument accepts.                           *)
Accepts(x, value) ==
  CASE x \in Switches -> value \in {"true", "false"}
    [] x = "p" -> value \in PortNumbers
    [] x = "l" -> value \in Addresses
    [] OTHER -> TRUE
Default == [x \in Args |-> CASE x \in Switches -> <<"false">>
                             [] x = "p" -> <<"9586">>
                             [] x = "l" -> <<"0.0.0.0">>
                             [] OTHER -> Unset]

ASSUME CommandLineConstants ==
  /\ ArgVectors \subseteq Seq(Flags \cup Values)
  /\ Environments \subseteq [Args -> Values \cup {Unset}]
  /\ Values \cap Flags = {}
  /\ Unset \notin Args /\ Unset \notin Seq(Flags \cup Values)
  /\ "9586" \in PortNumbers /\ "0.0.0.0" \in Addresses

VARIABLES argv, env, sockets, \* the world the process is started in
          phase,     \* args, env, options, bind, serving, usage (exit 2) or failed (exit 1)
          at,        \* the next token
          open,      \* the argument that takes the next value, or Unset
          matches,   \* clap's matches: the values of the arguments seen
          options    \* the result of from_claps, or Unset
vars == <<argv, env, sockets, phase, at, open, matches, options>>
world == <<argv, env, sockets>>

Init ==
  /\ argv \in ArgVectors /\ env \in Environments /\ sockets \in Sockets
  /\ phase = "args" /\ at = 1 /\ open = Unset
  /\ matches = <<>> /\ options = Unset

Usage == phase' = "usage" /\ UNCHANGED <<open, matches>>
Starved == open \in Singles /\ matches[open] = <<>>

(***************************************************************************)
(* clap (external), with the settings main gives the arguments: the        *)
(* default action Set, num_args(0..) for lists, one value for the others.  *)
(***************************************************************************)

(* An argument that is set already may not come again.                     *)
Again_Overrides(x) == FALSE
Again(x) == x \in DOMAIN matches

ReadFlag ==
  /\ phase = "args" /\ at <= Len(argv) /\ argv[at] \in Flags
  /\ LET x == ArgOf(argv[at])
     IN  IF Starved \/ Again(x)
         THEN Usage
         ELSE /\ open' = x
              /\ matches' = [y \in DOMAIN matches \cup {x} |-> IF y = x THEN <<>> ELSE matches[y]]
              /\ UNCHANGED phase
  /\ at' = at + 1
  /\ UNCHANGED <<world, options>>

(* A list takes every value up to the next flag, the others take one;      *)
(* there are no positional arguments.                                      *)
ReadValue ==
  /\ phase = "args" /\ at <= Len(argv) /\ argv[at] \notin Flags
  /\ IF open = Unset \/ ~Accepts(open, argv[at])
     THEN Usage
     ELSE /\ matches' = [matches EXCEPT ![open] = Append(@, argv[at])]
          /\ open' = IF open \in Lists THEN open ELSE Unset
          /\ UNCHANGED phase
  /\ at' = at + 1
  /\ UNCHANGED <<world, options>>

EndOfArguments ==
  /\ phase = "args" /\ at > Len(argv)
  /\ IF Starved THEN Usage ELSE phase' = "env" /\ UNCHANGED <<open, matches>>
  /\ UNCHANGED <<world, at, options>>

(* A variable is read only for an argument that was not on the command     *)
(* line, as a single value; then come the defaults.                        *)
FromEnv_First == {x \in Args : env[x] # Unset}
FromEnv == {x \in Args \ DOMAIN matches : env[x] # Unset}
ReadEnv ==
  /\ phase = "env"
  /\ IF \E x \in FromEnv : ~Accepts(x, env[x])
     THEN Usage
     ELSE /\ matches' = [x \in Args |-> IF x \in FromEnv THEN <<env[x]>>
                                        ELSE IF x \in DOMAIN matches THEN matches[x]
                                        ELSE Default[x]]
          /\ phase' = "options"
          /\ UNCHANGED open
  /\ UNCHANGED <<world, at, options>>

(***************************************************************************)
(* The exporter.                                                           *)
(***************************************************************************)
GetOne(x) == Head(matches[x])
FromClaps ==
  [verbose |-> GetOne("v"), prepend_sudo |-> GetOne("a"), separate_allowed_ips |-> GetOne("s"),
   export_remote_ip_and_port |-> GetOne("r"), export_latest_handshake_delay |-> GetOne("d"),
   extract_names_config_files |-> matches["n"], interfaces |-> matches["i"]]

MakeOptions ==
  /\ phase = "options"
  /\ phase' = "bind"
  /\ options' = FromClaps
  /\ UNCHANGED <<world, at, open, matches>>

Bind ==
  /\ phase = "bind"
  /\ phase' = IF <<GetOne("l"), GetOne("p")>> \in sockets THEN "failed" ELSE "serving"
  /\ UNCHANGED <<world, at, open, matches, options>>

Next == ReadFlag \/ ReadValue \/ EndOfArguments \/ ReadEnv \/ MakeOptions \/ Bind
Spec == Init /\ [][Next]_vars
FairSpec == Spec /\ WF_vars(Next)

(***************************************************************************)
(* What the process makes of its arguments, from the arguments as a whole. *)
(***************************************************************************)
Uses(x) == {n \in DOMAIN argv : argv[n] = Flag[x]}
(* The values after the flag at position n, up to the next flag.           *)
After(n) == LET ends == {m \in n + 1 .. Len(argv) : argv[m] \in Flags} \cup {Len(argv) + 1}
                end == CHOOSE m \in ends : \A k \in ends : m <= k
            IN  SubSeq(argv, n + 1, end - 1)

Given(x) == IF Uses(x) # {} THEN After(CHOOSE n \in Uses(x) : TRUE)
            ELSE IF env[x] # Unset THEN <<env[x]>> ELSE Default[x]

(* Why the process refuses its command line. README.md has a list given    *)
(* twice accepted, which RepeatsAccepted refutes, and an argument without  *)
(* a value pass for one that is absent, which Valued sets apart.           *)
Misused(x) ==
  \/ Cardinality(Uses(x)) > 1
  \/ x \in Singles /\ Len(Given(x)) # 1
  \/ Given(x) # Unset /\ \E n \in DOMAIN Given(x) : ~Accepts(x, Given(x)[n])
Stray == argv # <<>> /\ argv[1] \notin Flags

(* No argument is given without a value: the command lines on which        *)
(* README.md and clap agree what is given.                                 *)
Valued == \A x \in Args : \A n \in Uses(x) : After(n) # <<>>

(***************************************************************************)
(* Properties.                                                             *)
(***************************************************************************)

(* OptionsAsGiven: when every argument used has a value, the options, and  *)
(* the address bound, are those of the command line, else of the           *)
(* environment variable, else the default, for every argument and in any   *)
(* order of the flags (main.rs:111-215, options.rs:15-33).                 *)
OptionsAsGiven ==
  options # Unset /\ Valued =>
    /\ options.interfaces = Given("i") /\ options.extract_names_config_files = Given("n")
    /\ << <<options.verbose>>, <<options.prepend_sudo>> >> = <<Given("v"), Given("a")>>
    /\ <<options.separate_allowed_ips>> = Given("s")
    /\ <<options.export_remote_ip_and_port>> = Given("r")
    /\ <<options.export_latest_handshake_delay>> = Given("d")
    /\ phase = "serving" => <<Given("l")[1], Given("p")[1]>> \notin sockets

(* StartsUnlessMisused: when every argument used has a value, the process  *)
(* ends up serving, unless an argument is used twice, has a value too many *)
(* or one it does not accept, or the address is taken; and then it does    *)
(* not (main.rs:111-226, server.rs:126).                                   *)
Refused == Stray \/ \E x \in Args : Misused(x)
Taken == <<Given("l")[1], Given("p")[1]>> \in sockets
Ending == IF Refused THEN "usage" ELSE IF Taken THEN "failed" ELSE "serving"
StartsUnlessMisused == <>[](Valued => phase = Ending)

(***************************************************************************)
(* What README.md says and the code does not do.                           *)
(***************************************************************************)

(* RepeatsAccepted: "the exporter accepts multiple interfaces in the       *)
(* command line options. Just pass the -i parameter multiple times": the   *)
(* command line "-i wg0 -i wg1" is not refused.                            *)
RepeatsAccepted == argv = <<"-i", "wg0", "-i", "wg1">> => phase # "usage"
===============================================================================
