----------------------------- MODULE MCCommandLine -----------------------------
(***************************************************************************)
(* Every command line of at most four tokens for TLC, over a list, a       *)
(* switch and the port, with and without environment variables; flags of   *)
(* the other arguments differ only in the name.                            *)
(***************************************************************************)
EXTENDS CommandLine

SomeValues == {"wg0", "true", "maybe", "80"}
Ports == {"80", "9586"}
SomeAddresses == {"0.0.0.0", "10.0.0.1"}

Tokens == {"-i", "-n", "-a", "-p", "wg0", "true", "80"}
TokensUpTo4 == UNION {[1 .. n -> Tokens] : n \in 0 .. 4}

NoEnv == [x \in Args |-> Unset]
SomeEnvironments ==
  { NoEnv, [NoEnv EXCEPT !["i"] = "wg0"], [NoEnv EXCEPT !["a"] = "true", !["p"] = "80"],
    [NoEnv EXCEPT !["a"] = "maybe"] }

FreeOrTaken == { {}, { <<"0.0.0.0", "80">> } }
Free == {{}}

(* The command line of the disagreement with README.md.                    *)
TwoInterfaces == {<<"-i", "wg0", "-i", "wg1">>, <<"-i", "wg0", "wg1">>}
JustNoEnv == {NoEnv}
MoreValues == SomeValues \cup {"wg1"}
===============================================================================
