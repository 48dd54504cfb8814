------------------------------ MODULE MCStartup ----------------------------
(* Startup for TLC: configuration files with every key right, wrong or     *)
(* missing, and up to two benchmarks, whose paths exist or do not.         *)
EXTENDS Startup

CONSTANTS MaxCmd   \* bound: length of a command

Cmds == UNION {[1..n -> {"c", Space}] : n \in 0..MaxCmd}
Benchmarks == [name : {"b"}, cmd : Cmds] \cup
              {[name |-> None, cmd |-> <<"c">>], [name |-> "b", cmd |-> None]}
BenchmarkLists == UNION {[1..n -> Benchmarks] : n \in 0..2}

MCPaths == {<<"c">>, <<"c", "c">>}

Ids == {"simple", "cpu-hopper", "pmc-sampler[linux]", "pmc-sampler[dummy]", "x", None}

(* Any combination of keys with a few benchmarks, and any benchmarks with  *)
(* the other keys right.                                                   *)
MCConfigs ==
  [manager : {"simple", "cpu-hopper", None}, monitor : Ids,
   sampling_length : {None, -Modulus, -1, 0, Modulus - 1, Modulus},
   event : {"linux", "dummy", "x", None},
   benchmarks : {None, <<>>, <<[name |-> "b", cmd |-> <<"c">>]>>}]
  \cup
  [manager : {"simple"}, monitor : {"simple"}, sampling_length : {1},
   event : {None}, benchmarks : BenchmarkLists]

=============================================================================
