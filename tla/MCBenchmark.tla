---------------------------- MODULE MCBenchmark ------------------------------
(* Two regions' worth of keys, one with a bar in its name that falls on the *)
(* row of the other; figures are published from two stages on.              *)
EXTENDS Benchmark

MCKeys == {<<"north", "roof">>, <<"north", "roof", "tiles">>}

==============================================================================
