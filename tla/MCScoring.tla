----------------------------- MODULE MCScoring -----------------------------
(***************************************************************************)
(* Logs that stop on each rung, with and without a blocker; two app        *)
(* libraries in a dump's map; the two pages the host has shown.            *)
(***************************************************************************)
EXTENDS Scoring

Log(kinds) == [i \in DOMAIN kinds |-> [k |-> kinds[i], a |-> "app"]]
MCLogs == {Log(s) : s \in {
  <<>>, <<"init", "bound", "decor", "relayout">>,
  <<"init", "native", "bound", "uncaught", "service">>,
  <<"init", "bound", "decor", "held", "relayout", "swap">>,
  <<"decor", "relayout", "held", "native">>,
  <<"init", "bound", "bindfailed", "cause", "retold", "refused">>,
  <<"init", "bound", "decor", "relayout", "native", "fatal">>}} \cup
  {<<[k |-> "fatal", a |-> "app"], [k |-> "pc", a |-> 5],
     [k |-> "witness", a |-> [signal |-> 11, placed |-> Nothing, pc |-> 5]]>>}

Line(k, a, at) == [k |-> k, a |-> a, at |-> at]
MCStarts == {<<>>} \cup {<<Line("started", "app", at), Line("resumed", "A", at)>> : at \in {18, 35}}
  \cup {<<Line("started", "app", 9), Line("norequest", 1, 9), Line("norequest", 1, 9), Line("norequest", 1, 9)>>}
MCLines == {[k |-> "frame", a |-> "app"], [k |-> "timeout", a |-> "app"], [k |-> "passed", a |-> 11],
            [k |-> "finish", a |-> "A"], [k |-> "resumed", a |-> "B"]}

Map(lo, hi, file, off) == [lo |-> lo, hi |-> hi, file |-> file, off |-> off]
Frame(file, pc, sym) == [file |-> file, pc |-> pc, sym |-> sym]
\* The dumper read the load base of one of the libraries off by two.
MCDumps == {[signal |-> "SIGSEGV", pc |-> 5, written |-> 0,
             maps |-> <<Map(0, 4, "liba", 0), Map(4, 8, "libb", 2)>>,
             frames |-> <<Frame("liba", 5, "f"), Frame("musl", 1, "")>>],
            [signal |-> "SIGABRT", pc |-> 9, written |-> 0, maps |-> <<Map(0, 4, "liba", 0)>>,
             frames |-> <<Frame("none", 0, ""), Frame("liba", 1, "do_init_fini")>>]}

MCSampled == <<Map(0, 4, "liba", 0), Map(4, 8, "libb", 2)>>

Shot(grey, greyBand, black, blackBand) ==
  [grey |-> [average |-> grey, band |-> greyBand], black |-> [average |-> black, band |-> blackBand]]
Bare == Shot(0, FALSE, 3, TRUE)
Dark == Shot(3, TRUE, 1, FALSE)
MCShots == {<<Bare, Bare>>, <<Dark, Bare>>, <<Dark, Dark>>, <<Shot(1, TRUE, 3, TRUE), Bare>>}
MCThreads == {<<>>, <<<<[loop |-> TRUE, main |-> TRUE, tid1 |-> TRUE, waits |-> "poll"]>>>>}
=============================================================================
