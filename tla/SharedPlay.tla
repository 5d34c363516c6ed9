----------------------------- MODULE SharedPlay -----------------------------
(***************************************************************************)
(* A round in which every app connects to one shared Play services         *)
(* process (device/play): run_all.sh tries shared_round.sh until the round *)
(* finishes; shared_round.sh starts Play services in a process of its own  *)
(* (start_play.sh), runs the round in a process group and a watcher beside *)
(* it; the watcher kills the group when the Play process is gone.  The     *)
(* round is module Round seen from outside: apps one by one, its log's     *)
(* last line, and the launcher, which timeout(1) puts in a process group   *)
(* of its own.  Play services may die at any time; any board command may   *)
(* go unanswered.  start_play.sh takes the child from the launcher's log,  *)
(* whatever the launcher's exit code is, and that log outlives a try.      *)
(***************************************************************************)
EXTENDS Integers, FiniteSets

CONSTANTS
  App,        \* the apps of the round
  NoApp,
  Tries,      \* TRIES (40 in the script)
  MaxDeaths   \* bound: how often Play services dies by itself

ASSUME SharedPlayAssumption ==
  /\ NoApp \notin App
  /\ Tries \in Nat \ {0}
  /\ MaxDeaths \in Nat

Try == 1 .. Tries

\* A Play child is named by the try that started it; 0 is one of an earlier run.
Child == 0 .. Tries
NoChild == -1
Absent  == -2

VARIABLES
  pc,        \* run_all.sh and the shared_round.sh it is in
  try,       \* the try it is in
  \* files
  named,     \* the child the launcher's log names, or NoChild
  playlog,   \* play.log: the child it says is started, NoChild ("no child") or Absent
  dead,      \* $PLAY_DIR/dead exists
  lastline,  \* the last line of round-<tag>.log: "done" or another
  captured,  \* apps with a stderr log under the tag
  \* processes
  starter,   \* [Try -> ...] the start_play.sh of each try
  alive,     \* the Play processes on the board
  child,     \* the Play child shared_round.sh watches
  watcher,   \* "off", "watch", or where it is at a death: "seen", "between"
  round,     \* "off", "idle" or "app": round.sh, between apps or in one
  todo,      \* the apps it has still to launch
  cur,       \* the app it is in
  orphan,    \* the tries whose launcher of Play services outlived its script
  deaths,
  \* history
  foreign,   \* the launcher's log was not this try's own when it was read
  stopped,   \* the watcher killed the round of this try
  ran        \* a round of this run_all.sh reached its end

vars == <<pc, try, named, playlog, dead, lastline, captured, starter, alive, child,
          watcher, round, todo, cur, orphan, deaths, foreign, stopped, ran>>

files   == <<named, playlog, dead, lastline, captured>>
rounds  == <<round, todo, cur>>
history == <<foreign, stopped, ran>>

Init ==
  /\ pc = "try" /\ try = 1
  /\ named \in {NoChild, 0} /\ playlog \in {Absent, NoChild, 0}
  /\ dead \in BOOLEAN /\ lastline \in {"other", "done"}
  /\ captured \in SUBSET App
  /\ starter = [t \in Try |-> "off"] /\ alive \in SUBSET {0} /\ child = NoChild
  /\ watcher = "off" /\ round = "off" /\ todo = {} /\ cur = NoApp /\ orphan = {}
  /\ deaths = 0 /\ foreign = FALSE /\ stopped = FALSE /\ ran = FALSE

\* kill_children: every Westlake process but the host app, unless the board
\* does not answer (then there is no uid to kill).
KillChildren == alive' \in {{}, alive}

-----------------------------------------------------------------------------
(* run_all.sh *)

\* pkill -P and kill of every start_play.sh: the scripts end; a probe one of them
\* was in runs under timeout(1) and goes on by itself.
StopStarters_None == UNCHANGED <<starter, orphan>>
StopStarters ==
  /\ starter' = [t \in Try |-> "off"]
  /\ orphan' = orphan \cup {t \in Try : starter[t] = "probe"}

BeginTry ==
  /\ pc = "try" /\ try <= Tries
  /\ StopStarters
  /\ KillChildren
  /\ pc' = "start"
  /\ UNCHANGED <<try, files, child, watcher, rounds, deaths, history>>

\* [ ! -e dead ] && tail -1 round-$TAG.log | grep "$TAG done"
RoundIsDone == ~dead /\ lastline = "done"

\* for i in $(seq 1 $TRIES)
IsLastTry == try = Tries

EndTry ==
  /\ pc = "ended"
  /\ IF RoundIsDone \/ IsLastTry
       THEN pc' = "finished" /\ UNCHANGED try
       ELSE pc' = "try" /\ try' = try + 1
  /\ UNCHANGED <<files, starter, alive, child, watcher, rounds, orphan, deaths,
                 history>>

-----------------------------------------------------------------------------
(* shared_round.sh *)

\* rm -f play.log before the starter runs, so that its "started" is not an old one.
OldPlayLog_Kept == playlog
OldPlayLog == Absent

StartPlay ==
  /\ pc = "start"
  /\ dead' = FALSE /\ playlog' = OldPlayLog
  /\ starter' = [starter EXCEPT ![try] = "prep"]
  /\ foreign' = FALSE /\ stopped' = FALSE
  /\ pc' = "await"
  /\ UNCHANGED <<try, named, lastline, captured, alive, child, watcher, rounds,
                 orphan, deaths, ran>>

\* Sixty looks at play.log, five seconds apart; without "started", exit 1.
GaveUpWaiting_OnlyNoChild == playlog = NoChild
GaveUpWaiting == playlog \notin Child

Abort ==
  /\ pc = "await" /\ GaveUpWaiting
  /\ pc' = "ended"
  /\ UNCHANGED <<try, files, starter, alive, child, watcher, rounds, orphan,
                 deaths, history>>

\* The child to watch is the one play.log names; round.sh and the watcher start.
BeginRound ==
  /\ pc = "await" /\ playlog \in Child
  /\ child' = playlog
  /\ round' = "idle" /\ todo' = App \ captured /\ lastline' = "other"
  /\ watcher' = "watch"
  /\ pc' = "round"
  /\ UNCHANGED <<try, named, playlog, dead, captured, starter, alive, cur, orphan,
                 deaths, history>>

\* wait $R; kill $W, wherever the watcher is; exit 2 if it left its mark; else
\* stop the starter that wrote play.pid, which is watching, and Play services.
RoundEnded ==
  /\ pc = "round" /\ round = "off"
  /\ watcher' = "off"
  /\ IF dead
       THEN UNCHANGED <<starter, alive>>
       ELSE /\ starter' = [t \in Try |-> IF starter[t] = "watch" THEN "off"
                                         ELSE starter[t]]
            /\ KillChildren
  /\ pc' = "ended"
  /\ UNCHANGED <<try, files, child, rounds, orphan, deaths, history>>

\* kill -- -$R: the whole process group of the round, if it still runs.
KillRound ==
  /\ round' = "off" /\ todo' = {} /\ cur' = NoApp
  /\ stopped' = (stopped \/ round # "off")

\* The watcher: the board answers that the child is gone; then touch dead; then
\* the kill.
SeeGone ==
  /\ watcher = "watch" /\ child \notin alive
  /\ watcher' = "seen"
  /\ UNCHANGED <<pc, try, files, starter, alive, child, rounds, orphan, deaths,
                 history>>

TouchFirst_Swapped == FALSE
TouchFirst == TRUE

MarkThenKill(first) ==
  IF first THEN dead' = TRUE /\ UNCHANGED <<rounds, stopped>>
           ELSE KillRound /\ UNCHANGED dead

MarkDeath ==
  /\ watcher = "seen"
  /\ watcher' = "between"
  /\ MarkThenKill(TouchFirst)
  /\ UNCHANGED <<pc, try, named, playlog, lastline, captured, starter, alive, child,
                 orphan, deaths, foreign, ran>>

StopRound ==
  /\ watcher = "between"
  /\ watcher' = "off"
  /\ MarkThenKill(~TouchFirst)
  /\ UNCHANGED <<pc, try, named, playlog, lastline, captured, starter, alive, child,
                 orphan, deaths, foreign, ran>>

-----------------------------------------------------------------------------
(* start_play.sh and the launch.sh it runs *)

Prepare(t) ==
  /\ starter[t] = "prep"
  /\ starter' = [starter EXCEPT ![t] = "launch"]
  /\ KillChildren
  /\ UNCHANGED <<pc, try, files, child, watcher, rounds, orphan, deaths, history>>

\* What start_play.sh makes of a child c: play.log and the watch, or the end.
Reported(t, c) ==
  /\ playlog' = c
  /\ starter' = [starter EXCEPT ![t] = IF c = NoChild THEN "off" ELSE "watch"]

\* The disk guard: exit 3 before the launcher's log is written anew, so the log
\* start_play.sh reads is that of an earlier start.
Refused(t) ==
  /\ starter[t] = "launch"
  /\ Reported(t, named)
  /\ foreign' = TRUE
  /\ UNCHANGED <<pc, try, named, dead, lastline, captured, alive, child, watcher,
                 rounds, orphan, deaths, stopped, ran>>

\* The probe begins: its output is the log, which the redirection empties.
Probe(t) ==
  /\ starter[t] = "launch"
  /\ starter' = [starter EXCEPT ![t] = "probe"]
  /\ named' = NoChild
  /\ UNCHANGED <<pc, try, playlog, dead, lastline, captured, alive, child, watcher,
                 rounds, orphan, deaths, history>>

\* The probe is over: its process may be on the board or gone again, and the log
\* names its child, or the one a launcher left over wrote there, or none.
Started(t) ==
  /\ starter[t] = "probe"
  /\ alive' \in {alive, alive \cup {t}}
  /\ named' \in {t, named}
  /\ Reported(t, named')
  /\ UNCHANGED <<pc, try, dead, lastline, captured, child, watcher, rounds,
                 orphan, deaths, history>>

\* Three looks in a row at a process that is gone, or its day is over.
StarterEnds(t) ==
  /\ starter[t] = "watch"
  /\ starter' = [starter EXCEPT ![t] = "off"]
  /\ UNCHANGED <<pc, try, files, alive, child, watcher, rounds, orphan, deaths,
                 history>>

-----------------------------------------------------------------------------
(* round.sh, from outside *)

LaunchApp ==
  /\ round = "idle"
  /\ \E a \in todo : cur' = a /\ todo' = todo \ {a}
  /\ round' = "app"
  /\ UNCHANGED <<pc, try, files, starter, alive, child, watcher, orphan, deaths,
                 history>>

CaptureApp ==
  /\ round = "app"
  /\ captured' \in {captured, captured \cup {cur}}
  /\ round' = "idle" /\ cur' = NoApp
  /\ UNCHANGED <<pc, try, named, playlog, dead, lastline, starter, alive, child,
                 watcher, todo, orphan, deaths, history>>

RoundDone ==
  /\ round = "idle" /\ todo = {}
  /\ round' = "off" /\ lastline' = "done" /\ ran' = TRUE
  /\ UNCHANGED <<pc, try, named, playlog, dead, captured, starter, alive, child,
                 watcher, todo, cur, orphan, deaths, foreign, stopped>>

\* The disk guard: exit 3.
RoundStops ==
  /\ round = "idle" /\ todo # {}
  /\ round' = "off" /\ todo' = {}
  /\ UNCHANGED <<pc, try, files, starter, alive, child, watcher, cur, orphan,
                 deaths, history>>

-----------------------------------------------------------------------------
(* The board *)

PlayDies ==
  /\ deaths < MaxDeaths
  /\ \E c \in alive : alive' = alive \ {c}
  /\ deaths' = deaths + 1
  /\ UNCHANGED <<pc, try, files, starter, child, watcher, rounds, orphan, history>>

\* A launcher nobody waits for ends: it may have started its process, and it
\* writes its child where the log of the next launch is by now.
OrphanEnds(t) ==
  /\ t \in orphan
  /\ orphan' = orphan \ {t}
  /\ alive' \in {alive, alive \cup {t}}
  /\ \/ UNCHANGED <<named, foreign>>
     \/ /\ named' = t
        /\ foreign' = (foreign \/ \E u \in Try : starter[u] = "probe")
  /\ UNCHANGED <<pc, try, playlog, dead, lastline, captured, starter, child, watcher,
                 rounds, deaths, stopped, ran>>

-----------------------------------------------------------------------------
RunAll  == BeginTry \/ EndTry \/ StartPlay \/ Abort \/ BeginRound \/ RoundEnded
Watcher == SeeGone \/ MarkDeath \/ StopRound
Starter == \E t \in Try :
  Prepare(t) \/ Refused(t) \/ Probe(t) \/ Started(t) \/ StarterEnds(t)
RoundStep == LaunchApp \/ CaptureApp \/ RoundDone \/ RoundStops
Orphan  == \E t \in Try : OrphanEnds(t)

Next == RunAll \/ Watcher \/ Starter \/ RoundStep \/ PlayDies \/ Orphan

\* The scripts' loops are bounded and every board command has a timeout.
Fairness == WF_vars(RunAll) /\ WF_vars(Watcher) /\ WF_vars(RoundStep)

Spec == Init /\ [][Next]_vars /\ Fairness

-----------------------------------------------------------------------------
(* Properties *)

TypeOK ==
  /\ pc \in {"try", "start", "await", "round", "ended", "finished"}
  /\ try \in Try
  /\ named \in Child \cup {NoChild}
  /\ playlog \in Child \cup {NoChild, Absent} /\ dead \in BOOLEAN
  /\ lastline \in {"other", "done"} /\ captured \in SUBSET App
  /\ starter \in [Try -> {"off", "prep", "launch", "probe", "watch"}]
  /\ alive \in SUBSET Child /\ child \in Child \cup {NoChild}
  /\ watcher \in {"off", "watch", "seen", "between"}
  /\ round \in {"off", "idle", "app"} /\ todo \in SUBSET App
  /\ cur \in App \cup {NoApp} /\ orphan \in SUBSET Try
  /\ deaths \in 0 .. MaxDeaths
  /\ foreign \in BOOLEAN /\ stopped \in BOOLEAN /\ ran \in BOOLEAN

\* Leftover starters are stopped before each try, so that two of them never
\* start, and kill, each other's Play services.
OneStarter == \A t, u \in Try : starter[t] # "off" /\ starter[u] # "off" => t = u

\* A round runs beside, and its watcher watches, the Play process this try
\* started, whatever play.log, launcher's log and processes the tries before it
\* left; except where the launcher's log was not this try's own: its launcher was
\* refused by the disk guard and left the old log, or one that outlived its
\* script wrote into the new one.
RoundOnThisPlay == round # "off" /\ ~foreign => child = try

\* A try whose round the watcher killed is never taken for the end of the round,
\* although shared_round.sh kills the watcher as soon as the round is over: the
\* mark is there before the kill.  (Of a death that was seen when the round had
\* just ended nothing is claimed.)
StoppedRoundIsRetried ==
  /\ pc = "ended" /\ stopped => dead
  /\ pc = "finished" /\ stopped => try = Tries

\* run_all.sh comes to its end, whatever Play services and the board do.
RunAllFinishes == <>(pc = "finished")

\* What run_all.sh says: tries until the round finishes.
TriesUntilRoundFinishes == pc = "finished" /\ try < Tries => ran
=============================================================================
