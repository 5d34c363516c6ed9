------------------------------ MODULE Scoring ------------------------------
(***************************************************************************)
(* The evidence of one launch as it comes in, and what its score says of   *)
(* it.  The app's log is given; its hilog grows line by line while time    *)
(* passes, the crash dump found under its pid is its own or an earlier     *)
(* process's, and a screenshot ends the launch.                            *)
(***************************************************************************)
EXTENDS Lifecycle

CONSTANTS
  Logs,      \* the app's log
  Starts,    \* its hilog up to the activity's resume
  Lines,     \* the kinds of the lines after it
  MaxLines,  \* how many of them
  Dumps,     \* crash dumps, by what they say
  Shots,     \* screenshots of the run's apps, the app's own first
  Threads,   \* thread dumps in the log
  Sampled    \* the process map that was sampled

\* What the readers make of a dump.
Mapping == [lo : Int, hi : Int, file : STRING, off : Int]
StackFrame == [file : STRING, pc : Int, sym : STRING]
DumpRecord == [signal : STRING, pc : Int, written : Int, maps : Seq(Mapping), frames : Seq(StackFrame)]

ASSUME ScoringAssumption ==
  /\ Nothing \notin {"app", "partial", "host"} /\ Nothing \notin DumpRecord
  /\ Dumps \subseteq DumpRecord
  /\ \A log \in Logs : log \in Seq(Range(log))
  /\ \A hilog \in Starts :   \* lines in the order they were written
       /\ hilog \in Seq(Range(hilog)) /\ \A i \in DOMAIN hilog : hilog[i].at \in Int
       /\ \A i, j \in DOMAIN hilog : i <= j => hilog[i].at <= hilog[j].at
  /\ MaxLines \in Nat

VARIABLE run

Now == IF run.hilog = <<>> THEN 0 ELSE Last(run.hilog).at

Init == run \in [log : Logs, hilog : Starts, dump : {Nothing}, own : {FALSE},
                 screen : {Nothing}, threads : Threads, maps : {Sampled}, lines : {0}]

\* Time passes in steps shorter and longer than hilog_signal's two seconds.
Hilog == \E line \in Lines, later \in {0, 3} :
  /\ run.screen = Nothing /\ ~run.own
  /\ run.lines < MaxLines /\ run.hilog # <<>>
  /\ run' = [run EXCEPT !.lines = @ + 1,
                        !.hilog = Append(@, [k |-> line.k, a |-> line.a, at |-> Now + later])]

\* The process dies and OH writes its dump; it logs nothing more.
Crash == \E dump \in Dumps :
  /\ run.dump = Nothing /\ run.screen = Nothing /\ run.hilog # <<>>
  /\ run' = [run EXCEPT !.own = TRUE, !.dump = [dump EXCEPT !.written = Now]]

\* The dump of an earlier process with the pid, minutes old.
StaleDump == \E dump \in Dumps :
  /\ run.dump = Nothing /\ run.screen = Nothing /\ run.hilog # <<>>
  /\ run' = [run EXCEPT !.dump = [dump EXCEPT !.written = run.hilog[1].at - 7]]

Screenshot == \E shots \in Shots :
  /\ run.screen = Nothing
  /\ run' = [run EXCEPT !.screen = ScreenState(shots[1], RunPages(shots))]

Next == Hilog \/ Crash \/ StaleDump \/ Screenshot
Spec == Init /\ [][Next]_run

-----------------------------------------------------------------------------
Scoreable == run.screen # Nothing
Outcome == FinalScore(run)
SameYear == run.dump.written \div (Year * Day) = run.hilog[1].at \div (Year * Day)

\* The screenshot decides: no app is drawing whose screenshot shows the bare host,
\* whatever its log and its hilog reported, and only a drawing app may have a blocker
\* that does not block (lifecycle.py:314-323, 468-471, 479).
ScreenDecides ==
  Scoreable => /\ Outcome.rung = Drawing => run.screen # "host"
               /\ ~Outcome.blocking => Outcome.rung = Drawing

\* A launch that left its own crash dump is laid to a crash or to what its log names,
\* never to a reading that explains a live process: a stall, no frame, refused buffers,
\* a lookup, its own finish (lifecycle.py:351-358, 448).  Apart from the turn of the
\* year, where the stamp of its dump is before that of its first line.
OwnDumpIsNotExplainedAway ==
  (Scoreable /\ run.own /\ SameYear) =>
    /\ Outcome.fatal > 0
    /\ Outcome.category \in {Category[k] : k \in DOMAIN Category}

\* A dump is taken for the process's own exactly if it is, over midnight too, and a
\* signal is taken to have ended a process only if it logged for at most two seconds
\* more (evidence.py:269-279, 289-293).  Apart from the turn of the year and of the
\* day: the stamps have no year, and hilog_signal's times no day.
DeathIsItsOwn ==
  /\ (run.dump # Nothing /\ SameYear) => (OwnDump(run) <=> run.own)
  /\ (HilogSignal(run.hilog) # Nothing /\ Now \div Day = run.hilog[1].at \div Day) =>
       Now - run.hilog[HilogSignal(run.hilog).at].at <= 2

\* The dump of an earlier process with the pid leaves the score exactly what it is if no
\* dump was found: every reading that asks whether there is one, down to the signal in the
\* hilog and the app's own finish, asks after the dump was told to be another process's
\* (lifecycle.py:345-352, 415, 448).  Apart from the turn of the year, as above.
StaleDumpChangesNothing ==
  (Scoreable /\ run.dump # Nothing /\ ~run.own /\ SameYear) =>
    Outcome = FinalScore([run EXCEPT !.dump = Nothing])

\* A crash dump that comes in late never makes a launch look further along, and where
\* it is the first sign of a death, the launch does not read as unchanged either
\* (lifecycle.py:351-352, 517-520).
DeathNeverReadsAsProgress == \A dump \in Dumps :
  (run.dump = Nothing /\ run.hilog # <<>>) =>
    LET died == [run EXCEPT !.own = TRUE, !.dump = [dump EXCEPT !.written = run.hilog[1].at]]
        verdict == Verdict(Outcome, FinalScore(died))
    IN  /\ verdict # "advanced"
        /\ Outcome.fatal = 0 => verdict # "unchanged"
=============================================================================
