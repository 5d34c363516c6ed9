------------------------------- MODULE Probes -------------------------------
(***************************************************************************)
(* The probe suite (probes/run_suite.py): each probe app is launched on    *)
(* the build under test, its log polled for its markers until it passes,   *)
(* fails, exits or the time is up, then it is killed; the results of a     *)
(* whole suite are merged into the results file, keyed by probe and        *)
(* Westlake commit.  The probe writes its log and its hilog, and exits,    *)
(* between any two commands of the suite; a command may go unanswered, or  *)
(* raise.  The wording of verdicts is left out.                            *)
(***************************************************************************)
EXTENDS Integers, FiniteSets

CONSTANTS
  Probe, Mark,
  Passing, Failing, \* [Probe -> the markers of a pass, all of them, and of a failure]
  TapMark,    \* [Probe -> the marker that says where to tap, if it has one]
  Contract,   \* contract lines, of any probe
  Prints,     \* [Probe -> the contracts it prints a line for]
  Hilogged,   \* probes whose hilog can fail them (fail_hilog)
  Commit,     \* westlake_commit: of a clean or a dirty tree
  Own,        \* the key of a probe's own result
  MaxPolls,   \* bound: polls until the deadline
  MaxSuites,  \* bound: suites run
  MaxDrops    \* bound: commands unanswered or raising

Outcome == {"none", "pass", "fail"}   \* truthfully absent counts as a pass
Key     == Probe \X (Contract \cup {Own})
Log     == [marks : SUBSET Mark, said : [Contract -> Outcome]]
NoLines == [marks |-> {}, said |-> [c \in Contract |-> "none"]]
Result  == {"none", "passed", "failed"}

ASSUME ProbesAssumption ==
  /\ Probe # {} /\ Commit # {}
  /\ Prints \in [Probe -> SUBSET Contract] /\ Own \notin Contract
  /\ {Passing, Failing, TapMark} \subseteq [Probe -> SUBSET Mark]
  /\ \A p \in Probe : Passing[p] # {}
  /\ Hilogged \subseteq Probe
  /\ MaxPolls \in Nat /\ MaxSuites \in Nat /\ MaxDrops \in Nat

VARIABLES
  pc,       \* where run_suite.py is; "off" between suites
  rest,     \* probes of this suite still to run
  cur,      \* the probe in progress, or the last one
  commit,   \* read once, before the first probe
  lines,    \* what the last grep of the log brought
  status,   \* pending, pass or fail
  tapped,   \* the tap was sent
  polls,
  new,      \* [Key -> Result] of this suite
  results,  \* [Key \X Commit -> Result] the results file
  log,      \* the child's log on the board
  fault,    \* its hilog holds a fail_hilog marker
  up,       \* the child runs
  suites, drops,
  \* history
  measured  \* probe and commit of each launch whose log had every pass marker

board == <<log, fault, up>>
polling == <<lines, status, tapped, polls>>
count == <<suites, drops>>
vars  == <<pc, rest, cur, commit, polling, new, results, board,
           count, measured>>

NoNew == [k \in Key |-> "none"]

Init ==
  /\ pc = "off" /\ rest = {} /\ cur = CHOOSE p \in Probe : TRUE
  /\ commit = CHOOSE c \in Commit : TRUE
  /\ lines = NoLines /\ status = "pending" /\ tapped = FALSE /\ polls = 0
  /\ new = NoNew /\ results = [r \in Key \X Commit |-> "none"]
  /\ log = NoLines /\ fault = FALSE /\ up = FALSE
  /\ suites = 0 /\ drops = 0 /\ measured = {}

Drop == drops < MaxDrops /\ drops' = drops + 1 /\ UNCHANGED suites

-----------------------------------------------------------------------------
(* The probe app, while it runs *)

LogMark(k) ==
  /\ up /\ k \in (Passing[cur] \cup Failing[cur] \cup TapMark[cur]) \ log.marks
  /\ log' = [log EXCEPT !.marks = @ \cup {k}]
  /\ UNCHANGED <<fault, up>>

Say(c, o) ==
  /\ up /\ c \in Prints[cur] /\ o # log.said[c] /\ o # "none"
  /\ log' = [log EXCEPT !.said[c] = o]
  /\ UNCHANGED <<fault, up>>

Fault ==
  /\ up /\ cur \in Hilogged /\ ~fault
  /\ fault' = TRUE /\ UNCHANGED <<log, up>>

Exit ==
  /\ up /\ up' = FALSE /\ UNCHANGED <<log, fault>>

App ==
  /\ \/ \E k \in Mark : LogMark(k)
     \/ \E c \in Contract, o \in Outcome : Say(c, o)
     \/ Fault \/ Exit
  /\ UNCHANGED <<pc, rest, cur, commit, polling, new, results, count, measured>>

-----------------------------------------------------------------------------
(* run_suite.py *)

\* The suite's order, whatever it is.
First(S) == CHOOSE p \in S : TRUE

Begin ==
  /\ pc = "off" /\ suites < MaxSuites /\ suites' = suites + 1
  /\ rest' \in SUBSET Probe \ {{}}
  /\ commit' \in Commit /\ pc' = "next"
  /\ UNCHANGED <<cur, polling, new, results, board, drops, measured>>

\* The APK is not built or not the pinned one, or the launch failed.
NotRun ==
  /\ pc = "next" /\ rest # {} /\ rest' = rest \ {First(rest)}
  /\ new' = [new EXCEPT ![<<First(rest), Own>>] = "failed"]
  /\ UNCHANGED <<pc, cur, commit, polling, results, board, count, measured>>

\* The locals of run_probe, and the log of a child whose pid no earlier one had.  (The
\* suite clears neither the log nor the hilog, which it reads by pid, run_suite.py:192
\* and 206: what an earlier child of the pid left there is not modelled.)
Fresh ==
  /\ lines' = NoLines /\ status' = "pending" /\ tapped' = FALSE /\ polls' = 0
  /\ log' = NoLines /\ fault' = FALSE

\* After the leftover launcher was killed.
Launch ==
  /\ pc = "next" /\ rest # {} /\ rest' = rest \ {First(rest)}
  /\ cur' = First(rest) /\ pc' = "poll" /\ up' = TRUE /\ Fresh
  /\ UNCHANGED <<commit, new, results, count, measured>>

Failed(l) == Failing[cur] \cap l.marks # {}

Evaluate_AnyMarker(l) ==
  IF Failed(l) THEN "fail" ELSE IF Passing[cur] \cap l.marks # {} THEN "pass" ELSE "pending"
Evaluate(l) ==
  IF Failed(l) THEN "fail" ELSE IF Passing[cur] \subseteq l.marks THEN "pass" ELSE "pending"

\* The tap is sent once, and the rest of the step is left for the next poll.
ToTap(l) == TapMark[cur] \cap l.marks # {} /\ ~tapped

\* One grep of the log for the markers; an unanswered one reads as no lines.
OutOfTime_AfterLine == polls >= MaxPolls /\ lines # NoLines
OutOfTime == polls >= MaxPolls

Poll ==
  /\ pc = "poll" /\ ~OutOfTime
  /\ polls' = IF polls < MaxPolls THEN polls + 1 ELSE polls
  /\ \/ lines' = log /\ UNCHANGED count
     \/ lines' = NoLines /\ Drop
  /\ IF ToTap(lines')
       THEN tapped' = TRUE /\ UNCHANGED <<pc, status>>
       ELSE /\ status' = Evaluate(lines')
            /\ pc' = IF status' = "pass" /\ cur \in Hilogged THEN "hilog"
                     ELSE IF status' = "pending" THEN "exited" ELSE "collect"
            /\ UNCHANGED tapped
  /\ UNCHANGED <<rest, cur, commit, new, results, board, measured>>

CheckHilog ==
  /\ pc = "hilog" /\ pc' = "collect"
  /\ \/ status' = (IF fault THEN "fail" ELSE status) /\ UNCHANGED count
     \/ Drop /\ UNCHANGED status
  /\ UNCHANGED <<rest, cur, commit, lines, tapped, polls, new, results, board, measured>>

\* The board is asked to say EXITED, so no answer is no exit.
NoAnswer_Exited == "fail"
NoAnswer == status

CheckExited ==
  /\ pc = "exited"
  /\ \/ status' = (IF up THEN status ELSE "fail") /\ UNCHANGED count
     \/ Drop /\ status' = NoAnswer
  /\ pc' = IF status' = "fail" THEN "collect" ELSE "poll"
  /\ UNCHANGED <<rest, cur, commit, lines, tapped, polls, new, results, board, measured>>

TimeUp ==
  /\ pc = "poll" /\ OutOfTime /\ pc' = "collect"
  /\ UNCHANGED <<rest, cur, commit, polling, new, results, board, count, measured>>

\* contract_results: a result for each contract with a line.  A row of an older probe
\* (row_results) is a contract whose fail line is a fail marker of the probe too.
ContractResult(o) ==
  CASE o = "none" -> "none" [] o = "fail" -> "failed" [] o = "pass" -> "passed"

OwnResult ==
  IF status = "pass" /\ \A c \in Contract : lines.said[c] # "fail" THEN "passed" ELSE "failed"

Collect ==
  /\ pc = "collect" /\ pc' = "next" /\ up' = FALSE /\ Fresh
  /\ new' = [k \in Key |-> IF k[1] # cur THEN new[k]
                           ELSE IF k[2] = Own THEN OwnResult
                           ELSE ContractResult(lines.said[k[2]])]
  /\ measured' = IF Passing[cur] \subseteq log.marks THEN measured \cup {<<cur, commit>>}
                 ELSE measured
  /\ UNCHANGED <<rest, cur, commit, results, count>>

\* Staging, or a command of the board, raises: the suite ends and nothing is
\* written.  A child the raise has left running writes a log nothing reads.
Raise ==
  /\ pc \in {"next", "poll", "hilog", "exited", "collect"} /\ Drop
  /\ up' = FALSE /\ Fresh
  /\ pc' = "off" /\ rest' = {} /\ new' = NoNew
  /\ UNCHANGED <<cur, commit, results, measured>>

\* merge_results, once, when every probe has run.
Merged_ByProbe ==
  [r \in Key \X Commit |-> IF new[r[1]] = "none" THEN results[r]
                           ELSE IF r[2] = commit THEN new[r[1]] ELSE "none"]
Merged ==
  [r \in Key \X Commit |-> IF r[2] = commit /\ new[r[1]] # "none" THEN new[r[1]]
                           ELSE results[r]]

Finish ==
  /\ pc = "next" /\ rest = {} /\ pc' = "off"
  /\ results' = Merged /\ new' = NoNew
  /\ UNCHANGED <<rest, cur, commit, polling, board, count, measured>>

RunSuite ==
  \/ NotRun \/ Launch \/ Poll \/ CheckHilog \/ CheckExited \/ TimeUp
  \/ Collect \/ Raise \/ Finish

Next == App \/ Begin \/ RunSuite

\* The suite goes on by itself; the probe need not do anything.
Spec == Init /\ [][Next]_vars /\ WF_vars(RunSuite)

-----------------------------------------------------------------------------
(* Properties *)

TypeOK ==
  /\ pc \in {"off", "next", "poll", "hilog", "exited", "collect"}
  /\ rest \in SUBSET Probe /\ cur \in Probe /\ commit \in Commit
  /\ lines \in Log /\ status \in {"pending", "pass", "fail"}
  /\ tapped \in BOOLEAN /\ polls \in 0 .. MaxPolls
  /\ new \in [Key -> Result] /\ results \in [Key \X Commit -> Result]
  /\ log \in Log /\ fault \in BOOLEAN /\ up \in BOOLEAN
  /\ suites \in 0 .. MaxSuites /\ drops \in 0 .. MaxDrops
  /\ measured \in SUBSET (Probe \X Commit)

\* A pass is earned: one in the results file was measured on that very commit, where
\* some launch of the probe printed every pass marker, and none stands beside a contract
\* of the probe that failed in the same suite.
PassIsEarned ==
  \A p \in Probe :
    /\ \A c \in Commit : results[<<p, Own>>, c] = "passed" => <<p, c>> \in measured
    /\ \A c \in Contract : new[<<p, Own>>] = "passed" => new[<<p, c>>] # "failed"

\* A lost answer is never a verdict: a probe that fails printed or logged a fault,
\* or is gone.
FailIsTheProbes ==
  pc = "collect" /\ status = "fail" => Failed(log) \/ fault \/ ~up

\* A suite changes results of its own commit alone, drops none, and one that was
\* cut short changes nothing.
KeepsOtherResults ==
  [][\A r \in Key \X Commit : results'[r] # results[r] =>
       r[2] = commit /\ results'[r] # "none" /\ rest = {} /\ pc' = "off"]_vars

\* Every suite that is begun ends, whatever the probes do.
SuiteEnds == pc # "off" ~> pc = "off"
=============================================================================
