------------------------------- MODULE Round -------------------------------
(***************************************************************************)
(* A device round over the corpus (device/round.sh): apps in rank order,   *)
(* a few at a time, the next batch staged on the host (prep_apps.py, in    *)
(* the background) while run_apps.sh launches this one; the staged files   *)
(* are deleted after the batch, keeping app-input.json.  A launch may be   *)
(* refused by the disk guard, which ends the run; a run may be killed with *)
(* its whole process group at any point; running the round again resumes.  *)
(* What launch.sh and run_apps.sh do to one app is module Evidence; here   *)
(* a launch has a child or not, and its stderr log arrives or not.         *)
(***************************************************************************)
EXTENDS Integers, Sequences, FiniteSets

CONSTANTS
  N,           \* the corpus has N apps; an app is its rank, 1..N
  BatchSize,   \* apps staged and launched together (5 in the script)
  Missing,     \* apps marked missing in sources.csv
  Lists,       \* the package lists a run may be given (LIST, the rank range)
  Prefetch,    \* stage the next batch in the background (PREFETCH, default on)
  MaxRuns,     \* bound: times the round is started
  MaxStops     \* bound: kills, of all runs together

App == 1 .. N
NoApp == 0

ASSUME RoundAssumption ==
  /\ N \in Nat
  /\ BatchSize \in Nat \ {0}
  /\ Missing \subseteq App
  /\ Lists \subseteq SUBSET App
  /\ Prefetch \in BOOLEAN
  /\ MaxRuns \in Nat
  /\ MaxStops \in Nat

VARIABLES
  pc,        \* where round.sh is; "off" when no run is in progress
  todo,      \* apps of this run that no batch has taken yet
  batch,     \* the apps of the current batch
  keys,      \* those of them with an app-input.json: run_apps.sh's arguments
  left,      \* those of them run_apps.sh has not come to yet
  cur,       \* the app being launched, or NoApp
  child,     \* did the launcher report a child for it
  pf,        \* the staging of this batch was started in the background
  queue,     \* apps the running prep_apps.py has not come to yet
  pcur,      \* the app whose directory it has emptied and is filling, or NoApp
  prepping,  \* is a prep_apps.py running
  input,     \* [App -> ...] inputs/prep-hk-<app>: "none", "bare" or "full"
  captured,  \* apps with a non-empty stderr log under the tag
  log,       \* round-<tag>.log: the lines the scripts look for
  start,     \* this run's first line in it
  runs,      \* runs started so far
  kills,     \* kills so far
  \* history, read by no step of the round
  stopped,   \* some run ended early: a kill or the disk guard
  guarded,   \* the disk guard refused a launch in this run
  prepared,  \* apps prep_apps.py staged in this run
  tried      \* apps launched in this run

driver  == <<pc, todo, batch, keys, left, cur, child, pf>>
stager  == <<queue, pcur, prepping>>
disk    == <<input, captured, log, start>>
history == <<stopped, guarded, prepared, tried>>
vars == <<driver, stager, disk, runs, kills, history>>

Full == {a \in App : input[a] = "full"}

\* The first BatchSize apps of S in rank order: a slice of the todo array.
FirstBatch(S) ==
  {a \in S : Cardinality({b \in S : b < a}) < BatchSize}

IsFirst(a, S) == a \in S /\ \A b \in S : a <= b

\* The first line this run adds to the log, so that the guard line of the run
\* it resumes is not taken for its own.
FirstLine_Whole == 1
FirstLine == Len(log) + 1

\* tail -n +start round-<tag>.log | grep "disk guard stopped"
GuardLineSeen == \E i \in start .. Len(log) : log[i] = "guard"

\* A prefix of the corpus may have been staged and cleaned by earlier rounds
\* (of other tags): their app-input.json is still there.
Init ==
  /\ pc = "off" /\ todo = {} /\ batch = {} /\ keys = {} /\ left = {}
  /\ cur = NoApp /\ child = FALSE /\ pf = FALSE
  /\ queue = {} /\ pcur = NoApp /\ prepping = FALSE
  /\ input \in [App -> {"none", "bare"}]
  /\ captured = {} /\ log = <<>> /\ start = 1
  /\ runs = 0 /\ kills = 0
  /\ stopped = FALSE /\ guarded = FALSE /\ prepared = {} /\ tried = {}

-----------------------------------------------------------------------------
(* round.sh *)

\* What a run has to launch: of its list, not missing, not captured already.
Todo_NoResume(list) == {a \in list : a \notin Missing}
Todo(list) == {a \in list : a \notin Missing /\ a \notin captured}

Start(list) ==
  /\ pc = "off" /\ runs < MaxRuns
  /\ todo' = Todo(list)
  /\ start' = FirstLine
  /\ log' = Append(log, "open")
  /\ pf' = FALSE
  /\ pc' = "next"
  /\ runs' = runs + 1
  /\ guarded' = FALSE /\ prepared' = {} /\ tried' = {}
  /\ UNCHANGED <<batch, keys, left, cur, child, stager, input, captured, kills,
                 stopped>>

\* What is left of the array after the next batch, and the slice after this one.
Rest_SameSlice(S) == S
Rest(S) == S \ FirstBatch(S)

Ahead_SameSlice == FirstBatch(batch \cup todo)
Ahead == FirstBatch(todo)

\* Take the next batch; stage it now unless that was started beside the last one.
NextBatch ==
  /\ pc = "next" /\ todo # {}
  /\ batch' = FirstBatch(todo)
  /\ todo' = Rest(todo)
  /\ IF pf THEN UNCHANGED stager
           ELSE queue' = FirstBatch(todo) /\ prepping' = TRUE /\ UNCHANGED pcur
  /\ pc' = "wait"
  /\ UNCHANGED <<keys, left, cur, child, pf, disk, runs, kills, history>>

\* wait $pf, and the foreground prep_apps.py, end with the process.
StagerEnded_NoWait == TRUE
StagerEnded == ~prepping

\* Once this batch is staged: fork the staging of the next one, and list the
\* apps of this one to launch.
Fork ==
  /\ pc = "wait" /\ StagerEnded
  /\ pf' = (Prefetch /\ todo # {})
  /\ IF Prefetch /\ todo # {}
       THEN queue' = Ahead /\ prepping' = TRUE /\ UNCHANGED pcur
       ELSE UNCHANGED stager
  /\ keys' = {a \in batch : input[a] # "none"}
  /\ left' = {a \in batch : input[a] # "none"}
  /\ pc' = "launch"
  /\ UNCHANGED <<todo, batch, cur, child, disk, runs, kills, history>>

\* launch.sh on the next app: the launcher runs and reports a child, or none.
LaunchApp ==
  /\ pc = "launch" /\ left # {}
  /\ \E a \in left : IsFirst(a, left) /\ cur' = a /\ left' = left \ {a}
                     /\ tried' = tried \cup {a}
  /\ child' \in BOOLEAN
  /\ pc' = "capture"
  /\ UNCHANGED <<todo, batch, keys, pf, stager, disk, runs, kills,
                 stopped, guarded, prepared>>

\* launch.sh exits 3: run_apps.sh says so and leaves its loop.
DiskGuard ==
  /\ pc = "launch" /\ left # {}
  /\ log' = Append(log, "guard")
  /\ left' = {}
  /\ guarded' = TRUE
  /\ pc' = "launch"
  /\ UNCHANGED <<todo, batch, keys, cur, child, pf, stager, input, captured,
                 start, runs, kills, stopped, prepared, tried>>

\* run_apps.sh pulls the child's stderr log over the tag's copy, which holds
\* what arrived, perhaps nothing; without a child it writes no log.
Capture ==
  /\ pc = "capture"
  /\ IF child THEN captured' \in {captured \cup {cur}, captured \ {cur}}
              ELSE UNCHANGED captured
  /\ cur' = NoApp /\ child' = FALSE
  /\ pc' = "launch"
  /\ UNCHANGED <<todo, batch, keys, left, pf, stager, input, log, start, runs,
                 kills, history>>

\* Delete the batch's staged files, keeping app-input.json.
Cleaned_Kept(S) == input
Cleaned(S) == [a \in App |-> IF a \in S THEN "bare" ELSE input[a]]

Clean ==
  /\ pc = "launch" /\ left = {}
  /\ input' = Cleaned(keys)
  /\ pc' = "check"
  /\ UNCHANGED <<todo, batch, keys, left, cur, child, pf, stager, captured,
                 log, start, runs, kills, history>>

CheckGuard ==
  /\ pc = "check"
  /\ pc' = IF GuardLineSeen THEN "stop" ELSE "next"
  /\ UNCHANGED <<todo, batch, keys, left, cur, child, pf, stager, disk, runs,
                 kills, history>>

\* What every end of a run leaves of the driver's own variables.
Reset ==
  /\ pc' = "off"
  /\ todo' = {} /\ batch' = {} /\ keys' = {} /\ left' = {}
  /\ cur' = NoApp /\ child' = FALSE /\ pf' = FALSE

\* exit 3, after the staging in the background has ended.
GuardStop ==
  /\ pc = "stop" /\ StagerEnded
  /\ log' = Append(log, "stopping")
  /\ stopped' = TRUE
  /\ Reset
  /\ UNCHANGED <<stager, input, captured, start, runs, kills, guarded,
                 prepared, tried>>

Finish ==
  /\ pc = "next" /\ todo = {}
  /\ log' = Append(log, "done")
  /\ Reset
  /\ UNCHANGED <<stager, input, captured, start, runs, kills, history>>

\* The process group is killed: the scripts and prep_apps.py end where they are.
Kill ==
  /\ pc # "off" /\ kills < MaxStops
  /\ kills' = kills + 1
  /\ stopped' = TRUE
  /\ Reset
  /\ queue' = {} /\ pcur' = NoApp /\ prepping' = FALSE
  /\ UNCHANGED <<disk, runs, guarded, prepared, tried>>

-----------------------------------------------------------------------------
(* prep_apps.py *)

\* No download, no launch activity, certificates that differ, or pinned with
\* other bytes: said and skipped, before its directory is touched.
Refuse ==
  /\ prepping /\ pcur = NoApp
  /\ \E a \in queue : IsFirst(a, queue) /\ queue' = queue \ {a}
  /\ UNCHANGED <<driver, pcur, prepping, disk, runs, kills, history>>

\* The old directory is removed and prepare_app.py started.
Empty ==
  /\ prepping /\ pcur = NoApp
  /\ \E a \in queue : /\ IsFirst(a, queue)
                      /\ queue' = queue \ {a}
                      /\ pcur' = a
                      /\ input' = [input EXCEPT ![a] = "none"]
  /\ UNCHANGED <<driver, prepping, captured, log, start, runs, kills, history>>

\* prepare_app.py succeeds, or fails and leaves no app-input.json.
Prepare ==
  /\ pcur # NoApp
  /\ \/ /\ input' = [input EXCEPT ![pcur] = "full"]
        /\ prepared' = prepared \cup {pcur}
     \/ UNCHANGED <<input, prepared>>
  /\ pcur' = NoApp
  /\ UNCHANGED <<driver, queue, prepping, captured, log, start, runs, kills,
                 stopped, guarded, tried>>

\* An app it cannot read (no scan, a signature that does not verify) raises:
\* the process ends and the apps after it are not staged.
Raise ==
  /\ prepping /\ pcur = NoApp /\ queue # {}
  /\ queue' = {} /\ prepping' = FALSE
  /\ UNCHANGED <<driver, pcur, disk, runs, kills, history>>

PrepExit ==
  /\ prepping /\ pcur = NoApp /\ queue = {}
  /\ prepping' = FALSE
  /\ UNCHANGED <<driver, queue, pcur, disk, runs, kills, history>>

-----------------------------------------------------------------------------
DriverStep == NextBatch \/ Fork \/ LaunchApp \/ DiskGuard \/ Capture \/ Clean
              \/ CheckGuard \/ GuardStop \/ Finish
StagerStep == Refuse \/ Empty \/ Prepare \/ Raise \/ PrepExit

Next == (\E list \in Lists : Start(list)) \/ DriverStep \/ StagerStep \/ Kill

\* Every command of the scripts ends (the board's under a timeout), so a run
\* that is not killed goes on; nobody has to start or to kill one.
Fairness == WF_vars(DriverStep) /\ WF_vars(StagerStep)

Spec == Init /\ [][Next]_vars /\ Fairness

-----------------------------------------------------------------------------
(* Properties *)

LogLine == {"open", "guard", "stopping", "done"}

DriverType ==
  /\ pc \in {"off", "next", "wait", "launch", "capture", "check", "stop"}
  /\ todo \in SUBSET App /\ batch \in SUBSET App
  /\ keys \in SUBSET App /\ left \in SUBSET App
  /\ cur \in App \cup {NoApp} /\ child \in BOOLEAN /\ pf \in BOOLEAN

StagerType ==
  queue \in SUBSET App /\ pcur \in App \cup {NoApp} /\ prepping \in BOOLEAN

DiskType ==
  /\ input \in [App -> {"none", "bare", "full"}]
  /\ captured \in SUBSET App

LogType ==
  /\ log \in Seq(LogLine)
  /\ start \in Nat \ {0}

CountType == runs \in Nat /\ kills \in Nat

HistoryType ==
  /\ stopped \in BOOLEAN /\ guarded \in BOOLEAN
  /\ prepared \in SUBSET App /\ tried \in SUBSET App

TypeOK ==
  DriverType /\ StagerType /\ DiskType /\ LogType /\ CountType /\ HistoryType

\* The staging of the next batch and the deletion of the last one's files run
\* beside the launches and never touch an app between its staging and its
\* launch: an app prep_apps.py staged in this run is launched with its files.
PreparedFilesAtLaunch ==
  pc = "capture" /\ cur \in prepared => input[cur] = "full"

\* A run that gets to its end has launched every app it staged: the list of a
\* batch is taken only when the staging of that batch has ended.
NothingPreparedIsSkipped ==
  pc = "next" /\ todo = {} => prepared \subseteq tried

\* A run stops as out of disk only when the guard refused a launch in that
\* run: the guard line a resumed tag's log already holds does not stop it.
StopsOnlyOnGuard ==
  pc = "stop" => guarded

\* Once the guard refused one launch, the run launches nothing more.
GuardEndsRun ==
  [][guarded /\ runs' = runs => tried' = tried]_vars

\* The disk guard of this run, and nothing else, ends it as out of disk, and once it
\* refused one launch nothing more is launched.
GuardDecides ==
  [][/\ pc' = "stop" => guarded'
     /\ guarded /\ runs' = runs => tried' = tried]_vars

\* As long as no run ended early, the disk holds the files of two batches at
\* most, the one being launched and the one staged ahead, and of none after it.
FewAppsOnDisk ==
  ~stopped => Full \subseteq batch \cup FirstBatch(todo)

\* A run that is not killed ends: the driver waits for the staging, the
\* staging for nobody.
RunEnds == pc # "off" ~> pc = "off"

\* One app on the board at a time, none launched again once its evidence is
\* in hand, no evidence lost.
Ledger == INSTANCE CaptureLedger WITH got <- captured, board <- cur
KeepsLedger == Ledger!LedgerSpec
=============================================================================
