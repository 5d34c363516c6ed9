# westlake-harness: a TLA+ verification project

westlake-harness measures how well unmodified Android apps run on Westlake (an
Android runtime on OpenHarmony): a *device side* stages a corpus of apps, launches
each on a board and keeps the evidence of the launch, and a *harness side* scans the
apps and the provider's source, predicts what is missing, and scores the evidence.
The modules here model that code as it is under `src/`, TLC checks them on small
instances, and TLAPS proves for every instance each safety property that a passing run
checks. The liveness properties are model-checked only.

`PROJECT.json` holds the components, the runs, a mutant for every property, the
lines each definition models (`map`), the findings, the hazards and the theorems.

## 1. Inventory

| Component | State it keeps | Operations | What is hard | What makes it correct |
|---|---|---|---|---|
| Device round: `device/round.sh`, `device/prep_apps.py` | staged files per app, logs under the tag, `round-<tag>.log`, the batch in hand | take a batch, stage it, stage the next in the background, launch, delete, stop, resume | two processes over one directory tree, kill and resume, stale guard lines, disk limit | staging and deleting never meet a launch; nothing staged is skipped; the disk stays bounded; no captured evidence is lost or taken twice; a run ends |
| Launch and evidence: `device/launch.sh`, `device/run_apps.sh`, `device/config.sh` | board: processes by pid, stderr logs, dumps, maps, a screenshot; host: what is filed per app | clean, launch with retries, sample, snapshot, receive, pull, stop | unanswered commands, pids that repeat, crashes at any time, shared scratch files | what is filed under an app is of its own launch; nothing is deleted before it is kept |
| Shared Play services: `device/play/run_all.sh`, `shared_round.sh`, `start_play.sh` | the Play process and who watches it, `play.log`, `dead`, the round's process group | try, start, await, run the round, watch, kill, retry | five concurrent processes, group kills that miss one, stale files of earlier tries | one starter at a time; a round only beside its own Play process; a round the watcher killed is retried; the loop ends |
| Explorer: `device/explore.py` | what was tapped, gridded and scrolled; Backs in a row; the last screen | look, tap, scroll, grid, Back, start again, last check | the device changes between look and act; a process may die at any time; unanswered commands | Back comes after the grid; a death is noticed; an app that was left is brought back; tapping runs out |
| Probe suite: `probes/run_suite.py` | the probe's log as last read, its verdict, the results file by probe and commit | launch, poll, tap, read hilog, check exit, collect, merge | the probe writes and exits between commands, lost answers, a suite that is cut short | a pass was measured on that commit; a lost answer is no verdict; a cut suite changes nothing |
| Calibration flows: `probes/run_flows.py` | evidence files per step, predictions | steps, screenshots, recordings, checks, score | a transfer that returns before it ends, stale scratch files | a file is used only when whole; each prediction is scored against what happened |
| Reachability: `harness/westlake_gap/reach.py` | stage of each method, instantiated classes, virtual calls seen, components pending | reach, instantiate, start a component, enter a stage | order of the worklist, dispatch seen before or after instantiation | the result is closed, minimal and at the earliest stage |
| Lifecycle scoring: `lifecycle.py`, `evidence.py` | none of its own: a log, a dump, a hilog and a screenshot that come in over a launch | rung and blocker of the log, then nine kinds of evidence laid over it, comparison of two scores | sources that contradict one another; dumps of an earlier process with the same pid; stamps without a year, times without a day | the screen decides; a process's own dump is not explained away; the dump of another process counts for nothing; a death never reads as progress |
| Trace ledger: `trace.py`, `tracecmp.py`, `methodtrace.py` | watched contracts of the scans, events of a run | watchlist, parse, join, state of a contract, what a method trace ran | events without an envelope, of another app, of overloads | an event is joined to what it came from or to nothing |
| APK scanner and resolver: `scanner.py` | runtime index, registers of the walk, findings | index the boot class path, resolve a reference, walk a method, search back through arm64 code | classes in several jars, registers overwritten, instructions overlooked | a reference is missing only when the device lacks it; what is reported of a call is what it is passed |
| Native libraries: `native.py`, `nativeprov.py`, `nativeupcall.py`, `ndk.py`, `ohresolve.py` | symbols, needs, call graphs, registration tables | resolve imports twice over, by scan and by board; reach of a native method; upcalls | two resolvers with rules of their own; weak and versioned symbols; several ABIs | the resolvers agree; what binds is not absent |
| Gap map: `gapmap.py`, `contracts.py`, `services.py` | Westlake's tree (edited, committed), results of the probe suite, the map built last | some sixty row builders, each with the contract it looks for in the source; launch arguments; probe results, observed run, summary, backtest | names by SONAME in one step and by file in the next; results of another commit | what is routed is packaged and closed under its dependents; a measured row was measured on the map's commit |
| Facts, reports, corpus scripts, device helpers | none of their own | extract, format | parsing | out of scope: see section 7 |

How they interact. `run_all.sh` calls `shared_round.sh`, which runs `round.sh` in a
process group of its own beside a watcher; `round.sh` runs `prep_apps.py` (in the
background for the next batch) and `run_apps.sh` (in line), which runs `launch.sh`
per app. All of them talk to the board through `hdc`, each command under a timeout,
and to each other through files: the staging directories, the stderr logs (which
`round.sh` reads to resume), the last line of `round-<tag>.log`, `play.log` and
`dead`. `lifecycle.py` reads the evidence that was filed; `gapmap.py` reads the scan,
the reachability stages and the probe results.

## 2. Modules

| Module | Models | How state and actions correspond |
|---|---|---|
| `CaptureLedger` | the promise of the round: one app on the board at a time, none launched again once its evidence is kept, none lost | abstract: `Launch`, `Keep`, `GiveUp` |
| `Round` | `round.sh` with `prep_apps.py` beside it | `pc` is the driver's place in the loop, `queue`/`pcur` the stager's; `input` the files of each app, `captured` the non-empty stderr logs, `log` the lines the scripts grep for; one action per command line that changes any of them, `Kill` for a group kill, `Start` for a new or resumed run |
| `RoundProofs`, `SharedPlayProofs`, `EvidenceProofs`, `ExplorerProofs`, `ProbesProofs`, `ReachProofs` | theorems about the module of the name | section 6 |
| `HostProofs` | theorems about `Scoring` (with `Lifecycle`, `RunEvidence`) and `GapMap` (with `LoadRows`) | section 6 |
| `ScanProofs` | theorems about `Scan` (with `Libraries`), `DexWalk`, `Arm64` and `Trace` | section 6 |
| `SharedPlay` | the three scripts of `device/play`, with the round seen from outside | `pc` for `run_all.sh` and the `shared_round.sh` it is in, `starter` per try, `watcher` with its three steps at a death (the answer that was seen, the mark, the kill), `named` for the child in the launcher's log, which outlives a try, and `foreign` for a log that was not this try's own when `start_play.sh` read it; `orphan` has, for each try, whether its launcher was kept out of the killed group by `timeout` |
| `Evidence` | `launch.sh` and `run_apps.sh` over the launches of a tag | one action per board command; a file's content is the number of the launch it came from, so "whose evidence is this" is a comparison; a pulled log also says whether it is the whole of it, and the board keeps a picture (`shot`) until the next is taken |
| `Explorer` | `explore.py` on board and phone | one action per branch of the loop; the device (`Move`, `Die`) acts between a look and what is done about it, so `seen` and `at` may differ |
| `Probes` | `run_suite.py` | one action per board command of `run_probe`, the probe app as environment, `Merged` for the results file |
| `Reach` | `reach.py`: `Reachability` and `analyse` | `Process` is the loop body for one method, taken in any order; `EnterStart`, `EnterComponents`, `NoComponents` are the stages of `analyse`; the class hierarchy is a constant, the call graph (`build_graph`) one of a set |
| `RunEvidence` | `evidence.py` | a text is the sequence of the lines some reader looks for; one operator per reader: `Place`, `FaultFrames`, `OwnDump`'s `DumpPredates`, `HilogSignal`, ... |
| `Lifecycle` | `lifecycle.py`: `score`, `first_blocker`, `root_cause`, `screen_state`, `add_evidence`, `compare` | a score is a record; `AddEvidence` folds the `With...` steps in the order of the code |
| `Scoring` | one launch as its evidence comes in | `run` holds log, hilog, dump (`own` says whose) and screen; `FinalScore(run)` is what `score_paths` says of it at that point |
| `DexWalk` | `_inventory_instructions` and the detectors it calls | `walk` is what the scanner believes of the registers, `regs` what a device has in them: a finding holds both, said and passed |
| `Arm64` | the searches back from a call, the PLT and TLS readings | `code` grows an instruction at a time, as the scanner comes to it, and `held` by what a device has in its registers there, with second destinations (`also`), bases written back and atomics; at a lock the loop of `x0_address_before` is the actions `LookBack`, `Find` and `GiveUp` over `back`, its local variables; `passed` is what it found |
| `Libraries` | the records of ELF files and what is derived from them: the import resolutions of the scan and of the board, versions, NDK coverage, call graph, registration tables, component signatures, the capture of a run | operators over sets of libraries |
| `Scan` | the index of the boot class path, `RuntimeResolver`, the findings of `scan_apk`, native bindings and upcalls | `index` is built artifact by artifact; `follow` is the loop that follows the calls of a method within the packages of the framework (`Framework`), and `reached` what it ends with; then `app` is scanned: `search` is `_resolve`, with the classes it has `seen` and those it has still to look at (`above`, the stack of its calls), for one reference after another, `resolved` its answers; `Findings(app)` is the report once all are there |
| `Trace` | `trace.py` | `events` is the parsed trace of a run, each with what it really came from beside what its line names; watchlist, join and states are operators |
| `Executed` | `methodtrace.py`, `tracecmp.py`, `platformapi.py`, `report.py` | `samples` is what the trace recorded; `Touched`, `States`, `LevelVerdict`, `Gaps` are the readings |
| `Services` | `services.py` and the service rows | Android's fetchers and Westlake's provisions as records; `ServiceVerdict` is `service_map` |
| `ProviderFacts` | `contracts.py` and the shim's sources | a source tree is file to method to the words of its body; one operator per contract that is looked for |
| `FrameworkRows`, `NativeRows`, `LoadRows` | the row builders of `gapmap.py`: what Java, native code and the loader decide | an operator per builder, a set of rows each; `Ruled` is the usual form: asked for, answered or not |
| `GapMap` | `build_map` and what is laid over its rows | `Edit`, `Commit`, `Measure`, `Observe`, `Build` over the tree, the results and the map built last; a commit is a text, so that one may begin another, be empty, or begin with "dirty-" |

The gap map's chain is `Executed`, `Services`, `ProviderFacts` -> `FrameworkRows`
-> (with `Libraries`) `NativeRows` -> `LoadRows` -> `GapMap`, each extending the one
before as the builders use one another. `MCScan` puts `Scan`, `DexWalk`, `Arm64` and
`Trace` side by side; they share no state.

`MCRound`, `MCEvidence`, `MCExplorer`, `MCProbes`, `MCReach`, `MCScoring`, `MCScan` (with
`MCTrace`) and `MCGap` give the constants values that a configuration file cannot
write. `MCOffline` holds assumptions about the pure readings, each against a reference
definition over bounded inputs; TLC evaluates them when it starts the `scan` run.
`Round` implements `CaptureLedger` under a refinement mapping (`KeepsLedger`).

## 3. Runs

| Run | Shows |
|---|---|
| `round` | staging ahead and deleting never touch an app between its staging and its launch; a run that reaches its end has launched all it staged; a run ends as out of disk exactly if a launch of its own was refused; the disk holds the files of two batches at most; the ledger is implemented, kills included; a run that is started ends |
| `shared_play` | at most one starter; a round runs only beside the Play process of its own try, unless the launcher's log was a foreign one; a try whose round the watcher killed is repeated; `run_all.sh` ends |
| `evidence` | the log filed in a launch is of that launch, and so is the picture once the board holds one of it, the map with at most one lost command, the dump with none; the board's log is dropped only when text of it is filed, all of it if the pull was answered; nothing is left running while all commands are answered |
| `explorer` | Back is pressed over the screen of the look only after that screen's own grid, or after two Backs that led nowhere on another; restarts only when stuck; a death is reported; taps run out; an app that was left is brought back on the phone |
| `reach` | what a processed method needs is staged no later; dispatch is complete whichever comes first, call or instantiation; what is reached is exactly the closure, the components named on the way included; the analysis ends |
| `probes` | a pass in the results file was measured on its commit, by all its markers and contracts; no verdict from a lost answer; other results are kept; a suite ends |
| `scoring` | no app is drawing whose screenshot shows the host; a launch with its own dump is laid to a crash; a dump is taken for the process's own exactly if it is, over midnight; the dump of another process leaves the score as it is without one; a dump that comes in late never reads as progress |
| `scan` | what the walk says of a call is what the call is passed; an address found by searching back through instructions that write their destination alone is the one that is in the register; a reference to a method or a field is a finding exactly if the device lacks it; what a method is said to reach is native and of the framework; a native that a library binds is never absent; the two resolvers agree; an event is joined to what it came from or to nothing |
| `gap` | every launch target is a packaged file; what needs a routed library is routed with it, at any remove, where a name is of one library (`OneNameEach`); a row that is called measured was measured on the clean tree of the map's commit, or by a result whose recorded commit is but a beginning of it |

The assumptions of `MCOffline`, evaluated in the `scan` run: what `method_surface_reach`
gives a method is what runs from it, up to the budget, if every function has a caller
(`ReachIsWhatRuns`); the three readings of a string table (`OneReadingOfAName`); more
strings never demote a contained component (`ContainedStaysContained`); a capture
accounts for every registration (`CaptureAccountsForAll`); an unbound native is supplied
by no table (`UnboundIsUnsupplied`); contracts are counted once per package
(`GapsOfPackages`).

Three more runs check one statement each of the repository's own text and find it
violated by what the code does:

| Run | Statement | What happens |
|---|---|---|
| `shared_play_done` | `run_all.sh:2` "until the round finishes" | Play services does not start, no round runs, and the last line of the tag's log is an earlier `done` |
| `gap_routing` | `gapmap.py:1572` dependents "must route together" | an APK has two files of one SONAME, one of which needs a routed library; only the other is named. The same happens, without a run of its own, to a library that is needed by the name of its file where its SONAME is another; `OneNameEach` excludes both |
| `gap_launch` | `gapmap.py:4225` a runner "applies exactly these" | the remedy of `load:app-storage-exec` is one flag without a value; the arguments are folded as pairs and it falls out |

Other places where the code and its text part, seen while modelling; the models
follow the code, and no run is spent on them:

- `shared_round.sh:4-5` "a bad run is never counted": an app captured between the death
  of Play services and the watcher's next look is skipped by every later try.
- `run_apps.sh:64` "only a dump written since the launch counts": a dump filed in a
  launch that gave no log stays beside the log of the next launch.
- `start_play.sh:6` play.log says "child <pid> started": lines 13-16 ignore the exit code
  of `launch.sh` and take the child from the launcher's log, which the disk guard
  (`launch.sh:32-35`) leaves as an earlier start wrote it. `RoundOnThisPlay` sets those tries
  aside (`foreign`).
- `shared_round.sh:4-5` once more: line 26 kills the watcher when the round ends, be it between
  the board's answer that the child is gone and `touch dead` (22-23); the try counts as done.
- `run_apps.sh:91` the launch output is needed "until its log and screenshot are here": only the log
  is asked for (92), and a part of it that a timed-out pull left (59) is taken for it (61, 92);
  where the picture of a launch was not taken (54), the one an earlier launch left is filed.
- `scanner.py:511-513` None for a "write in between": bases that are written back, second
  registers of pair loads and results of atomics are such writes, and overlooked (521, 584,
  588). `ReportedRuns` sets them aside (`OnlyDestination`).
- `gapmap.py:1520` a result counts "only for the exact Westlake commit": lines 1526 and 1554
  match by prefix, both ways, so that a result with an empty commit (`run_suite.py:136` does
  not ask whether git failed) or an abbreviated one counts for every build it begins.
- `explore.py:16-17` denied views "are never tapped": the grid taps whatever lies there.
- `run_suite.py:52-53` "pass" once every marker has: not if the probe exits between the
  grep and the question whether it runs.
- `scanner.py:610-611` calls that "store the new thread's handle inside the object they
  hand the thread": for `pthread_create(&local, attr, start, NULL)` x0 is sp plus a
  constant and x3 a move of the zero register; both read as field 31, and the call is
  counted (line 604). Without the zero register in `Readable`, four instructions of
  `Arm64` show it.
- `reach.py:211` `parent` is "who first reached each method": entry points of later
  stages get the last method of the stage before.
- `gapmap.py:33-52`: rows of the categories `platform` and `runtime` are in no section of
  the Markdown, which goes by `CATEGORIES`.
- `gapmap.py:4429` "leans large, never small": a row of `native-symbols` is on the path by
  the libraries of its group; the `abi:` and weak rows name none and never are.
- `gapmap.py:1543`: the loop over probes takes no result `absent`, the one over contracts does.
- `nativeprov.py:324`: a function that nothing calls is folded into the one before it, so
  what a method reaches may be too much, though lines 338-345 call it a lower bound.

## 4. Bounds, and why they are enough

- `round`: four apps in batches of two (two full batches, so there is a next batch, a
  last batch, and each batch has an app before and after the one in hand), two runs
  of the tag (one to leave state, one to resume it), one kill at any point, every
  list of apps in `MCLists`. The proofs remove these bounds.
- `shared_play`: three tries and two deaths, so a death can hit a try that follows an
  aborted one and still leave a try; two apps, one before and one after a death. The
  launcher's log and `play.log` begin as an earlier run of the tag may have left them.
- `evidence`: two apps, two pids, three launches, two unanswered commands: the
  smallest instance in which a pid repeats both across apps and for one app, and in
  which two files can be left behind. In `FiledIsOwn` the map is claimed for one lost
  command, the dump for none, as is `NothingLeftRunning`: with more the code does not
  promise them.
- `explorer`: two screens, three views (one denied), one grid point, one unanswered
  command. `backs_here` stops at three, where the code treats all values alike.
- `probes`: two probes (one with two markers and a tap, one with a contract and a
  hilog check), two commits, two suites, two polls, one command lost or raising.
- `reach`: one hierarchy of four classes and a platform interface with a callback and
  a user-input callback, both of which a class of the app has; 324 graphs over it, chosen
  so that a call precedes and follows the instantiation it dispatches to, components name
  components, meta-data names a class, and code constructs a component itself, which is
  then not started again (`reach.py:353`).
- `scoring`: eight logs, one per way a log ends (nothing, drawing, each kind of blocker,
  a signal with and without a witness), a hilog of up to two lines that may come a day
  or a year late (a day of 20 units, a year of two days, so both turns are within
  reach), two dumps of which one has a wrong load base, four pairs of screenshots.
- `scan`: two registers and two strings for five instructions of Dalvik code; four
  instructions of arm64 code out of twenty (a pair load, two atomics and two accesses
  that write their base back among them), with a search window of three; two jars
  with a class in both, a cyclic interface, a native behind a wrapper, two methods that
  call each other, and a class outside the framework's packages that is called and calls;
  methods and fields that are declared, inherited, shadowed or missing; 128 apps of up to
  four libraries (plain, with a table, in a directory of another ABI, of another ABI), a
  board that has one import in another version and one in a backup copy alone; two events
  over portfolios of one app, two versions of it, or two apps.
- `gap`: five apps, chosen for what is shadowed, interposed or written at run time and
  for a dependent at one and at two removes; one of them makes every call that asks for a
  row. Two commits that begin alike and a tree that is no checkout, one edit, one contract and
  one probe, results with a whole, an empty or a hand-written abbreviated commit, one place for
  results (`MaxResults`: a result takes the place of the one before, so what is left over from
  another commit is there when it is the only one), one sample (`MaxSamples`). The proofs
  remove these bounds.

`CHECK_DEADLOCK FALSE` is set where the program stops for good: after the last run,
launch, suite, step, stage, event or screenshot.

## 5. Fairness

`Round`: weak fairness of the driver and of the stager, because every command of the
scripts is under a timeout; nobody must start or kill a run. `SharedPlay`: the same for
`run_all.sh`, the watcher and the round; none for the starters, Play services or the
orphans. `Explorer` and `Probes`: the loop of the script goes on, the device and the
probe need not do anything. In `Probes` the deadline is a number of polls.
`Reach`: one thread that works until there is no work. `Evidence`, `Scoring`,
`MCScan` and `MCGap` claim safety only: nothing in that code waits.

## 6. What is proved

`RoundProofs` proves, for every corpus, batch size, set of lists, number of runs and
number of kills (assumption `RoundAssumption`: the constants have their types and the
batch size is not zero):

- `RoundTypeOK`: type correctness;
- `RoundPreparedFilesAtLaunch`, `RoundNothingPreparedIsSkipped`, `RoundGuardDecides` (from
  `RoundStopsOnlyOnGuard` and `RoundGuardEndsRun`, its two directions) and
  `RoundFewAppsOnDisk`: the safety properties of the `round` run;
- `RoundKeepsLedger`: the round implements `CaptureLedger`.

None of these is inductive. The invariant `IInv` adds to `TypeOK`: `AppOnBoard` (there
is an app in hand exactly while its evidence is awaited), `StagerIdle` (an idle stager
holds nothing, and after the wait only the background stager runs), `StagerPlace` (the
stager works on the batch being awaited, afterwards only on the next slice of the
list), `BatchPlace` (the batch and what is left of the list are disjoint, and what is
to be launched is of the batch), `PreparedPlace` (what is staged and not launched has
its files, and staging does not come back to it), `PreparedCovered` (what is staged is
launched or still to be launched), `GuardPlace` (the guard line this run would read is
there exactly when this run was refused) and `NotYetCaptured` (nothing left to launch is
captured). The argument is one of place: the stager, the launcher and the cleaner each
stay within their slice of the list, and the slices are disjoint. Each part has one
lemma for the step, with one case per action that can disturb it.

`RoundFewAppsOnDisk` needs one more invariant, `DiskPlace`, on top of `IInv`: while no
run ended early, before its batch is deleted the apps with full files of a batch are
among those its deletion names, after it and until the next batch they are of the slice
staged ahead, and between runs there are none.

`SharedPlayProofs` proves, for every set of apps, number of tries and number of deaths
of Play services (assumption `SharedPlayAssumption`): `SharedPlayTypeOK`,
`SharedPlayOneStarter`, `SharedPlayRoundOnThisPlay` and `SharedPlayStoppedRoundIsRetried`,
the safety properties of the `shared_play` run. The type invariant alone is not
inductive (an app is captured only if the round is in one), nor are the others:
`StarterPlace` says which starters run at each point of a try; `PlayLogPlace` that, unless
the launcher's log is `foreign`, `play.log` names this try's child or none while the starter
is awaited, and the launcher's log names none while its probe runs; `RoundPlace` that round
and watcher run only while `shared_round.sh` waits for them; `MarkPlace` that the mark is
there from before the watcher kills the round until the try is over.

`ExplorerProofs` proves, for every set of screens and views, any grid and any number of
unanswered commands (assumption `ExplorerAssumption`): `ExplorerTypeOK`,
`ExplorerBackAfterGrid`, `ExplorerStartsAgainOnlyWhenStuck` and
`ExplorerDeathIsNoticed`, the safety properties of the `explorer` run. The invariant it
adds to `TypeOK`, `BacksPlace`, is about the count of Backs: it exceeds zero only after
the grid of the last screen was tapped point by point, and it never exceeds the Backs in
a row on that screen. So the grid is left out only after two Backs that led elsewhere,
and a count of three is three Backs on one screen.

`EvidenceProofs` proves, for every set of apps and pids and any number of launches and of
unanswered commands (assumption `EvidenceAssumption`): `EvidenceTypeOK`,
`EvidenceNothingLeftRunning`, `EvidenceFiledIsOwn` and `EvidenceNothingDroppedUnseen`. The
invariant adds to `TypeOK`: `Counted` (a launch in progress has a number), `MarkPlace`
(while every command is answered, the crash mark is of this launch), `ProcPlace` (then
the only process is the one the launcher named), `DumpPlace` (then a process crashes in
the launch it was started in) and `MapPlace`, which goes one unanswered command
further: a map that one lost command left behind is removed before the next is written.
`LogPlace` says that the log of the child in hand is of this launch, or dropped.

`ProbesProofs` proves, for every set of probes, markers, contracts and commits, and any
number of polls, suites and lost answers (assumption `ProbesAssumption`): `ProbesTypeOK`,
`ProbesPassIsEarned`, `ProbesFailIsTheProbes` and `ProbesKeepsOtherResults`. The last two
parts of its invariant are the properties themselves; they need `VerdictPlace` (there is
a verdict only when the loop is over), `PassPlace` (a pass was read from the log, which
still holds its markers) and `NewPlace` (what a suite has not merged yet was measured on
its commit, and between suites there is nothing).

`ReachProofs` proves, for every class hierarchy, every runtime
index, every set of call graphs and every order of the worklist (assumption
`ReachAssumption`): `ReachTypeOK`, `ReachNeedsNoLater`, `ReachDispatchIsComplete` and
`ReachReachIsExact`. The invariant: `StagePlace` (what waits is of the current stage, what
is reached of no later one), `SeenPlace` (the calls of processed methods were seen),
`NamedPlace`, `EntryPlace`, `LivePlace` and `CompPlace` (what has been read of meta-data,
entries, instantiations and components is started), with the two properties.
That nothing is reached without a reason is `ReachEveryClosedHolds`: at every step any
pair of sets that is closed wholly contains what is reached, what is live and what
waits, so at the end there is none smaller. `Reach` defines chains, supertypes and what
a component starts as least sets, the intersection of all closed ones: so the lemmas
about them (`ChainOfSuper`, `StartedLeast`, ...) go through without induction.

The first part of `HostProofs` proves, for any logs, dumps, lines and times (assumption
`ScoringAssumption`: a log is a sequence, a hilog starts in the order of its times, the
dumps are as the reader makes them): `ScoringTypeOK`, `ScoringScreenDecides`,
`ScoringOwnDumpIsNotExplainedAway`, `ScoringDeathIsItsOwn`,
`ScoringStaleDumpChangesNothing` and `ScoringDeathNeverReadsAsProgress`. The invariant is
small, `TypeOK` with the order of the hilog and `DumpPlace` (a dump is stamped after the
first line exactly if it is the process's own); the work is in the readings. Each
`With...` step of `AddEvidence` has a lemma of what it may change of a score, and the
properties follow by carrying them through the steps in the order of the code: what an
own dump settles, each later step leaves, and what asks for an own dump finds none in a
stale one. The stamps need `\div` and `%` by the lengths of a day and a year.

The second part of `HostProofs` proves, for any libraries of an APK and of the board, any
Westlake tree, any results and any recorded run (assumption `GapAssumption`: an APK
packages finitely many libraries, each at its place, and the document of results has a
last one): `GapTargetsArePackaged`, `GapRoutedTogether` and `GapMeasuredOnThisBuild`. The
invariant, `GapIInv`, has `TargetsArePackaged` and `RoutedTogether` as they are, and three
more. `ResultsPlace`: each result has a place in the document, and a row exactly if a contract
was measured; and one that begins with a whole commit was measured on its clean tree
(`MeasuredIs`: what the suite records of an edited tree begins with "dirty-", and no commit
does). `TreePlace`: a tree is at one of the commits, or no checkout. `MeasuredPlace`: a
measured row has a result for it whose commit begins the map's. Without the first a result
could give way to one of the same probe and commit for another row, and a row of an old map
would lose what it was measured by; with it the one that comes is of the same row. A commit
that begins the map's is the map's, or a strict beginning of it: so much `MeasuredOnThisBuild`
says (assumption `CommitAssumption`: commits are of one length). For the
routing, three facts carry the argument: arguments laid out in pairs are read back as the
same pairs (`ZippedArgs`, for any finite set of files); `Dependents` is the least set that
is closed under what needs it, so `packaged_dependents` of what is shadowed adds nothing
by SONAME that the shadow graph has not (`DependentsAreRouted`); and while a name is of one
library (`OneNameFile`), a step along SONAMEs is a step along files. The rows themselves,
some sixty builders, are needed for one thing only: the row that names the shadowed files
is among them whenever something is shadowed (`RoutedByIs`).

`ScanProofs` is in four parts, one for each place. For any code of a method
`ScanSaidIsPassed` rests on `WalkIInv`: what the walk has for a register, a string, a
class or what an outline returned, is what the device holds there. For any arm64 code,
PLT, relocations and search window (assumption `Arm64Assumption`: registers and constants
are registers and numbers) `ScanReportedRuns` says that what is read off the code is what
runs, where the instructions that the search looks at write the register of their
destination field and no other (`OnlyDestination`), whatever the rest of the code does.
For a mutex it rests on `CodeIInv`: at every point of the search back, whatever address
the register that is now looked for holds before the instruction it has come to, x0 holds
at the lock what `Address` makes of it, if the window is `Readable`; so a page address
found there settles x0, through moves, additions and a load from the GOT. The reading of a
thread's object and of a TLS slot rests on `RegisterStays`: what nothing between may
write, stays. The scanner overlooks the second register of a pair load, a base that is
written back and the result of an atomic, and takes the zero register for sp: the model
has all of them, and `Readable` sets such windows aside; section 3 says what the code then
does. For any boot class path, however jars shadow one another and interfaces refer to
each other, any app, any packages of the framework and any depth of at least two for the
calls that are followed (assumptions `RuntimeAssumption`: classes and their parents are
names; and `ScanAssumption`: the class of a reference is a type of its dex):
`ScanUnresolvedIsFound`. Its invariant, `ScanIInv`, holds the loops of the code.
`IndexPlace`: the index has the classes of the artifacts so far, each as the first of them
defines it. `FollowPlace`: behind the depth it has come to, all calls within the framework
have been seen, and nothing outside it. `SearchPlace`: no class that was seen has the
member, all its parents were seen or are to be looked at, and every set that is closed
under parents and holds the owner holds all of these. So a search that ends without an
answer has seen a closed set, and what it answers is in every such set: with what the
device looks through, the least of them (`Above`), that is the theorem, for cyclic
hierarchies too and without induction over paths. For any apps and any board (assumption
`ScanAssumption`: a library has its fields, and one that registers natives exports
`JNI_OnLoad`): `ScanBoundIsNotAbsent` and `ScanResolversAgree`, whose lemmas `ImportsGaps`
and `MissingGaps` say of each resolver, in one form, which symbols it misses. For any
portfolio of scans and any lines (assumption `TraceAssumption`: a native has symbols and a
contract, a probe a class and a caller): `ScanJoinedToItsOwn`, from `TraceIInv`, that
every event is of a call of an app of the portfolio and names nothing but it; that a class
load has its own site alone needs that the watched sites are finitely many, as the code
counts them.

The invariants were first checked by TLC, on the runs of the modules. Facts about a least
element (`LeastOfNat`, `LeastOf`) are proved from the library's well-founded sets, and an
induction over numbers as the search for a least counterexample.

Left to TLC: the liveness properties (`RunEnds`, `RunAllFinishes`, `TapsRunOut`,
`LeftAppIsBroughtBack`, `Terminates`, `SuiteEnds`) and everything else about `ENABLED`, as
the prover has no support for fairness; the assumptions of `MCOffline`, about folds and
recursive functions; and the violated statements of section 3. That each `choose` of the
explorer takes the topmost view and the nearest point is not claimed.

## 7. Not modelled, and why

- Contents: what an app prints, how logs are worded, screenshots as pictures, and
  the reports the tools write. A file's identity is modelled wherever a property
  is about it.
- `client.sh`, `score_play.py`, `compare_explore.py`, `prefetch_board.py`,
  `android_round.sh`, `screen_ok.py`, `harvest_manifest.py`: one command each, or a
  read-only table.
- The link gate of `launch.sh`, which waits before a command, and the library harvest of
  `run_apps.sh`, which copies files keyed by their content.
- `run_flows.py`: waits, screenshots and recordings of one app; what it scores against, and
  the launch arguments it applies, are in `GapMap`.
- Formats: dex, ELF, the binary manifest and the disassembler's text. The modules begin
  where these have been read into records (`DexWalk`, `Arm64`, `Libraries`, `Scan`); so do
  the regular expressions of `contracts.py` and `services.py`, of which the model keeps which
  words are looked for in which body.
- The lists of names (patterns, areas, engines, calls) are cut to a few members of each
  kind; the code that reads them is whole.
- `build_graph` and `export` of `reach.py`: reading dex files and writing tables.
- `aospbody.py`, `ohevents.py`, `deploy.py`, the corpus scripts: facts extracted from other
  trees; `cli.py`: the command line; every Markdown report.
- A kill in the middle of one write to a file: `run_suite.py:267` writes its document in one
  step of the model.
- What an earlier child of the same pid left in the probe's log or the hilog, which
  `run_suite.py` reads by pid (192, 206) and never clears.
- Records of libraries that could not be read or were too large (`scanner.py:1797-1826`): they
  have no symbols.
- The launcher left behind by a group kill goes on beside the next try (in
  `SharedPlay` as `orphan`): no property is claimed of what it then does, but that of a log it
  wrote into `RoundOnThisPlay` asks nothing.

## 8. Plan

Done: the device side, then scoring, scanner, native libraries, trace and gap map. Left:

1. `run_flows.py` as a module of steps, if more than its transfers is to be claimed.
