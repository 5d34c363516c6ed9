---------------------------- MODULE RoundProofs ----------------------------
(***************************************************************************)
(* Proofs about the device round, for every corpus, batch size, list and   *)
(* number of runs and kills.                                               *)
(***************************************************************************)
EXTENDS Round, TLAPS

-----------------------------------------------------------------------------
(* The inductive invariant, in named parts. *)

\* Apps the stager still has to handle or is handling.
Staging == (queue \cup {pcur}) \ {NoApp}

\* Where a run launches from: the batch being staged, or what run_apps.sh has left.
Pending == todo \cup left \cup (IF pc = "wait" THEN batch ELSE {})
                \cup (IF pc = "capture" THEN {cur} ELSE {})

AppOnBoard == cur # NoApp <=> pc = "capture"

StagerIdle ==
  /\ ~prepping => queue = {} /\ pcur = NoApp
  /\ pc = "off" => ~prepping
  /\ pc \notin {"off", "wait"} /\ prepping => pf
  /\ pc \notin {"off", "wait"} /\ pf => todo # {}

\* What the stager works on: this batch, or the next.
StagerPlace ==
  /\ pcur \notin queue
  /\ pc = "wait" => Staging \subseteq batch
  /\ pc \notin {"off", "wait"} => Staging \subseteq FirstBatch(todo)

BatchPlace ==
  /\ batch \cap todo = {}
  /\ pc \in {"launch", "capture", "check"} => keys \subseteq batch
  /\ left \subseteq keys
  /\ pc \in {"off", "next", "wait", "check", "stop"} => left = {}
  /\ pc = "off" => batch = {}
  /\ pc = "capture" => cur \in keys /\ cur \notin left

\* Each app is staged once in a run; while it waits for its launch, its files stay.
PreparedPlace ==
  pc # "off" =>
    /\ prepared \cap Staging = {}
    /\ pc = "wait" => prepared \cap todo = {}
    /\ ~pf => prepared \cap todo = {}
    /\ prepared \cap todo \subseteq FirstBatch(todo)
    /\ \A a \in prepared \cap Pending : input[a] = "full"

PreparedCovered ==
  /\ pc # "off" /\ ~guarded => prepared \subseteq tried \cup Pending
  /\ pc = "capture" => cur \in tried

GuardPlace ==
  pc # "off" =>
    /\ guarded <=> GuardLineSeen
    /\ start <= Len(log)
    /\ guarded => left = {} /\ pc \in {"launch", "check", "stop"}
    /\ pc = "stop" => guarded

\* Nothing a run has left to launch is captured.
NotYetCaptured == Pending \cap captured = {}

IInv ==
  /\ TypeOK
  /\ AppOnBoard
  /\ StagerIdle
  /\ StagerPlace
  /\ BatchPlace
  /\ PreparedPlace
  /\ PreparedCovered
  /\ GuardPlace
  /\ NotYetCaptured

-----------------------------------------------------------------------------
(* A slice of the todo array takes apps of the array. *)
LEMMA FirstBatchSubset == \A S : FirstBatch(S) \subseteq S
BY DEF FirstBatch

LEMMA NoAppIsNoApp == NoApp \notin App
BY RoundAssumption DEF App, NoApp

\* Every variable of the round keeps its type, whatever the interleaving of
\* the driver, the staging in the background and a kill.
LEMMA LogLines == {"open", "guard", "stopping", "done"} \subseteq LogLine
BY DEF LogLine

LEMMA LogGrows ==
  ASSUME NEW s \in Seq(LogLine), NEW l \in LogLine
  PROVE  /\ Append(s, l) \in Seq(LogLine)
         /\ Len(Append(s, l)) = Len(s) + 1
         /\ \A i \in 1 .. Len(s) : Append(s, l)[i] = s[i]
         /\ Append(s, l)[Len(s) + 1] = l
         /\ Len(s) \in Nat
OBVIOUS

\* TypeOK with the one fact it rests on: an app is on the board while
\* its evidence is being captured, and only then.
TypeInv == TypeOK /\ AppOnBoard

LEMMA LogTypeStep == TypeOK /\ [Next]_vars => LogType'
<1> SUFFICES ASSUME TypeOK, [Next]_vars PROVE LogType'
  OBVIOUS
<1>1. log' = log \/ \E l \in LogLine : log' = Append(log, l)
  BY LogLines DEF Next, DriverStep, StagerStep, vars, disk, Start, NextBatch, Fork,
     LaunchApp, DiskGuard, Capture, Clean, CheckGuard, GuardStop, Finish, Kill,
     Refuse, Empty, Prepare, Raise, PrepExit
<1>2. start' = start \/ start' = Len(log) + 1
  BY DEF Next, DriverStep, StagerStep, vars, disk, Start, NextBatch, Fork, FirstLine,
     LaunchApp, DiskGuard, Capture, Clean, CheckGuard, GuardStop, Finish, Kill,
     Refuse, Empty, Prepare, Raise, PrepExit
<1>3. log \in Seq(LogLine) /\ start \in Nat \ {0}
  BY DEF TypeOK, LogType
<1>4. log' \in Seq(LogLine)
  BY <1>1, <1>3, LogGrows
<1>5. start' \in Nat \ {0}
  BY <1>2, <1>3, LogGrows
<1>6. QED
  BY <1>4, <1>5 DEF LogType

LEMMA StagerTypeStep == TypeOK /\ [Next]_vars => StagerType'
BY FirstBatchSubset DEF TypeOK, DriverType, StagerType, Next, DriverStep, StagerStep,
   vars, stager, Start, NextBatch, Fork, Ahead, LaunchApp, DiskGuard, Capture, Clean,
   CheckGuard, GuardStop, Finish, Kill, Refuse, Empty, Prepare, Raise, PrepExit

LEMMA CountTypeStep == TypeOK /\ [Next]_vars => CountType'
BY DEF TypeOK, CountType, Next, DriverStep, StagerStep,
   vars, Start, NextBatch, Fork, LaunchApp, DiskGuard, Capture, Clean,
   CheckGuard, GuardStop, Finish, Kill, Refuse, Empty, Prepare, Raise, PrepExit

LEMMA HistoryTypeStep == TypeInv /\ [Next]_vars => HistoryType'
BY DEF TypeInv, TypeOK, DriverType, StagerType, HistoryType, Next, DriverStep,
   StagerStep, history,
   vars, Start, NextBatch, Fork, LaunchApp, DiskGuard, Capture, Clean,
   CheckGuard, GuardStop, Finish, Kill, Refuse, Empty, Prepare, Raise, PrepExit

LEMMA DiskTypeStep == TypeInv /\ [Next]_vars => DiskType'
BY DEF TypeInv, TypeOK, AppOnBoard, DriverType, StagerType, DiskType, Next,
   DriverStep, StagerStep, disk, Cleaned,
   vars, Start, NextBatch, Fork, LaunchApp, DiskGuard, Capture, Clean,
   CheckGuard, GuardStop, Finish, Kill, Refuse, Empty, Prepare, Raise, PrepExit

LEMMA DriverTypeStep == TypeOK /\ [Next]_vars => DriverType'
<1> SUFFICES ASSUME TypeOK, [Next]_vars PROVE DriverType'
  OBVIOUS
<1> USE FirstBatchSubset DEF TypeOK, DriverType
<1>1. CASE \E list \in Lists : Start(list)
  BY <1>1, RoundAssumption DEF Start, Todo
<1>2. CASE NextBatch
  BY <1>2 DEF NextBatch, Rest
<1>3. CASE Fork
  BY <1>3 DEF Fork
<1>4. CASE LaunchApp
  BY <1>4 DEF LaunchApp
<1>5. CASE DiskGuard
  BY <1>5 DEF DiskGuard
<1>6. CASE Capture
  BY <1>6 DEF Capture
<1>7. CASE Clean
  BY <1>7 DEF Clean
<1>8. CASE CheckGuard
  BY <1>8 DEF CheckGuard
<1>9. CASE GuardStop \/ Finish \/ Kill
  BY <1>9 DEF GuardStop, Finish, Kill, Reset
<1>10. CASE StagerStep
  BY <1>10 DEF StagerStep, Refuse, Empty, Prepare, Raise, PrepExit, driver
<1>11. CASE UNCHANGED vars
  BY <1>11 DEF vars, driver
<1>12. QED
  BY <1>1, <1>2, <1>3, <1>4, <1>5, <1>6, <1>7, <1>8, <1>9, <1>10, <1>11 DEF Next, DriverStep

LEMMA AppOnBoardStep == TypeInv /\ [Next]_vars => AppOnBoard'
BY NoAppIsNoApp DEF TypeInv, TypeOK, AppOnBoard, DriverType, Next, DriverStep, StagerStep, driver,
   Reset,
   vars, Start, NextBatch, Fork, LaunchApp, DiskGuard, Capture, Clean,
   CheckGuard, GuardStop, Finish, Kill, Refuse, Empty, Prepare, Raise, PrepExit

LEMMA TypeInvStep == TypeInv /\ [Next]_vars => TypeInv'
BY LogTypeStep, StagerTypeStep, CountTypeStep, HistoryTypeStep, DiskTypeStep,
   DriverTypeStep, AppOnBoardStep DEF TypeInv, TypeOK

LEMMA TypeInvInit == Init => TypeInv
<1> SUFFICES ASSUME Init PROVE TypeInv
  OBVIOUS
<1>1. DriverType
  BY DEF Init, DriverType
<1>2. StagerType
  BY DEF Init, StagerType
<1>3. DiskType
  BY DEF Init, DiskType
<1>4. LogType
  BY DEF Init, LogType
<1>5. CountType /\ HistoryType
  BY DEF Init, CountType, HistoryType
<1>6. AppOnBoard
  BY DEF Init, AppOnBoard
<1>7. QED
  BY <1>1, <1>2, <1>3, <1>4, <1>5, <1>6 DEF TypeInv, TypeOK

\* Every variable of the round keeps its type, whatever the interleaving of
\* the driver, the staging in the background and a kill.
THEOREM RoundTypeOK == Spec => []TypeOK
<1>1. Spec => []TypeInv
  BY TypeInvInit, TypeInvStep, PTL DEF Spec
<1>2. TypeInv => TypeOK
  BY DEF TypeInv
<1>3. QED
  BY <1>1, <1>2, PTL

-----------------------------------------------------------------------------
(* The parts of the inductive invariant are kept, one lemma each. *)

LEMMA StagerIdleStep == IInv /\ [Next]_vars => StagerIdle'
<1> SUFFICES ASSUME IInv, [Next]_vars PROVE StagerIdle'
  OBVIOUS
<1> USE DEF IInv, TypeOK, DriverType, StagerType, StagerIdle, driver, stager
<1>1. CASE \E list \in Lists : Start(list)
  BY <1>1 DEF Start, Todo, FirstLine
<1>2. CASE NextBatch
  BY <1>2 DEF NextBatch, Rest
<1>3. CASE Fork
  BY <1>3 DEF Fork, Ahead, StagerEnded
<1>4. CASE LaunchApp
  BY <1>4 DEF LaunchApp
<1>5. CASE DiskGuard
  BY <1>5 DEF DiskGuard
<1>6. CASE Capture
  BY <1>6 DEF Capture
<1>7. CASE Clean
  BY <1>7 DEF Clean, Cleaned
<1>8. CASE CheckGuard
  BY <1>8 DEF CheckGuard
<1>9. CASE GuardStop
  BY <1>9 DEF GuardStop, Reset, StagerEnded
<1>10. CASE Finish
  BY <1>10 DEF Finish, Reset
<1>11. CASE Kill
  BY <1>11 DEF Kill, Reset
<1>12. CASE Refuse
  BY <1>12 DEF Refuse
<1>13. CASE Empty
  BY <1>13 DEF Empty
<1>14. CASE Prepare
  BY <1>14 DEF Prepare
<1>15. CASE Raise
  BY <1>15 DEF Raise
<1>16. CASE PrepExit
  BY <1>16 DEF PrepExit
<1>17. CASE UNCHANGED vars
  BY <1>17 DEF vars
<1>18. QED
  BY <1>1, <1>2, <1>3, <1>4, <1>5, <1>6, <1>7, <1>8, <1>9, <1>10,
     <1>11, <1>12, <1>13, <1>14, <1>15, <1>16, <1>17
  DEF Next, DriverStep, StagerStep

LEMMA StagerPlaceStep == IInv /\ [Next]_vars => StagerPlace'
<1> SUFFICES ASSUME IInv, [Next]_vars PROVE StagerPlace'
  OBVIOUS
<1> USE NoAppIsNoApp DEF IInv, TypeOK, DriverType, StagerType, StagerIdle,
        StagerPlace, Staging, driver, stager
<1>1. CASE \E list \in Lists : Start(list)
  BY <1>1 DEF Start, Todo, FirstLine
<1>2. CASE NextBatch
  <2>1. CASE pf
    BY <1>2, <2>1 DEF NextBatch, Rest
  <2>2. CASE ~pf
    <3>1. pcur = NoApp /\ queue' = FirstBatch(todo) /\ pcur' = NoApp
      BY <1>2, <2>2 DEF NextBatch
    <3>2. Staging' \subseteq batch' /\ pc' = "wait"
      BY <1>2, <3>1 DEF NextBatch
    <3>3. pcur' \notin queue'
      BY <3>1, FirstBatchSubset
    <3>4. QED
      BY <3>2, <3>3
  <2>3. QED
    BY <2>1, <2>2
<1>3. CASE Fork
  <2>1. pcur = NoApp /\ queue = {} /\ pcur' = NoApp
    BY <1>3 DEF Fork, StagerEnded
  <2>2. queue' = {} \/ queue' = FirstBatch(todo')
    BY <1>3, <2>1 DEF Fork, Ahead
  <2>3. pcur' \notin queue'
    <3>1. FirstBatch(todo') \subseteq App
      BY <1>3, FirstBatchSubset DEF Fork
    <3>2. QED
      BY <2>1, <2>2, <3>1
  <2>4. pc' = "launch" /\ Staging' \subseteq FirstBatch(todo')
    BY <1>3, <2>1, <2>2 DEF Fork
  <2>5. QED
    BY <2>3, <2>4
<1>4. CASE LaunchApp
  BY <1>4 DEF LaunchApp
<1>5. CASE DiskGuard
  BY <1>5 DEF DiskGuard
<1>6. CASE Capture
  BY <1>6 DEF Capture
<1>7. CASE Clean
  BY <1>7 DEF Clean, Cleaned
<1>8. CASE CheckGuard
  BY <1>8 DEF CheckGuard
<1>9. CASE GuardStop
  BY <1>9 DEF GuardStop, Reset, StagerEnded
<1>10. CASE Finish
  BY <1>10 DEF Finish, Reset
<1>11. CASE Kill
  BY <1>11 DEF Kill, Reset
<1>12. CASE Refuse
  BY <1>12 DEF Refuse
<1>13. CASE Empty
  BY <1>13 DEF Empty
<1>14. CASE Prepare
  BY <1>14 DEF Prepare
<1>15. CASE Raise
  BY <1>15 DEF Raise
<1>16. CASE PrepExit
  BY <1>16 DEF PrepExit
<1>17. CASE UNCHANGED vars
  BY <1>17 DEF vars
<1>18. QED
  BY <1>1, <1>2, <1>3, <1>4, <1>5, <1>6, <1>7, <1>8, <1>9, <1>10,
     <1>11, <1>12, <1>13, <1>14, <1>15, <1>16, <1>17
  DEF Next, DriverStep, StagerStep

LEMMA BatchPlaceStep == IInv /\ [Next]_vars => BatchPlace'
<1> SUFFICES ASSUME IInv, [Next]_vars PROVE BatchPlace'
  OBVIOUS
<1> USE FirstBatchSubset, NoAppIsNoApp DEF IInv, TypeOK, DriverType, AppOnBoard,
        BatchPlace, driver
<1>1. CASE \E list \in Lists : Start(list)
  BY <1>1 DEF Start, Todo, FirstLine
<1>2. CASE NextBatch
  BY <1>2 DEF NextBatch, Rest
<1>3. CASE Fork
  BY <1>3 DEF Fork, Ahead, StagerEnded
<1>4. CASE LaunchApp
  BY <1>4 DEF LaunchApp
<1>5. CASE DiskGuard
  BY <1>5 DEF DiskGuard
<1>6. CASE Capture
  BY <1>6 DEF Capture
<1>7. CASE Clean
  BY <1>7 DEF Clean, Cleaned
<1>8. CASE CheckGuard
  BY <1>8 DEF CheckGuard
<1>9. CASE GuardStop
  BY <1>9 DEF GuardStop, Reset, StagerEnded
<1>10. CASE Finish
  BY <1>10 DEF Finish, Reset
<1>11. CASE Kill
  BY <1>11 DEF Kill, Reset
<1>12. CASE Refuse
  BY <1>12 DEF Refuse
<1>13. CASE Empty
  BY <1>13 DEF Empty
<1>14. CASE Prepare
  BY <1>14 DEF Prepare
<1>15. CASE Raise
  BY <1>15 DEF Raise
<1>16. CASE PrepExit
  BY <1>16 DEF PrepExit
<1>17. CASE UNCHANGED vars
  BY <1>17 DEF vars
<1>18. QED
  BY <1>1, <1>2, <1>3, <1>4, <1>5, <1>6, <1>7, <1>8, <1>9, <1>10,
     <1>11, <1>12, <1>13, <1>14, <1>15, <1>16, <1>17
  DEF Next, DriverStep, StagerStep

LEMMA GuardPlaceStep == IInv /\ [Next]_vars => GuardPlace'
BY LogGrows, LogLines DEF IInv, TypeOK, DriverType, LogType, 
   GuardPlace, GuardLineSeen, FirstLine, Next, DriverStep, StagerStep,
   driver, disk, history, Reset, vars, Start, NextBatch, Fork, LaunchApp, DiskGuard, Capture,
   Clean, CheckGuard, GuardStop, Finish, Kill, Refuse, Empty, Prepare, Raise,
   PrepExit

LEMMA NotYetCapturedStep == IInv /\ [Next]_vars => NotYetCaptured'
BY FirstBatchSubset, NoAppIsNoApp DEF IInv, TypeOK, DriverType, BatchPlace, Pending, AppOnBoard,
   NotYetCaptured, Todo, Rest, Next, DriverStep, StagerStep,
   driver, disk, Reset, vars, Start, NextBatch, Fork, LaunchApp, DiskGuard, Capture,
   Clean, CheckGuard, GuardStop, Finish, Kill, Refuse, Empty, Prepare, Raise,
   PrepExit

LEMMA PreparedPlaceStep == IInv /\ [Next]_vars => PreparedPlace'
<1> SUFFICES ASSUME IInv, [Next]_vars PROVE PreparedPlace'
  OBVIOUS
<1> USE FirstBatchSubset, NoAppIsNoApp DEF IInv, TypeOK, DriverType, StagerType,
        DiskType, HistoryType, AppOnBoard, StagerIdle, StagerPlace, BatchPlace,
        PreparedPlace, Staging, Pending, driver, stager, disk, history
<1>1. CASE \E list \in Lists : Start(list)
  BY <1>1 DEF Start, Todo, FirstLine
<1>2. CASE NextBatch
  BY <1>2 DEF NextBatch, Rest
<1>3. CASE Fork
  BY <1>3 DEF Fork, Ahead, StagerEnded
<1>4. CASE LaunchApp
  BY <1>4 DEF LaunchApp
<1>5. CASE DiskGuard
  BY <1>5 DEF DiskGuard
<1>6. CASE Capture
  BY <1>6 DEF Capture
<1>7. CASE Clean
  BY <1>7 DEF Clean, Cleaned
<1>8. CASE CheckGuard
  BY <1>8 DEF CheckGuard
<1>9. CASE GuardStop
  BY <1>9 DEF GuardStop, Reset, StagerEnded
<1>10. CASE Finish
  BY <1>10 DEF Finish, Reset
<1>11. CASE Kill
  BY <1>11 DEF Kill, Reset
<1>12. CASE Refuse
  BY <1>12 DEF Refuse
<1>13. CASE Empty
  BY <1>13 DEF Empty
<1>14. CASE Prepare
  <2>1. pcur \in App /\ pcur \in Staging
    BY <1>14 DEF Prepare
  <2>2. Staging' \subseteq Staging \ {pcur} /\ Pending' = Pending
    BY <1>14 DEF Prepare
  <2>3. CASE UNCHANGED <<input, prepared>>
    BY <1>14, <2>2, <2>3 DEF Prepare
  <2>4. CASE input' = [input EXCEPT ![pcur] = "full"] /\ prepared' = prepared \cup {pcur}
    <3>1. \A a \in (prepared \cap Pending)' : input'[a] = "full"
      BY <1>14, <2>1, <2>2, <2>4 DEF Prepare
    <3>2. QED
      BY <1>14, <2>1, <2>2, <2>4, <3>1 DEF Prepare
  <2>5. QED
    BY <1>14, <2>3, <2>4 DEF Prepare
<1>15. CASE Raise
  BY <1>15 DEF Raise
<1>16. CASE PrepExit
  BY <1>16 DEF PrepExit
<1>17. CASE UNCHANGED vars
  BY <1>17 DEF vars
<1>18. QED
  BY <1>1, <1>2, <1>3, <1>4, <1>5, <1>6, <1>7, <1>8, <1>9, <1>10,
     <1>11, <1>12, <1>13, <1>14, <1>15, <1>16, <1>17
  DEF Next, DriverStep, StagerStep

LEMMA PreparedCoveredStep == IInv /\ [Next]_vars => PreparedCovered'
<1> SUFFICES ASSUME IInv, [Next]_vars PROVE PreparedCovered'
  OBVIOUS
<1> USE FirstBatchSubset, NoAppIsNoApp DEF IInv, TypeOK, DriverType, StagerType,
        DiskType, HistoryType, AppOnBoard, StagerIdle, StagerPlace, BatchPlace,
        PreparedPlace, PreparedCovered, GuardPlace, Staging, Pending, driver,
        stager, disk, history
<1>1. CASE \E list \in Lists : Start(list)
  BY <1>1 DEF Start, Todo, FirstLine
<1>2. CASE NextBatch
  BY <1>2 DEF NextBatch, Rest
<1>3. CASE Fork
  BY <1>3 DEF Fork, Ahead, StagerEnded
<1>4. CASE LaunchApp
  BY <1>4 DEF LaunchApp
<1>5. CASE DiskGuard
  BY <1>5 DEF DiskGuard
<1>6. CASE Capture
  BY <1>6 DEF Capture
<1>7. CASE Clean
  BY <1>7 DEF Clean, Cleaned
<1>8. CASE CheckGuard
  BY <1>8 DEF CheckGuard
<1>9. CASE GuardStop
  BY <1>9 DEF GuardStop, Reset, StagerEnded
<1>10. CASE Finish
  BY <1>10 DEF Finish, Reset
<1>11. CASE Kill
  BY <1>11 DEF Kill, Reset
<1>12. CASE Refuse
  BY <1>12 DEF Refuse
<1>13. CASE Empty
  BY <1>13 DEF Empty
<1>14. CASE Prepare
  BY <1>14 DEF Prepare
<1>15. CASE Raise
  BY <1>15 DEF Raise
<1>16. CASE PrepExit
  BY <1>16 DEF PrepExit
<1>17. CASE UNCHANGED vars
  BY <1>17 DEF vars
<1>18. QED
  BY <1>1, <1>2, <1>3, <1>4, <1>5, <1>6, <1>7, <1>8, <1>9, <1>10,
     <1>11, <1>12, <1>13, <1>14, <1>15, <1>16, <1>17
  DEF Next, DriverStep, StagerStep

LEMMA IInvInit == Init => IInv
<1> SUFFICES ASSUME Init PROVE IInv
  OBVIOUS
<1>1. TypeOK /\ AppOnBoard
  BY TypeInvInit DEF TypeInv
<1>2. StagerIdle /\ StagerPlace /\ BatchPlace
  BY DEF Init, StagerIdle, StagerPlace, BatchPlace
<1>3. PreparedPlace /\ PreparedCovered /\ GuardPlace /\ NotYetCaptured
  BY DEF Init, PreparedPlace, PreparedCovered, GuardPlace, NotYetCaptured
<1>4. QED
  BY <1>1, <1>2, <1>3 DEF IInv

LEMMA IInvStep == IInv /\ [Next]_vars => IInv'
<1>1. IInv => TypeInv
  BY DEF IInv, TypeInv
<1>2. IInv /\ [Next]_vars => (TypeOK /\ AppOnBoard)'
  BY <1>1, TypeInvStep DEF TypeInv
<1>3. QED
  BY <1>2, StagerIdleStep, StagerPlaceStep, BatchPlaceStep, PreparedPlaceStep,
     PreparedCoveredStep, GuardPlaceStep, NotYetCapturedStep DEF IInv

\* The inductive invariant: where every app of a run is (launched, in the batch,
\* still to be taken, being staged ahead), and which lines the log holds, at each
\* place of the driver.
THEOREM RoundInvariant == Spec => []IInv
BY IInvInit, IInvStep, PTL DEF Spec

-----------------------------------------------------------------------------
(* What follows from it. *)

\* An app staged in this run is launched with its files: neither the staging of
\* the next batch nor the deletion of the last one's files reaches it before.
THEOREM RoundPreparedFilesAtLaunch == Spec => []PreparedFilesAtLaunch
<1>1. IInv => PreparedFilesAtLaunch
  BY DEF IInv, PreparedPlace, Pending, PreparedFilesAtLaunch
<1>2. QED
  BY <1>1, RoundInvariant, PTL

\* A run that reaches its end has launched every app it staged.
THEOREM RoundNothingPreparedIsSkipped == Spec => []NothingPreparedIsSkipped
<1>1. IInv => NothingPreparedIsSkipped
  BY DEF IInv, BatchPlace, GuardPlace, PreparedCovered, Pending, NothingPreparedIsSkipped
<1>2. QED
  BY <1>1, RoundInvariant, PTL

\* A run stops as out of disk only for a refusal of its own.
THEOREM RoundStopsOnlyOnGuard == Spec => []StopsOnlyOnGuard
<1>1. IInv => StopsOnlyOnGuard
  BY DEF IInv, GuardPlace, StopsOnlyOnGuard
<1>2. QED
  BY <1>1, RoundInvariant, PTL

\* After the guard refused a launch the run launches nothing more.
THEOREM RoundGuardEndsRun == Spec => GuardEndsRun
<1>1. IInv /\ [Next]_vars => [guarded /\ runs' = runs => tried' = tried]_vars
  <2> SUFFICES ASSUME IInv, Next, guarded, runs' = runs PROVE tried' = tried
    BY DEF vars
  <2>1. ~(\E list \in Lists : Start(list))
    BY DEF IInv, TypeOK, CountType, Start
  <2>2. ~LaunchApp
    BY DEF IInv, GuardPlace, LaunchApp
  <2>3. QED
    BY <2>1, <2>2 DEF Next, DriverStep, StagerStep, history, NextBatch, Fork,
       DiskGuard, Capture, Clean, CheckGuard, GuardStop, Finish, Kill, Refuse,
       Empty, Prepare, Raise, PrepExit
<1>2. QED
  BY <1>1, RoundInvariant, PTL DEF Spec, GuardEndsRun

\* The round implements the ledger: each of its steps launches an app that is not
\* captured, keeps one app's evidence, gives one up, or leaves the ledger alone.
THEOREM RoundKeepsLedger == Spec => KeepsLedger
<1>1. Init => Ledger!LedgerInit
  BY DEF Init, Ledger!LedgerInit
<1>2. IInv /\ IInv' /\ [Next]_vars => [Ledger!LedgerNext]_(Ledger!ledger)
  <2> SUFFICES ASSUME IInv, IInv', [Next]_vars
               PROVE  Ledger!LedgerNext \/ UNCHANGED <<captured, cur>>
    BY DEF Ledger!ledger
  <2>1. CASE LaunchApp
    <3>1. cur = NoApp /\ cur' \in App /\ cur' \notin captured /\ captured' = captured
      BY <2>1 DEF LaunchApp, IInv, TypeOK, DriverType, AppOnBoard, NotYetCaptured,
         Pending, disk
    <3>2. QED
      BY <3>1 DEF Ledger!LedgerNext, Ledger!Launch
  <2>2. CASE Capture
    <3>1. cur # NoApp /\ cur' = NoApp /\ cur \notin captured
      BY <2>2 DEF Capture, IInv, AppOnBoard, NotYetCaptured, Pending
    <3>2. captured' = captured \cup {cur} \/ captured' = captured
      BY <2>2, <3>1 DEF Capture
    <3>3. QED
      BY <3>1, <3>2 DEF Ledger!LedgerNext, Ledger!Keep, Ledger!GiveUp
  <2>3. CASE Kill \/ GuardStop \/ Finish
    <3>1. captured' = captured /\ cur' = NoApp
      BY <2>3 DEF Kill, GuardStop, Finish, Reset, disk
    <3>2. QED
      BY <3>1 DEF Ledger!LedgerNext, Ledger!GiveUp
  <2>4. CASE ~LaunchApp /\ ~Capture /\ ~Kill /\ ~GuardStop /\ ~Finish
    BY <2>4 DEF Next, DriverStep, StagerStep, vars, driver, disk, Start, NextBatch,
       Fork, DiskGuard, Clean, CheckGuard, Refuse, Empty, Prepare, Raise, PrepExit
  <2>5. QED
    BY <2>1, <2>2, <2>3, <2>4
<1>3. QED
  BY <1>1, <1>2, RoundInvariant, PTL DEF Spec, KeepsLedger, Ledger!LedgerSpec
-----------------------------------------------------------------------------
(* The disk.  While no run ended early: before its batch is deleted the full   *)
(* apps of a batch are among those its deletion names, after it and until the  *)
(* next batch they are of the slice staged ahead, between runs there are none. *)

DiskPlace ==
  ~stopped =>
    /\ Full \subseteq batch \cup FirstBatch(todo)
    /\ pc \in {"launch", "capture"} => Full \cap batch \subseteq keys
    /\ pc \in {"next", "check", "stop"} => Full \subseteq FirstBatch(todo)
    /\ pc = "off" => Full = {}

LEMMA DiskPlaceInit == Init => DiskPlace
BY DEF Init, DiskPlace, Full

LEMMA DiskPlaceStep == IInv /\ DiskPlace /\ [Next]_vars => DiskPlace'
<1> SUFFICES ASSUME IInv, DiskPlace, [Next]_vars, ~stopped' PROVE DiskPlace'
  BY DEF DiskPlace
<1> USE FirstBatchSubset, NoAppIsNoApp
        DEF IInv, TypeOK, DriverType, StagerType, DiskType, DiskPlace, driver, disk, history
<1>1. CASE \E list \in Lists : Start(list)
  BY <1>1 DEF Start, Full
<1>2. CASE NextBatch
  BY <1>2 DEF NextBatch, Full
<1>3. CASE Fork
  BY <1>3 DEF Fork, Full
<1>4. CASE LaunchApp
  BY <1>4 DEF LaunchApp, Full
<1>5. CASE DiskGuard
  BY <1>5 DEF DiskGuard, Full
<1>6. CASE Capture
  BY <1>6 DEF Capture, Full
<1>7. CASE Clean
  <2>1. Full' = Full \ keys
    BY <1>7 DEF Clean, Cleaned, Full
  <2>2. QED
    BY <1>7, <2>1 DEF Clean
<1>8. CASE CheckGuard
  BY <1>8 DEF CheckGuard, Full
<1>9. CASE GuardStop \/ Kill
  BY <1>9 DEF GuardStop, Kill
<1>10. CASE Finish
  <2>1. Full' = Full /\ Full = {}
    BY <1>10 DEF Finish, Full
  <2>2. QED
    BY <1>10, <2>1 DEF Finish, Reset
<1>11. CASE Refuse \/ Raise \/ PrepExit
  BY <1>11 DEF Refuse, Raise, PrepExit, Full
<1>12. CASE Empty
  <2>1. Full' \subseteq Full
    BY <1>12 DEF Empty, Full
  <2>2. QED
    BY <1>12, <2>1 DEF Empty, StagerIdle
<1>13. CASE Prepare
  <2>1. Full' \subseteq Full \cup {pcur} /\ pcur \in Staging /\ pc # "off"
    BY <1>13 DEF Prepare, Full, Staging, StagerIdle
  <2>2. CASE pc = "wait"
    BY <1>13, <2>1, <2>2 DEF Prepare, StagerPlace
  <2>3. CASE pc # "wait"
    <3>1. pcur \in FirstBatch(todo) /\ pcur \notin batch
      BY <2>1, <2>3 DEF StagerPlace, BatchPlace
    <3>2. QED
      BY <1>13, <2>1, <2>3, <3>1 DEF Prepare
  <2>4. QED
    BY <2>2, <2>3
<1>14. CASE UNCHANGED vars
  BY <1>14 DEF vars, Full
<1>15. QED
  BY <1>1, <1>2, <1>3, <1>4, <1>5, <1>6, <1>7, <1>8, <1>9, <1>10, <1>11, <1>12,
     <1>13, <1>14 DEF Next, DriverStep, StagerStep

\* The disk guard of a run, and nothing else, ends it as out of disk, and once it has
\* refused a launch nothing more is launched.
THEOREM RoundGuardDecides == Spec => GuardDecides
<1>1. ASSUME IInv', [guarded /\ runs' = runs => tried' = tried]_vars
      PROVE  [/\ pc' = "stop" => guarded'
              /\ guarded /\ runs' = runs => tried' = tried]_vars
  BY <1>1 DEF IInv, GuardPlace
<1>2. QED
  BY <1>1, RoundInvariant, RoundGuardEndsRun, PTL DEF GuardDecides, GuardEndsRun

\* As long as no run ended early, the disk holds the staged files of two batches
\* at most: the one being launched and the one staged ahead.
THEOREM RoundFewAppsOnDisk == Spec => []FewAppsOnDisk
<1>1. DiskPlace => FewAppsOnDisk
  BY DEF DiskPlace, FewAppsOnDisk
<1>2. QED
  BY <1>1, DiskPlaceInit, DiskPlaceStep, RoundInvariant, PTL DEF Spec
=============================================================================
