-------------------------- MODULE SharedPlayProofs --------------------------
(***************************************************************************)
(* Proofs about the shared round, for every set of apps, number of tries   *)
(* and number of deaths of Play services.                                  *)
(***************************************************************************)
EXTENDS SharedPlay, TLAPS

\* The types, and that a round that is in an app is in one.
Typed == TypeOK /\ (round = "app" => cur \in App)

LEMMA SharedPlayTypeInit == Init => Typed
<1> SUFFICES ASSUME Init PROVE Typed
  OBVIOUS
<1> USE SharedPlayAssumption DEF Init
<1>1. try \in Try
  BY DEF Try
<1>2. deaths \in 0 .. MaxDeaths
  OBVIOUS
<1>3. starter \in [Try -> {"off", "prep", "launch", "probe", "watch"}]
  OBVIOUS
<1>4. 0 \in Child
  BY DEF Child
<1>5. QED
  BY <1>1, <1>2, <1>3, <1>4 DEF TypeOK, Typed

LEMMA SharedPlayTypeStep == Typed /\ [Next]_vars => Typed'
<1> SUFFICES ASSUME Typed, [Next]_vars PROVE Typed'
  OBVIOUS
<1> USE DEF TypeOK, Typed, files, rounds, history
<1>0. Try \subseteq Child
  BY SharedPlayAssumption DEF Try, Child
<1>1. CASE BeginTry
  BY <1>1 DEF BeginTry, StopStarters, KillChildren
<1>2. CASE EndTry
  BY <1>2, SharedPlayAssumption DEF EndTry, RoundIsDone, IsLastTry, Try
<1>3. CASE StartPlay
  BY <1>3 DEF StartPlay, OldPlayLog
<1>4. CASE Abort
  BY <1>4 DEF Abort
<1>5. CASE BeginRound
  BY <1>5 DEF BeginRound
<1>6. CASE RoundEnded
  BY <1>6 DEF RoundEnded, KillChildren
<1>7. CASE Watcher
  <2>1. CASE SeeGone
    BY <2>1 DEF SeeGone
  <2>2. CASE MarkDeath
    BY <2>2 DEF MarkDeath, MarkThenKill, TouchFirst
  <2>3. CASE StopRound
    BY <2>3 DEF StopRound, MarkThenKill, TouchFirst, KillRound
  <2>4. QED
    BY <1>7, <2>1, <2>2, <2>3 DEF Watcher
<1>9. ASSUME NEW t \in Try,
             Prepare(t) \/ Refused(t) \/ Probe(t) \/ Started(t) \/ StarterEnds(t)
      PROVE Typed'
  <2>1. CASE Prepare(t)
    BY <2>1 DEF Prepare, KillChildren
  <2>2. CASE Refused(t)
    BY <2>2 DEF Refused, Reported
  <2>3. CASE Probe(t)
    BY <2>3 DEF Probe
  <2>4. CASE Started(t)
    BY <1>0, <2>4 DEF Started, Reported
  <2>5. CASE StarterEnds(t)
    BY <2>5 DEF StarterEnds
  <2>6. QED
    BY <1>9, <2>1, <2>2, <2>3, <2>4, <2>5
<1>10. CASE LaunchApp
  BY <1>10 DEF LaunchApp
<1>11. CASE CaptureApp
  BY <1>11 DEF CaptureApp
<1>12. CASE RoundDone
  BY <1>12 DEF RoundDone
<1>13. CASE RoundStops
  BY <1>13 DEF RoundStops
<1>14. CASE PlayDies
  <2>1. deaths' \in 0 .. MaxDeaths
    BY <1>14, SharedPlayAssumption DEF PlayDies
  <2>2. QED
    BY <1>14, <2>1 DEF PlayDies
<1>15. ASSUME NEW t \in Try, OrphanEnds(t) PROVE Typed'
  <2>1. foreign' \in BOOLEAN
    BY <1>15, Zenon DEF OrphanEnds
  <2>2. named' \in Child \cup {NoChild} /\ alive' \in SUBSET Child
    BY <1>0, <1>15 DEF OrphanEnds
  <2>3. QED
    BY <1>15, <2>1, <2>2 DEF OrphanEnds
<1>16. CASE UNCHANGED vars
  BY <1>16 DEF vars
<1>17. QED
  BY <1>1, <1>2, <1>3, <1>4, <1>5, <1>6, <1>7, <1>9, <1>10, <1>11, <1>12,
     <1>13, <1>14, <1>15, <1>16
  DEF Next, RunAll, Starter, RoundStep, Orphan

\* Tries, files and processes keep their ranges through every step.
THEOREM SharedPlayTypeOK == Spec => []TypeOK
<1>1. Typed => TypeOK
  BY DEF Typed
<1>2. QED
  BY <1>1, SharedPlayTypeInit, SharedPlayTypeStep, PTL DEF Spec

-----------------------------------------------------------------------------
(* Where things are.  The starters: none at the start of a try, then only     *)
(* that of the try; between tries that of the try before.  The files: while   *)
(* the starter is awaited play.log names this try's child or none, and while  *)
(* its probe runs the launcher's log names none, unless the log is foreign.   *)
(* The round and its watcher: only while shared_round.sh waits for them.  The *)
(* mark: there before the watcher kills the round.                            *)

StarterPlace ==
  /\ OneStarter
  /\ pc = "start" => \A t \in Try : starter[t] = "off"
  /\ pc \notin {"try", "start"} => \A t \in Try : starter[t] # "off" => t = try

PlayLogPlace ==
  /\ pc = "await" => foreign \/ playlog \in {NoChild, Absent, try}
  /\ pc = "await" /\ starter[try] = "probe" => foreign \/ named = NoChild
  /\ pc = "round" => foreign \/ child = try

RoundPlace == (round # "off" \/ watcher # "off") => pc = "round"

MarkPlace ==
  /\ watcher = "between" \/ (stopped /\ pc \notin {"try", "start"}) => dead
  /\ pc = "finished" /\ stopped => try = Tries

PlayInv == Typed /\ StarterPlace /\ PlayLogPlace /\ RoundPlace /\ MarkPlace

LEMMA PlayInvInit == Init => PlayInv
BY SharedPlayTypeInit
DEF Init, PlayInv, StarterPlace, OneStarter, PlayLogPlace, RoundPlace, MarkPlace

LEMMA StarterPlaceStep == PlayInv /\ [Next]_vars => StarterPlace'
<1> SUFFICES ASSUME PlayInv, [Next]_vars PROVE StarterPlace'
  OBVIOUS
<1> USE DEF PlayInv, Typed, TypeOK, StarterPlace, OneStarter, files, rounds, history
<1>1. CASE BeginTry
  BY <1>1 DEF BeginTry, StopStarters
<1>2. CASE EndTry
  BY <1>2 DEF EndTry
<1>3. CASE StartPlay
  BY <1>3 DEF StartPlay
<1>4. CASE Abort \/ BeginRound
  BY <1>4 DEF Abort, BeginRound
<1>5. CASE RoundEnded
  BY <1>5 DEF RoundEnded
<1>6. CASE Watcher
  BY <1>6 DEF Watcher, SeeGone, MarkDeath, StopRound
<1>7. CASE Starter
  <2> PICK t \in Try :
        Prepare(t) \/ Refused(t) \/ Probe(t) \/ Started(t) \/ StarterEnds(t)
    BY <1>7 DEF Starter
  <2>1. /\ UNCHANGED <<pc, try>>
        /\ starter[t] # "off"
        /\ \A u \in Try : u # t => starter'[u] = starter[u]
    BY DEF Prepare, Refused, Probe, Started, StarterEnds, Reported
  <2>2. QED
    BY <2>1
<1>8. CASE RoundStep
  BY <1>8 DEF RoundStep, LaunchApp, CaptureApp, RoundDone, RoundStops
<1>9. CASE PlayDies \/ Orphan
  BY <1>9 DEF PlayDies, Orphan, OrphanEnds
<1>10. CASE UNCHANGED vars
  BY <1>10 DEF vars
<1>11. QED
  BY <1>1, <1>2, <1>3, <1>4, <1>5, <1>6, <1>7, <1>8, <1>9, <1>10 DEF Next, RunAll

LEMMA PlayLogPlaceStep == PlayInv /\ [Next]_vars => PlayLogPlace'
<1> SUFFICES ASSUME PlayInv, [Next]_vars PROVE PlayLogPlace'
  OBVIOUS
<1> USE DEF PlayInv, Typed, TypeOK, PlayLogPlace, files, rounds, history
<1>1. CASE BeginTry \/ EndTry
  BY <1>1 DEF BeginTry, EndTry
<1>2. CASE StartPlay
  BY <1>2 DEF StartPlay, OldPlayLog
<1>3. CASE Abort
  BY <1>3 DEF Abort
<1>4. CASE BeginRound
  BY <1>4, SharedPlayAssumption DEF BeginRound, Try, Child, NoChild, Absent
<1>5. CASE RoundEnded
  BY <1>5 DEF RoundEnded
<1>6. CASE Watcher
  BY <1>6 DEF Watcher, SeeGone, MarkDeath, StopRound
<1>7. CASE Starter
  <2> PICK t \in Try :
        Prepare(t) \/ Refused(t) \/ Probe(t) \/ Started(t) \/ StarterEnds(t)
    BY <1>7 DEF Starter
  <2>1. UNCHANGED <<pc, try, child>> /\ (foreign => foreign')
    BY DEF Prepare, Refused, Probe, Started, StarterEnds
  <2>2. pc = "await" => t = try
    BY DEF Prepare, Refused, Probe, Started, StarterEnds, StarterPlace
  <2>3. CASE Prepare(t) \/ StarterEnds(t)
    BY <2>1, <2>2, <2>3 DEF Prepare, StarterEnds
  <2>4. CASE Refused(t)
    BY <2>1, <2>4 DEF Refused
  <2>5. CASE Probe(t)
    BY <2>1, <2>2, <2>5 DEF Probe
  <2>6. CASE Started(t)
    BY <2>1, <2>2, <2>6 DEF Started, Reported
  <2>7. QED
    BY <2>3, <2>4, <2>5, <2>6
<1>8. CASE RoundStep
  BY <1>8 DEF RoundStep, LaunchApp, CaptureApp, RoundDone, RoundStops
<1>9. CASE PlayDies
  BY <1>9 DEF PlayDies
<1>10. ASSUME NEW t \in Try, OrphanEnds(t) PROVE PlayLogPlace'
  <2>1. UNCHANGED <<pc, try, playlog, child, starter>>
    BY <1>10 DEF OrphanEnds
  <2>2. foreign => foreign'
    BY <1>10, Zenon DEF OrphanEnds
  <2>3. try \in Try /\ starter[try] = "probe" => foreign' \/ named' = named
    BY <1>10, Zenon DEF OrphanEnds
  <2>4. QED
    BY <2>1, <2>2, <2>3
<1>11. CASE UNCHANGED vars
  BY <1>11 DEF vars
<1>12. QED
  BY <1>1, <1>2, <1>3, <1>4, <1>5, <1>6, <1>7, <1>8, <1>9, <1>10, <1>11
  DEF Next, RunAll, Orphan

LEMMA RoundPlaceStep == PlayInv /\ [Next]_vars => RoundPlace'
<1> SUFFICES ASSUME PlayInv, [Next]_vars PROVE RoundPlace'
  OBVIOUS
<1> USE DEF PlayInv, Typed, TypeOK, RoundPlace, files, rounds, history
<1>1. CASE RunAll
  BY <1>1 DEF RunAll, BeginTry, EndTry, StartPlay, Abort, BeginRound, RoundEnded
<1>2. CASE Watcher
  BY <1>2 DEF Watcher, SeeGone, MarkDeath, StopRound, MarkThenKill, TouchFirst,
              KillRound
<1>3. CASE Starter
  BY <1>3 DEF Starter, Prepare, Refused, Probe, Started, StarterEnds
<1>4. CASE RoundStep
  BY <1>4 DEF RoundStep, LaunchApp, CaptureApp, RoundDone, RoundStops
<1>5. CASE PlayDies \/ Orphan
  BY <1>5 DEF PlayDies, Orphan, OrphanEnds
<1>6. CASE UNCHANGED vars
  BY <1>6 DEF vars
<1>7. QED
  BY <1>1, <1>2, <1>3, <1>4, <1>5, <1>6 DEF Next

LEMMA MarkPlaceStep == PlayInv /\ [Next]_vars => MarkPlace'
<1> SUFFICES ASSUME PlayInv, [Next]_vars PROVE MarkPlace'
  OBVIOUS
<1> USE DEF PlayInv, Typed, TypeOK, MarkPlace, RoundPlace, files, rounds, history
<1>1. CASE BeginTry \/ Abort
  BY <1>1 DEF BeginTry, Abort
<1>2. CASE EndTry
  BY <1>2 DEF EndTry, RoundIsDone, IsLastTry
<1>3. CASE StartPlay
  BY <1>3 DEF StartPlay
<1>4. CASE BeginRound \/ RoundEnded
  BY <1>4 DEF BeginRound, RoundEnded
<1>5. CASE SeeGone
  BY <1>5 DEF SeeGone
<1>6. CASE MarkDeath
  BY <1>6 DEF MarkDeath, MarkThenKill, TouchFirst
<1>7. CASE StopRound
  BY <1>7 DEF StopRound, MarkThenKill, TouchFirst, KillRound
<1>8. CASE Starter
  BY <1>8 DEF Starter, Prepare, Refused, Probe, Started, StarterEnds
<1>9. CASE RoundStep
  BY <1>9 DEF RoundStep, LaunchApp, CaptureApp, RoundDone, RoundStops
<1>10. CASE PlayDies \/ Orphan
  BY <1>10 DEF PlayDies, Orphan, OrphanEnds
<1>11. CASE UNCHANGED vars
  BY <1>11 DEF vars
<1>12. QED
  BY <1>1, <1>2, <1>3, <1>4, <1>5, <1>6, <1>7, <1>8, <1>9, <1>10, <1>11
  DEF Next, RunAll, Watcher

\* Where run_all.sh, its tries and what they leave behind stand.
THEOREM SharedPlayInvariant == Spec => []PlayInv
<1>1. PlayInv /\ [Next]_vars => PlayInv'
  BY SharedPlayTypeStep, StarterPlaceStep, PlayLogPlaceStep, RoundPlaceStep,
     MarkPlaceStep
  DEF PlayInv
<1>2. QED
  BY <1>1, PlayInvInit, PTL DEF Spec

-----------------------------------------------------------------------------
(* What follows from it. *)

\* Two starters never run at once: each would kill the Play services of the other.
THEOREM SharedPlayOneStarter == Spec => []OneStarter
<1>1. PlayInv => OneStarter
  BY DEF PlayInv, StarterPlace
<1>2. QED
  BY <1>1, SharedPlayInvariant, PTL

\* A round runs only beside the Play process of its own try, unless the log that
\* start_play.sh read in this try was a foreign one.
THEOREM SharedPlayRoundOnThisPlay == Spec => []RoundOnThisPlay
<1>1. PlayInv => RoundOnThisPlay
  BY DEF PlayInv, PlayLogPlace, RoundPlace, RoundOnThisPlay
<1>2. QED
  BY <1>1, SharedPlayInvariant, PTL

\* A try whose round the watcher killed is tried again, or the last.
THEOREM SharedPlayStoppedRoundIsRetried == Spec => []StoppedRoundIsRetried
<1>1. PlayInv => StoppedRoundIsRetried
  BY DEF PlayInv, MarkPlace, StoppedRoundIsRetried
<1>2. QED
  BY <1>1, SharedPlayInvariant, PTL
=============================================================================
