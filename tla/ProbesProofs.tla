---------------------------- MODULE ProbesProofs ----------------------------
(***************************************************************************)
(* Proofs about the probe suite, for every set of probes, markers,         *)
(* contracts and commits, and every number of polls, suites and lost       *)
(* answers.                                                                *)
(***************************************************************************)
EXTENDS Probes, TLAPS

-----------------------------------------------------------------------------
(* The inductive invariant, in named parts. *)

\* A probe in progress has a verdict only when its loop is over, and of the hilog only a
\* pass is asked.
VerdictPlace ==
  /\ pc \in {"poll", "exited"} => status = "pending"
  /\ pc = "hilog" => status = "pass"

\* A pass was read from the log: it holds every pass marker, of this launch.
PassPlace == pc \in {"hilog", "collect"} /\ status = "pass" => Passing[cur] \subseteq log.marks

\* Between suites no result is pending; within one a pass was measured on its commit.
NewPlace ==
  /\ pc = "off" => new = NoNew
  /\ \A p \in Probe : new[<<p, Own>>] = "passed" => <<p, commit>> \in measured

IInv == TypeOK /\ VerdictPlace /\ PassPlace /\ NewPlace /\ FailIsTheProbes /\ PassIsEarned

-----------------------------------------------------------------------------
(* Types *)

LEMMA FirstIn == \A S : S # {} => First(S) \in S
BY DEF First

LEMMA NoLinesType == NoLines \in Log /\ NoLines.marks = {}
BY DEF NoLines, Log, Outcome

LEMMA NoNewType == NoNew \in [Key -> Result] /\ \A k \in Key : NoNew[k] = "none"
BY DEF NoNew, Result

LEMMA FreshEffect ==
  ASSUME Fresh
  PROVE  /\ lines' \in Log /\ log' \in Log /\ lines'.marks = {} /\ log'.marks = {}
         /\ status' = "pending" /\ tapped' \in BOOLEAN /\ polls' \in 0 .. MaxPolls
         /\ fault' \in BOOLEAN
<1>1. tapped' \in BOOLEAN /\ fault' \in BOOLEAN
  BY DEF Fresh
<1>2. polls' \in 0 .. MaxPolls
  BY ProbesAssumption DEF Fresh
<1>3. QED
  BY <1>1, <1>2, NoLinesType DEF Fresh

LEMMA ProbesTypeInit == Init => TypeOK
<1> SUFFICES ASSUME Init PROVE TypeOK
  OBVIOUS
<1>1. cur \in Probe /\ commit \in Commit
  BY ProbesAssumption, Zenon DEF Init
<1>2. lines \in Log /\ log \in Log /\ new \in [Key -> Result]
  BY NoLinesType, NoNewType DEF Init
<1>3. results \in [Key \X Commit -> Result]
  BY DEF Init, Result
<1>4. tapped \in BOOLEAN /\ fault \in BOOLEAN /\ up \in BOOLEAN
  BY DEF Init
<1>5. QED
  BY <1>1, <1>2, <1>3, <1>4, ProbesAssumption DEF Init, TypeOK

\* What the app does to its log keeps what is there.
LEMMA AppEffect ==
  ASSUME TypeOK, App
  PROVE  /\ log' \in Log /\ fault' \in BOOLEAN /\ up' \in BOOLEAN
         /\ log.marks \subseteq log'.marks
         /\ fault => fault'
         /\ up' => up
         /\ UNCHANGED <<pc, rest, cur, commit, polling, new, results, count, measured>>
<1> USE DEF TypeOK
<1>0. UNCHANGED <<pc, rest, cur, commit, polling, new, results, count, measured>>
  BY DEF App
<1>1. ASSUME NEW k \in Mark, LogMark(k)
      PROVE  log' \in Log /\ log.marks \subseteq log'.marks /\ fault' = fault /\ up' = up
  BY <1>1 DEF LogMark, Log
<1>2. ASSUME NEW c \in Contract, NEW o \in Outcome, Say(c, o)
      PROVE  log' \in Log /\ log.marks \subseteq log'.marks /\ fault' = fault /\ up' = up
  BY <1>2 DEF Say, Log
<1>3. CASE Fault
  BY <1>0, <1>3 DEF Fault
<1>4. CASE Exit
  BY <1>0, <1>4 DEF Exit
<1>5. QED
  BY <1>0, <1>1, <1>2, <1>3, <1>4 DEF App

LEMMA ProbesTypeStep == TypeOK /\ [Next]_vars => TypeOK'
<1> SUFFICES ASSUME TypeOK, [Next]_vars PROVE TypeOK'
  OBVIOUS
<1> USE ProbesAssumption DEF TypeOK, polling, board, count, Drop
<1>1. CASE App
  BY <1>1, AppEffect
<1>2. CASE Begin
  BY <1>2 DEF Begin
<1>3. CASE NotRun
  <2>1. First(rest) \in Probe
    BY <1>3, FirstIn DEF NotRun
  <2>2. <<First(rest), Own>> \in Key
    BY <2>1 DEF Key
  <2>3. new' \in [Key -> Result]
    BY <1>3, <2>2 DEF NotRun, Result
  <2>4. QED
    BY <1>3, <2>3 DEF NotRun
<1>4. CASE Launch
  <2>1. First(rest) \in Probe
    BY <1>4, FirstIn DEF Launch
  <2>2. up' \in BOOLEAN
    BY <1>4 DEF Launch
  <2>3. QED
    BY <1>4, <2>1, <2>2, FreshEffect DEF Launch
<1>5. CASE Poll
  <2>1. lines' \in Log /\ drops' \in 0 .. MaxDrops /\ suites' = suites
    BY <1>5, NoLinesType DEF Poll
  <2>2. status' \in {"pending", "pass", "fail"} /\ tapped' \in BOOLEAN
    BY <1>5 DEF Poll, Evaluate
  <2>3. polls' \in 0 .. MaxPolls
    BY <1>5 DEF Poll
  <2>4. pc' \in {"poll", "hilog", "exited", "collect"}
    BY <1>5 DEF Poll
  <2>5. QED
    BY <1>5, <2>1, <2>2, <2>3, <2>4 DEF Poll
<1>6. CASE CheckHilog
  <2>1. status' \in {"pending", "pass", "fail"} /\ drops' \in 0 .. MaxDrops /\ suites' = suites
    BY <1>6 DEF CheckHilog
  <2>2. QED
    BY <1>6, <2>1 DEF CheckHilog
<1>7. CASE CheckExited
  BY <1>7 DEF CheckExited, NoAnswer
<1>8. CASE TimeUp
  BY <1>8 DEF TimeUp
<1>9. CASE Collect
  <2>1. \A o \in Outcome : ContractResult(o) \in Result
    BY DEF ContractResult, Outcome, Result
  <2>2. OwnResult \in Result
    BY DEF OwnResult, Result
  <2>3. ASSUME NEW k \in Key, k[2] # Own PROVE lines.said[k[2]] \in Outcome
    BY <2>3 DEF Key, Log
  <2>4. new' \in [Key -> Result]
    BY <1>9, <2>1, <2>2, <2>3 DEF Collect
  <2>5. up' \in BOOLEAN
    BY <1>9 DEF Collect
  <2>6. measured' \in SUBSET (Probe \X Commit)
    BY <1>9 DEF Collect
  <2>7. QED
    BY <1>9, <2>4, <2>5, <2>6, FreshEffect DEF Collect
<1>10. CASE Raise
  <2>1. up' \in BOOLEAN /\ new' \in [Key -> Result]
    BY <1>10, NoNewType DEF Raise
  <2>2. QED
    BY <1>10, <2>1, FreshEffect DEF Raise
<1>11. CASE Finish
  <2>1. ASSUME NEW r \in Key \X Commit PROVE r[1] \in Key
    OBVIOUS
  <2>2. Merged \in [Key \X Commit -> Result]
    BY <2>1 DEF Merged
  <2>3. QED
    BY <1>11, <2>2, NoNewType DEF Finish
<1>12. CASE UNCHANGED vars
  BY <1>12 DEF vars
<1>13. QED
  BY <1>1, <1>2, <1>3, <1>4, <1>5, <1>6, <1>7, <1>8, <1>9, <1>10, <1>11, <1>12
  DEF Next, RunSuite

\* Probes, markers, verdicts and results keep their ranges.
THEOREM ProbesTypeOK == Spec => []TypeOK
BY ProbesTypeInit, ProbesTypeStep, PTL DEF Spec

-----------------------------------------------------------------------------
(* The other parts *)

LEMMA VerdictPlaceStep == IInv /\ [Next]_vars => VerdictPlace'
<1> SUFFICES ASSUME IInv, [Next]_vars PROVE VerdictPlace'
  OBVIOUS
<1> USE DEF IInv, VerdictPlace, polling
<1>1. CASE App
  BY <1>1, AppEffect
<1>2. CASE Poll
  BY <1>2 DEF Poll, Evaluate
<1>3. CASE CheckExited
  BY <1>3 DEF CheckExited, NoAnswer
<1>4. CASE Launch
  BY <1>4 DEF Launch, Fresh
<1>5. CASE UNCHANGED vars
  BY <1>5 DEF vars
<1>6. QED
  BY <1>1, <1>2, <1>3, <1>4, <1>5
  DEF Next, RunSuite, Begin, NotRun, CheckHilog, TimeUp, Collect, Raise, Finish

\* What one grep reads is on the board or nothing.
LEMMA PollEffect ==
  ASSUME IInv, Poll
  PROVE  /\ lines'.marks \subseteq log.marks
         /\ pc' \in {"hilog", "collect"} /\ status' = "pass" => Passing[cur] \subseteq log.marks
         /\ pc' = "collect" /\ status' = "fail" => Failed(log)
         /\ UNCHANGED <<rest, cur, commit, new, results, board, measured>>
<1>1. lines' = log \/ (lines' = NoLines /\ lines'.marks = {})
  BY NoLinesType DEF Poll
<1>2. lines'.marks \subseteq log.marks
  BY <1>1
<1>3. CASE ToTap(lines')
  BY <1>2, <1>3 DEF Poll, IInv, VerdictPlace
<1>4. CASE ~ToTap(lines')
  <2>1. status' = Evaluate(lines')
    BY <1>4 DEF Poll
  <2>2. status' = "pass" => Passing[cur] \subseteq log.marks
    BY <1>2, <2>1 DEF Evaluate
  <2>3. status' = "fail" => Failed(lines')
    BY <2>1 DEF Evaluate
  <2>4. status' = "fail" => Failed(log)
    BY <1>2, <2>3 DEF Failed
  <2>5. QED
    BY <1>2, <2>2, <2>4 DEF Poll
<1>5. QED
  BY <1>3, <1>4

LEMMA PassPlaceStep == IInv /\ [Next]_vars => PassPlace'
<1> SUFFICES ASSUME IInv, [Next]_vars PROVE PassPlace'
  OBVIOUS
<1> USE DEF IInv, VerdictPlace, PassPlace, polling, board
<1>1. CASE App
  BY <1>1, AppEffect
<1>2. CASE Poll
  BY <1>2, PollEffect
<1>3. CASE CheckHilog
  BY <1>3 DEF CheckHilog
<1>4. CASE CheckExited
  BY <1>4 DEF CheckExited, NoAnswer
<1>5. CASE TimeUp
  BY <1>5 DEF TimeUp
<1>6. CASE UNCHANGED vars
  BY <1>6 DEF vars
<1>7. QED
  BY <1>1, <1>2, <1>3, <1>4, <1>5, <1>6
  DEF Next, RunSuite, Begin, NotRun, Launch, Collect, Raise, Finish

LEMMA FailIsTheProbesStep == IInv /\ [Next]_vars => FailIsTheProbes'
<1> SUFFICES ASSUME IInv, [Next]_vars PROVE FailIsTheProbes'
  OBVIOUS
<1> USE DEF IInv, VerdictPlace, FailIsTheProbes, polling, board, Failed
<1>1. CASE App
  BY <1>1, AppEffect
<1>2. CASE Poll
  BY <1>2, PollEffect
<1>3. CASE CheckHilog
  BY <1>3 DEF CheckHilog
<1>4. CASE CheckExited
  BY <1>4 DEF CheckExited, NoAnswer
<1>5. CASE TimeUp
  BY <1>5 DEF TimeUp
<1>6. CASE UNCHANGED vars
  BY <1>6 DEF vars
<1>7. QED
  BY <1>1, <1>2, <1>3, <1>4, <1>5, <1>6
  DEF Next, RunSuite, Begin, NotRun, Launch, Collect, Raise, Finish

\* The results a probe leaves when it is collected.
LEMMA CollectEffect ==
  ASSUME IInv, Collect
  PROVE  /\ \A k \in Key : k[1] # cur => new'[k] = new[k]
         /\ new'[<<cur, Own>>] = "passed" => /\ Passing[cur] \subseteq log.marks
                                            /\ \A c \in Contract : new'[<<cur, c>>] # "failed"
<1>1. ASSUME NEW k \in Key, k[1] # cur PROVE new'[k] = new[k]
  BY <1>1 DEF Collect
<1>2. ASSUME new'[<<cur, Own>>] = "passed"
      PROVE  /\ Passing[cur] \subseteq log.marks
             /\ \A c \in Contract : new'[<<cur, c>>] # "failed"
  <2>1. <<cur, Own>> \in Key /\ cur \in Probe
    BY DEF IInv, TypeOK, Key
  <2>2. OwnResult = "passed"
    BY <1>2, <2>1 DEF Collect
  <2>3. status = "pass" /\ \A c \in Contract : lines.said[c] # "fail"
    BY <2>2 DEF OwnResult
  <2>4. Passing[cur] \subseteq log.marks
    BY <2>3 DEF IInv, PassPlace, Collect
  <2>5. ASSUME NEW c \in Contract PROVE new'[<<cur, c>>] # "failed"
    <3>1. <<cur, c>> \in Key /\ c # Own
      BY <2>1, ProbesAssumption DEF Key
    <3>2. new'[<<cur, c>>] = ContractResult(lines.said[c])
      BY <3>1 DEF Collect
    <3>3. lines.said[c] \in {"none", "pass"}
      BY <2>3 DEF IInv, TypeOK, Log, Outcome
    <3>4. QED
      BY <3>2, <3>3 DEF ContractResult
  <2>6. QED
    BY <2>4, <2>5
<1>3. QED
  BY <1>1, <1>2

\* A probe that was not run gets a failure of its own, and no other result.
LEMMA NotRunEffect ==
  ASSUME IInv, NotRun, NEW k \in Key
  PROVE  new'[k] = new[k] \/ (k[2] = Own /\ new'[k] = "failed")
<1>1. <<First(rest), Own>>[2] = Own
  OBVIOUS
<1>2. QED
  BY <1>1 DEF NotRun, IInv, TypeOK

LEMMA KeyIn == ASSUME NEW p \in Probe, NEW c \in Contract PROVE <<p, c>> \in Key /\ <<p, Own>> \in Key
BY DEF Key

LEMMA NewPlaceStep == IInv /\ [Next]_vars => NewPlace'
<1> SUFFICES ASSUME IInv, [Next]_vars PROVE NewPlace'
  OBVIOUS
<1> USE DEF IInv, NewPlace
<1>0. ASSUME NEW p \in Probe PROVE <<p, Own>> \in Key /\ NoNew[<<p, Own>>] # "passed"
  BY DEF Key, NoNew
<1>1. CASE Begin
  BY <1>0, <1>1 DEF Begin
<1>2. CASE NotRun
  <2>1. ASSUME NEW p \in Probe, new'[<<p, Own>>] = "passed" PROVE <<p, commit>> \in measured
    BY <1>0, <1>2, <2>1, NotRunEffect
  <2>2. QED
    BY <1>2, <2>1 DEF NotRun
<1>3. CASE Collect
  <2>1. measured \subseteq measured' /\ commit' = commit
    BY <1>3 DEF Collect
  <2>2. ASSUME NEW p \in Probe, new'[<<p, Own>>] = "passed" PROVE <<p, commit>> \in measured'
    <3>1. CASE p = cur
      <4>1. Passing[cur] \subseteq log.marks
        BY <1>3, <2>2, <3>1, CollectEffect
      <4>2. QED
        BY <1>3, <3>1, <4>1 DEF Collect
    <3>2. CASE p # cur
      <4>1. new'[<<p, Own>>] = new[<<p, Own>>]
        BY <1>0, <1>3, <3>2, CollectEffect
      <4>2. QED
        BY <2>1, <2>2, <4>1
    <3>3. QED
      BY <3>1, <3>2
  <2>3. QED
    BY <1>3, <2>1, <2>2 DEF Collect
<1>4. CASE Raise
  BY <1>0, <1>4 DEF Raise
<1>5. CASE Finish
  BY <1>0, <1>5 DEF Finish
<1>6. CASE App
  BY <1>6, AppEffect
<1>7. CASE UNCHANGED <<commit, new, measured>> /\ pc' # "off"
  BY <1>7
<1>8. CASE UNCHANGED vars
  BY <1>8 DEF vars
<1>9. QED
  BY <1>1, <1>2, <1>3, <1>4, <1>5, <1>6, <1>7, <1>8
  DEF Next, RunSuite, Launch, Poll, CheckHilog, CheckExited, TimeUp, polling, board

LEMMA PassIsEarnedStep == IInv /\ [Next]_vars => PassIsEarned'
<1> SUFFICES ASSUME IInv, [Next]_vars PROVE PassIsEarned'
  OBVIOUS
<1> DEFINE Earned(p) == \A c \in Commit : results'[<<p, Own>>, c] = "passed" => <<p, c>> \in measured'
           Beside(p) == \A c \in Contract : new'[<<p, Own>>] = "passed" => new'[<<p, c>>] # "failed"
<1> USE DEF IInv, PassIsEarned
<1>0. ASSUME NEW p \in Probe
      PROVE  /\ <<p, Own>> \in Key /\ NoNew[<<p, Own>>] # "passed"
             /\ \A c \in Contract : <<p, c>> \in Key /\ c # Own
  BY ProbesAssumption DEF Key, NoNew
<1>1. CASE NotRun
  <2>1. ASSUME NEW p \in Probe, NEW c \in Contract, new'[<<p, Own>>] = "passed"
        PROVE  new'[<<p, c>>] # "failed"
    <3>1. new[<<p, Own>>] = "passed"
      BY <1>0, <1>1, <2>1, NotRunEffect
    <3>2. new'[<<p, c>>] = new[<<p, c>>]
      BY <1>0, <1>1, NotRunEffect
    <3>3. QED
      BY <3>1, <3>2
  <2>2. QED
    BY <1>1, <2>1 DEF NotRun
<1>2. CASE Collect
  <2>1. ASSUME NEW p \in Probe PROVE Beside(p)
    <3>1. CASE p = cur
      BY <1>2, <3>1, CollectEffect
    <3>2. CASE p # cur
      <4>1. new'[<<p, Own>>] = new[<<p, Own>>]
        BY <1>0, <1>2, <3>2, CollectEffect
      <4>2. \A c \in Contract : new'[<<p, c>>] = new[<<p, c>>]
        BY <1>0, <1>2, <3>2, CollectEffect
      <4>3. QED
        BY <4>1, <4>2
    <3>3. QED
      BY <3>1, <3>2
  <2>2. results' = results /\ measured \subseteq measured'
    BY <1>2 DEF Collect
  <2>3. QED
    BY <2>1, <2>2
<1>3. CASE Finish
  <2>1. ASSUME NEW p \in Probe PROVE Beside(p)
    BY <1>0, <1>3 DEF Finish
  <2>2. ASSUME NEW p \in Probe, NEW c \in Commit, results'[<<p, Own>>, c] = "passed"
        PROVE  <<p, c>> \in measured
    <3>1. <<<<p, Own>>, c>> \in Key \X Commit
      BY <1>0
    <3>2. results'[<<<<p, Own>>, c>>] = IF c = commit /\ new[<<p, Own>>] # "none"
                                          THEN new[<<p, Own>>] ELSE results[<<<<p, Own>>, c>>]
      BY <1>3, <3>1 DEF Finish, Merged
    <3>3. /\ results'[<<p, Own>>, c] = results'[<<<<p, Own>>, c>>]
          /\ results[<<p, Own>>, c] = results[<<<<p, Own>>, c>>]
      BY Zenon
    <3>4. results[<<<<p, Own>>, c>>] = "passed" => <<p, c>> \in measured
      BY <3>3, Zenon
    <3>5. QED
      BY <2>2, <3>2, <3>3, <3>4, Zenon DEF NewPlace
  <2>3. QED
    BY <1>3, <2>1, <2>2 DEF Finish
<1>4. CASE Raise
  BY <1>0, <1>4 DEF Raise
<1>5. CASE App
  BY <1>5, AppEffect
<1>6. CASE UNCHANGED <<results, new, measured>>
  BY <1>6
<1>7. QED
  BY <1>1, <1>2, <1>3, <1>4, <1>5, <1>6
  DEF Next, RunSuite, Begin, Launch, Poll, CheckHilog, CheckExited, TimeUp, vars, polling, board

LEMMA IInvInit == Init => IInv
<1> SUFFICES ASSUME Init PROVE IInv
  OBVIOUS
<1>1. TypeOK
  BY ProbesTypeInit
<1>2. ASSUME NEW p \in Probe
      PROVE  /\ new[<<p, Own>>] # "passed"
             /\ \A c \in Commit : results[<<p, Own>>, c] # "passed"
  <2>1. <<p, Own>> \in Key
    BY DEF Key
  <2>2. new[<<p, Own>>] # "passed"
    BY <2>1, NoNewType DEF Init
  <2>3. ASSUME NEW c \in Commit PROVE results[<<<<p, Own>>, c>>] # "passed"
    BY <2>1 DEF Init
  <2>4. ASSUME NEW c \in Commit PROVE results[<<p, Own>>, c] = results[<<<<p, Own>>, c>>]
    BY Zenon
  <2>5. QED
    BY <2>2, <2>3, <2>4, Zenon
<1>3. QED
  BY <1>1, <1>2 DEF Init, IInv, VerdictPlace, PassPlace, NewPlace, FailIsTheProbes, PassIsEarned

\* Where each verdict comes from, at each point of a suite.
THEOREM ProbesInvariant == Spec => []IInv
<1>1. IInv /\ [Next]_vars => IInv'
  BY ProbesTypeStep, VerdictPlaceStep, PassPlaceStep, FailIsTheProbesStep, NewPlaceStep,
     PassIsEarnedStep
  DEF IInv
<1>2. QED
  BY <1>1, IInvInit, PTL DEF Spec

-----------------------------------------------------------------------------
(* What follows from it. *)

\* A pass in the results file was measured on that very commit, and none stands beside a
\* contract of the probe that failed in the same suite.
THEOREM ProbesPassIsEarned == Spec => []PassIsEarned
<1>1. IInv => PassIsEarned
  BY DEF IInv
<1>2. QED
  BY <1>1, ProbesInvariant, PTL

\* A lost answer is never a verdict: a probe that fails printed or logged a fault, or is
\* gone.
THEOREM ProbesFailIsTheProbes == Spec => []FailIsTheProbes
<1>1. IInv => FailIsTheProbes
  BY DEF IInv
<1>2. QED
  BY <1>1, ProbesInvariant, PTL

\* A suite changes results of its own commit alone, drops none, and one that was cut short
\* changes nothing.
THEOREM ProbesKeepsOtherResults == Spec => KeepsOtherResults
<1> DEFINE Keeps == \A r \in Key \X Commit : results'[r] # results[r] =>
                      r[2] = commit /\ results'[r] # "none" /\ rest = {} /\ pc' = "off"
<1>1. TypeOK /\ [Next]_vars => [Keeps]_vars
  <2> SUFFICES ASSUME TypeOK, Next PROVE Keeps
    OBVIOUS
  <2>1. CASE Finish
    <3>1. ASSUME NEW r \in Key \X Commit, results'[r] # results[r]
          PROVE  r[2] = commit /\ results'[r] # "none"
      <4>1. results'[r] = IF r[2] = commit /\ new[r[1]] # "none" THEN new[r[1]] ELSE results[r]
        BY <2>1 DEF Finish, Merged
      <4>2. QED
        BY <3>1, <4>1
    <3>2. QED
      BY <2>1, <3>1 DEF Finish
  <2>2. CASE App
    BY <2>2, AppEffect
  <2>3. CASE UNCHANGED results
    BY <2>3
  <2>4. QED
    BY <2>1, <2>2, <2>3
    DEF Next, RunSuite, Begin, NotRun, Launch, Poll, CheckHilog, CheckExited, TimeUp, Collect, Raise
<1>2. QED
  BY <1>1, ProbesTypeOK, PTL DEF Spec, KeepsOtherResults

=============================================================================
