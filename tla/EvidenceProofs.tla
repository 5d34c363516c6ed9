--------------------------- MODULE EvidenceProofs ---------------------------
(***************************************************************************)
(* Proofs about the launches of a tag and what is kept of them, for every  *)
(* set of apps and pids, number of launches and of unanswered commands.    *)
(***************************************************************************)
EXTENDS Evidence, TLAPS

-----------------------------------------------------------------------------
(* The inductive invariant, in named parts. *)

\* From the map sampler's start to the removal of its files.
Sampling == pc \in {"snapshot", "receive", "stderr", "dump", "maps"}

\* A launch in progress has a number.
Counted == pc # "idle" => n > 0

\* While every command is answered the crash mark is of this launch, ...
MarkPlace == drops = 0 /\ pc # "idle" => mark = n

\* ... the only process that runs is the one the launcher named, once it has, ...
ProcPlace ==
  drops = 0 => \A p \in Pid : proc[p] # 0 => /\ pc \notin {"idle", "clean", "probe"}
                                             /\ p = c /\ proc[p] = n

\* ... so a process crashes in the launch it was started in.
DumpPlace ==
  /\ \A d \in dumps : d.at <= n
  /\ drops = 0 => \A d \in dumps : d.of = d.at

\* The sampler leaves a map of this launch or none, with one command unanswered too: a
\* map that was left behind then is removed before the next one is written.
MapPlace ==
  /\ drops = 0 => \A p \in Pid : ev[p] # 0 => Sampling /\ p = c
  /\ drops <= 1 /\ Sampling /\ c # NoPid => ev[c] \in {0, n}

\* The log of the child in hand is of this launch, or dropped.
LogPlace == c # NoPid => log[c] \in {0, n}

IInv == TypeOK /\ Counted /\ MarkPlace /\ ProcPlace /\ DumpPlace /\ MapPlace /\ LogPlace

-----------------------------------------------------------------------------
(* The steps, each through what it does to the variables a part names. *)

LEMMA EvidenceTypeInit == Init => TypeOK
BY EvidenceAssumption DEF Init, TypeOK, Launch, Picture, None, Text, NoLog

\* One more command went unanswered.
Dropped == drops < MaxDrops /\ drops' = drops + 1

\* A command that was answered costs nothing and is done, one that was not is counted and
\* is done or not.
LEMMA AnsweredCounts ==
  ASSUME NEW ok \in BOOLEAN, Answered(ok)
  PROVE  (ok = TRUE /\ drops' = drops) \/ (ok = FALSE /\ Dropped)
<1>1. CASE ok = TRUE
  BY <1>1, Zenon DEF Answered
<1>2. CASE ok = FALSE
  BY <1>2, Zenon DEF Answered, Dropped
<1>3. QED
  BY <1>1, <1>2

LEMMA AnsweredOutcome ==
  ASSUME NEW ok \in BOOLEAN, Answered(ok), NEW done, NEW undone, NEW v \in Outcomes(ok, done, undone)
  PROVE  (drops' = drops /\ v = done) \/ (Dropped /\ v \in {done, undone})
<1>1. CASE ok = TRUE
  BY <1>1, Zenon DEF Answered, Outcomes
<1>2. CASE ok = FALSE
  BY <1>2, Zenon DEF Answered, Dropped, Outcomes
<1>3. QED
  BY <1>1, <1>2

LEMMA BeginEffect ==
  ASSUME Begin
  PROVE  /\ pc = "idle" /\ pc' = "clean" /\ app' \in App
         /\ n < MaxLaunches /\ n' = n + 1 /\ c' = NoPid /\ retries' = 0
         /\ \/ drops' = drops /\ mark' = n + 1
            \/ Dropped /\ mark' \in {n + 1, mark}
         /\ UNCHANGED <<proc, log, dumps, shot, ev, host>>
<1>1. PICK ok \in BOOLEAN : Answered(ok) /\ mark' \in Outcomes(ok, n + 1, mark)
  BY Zenon DEF Begin
<1>2. \/ drops' = drops /\ mark' = n + 1
      \/ Dropped /\ mark' \in {n + 1, mark}
  BY <1>1, AnsweredOutcome, Zenon
<1>3. QED
  BY <1>2 DEF Begin

LEMMA ProbeEffect ==
  ASSUME Probe
  PROVE  /\ pc = "probe" /\ out' = [out EXCEPT ![app] = n]
         /\ \/ /\ \E p \in Pid : /\ proc[p] = 0 /\ c' = p
                                 /\ proc' = [proc EXCEPT ![p] = n] /\ log' = [log EXCEPT ![p] = n]
               /\ (drops' = drops /\ pc' = "sample") \/ Dropped
            \/ c' = NoPid /\ UNCHANGED <<proc, log, drops>>
         /\ \/ pc' = "sample" /\ retries' = retries
            \/ pc' = "probe" /\ retries < 2 /\ retries' = retries + 1
         /\ UNCHANGED <<app, n, mark, dumps, shot, ev, recvd, kept>>
<1>1. PICK ok \in BOOLEAN :
        /\ IF c' = NoPid THEN UNCHANGED drops ELSE Answered(ok)
        /\ IF ok \/ ~RetriesLeft
             THEN pc' = "sample" /\ UNCHANGED retries
             ELSE pc' = "probe" /\ retries' = retries + 1
  BY Zenon DEF Probe
<1>2. \/ pc' = "sample" /\ retries' = retries
      \/ pc' = "probe" /\ retries < 2 /\ retries' = retries + 1
  BY <1>1 DEF RetriesLeft
<1>3. CASE c' = NoPid
  <2>1. drops' = drops
    BY <1>1, <1>3
  <2>2. UNCHANGED <<proc, log>>
    BY <1>3, EvidenceAssumption DEF Probe
  <2>3. QED
    BY <1>2, <1>3, <2>1, <2>2 DEF Probe
<1>4. CASE c' # NoPid
  <2>1. (ok = TRUE /\ drops' = drops) \/ (ok = FALSE /\ Dropped)
    BY <1>1, <1>4, AnsweredCounts, Zenon
  <2>2. (drops' = drops /\ pc' = "sample") \/ Dropped
    BY <1>1, <2>1, Zenon
  <2>3. QED
    BY <1>2, <1>4, <2>2 DEF Probe
<1>5. QED
  BY <1>3, <1>4

LEMMA SampleEffect ==
  ASSUME Sample
  PROVE  /\ pc = "sample" /\ pc' = "snapshot"
         /\ \/ c = NoPid /\ UNCHANGED <<ev, drops>>
            \/ /\ c # NoPid
               /\ \E e \in {0, n, ev[c]} :
                    /\ ev' = [ev EXCEPT ![c] = e]
                    /\ (drops' = drops /\ e \in {0, n}) \/ Dropped
         /\ UNCHANGED <<app, n, c, retries, proc, mark, log, dumps, shot, host>>
<1>1. CASE c = NoPid
  BY <1>1 DEF Sample
<1>2. CASE c # NoPid
  <2>1. PICK ok \in BOOLEAN :
          /\ Answered(ok)
          /\ \E m \in {MapBefore} \cup (IF proc[c] # 0 THEN {n} ELSE {}) :
               \E e \in Outcomes(ok, m, ev[c]) : ev' = [ev EXCEPT ![c] = e]
    BY <1>2, Zenon DEF Sample
  <2>2. PICK m \in {MapBefore} \cup (IF proc[c] # 0 THEN {n} ELSE {}) :
          \E e \in Outcomes(ok, m, ev[c]) : ev' = [ev EXCEPT ![c] = e]
    BY <2>1
  <2>3. m \in {0, n}
    BY <2>2 DEF MapBefore
  <2>4. \E e \in {0, n, ev[c]} :
          /\ ev' = [ev EXCEPT ![c] = e]
          /\ (drops' = drops /\ e \in {0, n}) \/ Dropped
    <3>1. PICK e \in Outcomes(ok, m, ev[c]) : ev' = [ev EXCEPT ![c] = e]
      BY <2>2
    <3>2. (drops' = drops /\ e = m) \/ (Dropped /\ e \in {m, ev[c]})
      BY <2>1, AnsweredOutcome, Zenon
    <3>3. QED
      BY <2>3, <3>1, <3>2
  <2>5. QED
    BY <1>2, <2>4 DEF Sample
<1>3. QED
  BY <1>1, <1>2

\* Filing one piece of evidence of the app in hand.
WithStderr(l) == [kept EXCEPT ![app].stderr = l]
WithJpeg(p)   == [kept EXCEPT ![app].jpeg = p]
WithCrash(p)  == [kept EXCEPT ![app].crash = p]
WithMaps(p)   == [kept EXCEPT ![app].maps = p]

LEMMA SnapshotEffect ==
  ASSUME Snapshot
  PROVE  /\ pc = "snapshot" /\ pc' = "receive"
         /\ drops' = drops \/ Dropped
         /\ shot' \in {n, shot}
         /\ UNCHANGED <<app, n, c, retries, proc, mark, log, dumps, ev, host>>
<1>1. PICK ok \in BOOLEAN : Answered(ok) /\ shot' \in Outcomes(ok, n, shot)
  BY Zenon DEF Snapshot
<1>2. (drops' = drops /\ shot' = n) \/ (Dropped /\ shot' \in {n, shot})
  BY <1>1, AnsweredOutcome, Zenon
<1>3. QED
  BY <1>2 DEF Snapshot

LEMMA ReceiveEffect ==
  ASSUME Receive
  PROVE  /\ pc = "receive" /\ pc' = "stderr"
         /\ drops' = drops \/ Dropped
         /\ recvd' \in {[of |-> shot, at |-> n], None}
         /\ kept' = IF recvd' = None THEN kept ELSE WithJpeg(recvd')
         /\ UNCHANGED <<app, n, c, retries, board, out>>
<1>1. PICK ok \in BOOLEAN :
        /\ Answered(ok)
        /\ recvd' = IF ok /\ shot # 0 THEN [of |-> shot, at |-> n] ELSE BeforeReceive
  BY Zenon DEF Receive
<1>2. drops' = drops \/ Dropped
  BY <1>1, AnsweredCounts, Zenon
<1>3. recvd' \in {[of |-> shot, at |-> n], None}
  BY <1>1 DEF BeforeReceive
<1>4. QED
  BY <1>2, <1>3 DEF Receive, WithJpeg

\* What is pulled of the stderr log is the board's copy, all of it if the command was
\* answered, or nothing.
LEMMA PulledIs ==
  ASSUME TypeOK, c \in Pid, NEW ok \in BOOLEAN, NEW s \in Pulled(ok)
  PROVE  s \in Text /\ s.of \in {0, log[c]} /\ (ok = TRUE => s.whole = TRUE)
<1>1. CASE log[c] = 0
  <2>1. s = [of |-> 0, whole |-> TRUE]
    BY <1>1 DEF Pulled, NoLog
  <2>2. s.of = 0 /\ s.whole = TRUE
    BY <2>1, Zenon
  <2>3. s \in Text
    BY <2>1, EvidenceAssumption DEF Text, Launch
  <2>4. QED
    BY <2>2, <2>3, Zenon
<1>2. CASE log[c] # 0
  <2>1. s \in {[of |-> log[c], whole |-> TRUE], NoLog, [of |-> log[c], whole |-> FALSE]}
    BY <1>2 DEF Pulled
  <2>2. ok = TRUE => s = [of |-> log[c], whole |-> TRUE]
    BY <1>2 DEF Pulled
  <2>3. log[c] \in Launch /\ 0 \in Launch
    BY EvidenceAssumption DEF TypeOK, Launch
  <2>4. \A l \in Launch, w \in BOOLEAN :
          /\ [of |-> l, whole |-> w] \in Text
          /\ [of |-> l, whole |-> w].of = l
    BY DEF Text
  <2>5. s \in Text /\ s.of \in {0, log[c]}
    <3>1. CASE s = NoLog
      BY <2>3, <2>4, <3>1 DEF NoLog
    <3>2. CASE s # NoLog
      <4>1. \E w \in BOOLEAN : s = [of |-> log[c], whole |-> w]
        BY <2>1, <3>2
      <4>2. QED
        BY <2>3, <2>4, <4>1
    <3>3. QED
      BY <3>1, <3>2
  <2>6. ok = TRUE => s.whole = TRUE
    <3> SUFFICES ASSUME ok = TRUE PROVE s.whole = TRUE
      OBVIOUS
    <3>1. s = [of |-> log[c], whole |-> TRUE]
      BY <2>2
    <3>2. QED
      BY <3>1, Zenon
  <2>7. QED
    BY <2>5, <2>6, Zenon
<1>3. QED
  BY <1>1, <1>2

\* The board's copy is dropped only for one that is not empty.
LEMMA PullStderrEffect ==
  ASSUME TypeOK, PullStderr
  PROVE  /\ pc = "stderr" /\ pc' = "dump"
         /\ \/ c = NoPid /\ UNCHANGED <<kept, drops, log>>
            \/ /\ c # NoPid
               /\ drops' = drops \/ Dropped
               /\ \E s \in Text :
                    /\ s.of \in {0, log[c]} /\ (drops' = drops => s.whole)
                    /\ kept' = WithStderr(s)
                    /\ \/ log' = log
                       \/ log' = [log EXCEPT ![c] = 0] /\ kept'[app].stderr.of # 0
         /\ UNCHANGED <<app, n, c, retries, proc, mark, dumps, shot, ev, recvd, out>>
<1>1. CASE c = NoPid
  BY <1>1 DEF PullStderr
<1>2. CASE c # NoPid
  <2>1. PICK ok \in BOOLEAN :
          /\ Answered(ok)
          /\ \E s \in Pulled(ok) : kept' = WithStderr(s)
          /\ log' \in IF Droppable(kept'[app].stderr)
                        THEN {log, [log EXCEPT ![c] = 0]} ELSE {log}
    BY <1>2, Zenon DEF PullStderr, WithStderr
  <2>2. (ok = TRUE /\ drops' = drops) \/ (ok = FALSE /\ Dropped)
    BY <2>1, AnsweredCounts, Zenon
  <2>3. PICK s \in Pulled(ok) : kept' = WithStderr(s)
    BY <2>1
  <2>4. c \in Pid
    BY <1>2 DEF TypeOK
  <2>5. s \in Text /\ s.of \in {0, log[c]} /\ (ok = TRUE => s.whole = TRUE)
    BY <2>3, <2>4, PulledIs
  <2>6. drops' = drops => s.whole
    <3>1. Dropped => drops' # drops
      BY EvidenceAssumption DEF Dropped, TypeOK
    <3>2. QED
      BY <2>2, <2>5, <3>1, Zenon
  <2>7. log' = log \/ (log' = [log EXCEPT ![c] = 0] /\ kept'[app].stderr.of # 0)
    BY <2>1 DEF Droppable
  <2>8. \E t \in Text :
          /\ t.of \in {0, log[c]} /\ (drops' = drops => t.whole)
          /\ kept' = WithStderr(t)
          /\ \/ log' = log
             \/ log' = [log EXCEPT ![c] = 0] /\ kept'[app].stderr.of # 0
    BY <2>3, <2>5, <2>6, <2>7, Zenon
  <2>9. drops' = drops \/ Dropped
    BY <2>2, Zenon
  <2>10. QED
    BY <1>2, <2>8, <2>9 DEF PullStderr
<1>3. QED
  BY <1>1, <1>2

LEMMA PullDumpEffect ==
  ASSUME PullDump
  PROVE  /\ pc = "dump" /\ pc' = "maps"
         /\ drops' = drops \/ Dropped
         /\ \/ kept' = kept
            \/ \E d \in OwnDumps : kept' = WithCrash([of |-> d.of, at |-> n])
         /\ UNCHANGED <<app, n, c, retries, board, recvd, out>>
<1>1. CASE c = NoPid
  BY <1>1 DEF PullDump
<1>2. CASE c # NoPid
  <2>1. PICK ok \in BOOLEAN :
          /\ Answered(ok)
          /\ IF ok /\ OwnDumps # {}
               THEN \E d \in OwnDumps :
                      kept' = WithCrash([of |-> d.of, at |-> n])
               ELSE UNCHANGED kept
    BY <1>2, Zenon DEF PullDump, WithCrash
  <2>2. drops' = drops \/ Dropped
    BY <2>1, AnsweredCounts, Zenon
  <2>3. \/ kept' = kept
        \/ \E d \in OwnDumps : kept' = WithCrash([of |-> d.of, at |-> n])
    BY <2>1, Zenon
  <2>4. QED
    BY <2>2, <2>3 DEF PullDump
<1>3. QED
  BY <1>1, <1>2

LEMMA PullMapsEffect ==
  ASSUME PullMaps
  PROVE  /\ pc = "maps" /\ pc' = "stop"
         /\ \/ c = NoPid /\ UNCHANGED <<kept, drops, ev>>
            \/ /\ c # NoPid
               /\ \/ kept' = kept
                  \/ ev[c] # 0 /\ kept' = WithMaps([of |-> ev[c], at |-> n])
               /\ \/ drops' = drops /\ ev' = [ev EXCEPT ![c] = 0]
                  \/ Dropped /\ ev' \in {[ev EXCEPT ![c] = 0], ev}
         /\ UNCHANGED <<app, n, c, retries, proc, mark, log, dumps, shot, recvd, out>>
<1>1. CASE c = NoPid
  BY <1>1 DEF PullMaps
<1>2. CASE c # NoPid
  <2>1. PICK ok \in BOOLEAN :
          /\ Answered(ok)
          /\ kept' = IF ok /\ ev[c] # 0 THEN WithMaps([of |-> ev[c], at |-> n])
                                        ELSE kept
          /\ ev' \in Outcomes(ok, [ev EXCEPT ![c] = 0], ev)
    BY <1>2, Zenon DEF PullMaps, WithMaps
  <2>2. \/ kept' = kept
        \/ ev[c] # 0 /\ kept' = WithMaps([of |-> ev[c], at |-> n])
    BY <2>1
  <2>3. \/ drops' = drops /\ ev' = [ev EXCEPT ![c] = 0]
        \/ Dropped /\ ev' \in {[ev EXCEPT ![c] = 0], ev}
    BY <2>1, AnsweredOutcome, Zenon
  <2>4. QED
    BY <1>2, <2>2, <2>3 DEF PullMaps
<1>3. QED
  BY <1>1, <1>2

LEMMA StopEffect ==
  ASSUME Stop
  PROVE  /\ pc = "stop" /\ pc' = "idle" /\ out' = OutAfter
         /\ \/ c = NoPid /\ UNCHANGED <<proc, drops>>
            \/ /\ c # NoPid
               /\ \/ drops' = drops /\ proc' = [proc EXCEPT ![c] = 0]
                  \/ Dropped /\ proc' \in {[proc EXCEPT ![c] = 0], proc}
         /\ UNCHANGED <<app, n, c, retries, mark, log, dumps, shot, ev, recvd, kept>>
<1>1. CASE c = NoPid
  BY <1>1 DEF Stop
<1>2. CASE c # NoPid
  <2>1. PICK ok \in BOOLEAN : Answered(ok) /\ proc' \in Outcomes(ok, Killed(c), proc)
    BY <1>2, Zenon DEF Stop
  <2>2. \/ drops' = drops /\ proc' = Killed(c)
        \/ Dropped /\ proc' \in {Killed(c), proc}
    BY <2>1, AnsweredOutcome, Zenon
  <2>3. QED
    BY <1>2, <2>2 DEF Stop, Killed
<1>3. QED
  BY <1>1, <1>2

-----------------------------------------------------------------------------
(* Types *)

Evidences == [stderr : Text, jpeg : Picture, crash : Picture, maps : Picture]

LEMMA KeptTypes == TypeOK => kept \in [App -> Evidences]
BY DEF TypeOK, Evidences

LEMMA FiledTypes ==
  ASSUME TypeOK
  PROVE  /\ \A l \in Text : WithStderr(l) \in [App -> Evidences]
         /\ \A p \in Picture : /\ WithJpeg(p) \in [App -> Evidences]
                               /\ WithCrash(p) \in [App -> Evidences]
                               /\ WithMaps(p) \in [App -> Evidences]
<1> USE DEF TypeOK, Evidences
<1>1. ASSUME NEW l \in Text PROVE WithStderr(l) \in [App -> Evidences]
  BY DEF WithStderr
<1>2. ASSUME NEW p \in Picture PROVE WithJpeg(p) \in [App -> Evidences]
  BY DEF WithJpeg
<1>3. ASSUME NEW p \in Picture PROVE WithCrash(p) \in [App -> Evidences]
  BY DEF WithCrash
<1>4. ASSUME NEW p \in Picture PROVE WithMaps(p) \in [App -> Evidences]
  BY DEF WithMaps
<1>5. QED
  BY <1>1, <1>2, <1>3, <1>4

LEMMA EvidenceTypeStep == TypeOK /\ [Next]_vars => TypeOK'
<1> SUFFICES ASSUME TypeOK, [Next]_vars PROVE TypeOK'
  OBVIOUS
<1>0. kept \in [App -> Evidences]
  BY KeptTypes
<1> USE EvidenceAssumption DEF TypeOK, Launch, board, host, Dropped
<1>1. CASE Begin
  BY <1>1, BeginEffect
<1>2. CASE CleanBoard
  BY <1>2 DEF CleanBoard
<1>3. CASE Probe
  BY <1>3, ProbeEffect
<1>4. CASE Sample
  BY <1>4, SampleEffect
<1>5. CASE Snapshot
  BY <1>5, SnapshotEffect
<1>6. CASE Receive
  <2>1. recvd' \in Picture
    BY <1>6, ReceiveEffect DEF Picture, None
  <2>2. kept' = kept \/ kept' = WithJpeg(recvd')
    BY <1>6, ReceiveEffect
  <2>3. kept' \in [App -> Evidences]
    BY <2>1, <2>2, <1>0, FiledTypes
  <2>4. QED
    BY <1>6, <2>1, <2>3, ReceiveEffect DEF Evidences
<1>7. CASE PullStderr
  <2>1. kept' = kept \/ \E s \in Text : kept' = WithStderr(s)
    BY <1>7, PullStderrEffect, Zenon
  <2>2. kept' \in [App -> Evidences]
    BY <2>1, <1>0, FiledTypes
  <2>3. log' \in [Pid -> Launch] /\ drops' \in 0 .. MaxDrops
    BY <1>7, PullStderrEffect
  <2>4. pc' = "dump" /\ UNCHANGED <<app, n, c, retries, proc, mark, dumps, shot, ev, recvd, out>>
    BY <1>7, PullStderrEffect
  <2>5. QED
    BY <2>2, <2>3, <2>4 DEF Evidences
<1>8. CASE PullDump
  <2>1. kept' = kept \/ \E p \in Picture : kept' = WithCrash(p)
    BY <1>8, PullDumpEffect DEF OwnDumps, Picture
  <2>2. kept' \in [App -> Evidences]
    BY <2>1, <1>0, FiledTypes
  <2>3. QED
    BY <1>8, <2>2, PullDumpEffect DEF Evidences
<1>9. CASE PullMaps
  <2>1. kept' = kept \/ \E p \in Picture : kept' = WithMaps(p)
    BY <1>9, PullMapsEffect DEF Picture
  <2>2. kept' \in [App -> Evidences]
    BY <2>1, <1>0, FiledTypes
  <2>3. QED
    BY <1>9, <2>2, PullMapsEffect DEF Evidences
<1>10. CASE Stop
  BY <1>10, StopEffect DEF OutAfter
<1>11. ASSUME NEW p \in Pid, Crash(p) PROVE TypeOK'
  BY <1>11 DEF Crash
<1>12. CASE UNCHANGED vars
  BY <1>12 DEF vars
<1>13. QED
  BY <1>1, <1>2, <1>3, <1>4, <1>5, <1>6, <1>7, <1>8, <1>9, <1>10, <1>11, <1>12 DEF Next

\* Files, processes and pids keep their ranges through every launch and every crash.
THEOREM EvidenceTypeOK == Spec => []TypeOK
BY EvidenceTypeInit, EvidenceTypeStep, PTL DEF Spec

-----------------------------------------------------------------------------
(* The other parts *)

LEMMA IInvInit == Init => IInv
BY EvidenceTypeInit, EvidenceAssumption
DEF Init, IInv, Counted, MarkPlace, ProcPlace, DumpPlace, MapPlace, LogPlace,
    Sampling, Launch

LEMMA MarkPlaceStep == IInv /\ [Next]_vars => Counted' /\ MarkPlace'
<1> SUFFICES ASSUME IInv, [Next]_vars PROVE Counted' /\ MarkPlace'
  OBVIOUS
<1> USE EvidenceAssumption DEF IInv, TypeOK, Counted, MarkPlace, Launch, Dropped, board, host
<1>1. CASE Begin
  BY <1>1, BeginEffect
<1>2. CASE CleanBoard
  BY <1>2 DEF CleanBoard
<1>3. CASE Probe
  BY <1>3, ProbeEffect
<1>4. CASE Sample
  BY <1>4, SampleEffect
<1>5. CASE Snapshot \/ Receive
  BY <1>5, SnapshotEffect, ReceiveEffect
<1>6. CASE PullStderr \/ PullDump
  BY <1>6, PullStderrEffect, PullDumpEffect
<1>7. CASE PullMaps
  BY <1>7, PullMapsEffect
<1>8. CASE Stop
  BY <1>8, StopEffect
<1>9. ASSUME NEW p \in Pid, Crash(p) PROVE Counted' /\ MarkPlace'
  BY <1>9 DEF Crash
<1>10. CASE UNCHANGED vars
  BY <1>10 DEF vars
<1>11. QED
  BY <1>1, <1>2, <1>3, <1>4, <1>5, <1>6, <1>7, <1>8, <1>9, <1>10 DEF Next

\* Where processes run, and so what a crash is recorded of.
LEMMA ProcPlaceStep == IInv /\ [Next]_vars => ProcPlace'
<1> SUFFICES ASSUME IInv, [Next]_vars PROVE ProcPlace'
  OBVIOUS
<1> USE EvidenceAssumption DEF IInv, TypeOK, ProcPlace, Launch, Dropped, board, host
<1>1. CASE Begin
  BY <1>1, BeginEffect
<1>2. CASE CleanBoard
  BY <1>2 DEF CleanBoard
<1>3. CASE Probe
  BY <1>3, ProbeEffect DEF Counted
<1>4. CASE Sample
  BY <1>4, SampleEffect
<1>5. CASE Snapshot \/ Receive
  BY <1>5, SnapshotEffect, ReceiveEffect
<1>6. CASE PullStderr \/ PullDump
  BY <1>6, PullStderrEffect, PullDumpEffect
<1>7. CASE PullMaps
  BY <1>7, PullMapsEffect
<1>8. CASE Stop
  BY <1>8, StopEffect
<1>9. ASSUME NEW p \in Pid, Crash(p) PROVE ProcPlace'
  BY <1>9 DEF Crash
<1>10. CASE UNCHANGED vars
  BY <1>10 DEF vars
<1>11. QED
  BY <1>1, <1>2, <1>3, <1>4, <1>5, <1>6, <1>7, <1>8, <1>9, <1>10 DEF Next

LEMMA DumpPlaceStep == IInv /\ [Next]_vars => DumpPlace'
<1> SUFFICES ASSUME IInv, [Next]_vars PROVE DumpPlace'
  OBVIOUS
<1> USE EvidenceAssumption DEF IInv, TypeOK, DumpPlace, Launch, Dropped, board, host
<1>1. CASE Begin
  BY <1>1, BeginEffect
<1>2. CASE CleanBoard
  BY <1>2 DEF CleanBoard
<1>3. CASE Probe
  BY <1>3, ProbeEffect
<1>4. CASE Sample
  BY <1>4, SampleEffect
<1>5. CASE Snapshot \/ Receive
  BY <1>5, SnapshotEffect, ReceiveEffect
<1>6. CASE PullStderr \/ PullDump
  BY <1>6, PullStderrEffect, PullDumpEffect
<1>7. CASE PullMaps
  BY <1>7, PullMapsEffect
<1>8. CASE Stop
  BY <1>8, StopEffect
<1>9. ASSUME NEW p \in Pid, Crash(p) PROVE DumpPlace'
  BY <1>9 DEF Crash, ProcPlace
<1>10. CASE UNCHANGED vars
  BY <1>10 DEF vars
<1>11. QED
  BY <1>1, <1>2, <1>3, <1>4, <1>5, <1>6, <1>7, <1>8, <1>9, <1>10 DEF Next

LEMMA MapPlaceStep == IInv /\ [Next]_vars => MapPlace'
<1> SUFFICES ASSUME IInv, [Next]_vars PROVE MapPlace'
  OBVIOUS
<1> USE EvidenceAssumption DEF IInv, TypeOK, MapPlace, Sampling, Launch, Dropped, board, host
<1>1. CASE Begin
  BY <1>1, BeginEffect
<1>2. CASE CleanBoard
  BY <1>2 DEF CleanBoard
<1>3. CASE Probe
  BY <1>3, ProbeEffect
<1>4. CASE Sample
  BY <1>4, SampleEffect
<1>5. CASE Snapshot \/ Receive
  BY <1>5, SnapshotEffect, ReceiveEffect
<1>6. CASE PullStderr \/ PullDump
  BY <1>6, PullStderrEffect, PullDumpEffect
<1>7. CASE PullMaps
  BY <1>7, PullMapsEffect
<1>8. CASE Stop
  BY <1>8, StopEffect
<1>9. ASSUME NEW p \in Pid, Crash(p) PROVE MapPlace'
  BY <1>9 DEF Crash
<1>10. CASE UNCHANGED vars
  BY <1>10 DEF vars
<1>11. QED
  BY <1>1, <1>2, <1>3, <1>4, <1>5, <1>6, <1>7, <1>8, <1>9, <1>10 DEF Next

\* Only the probe writes logs, of the launch in hand; only the pull drops one.
LEMMA LogPlaceStep == IInv /\ [Next]_vars => LogPlace'
<1> SUFFICES ASSUME IInv, [Next]_vars PROVE LogPlace'
  OBVIOUS
<1> USE EvidenceAssumption DEF IInv, TypeOK, LogPlace, Launch, board, host
<1>1. CASE Begin
  BY <1>1, BeginEffect
<1>2. CASE Probe
  BY <1>2, ProbeEffect
<1>3. CASE PullStderr
  BY <1>3, PullStderrEffect
<1>4. CASE UNCHANGED <<c, n, log>>
  BY <1>4
<1>5. QED
  BY <1>1, <1>2, <1>3, <1>4
  DEF Next, vars, CleanBoard, Sample, Snapshot, Receive, PullDump, PullMaps, Stop, Crash

\* What is on the board at each point of a launch, as long as every command is answered.
THEOREM EvidenceInvariant == Spec => []IInv
<1>1. IInv /\ [Next]_vars => IInv'
  BY EvidenceTypeStep, MarkPlaceStep, ProcPlaceStep, DumpPlaceStep, MapPlaceStep,
     LogPlaceStep
  DEF IInv
<1>2. QED
  BY <1>1, IInvInit, PTL DEF Spec

-----------------------------------------------------------------------------
(* What follows from it. *)

\* While every board command is answered, nothing of a launch runs after it.
THEOREM EvidenceNothingLeftRunning == Spec => []NothingLeftRunning
<1>1. IInv => NothingLeftRunning
  BY DEF IInv, ProcPlace, NothingLeftRunning
<1>2. QED
  BY <1>1, EvidenceInvariant, PTL

\* One file of one app is replaced, by what is pulled.
LEMMA FiledAlone ==
  ASSUME TypeOK, NEW a \in App
  PROVE  /\ \A l \in Text : /\ WithStderr(l)[a].jpeg = kept[a].jpeg
                             /\ WithStderr(l)[a].crash = kept[a].crash
                             /\ WithStderr(l)[a].maps = kept[a].maps
                             /\ WithStderr(l)[app].stderr = l
                             /\ WithStderr(l)[a].stderr \in {kept[a].stderr, l}
         /\ \A p \in Picture : /\ WithJpeg(p)[a].stderr = kept[a].stderr
                                /\ WithJpeg(p)[a].jpeg \in {kept[a].jpeg, p}
                                /\ WithJpeg(p)[a].crash = kept[a].crash
                                /\ WithJpeg(p)[a].maps = kept[a].maps
         /\ \A p \in Picture : /\ WithCrash(p)[a].stderr = kept[a].stderr
                                /\ WithCrash(p)[a].jpeg = kept[a].jpeg
                                /\ WithCrash(p)[a].crash \in {kept[a].crash, p}
                                /\ WithCrash(p)[a].maps = kept[a].maps
         /\ \A p \in Picture : /\ WithMaps(p)[a].stderr = kept[a].stderr
                                /\ WithMaps(p)[a].jpeg = kept[a].jpeg
                                /\ WithMaps(p)[a].crash = kept[a].crash
                                /\ WithMaps(p)[a].maps \in {kept[a].maps, p}
<1> USE DEF TypeOK
<1>1. ASSUME NEW l \in Text
      PROVE  /\ WithStderr(l)[a].jpeg = kept[a].jpeg
             /\ WithStderr(l)[a].crash = kept[a].crash
             /\ WithStderr(l)[a].maps = kept[a].maps
             /\ WithStderr(l)[app].stderr = l
             /\ WithStderr(l)[a].stderr \in {kept[a].stderr, l}
  BY DEF WithStderr
<1>2. ASSUME NEW p \in Picture
      PROVE  /\ WithJpeg(p)[a].stderr = kept[a].stderr
             /\ WithJpeg(p)[a].jpeg \in {kept[a].jpeg, p}
             /\ WithJpeg(p)[a].crash = kept[a].crash
             /\ WithJpeg(p)[a].maps = kept[a].maps
  BY DEF WithJpeg
<1>3. ASSUME NEW p \in Picture
      PROVE  /\ WithCrash(p)[a].stderr = kept[a].stderr
             /\ WithCrash(p)[a].jpeg = kept[a].jpeg
             /\ WithCrash(p)[a].crash \in {kept[a].crash, p}
             /\ WithCrash(p)[a].maps = kept[a].maps
  BY DEF WithCrash
<1>4. ASSUME NEW p \in Picture
      PROVE  /\ WithMaps(p)[a].stderr = kept[a].stderr
             /\ WithMaps(p)[a].jpeg = kept[a].jpeg
             /\ WithMaps(p)[a].crash = kept[a].crash
             /\ WithMaps(p)[a].maps \in {kept[a].maps, p}
  BY DEF WithMaps
<1>5. QED
  BY <1>1, <1>2, <1>3, <1>4

\* The log is of this launch, the picture the one the board holds, the sampler's map of
\* this launch unless two commands were lost, and the dump taken is one of a process that
\* crashed in it.
LEMMA FiledOwnStep ==
  ASSUME IInv, Next, NEW a \in App
  PROVE  /\ kept'[a].stderr # kept[a].stderr => kept'[a].stderr.of \in {0, n}
         /\ kept'[a].jpeg # kept[a].jpeg /\ shot = n => kept'[a].jpeg.of = n
         /\ kept'[a].maps # kept[a].maps /\ drops' <= 1 =>
              kept'[a].maps.of = kept'[a].maps.at
         /\ kept'[a].crash # kept[a].crash /\ drops' = 0 =>
              kept'[a].crash.of = kept'[a].crash.at
<1> DEFINE Goal == /\ kept'[a].stderr # kept[a].stderr => kept'[a].stderr.of \in {0, n}
                   /\ kept'[a].jpeg # kept[a].jpeg /\ shot = n => kept'[a].jpeg.of = n
                   /\ kept'[a].maps # kept[a].maps /\ drops' <= 1 =>
                        kept'[a].maps.of = kept'[a].maps.at
                   /\ kept'[a].crash # kept[a].crash /\ drops' = 0 =>
                        kept'[a].crash.of = kept'[a].crash.at
<1>0. TypeOK /\ drops \in Nat /\ n \in Launch /\ n \in Int
  BY EvidenceAssumption DEF IInv, TypeOK, Launch
<1>1. CASE Receive
  <2>1. kept' = kept \/ (recvd' = [of |-> shot, at |-> n] /\ kept' = WithJpeg(recvd'))
    BY <1>1, ReceiveEffect
  <2>2. [of |-> shot, at |-> n] \in Picture
    BY <1>0 DEF Picture, TypeOK
  <2>3. CASE kept' = kept
    BY <2>3
  <2>4. CASE recvd' = [of |-> shot, at |-> n] /\ kept' = WithJpeg(recvd')
    <3>1. recvd' \in Picture /\ recvd'.of = shot
      BY <2>2, <2>4
    <3>2. /\ kept'[a].jpeg \in {kept[a].jpeg, recvd'} /\ kept'[a].stderr = kept[a].stderr
          /\ kept'[a].crash = kept[a].crash /\ kept'[a].maps = kept[a].maps
      BY <1>0, <2>4, <3>1, FiledAlone, Zenon
    <3>3. QED
      BY <3>1, <3>2
  <2>5. QED
    BY <2>1, <2>3, <2>4
<1>2. CASE PullStderr
  <2>1. \/ kept' = kept
        \/ c # NoPid /\ \E s \in Text : s.of \in {0, log[c]} /\ kept' = WithStderr(s)
    BY <1>0, <1>2, PullStderrEffect, Zenon
  <2>2. CASE kept' = kept
    BY <2>2
  <2>3. ASSUME c # NoPid, NEW s \in Text, s.of \in {0, log[c]}, kept' = WithStderr(s)
        PROVE  Goal
    <3>1. s.of \in {0, n}
      BY <2>3 DEF IInv, LogPlace
    <3>2. /\ kept'[a].stderr \in {kept[a].stderr, s} /\ kept'[a].jpeg = kept[a].jpeg
          /\ kept'[a].crash = kept[a].crash /\ kept'[a].maps = kept[a].maps
      BY <1>0, <2>3, FiledAlone, Zenon
    <3>3. QED
      BY <3>1, <3>2
  <2>4. QED
    BY <2>1, <2>2, <2>3
<1>3. CASE PullDump
  <2>1. kept' = kept \/ \E d \in OwnDumps : kept' = WithCrash([of |-> d.of, at |-> n])
    BY <1>3, PullDumpEffect
  <2>2. CASE kept' = kept
    BY <2>2
  <2>3. ASSUME NEW d \in OwnDumps, kept' = WithCrash([of |-> d.of, at |-> n]) PROVE Goal
    <3> DEFINE p == [of |-> d.of, at |-> n]
    <3>1. d \in dumps /\ d.at \in Int /\ d.at >= mark
      BY <1>0 DEF OwnDumps, TypeOK, Launch
    <3>2. p \in Picture /\ p.of = d.of /\ p.at = n
      BY <1>0, <3>1 DEF Picture, TypeOK
    <3>3. /\ kept'[a].crash \in {kept[a].crash, p}
          /\ kept'[a].stderr = kept[a].stderr /\ kept'[a].jpeg = kept[a].jpeg
          /\ kept'[a].maps = kept[a].maps
      BY <1>0, <2>3, <3>2, FiledAlone, Zenon
    <3>4. drops' = 0 => drops = 0
      BY <1>0, <1>3, PullDumpEffect DEF Dropped
    <3>5. drops = 0 => d.of = n
      BY <1>0, <1>3, <3>1, PullDumpEffect DEF IInv, MarkPlace, DumpPlace
    <3> HIDE DEF p
    <3>6. QED
      BY <3>2, <3>3, <3>4, <3>5
  <2>4. QED
    BY <2>1, <2>2, <2>3
<1>4. CASE PullMaps
  <2>1. \/ kept' = kept
        \/ /\ c # NoPid /\ ev[c] # 0
           /\ kept' = WithMaps([of |-> ev[c], at |-> n])
    BY <1>4, PullMapsEffect
  <2>2. CASE kept' = kept
    BY <2>2
  <2>3. CASE c # NoPid /\ ev[c] # 0 /\ kept' = WithMaps([of |-> ev[c], at |-> n])
    <3> DEFINE p == [of |-> ev[c], at |-> n]
    <3>1. p \in Picture /\ p.of = ev[c] /\ p.at = n
      BY <1>0, <2>3 DEF Picture, TypeOK
    <3>2. /\ kept'[a].maps \in {kept[a].maps, p}
          /\ kept'[a].stderr = kept[a].stderr /\ kept'[a].jpeg = kept[a].jpeg
          /\ kept'[a].crash = kept[a].crash
      BY <1>0, <2>3, <3>1, FiledAlone, Zenon
    <3>3. drops' <= 1 => drops <= 1
      BY <1>0, <1>4, PullMapsEffect DEF Dropped
    <3>4. drops <= 1 => ev[c] = n
      BY <1>4, <2>3, PullMapsEffect DEF IInv, MapPlace, Sampling
    <3> HIDE DEF p
    <3>5. QED
      BY <3>1, <3>2, <3>3, <3>4
  <2>4. QED
    BY <2>1, <2>2, <2>3
<1>5. CASE UNCHANGED kept
  BY <1>5
<1>6. QED
  BY <1>1, <1>2, <1>3, <1>4, <1>5
  DEF Next, Begin, CleanBoard, Probe, Sample, Snapshot, Stop, Crash, host

\* What is filed in a launch is of that launch: the log always, the picture once the board
\* holds one of the launch, the sampled map also when one board command went unanswered,
\* the crash dump while all are answered.
THEOREM EvidenceFiledIsOwn == Spec => FiledIsOwn
<1> DEFINE Own == \A a \in App :
       /\ kept'[a].stderr # kept[a].stderr => kept'[a].stderr.of \in {0, n}
       /\ kept'[a].jpeg # kept[a].jpeg /\ shot = n => kept'[a].jpeg.of = n
       /\ kept'[a].maps # kept[a].maps /\ drops' <= 1 => kept'[a].maps.of = kept'[a].maps.at
       /\ kept'[a].crash # kept[a].crash /\ drops' = 0 => kept'[a].crash.of = kept'[a].crash.at
<1>1. IInv /\ [Next]_vars => [Own]_vars
  <2> SUFFICES ASSUME IInv, Next PROVE Own
    OBVIOUS
  <2>1. QED
    BY FiledOwnStep
<1>2. QED
  BY <1>1, EvidenceInvariant, PTL DEF Spec, FiledIsOwn

\* What is deleted is in hand: the board's copy of a log goes only when the tag holds text
\* of that log, all of it if the pull was answered, the launcher's output only when its
\* app's log is kept or the app is launched again.
THEOREM EvidenceNothingDroppedUnseen == Spec => NothingDroppedUnseen
<1> DEFINE LogInHand == \A p \in Pid : log'[p] = 0 /\ log[p] # 0 =>
                          /\ kept'[app].stderr.of = log[p]
                          /\ drops' = drops => kept'[app].stderr.whole
           OutInHand == \A a \in App : out[a] # 0 /\ out'[a] # out[a] =>
                          kept[a].stderr.of # 0 \/ (pc = "probe" /\ a = app)
<1>1. IInv /\ [Next]_vars => [LogInHand /\ OutInHand]_vars
  <2> SUFFICES ASSUME IInv, Next PROVE LogInHand /\ OutInHand
    OBVIOUS
  <2> USE EvidenceAssumption DEF IInv, TypeOK, Launch
  <2>1. CASE Probe
    <3>1. n # 0
      BY <2>1, ProbeEffect DEF Counted
    <3>2. LogInHand
      BY <2>1, <3>1, ProbeEffect
    <3>3. OutInHand
      BY <2>1, ProbeEffect
    <3>4. QED
      BY <3>2, <3>3
  <2>2. CASE PullStderr
    <3>1. OutInHand
      BY <2>2, PullStderrEffect
    <3>2. ASSUME NEW p \in Pid, log'[p] = 0, log[p] # 0
          PROVE  /\ kept'[app].stderr.of = log[p]
                 /\ drops' = drops => kept'[app].stderr.whole
      <4>1. PICK s \in Text :
              /\ c # NoPid /\ s.of \in {0, log[c]} /\ (drops' = drops => s.whole)
              /\ kept' = WithStderr(s)
              /\ \/ log' = log
                 \/ log' = [log EXCEPT ![c] = 0] /\ kept'[app].stderr.of # 0
        BY <2>2, <3>2, PullStderrEffect
      <4>2. p = c /\ kept'[app].stderr.of # 0
        BY <3>2, <4>1
      <4>3. kept'[app].stderr = s
        BY <4>1, FiledAlone, Zenon
      <4>4. QED
        BY <4>1, <4>2, <4>3
    <3>3. QED
      BY <3>1, <3>2
  <2>3. CASE Stop
    BY <2>3, StopEffect DEF OutAfter
  <2>4. CASE UNCHANGED <<log, out>>
    BY <2>4
  <2>5. QED
    BY <2>1, <2>2, <2>3, <2>4
    DEF Next, Begin, CleanBoard, Sample, Snapshot, Receive, PullDump, PullMaps, Crash, host, board
<1>2. QED
  BY <1>1, EvidenceInvariant, PTL DEF Spec, NothingDroppedUnseen

=============================================================================
