------------------------------ MODULE Evidence ------------------------------
(***************************************************************************)
(* The launches of one tag and the evidence run_apps.sh keeps of each: the *)
(* crash mark, the launcher and its retries (launch.sh), the samplers on   *)
(* the board, then the screenshot, the stderr log, the process's own crash *)
(* dump and its map, pulled one board command at a time; at last the app   *)
(* is stopped.  Any board command may go unanswered; pids repeat; an app   *)
(* without a stderr log is launched again by a later run of the tag.       *)
(* A file is named by the launch it came from, numbered from 1; 0: none.   *)
(***************************************************************************)
EXTENDS Integers, FiniteSets

CONSTANTS
  App,
  Pid,          \* the pids the board hands out
  NoPid,
  MaxLaunches,  \* bound: launches of all runs of the tag
  MaxDrops      \* bound: board commands that go unanswered

ASSUME EvidenceAssumption ==
  /\ NoPid \notin Pid
  /\ MaxLaunches \in Nat
  /\ MaxDrops \in Nat

Launch == 0 .. MaxLaunches

VARIABLES
  pc,       \* where run_apps.sh is in its loop
  app,      \* the app of the current launch
  n,        \* its number
  c,        \* the child pid the launcher's log names, or NoPid
  retries,  \* times launch.sh has launched it again
  drops,
  \* the board
  proc,     \* [Pid -> the launch whose process runs under it]
  mark,     \* ev-launch.mark: the launch that touched it last
  log,      \* [Pid -> the launch whose output adapter_child_<pid>.stderr holds]
  dumps,    \* crash dumps: pid, the launch of the process, the launch it crashed in
  shot,     \* rg.jpeg: the launch it was taken in
  ev,       \* [Pid -> the launch whose map ev-<pid>.maps holds]
  \* the host
  recvd,    \* $RECV/rg.jpeg: the launch it shows, and the launch that received it
  out,      \* [App -> the launch whose launcher output is kept]
  kept      \* [App -> the evidence under the tag]

board == <<proc, mark, log, dumps, shot, ev>>
host  == <<recvd, out, kept>>
vars  == <<pc, app, n, c, retries, drops, board, host>>

Picture == [of : Launch, at : Launch]
None    == [of |-> 0, at |-> 0]

\* A stderr log under the tag may be cut off; the empty one is all of nothing.
Text  == [of : Launch, whole : BOOLEAN]
NoLog == [of |-> 0, whole |-> TRUE]

Init ==
  /\ pc = "idle" /\ app \in App /\ n = 0 /\ c = NoPid /\ retries = 0 /\ drops = 0
  /\ proc = [p \in Pid |-> 0] /\ mark = 0 /\ log = [p \in Pid |-> 0]
  /\ dumps = {} /\ shot = 0 /\ ev = [p \in Pid |-> 0]
  /\ recvd = None /\ out = [a \in App |-> 0]
  /\ kept = [a \in App |-> [stderr |-> NoLog, jpeg |-> None, crash |-> None, maps |-> None]]

\* A board command is answered, or times out, done or not.
Answered(ok) ==
  /\ ok \in (IF drops < MaxDrops THEN BOOLEAN ELSE {TRUE})
  /\ drops' = IF ok THEN drops ELSE drops + 1

Outcomes(ok, done, undone) == IF ok THEN {done} ELSE {done, undone}

-----------------------------------------------------------------------------
(* run_apps.sh, one step per line that talks to the board *)

\* The round launches an app it holds no stderr log of; first the crash mark.
Begin ==
  /\ pc = "idle" /\ n < MaxLaunches
  /\ app' \in {a \in App : kept[a].stderr.of = 0}
  /\ n' = n + 1 /\ c' = NoPid /\ retries' = 0
  /\ \E ok \in BOOLEAN : Answered(ok) /\ mark' \in Outcomes(ok, n + 1, mark)
  /\ pc' = "clean"
  /\ UNCHANGED <<proc, log, dumps, shot, ev, host>>

\* launch.sh kills the spawners of earlier launches: what they had left goes, or
\* some of it stays.
CleanBoard ==
  /\ pc = "clean"
  /\ \E S \in SUBSET Pid : proc' = [p \in Pid |-> IF p \in S THEN 0 ELSE proc[p]]
  /\ pc' = "probe"
  /\ UNCHANGED <<app, n, c, retries, drops, mark, log, dumps, shot, ev, host>>

\* launch.sh: the launcher starts a process on the board and names it in its log,
\* or fails; when its log says the board was not connected it is run again,
\* twice at most, and its log starts anew.  A process that a lost attempt started
\* stays on the board: that is one of the commands that went unanswered.
RetriesLeft == retries < 2

Probe ==
  /\ pc = "probe"
  /\ out' = [out EXCEPT ![app] = n]
  /\ \/ \E p \in {q \in Pid : proc[q] = 0} :
          /\ c' = p
          /\ proc' = [proc EXCEPT ![p] = n] /\ log' = [log EXCEPT ![p] = n]
     \/ c' = NoPid /\ UNCHANGED <<proc, log>>
  /\ \E ok \in BOOLEAN :
       /\ IF c' = NoPid THEN UNCHANGED drops ELSE Answered(ok)
       /\ IF ok \/ ~RetriesLeft
            THEN pc' = "sample" /\ UNCHANGED retries
            ELSE pc' = "probe" /\ retries' = retries + 1
  /\ UNCHANGED <<app, n, mark, dumps, shot, ev, recvd, kept>>

\* The map sampler: the map an earlier process of this pid left is removed first;
\* the sampler writes a new one, unless the process is gone before its first look.
MapBefore == 0

Sample ==
  /\ pc = "sample"
  /\ IF c = NoPid THEN UNCHANGED <<ev, drops>>
     ELSE \E ok \in BOOLEAN :
            /\ Answered(ok)
            /\ \E m \in {MapBefore} \cup (IF proc[c] # 0 THEN {n} ELSE {}) :
                 \E e \in Outcomes(ok, m, ev[c]) : ev' = [ev EXCEPT ![c] = e]
  /\ pc' = "snapshot"
  /\ UNCHANGED <<app, n, c, retries, proc, mark, log, dumps, shot, host>>

Snapshot ==
  /\ pc = "snapshot"
  /\ \E ok \in BOOLEAN : Answered(ok) /\ shot' \in Outcomes(ok, n, shot)
  /\ pc' = "receive"
  /\ UNCHANGED <<app, n, c, retries, proc, mark, log, dumps, ev, host>>

\* rm -f $RECV/rg.jpeg; file recv; cp.
BeforeReceive_Kept == recvd
BeforeReceive == None

Receive ==
  /\ pc = "receive"
  /\ \E ok \in BOOLEAN :
       /\ Answered(ok)
       /\ recvd' = IF ok /\ shot # 0 THEN [of |-> shot, at |-> n] ELSE BeforeReceive
  /\ kept' = IF recvd' = None THEN kept ELSE [kept EXCEPT ![app].jpeg = recvd']
  /\ pc' = "stderr"
  /\ UNCHANGED <<app, n, c, retries, board, out>>

\* The stderr log is pulled over the tag's copy: all of it, or, from a command that
\* timed out, nothing or as much as had come.  The board's copy is dropped when
\* something came.
Pulled(ok) ==
  IF log[c] = 0 THEN {NoLog}
  ELSE {[of |-> log[c], whole |-> TRUE]}
         \cup (IF ok THEN {} ELSE {NoLog, [of |-> log[c], whole |-> FALSE]})

Droppable_Always(s) == TRUE
Droppable(s) == s.of # 0

PullStderr ==
  /\ pc = "stderr"
  /\ IF c = NoPid THEN UNCHANGED <<kept, drops, log>>
     ELSE \E ok \in BOOLEAN :
            /\ Answered(ok)
            /\ \E s \in Pulled(ok) : kept' = [kept EXCEPT ![app].stderr = s]
            /\ log' \in IF Droppable(kept'[app].stderr)
                          THEN {log, [log EXCEPT ![c] = 0]} ELSE {log}
  /\ pc' = "dump"
  /\ UNCHANGED <<app, n, c, retries, proc, mark, dumps, shot, ev, recvd, out>>

\* Of the crash dumps of this pid newer than the mark, the first one found.
OwnDumps_AnyTime == {d \in dumps : d.pid = c}
OwnDumps == {d \in dumps : d.pid = c /\ mark # 0 /\ d.at >= mark}

PullDump ==
  /\ pc = "dump"
  /\ IF c = NoPid THEN UNCHANGED <<kept, drops>>
     ELSE \E ok \in BOOLEAN :
            /\ Answered(ok)
            /\ IF ok /\ OwnDumps # {}
                 THEN \E d \in OwnDumps :
                        kept' = [kept EXCEPT ![app].crash = [of |-> d.of, at |-> n]]
                 ELSE UNCHANGED kept
  /\ pc' = "maps"
  /\ UNCHANGED <<app, n, c, retries, board, recvd, out>>

\* The map, then the sampler's files are removed.
PullMaps ==
  /\ pc = "maps"
  /\ IF c = NoPid THEN UNCHANGED <<kept, drops, ev>>
     ELSE \E ok \in BOOLEAN :
            /\ Answered(ok)
            /\ kept' = IF ok /\ ev[c] # 0 THEN [kept EXCEPT ![app].maps = [of |-> ev[c], at |-> n]]
                                          ELSE kept
            /\ ev' \in Outcomes(ok, [ev EXCEPT ![c] = 0], ev)
  /\ pc' = "stop"
  /\ UNCHANGED <<app, n, c, retries, proc, mark, log, dumps, shot, recvd, out>>

\* Kill the child and its spawner; drop the launcher's output once a log is kept.
Killed_None(p) == proc
Killed(p) == [proc EXCEPT ![p] = 0]

OutAfter == IF kept[app].stderr.of # 0 THEN [out EXCEPT ![app] = 0] ELSE out

Stop ==
  /\ pc = "stop"
  /\ IF c = NoPid THEN UNCHANGED <<proc, drops>>
     ELSE \E ok \in BOOLEAN : Answered(ok) /\ proc' \in Outcomes(ok, Killed(c), proc)
  /\ out' = OutAfter
  /\ pc' = "idle"
  /\ UNCHANGED <<app, n, c, retries, mark, log, dumps, shot, ev, recvd, kept>>

\* A process crashes: it is gone, and faultloggerd writes its dump.
Crash(p) ==
  /\ proc[p] # 0
  /\ proc' = [proc EXCEPT ![p] = 0]
  /\ dumps' = dumps \cup {[pid |-> p, of |-> proc[p], at |-> n]}
  /\ UNCHANGED <<pc, app, n, c, retries, drops, mark, log, shot, ev, host>>

Next ==
  \/ Begin \/ CleanBoard \/ Probe \/ Sample \/ Snapshot \/ Receive \/ PullStderr \/ PullDump
  \/ PullMaps \/ Stop
  \/ \E p \in Pid : Crash(p)

Spec == Init /\ [][Next]_vars

-----------------------------------------------------------------------------
(* Properties *)

TypeOK ==
  /\ pc \in {"idle", "clean", "probe", "sample", "snapshot", "receive", "stderr", "dump",
             "maps", "stop"}
  /\ app \in App /\ n \in Launch /\ c \in Pid \cup {NoPid}
  /\ retries \in 0 .. 2 /\ drops \in 0 .. MaxDrops
  /\ proc \in [Pid -> Launch] /\ mark \in Launch /\ log \in [Pid -> Launch]
  /\ dumps \in SUBSET [pid : Pid, of : Launch, at : Launch]
  /\ shot \in Launch /\ ev \in [Pid -> Launch]
  /\ recvd \in Picture /\ out \in [App -> Launch]
  /\ kept \in [App -> [stderr : Text, jpeg : Picture, crash : Picture, maps : Picture]]

\* What is filed in a launch is of that launch, although pids repeat and one file
\* receives the pictures of all apps: the stderr log always; the picture once the
\* board holds one of this launch (before that, an older one is filed); the sampled
\* map also when one board command went unanswered; the crash dump while all are
\* answered.
FiledIsOwn ==
  [][\A a \in App :
       /\ kept'[a].stderr # kept[a].stderr => kept'[a].stderr.of \in {0, n}
       /\ kept'[a].jpeg # kept[a].jpeg /\ shot = n => kept'[a].jpeg.of = n
       /\ kept'[a].maps # kept[a].maps /\ drops' <= 1 => kept'[a].maps.of = kept'[a].maps.at
       /\ kept'[a].crash # kept[a].crash /\ drops' = 0 => kept'[a].crash.of = kept'[a].crash.at]_vars

\* What is deleted is in hand.  The board's copy of a log goes only when the tag holds
\* text of that very log, all of it if the pull was answered; the launcher's output
\* goes only when its app's log is kept, or the app is being launched again.
NothingDroppedUnseen ==
  [][/\ \A p \in Pid : log'[p] = 0 /\ log[p] # 0 =>
          /\ kept'[app].stderr.of = log[p]
          /\ drops' = drops => kept'[app].stderr.whole
     /\ \A a \in App : out[a] # 0 /\ out'[a] # out[a] =>
          kept[a].stderr.of # 0 \/ (pc = "probe" /\ a = app)]_vars

\* While every board command is answered, nothing of a launch runs after it.
NothingLeftRunning ==
  drops = 0 /\ pc = "idle" => \A p \in Pid : proc[p] = 0
=============================================================================
