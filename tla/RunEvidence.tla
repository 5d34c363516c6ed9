---------------------------- MODULE RunEvidence ----------------------------
(***************************************************************************)
(* The readers of what a run leaves beside an app's log (evidence.py): the *)
(* process map, the dump OH wrote of a crash, ART's thread dumps, and the  *)
(* app's own hilog.  A text is the sequence of its lines that some reader  *)
(* looks for, records with a kind k and what the line is about in a; a     *)
(* hilog line also has the time `at` it was written.  The text keeps the   *)
(* time of the day of it, the stamps of a dump the day of the year too.    *)
(***************************************************************************)
EXTENDS Integers, SequencesExt

CONSTANTS
  Day,      \* seconds of a day
  Year,     \* days of a year
  Nothing   \* what a reader returns that finds nothing

ASSUME RunEvidenceAssumption == Day \in Nat \ {0} /\ Year \in Nat \ {0}

FirstOf(text, k) == SelectInSeq(text, LAMBDA l : l.k = k)
LastOf(text, k) == SelectLastInSeq(text, LAMBDA l : l.k = k)
About(text, k) == {text[i].a : i \in {j \in DOMAIN text : text[j].k = k}}

-----------------------------------------------------------------------------
(* The process map: each mapping has an address range [lo, hi), the file and  *)
(* the offset of lo in it.  The first mapping that holds an address counts.   *)

Place(address, maps) ==
  LET at == SelectInSeq(maps, LAMBDA m : m.lo <= address /\ address < m.hi)
  IN  IF at = 0 THEN Nothing
      ELSE [file |-> maps[at].file, offset |-> address - maps[at].lo + maps[at].off]

\* The first fatal signal, by the last pc that is printed after it.
CrashSite(log, maps) ==
  LET fatal == FirstOf(log, "fatal")  pc == LastOf(log, "pc")
  IN  IF fatal = 0 \/ pc < fatal THEN Nothing ELSE Place(log[pc].a, maps)

\* How far into a file its mappings reach.
Extent(file, maps) ==
  LET reach == {m.hi - m.lo + m.off : m \in {n \in Range(maps) : n.file = file}}
  IN  IF reach = {} THEN Nothing ELSE Max(reach)

-----------------------------------------------------------------------------
(* OH's crash dump: the signal, the pc register, its own map, and the frames  *)
(* of the thread at fault, each with file, pc and symbol ("" for none).       *)

CONSTANTS AppFiles,  \* files in the app's own directories
          NoFile,    \* a pc that is not mapped
          Unknown,   \* a pc the dumper cannot name
          Musl       \* the C library

\* The faulting frame of an app file is placed anew by the pc register.
FaultFrames(dump) ==
  IF dump.frames = <<>> \/ dump.frames[1].file \notin AppFiles THEN dump.frames
  ELSE LET placed == Place(dump.pc, dump.maps)
       IN  IF \/ placed = Nothing
              \/ placed.file \notin AppFiles
              \/ placed.offset = dump.frames[1].pc
             THEN dump.frames
             ELSE [dump.frames EXCEPT ![1] =
                     [file |-> placed.file, pc |-> placed.offset,
                      sym  |-> IF placed.file = @.file THEN @.sym ELSE ""]]

BeyondMapping(frame, maps) ==
  LET extent == Extent(frame.file, maps) IN extent # Nothing /\ frame.pc >= extent

\* What happened, by the shapes of the two top frames.
FrameAt(frames, i) ==
  IF Len(frames) < i THEN [file |-> Nothing, pc |-> -1, sym |-> ""] ELSE frames[i]
KindOf(top, caller, signal) ==
  LET init == caller.sym = "do_init_fini"
  IN  IF init /\ (top.file = NoFile \/ top.pc = 0) THEN "null-constructor"
      ELSE IF init /\ top.file = Unknown THEN "unrelocated-constructor"
      ELSE IF top.file = Musl /\ top.sym = "malloc" THEN "heap"
      ELSE IF signal = "SIGABRT" THEN "abort"
      ELSE IF top.file = NoFile /\ caller.file # Nothing THEN "null-call" ELSE "fault"
DumpKind(dump) == KindOf(FrameAt(FaultFrames(dump), 1), FrameAt(FaultFrames(dump), 2), dump.signal)

\* The library a fault is laid to: the first app frame.
AppFrame(frames, maps) ==
  LET app == SelectInSeq(frames, LAMBDA f : f.file \in AppFiles)
  IN  IF app = 0 THEN Nothing
      ELSE [file |-> frames[app].file, pc |-> frames[app].pc, beyond |-> BeyondMapping(frames[app], maps)]
FirstAppFrame(dump) == AppFrame(FaultFrames(dump), dump.maps)

-----------------------------------------------------------------------------
(* Times *)

Seconds(at) == at % Day
Stamp(at) == <<(at \div Day) % Year, at % Day>>
Before(s, t) == s[1] < t[1] \/ (s[1] = t[1] /\ s[2] < t[2])

\* A dump is an earlier process's if it was written before the app's first line.
DumpPredates(written, hilog) ==
  /\ hilog # <<>>
  /\ LET start == Stamp(hilog[1].at)
     IN  Before(Stamp(written), <<start[1], start[2] - 1>>)

\* The last signal that was passed on ended the process if nothing was logged two
\* seconds later.
SilentAfter_Ever(hilog, i) == TRUE
SilentAfter(hilog, i) == Seconds(hilog[Len(hilog)].at) - Seconds(hilog[i].at) <= 2

HilogSignal(hilog) ==
  LET at == LastOf(hilog, "passed")
  IN  IF at = 0 \/ ~SilentAfter(hilog, at) THEN Nothing
      ELSE [signal |-> hilog[at].a, at |-> at]

\* Seconds from the start of the process to the first mark of each kind after it.
StartupTime(hilog, mark) ==
  LET start == FirstOf(hilog, "started")
      at == SelectInSubSeq(hilog, start + 1, Len(hilog), LAMBDA l : l.k = mark)
  IN  IF start = 0 \/ at = 0 THEN Nothing
      ELSE Seconds(hilog[at].at) - Seconds(hilog[start].at)

-----------------------------------------------------------------------------
(* What the platform refused, and what the app did *)

NullServices(log, hilog) == About(log, "null") \cup About(hilog, "null")
ServiceRefusals(log, hilog) == About(log, "refused") \cup About(hilog, "refused")
ServiceFailures(hilog) ==
  LET next(i) == SelectInSubSeq(hilog, i + 1, Min({i + 3, Len(hilog)}),
                                LAMBDA l : l.k \in {"failed", "cause"})
  IN  {hilog[next(i)].a : i \in {j \in DOMAIN hilog : hilog[j].k = "failed" /\ next(j) # 0}}

\* Refused requests on the window with the most of them, the first of equals.
BufferFailures(hilog) ==
  LET on(w) == {i \in DOMAIN hilog : hilog[i].k = "norequest" /\ hilog[i].a = w}
      most  == SelectInSeq(hilog, LAMBDA l : /\ l.k = "norequest"
                 /\ \A w \in About(hilog, "norequest") :
                      Cardinality(on(w)) <= Cardinality(on(l.a)))
  IN  IF most = 0 THEN Nothing
      ELSE [window |-> hilog[most].a, count |-> Cardinality(on(hilog[most].a))]

\* The names that were looked up in vain, in order; the HAL's own do not count.
DlsymFailures(log, hilog) ==
  LET lines == SelectSeq(log \o hilog, LAMBDA l : l.k = "nosymbol")
  IN  FoldLeft(LAMBDA seen, l : IF Contains(seen, l.a) THEN seen ELSE Append(seen, l.a),
               <<>>, lines)

\* The activity that resumed last finished itself.  Only the first finish of an
\* activity is kept.
LastResumed(hilog) == LastOf(hilog, "resumed")

SelfFinish(hilog) ==
  LET resumed  == LastResumed(hilog)
      finished == SelectInSeq(hilog, LAMBDA l : l.k = "finish" /\ l.a = hilog[resumed].a)
  IN  IF resumed = 0 \/ finished = 0 THEN Nothing ELSE hilog[resumed].a

\* The thread of the last dump that runs the app's main loop, else the one that is
\* named main, else tid 1; what it waits in.
MainThread(dumps) ==
  IF dumps = <<>> THEN Nothing
  ELSE LET threads == Last(dumps)
           which(P(_)) == SelectInSeq(threads, P)
           ranked == <<which(LAMBDA t : t.loop), which(LAMBDA t : t.main), which(LAMBDA t : t.tid1)>>
           found == SelectInSeq(ranked, LAMBDA i : i # 0)
       IN  IF found = 0 THEN Nothing ELSE threads[ranked[found]].waits

\* The shim's last witness of a signal on its thread: its pc, placed by the shim or else
\* by the map.
Witnessed(log, maps, signal) ==
  LET at == SelectLastInSeq(log, LAMBDA l : l.k = "witness" /\ l.a.signal = signal)
  IN  IF at = 0 THEN Nothing
      ELSE IF log[at].a.placed # Nothing THEN log[at].a.placed ELSE Place(log[at].a.pc, maps)
=============================================================================
