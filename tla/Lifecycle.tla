----------------------------- MODULE Lifecycle -----------------------------
(***************************************************************************)
(* How far a launch got, and what stopped it (lifecycle.py): the rung and  *)
(* the first blocker of its log, corrected step by step by the screenshot  *)
(* and by the evidence beside the log (RunEvidence).  The log is the       *)
(* sequence of its lines that some pattern matches, by the pattern.        *)
(***************************************************************************)
EXTENDS RunEvidence

CONSTANT Pages   \* the host's own pages, which a screenshot is compared with

NoBlocker == "none"
Drawing == 5   View == 4

-----------------------------------------------------------------------------
(* The log alone: score() *)

\* The lines that mark the rungs from 1; a view shows that an activity was started, too.
Markers == <<{"init"}, {"bound"}, {"unable", "decor"}, {"decor"}>>
Progress == {"bound", "decor", "relayout"}

\* Drawing: relayouts, and no window held back after which none swapped a frame.
Drew(log) ==
  LET held == {i \in DOMAIN log : log[i].k \in {"held", "heldother"}}
  IN  /\ FirstOf(log, "relayout") # 0
      /\ held = {} \/ LastOf(log, "swap") > Max(held)

Passed(log, rung) ==
  \/ rung = 0
  \/ rung \in DOMAIN Markers /\ \E i \in DOMAIN log : log[i].k \in Markers[rung]
  \/ rung = Drawing /\ Drew(log)

RungOf(log) == Max({r \in 0 .. Drawing : Passed(log, r)})
Skipped(log) == {r \in 0 .. RungOf(log) : ~Passed(log, r)}

\* The blocker patterns in their order, by category.
Patterns == <<"service", "native", "unable", "held", "uncaught", "fatal">>
Category == [service |-> "system-services", native |-> "native-upcalls",
             unable |-> "app-framework", held |-> "app-framework",
             uncaught |-> "app-framework", fatal |-> "native-crash"]

\* A missing native is survived by progress, a window held back by a frame.
Survived(log, i) ==
  \E j \in i + 1 .. Len(log) :
    \/ log[i].k = "native" /\ log[j].k \in Progress
    \/ log[i].k = "held" /\ log[j].k = "swap"

Match(log, k) ==
  SelectInSeq([i \in DOMAIN log |-> log[i].k = k /\ ~Survived(log, i)], LAMBDA b : b)

Earliest(matches) == Min({m \in Range(matches) : m # 0})

FirstBlocker(log) ==
  LET matches == [k \in DOMAIN Patterns |-> Match(log, Patterns[k])]
  IN  IF \A k \in DOMAIN matches : matches[k] = 0 THEN 0 ELSE Earliest(matches)

\* The line of the deepest cause of the first fatal exception: the last one named
\* before the chain is told again.  A failed bind names a cause on its own line.
RootCause(log) ==
  LET start == SelectInSeq(log, LAMBDA l : l.k \in {"uncaught", "bindfailed"})
      Naming == {"cause", "bindfailed", "retold"}
      named == SelectInSubSeq(log, Max({1, start}), Len(log), LAMBDA l : l.k \in Naming)
      again == SelectInSubSeq(log, named + 1, Len(log), LAMBDA l : l.k \in Naming \ {"cause"})
      chain == {i \in named .. (IF again = 0 THEN Len(log) ELSE again - 1) :
                  i > 0 /\ log[i].k \in Naming}
  IN  IF start = 0 \/ named = 0 THEN start ELSE Max(chain)

Scored(log) ==
  LET at == FirstBlocker(log)  fatal == Cardinality({i \in DOMAIN log : log[i].k = "fatal"})
  IN  [rung |-> RungOf(log), fatal |-> fatal, lines |-> Len(log),
       blocker  |-> IF at = 0 THEN NoBlocker ELSE log[at].k,
       category |-> IF at = 0 THEN NoBlocker ELSE Category[log[at].k],
       blocking |-> ~(RungOf(log) = Drawing /\ fatal = 0),
       anomaly  |-> Skipped(log) # {}]

-----------------------------------------------------------------------------
(* The screenshot.  A shot has its average distance to each page and whether  *)
(* a band of it is far off; the pages of a run are those most shots show bare.*)

Against(shot, page) ==
  IF shot[page].average >= 2 THEN "app" ELSE IF shot[page].band THEN "partial" ELSE "host"

RunPages(shots) ==
  LET bare(page) == Cardinality({i \in DOMAIN shots : Against(shots[i], page) = "host"})
      most == Max({bare(page) : page \in Pages})
  IN  IF most = 0 THEN Pages ELSE {page \in Pages : bare(page) = most}

ScreenState(shot, pages) ==
  LET nearest == CHOOSE p \in pages : \A q \in pages : shot[p].average <= shot[q].average
  IN  Against(shot, nearest)

WithScreen(s, screen) ==
  IF s.rung # Drawing THEN s
  ELSE CASE screen = "host" -> [s EXCEPT !.rung = View, !.blocking = TRUE, !.anomaly = TRUE]
         [] screen = "partial" -> [s EXCEPT !.anomaly = TRUE]
         [] OTHER -> s

-----------------------------------------------------------------------------
(* add_evidence(): a reading takes the blocker's place if there is none, if   *)
(* it is one of the readings that explain a stop least, or if it is no reason *)
(* for the stop.                                                              *)

Yields(s, readings) == s.blocker = NoBlocker \/ s.category \in readings \/ ~s.blocking
Blame(s, category) ==
  [s EXCEPT !.category = category, !.blocker = category, !.blocking = TRUE]

OwnDump(e) == e.dump # Nothing /\ ~DumpPredates(e.dump.written, e.hilog)

WithDump(s, e) ==
  IF ~OwnDump(e) THEN s
  ELSE LET dead == [s EXCEPT !.fatal = Max({1, @})]
       IN  IF Yields(s, {"stall"}) THEN [Blame(dead, "native-crash") EXCEPT !.blocker = DumpKind(e.dump)]
           ELSE dead

OnScreen(screen) == screen \in {"app", "partial"}

FrameTarget_Always(screen) == Drawing
FrameTarget(screen) == IF OnScreen(screen) THEN Drawing ELSE View

\* The first frame that the hilog reports counts as drawing, while it is on screen.
WithFrame(s, e) ==
  IF StartupTime(e.hilog, "frame") = Nothing THEN s
  ELSE LET reached == FrameTarget(e.screen)
       IN  IF s.rung < reached
             THEN [s EXCEPT !.rung = reached, !.blocking = ~OnScreen(e.screen),
                            !.anomaly = @ \/ OnScreen(e.screen) \/ e.screen = "host"]
             ELSE [s EXCEPT !.anomaly = @ \/ e.screen = "host"]

WithTimeout(s, e) ==
  IF /\ StartupTime(e.hilog, "timeout") # Nothing /\ StartupTime(e.hilog, "frame") = Nothing
     /\ e.screen = "host" /\ Yields(s, {"stall"})
    THEN Blame(s, "no-frame") ELSE s

WithBuffers(s, e) ==
  IF /\ BufferFailures(e.hilog) # Nothing /\ BufferFailures(e.hilog).count >= 3
     /\ e.screen = "host" /\ Yields(s, {"stall", "no-frame"})
    THEN Blame(s, "window-buffers") ELSE s

WithLookups(s, e) ==
  IF /\ DlsymFailures(e.log, e.hilog) # <<>>
     /\ e.screen = "host" /\ Yields(s, {"stall", "no-frame"})
    THEN [Blame(s, "native-symbols") EXCEPT !.blocker = "dlsym"] ELSE s

Signal_AnyDump(e) == IF e.dump # Nothing THEN Nothing ELSE HilogSignal(e.hilog)
Signal(e) == IF OwnDump(e) THEN Nothing ELSE HilogSignal(e.hilog)

WithSignal(s, e) ==
  IF Signal(e) = Nothing THEN s
  ELSE LET dead == [s EXCEPT !.fatal = Max({1, @})]
       IN  IF Yields(s, {"stall"}) THEN Blame(dead, "native-crash") ELSE dead

\* An idle main thread explains only an app that does not draw.
WithThread(s, e) ==
  IF MainThread(e.threads) # Nothing /\ s.blocker = NoBlocker /\ s.rung # Drawing
    THEN [s EXCEPT !.category = "stall", !.blocker = "stall"] ELSE s

Finished(e) ==
  IF e.screen = "host" /\ ~OwnDump(e) /\ Signal(e) = Nothing THEN SelfFinish(e.hilog) ELSE Nothing

WithFinish(s, e) ==
  IF Finished(e) # Nothing /\ Yields(s, {"stall", "no-frame"}) THEN Blame(s, "self-finish") ELSE s

\* What is filed beside the score.
Beside(e) ==
  [cause    |-> RootCause(e.log),
   site     |-> CrashSite(e.log, e.maps),
   app      |-> IF OwnDump(e) THEN FirstAppFrame(e.dump) ELSE Nothing,
   nulls    |-> NullServices(e.log, e.hilog),
   refusals |-> ServiceRefusals(e.log, e.hilog),
   failures |-> ServiceFailures(e.hilog),
   witness  |-> IF Signal(e) = Nothing THEN Nothing ELSE Witnessed(e.log, e.maps, Signal(e).signal)]

\* The order of the readings.
AddEvidence_DumpLast(s, e) ==
  WithDump(WithFinish(WithThread(WithSignal(WithLookups(WithBuffers(WithTimeout(
    WithFrame(s, e), e), e), e), e), e), e), e)
AddEvidence(s, e) ==
  WithFinish(WithThread(WithSignal(WithLookups(WithBuffers(WithTimeout(WithFrame(
    WithDump(s, e), e), e), e), e), e), e), e)

\* The screenshot shows the app and nothing stopped it: it drew.
WithPicture(s, e) ==
  IF OnScreen(e.screen) /\ s.rung # Drawing /\ (s.blocker = NoBlocker \/ ~s.blocking)
    THEN [s EXCEPT !.rung = Drawing, !.blocking = FALSE, !.anomaly = TRUE] ELSE s

FinalScore(e) ==
  LET beside == Beside(e)
      score  == WithPicture(AddEvidence(WithScreen(Scored(e.log), e.screen), e), e)
  IN  [field \in DOMAIN score \cup DOMAIN beside |->
         IF field \in DOMAIN score THEN score[field] ELSE beside[field]]

-----------------------------------------------------------------------------
(* compare(): what became of an app from one round to the next *)

Verdict_RungFirst(was, is) == IF is.rung > was.rung THEN "advanced" ELSE "unchanged"
Verdict(was, is) ==
  IF is.rung > was.rung THEN "advanced"
  ELSE IF is.rung < was.rung THEN "regressed"
  ELSE IF \/ was.fatal # is.fatal \/ was.blocker # is.blocker
          \/ was.lines # 0 /\ 10 * Max({is.lines - was.lines, was.lines - is.lines}) >= was.lines
    THEN "same rung" ELSE "unchanged"
=============================================================================
