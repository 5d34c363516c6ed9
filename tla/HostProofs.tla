----------------------------- MODULE HostProofs -----------------------------
(***************************************************************************)
(* Proofs about what the host works out: the scoring of a launch, for any  *)
(* logs, hilogs, dumps and screenshots (Scoring), and the map that a       *)
(* launcher is given, for any APK, tree and results (GapMap).              *)
(***************************************************************************)
EXTENDS Scoring, GapMap, FiniteSetTheorems, FunctionTheorems, SequenceTheorems, WellFoundedInduction, TLAPS

-----------------------------------------------------------------------------
(* Least and greatest numbers.  The library has it that < on the naturals is *)
(* well founded: so a set of them has a least, and what holds of each that   *)
(* it holds of all below holds of all.                                       *)

LEMMA LeastOfNat ==
  ASSUME NEW N \in SUBSET Nat, N # {}
  PROVE  \E m \in N : \A k \in N : m <= k
<1> DEFINE R == {p \in Nat \X Nat : p[1] < p[2]}
<1>1. IsWellFoundedOn(R, Nat) BY NatLessThanWellFounded DEF OpToRel
<1>2. PICK m \in N : \A k \in N : ~ (<<k, m>> \in R)
  <2> HIDE DEF R
  <2> QED BY <1>1, WFMin
<1>3. ASSUME NEW k \in N PROVE m <= k
  <2>1. k \in Nat /\ m \in Nat OBVIOUS
  <2>2. ~ (k < m) BY <1>2, <2>1
  <2> QED BY <2>1, <2>2
<1> QED BY <1>3

LEMMA GreatestUpTo ==
  ASSUME NEW n \in Nat, NEW N \in SUBSET (0 .. n), N # {}
  PROVE  \E m \in N : \A k \in N : k <= m
<1> DEFINE T == {n - k : k \in N}
<1>1. T \in SUBSET Nat /\ T # {}
  <2>1. \A k \in N : n - k \in Nat OBVIOUS
  <2> QED BY <2>1
<1>2. PICK t \in T : \A k \in T : t <= k
  <2> HIDE DEF T
  <2> QED BY <1>1, LeastOfNat
<1>3. PICK m \in N : t = n - m OBVIOUS
<1>4. ASSUME NEW k \in N PROVE k <= m
  <2>1. n - k \in T OBVIOUS
  <2>2. n - m <= n - k BY <1>2, <1>3, <2>1
  <2> QED BY <2>2
<1> QED BY <1>4

LEMMA MaxIs ==
  ASSUME NEW N, NEW m \in N, \A k \in N : k <= m, N \subseteq Int
  PROVE  Max(N) = m
<1>1. \A x \in N : (\A k \in N : x >= k) => x = m OBVIOUS
<1> QED BY <1>1 DEF Max

LEMMA MinIs ==
  ASSUME NEW N \in SUBSET Nat, N # {}
  PROVE  Min(N) \in N /\ \A k \in N : Min(N) <= k
BY LeastOfNat DEF Min

LEMMA MaxUpTo ==
  ASSUME NEW n \in Nat, NEW N \in SUBSET (0 .. n), N # {}
  PROVE  Max(N) \in N /\ \A k \in N : k <= Max(N)
<1>1. PICK m \in N : \A k \in N : k <= m BY GreatestUpTo
<1>2. N \subseteq Int OBVIOUS
<1>3. Max(N) = m BY <1>1, <1>2, MaxIs
<1> QED BY <1>1, <1>3
-----------------------------------------------------------------------------
(* The score of the log alone *)

Category_ == {"system-services", "native-upcalls", "app-framework", "native-crash"}

Reading_ == {"stall", "no-frame", "window-buffers", "native-symbols", "self-finish"}
Kind_ == {"null-constructor", "unrelocated-constructor", "heap", "abort", "null-call", "fault"}
Named_ == {"service", "native", "unable", "held", "uncaught", "fatal"}

Score == [rung : 0 .. Drawing, fatal : Nat, lines : Nat, blocking : BOOLEAN, anomaly : BOOLEAN,
          blocker : {NoBlocker, "dlsym"} \cup Named_ \cup Kind_ \cup Category_ \cup Reading_,
          category : {NoBlocker} \cup Category_ \cup Reading_]

\* Only a drawing app has a blocker that does not block, and a blocker has a category.
Sound(s) ==
  /\ s \in Score
  /\ ~ s.blocking => s.rung = Drawing
  /\ s.blocker = NoBlocker <=> s.category = NoBlocker

LEMMA MatchIsOfItsPattern ==
  ASSUME NEW log, log \in Seq(Range(log)), NEW k
  PROVE  Match(log, k) \in {i \in DOMAIN log : log[i].k = k} \cup {0}
<1> DEFINE f == [i \in DOMAIN log |-> log[i].k = k /\ ~ Survived(log, i)]
           I == {i \in 1 .. Len(f) : f[i]}
<1>1. DOMAIN log = 1 .. Len(log) /\ Len(log) \in Nat OBVIOUS
<1>2. f \in [1 .. Len(log) -> BOOLEAN] BY <1>1, Zenon
<1>3. Len(f) = Len(log)
  <2> HIDE DEF f
  <2>1. f \in Seq(BOOLEAN) BY <1>1, <1>2, SeqDef
  <2> QED BY <1>1, <1>2, <2>1
<1>4. Match(log, k) = IF I # {} THEN Min(I) ELSE 0 BY DEF Match, SelectInSeq
<1>5. I \subseteq {i \in DOMAIN log : log[i].k = k} BY <1>1, <1>3, Zenon
<1>6. I \in SUBSET Nat BY <1>1, <1>3
<1>7. I # {} => Min(I) \in I
  <2> HIDE DEF I
  <2> QED BY <1>6, MinIs
<1> HIDE DEF I
<1> QED BY <1>4, <1>5, <1>7

LEMMA FirstBlockerIs ==
  ASSUME NEW log, log \in Seq(Range(log))
  PROVE  FirstBlocker(log) \in {i \in DOMAIN log : log[i].k \in Range(Patterns)} \cup {0}
<1> DEFINE matches == [k \in DOMAIN Patterns |-> Match(log, Patterns[k])]
           M == {m \in Range(matches) : m # 0}
<1>1. \A k \in DOMAIN Patterns :
        matches[k] \in {i \in DOMAIN log : log[i].k = Patterns[k]} \cup {0}
  BY MatchIsOfItsPattern
<1>2. M \subseteq {i \in DOMAIN log : log[i].k \in Range(Patterns)}
  BY <1>1, Zenon DEF Range
<1>3. M \in SUBSET Nat BY <1>2
<1>4. M # {} => Min(M) \in M
  <2> HIDE DEF M
  <2> QED BY <1>3, MinIs
<1>5. CASE \A k \in DOMAIN matches : matches[k] = 0
  BY <1>5, Zenon DEF FirstBlocker
<1>6. CASE \E k \in DOMAIN matches : matches[k] # 0
  <2>1. M # {} BY <1>6, Zenon DEF Range
  <2>2. FirstBlocker(log) = Min(M) BY <1>6, Zenon DEF FirstBlocker, Earliest
  <2> HIDE DEF M
  <2> QED BY <2>1, <2>2, <1>2, <1>4
<1> QED BY <1>5, <1>6

LEMMA RungIs ==
  ASSUME NEW log
  PROVE  RungOf(log) \in 0 .. Drawing
<1> DEFINE R == {r \in 0 .. Drawing : Passed(log, r)}
<1>1. 0 \in R BY DEF Passed, Drawing
<1>2. R \in SUBSET (0 .. Drawing) /\ Drawing \in Nat BY DEF Drawing
<1>3. Max(R) \in R
  <2> HIDE DEF R
  <2> QED BY <1>1, <1>2, MaxUpTo
<1> QED BY <1>3 DEF RungOf

LEMMA ScoredIsSound ==
  ASSUME NEW log, log \in Seq(Range(log))
  PROVE  Sound(Scored(log)) /\ Scored(log).category \in Category_ \cup {NoBlocker}
<1> DEFINE at == FirstBlocker(log)
           F == {i \in DOMAIN log : log[i].k = "fatal"}
           blocking == ~ (RungOf(log) = Drawing /\ Cardinality(F) = 0)
           anomaly == Skipped(log) # {}
           blocker == IF at = 0 THEN NoBlocker ELSE log[at].k
           category == IF at = 0 THEN NoBlocker ELSE Category[log[at].k]
<1>1. Cardinality(F) \in Nat
  <2>1. F \in SUBSET (1 .. Len(log)) /\ Len(log) \in Nat OBVIOUS
  <2> HIDE DEF F
  <2>2. IsFiniteSet(1 .. Len(log)) BY <2>1, FS_Interval
  <2>3. IsFiniteSet(F) BY <2>1, <2>2, FS_Subset
  <2> QED BY <2>3, FS_CardinalityType
<1>2. at # 0 => log[at].k \in Named_
  <2>1. Range(Patterns) = Named_ BY DEF Range, Patterns, Named_
  <2> QED BY <2>1, FirstBlockerIs
<1>3. at # 0 => Category[log[at].k] \in Category_ BY <1>2 DEF Category, Category_, Named_
<1>4. Scored(log) = [rung |-> RungOf(log), fatal |-> Cardinality(F), lines |-> Len(log),
        blocker |-> blocker, category |-> category, blocking |-> blocking, anomaly |-> anomaly]
  BY Zenon DEF Scored
<1>5. RungOf(log) \in 0 .. Drawing /\ Len(log) \in Nat BY RungIs
<1>10. blocking \in BOOLEAN /\ anomaly \in BOOLEAN OBVIOUS
<1>7. ~ blocking => RungOf(log) = Drawing OBVIOUS
<1>8. blocker = NoBlocker <=> category = NoBlocker BY <1>2, <1>3 DEF Category_, Named_, NoBlocker
<1>9. category \in Category_ \cup {NoBlocker} BY <1>3
<1>11. blocker \in {NoBlocker} \cup Named_ BY <1>2
<1> HIDE DEF F, at, blocking, anomaly, blocker, category
<1>6. Scored(log) \in Score BY <1>1, <1>4, <1>5, <1>9, <1>10, <1>11 DEF Score
<1> QED BY <1>4, <1>6, <1>7, <1>8, <1>9, <1>10 DEF Sound

-----------------------------------------------------------------------------
(* The evidence laid over it *)

Screens == {"app", "partial", "host"}

\* What a reading may change: it never moves the rung, takes a signal back, or leaves a
\* launch without blocker that had one; and what it blames blocks.
Later(s, t) ==
  /\ t \in Score /\ t.rung = s.rung /\ t.fatal >= s.fatal
  /\ t.blocking \/ ~ s.blocking
  /\ s.blocker # NoBlocker => t.blocker # NoBlocker

LEMMA LaterIsTransitive ==
  ASSUME NEW s \in Score, NEW t, NEW u, Later(s, t), Later(t, u)
  PROVE  Later(s, u)
BY DEF Later, Score

LEMMA MaxWithOne ==
  ASSUME NEW n \in Nat
  PROVE  Max({1, n}) \in Nat /\ Max({1, n}) >= n /\ Max({1, n}) > 0
<1>1. CASE n <= 1
  <2>1. Max({1, n}) = 1 BY <1>1, MaxIs
  <2> QED BY <1>1, <2>1
<1>2. CASE ~ (n <= 1)
  <2>1. Max({1, n}) = n BY <1>2, MaxIs
  <2> QED BY <1>2, <2>1
<1> QED BY <1>1, <1>2

LEMMA BlameIsLater ==
  ASSUME NEW s \in Score, NEW c \in Category_ \cup Reading_
  PROVE  /\ Later(s, Blame(s, c))
         /\ Blame(s, c).fatal = s.fatal /\ Blame(s, c).blocking = TRUE
         /\ Blame(s, c).blocker = c /\ Blame(s, c).category = c
<1> DEFINE b == Blame(s, c)
<1>1. b = [s EXCEPT !.category = c, !.blocker = c, !.blocking = TRUE] BY DEF Blame
<1>2. c # NoBlocker BY DEF NoBlocker, Category_, Reading_
<1> HIDE DEF b
<1>3. /\ b.rung = s.rung /\ b.fatal = s.fatal /\ b.blocking = TRUE /\ b.blocker = c
      /\ b.category = c
  BY <1>1 DEF Score
<1>4. b \in Score BY <1>1 DEF Score
<1>5. Later(s, b) BY <1>2, <1>3, <1>4 DEF Later, Score
<1> QED BY <1>3, <1>5 DEF b

LEMMA DeadIsLater ==
  ASSUME NEW s \in Score
  PROVE  LET dead == [s EXCEPT !.fatal = Max({1, @})]
         IN  /\ Later(s, dead) /\ dead.fatal > 0
             /\ dead.blocker = s.blocker /\ dead.category = s.category
             /\ dead.blocking = s.blocking /\ dead.rung = s.rung
<1>1. s.fatal \in Nat BY DEF Score
<1>2. Max({1, s.fatal}) \in Nat /\ Max({1, s.fatal}) >= s.fatal /\ Max({1, s.fatal}) > 0
  BY <1>1, MaxWithOne
<1> QED BY <1>2 DEF Later, Score

LEMMA DumpKindIs ==
  ASSUME NEW dump
  PROVE  DumpKind(dump) \in Kind_
BY DEF DumpKind, KindOf, Kind_

\* An own dump leaves a blocker that is a crash or that the log named.
LEMMA DumpStep ==
  ASSUME NEW s \in Score, NEW e, s.category \in Category_ \cup {NoBlocker},
         s.blocker = NoBlocker <=> s.category = NoBlocker
  PROVE  LET t == WithDump(s, e)
         IN  /\ Later(s, t)
             /\ ~ OwnDump(e) => t = s
             /\ OwnDump(e) => /\ t.fatal > 0 /\ t.category \in Category_
                              /\ t.blocker # NoBlocker /\ t.blocking
<1> DEFINE dead == [s EXCEPT !.fatal = Max({1, @})]
           t == WithDump(s, e)
           kind == DumpKind(e.dump)
<1>1. /\ Later(s, dead) /\ dead.fatal > 0 /\ dead \in Score
      /\ dead.blocker = s.blocker /\ dead.category = s.category
      /\ dead.blocking = s.blocking /\ dead.rung = s.rung
  BY DeadIsLater DEF Later
<1>2. kind \in Kind_ BY DumpKindIs
<1>3. "native-crash" \in Category_ BY DEF Category_
<1>4. CASE ~ OwnDump(e)
  <2>1. t = s BY <1>4 DEF WithDump
  <2> QED BY <1>4, <2>1 DEF Later, Score
<1>5. CASE OwnDump(e) /\ Yields(s, {"stall"})
  <2> DEFINE b == Blame(dead, "native-crash")
  <2>1. t = [b EXCEPT !.blocker = kind] BY <1>5 DEF WithDump
  <2> HIDE DEF dead, kind
  <2>2. /\ Later(dead, b) /\ b.fatal = dead.fatal /\ b.blocking = TRUE
        /\ b.category = "native-crash"
    BY <1>1, <1>3, BlameIsLater
  <2> HIDE DEF b, t
  <2>3. t \in Score /\ t.rung = b.rung /\ t.fatal = b.fatal /\ t.blocking = TRUE
        /\ t.category = "native-crash" /\ t.blocker = kind
    BY <1>2, <2>1, <2>2 DEF Score, Later
  <2>4. kind # NoBlocker BY <1>2 DEF Kind_, NoBlocker
  <2>5. Later(s, t) BY <1>1, <2>2, <2>3, <2>4 DEF Later, Score
  <2> QED BY <1>1, <1>3, <1>5, <2>2, <2>3, <2>4, <2>5 DEF t
<1>6. CASE OwnDump(e) /\ ~ Yields(s, {"stall"})
  <2>1. t = dead BY <1>6 DEF WithDump
  <2>2. s.blocker # NoBlocker /\ s.blocking BY <1>6 DEF Yields
  <2> HIDE DEF dead
  <2> QED BY <1>1, <1>6, <2>1, <2>2
<1> QED BY <1>4, <1>5, <1>6

\* No reading takes the place of what an own dump, or the log beside it, gave.
Settled(s, e) ==
  /\ OwnDump(e) /\ s.blocker # NoBlocker /\ s.category \in Category_
  /\ s.blocking \/ OnScreen(e.screen)

LEMMA SettledDoesNotYield ==
  ASSUME NEW s \in Score, NEW e, Settled(s, e), NEW readings \in SUBSET Reading_,
         e.screen = "host"
  PROVE  ~ Yields(s, readings)
<1>1. Category_ \cap Reading_ = {} BY DEF Category_, Reading_
<1>2. ~ OnScreen(e.screen) BY DEF OnScreen
<1> QED BY <1>1, <1>2 DEF Settled, Yields

LEMMA LaterItself ==
  ASSUME NEW s \in Score
  PROVE  Later(s, s)
BY DEF Later, Score

LEMMA ReadingNames ==
  /\ "no-frame" \in Category_ \cup Reading_ /\ "window-buffers" \in Category_ \cup Reading_
  /\ "native-symbols" \in Category_ \cup Reading_ /\ "self-finish" \in Category_ \cup Reading_
  /\ "native-crash" \in Category_ \cup Reading_
  /\ {"stall"} \in SUBSET Reading_ /\ {"stall", "no-frame"} \in SUBSET Reading_
BY DEF Category_, Reading_

LEMMA TimeoutStep ==
  ASSUME NEW s \in Score, NEW e
  PROVE  Later(s, WithTimeout(s, e)) /\ (Settled(s, e) => WithTimeout(s, e) = s)
BY BlameIsLater, LaterItself, SettledDoesNotYield, ReadingNames DEF WithTimeout

LEMMA BuffersStep ==
  ASSUME NEW s \in Score, NEW e
  PROVE  Later(s, WithBuffers(s, e)) /\ (Settled(s, e) => WithBuffers(s, e) = s)
BY BlameIsLater, LaterItself, SettledDoesNotYield, ReadingNames DEF WithBuffers

LEMMA LookupsStep ==
  ASSUME NEW s \in Score, NEW e
  PROVE  Later(s, WithLookups(s, e)) /\ (Settled(s, e) => WithLookups(s, e) = s)
<1> DEFINE b == Blame(s, "native-symbols")
<1>1. Later(s, b) BY BlameIsLater, ReadingNames
<1>2. Later(s, [b EXCEPT !.blocker = "dlsym"])
  <2> HIDE DEF b
  <2> QED BY <1>1 DEF Later, Score, NoBlocker
<1>3. WithLookups(s, e) \in {s, [b EXCEPT !.blocker = "dlsym"]} BY DEF WithLookups
<1>4. Settled(s, e) => WithLookups(s, e) = s
  BY SettledDoesNotYield, ReadingNames DEF WithLookups
<1> HIDE DEF b
<1> QED BY <1>1, <1>2, <1>3, <1>4, LaterItself

LEMMA SignalStep ==
  ASSUME NEW s \in Score, NEW e
  PROVE  Later(s, WithSignal(s, e)) /\ (Settled(s, e) => WithSignal(s, e) = s)
<1> DEFINE dead == [s EXCEPT !.fatal = Max({1, @})]
           b == Blame(dead, "native-crash")
<1>1. Later(s, dead) /\ dead \in Score BY DeadIsLater DEF Later
<1>2. WithSignal(s, e) \in {s, dead, b} BY DEF WithSignal
<1>3. Settled(s, e) => WithSignal(s, e) = s BY DEF WithSignal, Signal, Settled
<1> HIDE DEF dead
<1>4. Later(dead, b) BY <1>1, BlameIsLater, ReadingNames
<1>5. Later(s, b) BY <1>1, <1>4, LaterIsTransitive
<1> HIDE DEF b
<1> QED BY <1>1, <1>2, <1>3, <1>5, LaterItself

LEMMA ThreadStep ==
  ASSUME NEW s \in Score, NEW e
  PROVE  Later(s, WithThread(s, e)) /\ (Settled(s, e) => WithThread(s, e) = s)
<1> DEFINE t == [s EXCEPT !.category = "stall", !.blocker = "stall"]
<1>1. t \in Score /\ t.rung = s.rung /\ t.fatal = s.fatal /\ t.blocking = s.blocking
      /\ t.blocker = "stall"
  BY DEF Score, Reading_
<1>2. WithThread(s, e) \in {s, t} BY DEF WithThread
<1>3. Settled(s, e) => WithThread(s, e) = s BY DEF WithThread, Settled
<1> HIDE DEF t
<1>4. Later(s, t) BY <1>1 DEF Later, Score, NoBlocker
<1> QED BY <1>2, <1>3, <1>4, LaterItself

LEMMA FinishStep ==
  ASSUME NEW s \in Score, NEW e
  PROVE  Later(s, WithFinish(s, e)) /\ (Settled(s, e) => WithFinish(s, e) = s)
<1>1. WithFinish(s, e) \in {s, Blame(s, "self-finish")} BY DEF WithFinish
<1>2. Settled(s, e) => WithFinish(s, e) = s BY DEF WithFinish, Finished, Settled
<1>3. Later(s, Blame(s, "self-finish")) BY BlameIsLater, ReadingNames
<1> QED BY <1>1, <1>2, <1>3, LaterItself

\* The readings that come after the first frame.
Readings(s, e) ==
  WithFinish(WithThread(WithSignal(WithLookups(WithBuffers(WithTimeout(s, e), e), e), e), e), e)

LEMMA ReadingsStep ==
  ASSUME NEW s \in Score, NEW e
  PROVE  Later(s, Readings(s, e)) /\ (Settled(s, e) => Readings(s, e) = s)
<1> DEFINE s1 == WithTimeout(s, e)  s2 == WithBuffers(s1, e)  s3 == WithLookups(s2, e)
           s4 == WithSignal(s3, e)  s5 == WithThread(s4, e)  s6 == WithFinish(s5, e)
<1>0. Readings(s, e) = s6 BY DEF Readings
<1>1. Later(s, s1) /\ s1 \in Score /\ (Settled(s, e) => s1 = s) BY TimeoutStep DEF Later
<1> HIDE DEF s1
<1>2. Later(s, s2) /\ s2 \in Score /\ (Settled(s, e) => s2 = s)
  BY <1>1, BuffersStep, LaterIsTransitive DEF Later
<1> HIDE DEF s2
<1>3. Later(s, s3) /\ s3 \in Score /\ (Settled(s, e) => s3 = s)
  BY <1>2, LookupsStep, LaterIsTransitive DEF Later
<1> HIDE DEF s3
<1>4. Later(s, s4) /\ s4 \in Score /\ (Settled(s, e) => s4 = s)
  BY <1>3, SignalStep, LaterIsTransitive DEF Later
<1> HIDE DEF s4
<1>5. Later(s, s5) /\ s5 \in Score /\ (Settled(s, e) => s5 = s)
  BY <1>4, ThreadStep, LaterIsTransitive DEF Later
<1> HIDE DEF s5
<1>6. Later(s, s6) /\ (Settled(s, e) => s6 = s)
  BY <1>5, FinishStep, LaterIsTransitive DEF Later
<1> QED BY <1>0, <1>6

\* The first frame moves the rung up only, to drawing only on screen, and touches no
\* blocker.
LEMMA FrameStep ==
  ASSUME NEW s \in Score, NEW e, ~ s.blocking => s.rung = Drawing
  PROVE  LET t == WithFrame(s, e)
         IN  /\ t \in Score /\ t.rung >= s.rung
             /\ ~ t.blocking => t.rung = Drawing
             /\ t.rung = Drawing => s.rung = Drawing \/ OnScreen(e.screen)
             /\ t.fatal = s.fatal /\ t.blocker = s.blocker /\ t.category = s.category
             /\ s.blocking /\ t.rung # Drawing => t.blocking
             /\ s.blocking => t.blocking \/ OnScreen(e.screen)
             /\ t.rung = IF StartupTime(e.hilog, "frame") # Nothing /\ s.rung < FrameTarget(e.screen)
                          THEN FrameTarget(e.screen) ELSE s.rung
<1> DEFINE t == WithFrame(s, e)  reached == FrameTarget(e.screen)
           on == OnScreen(e.screen)  off == ~ on
           up == s.anomaly \/ on \/ e.screen = "host"
           beside == s.anomaly \/ e.screen = "host"
<1>1. on \in BOOLEAN /\ up \in BOOLEAN /\ beside \in BOOLEAN /\ off \in BOOLEAN /\ (off <=> ~ on)
  BY DEF OnScreen
<1>2. reached = IF on THEN Drawing ELSE View BY DEF FrameTarget
<1>3. Drawing = 5 /\ View = 4 BY DEF Drawing, View
<1>4. CASE StartupTime(e.hilog, "frame") = Nothing
  <2>1. t = s BY <1>4 DEF WithFrame
  <2> QED BY <2>1, <1>4 DEF Score
<1>5. CASE StartupTime(e.hilog, "frame") # Nothing /\ s.rung < reached
  <2>1. t = [s EXCEPT !.rung = reached, !.blocking = off, !.anomaly = up]
    BY <1>5, Zenon DEF WithFrame
  <2>6. reached \in 0 .. Drawing BY <1>2, <1>3
  <2> HIDE DEF on, off, up, reached
  <2>2. /\ t \in Score /\ t.rung = reached /\ t.blocking = off /\ t.fatal = s.fatal
        /\ t.blocker = s.blocker /\ t.category = s.category
    <3> HIDE DEF t
    <3> QED BY <1>1, <2>1, <2>6 DEF Score
  <2>3. s.rung \in 0 .. 5 BY <1>3 DEF Score
  <2> HIDE DEF t
  <2>7. reached >= s.rung /\ (on => reached = Drawing) /\ (reached = Drawing => on)
    BY <1>2, <1>3, <1>5, <2>3
  <2>8. ~ off <=> on BY <1>1
  <2>4. t.rung >= s.rung /\ (~ t.blocking => t.rung = Drawing) /\ (t.rung = Drawing => on)
    BY <2>2, <2>7, <2>8
  <2>5. (t.rung # Drawing => t.blocking) /\ (t.blocking \/ on) BY <2>2, <2>7, <2>8
  <2> QED BY <1>5, <2>2, <2>4, <2>5 DEF t, on, reached
<1>6. CASE StartupTime(e.hilog, "frame") # Nothing /\ ~ (s.rung < reached)
  <2>1. t = [s EXCEPT !.anomaly = beside] BY <1>6, Zenon DEF WithFrame
  <2> HIDE DEF on, beside, reached
  <2>2. /\ t \in Score /\ t.rung = s.rung /\ t.blocking = s.blocking /\ t.fatal = s.fatal
        /\ t.blocker = s.blocker /\ t.category = s.category
    <3> HIDE DEF t
    <3> QED BY <1>1, <2>1 DEF Score
  <2>3. s.rung \in 0 .. 5 BY <1>3 DEF Score
  <2> QED BY <1>6, <2>2, <2>3 DEF t, reached
<1> QED BY <1>4, <1>5, <1>6

LEMMA ScreenStep ==
  ASSUME NEW s \in Score, NEW screen, ~ s.blocking => s.rung = Drawing
  PROVE  LET t == WithScreen(s, screen)
         IN  /\ t \in Score /\ (~ t.blocking => t.rung = Drawing)
             /\ t.rung = Drawing => screen # "host"
             /\ t.fatal = s.fatal /\ t.blocker = s.blocker /\ t.category = s.category
<1>1. Drawing = 5 /\ View = 4 BY DEF Drawing, View
<1>2. CASE s.rung # Drawing BY <1>2 DEF WithScreen
<1>3. CASE s.rung = Drawing /\ screen = "host"
  <2> DEFINE t == WithScreen(s, screen)
  <2>1. t = [s EXCEPT !.rung = View, !.blocking = TRUE, !.anomaly = TRUE]
    BY <1>3 DEF WithScreen
  <2>2. View \in 0 .. Drawing BY <1>1
  <2> HIDE DEF t
  <2>3. t \in Score BY <2>1, <2>2 DEF Score
  <2>4. /\ t.rung = View /\ t.blocking = TRUE /\ t.fatal = s.fatal /\ t.blocker = s.blocker
        /\ t.category = s.category
    BY <2>1 DEF Score
  <2> QED BY <1>1, <2>3, <2>4 DEF t
<1>4. CASE s.rung = Drawing /\ screen # "host"
  BY <1>1, <1>4 DEF WithScreen, Score
<1> QED BY <1>2, <1>3, <1>4

LEMMA PictureStep ==
  ASSUME NEW s \in Score, NEW e, ~ s.blocking => s.rung = Drawing
  PROVE  LET t == WithPicture(s, e)
         IN  /\ t \in Score /\ t.rung >= s.rung /\ (~ t.blocking => t.rung = Drawing)
             /\ t.rung = Drawing => s.rung = Drawing \/ OnScreen(e.screen)
             /\ t.fatal = s.fatal /\ t.blocker = s.blocker /\ t.category = s.category
             /\ s.blocker # NoBlocker /\ (s.blocking \/ s.rung = Drawing) => t = s
<1>1. Drawing = 5 /\ s.rung \in 0 .. 5 BY DEF Drawing, Score
<1> DEFINE up == OnScreen(e.screen) /\ s.rung # Drawing /\ (s.blocker = NoBlocker \/ ~ s.blocking)
           t == WithPicture(s, e)
<1>2. CASE ~ up
  <2>1. t = s BY <1>2, Zenon DEF WithPicture
  <2> QED BY <1>1, <2>1
<1>3. CASE up
  <2>1. t = [s EXCEPT !.rung = Drawing, !.blocking = FALSE, !.anomaly = TRUE]
    BY <1>3, Zenon DEF WithPicture
  <2>2. t \in Score /\ t.rung = Drawing /\ t.fatal = s.fatal /\ t.blocker = s.blocker
        /\ t.category = s.category
    <3>1. Drawing \in 0 .. Drawing BY <1>1
    <3> HIDE DEF t, up
    <3>2. t \in Score BY <2>1, <3>1 DEF Score
    <3>3. t.rung = Drawing /\ t.fatal = s.fatal /\ t.blocker = s.blocker
          /\ t.category = s.category
      BY <2>1 DEF Score
    <3> QED BY <3>2, <3>3
  <2> HIDE DEF t
  <2> QED BY <1>1, <1>3, <2>2 DEF t
<1> QED BY <1>2, <1>3

-----------------------------------------------------------------------------
(* The final score *)

\* What is filed beside the score takes none of its fields.
LEMMA FiledBeside ==
  ASSUME NEW e,
         WithPicture(AddEvidence(WithScreen(Scored(e.log), e.screen), e), e) \in Score
  PROVE  LET f == FinalScore(e)
             s == WithPicture(AddEvidence(WithScreen(Scored(e.log), e.screen), e), e)
         IN  /\ f.rung = s.rung /\ f.fatal = s.fatal
             /\ f.blocking = s.blocking /\ f.category = s.category
<1> DEFINE s == WithPicture(AddEvidence(WithScreen(Scored(e.log), e.screen), e), e)
           b == Beside(e)
<1>1. {"rung", "fatal", "blocking", "category"} \subseteq DOMAIN s BY DEF Score
<1>2. FinalScore(e) = [x \in DOMAIN s \cup DOMAIN b |-> IF x \in DOMAIN s THEN s[x] ELSE b[x]]
  BY DEF FinalScore
<1> HIDE DEF s, b
<1>3. \A x \in DOMAIN s : FinalScore(e)[x] = s[x] BY <1>2
<1>4. /\ FinalScore(e)["rung"] = s["rung"] /\ FinalScore(e)["fatal"] = s["fatal"]
      /\ FinalScore(e)["blocking"] = s["blocking"] /\ FinalScore(e)["category"] = s["category"]
  BY <1>1, <1>3
<1> QED BY <1>4 DEF s

Framed(e) == WithFrame(WithDump(WithScreen(Scored(e.log), e.screen), e), e)

LEMMA FramedRung ==
  ASSUME NEW e, e.log \in Seq(Range(e.log))
  PROVE  LET r == WithScreen(Scored(e.log), e.screen).rung
         IN  Framed(e).rung = IF StartupTime(e.hilog, "frame") # Nothing /\ r < FrameTarget(e.screen)
                              THEN FrameTarget(e.screen) ELSE r
<1> DEFINE s0 == Scored(e.log)  s1 == WithScreen(s0, e.screen)  s2 == WithDump(s1, e)
<1>1. s0 \in Score /\ (~ s0.blocking => s0.rung = Drawing)
      /\ s0.category \in Category_ \cup {NoBlocker}
      /\ (s0.blocker = NoBlocker <=> s0.category = NoBlocker)
  BY ScoredIsSound DEF Sound
<1> HIDE DEF s0
<1>2. /\ s1 \in Score /\ (~ s1.blocking => s1.rung = Drawing)
      /\ s1.blocker = s0.blocker /\ s1.category = s0.category
  BY <1>1, ScreenStep
<1> HIDE DEF s1
<1>3. Later(s1, s2) BY <1>1, <1>2, DumpStep
<1>4. s2 \in Score /\ s2.rung = s1.rung /\ (~ s2.blocking => s2.rung = Drawing)
  BY <1>2, <1>3 DEF Later
<1> HIDE DEF s2
<1>5. WithFrame(s2, e).rung = IF StartupTime(e.hilog, "frame") # Nothing /\ s2.rung < FrameTarget(e.screen)
                              THEN FrameTarget(e.screen) ELSE s2.rung
  BY <1>4, FrameStep
<1> QED BY <1>4, <1>5 DEF Framed, s2, s1, s0

LEMMA FinalScoreIs ==
  ASSUME NEW e, e.log \in Seq(Range(e.log))
  PROVE  LET f == FinalScore(e)
         IN  /\ f.fatal \in Nat /\ f.rung >= Framed(e).rung
             /\ Framed(e).rung \in 0 .. Drawing /\ f.rung \in 0 .. Drawing
             /\ f.rung = Drawing => e.screen # "host"
             /\ ~ f.blocking => f.rung = Drawing
             /\ OwnDump(e) => /\ f.fatal > 0 /\ f.category \in Category_
                              /\ f.rung = Framed(e).rung
<1> DEFINE s0 == Scored(e.log)  s1 == WithScreen(s0, e.screen)  s2 == WithDump(s1, e)
           s3 == WithFrame(s2, e)  s4 == Readings(s3, e)  s5 == WithPicture(s4, e)
<1>0. Framed(e) = s3
      /\ s5 = WithPicture(AddEvidence(WithScreen(Scored(e.log), e.screen), e), e)
  BY DEF AddEvidence, Readings, Framed
<1>1. s0 \in Score /\ (~ s0.blocking => s0.rung = Drawing)
      /\ s0.category \in Category_ \cup {NoBlocker}
      /\ (s0.blocker = NoBlocker <=> s0.category = NoBlocker)
  BY ScoredIsSound DEF Sound
<1> HIDE DEF s0
<1>2. /\ s1 \in Score /\ (~ s1.blocking => s1.rung = Drawing)
      /\ s1.rung = Drawing => e.screen # "host"
      /\ s1.blocker = s0.blocker /\ s1.category = s0.category
  BY <1>1, ScreenStep
<1> HIDE DEF s1
<1>3. /\ Later(s1, s2)
      /\ OwnDump(e) => /\ s2.fatal > 0 /\ s2.category \in Category_
                       /\ s2.blocker # NoBlocker /\ s2.blocking
  BY <1>1, <1>2, DumpStep
<1>4. s2 \in Score /\ s2.rung = s1.rung /\ (~ s2.blocking => s2.rung = Drawing)
  BY <1>2, <1>3 DEF Later
<1> HIDE DEF s2
<1>5. /\ s3 \in Score /\ (~ s3.blocking => s3.rung = Drawing)
      /\ s3.rung = Drawing => e.screen # "host"
      /\ s3.fatal = s2.fatal /\ s3.blocker = s2.blocker /\ s3.category = s2.category
      /\ s2.blocking => s3.blocking \/ OnScreen(e.screen)
  <2>1. OnScreen(e.screen) => e.screen # "host" BY DEF OnScreen
  <2> QED BY <1>2, <1>4, <2>1, FrameStep
<1> HIDE DEF s3
<1>6. OwnDump(e) => Settled(s3, e) BY <1>3, <1>5 DEF Settled
<1>7. Later(s3, s4) /\ (OwnDump(e) => s4 = s3) BY <1>5, <1>6, ReadingsStep
<1>8. s4 \in Score /\ s4.rung = s3.rung /\ (~ s4.blocking => s4.rung = Drawing)
  BY <1>5, <1>7 DEF Later
<1> HIDE DEF s4
<1>9. /\ s5 \in Score /\ s5.rung >= s4.rung /\ (~ s5.blocking => s5.rung = Drawing)
      /\ s5.rung = Drawing => s4.rung = Drawing \/ OnScreen(e.screen)
      /\ s4.blocker # NoBlocker /\ (s4.blocking \/ s4.rung = Drawing) => s5 = s4
  BY <1>8, PictureStep
<1>10. OwnDump(e) => s5 = s3 BY <1>3, <1>5, <1>7, <1>8, <1>9
<1>11. s5.rung = Drawing => e.screen # "host" BY <1>5, <1>8, <1>9 DEF OnScreen
<1> HIDE DEF s5
<1>12. /\ FinalScore(e).rung = s5.rung /\ FinalScore(e).fatal = s5.fatal
       /\ FinalScore(e).blocking = s5.blocking /\ FinalScore(e).category = s5.category
  BY <1>0, <1>9, FiledBeside
<1>13. s5.fatal \in Nat /\ s5.rung \in 0 .. Drawing /\ s3.rung \in 0 .. Drawing
  BY <1>5, <1>9 DEF Score
<1> QED BY <1>0, <1>3, <1>5, <1>8, <1>9, <1>10, <1>11, <1>12, <1>13

-----------------------------------------------------------------------------
(* The evidence of a launch as it comes in *)

Ordered(hilog) ==
  /\ hilog \in Seq(Range(hilog)) /\ \A i \in DOMAIN hilog : hilog[i].at \in Int
  /\ \A i, j \in DOMAIN hilog : i <= j => hilog[i].at <= hilog[j].at

TypeOK ==
  /\ run \in [log : Logs, hilog : {run.hilog}, dump : {Nothing} \cup DumpRecord, own : BOOLEAN,
              screen : {Nothing} \cup Screens, threads : Threads, maps : {Sampled},
              lines : 0 .. MaxLines]
  /\ Ordered(run.hilog)

\* A dump is stamped after the app's first line if it is the process's own, else before.
DumpPlace ==
  /\ run.own => run.dump # Nothing
  /\ run.dump # Nothing =>
       /\ run.hilog # <<>>
       /\ IF run.own THEN run.dump.written >= run.hilog[1].at
          ELSE run.dump.written = run.hilog[1].at - 7

IInv == TypeOK /\ DumpPlace

LEMMA FirstAndLast ==
  ASSUME NEW hilog, Ordered(hilog), hilog # <<>>
  PROVE  /\ 1 \in DOMAIN hilog /\ Len(hilog) \in DOMAIN hilog /\ Last(hilog) = hilog[Len(hilog)]
         /\ hilog[1].at \in Int /\ Last(hilog).at \in Int
         /\ \A i \in DOMAIN hilog : hilog[1].at <= hilog[i].at /\ hilog[i].at <= Last(hilog).at
<1>1. Len(hilog) \in Nat \ {0} /\ DOMAIN hilog = 1 .. Len(hilog)
  BY DEF Ordered
<1>2. 1 \in DOMAIN hilog /\ Len(hilog) \in DOMAIN hilog /\ Last(hilog) = hilog[Len(hilog)]
  BY <1>1 DEF Last
<1>3. \A i \in DOMAIN hilog : 1 <= i /\ i <= Len(hilog) BY <1>1
<1> QED BY <1>2, <1>3 DEF Ordered

LEMMA OrderedAppend ==
  ASSUME NEW hilog, Ordered(hilog), hilog # <<>>, NEW line, line.at \in Int,
         line.at >= Last(hilog).at
  PROVE  /\ Ordered(Append(hilog, line)) /\ Append(hilog, line) # <<>>
         /\ Append(hilog, line)[1] = hilog[1]
<1> DEFINE new == Append(hilog, line)
           N == Range(hilog) \cup {line}
<1>1. hilog \in Seq(N) /\ line \in N BY DEF Ordered
<1>2. /\ new \in Seq(N) /\ Len(new) = Len(hilog) + 1 /\ Len(hilog) \in Nat
      /\ DOMAIN new = 1 .. Len(hilog) + 1 /\ DOMAIN hilog = 1 .. Len(hilog)
      /\ \A i \in 1 .. Len(hilog) : new[i] = hilog[i]
      /\ new[Len(hilog) + 1] = line
  <2> HIDE DEF N
  <2> QED BY <1>1
<1> HIDE DEF new, N
<1>3. /\ 1 \in DOMAIN hilog /\ \A i \in DOMAIN hilog : hilog[i].at <= Last(hilog).at
      /\ Last(hilog).at \in Int
  BY FirstAndLast
<1>4. new \in Seq(Range(new))
  BY <1>2, SeqDef DEF Range
<1>5. \A i \in DOMAIN new : new[i].at \in Int BY <1>2 DEF Ordered
<1>6. ASSUME NEW i \in DOMAIN new, NEW j \in DOMAIN new, i <= j
      PROVE  new[i].at <= new[j].at
  <2>1. CASE j \in DOMAIN hilog
    <3>1. i \in DOMAIN hilog BY <1>2, <1>6, <2>1
    <3> QED BY <1>2, <1>6, <2>1, <3>1 DEF Ordered
  <2>2. CASE j = Len(hilog) + 1 /\ i \in DOMAIN hilog
    <3>1. new[i].at = hilog[i].at /\ new[j].at = line.at /\ hilog[i].at \in Int
      BY <1>2, <2>2 DEF Ordered
    <3> QED BY <1>3, <2>2, <3>1
  <2>3. CASE j = Len(hilog) + 1 /\ i = Len(hilog) + 1
    BY <1>5, <1>6, <2>3
  <2> QED BY <1>2, <2>1, <2>2, <2>3
<1>7. new # <<>> /\ new[1] = hilog[1] BY <1>2, <1>3
<1> QED BY <1>4, <1>5, <1>6, <1>7 DEF Ordered, new

LEMMA NowIs ==
  ASSUME TypeOK
  PROVE  Now \in Int /\ (run.hilog # <<>> => Now = Last(run.hilog).at)
BY FirstAndLast DEF TypeOK, Now

LEMMA ScreenStateIs ==
  ASSUME NEW shot, NEW pages
  PROVE  ScreenState(shot, pages) \in Screens
BY DEF ScreenState, Against, Screens

\* Writing another time into a dump leaves it a dump.
LEMMA Rewritten ==
  ASSUME NEW dump \in Dumps, NEW at \in Int
  PROVE  LET new == [dump EXCEPT !.written = at]
         IN  new \in DumpRecord /\ new # Nothing /\ new.written = at
<1>1. dump \in DumpRecord /\ Nothing \notin DumpRecord BY ScoringAssumption
<1>2. [dump EXCEPT !.written = at] \in DumpRecord BY <1>1 DEF DumpRecord
<1>3. [dump EXCEPT !.written = at].written = at BY <1>1 DEF DumpRecord
<1> QED BY <1>1, <1>2, <1>3

\* A dump that is there stays the same, the first line too.
LEMMA InitIInv == Init => IInv
<1> SUFFICES ASSUME Init PROVE IInv OBVIOUS
<1>1. /\ run.log \in Logs /\ run.hilog \in Starts /\ run.dump = Nothing /\ run.own = FALSE
      /\ run.screen = Nothing /\ run.threads \in Threads /\ run.maps = Sampled /\ run.lines = 0
      /\ run \in [log : Logs, hilog : Starts, dump : {Nothing}, own : {FALSE}, screen : {Nothing},
                   threads : Threads, maps : {Sampled}, lines : {0}]
  BY DEF Init
<1>2. Ordered(run.hilog) BY <1>1, ScoringAssumption DEF Ordered
<1>3. MaxLines \in Nat /\ 0 \in 0 .. MaxLines BY ScoringAssumption
<1>4. run \in [log : Logs, hilog : {run.hilog}, dump : {Nothing} \cup DumpRecord, own : BOOLEAN,
               screen : {Nothing} \cup Screens, threads : Threads, maps : {Sampled},
               lines : 0 .. MaxLines]
  BY <1>1, <1>3
<1>5. TypeOK BY <1>2, <1>4 DEF TypeOK
<1> QED BY <1>1, <1>5 DEF IInv, DumpPlace

LEMMA StepIInv == IInv /\ [Next]_run => IInv'
<1> SUFFICES ASSUME IInv, [Next]_run PROVE IInv' OBVIOUS
<1> USE DEF IInv
<1>1. CASE Hilog
  <2>1. PICK line \in Lines, later \in {0, 3} :
          /\ run.screen = Nothing /\ ~ run.own
          /\ run.lines < MaxLines /\ run.hilog # <<>>
          /\ run' = [run EXCEPT !.lines = @ + 1,
                       !.hilog = Append(@, [k |-> line.k, a |-> line.a, at |-> Now + later])]
    BY <1>1 DEF Hilog
  <2> DEFINE new == [k |-> line.k, a |-> line.a, at |-> Now + later]
             hilog == Append(run.hilog, new)
  <2>2. new.at \in Int /\ new.at >= Last(run.hilog).at BY <2>1, NowIs
  <2>3. Ordered(hilog) /\ hilog # <<>> /\ hilog[1] = run.hilog[1]
    <3> HIDE DEF new
    <3> QED BY <2>1, <2>2, OrderedAppend DEF TypeOK
  <2>4. run' = [run EXCEPT !.lines = @ + 1, !.hilog = hilog] BY <2>1
  <2> HIDE DEF hilog
  <2>5. run.lines + 1 \in 0 .. MaxLines BY <2>1, ScoringAssumption DEF TypeOK
  <2>6. /\ run' \in [log : Logs, hilog : {hilog}, dump : {Nothing} \cup DumpRecord, own : BOOLEAN,
                     screen : {Nothing} \cup Screens, threads : Threads, maps : {Sampled},
                     lines : 0 .. MaxLines]
        /\ run'.hilog = hilog /\ run'.dump = run.dump /\ run'.own = run.own
    BY <2>4, <2>5 DEF TypeOK
  <2>7. TypeOK' BY <2>3, <2>6 DEF TypeOK
  <2>8. DumpPlace' BY <2>3, <2>6 DEF DumpPlace
  <2> QED BY <2>7, <2>8
<1>2. CASE Crash
  <2>1. PICK dump \in Dumps :
          /\ run.dump = Nothing /\ run.screen = Nothing /\ run.hilog # <<>>
          /\ run' = [run EXCEPT !.own = TRUE, !.dump = [dump EXCEPT !.written = Now]]
    BY <1>2 DEF Crash
  <2> DEFINE new == [dump EXCEPT !.written = Now]
  <2>2. new \in DumpRecord /\ new.written = Now BY NowIs, Rewritten
  <2>3. run' = [run EXCEPT !.own = TRUE, !.dump = new] BY <2>1
  <2> HIDE DEF new
  <2>4. /\ TypeOK' /\ run'.hilog = run.hilog /\ run'.own = TRUE /\ run'.dump = new
    BY <2>2, <2>3 DEF TypeOK
  <2>5. run.hilog[1].at <= Now /\ Now \in Int /\ run.hilog[1].at \in Int
    BY <2>1, FirstAndLast, NowIs DEF TypeOK
  <2> QED BY <2>1, <2>2, <2>4, <2>5, ScoringAssumption DEF DumpPlace
<1>3. CASE StaleDump
  <2>1. PICK dump \in Dumps :
          /\ run.dump = Nothing /\ run.screen = Nothing /\ run.hilog # <<>>
          /\ run' = [run EXCEPT !.dump = [dump EXCEPT !.written = run.hilog[1].at - 7]]
    BY <1>3 DEF StaleDump
  <2> DEFINE new == [dump EXCEPT !.written = run.hilog[1].at - 7]
  <2>2. run.hilog[1].at - 7 \in Int BY <2>1, FirstAndLast DEF TypeOK
  <2>3. new \in DumpRecord /\ new.written = run.hilog[1].at - 7 BY <2>2, Rewritten
  <2>4. run' = [run EXCEPT !.dump = new] /\ ~ run.own BY <2>1 DEF DumpPlace
  <2> HIDE DEF new
  <2>5. /\ TypeOK' /\ run'.hilog = run.hilog /\ run'.own = run.own /\ run'.dump = new
    BY <2>3, <2>4 DEF TypeOK
  <2> QED BY <2>1, <2>3, <2>4, <2>5 DEF DumpPlace
<1>4. CASE Screenshot
  <2>1. PICK shots \in Shots :
          run' = [run EXCEPT !.screen = ScreenState(shots[1], RunPages(shots))]
    BY <1>4 DEF Screenshot
  <2> DEFINE screen == ScreenState(shots[1], RunPages(shots))
  <2>2. screen \in Screens BY ScreenStateIs
  <2>3. run' = [run EXCEPT !.screen = screen] BY <2>1
  <2> HIDE DEF screen
  <2>4. TypeOK' /\ run'.hilog = run.hilog /\ run'.own = run.own /\ run'.dump = run.dump
    BY <2>2, <2>3 DEF TypeOK
  <2> QED BY <2>4 DEF DumpPlace
<1>5. CASE UNCHANGED run
  BY <1>5 DEF TypeOK, DumpPlace
<1> QED BY <1>1, <1>2, <1>3, <1>4, <1>5 DEF Next

\* The evidence of a launch has its shape throughout, the hilog is in order, and a dump is
\* stamped before the first line exactly if it is another process's.
THEOREM ScoringInvariant == Spec => []IInv
BY InitIInv, StepIInv, PTL DEF Spec

\* The run stays a launch's evidence: its log, its hilog in order, at most one dump and one
\* screenshot, whose class is one of the three.
THEOREM ScoringTypeOK == Spec => []TypeOK
<1>1. IInv => TypeOK BY DEF IInv
<1> QED BY <1>1, ScoringInvariant, PTL

-----------------------------------------------------------------------------
(* What the score says of it *)

LEMMA LogIsSequence ==
  ASSUME TypeOK
  PROVE  run.log \in Seq(Range(run.log))
BY ScoringAssumption DEF TypeOK

\* No app counts as drawing whose screenshot shows the bare host, and only a drawing app
\* has a blocker that does not block.
THEOREM ScoringScreenDecides == Spec => []ScreenDecides
<1>1. IInv => ScreenDecides BY LogIsSequence, FinalScoreIs DEF IInv, ScreenDecides, Outcome
<1> QED BY <1>1, ScoringInvariant, PTL

\* The parts of a time, with Year * Day seconds to the year.
LEMMA DivMod ==
  ASSUME NEW a \in Int, NEW b \in Nat \ {0}
  PROVE  /\ a = b * (a \div b) + (a % b) /\ 0 <= a % b /\ a % b < b
         /\ a \div b \in Int /\ a % b \in Int
OBVIOUS

LEMMA DivIsMonotonic ==
  ASSUME NEW a \in Int, NEW c \in Int, NEW b \in Nat \ {0}, a <= c
  PROVE  a \div b <= c \div b
OBVIOUS

LEMMA DivTwice ==
  ASSUME NEW a \in Int, NEW b \in Nat \ {0}, NEW c \in Nat \ {0}
  PROVE  a \div (c * b) = (a \div b) \div c
OBVIOUS

\* Within a year the stamps are in the order of the times.
LEMMA BeforeIs ==
  ASSUME NEW w \in Int, NEW f \in Int, w \div (Year * Day) = f \div (Year * Day)
  PROVE  LET s == Stamp(f)
         IN  /\ w >= f => ~ Before(Stamp(w), <<s[1], s[2] - 1>>)
             /\ w = f - 7 => Before(Stamp(w), <<s[1], s[2] - 1>>)
<1> USE RunEvidenceAssumption
<1> DEFINE wd == w \div Day  fd == f \div Day  wm == w % Day  fm == f % Day
           q == wd \div Year
<1>1. /\ w = Day * wd + wm /\ 0 <= wm /\ wm < Day /\ wd \in Int /\ wm \in Int
      /\ f = Day * fd + fm /\ 0 <= fm /\ fm < Day /\ fd \in Int /\ fm \in Int
  BY DivMod
<1>2. w >= f => wd >= fd BY DivIsMonotonic
<1>3. w = f - 7 => wd <= fd BY DivIsMonotonic
<1>4. fd \div Year = q BY DivTwice
<1> DEFINE wy == wd % Year  fy == fd % Year
<1> HIDE DEF wd, fd, wm, fm
<1>5. wd = Year * q + wy /\ fd = Year * q + fy /\ q \in Int /\ wy \in Int /\ fy \in Int
  BY <1>1, <1>4, DivMod
<1> HIDE DEF wy, fy, q
<1>6. (wd >= fd <=> wy >= fy) /\ (wd <= fd <=> wy <= fy) /\ (wd = fd <=> wy = fy)
  <2> DEFINE p == Year * q
  <2>1. p \in Int BY <1>5
  <2>2. wd = p + wy /\ fd = p + fy BY <1>5
  <2> HIDE DEF p
  <2> QED BY <1>5, <2>1, <2>2
<1>7. w >= f => ~ (wy < fy \/ (wy = fy /\ wm < fm - 1))
  <2> SUFFICES ASSUME w >= f PROVE ~ (wy < fy \/ (wy = fy /\ wm < fm - 1)) OBVIOUS
  <2>1. wy >= fy BY <1>1, <1>2, <1>5, <1>6
  <2>2. wy = fy => wm >= fm
    <3>1. wy = fy => Day * wd = Day * fd BY <1>6
    <3> DEFINE p == Day * wd  r == Day * fd
    <3>2. p \in Int /\ r \in Int BY <1>1
    <3>3. w = p + wm /\ f = r + fm BY <1>1
    <3> HIDE DEF p, r
    <3> QED BY <1>1, <3>1, <3>2, <3>3 DEF p, r
  <2> QED BY <1>1, <1>5, <2>1, <2>2
<1>8. w = f - 7 => (wy < fy \/ (wy = fy /\ wm < fm - 1))
  <2> SUFFICES ASSUME w = f - 7 PROVE wy < fy \/ (wy = fy /\ wm < fm - 1) OBVIOUS
  <2>1. wy <= fy BY <1>1, <1>3, <1>5, <1>6
  <2>2. wy = fy => wm = fm - 7
    <3>1. wy = fy => Day * wd = Day * fd BY <1>6
    <3> DEFINE p == Day * wd  r == Day * fd
    <3>2. p \in Int /\ r \in Int BY <1>1
    <3>3. w = p + wm /\ f = r + fm BY <1>1
    <3> HIDE DEF p, r
    <3> QED BY <1>1, <3>1, <3>2, <3>3 DEF p, r
  <2> QED BY <1>1, <1>5, <2>1, <2>2
<1>9. Stamp(w) = <<wy, wm>> /\ Stamp(f) = <<fy, fm>> BY DEF Stamp, wy, fy, wm, fm, wd, fd
<1> QED BY <1>7, <1>8, <1>9 DEF Before

\* Its own dump is told from an earlier process's.
LEMMA OwnDumpIs ==
  ASSUME IInv, run.dump # Nothing, SameYear
  PROVE  OwnDump(run) <=> run.own
<1>1. /\ run.hilog # <<>> /\ run.dump.written \in Int /\ run.hilog[1].at \in Int
      /\ run.own \in BOOLEAN
      /\ run.own => run.dump.written >= run.hilog[1].at
      /\ ~ run.own => run.dump.written = run.hilog[1].at - 7
  BY FirstAndLast DEF IInv, TypeOK, DumpPlace, DumpRecord
<1>2. LET s == Stamp(run.hilog[1].at)
      IN  Before(Stamp(run.dump.written), <<s[1], s[2] - 1>>) <=> ~ run.own
  BY <1>1, BeforeIs DEF SameYear
<1> QED BY <1>1, <1>2 DEF OwnDump, DumpPredates

\* A launch that left its own crash dump counts a death, and is laid to a crash or to what
\* its log names, whatever else of it was read.
THEOREM ScoringOwnDumpIsNotExplainedAway == Spec => []OwnDumpIsNotExplainedAway
<1>1. {Category[k] : k \in DOMAIN Category} = Category_
  BY DEF Category, Category_
<1>2. IInv => OwnDumpIsNotExplainedAway
  <2> SUFFICES ASSUME IInv, run.own, SameYear
               PROVE  Outcome.fatal > 0 /\ Outcome.category \in Category_
    BY <1>1 DEF OwnDumpIsNotExplainedAway
  <2>1. OwnDump(run) BY OwnDumpIs DEF IInv, DumpPlace
  <2> QED BY <2>1, LogIsSequence, FinalScoreIs DEF IInv, Outcome
<1> QED BY <1>2, ScoringInvariant, PTL

LEMMA LastOfIs ==
  ASSUME NEW text, Ordered(text), NEW k
  PROVE  LastOf(text, k) = 0 \/ LastOf(text, k) \in DOMAIN text
<1> DEFINE I == {i \in 1 .. Len(text) : text[i].k = k}
<1>1. Len(text) \in Nat /\ DOMAIN text = 1 .. Len(text) BY DEF Ordered
<1>2. LastOf(text, k) = IF I # {} THEN Max(I) ELSE 0 BY DEF LastOf, SelectLastInSeq
<1>3. I \in SUBSET (0 .. Len(text)) /\ I \in SUBSET DOMAIN text BY <1>1
<1> HIDE DEF I
<1> QED BY <1>1, <1>2, <1>3, MaxUpTo

\* A dump is taken for the process's own exactly if it is, and a signal is taken to have
\* ended the process only if it logged for at most two seconds more.
THEOREM ScoringDeathIsItsOwn == Spec => []DeathIsItsOwn
<1>1. IInv => DeathIsItsOwn
  <2> SUFFICES ASSUME IInv, HilogSignal(run.hilog) # Nothing,
                      Now \div Day = run.hilog[1].at \div Day
               PROVE  Now - run.hilog[HilogSignal(run.hilog).at].at <= 2
    BY OwnDumpIs DEF DeathIsItsOwn
  <2> DEFINE at == LastOf(run.hilog, "passed")  hilog == run.hilog
  <2>1. at # 0 /\ SilentAfter(hilog, at) /\ HilogSignal(hilog).at = at
    BY DEF HilogSignal
  <2>2. Ordered(hilog) BY DEF IInv, TypeOK
  <2>3. at \in DOMAIN hilog BY <2>1, <2>2, LastOfIs
  <2>4. hilog # <<>> BY <2>3
  <2> DEFINE first == hilog[1].at  then == hilog[at].at
  <2>5. /\ first \in Int /\ then \in Int /\ Now \in Int /\ first <= then /\ then <= Now
        /\ hilog[Len(hilog)].at = Now
    BY <2>2, <2>3, <2>4, FirstAndLast, NowIs DEF IInv, Ordered
  <2>6. Seconds(Now) - Seconds(then) <= 2 BY <2>1, <2>5 DEF SilentAfter
  <2> HIDE DEF first, then
  <2>7. then \div Day = Now \div Day
    <3>1. first \div Day = Now \div Day BY DEF first
    <3>2. first \div Day <= then \div Day /\ then \div Day <= Now \div Day
      BY <2>5, RunEvidenceAssumption, DivIsMonotonic
    <3>3. first \div Day \in Int /\ then \div Day \in Int /\ Now \div Day \in Int
      BY <2>5, RunEvidenceAssumption, DivMod
    <3> QED BY <3>1, <3>2, <3>3
  <2>8. Now - then <= 2
    <3> DEFINE p == Day * (Now \div Day)
    <3>1. /\ Now = p + Seconds(Now) /\ then = p + Seconds(then)
          /\ Seconds(Now) \in Int /\ Seconds(then) \in Int
      BY <2>5, <2>7, RunEvidenceAssumption, DivMod DEF Seconds
    <3>2. p \in Int BY <2>5, RunEvidenceAssumption, DivMod
    <3> HIDE DEF p
    <3> QED BY <2>5, <2>6, <3>1, <3>2
  <2> QED BY <2>1, <2>8 DEF then
<1> QED BY <1>1, ScoringInvariant, PTL

\* A dump counts in the score only as the process's own.
LEMMA DumpCountsAsOwn ==
  ASSUME NEW e, NEW f, ~ OwnDump(e), ~ OwnDump(f),
         f.log = e.log, f.hilog = e.hilog, f.screen = e.screen, f.threads = e.threads, f.maps = e.maps
  PROVE  FinalScore(f) = FinalScore(e)
<1>1. Signal(f) = Signal(e) BY DEF Signal
<1>2. Finished(f) = Finished(e) BY <1>1 DEF Finished
<1>3. Beside(f) = Beside(e) BY <1>1 DEF Beside
<1>4. \A s : WithDump(s, f) = WithDump(s, e) BY DEF WithDump
<1>5. \A s : /\ WithFrame(s, f) = WithFrame(s, e) /\ WithTimeout(s, f) = WithTimeout(s, e)
             /\ WithBuffers(s, f) = WithBuffers(s, e) /\ WithLookups(s, f) = WithLookups(s, e)
  BY DEF WithFrame, WithTimeout, WithBuffers, WithLookups
<1>6. \A s : WithSignal(s, f) = WithSignal(s, e) BY <1>1 DEF WithSignal
<1>7. \A s : WithThread(s, f) = WithThread(s, e) BY DEF WithThread
<1>8. \A s : WithFinish(s, f) = WithFinish(s, e) BY <1>2 DEF WithFinish
<1>9. \A s : AddEvidence(s, f) = AddEvidence(s, e) BY <1>4, <1>5, <1>6, <1>7, <1>8 DEF AddEvidence
<1>10. \A s : WithPicture(s, f) = WithPicture(s, e) BY DEF WithPicture
<1> QED BY <1>3, <1>9, <1>10 DEF FinalScore

\* The dump of an earlier process with the pid leaves the score what it is without one.
THEOREM ScoringStaleDumpChangesNothing == Spec => []StaleDumpChangesNothing
<1>1. IInv => StaleDumpChangesNothing
  <2> SUFFICES ASSUME IInv, run.dump # Nothing, ~ run.own, SameYear
               PROVE  FinalScore(run) = FinalScore([run EXCEPT !.dump = Nothing])
    BY DEF StaleDumpChangesNothing, Outcome
  <2> DEFINE none == [run EXCEPT !.dump = Nothing]
  <2>1. ~ OwnDump(run) BY OwnDumpIs
  <2>2. /\ none.log = run.log /\ none.hilog = run.hilog /\ none.screen = run.screen
        /\ none.threads = run.threads /\ none.maps = run.maps /\ none.dump = Nothing
    BY DEF IInv, TypeOK
  <2> HIDE DEF none
  <2>3. ~ OwnDump(none) BY <2>2 DEF OwnDump
  <2>4. FinalScore(none) = FinalScore(run) BY <2>1, <2>2, <2>3, DumpCountsAsOwn
  <2> QED BY <2>4 DEF none
<1> QED BY <1>1, ScoringInvariant, PTL

\* A crash dump that comes late never makes a launch look further along, nor, where it is
\* the first sign of a death, unchanged.
THEOREM ScoringDeathNeverReadsAsProgress == Spec => []DeathNeverReadsAsProgress
<1>1. IInv => DeathNeverReadsAsProgress
  <2> SUFFICES ASSUME IInv, NEW dump \in Dumps, run.dump = Nothing, run.hilog # <<>>
               PROVE  LET died == [run EXCEPT !.own = TRUE,
                                              !.dump = [dump EXCEPT !.written = run.hilog[1].at]]
                          verdict == Verdict(Outcome, FinalScore(died))
                      IN  verdict # "advanced" /\ (Outcome.fatal = 0 => verdict # "unchanged")
    BY DEF DeathNeverReadsAsProgress
  <2> DEFINE new == [dump EXCEPT !.written = run.hilog[1].at]
             died == [run EXCEPT !.own = TRUE, !.dump = new]
  <2>1. run.hilog[1].at \in Int BY FirstAndLast DEF IInv, TypeOK
  <2>2. new # Nothing /\ new.written = run.hilog[1].at BY <2>1, Rewritten
  <2> HIDE DEF new
  <2>3. /\ died.log = run.log /\ died.hilog = run.hilog /\ died.screen = run.screen
        /\ died.dump = new
    BY DEF IInv, TypeOK
  <2> HIDE DEF died
  <2>4. OwnDump(died)
    <3>1. ~ DumpPredates(run.hilog[1].at, run.hilog)
      <4> DEFINE s == Stamp(run.hilog[1].at)
      <4>1. s[2] \in Int /\ s[1] \in Int
        BY <2>1, RunEvidenceAssumption, DivMod DEF Stamp
      <4>2. ~ Before(s, <<s[1], s[2] - 1>>)
        <5> HIDE DEF s
        <5> QED BY <4>1 DEF Before
      <4> QED BY <4>2 DEF DumpPredates
    <3> QED BY <2>2, <2>3, <3>1 DEF OwnDump
  <2>5. run.log \in Seq(Range(run.log)) BY LogIsSequence DEF IInv
  <2>6. Framed(died).rung = Framed(run).rung BY <2>3, <2>5, FramedRung
  <2>7. /\ FinalScore(run).rung \in 0 .. Drawing /\ FinalScore(run).rung >= Framed(run).rung
        /\ FinalScore(run).fatal \in Nat
    BY <2>5, FinalScoreIs
  <2>8. FinalScore(died).rung = Framed(died).rung /\ FinalScore(died).fatal > 0
        /\ FinalScore(died).rung \in 0 .. Drawing
    BY <2>3, <2>4, <2>5, FinalScoreIs
  <2>9. ~ (FinalScore(died).rung > Outcome.rung)
    BY <2>6, <2>7, <2>8 DEF Outcome, Drawing
  <2>10. Outcome.fatal = 0 => Outcome.fatal # FinalScore(died).fatal BY <2>8
  <2>11. Verdict(Outcome, FinalScore(died)) # "advanced"
         /\ (Outcome.fatal = 0 => Verdict(Outcome, FinalScore(died)) # "unchanged")
    BY <2>9, <2>10 DEF Verdict
  <2> QED BY <2>11 DEF died, new
<1> QED BY <1>1, ScoringInvariant, PTL

-----------------------------------------------------------------------------
(* GapMap: what the launcher is told.  An option and its values are laid out *)
(* in pairs, and read back as the same pairs.                                *)

LEMMA OrderIs ==
  ASSUME NEW files, IsFiniteSet(files)
  PROVE  /\ Len(SetToSeq(files)) \in Nat
         /\ SetToSeq(files) \in [1 .. Len(SetToSeq(files)) -> files]
         /\ \A f \in files : \E i \in 1 .. Len(SetToSeq(files)) : SetToSeq(files)[i] = f
<1> DEFINE n == Cardinality(files)  IsOrder(f) == f \in [1 .. n -> files] /\ IsInjective(f)
<1>1. n \in Nat /\ ExistsBijection(1 .. n, files) BY FS_CardinalityType
<1>2. PICK b \in Bijection(1 .. n, files) : TRUE BY <1>1 DEF ExistsBijection
<1>3. IsOrder(b) BY <1>2 DEF Bijection, Injection, IsInjective
<1>4. IsOrder(SetToSeq(files)) BY <1>3 DEF SetToSeq
<1> DEFINE s == SetToSeq(files)
<1>5. s \in Injection(1 .. n, files) BY <1>4 DEF Injection, IsInjective
<1>6. Cardinality(1 .. n) = n BY <1>1, FS_Interval
<1>7. s \in Surjection(1 .. n, files)
  <2> HIDE DEF s
  <2> QED BY <1>5, <1>6, FS_Injection
<1> HIDE DEF n
<1>8. s \in Seq(files) /\ Len(s) = n BY <1>1, <1>4
<1> QED BY <1>1, <1>4, <1>7, <1>8 DEF Surjection

LEMMA ZippedArgs ==
  ASSUME NEW flag, NEW files, IsFiniteSet(files)
  PROVE  Zipped(Args(flag, files)) = {<<flag, f>> : f \in files}
<1> DEFINE order == SetToSeq(files)  n == Len(order)
           args == [i \in 1 .. 2 * n |-> IF i % 2 = 1 THEN flag ELSE order[i \div 2]]
<1>1. /\ n \in Nat /\ order \in [1 .. n -> files]
      /\ \A f \in files : \E i \in 1 .. n : order[i] = f
  BY OrderIs
<1>2. Args(flag, files) = args BY DEF Args
<1> HIDE DEF order, n
<1>3. Len(args) = 2 * n
  <2>1. args \in Seq({flag} \cup files)
    <3>1. \A i \in 1 .. 2 * n : (IF i % 2 = 1 THEN flag ELSE order[i \div 2]) \in {flag} \cup files
      BY <1>1
    <3>2. 2 * n \in Nat BY <1>1
    <3> QED BY <3>1, <3>2
  <2>2. DOMAIN args = 1 .. 2 * n /\ 2 * n \in Nat BY <1>1
  <2> HIDE DEF args
  <2> QED BY <2>1, <2>2
<1>4. (2 * n) \div 2 = n BY <1>1
<1>5. ASSUME NEW i \in 1 .. n
      PROVE  args[2 * i - 1] = flag /\ args[2 * i] = order[i]
  <2>1. /\ 2 * i - 1 \in 1 .. 2 * n /\ 2 * i \in 1 .. 2 * n
        /\ (2 * i - 1) % 2 = 1 /\ (2 * i) % 2 = 0 /\ (2 * i) \div 2 = i
    BY <1>1
  <2> QED BY <2>1
<1>6. Zipped(args) = {<<flag, order[i]>> : i \in 1 .. n}
  <2> HIDE DEF args
  <2> QED BY <1>3, <1>4, <1>5 DEF Zipped
<1>7. {<<flag, order[i]>> : i \in 1 .. n} = {<<flag, f>> : f \in files}
  <2>1. \A i \in 1 .. n : order[i] \in files BY <1>1
  <2> QED BY <1>1, <2>1
<1> QED BY <1>2, <1>6, <1>7

LEMMA PackagedIsFinite ==
  ASSUME app \in Apps
  PROVE  /\ IsFiniteSet(Packaged) /\ IsFiniteSet(Files(Packaged))
         /\ \A l \in Packaged : l.at \in Nat
<1>1. IsFiniteSet(app.libs) /\ \A l \in app.libs : l.at \in Nat BY GapAssumption
<1>2. Packaged \in SUBSET app.libs BY DEF Packaged, Elfs, OfTarget
<1>3. IsFiniteSet(Packaged) BY <1>1, <1>2, FS_Subset
<1>4. IsFiniteSet(Files(Packaged))
  <2> DEFINE f == [l \in Packaged |-> l.file]
  <2>1. f \in Surjection(Packaged, Files(Packaged)) BY DEF Files, Surjection
  <2> HIDE DEF f
  <2> QED BY <1>3, <2>1, FS_Surjection
<1> QED BY <1>1, <1>2, <1>3, <1>4

\* What reaches nothing of a set that is complete is not among its dependents.
LEMMA DependentsHold ==
  ASSUME NEW nodes, NEW start \in SUBSET nodes, NEW needs
  PROVE  /\ start \subseteq Dependents(start, nodes, needs) /\ Dependents(start, nodes, needs) \subseteq nodes
         /\ Complete(Dependents(start, nodes, needs), nodes, needs)
         /\ start = {} => Dependents(start, nodes, needs) = {}
<1> DEFINE D == Dependents(start, nodes, needs)
<1>1. D \subseteq nodes /\ start \subseteq D BY DEF Dependents
<1>2. ASSUME NEW x \in nodes, needs[x] \cap D # {}
      PROVE  x \in D
  <2>1. PICK y \in needs[x] : y \in D BY <1>2
  <2>2. ASSUME NEW T \in SUBSET nodes, start \subseteq T, Complete(T, nodes, needs)
        PROVE  x \in T
    <3>1. y \in T BY <2>1, <2>2 DEF Dependents
    <3> QED BY <2>1, <2>2, <3>1 DEF Complete
  <2> QED BY <2>2 DEF Dependents
<1>3. start = {} => D = {} BY DEF Dependents, Complete
<1> QED BY <1>1, <1>2, <1>3 DEF Complete

\* A SONAME is made the name of a file that the APK packages.
LEMMA FileOfIs ==
  ASSUME app \in Apps, NEW n
  PROVE  /\ n \in NamesOf(Packaged) => FileOf(n) \in Files(Packaged)
         /\ n \in Files(Packaged) => FileOf(n) = n
         /\ n \notin NamesOf(Packaged) => FileOf(n) = n
         /\ n \in NamesOf(Packaged) \ Files(Packaged) =>
              \E l \in Packaged : l.name = n /\ FileOf(n) = l.file
<1> DEFINE with == {l \in Packaged : l.name = n}  First_(l) == \A k \in with : l.at <= k.at
<1>1. n \in NamesOf(Packaged) <=> with # {} BY DEF NamesOf
<1>2. ASSUME with # {} PROVE \E l \in with : First_(l)
  <2> DEFINE P == {l.at : l \in with}
  <2>1. P \in SUBSET Nat /\ P # {} BY <1>2, PackagedIsFinite
  <2>2. PICK m \in P : \A k \in P : m <= k
    <3> HIDE DEF P
    <3> QED BY <2>1, LeastOfNat
  <2> QED BY <2>2
<1>3. FileOf(n) = IF n \in Files(Packaged) \/ with = {} THEN n ELSE (CHOOSE l \in with : First_(l)).file
  BY DEF FileOf
<1>4. with # {} => (CHOOSE l \in with : First_(l)) \in with
  <2> HIDE DEF with, First_
  <2> QED BY <1>2
<1> HIDE DEF First_
<1> QED BY <1>1, <1>3, <1>4 DEF Files

ShadowFiles == {FileOf(n) : n \in ShadowTargets}

LEMMA ShadowTargetsHold ==
  /\ Shadowed \subseteq ShadowTargets /\ ShadowTargets \subseteq NamesOf(Packaged)
  /\ Complete(ShadowTargets, NamesOf(Packaged), NeededBy)
  /\ Shadowed = {} => ShadowTargets = {}
<1>1. Shadowed \in SUBSET NamesOf(Packaged) BY DEF Shadowed
<1> QED BY <1>1, DependentsHold DEF ShadowTargets

LEMMA ShadowFilesArePackaged ==
  ASSUME app \in Apps
  PROVE  ShadowFiles \in SUBSET Files(Packaged) /\ IsFiniteSet(ShadowFiles)
<1>1. ShadowFiles \in SUBSET Files(Packaged) BY ShadowTargetsHold, FileOfIs DEF ShadowFiles
<1> QED BY <1>1, PackagedIsFinite, FS_Subset

LEMMA InterposedArePackaged ==
  ASSUME app \in Apps, NEW rows
  PROVE  /\ InterpositionTargets(rows) \in SUBSET Files(Packaged) /\ IsFiniteSet(InterpositionTargets(rows))
         /\ Hits = {} => InterpositionTargets(rows) = {}
<1> DEFINE from == Exposed(rows) \cap Files(Packaged)
<1>1. from \in SUBSET Files(Packaged) OBVIOUS
<1>2. PackagedDependents(Exposed(rows)) \subseteq Files(Packaged)
      /\ (from = {} => PackagedDependents(Exposed(rows)) = {})
  BY <1>1, DependentsHold DEF PackagedDependents
<1>3. InterpositionTargets(rows) \subseteq PackagedDependents(Exposed(rows)) BY DEF InterpositionTargets
<1>4. Hits = {} => from = {} BY DEF Exposed
<1>5. InterpositionTargets(rows) \in SUBSET Files(Packaged) BY <1>2, <1>3
<1> QED BY <1>2, <1>3, <1>4, <1>5, PackagedIsFinite, FS_Subset

\* The pairs of a row: the targets it names, each behind its option; a lone flag gives none.
LEMMA LoadingPairs ==
  ASSUME app \in Apps, NEW id
  PROVE  Zipped(LoadingArgs(id)) =
           IF id = <<"load", "shadowed-by-board">> THEN {<<Target, f>> : f \in ShadowFiles}
           ELSE IF id = <<"abi", "addrinfo">> THEN {<<NetTarget, f>> : f \in Files(Resolvers)}
           ELSE {}
<1>1. IsFiniteSet(Files(Resolvers))
  <2>1. Files(Resolvers) \in SUBSET Files(Packaged) BY DEF Files, Resolvers, Importing
  <2> QED BY <2>1, PackagedIsFinite, FS_Subset
<1>2. CASE id = <<"load", "shadowed-by-board">>
  <2>1. LoadingArgs(id) = Args(Target, ShadowFiles) BY <1>2 DEF LoadingArgs, ShadowFiles
  <2> QED BY <1>2, <2>1, ZippedArgs, ShadowFilesArePackaged
<1>3. CASE id = <<"abi", "addrinfo">>
  <2>1. LoadingArgs(id) = Args(NetTarget, Files(Resolvers)) BY <1>3 DEF LoadingArgs
  <2>2. id # <<"load", "shadowed-by-board">> BY <1>3
  <2> QED BY <1>1, <1>3, <2>1, <2>2, ZippedArgs
<1>4. CASE id # <<"load", "shadowed-by-board">> /\ id # <<"abi", "addrinfo">>
  <2>1. LoadingArgs(id) = <<>> \/ LoadingArgs(id) = <<NetAppLibraries>> BY <1>4 DEF LoadingArgs
  <2>2. Zipped(<<>>) = {} /\ Zipped(<<NetAppLibraries>>) = {}
    <3>1. 0 \div 2 = 0 /\ 1 \div 2 = 0 OBVIOUS
    <3>2. Len(<<>>) = 0 /\ Len(<<NetAppLibraries>>) = 1 OBVIOUS
    <3> QED BY <3>1, <3>2 DEF Zipped
  <2> QED BY <1>4, <2>1, <2>2
<1> QED BY <1>2, <1>3, <1>4

\* All that the map tells the launcher.
LEMMA PairsAre ==
  ASSUME app \in Apps, NEW rows, NEW all
  PROVE  \A p \in LaunchPairs(rows, all) :
           \/ p[1] = Target /\ p[2] \in ShadowFiles \cup InterpositionTargets(rows)
           \/ p[1] = NetTarget /\ p[2] \in Files(Packaged)
<1> SUFFICES ASSUME NEW id \in IdsOf(all), NEW p \in Zipped(RowArgs(rows, id))
             PROVE  \/ p[1] = Target /\ p[2] \in ShadowFiles \cup InterpositionTargets(rows)
                    \/ p[1] = NetTarget /\ p[2] \in Files(Packaged)
  BY DEF LaunchPairs
<1>1. CASE id = <<"load", "interposed-by-runtime">>
  <2>1. Zipped(RowArgs(rows, id)) = {<<Target, f>> : f \in InterpositionTargets(rows)}
    BY <1>1, InterposedArePackaged, ZippedArgs DEF RowArgs
  <2> QED BY <2>1
<1>2. CASE id # <<"load", "interposed-by-runtime">>
  <2>1. RowArgs(rows, id) = LoadingArgs(id) BY <1>2 DEF RowArgs
  <2>2. Files(Resolvers) \subseteq Files(Packaged) BY DEF Files, Resolvers, Importing
  <2> QED BY <2>1, <2>2, LoadingPairs
<1> QED BY <1>1, <1>2

\* The rows' routing is what is shadowed: its row is there whenever something is.
LEMMA RoutedByIs ==
  ASSUME app \in Apps
  PROVE  RoutedBy(StaticRows) = ShadowFiles
<1> DEFINE id == <<"load", "shadowed-by-board">>
<1>1. Shadowed # {} => id \in IdsOf(StaticRows)
  <2>1. Shadowed # {} => \E r \in ShadowRows : r.id = id
    <3> DEFINE row == Row("native-loading", id, "missing", IF CanRoute THEN "XS" ELSE "M")
    <3>1. Shadowed # {} => row \in ShadowRows BY DEF ShadowRows
    <3> QED BY <3>1 DEF Row
  <2>2. ShadowRows \subseteq NativeLoadingRows BY DEF NativeLoadingRows
  <2>3. NativeLoadingRows \subseteq StaticRows BY DEF StaticRows
  <2> QED BY <2>1, <2>2, <2>3 DEF IdsOf
<1>2. ASSUME NEW f PROVE f \in RoutedBy(StaticRows) => f \in ShadowFiles
  <2> SUFFICES ASSUME NEW i \in IdsOf(StaticRows), NEW p \in Zipped(LoadingArgs(i)), p[1] = Target, p[2] = f
               PROVE  f \in ShadowFiles
    BY DEF RoutedBy
  <2>1. Target # NetTarget BY DEF Target, NetTarget
  <2> QED BY <2>1, LoadingPairs
<1>3. ASSUME NEW f \in ShadowFiles PROVE f \in RoutedBy(StaticRows)
  <2>1. Shadowed # {} BY ShadowTargetsHold DEF ShadowFiles
  <2>2. <<Target, f>> \in Zipped(LoadingArgs(id)) BY LoadingPairs
  <2>3. <<Target, f>> \in UNION {Zipped(LoadingArgs(i)) : i \in IdsOf(StaticRows)} BY <1>1, <2>1, <2>2
  <2> QED BY <2>3 DEF RoutedBy
<1> QED BY <1>2, <1>3

\* The map routes what is shadowed and what is interposed, each with what needs it.
LEMMA MapRoutes ==
  ASSUME app \in Apps
  PROVE  {p[2] : p \in {p \in LaunchPairs(StaticRows, BuiltRows(StaticRows)) : p[1] = Target}}
           = ShadowFiles \cup InterpositionTargets(StaticRows)
<1> DEFINE pairs == LaunchPairs(StaticRows, BuiltRows(StaticRows))
           shadowed == <<"load", "shadowed-by-board">>  interposed == <<"load", "interposed-by-runtime">>
<1>1. \A p \in pairs : p[1] = Target => p[2] \in ShadowFiles \cup InterpositionTargets(StaticRows)
  <2>1. Target # NetTarget BY DEF Target, NetTarget
  <2> QED BY <2>1, PairsAre
<1>2. ASSUME NEW f \in ShadowFiles PROVE <<Target, f>> \in pairs
  <2>1. f \in RoutedBy(StaticRows) BY RoutedByIs
  <2>2. PICK id \in IdsOf(StaticRows) : \E p \in Zipped(LoadingArgs(id)) : p[1] = Target /\ p[2] = f
    BY <2>1 DEF RoutedBy
  <2>3. id = shadowed
    <3>1. Target # NetTarget BY DEF Target, NetTarget
    <3> QED BY <2>2, <3>1, LoadingPairs
  <2>4. RowArgs(StaticRows, id) = LoadingArgs(id) BY <2>3 DEF RowArgs
  <2>5. <<Target, f>> \in Zipped(RowArgs(StaticRows, id)) BY <2>3, <2>4, LoadingPairs
  <2>6. id \in IdsOf(BuiltRows(StaticRows)) BY <2>2 DEF IdsOf, BuiltRows
  <2> QED BY <2>5, <2>6 DEF LaunchPairs
<1>3. ASSUME NEW f \in InterpositionTargets(StaticRows) PROVE <<Target, f>> \in pairs
  <2>1. Hits # {} BY InterposedArePackaged
  <2>2. \E r \in InterpositionRows(StaticRows) : r.id = interposed
    <3>1. Claim(Exposed(StaticRows) \subseteq InterpositionTargets(StaticRows)) # "unread" BY DEF Claim, Answer
    <3> QED BY <2>1, <3>1 DEF InterpositionRows, Ruled, Row
  <2>3. interposed \in IdsOf(BuiltRows(StaticRows)) BY <2>2 DEF IdsOf, BuiltRows
  <2>4. Zipped(RowArgs(StaticRows, interposed)) = {<<Target, g>> : g \in InterpositionTargets(StaticRows)}
    BY InterposedArePackaged, ZippedArgs DEF RowArgs
  <2>5. <<Target, f>> \in Zipped(RowArgs(StaticRows, interposed)) BY <2>4
  <2> QED BY <2>3, <2>5 DEF LaunchPairs
<1>4. ASSUME NEW f \in ShadowFiles \cup InterpositionTargets(StaticRows)
      PROVE  \E p \in {p \in pairs : p[1] = Target} : f = p[2]
  <2>1. <<Target, f>> \in pairs BY <1>2, <1>3
  <2> HIDE DEF pairs
  <2>2. <<Target, f>> \in {p \in pairs : p[1] = Target} BY <2>1
  <2> QED BY <2>2
<1> DEFINE chosen == {p \in pairs : p[1] = Target}  routed == ShadowFiles \cup InterpositionTargets(StaticRows)
<1>5. (\A p \in chosen : p[2] \in routed) /\ \A f \in routed : \E p \in chosen : f = p[2]
  <2> HIDE DEF pairs
  <2> QED BY <1>1, <1>4
<1>6. {p[2] : p \in chosen} = routed
  <2> HIDE DEF chosen, routed
  <2> QED BY <1>5
<1> QED BY <1>6

LEMMA OneNameFile ==
  ASSUME app \in Apps, OneNameEach, NEW l \in Packaged
  PROVE  FileOf(l.name) = l.file
<1>1. \A k, h \in Packaged : {k.name, k.file} \cap {h.name, h.file} # {} => k = h BY DEF OneNameEach
<1>2. CASE l.name \in Files(Packaged)
  <2>1. FileOf(l.name) = l.name BY <1>2, FileOfIs
  <2>2. PICK k \in Packaged : k.file = l.name BY <1>2 DEF Files
  <2>3. k = l BY <2>2, <1>1
  <2> QED BY <2>1, <2>2, <2>3
<1>3. CASE l.name \notin Files(Packaged)
  <2>1. l.name \in NamesOf(Packaged) BY DEF NamesOf
  <2>2. PICK k \in Packaged : k.name = l.name /\ FileOf(l.name) = k.file BY <1>3, <2>1, FileOfIs
  <2>3. k = l BY <2>2, <1>1
  <2> QED BY <2>2, <2>3
<1> QED BY <1>2, <1>3

\* What needs a file that is routed is routed with it.
LEMMA DependentsAreRouted ==
  ASSUME app \in Apps, OneNameEach, NEW l \in Packaged, NEW n \in l.needed,
         FileOf(n) \in ShadowFiles \cup InterpositionTargets(StaticRows)
  PROVE  l.file \in ShadowFiles \cup InterpositionTargets(StaticRows)
<1>1. CASE FileOf(n) \in ShadowFiles
  <2>1. PICK m \in ShadowTargets : FileOf(n) = FileOf(m) BY <1>1 DEF ShadowFiles
  <2>2. m \in NamesOf(Packaged) BY ShadowTargetsHold
  <2>3. PICK j \in Packaged : j.name = m BY <2>2 DEF NamesOf
  <2>4. \A k, h \in Packaged : {k.name, k.file} \cap {h.name, h.file} # {} => k = h
    BY DEF OneNameEach
  <2>5. FileOf(m) = j.file BY <2>3, OneNameFile
  <2>6. FileOf(n) \in Files(Packaged) BY <2>3, <2>1, <2>5 DEF Files
  <2>7. n = m
    <3>1. CASE n \in Files(Packaged)
      <4>1. n = j.file BY <3>1, <2>1, <2>5, FileOfIs
      <4>2. n \in NamesOf(Packaged) BY <3>1 DEF OneNameEach
      <4>3. PICK k \in Packaged : k.name = n BY <4>2 DEF NamesOf
      <4> QED BY <4>1, <4>3, <2>3, <2>4
    <3>2. CASE n \in NamesOf(Packaged) \ Files(Packaged)
      <4>1. PICK k \in Packaged : k.name = n /\ FileOf(n) = k.file BY <3>2, FileOfIs
      <4>2. k = j BY <4>1, <2>1, <2>5, <2>4
      <4> QED BY <4>1, <4>2, <2>3
    <3>3. CASE n \notin NamesOf(Packaged) /\ n \notin Files(Packaged)
      BY <3>3, <2>6, FileOfIs
    <3> QED BY <3>1, <3>2, <3>3
  <2>8. l.name \in NamesOf(Packaged) /\ n \in NeededBy[l.name]
    BY DEF NamesOf, NeededBy
  <2>9. l.name \in ShadowTargets BY <2>7, <2>8, ShadowTargetsHold DEF Complete
  <2>10. FileOf(l.name) = l.file BY OneNameFile
  <2> QED BY <2>9, <2>10 DEF ShadowFiles
<1>2. CASE FileOf(n) \in InterpositionTargets(StaticRows)
  <2> DEFINE from == Exposed(StaticRows) \cap Files(Packaged)
             D == PackagedDependents(Exposed(StaticRows))
             needs == [f \in Files(Packaged) |-> FilesNeeded(f)]
  <2>1. FileOf(n) \in D BY <1>2 DEF InterpositionTargets
  <2>2. l.file \in Files(Packaged) /\ FileOf(n) \in FilesNeeded(l.file) BY DEF Files, FilesNeeded
  <2>3. needs[l.file] \cap D # {} BY <2>1, <2>2
  <2>4. Complete(D, Files(Packaged), needs)
    <3>1. from \in SUBSET Files(Packaged) OBVIOUS
    <3> QED BY <3>1, DependentsHold DEF PackagedDependents
  <2>5. l.file \in D
    <3> HIDE DEF D, needs
    <3> QED BY <2>2, <2>3, <2>4 DEF Complete
  <2>6. InterpositionTargets(StaticRows) = D \ RoutedBy(StaticRows) BY <1>2 DEF InterpositionTargets
  <2> QED BY <2>5, <2>6, RoutedByIs
<1> QED BY <1>1, <1>2

-----------------------------------------------------------------------------
(* GapMap: what was measured, and the invariant of its steps *)

\* A result is at a place of the document, and of the row that its probe is a contract of; one
\* that begins with a whole commit was measured on its clean tree, and says no more.
ResultPlace(r) ==
  /\ r.at \in 1 .. MaxResults /\ r.row = IF r.probe \in Contracts THEN r.probe ELSE <<>>
  /\ \A h \in Range(Heads) : IsPrefix(h, r.commit) => r.commit = h /\ r.on = h /\ ~r.edited
ResultsPlace == \A r \in results : ResultPlace(r)
TreePlace == tree.head \in Range(Heads) \cup {<<>>}

\* A result that a row is laid under is of a beginning of the commit that the map is built of.
For(r, id) == r.row = id \/ (Probed(id) /\ r.probe = <<ProbeOf[id[1]][id[2]]>>)
MeasuredBy(id, head) ==
  head \in Range(Heads) /\ \E r \in results : IsPrefix(r.commit, head) /\ For(r, id)
MeasuredPlace == \A row \in built.rows : row.measured => MeasuredBy(row.id, built.head)

GapIInv ==
  /\ app \in Apps /\ ResultsPlace /\ TreePlace
  /\ TargetsArePackaged /\ RoutedTogether /\ MeasuredPlace

\* Of two texts of one length, one begins with the other only where they are the same.
LEMMA PrefixOfSame ==
  ASSUME NEW s \in Seq(Letters), NEW t \in Seq(Letters), Len(s) = Len(t), IsPrefix(s, t)
  PROVE  s = t
<1>1. SubSeq(s, 1, Len(s)) = SubSeq(t, 1, Len(t)) BY DEF IsPrefix
<1>2. SubSeq(s, 1, Len(s)) = s /\ SubSeq(t, 1, Len(t)) = t BY SubSeqFull
<1> QED BY <1>1, <1>2

\* A text that another begins is begun alike.
LEMMA PrefixIs ==
  ASSUME NEW s \in Seq(Letters), NEW t \in Seq(Letters), s # <<>>, IsPrefix(s, t)
  PROVE  t # <<>> /\ t[1] = s[1]
<1>1. Len(s) \in Nat /\ Len(s) > 0 /\ Len(s) <= Len(t) /\ SubSeq(s, 1, Len(s)) = SubSeq(t, 1, Len(s))
  BY EmptySeq, LenProperties DEF IsPrefix
<1>2. SubSeq(s, 1, Len(s))[1] = s[1] /\ SubSeq(t, 1, Len(s))[1] = t[1] BY <1>1, SubSeqProperties
<1>3. Len(t) > 0 BY <1>1, LenProperties
<1> QED BY <1>1, <1>2, <1>3

\* What the suite records begins with a whole commit only on its clean tree.
LEMMA MeasuredIs ==
  ASSUME TreePlace, NEW h \in Range(Heads), NEW commit \in {Measured, <<>>}, IsPrefix(h, commit)
  PROVE  commit = h /\ tree.head = h /\ ~tree.dirty
<1>1. \A k \in Range(Heads) : k \in Seq(Letters) /\ k # <<>> /\ Len(h) = Len(k) /\ k[1] # "dirty-"
  BY CommitAssumption DEF Range
<1>2. tree.head \in Seq(Letters)
  <2>1. <<>> \in Seq(Letters) OBVIOUS
  <2> QED BY <1>1, <2>1 DEF TreePlace
<1>3. <<"dirty-">> \o tree.head \in Seq(Letters) /\ (<<"dirty-">> \o tree.head)[1] = "dirty-"
  <2>1. "dirty-" \in Letters BY DEF Letters
  <2>2. <<"dirty-">> \in Seq(Letters) /\ Len(<<"dirty-">>) = 1 /\ <<"dirty-">>[1] = "dirty-" BY <2>1
  <2>3. Len(tree.head) \in Nat BY <1>2, LenProperties
  <2>4. /\ <<"dirty-">> \o tree.head \in Seq(Letters)
        /\ \A i \in 1 .. 1 + Len(tree.head) :
             (<<"dirty-">> \o tree.head)[i] = IF i <= 1 THEN <<"dirty-">>[i] ELSE tree.head[i - 1]
    BY <1>2, <2>2, ConcatProperties
  <2>5. 1 \in 1 .. 1 + Len(tree.head) BY <2>3
  <2> QED BY <2>2, <2>4, <2>5
<1>4. commit \in {<<>>, tree.head, <<"dirty-">> \o tree.head}
      /\ (tree.dirty => commit = <<>> \/ commit = <<"dirty-">> \o tree.head)
  BY DEF Measured
<1>5. commit \in Seq(Letters)
  <2>1. <<>> \in Seq(Letters) OBVIOUS
  <2> QED BY <1>2, <1>3, <1>4, <2>1
<1>6. commit # <<>> /\ commit[1] = h[1] BY <1>1, <1>5, PrefixIs
<1>7. commit # <<"dirty-">> \o tree.head BY <1>1, <1>3, <1>6
<1>8. commit = tree.head /\ ~tree.dirty /\ tree.head \in Range(Heads) BY <1>4, <1>6, <1>7 DEF TreePlace
<1> QED BY <1>1, <1>8, PrefixOfSame

\* What a row was measured by is of the map's commit, or its commit is a beginning of it.
LEMMA MeasuredOnThisBuildIs ==
  ASSUME ResultsPlace, MeasuredPlace
  PROVE  MeasuredOnThisBuild
<1> SUFFICES ASSUME NEW row \in built.rows, row.measured
             PROVE  /\ built.head # <<>>
                    /\ \E r \in results : /\ (r.on = built.head /\ ~r.edited) \/ IsStrictPrefix(r.commit, built.head)
                                          /\ For(r, row.id)
  BY DEF MeasuredOnThisBuild, For
<1>1. built.head \in Range(Heads) /\ built.head # <<>> BY CommitAssumption DEF MeasuredPlace, MeasuredBy
<1>2. PICK r \in results : IsPrefix(r.commit, built.head) /\ For(r, row.id) BY DEF MeasuredPlace, MeasuredBy
<1>3. CASE r.commit = built.head
  <2>1. IsPrefix(built.head, r.commit) BY <1>2, <1>3
  <2>2. r.on = built.head /\ ~r.edited BY <1>1, <2>1 DEF ResultsPlace, ResultPlace
  <2> QED BY <1>1, <1>2, <2>2
<1>4. CASE r.commit # built.head
  <2>1. IsStrictPrefix(r.commit, built.head) BY <1>2, <1>4 DEF IsStrictPrefix
  <2> QED BY <1>1, <1>2, <2>1
<1> QED BY <1>3, <1>4

LEMMA LastResultIs ==
  ASSUME ResultsPlace, NEW found \in SUBSET results, found # {}
  PROVE  LastResult(found) \in found
<1> DEFINE P == {r.at : r \in found}
<1>1. MaxResults \in Nat BY GapAssumption
<1>2. P \in SUBSET (0 .. MaxResults) /\ P # {}
  <2>1. \A r \in results : r.at \in 1 .. MaxResults BY DEF ResultsPlace, ResultPlace
  <2> QED BY <1>1, <2>1
<1>3. PICK m \in P : \A k \in P : k <= m
  <2> HIDE DEF P
  <2> QED BY <1>1, <1>2, GreatestUpTo
<1>4. \E r \in found : \A q \in found : q.at <= r.at BY <1>3
<1> QED BY <1>4 DEF LastResult

LEMMA ResultOfIs ==
  ASSUME ResultsPlace, TreePlace, NEW id, ResultOf(id) # <<>>
  PROVE  MeasuredBy(id, tree.head)
<1> DEFINE contract == {r \in results : r.row = id /\ SameBuild(r)}
           probe == {r \in results : Probed(id) /\ r.probe = <<ProbeOf[id[1]][id[2]]>> /\ SameBuild(r)}
<1>1. ASSUME NEW r \in results, SameBuild(r), For(r, id)
      PROVE  MeasuredBy(id, tree.head)
  <2>1. tree.head \in Range(Heads) BY <1>1 DEF SameBuild, TreePlace
  <2>2. CASE IsPrefix(r.commit, tree.head) BY <1>1, <2>1, <2>2 DEF MeasuredBy
  <2>3. CASE IsPrefix(tree.head, r.commit)
    <3>1. r.commit = tree.head BY <2>1, <2>3 DEF ResultsPlace, ResultPlace
    <3>2. IsPrefix(r.commit, tree.head) BY <2>3, <3>1
    <3> QED BY <1>1, <2>1, <3>2 DEF MeasuredBy
  <2> QED BY <1>1, <2>2, <2>3 DEF SameBuild
<1>2. CASE contract # {}
  <2>1. ResultOf(id) = LastResult(contract) BY <1>2 DEF ResultOf
  <2>2. LastResult(contract) \in contract
    <3>1. contract \in SUBSET results OBVIOUS
    <3> HIDE DEF contract
    <3> QED BY <1>2, <3>1, LastResultIs
  <2> QED BY <1>1, <2>2 DEF For
<1>3. CASE contract = {} /\ probe # {}
  <2>1. LastResult(probe) \in probe
    <3>1. probe \in SUBSET results OBVIOUS
    <3> HIDE DEF probe
    <3> QED BY <1>3, <3>1, LastResultIs
  <2> QED BY <1>1, <2>1 DEF For
<1>4. CASE contract = {} /\ probe = {}
  BY <1>4 DEF ResultOf
<1> QED BY <1>2, <1>3, <1>4

LEMMA WithResultIs ==
  ASSUME NEW row
  PROVE  WithResult(row).id = row.id /\ (WithResult(row).measured <=> ResultOf(row.id) # <<>>)
BY DEF WithResult

LEMMA GapInitIInv == GapInit => GapIInv
<1> SUFFICES ASSUME GapInit PROVE GapIInv OBVIOUS
<1>1. app \in Apps /\ results \in Documents /\ built = None_ /\ tree \in Trees BY DEF GapInit
<1>2. built.pairs = {} /\ built.rows = {} BY <1>1 DEF None_
<1>3. TargetsArePackaged BY <1>2 DEF TargetsArePackaged, UnpackagedTargets
<1>4. RoutedTogether
  <2>1. RoutedFiles = {} BY <1>2 DEF RoutedFiles
  <2> QED BY <2>1 DEF RoutedTogether, DependentsRoute
<1>5. ResultsPlace /\ TreePlace BY <1>1, CommitAssumption DEF ResultsPlace, ResultPlace, TreePlace
<1> QED BY <1>1, <1>2, <1>3, <1>4, <1>5 DEF GapIInv, MeasuredPlace

\* What the rows and the launcher's pairs are of stays as it is while nothing is built.
LEMMA UnbuiltKeeps ==
  ASSUME GapIInv, UNCHANGED <<app, built>>
  PROVE  (app \in Apps)' /\ TargetsArePackaged' /\ RoutedTogether'
<1>1. Packaged' = Packaged BY DEF Packaged, Elfs
<1>2. \A n : FileOf(n)' = FileOf(n) BY <1>1 DEF FileOf
<1>3. RoutedFiles' = RoutedFiles BY DEF RoutedFiles
<1> QED BY <1>1, <1>2, <1>3 DEF GapIInv, TargetsArePackaged, UnpackagedTargets, RoutedTogether,
           OneNameEach, DependentsRoute

LEMMA UnmeasuredKeeps ==
  ASSUME GapIInv, UNCHANGED <<app, built, results>>, TreePlace'
  PROVE  GapIInv'
<1>1. ResultsPlace' /\ MeasuredPlace'
  BY DEF GapIInv, ResultsPlace, ResultPlace, MeasuredPlace, MeasuredBy, For, Probed
<1> QED BY <1>1, UnbuiltKeeps DEF GapIInv

\* A result that gives way to a new one gives way to one of its probe, its row and its commit.
LEMMA MeasureKeeps ==
  ASSUME GapIInv, Measure
  PROVE  GapIInv'
<1> PICK p \in Contracts \cup {<<"dialog-before-window">>}, outcome \in {"passed", "failed", "absent"},
         commit \in {Measured, <<>>} :
      MergeResult(p, outcome, commit)
  BY DEF Measure
<1> DEFINE kept == {r \in results : ~(r.probe = p /\ r.commit = commit)}
           last == Max({0} \cup {r.at : r \in kept})
           new == [probe |-> p, row |-> IF p \in Contracts THEN p ELSE <<>>, outcome |-> outcome,
                   commit |-> commit, on |-> tree.head, edited |-> tree.dirty, at |-> last + 1]
<1>1. UNCHANGED <<app, tree, built>> BY DEF Measure
<1>2. last < MaxResults /\ results' = kept \cup {new} BY DEF MergeResult
<1>3. last \in 0 .. MaxResults
  <2> DEFINE P == {0} \cup {r.at : r \in kept}
  <2>1. \A r \in results : r.at \in 1 .. MaxResults BY DEF GapIInv, ResultsPlace, ResultPlace
  <2>2. MaxResults \in Nat /\ P \in SUBSET (0 .. MaxResults) /\ P # {}
    BY <2>1, GapAssumption
  <2>3. last = Max(P) OBVIOUS
  <2> HIDE DEF P, last
  <2>4. Max(P) \in P BY <2>2, MaxUpTo
  <2> QED BY <2>2, <2>3, <2>4
<1>4. ResultsPlace'
  <2>1. last + 1 \in 1 .. MaxResults BY <1>2, <1>3, GapAssumption
  <2>2. \A h \in Range(Heads) : IsPrefix(h, commit) => commit = h /\ tree.head = h /\ ~tree.dirty
    BY MeasuredIs DEF GapIInv
  <2> HIDE DEF last
  <2>3. ResultPlace(new) BY <2>1, <2>2 DEF ResultPlace
  <2>4. \A r \in kept : ResultPlace(r) BY DEF GapIInv, ResultsPlace
  <2> HIDE DEF new, kept
  <2> QED BY <1>2, <2>3, <2>4 DEF ResultsPlace, ResultPlace
<1>5. ASSUME NEW id, NEW head, MeasuredBy(id, head)
      PROVE  \E r \in results' : IsPrefix(r.commit, head) /\ For(r, id)
  <2>1. PICK r \in results : IsPrefix(r.commit, head) /\ For(r, id) BY <1>5 DEF MeasuredBy
  <2>2. CASE r \in kept BY <1>2, <2>1, <2>2
  <2>3. CASE r \notin kept
    <3>1. r.probe = p /\ r.commit = commit BY <2>3
    <3>2. r.row = IF r.probe \in Contracts THEN r.probe ELSE <<>> BY DEF GapIInv, ResultsPlace, ResultPlace
    <3>3. new.commit = r.commit /\ new.row = r.row /\ new.probe = r.probe BY <3>1, <3>2
    <3>4. new \in results' BY <1>2
    <3> HIDE DEF new
    <3> QED BY <2>1, <3>3, <3>4 DEF For
  <2> QED BY <2>2, <2>3
<1>6. MeasuredPlace'
  <2>1. \A row \in built.rows : row.measured =>
          /\ built.head \in Range(Heads)
          /\ \E r \in results' : IsPrefix(r.commit, built.head) /\ For(r, row.id)
    BY <1>5 DEF GapIInv, MeasuredPlace, MeasuredBy
  <2> QED BY <1>1, <2>1 DEF MeasuredPlace, MeasuredBy, For, Probed
<1>7. TreePlace' BY <1>1 DEF GapIInv, TreePlace
<1> QED BY <1>1, <1>4, <1>6, <1>7, UnbuiltKeeps DEF GapIInv

LEMMA BuildKeeps ==
  ASSUME GapIInv, Build
  PROVE  GapIInv'
<1> DEFINE rows == BuiltRows(StaticRows)
<1>1. built' = Map(StaticRows, rows) /\ UNCHANGED <<app, tree, results>> /\ app \in Apps
  BY DEF Build, GapIInv
<1>2. /\ built'.rows = {WithResult(row) : row \in rows}
      /\ built'.pairs = LaunchPairs(StaticRows, rows) /\ built'.head = tree.head
  BY <1>1 DEF Map, Reported
<1>3. Packaged' = Packaged /\ \A n : FileOf(n)' = FileOf(n)
  <2>1. Packaged' = Packaged BY <1>1 DEF Packaged, Elfs
  <2> QED BY <2>1 DEF FileOf
<1>4. TargetsArePackaged'
  <2>1. \A q \in LaunchPairs(StaticRows, rows) : q[2] \in Files(Packaged)
    BY <1>1, PairsAre, ShadowFilesArePackaged, InterposedArePackaged
  <2>2. {q[2] : q \in {q \in LaunchPairs(StaticRows, rows) : q[1] \in {Target, NetTarget}}} \subseteq Files(Packaged)
    BY <2>1
  <2> QED BY <1>2, <1>3, <2>2 DEF TargetsArePackaged, UnpackagedTargets
<1>5. RoutedTogether'
  <2>1. RoutedFiles' = ShadowFiles \cup InterpositionTargets(StaticRows)
    BY <1>1, <1>2, MapRoutes DEF RoutedFiles
  <2>2. OneNameEach' => OneNameEach BY <1>3 DEF OneNameEach
  <2>3. ASSUME OneNameEach, NEW l \in Packaged, NEW n \in l.needed, FileOf(n) \in RoutedFiles'
        PROVE  l.file \in RoutedFiles'
    BY <1>1, <2>1, <2>3, DependentsAreRouted
  <2> QED BY <1>3, <2>2, <2>3 DEF RoutedTogether, DependentsRoute
<1>6. ResultsPlace' /\ MeasuredPlace' /\ TreePlace'
  <2>1. ResultsPlace /\ TreePlace BY DEF GapIInv
  <2>2. ResultsPlace' /\ TreePlace' BY <1>1, <2>1 DEF ResultsPlace, ResultPlace, TreePlace
  <2>3. ASSUME NEW row \in built'.rows, row.measured
        PROVE  MeasuredBy(row.id, tree.head)
    <3>1. PICK was \in rows : row = WithResult(was) BY <1>2
    <3>2. row.id = was.id /\ ResultOf(was.id) # <<>> BY <2>3, <3>1, WithResultIs
    <3> QED BY <2>1, <3>2, ResultOfIs
  <2> QED BY <1>1, <1>2, <2>2, <2>3 DEF MeasuredPlace, MeasuredBy, For, Probed
<1> QED BY <1>1, <1>4, <1>5, <1>6 DEF GapIInv

LEMMA GapStepIInv == GapIInv /\ [GapNext]_gapVars => GapIInv'
<1> SUFFICES ASSUME GapIInv, [GapNext]_gapVars PROVE GapIInv' OBVIOUS
<1>0. TreePlace BY DEF GapIInv
<1>1. CASE Edit
  <2>1. UNCHANGED <<app, built, results>> BY <1>1 DEF Edit
  <2>2. tree'.head = tree.head BY <1>1 DEF Edit
  <2>3. TreePlace' BY <1>0, <2>2 DEF TreePlace
  <2> QED BY <2>1, <2>3, UnmeasuredKeeps
<1>2. CASE Commit
  <2>1. UNCHANGED <<app, built, results>> BY <1>2 DEF Commit
  <2>2. PICK i \in 1 .. Len(Heads) - 1 : tree' = [tree EXCEPT !.dirty = FALSE, !.head = Heads[i + 1]]
    BY <1>2 DEF Commit
  <2>3. Len(Heads) \in Nat /\ DOMAIN Heads = 1 .. Len(Heads) BY CommitAssumption
  <2>4. i + 1 \in DOMAIN Heads BY <2>3
  <2>5. Heads[i + 1] \in Range(Heads) BY <2>4 DEF Range
  <2>6. tree'.head = Heads[i + 1] \/ tree'.head = tree.head BY <2>2
  <2>7. TreePlace' BY <1>0, <2>5, <2>6 DEF TreePlace
  <2> QED BY <2>1, <2>7, UnmeasuredKeeps
<1>3. CASE Measure BY <1>3, MeasureKeeps
<1>4. CASE Observe
  <2>1. UNCHANGED <<app, tree, built, results>> BY <1>4 DEF Observe
  <2> QED BY <1>0, <2>1, UnmeasuredKeeps DEF TreePlace
<1>5. CASE Build BY <1>5, BuildKeeps
<1>6. CASE UNCHANGED gapVars
  <2>1. UNCHANGED <<app, tree, built, results>> BY <1>6 DEF gapVars
  <2> QED BY <1>0, <2>1, UnmeasuredKeeps DEF TreePlace
<1> QED BY <1>1, <1>2, <1>3, <1>4, <1>5, <1>6 DEF GapNext

\* Every result keeps its place and its row, and the last map is as it must be.
THEOREM GapInvariant == GapSpec => []GapIInv
BY GapInitIInv, GapStepIInv, PTL DEF GapSpec

\* The launcher is never told a target that the APK does not package.
THEOREM GapTargetsArePackaged == GapSpec => []TargetsArePackaged
<1>1. GapIInv => TargetsArePackaged BY DEF GapIInv
<1> QED BY <1>1, GapInvariant, PTL

\* Where a name is of one library, what needs a routed library is routed with it.
THEOREM GapRoutedTogether == GapSpec => []RoutedTogether
<1>1. GapIInv => RoutedTogether BY DEF GapIInv
<1> QED BY <1>1, GapInvariant, PTL

\* What the map calls measured was measured on the clean tree of the commit that the map
\* names, or by a result whose commit is but a beginning of it.
THEOREM GapMeasuredOnThisBuild == GapSpec => []MeasuredOnThisBuild
<1>1. GapIInv => MeasuredOnThisBuild BY MeasuredOnThisBuildIs DEF GapIInv
<1> QED BY <1>1, GapInvariant, PTL
=============================================================================
