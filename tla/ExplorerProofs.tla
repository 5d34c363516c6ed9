--------------------------- MODULE ExplorerProofs ---------------------------
(***************************************************************************)
(* Proofs about the explorer, for every set of screens and views, every    *)
(* grid and any number of unanswered commands.                             *)
(***************************************************************************)
EXTENDS Explorer, TLAPS

LEMMA ExplorerTypeInit == Init => TypeOK
<1> SUFFICES ASSUME Init PROVE TypeOK
  OBVIOUS
<1>1. drops \in 0 .. MaxDrops
  <2>1. MaxDrops \in Nat
    BY ExplorerAssumption
  <2>2. QED
    BY <2>1 DEF Init
<1>2. up \in BOOLEAN /\ died \in BOOLEAN /\ phone \in BOOLEAN
  BY DEF Init
<1>3. scrolled \in [Looks -> 0 .. 2]
  BY DEF Init
<1>4. QED
  BY <1>1, <1>2, <1>3 DEF Init, TypeOK, Looks

LEMMA ExplorerTypeStep == TypeOK /\ [Next]_vars => TypeOK'
<1> SUFFICES ASSUME TypeOK, [Next]_vars PROVE TypeOK'
  OBVIOUS
<1>d. MaxDrops \in Nat
  BY ExplorerAssumption
<1> USE DEF TypeOK, device, explored, Step, Looks
<1>1. CASE Move
  BY <1>1 DEF Move
<1>2. CASE Die
  BY <1>2 DEF Die
<1>3. CASE TimeUp
  BY <1>3 DEF TimeUp
<1>4. CASE CheckAlive
  <2>1. drops' \in 0 .. MaxDrops
    BY <1>4, <1>d DEF CheckAlive
  <2>2. died' \in BOOLEAN
    BY <1>4 DEF CheckAlive
  <2>3. pc' \in {"loop", "look", "act", "final", "done"}
    BY <1>4 DEF CheckAlive
  <2>4. QED
    BY <1>4, <2>1, <2>2, <2>3 DEF CheckAlive
<1>5. CASE Look
  BY <1>5, <1>d, ExplorerAssumption DEF Look
<1>6. CASE Tap
  BY <1>6 DEF Tap, Tapped, Candidates
<1>7. CASE TapGrid
  BY <1>7 DEF TapGrid, Untried
<1>8. CASE Scroll
  BY <1>8 DEF Scroll
<1>9. CASE Back
  <2>1. drops' \in 0 .. MaxDrops
    BY <1>9, <1>d DEF Back
  <2>2. at' \in Looks /\ up' \in BOOLEAN
    BY <1>9 DEF Back
  <2>3. backs' \in 0 .. 3 /\ recent' \in 0 .. 3
    BY <1>9 DEF Back, BackCount
  <2>4. pc' = "loop" /\ UNCHANGED <<phone, explored, died>>
    BY <1>9 DEF Back
  <2>5. last' \in Looks /\ seen' \in Looks /\ views' = {}
    BY <1>9 DEF Back
  <2>6. QED
    BY <2>1, <2>2, <2>3, <2>4, <2>5
<1>10. CASE Final
  <2>1. drops' \in 0 .. MaxDrops
    BY <1>10, <1>d DEF Final
  <2>2. died' \in BOOLEAN
    BY <1>10 DEF Final, LastLook
  <2>3. QED
    BY <1>10, <2>1, <2>2 DEF Final
<1>11. CASE UNCHANGED vars
  BY <1>11 DEF vars
<1>12. QED
  BY <1>1, <1>2, <1>3, <1>4, <1>5, <1>6, <1>7, <1>8, <1>9, <1>10, <1>11
  DEF Next, Act

\* Nothing denied, no text field and nothing that is not clickable is ever marked
\* as tapped; the counts stay in range.
THEOREM ExplorerTypeOK == Spec => []TypeOK
BY ExplorerTypeInit, ExplorerTypeStep, PTL DEF Spec

-----------------------------------------------------------------------------
(* The count of Backs.  It grows only on the screen of the step before, and   *)
(* from less than two only when that screen's grid is tapped: so a count      *)
(* above zero speaks of a screen whose grid is used up.  It never exceeds the *)
(* Backs in a row on that screen.                                             *)

BacksPlace ==
  /\ backs > 0 => \A p \in Point : <<last, p>> \in gridded
  /\ backs <= recent

LEMMA BacksPlaceInit == Init => BacksPlace
BY DEF Init, BacksPlace

LEMMA BacksPlaceStep == TypeOK /\ BacksPlace /\ [Next]_vars => BacksPlace'
<1> SUFFICES ASSUME TypeOK, BacksPlace, [Next]_vars PROVE BacksPlace'
  OBVIOUS
<1> USE DEF TypeOK, BacksPlace, explored
<1>1. CASE Tap \/ TapGrid \/ Scroll
  BY <1>1 DEF Tap, TapGrid, Scroll, Step
<1>2. CASE Back
  <2>1. backs' = 0 \/ backs' = BackCount
    BY <1>2 DEF Back
  <2>2. CASE backs' = 0
    <3>1. recent' \in 0 .. 3
      BY <1>2 DEF Back, Step
    <3>2. QED
      BY <2>2, <3>1
  <2>3. CASE backs' = BackCount /\ backs' # 0
    <3>1. seen = last /\ last' = seen /\ gridded' = gridded
      BY <1>2, <2>3 DEF Back, BackCount, Step
    <3>2. backs' <= recent'
      BY <1>2, <2>3, <3>1 DEF Back, BackCount, Step
    <3>3. \A p \in Point : <<seen, p>> \in gridded
      <4>1. CASE backs < 2
        BY <1>2, <4>1 DEF Back, TakesGrid, Untried
      <4>2. CASE ~(backs < 2)
        BY <3>1, <4>2
      <4>3. QED
        BY <4>1, <4>2
    <3>4. QED
      BY <3>1, <3>2, <3>3
  <2>4. QED
    BY <2>1, <2>2, <2>3
<1>3. CASE Move \/ Die \/ TimeUp \/ CheckAlive \/ Look \/ Final
  BY <1>3 DEF Move, Die, TimeUp, CheckAlive, Look, Final
<1>4. CASE UNCHANGED vars
  BY <1>4 DEF vars
<1>5. QED
  BY <1>1, <1>2, <1>3, <1>4 DEF Next, Act

EInv == TypeOK /\ BacksPlace

\* Where the explorer stands: typed, and the count of Backs speaks of a screen that
\* is used up.
THEOREM ExplorerInvariant == Spec => []EInv
<1>1. Init => EInv
  BY ExplorerTypeInit, BacksPlaceInit DEF EInv
<1>2. EInv /\ [Next]_vars => EInv'
  BY ExplorerTypeStep, BacksPlaceStep DEF EInv
<1>3. QED
  BY <1>1, <1>2, PTL DEF Spec

-----------------------------------------------------------------------------
(* What follows from it. *)

\* Back is pressed over a screen of a look whose grid is tapped, or after two Backs that
\* led nowhere on another.
THEOREM ExplorerBackAfterGrid == Spec => BackAfterGrid
<1> DEFINE Left == Back => \/ \A p \in Point : <<seen, p>> \in gridded
                           \/ seen # last /\ recent >= 2
<1>1. EInv => Left
  <2> SUFFICES ASSUME EInv, Back PROVE Left
    OBVIOUS
  <2> USE DEF EInv, TypeOK, BacksPlace
  <2>1. CASE backs < 2
    BY <2>1 DEF Back, TakesGrid, Untried
  <2>2. CASE ~(backs < 2)
    BY <2>2
  <2>3. QED
    BY <2>1, <2>2
<1>2. QED
  BY <1>1, ExplorerInvariant, PTL DEF BackAfterGrid

\* The app is started again only on the phone, after three Backs in a row on one
\* screen; no other step of the explorer moves the device.
THEOREM ExplorerStartsAgainOnlyWhenStuck == Spec => StartsAgainOnlyWhenStuck
<1> DEFINE Starts == (pc = "act" /\ pc' = "loop" /\ <<at, up>>' # <<at, up>>) \/ (~up /\ up')
<1>1. EInv /\ [Next]_vars => [Starts => phone /\ recent' = 3]_vars
  <2> SUFFICES ASSUME EInv, Next, Starts PROVE phone /\ recent' = 3
    BY DEF vars
  <2> USE DEF EInv, TypeOK, BacksPlace, device
  <2>1. CASE Back
    <3>1. phone /\ BackCount >= 3
      BY <2>1 DEF Back
    <3>2. seen = last /\ backs >= 2
      BY <3>1 DEF BackCount
    <3>3. recent' = 3
      BY <2>1, <3>2 DEF Back, Step
    <3>4. QED
      BY <3>1, <3>3
  <2>2. CASE ~Back
    BY <2>2 DEF Next, Act, Move, Die, TimeUp, CheckAlive, Look, Tap, TapGrid, Scroll, Final
  <2>3. QED
    BY <2>1, <2>2
<1>2. QED
  BY <1>1, ExplorerInvariant, PTL DEF Spec, StartsAgainOnlyWhenStuck

\* A process that is gone when the exploration is done was reported as died.
THEOREM ExplorerDeathIsNoticed == Spec => []DeathIsNoticed
<1>1. Init => DeathIsNoticed
  BY DEF Init, DeathIsNoticed
<1>2. TypeOK /\ DeathIsNoticed /\ [Next]_vars => DeathIsNoticed'
  BY DEF TypeOK, DeathIsNoticed, Next, Act, vars, device, Move, Die, TimeUp, CheckAlive,
     Look, Tap, TapGrid, Scroll, Back, Final, LastLook
<1>3. QED
  BY <1>1, <1>2, ExplorerTypeOK, PTL DEF Spec
=============================================================================
