------------------------------ MODULE Explorer ------------------------------
(***************************************************************************)
(* The explorer (device/explore.py): it uses an app the way a curious user *)
(* would.  Each step reads the screen's views, then taps a view it has not *)
(* tapped, else scrolls, else taps a grid of points, else presses Back;    *)
(* on the phone it starts the app again after three Backs that led         *)
(* nowhere.  The device moves on by itself between a look and the action:  *)
(* a screen changes, the app is left, the process dies; a command may go   *)
(* unanswered.  Screenshots and the written report are left out.           *)
(***************************************************************************)
EXTENDS Integers, FiniteSets

CONSTANTS
  Screen,     \* the app's screens, told apart by the classes and ids of their views
  Empty,      \* what a look shows of a dead or left app: the screen without views
  View,       \* view keys
  Shows,      \* [Screen -> the views it can show, some of them at a time]
  Clickable, TextInput, Denied,  \* sets of views
  NoView,
  Points,     \* points of the grid (5 x 3 in the script)
  Under,      \* [Looks -> [points -> the view that lies there, or NoView]]
  MaxDrops    \* bound: commands that go unanswered where that matters

Looks == Screen \cup {Empty}
Point == 1 .. Points

ASSUME ExplorerAssumption ==
  /\ Empty \notin Screen
  /\ Shows \in [Looks -> SUBSET View] /\ Shows[Empty] = {}
  /\ Clickable \subseteq View /\ TextInput \subseteq View /\ Denied \subseteq View
  /\ Points \in Nat /\ MaxDrops \in Nat
  /\ Under \in [Looks -> [Point -> View \cup {NoView}]]

VARIABLES
  phone,     \* the Android phone; else the board
  at,        \* what the device shows
  up,        \* the app's process runs
  pc,        \* where explore() is
  seen,      \* the screen of the last look
  views,     \* the views of the last look
  tapped,    \* tried: the views among its keys
  gridded,   \* tried: the grid points among its keys, with their screen
  scrolled,  \* scrolls per screen
  backs,     \* backs_here; above 3 all values are alike, so it stops there
  last,      \* last_screen
  died,      \* died_at is set
  drops,
  \* history
  recent     \* how many of the last steps were Backs on the screen `last`, up to 3

device   == <<at, up>>
explored == <<tapped, gridded, scrolled>>
vars == <<phone, device, pc, seen, views, explored, backs, last, died, drops, recent>>

Init ==
  /\ phone \in BOOLEAN
  /\ at \in Screen /\ up = TRUE
  /\ pc = "loop" /\ seen = Empty /\ views = {}
  /\ tapped = {} /\ gridded = {} /\ scrolled = [s \in Looks |-> 0]
  /\ backs = 0 /\ last = Empty /\ died = FALSE /\ drops = 0 /\ recent = 0

-----------------------------------------------------------------------------
(* The device, at any time of the exploration *)

\* Another screen, a dialog, or the app is left: before a look, which is as good as
\* after the action before it, or between a look and the action.
Move ==
  /\ pc \in {"look", "act"} /\ up
  /\ at' \in Looks \ {at}
  /\ UNCHANGED <<phone, up, pc, seen, views, explored, backs, last, died, drops,
                 recent>>

Die ==
  /\ pc # "done" /\ up
  /\ up' = FALSE /\ at' = Empty
  /\ UNCHANGED <<phone, pc, seen, views, explored, backs, last, died, drops,
                 recent>>

-----------------------------------------------------------------------------
(* explore() *)

\* The time is up, or the process is asked for: an unanswered question reads as
\* a process that is gone.
TimeUp ==
  /\ pc = "loop" /\ pc' = "final"
  /\ UNCHANGED <<phone, device, seen, views, explored, backs, last, died, drops,
                 recent>>

CheckAlive ==
  /\ pc = "loop"
  /\ \/ up /\ pc' = "look" /\ UNCHANGED <<died, drops>>
     \/ ~up /\ died' = TRUE /\ pc' = "final" /\ UNCHANGED drops
     \/ drops < MaxDrops /\ drops' = drops + 1 /\ died' = TRUE /\ pc' = "final"
  /\ UNCHANGED <<phone, device, seen, views, explored, backs, last, recent>>

\* The views of the screen that is shown; of none, or of the dump before this
\* one, when the device does not answer.
Look ==
  /\ pc = "look"
  /\ \/ seen' = at /\ UNCHANGED drops
     \/ drops < MaxDrops /\ drops' = drops + 1 /\ seen' \in {Empty, last}
  /\ views' \in SUBSET Shows[seen']
  /\ pc' = "act"
  /\ UNCHANGED <<phone, device, explored, backs, last, died, recent>>

\* choose(), in an order that depends on where views lie: clickable, not tapped on any screen, no text field, nothing denied.
Candidates == (views \cap Clickable) \ (tapped \cup TextInput \cup Denied)

\* grid(): one grid per screen; which point comes first is left open.
Untried_OneGrid(s) == {p \in Point : \A t \in Looks : <<t, p>> \notin gridded}
Untried(s) == {p \in Point : <<s, p>> \notin gridded}

TakesGrid ==
  Candidates = {} /\ scrolled[seen] >= 2 /\ backs < 2 /\ Untried(seen) # {}

BackCount_AnyScreen == IF backs < 3 THEN backs + 1 ELSE 3
BackCount_NeverOne == 0
BackCount == IF seen # last THEN 0 ELSE IF backs < 3 THEN backs + 1 ELSE 3

\* The end of every step; the next look reads the screen anew.
Step(a) ==
  /\ last' = seen /\ seen' = Empty /\ views' = {}
  /\ recent' = IF a # "back" THEN 0
               ELSE IF seen # last THEN 1
               ELSE IF recent < 3 THEN recent + 1 ELSE 3

Tapped_Forgotten(v) == tapped
Tapped(v) == tapped \cup {v}

Tap ==
  /\ pc = "act" /\ Candidates # {}
  /\ \E v \in Candidates : tapped' = Tapped(v)
  /\ backs' = 0 /\ Step("tap") /\ pc' = "loop"
  /\ UNCHANGED <<phone, device, gridded, scrolled, died, drops>>

TapGrid ==
  /\ pc = "act" /\ TakesGrid
  /\ \E p \in Untried(seen) : gridded' = gridded \cup {<<seen, p>>}
  /\ backs' = 0 /\ Step("tap") /\ pc' = "loop"
  /\ UNCHANGED <<phone, device, tapped, scrolled, died, drops>>

Scroll ==
  /\ pc = "act" /\ Candidates = {} /\ ~TakesGrid /\ scrolled[seen] < 2
  /\ scrolled' = [scrolled EXCEPT ![seen] = @ + 1]
  /\ backs' = 0 /\ Step("scroll") /\ pc' = "loop"
  /\ UNCHANGED <<phone, device, tapped, gridded, died, drops>>

\* Back; on the phone, three in a row on one screen start the app again.
Back ==
  /\ pc = "act" /\ Candidates = {} /\ ~TakesGrid /\ scrolled[seen] >= 2
  /\ Step("back") /\ pc' = "loop"
  /\ IF phone /\ BackCount >= 3
       THEN /\ backs' = 0
            /\ \/ up' = TRUE /\ at' \in Screen /\ UNCHANGED drops
               \/ drops < MaxDrops /\ drops' = drops + 1 /\ UNCHANGED device
       ELSE backs' = BackCount /\ UNCHANGED <<device, drops>>
  /\ UNCHANGED <<phone, explored, died>>

\* Asked once more at the end, unless the death was seen.
LastLook_Skipped == died
LastLook == died \/ ~up

Final ==
  /\ pc = "final"
  /\ \/ died' = LastLook /\ UNCHANGED drops
     \/ drops < MaxDrops /\ drops' = drops + 1 /\ died' = TRUE
  /\ pc' = "done"
  /\ UNCHANGED <<phone, device, seen, views, explored, backs, last, recent>>

-----------------------------------------------------------------------------
Act == Tap \/ TapGrid \/ Scroll \/ Back

Next == Move \/ Die \/ TimeUp \/ CheckAlive \/ Look \/ Act \/ Final

\* The loop goes on by itself; the device need not do anything.
Fairness == WF_vars(CheckAlive) /\ WF_vars(Look \/ Act \/ Final)

Spec == Init /\ [][Next]_vars /\ Fairness

-----------------------------------------------------------------------------
(* Properties *)

TypeOK ==
  /\ phone \in BOOLEAN /\ at \in Looks /\ up \in BOOLEAN
  /\ pc \in {"loop", "look", "act", "final", "done"}
  /\ seen \in Looks /\ views \in SUBSET View
  /\ tapped \in SUBSET ((View \cap Clickable) \ (TextInput \cup Denied))
  /\ gridded \in SUBSET (Looks \X Point)
  /\ scrolled \in [Looks -> 0 .. 2] /\ backs \in 0 .. 3
  /\ last \in Looks /\ died \in BOOLEAN
  /\ drops \in 0 .. MaxDrops /\ recent \in 0 .. 3

\* Back is pressed over the screen of the look only when each point of that screen's
\* own grid is tapped, in whatever order the screens came; the grid is left out only
\* on another screen than the one that two Backs in a row led nowhere from.  (The
\* device may show another screen by then: of that one nothing is claimed.)
BackAfterGrid ==
  [][Back => \/ \A p \in Point : <<seen, p>> \in gridded
             \/ seen # last /\ recent >= 2]_vars

\* The app is started again only on the phone, and only after three Backs in a
\* row that stayed on one screen.
StartsAgainOnlyWhenStuck ==
  [][(pc = "act" /\ pc' = "loop" /\ <<at, up>>' # <<at, up>>) \/ (~up /\ up')
       => phone /\ recent' = 3]_vars

\* A process that is gone at the end of an exploration is reported as died.
DeathIsNoticed == pc = "done" /\ ~up => died

\* An exploration without an end comes to tap and scroll nothing any more.
TapsRunOut == <>[][~Tap /\ ~TapGrid /\ ~Scroll]_vars

\* On the phone an app that was left, and does not come back by itself, is
\* started again.
LeftAppIsBroughtBack ==
  phone /\ at = Empty ~> at # Empty \/ pc \in {"final", "done"}
=============================================================================
