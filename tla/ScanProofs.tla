----------------------------- MODULE ScanProofs -----------------------------
(***************************************************************************)
(* Proofs about the scanner's four places: the walk over a method          *)
(* (DexWalk), a library's code (Arm64), the resolution of an app (Scan),   *)
(* and the ledger of what a run says of it (Trace).                        *)
(***************************************************************************)
EXTENDS Scan, DexWalk, Arm64, Trace, FiniteSetTheorems, SequenceTheorems, WellFoundedInduction, TLAPS

LEMMA LeastOf ==
  ASSUME NEW N \in SUBSET Nat, N # {}
  PROVE  \E m \in N : \A k \in N : m <= k
<1> DEFINE R == {p \in Nat \X Nat : p[1] < p[2]}
<1>1. IsWellFoundedOn(R, Nat) BY NatLessThanWellFounded DEF OpToRel
<1>2. PICK m \in N : \A k \in N : ~ (<<k, m>> \in R)
  <2> HIDE DEF R
  <2> QED BY <1>1, WFMin
<1>3. ASSUME NEW k \in N PROVE m <= k
  <2>1. k \in Nat /\ m \in Nat OBVIOUS
  <2>2. ~ (k < m) BY <1>2, <2>1
  <2> QED BY <2>1, <2>2
<1> QED BY <1>3

-----------------------------------------------------------------------------
(* DexWalk *)

\* What the walk has for a register, or for the outline just called, is what it holds.
WalkTypeOK ==
  /\ DOMAIN regs = Reg
  /\ walk = [strings |-> walk.strings, classes |-> walk.classes,
             pending |-> walk.pending, outlined |-> walk.outlined]
  /\ DOMAIN walk.strings = Reg /\ DOMAIN walk.classes = Reg

StringPlace == \A r \in Reg : walk.strings[r] # Nothing => regs[r] = Str(walk.strings[r])
ClassPlace == \A r \in Reg : walk.classes[r] # Nothing => regs[r] = Cls(walk.classes[r])
OutlinePlace == walk.outlined # Nothing => result = Cls(walk.outlined)

WalkIInv == WalkTypeOK /\ StringPlace /\ ClassPlace /\ OutlinePlace /\ SaidIsPassed

\* What SaidIsPassed says of one fact.
Right(f) ==
  /\ f.kind \in {"forName", "loadLibrary", "hasSystemFeature", "getInstance"} =>
       f.said = Nothing \/ f.passed = Str(f.said)
  /\ f.kind = "request" /\ f.passed # Nothing =>
       IF "service" \in DOMAIN f.said
         THEN f.said.service = Nothing \/ f.passed = Str(f.said.service)
         ELSE f.said.manager = Nothing \/ f.passed = Cls(f.said.manager)

LEMMA SaidIsPassedIs == SaidIsPassed <=> \A f \in found : Right(f)
BY DEF SaidIsPassed, Right

\* Every detector takes its argument's register.
LEMMA DetectedIsRight ==
  ASSUME StringPlace, ClassPlace, NEW call, NEW r \in Reg
  PROVE  \A f \in Detected(call, r) : Right(f)
<1>1. Right(ByName(r))
  BY DEF ByName, Fact, Right, StringPlace
<1>2. Right(ByClass(r))
  BY DEF ByClass, Fact, Right, ClassPlace
<1>3. Right(Fact("request", [number |-> Number, service |-> call], Nothing))
  BY DEF Fact, Right
<1>4. walk.strings[r] = Nothing \/ regs[r] = Str(walk.strings[r])
  BY DEF StringPlace
<1>5. call \in {"forName", "loadLibrary", "hasSystemFeature", "getInstance"} =>
        Right(Fact(call, walk.strings[r], regs[r]))
  BY <1>4 DEF Fact, Right
<1> QED BY <1>1, <1>2, <1>3, <1>5 DEF Detected

LEMMA ChecksIsRight ==
  ASSUME NEW op, NEW r
  PROVE  \A f \in Checks(op, r) : Right(f)
BY DEF Checks, Fact, Right

LEMMA WalkInit == DexInit => WalkIInv
BY DEF DexInit, WalkIInv, WalkTypeOK, StringPlace, ClassPlace, OutlinePlace, SaidIsPassed

LEMMA WalkStep == WalkIInv /\ [DexNext]_dexVars => WalkIInv'
<1> SUFFICES ASSUME WalkIInv, [DexNext]_dexVars PROVE WalkIInv' OBVIOUS
<1> USE DEF WalkIInv, Set, Walk, Forgets, Writes
<1>1. ASSUME NEW r \in Reg, NEW s \in Strings, LoadString(r, s) PROVE WalkIInv'
  <2>1. Right(Fact("literal", s, Str(s))) BY DEF Fact, Right
  <2>2. \A f \in found' : Right(f) BY <1>1, <2>1, SaidIsPassedIs DEF LoadString
  <2>3. SaidIsPassed' BY <2>2 DEF SaidIsPassed, Right
  <2>4. (WalkTypeOK /\ StringPlace /\ ClassPlace /\ OutlinePlace)'
    BY <1>1 DEF LoadString, ConstString, WalkTypeOK, StringPlace, ClassPlace, OutlinePlace
  <2> QED BY <2>3, <2>4
<1>2. ASSUME NEW r \in Reg, NEW c \in Classes, LoadClass(r, c) PROVE WalkIInv'
  BY <1>2 DEF LoadClass, WalkTypeOK, StringPlace, ClassPlace, OutlinePlace, SaidIsPassed
<1>3. ASSUME NEW r \in Reg, NEW q \in Reg, MoveObject(r, q) PROVE WalkIInv'
  BY <1>3 DEF MoveObject, WalkTypeOK, StringPlace, ClassPlace, OutlinePlace, SaidIsPassed
<1>4. ASSUME NEW r \in Reg, TakeResult(r) PROVE WalkIInv'
  BY <1>4 DEF TakeResult, MoveResult, WalkTypeOK, StringPlace, ClassPlace, OutlinePlace, SaidIsPassed
<1>5. ASSUME NEW r \in Reg, NewValue(r) PROVE WalkIInv'
  BY <1>5 DEF NewValue, WalkTypeOK, StringPlace, ClassPlace, OutlinePlace, SaidIsPassed
<1>6. ASSUME NEW r \in Reg, Touch(r) PROVE WalkIInv'
  BY <1>6 DEF Touch, WalkTypeOK, StringPlace, ClassPlace, OutlinePlace, SaidIsPassed
<1>7. ASSUME NEW r \in Reg, Use(r) PROVE WalkIInv'
  BY <1>7 DEF Use, WalkTypeOK, StringPlace, ClassPlace, OutlinePlace, SaidIsPassed
<1>8. ASSUME NEW r \in Reg, NEW call \in Calls, Invoke(call, r) PROVE WalkIInv'
  <2> DEFINE op == IF call = "check" THEN "check" ELSE "invoke"
  <2>1. found' = found \cup Checks(op, r) \cup Detected(call, r) BY <1>8 DEF Invoke
  <2>2. \A f \in found' : Right(f)
    BY <2>1, DetectedIsRight, ChecksIsRight, SaidIsPassedIs
  <2>3. SaidIsPassed' BY <2>2 DEF SaidIsPassed, Right
  <2>4. /\ UNCHANGED regs /\ walk'.outlined = Nothing
        /\ walk' = [walk EXCEPT !.outlined = Nothing, !.pending = walk'.pending]
    BY <1>8 DEF Invoke, WalkTypeOK
  <2>5. (WalkTypeOK /\ StringPlace /\ ClassPlace /\ OutlinePlace)'
    BY <2>4 DEF WalkTypeOK, StringPlace, ClassPlace, OutlinePlace
  <2> QED BY <2>3, <2>5
<1>9. ASSUME NEW c \in Outlines, InvokeOutline(c) PROVE WalkIInv'
  BY <1>9 DEF InvokeOutline, WalkTypeOK, StringPlace, ClassPlace, OutlinePlace, SaidIsPassed
<1>10. CASE UNCHANGED dexVars
  BY <1>10 DEF dexVars, WalkTypeOK, StringPlace, ClassPlace, OutlinePlace, SaidIsPassed
<1> QED BY <1>1, <1>2, <1>3, <1>4, <1>5, <1>6, <1>7, <1>8, <1>9, <1>10 DEF DexNext

\* The walk's registers are the device's, as far as the walk knows them: a constant it has
\* for a register is what the register holds.
THEOREM ScanWalkInvariant == DexSpec => []WalkIInv
BY WalkInit, WalkStep, PTL DEF DexSpec

\* What the scan says a call is passed, it is passed, whatever moved, overwrote or returned
\* the constant before.
THEOREM ScanSaidIsPassed == DexSpec => []SaidIsPassed
<1>1. WalkIInv => SaidIsPassed BY DEF WalkIInv
<1> QED BY <1>1, ScanWalkInvariant, PTL

-----------------------------------------------------------------------------
(* Arm64 *)

LEMMA GreatestOf ==
  ASSUME NEW n \in Nat, NEW N \in SUBSET (0 .. n), N # {}
  PROVE  Max(N) \in N /\ \A k \in N : k <= Max(N)
<1> DEFINE T == {n - k : k \in N}
<1>1. T \in SUBSET Nat /\ T # {}
  <2>1. ASSUME NEW k \in N PROVE n - k \in Nat
    <3>1. k \in 0 .. n OBVIOUS
    <3> QED BY <3>1
  <2>2. T \in SUBSET Nat BY <2>1
  <2>3. PICK k \in N : TRUE OBVIOUS
  <2>4. n - k \in T BY <2>3
  <2> QED BY <2>2, <2>4
<1>2. PICK t \in T : \A k \in T : t <= k
  <2> HIDE DEF T
  <2> QED BY <1>1, LeastOf
<1>3. PICK m \in N : t = n - m OBVIOUS
<1>4. ASSUME NEW k \in N PROVE k <= m
  <2>1. n - k \in T OBVIOUS
  <2>2. t <= n - k
    <3> HIDE DEF T
    <3> QED BY <1>2, <2>1
  <2> QED BY <1>3, <2>2
<1>5. \E k \in N : \A l \in N : l <= k BY <1>4
<1> QED BY <1>5 DEF Max

CodePlace ==
  /\ code \in Seq(Instructions)
  /\ held \in Seq(Range(held)) /\ Len(held) = Len(code) + 1
  /\ \A i \in DOMAIN held : DOMAIN held[i] = X
  /\ \A i \in DOMAIN code : held[i + 1] = Ran(i, code[i], held[i])

Found_(call, address) ==
  /\ call \in DOMAIN code /\ IsCallOf(code[call], MutexLocks)
  /\ Readable(LookedBack(call)) => held[call][0] = Abs(address)

PassedPlace == \A p \in passed : Found_(p.at, p.address)

\* Whatever address the register that is looked for holds, x0 holds what is worked out of it.
BackPlace ==
  back # Idle =>
    /\ back = [at |-> back.at, next |-> back.next, want |-> back.want, offset |-> back.offset,
               slot |-> back.slot, after |-> back.after]
    /\ back.at \in DOMAIN code /\ IsCallOf(code[back.at], MutexLocks)
    /\ back.next \in 0 .. back.at - 1 /\ back.want \in X
    /\ back.offset \in Int /\ back.after \in Int /\ back.slot \in Int \cup {NoAddress}
    /\ Readable(LookedBack(back.at)) => \A a \in Int :
         held[back.next + 1][back.want] = Abs(a) /\ Address(back, a) # NoAddress =>
           held[back.at][0] = Abs(Address(back, a))

CodeIInv == CodePlace /\ PassedPlace /\ BackPlace

LEMMA GotIs == \A s \in DOMAIN Got : s \in Int /\ Got[s] \in Int
<1> SUFFICES ASSUME NEW s \in DOMAIN Got PROVE s \in Int /\ Got[s] \in Int OBVIOUS
<1>1. \E r \in Relocations : r.slot = s /\ r.kind \in {"relative", "globdat"} BY DEF Got
<1> DEFINE r == CHOOSE q \in Relocations : q.slot = s /\ q.kind \in {"relative", "globdat"}
<1>2. r \in Relocations /\ r.slot = s /\ r.kind \in {"relative", "globdat"} BY <1>1
<1>3. Got[s] = r.to BY DEF Got
<1> QED BY <1>2, <1>3, Arm64Assumption

LEMMA RanHasX ==
  ASSUME NEW i, NEW c, NEW given, DOMAIN given = X
  PROVE  DOMAIN Ran(i, c, given) = X
BY DEF Ran

LEMMA CodeStart == CodeInit => CodeIInv
<1> SUFFICES ASSUME CodeInit PROVE CodeIInv OBVIOUS
<1>1. code = <<>> /\ held = <<[r \in X |-> Initially(r)]>> /\ back = Idle /\ passed = {} BY DEF CodeInit
<1>2. held \in Seq(Range(held)) BY <1>1 DEF Range
<1>3. CodePlace BY <1>1, <1>2 DEF CodePlace
<1> QED BY <1>1, <1>3 DEF CodeIInv, PassedPlace, BackPlace

LEMMA LookedBackIs ==
  ASSUME NEW call \in Nat, NEW j \in LookedBack(call)
  PROVE  j \in 1 .. call - 1
<1>1. Max({1, call - Reach}) \in {1, call - Reach} /\ 1 <= Max({1, call - Reach})
  <2> DEFINE N == {1, call - Reach}
  <2>1. call - Reach \in Int BY Arm64Assumption
  <2>2. \E k \in N : \A l \in N : l <= k BY <2>1
  <2>3. Max(N) \in N /\ \A l \in N : l <= Max(N) BY <2>2 DEF Max
  <2> QED BY <2>3
<1>2. call - Reach \in Int BY Arm64Assumption
<1> QED BY <1>1, <1>2 DEF LookedBack

\* An instruction whose destination is another register leaves a register alone.
LEMMA OthersStay ==
  ASSUME CodePlace, NEW i \in DOMAIN code, code[i].op # "call", OnlyDestination(code[i]),
         NEW r \in X, code[i].d # r
  PROVE  held[i + 1][r] = held[i][r]
<1>1. held[i + 1] = Ran(i, code[i], held[i]) BY DEF CodePlace
<1> QED BY <1>1 DEF Ran, Defines, OnlyDestination

\* What it defines, its destination holds.
LEMMA DestinationHolds ==
  ASSUME CodePlace, NEW i \in DOMAIN code, code[i].op # "call", NEW r \in X, Defines(code[i], r)
  PROVE  held[i + 1][r] = DefinedBy(i, code[i], held[i])
<1>1. held[i + 1] = Ran(i, code[i], held[i]) BY DEF CodePlace
<1> QED BY <1>1 DEF Ran

\* What is looked at of a call stays where it is.
LEMMA LookedBackStays ==
  ASSUME CodePlace, NEW call \in DOMAIN code, Len(code) \in Nat,
         \A j \in DOMAIN code : code'[j] = code[j], Readable(LookedBack(call))'
  PROVE  Readable(LookedBack(call))
<1>1. \A j \in LookedBack(call) : j \in DOMAIN code BY LookedBackIs DEF CodePlace
<1>2. LookedBack(call)' = LookedBack(call) BY DEF LookedBack
<1> QED BY <1>1, <1>2 DEF Readable

LEMMA EmitKeeps ==
  ASSUME CodeIInv, Emit
  PROVE  CodeIInv'
<1> DEFINE i == Len(code) + 1
<1>1. PICK c \in Instructions :
        /\ code' = Append(code, c) /\ held' = Append(held, Ran(i, c, held[i]))
        /\ back' = IF IsCallOf(c, MutexLocks) THEN Search(i) ELSE Idle
  BY DEF Emit
<1>2. passed' = passed BY DEF Emit
<1>3. /\ Len(code) \in Nat /\ DOMAIN code = 1 .. Len(code) /\ code' \in Seq(Instructions)
      /\ DOMAIN code' = 1 .. i /\ Len(code') = i /\ code'[i] = c /\ \A j \in DOMAIN code : code'[j] = code[j]
  BY <1>1 DEF CodeIInv, CodePlace
<1>4. /\ DOMAIN held = 1 .. i /\ DOMAIN held' = 1 .. i + 1 /\ Len(held') = i + 1
      /\ held'[i + 1] = Ran(i, c, held[i]) /\ \A j \in DOMAIN held : held'[j] = held[j]
  <2>1. held \in Seq(Range(held)) /\ Len(held) = i BY DEF CodeIInv, CodePlace
  <2>2. held \in Seq(Range(held) \cup {Ran(i, c, held[i])}) BY <2>1, SeqMonotonic
  <2> HIDE DEF i
  <2> QED BY <1>1, <2>1, <2>2, AppendProperties
<1>5. CodePlace'
  <2>1. \A j \in DOMAIN held' : DOMAIN held'[j] = X
    BY <1>3, <1>4, RanHasX DEF CodeIInv, CodePlace
  <2>2. \A j \in DOMAIN code' : held'[j + 1] = Ran(j, code'[j], held'[j])
    BY <1>3, <1>4 DEF CodeIInv, CodePlace
  <2>3. held' \in Seq(Range(held'))
    <3>1. held \in Seq(Range(held) \cup {Ran(i, c, held[i])}) BY SeqMonotonic DEF CodeIInv, CodePlace
    <3>2. held' \in Seq(Range(held) \cup {Ran(i, c, held[i])}) BY <1>1, <3>1, AppendProperties
    <3> QED BY <3>2, SeqOfRange
  <2> QED BY <1>3, <1>4, <2>1, <2>2, <2>3 DEF CodePlace
<1>6. \A call \in DOMAIN code : Readable(LookedBack(call))' => Readable(LookedBack(call))
  BY <1>3, LookedBackStays DEF CodeIInv
<1>7. ASSUME NEW call, NEW address, Found_(call, address) PROVE Found_(call, address)'
  <2>1. call \in DOMAIN code' /\ code'[call] = code[call] /\ held'[call] = held[call]
    BY <1>3, <1>4, <1>7 DEF Found_
  <2> QED BY <1>6, <1>7, <2>1 DEF Found_, IsCallOf
<1>8. PassedPlace'
  <2>1. \A p \in passed' : Found_(p.at, p.address) BY <1>2 DEF CodeIInv, PassedPlace
  <2> QED BY <1>2, <1>7, <2>1 DEF PassedPlace
<1>9. BackPlace'
  <2> SUFFICES ASSUME back' # Idle PROVE BackPlace' BY DEF BackPlace
  <2>1. back' = Search(i) /\ IsCallOf(code'[i], MutexLocks) BY <1>1, <1>3
  <2> QED BY <1>3, <2>1, Arm64Assumption DEF BackPlace, Search, Address
<1> QED BY <1>5, <1>8, <1>9 DEF CodeIInv

\* One instruction further back: where it is held, the value is what it was.
LEMMA TracedHolds ==
  ASSUME CodePlace, NEW j \in DOMAIN code, OnlyDestination(code[j]), NEW s,
         s = [at |-> s.at, next |-> s.next, want |-> s.want, offset |-> s.offset, slot |-> s.slot, after |-> s.after],
         s.want \in X, s.offset \in Int, s.after \in Int, s.slot \in Int \cup {NoAddress},
         Traceable(s, code[j]), NEW a \in Int,
         held[j][TracedTo(s, code[j]).want] = Abs(a), Address(TracedTo(s, code[j]), a) # NoAddress
  PROVE  \E b \in Int : /\ held[j + 1][s.want] = Abs(b)
                        /\ Address(s, b) = Address(TracedTo(s, code[j]), a)
<1> DEFINE c == code[j]
<1>1. c \in Instructions /\ c.op # "call" /\ (c.op = "mov" => c.n # Sp)
  BY DEF CodePlace, OnlyDestination, Traceable
<1>2. (c.d = s.want /\ c.op \in {"add", "mov", "ldr"}) => held[j + 1][s.want] = DefinedBy(j, c, held[j])
  <2>1. (c.d = s.want /\ c.op \in {"add", "mov", "ldr"}) => Defines(c, s.want)
    BY DEF Defines, NoDestination, OnlyDestination
  <2> QED BY <1>1, <2>1, DestinationHolds
<1>3. CASE c.d # s.want
  <2>1. TracedTo(s, c) = s BY <1>3 DEF TracedTo
  <2>2. held[j + 1][s.want] = Abs(a) BY <1>1, <1>3, <2>1, OthersStay
  <2> QED BY <2>1, <2>2
<1>4. CASE c.d = s.want /\ c.op = "add"
  <2>1. TracedTo(s, c) = [s EXCEPT !.offset = @ + c.imm, !.want = c.n] BY <1>4 DEF TracedTo
  <2>2. c.imm \in Int /\ held[j][c.n] = Abs(a)
    <3>1. TracedTo(s, c).want = c.n BY <2>1
    <3> QED BY <1>1, <1>4, <3>1, Arm64Assumption
  <2>3. held[j + 1][s.want] = Abs(a + c.imm)
    BY <1>1, <1>2, <1>4, <2>2 DEF DefinedBy, Plus, Abs
  <2>4. Address(s, a + c.imm) = Address(TracedTo(s, c), a)
    <3>1. /\ a + c.imm + s.offset = a + (s.offset + c.imm)
          /\ s.slot \in Int => a + c.imm + s.offset + s.slot = a + (s.offset + c.imm) + s.slot
      BY <2>2
    <3>2. TracedTo(s, c).offset = s.offset + c.imm /\ TracedTo(s, c).slot = s.slot /\ TracedTo(s, c).after = s.after
      BY <2>1
    <3> QED BY <3>1, <3>2 DEF Address
  <2>5. a + c.imm \in Int BY <2>2
  <2> QED BY <2>3, <2>4, <2>5
<1>5. CASE c.d = s.want /\ c.op = "mov"
  <2>1. TracedTo(s, c) = [s EXCEPT !.want = c.n] BY <1>5 DEF TracedTo
  <2>2. TracedTo(s, c).want = c.n /\ Address(TracedTo(s, c), a) = Address(s, a) BY <2>1 DEF Address
  <2>3. held[j + 1][s.want] = Abs(a) BY <1>1, <1>2, <1>5, <2>2 DEF DefinedBy
  <2> QED BY <2>2, <2>3
<1>6. CASE c.d = s.want /\ c.op = "ldr" /\ s.slot = NoAddress
  <2>1. TracedTo(s, c) = [s EXCEPT !.slot = c.imm, !.after = s.offset, !.offset = 0, !.want = c.n]
    BY <1>6 DEF TracedTo
  <2>2. c.imm \in Int /\ NoAddress \notin Int BY <1>1, <1>6, Arm64Assumption
  <2>3. /\ TracedTo(s, c).want = c.n /\ TracedTo(s, c).slot = c.imm
        /\ TracedTo(s, c).after = s.offset /\ TracedTo(s, c).offset = 0
    BY <2>1
  <2>4. a + c.imm \in DOMAIN Got /\ Address(TracedTo(s, c), a) = Got[a + c.imm] + s.offset
    <3>1. a + 0 + c.imm = a + c.imm BY <2>2
    <3>2. c.imm # NoAddress BY <2>2
    <3> QED BY <2>3, <3>1, <3>2 DEF Address
  <2>5. held[j + 1][s.want] = Abs(Got[a + c.imm])
    <3>1. held[j][c.n] = Abs(a) BY <2>3
    <3>2. Plus(held[j][c.n], c.imm) = Abs(a + c.imm) BY <3>1 DEF Plus, Abs
    <3>3. Loaded(Plus(held[j][c.n], c.imm), j) = Abs(Got[a + c.imm]) BY <2>4, <3>2 DEF Loaded, Abs
    <3> QED BY <1>1, <1>2, <1>6, <3>3 DEF DefinedBy
  <2>6. Got[a + c.imm] \in Int BY <2>4, GotIs
  <2>7. Address(s, Got[a + c.imm]) = Got[a + c.imm] + s.offset BY <1>6 DEF Address
  <2> QED BY <2>4, <2>5, <2>6, <2>7
<1> QED BY <1>3, <1>4, <1>5, <1>6 DEF Traceable

\* What the search is about goes on being of its shape.
LEMMA TracedShape ==
  ASSUME NEW s, NEW c \in Instructions, Traceable(s, c),
         s = [at |-> s.at, next |-> s.next, want |-> s.want, offset |-> s.offset, slot |-> s.slot, after |-> s.after],
         s.want \in X, s.offset \in Int, s.after \in Int, s.slot \in Int \cup {NoAddress}
  PROVE  LET t == TracedTo(s, c)
         IN  /\ t = [at |-> s.at, next |-> s.next, want |-> t.want, offset |-> t.offset, slot |-> t.slot, after |-> t.after]
             /\ t.want \in X /\ t.offset \in Int /\ t.after \in Int /\ t.slot \in Int \cup {NoAddress}
<1>1. CASE c.d # s.want BY <1>1 DEF TracedTo
<1>2. CASE c.d = s.want /\ c.op = "add"
  <2>1. c.imm \in Int /\ c.n \in X BY <1>2, Arm64Assumption
  <2>2. TracedTo(s, c) = [at |-> s.at, next |-> s.next, want |-> c.n, offset |-> s.offset + c.imm,
                          slot |-> s.slot, after |-> s.after]
    BY <1>2 DEF TracedTo
  <2>3. s.offset + c.imm \in Int BY <2>1
  <2> QED BY <2>1, <2>2, <2>3
<1>3. CASE c.d = s.want /\ c.op = "mov" BY <1>3, Arm64Assumption DEF TracedTo
<1>4. CASE c.d = s.want /\ c.op = "ldr" /\ s.slot = NoAddress
  <2>1. c.imm \in Int /\ c.n \in X BY <1>4, Arm64Assumption
  <2>2. TracedTo(s, c) = [at |-> s.at, next |-> s.next, want |-> c.n, offset |-> 0, slot |-> c.imm, after |-> s.offset]
    BY <1>4 DEF TracedTo
  <2> QED BY <2>1, <2>2
<1> QED BY <1>1, <1>2, <1>3, <1>4 DEF Traceable

LEMMA LookBackKeeps ==
  ASSUME CodeIInv, LookBack
  PROVE  CodeIInv'
<1> DEFINE j == back.next  t == TracedTo(back, code[j])
<1>1. UNCHANGED <<code, held, passed>> /\ Looking /\ Traceable(back, code[j])
      /\ back' = [t EXCEPT !.next = @ - 1]
  BY DEF LookBack
<1>2. /\ back = [at |-> back.at, next |-> back.next, want |-> back.want, offset |-> back.offset,
                 slot |-> back.slot, after |-> back.after]
      /\ back.at \in DOMAIN code /\ IsCallOf(code[back.at], MutexLocks)
      /\ back.want \in X /\ back.offset \in Int /\ back.after \in Int /\ back.slot \in Int \cup {NoAddress}
      /\ j \in 0 .. back.at - 1
  BY <1>1 DEF CodeIInv, BackPlace, Looking
<1>3. DOMAIN code = 1 .. Len(code) /\ Len(code) \in Nat /\ code \in Seq(Instructions) BY DEF CodeIInv, CodePlace
<1>4. j \in 1 .. back.at - 1 /\ j \in DOMAIN code /\ code[j] \in Instructions
  <2>1. j \in 1 .. back.at - 1 BY <1>1, <1>2, <1>3, LookedBackIs DEF Looking
  <2> QED BY <1>2, <1>3, <2>1
<1>5. /\ t = [at |-> back.at, next |-> j, want |-> t.want, offset |-> t.offset, slot |-> t.slot, after |-> t.after]
      /\ t.want \in X /\ t.offset \in Int /\ t.after \in Int /\ t.slot \in Int \cup {NoAddress}
  <2>1. j = back.next OBVIOUS
  <2> HIDE DEF j
  <2> QED BY <1>1, <1>2, <1>4, <2>1, TracedShape
<1>6. /\ back' = [at |-> back.at, next |-> j - 1, want |-> t.want, offset |-> t.offset, slot |-> t.slot, after |-> t.after]
      /\ back'.want = t.want /\ back'.offset = t.offset /\ back'.slot = t.slot /\ back'.after = t.after
      /\ back'.at = back.at /\ back'.next = j - 1
  <2> HIDE DEF t, j
  <2> QED BY <1>1, <1>5
<1>7. ASSUME Readable(LookedBack(back.at)), NEW a \in Int, held[j][t.want] = Abs(a), Address(t, a) # NoAddress
      PROVE  held[back.at][0] = Abs(Address(t, a))
  <2>1. OnlyDestination(code[j]) BY <1>1, <1>7 DEF Looking, Readable
  <2>2. PICK b \in Int : held[j + 1][back.want] = Abs(b) /\ Address(back, b) = Address(t, a)
    <3> HIDE DEF j
    <3> QED BY <1>1, <1>2, <1>4, <1>7, <2>1, TracedHolds DEF CodeIInv
  <2> QED BY <1>1, <1>7, <2>2 DEF CodeIInv, BackPlace, Looking
<1>8. BackPlace'
  <2> HIDE DEF t
  <2>1. \A a : Address(back', a) = Address(t, a) BY <1>6 DEF Address
  <2>2. (j - 1) + 1 = j /\ j - 1 \in 0 .. back.at - 1 BY <1>4, <1>3, <1>2
  <2>3. code' = code /\ held' = held /\ (Readable(LookedBack(back.at))' => Readable(LookedBack(back.at)))
    BY <1>1, <1>6 DEF Readable, LookedBack
  <2>4. Address(back, 0)' = Address(back', 0) OBVIOUS
  <2> HIDE DEF j
  <2> QED BY <1>2, <1>5, <1>6, <1>7, <2>1, <2>2, <2>3 DEF BackPlace, IsCallOf, Address
<1> QED BY <1>1, <1>8 DEF CodeIInv, CodePlace, PassedPlace, Found_, Readable, LookedBack, IsCallOf

LEMMA FindKeeps ==
  ASSUME CodeIInv, Find
  PROVE  CodeIInv'
<1> DEFINE j == back.next  c == code[j]  address == Address(back, c.imm)
<1>1. UNCHANGED <<code, held>> /\ Looking /\ Page(back, c) /\ back' = Idle BY DEF Find
<1>2. passed' = passed \cup ({[at |-> back.at, address |-> address]} \ {[at |-> back.at, address |-> NoAddress]})
  BY DEF Find
<1>3. DOMAIN code = 1 .. Len(code) /\ Len(code) \in Nat /\ code \in Seq(Instructions) BY DEF CodeIInv, CodePlace
<1>4. /\ back.at \in DOMAIN code /\ IsCallOf(code[back.at], MutexLocks) /\ j \in DOMAIN code /\ c \in Instructions
      /\ back.want \in X
  <2>1. back.at \in DOMAIN code /\ IsCallOf(code[back.at], MutexLocks) /\ back.want \in X
    BY <1>1 DEF CodeIInv, BackPlace, Looking
  <2>2. j \in 1 .. back.at - 1 BY <1>1, <1>3, <2>1, LookedBackIs DEF Looking
  <2> QED BY <1>3, <2>1, <2>2
<1>5. ASSUME address # NoAddress, Readable(LookedBack(back.at))
      PROVE  held[back.at][0] = Abs(address)
  <2>1. c.op = "adrp" /\ c.d = back.want /\ c.imm \in Int BY <1>1, <1>4, Arm64Assumption DEF Page
  <2>2. OnlyDestination(c) BY <1>1, <1>5 DEF Looking, Readable
  <2>3. Defines(c, back.want) /\ c.op # "call" BY <2>1, <2>2 DEF Defines, NoDestination, OnlyDestination
  <2>4. held[j + 1][back.want] = Abs(c.imm)
    BY <1>4, <2>1, <2>3, DestinationHolds DEF CodeIInv, DefinedBy
  <2> QED BY <1>1, <1>5, <2>1, <2>4 DEF CodeIInv, BackPlace, Looking
<1>6. PassedPlace'
  <2>1. \A p \in passed : Found_(p.at, p.address)' BY <1>1 DEF CodeIInv, PassedPlace, Found_, Readable, LookedBack, IsCallOf
  <2>2. ASSUME address # NoAddress PROVE Found_(back.at, address)
    BY <1>4, <1>5, <2>2 DEF Found_
  <2>3. ASSUME NEW p \in passed' PROVE Found_(p.at, p.address)
    <3>1. CASE p \in passed BY <3>1 DEF CodeIInv, PassedPlace
    <3>2. CASE p = [at |-> back.at, address |-> address] /\ address # NoAddress
      <4> HIDE DEF address
      <4> QED BY <2>2, <3>2
    <3> HIDE DEF address
    <3> QED BY <1>2, <3>1, <3>2
  <2> QED BY <1>1, <2>3 DEF PassedPlace, Found_, IsCallOf, Readable, LookedBack
<1> QED BY <1>1, <1>6 DEF CodeIInv, CodePlace, BackPlace

LEMMA CodeStepIInv == CodeIInv /\ [CodeNext]_codeVars => CodeIInv'
<1> SUFFICES ASSUME CodeIInv, [CodeNext]_codeVars PROVE CodeIInv' OBVIOUS
<1>1. CASE Emit BY <1>1, EmitKeeps
<1>2. CASE LookBack BY <1>2, LookBackKeeps
<1>3. CASE Find BY <1>3, FindKeeps
<1>4. CASE GiveUp
  BY <1>4 DEF GiveUp, CodeIInv, CodePlace, PassedPlace, Found_, BackPlace, Readable, LookedBack, IsCallOf
<1>5. CASE UNCHANGED codeVars
  <2>1. UNCHANGED <<code, held, back, passed>> BY <1>5 DEF codeVars
  <2>2. CodePlace' /\ PassedPlace' BY <2>1 DEF CodeIInv, CodePlace, PassedPlace, Found_, Readable, LookedBack, IsCallOf
  <2>3. BackPlace' BY <2>1 DEF CodeIInv, BackPlace, Readable, LookedBack, IsCallOf, Address
  <2> QED BY <2>2, <2>3 DEF CodeIInv
<1> QED BY <1>1, <1>2, <1>3, <1>4, <1>5 DEF CodeNext

THEOREM ScanCodeInvariant == CodeSpec => []CodeIInv
BY CodeStart, CodeStepIInv, PTL DEF CodeSpec

\* A register that nothing may write keeps what it holds.
LEMMA RegisterStays ==
  ASSUME CodePlace, NEW r \in X, NEW a \in 1 .. Len(code) + 1, NEW b \in a .. Len(code) + 1,
         \A k \in a .. b - 1 :
           code[k].op # "call" /\ ~MayWrite(code[k], r) /\ OnlyDestination(code[k])
  PROVE  held[b][r] = held[a][r]
<1>1. Len(code) \in Nat /\ DOMAIN code = 1 .. Len(code) BY DEF CodePlace
<1> DEFINE N == {k \in a .. b : held[k][r] # held[a][r]}
<1>2. SUFFICES ASSUME N # {} PROVE FALSE BY <1>1
<1>3. PICK m \in N : \A k \in N : m <= k
  <2>1. N \in SUBSET Nat BY <1>1
  <2> HIDE DEF N
  <2> QED BY <1>2, <2>1, LeastOf
<1>4. m \in a .. b /\ held[m][r] # held[a][r] /\ m # a OBVIOUS
<1> DEFINE k == m - 1
<1>5. k \in a .. b - 1 /\ k \in DOMAIN code /\ k + 1 = m BY <1>1, <1>4
<1>6. held[k][r] = held[a][r]
  <2>1. k \notin N
    <3>1. ~ (m <= k) BY <1>1, <1>4
    <3> HIDE DEF N
    <3> QED BY <1>3, <3>1
  <2> QED BY <1>5, <2>1
<1>7. held[k + 1][r] = held[k][r]
  <2>1. code[k].op # "call" /\ ~MayWrite(code[k], r) /\ OnlyDestination(code[k]) BY <1>5
  <2>2. held[k + 1] = Ran(k, code[k], held[k])
    <3> HIDE DEF k
    <3> QED BY <1>5 DEF CodePlace
  <2> HIDE DEF k
  <2>3. ~Defines(code[k], r) BY <2>1 DEF Defines, NoDestination, MayWrite, OnlyDestination
  <2> QED BY <2>1, <2>2, <2>3 DEF Ran, OnlyDestination
<1> QED BY <1>4, <1>5, <1>6, <1>7

\* Where a register is found to be another plus a constant, it is of the base that the other
\* has, and nothing is called nor writes the register from there on.
LEMMA BaseIs ==
  ASSUME CodePlace, NEW i \in DOMAIN code, Readable(LookedBack(i)), NEW r \in X, r # Sp,
         RegisterBaseBefore(i, r) # NoAddress
  PROVE  LET b == RegisterBaseBefore(i, r)
         IN  /\ b.at \in 1 .. i - 1 /\ b.base \in X
             /\ code[b.at].d = r
             /\ \A k \in b.at + 1 .. i - 1 : code[k].op # "call" /\ OnlyDestination(code[k])
             /\ held[b.at + 1][r].base = held[b.at][b.base].base
             /\ held[b.at + 1][b.base].base = held[b.at][b.base].base
             /\ held[i][r] = held[b.at + 1][r]
<1> DEFINE stops == {j \in LookedBack(i) : code[j].op = "call" \/ MayWrite(code[j], r)}
           last == Max(stops)  c == code[last]
<1>1. i \in Nat /\ i <= Len(code) /\ Len(code) \in Nat /\ DOMAIN code = 1 .. Len(code) BY DEF CodePlace
<1>2. stops \in SUBSET (0 .. i - 1) /\ stops # {} /\ c.op \in {"add", "mov"}
      /\ RegisterBaseBefore(i, r) = [base |-> c.n, offset |-> IF c.op = "add" THEN c.imm ELSE 0, at |-> last]
  <2>1. stops # {} /\ c.op \in {"add", "mov"}
        /\ RegisterBaseBefore(i, r) = [base |-> c.n, offset |-> IF c.op = "add" THEN c.imm ELSE 0, at |-> last]
    BY DEF RegisterBaseBefore
  <2>2. stops \in SUBSET (0 .. i - 1) BY <1>1, LookedBackIs
  <2> QED BY <2>1, <2>2
<1>3. last \in stops /\ \A k \in stops : k <= last
  <2>1. i - 1 \in Nat BY <1>1
  <2> HIDE DEF stops
  <2> QED BY <1>2, <2>1, GreatestOf
<1>4. last \in 1 .. i - 1 /\ last \in LookedBack(i) /\ MayWrite(c, r)
  <2>1. last \in LookedBack(i) /\ (c.op = "call" \/ MayWrite(c, r)) BY <1>3
  <2> HIDE DEF stops, last
  <2> QED BY <1>1, <1>2, <2>1, LookedBackIs
<1>5. \A k \in last + 1 .. i - 1 :
        code[k].op # "call" /\ ~MayWrite(code[k], r) /\ OnlyDestination(code[k])
  <2> SUFFICES ASSUME NEW k \in last + 1 .. i - 1 PROVE k \notin stops /\ k \in LookedBack(i)
    BY DEF Readable
  <2>1. k \in LookedBack(i)
    <3>1. last \in LookedBack(i) /\ last \in 1 .. i - 1 BY <1>4
    <3>2. Max({1, i - Reach}) <= last
      <4> HIDE DEF last
      <4> QED BY <3>1 DEF LookedBack
    <3>3. Max({1, i - Reach}) \in Int
      <4> DEFINE N == {1, i - Reach}
      <4>1. i - Reach \in Int BY <1>1, Arm64Assumption
      <4>2. \E q \in N : \A l \in N : l <= q BY <4>1
      <4>3. Max(N) \in N BY <4>2 DEF Max
      <4> QED BY <4>1, <4>3
    <3> HIDE DEF last
    <3> QED BY <1>1, <3>1, <3>2, <3>3 DEF LookedBack
  <2>2. ~ (k <= last)
    <3>1. last \in Int BY <1>4
    <3> HIDE DEF last
    <3> QED BY <3>1
  <2>3. k \notin stops BY <1>3, <2>2
  <2> QED BY <2>1, <2>3
<1>6. c \in Instructions /\ c.d = r /\ c.n \in X /\ OnlyDestination(c)
  <2>1. last \in DOMAIN code BY <1>1, <1>4
  <2>2. c \in Instructions BY <1>1, <2>1 DEF CodePlace
  <2>3. OnlyDestination(c) BY <1>4 DEF Readable
  <2> HIDE DEF last
  <2> QED BY <1>2, <1>4, <2>2, <2>3, Arm64Assumption DEF MayWrite
<1>7. last \in DOMAIN code /\ c.op # "call" BY <1>1, <1>2, <1>4
<1>8. held[last + 1][r].base = held[last][c.n].base
  <2> HIDE DEF last
  <2>1. Defines(c, r) BY <1>2, <1>6 DEF Defines, NoDestination
  <2>2. held[last + 1][r] = DefinedBy(last, c, held[last]) BY <1>7, <2>1, DestinationHolds
  <2> QED BY <1>2, <1>6, <2>2 DEF DefinedBy, Plus, OnlyDestination
<1>9. held[last + 1][c.n].base = held[last][c.n].base
  <2>1. CASE c.n = r BY <1>8, <2>1
  <2>2. CASE c.n # r
    <3> HIDE DEF last
    <3> QED BY <1>6, <1>7, <2>2, OthersStay
  <2> QED BY <2>1, <2>2
<1>10. held[i][r] = held[last + 1][r]
  <2>1. last + 1 \in 1 .. Len(code) + 1 /\ i \in last + 1 .. Len(code) + 1
    <3>1. last \in 1 .. i - 1 BY <1>4
    <3> HIDE DEF last
    <3> QED BY <1>1, <3>1
  <2> HIDE DEF last
  <2> QED BY <1>5, <2>1, RegisterStays
<1> HIDE DEF last
<1> QED BY <1>2, <1>4, <1>5, <1>6, <1>8, <1>9, <1>10

LEMMA HandlesShareBase ==
  ASSUME CodePlace, NEW i \in ThreadHandles, Readable(LookedBack(i))
  PROVE  held[i][0].base = held[i][3].base
<1> DEFINE h == RegisterBaseBefore(i, 0)  g == RegisterBaseBefore(i, 3)
<1>1. /\ i \in DOMAIN code /\ h # NoAddress /\ g # NoAddress /\ h.base = g.base
      /\ \A j \in Min({h.at, g.at}) + 1 .. i - 1 : ~MayWrite(code[j], h.base)
  BY DEF ThreadHandles
<1>2. 0 \in X /\ 3 \in X /\ 0 # Sp /\ 3 # Sp BY Arm64Assumption DEF Sp
<1>3. /\ h.at \in 1 .. i - 1 /\ h.base \in X /\ code[h.at].d = 0
      /\ \A k \in h.at + 1 .. i - 1 : code[k].op # "call" /\ OnlyDestination(code[k])
      /\ held[h.at + 1][0].base = held[h.at][h.base].base
      /\ held[h.at + 1][h.base].base = held[h.at][h.base].base
      /\ held[i][0] = held[h.at + 1][0]
  BY <1>1, <1>2, BaseIs
<1>4. /\ g.at \in 1 .. i - 1 /\ g.base \in X /\ code[g.at].d = 3
      /\ \A k \in g.at + 1 .. i - 1 : code[k].op # "call" /\ OnlyDestination(code[k])
      /\ held[g.at + 1][3].base = held[g.at][g.base].base
      /\ held[g.at + 1][g.base].base = held[g.at][g.base].base
      /\ held[i][3] = held[g.at + 1][3]
  BY <1>1, <1>2, BaseIs
<1>5. i \in 1 .. Len(code) /\ Len(code) \in Nat BY <1>1 DEF CodePlace
<1> HIDE DEF h, g
<1>6. h.at \in Int /\ g.at \in Int BY <1>3, <1>4, <1>5
<1>7. CASE h.at < g.at
  <2>1. Min({h.at, g.at}) = h.at
    <3> DEFINE N == {h.at, g.at}
    <3>1. h.at \in N /\ \A k \in N : h.at <= k BY <1>6, <1>7
    <3>2. \A x \in N : (\A k \in N : x <= k) => x = h.at BY <1>6, <1>7
    <3> QED BY <3>1, <3>2 DEF Min
  <2>2. held[g.at][h.base] = held[h.at + 1][h.base]
    <3>1. h.at + 1 \in 1 .. Len(code) + 1 /\ g.at \in h.at + 1 .. Len(code) + 1
      BY <1>3, <1>4, <1>5, <1>7
    <3>2. ASSUME NEW k \in h.at + 1 .. g.at - 1
          PROVE  code[k].op # "call" /\ ~MayWrite(code[k], h.base) /\ OnlyDestination(code[k])
      <4>1. k \in h.at + 1 .. i - 1 BY <1>3, <1>4, <1>5, <1>6
      <4>2. code[k].op # "call" /\ OnlyDestination(code[k]) BY <1>3, <4>1
      <4>3. ~MayWrite(code[k], h.base) BY <1>1, <2>1, <4>1
      <4> QED BY <4>2, <4>3
    <3> QED BY <1>3, <3>1, <3>2, RegisterStays
  <2> QED BY <1>1, <1>3, <1>4, <2>2
<1>8. CASE g.at < h.at
  <2>1. Min({h.at, g.at}) = g.at
    <3> DEFINE N == {h.at, g.at}
    <3>1. g.at \in N /\ \A k \in N : g.at <= k BY <1>6, <1>8
    <3>2. \A x \in N : (\A k \in N : x <= k) => x = g.at BY <1>6, <1>8
    <3> QED BY <3>1, <3>2 DEF Min
  <2>2. held[h.at][h.base] = held[g.at + 1][h.base]
    <3>1. g.at + 1 \in 1 .. Len(code) + 1 /\ h.at \in g.at + 1 .. Len(code) + 1
      BY <1>3, <1>4, <1>5, <1>8
    <3>2. ASSUME NEW k \in g.at + 1 .. h.at - 1
          PROVE  code[k].op # "call" /\ ~MayWrite(code[k], h.base) /\ OnlyDestination(code[k])
      <4>1. k \in g.at + 1 .. i - 1 BY <1>3, <1>4, <1>5, <1>6
      <4>2. code[k].op # "call" /\ OnlyDestination(code[k]) BY <1>4, <4>1
      <4>3. ~MayWrite(code[k], h.base) BY <1>1, <2>1, <4>1
      <4> QED BY <4>2, <4>3
    <3> QED BY <1>3, <3>1, <3>2, RegisterStays
  <2> QED BY <1>1, <1>3, <1>4, <2>2
<1>9. h.at # g.at BY <1>3, <1>4
<1> QED BY <1>6, <1>7, <1>8, <1>9

LEMMA TlsIsThreadPointer ==
  ASSUME CodePlace, NEW j \in TlsReads, Readable(BeforeLoad(j)),
         \A i \in BeforeLoad(j) : code[i].op # "call"
  PROVE  held[j][code[j].n] = ThreadPointer
<1>1. j \in DOMAIN code /\ DOMAIN code = 1 .. Len(code) /\ Len(code) \in Nat BY DEF TlsReads, CodePlace
<1>2. PICK i \in BeforeLoad(j) :
        /\ code[i].op = "mrs" /\ code[j].n = code[i].d
        /\ \A k \in i + 1 .. j - 1 : ~MayWrite(code[k], code[i].d)
  BY DEF TlsReads, TlsLoad
<1>3. i \in 1 .. j - 1 /\ \A k \in i .. j - 1 : k \in BeforeLoad(j)
  <2> DEFINE N == {1, j - TlsReach}
  <2>1. j - TlsReach \in Int BY <1>1, Arm64Assumption
  <2>2. \E q \in N : \A l \in N : l <= q BY <2>1
  <2>3. Max(N) \in N /\ 1 <= Max(N) BY <2>2 DEF Max
  <2>4. Max(N) \in Int BY <2>1, <2>3
  <2> HIDE DEF N
  <2>5. BeforeLoad(j) = Max(N) .. j - 1 BY DEF N, BeforeLoad
  <2> QED BY <1>1, <2>3, <2>4, <2>5
<1>4. i \in DOMAIN code /\ code[i] \in Instructions /\ code[i].d \in X /\ code[i].d # Sp
  <2>1. i \in DOMAIN code BY <1>1, <1>3
  <2>2. OnlyDestination(code[i]) BY DEF Readable
  <2> QED BY <1>2, <2>1, <2>2, Arm64Assumption DEF CodePlace, OnlyDestination
<1>5. held[i + 1][code[i].d] = ThreadPointer
  <2>1. Defines(code[i], code[i].d) BY <1>2, <1>4 DEF Defines, NoDestination
  <2> QED BY <1>2, <1>4, <2>1, DestinationHolds DEF DefinedBy
<1>6. held[j][code[i].d] = held[i + 1][code[i].d]
  <2>1. i + 1 \in 1 .. Len(code) + 1 /\ j \in i + 1 .. Len(code) + 1 BY <1>1, <1>3
  <2>2. \A k \in i + 1 .. j - 1 :
          code[k].op # "call" /\ ~MayWrite(code[k], code[i].d) /\ OnlyDestination(code[k])
    <3>1. \A k \in i + 1 .. j - 1 : k \in BeforeLoad(j) BY <1>1, <1>3
    <3> QED BY <1>2, <3>1 DEF Readable
  <2> QED BY <1>4, <2>1, <2>2, RegisterStays
<1> QED BY <1>2, <1>5, <1>6

\* What is read off a library's code is what runs: mutex, handle and slot.
THEOREM ScanReportedRuns == CodeSpec => []ReportedRuns
<1>1. CodeIInv => ReportedRuns
  <2> SUFFICES ASSUME CodeIInv PROVE ReportedRuns OBVIOUS
  <2>1. ASSUME NEW p \in passed, Readable(LookedBack(p.at))
        PROVE  IsCallOf(code[p.at], MutexLocks) /\ held[p.at][0] = Abs(p.address)
    BY <2>1 DEF CodeIInv, PassedPlace, Found_
  <2>2. ASSUME NEW i \in ThreadHandles, Readable(LookedBack(i)) PROVE held[i][0].base = held[i][3].base
    BY <2>2, HandlesShareBase DEF CodeIInv
  <2>3. ASSUME NEW j \in TlsReads, Readable(BeforeLoad(j)), \A i \in BeforeLoad(j) : code[i].op # "call"
        PROVE  held[j][code[j].n] = ThreadPointer
    BY <2>3, TlsIsThreadPointer DEF CodeIInv
  <2> QED BY <2>1, <2>2, <2>3 DEF ReportedRuns
<1> QED BY <1>1, ScanCodeInvariant, PTL

-----------------------------------------------------------------------------
(* Scan: the index *)

LEMMA DefinersAre ==
  ASSUME NEW o
  PROVE  /\ Definers(o) \in SUBSET (1 .. Len(BootClassPath))
         /\ Definers(o) # {} =>
              /\ Min(Definers(o)) \in Definers(o) /\ \A i \in Definers(o) : Min(Definers(o)) <= i
              /\ o \in Owner /\ OnDevice(o) \in BootClassPath[Min(Definers(o))].classes
              /\ OnDevice(o).name = o /\ OnDevice(o).parents \in Seq(Owner)
<1>1. Definers(o) \in SUBSET (1 .. Len(BootClassPath)) BY RuntimeAssumption DEF Definers
<1> SUFFICES ASSUME Definers(o) # {}
             PROVE  /\ Min(Definers(o)) \in Definers(o) /\ \A i \in Definers(o) : Min(Definers(o)) <= i
                    /\ o \in Owner /\ OnDevice(o) \in BootClassPath[Min(Definers(o))].classes
                    /\ OnDevice(o).name = o /\ OnDevice(o).parents \in Seq(Owner)
  BY <1>1
<1>2. Definers(o) \in SUBSET Nat BY <1>1
<1>3. \E m \in Definers(o) : \A k \in Definers(o) : m <= k BY <1>2, LeastOf
<1>4. Min(Definers(o)) \in Definers(o) /\ \A i \in Definers(o) : Min(Definers(o)) <= i BY <1>3 DEF Min
<1> DEFINE first == Min(Definers(o))
<1>5. \E c \in BootClassPath[first].classes : c.name = o BY <1>4 DEF Definers
<1>6. OnDevice(o) \in BootClassPath[first].classes /\ OnDevice(o).name = o BY <1>5 DEF OnDevice
<1>7. BootClassPath[first] \in Range(BootClassPath) BY <1>1, <1>4, RuntimeAssumption DEF Range
<1> QED BY <1>4, <1>6, <1>7, RuntimeAssumption

\* The index holds the classes of the artifacts so far, each as the first of them defines it.
FirstRecord(o) == ClassRecord(OnDevice(o), BootClassPath[Min(Definers(o))].name)
IndexPlace ==
  /\ next \in 1 .. Len(BootClassPath) + 1
  /\ DOMAIN index = {o \in Owner : \E i \in Definers(o) : i < next}
  /\ \A o \in DOMAIN index : index[o] = FirstRecord(o)

LEMMA IndexKeeps == IndexPlace /\ IndexArtifact => IndexPlace'
<1> SUFFICES ASSUME IndexPlace, IndexArtifact PROVE IndexPlace' OBVIOUS
<1> DEFINE a == BootClassPath[next]
<1>1. /\ next \in 1 .. Len(BootClassPath) /\ next' = next + 1 /\ index' = Indexed(index, a)
      /\ Len(BootClassPath) \in Nat
  BY RuntimeAssumption DEF IndexPlace, IndexArtifact
<1>2. a \in Range(BootClassPath) BY <1>1, RuntimeAssumption DEF Range
<1>3. \A o : next \in Definers(o) <=> o \in {c.name : c \in a.classes}
  BY <1>1, RuntimeAssumption DEF Definers
<1>4. DOMAIN index' = DOMAIN index \cup {c.name : c \in a.classes} BY <1>1 DEF Indexed
<1>5. DOMAIN index' = {o \in Owner : \E i \in Definers(o) : i < next + 1}
  <2>1. ASSUME NEW o, o \in DOMAIN index'
        PROVE  o \in Owner /\ \E i \in Definers(o) : i < next + 1
    <3>1. CASE o \in DOMAIN index BY <1>1, <3>1, DefinersAre DEF IndexPlace
    <3>2. CASE next \in Definers(o) BY <1>1, <3>2, DefinersAre
    <3> QED BY <1>3, <1>4, <2>1, <3>1, <3>2
  <2>2. ASSUME NEW o \in Owner, NEW i \in Definers(o), i < next + 1
        PROVE  o \in DOMAIN index'
    <3>1. i \in Nat BY DefinersAre
    <3>2. CASE i = next BY <1>3, <1>4, <3>2
    <3>3. CASE i < next BY <1>4, <3>3 DEF IndexPlace
    <3> QED BY <1>1, <2>2, <3>1, <3>2, <3>3
  <2> QED BY <2>1, <2>2
<1>6. ASSUME NEW o \in DOMAIN index' PROVE index'[o] = FirstRecord(o)
  <2>1. CASE o \in DOMAIN index BY <1>1, <2>1 DEF Indexed, IndexPlace
  <2>2. CASE o \notin DOMAIN index
    <3>1. index'[o] = ClassRecord(CHOOSE c \in a.classes : c.name = o, a.name) BY <1>1, <1>4, <2>2 DEF Indexed
    <3>2. next \in Definers(o) BY <1>3, <1>4, <2>2
    <3>3. \A i \in Definers(o) : ~(i < next) BY <2>2, <3>2, DefinersAre DEF IndexPlace
    <3>4. Min(Definers(o)) = next
      <4>1. Min(Definers(o)) \in Definers(o) /\ Min(Definers(o)) <= next /\ Min(Definers(o)) \in Nat
        BY <3>2, DefinersAre
      <4> QED BY <1>1, <3>3, <4>1
    <3> QED BY <3>1, <3>4 DEF FirstRecord, OnDevice
  <2> QED BY <2>1, <2>2
<1>7. (DOMAIN index = {o \in Owner : \E i \in Definers(o) : i < next})' BY <1>1, <1>5 DEF Definers
<1>8. (\A o \in DOMAIN index : index[o] = FirstRecord(o))'
  <2> SUFFICES ASSUME NEW o \in DOMAIN index' PROVE index'[o] = FirstRecord(o)' OBVIOUS
  <2>1. FirstRecord(o)' = FirstRecord(o)
    BY DEF FirstRecord, ClassRecord, OnDevice, Definers, IsHollowMethod, IsHollowClass
  <2> QED BY <1>6, <2>1
<1> QED BY <1>1, <1>7, <1>8 DEF IndexPlace

\* Where all artifacts are indexed, a class is indexed exactly if the device has it.
LEMMA IndexIsDevice ==
  ASSUME IndexPlace, Complete, NEW o
  PROVE  /\ o \in DOMAIN index <=> Definers(o) # {}
         /\ o \in DOMAIN index =>
              /\ index[o].parents = OnDevice(o).parents /\ index[o].parents \in Seq(Owner)
              /\ index[o].fields = OnDevice(o).fields
              /\ \A key : key \in index[o].methods <=> \E m \in OnDevice(o).methods : m.key = key
              /\ \A key : key \in index[o].natives <=> \E m \in OnDevice(o).methods : m.key = key /\ m.native
              /\ \A key \in index[o].methods :
                   index[o].calls[key] = UNION {m.calls : m \in {n \in OnDevice(o).methods : n.key = key}}
<1>1. o \in DOMAIN index <=> Definers(o) # {}
  <2>1. ASSUME Definers(o) # {} PROVE o \in DOMAIN index
    <3>1. PICK i \in Definers(o) : TRUE BY <2>1
    <3>2. i \in 1 .. Len(BootClassPath) /\ o \in Owner BY <2>1, DefinersAre
    <3>3. i < next BY <3>2, RuntimeAssumption DEF Complete, IndexPlace
    <3> QED BY <3>2, <3>3 DEF IndexPlace
  <2> QED BY <2>1 DEF IndexPlace
<1>2. o \in DOMAIN index => index[o] = FirstRecord(o) BY DEF IndexPlace
<1>3. o \in DOMAIN index => OnDevice(o).parents \in Seq(Owner) BY <1>1, DefinersAre
<1> QED BY <1>1, <1>2, <1>3 DEF FirstRecord, ClassRecord

-----------------------------------------------------------------------------
(* Scan: the calls of a method *)

\* What a method is said to reach is native and of the framework, and holds every native
\* that it calls, itself or through a wrapper.
Wrappers(m) == {m} \cup {c \in Callees(m) : ~IsNative(c)}
Reaches(m, natives) ==
  /\ \A c \in natives : c[1] \in Framework /\ IsNative(c)
  /\ \A w \in Wrappers(m) : \A c \in Callees(w) \ {m} : IsNative(c) => c \in natives

\* The natives are those seen, and the calls that lie behind a depth have been seen.
FollowPlace ==
  follow # None =>
    LET m == follow.caller
    IN  /\ Complete
        /\ follow = [caller |-> m, depth |-> follow.depth, frontier |-> follow.frontier,
                     seen |-> follow.seen, natives |-> follow.natives]
        /\ follow.depth \in 0 .. CallDepth
        /\ \A c \in (follow.seen \ {m}) \cup follow.frontier : c[1] \in Framework
        /\ follow.natives = {c \in follow.seen \ {m} : IsNative(c)}
        /\ follow.depth = 0 => follow.seen = {m} /\ follow.frontier = Callees(m)
        /\ follow.depth > 0 => m \in follow.seen /\ Callees(m) \subseteq follow.seen
        /\ follow.depth = 1 => \A w \in Wrappers(m) : Callees(w) \subseteq follow.seen \cup follow.frontier
        /\ follow.depth > 1 => \A w \in Wrappers(m) : Callees(w) \subseteq follow.seen

ReachedPlace ==
  /\ \A m \in DOMAIN reached : Complete /\ Reaches(m, reached[m])
  /\ app # None => Followed

CallsIInv == IndexPlace /\ FollowPlace /\ ReachedPlace

\* Once the index is complete, nothing that is read off it changes.
LEMMA CallsStay ==
  ASSUME CallsIInv, UNCHANGED indexVars, UNCHANGED callVars
  PROVE  (IndexPlace /\ FollowPlace)' /\ (\A m \in DOMAIN reached : Complete /\ Reaches(m, reached[m]))'
         /\ Followed' = Followed
<1>1. index' = index /\ next' = next /\ follow' = follow /\ reached' = reached BY DEF indexVars, callVars
<1>2. IndexPlace' BY <1>1 DEF CallsIInv, IndexPlace, FirstRecord, ClassRecord, OnDevice, Definers, IsHollowMethod, IsHollowClass
<1>3. FollowPlace' BY <1>1 DEF CallsIInv, FollowPlace, Complete, IsNative, Callees, Wrappers
<1>4. (\A m \in DOMAIN reached : Complete /\ Reaches(m, reached[m]))'
  BY <1>1 DEF CallsIInv, ReachedPlace, Complete, Reaches, IsNative, Callees, Wrappers
<1>5. Followed' = Followed BY <1>1 DEF Followed, Complete, IndexedMethods
<1> QED BY <1>2, <1>3, <1>4, <1>5

LEMMA CalleesInFramework ==
  ASSUME NEW c
  PROVE  \A t \in Callees(c) : t[1] \in Framework
BY DEF Callees

LEMMA FollowKeeps ==
  ASSUME CallsIInv, FollowCalls \/ FollowDeeper \/ NativeCalls
  PROVE  CallsIInv'
<1>1. index' = index /\ next' = next /\ app' = app /\ UNCHANGED indexVars
  BY DEF FollowCalls, FollowDeeper, NativeCalls, indexVars, appVars
<1>2. IndexPlace'
  BY <1>1 DEF CallsIInv, IndexPlace, FirstRecord, ClassRecord, OnDevice, Definers, IsHollowMethod, IsHollowClass
<1>3. Complete' = Complete /\ IndexedMethods' = IndexedMethods BY <1>1 DEF Complete, IndexedMethods
<1>4. \A c : IsNative(c)' = IsNative(c) /\ Callees(c)' = Callees(c) BY <1>1 DEF IsNative, Callees
<1>5. CASE FollowCalls
  <2> DEFINE m == CHOOSE c \in IndexedMethods : c \notin DOMAIN reached
  <2>1. follow' = [caller |-> m, depth |-> 0, frontier |-> Callees(m), seen |-> {m}, natives |-> {}]
        /\ reached' = reached /\ Complete
    BY <1>5 DEF FollowCalls
  <2> HIDE DEF m
  <2>2. FollowPlace'
    <3>1. \A c \in Callees(m) : c[1] \in Framework BY CalleesInFramework
    <3> QED BY <1>1, <2>1, <3>1, RuntimeAssumption DEF FollowPlace, Complete, Callees
  <2>3. ReachedPlace'
    BY <1>1, <2>1 DEF CallsIInv, ReachedPlace, Complete, Reaches, IsNative, Callees, Wrappers, Followed, IndexedMethods
  <2> QED BY <1>2, <2>2, <2>3 DEF CallsIInv
<1>6. CASE FollowDeeper
  <2> DEFINE m == follow.caller  new == follow.frontier \ follow.seen
             frontier == UNION {Callees(c) : c \in {d \in new : ~IsNative(d)}}
             natives == follow.natives \cup {c \in new : IsNative(c)}
  <2>1. follow' = [caller |-> m, depth |-> follow.depth + 1, frontier |-> frontier,
                   seen |-> follow.seen \cup new, natives |-> natives]
        /\ reached' = reached /\ Complete /\ follow # None /\ follow.depth < CallDepth
        /\ follow.depth \in 0 .. CallDepth
    BY <1>6 DEF FollowDeeper, CallsIInv, FollowPlace
  <2>2. /\ follow.natives = {c \in follow.seen \ {m} : IsNative(c)}
        /\ follow.depth = 0 => follow.seen = {m} /\ follow.frontier = Callees(m)
        /\ follow.depth > 0 => m \in follow.seen /\ Callees(m) \subseteq follow.seen
        /\ follow.depth = 1 => \A w \in Wrappers(m) : Callees(w) \subseteq follow.seen \cup follow.frontier
        /\ follow.depth > 1 => \A w \in Wrappers(m) : Callees(w) \subseteq follow.seen
    BY <2>1 DEF CallsIInv, FollowPlace
  <2>3. m \in follow.seen /\ \A c \in (follow.seen \ {m}) \cup follow.frontier : c[1] \in Framework
    BY <2>1, <2>2, RuntimeAssumption DEF CallsIInv, FollowPlace
  <2>4. \A c \in ((follow.seen \cup new) \ {m}) \cup frontier : c[1] \in Framework
    BY <2>3, CalleesInFramework
  <2>5. natives = {c \in (follow.seen \cup new) \ {m} : IsNative(c)} BY <2>2, <2>3
  <2>6. Callees(m) \subseteq follow.seen \cup new BY <2>1, <2>2, RuntimeAssumption
  <2>7. follow.depth = 0 => \A w \in Wrappers(m) : Callees(w) \subseteq (follow.seen \cup new) \cup frontier
    <3> SUFFICES ASSUME follow.depth = 0, NEW w \in Wrappers(m), w # m
                 PROVE  Callees(w) \subseteq frontier
      BY <2>6
    <3>1. w \in new /\ ~IsNative(w) BY <2>2 DEF Wrappers
    <3> QED BY <3>1
  <2>8. follow.depth > 0 => \A w \in Wrappers(m) : Callees(w) \subseteq follow.seen \cup new
    BY <2>1, <2>2, RuntimeAssumption
  <2> HIDE DEF m, new, frontier, natives
  <2>9. FollowPlace'
    <3>1. follow'.depth \in 0 .. CallDepth /\ follow'.depth > 0 BY <2>1, RuntimeAssumption
    <3>2. follow'.depth = 1 => follow.depth = 0 BY <2>1, RuntimeAssumption
    <3>3. follow'.depth > 1 => follow.depth > 0 BY <2>1, RuntimeAssumption
    <3>4. follow'.caller = m /\ follow' = [caller |-> m, depth |-> follow'.depth,
            frontier |-> follow'.frontier, seen |-> follow'.seen, natives |-> follow'.natives]
      BY <2>1
    <3>5. follow'.natives = {c \in follow'.seen \ {m} : IsNative(c)} BY <2>1, <2>5
    <3>6. follow'.depth = 1 => \A w \in Wrappers(m) : Callees(w) \subseteq follow'.seen \cup follow'.frontier
      BY <2>1, <2>7, <3>2
    <3>7. follow'.depth > 1 => \A w \in Wrappers(m) : Callees(w) \subseteq follow'.seen
      BY <2>1, <2>8, <3>3
    <3>8. Callees(m) \subseteq follow'.seen /\ m \in follow'.seen BY <2>1, <2>3, <2>6
    <3>9. ~(follow'.depth = 0) BY <3>1
    <3>10. \A c \in (follow'.seen \ {m}) \cup follow'.frontier : c[1] \in Framework BY <2>1, <2>4
    <3> QED BY <1>1, <2>1, <3>1, <3>4, <3>5, <3>6, <3>7, <3>8, <3>9, <3>10
         DEF FollowPlace, Complete, Wrappers, Callees, IsNative
  <2>10. ReachedPlace'
    BY <1>1, <2>1 DEF CallsIInv, ReachedPlace, Complete, Reaches, IsNative, Callees, Wrappers, Followed, IndexedMethods
  <2> QED BY <1>2, <2>9, <2>10 DEF CallsIInv
<1>7. CASE NativeCalls
  <2> DEFINE m == follow.caller
  <2>1. /\ Complete /\ follow.depth > 1
        /\ follow.natives = {c \in follow.seen \ {m} : IsNative(c)}
        /\ \A c \in follow.seen \ {m} : c[1] \in Framework
        /\ \A w \in Wrappers(m) : Callees(w) \subseteq follow.seen
    BY <1>7, RuntimeAssumption DEF NativeCalls, CallsIInv, FollowPlace
  <2>2. Reaches(m, follow.natives) BY <2>1 DEF Reaches
  <2>3. reached' = Extended(reached, m, follow.natives) /\ follow' = None BY <1>7 DEF NativeCalls
  <2>4. \A x \in DOMAIN reached' : Reaches(x, reached'[x]) BY <2>2, <2>3 DEF Extended, CallsIInv, ReachedPlace
  <2>5. DOMAIN reached \subseteq DOMAIN reached' BY <2>3 DEF Extended
  <2>6. (\A x \in DOMAIN reached : Complete /\ Reaches(x, reached[x]))'
    BY <1>1, <2>1, <2>4 DEF Complete, Reaches, IsNative, Callees, Wrappers
  <2>7. Followed => Followed' BY <1>3, <2>5 DEF Followed
  <2>8. ReachedPlace' BY <1>1, <2>6, <2>7 DEF ReachedPlace, CallsIInv
  <2>9. FollowPlace' BY <2>3 DEF FollowPlace
  <2> QED BY <1>2, <2>8, <2>9 DEF CallsIInv
<1> QED BY <1>5, <1>6, <1>7

-----------------------------------------------------------------------------
(* Scan: the search through the hierarchy *)

Declaring(o, key, kind) == o \in DOMAIN index /\ key \in index[o][kind]

\* Where a member may be: no constructor is inherited.
Sought(owner, key, kind) == IF Inherited(key, kind) THEN Above(owner) ELSE {owner}
RightAnswer(owner, key, kind, answer) ==
  IF answer = None THEN \A p \in Sought(owner, key, kind) : ~Declaring(p, key, kind)
  ELSE answer \in Sought(owner, key, kind) /\ Declaring(answer, key, kind)

\* What was seen has not the member; its parents were seen or are to be looked at; and
\* nothing is looked at but what is above the owner.
SearchPlace ==
  search # None =>
    LET owner == search.owner
        Known == search.seen \cup Range(search.above)
    IN  /\ app # None
        /\ search = [owner |-> owner, key |-> search.key, kind |-> search.kind,
                     seen |-> search.seen, above |-> search.above]
        /\ owner \in Known /\ search.seen \subseteq Owner /\ search.above \in Seq(Owner)
        /\ \A p \in search.seen : ~Declaring(p, search.key, search.kind)
        /\ IF Inherited(search.key, search.kind)
             THEN /\ \A p \in search.seen \cap DOMAIN index : Range(index[p].parents) \subseteq Known
                  /\ \A S \in SUBSET Owner : owner \in S /\ Closed(S) => Known \subseteq S
             ELSE Known \subseteq {owner}

ResolvedPlace == \A q \in DOMAIN resolved : app # None /\ RightAnswer(q[1], q[2], q[3], resolved[q])

AppPlace == app \in Apps \cup {None}

ScanIInv == CallsIInv /\ AppPlace /\ SearchPlace /\ ResolvedPlace

LEMMA RangeOfTail ==
  ASSUME NEW T, NEW s \in Seq(T), s # <<>>
  PROVE  Head(s) \in T /\ Tail(s) \in Seq(T) /\ Range(s) = {Head(s)} \cup Range(Tail(s))
<1>1. Head(s) \in T /\ Tail(s) \in Seq(T) BY HeadTailProperties
<1>2. Len(s) \in Nat /\ Len(s) > 0 /\ DOMAIN s = 1 .. Len(s) BY EmptySeq, LenProperties
<1>3. Len(Tail(s)) = Len(s) - 1 /\ \A i \in 1 .. Len(Tail(s)) : Tail(s)[i] = s[i + 1] BY HeadTailProperties
<1>4. DOMAIN Tail(s) = 1 .. Len(s) - 1 BY <1>1, <1>3
<1>5. Head(s) = s[1] OBVIOUS
<1>6. \A x : x \in Range(s) <=> \E i \in 1 .. Len(s) : x = s[i] BY <1>2 DEF Range
<1>7. \A x : x \in Range(Tail(s)) <=> \E i \in 1 .. Len(s) - 1 : x = s[i + 1] BY <1>3, <1>4 DEF Range
<1>8. ASSUME NEW i \in 1 .. Len(s) PROVE s[i] \in {Head(s)} \cup Range(Tail(s))
  <2>1. CASE i = 1 BY <1>5, <2>1
  <2>2. CASE i # 1
    <3>1. i - 1 \in 1 .. Len(s) - 1 /\ s[(i - 1) + 1] = s[i] BY <1>2, <2>2
    <3> QED BY <1>7, <3>1
  <2> QED BY <2>1, <2>2
<1>9. ASSUME NEW i \in 1 .. Len(s) - 1 PROVE s[i + 1] \in Range(s)
  <2>1. i + 1 \in 1 .. Len(s) BY <1>2
  <2> QED BY <1>6, <2>1
<1>10. Head(s) \in Range(s) BY <1>2, <1>5, <1>6
<1>11. \A x : x \in Range(s) <=> x \in {Head(s)} \cup Range(Tail(s)) BY <1>6, <1>7, <1>8, <1>9, <1>10
<1> QED BY <1>1, <1>11

LEMMA RangeOfBoth ==
  ASSUME NEW T, NEW s \in Seq(T), NEW t \in Seq(T)
  PROVE  s \o t \in Seq(T) /\ Range(s \o t) = Range(s) \cup Range(t)
<1>1. s \o t \in Seq(T) /\ Len(s \o t) = Len(s) + Len(t)
      /\ \A i \in 1 .. Len(s) + Len(t) : (s \o t)[i] = IF i <= Len(s) THEN s[i] ELSE t[i - Len(s)]
  BY ConcatProperties
<1>2. Len(s) \in Nat /\ Len(t) \in Nat /\ DOMAIN s = 1 .. Len(s) /\ DOMAIN t = 1 .. Len(t)
      /\ DOMAIN (s \o t) = 1 .. Len(s) + Len(t)
  BY <1>1, LenProperties
<1>3. ASSUME NEW i \in DOMAIN (s \o t) PROVE (s \o t)[i] \in Range(s) \cup Range(t)
  <2>1. CASE i <= Len(s)
    <3>1. i \in DOMAIN s /\ (s \o t)[i] = s[i] BY <1>1, <1>2, <2>1
    <3> QED BY <3>1 DEF Range
  <2>2. CASE ~(i <= Len(s))
    <3>1. i - Len(s) \in DOMAIN t /\ (s \o t)[i] = t[i - Len(s)] BY <1>1, <1>2, <2>2
    <3> QED BY <3>1 DEF Range
  <2> QED BY <2>1, <2>2
<1>4. ASSUME NEW i \in DOMAIN s PROVE s[i] \in Range(s \o t)
  <2>1. i \in DOMAIN (s \o t) /\ (s \o t)[i] = s[i] BY <1>1, <1>2
  <2> QED BY <2>1 DEF Range
<1>5. ASSUME NEW i \in DOMAIN t PROVE t[i] \in Range(s \o t)
  <2>1. i + Len(s) \in DOMAIN (s \o t) BY <1>2
  <2>2. ~(i + Len(s) <= Len(s)) /\ (i + Len(s)) - Len(s) = i BY <1>2
  <2>3. (s \o t)[i + Len(s)] = t[i] BY <1>1, <1>2, <2>1, <2>2
  <2> QED BY <2>1, <2>3 DEF Range
<1>6. \A x \in Range(s \o t) : x \in Range(s) \cup Range(t) BY <1>3 DEF Range
<1>7. \A x \in Range(s) : x \in Range(s \o t) BY <1>4 DEF Range
<1>8. \A x \in Range(t) : x \in Range(s \o t) BY <1>5 DEF Range
<1> QED BY <1>1, <1>6, <1>7, <1>8

\* A step of the search reads the index and leaves everything else.
LEMMA AnswersStay ==
  ASSUME ResolvedPlace, index' = index, app' = app, resolved' = resolved
  PROVE  ResolvedPlace'
BY DEF ResolvedPlace, RightAnswer, Sought, Inherited, Declaring, Above, Closed, Definers, OnDevice

LEMMA SearchStays ==
  ASSUME SearchPlace, index' = index, app' = app, search' = search
  PROVE  SearchPlace'
BY DEF SearchPlace, Inherited, Declaring, Closed, Definers, OnDevice

\* The owner is above itself, as a class that has a name.
LEMMA AboveIs ==
  ASSUME NEW owner \in Owner
  PROVE  Above(owner) = {p \in Owner : \A S \in SUBSET Owner : owner \in S /\ Closed(S) => p \in S}
<1>1. Owner \cup {owner} = Owner OBVIOUS
<1> QED BY <1>1 DEF Above

LEMMA LookAboveKeeps ==
  ASSUME SearchPlace, IndexPlace, Complete, LookAbove
  PROVE  SearchPlace'
<1> DEFINE owner == search.owner  key == search.key  kind == search.kind
           o == At  seen == search.seen  above == search.above
           parents == IF Inherited(key, kind) THEN index[o].parents ELSE <<>>
<1>1. /\ search = [owner |-> owner, key |-> key, kind |-> kind, seen |-> seen, above |-> above]
      /\ app # None /\ owner \in seen \cup Range(above)
      /\ seen \subseteq Owner /\ above \in Seq(Owner) /\ above # <<>>
      /\ \A p \in seen : ~Declaring(p, key, kind)
      /\ Inherited(key, kind) =>
           /\ \A p \in seen \cap DOMAIN index : Range(index[p].parents) \subseteq seen \cup Range(above)
           /\ \A S \in SUBSET Owner : owner \in S /\ Closed(S) => seen \cup Range(above) \subseteq S
      /\ ~Inherited(key, kind) => seen \cup Range(above) \subseteq {owner}
  BY DEF LookAbove, Searching, SearchPlace
<1>2. search' = [owner |-> owner, key |-> key, kind |-> kind, seen |-> seen \cup {o}, above |-> parents \o Tail(above)]
      /\ index' = index /\ app' = app /\ o \in DOMAIN index /\ key \notin index[o][kind]
  BY <1>1 DEF LookAbove, Unseen, HasClass, Has, indexVars
<1>3. o \in Owner /\ Tail(above) \in Seq(Owner) /\ Range(above) = {o} \cup Range(Tail(above))
  BY <1>1, RangeOfTail DEF At
<1>4. index[o].parents \in Seq(Owner) /\ index[o].parents = OnDevice(o).parents
  BY <1>2, IndexIsDevice
<1>5. parents \in Seq(Owner) /\ Range(parents) = IF Inherited(key, kind) THEN Range(index[o].parents) ELSE {}
  BY <1>4 DEF Range
<1>6. parents \o Tail(above) \in Seq(Owner)
      /\ Range(parents \o Tail(above)) = Range(parents) \cup Range(Tail(above))
  <2> DEFINE t == Tail(above)
  <2>1. parents \in Seq(Owner) /\ t \in Seq(Owner) BY <1>3, <1>5
  <2> HIDE DEF parents, above, t
  <2>2. parents \o t \in Seq(Owner) /\ Range(parents \o t) = Range(parents) \cup Range(t)
    BY <2>1, RangeOfBoth
  <2> QED BY <2>2 DEF t
<1>7. \A p \in seen \cup {o} : ~Declaring(p, key, kind) BY <1>1, <1>2 DEF Declaring
<1>8. Inherited(key, kind) =>
        /\ \A p \in (seen \cup {o}) \cap DOMAIN index :
             Range(index[p].parents) \subseteq (seen \cup {o}) \cup Range(parents \o Tail(above))
        /\ \A S \in SUBSET Owner : owner \in S /\ Closed(S) =>
             (seen \cup {o}) \cup Range(parents \o Tail(above)) \subseteq S
  <2> SUFFICES ASSUME Inherited(key, kind)
               PROVE  /\ \A p \in (seen \cup {o}) \cap DOMAIN index :
                           Range(index[p].parents) \subseteq (seen \cup {o}) \cup Range(parents \o Tail(above))
                      /\ \A S \in SUBSET Owner : owner \in S /\ Closed(S) =>
                           (seen \cup {o}) \cup Range(parents \o Tail(above)) \subseteq S
    OBVIOUS
  <2>1. Definers(o) # {} BY <1>2, IndexIsDevice
  <2>2. \A S \in SUBSET Owner : o \in S /\ Closed(S) => Range(index[o].parents) \subseteq S
    BY <1>4, <2>1 DEF Closed
  <2> HIDE DEF parents, o, owner, key, kind, seen, above
  <2> QED BY <1>1, <1>3, <1>5, <1>6, <2>2
<1>9. ~Inherited(key, kind) => (seen \cup {o}) \cup Range(parents \o Tail(above)) \subseteq {owner}
  BY <1>1, <1>3, <1>5, <1>6
<1>10. owner \in (seen \cup {o}) \cup Range(parents \o Tail(above)) BY <1>1, <1>3, <1>6
<1> HIDE DEF parents, o, owner, key, kind, seen, above
<1> QED BY <1>1, <1>2, <1>3, <1>6, <1>7, <1>8, <1>9, <1>10
     DEF SearchPlace, Inherited, Declaring, Closed, Definers, OnDevice

LEMMA LookBesideKeeps ==
  ASSUME SearchPlace, LookBeside
  PROVE  SearchPlace'
<1> DEFINE owner == search.owner  key == search.key  kind == search.kind
           o == At  seen == search.seen  above == search.above
<1>1. /\ search = [owner |-> owner, key |-> key, kind |-> kind, seen |-> seen, above |-> above]
      /\ app # None /\ owner \in seen \cup Range(above)
      /\ seen \subseteq Owner /\ above \in Seq(Owner) /\ above # <<>>
      /\ \A p \in seen : ~Declaring(p, key, kind)
      /\ Inherited(key, kind) =>
           /\ \A p \in seen \cap DOMAIN index : Range(index[p].parents) \subseteq seen \cup Range(above)
           /\ \A S \in SUBSET Owner : owner \in S /\ Closed(S) => seen \cup Range(above) \subseteq S
      /\ ~Inherited(key, kind) => seen \cup Range(above) \subseteq {owner}
  BY DEF LookBeside, Searching, SearchPlace
<1>2. search' = [owner |-> owner, key |-> key, kind |-> kind, seen |-> seen \cup {o}, above |-> Tail(above)]
      /\ index' = index /\ app' = app /\ (o \in seen \/ o \notin DOMAIN index)
  BY <1>1 DEF LookBeside, Unseen, HasClass, indexVars
<1>3. o \in Owner /\ Tail(above) \in Seq(Owner) /\ Range(above) = {o} \cup Range(Tail(above))
  BY <1>1, RangeOfTail DEF At
<1>4. \A p \in seen \cup {o} : ~Declaring(p, key, kind) BY <1>1, <1>2 DEF Declaring
<1>5. (seen \cup {o}) \cup Range(Tail(above)) = seen \cup Range(above) BY <1>3
<1>6. (seen \cup {o}) \cap DOMAIN index = seen \cap DOMAIN index BY <1>2
<1> HIDE DEF o, owner, key, kind, seen, above
<1> QED BY <1>1, <1>2, <1>3, <1>4, <1>5, <1>6
     DEF SearchPlace, Inherited, Declaring, Closed, Definers, OnDevice

\* What the search ends with is right.
LEMMA HitIsRight ==
  ASSUME SearchPlace, Hit
  PROVE  RightAnswer(search.owner, search.key, search.kind, At) /\ At # None
<1> DEFINE owner == search.owner  key == search.key  kind == search.kind
           Known == search.seen \cup Range(search.above)
<1>1. /\ owner \in Known /\ Known \subseteq Owner
      /\ Inherited(key, kind) => \A S \in SUBSET Owner : owner \in S /\ Closed(S) => Known \subseteq S
      /\ ~Inherited(key, kind) => Known \subseteq {owner}
      /\ At \in Known
  <2>1. search # None /\ search.above \in Seq(Owner) /\ search.above # <<>> /\ search.seen \subseteq Owner
    BY DEF Hit, Searching, SearchPlace
  <2>2. At \in Range(search.above) BY <2>1, RangeOfTail DEF At
  <2>3. Range(search.above) \subseteq Owner BY <2>1 DEF Range
  <2> QED BY <2>1, <2>2, <2>3 DEF SearchPlace
<1>2. Declaring(At, key, kind) BY DEF Hit, Unseen, Has, HasClass, Declaring
<1>3. At \in Sought(owner, key, kind)
  <2>1. owner \in Owner /\ At \in Owner BY <1>1
  <2>2. CASE Inherited(key, kind)
    <3>1. \A S \in SUBSET Owner : owner \in S /\ Closed(S) => At \in S BY <1>1, <2>2
    <3> QED BY <2>1, <2>2, <3>1, AboveIs DEF Sought
  <2>3. CASE ~Inherited(key, kind) BY <1>1, <2>3 DEF Sought
  <2> QED BY <2>2, <2>3
<1>4. At # None BY <1>1, RuntimeAssumption
<1> QED BY <1>2, <1>3, <1>4 DEF RightAnswer

LEMMA MissIsRight ==
  ASSUME SearchPlace, IndexPlace, Complete, Miss
  PROVE  RightAnswer(search.owner, search.key, search.kind, None)
<1> DEFINE owner == search.owner  key == search.key  kind == search.kind  seen == search.seen
<1>1. Range(search.above) = {} BY DEF Miss, Range
<1>2. /\ owner \in seen /\ seen \subseteq Owner
      /\ \A p \in seen : ~Declaring(p, key, kind)
      /\ Inherited(key, kind) => \A p \in seen \cap DOMAIN index : Range(index[p].parents) \subseteq seen
  BY <1>1 DEF Miss, SearchPlace
<1>3. CASE Inherited(key, kind)
  <2>1. Closed(seen)
    <3> SUFFICES ASSUME NEW p \in seen, Definers(p) # {} PROVE Range(OnDevice(p).parents) \subseteq seen
      BY DEF Closed
    <3>1. p \in DOMAIN index /\ index[p].parents = OnDevice(p).parents BY IndexIsDevice
    <3> QED BY <1>2, <1>3, <3>1
  <2>2. Above(owner) \subseteq seen BY <1>2, <2>1, AboveIs
  <2> QED BY <1>2, <1>3, <2>2 DEF RightAnswer, Sought
<1>4. CASE ~Inherited(key, kind) BY <1>2, <1>4 DEF RightAnswer, Sought
<1> QED BY <1>3, <1>4

\* What is asked for is of a class that is indexed.
LEMMA AskedIs ==
  ASSUME NEW a, NEW q \in Asked(a)
  PROVE  q = <<q[1], q[2], q[3]>> /\ HasClass(q[1])
BY DEF Asked, AskedOf, Looked, UpcallsOf

LEMMA AskKeeps ==
  ASSUME IndexPlace, Ask
  PROVE  SearchPlace'
<1> DEFINE q == CHOOSE x \in Asked(app) : x \notin DOMAIN resolved
<1>1. q \in Asked(app) BY DEF Ask, Scanned
<1>2. /\ search' = [owner |-> q[1], key |-> q[2], kind |-> q[3], seen |-> {}, above |-> <<q[1]>>]
      /\ index' = index /\ app' = app /\ app # None
  BY DEF Ask, indexVars
<1> HIDE DEF q
<1>3. q[1] \in Owner BY <1>1, AskedIs DEF HasClass, IndexPlace
<1>4. <<q[1]>> \in Seq(Owner) /\ Range(<<q[1]>>) = {q[1]} BY <1>3 DEF Range
<1> QED BY <1>2, <1>4 DEF SearchPlace

LEMMA AnswerKeeps ==
  ASSUME ResolvedPlace, NEW answer, Answer(answer), index' = index, app' = app, app # None,
         RightAnswer(search.owner, search.key, search.kind, answer)
  PROVE  ResolvedPlace' /\ SearchPlace'
<1> DEFINE x == <<search.owner, search.key, search.kind>>
<1>1. resolved' = Extended(resolved, x, answer) /\ search' = None BY DEF Answer
<1>2. \A q \in DOMAIN resolved' : RightAnswer(q[1], q[2], q[3], resolved'[q])
  <2> SUFFICES ASSUME NEW q \in DOMAIN resolved' PROVE RightAnswer(q[1], q[2], q[3], resolved'[q]) OBVIOUS
  <2>1. CASE q = x
    <3>1. resolved'[q] = answer /\ q[1] = search.owner /\ q[2] = search.key /\ q[3] = search.kind
      BY <1>1, <2>1 DEF Extended
    <3> QED BY <3>1
  <2>2. CASE q # x
    <3>1. q \in DOMAIN resolved /\ resolved'[q] = resolved[q] BY <1>1, <2>2 DEF Extended
    <3> QED BY <3>1 DEF ResolvedPlace
  <2> QED BY <2>1, <2>2
<1>3. ResolvedPlace'
  BY <1>2 DEF ResolvedPlace, RightAnswer, Sought, Inherited, Declaring, Above, Closed, Definers, OnDevice
<1>4. SearchPlace' BY <1>1 DEF SearchPlace
<1> QED BY <1>3, <1>4

LEMMA ScanStart == ScanInit => ScanIInv
<1> SUFFICES ASSUME ScanInit PROVE ScanIInv OBVIOUS
<1>1. index = [o \in {} |-> None] /\ next = 1 /\ follow = None /\ reached = [m \in {} |-> {}]
      /\ app = None /\ search = None /\ resolved = [q \in {} |-> None]
  BY DEF ScanInit
<1>2. DOMAIN index = {} /\ DOMAIN reached = {} /\ DOMAIN resolved = {} BY <1>1
<1>3. \A o : \A i \in Definers(o) : ~(i < 1) BY DefinersAre
<1>4. next \in 1 .. Len(BootClassPath) + 1 BY <1>1, RuntimeAssumption
<1>5. IndexPlace BY <1>1, <1>2, <1>3, <1>4 DEF IndexPlace
<1> QED BY <1>1, <1>2, <1>5 DEF ScanIInv, CallsIInv, FollowPlace, ReachedPlace, AppPlace, SearchPlace, ResolvedPlace

LEMMA ScanStep == ScanIInv /\ [ScanNext]_scanVars => ScanIInv'
<1> SUFFICES ASSUME ScanIInv, [ScanNext]_scanVars PROVE ScanIInv' OBVIOUS
<1> USE DEF ScanIInv
<1>1. CASE IndexArtifact
  <2>1. ~Complete BY <1>1, RuntimeAssumption DEF IndexArtifact, Complete, CallsIInv, IndexPlace
  <2>2. follow = None /\ DOMAIN reached = {} /\ app = None
    BY <2>1 DEF CallsIInv, FollowPlace, ReachedPlace, Followed
  <2>3. search = None /\ DOMAIN resolved = {} BY <2>2 DEF SearchPlace, ResolvedPlace
  <2>4. follow' = follow /\ reached' = reached /\ app' = app /\ search' = search /\ resolved' = resolved
    BY <1>1 DEF IndexArtifact, callVars, appVars
  <2>5. IndexPlace' BY <1>1, IndexKeeps DEF CallsIInv
  <2> QED BY <2>2, <2>3, <2>4, <2>5 DEF CallsIInv, FollowPlace, ReachedPlace, AppPlace, SearchPlace, ResolvedPlace
<1>2. CASE FollowCalls \/ FollowDeeper \/ NativeCalls
  <2>1. CallsIInv' BY <1>2, FollowKeeps
  <2>2. index' = index /\ app' = app /\ search' = search /\ resolved' = resolved
    BY <1>2 DEF FollowCalls, FollowDeeper, NativeCalls, indexVars, appVars
  <2>3. AppPlace' BY <2>2 DEF AppPlace
  <2>4. SearchPlace' BY <2>2, SearchStays
  <2>5. ResolvedPlace' BY <2>2, AnswersStay
  <2> QED BY <2>1, <2>3, <2>4, <2>5
<1>3. CASE ScanApk
  <2>1. UNCHANGED indexVars /\ UNCHANGED callVars /\ Followed /\ app = None /\ app' \in Apps
        /\ search' = search /\ resolved' = resolved
    BY <1>3 DEF ScanApk
  <2>2. search = None /\ DOMAIN resolved = {} BY <2>1 DEF SearchPlace, ResolvedPlace
  <2>3. CallsIInv' BY <2>1, CallsStay DEF CallsIInv, ReachedPlace
  <2> QED BY <2>1, <2>2, <2>3 DEF AppPlace, SearchPlace, ResolvedPlace
<1>4. ASSUME UNCHANGED <<indexVars, callVars, app>>, SearchPlace', ResolvedPlace' PROVE ScanIInv'
  <2>1. CallsIInv' BY <1>4, CallsStay DEF CallsIInv, ReachedPlace
  <2>2. AppPlace' BY <1>4 DEF AppPlace
  <2> QED BY <1>4, <2>1, <2>2
<1>5. search # None => Complete /\ app # None BY DEF SearchPlace, CallsIInv, ReachedPlace, Followed
<1>6. CASE Ask
  <2>1. UNCHANGED <<indexVars, callVars, app>> /\ resolved' = resolved BY <1>6 DEF Ask
  <2>2. SearchPlace' BY <1>6, AskKeeps DEF CallsIInv
  <2>3. ResolvedPlace' BY <2>1, AnswersStay DEF indexVars
  <2> QED BY <1>4, <2>1, <2>2, <2>3
<1>7. CASE LookAbove
  <2>1. UNCHANGED <<indexVars, callVars, app>> /\ resolved' = resolved /\ search # None
    BY <1>7 DEF LookAbove, Searching
  <2>2. SearchPlace' BY <1>5, <1>7, <2>1, LookAboveKeeps DEF CallsIInv
  <2>3. ResolvedPlace' BY <2>1, AnswersStay DEF indexVars
  <2> QED BY <1>4, <2>1, <2>2, <2>3
<1>8. CASE LookBeside
  <2>1. UNCHANGED <<indexVars, callVars, app>> /\ resolved' = resolved BY <1>8 DEF LookBeside
  <2>2. SearchPlace' BY <1>8, LookBesideKeeps
  <2>3. ResolvedPlace' BY <2>1, AnswersStay DEF indexVars
  <2> QED BY <1>4, <2>1, <2>2, <2>3
<1>9. CASE Hit
  <2>1. UNCHANGED <<indexVars, callVars, app>> /\ Answer(At) /\ search # None BY <1>9 DEF Hit, Searching
  <2>2. RightAnswer(search.owner, search.key, search.kind, At) BY <1>9, HitIsRight
  <2>3. SearchPlace' /\ ResolvedPlace' BY <1>5, <2>1, <2>2, AnswerKeeps DEF indexVars
  <2> QED BY <1>4, <2>1, <2>3
<1>10. CASE Miss
  <2>1. UNCHANGED <<indexVars, callVars, app>> /\ Answer(None) /\ search # None BY <1>10 DEF Miss
  <2>2. RightAnswer(search.owner, search.key, search.kind, None) BY <1>5, <1>10, <2>1, MissIsRight DEF CallsIInv
  <2>3. SearchPlace' /\ ResolvedPlace' BY <1>5, <2>1, <2>2, AnswerKeeps DEF indexVars
  <2> QED BY <1>4, <2>1, <2>3
<1>11. CASE UNCHANGED scanVars
  <2>1. UNCHANGED <<indexVars, callVars, app>> /\ search' = search /\ resolved' = resolved
    BY <1>11 DEF scanVars, appVars
  <2>2. SearchPlace' BY <2>1, SearchStays DEF indexVars
  <2>3. ResolvedPlace' BY <2>1, AnswersStay DEF indexVars
  <2> QED BY <1>4, <2>1, <2>2, <2>3
<1> QED BY <1>1, <1>2, <1>3, <1>6, <1>7, <1>8, <1>9, <1>10, <1>11 DEF ScanNext

\* The index is of the first definitions, what a method reaches is native, and every search
\* ends with a class above the owner that has the member, or there is none.
THEOREM ScanInvariant == ScanSpec => []ScanIInv
BY ScanStart, ScanStep, PTL DEF ScanSpec

\* What the scan asks of the runtime, the device answers alike.
LEMMA DeviceAnswers ==
  ASSUME ScanIInv, Scanned, NEW owner, NEW key, NEW kind \in Kinds, <<owner, key, kind>> \in Asked(app)
  PROVE  Resolve(owner, key, kind) = None <=> ~DeviceHas(owner, key, kind)
<1> DEFINE q == <<owner, key, kind>>
<1>1. Complete /\ IndexPlace BY DEF ScanIInv, CallsIInv, ReachedPlace, Followed, Scanned
<1>2. q \in DOMAIN resolved BY DEF Scanned
<1>3. RightAnswer(owner, key, kind, Resolve(owner, key, kind))
  BY <1>2 DEF ScanIInv, ResolvedPlace, Resolve
<1>4. Sought(owner, key, kind) = IF kind = "methods" /\ key = Init_ THEN {owner} ELSE Above(owner)
  BY DEF Sought, Inherited
<1>5. \A p : Declaring(p, key, kind) <=> Declares(p, key, kind)
  BY <1>1, IndexIsDevice DEF Declaring, Declares, Kinds
<1>6. DeviceHas(owner, key, kind) <=> \E p \in Sought(owner, key, kind) : Declaring(p, key, kind)
  BY <1>4, <1>5 DEF DeviceHas
<1> QED BY <1>3, <1>6 DEF RightAnswer

\* A class that no artifact defines has nothing above it.
LEMMA UndefinedHasNothing ==
  ASSUME NEW o, Definers(o) = {}, NEW key, NEW kind
  PROVE  ~DeviceHas(o, key, kind)
<1>1. Closed({o}) BY DEF Closed
<1>2. Above(o) \subseteq {o} BY <1>1 DEF Above
<1>3. ~Declares(o, key, kind) BY DEF Declares
<1> QED BY <1>2, <1>3 DEF DeviceHas

\* A method or a field that the app refers to is a finding exactly if the device does not
\* resolve it; a member called back is one only then; and what a method is said to reach is
\* native and of the framework, and holds what it calls there.
THEOREM ScanUnresolvedIsFound == ScanSpec => []UnresolvedIsFound
<1>1. ScanIInv => UnresolvedIsFound
  <2> SUFFICES ASSUME ScanIInv, Scanned PROVE UnresolvedIsFound BY DEF UnresolvedIsFound
  <2>1. Complete /\ IndexPlace /\ app \in Apps /\ Followed
    BY DEF ScanIInv, CallsIInv, ReachedPlace, Followed, Scanned, AppPlace
  <2>2. \A o : HasClass(o) <=> Definers(o) # {} BY <2>1, IndexIsDevice DEF HasClass
  <2>3. ASSUME NEW kind \in Kinds, NEW r \in app[kind], r[1] \notin app.defined
        PROVE  ~DeviceHas(r[1], r[2], kind) <=> \E f \in JavaFindings(app) :
                 f.owner = r[1] /\ (f.kind = "missing_class" \/ (f.kind = MissingKind[kind] /\ f.name = r[2]))
    <3>1. CASE HasClass(r[1])
      <4>1. r \in Looked(app[kind], app) BY <2>3, <3>1 DEF Looked
      <4>2. <<r[1], r[2], kind>> \in Asked(app) BY <4>1 DEF Asked, AskedOf, Kinds
      <4>3. ~DeviceHas(r[1], r[2], kind) <=> Resolve(r[1], r[2], kind) = None BY <4>2, DeviceAnswers
      <4>4. ASSUME Resolve(r[1], r[2], kind) = None
            PROVE  Finding(MissingKind[kind], Absent(r[1]), r[1], r[2]) \in JavaFindings(app)
        <5>1. r \in Dangling(kind, app) BY <4>1, <4>4 DEF Dangling
        <5>2. Finding(MissingKind[kind], Absent(r[1]), r[1], r[2]) \in MissingMembers(kind, app)
          BY <5>1 DEF MissingMembers
        <5> QED BY <5>2 DEF JavaFindings, Kinds
      <4>5. ASSUME NEW f \in JavaFindings(app), f.owner = r[1], f.kind = MissingKind[kind], f.name = r[2]
            PROVE  Resolve(r[1], r[2], kind) = None
        <5>1. f.kind \in {"missing_method", "missing_field"} BY <4>5 DEF MissingKind, Kinds
        <5>2. PICK k \in Kinds : f \in MissingMembers(k, app)
          BY <5>1 DEF JavaFindings, Finding, Kinds
        <5>3. PICK d \in Dangling(k, app) : f = Finding(MissingKind[k], Absent(d[1]), d[1], d[2])
          BY <5>2 DEF MissingMembers
        <5>4. d[1] = r[1] /\ d[2] = r[2] /\ MissingKind[k] = MissingKind[kind] BY <4>5, <5>3 DEF Finding
        <5>5. k = kind BY <5>4 DEF MissingKind, Kinds
        <5> QED BY <5>4, <5>5 DEF Dangling
      <4>6. ASSUME NEW f \in JavaFindings(app), f.owner = r[1] PROVE f.kind # "missing_class"
        <5>1. CASE f.kind # "missing_class" BY <5>1
        <5>2. CASE f \in {Finding("missing_class", "C1/C4", o, None) : o \in MissingClasses(app)}
          BY <3>1, <4>6, <5>2 DEF Finding, MissingClasses
        <5>3. \A k \in Kinds : f \in MissingMembers(k, app) => f.kind # "missing_class"
          BY DEF MissingMembers, Finding, MissingKind, Kinds
        <5>4. f.kind = "missing_class" => f \in {Finding("missing_class", "C1/C4", o, None) : o \in MissingClasses(app)}
          BY <4>6, <5>3 DEF JavaFindings, Finding, Kinds
        <5> QED BY <5>1, <5>2, <5>4
      <4>7. Finding(MissingKind[kind], Absent(r[1]), r[1], r[2]).owner = r[1]
            /\ Finding(MissingKind[kind], Absent(r[1]), r[1], r[2]).kind = MissingKind[kind]
            /\ Finding(MissingKind[kind], Absent(r[1]), r[1], r[2]).name = r[2]
        BY DEF Finding
      <4> QED BY <4>3, <4>4, <4>5, <4>6, <4>7
    <3>2. CASE ~HasClass(r[1])
      <4>1. ~DeviceHas(r[1], r[2], kind) BY <2>2, <3>2, UndefinedHasNothing
      <4>2. r[1] \in app.types BY <2>1, <2>3, ScanAssumption DEF Kinds, Scanned
      <4>3. r[1] \in MissingClasses(app) BY <2>3, <3>2, <4>2 DEF MissingClasses
      <4>4. Finding("missing_class", "C1/C4", r[1], None) \in JavaFindings(app) BY <4>3 DEF JavaFindings
      <4> QED BY <4>1, <4>4 DEF Finding
    <3> QED BY <3>1, <3>2
  <2>4. ASSUME NEW kind \in Kinds, NEW f \in Findings(app), f.kind = UpcallKind[kind]
        PROVE  ~DeviceHas(f.owner, f.name, kind)
    <3>1. f.kind \in {"native_upcall_method", "native_upcall_field"} BY <2>4 DEF UpcallKind, Kinds
    <3>2. \A k \in Kinds : f \notin MissingMembers(k, app)
      BY <3>1 DEF MissingMembers, Finding, MissingKind, Kinds
    <3>3. PICK l \in Libs(app) : f \in UpcallFindings(l)
      BY <3>1, <3>2 DEF Findings, JavaFindings, NativeFindings, Finding, Kinds
    <3>4. PICK t \in Kinds : f \in UpcallMembersFound(l, t)
      BY <3>1, <3>3 DEF UpcallFindings, Finding, Kinds
    <3>5. PICK o \in UpcallClasses(l) : \E k \in UpcallMembers(l, o, t) :
            UpcallMemberState(o, k, t) = "missing" /\ f = Finding(UpcallKind[t], "C1/C4", o, k)
      BY <3>1, <3>4 DEF UpcallMembersFound, Finding
    <3>6. PICK k \in UpcallMembers(l, o, t) :
            UpcallMemberState(o, k, t) = "missing" /\ f = Finding(UpcallKind[t], "C1/C4", o, k)
      BY <3>5
    <3>7. t = kind BY <2>4, <3>6 DEF Finding, UpcallKind, Kinds
    <3>8. HasClass(o) /\ Resolve(o, k, kind) = None
      BY <3>6, <3>7 DEF UpcallMemberState, UpcallClassState
    <3>9. <<o, k, kind>> \in UpcallsOf(l, kind) BY <3>6, <3>7, <3>8 DEF UpcallsOf
    <3>10. <<o, k, kind>> \in Asked(app) BY <3>3, <3>9 DEF Asked, AskedOf, Kinds
    <3>11. f.owner = o /\ f.name = k BY <3>6 DEF Finding
    <3> QED BY <3>8, <3>10, <3>11, DeviceAnswers
  <2>5. \A c : IsNative(c) <=> NativeOnDevice(c) BY <2>1, <2>2, IndexIsDevice DEF IsNative, NativeOnDevice, HasClass
  <2>6. \A c : Callees(c) = IF c[1] \in Framework THEN InFramework(DeviceCalls(c)) ELSE {}
    <3> SUFFICES ASSUME NEW c PROVE Callees(c) = IF c[1] \in Framework THEN InFramework(DeviceCalls(c)) ELSE {}
      OBVIOUS
    <3>1. CASE c[1] \in DOMAIN index /\ c[2] \in index[c[1]].methods
      <4>1. index[c[1]].calls[c[2]] = DeviceCalls(c) BY <2>1, <3>1, IndexIsDevice DEF DeviceCalls
      <4> QED BY <3>1, <4>1 DEF Callees, InFramework
    <3>2. CASE ~(c[1] \in DOMAIN index /\ c[2] \in index[c[1]].methods)
      <4>1. ~\E m \in OnDevice(c[1]).methods : Definers(c[1]) # {} /\ m.key = c[2]
        BY <2>1, <3>2, IndexIsDevice
      <4>2. DeviceCalls(c) = {} BY <4>1 DEF DeviceCalls
      <4> QED BY <3>2, <4>2 DEF Callees, InFramework
    <3> QED BY <3>1, <3>2
  <2>7. ASSUME NEW m \in IndexedMethods
        PROVE  LET wrappers == {m} \cup {c \in InFramework(DeviceCalls(m)) : ~NativeOnDevice(c)}
               IN  /\ \A c \in reached[m] : c[1] \in Framework /\ NativeOnDevice(c)
                   /\ m[1] \in Framework =>
                        \A c \in InFramework(UNION {DeviceCalls(w) : w \in wrappers}) \ {m} :
                          NativeOnDevice(c) => c \in reached[m]
    <3>1. Reaches(m, reached[m]) BY <2>1 DEF Followed, ScanIInv, CallsIInv, ReachedPlace
    <3>2. \A c \in reached[m] : c[1] \in Framework /\ NativeOnDevice(c) BY <2>5, <3>1 DEF Reaches
    <3> DEFINE wrappers == {m} \cup {c \in InFramework(DeviceCalls(m)) : ~NativeOnDevice(c)}
    <3>3. ASSUME m[1] \in Framework, NEW w \in wrappers, NEW c \in DeviceCalls(w), c[1] \in Framework, c # m,
                 NativeOnDevice(c)
          PROVE  c \in reached[m]
      <4>1. wrappers = Wrappers(m) BY <2>5, <2>6, <3>3 DEF Wrappers
      <4>2. w[1] \in Framework BY <3>3 DEF InFramework
      <4>3. c \in Callees(w) \ {m} /\ IsNative(c) BY <2>5, <2>6, <3>3, <4>2 DEF InFramework
      <4> QED BY <3>1, <4>1, <4>3 DEF Reaches
    <3> HIDE DEF wrappers
    <3>4. m[1] \in Framework =>
            \A c \in InFramework(UNION {DeviceCalls(w) : w \in wrappers}) \ {m} :
              NativeOnDevice(c) => c \in reached[m]
      BY <3>3 DEF InFramework
    <3> QED BY <3>2, <3>4 DEF wrappers
  <2> QED BY <2>3, <2>4, <2>7 DEF UnresolvedIsFound
<1> QED BY <1>1, ScanInvariant, PTL

-----------------------------------------------------------------------------
(* Scan: the libraries *)

\* Once an app is scanned, it is one of the apps.
LEMMA ScanAppPlace == ScanSpec => []AppPlace
<1>1. ScanIInv => AppPlace BY DEF ScanIInv
<1> QED BY <1>1, ScanInvariant, PTL

\* A library that was unpacked at run time is, but for its origin, as it was harvested.
LEMMA PackagedIs ==
  ASSUME NEW a \in Apps, NEW l \in Packaged(a)
  PROVE  \E k \in a.libs \cup Range(a.harvested) :
           \A field \in DOMAIN k \ {"origin"} : field \in DOMAIN l /\ l[field] = k[field]
<1>1. a.elf /\ l \in WithUnpacked(a.libs, a.harvested) BY DEF Packaged
<1>2. l \in a.libs \/ \E i \in DOMAIN a.harvested : l = [a.harvested[i] EXCEPT !.origin = "unpacked"]
  BY <1>1 DEF WithUnpacked
<1>3. CASE l \in a.libs BY <1>3
<1>4. ASSUME NEW i \in DOMAIN a.harvested, l = [a.harvested[i] EXCEPT !.origin = "unpacked"]
      PROVE  \E k \in a.libs \cup Range(a.harvested) :
               \A field \in DOMAIN k \ {"origin"} : field \in DOMAIN l /\ l[field] = k[field]
  <2>1. a.harvested[i] \in Range(a.harvested) BY DEF Range
  <2>2. \A field \in DOMAIN a.harvested[i] \ {"origin"} :
          field \in DOMAIN l /\ l[field] = a.harvested[i][field]
    BY <1>4
  <2> QED BY <2>1, <2>2
<1> QED BY <1>2, <1>3, <1>4

LEMMA RegistersOnLoad ==
  ASSUME NEW a \in Apps, NEW l \in Packaged(a), l.registers # {}
  PROVE  OnLoad(l)
<1>1. PICK k \in a.libs \cup Range(a.harvested) :
        \A field \in DOMAIN k \ {"origin"} : field \in DOMAIN l /\ l[field] = k[field]
  BY PackagedIs
<1>2. {"exports", "registers"} \subseteq DOMAIN k /\ (k.registers # {} => "JNI_OnLoad" \in k.exports)
  BY ScanAssumption
<1>3. l["exports"] = k["exports"] /\ l["registers"] = k["registers"] BY <1>1, <1>2
<1> QED BY <1>2, <1>3 DEF OnLoad

LEMMA LibsArePackaged ==
  ASSUME NEW a
  PROVE  Libs(a) \subseteq Packaged(a)
BY DEF Libs, Selected

\* A native method that a library of the target ABI exports, or registers when it is loaded,
\* is never reported absent.
THEOREM ScanBoundIsNotAbsent == ScanSpec => []BoundIsNotAbsent
<1>1. AppPlace => BoundIsNotAbsent
  <2> SUFFICES ASSUME app \in Apps, NEW n \in app.natives, NEW l \in Libs(app),
                      n.symbols \cap l.exports # {} \/ n.name \in l.registers
               PROVE  NativeState(n, app) # "no-export-or-registration-evidence"
    BY DEF AppPlace, BoundIsNotAbsent, Scanned
  <2>1. CASE n.symbols \cap l.exports # {}
    <3>1. n.symbols \cap ExportsOf(Libs(app)) # {} BY <2>1 DEF ExportsOf
    <3> QED BY <3>1 DEF NativeState
  <2>2. CASE n.name \in l.registers
    <3>1. OnLoad(l) BY <2>2, LibsArePackaged, RegistersOnLoad
    <3> QED BY <3>1 DEF NativeState, AbiStatus
  <2> QED BY <2>1, <2>2
<1> QED BY <1>1, ScanAppPlace, PTL

\* One record of an import for each symbol; it is a gap where nothing defines the symbol and
\* some library needs it.
Gaps(libs, bridge, system) ==
  {i.symbol : i \in {j \in Imports(libs, bridge, system) : j.class \notin {"C0", "N-C5-candidate"}}}

LEMMA ImportsGaps ==
  ASSUME NEW libs, NEW bridge, NEW system
  PROVE  \A s : s \in Gaps(libs, bridge, system) <=>
           /\ s \in UNION {l.undefined : l \in libs}
           /\ s \notin ExportsOf(libs) \cup ExportsOf(bridge) \cup ExportsOf(system)
           /\ StrongImporters(s, libs) # {}
<1> DEFINE provided == ExportsOf(libs) \cup ExportsOf(bridge) \cup ExportsOf(system)
           State(s) == ImportState(s, libs, provided, system # {})
           record(s) == [symbol |-> s, state |-> State(s), class |-> ClassOf[State(s)],
                         scope |-> ProviderScope(s, ExportsOf(libs), ExportsOf(bridge), ExportsOf(system)),
                         importers |-> ImportersOf(s, libs),
                         surface |-> IF s \in DOMAIN SurfaceOf THEN SurfaceOf[s] ELSE None]
           Symbols == UNION {l.undefined : l \in libs}
<1>1. Imports(libs, bridge, system) = {record(s) : s \in Symbols} BY Zenon DEF Imports
<1>2. \A s : State(s) \in {"provider-resolved", "weak-undefined-unresolved", "cxx-runtime-internal",
                           "runtime-system-index-unavailable", "no-provider"}
  BY DEF ImportState
<1>3. \A s : ClassOf[State(s)] \notin {"C0", "N-C5-candidate"} <=>
               State(s) \notin {"provider-resolved", "weak-undefined-unresolved"}
  <2> HIDE DEF State
  <2> QED BY <1>2 DEF ClassOf
<1>4. \A s : State(s) \notin {"provider-resolved", "weak-undefined-unresolved"} <=>
               s \notin provided /\ StrongImporters(s, libs) # {}
  BY DEF ImportState
<1>5. \A s : record(s).symbol = s /\ record(s).class = ClassOf[State(s)] OBVIOUS
<1> HIDE DEF record, State, provided, Symbols
<1>6. {i.symbol : i \in {j \in {record(s) : s \in Symbols} : j.class \notin {"C0", "N-C5-candidate"}}}
        = {s \in Symbols : s \notin provided /\ StrongImporters(s, libs) # {}}
  BY <1>3, <1>4, <1>5
<1>7. Gaps(libs, bridge, system) = {s \in Symbols : s \notin provided /\ StrongImporters(s, libs) # {}}
  BY <1>1, <1>6 DEF Gaps
<1> QED BY <1>7 DEF provided, Symbols

\* And what the resolver misses that nothing on the board exports is what some library needs.
LEMMA MissingGaps ==
  ASSUME NEW board, NEW packaged, NEW target
  PROVE  LET libs == OfTarget(packaged, target)
         IN  /\ \A s : s \in Missing(packaged, board, target) \ ExportsOf(board) <=>
                  /\ s \in UNION {l.undefined : l \in libs}
                  /\ s \notin ExportsOf(libs) \cup ExportsOf(board)
                  /\ StrongImporters(s, libs) # {}
             /\ \A s \in Missing(packaged, board, target) \cap ExportsOf(Live(board)) :
                  \E l \in libs : s \in DOMAIN l.versions
<1> DEFINE libs == OfTarget(packaged, target)
           missing == Missing(packaged, board, target)
           other(s) == AtOtherVersion(s, libs, Live(board))
<1>1. missing = {s \in StrongUndefined(libs) \ ExportsOf(libs) : s \in ExportsOf(Live(board)) => other(s)}
  BY DEF Missing
<1>2. \A s : other(s) => \E l \in libs : s \in DOMAIN l.versions BY DEF AtOtherVersion, Wanted
<1>3. \A s : s \in StrongUndefined(libs) <=>
               s \in UNION {l.undefined : l \in libs} /\ StrongImporters(s, libs) # {}
  BY DEF StrongUndefined, StrongImporters, ImportersOf
<1>4. ExportsOf(Live(board)) \subseteq ExportsOf(board) BY DEF ExportsOf, Live
<1> HIDE DEF libs, missing, other
<1>5. \A s : s \in missing \ ExportsOf(board) <=>
               s \in StrongUndefined(libs) /\ s \notin ExportsOf(libs) \cup ExportsOf(board)
  BY <1>1, <1>4
<1>6. \A s \in missing \cap ExportsOf(Live(board)) : \E l \in libs : s \in DOMAIN l.versions
  BY <1>1, <1>2
<1> QED BY <1>3, <1>5, <1>6 DEF missing, libs

\* The scan and the resolver for the board agree on what nothing on the board exports; what
\* the board does export is missing only for its version or for being in a backup copy.
THEOREM ScanResolversAgree == ScanSpec => []ResolversAgree
<1>1. ASSUME NEW a, \A l \in Packaged(a) : Matches(l)
      PROVE  LET board == BridgeLibs(a) \cup SystemLibs(a)
                 missing == Missing(Packaged(a), board, Target(a))
             IN  /\ Gaps(Libs(a), BridgeLibs(a), SystemLibs(a)) = missing \ ExportsOf(board)
                 /\ \A s \in missing \cap ExportsOf(Live(board)) :
                      \E l \in Libs(a) : s \in DOMAIN l.versions
  <2> DEFINE libs == Libs(a)  bridge == BridgeLibs(a)  system == SystemLibs(a)
             board == bridge \cup system
             missing == Missing(Packaged(a), board, Target(a))
  <2>1. libs = OfTarget(Packaged(a), Target(a)) BY <1>1 DEF Libs, Selected, OfTarget
  <2>2. ExportsOf(board) = ExportsOf(bridge) \cup ExportsOf(system) BY DEF ExportsOf
  <2> HIDE DEF libs, bridge, system
  <2>3. \A s : s \in missing \ ExportsOf(board) <=> s \in Gaps(libs, bridge, system)
    <3>1. \A s : s \in missing \ ExportsOf(board) <=>
                   /\ s \in UNION {l.undefined : l \in libs}
                   /\ s \notin ExportsOf(libs) \cup ExportsOf(board)
                   /\ StrongImporters(s, libs) # {}
      BY <2>1, MissingGaps
    <3>2. \A s : s \in Gaps(libs, bridge, system) <=>
                   /\ s \in UNION {l.undefined : l \in libs}
                   /\ s \notin ExportsOf(libs) \cup ExportsOf(bridge) \cup ExportsOf(system)
                   /\ StrongImporters(s, libs) # {}
      BY ImportsGaps
    <3> HIDE DEF missing, board
    <3> QED BY <2>2, <3>1, <3>2
  <2>4. \A s \in missing \cap ExportsOf(Live(board)) : \E l \in libs : s \in DOMAIN l.versions
    BY <2>1, MissingGaps
  <2>5. Gaps(libs, bridge, system) = missing \ ExportsOf(board) BY <2>3
  <2> QED BY <2>4, <2>5 DEF libs, bridge, system
<1>2. ResolversAgree BY <1>1 DEF ResolversAgree, Gaps
<1> QED BY <1>2, PTL

-----------------------------------------------------------------------------
(* Trace *)

ScansPlace ==
  /\ scans \in Seq(Range(scans))
  /\ \A i \in DOMAIN scans :
       /\ scans[i].natives \in Seq(Range(scans[i].natives)) /\ scans[i].probes \in Seq(Range(scans[i].probes))
       /\ \A n \in Range(scans[i].natives) : {"symbols", "contract"} \subseteq DOMAIN n /\ "requested" \notin DOMAIN n
       /\ \A q \in Range(scans[i].probes) : {"requested", "caller"} \subseteq DOMAIN q /\ "symbols" \notin DOMAIN q

\* An event is of a call of one of the apps, and names nothing else than it.
OfACall(e) ==
  \E i \in DOMAIN scans : \E call \in Range(scans[i].natives) \cup Range(scans[i].probes) :
    e.from = InApp(scans[i], call) /\ Tells(e, scans[i], call)

EventPlace == events \in Seq(Range(events)) /\ \A e \in Range(events) : OfACall(e)

TraceIInv == ScansPlace /\ EventPlace

LEMMA TraceStart == TraceInit => TraceIInv
<1> SUFFICES ASSUME TraceInit PROVE TraceIInv OBVIOUS
<1>1. scans \in Portfolios /\ events = <<>> BY DEF TraceInit
<1>2. \A i \in DOMAIN scans : scans[i] \in Range(scans) BY DEF Range
<1>3. ScansPlace BY <1>1, <1>2, TraceAssumption DEF ScansPlace
<1>4. Range(events) = {} BY <1>1 DEF Range
<1>5. EventPlace BY <1>1, <1>4 DEF EventPlace
<1> QED BY <1>3, <1>5 DEF TraceIInv

\* What was recorded with an event is what it is of.
LEMMA FromTells ==
  ASSUME NEW e, NEW scan, NEW call, Tells(e, scan, call)
  PROVE  LET f == From(e, scan, call) IN f.from = InApp(scan, call) /\ Tells(f, scan, call)
<1> DEFINE f == From(e, scan, call)
<1>1. DOMAIN NoEvent = {"type", "symbol", "contract", "terminal", "requested", "caller", "lock", "apk", "package"}
  BY DEF NoEvent
<1>2. f["from"] = InApp(scan, call) /\ \A field \in DOMAIN NoEvent : f[field] = e[field]
  <2>1. "from" \notin DOMAIN NoEvent BY <1>1
  <2> QED BY <2>1 DEF From
<1> HIDE DEF f
<1>3. /\ f.type = e.type /\ f.symbol = e.symbol /\ f.contract = e.contract
      /\ f.requested = e.requested /\ f.caller = e.caller /\ f.lock = e.lock
      /\ f.apk = e.apk /\ f.package = e.package
  BY <1>1, <1>2
<1>4. Kind(f) = Kind(e) BY <1>3 DEF Kind
<1>5. Tells(f, scan, call) BY <1>3, <1>4 DEF Tells
<1> QED BY <1>2, <1>5 DEF f

LEMMA TraceStep == TraceIInv /\ [TraceNext]_traceVars => TraceIInv'
<1> SUFFICES ASSUME TraceIInv, [TraceNext]_traceVars PROVE TraceIInv' OBVIOUS
<1>1. CASE TraceNext
  <2>0. PICK i \in DOMAIN scans : \E line \in Lines :
               \E call \in Range(scans[i].natives) \cup Range(scans[i].probes) : Traced(scans[i], call, line)
    BY <1>1 DEF TraceNext
  <2>1. PICK line \in Lines, call \in Range(scans[i].natives) \cup Range(scans[i].probes) :
          Traced(scans[i], call, line)
    BY <2>0
  <2> DEFINE new == From(Parsed(line), scans[i], call)  S == Range(events) \cup {new}
  <2>2. UNCHANGED scans /\ events' = Append(events, new) /\ Tells(Parsed(line), scans[i], call)
    BY <1>1, <2>1 DEF TraceNext, Traced
  <2>3. OfACall(new) BY <2>2, FromTells DEF OfACall
  <2> HIDE DEF new
  <2>4. events \in Seq(S) /\ new \in S BY DEF TraceIInv, EventPlace
  <2>5. /\ events' \in Seq(S) /\ DOMAIN events' = 1 .. Len(events) + 1 /\ Len(events) \in Nat
        /\ DOMAIN events = 1 .. Len(events)
        /\ \A j \in 1 .. Len(events) : events'[j] = events[j]
        /\ events'[Len(events) + 1] = new
    <3> HIDE DEF S
    <3> QED BY <2>2, <2>4
  <2>6. Range(events') = S
    <3>1. \A j \in DOMAIN events' : events'[j] \in S BY <2>5 DEF Range
    <3>2. \A j \in DOMAIN events : j \in DOMAIN events' /\ events'[j] = events[j] BY <2>5
    <3>3. Len(events) + 1 \in DOMAIN events' BY <2>5
    <3> QED BY <2>5, <3>1, <3>2, <3>3 DEF Range
  <2>7. \A e \in S : OfACall(e) BY <2>3 DEF TraceIInv, EventPlace
  <2>8. \A e : OfACall(e) => OfACall(e)' BY <2>2 DEF OfACall, Tells, InApp, Names, Kind
  <2>9. EventPlace' BY <2>5, <2>6, <2>7, <2>8 DEF EventPlace
  <2>10. ScansPlace' BY <2>2 DEF TraceIInv, ScansPlace
  <2> QED BY <2>9, <2>10 DEF TraceIInv
<1>2. CASE UNCHANGED traceVars
  <2>1. UNCHANGED scans /\ UNCHANGED events BY <1>2 DEF traceVars
  <2>2. \A e : OfACall(e) => OfACall(e)' BY <2>1 DEF OfACall, Tells, InApp, Names, Kind
  <2>3. EventPlace' BY <2>1, <2>2 DEF TraceIInv, EventPlace
  <2>4. ScansPlace' BY <2>1 DEF TraceIInv, ScansPlace
  <2> QED BY <2>3, <2>4 DEF TraceIInv
<1> QED BY <1>1, <1>2

\* Every event is of a call of an app of the portfolio, and all it names is of that call.
THEOREM ScanTraceInvariant == TraceSpec => []TraceIInv
BY TraceStart, TraceStep, PTL DEF TraceSpec

\* A watch is an item of a scan, with what the scan says of its app.
LEMMA NativePlace ==
  ASSUME ScansPlace, NEW w \in NativeWatches
  PROVE  \E i \in DOMAIN scans : \E n \in Range(scans[i].natives) : w = InApp(scans[i], n)
<1>1. PICK p \in NativePlaces : w = InApp(scans[p[1]], NativeAt(p))
  BY DEF NativeWatches, LastByKey
<1>2. PICK i \in DOMAIN scans : p \in {i} \X DOMAIN scans[i].natives BY DEF NativePlaces
<1>3. p[1] = i /\ p[2] \in DOMAIN scans[i].natives BY <1>2
<1>4. NativeAt(p) \in Range(scans[i].natives) BY <1>3 DEF NativeAt, Range
<1> QED BY <1>1, <1>3, <1>4

LEMMA ProbePlace ==
  ASSUME ScansPlace, NEW w \in ProbeWatches
  PROVE  \E i \in DOMAIN scans : \E q \in Range(scans[i].probes) : w = InApp(scans[i], q)
<1>1. PICK p \in ProbePlaces : w = InApp(scans[p[1]], ProbeAt(p))
  BY DEF ProbeWatches, LastByKey
<1>2. PICK i \in DOMAIN scans : p \in {i} \X DOMAIN scans[i].probes BY DEF ProbePlaces
<1>3. p[1] = i /\ p[2] \in DOMAIN scans[i].probes BY <1>2
<1>4. ProbeAt(p) \in Range(scans[i].probes) BY <1>3 DEF ProbeAt, Range
<1> QED BY <1>1, <1>3, <1>4

LEMMA InAppIs ==
  ASSUME NEW scan, NEW item
  PROVE  LET w == InApp(scan, item)
         IN  /\ w.apk = scan.apk /\ w.package = scan.package /\ w.lock = scan.lock
             /\ DOMAIN w = DOMAIN item \cup {"apk", "package", "lock"}
             /\ \A field \in DOMAIN item \ {"apk", "package", "lock"} : w[field] = item[field]
BY DEF InApp

LEMMA ListIsFinite ==
  ASSUME NEW S, NEW s \in Seq(S)
  PROVE  IsFiniteSet(DOMAIN s)
<1>1. DOMAIN s = 1 .. Len(s) /\ Len(s) \in Nat OBVIOUS
<1> QED BY <1>1, FS_Interval

LEMMA ApksAreFinite ==
  ASSUME ScansPlace
  PROVE  IsFiniteSet(Apks)
<1> DEFINE f == [i \in DOMAIN scans |-> scans[i].apk]
<1>1. f \in Surjection(DOMAIN scans, Apks) BY DEF Apks, Surjection
<1>2. IsFiniteSet(DOMAIN scans) BY ListIsFinite DEF ScansPlace
<1> HIDE DEF f
<1> QED BY <1>1, <1>2, FS_Surjection

LEMMA ProbesAreFinite ==
  ASSUME ScansPlace
  PROVE  IsFiniteSet(ProbeWatches)
<1> DEFINE Of(i) == {i} \X DOMAIN scans[i].probes
           Rows == {Of(i) : i \in DOMAIN scans}
           row == [i \in DOMAIN scans |-> Of(i)]
           key == [q \in ProbePlaces |-> <<scans[q[1]].apk, ProbeAt(q).requested, ProbeAt(q).caller.class,
                                           ProbeAt(q).caller.method, ProbeAt(q).dex>>]
           Kept == LastByKey(ProbePlaces, key)
           watch == [p \in Kept |-> InApp(scans[p[1]], ProbeAt(p))]
<1>1. IsFiniteSet(DOMAIN scans) BY ListIsFinite DEF ScansPlace
<1>2. \A i \in DOMAIN scans : IsFiniteSet(Of(i))
  <2> TAKE i \in DOMAIN scans
  <2>1. IsFiniteSet(DOMAIN scans[i].probes) BY ListIsFinite DEF ScansPlace
  <2> QED BY <2>1, FS_Singleton, FS_Product
<1>3. row \in Surjection(DOMAIN scans, Rows) BY DEF Surjection
<1>4. IsFiniteSet(Rows)
  <2> HIDE DEF row, Rows
  <2> QED BY <1>1, <1>3, FS_Surjection
<1>5. \A T \in Rows : IsFiniteSet(T) BY <1>2
<1>6. ProbePlaces = UNION Rows BY DEF ProbePlaces
<1>7. IsFiniteSet(ProbePlaces)
  <2> HIDE DEF Rows
  <2> QED BY <1>4, <1>5, <1>6, FS_UNION
<1>8. Kept \in SUBSET ProbePlaces BY DEF LastByKey
<1>9. ProbeWatches = {InApp(scans[p[1]], ProbeAt(p)) : p \in Kept} BY DEF ProbeWatches
<1>10. watch \in Surjection(Kept, ProbeWatches)
  <2> HIDE DEF Kept
  <2> QED BY <1>9 DEF Surjection
<1> HIDE DEF Kept, watch
<1>11. IsFiniteSet(Kept) BY <1>7, <1>8, FS_Subset
<1> QED BY <1>10, <1>11, FS_Surjection

\* What an event comes from is of an app of the portfolio, and the event fits it unless it
\* names no app where there are several.
LEMMA FromPlace ==
  ASSUME TraceIInv, NEW e \in Range(events)
  PROVE  /\ e.from.apk \in Apks
         /\ Names(e.lock, e.from.lock) /\ Names(e.apk, e.from.apk) /\ Names(e.package, e.from.package)
         /\ Kind(e) = "reflection" =>
              /\ e.requested = e.from.requested
              /\ \A part \in DOMAIN e.caller : Names(e.caller[part], e.from.caller[part])
         /\ Kind(e) # "library" /\ "requested" \notin DOMAIN e.from =>
              /\ Kind(e) = "native" /\ Names(e.contract, e.from.contract)
              /\ e.symbol \in e.from.symbols \cup {NotNamed}
         /\ e.from.lock \in Locks
<1>1. PICK i \in DOMAIN scans : \E call \in Range(scans[i].natives) \cup Range(scans[i].probes) :
        e.from = InApp(scans[i], call) /\ Tells(e, scans[i], call)
  BY DEF TraceIInv, EventPlace, OfACall
<1>2. PICK call \in Range(scans[i].natives) \cup Range(scans[i].probes) :
        e.from = InApp(scans[i], call) /\ Tells(e, scans[i], call)
  BY <1>1
<1>3. /\ e.from.apk = scans[i].apk /\ e.from.package = scans[i].package /\ e.from.lock = scans[i].lock
      /\ DOMAIN e.from = DOMAIN call \cup {"apk", "package", "lock"}
      /\ \A field \in DOMAIN call \ {"apk", "package", "lock"} : e.from[field] = call[field]
  <2> DEFINE w == InApp(scans[i], call)
  <2>1. /\ w.apk = scans[i].apk /\ w.package = scans[i].package /\ w.lock = scans[i].lock
        /\ DOMAIN w = DOMAIN call \cup {"apk", "package", "lock"}
        /\ \A field \in DOMAIN call \ {"apk", "package", "lock"} : w[field] = call[field]
    BY InAppIs
  <2>2. e.from = w BY <1>2
  <2> HIDE DEF w
  <2> QED BY <2>1, <2>2
<1>4. "requested" \in DOMAIN call => {"requested", "caller"} \subseteq DOMAIN call
  BY DEF TraceIInv, ScansPlace
<1>5. "symbols" \in DOMAIN call => {"symbols", "contract"} \subseteq DOMAIN call
  BY DEF TraceIInv, ScansPlace
<1>6. Kind(e) = "reflection" =>
        /\ e.requested = e.from.requested
        /\ \A part \in DOMAIN e.caller : Names(e.caller[part], e.from.caller[part])
  <2> SUFFICES ASSUME Kind(e) = "reflection"
               PROVE  /\ e.requested = e.from.requested
                      /\ \A part \in DOMAIN e.caller : Names(e.caller[part], e.from.caller[part])
    OBVIOUS
  <2>1. /\ "requested" \in DOMAIN call /\ e.requested = call.requested
        /\ \A part \in DOMAIN e.caller : Names(e.caller[part], call.caller[part])
    BY <1>2 DEF Tells
  <2>2. e.from.requested = call.requested /\ e.from.caller = call.caller BY <1>3, <1>4, <2>1
  <2> QED BY <2>1, <2>2
<1>7. ASSUME Kind(e) # "library", "requested" \notin DOMAIN e.from
      PROVE  /\ Kind(e) = "native" /\ Names(e.contract, e.from.contract)
             /\ e.symbol \in e.from.symbols \cup {NotNamed}
  <2>1. /\ "symbols" \in DOMAIN call /\ Kind(e) = "native" /\ Names(e.contract, call.contract)
        /\ e.symbol \in call.symbols \cup {NotNamed}
    BY <1>2, <1>3, <1>7 DEF Tells
  <2>2. e.from.symbols = call.symbols /\ e.from.contract = call.contract BY <1>3, <1>5, <2>1
  <2> QED BY <2>1, <2>2
<1>8. Names(e.lock, e.from.lock) /\ Names(e.apk, e.from.apk) /\ Names(e.package, e.from.package)
  BY <1>2, <1>3 DEF Tells
<1>9. e.from.apk \in Apks /\ e.from.lock \in Locks BY <1>3 DEF Apks, Locks
<1> QED BY <1>6, <1>7, <1>8, <1>9

LEMMA WatchPlace ==
  ASSUME ScansPlace
  PROVE  /\ \A w \in NativeWatches : w.apk \in Apks /\ "requested" \notin DOMAIN w
         /\ \A w \in ProbeWatches : w.apk \in Apks
<1>1. ASSUME NEW w \in NativeWatches PROVE w.apk \in Apks /\ "requested" \notin DOMAIN w
  <2>1. PICK i \in DOMAIN scans : \E n \in Range(scans[i].natives) : w = InApp(scans[i], n)
    BY NativePlace
  <2>2. PICK n \in Range(scans[i].natives) : w = InApp(scans[i], n) BY <2>1
  <2>3. w.apk = scans[i].apk /\ DOMAIN w = DOMAIN n \cup {"apk", "package", "lock"} BY <2>2, InAppIs
  <2>4. "requested" \notin DOMAIN n BY DEF ScansPlace
  <2> QED BY <2>3, <2>4 DEF Apks
<1>2. ASSUME NEW w \in ProbeWatches PROVE w.apk \in Apks
  <2>1. PICK i \in DOMAIN scans : \E q \in Range(scans[i].probes) : w = InApp(scans[i], q)
    BY ProbePlace
  <2>2. PICK q \in Range(scans[i].probes) : w = InApp(scans[i], q) BY <2>1
  <2>3. w.apk = scans[i].apk BY <2>2, InAppIs
  <2> QED BY <2>3 DEF Apks
<1> QED BY <1>1, <1>2

\* A class load from a watched site is one of its own sites, or has none.
LEMMA OwnSite ==
  ASSUME TraceIInv, NEW e \in Range(events), Kind(e) = "reflection", e.from \in ProbeWatches
  PROVE  Joined(e) \subseteq {e.from}
<1>1. CASE Identified(e) \/ Cardinality(Apks) = 1
  <2>1. e.from \in Sites(e) BY <1>1, FromPlace DEF Sites, Fits
  <2>2. IsFiniteSet(Sites(e))
    <3>1. Sites(e) \in SUBSET ProbeWatches BY DEF Sites
    <3>2. IsFiniteSet(ProbeWatches) BY ProbesAreFinite DEF TraceIInv
    <3> QED BY <3>1, <3>2, FS_Subset
  <2>3. Cardinality(Sites(e)) = 1 => Sites(e) = {e.from} BY <2>1, <2>2, FS_Singleton
  <2> QED BY <2>3 DEF Joined
<1>2. CASE ~ (Identified(e) \/ Cardinality(Apks) = 1)
  <2>1. Sites(e) = {} BY <1>2 DEF Sites, Fits
  <2> QED BY <2>1 DEF Joined
<1> QED BY <1>1, <1>2

\* What an event is joined to, it fits.
LEMMA JoinedFits ==
  ASSUME NEW e, NEW w \in Joined(e)
  PROVE  Fits(e, w) /\ (w \in NativeWatches \/ w \in ProbeWatches)
BY DEF Joined, Contracts, Sites

\* An event that tells its app is joined to contracts of no other.
LEMMA OwnApp ==
  ASSUME TraceIInv, NEW e \in Range(events), TellsItsApp(e), NEW w \in Joined(e)
  PROVE  w.apk = e.from.apk
<1>1. Fits(e, w) /\ w.apk \in Apks
  BY JoinedFits, WatchPlace DEF TraceIInv
<1>2. Names(e.apk, e.from.apk) /\ e.from.apk \in Apks BY FromPlace
<1>3. CASE e.apk # NotNamed BY <1>1, <1>2, <1>3 DEF Fits, Names
<1>4. CASE e.apk = NotNamed
  <2>1. Cardinality(Apks) = 1 BY <1>1, <1>4 DEF Fits, Identified, TellsItsApp
  <2>2. IsFiniteSet(Apks) BY ApksAreFinite DEF TraceIInv
  <2>3. PICK a : Apks = {a} BY <2>1, <2>2, FS_Singleton
  <2> QED BY <1>1, <1>2, <2>3
<1> QED BY <1>3, <1>4

LEMMA ObservedApp ==
  ASSUME TraceIInv, NEW w, NEW e \in Observed(w), TellsItsApp(e)
  PROVE  w.apk = e.from.apk
<1>1. e \in Range(events) BY DEF Observed
<1>2. PICK v \in Joined(e) : v = w \/ SameSite(v, w) BY DEF Observed
<1>3. v.apk = w.apk BY <1>2 DEF SameSite
<1>4. v.apk = e.from.apk BY <1>1, OwnApp
<1> QED BY <1>3, <1>4

\* The state a contract is given is one that some observation of it shows.
LEMMA StateIsShown ==
  ASSUME NEW w, NEW seen, RuntimeState(w, seen) # "not-observed"
  PROVE  \E e \in seen : Shows(e, RuntimeState(w, seen))
<1> DEFINE states == IF "requested" \in DOMAIN w THEN LoadStates ELSE NativeStates
           shown == {i \in DOMAIN states : \E e \in seen : Shows(e, states[i])}
<1>1. RuntimeState(w, seen) = states[Min(shown)] /\ shown # {} BY DEF RuntimeState
<1>2. shown \in SUBSET Nat
  <2>1. DOMAIN LoadStates \subseteq Nat /\ DOMAIN NativeStates \subseteq Nat
    BY DEF LoadStates, NativeStates
  <2> QED BY <2>1
<1>3. \E m \in shown : \A k \in shown : m <= k
  <2> DEFINE R == {p \in Nat \X Nat : p[1] < p[2]}
  <2>1. IsWellFoundedOn(R, Nat) BY NatLessThanWellFounded DEF OpToRel
  <2>2. PICK m \in shown : \A k \in shown : ~ (<<k, m>> \in R)
    <3> HIDE DEF R, shown
    <3> QED BY <1>1, <1>2, <2>1, WFMin
  <2>3. ASSUME NEW k \in shown PROVE m <= k
    <3> HIDE DEF shown
    <3>1. k \in Nat /\ m \in Nat BY <1>2
    <3>2. ~ (k < m) BY <2>2, <3>1
    <3> QED BY <3>1, <3>2
  <2> QED BY <2>3
<1>4. Min(shown) \in shown
  <2> HIDE DEF shown
  <2> QED BY <1>3 DEF Min
<1>5. \E e \in seen : Shows(e, states[Min(shown)]) BY <1>4
<1> QED BY <1>1, <1>5

\* A named native call that is joined to nothing is not said to be of no contract.
LEMMA OwnReason ==
  ASSUME TraceIInv, NEW e \in Range(events), Kind(e) # "library", Joined(e) = {},
         e.from \in NativeWatches, {e.symbol, e.contract} # {NotNamed}
  PROVE  Reason(e) # "no-static-contract-match"
<1>1. "requested" \notin DOMAIN e.from BY WatchPlace DEF TraceIInv
<1>2. /\ Kind(e) = "native" /\ Names(e.contract, e.from.contract)
      /\ e.symbol \in e.from.symbols \cup {NotNamed}
  BY <1>1, FromPlace
<1>3. e.from \in Contracts(e) BY <1>2 DEF Contracts, Names
<1>4. ~ Fits(e, e.from) BY <1>2, <1>3 DEF Joined
<1>5. ~ Identified(e) /\ Cardinality(Apks) # 1 BY <1>4, FromPlace DEF Fits
<1>6. Cardinality(Apks) > 1
  <2>1. IsFiniteSet(Apks) /\ Apks # {} BY ApksAreFinite, FromPlace DEF TraceIInv
  <2>2. Cardinality(Apks) \in Nat /\ Cardinality(Apks) # 0
    BY <2>1, FS_CardinalityType, FS_EmptySet
  <2> QED BY <1>5, <2>2
<1>7. Contracts(e) # {} BY <1>3
<1>8. e.lock \in Locks \cup {NotNamed} /\ e.apk \in Apks \cup {NotNamed}
  BY FromPlace DEF Names
<1>9. Reason(e) = "ambiguous-artifact-provenance"
  BY <1>2, <1>5, <1>6, <1>7, <1>8 DEF Reason
<1> QED BY <1>9

\* An event is joined to what it came from alone, a contract's state is one its own app was
\* seen in, and a named native call is never said to be of no contract.
THEOREM ScanJoinedToItsOwn == TraceSpec => []JoinedToItsOwn
<1>1. TraceIInv => JoinedToItsOwn
  <2> SUFFICES ASSUME TraceIInv PROVE JoinedToItsOwn OBVIOUS
  <2>1. \A e \in Range(events) :
          (Kind(e) = "reflection" /\ e.from \in ProbeWatches) => Joined(e) \subseteq {e.from}
    BY OwnSite
  <2>2. ASSUME NEW w \in Watches
        PROVE  /\ \A e \in Observed(w) : TellsItsApp(e) => w.apk = e.from.apk
               /\ (RuntimeState(w, Observed(w)) # "not-observed" /\ \A e \in Range(events) : TellsItsApp(e)) =>
                    \E e \in Range(events) : e.from.apk = w.apk /\ Shows(e, RuntimeState(w, Observed(w)))
    <3>1. \A e \in Observed(w) : TellsItsApp(e) => w.apk = e.from.apk BY ObservedApp
    <3>2. Observed(w) \subseteq Range(events) BY DEF Observed
    <3>3. RuntimeState(w, Observed(w)) # "not-observed" =>
            \E e \in Observed(w) : Shows(e, RuntimeState(w, Observed(w)))
      BY StateIsShown
    <3> QED BY <3>1, <3>2, <3>3
  <2>3. \A u \in Unmatched :
          (u[1].from \in NativeWatches /\ {u[1].symbol, u[1].contract} # {NotNamed}) =>
            u[2] # "no-static-contract-match"
    <3> TAKE u \in Unmatched
    <3>1. PICK e \in Range(events) : Kind(e) # "library" /\ Joined(e) = {} /\ u = <<e, Reason(e)>>
      BY DEF Unmatched
    <3>2. u[1] = e /\ u[2] = Reason(e) BY <3>1
    <3> QED BY <3>1, <3>2, OwnReason
  <2> QED BY <2>1, <2>2, <2>3 DEF JoinedToItsOwn
<1> QED BY <1>1, ScanTraceInvariant, PTL
=============================================================================
