------------------------------ MODULE DexWalk ------------------------------
(***************************************************************************)
(* The scanner's walk over the instructions of one method of an app        *)
(* (scanner.py, _inventory_instructions), beside what a device that runs   *)
(* them holds in its registers.  The walk follows the string and the class *)
(* constants that are in a register, to know what a call is passed; the    *)
(* method has no branches.                                                 *)
(***************************************************************************)
EXTENDS Integers, FiniteSets

CONSTANTS
  Reg,       \* registers
  Strings, Classes,
  Outlines,  \* outlined methods: static, their body returns the class constant
  Accessors, \* static accessors, by the service that they reach unnamed
  Reserved,  \* strings that are evidence by themselves: casts, JCA providers
  Window,    \* instructions that a null check may follow a request within
  Nothing

VARIABLES
  regs,    \* what each register holds: a constant, or an object with the call it came from
  result,  \* what the last call returned, until the next instruction
  walk,    \* the walk's own registers, its request under watch, an outline's class
  found    \* what it recorded: kind, said, and (not in the code) what was passed

dexVars == <<regs, result, walk, found>>

Str(s) == [is |-> "string", of |-> s]
Cls(c) == [is |-> "class", of |-> c]
Obj(n) == [is |-> "object", of |-> n]
Fact(kind, said, passed) == [kind |-> kind, said |-> said, passed |-> passed]

\* A request for a service that is under watch: its number, the register its result was
\* taken into, and how many instructions the watch lasts.
Requests == {f \in found : f.kind = "request"}
NoWatch == [request |-> 0, register |-> Nothing, left |-> 0]

DexInit ==
  /\ regs = [r \in Reg |-> Obj(0)] /\ result = Nothing /\ found = {}
  /\ walk = [strings |-> [r \in Reg |-> Nothing], classes |-> [r \in Reg |-> Nothing],
             pending |-> NoWatch, outlined |-> Nothing]

-----------------------------------------------------------------------------
(* Before each instruction: the watch, then the outline. *)

Tick(watch) == IF watch.left <= 1 THEN NoWatch ELSE [watch EXCEPT !.left = @ - 1]

\* The result is taken right after the call or discarded.
Watched(op, r) ==
  LET watch == walk.pending
  IN  IF watch = NoWatch THEN NoWatch
      ELSE IF watch.register # Nothing
        THEN IF op = "check" /\ r = watch.register THEN NoWatch ELSE Tick(watch)
        ELSE IF op = "result" THEN Tick([watch EXCEPT !.register = r]) ELSE NoWatch

\* A check of the register under watch.
Checks(op, r) ==
  IF op = "check" /\ walk.pending.register = r
    THEN {Fact("checked", walk.pending.request, regs[r])} ELSE {}

Set(file, r, value) == [file EXCEPT ![r] = value]

\* An instruction's effect on the walk, and on the device's registers.
Walk(op, r, strings, classes) ==
  walk' = [strings |-> strings, classes |-> classes, pending |-> Watched(op, r), outlined |-> Nothing]
Forgets(op, r) == Walk(op, r, Set(walk.strings, r, Nothing), Set(walk.classes, r, Nothing))
Writes(r, value) == regs' = Set(regs, r, value) /\ result' = Nothing

ConstString_Kept(r, s) == Walk("const", r, Set(walk.strings, r, s), walk.classes)
ConstString(r, s) == Walk("const", r, Set(walk.strings, r, s), Set(walk.classes, r, Nothing))

LoadString(r, s) ==
  /\ ConstString(r, s) /\ Writes(r, Str(s))
  /\ found' = found \cup (IF s \in Reserved THEN {Fact("literal", s, Str(s))} ELSE {})

LoadClass(r, c) ==
  /\ Walk("const", r, Set(walk.strings, r, Nothing), Set(walk.classes, r, c)) /\ Writes(r, Cls(c))
  /\ UNCHANGED found

MoveObject(r, q) ==
  /\ Walk("move", r, Set(walk.strings, r, walk.strings[q]), Set(walk.classes, r, walk.classes[q]))
  /\ Writes(r, regs[q]) /\ UNCHANGED found

\* The class that an outline returned is kept; any other result is an object.
MoveResult(r) ==
  IF walk.outlined # Nothing
    THEN Walk("result", r, Set(walk.strings, r, Nothing), Set(walk.classes, r, walk.outlined))
    ELSE Forgets("result", r)

TakeResult(r) == result # Nothing /\ MoveResult(r) /\ Writes(r, result) /\ UNCHANGED found

\* An instruction that writes its first register: an allocation, a field or array read.
NewValue(r) == Forgets("write", r) /\ Writes(r, Obj(0)) /\ UNCHANGED found

\* One that only names it there, such as check-cast; and a store, a branch or a return.
Touch(r) == Forgets("touch", r) /\ result' = Nothing /\ UNCHANGED <<regs, found>>
Use(r) ==
  /\ Walk("use", r, walk.strings, walk.classes) /\ result' = Nothing /\ UNCHANGED <<regs, found>>

-----------------------------------------------------------------------------
(* A call: what it asks for, by the register its argument is in. *)

\* Requests are numbered, two of one service are two facts.
Number == 1 + Cardinality(Requests)
ByName(r) == Fact("request", [number |-> Number, service |-> walk.strings[r]], regs[r])
ByClass(r) == Fact("request", [number |-> Number, manager |-> walk.classes[r]], regs[r])

\* At most one of the detectors knows a call; probes and loads are recorded only with
\* their value, the others also where it is computed.
Detected(call, r) ==
  CASE call = "getSystemService(String)" -> {ByName(r)}
    [] call = "getSystemService(Class)" -> {ByClass(r)}
    [] call \in Accessors -> {Fact("request", [number |-> Number, service |-> call], Nothing)}
    [] call \in {"forName", "loadLibrary"} ->
         IF walk.strings[r] = Nothing THEN {} ELSE {Fact(call, walk.strings[r], regs[r])}
    [] call \in {"hasSystemFeature", "getInstance"} -> {Fact(call, walk.strings[r], regs[r])}
    [] OTHER -> {}

Calls == {"getSystemService(String)", "getSystemService(Class)", "forName", "loadLibrary",
          "hasSystemFeature", "getInstance", "check", "other"} \cup Accessors

Invoke(call, r) ==
  LET new == Detected(call, r)  asks == \E f \in new : f.kind = "request"
      op == IF call = "check" THEN "check" ELSE "invoke"
  IN  /\ found' = found \cup Checks(op, r) \cup new
      /\ walk' = [walk EXCEPT !.outlined = Nothing,
           !.pending = IF asks THEN [request |-> Number, register |-> Nothing, left |-> Window]
                       ELSE Watched(op, r)]
      /\ result' = IF asks THEN Obj(Number) ELSE Obj(0)
      /\ UNCHANGED regs

InvokeOutline(c) ==
  /\ walk' = [walk EXCEPT !.outlined = c, !.pending = Watched("invoke", Nothing)]
  /\ result' = Cls(c) /\ UNCHANGED <<regs, found>>

DexNext ==
  \/ \E r \in Reg : \/ \E s \in Strings : LoadString(r, s)
                    \/ \E c \in Classes : LoadClass(r, c)
                    \/ \E q \in Reg \ {r} : MoveObject(r, q)
                    \/ TakeResult(r) \/ NewValue(r) \/ Touch(r) \/ Use(r)
                    \/ \E call \in Calls : Invoke(call, r)
  \/ \E c \in Outlines : InvokeOutline(c)

DexSpec == DexInit /\ [][DexNext]_dexVars

-----------------------------------------------------------------------------
(* Properties *)

\* What the scan says a call is passed, it is passed: a service's name or manager class,
\* a class looked up, a library loaded, a feature asked for, whatever moved the constant
\* to the argument's register, overwrote it or returned it (scanner.py:1305-1309).
SaidIsPassed ==
  \A f \in found :
    /\ f.kind \in {"forName", "loadLibrary", "hasSystemFeature", "getInstance"} =>
         f.said = Nothing \/ f.passed = Str(f.said)
    /\ f.kind = "request" /\ f.passed # Nothing =>
         IF "service" \in DOMAIN f.said
           THEN f.said.service = Nothing \/ f.passed = Str(f.said.service)
           ELSE f.said.manager = Nothing \/ f.passed = Cls(f.said.manager)
=============================================================================
