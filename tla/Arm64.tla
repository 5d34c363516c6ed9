------------------------------- MODULE Arm64 -------------------------------
(***************************************************************************)
(* What the scanner reads off a library's arm64 code (scanner.py), beside  *)
(* what a device that runs the code has in its registers there.  The code  *)
(* is a sequence of decoded instructions: op, the register d of the field  *)
(* for the destination (bits 0-4), the base n, the constant imm, whether   *)
(* the base is written back, and the registers it writes also.  The code   *)
(* runs straight into each of its calls.                                   *)
(***************************************************************************)
EXTENDS Integers, Sequences, FiniteSetsExt

CONSTANTS
  X,            \* registers
  Reach,        \* instructions looked at before a call
  TlsReach,     \* and after a read of the thread pointer
  Relocations,  \* of the library, each with its kind, slot, and the address or symbol it holds
  Plt,          \* the code of its PLT
  TlsSlots,     \* Bionic's slots, by offset
  Mutexes,      \* addresses in .data that hold Bionic's static initializers, with their types
  Instructions, \* those that the code is made of
  MaxCode,
  NoAddress

\* Instructions have the fields that are decoded of them; addresses are numbers.
ASSUME Arm64Assumption ==
  /\ Reach \in Nat /\ TlsReach \in Nat /\ NoAddress \notin Int /\ {0, 3} \subseteq X
  /\ \A c \in Instructions :
       /\ c.d \in X /\ c.also \subseteq X /\ c.writeback \in BOOLEAN
       /\ c.op \in {"add", "mov", "ldr"} => c.n \in X
       /\ c.op \in {"adrp", "add", "ldr"} => c.imm \in Int
  /\ \A r \in Relocations : r.slot \in Int /\ (r.kind \in {"relative", "globdat"} => r.to \in Int)

VARIABLES
  code,    \* the instructions that the scanner has come to
  held,    \* what a device that runs them holds in its registers before each, and after all
  back,    \* the search back from the lock that the scanner has come to, if it is in one
  passed   \* the addresses that it found the locks to be passed

codeVars == <<code, held, back, passed>>

\* Symbolic values: a base and an offset from it.  Base 0 is absolute; what a register
\* holds at first, what the instruction at i makes, and the thread pointer are others.
Abs(a) == [base |-> 0, off |-> a]
Made(i) == [base |-> i, off |-> 0]
Initially(r) == [base |-> -1 - r, off |-> 0]
ThreadPointer == [base |-> -100, off |-> 0]
Plus(v, imm) == [base |-> v.base, off |-> v.off + imm]

-----------------------------------------------------------------------------
(* _plt_stubs(): the GOT slots whose content is known, and the PLT entries of *)
(* some imports.                                                              *)

Got == [s \in {r.slot : r \in {q \in Relocations : q.kind \in {"relative", "globdat"}}} |->
          (CHOOSE r \in Relocations : r.slot = s /\ r.kind \in {"relative", "globdat"}).to]
JumpSlots(names) == {r.slot : r \in {q \in Relocations : q.kind = "jumpslot" /\ q.to \in names}}

\* An entry is adrp x16 and ldr x17 of the slot, and the bti before it, if any.
PltStubs(names) ==
  LET entries == {i \in 1 .. Len(Plt) - 1 :
        /\ Plt[i].op = "adrp" /\ Plt[i].d = 16
        /\ Plt[i + 1].op = "ldr" /\ Plt[i + 1].d = 17 /\ Plt[i + 1].n = 16
        /\ Plt[i].imm + Plt[i + 1].imm \in JumpSlots(names)}
  IN  entries \cup {i - 1 : i \in {j \in entries : j > 1 /\ Plt[j - 1].op = "bti"}}

IsCallOf(c, names) == c.op = "call" /\ c.imm \in PltStubs(names)
MutexLocks == {"pthread_mutex_lock", "pthread_mutex_trylock", "pthread_mutex_timedlock"}

-----------------------------------------------------------------------------
(* The device.  The field 31 is sp where something is added to it, and the    *)
(* zero register as the source of a mov and as any other destination.         *)

Sp == 31
Loaded(v, i) == IF v.base = 0 /\ v.off \in DOMAIN Got THEN Abs(Got[v.off]) ELSE Made(i)
DefinedBy(i, c, regs) ==
  CASE c.op = "adrp" -> Abs(c.imm)
    [] c.op = "add"  -> Plus(regs[c.n], c.imm)
    [] c.op = "mov"  -> IF c.n = Sp THEN Abs(0) ELSE regs[c.n]
    [] c.op = "mrs"  -> ThreadPointer
    [] c.op = "ldr"  -> Loaded(Plus(regs[c.n], c.imm), i)
    [] OTHER -> Made(i)

\* Besides its destination an instruction may write others (the second register of a pair
\* load, the result of a compare and swap) and its base, before or after it is used.  A call
\* may write them all; stores and branches have a register that they read in the field.
NoDestination == {"str", "stp", "cas", "cbz"}
Defines(c, r) == c.d = r /\ IF r = Sp THEN c.op = "add" ELSE c.op \notin NoDestination
Ran(i, c, regs) ==
  [r \in X |->
     IF c.op = "call" THEN Made(i)
     ELSE IF Defines(c, r) THEN DefinedBy(i, c, regs)
     ELSE IF r \in c.also THEN Plus(Made(i), 8)
     ELSE IF c.writeback /\ r = c.n THEN Plus(regs[r], c.imm)
     ELSE regs[r]]

-----------------------------------------------------------------------------
(* x0_address_before(): walking back from a call, it keeps the register that  *)
(* the value in x0 comes from, what is added on top of it, the slot it was    *)
(* loaded from and what was added after the load.                             *)

LookedBack(index) == Max({1, index - Reach}) .. index - 1

Idle == <<>>
Search(index) ==
  [at |-> index, next |-> index - 1, want |-> 0, offset |-> 0, slot |-> NoAddress, after |-> 0]

\* The instruction that the search looks at has nothing to do with the value, or only
\* moves it, adds to it or loads it, once.
Traceable(s, c) ==
  /\ c.op # "call"
  /\ c.d # s.want \/ c.op \in {"add", "mov"} \/ (c.op = "ldr" /\ s.slot = NoAddress)
TracedTo(s, c) ==
  IF c.d # s.want THEN s ELSE
  CASE c.op = "add" -> [s EXCEPT !.offset = @ + c.imm, !.want = c.n]
    [] c.op = "mov" -> [s EXCEPT !.want = c.n]
    [] OTHER -> [s EXCEPT !.slot = c.imm, !.after = s.offset, !.offset = 0, !.want = c.n]

\* The value, where the register holds the address of a page.
Address(s, page) ==
  IF s.slot = NoAddress THEN page + s.offset
  ELSE IF page + s.offset + s.slot \in DOMAIN Got THEN Got[page + s.offset + s.slot] + s.after
  ELSE NoAddress

Looking == back # Idle /\ back.next \in LookedBack(back.at)
Page(s, c) == c.op = "adrp" /\ c.d = s.want

LookBack ==
  /\ Looking /\ Traceable(back, code[back.next])
  /\ back' = [TracedTo(back, code[back.next]) EXCEPT !.next = @ - 1]
  /\ UNCHANGED <<code, held, passed>>

Find ==
  /\ Looking /\ Page(back, code[back.next])
  /\ LET address == Address(back, code[back.next].imm)
     IN  passed' = passed \cup ({[at |-> back.at, address |-> address]} \ {[at |-> back.at, address |-> NoAddress]})
  /\ back' = Idle /\ UNCHANGED <<code, held>>

GiveUp ==
  /\ back # Idle
  /\ Looking => ~Traceable(back, code[back.next]) /\ ~Page(back, code[back.next])
  /\ back' = Idle /\ UNCHANGED <<code, held, passed>>

\* The scanner comes to the next instruction.
Emit ==
  /\ back = Idle /\ Len(code) < MaxCode
  /\ \E c \in Instructions :
       LET i == Len(code) + 1
       IN  /\ code' = Append(code, c) /\ held' = Append(held, Ran(i, c, held[i]))
           /\ back' = IF IsCallOf(c, MutexLocks) THEN Search(i) ELSE Idle
  /\ UNCHANGED passed

CodeInit == code = <<>> /\ held = <<[r \in X |-> Initially(r)]>> /\ back = Idle /\ passed = {}
CodeNext == Emit \/ LookBack \/ Find \/ GiveUp
CodeSpec == CodeInit /\ [][CodeNext]_codeVars

-----------------------------------------------------------------------------
(* register_base_before(): a register as another one plus a constant, and where. *)

\* Stores name the register that they read; the field 31 is sp only for additions.  An
\* atomic that loads what it adds to (ldadd) is encoded as a store.
MayWrite_NoLoads(c, register) ==
  c.d = register /\ IF register = Sp THEN c.op = "add" ELSE c.op \notin {"str", "stp", "cas", "ldadd", "ldr"}
MayWrite(c, register) ==
  c.d = register /\ IF register = Sp THEN c.op = "add" ELSE c.op \notin {"str", "stp", "cas", "ldadd"}

RegisterBaseBefore(index, register) ==
  LET stops == {j \in LookedBack(index) : code[j].op = "call" \/ MayWrite(code[j], register)}
      last == Max(stops)  c == code[last]
  IN  IF stops = {} \/ c.op \notin {"add", "mov"} THEN NoAddress
      ELSE [base |-> c.n, offset |-> IF c.op = "add" THEN c.imm ELSE 0, at |-> last]

-----------------------------------------------------------------------------
(* What is reported of the library *)

\* Its locked mutexes that are initialized the Bionic way.
StaticMutexes == {m \in Mutexes : \E p \in passed : p.address = m.address}

\* Its threads whose handle is stored in the object that they are handed: x0 and x3 are
\* built of one base, which is not written after the first of them.
ThreadHandles ==
  {i \in DOMAIN code :
     LET handle == RegisterBaseBefore(i, 0)  argument == RegisterBaseBefore(i, 3)
     IN  /\ IsCallOf(code[i], {"pthread_create"})
         /\ handle # NoAddress /\ argument # NoAddress
         /\ argument.offset = 0 /\ handle.base = argument.base
         /\ \A j \in Min({handle.at, argument.at}) + 1 .. i - 1 : ~MayWrite(code[j], handle.base)}

\* Its loads of a slot from a register that the thread pointer was just read into.
TlsLoad(i, j) == code[j].op = "ldr" /\ code[j].n = code[i].d
BeforeLoad(j) == Max({1, j - TlsReach}) .. j - 1
TlsReads ==
  {j \in DOMAIN code : \E i \in BeforeLoad(j) :
     /\ code[i].op = "mrs" /\ TlsLoad(i, j) /\ code[j].imm \in TlsSlots
     /\ \A k \in i + 1 .. j - 1 : ~TlsLoad(i, k) /\ ~MayWrite(code[k], code[i].d)}

-----------------------------------------------------------------------------
\* An instruction that writes the register of its destination field and no other, which
\* is all the searches look at: no second register, no base written back, no atomic; and
\* not the zero register, which they take for sp.
OnlyDestination(c) ==
  /\ c.also = {} /\ ~c.writeback /\ c.op # "ldadd"
  /\ c.op = "mov" => c.n # Sp
  /\ c.op \in {"mov", "adrp", "ldr", "mrs"} => c.d # Sp
Readable(at) == \A j \in at : OnlyDestination(code[j])

\* Where the searches look at nothing but such instructions, what is read off the code is
\* what runs, whatever the rest of the code does: a lock is passed the mutex reported, a
\* new thread's handle is stored at a constant distance from the object it is handed, and
\* a slot is read off the thread pointer (scanner.py:510-513, 591-594, 609-614, 635-636),
\* unless something is called between the thread pointer and the load.
ReportedRuns ==
  /\ \A p \in passed :
       (p.address \in {m.address : m \in StaticMutexes} /\ Readable(LookedBack(p.at))) =>
         IsCallOf(code[p.at], MutexLocks) /\ held[p.at][0] = Abs(p.address)
  /\ \A i \in ThreadHandles : Readable(LookedBack(i)) => held[i][0].base = held[i][3].base
  /\ \A j \in TlsReads :
       (Readable(BeforeLoad(j)) /\ \A i \in BeforeLoad(j) : code[i].op # "call") =>
         held[j][code[j].n] = ThreadPointer
=============================================================================
