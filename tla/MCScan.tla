------------------------------- MODULE MCScan -------------------------------
(***************************************************************************)
(* The scanner at one of its three places: walking a method, reading a     *)
(* library's code, or resolving an app; or the ledger, reading a trace of  *)
(* what the scanner left open.  They share no state.                       *)
(***************************************************************************)
EXTENDS Scan, DexWalk, Arm64, MCTrace, MCOffline

CONSTANTS MaxWalk
VARIABLES at, walked

vars == <<dexVars, codeVars, scanVars, traceVars, at, walked>>

Init ==
  /\ at \in {"method", "code", "app", "ledger"} /\ walked = 0
  /\ DexInit /\ CodeInit /\ ScanInit
  /\ IF at = "ledger" THEN TraceInit ELSE scans = <<>> /\ events = <<>>
Next ==
  \/ /\ at = "method" /\ walked < MaxWalk /\ walked' = walked + 1
     /\ DexNext /\ UNCHANGED <<codeVars, scanVars, traceVars, at>>
  \/ at = "code" /\ CodeNext /\ UNCHANGED <<dexVars, scanVars, traceVars, at, walked>>
  \/ at = "app" /\ ScanNext /\ UNCHANGED <<dexVars, codeVars, traceVars, at, walked>>
  \/ at = "ledger" /\ TraceNext /\ UNCHANGED <<dexVars, codeVars, scanVars, at, walked>>
Spec == Init /\ [][Next]_vars

-----------------------------------------------------------------------------
(* A library that locks a mutex, begins threads and reads the thread pointer. *)

Op(op, d, n, imm) == [op |-> op, d |-> d, n |-> n, imm |-> imm, also |-> {}, writeback |-> FALSE]
Call(stub) == [op |-> "call", d |-> 31, imm |-> stub, also |-> {}, writeback |-> FALSE]
Relocation(kind, slot, to) == [kind |-> kind, slot |-> slot, to |-> to]

MCRelocations == {Relocation("relative", 8, 4), Relocation("jumpslot", 12, "pthread_mutex_lock"),
                  Relocation("jumpslot", 16, "pthread_create")}
MCPlt == <<Op("bti", 31, 31, 0), Op("adrp", 16, 31, 8), Op("ldr", 17, 16, 4),
           Op("adrp", 16, 31, 8), Op("ldr", 17, 16, 8)>>
MCMutexes == {[address |-> 4, type |-> "recursive"]}
MCInstructions ==
  {Op("adrp", 0, 31, 4), Op("adrp", 1, 31, 4), Op("adrp", 1, 31, 8), Op("add", 0, 1, 4),
   Op("add", 0, 0, 4), Op("mov", 0, 1, 0), Op("mov", 3, 1, 0), Op("ldr", 0, 1, 0), Op("ldr", 0, 1, 4),
   Op("ldr", 1, 0, 0), Op("str", 0, 1, 0), Op("mrs", 1, 31, 0), Op("add", 0, 31, 4),
   Op("ldadd", 1, 3, 0), [Op("ldp", 1, 3, 0) EXCEPT !.also = {0}], [Op("cas", 3, 0, 0) EXCEPT !.also = {1}],
   [Op("load", 3, 1, 8) EXCEPT !.writeback = TRUE], [Op("str", 1, 0, 8) EXCEPT !.writeback = TRUE],
   Call(1), Call(4)}

-----------------------------------------------------------------------------
(* Four classes in two jars, the second of which holds another C; P is of no      *)
(* package of the framework, and I has its fields from C.                         *)

Method(key, native, body, calls) == [key |-> key, native |-> native, body |-> body, calls |-> calls]
Class(name, parents, fields, methods) ==
  [name |-> name, parents |-> parents, fields |-> fields, methods |-> methods]
MCBootClassPath ==
  <<[name |-> "framework", classes |->
       {Class("C", <<"B", "I">>, {"f"}, {Method("m", FALSE, "real", {<<"B", "n">>, <<"I", "w">>, <<"P", "q">>})}),
        Class("I", <<"C">>, {}, {Method("d", FALSE, "return", {}),
                          Method("w", FALSE, "real", {<<"C", "m">>, <<"P", "r">>})}),
        Class("P", <<>>, {}, {Method("q", FALSE, "real", {<<"B", "n">>}), Method("r", TRUE, "none", {})})}],
    [name |-> "stub", classes |->
       {Class("C", <<>>, {"g"}, {Method("<init>", FALSE, "real", {}), Method("x", FALSE, "return", {})}),
        Class("B", <<>>, {"h"}, {Method("n", TRUE, "none", {}), Method("<init>", FALSE, "real", {})})}]>>
MCReference == [o \in {"C", "D"} |-> [parents |-> <<>>, methods |-> {"m", "x"}, fields |-> {"f", "g"}]]

Refs == {<<o, k>> : o \in {"B", "C", "D"}, k \in {"<init>", "m", "d", "n", "x"}}

Pointer(is, of) == [is |-> is, of |-> of]
Lib(name, abi, machine, exports, undefined, weak, registers, data, bl) ==
  [name |-> name, file |-> name, abi |-> abi, machine |-> machine, sha |-> name, origin |-> "packaged",
   elf |-> TRUE, variant |-> FALSE, exports |-> exports, undefined |-> undefined, weak |-> weak,
   versions |-> <<>>, defines |-> <<>>, registers |-> registers, strings |-> {"C", "m", "x", "f", "g", "puts"},
   relocations |-> <<>>, data |-> data, functions |-> {1, 5, 8, 9}, bl |-> bl, b |-> {},
   stubs |-> (9 :> "puts")]

Table == <<Pointer("name", "nat"), Pointer("sig", [platform |-> FALSE]), Pointer("code", 1)>>
Plain == [Lib("libp", "arm64", "arm64", {"JNI_OnLoad"}, {"puts", "gets", "opt"}, {"gets", "opt"}, {"nat"}, <<>>, {})
            EXCEPT !.versions = ("puts" :> "V2")]
Tabled == Lib("libt", "arm64", "arm64", {"own"}, {"own", "gets", "typeinfo"}, {}, {}, Table, {<<6, 9>>})
Mixed == Lib("libm", "arm64", "arm", {"Java_nat"}, {"gets"}, {}, {}, <<>>, {})
Other == Lib("libo", "arm", "arm", {"Java_nat"}, {"aeabi"}, {}, {}, <<>>, {})
Found == [Plain EXCEPT !.sha = "new", !.name = "libn", !.exports = {"gets"}, !.registers = {}]

\* The board has another version of one import, and one only in a backup copy.
MCBridge == {[Lib("bridge", None, "arm64", {"puts", "Java_rt"}, {}, {}, {}, <<>>, {})
                EXCEPT !.defines = ("puts" :> "V1")]}
MCSystem == {Lib("libc", "arm64", "arm64", {"malloc"}, {}, {}, {}, <<>>, {}),
             [Lib("libc.bak", "arm64", "arm64", {"gets"}, {}, {}, {}, <<>>, {}) EXCEPT !.variant = TRUE]}

Natives == {[owner |-> "A", dex |-> "dex", name |-> "nat", sig |-> [platform |-> FALSE], symbols |-> {"Java_nat"}],
            [owner |-> "A", dex |-> "dex", name |-> "rt", sig |-> [platform |-> FALSE], symbols |-> {"Java_rt"}]}
Loads == {[owner |-> "A", dex |-> "dex", value |-> "libp"], [owner |-> "E", dex |-> "dex", value |-> "libt"]}

App(libs, harvested, loads, defined, elf) ==
  [libs |-> libs, harvested |-> harvested, loads |-> loads, defined |-> defined, elf |-> elf,
   types |-> {"B", "C", "D", "I"}, methods |-> Refs, fields |-> {<<"C", "g">>, <<"I", "f">>, <<"I", "h">>, <<"D", "f">>},
   probes |-> {"D"}, used |-> {"C"}, natives |-> Natives, asked |-> None]
MCApps == {App(libs, harvested, loads, defined, elf) :
  libs \in SUBSET {Plain, Tabled, Mixed, Other}, harvested \in {<<>>, <<Found, Found>>},
  loads \in {{}, Loads}, defined \in {{"A"}, {"A", "D"}}, elf \in BOOLEAN}

MCSurfaceOf == [s \in {"puts"} |-> "log"]
MCCosts == [s \in {"log"} |-> "shim"]
=============================================================================
