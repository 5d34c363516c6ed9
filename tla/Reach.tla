------------------------------- MODULE Reach -------------------------------
(***************************************************************************)
(* Staged reachability over an app's call graph (reach.py): a worklist of  *)
(* methods, each processed once, with rapid type analysis.  A virtual call *)
(* reaches the overrides in the classes instantiated so far, and a class   *)
(* instantiated later reaches the overrides of the calls seen so far; a    *)
(* component named by code is started in the next stage, a class named in  *)
(* its meta-data at once.  The work is done in any order here, and the     *)
(* graph (build_graph) is one of a set of graphs over a fixed hierarchy.   *)
(***************************************************************************)
EXTENDS Integers, FiniteSets

CONSTANTS
  Class, NoClass, Object,  \* Object: java.lang.Object
  Sig,
  Defined,     \* the classes the app defines; the others are the platform's
  Super,       \* [Defined -> the superclass, or NoClass]
  Ifaces,      \* [Defined -> the interfaces it names]
  Index,       \* [indexed platform classes -> [parents, methods]]: the runtime index
  Declared,    \* methods of the defined classes
  Static, Code, \* those that are static, those that have code
  InitSig,     \* signatures of constructors and static initializers
  UserInput,   \* signatures the framework calls only for a user
  NoMethod,
  Graphs       \* the graphs to analyse

Method == Class \X Sig
Call   == Class \X Sig \X BOOLEAN     \* TRUE: virtual or interface
Graph  == [calls : [Code -> SUBSET Call],         \* the calls of its code
           news  : [Code -> SUBSET Class],        \* the classes it instantiates
           comps : [Code -> SUBSET Class],        \* the components it names
           named : [Defined -> SUBSET Defined],   \* classes named in a component's meta-data
           entry : [{0, 1} -> SUBSET Class]]      \* what the system starts

Unreached == 255
Stage == 0 .. 3 \cup {Unreached}

ASSUME ReachAssumption ==
  /\ Defined \subseteq Class /\ NoClass \notin Class /\ Object \in Class
  /\ Super \in [Defined -> Class \cup {NoClass}]
  /\ Ifaces \in [Defined -> SUBSET Class]
  /\ DOMAIN Index \subseteq Class \ Defined
  /\ \A c \in DOMAIN Index : Index[c] \in [parents : SUBSET Class, methods : SUBSET Sig]
  /\ Declared \subseteq Defined \X Sig
  /\ Static \subseteq Declared /\ Code \subseteq Declared
  /\ InitSig \subseteq Sig /\ UserInput \subseteq Sig
  /\ NoMethod \notin Method
  /\ Graphs \subseteq Graph

-----------------------------------------------------------------------------
(* The hierarchy *)

Parents(c) ==
  IF c \in Defined THEN Ifaces[c] \cup ({Super[c]} \ {NoClass})
  ELSE IF c \in DOMAIN Index THEN Index[c].parents ELSE {}

\* c and what it inherits from, as far as the app and the runtime index say.
Supertypes ==
  [c \in Class |->
     {d \in Class : \A S \in SUBSET Class :
        c \in S /\ (\A x \in S : Parents(x) \subseteq S) => d \in S}]

\* The app's own superclasses of c, itself first: up to the first platform class.
ClassChain(c) ==
  {d \in Defined : \A S \in SUBSET Defined :
     c \in S /\ (\A x \in S : Super[x] \in Defined => Super[x] \in S) => d \in S}

\* The method a call on c lands in: the nearest of the class chain, else one with
\* code of an interface.
InChain(c, s) == IF c \in Defined THEN {d \in ClassChain(c) : <<d, s>> \in Declared} ELSE {}
WithCode(c, s) == {d \in Supertypes[c] \cap Defined : <<d, s>> \in Code}

Nearest(C) == CHOOSE d \in C : C \subseteq ClassChain(d)
First(C)   == CHOOSE d \in C : TRUE

Resolved ==
  [k \in Class \X Sig |->
     IF InChain(k[1], k[2]) # {} THEN <<Nearest(InChain(k[1], k[2])), k[2]>>
     ELSE IF WithCode(k[1], k[2]) # {} THEN <<First(WithCode(k[1], k[2])), k[2]>>
     ELSE NoMethod]

Resolve(c, s) == Resolved[<<c, s>>]

\* What the framework may call on an instance of c without a user: the methods of
\* its platform supertypes, or any method when the index knows none of them.
Callbacks ==
  [c \in Defined |->
     LET platform == Supertypes[c] \ (Defined \cup {Object})
         sigs == IF platform = {} THEN {}
                 ELSE IF platform \cap DOMAIN Index = {} THEN Sig
                 ELSE UNION {Index[p].methods : p \in platform \cap DOMAIN Index}
     IN  sigs \ UserInput]

\* Signatures an instance of c can be called with.
Dispatchable ==
  [c \in Defined |->
     {s \in Sig : \E o \in Supertypes[c] \cap Defined : <<o, s>> \in Declared \ Static}]

\* A call lands in a platform method itself, or where it resolves to in the app.
Landing(c, s) == IF c \in Defined THEN Resolve(c, s) ELSE <<c, s>>

-----------------------------------------------------------------------------
VARIABLES
  g,        \* the graph
  stage,    \* [Method -> the stage that first reached it]
  since,    \* instantiated: [Defined -> the stage that first instantiated it]
  vcalls,   \* virtual calls seen: declared class and signature
  named,    \* named_by: meta-data classes not started yet
  pending,  \* pending_components
  work,     \* methods reached and not processed
  current,  \* the stage in progress
  next,     \* the stage to enter when no work is left; 4: none
  parent,   \* [Method -> the method that first reached it, or NoMethod]
  cause     \* the method in process, or the last one that was

vars == <<g, stage, since, vcalls, named, pending, work, current, next, parent, cause>>

Init ==
  /\ g \in Graphs
  /\ stage = [m \in Method |-> Unreached]
  /\ since = [c \in Defined |-> Unreached]
  /\ vcalls = {} /\ named = g.named /\ pending = {} /\ work = {}
  /\ current = 0 /\ next = 0
  /\ parent = [m \in Method |-> NoMethod] /\ cause = NoMethod

Reached == {m \in Method : stage[m] # Unreached}
Live == {c \in Defined : since[c] # Unreached}

Calls(m) == IF m \in Code THEN g.calls[m] ELSE {}
News(m)  == IF m \in Code THEN g.news[m] \cap Defined ELSE {}
Comps(m) == IF m \in Code THEN g.comps[m] ELSE {}

\* What instantiating c reaches when the virtual calls in V were seen.
Overrides(c, V) ==
  {Resolve(c, s) : s \in {x \in Dispatchable[c] :
     x \in Callbacks[c] \/ \E p \in Supertypes[c] : <<p, x>> \in V}} \ {NoMethod}

\* start_component of the classes C: those their meta-data name are started too.
StartedBy(C, names) ==
  {c \in Defined : \A S \in SUBSET Defined :
     C \cap Defined \subseteq S /\ (\A x \in S : names[x] \subseteq S) => c \in S}
Started(C) == StartedBy(C, named)
Inits(C) == {m \in Declared : m[1] \in C /\ m[2] \in InitSig}

\* reach(): each method once, at the stage in progress.
IsNew_Again(m) == TRUE
IsNew(m) == m \notin Reached

ReachAll(M, rest, at, by) ==
  LET new == {m \in M : IsNew(m)}
  IN  /\ stage' = [m \in Method |-> IF m \in new THEN at ELSE stage[m]]
      /\ parent' = [m \in Method |-> IF m \in new THEN by ELSE parent[m]]
      /\ work' = rest \cup new

MakeLive(C, at) ==
  since' = [c \in Defined |-> IF c \in C \ Live THEN at ELSE since[c]]

\* The loop body of run() for one method.
VirtualCalls(m) == {<<k[1], k[2]>> : k \in {x \in Calls(m) : x[3]}}

Landings(m) == {Landing(k[1], k[2]) : k \in Calls(m)} \ {NoMethod}

DispatchedOn(c, m) ==
  {Resolve(c, v[2]) : v \in {k \in VirtualCalls(m) : k[1] \in Supertypes[c]}}

Dispatched_StaticOnly(m) == {}
Dispatched(m) == (UNION {DispatchedOn(c, m) : c \in Live}) \ {NoMethod}

MetaClasses(m) == Started(UNION {named[c] : c \in Comps(m) \cap Defined})

Process(m) ==
  LET calls == vcalls \cup VirtualCalls(m)
      meta  == MetaClasses(m)
      fresh == (News(m) \cup meta) \ Live
  IN  /\ m \in work
      /\ cause' = m
      /\ vcalls' = calls
      /\ MakeLive(fresh, current)
      /\ ReachAll(Landings(m) \cup Dispatched(m) \cup Inits(meta)
                    \cup UNION {Overrides(c, calls) : c \in fresh},
                  work \ {m}, current, m)
      /\ named' = [c \in Defined |-> IF c \in Comps(m) \cup meta THEN {} ELSE named[c]]
      \* a component that other meta-data of this method start is pending or not,
      \* by the order the code names them in
      /\ \E late \in SUBSET (Comps(m) \cap (fresh \ News(m))) :
           pending' = pending \cup (Comps(m) \ (Live \cup fresh)) \cup late
      /\ UNCHANGED <<g, current, next>>

StartAll(C, at) ==
  LET all == Started(C)
  IN  /\ MakeLive(all, at)
      /\ ReachAll(Inits(all) \cup UNION {Overrides(c, vcalls) : c \in all \ Live},
                  work, at, cause)
      /\ named' = [c \in Defined |-> IF c \in all THEN {} ELSE named[c]]
      /\ current' = at

\* analyse(): a stage is entered when the work of the stage before is done.
Drained_TooEarly == TRUE
Drained == work = {}

EnterStart ==
  /\ next \in {0, 1} /\ Drained
  /\ StartAll(g.entry[next], next)
  /\ next' = next + 1
  /\ UNCHANGED <<g, vcalls, pending, cause>>

\* Stage 2 starts the components named so far, once; stage 3 goes on until no
\* component is pending.
AfterBatch_Done(n) == 4
AfterBatch(n) == 3

EnterComponents ==
  /\ next \in {2, 3} /\ Drained /\ pending # {}
  /\ StartAll(pending, next)
  /\ pending' = {}
  /\ next' = AfterBatch(next)
  /\ UNCHANGED <<g, vcalls, cause>>

NoComponents ==
  /\ next \in {2, 3} /\ Drained /\ pending = {}
  /\ current' = next /\ next' = next + 1
  /\ UNCHANGED <<g, stage, since, vcalls, named, pending, work, parent, cause>>

Next == (\E m \in work : Process(m)) \/ EnterStart \/ EnterComponents \/ NoComponents

Spec == Init /\ [][Next]_vars /\ WF_vars(Next)

-----------------------------------------------------------------------------
(* Properties *)

TypeOK ==
  /\ g \in Graph
  /\ stage \in [Method -> Stage] /\ since \in [Defined -> Stage]
  /\ vcalls \in SUBSET (Class \X Sig) /\ named \in [Defined -> SUBSET Defined]
  /\ pending \in SUBSET Class /\ work \in SUBSET Method
  /\ current \in 0 .. 3 /\ next \in 0 .. 4
  /\ parent \in [Method -> Method \cup {NoMethod}] /\ cause \in Method \cup {NoMethod}

Processed == Reached \ work

\* What a method needs of its own accord is staged no later than the method:
\* each method it calls, each class it instantiates, each class the meta-data of
\* a component it names lists.
NeedsNoLater ==
  \A m \in Processed :
    /\ \A n \in Landings(m) : stage[n] <= stage[m]
    /\ \A c \in News(m) : since[c] <= stage[m]
    /\ \A c \in Comps(m) \cap Defined : \A d \in g.named[c] : since[d] <= stage[m]

\* A virtual call and an instantiation meet whichever comes first: the override is
\* reached, at the later of their stages at the latest; so is what the framework
\* calls on the instance.
DispatchIsComplete ==
  \A c \in Live : \A s \in Dispatchable[c] :
    LET target == Resolve(c, s)
    IN  target # NoMethod =>
          /\ s \in Callbacks[c] => stage[target] <= since[c]
          /\ \A m \in Processed : \A v \in VirtualCalls(m) :
               v[2] = s /\ v[1] \in Supertypes[c] =>
                 stage[target] <= stage[m] \/ stage[target] <= since[c]

\* All that starting the classes C starts.
Starts(C) == StartedBy(C, g.named)

\* Methods M and live classes L are closed under all that reaches or starts.  A component
\* that code instantiates itself is not started once more: of its constructors only those
\* that are called are reached then.
Closed(M, L) ==
  /\ \A i \in {0, 1} : Starts(g.entry[i]) \subseteq L /\ Inits(Starts(g.entry[i])) \subseteq M
  /\ \A m \in M :
       /\ News(m) \subseteq L /\ Landings(m) \subseteq M
       /\ \A c \in Comps(m) \cap Defined :
            /\ Starts({c}) \subseteq L /\ Inits(Starts({c}) \ {c}) \subseteq M
            /\ Inits({c}) \subseteq M \/ \E n \in M : c \in News(n)
  /\ \A c \in L : Overrides(c, UNION {VirtualCalls(m) : m \in M}) \subseteq M

\* They are closed although every component is started, and a call met before its class
\* dispatches as one met after it.
ClosedWholly(M, L) ==
  /\ Closed(M, L)
  /\ \A m \in M : Inits(Comps(m)) \subseteq M
  /\ \A c \in L : \A m \in M : \A v \in VirtualCalls(m) :
       v[1] \in Supertypes[c] => Resolve(c, v[2]) \in M \cup {NoMethod}

\* At the end what is reached is closed, every component that reached code names and
\* all it starts included, and nothing is reached without a reason: no smaller set is.
ReachIsExact ==
  next = 4 =>
    /\ Closed(Reached, Live)
    /\ \A M \in SUBSET Reached : \A L \in SUBSET Live :
         <<M, L>> # <<Reached, Live>> => ~ClosedWholly(M, L)

\* The analysis ends.
Terminates == <>(next = 4 /\ work = {})
=============================================================================
