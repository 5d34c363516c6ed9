---------------------------- MODULE ReachProofs ----------------------------
(***************************************************************************)
(* Proofs about the staged reachability, for every hierarchy of classes,   *)
(* every call graph and every order in which the work is done.             *)
(***************************************************************************)
EXTENDS Reach, TLAPS

-----------------------------------------------------------------------------
(* Lemmas about the hierarchy *)

\* A class's chain is the class and the chain of its superclass.
LEMMA ChainOfSuper ==
  ASSUME NEW c \in Defined
  PROVE  /\ c \in ClassChain(c)
         /\ Super[c] \in Defined => ClassChain(c) \subseteq {c} \cup ClassChain(Super[c])
         /\ Super[c] \notin Defined => ClassChain(c) \subseteq {c}
<1>1. c \in ClassChain(c)
  BY DEF ClassChain
<1>2. ASSUME Super[c] \in Defined, NEW d \in ClassChain(c)
      PROVE  d \in {c} \cup ClassChain(Super[c])
  <2> DEFINE S == {c} \cup ClassChain(Super[c])
  <2>1. S \in SUBSET Defined
    BY DEF ClassChain
  <2>2. Super[c] \in S
    BY <1>2 DEF ClassChain
  <2>3. ASSUME NEW x \in ClassChain(Super[c]), Super[x] \in Defined
        PROVE  Super[x] \in ClassChain(Super[c])
    BY <2>3 DEF ClassChain
  <2>4. \A x \in S : Super[x] \in Defined => Super[x] \in S
    BY <2>2, <2>3
  <2> HIDE DEF S
  <2>5. c \in S
    BY DEF S
  <2>6. d \in S
    BY <2>1, <2>4, <2>5 DEF ClassChain
  <2>7. QED
    BY <2>6 DEF S
<1>3. ASSUME Super[c] \notin Defined, NEW d \in ClassChain(c) PROVE d \in {c}
  <2>1. {c} \in SUBSET Defined /\ \A x \in {c} : Super[x] \in Defined => Super[x] \in {c}
    BY <1>3
  <2>2. QED
    BY <2>1 DEF ClassChain
<1>4. QED
  BY <1>1, <1>2, <1>3

\* Of the classes of a chain that declare a signature there is a nearest one: the walk up
\* the superclasses cannot pass them all.
LEMMA NearestExists ==
  ASSUME NEW c \in Class, NEW s, InChain(c, s) # {}
  PROVE  Nearest(InChain(c, s)) \in InChain(c, s)
<1> DEFINE C == InChain(c, s)
           T == {x \in ClassChain(c) : C \subseteq ClassChain(x)}
<1>1. c \in Defined /\ C \subseteq ClassChain(c) /\ ClassChain(c) \subseteq Defined
  BY DEF InChain, ClassChain
<1>2. c \in T
  BY <1>1, ChainOfSuper
<1>3. T \cap C # {}
  <2> SUFFICES ASSUME T \cap C = {} PROVE FALSE
    OBVIOUS
  <2>1. ASSUME NEW x \in T PROVE Super[x] \in Defined => Super[x] \in T
    <3> SUFFICES ASSUME Super[x] \in Defined PROVE Super[x] \in T
      OBVIOUS
    <3>1. x \in Defined /\ x \notin C /\ C \subseteq ClassChain(x)
      BY <1>1
    <3>2. C \subseteq ClassChain(Super[x])
      BY <3>1, ChainOfSuper
    <3>3. Super[x] \in ClassChain(c)
      BY <3>1 DEF ClassChain
    <3>4. QED
      BY <3>2, <3>3
  <2>2. T \in SUBSET Defined
    BY <1>1
  <2> HIDE DEF T, C
  <2>3. ClassChain(c) \subseteq T
    BY <1>2, <2>1, <2>2 DEF ClassChain
  <2>4. QED
    BY <1>1, <2>3 DEF C
<1>4. \E d \in C : C \subseteq ClassChain(d)
  BY <1>3
<1> HIDE DEF C, T
<1>5. Nearest(C) \in C
  BY <1>4, Zenon DEF Nearest
<1>6. QED
  BY <1>5 DEF C

\* A call lands in a method of the class or of one it inherits from, or nowhere.
LEMMA ResolveType ==
  ASSUME NEW c \in Class, NEW s \in Sig
  PROVE  Resolve(c, s) \in Method \cup {NoMethod}
<1>0. <<c, s>> \in Class \X Sig /\ <<c, s>>[1] = c /\ <<c, s>>[2] = s
  OBVIOUS
<1>1. Resolve(c, s) = IF InChain(c, s) # {} THEN <<Nearest(InChain(c, s)), s>>
                      ELSE IF WithCode(c, s) # {} THEN <<First(WithCode(c, s)), s>>
                      ELSE NoMethod
  BY <1>0 DEF Resolve, Resolved
<1>2. CASE InChain(c, s) # {}
  <2>1. InChain(c, s) \subseteq Class
    BY ReachAssumption DEF InChain, ClassChain
  <2>2. Nearest(InChain(c, s)) \in Class
    BY <1>2, <2>1, NearestExists
  <2>3. QED
    BY <1>1, <1>2, <2>2 DEF Method
<1>3. CASE InChain(c, s) = {} /\ WithCode(c, s) # {}
  <2>1. WithCode(c, s) \subseteq Class
    BY ReachAssumption DEF WithCode
  <2>2. First(WithCode(c, s)) \in WithCode(c, s)
    BY <1>3, Zenon DEF First
  <2>3. First(WithCode(c, s)) \in Class
    BY <2>1, <2>2
  <2>4. QED
    BY <1>1, <1>3, <2>3 DEF Method
<1>4. CASE InChain(c, s) = {} /\ WithCode(c, s) = {}
  BY <1>1, <1>4
<1>5. QED
  BY <1>2, <1>3, <1>4

\* What is started is the least set that holds the classes and all that those in it name.
LEMMA StartedLeast ==
  ASSUME NEW C, NEW names \in [Defined -> SUBSET Defined]
  PROVE  /\ StartedBy(C, names) \subseteq Defined /\ C \cap Defined \subseteq StartedBy(C, names)
         /\ \A x \in StartedBy(C, names) : names[x] \subseteq StartedBy(C, names)
         /\ \A S \in SUBSET Defined : C \cap Defined \subseteq S /\ (\A x \in S : names[x] \subseteq S) =>
              StartedBy(C, names) \subseteq S
<1>1. StartedBy(C, names) \subseteq Defined /\ C \cap Defined \subseteq StartedBy(C, names)
  BY DEF StartedBy
<1>2. ASSUME NEW x \in StartedBy(C, names), NEW y \in names[x] PROVE y \in StartedBy(C, names)
  <2>1. x \in Defined /\ y \in Defined
    BY <1>1
  <2>2. ASSUME NEW S \in SUBSET Defined, C \cap Defined \subseteq S, \A z \in S : names[z] \subseteq S
        PROVE  y \in S
    BY <2>2 DEF StartedBy
  <2>3. QED
    BY <2>1, <2>2 DEF StartedBy
<1>3. ASSUME NEW S \in SUBSET Defined, C \cap Defined \subseteq S, \A x \in S : names[x] \subseteq S,
             NEW d \in StartedBy(C, names)
      PROVE  d \in S
  BY <1>3 DEF StartedBy
<1>4. QED
  BY <1>1, <1>2, <1>3

-----------------------------------------------------------------------------
(* Types *)

\* What a method calls, instantiates and names, and what those reach.
LEMMA CodeTypes ==
  ASSUME TypeOK, NEW m \in Method
  PROVE  /\ Calls(m) \subseteq Call /\ News(m) \subseteq Defined /\ Comps(m) \subseteq Class
         /\ VirtualCalls(m) \subseteq Class \X Sig
         /\ Landings(m) \subseteq Method /\ Dispatched(m) \subseteq Method
         /\ MetaClasses(m) \subseteq Defined
<1>1. Calls(m) \subseteq Call /\ News(m) \subseteq Defined /\ Comps(m) \subseteq Class
  BY DEF TypeOK, Graph, Calls, News, Comps
<1>2. VirtualCalls(m) \subseteq Class \X Sig
  BY <1>1 DEF VirtualCalls, Call
<1>3. ASSUME NEW k \in Calls(m) PROVE Landing(k[1], k[2]) \in Method \cup {NoMethod}
  <2>1. k[1] \in Class /\ k[2] \in Sig
    BY <1>1 DEF Call
  <2>2. QED
    BY <2>1, ResolveType DEF Landing, Method
<1>4. Landings(m) \subseteq Method
  BY <1>3 DEF Landings
<1>5. ASSUME NEW c \in Live, NEW v \in VirtualCalls(m)
      PROVE  Resolve(c, v[2]) \in Method \cup {NoMethod}
  <2>1. c \in Class /\ v[2] \in Sig
    BY <1>2, ReachAssumption DEF Live
  <2>2. QED
    BY <2>1, ResolveType
<1>6. Dispatched(m) \subseteq Method
  <2> SUFFICES ASSUME NEW t \in Dispatched(m) PROVE t \in Method
    OBVIOUS
  <2>1. PICK c \in Live : t \in DispatchedOn(c, m)
    BY DEF Dispatched
  <2>2. \E v \in VirtualCalls(m) : t = Resolve(c, v[2])
    BY <2>1 DEF DispatchedOn
  <2>3. t # NoMethod
    BY DEF Dispatched
  <2>4. QED
    BY <1>5, <2>2, <2>3
<1>7. MetaClasses(m) \subseteq Defined
  BY DEF MetaClasses, Started, StartedBy
<1>8. QED
  BY <1>1, <1>2, <1>4, <1>6, <1>7

LEMMA OverridesType ==
  ASSUME NEW c \in Defined, NEW V
  PROVE  Overrides(c, V) \subseteq Method
<1>1. Dispatchable[c] \subseteq Sig
  BY DEF Dispatchable
<1>2. ASSUME NEW s \in Dispatchable[c] PROVE Resolve(c, s) \in Method \cup {NoMethod}
  BY <1>1, ResolveType, ReachAssumption
<1>3. QED
  BY <1>2 DEF Overrides

LEMMA InitsType == \A C : Inits(C) \subseteq Method
BY ReachAssumption DEF Inits, Method

\* Methods not reached before are reached at the stage in progress, the others keep theirs.
LEMMA ReachAllEffect ==
  ASSUME TypeOK, NEW M \in SUBSET Method, NEW rest, NEW at \in 0 .. 3,
         NEW by \in Method \cup {NoMethod}, ReachAll(M, rest, at, by)
  PROVE  /\ stage' \in [Method -> Stage] /\ parent' \in [Method -> Method \cup {NoMethod}]
         /\ Reached' = Reached \cup M /\ work' = rest \cup (M \ Reached)
         /\ \A k \in Reached : stage'[k] = stage[k]
         /\ \A k \in M \ Reached : stage'[k] = at
<1>1. {m \in M : IsNew(m)} = M \ Reached
  BY DEF IsNew
<1>2. /\ stage' = [m \in Method |-> IF m \in M \ Reached THEN at ELSE stage[m]]
      /\ parent' = [m \in Method |-> IF m \in M \ Reached THEN by ELSE parent[m]]
      /\ work' = rest \cup (M \ Reached)
  BY <1>1 DEF ReachAll
<1>3. Reached' = Reached \cup M
  BY <1>2 DEF Reached, Unreached
<1>4. QED
  BY <1>2, <1>3 DEF TypeOK, Stage, Reached

LEMMA MakeLiveEffect ==
  ASSUME TypeOK, NEW C \in SUBSET Defined, NEW at \in 0 .. 3, MakeLive(C, at)
  PROVE  /\ since' \in [Defined -> Stage]
         /\ Live' = Live \cup C
         /\ \A c \in Live : since'[c] = since[c]
         /\ \A c \in C \ Live : since'[c] = at
<1>1. since' = [c \in Defined |-> IF c \in C \ Live THEN at ELSE since[c]]
  BY DEF MakeLive
<1>2. Live' = Live \cup C
  BY <1>1 DEF Live, Unreached
<1>3. QED
  BY <1>1, <1>2 DEF TypeOK, Stage, Live

\* The classes that become live with a method, and the methods reached with it.
Fresh(m) == (News(m) \cup MetaClasses(m)) \ Live
Hit(m) ==
  Landings(m) \cup Dispatched(m) \cup Inits(MetaClasses(m))
    \cup UNION {Overrides(c, vcalls \cup VirtualCalls(m)) : c \in Fresh(m)}

LEMMA ProcessEffect ==
  ASSUME TypeOK, NEW m \in work, Process(m)
  PROVE  /\ m \in Method /\ Fresh(m) \subseteq Defined /\ Hit(m) \subseteq Method
         /\ MakeLive(Fresh(m), current) /\ ReachAll(Hit(m), work \ {m}, current, m)
         /\ vcalls' = vcalls \cup VirtualCalls(m) /\ cause' = m
         /\ named' = [c \in Defined |-> IF c \in Comps(m) \cup MetaClasses(m) THEN {} ELSE named[c]]
         /\ pending \subseteq pending' /\ pending' \subseteq pending \cup Comps(m)
         /\ Comps(m) \subseteq pending' \cup Live \cup Fresh(m)
         /\ UNCHANGED <<g, current, next>>
<1>1. m \in Method
  BY DEF TypeOK
<1>2. Fresh(m) \subseteq Defined
  BY <1>1, CodeTypes DEF Fresh
<1>3. Hit(m) \subseteq Method
  BY <1>1, <1>2, CodeTypes, OverridesType, InitsType DEF Hit
<1>4. /\ MakeLive(Fresh(m), current) /\ ReachAll(Hit(m), work \ {m}, current, m)
      /\ vcalls' = vcalls \cup VirtualCalls(m) /\ cause' = m
      /\ named' = [c \in Defined |-> IF c \in Comps(m) \cup MetaClasses(m) THEN {} ELSE named[c]]
      /\ \E late \in SUBSET (Comps(m) \cap (Fresh(m) \ News(m))) :
           pending' = pending \cup (Comps(m) \ (Live \cup Fresh(m))) \cup late
      /\ UNCHANGED <<g, current, next>>
  BY Zenon DEF Process, Fresh, Hit
<1>5. /\ pending \subseteq pending' /\ pending' \subseteq pending \cup Comps(m)
      /\ Comps(m) \subseteq pending' \cup Live \cup Fresh(m)
  BY <1>4
<1>6. QED
  BY <1>1, <1>2, <1>3, <1>4, <1>5

\* The methods reached when the classes C are started.
HitByStart(C) ==
  Inits(Started(C)) \cup UNION {Overrides(c, vcalls) : c \in Started(C) \ Live}

LEMMA StartAllEffect ==
  ASSUME TypeOK, NEW C, NEW at \in 0 .. 3, StartAll(C, at)
  PROVE  /\ Started(C) \subseteq Defined /\ HitByStart(C) \subseteq Method
         /\ MakeLive(Started(C), at) /\ ReachAll(HitByStart(C), work, at, cause)
         /\ named' = [c \in Defined |-> IF c \in Started(C) THEN {} ELSE named[c]]
         /\ current' = at
<1>1. Started(C) \subseteq Defined
  BY DEF Started, StartedBy
<1>2. HitByStart(C) \subseteq Method
  BY <1>1, OverridesType, InitsType DEF HitByStart
<1>3. QED
  BY <1>1, <1>2, Zenon DEF StartAll, HitByStart

LEMMA ReachTypeInit == Init => TypeOK
<1> SUFFICES ASSUME Init PROVE TypeOK
  OBVIOUS
<1>1. g \in Graph /\ named \in [Defined -> SUBSET Defined]
  BY ReachAssumption DEF Init, Graph
<1>2. stage \in [Method -> Stage] /\ since \in [Defined -> Stage]
  BY DEF Init, Stage, Unreached
<1>3. parent \in [Method -> Method \cup {NoMethod}]
  BY DEF Init
<1>4. QED
  BY <1>1, <1>2, <1>3 DEF Init, TypeOK

LEMMA ReachTypeStep == TypeOK /\ [Next]_vars => TypeOK'
<1> SUFFICES ASSUME TypeOK, [Next]_vars PROVE TypeOK'
  OBVIOUS
<1>0. cause \in Method \cup {NoMethod} /\ current \in 0 .. 3 /\ next \in 0 .. 4
  BY DEF TypeOK
<1>1. ASSUME NEW m \in work, Process(m) PROVE TypeOK'
  <2>1. m \in Method /\ Fresh(m) \in SUBSET Defined /\ Hit(m) \in SUBSET Method
    BY <1>1, ProcessEffect
  <2>2. since' \in [Defined -> Stage]
    BY <1>0, <1>1, <2>1, ProcessEffect, MakeLiveEffect
  <2>3. /\ stage' \in [Method -> Stage] /\ parent' \in [Method -> Method \cup {NoMethod}]
        /\ work' = (work \ {m}) \cup (Hit(m) \ Reached)
    BY <1>0, <1>1, <2>1, ProcessEffect, ReachAllEffect
  <2>4. named' \in [Defined -> SUBSET Defined]
    BY <1>1, ProcessEffect DEF TypeOK
  <2>5. vcalls' \subseteq Class \X Sig /\ pending' \subseteq Class
    BY <1>1, <2>1, ProcessEffect, CodeTypes DEF TypeOK
  <2>6. QED
    BY <1>1, <2>1, <2>2, <2>3, <2>4, <2>5, ProcessEffect DEF TypeOK
<1>2. ASSUME NEW C, NEW at \in 0 .. 3, StartAll(C, at), next' \in 0 .. 4, pending' \subseteq Class,
             UNCHANGED <<g, vcalls, cause>>
      PROVE  TypeOK'
  <2>1. Started(C) \in SUBSET Defined /\ HitByStart(C) \in SUBSET Method
    BY <1>2, StartAllEffect
  <2>2. since' \in [Defined -> Stage]
    BY <1>2, <2>1, StartAllEffect, MakeLiveEffect
  <2>3. /\ stage' \in [Method -> Stage] /\ parent' \in [Method -> Method \cup {NoMethod}]
        /\ work' = work \cup (HitByStart(C) \ Reached)
    BY <1>0, <1>2, <2>1, StartAllEffect, ReachAllEffect
  <2>4. named' \in [Defined -> SUBSET Defined] /\ current' \in 0 .. 3
    BY <1>2, StartAllEffect DEF TypeOK
  <2>5. QED
    BY <1>2, <2>1, <2>2, <2>3, <2>4 DEF TypeOK
<1>3. CASE EnterStart
  <2>1. next \in 0 .. 3 /\ next' \in 0 .. 4
    BY <1>0, <1>3 DEF EnterStart
  <2>2. pending' \subseteq Class
    BY <1>3 DEF EnterStart, TypeOK
  <2>3. QED
    BY <1>2, <1>3, <2>1, <2>2 DEF EnterStart
<1>4. CASE EnterComponents
  <2>1. next \in 0 .. 3 /\ next' \in 0 .. 4
    BY <1>4 DEF EnterComponents, AfterBatch
  <2>2. QED
    BY <1>2, <1>4, <2>1 DEF EnterComponents
<1>5. CASE NoComponents
  BY <1>5 DEF NoComponents, TypeOK
<1>6. CASE UNCHANGED vars
  BY <1>6 DEF vars, TypeOK
<1>7. QED
  BY <1>1, <1>3, <1>4, <1>5, <1>6 DEF Next

\* Stages, methods and classes keep their ranges.
THEOREM ReachTypeOK == Spec => []TypeOK
BY ReachTypeInit, ReachTypeStep, PTL DEF Spec

-----------------------------------------------------------------------------
(* The inductive invariant, in named parts. *)

\* What waits was reached in the stage in progress, and nothing in a later one; when all is
\* done nothing waits.
StagePlace ==
  /\ current <= next
  /\ \A m \in work : stage[m] = current
  /\ \A m \in Reached : stage[m] <= current
  /\ \A c \in Live : since[c] <= current
  /\ next = 4 => work = {} /\ pending = {}

\* The virtual calls of processed methods were seen.
SeenPlace == \A m \in Processed : VirtualCalls(m) \subseteq vcalls

\* Started classes: live, with their constructors, and their meta-data read.
Begun == {c \in Live : Inits({c}) \subseteq Reached /\ named[c] = {}}

\* The meta-data of a class was not read, or all it names is started.
NamedPlace ==
  \A c \in Defined :
    \/ named[c] = g.named[c]
    \/ named[c] = {} /\ g.named[c] \subseteq Begun

\* The entries of the stages entered are started.
EntryPlace == \A i \in {0, 1} : i < next => g.entry[i] \cap Defined \subseteq Begun

\* A class is live because it was started or because a processed method instantiates it.
LivePlace == \A c \in Live : Inits({c}) \subseteq Reached \/ \E n \in Processed : c \in News(n)

\* A component that processed code names is live or pending, its meta-data read.
CompPlace ==
  \A m \in Processed : \A c \in Comps(m) \cap Defined : c \in Live \cup pending /\ named[c] = {}

IInv ==
  /\ TypeOK /\ StagePlace /\ SeenPlace /\ NamedPlace /\ EntryPlace /\ LivePlace /\ CompPlace
  /\ NeedsNoLater /\ DispatchIsComplete

-----------------------------------------------------------------------------
(* The steps, each through what it does to the variables a part names. *)

\* A step that reaches methods and makes classes live at one stage, no earlier than the last.
Grows(M, C, at) ==
  /\ M \subseteq Method /\ C \subseteq Defined /\ at \in current .. 3
  /\ g' = g /\ current' = at /\ stage' \in [Method -> Stage] /\ since' \in [Defined -> Stage]
  /\ Reached' = Reached \cup M /\ Live' = Live \cup C
  /\ \A k \in Reached : stage'[k] = stage[k]
  /\ \A k \in M \ Reached : stage'[k] = at
  /\ \A c \in Live : since'[c] = since[c]
  /\ \A c \in C \ Live : since'[c] = at

LEMMA ProcessGrows ==
  ASSUME TypeOK, NEW m \in work, Process(m)
  PROVE  Grows(Hit(m), Fresh(m), current) /\ work' = (work \ {m}) \cup (Hit(m) \ Reached)
<1>0. current \in 0 .. 3 /\ current \in current .. 3
  BY DEF TypeOK
<1>1. m \in Method /\ Fresh(m) \in SUBSET Defined /\ Hit(m) \in SUBSET Method
  BY ProcessEffect
<1>2. MakeLive(Fresh(m), current) /\ ReachAll(Hit(m), work \ {m}, current, m) /\ g' = g /\ current' = current
  BY ProcessEffect
<1>3. /\ since' \in [Defined -> Stage] /\ Live' = Live \cup Fresh(m)
      /\ \A c \in Live : since'[c] = since[c]
      /\ \A c \in Fresh(m) \ Live : since'[c] = current
  BY <1>0, <1>1, <1>2, MakeLiveEffect, Zenon
<1>4. /\ stage' \in [Method -> Stage]
      /\ Reached' = Reached \cup Hit(m) /\ work' = (work \ {m}) \cup (Hit(m) \ Reached)
      /\ \A k \in Reached : stage'[k] = stage[k]
      /\ \A k \in Hit(m) \ Reached : stage'[k] = current
  <2>1. m \in Method \cup {NoMethod}
    BY <1>1
  <2>2. QED
    BY <1>0, <1>1, <1>2, <2>1, ReachAllEffect, Zenon
<1>5. QED
  BY <1>0, <1>1, <1>2, <1>3, <1>4 DEF Grows

LEMMA StartAllGrows ==
  ASSUME TypeOK, NEW C, NEW at \in current .. 3, StartAll(C, at), g' = g
  PROVE  /\ Grows(HitByStart(C), Started(C), at)
         /\ work' = work \cup (HitByStart(C) \ Reached)
<1>0. at \in 0 .. 3 /\ cause \in Method \cup {NoMethod}
  BY DEF TypeOK
<1>1. Started(C) \in SUBSET Defined /\ HitByStart(C) \in SUBSET Method /\ current' = at
  BY <1>0, StartAllEffect
<1>2. MakeLive(Started(C), at) /\ ReachAll(HitByStart(C), work, at, cause)
  BY <1>0, StartAllEffect
<1>3. /\ since' \in [Defined -> Stage] /\ Live' = Live \cup Started(C)
      /\ \A c \in Live : since'[c] = since[c]
      /\ \A c \in Started(C) \ Live : since'[c] = at
  BY <1>0, <1>1, <1>2, MakeLiveEffect, Zenon
<1>4. /\ stage' \in [Method -> Stage]
      /\ Reached' = Reached \cup HitByStart(C) /\ work' = work \cup (HitByStart(C) \ Reached)
      /\ \A k \in Reached : stage'[k] = stage[k]
      /\ \A k \in HitByStart(C) \ Reached : stage'[k] = at
  BY <1>0, <1>1, <1>2, ReachAllEffect, Zenon
<1>5. QED
  BY <1>1, <1>3, <1>4 DEF Grows

\* The steps that enter a stage, with the classes they start.
EntersWith(C, at) ==
  /\ at \in current .. 3 /\ next' \in Int /\ at <= next' /\ work = {}
  /\ StartAll(C, at) /\ UNCHANGED <<g, vcalls, cause>>
  /\ \/ at \in {0, 1} /\ C = g.entry[at] /\ next' = at + 1 /\ next = at /\ pending' = pending
     \/ at \in {2, 3} /\ C = pending /\ next' = 3 /\ next = at /\ pending' = {}

LEMMA EnterEffect ==
  ASSUME TypeOK, StagePlace
  PROVE  /\ EnterStart => EntersWith(g.entry[next], next)
         /\ EnterComponents => EntersWith(pending, next)
<1> USE DEF TypeOK, StagePlace, Drained
<1>1. EnterStart => EntersWith(g.entry[next], next)
  BY DEF EnterStart, EntersWith
<1>2. EnterComponents => EntersWith(pending, next)
  BY DEF EnterComponents, EntersWith, AfterBatch
<1>3. QED
  BY <1>1, <1>2

\* The graph does not change, and with it what a method needs.
LEMMA SameGraph ==
  ASSUME g' = g
  PROVE  \A m : /\ Landings(m)' = Landings(m) /\ News(m)' = News(m) /\ Comps(m)' = Comps(m)
                /\ VirtualCalls(m)' = VirtualCalls(m)
BY DEF Landings, News, Comps, VirtualCalls, Calls

\* A processed method was reached and no longer waits.
LEMMA ProcessStep ==
  ASSUME IInv, NEW m \in work, Process(m)
  PROVE  /\ Grows(Hit(m), Fresh(m), current) /\ work' = (work \ {m}) \cup (Hit(m) \ Reached)
         /\ m \in Reached /\ stage[m] = current /\ next # 4
         /\ Processed' = Processed \cup {m}
<1>1. Grows(Hit(m), Fresh(m), current) /\ work' = (work \ {m}) \cup (Hit(m) \ Reached)
  BY ProcessGrows DEF IInv
<1>2. work \subseteq Reached /\ stage[m] = current /\ next # 4
  BY DEF IInv, TypeOK, StagePlace, Reached, Unreached
<1>3. Processed' = Processed \cup {m}
  BY <1>1, <1>2 DEF Processed, Grows
<1>4. QED
  BY <1>1, <1>2, <1>3

LEMMA EnterStep ==
  ASSUME IInv, NEW C, NEW at, EntersWith(C, at)
  PROVE  /\ Grows(HitByStart(C), Started(C), at) /\ work' = HitByStart(C) \ Reached
         /\ Processed' = Processed /\ Processed = Reached
<1>1. Grows(HitByStart(C), Started(C), at) /\ work' = work \cup (HitByStart(C) \ Reached)
  BY StartAllGrows DEF IInv, EntersWith
<1>2. work = {}
  BY DEF EntersWith
<1>3. QED
  BY <1>1, <1>2 DEF Processed, Grows

LEMMA StagePlaceStep == IInv /\ [Next]_vars => StagePlace'
<1> SUFFICES ASSUME IInv, [Next]_vars PROVE StagePlace'
  OBVIOUS
<1> USE DEF IInv, TypeOK, StagePlace
<1>1. ASSUME NEW m \in work, Process(m) PROVE StagePlace'
  <2>1. current' = current /\ next' = next
    BY <1>1, ProcessEffect
  <2>2. \A k \in work' : stage'[k] = current
    BY <1>1, ProcessStep DEF Grows, Reached, Unreached
  <2>3. /\ \A k \in Reached' : stage'[k] <= current
        /\ \A c \in Live' : since'[c] <= current
    BY <1>1, ProcessStep DEF Grows
  <2>4. QED
    BY <1>1, <2>1, <2>2, <2>3, ProcessStep
<1>2. ASSUME NEW C, NEW at, EntersWith(C, at) PROVE StagePlace'
  <2>1. current' = at /\ at \in current .. 3
    BY <1>2, EnterStep DEF Grows
  <2>2. \A k \in work' : stage'[k] = at
    BY <1>2, EnterStep DEF Grows
  <2>3. /\ \A k \in Reached' : stage'[k] <= at
        /\ \A c \in Live' : since'[c] <= at
    BY <1>2, <2>1, EnterStep DEF Grows, Reached, Live, Stage
  <2>4. QED
    BY <1>2, <2>1, <2>2, <2>3 DEF EntersWith
<1>3. CASE NoComponents
  <2>1. next \in {2, 3} /\ current' = next /\ next' = next + 1 /\ work = {} /\ pending = {}
    BY <1>3 DEF NoComponents, Drained
  <2>2. \A k \in Reached : stage[k] <= next
    BY <2>1 DEF Reached, Stage
  <2>3. \A c \in Live : since[c] <= next
    BY <2>1 DEF Live, Stage
  <2>4. QED
    BY <1>3, <2>1, <2>2, <2>3 DEF NoComponents, Reached, Live
<1>4. CASE UNCHANGED vars
  BY <1>4 DEF vars, Reached, Live
<1>5. QED
  BY <1>1, <1>2, <1>3, <1>4, EnterEffect DEF Next

LEMMA SeenPlaceStep == IInv /\ [Next]_vars => SeenPlace'
<1> SUFFICES ASSUME IInv, [Next]_vars PROVE SeenPlace'
  OBVIOUS
<1> USE DEF IInv, SeenPlace
<1>1. ASSUME NEW m \in work, Process(m) PROVE SeenPlace'
  <2>1. Processed' = Processed \cup {m}
    BY <1>1, ProcessStep
  <2>2. vcalls' = vcalls \cup VirtualCalls(m) /\ g' = g
    BY <1>1, ProcessEffect
  <2>3. \A k : VirtualCalls(k)' = VirtualCalls(k)
    BY <2>2, SameGraph
  <2>4. QED
    BY <2>1, <2>2, <2>3
<1>2. ASSUME NEW C, NEW at, EntersWith(C, at) PROVE SeenPlace'
  <2>1. Processed' = Processed /\ vcalls' = vcalls /\ g' = g
    BY <1>2, EnterStep DEF EntersWith
  <2>2. \A k : VirtualCalls(k)' = VirtualCalls(k)
    BY <2>1, SameGraph
  <2>3. QED
    BY <2>1, <2>2
<1>3. CASE NoComponents \/ UNCHANGED vars
  <2>1. UNCHANGED <<g, stage, work, vcalls>>
    BY <1>3 DEF NoComponents, vars
  <2>2. QED
    BY <2>1, SameGraph DEF Processed, Reached
<1>4. QED
  BY <1>1, <1>2, <1>3, EnterEffect DEF Next

\* Nothing that is begun is undone, and what is started begins.
LEMMA BegunGrows ==
  ASSUME TypeOK, NEW M, NEW C, NEW at, Grows(M, C, at), NEW S \in SUBSET Defined,
         named' = [c \in Defined |-> IF c \in S THEN {} ELSE named[c]]
  PROVE  /\ Begun \subseteq Begun'
         /\ \A c \in C \cap S : Inits({c}) \subseteq M => c \in Begun'
<1>1. \A c : Inits({c})' = Inits({c})
  BY DEF Inits
<1>2. Live \subseteq Live' /\ C \subseteq Live' /\ Reached \subseteq Reached' /\ M \subseteq Reached'
  BY DEF Grows
<1>3. \A c \in Defined : named[c] = {} \/ c \in S => named'[c] = {}
  OBVIOUS
<1>4. Live \subseteq Defined
  BY DEF Live
<1>5. QED
  BY <1>1, <1>2, <1>3, <1>4 DEF Begun, Grows

\* Reading the meta-data of classes whose names are all begun keeps the names' place.
LEMMA NamesGrow ==
  ASSUME TypeOK, NamedPlace, NEW S \in SUBSET Defined, g' = g,
         named' = [c \in Defined |-> IF c \in S THEN {} ELSE named[c]],
         Begun \subseteq Begun', \A c \in S : named[c] \subseteq Begun'
  PROVE  NamedPlace'
<1> SUFFICES ASSUME NEW c \in Defined
             PROVE  named'[c] = g.named[c] \/ (named'[c] = {} /\ g.named[c] \subseteq Begun')
  BY DEF NamedPlace
<1>1. CASE c \in S
  BY <1>1 DEF NamedPlace
<1>2. CASE c \notin S
  BY <1>2 DEF NamedPlace
<1>3. QED
  BY <1>1, <1>2

\* What a step starts: the classes it makes live and whose meta-data it reads.
LEMMA MetaBegins ==
  ASSUME IInv, NEW m \in work, Process(m)
  PROVE  /\ Begun \subseteq Begun' /\ MetaClasses(m) \subseteq Begun'
         /\ \A c \in Comps(m) \cap Defined : named[c] \subseteq MetaClasses(m)
         /\ \A c \in MetaClasses(m) : named[c] \subseteq MetaClasses(m)
<1> DEFINE S == (Comps(m) \cap Defined) \cup MetaClasses(m)
<1>0. TypeOK /\ named \in [Defined -> SUBSET Defined]
  BY DEF IInv, TypeOK
<1>1. /\ MetaClasses(m) \subseteq Defined
      /\ \A c \in MetaClasses(m) : named[c] \subseteq MetaClasses(m)
      /\ (UNION {named[c] : c \in Comps(m) \cap Defined}) \cap Defined \subseteq MetaClasses(m)
  BY <1>0, StartedLeast DEF MetaClasses, Started
<1>2. ASSUME NEW c \in Comps(m) \cap Defined, NEW x \in named[c] PROVE x \in MetaClasses(m)
  <2>1. x \in UNION {named[d] : d \in Comps(m) \cap Defined} /\ x \in Defined
    BY <1>0
  <2>2. QED
    BY <1>1, <2>1
<1>3. Grows(Hit(m), Fresh(m), current)
  BY ProcessStep
<1>4. named' = [c \in Defined |-> IF c \in S THEN {} ELSE named[c]]
  BY <1>0, ProcessEffect
<1>5. Begun \subseteq Begun'
  <2>1. S \in SUBSET Defined
    BY <1>1
  <2> HIDE DEF S
  <2>2. QED
    BY <1>0, <1>3, <1>4, <2>1, BegunGrows
<1>6. ASSUME NEW c \in MetaClasses(m) PROVE c \in Begun'
  <2>1. c \in Live'
    BY <1>1, <1>3 DEF Fresh, Grows
  <2>2. Inits({c}) \subseteq Reached'
    BY <1>3 DEF Hit, Inits, Grows
  <2>3. named'[c] = {}
    BY <1>1, <1>4
  <2>4. Inits({c})' = Inits({c})
    BY DEF Inits
  <2>5. QED
    BY <2>1, <2>2, <2>3, <2>4 DEF Begun
<1>7. QED
  BY <1>1, <1>2, <1>5, <1>6

LEMMA StartBegins ==
  ASSUME IInv, NEW C, NEW at, EntersWith(C, at)
  PROVE  /\ Begun \subseteq Begun' /\ Started(C) \subseteq Begun'
         /\ C \cap Defined \subseteq Started(C)
         /\ \A c \in Started(C) : named[c] \subseteq Started(C)
         /\ named' = [c \in Defined |-> IF c \in Started(C) THEN {} ELSE named[c]]
<1>0. TypeOK /\ named \in [Defined -> SUBSET Defined] /\ at \in 0 .. 3
  BY DEF IInv, TypeOK, EntersWith
<1>1. /\ Started(C) \subseteq Defined /\ C \cap Defined \subseteq Started(C)
      /\ \A c \in Started(C) : named[c] \subseteq Started(C)
  BY <1>0, StartedLeast DEF Started
<1>2. Grows(HitByStart(C), Started(C), at)
  BY EnterStep
<1>3. named' = [c \in Defined |-> IF c \in Started(C) THEN {} ELSE named[c]]
  BY <1>0, StartAllEffect DEF EntersWith
<1>4. \A c \in Started(C) : Inits({c}) \subseteq HitByStart(C)
  BY DEF HitByStart, Inits
<1>5. QED
  BY <1>0, <1>1, <1>2, <1>3, <1>4, BegunGrows

LEMMA NamedPlaceStep == IInv /\ [Next]_vars => NamedPlace'
<1> SUFFICES ASSUME IInv, [Next]_vars PROVE NamedPlace'
  OBVIOUS
<1> USE DEF IInv
<1>1. ASSUME NEW m \in work, Process(m) PROVE NamedPlace'
  <2> DEFINE S == (Comps(m) \cap Defined) \cup MetaClasses(m)
  <2>1. named' = [c \in Defined |-> IF c \in S THEN {} ELSE named[c]] /\ g' = g
    BY <1>1, ProcessEffect
  <2>2. \A c \in S : named[c] \subseteq Begun'
    BY <1>1, MetaBegins
  <2>3. S \in SUBSET Defined
    BY <1>1, ProcessEffect, CodeTypes
  <2> HIDE DEF S
  <2>4. QED
    BY <1>1, <2>1, <2>2, <2>3, MetaBegins, NamesGrow
<1>2. ASSUME NEW C, NEW at, EntersWith(C, at) PROVE NamedPlace'
  <2>1. Started(C) \in SUBSET Defined /\ g' = g
    BY <1>2 DEF EntersWith, Started, StartedBy
  <2>2. \A c \in Started(C) : named[c] \subseteq Begun'
    BY <1>2, StartBegins
  <2>3. QED
    BY <1>2, <2>1, <2>2, StartBegins, NamesGrow
<1>3. CASE NoComponents \/ UNCHANGED vars
  BY <1>3 DEF NoComponents, vars, NamedPlace, Begun, Live, Reached, Inits
<1>4. QED
  BY <1>1, <1>2, <1>3, EnterEffect DEF Next

LEMMA EntryPlaceStep == IInv /\ [Next]_vars => EntryPlace'
<1> SUFFICES ASSUME IInv, [Next]_vars PROVE EntryPlace'
  OBVIOUS
<1> USE DEF IInv, EntryPlace
<1>1. ASSUME NEW m \in work, Process(m) PROVE EntryPlace'
  BY <1>1, MetaBegins, ProcessEffect
<1>2. ASSUME NEW C, NEW at, EntersWith(C, at) PROVE EntryPlace'
  <2>1. Begun \subseteq Begun' /\ C \cap Defined \subseteq Begun' /\ g' = g
    BY <1>2, StartBegins DEF EntersWith
  <2>2. ASSUME NEW i \in {0, 1}, i < next' PROVE i < next \/ g.entry[i] = C
    BY <1>2, <2>2 DEF EntersWith, TypeOK
  <2>3. QED
    BY <2>1, <2>2
<1>3. CASE NoComponents
  <2>1. Begun' = Begun /\ g' = g /\ next \in {2, 3}
    BY <1>3 DEF NoComponents, Begun, Live, Reached, Inits
  <2>2. QED
    BY <2>1
<1>4. CASE UNCHANGED vars
  BY <1>4 DEF vars, Begun, Live, Reached, Inits
<1>5. QED
  BY <1>1, <1>2, <1>3, <1>4, EnterEffect DEF Next

LEMMA LivePlaceStep == IInv /\ [Next]_vars => LivePlace'
<1> SUFFICES ASSUME IInv, [Next]_vars PROVE LivePlace'
  OBVIOUS
<1> USE DEF IInv, LivePlace
<1>0. \A c : Inits({c})' = Inits({c})
  BY DEF Inits
<1>1. ASSUME NEW m \in work, Process(m) PROVE LivePlace'
  <2>1. Processed' = Processed \cup {m} /\ Reached \subseteq Reached' /\ Live' = Live \cup Fresh(m)
    BY <1>1, ProcessStep DEF Grows
  <2>2. \A n : News(n)' = News(n)
    BY <1>1, ProcessEffect, SameGraph
  <2>3. ASSUME NEW c \in Fresh(m) PROVE c \in News(m) \/ Inits({c}) \subseteq Reached'
    <3>1. c \in News(m) \/ c \in Begun'
      BY <1>1, MetaBegins DEF Fresh
    <3>2. QED
      BY <1>0, <3>1 DEF Begun
  <2>4. QED
    BY <1>0, <2>1, <2>2, <2>3
<1>2. ASSUME NEW C, NEW at, EntersWith(C, at) PROVE LivePlace'
  <2>1. Processed' = Processed /\ Reached \subseteq Reached' /\ Live' = Live \cup Started(C)
    BY <1>2, EnterStep DEF Grows
  <2>2. \A n : News(n)' = News(n)
    BY <1>2, SameGraph DEF EntersWith
  <2>3. \A c \in Started(C) : Inits({c}) \subseteq Reached'
    BY <1>0, <1>2, StartBegins DEF Begun
  <2>4. QED
    BY <1>0, <2>1, <2>2, <2>3
<1>3. CASE NoComponents \/ UNCHANGED vars
  <2>1. UNCHANGED <<g, stage, since, work>>
    BY <1>3 DEF NoComponents, vars
  <2>2. QED
    BY <1>0, <2>1, SameGraph DEF Processed, Reached, Live
<1>4. QED
  BY <1>1, <1>2, <1>3, EnterEffect DEF Next

LEMMA CompPlaceStep == IInv /\ [Next]_vars => CompPlace'
<1> SUFFICES ASSUME IInv, [Next]_vars PROVE CompPlace'
  OBVIOUS
<1> USE DEF IInv, CompPlace
<1>1. ASSUME NEW m \in work, Process(m) PROVE CompPlace'
  <2>1. Processed' = Processed \cup {m} /\ Live' = Live \cup Fresh(m)
    BY <1>1, ProcessStep DEF Grows
  <2>2. \A k : Comps(k)' = Comps(k)
    BY <1>1, ProcessEffect, SameGraph
  <2>3. \A c \in Comps(m) \cap Defined : c \in Live' \cup pending' /\ named'[c] = {}
    BY <1>1, <2>1, ProcessEffect
  <2>4. pending \subseteq pending' /\ \A c \in Defined : named[c] = {} => named'[c] = {}
    BY <1>1, ProcessEffect
  <2>5. QED
    BY <2>1, <2>2, <2>3, <2>4
<1>2. ASSUME NEW C, NEW at, EntersWith(C, at) PROVE CompPlace'
  <2>1. Processed' = Processed /\ Live' = Live \cup Started(C)
    BY <1>2, EnterStep DEF Grows
  <2>2. \A k : Comps(k)' = Comps(k)
    BY <1>2, SameGraph DEF EntersWith
  <2>3. \A c \in Defined : named[c] = {} => named'[c] = {}
    BY <1>2, StartBegins
  <2>4. pending \cap Defined \subseteq Started(C) \cup pending'
    BY <1>2, StartBegins DEF EntersWith
  <2>5. QED
    BY <2>1, <2>2, <2>3, <2>4
<1>3. CASE NoComponents \/ UNCHANGED vars
  <2>1. UNCHANGED <<g, stage, since, work, named, pending>>
    BY <1>3 DEF NoComponents, vars
  <2>2. QED
    BY <2>1, SameGraph DEF Processed, Reached, Live
<1>4. QED
  BY <1>1, <1>2, <1>3, EnterEffect DEF Next

\* Stages are ordered numbers, so what is no later than a reached method is reached.
LEMMA NoLater ==
  ASSUME TypeOK, StagePlace
  PROVE  /\ \A k \in Method : \A i \in 0 .. 3 : stage[k] <= i => k \in Reached
         /\ \A c \in Defined : \A i \in 0 .. 3 : since[c] <= i => c \in Live
         /\ \A k \in Reached : stage[k] \in 0 .. 3
         /\ \A c \in Live : since[c] \in 0 .. 3
BY DEF TypeOK, Stage, Reached, Live, Unreached

\* What a step reaches and what was reached is no later than the stage it enters.
LEMMA GrownNoLater ==
  ASSUME IInv, NEW M, NEW C, NEW at, Grows(M, C, at)
  PROVE  /\ \A k \in Reached \cup M : stage'[k] <= at
         /\ \A c \in Live \cup C : since'[c] <= at
BY NoLater DEF IInv, TypeOK, StagePlace, Grows

LEMMA NeedsNoLaterStep == IInv /\ [Next]_vars => NeedsNoLater'
<1> SUFFICES ASSUME IInv, [Next]_vars PROVE NeedsNoLater'
  OBVIOUS
<1> DEFINE Needs(m) ==
      /\ \A n \in Landings(m) : n \in Reached /\ stage[n] <= stage[m]
      /\ \A c \in News(m) : c \in Live /\ since[c] <= stage[m]
      /\ \A c \in Comps(m) \cap Defined : \A d \in g.named[c] : d \in Live /\ since[d] <= stage[m]
<1>a. TypeOK /\ StagePlace /\ NeedsNoLater
  BY DEF IInv
<1>b. ASSUME NEW m \in Processed PROVE m \in Method /\ m \in Reached /\ Needs(m)
  <2>1. m \in Reached /\ m \in Method /\ stage[m] \in 0 .. 3
    BY <1>a, NoLater DEF Processed, Reached
  <2>2. Landings(m) \subseteq Method /\ News(m) \subseteq Defined
    BY <1>a, <2>1, CodeTypes
  <2>3. \A c \in Defined : g.named[c] \subseteq Defined
    BY <1>a DEF TypeOK, Graph
  <2>4. QED
    BY <1>a, <2>1, <2>2, <2>3, NoLater DEF NeedsNoLater
<1>c. ASSUME NEW M, NEW C, NEW at, Grows(M, C, at), NEW m \in Processed
      PROVE  /\ \A n \in Landings(m) : stage'[n] <= stage'[m]
             /\ \A c \in News(m) : since'[c] <= stage'[m]
             /\ \A c \in Comps(m) \cap Defined : \A d \in g.named[c] : since'[d] <= stage'[m]
  BY <1>b, <1>c DEF Grows
<1>1. ASSUME NEW m \in work, Process(m) PROVE NeedsNoLater'
  <2>0. /\ Grows(Hit(m), Fresh(m), current) /\ Processed' = Processed \cup {m} /\ g' = g
        /\ m \in Reached /\ stage[m] = current
    BY <1>a, <1>1, ProcessStep, ProcessEffect
  <2>1. \A k : Landings(k)' = Landings(k) /\ News(k)' = News(k) /\ Comps(k)' = Comps(k)
    BY <2>0, SameGraph
  <2>2. stage'[m] = current
    BY <2>0 DEF Grows
  <2>3. /\ \A k \in Reached \cup Hit(m) : stage'[k] <= current
        /\ \A c \in Live \cup Fresh(m) : since'[c] <= current
    BY <2>0, GrownNoLater
  <2>4. Landings(m) \subseteq Hit(m) /\ News(m) \subseteq Live \cup Fresh(m)
    BY DEF Hit, Fresh
  <2>5. ASSUME NEW c \in Comps(m) \cap Defined, NEW d \in g.named[c] PROVE since'[d] <= current
    <3>1. named[c] \subseteq Live \cup Fresh(m)
      BY <1>1, MetaBegins DEF Fresh
    <3>2. named[c] = g.named[c] \/ g.named[c] \subseteq Live
      BY DEF IInv, NamedPlace, Begun
    <3>3. QED
      BY <2>3, <3>1, <3>2
  <2>6. QED
    BY <1>c, <2>0, <2>1, <2>2, <2>3, <2>4, <2>5 DEF NeedsNoLater
<1>2. ASSUME NEW C, NEW at, EntersWith(C, at) PROVE NeedsNoLater'
  <2>0. Grows(HitByStart(C), Started(C), at) /\ Processed' = Processed /\ g' = g
    BY <1>2, EnterStep DEF EntersWith
  <2>1. \A k : Landings(k)' = Landings(k) /\ News(k)' = News(k) /\ Comps(k)' = Comps(k)
    BY <2>0, SameGraph
  <2>2. QED
    BY <1>c, <2>0, <2>1 DEF NeedsNoLater
<1>3. CASE NoComponents \/ UNCHANGED vars
  <2>1. UNCHANGED <<g, stage, since, work>>
    BY <1>3 DEF NoComponents, vars
  <2>2. QED
    BY <1>a, <2>1, SameGraph DEF Processed, Reached, NeedsNoLater
<1>4. QED
  BY <1>1, <1>2, <1>3, <1>a, EnterEffect DEF Next

\* What instantiating a class reaches: what the framework calls on it, and what a call seen
\* before dispatches to.
LEMMA OverridesHas ==
  ASSUME NEW c \in Defined, NEW s \in Dispatchable[c], Resolve(c, s) # NoMethod,
         NEW V \in SUBSET (Class \X Sig),
         s \in Callbacks[c] \/ \E v \in V : v[2] = s /\ v[1] \in Supertypes[c]
  PROVE  Resolve(c, s) \in Overrides(c, V)
<1>1. ASSUME NEW v \in V, v[2] = s PROVE <<v[1], s>> \in V
  BY <1>1
<1>2. s \in Callbacks[c] \/ \E p \in Supertypes[c] : <<p, s>> \in V
  BY <1>1
<1>3. QED
  BY <1>2 DEF Overrides

\* A class of a step dispatches: what it overrides is reached with it.
LEMMA FreshDispatches ==
  ASSUME IInv, NEW M, NEW C, NEW at, Grows(M, C, at), NEW V \in SUBSET (Class \X Sig),
         NEW c \in C \ Live, Overrides(c, V) \subseteq M,
         NEW s \in Dispatchable[c], Resolve(c, s) # NoMethod,
         s \in Callbacks[c] \/ \E v \in V : v[2] = s /\ v[1] \in Supertypes[c]
  PROVE  stage'[Resolve(c, s)] <= since'[c]
<1>1. c \in Defined /\ since'[c] = at
  BY DEF Grows
<1>2. Resolve(c, s) \in M
  BY <1>1, OverridesHas
<1>3. QED
  BY <1>1, <1>2, GrownNoLater

LEMMA DispatchStep == IInv /\ [Next]_vars => DispatchIsComplete'
<1> SUFFICES ASSUME IInv, [Next]_vars PROVE DispatchIsComplete'
  OBVIOUS
<1> DEFINE Meets(c, s, m) == \E v \in VirtualCalls(m) : v[2] = s /\ v[1] \in Supertypes[c]
<1>a. TypeOK /\ StagePlace /\ DispatchIsComplete /\ SeenPlace
  BY DEF IInv
<1>b. ASSUME NEW c \in Live, NEW s \in Dispatchable[c], Resolve(c, s) # NoMethod
      PROVE  /\ Resolve(c, s) \in Method
             /\ s \in Callbacks[c] => stage[Resolve(c, s)] <= since[c]
             /\ \A m \in Processed : Meets(c, s, m) =>
                  stage[Resolve(c, s)] <= stage[m] \/ stage[Resolve(c, s)] <= since[c]
  <2>1. c \in Class /\ s \in Sig
    BY ReachAssumption DEF Live, Dispatchable
  <2>2. Resolve(c, s) \in Method
    BY <1>b, <2>1, ResolveType
  <2>3. QED
    BY <1>a, <1>b, <2>2 DEF DispatchIsComplete
<1>c. ASSUME NEW M, NEW C, NEW at, Grows(M, C, at),
             NEW c \in Live, NEW s \in Dispatchable[c], Resolve(c, s) # NoMethod
      PROVE  /\ s \in Callbacks[c] => stage'[Resolve(c, s)] <= since'[c]
             /\ \A m \in Processed : Meets(c, s, m) =>
                  stage'[Resolve(c, s)] <= stage'[m] \/ stage'[Resolve(c, s)] <= since'[c]
  <2> DEFINE t == Resolve(c, s)
  <2>1. t \in Method /\ since'[c] = since[c] /\ since[c] \in 0 .. 3
    BY <1>a, <1>b, <1>c, NoLater DEF Grows
  <2>2. s \in Callbacks[c] => stage'[t] <= since'[c]
    <3>1. s \in Callbacks[c] => stage[t] <= since[c]
      BY <1>b, <1>c
    <3>2. s \in Callbacks[c] => t \in Reached
      BY <1>a, <2>1, <3>1, NoLater
    <3>3. QED
      BY <1>c, <2>1, <3>1, <3>2 DEF Grows
  <2>3. ASSUME NEW m \in Processed, Meets(c, s, m)
        PROVE  stage'[t] <= stage'[m] \/ stage'[t] <= since'[c]
    <3>1. m \in Reached /\ stage'[m] = stage[m] /\ stage[m] \in 0 .. 3
      BY <1>a, <1>c, NoLater DEF Grows, Processed
    <3>2. stage[t] <= stage[m] \/ stage[t] <= since[c]
      BY <1>b, <1>c, <2>3
    <3>3. t \in Reached
      BY <1>a, <2>1, <3>1, <3>2, NoLater
    <3>4. stage'[t] = stage[t]
      BY <1>c, <3>3 DEF Grows
    <3>5. QED
      BY <2>1, <3>1, <3>2, <3>4
  <2>4. QED
    BY <2>2, <2>3
<1>d. ASSUME NEW c \in Live', NEW s \in Dispatchable[c], Resolve(c, s) # NoMethod,
             \A k : VirtualCalls(k)' = VirtualCalls(k),
             s \in Callbacks[c] => stage'[Resolve(c, s)] <= since'[c],
             \A m \in Processed' : Meets(c, s, m) =>
                  stage'[Resolve(c, s)] <= stage'[m] \/ stage'[Resolve(c, s)] <= since'[c]
      PROVE  LET target == Resolve(c, s)
             IN  target # NoMethod =>
                  /\ s \in Callbacks[c] => stage'[target] <= since'[c]
                  /\ \A m \in Processed' : \A v \in VirtualCalls(m)' :
                       v[2] = s /\ v[1] \in Supertypes[c] =>
                         stage'[target] <= stage'[m] \/ stage'[target] <= since'[c]
  BY <1>d
<1>1. ASSUME NEW m \in work, Process(m) PROVE DispatchIsComplete'
  <2>0. /\ Grows(Hit(m), Fresh(m), current) /\ Processed' = Processed \cup {m} /\ g' = g
        /\ m \in Reached /\ stage[m] = current /\ m \in Method /\ Fresh(m) \cap Live = {}
    BY <1>1, <1>a, ProcessStep, ProcessEffect DEF Fresh
  <2>1. \A k : VirtualCalls(k)' = VirtualCalls(k)
    BY <2>0, SameGraph
  <2>2. Live' = Live \cup Fresh(m) /\ stage'[m] = current
    BY <2>0 DEF Grows
  <2>3. ASSUME NEW c \in Live, NEW s \in Dispatchable[c], Resolve(c, s) # NoMethod
        PROVE  /\ s \in Callbacks[c] => stage'[Resolve(c, s)] <= since'[c]
               /\ \A k \in Processed' : Meets(c, s, k) =>
                    stage'[Resolve(c, s)] <= stage'[k] \/ stage'[Resolve(c, s)] <= since'[c]
    <3>1. ASSUME Meets(c, s, m) PROVE stage'[Resolve(c, s)] <= stage'[m]
      <4>1. Resolve(c, s) \in DispatchedOn(c, m)
        BY <3>1 DEF DispatchedOn
      <4>2. Resolve(c, s) \in Dispatched(m)
        BY <2>3, <4>1 DEF Dispatched
      <4>3. QED
        BY <2>0, <2>2, <4>2, GrownNoLater DEF Hit
    <3>2. /\ s \in Callbacks[c] => stage'[Resolve(c, s)] <= since'[c]
          /\ \A k \in Processed : Meets(c, s, k) =>
               stage'[Resolve(c, s)] <= stage'[k] \/ stage'[Resolve(c, s)] <= since'[c]
      BY <1>c, <2>0, <2>3
    <3> HIDE DEF Meets
    <3>3. QED
      BY <2>0, <3>1, <3>2
  <2>4. ASSUME NEW c \in Fresh(m), NEW s \in Dispatchable[c], Resolve(c, s) # NoMethod
        PROVE  /\ s \in Callbacks[c] => stage'[Resolve(c, s)] <= since'[c]
               /\ \A k \in Processed' : Meets(c, s, k) => stage'[Resolve(c, s)] <= since'[c]
    <3> DEFINE V == vcalls \cup VirtualCalls(m)
    <3>1. V \in SUBSET (Class \X Sig)
      BY <1>a, <2>0, CodeTypes DEF TypeOK
    <3>2. Overrides(c, V) \subseteq Hit(m) /\ c \in Fresh(m) \ Live
      BY <2>0 DEF Hit
    <3>3. \A k \in Processed' : VirtualCalls(k) \subseteq V
      BY <1>a, <2>0 DEF SeenPlace
    <3> HIDE DEF V
    <3>4. \A k \in Processed' : Meets(c, s, k) =>
            \E v \in V : v[2] = s /\ v[1] \in Supertypes[c]
      BY <3>3
    <3>5. s \in Callbacks[c] \/ (\E v \in V : v[2] = s /\ v[1] \in Supertypes[c]) =>
            stage'[Resolve(c, s)] <= since'[c]
      BY <2>0, <2>4, <3>1, <3>2, FreshDispatches
    <3>6. QED
      BY <3>4, <3>5
  <2> HIDE DEF Meets
  <2>5. QED
    BY <1>d, <2>1, <2>2, <2>3, <2>4 DEF DispatchIsComplete
<1>2. ASSUME NEW C, NEW at, EntersWith(C, at) PROVE DispatchIsComplete'
  <2>0. /\ Grows(HitByStart(C), Started(C), at) /\ Processed' = Processed /\ g' = g
    BY <1>2, EnterStep DEF EntersWith
  <2>1. \A k : VirtualCalls(k)' = VirtualCalls(k)
    BY <2>0, SameGraph
  <2>2. Live' = Live \cup Started(C)
    BY <2>0 DEF Grows
  <2>3. ASSUME NEW c \in Live, NEW s \in Dispatchable[c], Resolve(c, s) # NoMethod
        PROVE  /\ s \in Callbacks[c] => stage'[Resolve(c, s)] <= since'[c]
               /\ \A k \in Processed' : Meets(c, s, k) =>
                    stage'[Resolve(c, s)] <= stage'[k] \/ stage'[Resolve(c, s)] <= since'[c]
    BY <1>c, <2>0, <2>3
  <2>4. ASSUME NEW c \in Started(C) \ Live, NEW s \in Dispatchable[c], Resolve(c, s) # NoMethod
        PROVE  /\ s \in Callbacks[c] => stage'[Resolve(c, s)] <= since'[c]
               /\ \A k \in Processed' : Meets(c, s, k) => stage'[Resolve(c, s)] <= since'[c]
    <3>1. vcalls \in SUBSET (Class \X Sig)
      BY <1>a DEF TypeOK
    <3>2. Overrides(c, vcalls) \subseteq HitByStart(C)
      BY DEF HitByStart
    <3>3. \A k \in Processed' : Meets(c, s, k) =>
            \E v \in vcalls : v[2] = s /\ v[1] \in Supertypes[c]
      BY <1>a, <2>0 DEF SeenPlace
    <3>4. s \in Callbacks[c] \/ (\E v \in vcalls : v[2] = s /\ v[1] \in Supertypes[c]) =>
            stage'[Resolve(c, s)] <= since'[c]
      BY <2>0, <2>4, <3>1, <3>2, FreshDispatches
    <3>5. QED
      BY <3>3, <3>4
  <2> HIDE DEF Meets
  <2>5. QED
    BY <1>d, <2>1, <2>2, <2>3, <2>4 DEF DispatchIsComplete
<1>3. CASE NoComponents \/ UNCHANGED vars
  <2>1. UNCHANGED <<g, stage, since, work>>
    BY <1>3 DEF NoComponents, vars
  <2>2. QED
    BY <1>a, <2>1, SameGraph DEF Processed, Reached, Live, DispatchIsComplete
<1>4. QED
  BY <1>1, <1>2, <1>3, <1>a, EnterEffect DEF Next

LEMMA IInvInit == Init => IInv
<1> SUFFICES ASSUME Init PROVE IInv
  OBVIOUS
<1>1. TypeOK
  BY ReachTypeInit
<1>2. Reached = {} /\ Live = {} /\ Processed = {}
  BY DEF Init, Reached, Live, Processed
<1>3. QED
  BY <1>1, <1>2
  DEF Init, IInv, StagePlace, SeenPlace, NamedPlace, EntryPlace, LivePlace, CompPlace,
      NeedsNoLater, DispatchIsComplete

\* What is reached, live and started at each point of the analysis.
THEOREM ReachInvariant == Spec => []IInv
<1>1. IInv /\ [Next]_vars => IInv'
  BY ReachTypeStep, StagePlaceStep, SeenPlaceStep, NamedPlaceStep, EntryPlaceStep, LivePlaceStep,
     CompPlaceStep, NeedsNoLaterStep, DispatchStep
  DEF IInv
<1>2. QED
  BY <1>1, IInvInit, PTL DEF Spec

-----------------------------------------------------------------------------
(* What follows from it. *)

\* What a method needs of its own accord is staged no later than the method, whatever the
\* order of the work.
THEOREM ReachNeedsNoLater == Spec => []NeedsNoLater
<1>1. IInv => NeedsNoLater
  BY DEF IInv
<1>2. QED
  BY <1>1, ReachInvariant, PTL

\* A virtual call and an instantiation meet whichever comes first.
THEOREM ReachDispatchIsComplete == Spec => []DispatchIsComplete
<1>1. IInv => DispatchIsComplete
  BY DEF IInv
<1>2. QED
  BY <1>1, ReachInvariant, PTL

-----------------------------------------------------------------------------
(* The result is closed ... *)

\* A set that is begun holds all that starting its classes starts.
LEMMA StartsWithin ==
  ASSUME TypeOK, NEW C, NEW S \in SUBSET Defined, C \cap Defined \subseteq S,
         \A x \in S : g.named[x] \subseteq S
  PROVE  Starts(C) \subseteq S
<1>1. g.named \in [Defined -> SUBSET Defined]
  BY DEF TypeOK, Graph
<1>2. QED
  BY <1>1, StartedLeast DEF Starts

LEMMA ClosedAtTheEnd == IInv /\ next = 4 => Closed(Reached, Live)
<1> SUFFICES ASSUME IInv, next = 4 PROVE Closed(Reached, Live)
  OBVIOUS
<1>a. /\ TypeOK /\ StagePlace /\ NamedPlace /\ EntryPlace /\ LivePlace /\ CompPlace
      /\ NeedsNoLater /\ DispatchIsComplete
  BY DEF IInv
<1>b. Processed = Reached /\ pending = {}
  BY <1>a DEF StagePlace, Processed
<1>c. Begun \subseteq Live /\ Live \subseteq Defined /\ \A c \in Begun : Inits({c}) \subseteq Reached
  BY DEF Begun, Live
<1>d. \A x \in Begun : g.named[x] \subseteq Begun
  BY <1>a, <1>c DEF NamedPlace, Begun
<1>1. ASSUME NEW i \in {0, 1}
      PROVE  Starts(g.entry[i]) \subseteq Live /\ Inits(Starts(g.entry[i])) \subseteq Reached
  <2>1. g.entry[i] \cap Defined \subseteq Begun
    BY <1>a DEF EntryPlace
  <2>2. Starts(g.entry[i]) \subseteq Begun
    BY <1>a, <1>c, <1>d, <2>1, StartsWithin
  <2>3. QED
    BY <1>c, <2>2 DEF Inits
<1>2. ASSUME NEW m \in Reached
      PROVE  /\ News(m) \subseteq Live /\ Landings(m) \subseteq Reached
             /\ \A c \in Comps(m) \cap Defined :
                  /\ Starts({c}) \subseteq Live /\ Inits(Starts({c}) \ {c}) \subseteq Reached
                  /\ Inits({c}) \subseteq Reached \/ \E n \in Reached : c \in News(n)
  <2>1. m \in Method /\ stage[m] \in 0 .. 3 /\ m \in Processed
    BY <1>a, <1>b, NoLater DEF Reached
  <2>2. News(m) \subseteq Live /\ Landings(m) \subseteq Reached
    <3>1. Landings(m) \subseteq Method /\ News(m) \subseteq Defined
      BY <1>a, <2>1, CodeTypes
    <3>2. QED
      BY <1>a, <2>1, <3>1, NoLater DEF NeedsNoLater
  <2>3. ASSUME NEW c \in Comps(m) \cap Defined
        PROVE  /\ Starts({c}) \subseteq Live /\ Inits(Starts({c}) \ {c}) \subseteq Reached
               /\ Inits({c}) \subseteq Reached \/ \E n \in Reached : c \in News(n)
    <3>1. c \in Live /\ named[c] = {}
      BY <1>a, <1>b, <2>1 DEF CompPlace
    <3>2. Inits({c}) \subseteq Reached \/ \E n \in Reached : c \in News(n)
      BY <1>a, <1>b, <3>1 DEF LivePlace
    <3>3. g.named[c] \subseteq Begun
      BY <1>a, <3>1 DEF NamedPlace
    <3>4. Starts({c}) \subseteq Begun \cup {c}
      <4>1. Begun \cup {c} \in SUBSET Defined /\ {c} \cap Defined \subseteq Begun \cup {c}
        BY <1>c
      <4>2. \A x \in Begun \cup {c} : g.named[x] \subseteq Begun \cup {c}
        BY <1>d, <3>3
      <4>3. QED
        BY <1>a, <4>1, <4>2, StartsWithin
    <3>5. QED
      BY <1>c, <3>1, <3>2, <3>4 DEF Inits
  <2>4. QED
    BY <2>2, <2>3
<1>3. ASSUME NEW c \in Live
      PROVE  Overrides(c, UNION {VirtualCalls(m) : m \in Reached}) \subseteq Reached
  <2> DEFINE V == UNION {VirtualCalls(m) : m \in Reached}
  <2>1. c \in Class /\ since[c] \in 0 .. 3
    BY <1>a, NoLater, ReachAssumption DEF Live
  <2>2. ASSUME NEW s \in Dispatchable[c], Resolve(c, s) # NoMethod,
               s \in Callbacks[c] \/ \E p \in Supertypes[c] : <<p, s>> \in V
        PROVE  Resolve(c, s) \in Reached
    <3>1. s \in Sig
      BY <2>1 DEF Dispatchable, Live
    <3>2. Resolve(c, s) \in Method
      BY <2>1, <2>2, <3>1, ResolveType
    <3>3. CASE s \in Callbacks[c]
      BY <1>a, <2>1, <2>2, <3>2, <3>3, NoLater DEF DispatchIsComplete
    <3>4. ASSUME NEW p \in Supertypes[c], NEW m \in Reached, <<p, s>> \in VirtualCalls(m)
          PROVE  Resolve(c, s) \in Reached
      <4>1. stage[m] \in 0 .. 3 /\ m \in Processed
        BY <1>a, <1>b, NoLater
      <4>2. <<p, s>>[2] = s /\ <<p, s>>[1] \in Supertypes[c]
        OBVIOUS
      <4>3. stage[Resolve(c, s)] <= stage[m] \/ stage[Resolve(c, s)] <= since[c]
        BY <1>a, <2>2, <3>4, <4>1, <4>2 DEF DispatchIsComplete
      <4>4. QED
        BY <1>a, <2>1, <3>2, <4>1, <4>3, NoLater
    <3>5. QED
      BY <2>2, <3>3, <3>4
  <2> HIDE DEF V
  <2>3. Overrides(c, V) \subseteq Reached
    BY <2>2 DEF Overrides
  <2>4. QED
    BY <2>3 DEF V
<1>4. QED
  BY <1>1, <1>2, <1>3 DEF Closed

-----------------------------------------------------------------------------
(* ... and nothing is reached without a reason. *)

\* Methods and live classes hold what was reached and what waits to be.
Holds(M, L) ==
  /\ Reached \subseteq M /\ Live \subseteq L
  /\ \A v \in vcalls : \E m \in M : v \in VirtualCalls(m)
  /\ \A c \in pending : \E m \in M : c \in Comps(m)

EveryClosedHolds ==
  \A M \in SUBSET Method : \A L \in SUBSET Defined : ClosedWholly(M, L) => Holds(M, L)

\* What the components named in M start.
AllStarted(M) == {x \in Defined : \E m \in M : \E c \in Comps(m) \cap Defined : x \in Starts({c})}

LEMMA AllStartedHeld ==
  ASSUME TypeOK, NEW M \in SUBSET Method, NEW L \in SUBSET Defined, ClosedWholly(M, L)
  PROVE  /\ AllStarted(M) \subseteq L /\ Inits(AllStarted(M)) \subseteq M
         /\ \A x \in AllStarted(M) : g.named[x] \subseteq AllStarted(M)
         /\ \A m \in M : Comps(m) \cap Defined \subseteq AllStarted(M)
<1>0. g.named \in [Defined -> SUBSET Defined]
  BY DEF TypeOK, Graph
<1>1. AllStarted(M) \subseteq L
  BY DEF AllStarted, ClosedWholly, Closed
<1>2. ASSUME NEW i \in Inits(AllStarted(M)) PROVE i \in M
  <2>1. PICK m \in M : \E c \in Comps(m) \cap Defined : i[1] \in Starts({c})
    BY DEF Inits, AllStarted
  <2>2. PICK c \in Comps(m) \cap Defined : i[1] \in Starts({c})
    BY <2>1
  <2>3. CASE i[1] = c
    BY <2>2, <2>3 DEF Inits, ClosedWholly
  <2>4. CASE i[1] # c
    BY <2>2, <2>4 DEF Inits, ClosedWholly, Closed
  <2>5. QED
    BY <2>3, <2>4
<1>3. ASSUME NEW x \in AllStarted(M), NEW y \in g.named[x] PROVE y \in AllStarted(M)
  <2>1. PICK m \in M : \E c \in Comps(m) \cap Defined : x \in Starts({c})
    BY DEF AllStarted
  <2>2. PICK c \in Comps(m) \cap Defined : x \in Starts({c})
    BY <2>1
  <2>3. y \in Starts({c}) /\ y \in Defined
    BY <1>0, <2>2, StartedLeast DEF Starts
  <2>4. QED
    BY <2>3 DEF AllStarted
<1>4. ASSUME NEW m \in M, NEW c \in Comps(m) \cap Defined PROVE c \in AllStarted(M)
  <2>1. c \in Starts({c})
    BY <1>0, StartedLeast DEF Starts
  <2>2. QED
    BY <2>1 DEF AllStarted
<1>5. QED
  BY <1>1, <1>2, <1>3, <1>4

\* Starting classes of a set that is closed under what their meta-data name stays in it.
LEMMA StartedWithin ==
  ASSUME TypeOK, NamedPlace, NEW C, NEW S \in SUBSET Defined, C \cap Defined \subseteq S,
         \A x \in S : g.named[x] \subseteq S
  PROVE  Started(C) \subseteq S
<1>1. named \in [Defined -> SUBSET Defined] /\ \A x \in S : named[x] \subseteq S
  BY DEF TypeOK, NamedPlace
<1>2. QED
  BY <1>1, StartedLeast DEF Started

LEMMA OverridesHeld ==
  ASSUME NEW M \in SUBSET Method, NEW L \in SUBSET Defined, ClosedWholly(M, L), NEW c \in L,
         NEW V, \A v \in V : \E m \in M : v \in VirtualCalls(m)
  PROVE  Overrides(c, V) \subseteq M
<1> DEFINE W == UNION {VirtualCalls(m) : m \in M}
<1>1. V \subseteq W
  OBVIOUS
<1>2. Overrides(c, W) \subseteq M
  BY DEF ClosedWholly, Closed
<1> HIDE DEF W
<1>3. Overrides(c, V) \subseteq Overrides(c, W)
  BY <1>1 DEF Overrides
<1>4. QED
  BY <1>2, <1>3

LEMMA SameClosed ==
  ASSUME g' = g, NEW M, NEW L
  PROVE  ClosedWholly(M, L)' = ClosedWholly(M, L)
BY DEF ClosedWholly, Closed, Starts, StartedBy, Landings, News, Comps, Calls, VirtualCalls, Inits,
       Overrides

LEMMA HoldsStep == IInv /\ EveryClosedHolds /\ [Next]_vars => EveryClosedHolds'
<1> SUFFICES ASSUME IInv, EveryClosedHolds, [Next]_vars,
                    NEW M \in SUBSET Method, NEW L \in SUBSET Defined, ClosedWholly(M, L)'
             PROVE  Holds(M, L)'
  BY DEF EveryClosedHolds
<1>a. TypeOK /\ StagePlace /\ NamedPlace
  BY DEF IInv
<1>b. g' = g
  BY DEF Next, Process, EnterStart, EnterComponents, NoComponents, vars
<1>c. ClosedWholly(M, L)
  BY <1>b, SameClosed
<1>d. Holds(M, L)
  BY <1>c DEF EveryClosedHolds
<1>e. \A k : VirtualCalls(k)' = VirtualCalls(k) /\ Comps(k)' = Comps(k)
  BY <1>b, SameGraph
<1>f. AllStarted(M) \in SUBSET Defined
  BY DEF AllStarted
<1>1. ASSUME NEW m \in work, Process(m) PROVE Holds(M, L)'
  <2>1. m \in M /\ m \in Method
    BY <1>1, <1>a, <1>d, ProcessStep, ProcessEffect DEF Holds
  <2>2. Grows(Hit(m), Fresh(m), current)
    BY <1>1, ProcessStep
  <2>3. MetaClasses(m) \subseteq AllStarted(M)
    <3>1. (UNION {named[c] : c \in Comps(m) \cap Defined}) \subseteq AllStarted(M)
      BY <1>a, <1>c, <2>1, AllStartedHeld DEF NamedPlace
    <3>2. QED
      BY <1>a, <1>c, <1>f, <3>1, AllStartedHeld, StartedWithin DEF MetaClasses
  <2>4. MetaClasses(m) \subseteq L /\ Inits(MetaClasses(m)) \subseteq M
    BY <1>a, <1>c, <2>3, AllStartedHeld DEF Inits
  <2>5. Fresh(m) \subseteq L
    BY <1>c, <2>1, <2>4 DEF Fresh, ClosedWholly, Closed
  <2>6. \A v \in vcalls \cup VirtualCalls(m) : \E k \in M : v \in VirtualCalls(k)
    BY <1>d, <2>1 DEF Holds
  <2>7. \A c \in Fresh(m) : Overrides(c, vcalls \cup VirtualCalls(m)) \subseteq M
    BY <1>c, <2>5, <2>6, OverridesHeld
  <2>8. Landings(m) \subseteq M
    BY <1>c, <2>1 DEF ClosedWholly, Closed
  <2>9. ASSUME NEW t \in Dispatched(m) PROVE t \in M
    <3>1. PICK c \in Live : t \in DispatchedOn(c, m)
      BY DEF Dispatched
    <3>2. PICK v \in VirtualCalls(m) : t = Resolve(c, v[2]) /\ v[1] \in Supertypes[c]
      BY <3>1 DEF DispatchedOn
    <3>3. t # NoMethod
      BY DEF Dispatched
    <3>4. QED
      BY <1>c, <1>d, <2>1, <3>2, <3>3 DEF ClosedWholly, Holds
  <2>10. Hit(m) \subseteq M
    BY <2>4, <2>7, <2>8, <2>9 DEF Hit
  <2>11. vcalls' = vcalls \cup VirtualCalls(m) /\ pending' \subseteq pending \cup Comps(m)
    BY <1>1, <1>a, ProcessEffect
  <2>12. QED
    BY <1>d, <1>e, <2>1, <2>2, <2>5, <2>6, <2>10, <2>11 DEF Holds, Grows
<1>2. ASSUME NEW C, NEW at, EntersWith(C, at) PROVE Holds(M, L)'
  <2>1. Grows(HitByStart(C), Started(C), at)
    BY <1>2, EnterStep
  <2>2. Started(C) \subseteq L /\ Inits(Started(C)) \subseteq M
    <3>1. CASE C = pending
      <4>1. C \cap Defined \subseteq AllStarted(M)
        BY <1>a, <1>c, <1>d, <3>1, AllStartedHeld DEF Holds
      <4>2. Started(C) \subseteq AllStarted(M)
        BY <1>a, <1>c, <1>f, <4>1, AllStartedHeld, StartedWithin
      <4>3. QED
        BY <1>a, <1>c, <4>2, AllStartedHeld DEF Inits
    <3>2. ASSUME NEW i \in {0, 1}, C = g.entry[i]
          PROVE  Started(C) \subseteq L /\ Inits(Started(C)) \subseteq M
      <4>1. g.named \in [Defined -> SUBSET Defined]
        BY <1>a DEF TypeOK, Graph
      <4>2. Started(C) \subseteq Starts(C)
        BY <1>a, <4>1, StartedLeast, StartedWithin DEF Starts
      <4>3. QED
        BY <1>c, <3>2, <4>2 DEF ClosedWholly, Closed, Inits
    <3>3. QED
      BY <1>2, <3>1, <3>2 DEF EntersWith
  <2>3. \A c \in Started(C) : Overrides(c, vcalls) \subseteq M
    BY <1>c, <1>d, <2>2, OverridesHeld DEF Holds
  <2>4. HitByStart(C) \subseteq M
    BY <2>2, <2>3 DEF HitByStart
  <2>5. vcalls' = vcalls /\ pending' \subseteq pending
    BY <1>2 DEF EntersWith
  <2>6. QED
    BY <1>d, <1>e, <2>1, <2>2, <2>4, <2>5 DEF Holds, Grows
<1>3. CASE NoComponents \/ UNCHANGED vars
  <2>1. UNCHANGED <<stage, since, vcalls, pending>>
    BY <1>3 DEF NoComponents, vars
  <2>2. QED
    BY <1>d, <1>e, <2>1 DEF Holds, Reached, Live
<1>4. QED
  BY <1>1, <1>2, <1>3, <1>a, EnterEffect DEF Next

\* Nothing is reached and no class live without a reason: every set of methods and classes
\* that is closed under the rules holds them, at each point of the analysis.
THEOREM ReachEveryClosedHolds == Spec => []EveryClosedHolds
<1>1. Init => EveryClosedHolds
  BY DEF Init, EveryClosedHolds, Holds, Reached, Live
<1>2. QED
  BY <1>1, HoldsStep, ReachInvariant, PTL DEF Spec

\* At the end what is reached is closed, and no smaller set is.
THEOREM ReachReachIsExact == Spec => []ReachIsExact
<1>1. IInv /\ EveryClosedHolds => ReachIsExact
  <2> SUFFICES ASSUME IInv, EveryClosedHolds, next = 4 PROVE ReachIsExact
    BY DEF ReachIsExact
  <2>1. Closed(Reached, Live)
    BY ClosedAtTheEnd
  <2>2. ASSUME NEW M \in SUBSET Reached, NEW L \in SUBSET Live, ClosedWholly(M, L)
        PROVE  M = Reached /\ L = Live
    <3>1. M \in SUBSET Method /\ L \in SUBSET Defined
      BY DEF Reached, Live
    <3>2. Holds(M, L)
      BY <2>2, <3>1 DEF EveryClosedHolds
    <3>3. QED
      BY <3>2 DEF Holds
  <2>3. QED
    BY <2>1, <2>2 DEF ReachIsExact
<1>2. QED
  BY <1>1, ReachInvariant, ReachEveryClosedHolds, PTL

=============================================================================
