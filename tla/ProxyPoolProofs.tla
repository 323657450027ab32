--------------------------- MODULE ProxyPoolProofs ---------------------------
(****************************************************************************)
(* What holds of ProxyPool for any nodes, callers, subscriptions and        *)
(* cool-downs.                                                              *)
(****************************************************************************)
EXTENDS ProxyPool, TLAPS

(* The constants, as the proofs use them.                                   *)
LEMMA ConstantsTyped ==
  /\ Main \in Proc /\ Main \notin Caller /\ Caller \subseteq Proc
  /\ NoProc \notin Proc /\ NoNode \notin Node
  /\ \A s \in Subscription : s \in Seq(Node) /\ s # <<>>
  /\ FailureCooldown \in Nat /\ QuotaCooldown \in Nat
  /\ 0 < QuotaCooldown /\ QuotaCooldown < FailureCooldown
BY ProcAssumption, NodeAssumption, CooldownAssumption DEF Proc

(* A report or a probe leaves a cool-down within its range ...              *)
LEMMA CooledForTyped ==
  ASSUME NEW left \in 0..FailureCooldown, NEW o \in Outcome
  PROVE  CooledFor(left, o) \in 0..FailureCooldown
BY ConstantsTyped DEF CooledFor, Longer, Outcome

(* ... and the node with a verdict, if only "unknown".                      *)
LEMMA VerdictAfterTyped ==
  ASSUME NEW st \in Verdict, NEW o \in Outcome
  PROVE  VerdictAfter(st, o) \in Verdict \ {"absent"}
BY DEF VerdictAfter, Outcome, Verdict

(* The members of a list are nodes, and an empty list has none.             *)
LEMMA ToSetTyped ==
  ASSUME NEW S, NEW s \in Seq(S)
  PROVE  /\ ToSet(s) \subseteq S
         /\ ToSet(s) # {} <=> s # <<>>
<1>1. DOMAIN s = 1..Len(s) /\ Len(s) \in Nat /\ (s # <<>> <=> Len(s) > 0)
  OBVIOUS
<1>2. \A i \in 1..Len(s) : s[i] \in S
  OBVIOUS
<1>3. ToSet(s) = {s[i] : i \in 1..Len(s)}
  BY <1>1 DEF ToSet
<1>4. CASE Len(s) > 0
  <2>1. s[1] \in ToSet(s)
    BY <1>1, <1>3, <1>4
  <2> QED BY <1>1, <1>2, <1>3, <1>4, <2>1
<1>5. CASE Len(s) = 0
  BY <1>1, <1>3, <1>5
<1> QED BY <1>1, <1>4, <1>5

(* pickLocked leaves the index inside the list.                             *)
LEMMA PicksTyped ==
  ASSUME NEW s \in Seq(Node), s # <<>>, NEW i \in Nat,
         NEW st, NEW left, NEW n, NEW after, Picks(s, i, st, left, n, after)
  PROVE  after \in Nat /\ (i < Len(s) => after < Len(s))
<1> DEFINE S == Selectable(s, st, left)
<1>0. Len(s) \in Nat /\ Len(s) > 0
  OBVIOUS
<1>1. CASE S # {}
  <2>1. PICK k \in 0..(Len(s) - 1) : after = IndexAfter(s, i, k)
    BY <1>1 DEF Picks
  <2> QED BY <2>1, <1>0 DEF IndexAfter
<1>2. CASE S = {}
  BY <1>2 DEF Picks
<1> QED BY <1>1, <1>2

------------------------------------------------------------------------------
(* Every step keeps the types.                                              *)
LEMMA TypeOKStep == TypeOK /\ [Next]_vars => TypeOK'
<1> SUFFICES ASSUME TypeOK, [Next]_vars PROVE TypeOK'
  OBVIOUS
<1> USE ConstantsTyped
<1> USE DEF TypeOK, Goto, Stage, loadVars, pool, probeVars, refreshVars
<1>1. ASSUME NEW p \in Proc, Load(p) PROVE TypeOK'
  <2>1. CASE LoadCheck(p)
    BY <2>1 DEF LoadCheck, AfterLoad
  <2>2. CASE LoadLock(p)
    BY <2>2 DEF LoadLock, AfterLoad
  <2>3. CASE FetchFails(p)
    BY <2>3 DEF FetchFails
  <2>4. CASE Reload(p)
    BY <2>4 DEF Reload, FreshStates, None, Verdict
  <2>5. CASE SetLoaded(p)
    BY <2>5 DEF SetLoaded
  <2>6. CASE StartLoops(p)
    <3>1. Entries \in SUBSET Node
      BY ToSetTyped DEF Entries
    <3> QED BY <2>6, <3>1 DEF StartLoops, AfterLoad, Task
  <2> QED BY <1>1, <2>1, <2>2, <2>3, <2>4, <2>5, <2>6 DEF Load
<1>2. ASSUME NEW c \in Caller, Taking(c) PROVE TypeOK'
  <2>1. CASE Begin(c)
    BY <2>1 DEF Begin
  <2>2. CASE WaitProbe(c)
    BY <2>2 DEF WaitProbe
  <2>3. CASE WaitReady(c)
    BY <2>3 DEF WaitReady
  <2>4. CASE WaitTimeout(c)
    BY <2>4 DEF WaitTimeout
  <2>5. CASE Take(c)
    <3>1. PICK n \in Entries : /\ TakesCurrent(n) \/ TakesNew(n)
                               /\ held' = [held EXCEPT ![c] = n]
      BY <2>5 DEF Take
    <3>2. n \in Node /\ entries # <<>>
      BY <3>1, ToSetTyped DEF Entries
    <3>3. next' \in Nat
      BY <3>1, <3>2, PicksTyped DEF TakesCurrent, TakesNew
    <3>4. current' \in Node \cup {NoNode}
      BY <3>1, <3>2 DEF TakesCurrent, TakesNew
    <3> QED BY <2>5, <3>1, <3>2, <3>3, <3>4 DEF Take
  <2>6. CASE GiveUp(c)
    BY <2>6 DEF GiveUp
  <2> QED BY <1>2, <2>1, <2>2, <2>3, <2>4, <2>5, <2>6 DEF Taking
<1>3. ASSUME Probing PROVE TypeOK'
  <2>1. ASSUME NEW t \in Task, TryLock(t) PROVE TypeOK'
    BY <2>1 DEF TryLock
  <2>2. ASSUME NEW t \in Task, SkipBatch(t) PROVE TypeOK'
    BY <2>2 DEF SkipBatch, AfterBatch, ReadyAfterBatch, Task
  <2>3. ASSUME NEW t \in Task, NEW n \in Node, NEW ok \in BOOLEAN,
               ProbeDone(t, n, ok)
        PROVE  TypeOK'
    <3>1. cooling' \in [Node -> 0..FailureCooldown]
      BY <2>3, CooledForTyped DEF ProbeDone, Outcome
    <3> QED BY <2>3, <3>1 DEF ProbeDone, Verdict
  <2>4. ASSUME NEW t \in Task, BatchDone(t) PROVE TypeOK'
    BY <2>4 DEF BatchDone, AfterBatch, ReadyAfterBatch, Task
  <2>5. CASE HealthTick
    <3>1. \A stale : Due(stale) \in SUBSET Node
      BY ToSetTyped DEF Due, Entries
    <3> QED BY <2>5, <3>1 DEF HealthTick, Task
  <2> QED BY <1>3, <2>1, <2>2, <2>3, <2>4, <2>5 DEF Probing, Task
<1>4. ASSUME Refreshing PROVE TypeOK'
  <2>1. CASE RefreshTick
    <3>1. PICK s \in Subscription :
            /\ fetched' = s
            /\ jobs' = [jobs EXCEPT !["refresh"] = Candidates(s)]
            /\ task' = [task EXCEPT !["refresh"] =
                          IF Candidates(s) = {} THEN "switch" ELSE "blocked"]
      BY <2>1 DEF RefreshTick
    <3>2. Candidates(s) \in SUBSET Node
      BY ToSetTyped DEF Candidates
    <3> QED BY <2>1, <3>1, <3>2 DEF RefreshTick
  <2>2. CASE RefreshLock
    BY <2>2 DEF RefreshLock, Task
  <2>3. CASE RefreshSwitch
    <3>1. StatesAfterSwitch \in [Node -> Verdict]
      BY DEF StatesAfterSwitch, Verdict
    <3>2. CoolingAfterSwitch \in [Node -> 0..FailureCooldown]
      BY DEF CoolingAfterSwitch
    <3>3. CurrentAfterSwitch \in Node \cup {NoNode}
      BY DEF CurrentAfterSwitch
    <3>4. /\ entries' \in Seq(Node) /\ next' \in Nat
          /\ states' \in [Node -> Verdict]
          /\ cooling' \in [Node -> 0..FailureCooldown]
          /\ current' \in Node \cup {NoNode}
      BY <2>3, <3>1, <3>2, <3>3 DEF RefreshSwitch
    <3>5. fetched' \in Seq(Node) /\ results' \in SUBSET Node
      BY <2>3 DEF RefreshSwitch
    <3>6. task' = [task EXCEPT !["refresh"] = "idle"]
      BY <2>3 DEF RefreshSwitch, Stage
    <3>7. UNCHANGED <<pc, held, loaded, loadMu, probeReady, probeRunMu, jobs>>
      BY <2>3 DEF RefreshSwitch, loadVars
    <3> QED BY <3>4, <3>5, <3>6, <3>7
  <2>4. ASSUME NEW n \in Node, NEW ok \in BOOLEAN, CandidateDone(n, ok)
        PROVE  TypeOK'
    BY <2>4 DEF CandidateDone
  <2> QED BY <1>4, <2>1, <2>2, <2>3, <2>4 DEF Refreshing
<1>5. CASE Tick
  BY <1>5 DEF Tick
<1>6. ASSUME NEW c \in Caller, NEW o \in Outcome, Report(c, o) PROVE TypeOK'
  <2>1. states' \in [Node -> Verdict]
    BY <1>6, VerdictAfterTyped DEF Report, Reports
  <2>2. cooling' \in [Node -> 0..FailureCooldown]
    BY <1>6, CooledForTyped DEF Report, Reports
  <2> QED BY <1>6, <2>1, <2>2 DEF Report, Reports, CurrentAfter
<1>7. CASE UNCHANGED vars
  BY <1>7 DEF vars
<1> QED BY <1>1, <1>2, <1>3, <1>4, <1>5, <1>6, <1>7 DEF Next, PoolNext

LEMMA PoolTypedInit == Init => TypeOK
<1> SUFFICES ASSUME Init PROVE TypeOK
  OBVIOUS
<1> USE ConstantsTyped DEF Init
<1>1. entries \in Seq(Node) /\ next \in Nat /\ fetched \in Seq(Node)
  OBVIOUS
<1>2. states \in [Node -> Verdict] /\ cooling \in [Node -> 0..FailureCooldown]
  BY DEF None, Verdict
<1>3. jobs \in [Task -> SUBSET Node] /\ results \in SUBSET Node
  OBVIOUS
<1> QED BY <1>1, <1>2, <1>3 DEF TypeOK

(* The pool's variables have their types for every number of nodes and      *)
(* callers, and whatever the subscriptions list.                            *)
THEOREM TypeCorrect == SafetySpec => []TypeOK
BY PoolTypedInit, TypeOKStep, PTL DEF SafetySpec

------------------------------------------------------------------------------
(* Loading.  The background tasks and the clock leave it alone.             *)
LEMMA BackgroundFrame ==
  ASSUME Probing \/ Refreshing \/ Tick
  PROVE  UNCHANGED <<pc, held, loadVars>>
BY DEF Probing, Refreshing, Tick, TryLock, SkipBatch, ProbeDone, BatchDone,
       HealthTick, RefreshTick, RefreshLock, RefreshSwitch, CandidateDone,
       loadVars

(* Nor do Take and Report, which move their caller between stages outside   *)
(* of load.                                                                 *)
LoadStages == {"fetch", "reloaded", "startLoops"}

LEMMA CallerFrame ==
  ASSUME TypeOK, NEW c \in Caller,
         Taking(c) \/ \E o \in Outcome : Report(c, o)
  PROVE  /\ UNCHANGED loadVars
         /\ \A p \in Proc : pc'[p] = pc[p] \/ {pc[p], pc'[p]} \cap LoadStages = {}
<1> USE ConstantsTyped DEF TypeOK, Goto, LoadStages, loadVars
<1>1. ASSUME NEW o \in Outcome, Report(c, o)
      PROVE  /\ UNCHANGED loadVars
             /\ \A p \in Proc : pc'[p] = pc[p] \/ {pc[p], pc'[p]} \cap LoadStages = {}
  BY <1>1 DEF Report
<1>2. CASE Taking(c)
  BY <1>2 DEF Taking, Begin, WaitProbe, WaitReady, WaitTimeout, Take, GiveUp
<1> QED BY <1>1, <1>2

LEMMA LoadsOnceStep == TypeOK /\ LoadsOnce /\ [Next]_vars => LoadsOnce'
<1> SUFFICES ASSUME TypeOK, LoadsOnce, [Next]_vars PROVE LoadsOnce'
  OBVIOUS
<1> USE ConstantsTyped DEF TypeOK, LoadsOnce, Goto, loadVars
<1>1. ASSUME NEW p \in Proc, Load(p) PROVE LoadsOnce'
  <2>1. CASE LoadCheck(p)
    BY <2>1 DEF LoadCheck, AfterLoad
  <2>2. CASE LoadLock(p)
    BY <2>2 DEF LoadLock, AfterLoad
  <2>3. CASE FetchFails(p)
    BY <2>3 DEF FetchFails
  <2>4. CASE Reload(p)
    BY <2>4 DEF Reload
  <2>5. CASE SetLoaded(p)
    BY <2>5 DEF SetLoaded
  <2>6. CASE StartLoops(p)
    BY <2>6 DEF StartLoops, AfterLoad
  <2> QED BY <1>1, <2>1, <2>2, <2>3, <2>4, <2>5, <2>6 DEF Load
<1>2. ASSUME NEW c \in Caller, Taking(c) \/ \E o \in Outcome : Report(c, o)
      PROVE  LoadsOnce'
  BY <1>2, CallerFrame DEF LoadStages
<1>3. CASE Probing \/ Refreshing \/ Tick
  BY <1>3, BackgroundFrame
<1>4. CASE UNCHANGED vars
  BY <1>4 DEF vars
<1> QED BY <1>1, <1>2, <1>3, <1>4 DEF Next, PoolNext

(* The subscription is loaded by one goroutine at a time, and by none once  *)
(* it has been loaded, for any number of callers.                           *)
THEOREM LoadsOnceAlways == SafetySpec => []LoadsOnce
<1>1. Init => LoadsOnce
  BY ConstantsTyped DEF Init, LoadsOnce
<1> QED BY <1>1, TypeCorrect, LoadsOnceStep, PTL DEF SafetySpec

------------------------------------------------------------------------------
(* Probing.  Until the loops are started, which happens when loading is     *)
(* over and only once, no task has anything to do.                          *)
Started ==
  /\ probeReady = "nil" => \A t \in Task : task[t] = "off" /\ jobs[t] = {}
  /\ probeReady # "nil" => loaded /\ loadMu = NoProc

ProbesInv == Started /\ OneBatch /\ OpenMeansProbing

(* Take and Report leave the tasks alone.                                   *)
LEMMA CallerProbeFrame ==
  ASSUME NEW c \in Caller, Taking(c) \/ \E o \in Outcome : Report(c, o)
  PROVE  UNCHANGED <<probeVars, loadVars, refreshVars>>
BY DEF Taking, Begin, WaitProbe, WaitReady, WaitTimeout, Take, GiveUp, Report,
       probeVars, loadVars, refreshVars

LEMMA ProbesStep ==
  TypeOK /\ LoadsOnce /\ ProbesInv /\ [Next]_vars => ProbesInv'
<1> SUFFICES ASSUME TypeOK, LoadsOnce, ProbesInv, [Next]_vars PROVE ProbesInv'
  OBVIOUS
<1> USE ConstantsTyped
<1> USE DEF TypeOK, ProbesInv, Started, OneBatch, OpenMeansProbing, Stage,
            loadVars, probeVars, Task
<1>1. ASSUME NEW p \in Proc, Load(p) PROVE ProbesInv'
  <2>1. CASE LoadCheck(p)
    BY <2>1 DEF LoadCheck
  <2>2. CASE LoadLock(p)
    BY <2>2 DEF LoadLock
  <2>3. CASE FetchFails(p)
    BY <2>3 DEF FetchFails
  <2>4. CASE Reload(p)
    BY <2>4 DEF Reload
  <2>5. CASE SetLoaded(p)
    BY <2>5 DEF SetLoaded
  <2>6. CASE StartLoops(p)
    <3>1. probeReady = "nil"
      BY <2>6 DEF StartLoops, LoadsOnce
    <3>2. loaded' /\ loadMu' = NoProc /\ probeReady' = "open"
      <4>1. loadMu = p
        BY <2>6 DEF StartLoops, LoadsOnce
      <4>2. loaded
        BY <2>6 DEF StartLoops, LoadsOnce
      <4> QED BY <2>6, <4>2 DEF StartLoops
    <3> QED BY <2>6, <3>1, <3>2 DEF StartLoops
  <2> QED BY <1>1, <2>1, <2>2, <2>3, <2>4, <2>5, <2>6 DEF Load
<1>2. ASSUME NEW c \in Caller, Taking(c) \/ \E o \in Outcome : Report(c, o)
      PROVE  ProbesInv'
  BY <1>2, CallerProbeFrame
<1>3. CASE Probing
  <2>1. ASSUME NEW t \in {"initial", "health"}, TryLock(t) PROVE ProbesInv'
    BY <2>1 DEF TryLock
  <2>2. ASSUME NEW t \in {"initial", "health"}, SkipBatch(t) PROVE ProbesInv'
    BY <2>2 DEF SkipBatch, AfterBatch, ReadyAfterBatch
  <2>3. ASSUME NEW t \in {"initial", "health"}, NEW n \in Node,
               NEW ok \in BOOLEAN, ProbeDone(t, n, ok)
        PROVE  ProbesInv'
    BY <2>3 DEF ProbeDone
  <2>4. ASSUME NEW t \in Task, BatchDone(t) PROVE ProbesInv'
    BY <2>4 DEF BatchDone, AfterBatch, ReadyAfterBatch
  <2>5. CASE HealthTick
    BY <2>5 DEF HealthTick
  <2> QED BY <1>3, <2>1, <2>2, <2>3, <2>4, <2>5 DEF Probing
<1>4. CASE Refreshing
  <2>1. CASE RefreshTick
    BY <2>1 DEF RefreshTick
  <2>2. CASE RefreshLock
    BY <2>2 DEF RefreshLock
  <2>3. CASE RefreshSwitch
    BY <2>3 DEF RefreshSwitch
  <2>4. ASSUME NEW n \in Node, NEW ok \in BOOLEAN, CandidateDone(n, ok)
        PROVE  ProbesInv'
    BY <2>4 DEF CandidateDone
  <2> QED BY <1>4, <2>1, <2>2, <2>3, <2>4 DEF Refreshing
<1>5. CASE Tick
  BY <1>5 DEF Tick
<1>6. CASE UNCHANGED vars
  BY <1>6 DEF vars
<1> QED BY <1>1, <1>2, <1>3, <1>4, <1>5, <1>6 DEF Next, PoolNext

(* Probe batches never overlap, whatever number of nodes they probe and     *)
(* however the initial probe, the health loop and refreshes interleave.     *)
THEOREM OneBatchAlways == SafetySpec => []OneBatch
<1>1. Init => ProbesInv
  BY DEF Init, ProbesInv, Started, OneBatch, OpenMeansProbing, Task
<1>2. ProbesInv => OneBatch
  BY DEF ProbesInv
<1> QED BY <1>1, <1>2, TypeCorrect, LoadsOnceAlways, ProbesStep, PTL
        DEF SafetySpec

(* Somebody is always going to close the channel the callers wait for.      *)
THEOREM OpenMeansProbingAlways == SafetySpec => []OpenMeansProbing
<1>1. Init => ProbesInv
  BY DEF Init, ProbesInv, Started, OneBatch, OpenMeansProbing, Task
<1>2. ProbesInv => OpenMeansProbing
  BY DEF ProbesInv
<1> QED BY <1>1, <1>2, TypeCorrect, LoadsOnceAlways, ProbesStep, PTL
        DEF SafetySpec

------------------------------------------------------------------------------
(* The list, its maps and the sticky node.  PoolIndexed is inductive once   *)
(* it is said what holds while the list is being loaded.                    *)
Listed ==
  /\ \A p \in Proc : pc[p] \in {"reloaded", "startLoops"} => entries # <<>>
  /\ current # NoNode => loaded

IndexInv == PoolIndexed /\ Listed

(* A step that leaves the list, the maps and the callers alone.             *)
LEMMA IndexFrame ==
  ASSUME IndexInv, UNCHANGED <<pc, loaded, pool>>
  PROVE  IndexInv'
BY DEF IndexInv, PoolIndexed, Listed, Entries, pool

(* The maps after a report or a verdict about one node.                     *)
LEMMA IndexAfterVerdict ==
  ASSUME IndexInv, TypeOK, UNCHANGED <<loaded, entries, next>>,
         NEW n \in Node,
         \E st \in Verdict \ {"absent"} : states' = [states EXCEPT ![n] = st],
         \E left \in Nat : cooling' = [cooling EXCEPT ![n] = left],
         current' = current \/ current' = NoNode,
         \A p \in Proc : pc'[p] = pc[p] \/ pc'[p] \in {"idle", "load"}
  PROVE  IndexInv'
<1> USE ConstantsTyped DEF TypeOK, IndexInv
<1>1. \A m \in Node : /\ states[m] # "absent" => states'[m] # "absent"
                      /\ cooling'[m] > 0 => states'[m] # "absent"
  BY DEF PoolIndexed
<1>2. ToSet(entries) \subseteq Node
  BY ToSetTyped
<1>3. PoolIndexed'
  BY <1>1, <1>2 DEF PoolIndexed, Entries
<1>4. Listed'
  BY DEF Listed
<1> QED BY <1>3, <1>4

LEMMA IndexStep ==
  TypeOK /\ LoadsOnce /\ IndexInv /\ [Next]_vars => IndexInv'
<1> SUFFICES ASSUME TypeOK, LoadsOnce, IndexInv, [Next]_vars PROVE IndexInv'
  OBVIOUS
<1> USE ConstantsTyped DEF TypeOK, Goto, loadVars, pool
<1>1. ASSUME NEW p \in Proc, Load(p) PROVE IndexInv'
  <2> USE DEF IndexInv, PoolIndexed, Listed, Entries
  <2>1. CASE LoadCheck(p)
    BY <2>1 DEF LoadCheck, AfterLoad
  <2>2. CASE LoadLock(p)
    BY <2>2 DEF LoadLock, AfterLoad
  <2>3. CASE FetchFails(p)
    BY <2>3 DEF FetchFails
  <2>4. CASE Reload(p)
    <3>1. PICK s \in Subscription : entries' = s /\ states' = FreshStates(s)
      BY <2>4 DEF Reload
    <3>2. s \in Seq(Node) /\ s # <<>> /\ ToSet(s) \subseteq Node
      BY ToSetTyped
    <3>3. ~loaded
      BY <2>4 DEF Reload, LoadsOnce
    <3>4. \A n \in ToSet(s) : states'[n] # "absent"
      BY <3>1, <3>2 DEF FreshStates
    <3>5. next' = 0 /\ 0 < Len(s)
      BY <2>4, <3>2 DEF Reload
    <3> QED BY <2>4, <3>1, <3>2, <3>3, <3>4, <3>5 DEF Reload, None
  <2>5. CASE SetLoaded(p)
    BY <2>5 DEF SetLoaded
  <2>6. CASE StartLoops(p)
    BY <2>6 DEF StartLoops, AfterLoad, LoadsOnce
  <2> QED BY <1>1, <2>1, <2>2, <2>3, <2>4, <2>5, <2>6 DEF Load
<1>2. ASSUME NEW c \in Caller, Taking(c) PROVE IndexInv'
  <2> USE DEF IndexInv, PoolIndexed, Listed, Entries
  <2>1. CASE Begin(c)
    BY <2>1 DEF Begin
  <2>2. CASE WaitProbe(c)
    BY <2>2 DEF WaitProbe
  <2>3. CASE WaitReady(c)
    BY <2>3 DEF WaitReady
  <2>4. CASE WaitTimeout(c)
    BY <2>4 DEF WaitTimeout
  <2>5. CASE Take(c)
    <3>1. PICK n \in Entries : TakesCurrent(n) \/ TakesNew(n)
      BY <2>5 DEF Take
    <3>2. loaded /\ entries # <<>>
      BY <2>5 DEF Take
    <3>3. next' \in Nat /\ next' < Len(entries)
      <4>1. CASE TakesCurrent(n)
        BY <4>1, <3>2 DEF TakesCurrent
      <4>2. CASE TakesNew(n)
        BY <4>2, <3>2, PicksTyped DEF TakesNew
      <4> QED BY <3>1, <4>1, <4>2
    <3>4. current' # NoNode => Sticky /\ current' \in Entries
      BY <3>1 DEF TakesCurrent, TakesNew
    <3> QED BY <2>5, <3>2, <3>3, <3>4 DEF Take
  <2>6. CASE GiveUp(c)
    BY <2>6 DEF GiveUp
  <2> QED BY <1>2, <2>1, <2>2, <2>3, <2>4, <2>5, <2>6 DEF Taking
<1>3. CASE Probing
  <2>1. ASSUME NEW t \in {"initial", "health"}, NEW n \in Node,
               NEW ok \in BOOLEAN, ProbeDone(t, n, ok)
        PROVE  IndexInv'
    <3>1. \E st \in Verdict \ {"absent"} : states' = [states EXCEPT ![n] = st]
      BY <2>1 DEF ProbeDone, Verdict
    <3>2. \E left \in Nat : cooling' = [cooling EXCEPT ![n] = left]
      <4>1. CooledFor(cooling[n], IF ok THEN "ok" ELSE "failure") \in Nat
        <5>1. cooling[n] \in 0..FailureCooldown
          OBVIOUS
        <5>2. (IF ok THEN "ok" ELSE "failure") \in Outcome
          BY DEF Outcome
        <5> QED BY <5>1, <5>2, CooledForTyped
      <4> QED BY <2>1, <4>1 DEF ProbeDone
    <3> QED BY <2>1, <3>1, <3>2, IndexAfterVerdict DEF ProbeDone
  <2>2. CASE ~ \E t \in {"initial", "health"}, n \in Node, ok \in BOOLEAN :
               ProbeDone(t, n, ok)
    <3>1. UNCHANGED <<pc, loaded, pool>>
      BY <1>3, <2>2 DEF Probing, TryLock, SkipBatch, BatchDone, HealthTick
    <3> QED BY <3>1, IndexFrame
  <2> QED BY <2>1, <2>2
<1>4. CASE Refreshing
  <2>1. CASE RefreshSwitch /\ WorthSwitching
    <3>1. /\ entries' = fetched /\ next' = 0 /\ states' = StatesAfterSwitch
          /\ cooling' = CoolingAfterSwitch /\ current' = CurrentAfterSwitch
          /\ UNCHANGED <<pc, loaded>>
      BY <2>1 DEF RefreshSwitch
    <3>2. Fetched # {} /\ Fetched \subseteq Node /\ fetched # <<>>
      BY <2>1, ToSetTyped DEF WorthSwitching, Fetched
    <3>3. 0 < Len(fetched)
      BY <3>2
    <3>4. \A n \in Fetched : states'[n] # "absent"
      BY <3>1, <3>2 DEF StatesAfterSwitch
    <3>5. \A n \in Node : cooling'[n] > 0 => states'[n] # "absent"
      BY <3>1, <3>4 DEF CoolingAfterSwitch
    <3>6. current' # NoNode => current' = current /\ current' \in Fetched
      BY <3>1 DEF CurrentAfterSwitch
    <3> QED BY <3>1, <3>2, <3>3, <3>4, <3>5, <3>6
            DEF IndexInv, PoolIndexed, Listed, Entries, Fetched
  <2>2. CASE ~(RefreshSwitch /\ WorthSwitching)
    <3>1. UNCHANGED <<pc, loaded, pool>>
      BY <1>4, <2>2 DEF Refreshing, RefreshTick, RefreshLock, RefreshSwitch,
                        CandidateDone
    <3> QED BY <3>1, IndexFrame
  <2> QED BY <2>1, <2>2
<1>5. CASE Tick
  BY <1>5 DEF Tick, IndexInv, PoolIndexed, Listed, Entries
<1>6. ASSUME NEW c \in Caller, NEW o \in Outcome, Report(c, o) PROVE IndexInv'
  <2>1. CASE held[c] \in Node
    <3>1. /\ VerdictAfter(states[held[c]], o) \in Verdict \ {"absent"}
          /\ CooledFor(cooling[held[c]], o) \in Nat
      BY <2>1, CooledForTyped, VerdictAfterTyped
    <3>2. /\ Reports(held[c], o) /\ loaded' = loaded
          /\ \A p \in Proc : pc'[p] = pc[p] \/ pc'[p] \in {"idle", "load"}
      BY <1>6 DEF Report
    <3> QED BY <2>1, <3>1, <3>2, IndexAfterVerdict DEF Reports, CurrentAfter
  <2>2. CASE held[c] \notin Node
    BY <1>6, <2>2 DEF Report, Reports, CurrentAfter, IndexInv, PoolIndexed,
                      Listed, Entries
  <2> QED BY <2>1, <2>2
<1>7. CASE UNCHANGED vars
  BY <1>7, IndexFrame DEF vars
<1> QED BY <1>1, <1>2, <1>3, <1>4, <1>5, <1>6, <1>7 DEF Next, PoolNext

LEMMA IndexInit == Init => IndexInv
<1> SUFFICES ASSUME Init PROVE IndexInv
  OBVIOUS
<1>1. Entries = {}
  <2>1. entries = <<>> /\ entries \in Seq(Node)
    BY DEF Init
  <2> QED BY <2>1, ToSetTyped DEF Entries
<1>2. PoolIndexed
  BY <1>1, ConstantsTyped DEF Init, PoolIndexed, None
<1> QED BY <1>2 DEF Init, IndexInv, Listed

(* Whoever gets past load finds a node, and the list, the states, the       *)
(* cool-downs and the sticky node agree, for every subscription.            *)
THEOREM PoolIndexedAlways == SafetySpec => []PoolIndexed
<1>1. Init => IndexInv
  BY IndexInit
<1>2. IndexInv => PoolIndexed
  BY DEF IndexInv
<1> QED BY <1>1, <1>2, TypeCorrect, LoadsOnceAlways, IndexStep, PTL
        DEF SafetySpec

------------------------------------------------------------------------------
(* What a step may do to the list, the states and the cool-downs once the   *)
(* pool is loaded.                                                          *)
LEMMA LoadedPoolSteps ==
  ASSUME LoadsOnce, [Next]_vars, loaded
  PROVE  \/ UNCHANGED <<entries, states, cooling>>
         \/ \E n \in Node, ok \in BOOLEAN : Probed(n, ok)
         \/ RefreshSwitch /\ WorthSwitching
         \/ Tick
         \/ \E c \in Caller, o \in Outcome : Report(c, o)
<1> USE DEF pool, loadVars
<1>1. ASSUME NEW p \in Proc, Load(p) PROVE UNCHANGED <<entries, states, cooling>>
  BY <1>1 DEF Load, LoadsOnce, LoadCheck, LoadLock, FetchFails, Reload,
              SetLoaded, StartLoops
<1>2. ASSUME NEW c \in Caller, Taking(c)
      PROVE  UNCHANGED <<entries, states, cooling>>
  BY <1>2 DEF Taking, Begin, WaitProbe, WaitReady, WaitTimeout, Take, GiveUp
<1>3. CASE Probing
  BY <1>3 DEF Probing, Probed, TryLock, SkipBatch, BatchDone, HealthTick
<1>4. CASE Refreshing
  BY <1>4 DEF Refreshing, RefreshTick, RefreshLock, RefreshSwitch, CandidateDone
<1>5. CASE UNCHANGED vars
  BY <1>5 DEF vars
<1> QED BY <1>1, <1>2, <1>3, <1>4, <1>5 DEF Next, PoolNext

(* A refresh replaces the list only by one with a healthy node in it.       *)
THEOREM SwitchesToHealthyAlways == SafetySpec => SwitchesToHealthy
<1> DEFINE A == loaded /\ entries' # entries =>
                  \E n \in ToSet(entries') : states'[n] = "healthy"
<1>1. TypeOK /\ LoadsOnce /\ [Next]_vars => A
  <2> SUFFICES ASSUME TypeOK, LoadsOnce, [Next]_vars, loaded,
                      entries' # entries
               PROVE  \E n \in ToSet(entries') : states'[n] = "healthy"
    OBVIOUS
  <2>1. RefreshSwitch /\ WorthSwitching
    BY LoadedPoolSteps DEF Probed, ProbeDone, Tick, Report, Reports
  <2>2. entries' = fetched /\ states' = StatesAfterSwitch
    BY <2>1 DEF RefreshSwitch
  <2> QED BY <2>1, <2>2 DEF WorthSwitching, Fetched
<1> HIDE DEF A
<1>2. SafetySpec => [][A]_vars
  BY <1>1, TypeCorrect, LoadsOnceAlways, PTL DEF SafetySpec
<1> QED BY <1>2 DEF A, SwitchesToHealthy

(* The verdict of a node that stays is that of its latest probe or report.  *)
THEOREM VerdictsKeptAlways == SafetySpec => VerdictsKept
<1> DEFINE Kept(n) ==
      /\ states'[n] # states[n] =>
           \/ \E ok \in BOOLEAN : Probed(n, ok)
           \/ \E o \in Outcome : Reported(n, o)
      /\ states[n] \in {"healthy", "dead"} => states'[n] \in {"healthy", "dead"}
<1> DEFINE A == loaded => \A n \in Entries \cap ToSet(entries') : Kept(n)
<1>1. TypeOK /\ LoadsOnce /\ IndexInv /\ [Next]_vars => A
  <2> SUFFICES ASSUME TypeOK, LoadsOnce, IndexInv, [Next]_vars, loaded,
                      NEW n \in Entries \cap ToSet(entries')
               PROVE  Kept(n)
    OBVIOUS
  <2>0. n \in Node /\ states[n] # "absent"
    BY ToSetTyped DEF TypeOK, Entries, IndexInv, PoolIndexed
  <2>1. ASSUME NEW m \in Node, NEW ok \in BOOLEAN, Probed(m, ok)
        PROVE  Kept(n)
    <3>1. states' = [states EXCEPT ![m] = IF ok THEN "healthy" ELSE "dead"]
      BY <2>1 DEF Probed, ProbeDone
    <3>2. CASE n = m
      BY <2>0, <2>1, <3>1, <3>2 DEF TypeOK
    <3>3. CASE n # m
      BY <2>0, <3>1, <3>3 DEF TypeOK
    <3> QED BY <3>2, <3>3
  <2>2. CASE RefreshSwitch /\ WorthSwitching
    <3>1. states' = StatesAfterSwitch /\ n \in Fetched
      BY <2>2 DEF RefreshSwitch, Fetched
    <3>2. states'[n] = states[n]
      BY <2>0, <3>1 DEF StatesAfterSwitch
    <3> QED BY <3>2
  <2>3. CASE UNCHANGED states
    BY <2>3
  <2>4. ASSUME NEW c \in Caller, NEW o \in Outcome, Report(c, o)
        PROVE  Kept(n)
    <3>1. states' = [states EXCEPT ![held[c]] = VerdictAfter(states[held[c]], o)]
      BY <2>4 DEF Report, Reports
    <3>2. CASE n = held[c]
      <4>1. states'[n] = VerdictAfter(states[n], o)
        BY <2>0, <3>1, <3>2 DEF TypeOK
      <4>2. states[n] \in {"healthy", "dead"}
               => VerdictAfter(states[n], o) \in {"healthy", "dead"}
        BY DEF VerdictAfter
      <4>3. Reported(n, o)
        BY <2>4, <3>2 DEF Reported
      <4> QED BY <4>1, <4>2, <4>3
    <3>3. CASE n # held[c]
      BY <2>0, <3>1, <3>3 DEF TypeOK
    <3> QED BY <3>2, <3>3
  <2>5. Tick => UNCHANGED states
    BY DEF Tick
  <2> HIDE DEF Kept
  <2> QED BY <2>1, <2>2, <2>3, <2>4, <2>5, LoadedPoolSteps
<1> HIDE DEF A
<1>2. Init => IndexInv
  BY IndexInit
<1>3. SafetySpec => [][A]_vars
  BY <1>1, <1>2, TypeCorrect, LoadsOnceAlways, IndexStep, PTL DEF SafetySpec
<1> QED BY <1>3 DEF A, Kept, VerdictsKept

(* The cool-down of a listed node, healthy or not, is cut short by a        *)
(* success of that node only.                                               *)
THEOREM CooldownsHonouredAlways == SafetySpec => CooldownsHonoured
<1> DEFINE Honoured(n) == \/ cooling'[n] >= cooling[n]
                          \/ Tick /\ cooling'[n] = cooling[n] - 1
                          \/ Probed(n, TRUE) \/ Reported(n, "ok")
<1> DEFINE A == loaded => \A n \in ToSet(entries') : Honoured(n)
<1>1. TypeOK /\ TypeOK' /\ LoadsOnce /\ [Next]_vars => A
  <2> SUFFICES ASSUME TypeOK, TypeOK', LoadsOnce, [Next]_vars, loaded,
                      NEW n \in ToSet(entries')
               PROVE  Honoured(n)
    OBVIOUS
  <2>0. n \in Node /\ cooling[n] \in 0..FailureCooldown /\ cooling[n] \in Nat
    BY ToSetTyped, ConstantsTyped DEF TypeOK
  <2>1. ASSUME NEW o \in Outcome \ {"ok"}
        PROVE  CooledFor(cooling[n], o) >= cooling[n]
    BY <2>0, ConstantsTyped DEF Outcome, CooledFor, Longer
  <2>2. ASSUME NEW m \in Node, NEW ok \in BOOLEAN, Probed(m, ok)
        PROVE  Honoured(n)
    <3>1. cooling' = [cooling EXCEPT
                        ![m] = CooledFor(@, IF ok THEN "ok" ELSE "failure")]
      BY <2>2 DEF Probed, ProbeDone
    <3>2. CASE n = m /\ ok
      BY <2>2, <3>2
    <3>3. CASE n = m /\ ~ok
      <4>1. cooling'[n] = CooledFor(cooling[n], "failure")
        BY <2>0, <3>1, <3>3 DEF TypeOK
      <4>2. CooledFor(cooling[n], "failure") >= cooling[n]
        BY <2>1 DEF Outcome
      <4> QED BY <4>1, <4>2
    <3>4. CASE n # m
      <4>1. cooling'[n] >= cooling[n]
        BY <2>0, <3>1, <3>4 DEF TypeOK
      <4> QED BY <4>1
    <3> QED BY <3>2, <3>3, <3>4
  <2>3. CASE RefreshSwitch /\ WorthSwitching
    <3>1. cooling' = CoolingAfterSwitch /\ n \in Fetched
      BY <2>3 DEF RefreshSwitch, Fetched
    <3>2. cooling'[n] >= cooling[n]
      BY <2>0, <3>1, ConstantsTyped DEF CoolingAfterSwitch
    <3> QED BY <3>2
  <2>4. CASE Tick
    <3>1. \/ cooling'[n] >= cooling[n]
          \/ cooling'[n] = cooling[n] - 1
      BY <2>0, <2>4 DEF Tick
    <3> QED BY <2>4, <3>1
  <2>5. ASSUME NEW c \in Caller, NEW o \in Outcome, Report(c, o)
        PROVE  Honoured(n)
    <3>1. cooling' = [cooling EXCEPT ![held[c]] = CooledFor(cooling[held[c]], o)]
      BY <2>5 DEF Report, Reports
    <3>2. CASE n = held[c] /\ o = "ok"
      BY <2>5, <3>2 DEF Reported
    <3>3. CASE n = held[c] /\ o # "ok"
      <4>1. cooling'[n] = CooledFor(cooling[n], o)
        BY <2>0, <3>1, <3>3 DEF TypeOK
      <4> QED BY <2>1, <3>3, <4>1
    <3>4. CASE n # held[c]
      <4>1. cooling'[n] >= cooling[n]
        BY <2>0, <3>1, <3>4 DEF TypeOK
      <4> QED BY <4>1
    <3> QED BY <3>2, <3>3, <3>4
  <2>6. CASE UNCHANGED <<entries, states, cooling>>
    <3>1. cooling'[n] >= cooling[n]
      BY <2>0, <2>6
    <3> QED BY <3>1
  <2> HIDE DEF Honoured
  <2> QED BY <2>2, <2>3, <2>4, <2>5, <2>6, LoadedPoolSteps
<1> HIDE DEF A
<1>2. SafetySpec => [][A]_vars
  BY <1>1, TypeCorrect, LoadsOnceAlways, PTL DEF SafetySpec
<1> QED BY <1>2 DEF A, Honoured, CooldownsHonoured

(* The sticky node changes only when it cannot be used or is not listed.    *)
THEOREM StickyStaysAlways == SafetySpec => StickyStays
<1> DEFINE A == \A n \in Node : current = n /\ current' # n =>
                  n \notin ToSet(entries') \/ cooling'[n] > 0 \/ states'[n] = "dead"
<1>1. TypeOK /\ LoadsOnce /\ IndexInv /\ [Next]_vars => A
  <2> SUFFICES ASSUME TypeOK, LoadsOnce, IndexInv, [Next]_vars,
                      NEW n \in Node, current = n, current' # n
               PROVE  \/ n \notin ToSet(entries')
                      \/ cooling'[n] > 0 \/ states'[n] = "dead"
    OBVIOUS
  <2>0. loaded /\ n # NoNode /\ Sticky
    BY ConstantsTyped DEF IndexInv, Listed, PoolIndexed
  <2> USE DEF pool
  <2>1. ASSUME NEW p \in Proc, Load(p) PROVE FALSE
    BY <2>0, <2>1 DEF Load, LoadsOnce, LoadCheck, LoadLock, FetchFails, Reload,
                      SetLoaded, StartLoops
  <2>2. ASSUME NEW c \in Caller, Taking(c)
        PROVE  cooling'[n] > 0 \/ states'[n] = "dead"
    <3>1. Take(c)
      BY <2>2 DEF Taking, Begin, WaitProbe, WaitReady, WaitTimeout, GiveUp
    <3>2. \E m \in Entries : TakesCurrent(m) \/ TakesNew(m)
      BY <3>1 DEF Take
    <3>3. ~Usable(n)
      BY <2>0, <3>2 DEF TakesCurrent, TakesNew
    <3>4. UNCHANGED <<states, cooling>>
      BY <3>1 DEF Take
    <3> QED BY <3>3, <3>4, ConstantsTyped DEF Usable, TypeOK
  <2>3. CASE Probing
    BY <2>3 DEF Probing, TryLock, SkipBatch, ProbeDone, BatchDone, HealthTick
  <2>4. CASE Refreshing
    BY <2>4 DEF Refreshing, RefreshTick, RefreshLock, RefreshSwitch,
                CandidateDone, CurrentAfterSwitch, Fetched
  <2>5. CASE Tick
    BY <2>5 DEF Tick
  <2>6. ASSUME NEW c \in Caller, NEW o \in Outcome, Report(c, o)
        PROVE  cooling'[n] > 0
    <3>1. o \in {"quota", "failure"} /\ held[c] = n
      BY <2>6 DEF Report, Reports, CurrentAfter
    <3>2. cooling'[n] = CooledFor(cooling[n], o)
      BY <2>6, <3>1 DEF Report, Reports, TypeOK
    <3>3. CooledFor(cooling[n], o) > 0
      BY <3>1, ConstantsTyped DEF CooledFor, Longer, TypeOK
    <3> QED BY <3>2, <3>3
  <2>7. CASE UNCHANGED vars
    BY <2>7 DEF vars
  <2> QED BY <2>1, <2>2, <2>3, <2>4, <2>5, <2>6, <2>7 DEF Next, PoolNext
<1> HIDE DEF A
<1>2. Init => IndexInv
  BY IndexInit
<1>3. SafetySpec => [][A]_vars
  BY <1>1, <1>2, TypeCorrect, LoadsOnceAlways, IndexStep, PTL DEF SafetySpec
<1> QED BY <1>3 DEF A, StickyStays

(* pickLocked's answer is never worse than it need be ...                   *)
LEMMA PicksBest ==
  ASSUME TypeOK, NEW n \in Entries, NEW after,
         Picks(entries, next, states, cooling, n, after)
  PROVE  /\ cooling[n] > 0 => Ready(Entries, cooling) = {}
         /\ states[n] = "dead" =>
              \A m \in Ready(Entries, cooling) : states[m] = "dead"
<1> DEFINE S == Selectable(entries, states, cooling)
<1>1. Entries \subseteq Node
  BY ToSetTyped DEF Entries, TypeOK
<1>2. S # {} => n \in S
  BY DEF Picks, FirstInRotation
<1>3. S \subseteq Ready(Entries, cooling)
  BY DEF Selectable, Ready, Entries
<1>4. S = {} => Ready(Entries, cooling) = {}
  BY DEF Selectable, Entries
<1>5. cooling[n] > 0 => Ready(Entries, cooling) = {}
  BY <1>1, <1>2, <1>3, <1>4, ConstantsTyped DEF Ready, TypeOK
<1>6. ASSUME n \in S, states[n] = "dead", NEW m \in Ready(Entries, cooling)
      PROVE  states[m] = "dead"
  BY <1>1, <1>6 DEF Selectable, Ready, Entries, TypeOK, Verdict
<1> QED BY <1>2, <1>4, <1>5, <1>6

(* ... and no more is a node handed out again because it is the sticky one. *)
THEOREM ServesBestAlways == SafetySpec => ServesBest
<1> DEFINE A == \A c \in Caller : pc[c] = "pick" /\ pc'[c] = "using" =>
                  LET n     == held'[c]
                      ready == Ready(Entries, cooling)
                  IN  /\ cooling[n] > 0 => ready = {}
                      /\ states[n] = "dead" => \A m \in ready : states[m] = "dead"
<1>1. TypeOK /\ [Next]_vars => A
  <2> SUFFICES ASSUME TypeOK, [Next]_vars, NEW c \in Caller,
                      pc[c] = "pick", pc'[c] = "using"
               PROVE  /\ cooling[held'[c]] > 0 => Ready(Entries, cooling) = {}
                      /\ states[held'[c]] = "dead" =>
                           \A m \in Ready(Entries, cooling) : states[m] = "dead"
    OBVIOUS
  <2>1. Take(c)
    <3> USE ConstantsTyped DEF TypeOK, Goto
    <3>1. ASSUME NEW p \in Proc, Load(p) PROVE FALSE
      BY <3>1 DEF Load, LoadCheck, LoadLock, FetchFails, Reload, SetLoaded,
                  StartLoops, AfterLoad
    <3>2. ASSUME NEW d \in Caller, Taking(d) PROVE Take(c)
      BY <3>2 DEF Taking, Begin, WaitProbe, WaitReady, WaitTimeout, Take, GiveUp
    <3>3. ASSUME Probing \/ Refreshing \/ Tick PROVE FALSE
      BY <3>3, BackgroundFrame
    <3>4. ASSUME NEW d \in Caller, NEW o \in Outcome, Report(d, o) PROVE FALSE
      BY <3>4 DEF Report
    <3>5. ASSUME UNCHANGED vars PROVE FALSE
      BY <3>5 DEF vars
    <3> QED BY <3>1, <3>2, <3>3, <3>4, <3>5 DEF Next, PoolNext
  <2>2. PICK n \in Entries : /\ TakesCurrent(n) \/ TakesNew(n)
                             /\ held'[c] = n
    BY <2>1 DEF Take, TypeOK
  <2>3. CASE TakesCurrent(n)
    BY <2>2, <2>3 DEF TakesCurrent, Usable
  <2>4. CASE TakesNew(n)
    BY <2>2, <2>4, PicksBest DEF TakesNew
  <2> QED BY <2>2, <2>3, <2>4
<1> HIDE DEF A
<1>2. SafetySpec => [][A]_vars
  BY <1>1, TypeCorrect, PTL DEF SafetySpec
<1> QED BY <1>2 DEF A, ServesBest
==============================================================================
