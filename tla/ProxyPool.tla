------------------------------ MODULE ProxyPool ------------------------------
(****************************************************************************)
(* internal/proxypool: the pool of egress nodes.  Processes: main (Start),  *)
(* the callers of Take/Report, and three background tasks that probe nodes: *)
(* the initial probe, the health loop and the refresh loop.  Each critical  *)
(* section under p.mu is one action; loadMu and probeRunMu, which are held  *)
(* over network calls, are variables.  Time is Tick: a cool-down is kept as *)
(* the ticks left.  What the network answers (a subscription fetch, a TLS   *)
(* probe, a proxied request) is chosen freely.                              *)
(* A definition D_M is D with the mistake M in it: no specification uses    *)
(* it; replacing D by it breaks a property.                                 *)
(****************************************************************************)
EXTENDS NodeSelection

CONSTANTS Node,            \* Dialer.Key() of every node that may be listed
          Caller,          \* goroutines that call Take and Report
          Main,            \* the goroutine that calls Start
          Subscription,    \* node lists a fetch may return
          Sticky,          \* strategy == StrategySticky
          HealthChecks,    \* healthInterval > 0
          Refreshes,       \* refreshEvery > 0
          QuotaCooldown,   \* quotaCooldown, in ticks
          FailureCooldown, \* failureCooldown, in ticks
          NoNode, NoProc   \* nil

Proc == Caller \cup {Main}

ASSUME ProcAssumption == Main \notin Caller /\ NoProc \notin Proc
ASSUME NodeAssumption ==
  /\ NoNode \notin Node
  /\ Subscription \subseteq (Seq(Node) \ {<<>>})
  /\ Subscription # {}
ASSUME StrategyAssumption == {Sticky, HealthChecks, Refreshes} \subseteq BOOLEAN
ASSUME CooldownAssumption ==
  /\ QuotaCooldown \in Nat /\ FailureCooldown \in Nat
  /\ 0 < QuotaCooldown /\ QuotaCooldown < FailureCooldown

VARIABLES
  pc,          \* where each goroutine is in load / Take / Report
  held,        \* the Dialer Take gave each caller, until it is reported
  loaded, loadMu,
  entries, next, current, states, cooling,
  probeReady,  \* the channel: nil, open or closed
  probeRunMu,  \* the task that holds it, or free
  task,        \* stage of each background task
  jobs,        \* nodes each task still has to probe
  fetched,     \* refreshSubscription's local `dialers`
  results      \* candidates its probes found healthy

loadVars    == <<loaded, loadMu>>
pool        == <<entries, next, current, states, cooling>>
probeVars   == <<probeReady, probeRunMu, task, jobs>>
refreshVars == <<fetched, results>>
vars == <<pc, held, loadVars, pool, probeVars, refreshVars>>

Task    == {"initial", "health", "refresh"}
Entries == ToSet(entries)
None    == [n \in Node |-> 0]          \* an empty cooling map

(* What Report's status argument, or a probe, says about the node.          *)
Outcome == {"ok",       \* 2xx
            "quota",    \* 403 or 429
            "failure",  \* 5xx; 502 stands for a transport failure
            "other"}    \* any other status

Init ==
  /\ pc = [p \in Proc |-> IF p = Main THEN "load" ELSE "idle"]
  /\ held = [c \in Caller |-> NoNode]
  /\ loaded = FALSE /\ loadMu = NoProc
  /\ entries = <<>> /\ next = 0 /\ current = NoNode
  /\ states = [n \in Node |-> "absent"] /\ cooling = None
  /\ probeReady = "nil" /\ probeRunMu = "free"
  /\ task = [t \in Task |-> "off"] /\ jobs = [t \in Task |-> {}]
  /\ fetched = <<>> /\ results = {}

Goto(p, where) == pc' = [pc EXCEPT ![p] = where]
Stage(t, stage) == task' = [task EXCEPT ![t] = stage]

------------------------------------------------------------------------------
(* load                                                                     *)

(* Start returns, or Take goes on to waitProbe.                             *)
AfterLoad(p) == IF p = Main THEN "done" ELSE "waitProbe"

LoadCheck(p) ==
  /\ pc[p] = "load"
  /\ Goto(p, IF loaded THEN AfterLoad(p) ELSE "lockLoad")
  /\ UNCHANGED <<held, loadVars, pool, probeVars, refreshVars>>

(* loadMu.Lock and the second look at `loaded`: another goroutine may have  *)
(* loaded the subscription while this one waited.                           *)
LoadLock_NoSecondLook(p) ==
  /\ pc[p] = "lockLoad" /\ loadMu = NoProc
  /\ Goto(p, "fetch") /\ loadMu' = p
  /\ UNCHANGED <<held, loaded, pool, probeVars, refreshVars>>

LoadLock(p) ==
  /\ pc[p] = "lockLoad" /\ loadMu = NoProc
  /\ \/ /\ loaded
        /\ Goto(p, AfterLoad(p)) /\ UNCHANGED loadMu
     \/ /\ ~loaded
        /\ Goto(p, "fetch") /\ loadMu' = p
  /\ UNCHANGED <<held, loaded, pool, probeVars, refreshVars>>

(* A failed or empty subscription is not remembered: main goes on without a *)
(* pool, a caller's Take returns the error, the next Take tries again.      *)
FetchFails_KeepsLock(p) ==
  /\ pc[p] = "fetch"
  /\ Goto(p, IF p = Main THEN "done" ELSE "error")
  /\ UNCHANGED <<held, loaded, loadMu, pool, probeVars, refreshVars>>

FetchFails(p) ==
  /\ pc[p] = "fetch"
  /\ Goto(p, IF p = Main THEN "done" ELSE "error")
  /\ loadMu' = NoProc
  /\ UNCHANGED <<held, loaded, pool, probeVars, refreshVars>>

FreshStates_Lazy(s) == [n \in Node |-> "absent"]
FreshStates(s) ==
  [n \in Node |-> IF n \in ToSet(s) THEN "unknown" ELSE "absent"]

Reload(p) ==
  /\ pc[p] = "fetch"
  /\ \E s \in Subscription : entries' = s /\ states' = FreshStates(s)
  /\ next' = 0 /\ cooling' = None
  /\ Goto(p, "reloaded")
  /\ UNCHANGED <<held, loadVars, current, probeVars, refreshVars>>

(* From here on the other callers get past load, whether or not the probe   *)
(* below has been started.                                                  *)
SetLoaded(p) ==
  /\ pc[p] = "reloaded"
  /\ loaded' = TRUE
  /\ Goto(p, "startLoops")
  /\ UNCHANGED <<held, loadMu, pool, probeVars, refreshVars>>

(* startProbe, startHealthLoop, startRefreshLoop; loadMu is released.       *)
StartLoops(p) ==
  /\ pc[p] = "startLoops"
  /\ probeReady' = "open"
  /\ task' = [initial |-> "queued",
              health  |-> IF HealthChecks THEN "idle" ELSE "off",
              refresh |-> IF Refreshes THEN "idle" ELSE "off"]
  /\ jobs' = [jobs EXCEPT !["initial"] = Entries]
  /\ loadMu' = NoProc
  /\ Goto(p, AfterLoad(p))
  /\ UNCHANGED <<held, loaded, pool, probeRunMu, refreshVars>>

Load(p) == \/ LoadCheck(p) \/ LoadLock(p) \/ FetchFails(p) \/ Reload(p)
           \/ SetLoaded(p) \/ StartLoops(p)

------------------------------------------------------------------------------
(* Take                                                                     *)

(* main serves requests once Start has returned.                            *)
Begin(c) ==
  /\ pc[c] = "idle" /\ pc[Main] = "done"
  /\ Goto(c, "load")
  /\ UNCHANGED <<held, loadVars, pool, probeVars, refreshVars>>

(* The channel is nil until startProbe has run: nothing to wait for then.   *)
WaitProbe(c) ==
  /\ pc[c] = "waitProbe"
  /\ Goto(c, IF probeReady = "nil" THEN "pick" ELSE "waiting")
  /\ UNCHANGED <<held, loadVars, pool, probeVars, refreshVars>>

(* The channel is closed, or firstWait (or the request's context) ends.     *)
WaitReady(c) ==
  /\ pc[c] = "waiting" /\ probeReady = "closed"
  /\ Goto(c, "pick")
  /\ UNCHANGED <<held, loadVars, pool, probeVars, refreshVars>>

WaitTimeout(c) ==
  /\ pc[c] = "waiting" /\ probeReady = "open"
  /\ Goto(c, "pick")
  /\ UNCHANGED <<held, loadVars, pool, probeVars, refreshVars>>

Usable_IgnoresVerdict(n) == cooling[n] = 0
Usable(n) == cooling[n] = 0 /\ states[n] # "dead"

(* Take's answer n and what it leaves in p.current and p.next.  ErrEmpty is *)
(* not among them: PoolIndexed shows that entries is never empty here.       *)
TakesCurrent(n) ==
  /\ Sticky /\ current # NoNode /\ Usable(current)
  /\ n = current
  /\ UNCHANGED <<current, next>>

TakesNew(n) ==
  /\ ~(Sticky /\ current # NoNode /\ Usable(current))
  /\ Picks(entries, next, states, cooling, n, next')
  /\ current' = IF Sticky THEN n ELSE current

Take(c) ==
  /\ pc[c] = "pick"
  /\ \E n \in Entries :
       /\ TakesCurrent(n) \/ TakesNew(n)
       /\ held' = [held EXCEPT ![c] = n]
  /\ Goto(c, "using")
  /\ UNCHANGED <<loadVars, entries, states, cooling, probeVars, refreshVars>>

------------------------------------------------------------------------------
(* Report                                                                   *)

Longer_Adds(left, d) == left + d
Longer(left, d) == IF d > left THEN d ELSE left   \* coolLocked

CooledFor(left, o) == CASE o = "ok"      -> 0
                        [] o = "quota"   -> Longer(left, QuotaCooldown)
                        [] o = "failure" -> Longer(left, FailureCooldown)
                        [] o = "other"   -> left

(* A status that says nothing still creates the key's (unknown) state.      *)
VerdictAfter(st, o) == CASE o = "ok"      -> "healthy"
                     [] o = "failure" -> "dead"
                     [] OTHER -> IF st = "absent" THEN "unknown" ELSE st

CurrentAfter_AnyNode(n, o) ==
  IF o \in {"quota", "failure"} THEN NoNode ELSE current
CurrentAfter(n, o) ==
  IF o \in {"quota", "failure"} /\ current = n THEN NoNode ELSE current

(* What Report(n, o) does to the pool, in the pool's list or not.           *)
Reports(n, o) ==
  /\ states'  = [states EXCEPT ![n] = VerdictAfter(states[n], o)]
  /\ cooling' = [cooling EXCEPT ![n] = CooledFor(cooling[n], o)]
  /\ current' = CurrentAfter(n, o)
  /\ UNCHANGED <<entries, next>>

(* The caller is done with its request, or takes another node at once.      *)
Report(c, o) ==
  /\ pc[c] = "using"
  /\ Reports(held[c], o)
  /\ held' = [held EXCEPT ![c] = NoNode]
  /\ \E after \in {"idle", "load"} : Goto(c, after)
  /\ UNCHANGED <<loadVars, probeVars, refreshVars>>

(* The caller of a failed Take does without the pool.                       *)
GiveUp(c) ==
  /\ pc[c] = "error"
  /\ Goto(c, "idle")
  /\ UNCHANGED <<held, loadVars, pool, probeVars, refreshVars>>

------------------------------------------------------------------------------
(* probeAll and probeDue.  Both run probeBatch, which gives up when another *)
(* batch is running.  Up to probeWorkers probes are in flight and complete  *)
(* in any order: any outstanding job may be the next to finish.             *)

(* Which nodes a health check probes: the unprobed, the dead (cooling or    *)
(* not) and the healthy whose lastCheck is older than healthyRecheck, an    *)
(* age that is not modelled: `stale` is any part of them.                   *)
Due_OnlyUnknown(stale) == {n \in Entries : states[n] = "unknown" \/ n \in stale}
Due(stale) == {n \in Entries : states[n] # "healthy" \/ n \in stale}

HealthTick ==
  /\ task["health"] = "idle"
  /\ \E stale \in SUBSET {n \in Entries : states[n] = "healthy"} :
       /\ Due(stale) # {}
       /\ jobs' = [jobs EXCEPT !["health"] = Due(stale)]
  /\ Stage("health", "queued")
  /\ UNCHANGED <<pc, held, loadVars, pool, probeReady, probeRunMu, refreshVars>>

(* Where a task's goroutine goes after its batch.                           *)
AfterBatch(t) == CASE t = "initial" -> "done"    \* probeAll returns
                   [] t = "health"  -> "idle"    \* waits for the ticker
                   [] t = "refresh" -> "switch"

(* probeAll closes the channel at the end, found a healthy node or not.     *)
ReadyAfterBatch_OnlyOnSuccess(t) == probeReady
ReadyAfterBatch(t) == IF t = "initial" THEN "closed" ELSE probeReady

TryLock_Regardless(t) ==
  /\ task[t] = "queued"
  /\ probeRunMu' = t /\ Stage(t, "probing")
  /\ UNCHANGED <<pc, held, loadVars, pool, probeReady, jobs, refreshVars>>

TryLock(t) ==
  /\ task[t] = "queued" /\ probeRunMu = "free"
  /\ probeRunMu' = t /\ Stage(t, "probing")
  /\ UNCHANGED <<pc, held, loadVars, pool, probeReady, jobs, refreshVars>>

(* TryLock failed: this round is dropped.                                   *)
SkipBatch(t) ==
  /\ task[t] = "queued" /\ probeRunMu # "free"
  /\ Stage(t, AfterBatch(t)) /\ jobs' = [jobs EXCEPT ![t] = {}]
  /\ probeReady' = ReadyAfterBatch(t)
  /\ UNCHANGED <<pc, held, loadVars, pool, probeRunMu, refreshVars>>

(* A worker's verdict; the first healthy node of the initial batch lets the *)
(* waiting callers go.  p.current is left alone.                            *)
ProbeDone(t, n, ok) ==
  /\ task[t] = "probing" /\ n \in jobs[t]
  /\ jobs' = [jobs EXCEPT ![t] = @ \ {n}]
  /\ states' = [states EXCEPT ![n] = IF ok THEN "healthy" ELSE "dead"]
  /\ cooling' = [cooling EXCEPT
                   ![n] = CooledFor(@, IF ok THEN "ok" ELSE "failure")]
  /\ probeReady' = IF t = "initial" /\ ok THEN "closed" ELSE probeReady
  /\ UNCHANGED <<pc, held, loadVars, entries, next, current, probeRunMu, task,
                 refreshVars>>

BatchDone_KeepsLock(t) ==
  /\ task[t] = "probing" /\ jobs[t] = {}
  /\ Stage(t, AfterBatch(t))
  /\ probeReady' = ReadyAfterBatch(t)
  /\ UNCHANGED <<pc, held, loadVars, pool, probeRunMu, jobs, refreshVars>>

BatchDone(t) ==
  /\ task[t] = "probing" /\ jobs[t] = {}
  /\ probeRunMu' = "free"
  /\ Stage(t, AfterBatch(t))
  /\ probeReady' = ReadyAfterBatch(t)
  /\ UNCHANGED <<pc, held, loadVars, pool, jobs, refreshVars>>

------------------------------------------------------------------------------
(* refreshSubscription.  A fetch that fails changes nothing.                *)

(* Nodes of the new list the pool has no state for: they are probed first.  *)
Candidates(s) == {n \in ToSet(s) : states[n] = "absent"}

RefreshTick ==
  /\ task["refresh"] = "idle"
  /\ \E s \in Subscription :
       /\ fetched' = s
       /\ jobs' = [jobs EXCEPT !["refresh"] = Candidates(s)]
       /\ Stage("refresh", IF Candidates(s) = {} THEN "switch" ELSE "blocked")
  /\ results' = {}
  /\ UNCHANGED <<pc, held, loadVars, pool, probeReady, probeRunMu>>

(* Unlike probeBatch, probeCandidates waits for the running batch.          *)
RefreshLock ==
  /\ task["refresh"] = "blocked" /\ probeRunMu = "free"
  /\ probeRunMu' = "refresh" /\ Stage("refresh", "probing")
  /\ UNCHANGED <<pc, held, loadVars, pool, probeReady, jobs, refreshVars>>

CandidateDone(n, ok) ==
  /\ task["refresh"] = "probing" /\ n \in jobs["refresh"]
  /\ jobs' = [jobs EXCEPT !["refresh"] = @ \ {n}]
  /\ results' = IF ok THEN results \cup {n} ELSE results
  /\ UNCHANGED <<pc, held, loadVars, pool, probeReady, probeRunMu, task,
                 fetched>>

(* The states and cool-downs of the new list, built from the old ones as    *)
(* they are NOW: a key may have got a state since its candidacy.            *)
Fetched == ToSet(fetched)

StatesAfterSwitch_Resets ==
  [n \in Node |-> IF n \notin Fetched THEN "absent"
                  ELSE IF n \in results THEN "healthy" ELSE "unknown"]
StatesAfterSwitch ==
  [n \in Node |-> IF n \notin Fetched THEN "absent"
                  ELSE IF states[n] # "absent" THEN states[n]
                  ELSE IF n \in results THEN "healthy" ELSE "dead"]

CoolingAfterSwitch_Forgets ==
  [n \in Node |-> IF n \in Fetched \ results /\ states[n] = "absent"
                    THEN FailureCooldown ELSE 0]
CoolingAfterSwitch ==
  [n \in Node |-> IF n \notin Fetched THEN 0
                  ELSE IF cooling[n] > 0 THEN cooling[n]
                  ELSE IF states[n] = "absent" /\ n \notin results
                         THEN FailureCooldown ELSE 0]

(* A sticky node that left the subscription is let go.                      *)
CurrentAfterSwitch == IF current \in Fetched THEN current ELSE NoNode

(* With no healthy node in the new list the old pool stays.                 *)
WorthSwitching_Always == TRUE
WorthSwitching == \E n \in Fetched : StatesAfterSwitch[n] = "healthy"

RefreshSwitch ==
  /\ task["refresh"] = "switch"
  /\ \/ /\ WorthSwitching
        /\ entries' = fetched /\ next' = 0
        /\ states' = StatesAfterSwitch
        /\ cooling' = CoolingAfterSwitch
        /\ current' = CurrentAfterSwitch
     \/ /\ ~WorthSwitching
        /\ UNCHANGED pool
  /\ Stage("refresh", "idle")
  /\ fetched' = <<>> /\ results' = {}    \* end of the locals
  /\ UNCHANGED <<pc, held, loadVars, probeReady, probeRunMu, jobs>>

------------------------------------------------------------------------------
Tick ==
  /\ \E n \in Node : cooling[n] > 0
  /\ cooling' = [n \in Node |-> IF cooling[n] > 0 THEN cooling[n] - 1 ELSE 0]
  /\ UNCHANGED <<pc, held, loadVars, entries, next, current, states, probeVars,
                 refreshVars>>

Probing == \/ \E t \in {"initial", "health"} :
                \/ TryLock(t) \/ SkipBatch(t)
                \/ \E n \in Node, ok \in BOOLEAN : ProbeDone(t, n, ok)
           \/ \E t \in Task : BatchDone(t)
           \/ HealthTick

Refreshing == \/ RefreshTick \/ RefreshLock \/ RefreshSwitch
              \/ \E n \in Node, ok \in BOOLEAN : CandidateDone(n, ok)

Taking(c) == \/ Begin(c) \/ WaitProbe(c) \/ WaitReady(c) \/ WaitTimeout(c)
             \/ Take(c) \/ GiveUp(c)

(* Everything but what the callers do with the node they were given.        *)
PoolNext == \/ \E p \in Proc : Load(p)
            \/ \E c \in Caller : Taking(c)
            \/ Probing \/ Refreshing \/ Tick

Next == PoolNext \/ \E c \in Caller, o \in Outcome : Report(c, o)

(* Goroutines run; a mutex taken with Lock is handed over eventually (Go's  *)
(* starvation mode), one tried with TryLock promises nothing; probes and    *)
(* dials have timeouts; tickers tick.  Callers need not come (Begin).       *)
Fairness ==
  /\ \A p \in Proc : WF_vars(LoadCheck(p)) /\ SF_vars(LoadLock(p))
                     /\ WF_vars(FetchFails(p) \/ Reload(p))
                     /\ WF_vars(SetLoaded(p)) /\ WF_vars(StartLoops(p))
  /\ \A c \in Caller : WF_vars(Taking(c) /\ pc[c] # "idle")
  /\ \A t \in Task :
       /\ WF_vars(TryLock(t) \/ SkipBatch(t))
       /\ WF_vars(\E n \in Node, ok \in BOOLEAN : ProbeDone(t, n, ok))
       /\ WF_vars(BatchDone(t))
  /\ WF_vars(HealthTick)
  /\ SF_vars(RefreshLock) /\ WF_vars(RefreshSwitch)
  /\ WF_vars(\E n \in Node, ok \in BOOLEAN : CandidateDone(n, ok))
  /\ WF_vars(Tick)

SafetySpec == Init /\ [][Next]_vars
Spec == SafetySpec /\ Fairness

------------------------------------------------------------------------------
(* Types, and which stages the state of a process allows.                   *)
TypeOK ==
  /\ pc \in [Proc -> {"idle", "load", "lockLoad", "fetch", "reloaded",
                      "startLoops", "waitProbe", "waiting", "pick", "using",
                      "error", "done"}]
  /\ held \in [Caller -> Node \cup {NoNode}]
  /\ loaded \in BOOLEAN /\ loadMu \in Proc \cup {NoProc}
  /\ entries \in Seq(Node) /\ next \in Nat
  /\ current \in Node \cup {NoNode}
  /\ states \in [Node -> Verdict]
  /\ cooling \in [Node -> 0..FailureCooldown]
  /\ probeReady \in {"nil", "open", "closed"}
  /\ probeRunMu \in Task \cup {"free"}
  /\ task \in [Task -> {"off", "idle", "queued", "blocked", "probing",
                        "switch", "done"}]
  /\ jobs \in [Task -> SUBSET Node]
  /\ fetched \in Seq(Node) /\ results \in SUBSET Node

(* pool.go's maps and list agree: whoever got past load finds a node to     *)
(* pick, every listed node has a state (or the next refresh would probe it  *)
(* as a newcomer and put it in the penalty box), a cool-down belongs to a   *)
(* key with a state, and the sticky node is on the list.                    *)
PoolIndexed ==
  /\ loaded => entries # <<>>
  /\ \A c \in Caller : pc[c] \in {"waitProbe", "waiting", "pick"} => loaded
  /\ entries # <<>> => next < Len(entries)
  /\ \A n \in Entries : states[n] # "absent"
  /\ \A n \in Node : cooling[n] > 0 => states[n] # "absent"
  /\ current # NoNode => Sticky /\ current \in Entries

(* One goroutine at a time loads the subscription, and none once it has     *)
(* been loaded: a second load would wipe every verdict and cool-down.       *)
LoadsOnce ==
  /\ \A p \in Proc :
       loadMu = p <=> pc[p] \in {"fetch", "reloaded", "startLoops"}
  /\ \A p \in Proc : /\ pc[p] \in {"fetch", "reloaded"} => ~loaded
                     /\ pc[p] = "startLoops" => loaded

(* Probe batches never overlap: the task that probes is the one that holds  *)
(* probeRunMu (probe.go:110, "avoid piling up").                            *)
OneBatch ==
  /\ \A t \in Task : task[t] = "probing" <=> probeRunMu = t
  /\ \A t \in Task :
       jobs[t] # {} => task[t] \in {"queued", "blocked", "probing"}

(* No caller waits for a channel that nobody will close: as long as         *)
(* probeReady is open the goroutine of the initial probe is still to come   *)
(* to its end, whether or not it got probeRunMu or found a healthy node.    *)
OpenMeansProbing ==
  probeReady = "open" <=>
    task["initial"] \in {"queued", "probing"} /\ probeReady # "closed"

------------------------------------------------------------------------------
(* After the first load the list changes only to one with a healthy node in *)
(* it (refresh.go:33).                                                      *)
SwitchesToHealthy ==
  [][loaded /\ entries' # entries =>
       \E n \in ToSet(entries') : states'[n] = "healthy"]_vars

(* This step is a probe's verdict or a caller's report about n.             *)
Probed(n, ok) == \E t \in {"initial", "health"} : ProbeDone(t, n, ok)
Reported(n, o) == \E c \in Caller : held[c] = n /\ Report(c, o)

(* A node that stays on the list changes its verdict only by a probe of it  *)
(* or a report about it, and is never unprobed again (pool.go:42): not by a *)
(* refresh that writes what it read before its probes, not by what others   *)
(* report about other nodes.                                                *)
VerdictsKept ==
  [][loaded => \A n \in Entries \cap ToSet(entries') :
       /\ states'[n] # states[n] =>
            \/ \E ok \in BOOLEAN : Probed(n, ok)
            \/ \E o \in Outcome : Reported(n, o)
       /\ states[n] \in {"healthy", "dead"} => states'[n] \in {"healthy", "dead"}]_vars

(* The cool-down of a node that is on the list after the step, whatever its *)
(* verdict, gets shorter by the passing of time only, or ends because a     *)
(* request through the node succeeds or a probe of it does, in this step:   *)
(* not by a shorter one, a concurrent load, or a refresh.                   *)
CooldownsHonoured ==
  [][loaded => \A n \in ToSet(entries') :
       \/ cooling'[n] >= cooling[n]
       \/ Tick /\ cooling'[n] = cooling[n] - 1
       \/ Probed(n, TRUE) \/ Reported(n, "ok")]_vars

(* Sticky: the pool leaves its current node only when that node cannot be   *)
(* used or has left the subscription (strategy.go:7); what other callers    *)
(* report about other nodes does not move it.                               *)
StickyStays ==
  [][\A n \in Node : current = n /\ current' # n =>
       n \notin ToSet(entries') \/ cooling'[n] > 0 \/ states'[n] = "dead"]_vars

(* Take hands out a cooling node only when all are cooling, and a dead one  *)
(* only when no other is ready -- also when the dead node is the current    *)
(* one and its cool-down has run out.                                       *)
ServesBest ==
  [][\A c \in Caller : pc[c] = "pick" /\ pc'[c] = "using" =>
       LET n     == held'[c]
           ready == Ready(Entries, cooling)
       IN  /\ cooling[n] > 0 => ready = {}
           /\ states[n] = "dead" => \A m \in ready : states[m] = "dead"]_vars

------------------------------------------------------------------------------
(* Take returns, a node or an error: nobody waits forever for loadMu or for *)
(* the first probe.                                                         *)
TakeReturns ==
  \A c \in Caller : pc[c] = "load" ~> pc[c] \in {"using", "error"}

(* A refresh that waits for a probe batch gets its turn and ends, though    *)
(* the health loop keeps starting batches.                                  *)
RefreshEnds == task["refresh"] = "blocked" ~> task["refresh"] = "idle"

(* probe.go:66: the health loop probes dead nodes again; none stays dead    *)
(* because nobody looks -- unless refreshes hold probeRunMu again and again: *)
(* the health loop then drops its rounds.                                   *)
DeadProbedAgain ==
  \/ []<>(probeRunMu = "refresh")
  \/ \A n \in Node :
       (n \in Entries /\ states[n] = "dead") ~>
         \/ task["health"] = "probing" /\ n \in jobs["health"]
         \/ states[n] # "dead" \/ n \notin Entries

==============================================================================
