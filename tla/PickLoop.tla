------------------------------ MODULE PickLoop -------------------------------
(****************************************************************************)
(* proxypool.Pool.pickLocked, one loop iteration per step.  The caller      *)
(* holds p.mu throughout, so `states` and `cooling` are fixed inputs; the   *)
(* rotating index `next` is the only shared variable it writes.  CallAgain  *)
(* is the next caller, on an unchanged pool (the round-robin strategy).     *)
(* D_M is D with the mistake M in it (see ProxyPool).                       *)
(****************************************************************************)
EXTENDS NodeSelection

CONSTANTS Node,          \* Dialer keys
          Lists,         \* the node lists a call may run on
          MaxCooling,    \* largest remaining cool-down of an input
          NoNode         \* no node picked

ASSUME PickAssumption ==
  /\ Lists \subseteq (Seq(Node) \ {<<>>})
  /\ MaxCooling \in Nat /\ NoNode \notin Node

VARIABLES entries, states, cooling,  \* the pool, read only here
          next,                      \* p.next
          begin,                     \* p.next when this call was made
          phase, i,                  \* which loop, and its counter
          pick,                      \* `best` in the last loop, then the result
          served                     \* results of the calls so far (history)

input == <<entries, states, cooling>>
vars  == <<input, next, begin, phase, i, pick, served>>

Init ==
  /\ entries \in Lists
  /\ states \in [Node -> {"unknown", "healthy", "dead"}]
  /\ cooling \in [Node -> 0..MaxCooling]
  /\ next \in 0..(Len(entries) - 1)
  /\ begin = next
  /\ phase = "healthy" /\ i = 0 /\ pick = NoNode /\ served = <<>>

(* The order of the loops.                                                  *)
Following_NoFallback(ph) == CASE ph = "healthy"  -> "unprobed"
                              [] ph = "unprobed" -> "any"
                              [] ph = "any"      -> "done"
Following(ph) == CASE ph = "healthy"  -> "unprobed"
                   [] ph = "unprobed" -> "any"
                   [] ph = "any"      -> "thaw"

(* What each of the first three loops accepts.                              *)
Accepts(ph, e) ==
  /\ cooling[e] = 0
  /\ ph = "healthy"  => states[e] = "healthy"
  /\ ph = "unprobed" => states[e] = "unknown"

(* p.next = (p.next + 1) % n                                                *)
Advance_NoMod(k) == k + 1
Advance_Stuck(k) == k
Advance(k) == (k + 1) % Len(entries)

(* One iteration of a rotating loop: the index moves on, taken or not.      *)
Visit ==
  /\ phase \in {"healthy", "unprobed", "any"}
  /\ i < Len(entries)
  /\ next' = Advance(next)
  /\ LET e == entries[next + 1] IN
     \/ /\ Accepts(phase, e)
        /\ pick' = e /\ phase' = "done" /\ i' = 0
     \/ /\ ~Accepts(phase, e)
        /\ i' = i + 1 /\ UNCHANGED <<pick, phase>>
  /\ UNCHANGED <<input, begin, served>>

LoopEnds ==
  /\ phase \in {"healthy", "unprobed", "any"}
  /\ i = Len(entries)
  /\ phase' = Following(phase) /\ i' = 0
  /\ UNCHANGED <<input, next, begin, pick, served>>

(* until.Before(bestUntil): a later node has to thaw strictly earlier.      *)
ThawsBefore_OrTies(e, best) == best = NoNode \/ cooling[e] <= cooling[best]
ThawsBefore(e, best) == best = NoNode \/ cooling[e] < cooling[best]

VisitCooling ==
  /\ phase = "thaw"
  /\ i < Len(entries)
  /\ LET e == entries[i + 1] IN
     pick' = IF ThawsBefore(e, pick) THEN e ELSE pick
  /\ i' = i + 1
  /\ UNCHANGED <<input, next, begin, phase, served>>

ThawEnds ==
  /\ phase = "thaw" /\ i = Len(entries)
  /\ phase' = "done" /\ i' = 0
  /\ UNCHANGED <<input, next, begin, pick, served>>

(* The history is cut at the size of the class the calls rotate through.    *)
CallAgain ==
  /\ phase = "done"
  /\ Len(served) < Cardinality(Selectable(entries, states, cooling))
  /\ served' = Append(served, pick)
  /\ begin' = next
  /\ phase' = "healthy" /\ i' = 0 /\ pick' = NoNode
  /\ UNCHANGED <<input, next>>

Next == Visit \/ LoopEnds \/ VisitCooling \/ ThawEnds \/ CallAgain

Spec == Init /\ [][Next]_vars /\ WF_vars(Next)

------------------------------------------------------------------------------
(* Types of the loop's variables.                                           *)
TypeOK ==
  /\ entries \in Lists
  /\ states \in [Node -> Verdict] /\ cooling \in [Node -> 0..MaxCooling]
  /\ next \in 0..(Len(entries) - 1) /\ begin \in 0..(Len(entries) - 1)
  /\ phase \in {"healthy", "unprobed", "any", "thaw", "done"}
  /\ i \in 0..Len(entries)
  /\ pick \in Node \cup {NoNode}
  /\ served \in Seq(Node)

(* However the loops ran, their answer and the index they leave behind are  *)
(* the ones NodeSelection specifies: a failed loop goes once round and      *)
(* leaves the index where it found it.                                      *)
PicksAsSpecified ==
  phase = "done" => Picks(entries, begin, states, cooling, pick, next)

(* Round robin is even: until every member of the class has been served no  *)
(* member is served twice, even when other nodes lie between them.          *)
RotationEven ==
  /\ IsInjective(entries) => IsInjective(served)
  /\ Selectable(entries, states, cooling) # {} =>
       ToSet(served) \subseteq Selectable(entries, states, cooling)

(* A call always answers with a node: a non-empty pool never makes Take     *)
(* fail, even when every node is cooling.                                   *)
AlwaysAnswers == <>(phase = "done" /\ pick # NoNode)
==============================================================================
