---------------------------- MODULE NodeSelection ----------------------------
(****************************************************************************)
(* What proxypool.Pool.pickLocked promises, as operators.  A node is        *)
(* identified by Dialer.Key(); `entries` is the subscription in order,      *)
(* `states` the verdict about every key the pool has heard of, `cooling`    *)
(* the ticks left before a key is thawed (0: not in the map, or expired).   *)
(* PickLoop models the three loops of the code and is checked against these *)
(* operators; ProxyPool uses them.                                          *)
(* D_M is D with the mistake M in it (see ProxyPool).                       *)
(****************************************************************************)
EXTENDS Integers, Sequences, SequencesExt

(* absent: no nodeState for the key; unknown: ~known; healthy: known and    *)
(* healthy; dead: known and ~healthy.  (healthy /\ ~known never occurs.)    *)
Verdict == {"absent", "unknown", "healthy", "dead"}

Ready(S, cooling) == {n \in S : cooling[n] = 0}

(* The best class that has a member: healthy, then unprobed, then whatever  *)
(* is not cooling.  Empty exactly when every node is cooling.               *)
Selectable(entries, states, cooling) ==
  LET ready    == Ready(ToSet(entries), cooling)
      healthy  == {n \in ready : states[n] = "healthy"}
      unprobed == {n \in ready : states[n] \in {"absent", "unknown"}}
  IN  IF healthy # {} THEN healthy
      ELSE IF unprobed # {} THEN unprobed ELSE ready

(* The node k places after the rotating index, and the index after it.      *)
NodeAt(entries, next, k)  == entries[((next + k) % Len(entries)) + 1]
IndexAfter(entries, next, k) == (next + k + 1) % Len(entries)

(* The rotation stops at the first selectable node.                         *)
FirstInRotation(entries, next, S, k) ==
  /\ NodeAt(entries, next, k) \in S
  /\ \A j \in 0..(k - 1) : NodeAt(entries, next, j) \notin S

(* With every node cooling: the first of those that thaw earliest.          *)
ThawsFirst(entries, cooling, i) ==
  /\ \A j \in DOMAIN entries : cooling[entries[i]] <= cooling[entries[j]]
  /\ \A j \in 1..(i - 1) : cooling[entries[i]] < cooling[entries[j]]

(* pickLocked returns n and leaves the rotating index at `after`.           *)
Picks(entries, next, states, cooling, n, after) ==
  LET S == Selectable(entries, states, cooling) IN
  IF S # {}
    THEN \E k \in 0..(Len(entries) - 1) :
           /\ FirstInRotation(entries, next, S, k)
           /\ n = NodeAt(entries, next, k)
           /\ after = IndexAfter(entries, next, k)
    ELSE \E i \in DOMAIN entries :
           /\ ThawsFirst(entries, cooling, i)
           /\ n = entries[i]
           /\ after = next
==============================================================================
