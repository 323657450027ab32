--------------------------- MODULE PickLoopProofs ----------------------------
(****************************************************************************)
(* What holds of PickLoop for lists of any length, any verdicts and any     *)
(* cool-downs.                                                              *)
(****************************************************************************)
EXTENDS PickLoop, FiniteSetTheorems, SequenceTheorems, TLAPS

Class      == Selectable(entries, states, cooling)
Loops      == {"healthy", "unprobed", "any"}
Refused(ph) == \A e \in ToSet(entries) : ~Accepts(ph, e)

(* The place m among the first `upto` is the first that thaws earliest.     *)
Earliest(m, upto) ==
  /\ \A j \in 1..upto : cooling[entries[m]] <= cooling[entries[j]]
  /\ \A j \in 1..(m - 1) : cooling[entries[m]] < cooling[entries[j]]

(* What each loop has found out when it is at its counter.                  *)
Looped ==
  /\ phase \in Loops =>
       /\ next = (begin + i) % Len(entries) /\ pick = NoNode
       /\ \A j \in 0..(i - 1) : ~Accepts(phase, NodeAt(entries, begin, j))
  /\ phase \in {"unprobed", "any", "thaw"} => Refused("healthy")
  /\ phase \in {"any", "thaw"} => Refused("unprobed")
  /\ phase = "thaw" =>
       /\ Refused("any") /\ next = begin
       /\ i = 0 => pick = NoNode
       /\ i # 0 => \E m \in 1..i : pick = entries[m] /\ Earliest(m, i)

(* The calls so far began at b and have gone t places, not yet once round:  *)
(* they have served the class's members on their way, and each of them is   *)
(* at one of these places.                                                  *)
Gone(b, t) ==
  /\ begin = (b + t) % Len(entries)
  /\ \A k \in 0..(t - 1) :
       NodeAt(entries, b, k) \in Class => NodeAt(entries, b, k) \in ToSet(served)
  /\ \A s \in ToSet(served) : \E k \in 0..(t - 1) : s = NodeAt(entries, b, k)
Rotated ==
  /\ Class = {} => served = <<>>
  /\ Class # {} => \E b \in 0..(Len(entries) - 1), t \in 0..Len(entries) : Gone(b, t)

IInv ==
  /\ TypeOK /\ states \in [Node -> {"unknown", "healthy", "dead"}]
  /\ Looped /\ PicksAsSpecified
  /\ Rotated /\ RotationEven

------------------------------------------------------------------------------
(* Twice round the list at most: what the remainder is.                     *)
LEMMA Wrapped ==
  ASSUME NEW n \in Nat \ {0}
  PROVE  \A a \in 0..(2 * n - 1) : /\ a % n = IF a < n THEN a ELSE a - n
                                   /\ a % n \in 0..(n - 1)
<1> SUFFICES ASSUME NEW a \in 0..(2 * n - 1)
             PROVE  a % n = (IF a < n THEN a ELSE a - n) /\ a % n \in 0..(n - 1)
  OBVIOUS
<1>1. CASE a < n
  BY <1>1
<1>2. CASE ~(a < n)
  <2>1. a = n * 1 + (a - n) /\ a - n \in 0..(n - 1)
    BY <1>2
  <2> QED BY <1>2, <2>1
<1> QED BY <1>1, <1>2

LEMMA StepRound ==
  ASSUME NEW n \in Nat \ {0}, NEW b \in 0..(n - 1)
  PROVE  /\ (b + 0) % n = b /\ (b + n) % n = b
         /\ \A k \in 0..(n - 1) : /\ (b + k) % n \in 0..(n - 1)
                                  /\ (((b + k) % n) + 1) % n = (b + (k + 1)) % n
                                  /\ (((b + k) % n) + 1) % n = (b + k + 1) % n
<1> DEFINE R(a) == a % n
<1>1. \A a \in 0..(2 * n - 1) : R(a) = (IF a < n THEN a ELSE a - n)
                                /\ R(a) \in 0..(n - 1)
  BY Wrapped
<1> HIDE DEF R
<1>2. R(b + 0) = b /\ R(b + n) = b
  BY <1>1
<1>3. ASSUME NEW k \in 0..(n - 1)
      PROVE  /\ R(b + k) \in 0..(n - 1)
             /\ R(R(b + k) + 1) = R(b + (k + 1))
             /\ R(R(b + k) + 1) = R(b + k + 1)
  <2>1. b + k \in 0..(2 * n - 1) /\ b + (k + 1) \in 0..(2 * n - 1)
    OBVIOUS
  <2>2. R(b + k) \in 0..(n - 1) /\ R(b + k) = IF b + k < n THEN b + k ELSE b + k - n
    BY <1>1, <2>1
  <2>3. R(b + k) + 1 \in 0..(2 * n - 1)
    BY <2>2
  <2>4. R(R(b + k) + 1) = IF R(b + k) + 1 < n THEN R(b + k) + 1 ELSE R(b + k) + 1 - n
    BY <1>1, <2>3
  <2>5. R(b + (k + 1)) = IF b + (k + 1) < n THEN b + (k + 1) ELSE b + (k + 1) - n
    BY <1>1, <2>1
  <2>6. R(R(b + k) + 1) = R(b + (k + 1))
    BY <2>2, <2>4, <2>5
  <2>7. b + (k + 1) = b + k + 1
    OBVIOUS
  <2> QED BY <2>2, <2>6, <2>7
<1> QED BY <1>2, <1>3 DEF R

(* Going on from where t places have led.                                   *)
LEMMA GoOn ==
  ASSUME NEW n \in Nat \ {0}, NEW b \in 0..(n - 1), NEW t \in 0..n,
         NEW k \in Nat, t + k < n
  PROVE  (((b + t) % n) + k) % n = (b + (t + k)) % n
<1> DEFINE R(a) == a % n
<1>1. \A a \in 0..(2 * n - 1) : R(a) = (IF a < n THEN a ELSE a - n)
                                /\ R(a) \in 0..(n - 1)
  BY Wrapped
<1> HIDE DEF R
<1>2. b + t \in 0..(2 * n - 1) /\ b + (t + k) \in 0..(2 * n - 1)
  OBVIOUS
<1>3. R(b + t) \in 0..(n - 1) /\ R(b + t) = IF b + t < n THEN b + t ELSE b + t - n
  BY <1>1, <1>2
<1>4. R(b + t) + k \in 0..(2 * n - 1)
  BY <1>3
<1>5. R(R(b + t) + k) = IF R(b + t) + k < n THEN R(b + t) + k ELSE R(b + t) + k - n
  BY <1>1, <1>4
<1>6. R(b + (t + k)) = IF b + (t + k) < n THEN b + (t + k) ELSE b + (t + k) - n
  BY <1>1, <1>2
<1>7. R(R(b + t) + k) = R(b + (t + k))
  BY <1>3, <1>5, <1>6
<1> QED BY <1>7 DEF R

(* Once round the list meets every node, each place once.                   *)
LEMMA Round ==
  ASSUME NEW es \in Seq(Node), es # <<>>, NEW b \in 0..(Len(es) - 1)
  PROVE  /\ \A k \in 0..(Len(es) - 1) :
              NodeAt(es, b, k) \in ToSet(es) /\ NodeAt(es, b, k) \in Node
         /\ \A e \in ToSet(es) :
              \E k \in 0..(Len(es) - 1) : e = NodeAt(es, b, k)
         /\ IsInjective(es) =>
              \A j, k \in 0..(Len(es) - 1) :
                NodeAt(es, b, j) = NodeAt(es, b, k) => j = k
<1> DEFINE n == Len(es)
<1>1. n \in Nat \ {0} /\ DOMAIN es = 1..n
  BY LenProperties, EmptySeq
<1> HIDE DEF n
<1>b. b \in 0..(n - 1)
  BY DEF n
<1>2. ASSUME NEW k \in 0..(n - 1)
      PROVE  /\ ((b + k) % n) + 1 \in DOMAIN es
             /\ (b + k) % n = IF b + k < n THEN b + k ELSE b + k - n
  <2> DEFINE R(a) == a % n
  <2>1. \A a \in 0..(2 * n - 1) : R(a) = (IF a < n THEN a ELSE a - n)
                                  /\ R(a) \in 0..(n - 1)
    BY <1>1, Wrapped
  <2> HIDE DEF R
  <2>2. b + k \in 0..(2 * n - 1)
    BY <1>1, <1>b
  <2>3. R(b + k) \in 0..(n - 1) /\ R(b + k) = IF b + k < n THEN b + k ELSE b + k - n
    BY <1>1, <1>b, <2>1, <2>2
  <2>4. R(b + k) + 1 \in DOMAIN es
    BY <1>1, <2>3
  <2> QED BY <2>3, <2>4 DEF R
<1>3. \A k \in 0..(n - 1) : NodeAt(es, b, k) = es[((b + k) % n) + 1]
  BY DEF NodeAt, n
<1>4. \A k \in 0..(n - 1) : NodeAt(es, b, k) \in ToSet(es) /\ NodeAt(es, b, k) \in Node
  <2> SUFFICES ASSUME NEW k \in 0..(n - 1)
               PROVE  NodeAt(es, b, k) \in ToSet(es) /\ NodeAt(es, b, k) \in Node
    OBVIOUS
  <2>1. PICK m : m = ((b + k) % n) + 1
    OBVIOUS
  <2>2. m \in DOMAIN es /\ NodeAt(es, b, k) = es[m]
    BY <1>2, <1>3, <2>1
  <2>3. es[m] \in Node /\ es[m] \in ToSet(es)
    BY <1>1, <2>2, ElementOfSeq DEF ToSet, n
  <2> QED BY <2>2, <2>3
<1>5. \A e \in ToSet(es) : \E k \in 0..(n - 1) : e = NodeAt(es, b, k)
  <2> SUFFICES ASSUME NEW e \in ToSet(es)
               PROVE  \E k \in 0..(n - 1) : e = NodeAt(es, b, k)
    OBVIOUS
  <2>1. PICK m \in 1..n : e = es[m]
    BY <1>1 DEF ToSet
  <2> DEFINE k == IF m - 1 >= b THEN m - 1 - b ELSE m - 1 - b + n
  <2>2. k \in 0..(n - 1) /\ m = (IF b + k < n THEN b + k ELSE b + k - n) + 1
    BY <1>1, <1>b
  <2> HIDE DEF k
  <2>3. m = ((b + k) % n) + 1
    BY <1>2, <2>2
  <2> QED BY <1>3, <2>1, <2>2, <2>3
<1>6. ASSUME IsInjective(es), NEW j \in 0..(n - 1), NEW k \in 0..(n - 1),
             NodeAt(es, b, j) = NodeAt(es, b, k)
      PROVE  j = k
  <2>1. PICK x, y : x = (b + j) % n /\ y = (b + k) % n
    OBVIOUS
  <2>2. /\ x + 1 \in DOMAIN es /\ x = IF b + j < n THEN b + j ELSE b + j - n
        /\ y + 1 \in DOMAIN es /\ y = IF b + k < n THEN b + k ELSE b + k - n
    BY <1>2, <2>1
  <2>3. es[x + 1] = es[y + 1]
    BY <1>3, <1>6, <2>1
  <2>4. x + 1 = y + 1
    BY <1>6, <2>2, <2>3 DEF IsInjective
  <2> QED BY <1>1, <1>b, <2>2, <2>4
<1> QED BY <1>4, <1>5, <1>6 DEF n


------------------------------------------------------------------------------
LEMMA Basics ==
  ASSUME TypeOK
  PROVE  /\ entries \in Seq(Node) /\ entries # <<>>
         /\ Len(entries) \in Nat \ {0} /\ DOMAIN entries = 1..Len(entries)
         /\ begin \in 0..(Len(entries) - 1) /\ i \in 0..Len(entries)
         /\ \A m \in 1..Len(entries) : entries[m] \in Node /\ entries[m] \in ToSet(entries)
         /\ \A e \in ToSet(entries) : /\ e \in Node
                                      /\ \E m \in 1..Len(entries) : e = entries[m]
         /\ \A e \in Node : cooling[e] \in Nat
<1>1. entries \in Seq(Node) /\ entries # <<>>
  BY PickAssumption DEF TypeOK
<1>2. Len(entries) \in Nat \ {0} /\ DOMAIN entries = 1..Len(entries)
  BY <1>1, LenProperties, EmptySeq
<1>3. \A m \in 1..Len(entries) : entries[m] \in Node
  BY <1>1, ElementOfSeq
<1>4. /\ \A m \in 1..Len(entries) : entries[m] \in ToSet(entries)
      /\ \A e \in ToSet(entries) : \E m \in 1..Len(entries) : e = entries[m]
  BY <1>2 DEF ToSet
<1>5. \A e \in Node : cooling[e] \in Nat
  BY PickAssumption DEF TypeOK
<1>6. begin \in 0..(Len(entries) - 1) /\ i \in 0..Len(entries)
  BY DEF TypeOK
<1> QED BY <1>1, <1>2, <1>3, <1>4, <1>5, <1>6

(* The loop that first accepts a node is the loop of the best class.        *)
LEMMA ClassOf ==
  ASSUME TypeOK, states \in [Node -> {"unknown", "healthy", "dead"}]
  PROVE  /\ \A ph \in Loops :
              /\ ph \in {"unprobed", "any"} => Refused("healthy")
              /\ ph = "any" => Refused("unprobed")
              /\ ~Refused(ph)
              => \A e \in ToSet(entries) : e \in Class <=> Accepts(ph, e)
         /\ Refused("any") => Class = {}
         /\ \A ph \in Loops : \A e \in ToSet(entries) : Accepts(ph, e) => Accepts("any", e)
         /\ Class \subseteq ToSet(entries)
<1> DEFINE ready    == {x \in ToSet(entries) : cooling[x] = 0}
           healthy  == {x \in ready : states[x] = "healthy"}
           unprobed == {x \in ready : states[x] \in {"absent", "unknown"}}
<1>1. Class = IF healthy # {} THEN healthy ELSE IF unprobed # {} THEN unprobed ELSE ready
  BY Zenon DEF Class, Selectable, Ready
<1>2. \A e \in ToSet(entries) : /\ e \in healthy <=> Accepts("healthy", e)
                                /\ e \in unprobed <=> Accepts("unprobed", e)
                                /\ e \in ready <=> Accepts("any", e)
  BY Basics DEF Accepts
<1>3. /\ healthy \subseteq ToSet(entries) /\ unprobed \subseteq ToSet(entries)
      /\ ready \subseteq ToSet(entries) /\ healthy \subseteq ready
      /\ unprobed \subseteq ready
  OBVIOUS
<1> HIDE DEF ready, healthy, unprobed
<1>4. /\ Refused("healthy") <=> healthy = {}
      /\ Refused("unprobed") <=> unprobed = {}
      /\ Refused("any") <=> ready = {}
  BY <1>2, <1>3 DEF Refused
<1>5. ASSUME NEW ph \in Loops,
             ph \in {"unprobed", "any"} => Refused("healthy"),
             ph = "any" => Refused("unprobed"), ~Refused(ph)
      PROVE  \A e \in ToSet(entries) : e \in Class <=> Accepts(ph, e)
  <2>1. CASE ph = "healthy"
    BY <1>1, <1>2, <1>4, <1>5, <2>1
  <2>2. CASE ph = "unprobed"
    BY <1>1, <1>2, <1>4, <1>5, <2>2
  <2>3. CASE ph = "any"
    BY <1>1, <1>2, <1>4, <1>5, <2>3
  <2> QED BY <2>1, <2>2, <2>3 DEF Loops
<1>6. Refused("any") => Class = {}
  BY <1>1, <1>3, <1>4
<1>7. \A ph \in Loops : \A e \in ToSet(entries) : Accepts(ph, e) => Accepts("any", e)
  BY DEF Accepts
<1>8. Class \subseteq ToSet(entries)
  BY <1>1, <1>3
<1> QED BY <1>5, <1>6, <1>7, <1>8

LEMMA InitInv == Init => IInv
<1> SUFFICES ASSUME Init PROVE IInv
  OBVIOUS
<1>1. entries \in Seq(Node) /\ entries # <<>>
  BY PickAssumption DEF Init
<1>2. Len(entries) \in Nat \ {0}
  BY <1>1, LenProperties, EmptySeq
<1>3. served \in Seq(Node) /\ DOMAIN served = {} /\ ToSet(served) = {}
  <2>1. served = <<>>
    BY DEF Init
  <2>2. DOMAIN served = {}
    BY <2>1
  <2> QED BY <2>1, <2>2, EmptySeq DEF ToSet
<1>4. TypeOK
  <2>1. next \in 0..(Len(entries) - 1) /\ begin \in 0..(Len(entries) - 1)
    BY DEF Init
  <2>2. i \in 0..Len(entries)
    BY <1>2 DEF Init
  <2>3. states \in [Node -> Verdict]
    BY DEF Init, Verdict
  <2> QED BY <1>3, <2>1, <2>2, <2>3 DEF Init, TypeOK
<1>5. states \in [Node -> {"unknown", "healthy", "dead"}]
  BY DEF Init
<1>6. Looped
  <2>1. next = (begin + i) % Len(entries)
    BY <1>2, StepRound DEF Init
  <2> QED BY <2>1 DEF Init, Looped
<1>7. PicksAsSpecified
  BY DEF Init, PicksAsSpecified
<1>8. Rotated
  <2>1. begin = (begin + 0) % Len(entries) /\ begin \in 0..(Len(entries) - 1)
    BY <1>2, StepRound DEF Init
  <2>2. Gone(begin, 0)
    BY <1>3, <2>1 DEF Gone
  <2>3. 0 \in 0..Len(entries)
    BY <1>2
  <2> QED BY <2>1, <2>2, <2>3 DEF Rotated, Init
<1>9. RotationEven
  BY <1>3 DEF RotationEven, IsInjective
<1> QED BY <1>4, <1>5, <1>6, <1>7, <1>8, <1>9 DEF IInv

(* A loop accepts a node: it is the one that was promised.                  *)
LEMMA AcceptPicks ==
  ASSUME TypeOK, states \in [Node -> {"unknown", "healthy", "dead"}], Looped,
         phase \in Loops, i < Len(entries), NEW e, e = entries[next + 1],
         Accepts(phase, e)
  PROVE  /\ e \in Class /\ e \in Node
         /\ Picks(entries, begin, states, cooling, e, Advance(next))
<1>1. /\ Len(entries) \in Nat \ {0} /\ begin \in 0..(Len(entries) - 1)
      /\ i \in 0..(Len(entries) - 1)
      /\ entries \in Seq(Node) /\ entries # <<>>
  BY Basics
<1>2. /\ next = (begin + i) % Len(entries)
      /\ \A j \in 0..(i - 1) : ~Accepts(phase, NodeAt(entries, begin, j))
      /\ phase \in {"unprobed", "any"} => Refused("healthy")
      /\ phase = "any" => Refused("unprobed")
  BY DEF Looped
<1>3. e = NodeAt(entries, begin, i)
  BY <1>2, Zenon DEF NodeAt
<1>4. \A j \in 0..(Len(entries) - 1) :
        NodeAt(entries, begin, j) \in ToSet(entries) /\ NodeAt(entries, begin, j) \in Node
  BY <1>1, Round
<1>5. e \in ToSet(entries) /\ e \in Node
  BY <1>1, <1>3, <1>4
<1>6. ~Refused(phase)
  BY <1>5 DEF Refused
<1>7. \A x \in ToSet(entries) : x \in Class <=> Accepts(phase, x)
  BY <1>2, <1>6, ClassOf
<1>8. FirstInRotation(entries, begin, Class, i)
  <2>1. \A j \in 0..(i - 1) : j \in 0..(Len(entries) - 1)
    BY <1>1
  <2> QED BY <1>2, <1>3, <1>4, <1>5, <1>7, <2>1 DEF FirstInRotation
<1>9. Advance(next) = IndexAfter(entries, begin, i)
  BY <1>1, <1>2, StepRound DEF Advance, IndexAfter
<1>10. e \in Class
  BY <1>5, <1>7
<1>11. Class # {}
  BY <1>10
<1> QED BY <1>1, <1>3, <1>5, <1>8, <1>9, <1>10, <1>11 DEF Picks, Class

(* A loop that has been all round has accepted nobody, and the index is     *)
(* where it was.                                                            *)
LEMMA RoundRefused ==
  ASSUME TypeOK, Looped, phase \in Loops, i = Len(entries)
  PROVE  Refused(phase) /\ next = begin
<1>1. /\ Len(entries) \in Nat \ {0} /\ begin \in 0..(Len(entries) - 1)
      /\ entries \in Seq(Node) /\ entries # <<>>
  BY Basics
<1>2. \A x \in ToSet(entries) :
        \E j \in 0..(Len(entries) - 1) : x = NodeAt(entries, begin, j)
  BY <1>1, Round
<1>3. Refused(phase)
  BY <1>2 DEF Refused, Looped
<1>4. next = (begin + Len(entries)) % Len(entries)
  BY DEF Looped
<1> QED BY <1>1, <1>3, <1>4, StepRound


(* What the inputs settle stays as it is.                                   *)
LEMMA InputStays ==
  ASSUME UNCHANGED input
  PROVE  /\ Class' = Class
         /\ \A ph : Refused(ph)' <=> Refused(ph)
         /\ \A ph, e : Accepts(ph, e)' <=> Accepts(ph, e)
         /\ \A m, upto : Earliest(m, upto)' <=> Earliest(m, upto)
<1>1. entries' = entries /\ states' = states /\ cooling' = cooling
  BY DEF input
<1> QED BY <1>1 DEF Class, Refused, Accepts, Earliest

LEMMA RotationStays ==
  ASSUME UNCHANGED <<input, begin, served>>, Rotated, RotationEven
  PROVE  Rotated' /\ RotationEven'
<1>1. /\ entries' = entries /\ states' = states /\ cooling' = cooling
      /\ begin' = begin /\ served' = served /\ Class' = Class
  BY InputStays DEF input
<1>2. \A b, t : Gone(b, t) => Gone(b, t)'
  BY <1>1 DEF Gone
<1>3. Rotated'
  BY <1>1, <1>2 DEF Rotated
<1>4. RotationEven'
  BY <1>1 DEF RotationEven
<1> QED BY <1>3, <1>4

LEMMA VisitInv ==
  ASSUME IInv, Visit
  PROVE  IInv'
<1>1. /\ TypeOK /\ states \in [Node -> {"unknown", "healthy", "dead"}] /\ Looped
      /\ phase \in Loops /\ i < Len(entries)
      /\ next' = Advance(next)
      /\ UNCHANGED <<input, begin, served>>
      /\ entries' = entries /\ states' = states /\ cooling' = cooling
      /\ begin' = begin /\ served' = served
  BY DEF IInv, Visit, input, Loops
<1>2. /\ Len(entries) \in Nat \ {0} /\ begin \in 0..(Len(entries) - 1)
      /\ i \in 0..(Len(entries) - 1)
  BY <1>1, Basics
<1>3. next' \in 0..(Len(entries) - 1)
  <2>1. next + 1 \in 0..(2 * Len(entries) - 1)
    BY <1>1, <1>2 DEF TypeOK
  <2> QED BY <1>1, <1>2, <2>1, Wrapped, Zenon DEF Advance
<1>4. Rotated' /\ RotationEven'
  BY <1>1, RotationStays DEF IInv
<1>5. PICK e : e = entries[next + 1]
  OBVIOUS
<1>6. \/ /\ Accepts(phase, e)
         /\ pick' = e /\ phase' = "done" /\ i' = 0
      \/ /\ ~Accepts(phase, e)
         /\ i' = i + 1 /\ pick' = pick /\ phase' = phase
  BY <1>5 DEF Visit
<1>7. ASSUME /\ Accepts(phase, e)
             /\ pick' = e /\ phase' = "done" /\ i' = 0
      PROVE  IInv'
  <2>1. e \in Node /\ Picks(entries, begin, states, cooling, e, Advance(next))
    BY <1>1, <1>5, <1>7, AcceptPicks
  <2>2. TypeOK'
    BY <1>1, <1>2, <1>3, <1>7, <2>1 DEF TypeOK
  <2>3. PicksAsSpecified'
    BY <1>1, <1>7, <2>1, Zenon DEF PicksAsSpecified
  <2>4. Looped'
    BY <1>7 DEF Looped, Loops
  <2> QED BY <1>1, <1>4, <2>2, <2>3, <2>4 DEF IInv
<1>8. ASSUME /\ ~Accepts(phase, e)
             /\ i' = i + 1 /\ pick' = pick /\ phase' = phase
      PROVE  IInv'
  <2>1. next = (begin + i) % Len(entries) /\ pick = NoNode
    BY <1>1 DEF Looped
  <2>2. next' = (begin + i') % Len(entries)
    BY <1>1, <1>2, <1>8, <2>1, StepRound DEF Advance
  <2>3. e = NodeAt(entries, begin, i)
    BY <1>5, <2>1, Zenon DEF NodeAt
  <2>4. \A j \in 0..(i' - 1) : ~Accepts(phase, NodeAt(entries, begin, j))
    <3>1. \A j \in 0..(i' - 1) : j \in 0..(i - 1) \/ j = i
      BY <1>2, <1>8
    <3> QED BY <1>1, <1>8, <2>3, <3>1 DEF Looped
  <2>5. i' \in 0..Len(entries)
    BY <1>2, <1>8
  <2>6. TypeOK'
    BY <1>1, <1>2, <1>3, <1>8, <2>5 DEF TypeOK
  <2>7. PicksAsSpecified'
    BY <1>1, <1>8 DEF PicksAsSpecified, Loops
  <2>8. Looped'
    <3>1. /\ \A ph : Refused(ph)' <=> Refused(ph)
          /\ \A ph, x : Accepts(ph, x)' <=> Accepts(ph, x)
      BY <1>1, InputStays
    <3>2. \A j \in 0..(i' - 1) : ~Accepts(phase, NodeAt(entries, begin, j))'
      BY <1>1, <1>8, <2>4 DEF Accepts
    <3>3. phase' \in Loops =>
            /\ next' = (begin' + i') % Len(entries') /\ pick' = NoNode
            /\ \A j \in 0..(i' - 1) : ~Accepts(phase, NodeAt(entries, begin, j))'
      BY <1>1, <1>8, <2>1, <2>2, <3>2
    <3>4. phase' # "thaw"
      BY <1>1, <1>8 DEF Loops
    <3>5. /\ phase' \in {"unprobed", "any", "thaw"} => Refused("healthy")'
          /\ phase' \in {"any", "thaw"} => Refused("unprobed")'
      BY <1>1, <1>8, <3>1 DEF Looped
    <3> QED BY <3>3, <3>4, <3>5 DEF Looped
  <2> QED BY <1>1, <1>4, <2>6, <2>7, <2>8 DEF IInv
<1> QED BY <1>6, <1>7, <1>8

LEMMA LoopEndsInv ==
  ASSUME IInv, LoopEnds
  PROVE  IInv'
<1>1. /\ TypeOK /\ states \in [Node -> {"unknown", "healthy", "dead"}] /\ Looped
      /\ phase \in Loops /\ i = Len(entries)
      /\ phase' = Following(phase) /\ i' = 0
      /\ UNCHANGED <<input, begin, served>>
      /\ entries' = entries /\ states' = states /\ cooling' = cooling
      /\ begin' = begin /\ served' = served /\ next' = next /\ pick' = pick
  BY DEF IInv, LoopEnds, input, Loops
<1>2. /\ Len(entries) \in Nat \ {0} /\ begin \in 0..(Len(entries) - 1)
  BY <1>1, Basics
<1>3. Refused(phase) /\ next = begin /\ pick = NoNode
  BY <1>1, RoundRefused DEF Looped
<1>4. \/ phase = "healthy" /\ phase' = "unprobed"
      \/ phase = "unprobed" /\ phase' = "any"
      \/ phase = "any" /\ phase' = "thaw"
  BY <1>1 DEF Following, Loops
<1>5. Rotated' /\ RotationEven'
  BY <1>1, RotationStays DEF IInv
<1>6. TypeOK'
  BY <1>1, <1>2, <1>4 DEF TypeOK
<1>7. PicksAsSpecified'
  BY <1>4 DEF PicksAsSpecified
<1>8. Looped'
  <2>1. \A ph : Refused(ph)' <=> Refused(ph)
    BY <1>1, InputStays
  <2>2. next' = (begin' + i') % Len(entries') /\ pick' = NoNode /\ next' = begin'
    BY <1>1, <1>2, <1>3, StepRound
  <2>3. i' = 0 /\ \A j : ~(j \in 0..(i' - 1))
    BY <1>1
  <2>4. /\ phase' \in {"unprobed", "any", "thaw"} => Refused("healthy")'
        /\ phase' \in {"any", "thaw"} => Refused("unprobed")'
        /\ phase' = "thaw" => Refused("any")'
    BY <1>1, <1>3, <1>4, <2>1 DEF Looped
  <2> QED BY <2>2, <2>3, <2>4 DEF Looped
<1> QED BY <1>1, <1>5, <1>6, <1>7, <1>8 DEF IInv

LEMMA VisitCoolingInv ==
  ASSUME IInv, VisitCooling
  PROVE  IInv'
<1> DEFINE e == entries[i + 1]
<1>1. /\ TypeOK /\ states \in [Node -> {"unknown", "healthy", "dead"}] /\ Looped
      /\ phase = "thaw" /\ phase' = "thaw" /\ i < Len(entries)
      /\ pick' = IF ThawsBefore(e, pick) THEN e ELSE pick
      /\ i' = i + 1
      /\ UNCHANGED <<input, begin, served>>
      /\ entries' = entries /\ states' = states /\ cooling' = cooling
      /\ begin' = begin /\ served' = served /\ next' = next
  BY DEF IInv, VisitCooling, input
<1>2. /\ Len(entries) \in Nat \ {0} /\ i \in Nat /\ i + 1 \in 1..Len(entries)
      /\ \A m \in 1..Len(entries) : entries[m] \in Node /\ cooling[entries[m]] \in Nat
      /\ NoNode \notin Node
  BY <1>1, Basics, PickAssumption
<1>3. \E m \in 1..(i + 1) : pick' = entries[m] /\ Earliest(m, i + 1)
  <2>1. CASE i = 0
    <3>1. pick = NoNode /\ pick' = entries[1]
      BY <1>1, <2>1 DEF Looped, ThawsBefore
    <3>2. Earliest(1, 1)
      BY <1>2 DEF Earliest
    <3> QED BY <2>1, <3>1, <3>2
  <2>2. CASE i # 0
    <3>1. PICK m \in 1..i : pick = entries[m] /\ Earliest(m, i)
      BY <1>1, <2>2 DEF Looped
    <3>2. m \in 1..Len(entries) /\ m \in 1..(i + 1) /\ pick # NoNode
      BY <1>2, <3>1
    <3>3. \A j \in 1..(i + 1) : j \in 1..Len(entries) /\ (j \in 1..i \/ j = i + 1)
      BY <1>2
    <3>4. \A j \in 1..i : j \in 1..(i + 1) /\ cooling[pick] <= cooling[entries[j]]
      BY <1>2, <3>1 DEF Earliest
    <3>5. CASE cooling[e] < cooling[pick]
      <4>1. pick' = entries[i + 1]
        BY <1>1, <3>5 DEF ThawsBefore
      <4>2. \A j \in 1..i : cooling[entries[i + 1]] < cooling[entries[j]]
        BY <1>2, <3>1, <3>2, <3>3, <3>4, <3>5
      <4>3. (i + 1) - 1 = i
        BY <1>2
      <4>4. Earliest(i + 1, i + 1)
        BY <1>2, <3>3, <4>2, <4>3 DEF Earliest
      <4> QED BY <1>2, <4>1, <4>4
    <3>6. CASE ~(cooling[e] < cooling[pick])
      <4>1. pick' = entries[m]
        BY <1>1, <3>1, <3>2, <3>6 DEF ThawsBefore
      <4>2. cooling[entries[m]] <= cooling[entries[i + 1]]
        BY <1>2, <3>1, <3>2, <3>6
      <4>3. Earliest(m, i + 1)
        BY <3>1, <3>3, <4>2 DEF Earliest
      <4> QED BY <3>2, <4>1, <4>3
    <3> QED BY <3>5, <3>6
  <2> QED BY <2>1, <2>2
<1>4. Rotated' /\ RotationEven'
  BY <1>1, RotationStays DEF IInv
<1>5. TypeOK'
  <2>1. pick' \in Node
    <3>1. PICK m \in 1..(i + 1) : pick' = entries[m]
      BY <1>3
    <3>2. m \in 1..Len(entries)
      BY <1>2, <3>1
    <3> QED BY <1>2, <3>1, <3>2
  <2>2. i' \in 0..Len(entries)
    BY <1>1, <1>2
  <2> QED BY <1>1, <2>1, <2>2 DEF TypeOK
<1>6. PicksAsSpecified'
  BY <1>1 DEF PicksAsSpecified
<1>7. Looped'
  <2>1. /\ \A ph : Refused(ph)' <=> Refused(ph)
        /\ \A m, upto : Earliest(m, upto)' <=> Earliest(m, upto)
    BY <1>1, InputStays
  <2>2. \E m \in 1..i' : pick' = entries'[m] /\ Earliest(m, i)'
    <3>1. PICK m \in 1..(i + 1) : pick' = entries[m] /\ Earliest(m, i + 1)
      BY <1>3
    <3>2. Earliest(m, i)'
      BY <1>1, <3>1 DEF Earliest
    <3> QED BY <1>1, <3>1, <3>2
  <2>3. i' # 0
    BY <1>1, <1>2
  <2>4. /\ Refused("healthy")' /\ Refused("unprobed")' /\ Refused("any")'
        /\ next' = begin'
    BY <1>1, <2>1 DEF Looped
  <2>5. phase' \notin Loops
    BY <1>1 DEF Loops
  <2> QED BY <2>2, <2>3, <2>4, <2>5 DEF Looped
<1> QED BY <1>1, <1>4, <1>5, <1>6, <1>7 DEF IInv

LEMMA ThawEndsInv ==
  ASSUME IInv, ThawEnds
  PROVE  IInv'
<1>1. /\ TypeOK /\ states \in [Node -> {"unknown", "healthy", "dead"}] /\ Looped
      /\ phase = "thaw" /\ i = Len(entries) /\ phase' = "done" /\ i' = 0
      /\ UNCHANGED <<input, begin, served>>
      /\ entries' = entries /\ states' = states /\ cooling' = cooling
      /\ begin' = begin /\ served' = served /\ next' = next /\ pick' = pick
  BY DEF IInv, ThawEnds, input
<1>2. Len(entries) \in Nat \ {0} /\ DOMAIN entries = 1..Len(entries)
  BY <1>1, Basics
<1>3. PICK m \in 1..Len(entries) : pick = entries[m] /\ Earliest(m, Len(entries))
  BY <1>1, <1>2 DEF Looped
<1>4. Class = {} /\ next = begin
  BY <1>1, ClassOf DEF Looped
<1>5. ThawsFirst(entries, cooling, m)
  BY <1>2, <1>3 DEF ThawsFirst, Earliest
<1>6. Picks(entries, begin, states, cooling, pick, next)
  BY <1>2, <1>3, <1>4, <1>5 DEF Picks, Class
<1>7. PicksAsSpecified'
  BY <1>1, <1>6, Zenon DEF PicksAsSpecified
<1>8. Rotated' /\ RotationEven'
  BY <1>1, RotationStays DEF IInv
<1>9. TypeOK'
  BY <1>1, <1>2 DEF TypeOK
<1>10. Looped'
  BY <1>1 DEF Looped, Loops
<1> QED BY <1>1, <1>7, <1>8, <1>9, <1>10 DEF IInv


(* The next call goes on where this one has left the index: the members of  *)
(* the class that have not been served lie ahead, before the round is over. *)
LEMMA CallAgainInv ==
  ASSUME IInv, CallAgain
  PROVE  IInv'
<1> DEFINE n == Len(entries)
<1>1. /\ TypeOK /\ states \in [Node -> {"unknown", "healthy", "dead"}]
      /\ Rotated /\ RotationEven
      /\ Picks(entries, begin, states, cooling, pick, next)
      /\ phase' = "healthy" /\ i' = 0 /\ pick' = NoNode
      /\ Len(served) < Cardinality(Class)
      /\ served' = Append(served, pick)
      /\ UNCHANGED <<input, next>>
      /\ entries' = entries /\ states' = states /\ cooling' = cooling
      /\ begin' = next /\ next' = next
  BY DEF IInv, PicksAsSpecified, CallAgain, input, Class
<1>2. /\ n \in Nat \ {0} /\ DOMAIN entries = 1..n /\ begin \in 0..(n - 1)
      /\ entries \in Seq(Node) /\ entries # <<>>
      /\ served \in Seq(Node) /\ Len(served) \in Nat
      /\ DOMAIN served = 1..Len(served)
      /\ next \in 0..(n - 1)
  BY <1>1, Basics, LenProperties DEF TypeOK
<1> HIDE DEF n
<1>3. Class # {} /\ Class \subseteq ToSet(entries)
  <2>1. Class = {} => Cardinality(Class) = 0
    BY FS_EmptySet
  <2> QED BY <1>1, <1>2, <2>1, ClassOf
<1>4. PICK k \in 0..(n - 1) : /\ FirstInRotation(entries, begin, Class, k)
                              /\ pick = NodeAt(entries, begin, k)
                              /\ next = IndexAfter(entries, begin, k)
  BY <1>1, <1>3 DEF Picks, Class, n
<1>5. PICK b \in 0..(n - 1), t \in 0..n : Gone(b, t)
  BY <1>1, <1>3 DEF Rotated, n
<1>6. PICK c \in Class : c \notin ToSet(served)
  <2> SUFFICES ASSUME Class \subseteq ToSet(served) PROVE FALSE
    OBVIOUS
  <2>1. PICK x : x \in Class
    BY <1>3
  <2> DEFINE m == Len(served)
             f == [j \in 1..m |-> IF served[j] \in Class THEN served[j] ELSE x]
  <2>2. f \in [1..m -> Class] /\ \A y \in Class : \E j \in 1..m : f[j] = y
    BY <1>2, <2>1 DEF ToSet
  <2> HIDE DEF f
  <2>3. f \in Surjection(1..m, Class)
    BY <2>2, Zenon DEF Surjection
  <2>4. ExistsSurjection(1..m, Class)
    BY <2>3 DEF ExistsSurjection
  <2>5. Cardinality(Class) <= m
    BY <1>2, <2>4, FS_SurjCardinalityBound
  <2>6. Cardinality(Class) \in Nat
    <3>1. ToSet(entries) = {entries[j] : j \in 1..n}
      BY <1>2 DEF ToSet
    <3>2. entries \in Surjection(1..n, ToSet(entries))
      BY <1>2, <3>1, LenProperties DEF Surjection, n
    <3>3. IsFiniteSet(1..n)
      BY <1>2, FS_Interval
    <3>4. IsFiniteSet(ToSet(entries))
      BY <3>2, <3>3, FS_Surjection
    <3> QED BY <1>3, <3>4, FS_Subset, FS_CardinalityType
  <2> QED BY <1>1, <1>2, <2>5, <2>6
<1>7. PICK j \in 0..(n - 1) : c = NodeAt(entries, b, j)
  BY <1>2, <1>3, <1>6, Round DEF n
<1>8. j >= t
  BY <1>5, <1>6, <1>7 DEF Gone
<1>9. ASSUME NEW x \in Nat, t + x < n
      PROVE  NodeAt(entries, begin, x) = NodeAt(entries, b, t + x)
  <2>1. begin = (b + t) % n
    BY <1>5 DEF Gone, n
  <2>2. (((b + t) % n) + x) % n = (b + (t + x)) % n
    BY <1>2, <1>9, GoOn
  <2> QED BY <2>1, <2>2, Zenon DEF NodeAt, n
<1>10. t + k < n
  <2>1. j - t \in Nat /\ t + (j - t) = j /\ t + (j - t) < n
    BY <1>2, <1>8
  <2>2. NodeAt(entries, begin, j - t) \in Class
    BY <1>6, <1>7, <1>9, <2>1
  <2>3. ~(j - t \in 0..(k - 1))
    BY <1>4, <2>2 DEF FirstInRotation
  <2> QED BY <1>2, <2>1, <2>3
<1> DEFINE u == t + k + 1
<1>11. u \in 0..n /\ k \in Nat /\ u - 1 = t + k
  BY <1>2, <1>10
<1>12. pick = NodeAt(entries, b, t + k) /\ pick \in Class /\ pick \in Node
  <2>1. pick = NodeAt(entries, b, t + k) /\ pick \in Class
    BY <1>4, <1>9, <1>10, <1>11 DEF FirstInRotation
  <2> QED BY <1>1, <1>3, <2>1, Basics
<1>13. next = (b + u) % n
  <2> DEFINE R(a) == a % n
  <2>1. begin = R(b + t) /\ next = R(begin + k + 1)
    BY <1>4, <1>5, Zenon DEF Gone, IndexAfter, n
  <2>2. R(R(b + t) + k) = R(b + (t + k))
    <3>1. (((b + t) % n) + k) % n = (b + (t + k)) % n
      BY <1>2, <1>10, <1>11, GoOn
    <3> QED BY <3>1, Zenon
  <2>3. \A x \in 0..(n - 1) : R(R(begin + x) + 1) = R(begin + x + 1)
    BY <1>2, StepRound, ZenonT(60)
  <2>4. \A x \in 0..(n - 1) : R(R(b + x) + 1) = R(b + (x + 1))
    BY <1>2, StepRound, ZenonT(60)
  <2>5. /\ t + k \in 0..(n - 1) /\ k \in 0..(n - 1)
        /\ b + u = b + ((t + k) + 1)
    BY <1>2, <1>10, <1>11
  <2> HIDE DEF R
  <2>6. R(R(begin + k) + 1) = R(begin + k + 1)
    BY <2>3, <2>5, Zenon
  <2>7. R(R(b + (t + k)) + 1) = R(b + ((t + k) + 1))
    BY <2>4, <2>5, Zenon
  <2>8. next = R(b + ((t + k) + 1))
    BY <2>1, <2>2, <2>6, <2>7, Zenon
  <2>9. next = R(b + u)
    BY <2>5, <2>8, Zenon
  <2> QED BY <2>9 DEF R
<1>14. ToSet(served') = ToSet(served) \cup {pick}
  <2>1. /\ served' \in Seq(Node) /\ Len(served') = Len(served) + 1
        /\ \A m \in 1..Len(served) : served'[m] = served[m]
        /\ served'[Len(served) + 1] = pick
    BY <1>1, <1>2, <1>12, AppendProperties
  <2>2. DOMAIN served' = 1..(Len(served) + 1)
    BY <2>1, LenProperties
  <2>3. \A m : m \in 1..(Len(served) + 1) <=> m \in 1..Len(served) \/ m = Len(served) + 1
    BY <1>2
  <2> QED BY <1>2, <2>1, <2>2, <2>3 DEF ToSet
<1>15. ASSUME NEW x \in 0..(u - 1), NodeAt(entries, b, x) \in Class
       PROVE  NodeAt(entries, b, x) \in ToSet(served')
  <2>1. CASE x < t
    BY <1>2, <1>5, <1>14, <1>15, <2>1 DEF Gone
  <2>2. CASE x >= t /\ x < t + k
    <3>1. x - t \in 0..(k - 1) /\ x - t \in Nat /\ t + (x - t) = x /\ t + (x - t) < n
      BY <1>2, <1>10, <1>11, <2>2
    <3>2. NodeAt(entries, begin, x - t) = NodeAt(entries, b, x)
      BY <1>9, <3>1
    <3>3. NodeAt(entries, begin, x - t) \notin Class
      BY <1>4, <3>1 DEF FirstInRotation
    <3> QED BY <1>15, <3>2, <3>3
  <2>3. CASE x = t + k
    BY <1>12, <1>14, <2>3
  <2> QED BY <1>2, <1>11, <2>1, <2>2, <2>3
<1>16. ASSUME NEW s \in ToSet(served')
       PROVE  \E x \in 0..(u - 1) : s = NodeAt(entries, b, x)
  <2>1. CASE s \in ToSet(served)
    <3>1. PICK x \in 0..(t - 1) : s = NodeAt(entries, b, x)
      BY <1>5, <2>1 DEF Gone
    <3>2. x \in 0..(u - 1)
      BY <1>2, <1>11, <3>1
    <3> QED BY <3>1, <3>2
  <2>2. CASE s = pick
    <3>1. t + k \in 0..(u - 1)
      BY <1>2, <1>11
    <3> QED BY <1>12, <2>2, <3>1
  <2> QED BY <1>14, <2>1, <2>2
<1>17. Class' = Class
  BY <1>1, InputStays
<1>18. Rotated'
  <2>1. PICK v : v = u
    OBVIOUS
  <2>2. Gone(b, v)'
    BY <1>1, <1>13, <1>15, <1>16, <1>17, <2>1 DEF Gone, n
  <2>3. v \in 0..Len(entries') /\ b \in 0..(Len(entries') - 1)
    BY <1>1, <1>11, <2>1 DEF n
  <2> QED BY <1>3, <1>17, <2>2, <2>3 DEF Rotated
<1>19. IsInjective(entries) => IsInjective(served')
  <2> SUFFICES ASSUME IsInjective(entries) PROVE IsInjective(served')
    OBVIOUS
  <2>1. IsInjective(served)
    BY <1>1 DEF RotationEven
  <2>2. pick \notin ToSet(served)
    <3> SUFFICES ASSUME pick \in ToSet(served) PROVE FALSE
      OBVIOUS
    <3>1. PICK x \in 0..(t - 1) : pick = NodeAt(entries, b, x)
      BY <1>5 DEF Gone
    <3>2. x \in 0..(n - 1) /\ t + k \in 0..(n - 1) /\ x # t + k
      BY <1>2, <1>10, <1>11, <3>1
    <3> QED BY <1>2, <1>12, <3>1, <3>2, Round DEF n
  <2>3. /\ \A m \in 1..Len(served) : served'[m] = served[m]
        /\ served'[Len(served) + 1] = pick
        /\ served' \in Seq(Node) /\ Len(served') = Len(served) + 1
    BY <1>1, <1>2, <1>12, AppendProperties
  <2>4. DOMAIN served' = 1..(Len(served) + 1)
    BY <2>3, LenProperties
  <2>5. \A m : m \in 1..(Len(served) + 1) <=> m \in 1..Len(served) \/ m = Len(served) + 1
    BY <1>2
  <2>6. \A m \in 1..Len(served) : served[m] # pick
    BY <1>2, <2>2 DEF ToSet
  <2>7. \A x, y \in 1..Len(served) : served[x] = served[y] => x = y
    BY <1>2, <2>1 DEF IsInjective
  <2> QED BY <2>3, <2>4, <2>5, <2>6, <2>7 DEF IsInjective
<1>20. RotationEven'
  <2>1. ToSet(served) \subseteq Class
    BY <1>1, <1>3 DEF RotationEven, Class
  <2>2. ToSet(served') \subseteq Class'
    BY <1>12, <1>14, <1>17, <2>1
  <2> QED BY <1>1, <1>19, <2>2 DEF RotationEven, Class
<1>21. TypeOK'
  <2>1. served' \in Seq(Node)
    BY <1>1, <1>2, <1>12, AppendProperties
  <2>2. i' \in 0..Len(entries')
    BY <1>1, <1>2 DEF n
  <2> QED BY <1>1, <2>1, <2>2 DEF TypeOK
<1>22. Looped'
  <2>1. next = (next + 0) % n
    BY <1>2, StepRound
  <2>2. \A x : ~(x \in 0..(i' - 1))
    BY <1>1
  <2>3. /\ phase' = "healthy" /\ pick' = NoNode
        /\ next' = (begin' + i') % Len(entries')
    BY <1>1, <2>1 DEF n
  <2> QED BY <2>2, <2>3 DEF Looped
<1>23. PicksAsSpecified'
  BY <1>1 DEF PicksAsSpecified
<1> QED BY <1>1, <1>18, <1>20, <1>21, <1>22, <1>23 DEF IInv

LEMMA StutterInv ==
  ASSUME IInv, UNCHANGED vars
  PROVE  IInv'
<1>1. /\ UNCHANGED <<input, begin, served>>
      /\ entries' = entries /\ states' = states /\ cooling' = cooling
      /\ begin' = begin /\ served' = served /\ next' = next /\ pick' = pick
      /\ phase' = phase /\ i' = i
  BY DEF vars, input
<1>2. Rotated' /\ RotationEven'
  BY <1>1, RotationStays DEF IInv
<1>3. TypeOK' /\ PicksAsSpecified'
  BY <1>1 DEF IInv, TypeOK, PicksAsSpecified
<1>4. Looped'
  BY <1>1 DEF IInv, Looped, Accepts, Refused, Earliest
<1> QED BY <1>1, <1>2, <1>3, <1>4 DEF IInv

(* Whatever the list, the verdicts and the cool-downs: what each loop has   *)
(* found out so far, what it promised when it is done, and how far the      *)
(* calls have gone round.                                                   *)
THEOREM Invariance == Spec => []IInv
<1>1. Init => IInv
  BY InitInv
<1>2. ASSUME IInv, [Next]_vars PROVE IInv'
  BY <1>2, VisitInv, LoopEndsInv, VisitCoolingInv, ThawEndsInv, CallAgainInv,
     StutterInv DEF Next
<1> QED BY <1>1, <1>2, PTL DEF Spec

(* The loops' counters and index stay on the list.                          *)
THEOREM TypesHold == Spec => []TypeOK
BY Invariance, PTL DEF IInv

(* The three loops and the search for the first to thaw answer as           *)
(* NodeSelection specifies, and leave the index as it does.                 *)
THEOREM LoopsPickAsSpecified == Spec => []PicksAsSpecified
BY Invariance, PTL DEF IInv

(* Round robin is even on a list of any length.                             *)
THEOREM RotationIsEven == Spec => []RotationEven
BY Invariance, PTL DEF IInv
==============================================================================
