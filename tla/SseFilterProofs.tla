--------------------------- MODULE SseFilterProofs ---------------------------
(****************************************************************************)
(* What holds of SseFilter for any request, any tool names and digests, and *)
(* answers of any length.                                                   *)
(****************************************************************************)
EXTENDS SseFilter, FiniteSetTheorems, SequenceTheorems, WellFoundedInduction,
        TLAPS

(* The two maps of the renames are inverse to each other, and no name made  *)
(* for upstream is one that a client can give.                              *)
Matched(r) ==
  /\ IsFiniteSet(DOMAIN r.reverse)
  /\ \A n \in DOMAIN r.forward :
       r.forward[n] \in DOMAIN r.reverse /\ r.reverse[r.forward[n]] = n
  /\ \A w \in DOMAIN r.reverse :
       w[2] # 0 /\ r.reverse[w] \in DOMAIN r.forward

(* Build gives every name one, and no others.                               *)
Shaped ==
  /\ Matched(renames)
  /\ DOMAIN renames.forward \subseteq ToSet(Names)
  /\ built \in 0..Len(Names)
  /\ \A m \in 1..built : Names[m] \in DOMAIN renames.forward
  /\ stage # "shaping" => built = Len(Names)

(* A call is decided on by the first name that arrives for it.              *)
Decided ==
  \A i \in Index :
    decisions[i] = IF NamingFrames(i) = {} THEN "undecided"
                   ELSE IF dropToolCall(NameArrived(i)) THEN "drop" ELSE "keep"

Gathered ==
  \A i \in Index :
    /\ pending[i].seen \in {"unseen", "unnamed"} <=> NamingFrames(i) = {}
    /\ pending[i].seen = "keep" =>
         /\ KeptByAggregate(NameArrived(i))
         /\ pending[i].name = Restore(renames, NameArrived(i))

(* What has been written, as the j-th of all: the j-th frame, or the piece  *)
(* of a line after the last; of the frame, the calls to keep with the       *)
(* client's names, and every fragment of theirs that has a name; and        *)
(* "tool_calls" if there has been such a call.                              *)
Passed(x, f) ==
  /\ ~x.whole => DOMAIN x.calls = {}
  /\ \A k \in DOMAIN x.calls :
       /\ k \in DOMAIN f.calls
       /\ decisions[f.calls[k].index] = "keep"
       /\ x.calls[k] = [f.calls[k] EXCEPT !.name = Restore(renames, @)]
  /\ x.whole =>
       \A k \in DOMAIN f.calls :
         f.calls[k].name # NoName /\ decisions[f.calls[k].index] = "keep"
           => k \in DOMAIN x.calls

SomeCall(o, j) == \E i \in 1..j : DOMAIN o[i].calls # {}

Tells(x, f, seen) ==
  x.whole /\ f.finish = "tool_calls" =>
    x.finish = IF seen THEN "tool_calls" ELSE "stop"

Sent(o, anyKept) ==
  /\ anyKept <=> SomeCall(o, Len(o))
  /\ \A j \in 1..Len(o) : /\ o[j].pos = j
                          /\ o[j].whole => j \in DOMAIN arrived
                          /\ Passed(o[j], arrived[j])
                          /\ Tells(o[j], arrived[j], SomeCall(o, j))

(* The frames held back follow those written, each with a fragment of a     *)
(* call that had no name by then.                                           *)
Held ==
  /\ stage = "open" =>
       /\ Len(out) + Len(buffered) = Len(arrived)
       /\ \A m \in DOMAIN buffered : buffered[m] = Len(out) + m
  /\ stage = "shaping" => arrived = <<>> /\ out = <<>>
  /\ \A p \in (Len(out) + 1)..Len(arrived) :
       \E k \in DOMAIN arrived[p].calls : Nameless(p, k)

------------------------------------------------------------------------------
(* A set of numbers has a least element, and Min is it.                     *)
LEMMA MinLeast ==
  ASSUME NEW T, T \subseteq Nat, T # {}
  PROVE  Min(T) \in T /\ \A y \in T : Min(T) <= y
<1>1. \E x \in T : \A y \in T : ~ (<<y, x>> \in OpToRel(<, Nat))
  <2> DEFINE R == OpToRel(<, Nat)
  <2>1. IsWellFoundedOn(R, Nat)
    BY NatLessThanWellFounded
  <2> HIDE DEF R
  <2>2. \E x \in T : \A y \in T : ~ (<<y, x>> \in R)
    BY <2>1, WFMin, Zenon
  <2> QED BY <2>2 DEF R
<1>2. PICK x \in T : \A y \in T : x <= y
  <2>1. ASSUME NEW x \in Nat, NEW y \in Nat, y < x
        PROVE  <<y, x>> \in OpToRel(<, Nat)
    BY <2>1, Zenon DEF OpToRel
  <2>2. PICK x \in T : \A y \in T : ~ (<<y, x>> \in OpToRel(<, Nat))
    BY <1>1
  <2>3. ASSUME NEW y \in T PROVE ~(y < x)
    BY <2>1, <2>2, Zenon
  <2>4. ASSUME NEW y \in T PROVE x <= y
    BY <2>3
  <2> QED BY <2>4
<1> QED BY <1>2, Zenon DEF Min

LEMMA MinIs ==
  ASSUME NEW T, T \subseteq Nat, NEW x \in T, \A y \in T : x <= y
  PROVE  Min(T) = x
<1>1. Min(T) \in T /\ \A y \in T : Min(T) <= y
  BY MinLeast
<1>2. Min(T) <= x /\ x <= Min(T) /\ Min(T) \in Nat /\ x \in Nat
  BY <1>1
<1> QED BY <1>2

(* The fragments of a frame, and the names among them.                      *)
Call == [index : Index, name : STRING \X Nat]

LEMMA FrameTyped ==
  ASSUME NEW f \in Frame
  PROVE  /\ f.calls \in Seq(Call)
         /\ DOMAIN f.calls \subseteq Nat \ {0}
         /\ f.finish \in {"none", "stop", "tool_calls"}
         /\ \A k \in DOMAIN f.calls : f.calls[k] \in Call /\ f.calls[k].index \in Index
<1>1. f.calls \in Seq(Call) /\ f.finish \in {"none", "stop", "tool_calls"}
  BY FrameAssumption DEF Call
<1>2. DOMAIN f.calls = 1..Len(f.calls) /\ Len(f.calls) \in Nat
  BY <1>1, LenProperties
<1>3. \A k \in DOMAIN f.calls : f.calls[k] \in Call
  BY <1>1, <1>2, ElementOfSeq
<1> QED BY <1>1, <1>2, <1>3 DEF Call

LEMMA FirstNameIs ==
  ASSUME NEW f \in Frame, NEW i, NamedAt(f.calls, i) # {}
  PROVE  FirstName(f.calls, i) # NoName
<1>1. NamedAt(f.calls, i) \subseteq Nat
  BY FrameTyped DEF NamedAt
<1>2. Min(NamedAt(f.calls, i)) \in NamedAt(f.calls, i)
  BY <1>1, MinLeast
<1> QED BY <1>2 DEF FirstName, NamedAt

------------------------------------------------------------------------------
(* Whatever digests agree, the name made for upstream is a new one: one of  *)
(* more numbers than there are names taken is free.                         *)
LEMMA CandidateFresh ==
  ASSUME NEW r, IsFiniteSet(DOMAIN r.reverse), NEW name
  PROVE  /\ Candidate(r, name) \notin DOMAIN r.reverse
         /\ Candidate(r, name)[2] # 0
<1> DEFINE D == DOMAIN r.reverse
           n == Cardinality(D)
           d == Digest[name[1]]
           free == {k \in 1..(n + 1) : <<d, k>> \notin D}
           good(k) == /\ ~ (<<d, k>> \in D)
                      /\ \A j \in 1..(k - 1) : <<d, j>> \in D
<1>1. n \in Nat
  BY FS_CardinalityType
<1> HIDE DEF D, n
<1>2. free # {}
  <2> SUFFICES ASSUME \A k \in 1..(n + 1) : <<d, k>> \in D PROVE FALSE
    OBVIOUS
  <2> DEFINE f == [k \in 1..(n + 1) |-> <<d, k>>]
  <2>1. f \in [1..(n + 1) -> D]
    OBVIOUS
  <2>2. IsFiniteSet(1..(n + 1)) /\ Cardinality(1..(n + 1)) = n + 1
    BY <1>1, FS_Interval
  <2>3. IsFiniteSet(D) /\ Cardinality(D) < Cardinality(1..(n + 1))
    BY <1>1, <2>2 DEF D, n
  <2> HIDE DEF f
  <2>4. PICK x \in 1..(n + 1), y \in 1..(n + 1) : x # y /\ f[x] = f[y]
    BY <2>1, <2>2, <2>3, FS_PigeonHole
  <2> QED BY <2>4 DEF f
<1>3. Min(free) \in free /\ \A k \in free : Min(free) <= k
  <2>1. free \subseteq Nat
    OBVIOUS
  <2> HIDE DEF free
  <2> QED BY <1>2, <2>1, MinLeast
<1>4. Min(free) \in 1..(n + 1) /\ good(Min(free))
  <2> DEFINE m == Min(free)
  <2>1. m \in 1..(n + 1) /\ <<d, m>> \notin D
    BY <1>3
  <2>2. ASSUME NEW j \in 1..(m - 1) PROVE <<d, j>> \in D
    <3>1. j \in 1..(n + 1) /\ ~ (m <= j)
      BY <1>1, <2>1
    <3> QED BY <1>3, <3>1
  <2> QED BY <2>1, <2>2
<1> DEFINE fresh == CHOOSE k \in 1..(n + 1) : good(k)
<1>5. fresh \in 1..(n + 1) /\ good(fresh)
  BY <1>4, Zenon
<1>6. Candidate(r, name) = <<d, fresh>>
  BY DEF Candidate, D, n
<1> HIDE DEF fresh, d
<1> QED BY <1>1, <1>5, <1>6 DEF D

(* A name more, and what is made of the others stays as it is.              *)
LEMMA RenameMatches ==
  ASSUME NEW r, Matched(r), NEW name
  PROVE  /\ Matched(rename(r, name))
         /\ DOMAIN rename(r, name).forward \subseteq DOMAIN r.forward \cup {name}
         /\ DOMAIN r.forward \subseteq DOMAIN rename(r, name).forward
         /\ name # NoName => name \in DOMAIN rename(r, name).forward
<1>1. CASE name = NoName \/ HasClientTool(r, name)
  BY <1>1 DEF rename, HasClientTool
<1>2. CASE ~(name = NoName \/ HasClientTool(r, name))
  <2> DEFINE wire == Candidate(r, name)
             after == rename(r, name)
  <2>1. after = [forward |-> With(r.forward, name, wire),
                 reverse |-> With(r.reverse, wire, name)]
    BY <1>2, Zenon DEF rename
  <2>2. wire \notin DOMAIN r.reverse /\ wire[2] # 0 /\ name \notin DOMAIN r.forward
    BY <1>2, CandidateFresh DEF Matched, HasClientTool
  <2> HIDE DEF wire, after
  <2>3. /\ after.forward = [x \in DOMAIN r.forward \cup {name} |->
                              IF x = name THEN wire ELSE r.forward[x]]
        /\ after.reverse = [x \in DOMAIN r.reverse \cup {wire} |->
                              IF x = wire THEN name ELSE r.reverse[x]]
    BY <2>1 DEF With
  <2>4. DOMAIN after.reverse = DOMAIN r.reverse \cup {wire}
    BY <2>3
  <2>5. IsFiniteSet(DOMAIN after.reverse)
    <3>1. IsFiniteSet(DOMAIN r.reverse)
      BY DEF Matched
    <3>2. IsFiniteSet(DOMAIN r.reverse \cup {wire})
      BY <3>1, FS_AddElement
    <3> QED BY <2>4, <3>2
  <2>6. DOMAIN after.forward = DOMAIN r.forward \cup {name}
    BY <2>3
  <2>7. ASSUME NEW n \in DOMAIN after.forward
        PROVE  /\ after.forward[n] \in DOMAIN after.reverse
               /\ after.reverse[after.forward[n]] = n
    BY <2>2, <2>3, <2>4, <2>6 DEF Matched
  <2>8. ASSUME NEW w \in DOMAIN after.reverse
        PROVE  w[2] # 0 /\ after.reverse[w] \in DOMAIN after.forward
    BY <2>2, <2>3, <2>4, <2>6 DEF Matched
  <2>9. Matched(after)
    BY <2>5, <2>7, <2>8 DEF Matched
  <2> QED BY <2>6, <2>9 DEF after
<1> QED BY <1>1, <1>2

------------------------------------------------------------------------------
(* Lists.                                                                   *)
IsList(s) == \E S : s \in Seq(S)

LEMMA ListIs ==
  ASSUME NEW s, IsList(s)
  PROVE  Len(s) \in Nat /\ DOMAIN s = 1..Len(s)
BY LenProperties DEF IsList

LEMMA ListOf ==
  ASSUME NEW s, NEW n \in Nat, NEW S, s \in [1..n -> S]
  PROVE  s \in Seq(S) /\ IsList(s) /\ Len(s) = n
<1>1. s \in Seq(S)
  BY SeqDef
<1>2. DOMAIN s = 1..Len(s) /\ Len(s) \in Nat /\ DOMAIN s = 1..n
  BY <1>1, LenProperties
<1> QED BY <1>1, <1>2 DEF IsList

LEMMA Joined ==
  ASSUME NEW s, NEW t, IsList(s), IsList(t)
  PROVE  /\ IsList(s \o t)
         /\ Len(s \o t) = Len(s) + Len(t)
         /\ \A j \in 1..(Len(s) + Len(t)) :
              (s \o t)[j] = IF j <= Len(s) THEN s[j] ELSE t[j - Len(s)]
<1>1. PICK S : s \in Seq(S)
  BY DEF IsList
<1>2. PICK T : t \in Seq(T)
  BY DEF IsList
<1>3. s \in Seq(S \cup T) /\ t \in Seq(S \cup T)
  BY <1>1, <1>2
<1>4. /\ s \o t \in Seq(S \cup T)
      /\ Len(s \o t) = Len(s) + Len(t)
      /\ \A j \in 1..(Len(s) + Len(t)) :
           (s \o t)[j] = IF j <= Len(s) THEN s[j] ELSE t[j - Len(s)]
  BY <1>3, ConcatProperties
<1> QED BY <1>4 DEF IsList

LEMMA Appended ==
  ASSUME NEW s, IsList(s), NEW x
  PROVE  /\ IsList(Append(s, x))
         /\ Len(Append(s, x)) = Len(s) + 1
         /\ \A j \in 1..Len(s) : Append(s, x)[j] = s[j]
         /\ Append(s, x)[Len(s) + 1] = x
<1>1. PICK S : s \in Seq(S)
  BY DEF IsList
<1>2. s \in Seq(S \cup {x})
  BY <1>1
<1> QED BY <1>2, AppendProperties DEF IsList

------------------------------------------------------------------------------
(* The answer grows by a frame: what is known of a call's name.             *)
LEMMA ArrivedAfter ==
  ASSUME arrived \in Seq(Frame), NEW f \in Frame, arrived' = Append(arrived, f)
  PROVE  /\ arrived' \in Seq(Frame)
         /\ Len(arrived) \in Nat /\ Len(arrived') = Len(arrived) + 1
         /\ DOMAIN arrived = 1..Len(arrived)
         /\ DOMAIN arrived' = 1..(Len(arrived) + 1)
         /\ \A p \in DOMAIN arrived : arrived'[p] = arrived[p]
         /\ arrived'[Len(arrived) + 1] = f
<1>1. /\ arrived' \in Seq(Frame) /\ Len(arrived') = Len(arrived) + 1
      /\ \A p \in 1..Len(arrived) : arrived'[p] = arrived[p]
      /\ arrived'[Len(arrived) + 1] = f
  BY AppendProperties
<1>2. DOMAIN arrived = 1..Len(arrived) /\ Len(arrived) \in Nat
  BY LenProperties
<1>3. DOMAIN arrived' = 1..Len(arrived')
  BY <1>1, LenProperties
<1> QED BY <1>1, <1>2, <1>3

LEMMA NameAfter ==
  ASSUME arrived \in Seq(Frame), NEW f \in Frame, arrived' = Append(arrived, f),
         NEW i
  PROVE  /\ \A q \in NamingFrames(i)' :
              q \in NamingFrames(i) \/ q = Len(arrived) + 1
         /\ NamingFrames(i) # {} => /\ NamingFrames(i)' # {}
                                    /\ NameArrived(i)' = NameArrived(i)
         /\ NamingFrames(i) = {} /\ NamedAt(f.calls, i) # {} =>
              /\ NamingFrames(i)' # {}
              /\ NameArrived(i)' = FirstName(f.calls, i)
         /\ NamingFrames(i) = {} /\ NamedAt(f.calls, i) = {} =>
              NamingFrames(i)' = {}
<1> DEFINE N == NamingFrames(i)
           last == Len(arrived) + 1
<1>0. /\ Len(arrived) \in Nat /\ DOMAIN arrived = 1..Len(arrived)
      /\ DOMAIN arrived' = 1..last
      /\ \A p \in DOMAIN arrived : arrived'[p] = arrived[p]
      /\ arrived'[last] = f
  BY ArrivedAfter
<1>1. NamingFrames(i)' = IF NamedAt(f.calls, i) = {} THEN N ELSE N \cup {last}
  <2>1. \A p : p \in NamingFrames(i)' <=>
                p \in 1..last /\ NamedAt(arrived'[p].calls, i) # {}
    BY <1>0, Zenon DEF NamingFrames
  <2>2. \A p : p \in N <=>
                p \in 1..Len(arrived) /\ NamedAt(arrived[p].calls, i) # {}
    BY <1>0, Zenon DEF NamingFrames
  <2>3. \A p : p \in 1..last <=> p \in 1..Len(arrived) \/ p = last
    BY <1>0
  <2>4. ~(last \in 1..Len(arrived))
    BY <1>0
  <2>5. \A p \in 1..Len(arrived) : arrived'[p] = arrived[p]
    BY <1>0
  <2> HIDE DEF N, last
  <2>6. \A p : p \in NamingFrames(i)' <=>
                p \in N \/ (p = last /\ NamedAt(f.calls, i) # {})
    BY <1>0, <2>1, <2>2, <2>3, <2>4, <2>5
  <2> QED BY <2>6
<1>2. N \subseteq 1..Len(arrived) /\ N \subseteq Nat /\ last \in Nat
  BY <1>0 DEF NamingFrames
<1>3. ASSUME N # {}
      PROVE  NamingFrames(i)' # {} /\ NameArrived(i)' = NameArrived(i)
  <2>1. Min(N) \in N /\ \A q \in N : Min(N) <= q
    BY <1>2, <1>3, MinLeast
  <2>2. \A q \in N \cup {last} : Min(N) <= q
    BY <1>2, <2>1
  <2>3. Min(N \cup {last}) = Min(N)
    BY <1>2, <2>1, <2>2, MinIs
  <2>4. Min(NamingFrames(i)') = Min(N) /\ NamingFrames(i)' # {}
    BY <1>1, <1>3, <2>3
  <2>5. arrived'[Min(N)] = arrived[Min(N)]
    BY <1>0, <1>2, <2>1
  <2> QED BY <1>3, <2>4, <2>5 DEF NameArrived
<1>4. ASSUME N = {}, NamedAt(f.calls, i) # {}
      PROVE  NamingFrames(i)' # {} /\ NameArrived(i)' = FirstName(f.calls, i)
  <2>1. NamingFrames(i)' = {last}
    BY <1>1, <1>4
  <2>2. Min({last}) = last
    <3>1. {last} \subseteq Nat /\ {last} # {}
      BY <1>2
    <3>2. Min({last}) \in {last}
      BY <3>1, MinLeast
    <3> QED BY <3>2
  <2> QED BY <1>0, <2>1, <2>2 DEF NameArrived
<1> QED BY <1>1, <1>3, <1>4

(* A name that has arrived is one.                                          *)
LEMMA ArrivedName ==
  ASSUME arrived \in Seq(Frame), NEW i, NamingFrames(i) # {}
  PROVE  NameArrived(i) # NoName
<1>1. DOMAIN arrived = 1..Len(arrived) /\ Len(arrived) \in Nat
  BY LenProperties
<1>2. NamingFrames(i) \subseteq Nat
  BY <1>1 DEF NamingFrames
<1>3. Min(NamingFrames(i)) \in NamingFrames(i)
  BY <1>2, MinLeast
<1>4. arrived[Min(NamingFrames(i))] \in Frame
  BY <1>1, <1>3, ElementOfSeq DEF NamingFrames
<1>5. NamedAt(arrived[Min(NamingFrames(i))].calls, i) # {}
  BY <1>3 DEF NamingFrames
<1> QED BY <1>4, <1>5, FirstNameIs DEF NameArrived

------------------------------------------------------------------------------
(* What a frame changes, by the parts of the invariant.                     *)
Known ==
  /\ arrived \in Seq(Frame)
  /\ decisions \in [Index -> {"undecided", "keep", "drop"}]
  /\ Decided

LEMMA DecidedAfter ==
  ASSUME Known, NEW f \in Frame, arrived' = Append(arrived, f),
         decisions' = [i \in Index |-> Decide(f.calls, i)], UNCHANGED renames
  PROVE  /\ Known'
         /\ \A i \in Index :
              decisions[i] # "undecided" => decisions'[i] = decisions[i]
<1>1. \A name : dropToolCall(name)' = dropToolCall(name)
  BY DEF dropToolCall
<1>2. ASSUME NEW i \in Index
      PROVE  /\ decisions'[i] = Decide(f.calls, i)
             /\ decisions'[i] =
                  IF NamingFrames(i)' = {} THEN "undecided"
                  ELSE IF dropToolCall(NameArrived(i)') THEN "drop" ELSE "keep"
  <2>1. decisions'[i] = Decide(f.calls, i)
    OBVIOUS
  <2>2. CASE NamingFrames(i) # {}
    <3>1. NamingFrames(i)' # {} /\ NameArrived(i)' = NameArrived(i)
      BY <2>2, NameAfter DEF Known
    <3>2. /\ decisions[i] # "undecided"
          /\ decisions[i] = IF dropToolCall(NameArrived(i)) THEN "drop" ELSE "keep"
      BY <2>2 DEF Known, Decided
    <3> QED BY <2>1, <3>1, <3>2 DEF Decide
  <2>3. CASE NamingFrames(i) = {} /\ NamedAt(f.calls, i) # {}
    <3>1. NamingFrames(i)' # {} /\ NameArrived(i)' = FirstName(f.calls, i)
      BY <2>3, NameAfter DEF Known
    <3>2. decisions[i] = "undecided"
      BY <2>3 DEF Known, Decided
    <3> QED BY <2>1, <2>3, <3>1, <3>2 DEF Decide
  <2>4. CASE NamingFrames(i) = {} /\ NamedAt(f.calls, i) = {}
    <3>1. NamingFrames(i)' = {}
      BY <2>4, NameAfter DEF Known
    <3>2. decisions[i] = "undecided"
      BY <2>4 DEF Known, Decided
    <3> QED BY <2>1, <2>4, <3>1, <3>2 DEF Decide
  <2> QED BY <2>2, <2>3, <2>4, <2>1
<1>3. Decided'
  BY <1>1, <1>2 DEF Decided
<1>4. arrived' \in Seq(Frame)
  BY ArrivedAfter DEF Known
<1>5. decisions' \in [Index -> {"undecided", "keep", "drop"}]
  BY <1>2
<1>6. ASSUME NEW i \in Index, decisions[i] # "undecided"
      PROVE  decisions'[i] = decisions[i]
  BY <1>2, <1>6 DEF Decide
<1> QED BY <1>3, <1>4, <1>5, <1>6 DEF Known

LEMMA GatheredAfter ==
  ASSUME Known, Gathered, NEW f \in Frame, arrived' = Append(arrived, f),
         pending' = [i \in Index |-> Observe(f.calls, i)], UNCHANGED renames,
         \A i \in Index : pending[i].seen \in {"unseen", "unnamed", "keep", "drop"}
  PROVE  /\ Gathered'
         /\ \A i \in Index :
              pending'[i].seen \in {"unseen", "unnamed", "keep", "drop"}
<1>1. \A name : /\ KeptByAggregate(name)' = KeptByAggregate(name)
                /\ Restore(renames, name)' = Restore(renames, name)
  BY DEF KeptByAggregate, IsRenamed, Restore
<1>2. ASSUME NEW i \in Index
      PROVE  /\ pending'[i].seen \in {"unseen", "unnamed", "keep", "drop"}
             /\ pending'[i].seen \in {"unseen", "unnamed"} <=> NamingFrames(i)' = {}
             /\ pending'[i].seen = "keep" =>
                  /\ KeptByAggregate(NameArrived(i)')
                  /\ pending'[i].name = Restore(renames, NameArrived(i)')
  <2>1. pending'[i] = Observe(f.calls, i)
    OBVIOUS
  <2>2. CASE NamingFrames(i) # {}
    <3>1. NamingFrames(i)' # {} /\ NameArrived(i)' = NameArrived(i)
      BY <2>2, NameAfter DEF Known
    <3>2. pending[i].seen \in {"keep", "drop"}
      BY <2>2 DEF Gathered
    <3>3. pending'[i] = pending[i]
      BY <2>1, <3>2 DEF Observe
    <3> QED BY <3>1, <3>2, <3>3 DEF Gathered
  <2>3. CASE NamingFrames(i) = {} /\ NamedAt(f.calls, i) # {}
    <3>1. NamingFrames(i)' # {} /\ NameArrived(i)' = FirstName(f.calls, i)
      BY <2>3, NameAfter DEF Known
    <3>2. pending[i].seen \notin {"keep", "drop"}
      BY <2>3 DEF Gathered
    <3>3. \E k \in DOMAIN f.calls : f.calls[k].index = i
      BY <2>3 DEF NamedAt
    <3>4. pending'[i] =
            IF KeptByAggregate(FirstName(f.calls, i))
              THEN [seen |-> "keep",
                    name |-> Restore(renames, FirstName(f.calls, i))]
              ELSE [seen |-> "drop", name |-> NoName]
      BY <2>1, <2>3, <3>2, <3>3 DEF Observe
    <3> QED BY <3>1, <3>4
  <2>4. CASE NamingFrames(i) = {} /\ NamedAt(f.calls, i) = {}
    <3>1. NamingFrames(i)' = {}
      BY <2>4, NameAfter DEF Known
    <3>2. pending[i].seen \in {"unseen", "unnamed"}
      BY <2>4 DEF Gathered
    <3>3. pending'[i] \in {pending[i], [seen |-> "unnamed", name |-> NoName]}
      BY <2>1, <2>4 DEF Observe
    <3> QED BY <3>1, <3>2, <3>3
  <2> QED BY <2>2, <2>3, <2>4
<1> QED BY <1>1, <1>2 DEF Gathered

------------------------------------------------------------------------------
(* The frames from the next place on, rewritten.                            *)
Entry(ps, m) ==
  [pos    |-> ps[m], whole |-> TRUE,
   calls  |-> Wanted(arrived'[ps[m]].calls),
   finish |-> FinishAs(arrived'[ps[m]].finish, KeptBy(ps, m))]

(* What had been sent stays right when more calls are decided on.           *)
LEMMA PassedStays ==
  ASSUME Known, NEW j \in DOMAIN arrived, NEW g, g = arrived[j],
         NEW x, Passed(x, g), UNCHANGED renames,
         \A i \in Index : decisions[i] # "undecided" => decisions'[i] = decisions[i]
  PROVE  Passed(x, g)'
<1>0. g \in Frame
  <2>1. DOMAIN arrived = 1..Len(arrived)
    BY LenProperties DEF Known
  <2> QED BY <2>1, ElementOfSeq DEF Known
<1>1. \A k \in DOMAIN g.calls : g.calls[k].index \in Index
  BY <1>0, FrameTyped
<1>2. ASSUME NEW k \in DOMAIN x.calls
      PROVE  /\ k \in DOMAIN g.calls
             /\ decisions'[g.calls[k].index] = "keep"
             /\ x.calls[k] = [g.calls[k] EXCEPT !.name = Restore(renames, @)]
  BY <1>1 DEF Passed
<1>3. ASSUME x.whole, NEW k \in DOMAIN g.calls, g.calls[k].name # NoName,
             decisions'[g.calls[k].index] = "keep"
      PROVE  k \in DOMAIN x.calls
  <2> DEFINE i == g.calls[k].index
  <2>1. k \in NamedAt(g.calls, i)
    BY <1>3 DEF NamedAt
  <2>2. NamingFrames(i) # {} /\ i \in Index
    BY <1>1, <2>1 DEF NamingFrames
  <2>3. decisions[i] # "undecided"
    BY <2>2 DEF Known, Decided
  <2>4. decisions[i] = "keep"
    BY <1>3, <2>2, <2>3
  <2> QED BY <1>3, <2>4 DEF Passed
<1>4. ~x.whole => DOMAIN x.calls = {}
  BY DEF Passed
<1> QED BY <1>2, <1>3, <1>4 DEF Passed

LEMMA WantedPassed ==
  ASSUME NEW f, NEW x, x.calls = Wanted(f.calls), x.whole, UNCHANGED renames
  PROVE  Passed(x, f)'
<1>1. /\ DOMAIN x.calls =
           {k \in DOMAIN f.calls : decisions'[f.calls[k].index] = "keep"}
      /\ \A k \in DOMAIN x.calls :
           x.calls[k] = [f.calls[k] EXCEPT !.name = Restore(renames, @)]
  BY DEF Wanted
<1> QED BY <1>1 DEF Passed

LEMMA SentRewritten ==
  ASSUME Known, IsList(out), Sent(out, kept),
         UNCHANGED renames, arrived' \in Seq(Frame),
         \A j \in DOMAIN arrived : j \in DOMAIN arrived' /\ arrived'[j] = arrived[j],
         \A i \in Index : decisions[i] # "undecided" => decisions'[i] = decisions[i],
         NEW ps, NEW n \in Nat, DOMAIN ps = 1..n,
         \A m \in 1..n : ps[m] = Len(out) + m,
         Len(out) + n <= Len(arrived'),
         NEW o, o = out \o Rewritten(ps),
         NEW b, b <=> KeptBy(ps, n)
  PROVE  IsList(o) /\ Len(o) = Len(out) + n /\ Sent(o, b)'
<1>L. PICK L : L = Len(out)
  OBVIOUS
<1> DEFINE g(m) == arrived'[L + m]
           W(m) == DOMAIN Wanted(g(m).calls) # {}
<1>0. /\ L \in Nat /\ DOMAIN out = 1..L
      /\ DOMAIN arrived' = 1..Len(arrived') /\ Len(arrived') \in Nat
      /\ L + n <= Len(arrived')
      /\ \A m \in 1..n : ps[m] = L + m
  BY <1>L, ListIs, LenProperties
<1>1. /\ IsList(o) /\ Len(o) = L + n
      /\ \A j \in 1..L : o[j] = out[j]
      /\ \A m \in 1..n : o[L + m] = Entry(ps, m)
  <2>1. PICK v, R : v = out /\ R = Rewritten(ps)
    OBVIOUS
  <2>2. R = [m \in 1..n |-> Entry(ps, m)]
    BY <2>1, Zenon DEF Rewritten, Entry
  <2> DEFINE entries == {Entry(ps, m) : m \in 1..n}
  <2>3. R \in [1..n -> entries]
    BY <2>2
  <2> HIDE DEF entries
  <2>4. IsList(R) /\ Len(R) = n
    BY <2>3, ListOf
  <2>5. IsList(v) /\ Len(v) = L /\ o = v \o R
    BY <1>L, <2>1
  <2>6. /\ IsList(o) /\ Len(o) = L + n
        /\ \A j \in 1..(L + n) : o[j] = IF j <= L THEN v[j] ELSE R[j - L]
    <3>1. /\ IsList(v \o R)
          /\ Len(v \o R) = Len(v) + Len(R)
          /\ \A j \in 1..(Len(v) + Len(R)) :
               (v \o R)[j] = IF j <= Len(v) THEN v[j] ELSE R[j - Len(v)]
      BY <2>4, <2>5, Joined, Zenon
    <3> QED BY <2>4, <2>5, <3>1, Zenon
  <2>7. \A j \in 1..L : o[j] = out[j]
    BY <1>0, <2>1, <2>6
  <2>8. ASSUME NEW m \in 1..n PROVE o[L + m] = Entry(ps, m)
    <3>1. L + m \in 1..(L + n) /\ ~(L + m <= L) /\ (L + m) - L = m
      BY <1>0
    <3>2. o[L + m] = R[m]
      BY <2>6, <3>1
    <3> QED BY <2>2, <3>2
  <2> QED BY <2>6, <2>7, <2>8
<1>8. ASSUME NEW m \in 1..n
      PROVE  /\ o[L + m].pos = L + m /\ o[L + m].whole
             /\ o[L + m].calls = Wanted(g(m).calls)
             /\ o[L + m].finish = IF g(m).finish = "tool_calls" /\ ~KeptBy(ps, m)
                                    THEN "stop" ELSE g(m).finish
  <2>1. PICK p, x, f : p = L + m /\ x = o[p] /\ f = arrived'[p]
    OBVIOUS
  <2>2. ps[m] = p /\ x = Entry(ps, m)
    BY <1>0, <1>1, <2>1
  <2> DEFINE calls == Wanted(f.calls)
             fin == FinishAs(f.finish, KeptBy(ps, m))
  <2>3. x = [pos |-> p, whole |-> TRUE, calls |-> calls, finish |-> fin]
    BY <2>1, <2>2, Zenon DEF Entry
  <2>4. fin = IF f.finish = "tool_calls" /\ ~KeptBy(ps, m)
                THEN "stop" ELSE f.finish
    BY Zenon DEF FinishAs
  <2> HIDE DEF calls, fin
  <2>5. x.pos = p /\ x.whole /\ x.calls = calls /\ x.finish = fin
    BY <2>3
  <2> QED BY <2>1, <2>4, <2>5 DEF calls
<1> HIDE DEF g
<1>2. ASSUME NEW m \in 0..n PROVE KeptBy(ps, m) <=> SomeCall(o, L + m)
  <2>1. KeptBy(ps, m) <=> kept \/ \E i \in 1..m : W(i)
    <3>1. ASSUME NEW i \in 1..m PROVE arrived'[ps[i]] = g(i)
      <4>1. i \in 1..n
        OBVIOUS
      <4>2. ps[i] = L + i
        BY <1>0, <4>1
      <4> QED BY <4>2 DEF g
    <3>2. KeptBy(ps, m) <=>
            kept \/ \E i \in 1..m : DOMAIN Wanted(arrived'[ps[i]].calls) # {}
      BY Zenon DEF KeptBy
    <3>3. \A i \in 1..m : DOMAIN Wanted(arrived'[ps[i]].calls) # {} <=> W(i)
      BY <3>1, Zenon
    <3> HIDE DEF W
    <3> QED BY <3>2, <3>3, Zenon
  <2>2. kept <=> \E i \in 1..L : DOMAIN out[i].calls # {}
    BY <1>L DEF Sent, SomeCall
  <2>3. ASSUME NEW i \in 1..L PROVE o[i] = out[i] /\ i \in 1..(L + m)
    BY <1>0, <1>1
  <2>4. ASSUME NEW i \in 1..m
        PROVE  /\ L + i \in 1..(L + m)
               /\ DOMAIN o[L + i].calls # {} <=> W(i)
    <3>1. i \in 1..n /\ L + i \in 1..(L + m)
      BY <1>0
    <3>2. o[L + i].calls = Wanted(g(i).calls)
      BY <1>8, <3>1
    <3> QED BY <3>1, <3>2
  <2>5. ASSUME NEW i \in 1..(L + m)
        PROVE  i \in 1..L \/ \E k \in 1..m : i = L + k
    <3>1. CASE i <= L
      BY <1>0, <3>1
    <3>2. CASE ~(i <= L)
      <4>1. i - L \in 1..m /\ i = L + (i - L)
        BY <1>0, <3>2
      <4> QED BY <4>1
    <3> QED BY <3>1, <3>2
  <2> HIDE DEF W
  <2> QED BY <2>1, <2>2, <2>3, <2>4, <2>5 DEF SomeCall
<1>3. ASSUME NEW j \in 1..L
      PROVE  /\ o[j].pos = j
             /\ o[j].whole => j \in DOMAIN arrived'
             /\ Passed(o[j], arrived[j])'
             /\ Tells(o[j], arrived'[j], SomeCall(o, j))
  <2>1. o[j] = out[j]
    BY <1>1
  <2>2. /\ out[j].pos = j /\ (out[j].whole => j \in DOMAIN arrived)
        /\ Passed(out[j], arrived[j])
        /\ Tells(out[j], arrived[j], SomeCall(out, j))
    BY <1>L DEF Sent
  <2>3. SomeCall(out, j) <=> SomeCall(o, j)
    <3>1. \A i \in 1..j : o[i] = out[i]
      BY <1>0, <1>1
    <3> QED BY <3>1 DEF SomeCall
  <2>4. CASE out[j].whole
    <3>1. j \in DOMAIN arrived /\ arrived'[j] = arrived[j]
      BY <2>2, <2>4
    <3> QED BY <2>1, <2>2, <2>3, <3>1, PassedStays DEF Tells
  <2>5. CASE ~out[j].whole
    <3>1. Passed(o[j], arrived[j])'
      BY <2>1, <2>2, <2>5 DEF Passed
    <3> QED BY <2>1, <2>2, <2>5, <3>1 DEF Tells
  <2> QED BY <2>4, <2>5
<1>4. ASSUME NEW m \in 1..n
      PROVE  /\ o[L + m].pos = L + m
             /\ L + m \in DOMAIN arrived'
             /\ Passed(o[L + m], arrived[L + m])'
             /\ Tells(o[L + m], arrived'[L + m], SomeCall(o, L + m))
  <2>1. PICK x, f : x = o[L + m] /\ f = g(m)
    OBVIOUS
  <2>2. /\ x.pos = L + m /\ x.whole /\ x.calls = Wanted(f.calls)
        /\ x.finish = IF f.finish = "tool_calls" /\ ~KeptBy(ps, m)
                        THEN "stop" ELSE f.finish
    BY <1>8, <2>1, Zenon
  <2>3. L + m \in DOMAIN arrived'
    BY <1>0
  <2>4. KeptBy(ps, m) <=> SomeCall(o, L + m)
    BY <1>2
  <2>5. Passed(x, f)'
    BY <2>2, WantedPassed
  <2>6. Tells(x, f, SomeCall(o, L + m))
    <3> DEFINE some == SomeCall(o, L + m)
               letOut == KeptBy(ps, m)
    <3>1. CASE some
      <4>1. letOut
        BY <2>4, <3>1
      <4>2. x.finish = f.finish
        BY <2>2, <4>1, Zenon
      <4> QED BY <3>1, <4>2 DEF Tells
    <3>2. CASE ~some
      <4>1. ~letOut
        BY <2>4, <3>2
      <4>2. f.finish = "tool_calls" => x.finish = "stop"
        BY <2>2, <4>1, Zenon
      <4> QED BY <3>2, <4>2 DEF Tells
    <3> QED BY <3>1, <3>2
  <2>7. f = arrived'[L + m]
    BY <2>1 DEF g
  <2>8. Passed(o[L + m], arrived[L + m])'
    <3>1. Passed(x, arrived[L + m])'
      BY <2>5, <2>7, Zenon DEF Passed
    <3> QED BY <2>1, <3>1, Zenon DEF Passed
  <2>9. Tells(o[L + m], arrived'[L + m], SomeCall(o, L + m))
    BY <2>1, <2>6, <2>7, Zenon
  <2> QED BY <2>1, <2>2, <2>3, <2>8, <2>9
<1>5. \A j \in 1..(L + n) : j \in 1..L \/ \E m \in 1..n : j = L + m
  <2> SUFFICES ASSUME NEW j \in 1..(L + n), ~(j \in 1..L)
               PROVE  \E m \in 1..n : j = L + m
    OBVIOUS
  <2>1. j - L \in 1..n /\ j = L + (j - L)
    BY <1>0
  <2> QED BY <2>1
<1>6. b <=> SomeCall(o, Len(o))
  BY <1>1, <1>2
<1>7. ASSUME NEW j \in 1..Len(o)
      PROVE  /\ o[j].pos = j
             /\ o[j].whole => j \in DOMAIN arrived'
             /\ Passed(o[j], arrived[j])'
             /\ Tells(o[j], arrived'[j], SomeCall(o, j))
  <2>1. CASE j \in 1..L
    BY <1>3, <2>1
  <2>2. CASE \E m \in 1..n : j = L + m
    <3>1. PICK m \in 1..n : j = L + m
      BY <2>2
    <3> DEFINE i == L + m
    <3>2. /\ o[i].pos = i
          /\ i \in DOMAIN arrived'
          /\ Passed(o[i], arrived[i])'
          /\ Tells(o[i], arrived'[i], SomeCall(o, i))
      BY <1>4
    <3>3. j = i
      BY <3>1
    <3> HIDE DEF i
    <3> QED BY <3>2, <3>3 DEF Passed
  <2> QED BY <1>1, <1>5, <2>1, <2>2
<1>9. Sent(o, b)'
  BY <1>6, <1>7 DEF Sent
<1> QED BY <1>L, <1>1, <1>9


(* The piece of a line that an answer may end with.                         *)
LEMMA SentCut ==
  ASSUME NEW o, IsList(o), NEW b, Sent(o, b)',
         NEW x, x = [pos |-> Len(o) + 1, whole |-> FALSE,
                     calls |-> <<>>, finish |-> "none"],
         NEW w, w = Append(o, x)
  PROVE  IsList(w) /\ Len(w) = Len(o) + 1 /\ Sent(w, b)'
<1> DEFINE n == Len(o)
<1>1. /\ n \in Nat /\ IsList(w) /\ Len(w) = n + 1
      /\ \A j \in 1..n : w[j] = o[j]
      /\ w[n + 1] = x
  BY ListIs, Appended
<1>2. x.pos = n + 1 /\ ~x.whole /\ x.calls = <<>> /\ DOMAIN x.calls = {}
  <2> DEFINE none == <<>>
  <2>1. DOMAIN none = {}
    OBVIOUS
  <2> HIDE DEF none
  <2>2. x = [pos |-> n + 1, whole |-> FALSE, calls |-> none, finish |-> "none"]
    BY DEF none
  <2>3. x.pos = n + 1 /\ ~x.whole /\ x.calls = none
    BY <2>2
  <2> QED BY <2>1, <2>3 DEF none
<1>3. ASSUME NEW j \in 1..n PROVE SomeCall(w, j) <=> SomeCall(o, j)
  <2>1. \A i \in 1..j : w[i] = o[i]
    BY <1>1
  <2> QED BY <2>1 DEF SomeCall
<1>4. b <=> SomeCall(w, n + 1)
  <2>1. b <=> SomeCall(o, n)
    BY DEF Sent
  <2>2. \A i \in 1..(n + 1) : i \in 1..n \/ i = n + 1
    BY <1>1
  <2>3. \A i \in 1..n : i \in 1..(n + 1) /\ w[i] = o[i]
    BY <1>1
  <2> HIDE DEF n
  <2> QED BY <1>1, <1>2, <2>1, <2>2, <2>3 DEF SomeCall
<1>5. ASSUME NEW j \in 1..n
      PROVE  /\ w[j].pos = j
             /\ w[j].whole => j \in DOMAIN arrived'
             /\ Passed(w[j], arrived[j])'
             /\ Tells(w[j], arrived'[j], SomeCall(w, j))
  <2>1. /\ o[j].pos = j
        /\ o[j].whole => j \in DOMAIN arrived'
        /\ Passed(o[j], arrived[j])'
        /\ Tells(o[j], arrived'[j], SomeCall(o, j))
    BY DEF Sent
  <2>2. w[j] = o[j]
    BY <1>1
  <2> QED BY <1>3, <2>1, <2>2 DEF Tells
<1>6. /\ w[n + 1].pos = n + 1 /\ ~w[n + 1].whole
      /\ Passed(w[n + 1], arrived[n + 1])'
      /\ Tells(w[n + 1], arrived'[n + 1], SomeCall(w, n + 1))
  BY <1>1, <1>2 DEF Passed, Tells
<1>7. \A j \in 1..(n + 1) : j \in 1..n \/ j = n + 1
  BY <1>1
<1> HIDE DEF n
<1>8. ASSUME NEW j \in 1..Len(w)
      PROVE  /\ w[j].pos = j
             /\ w[j].whole => j \in DOMAIN arrived'
             /\ Passed(w[j], arrived[j])'
             /\ Tells(w[j], arrived'[j], SomeCall(w, j))
  <2>1. CASE j \in 1..n
    BY <1>5, <2>1
  <2>2. CASE j = n + 1
    BY <1>6, <2>2
  <2> QED BY <1>1, <1>7, <2>1, <2>2
<1>9. Sent(w, b)'
  BY <1>1, <1>4, <1>8 DEF Sent
<1> QED BY <1>1, <1>9 DEF n

LEMMA SentIs ==
  ASSUME NEW o, out' = o, NEW b, kept' = b, Sent(o, b)'
  PROVE  Sent(out, kept)'
<1>1. ASSUME NEW j \in 1..Len(o)
      PROVE  /\ out'[j].pos = j
             /\ out'[j].whole => j \in DOMAIN arrived'
             /\ Passed(out[j], arrived[j])'
             /\ Tells(out'[j], arrived'[j], SomeCall(out', j))
  <2>1. /\ o[j].pos = j
        /\ o[j].whole => j \in DOMAIN arrived'
        /\ Passed(o[j], arrived[j])'
        /\ Tells(o[j], arrived'[j], SomeCall(o, j))
    BY DEF Sent
  <2>2. PICK x : x = o[j]
    OBVIOUS
  <2>3. Passed(x, arrived[j])'
    BY <2>1, <2>2, Zenon DEF Passed
  <2>4. x = out'[j]
    BY <2>2
  <2>5. Passed(out[j], arrived[j])'
    BY <2>3, <2>4, Zenon DEF Passed
  <2>6. Tells(out'[j], arrived'[j], SomeCall(out', j))
    BY <2>1 DEF Tells, SomeCall
  <2> QED BY <2>1, <2>5, <2>6
<1>2. kept' <=> SomeCall(out', Len(out'))
  BY DEF Sent, SomeCall
<1> QED BY <1>1, <1>2 DEF Sent

(* Nothing that arrives later names a call earlier.                         *)
LEMMA NamelessStays ==
  ASSUME arrived \in Seq(Frame), NEW f \in Frame, arrived' = Append(arrived, f),
         NEW p \in DOMAIN arrived, NEW k, Nameless(p, k)
  PROVE  Nameless(p, k)'
<1> DEFINE i == arrived[p].calls[k].index
<1>1. arrived'[p] = arrived[p] /\ p \in Nat /\ p <= Len(arrived) /\ Len(arrived) \in Nat
  BY ArrivedAfter
<1>2. PICK c : c = i
  OBVIOUS
<1>3. \A q \in NamingFrames(c)' : q \in NamingFrames(c) \/ q = Len(arrived) + 1
  BY NameAfter
<1>4. \A q \in NamingFrames(c) : q >= p
  BY <1>2 DEF Nameless
<1>5. \A q \in NamingFrames(c)' : q >= p
  BY <1>1, <1>3, <1>4
<1>6. \A j \in NamedAt(arrived'[p].calls, c) : j > k
  BY <1>1, <1>2 DEF Nameless
<1>7. arrived'[p].calls[k].index = c
  BY <1>1, <1>2
<1> QED BY <1>5, <1>6, <1>7 DEF Nameless, NamingFrames

(* A frame is held back only for a call that has no name yet.               *)
LEMMA NamelessNew ==
  ASSUME Known, NEW f \in Frame, arrived' = Append(arrived, f),
         NEW p, p = Len(arrived) + 1, Undecided(f.calls) # {}
  PROVE  \E k \in DOMAIN arrived'[p].calls : Nameless(p, k)'
<1>1. arrived'[p] = f /\ p \in Nat
  BY ArrivedAfter DEF Known
<1>2. PICK k \in DOMAIN f.calls :
        /\ decisions[f.calls[k].index] = "undecided"
        /\ \A j \in NamedAt(f.calls, f.calls[k].index) : j > k
  BY DEF Undecided
<1>3. PICK c : c = f.calls[k].index
  OBVIOUS
<1>4. c \in Index
  BY <1>3, FrameTyped
<1>5. NamingFrames(c) = {}
  BY <1>2, <1>3, <1>4 DEF Known, Decided
<1>6. \A q \in NamingFrames(c)' : q \in NamingFrames(c) \/ q = Len(arrived) + 1
  BY NameAfter DEF Known
<1>7. \A q \in NamingFrames(c)' : q >= p
  BY <1>1, <1>5, <1>6
<1>8. Nameless(p, k)'
  BY <1>1, <1>2, <1>3, <1>7 DEF Nameless, NamingFrames
<1> QED BY <1>1, <1>2, <1>8


------------------------------------------------------------------------------
IInv ==
  /\ TypeOK /\ IsList(out)
  /\ Shaped /\ Decided /\ Gathered
  /\ Sent(out, kept) /\ Held

LEMMA Basics ==
  ASSUME IInv
  PROVE  /\ Known /\ IsList(buffered)
         /\ Len(arrived) \in Nat /\ DOMAIN arrived = 1..Len(arrived)
         /\ Len(out) \in Nat /\ DOMAIN out = 1..Len(out)
         /\ Len(buffered) \in Nat /\ DOMAIN buffered = 1..Len(buffered)
<1>1. arrived \in Seq(Frame) /\ IsList(buffered) /\ IsList(out)
  BY DEF IInv, TypeOK, IsList
<1>2. Known
  BY DEF IInv, TypeOK, Known
<1>3. Len(arrived) \in Nat /\ DOMAIN arrived = 1..Len(arrived)
  BY <1>1, LenProperties
<1> QED BY <1>1, <1>2, <1>3, ListIs

(* The names of a request.                                                  *)
LEMMA NamesTyped ==
  ASSUME request \in Request
  PROVE  /\ Names \in Seq(PlainName) /\ Len(Names) \in Nat
         /\ DOMAIN Names = 1..Len(Names)
         /\ \A m \in 1..Len(Names) : Names[m] \in PlainName
         /\ ToSet(Names) = ToSet(request.tools) \cup ToSet(request.choices)
<1>1. request.tools \in Seq(PlainName) /\ request.choices \in Seq(PlainName)
  BY RequestAssumption
<1> DEFINE s == request.tools
           t == request.choices
<1>2. Names = s \o t
  BY DEF Names
<1> HIDE DEF s, t
<1>3. s \in Seq(PlainName) /\ t \in Seq(PlainName)
  BY <1>1 DEF s, t
<1>4. /\ s \o t \in Seq(PlainName) /\ Len(s \o t) = Len(s) + Len(t)
      /\ \A j \in 1..(Len(s) + Len(t)) :
           (s \o t)[j] = IF j <= Len(s) THEN s[j] ELSE t[j - Len(s)]
  BY <1>3, ConcatProperties
<1>5. /\ Len(s) \in Nat /\ DOMAIN s = 1..Len(s)
      /\ Len(t) \in Nat /\ DOMAIN t = 1..Len(t)
  BY <1>3, LenProperties
<1>6. Len(Names) \in Nat /\ DOMAIN Names = 1..(Len(s) + Len(t))
  BY <1>2, <1>4, <1>5, LenProperties
<1>7. \A m \in 1..Len(Names) : Names[m] \in PlainName
  BY <1>2, <1>4, ElementOfSeq
<1>8. ASSUME NEW j \in DOMAIN Names
      PROVE  Names[j] \in ToSet(s) \cup ToSet(t)
  <2>1. CASE j <= Len(s)
    <3>1. j \in DOMAIN s /\ Names[j] = s[j]
      BY <1>2, <1>4, <1>5, <1>6, <2>1
    <3> QED BY <3>1 DEF ToSet
  <2>2. CASE ~(j <= Len(s))
    <3>1. j - Len(s) \in DOMAIN t /\ Names[j] = t[j - Len(s)]
      BY <1>2, <1>4, <1>5, <1>6, <2>2
    <3> QED BY <3>1 DEF ToSet
  <2> QED BY <2>1, <2>2
<1>9. ASSUME NEW j \in DOMAIN s PROVE s[j] \in ToSet(Names)
  <2>1. j \in DOMAIN Names /\ Names[j] = s[j]
    BY <1>2, <1>4, <1>5, <1>6
  <2> QED BY <2>1 DEF ToSet
<1>10. ASSUME NEW j \in DOMAIN t PROVE t[j] \in ToSet(Names)
  <2>1. /\ Len(s) + j \in DOMAIN Names /\ ~(Len(s) + j <= Len(s))
        /\ (Len(s) + j) - Len(s) = j
    BY <1>5, <1>6
  <2>2. Names[Len(s) + j] = t[j]
    BY <1>2, <1>4, <1>6, <2>1
  <2> QED BY <2>1, <2>2 DEF ToSet
<1>11. ToSet(Names) = ToSet(s) \cup ToSet(t)
  BY <1>8, <1>9, <1>10 DEF ToSet
<1> QED BY <1>2, <1>4, <1>5, <1>6, <1>7, <1>11 DEF s, t

LEMMA InitInv == Init => IInv
<1> SUFFICES ASSUME Init PROVE IInv
  OBVIOUS
<1>0. /\ Len(out) = 0 /\ Len(arrived) = 0 /\ Len(buffered) = 0
      /\ DOMAIN out = {} /\ DOMAIN arrived = {} /\ DOMAIN buffered = {}
      /\ \A S : arrived \in Seq(S) /\ out \in Seq(S) /\ buffered \in Seq(S)
  BY EmptySeq DEF Init
<1>1. TypeOK
  <2>1. Len(Names) \in Nat
    BY NamesTyped DEF Init
  <2>2. \A i \in Index : pending[i].seen = "unseen"
    BY DEF Init, Unseen
  <2>3. arrived \in Seq(Frame) /\ buffered \in Seq(1..Len(arrived))
    BY <1>0
  <2>4. built \in 0..Len(Names)
    BY <2>1 DEF Init
  <2>5. decisions \in [Index -> {"undecided", "keep", "drop"}]
    BY DEF Init
  <2> QED BY <2>2, <2>3, <2>4, <2>5 DEF TypeOK, Init
<1>2. IsList(out)
  BY <1>0 DEF IsList
<1>3. Shaped
  <2> DEFINE none == <<>>
  <2>1. DOMAIN none = {}
    OBVIOUS
  <2> HIDE DEF none
  <2>2. renames = [forward |-> none, reverse |-> none]
    BY DEF Init, newRenames, none
  <2>3. renames.forward = none /\ renames.reverse = none
    BY <2>2
  <2>4. IsFiniteSet(DOMAIN renames.reverse)
    BY <2>1, <2>3, FS_EmptySet
  <2>5. Matched(renames)
    BY <2>1, <2>3, <2>4 DEF Matched
  <2>6. built = 0 /\ stage = "shaping" /\ built \in 0..Len(Names)
    BY <1>1 DEF Init, TypeOK
  <2> QED BY <2>1, <2>3, <2>5, <2>6 DEF Shaped
<1>4. \A i : NamingFrames(i) = {}
  BY <1>0 DEF NamingFrames
<1>5. Decided
  BY <1>4 DEF Decided, Init
<1>6. Gathered
  <2>1. \A i \in Index : pending[i].seen = "unseen"
    BY DEF Init, Unseen
  <2> QED BY <1>4, <2>1 DEF Gathered
<1>7. Sent(out, kept)
  <2>1. ~SomeCall(out, Len(out))
    BY <1>0 DEF SomeCall
  <2> QED BY <1>0, <2>1 DEF Sent, Init
<1>8. Held
  BY <1>0 DEF Held, Init
<1> QED BY <1>1, <1>2, <1>3, <1>5, <1>6, <1>7, <1>8 DEF IInv

LEMMA BuildInv ==
  ASSUME IInv, Build
  PROVE  IInv'
<1>0. /\ stage = "shaping" /\ arrived = <<>> /\ out = <<>> /\ buffered = <<>>
      /\ arrived' = <<>> /\ out' = <<>> /\ buffered' = <<>>
      /\ UNCHANGED <<request, arrived, decisions, kept, buffered, out, pending,
                     finish>>
      /\ Names' = Names
  BY DEF IInv, TypeOK, Held, Build, stream, aggregate, Names
<1>1. /\ Len(out) = 0 /\ Len(arrived) = 0 /\ Len(buffered) = 0
      /\ DOMAIN out = {} /\ DOMAIN arrived = {} /\ DOMAIN buffered = {}
  BY <1>0, EmptySeq
<1>2. /\ request \in Request /\ built \in 0..Len(Names) /\ Len(Names) \in Nat
      /\ \A m \in 1..Len(Names) : Names[m] \in PlainName /\ Names[m] \in ToSet(Names)
  BY NamesTyped DEF IInv, TypeOK, ToSet
<1>3. \/ /\ built < Len(Names) /\ stage' = "shaping"
         /\ renames' = rename(renames, Names[built + 1]) /\ built' = built + 1
      \/ /\ built = Len(Names) /\ stage' = "open"
         /\ renames' = renames /\ built' = built
  BY <1>0 DEF Build
<1>4. /\ Matched(renames) /\ DOMAIN renames.forward \subseteq ToSet(Names)
      /\ \A m \in 1..built : Names[m] \in DOMAIN renames.forward
  BY DEF IInv, Shaped
<1>5. /\ Matched(renames') /\ DOMAIN renames'.forward \subseteq ToSet(Names)
      /\ built' \in 0..Len(Names)
      /\ \A m \in 1..built' : Names[m] \in DOMAIN renames'.forward
      /\ stage' # "shaping" => built' = Len(Names)
  <2>1. CASE /\ built < Len(Names) /\ stage' = "shaping"
             /\ renames' = rename(renames, Names[built + 1]) /\ built' = built + 1
    <3>1. PICK name : name = Names[built + 1]
      OBVIOUS
    <3>2. built + 1 \in 1..Len(Names) /\ built' \in 0..Len(Names)
      BY <1>2, <2>1
    <3>3. name \in PlainName /\ name \in ToSet(Names)
      BY <1>2, <3>1, <3>2
    <3>4. name # NoName
      <4>1. PICK t \in ToolText : name = <<t, 0>>
        BY <3>3 DEF PlainName, Plain
      <4>2. t # "" /\ name[1] = t
        BY <4>1, DigestAssumption
      <4>3. NoName[1] = ""
        BY DEF NoName
      <4> QED BY <4>2, <4>3
    <3>5. /\ Matched(renames')
          /\ DOMAIN renames'.forward \subseteq DOMAIN renames.forward \cup {name}
          /\ DOMAIN renames.forward \subseteq DOMAIN renames'.forward
          /\ name \in DOMAIN renames'.forward
      BY <1>4, <2>1, <3>1, <3>4, RenameMatches
    <3>6. \A m \in 1..built' : m \in 1..built \/ m = built + 1
      BY <1>2, <2>1
    <3>7. \A m \in 1..built' : Names[m] \in DOMAIN renames'.forward
      BY <1>4, <3>1, <3>5, <3>6
    <3> QED BY <1>4, <2>1, <3>2, <3>3, <3>5, <3>7
  <2>2. CASE /\ built = Len(Names) /\ stage' = "open"
             /\ renames' = renames /\ built' = built
    BY <1>2, <1>4, <2>2
  <2> QED BY <1>3, <2>1, <2>2
<1>6. Shaped'
  BY <1>0, <1>5 DEF Shaped, Matched
<1>7. \A i : NamingFrames(i) = {} /\ NamingFrames(i)' = {}
  BY <1>0, <1>1 DEF NamingFrames
<1>8. Decided'
  BY <1>0, <1>7 DEF Decided, IInv
<1>9. Gathered'
  <2>1. ASSUME NEW i \in Index
        PROVE  pending'[i].seen \in {"unseen", "unnamed"}
    BY <1>0, <1>7 DEF Gathered, IInv
  <2> QED BY <1>7, <2>1 DEF Gathered
<1>10. Sent(out, kept)'
  <2>1. ~SomeCall(out, Len(out)) /\ ~SomeCall(out, Len(out))'
    BY <1>0, <1>1 DEF SomeCall
  <2>2. ~kept
    BY <2>1 DEF Sent, IInv
  <2> QED BY <1>0, <1>1, <2>1, <2>2 DEF Sent
<1>11. Held'
  BY <1>0, <1>1, <1>3 DEF Held
<1>12. TypeOK'
  BY <1>0, <1>3, <1>5 DEF TypeOK, IInv
<1>13. IsList(out)'
  BY <1>0 DEF IsList, IInv
<1> QED BY <1>6, <1>8, <1>9, <1>10, <1>11, <1>12, <1>13 DEF IInv


LEMMA FrameInv ==
  ASSUME IInv, NEW f \in Frame, OnFrame(f)
  PROVE  IInv'
<1> DEFINE L == Len(arrived)
           B == Len(buffered)
<1>0. /\ stage = "open" /\ stage' = "open"
      /\ arrived' = Append(arrived, f)
      /\ UNCHANGED <<request, renames, built>>
      /\ decisions' = [i \in Index |-> Decide(f.calls, i)]
      /\ pending' = [i \in Index |-> Observe(f.calls, i)]
      /\ finish' \in {finish, f.finish}
      /\ Names' = Names
  BY DEF OnFrame, StreamFrame, AggregateFrame, shape, Names
<1>1. /\ Known /\ IsList(buffered) /\ IsList(out)
      /\ L \in Nat /\ DOMAIN arrived = 1..L
      /\ Len(out) \in Nat /\ DOMAIN out = 1..Len(out)
      /\ B \in Nat /\ DOMAIN buffered = 1..B
      /\ Len(out) + B = L
      /\ \A m \in 1..B : buffered[m] = Len(out) + m
  BY <1>0, Basics DEF IInv, Held
<1>2. /\ arrived' \in Seq(Frame) /\ Len(arrived') = L + 1
      /\ DOMAIN arrived' = 1..(L + 1)
      /\ \A p \in DOMAIN arrived : p \in DOMAIN arrived' /\ arrived'[p] = arrived[p]
      /\ arrived'[L + 1] = f
  BY <1>0, <1>1, ArrivedAfter DEF Known
<1>3. Known' /\ \A i \in Index :
                  decisions[i] # "undecided" => decisions'[i] = decisions[i]
  BY <1>0, <1>1, DecidedAfter
<1>4. /\ Gathered'
      /\ \A i \in Index : pending'[i].seen \in {"unseen", "unnamed", "keep", "drop"}
  BY <1>0, <1>1, GatheredAfter DEF IInv, TypeOK
<1>5. Shaped'
  BY <1>0 DEF IInv, Shaped, Matched
<1>6. \/ /\ Undecided(f.calls) # {}
         /\ buffered' = Append(buffered, L + 1)
         /\ kept' = kept /\ out' = out
      \/ /\ out' = out \o Rewritten(Append(buffered, L + 1))
         /\ kept' = KeptBy(Append(buffered, L + 1), B + 1)
         /\ buffered' = <<>>
  BY DEF OnFrame, StreamFrame, Released
<1>7. PICK ps : ps = Append(buffered, L + 1)
  OBVIOUS
<1>8. /\ IsList(ps) /\ Len(ps) = B + 1 /\ DOMAIN ps = 1..(B + 1)
      /\ \A m \in 1..(B + 1) : ps[m] = Len(out) + m
  <2>1. /\ IsList(ps) /\ Len(ps) = B + 1 /\ \A m \in 1..B : ps[m] = buffered[m]
        /\ ps[B + 1] = L + 1
    BY <1>1, <1>7, Appended
  <2>2. \A m \in 1..(B + 1) : m \in 1..B \/ m = B + 1
    BY <1>1
  <2>3. DOMAIN ps = 1..(B + 1)
    BY <2>1, ListIs
  <2> QED BY <1>1, <2>1, <2>2, <2>3
<1>9. /\ request' \in Request /\ built' \in 0..Len(Names')
      /\ finish' \in {"none", "stop", "tool_calls"}
  BY <1>0, FrameTyped DEF IInv, TypeOK
<1>10. ASSUME /\ Undecided(f.calls) # {}
              /\ buffered' = Append(buffered, L + 1)
              /\ kept' = kept /\ out' = out
       PROVE  IInv'
  <2>1. TypeOK'
    <3>1. /\ buffered \in Seq(1..L) /\ kept' \in BOOLEAN
      BY <1>10 DEF IInv, TypeOK
    <3>2. 1..L \subseteq 1..(L + 1) /\ L + 1 \in 1..(L + 1)
      BY <1>1
    <3>3. buffered \in Seq(1..(L + 1))
      BY <3>1, <3>2
    <3>4. buffered' \in Seq(1..(L + 1))
      BY <3>2, <3>3, <1>10, AppendProperties
    <3> QED BY <1>0, <1>2, <1>3, <1>4, <1>9, <3>1, <3>4 DEF TypeOK, Known
  <2>2. IsList(out)'
    BY <1>1, <1>10 DEF IsList
  <2>3. Sent(out, kept)'
    <3>1. kept <=> SomeCall(out, Len(out))
      BY DEF IInv, Sent
    <3>2. kept' <=> SomeCall(out, Len(out))'
      BY <3>1, <1>10 DEF SomeCall
    <3>3. ASSUME NEW j \in 1..Len(out)
          PROVE  /\ out'[j].pos = j
                 /\ out'[j].whole => j \in DOMAIN arrived'
                 /\ Passed(out[j], arrived[j])'
                 /\ Tells(out'[j], arrived'[j], SomeCall(out', j))
      <4>1. j \in DOMAIN arrived /\ arrived'[j] = arrived[j] /\ out'[j] = out[j]
        BY <1>1, <1>2, <1>10
      <4>2. /\ out[j].pos = j /\ Passed(out[j], arrived[j])
            /\ Tells(out[j], arrived[j], SomeCall(out, j))
        BY DEF IInv, Sent
      <4>3. PICK x, g : x = out[j] /\ g = arrived[j]
        OBVIOUS
      <4>4. Passed(x, g)'
        BY <1>0, <1>1, <1>3, <4>1, <4>2, <4>3, PassedStays
      <4>5. x = out'[j] /\ g = arrived'[j]
        BY <4>1, <4>3
      <4>6. Passed(out[j], arrived[j])'
        BY <4>4, <4>5, Zenon DEF Passed
      <4>7. Tells(out'[j], arrived'[j], SomeCall(out', j))
        BY <4>1, <4>2, <1>10
      <4> QED BY <1>2, <4>1, <4>2, <4>6, <4>7
    <3>4. Len(out') = Len(out)
      BY <1>10
    <3> QED BY <3>2, <3>3, <3>4 DEF Sent
  <2>4. Held'
    <3>1. Len(out') + Len(buffered') = Len(arrived')
      BY <1>1, <1>2, <1>7, <1>8, <1>10
    <3>2. \A m \in DOMAIN buffered' : buffered'[m] = Len(out') + m
      BY <1>7, <1>8, <1>10
    <3>3. ASSUME NEW p \in (Len(out) + 1)..(L + 1)
          PROVE  \E k \in DOMAIN arrived'[p].calls : Nameless(p, k)'
      <4>1. CASE p = L + 1
        BY <1>0, <1>1, <1>10, <4>1, NamelessNew
      <4>2. CASE p # L + 1
        <5>1. p \in (Len(out) + 1)..Len(arrived) /\ p \in DOMAIN arrived
          BY <1>1, <4>2
        <5>2. PICK k \in DOMAIN arrived[p].calls : Nameless(p, k)
          BY <5>1 DEF IInv, Held
        <5>3. Nameless(p, k)'
          BY <1>0, <1>1, <5>1, <5>2, NamelessStays DEF Known
        <5> QED BY <1>2, <5>1, <5>2, <5>3
      <4> QED BY <4>1, <4>2
    <3> QED BY <1>0, <1>2, <1>10, <3>1, <3>2, <3>3 DEF Held
  <2> QED BY <1>3, <1>4, <1>5, <2>1, <2>2, <2>3, <2>4 DEF IInv, Known
<1>11. ASSUME /\ out' = out \o Rewritten(Append(buffered, L + 1))
              /\ kept' = KeptBy(Append(buffered, L + 1), B + 1)
              /\ buffered' = <<>>
       PROVE  IInv'
  <2>1. PICK o, b : o = out' /\ b = kept'
    OBVIOUS
  <2>2. o = out \o Rewritten(ps) /\ (b <=> KeptBy(ps, B + 1)) /\ B + 1 \in Nat
        /\ Len(out) + (B + 1) <= Len(arrived')
    BY <1>1, <1>2, <1>7, <1>11, <2>1
  <2>3. IsList(o) /\ Len(o) = Len(out) + (B + 1) /\ Sent(o, b)'
    <3>1. /\ DOMAIN ps = 1..(B + 1) /\ \A m \in 1..(B + 1) : ps[m] = Len(out) + m
          /\ Known /\ IsList(out) /\ Sent(out, kept) /\ UNCHANGED renames
          /\ arrived' \in Seq(Frame)
      BY <1>0, <1>1, <1>2, <1>8 DEF IInv
    <3>2. PICK n \in Nat : n = B + 1
      BY <2>2
    <3>3. /\ DOMAIN ps = 1..n /\ \A m \in 1..n : ps[m] = Len(out) + m
          /\ (b <=> KeptBy(ps, n)) /\ Len(out) + n <= Len(arrived')
      BY <2>2, <3>1, <3>2
    <3>4. /\ \A j \in DOMAIN arrived : j \in DOMAIN arrived' /\ arrived'[j] = arrived[j]
          /\ \A i \in Index : decisions[i] # "undecided" => decisions'[i] = decisions[i]
          /\ o = out \o Rewritten(ps)
      BY <1>2, <1>3, <2>2
    <3>5. IsList(o) /\ Len(o) = Len(out) + n /\ Sent(o, b)'
      BY <3>1, <3>3, <3>4, SentRewritten, Zenon
    <3> QED BY <3>2, <3>5
  <2>4. Sent(out, kept)'
    BY <2>1, <2>3, SentIs
  <2>5. IsList(out)' /\ Len(out') = L + 1
    BY <1>1, <2>1, <2>3 DEF IsList
  <2>6. /\ buffered' \in Seq(1..Len(arrived')) /\ kept' \in BOOLEAN
        /\ Len(buffered') = 0 /\ DOMAIN buffered' = {}
    BY <1>11, EmptySeq DEF KeptBy
  <2>7. TypeOK'
    BY <1>0, <1>2, <1>3, <1>4, <1>9, <2>6 DEF TypeOK, Known
  <2>8. Held'
    BY <1>0, <1>1, <1>2, <2>5, <2>6 DEF Held
  <2> QED BY <1>3, <1>4, <1>5, <2>4, <2>5, <2>7, <2>8 DEF IInv, Known
<1> QED BY <1>6, <1>10, <1>11

LEMMA CutInv ==
  ASSUME IInv, OnCutFrame
  PROVE  IInv'
<1> DEFINE B == Len(buffered)
           none == <<>>
<1>0. /\ stage = "open" /\ stage' = "cut"
      /\ UNCHANGED <<request, renames, built, arrived, decisions, pending, finish>>
      /\ buffered' = none /\ kept' = KeptBy(buffered, B)
      /\ Names' = Names
  BY DEF OnCutFrame, shape, aggregate, Names
<1>1. /\ Known /\ IsList(buffered) /\ IsList(out)
      /\ Len(arrived) \in Nat /\ DOMAIN arrived = 1..Len(arrived)
      /\ Len(out) \in Nat
      /\ B \in Nat /\ DOMAIN buffered = 1..B
      /\ Len(out) + B = Len(arrived)
      /\ \A m \in 1..B : buffered[m] = Len(out) + m
  BY <1>0, Basics DEF IInv, Held
<1>2. PICK ps, o, b : /\ ps = buffered /\ o = out \o Rewritten(buffered)
                      /\ b = kept'
  OBVIOUS
<1>3. arrived' \in Seq(Frame)
  BY <1>0, <1>1 DEF Known
<1>4. IsList(o) /\ Len(o) = Len(out) + B /\ Sent(o, b)'
  <2>1. o = out \o Rewritten(ps) /\ (b <=> KeptBy(ps, B)) /\ DOMAIN ps = 1..B
        /\ \A m \in 1..B : ps[m] = Len(out) + m
    BY <1>0, <1>1, <1>2
  <2>2. Len(out) + B <= Len(arrived')
    BY <1>0, <1>1
  <2>3. /\ \A j \in DOMAIN arrived : j \in DOMAIN arrived' /\ arrived'[j] = arrived[j]
        /\ \A i \in Index : decisions[i] # "undecided" => decisions'[i] = decisions[i]
        /\ UNCHANGED renames
    BY <1>0
  <2>4. Sent(out, kept)
    BY DEF IInv
  <2> QED BY <1>1, <1>3, <2>1, <2>2, <2>3, <2>4, SentRewritten
<1>5. PICK w : w = out'
  OBVIOUS
<1>6. w = Append(o, [pos |-> Len(o) + 1, whole |-> FALSE,
                     calls |-> <<>>, finish |-> "none"])
  <2>1. Len(o) = Len(arrived)
    BY <1>1, <1>4
  <2>2. out' = Append(o, [pos |-> Len(arrived) + 1, whole |-> FALSE,
                          calls |-> <<>>, finish |-> "none"])
    BY <1>2, Zenon DEF OnCutFrame
  <2> QED BY <1>5, <2>1, <2>2
<1>7. IsList(w) /\ Len(w) = Len(o) + 1 /\ Sent(w, b)'
  BY <1>4, <1>6, SentCut
<1>8. Sent(out, kept)'
  BY <1>2, <1>5, <1>7, SentIs
<1>9. IsList(out)' /\ Len(out') = Len(arrived) + 1
  BY <1>1, <1>4, <1>5, <1>7 DEF IsList
<1>10. /\ buffered' \in Seq(1..Len(arrived')) /\ kept' \in BOOLEAN
  BY <1>0, EmptySeq DEF KeptBy
<1>11. TypeOK'
  <2>1. buffered' = <<>>
    BY <1>0
  <2> QED BY <1>0, <1>10, <2>1 DEF TypeOK, IInv
<1>12. Held'
  BY <1>0, <1>1, <1>9 DEF Held
<1>13. Shaped'
  BY <1>0 DEF IInv, Shaped, Matched
<1>14. \A i : /\ NamingFrames(i)' = NamingFrames(i)
              /\ NameArrived(i)' = NameArrived(i)
  BY <1>0 DEF NamingFrames, NameArrived
<1>15. Decided'
  <2>1. \A name : dropToolCall(name)' = dropToolCall(name)
    BY <1>0 DEF dropToolCall
  <2> QED BY <1>0, <1>14, <2>1 DEF Decided, IInv
<1>16. Gathered'
  <2>1. \A name : /\ KeptByAggregate(name)' = KeptByAggregate(name)
                  /\ Restore(renames, name)' = Restore(renames, name)
    BY <1>0 DEF KeptByAggregate, IsRenamed, Restore
  <2> QED BY <1>0, <1>14, <2>1 DEF Gathered, IInv
<1> QED BY <1>8, <1>9, <1>11, <1>12, <1>13, <1>15, <1>16 DEF IInv


LEMMA LastInv ==
  ASSUME IInv, OnDone \/ \E how \in {"closed", "broken"} : OnEnd(how)
  PROVE  IInv'
<1>0. /\ stage \notin {"shaping"} /\ stage' \in {"done", "closed", "broken"}
      /\ UNCHANGED <<request, renames, built, arrived, decisions, kept, out,
                     pending, finish>>
      /\ buffered' = <<>> /\ Names' = Names
  BY DEF OnDone, OnEnd, shape, aggregate, Names
<1>1. TypeOK'
  <2>1. buffered' \in Seq(1..Len(arrived'))
    BY <1>0, EmptySeq
  <2> QED BY <1>0, <2>1 DEF TypeOK, IInv
<1>2. IsList(out)'
  BY <1>0 DEF IsList, IInv
<1>3. Shaped'
  BY <1>0 DEF IInv, Shaped, Matched
<1>4. Decided' /\ Gathered'
  BY <1>0 DEF IInv, Decided, Gathered, NamingFrames, NameArrived, dropToolCall,
              KeptByAggregate, IsRenamed, HasClientTool, Restore
<1>5. Sent(out, kept)'
  <2>1. \A x, g : Passed(x, g) => Passed(x, g)'
    BY <1>0 DEF Passed
  <2> QED BY <1>0, <2>1 DEF IInv, Sent, SomeCall
<1>6. Held'
  <2>1. \A p, k : Nameless(p, k) => Nameless(p, k)'
    BY <1>0 DEF Nameless, NamingFrames
  <2> QED BY <1>0, <2>1 DEF IInv, Held
<1> QED BY <1>1, <1>2, <1>3, <1>4, <1>5, <1>6 DEF IInv

LEMMA StutterInv ==
  ASSUME IInv, UNCHANGED vars
  PROVE  IInv'
<1>0. /\ UNCHANGED <<request, renames, built, arrived, stage, decisions, kept,
                     buffered, out, pending, finish>>
      /\ Names' = Names
  BY DEF vars, shape, stream, aggregate, Names
<1>1. TypeOK' /\ IsList(out)' /\ Shaped'
  BY <1>0 DEF IInv, TypeOK, IsList, Shaped, Matched
<1>2. Decided' /\ Gathered'
  BY <1>0 DEF IInv, Decided, Gathered, NamingFrames, NameArrived, dropToolCall,
              KeptByAggregate, IsRenamed, HasClientTool, Restore
<1>3. Sent(out, kept)'
  <2>1. \A x, g : Passed(x, g) => Passed(x, g)'
    BY <1>0 DEF Passed
  <2> QED BY <1>0, <2>1 DEF IInv, Sent, SomeCall
<1>4. Held'
  <2>1. \A p, k : Nameless(p, k) => Nameless(p, k)'
    BY <1>0 DEF Nameless, NamingFrames
  <2> QED BY <1>0, <2>1 DEF IInv, Held
<1> QED BY <1>1, <1>2, <1>3, <1>4 DEF IInv

(* In every state the renames are matched, every call is decided on by the  *)
(* first name that arrived for it, what has been written is the frames in   *)
(* their order less the calls not kept, and each frame held back has a call *)
(* that had no name when it came.                                           *)
THEOREM Invariance == Spec => []IInv
<1>1. Init => IInv
  BY InitInv
<1>2. ASSUME IInv, [Next]_vars PROVE IInv'
  <2>1. CASE Build
    BY <1>2, <2>1, BuildInv
  <2>2. ASSUME NEW f \in Frame, OnFrame(f) PROVE IInv'
    BY <1>2, <2>2, FrameInv
  <2>3. CASE OnCutFrame
    BY <1>2, <2>3, CutInv
  <2>4. CASE OnDone \/ \E how \in {"closed", "broken"} : OnEnd(how)
    BY <1>2, <2>4, LastInv
  <2>5. CASE UNCHANGED vars
    BY <1>2, <2>5, StutterInv
  <2> QED BY <1>2, <2>1, <2>2, <2>3, <2>4, <2>5 DEF Next
<1> QED BY <1>1, <1>2, PTL DEF Spec


------------------------------------------------------------------------------
(* What a fragment that was written has behind it.                          *)
LEMMA WrittenCall ==
  ASSUME IInv, NEW j \in DOMAIN out, NEW k \in DOMAIN out[j].calls
  PROVE  /\ j \in DOMAIN arrived /\ k \in DOMAIN arrived[j].calls
         /\ out[j].calls[k].index = arrived[j].calls[k].index
         /\ out[j].calls[k].name = Restore(renames, arrived[j].calls[k].name)
         /\ arrived[j].calls[k].index \in Index
         /\ decisions[arrived[j].calls[k].index] = "keep"
<1>1. j \in 1..Len(out)
  BY Basics
<1>2. /\ out[j].whole => j \in DOMAIN arrived
      /\ Passed(out[j], arrived[j])
  BY <1>1 DEF IInv, Sent
<1>3. j \in DOMAIN arrived /\ k \in DOMAIN arrived[j].calls
  BY <1>2 DEF Passed
<1>4. PICK f, c : f = arrived[j] /\ c = f.calls[k]
  OBVIOUS
<1>5. f \in Frame
  BY <1>3, <1>4, Basics, ElementOfSeq DEF Known
<1>7. c \in Call /\ c.index \in Index
  BY <1>3, <1>4, <1>5, FrameTyped
<1>8. /\ decisions[c.index] = "keep"
      /\ out[j].calls[k] = [c EXCEPT !.name = Restore(renames, c.name)]
  BY <1>2, <1>4 DEF Passed
<1>9. /\ out[j].calls[k].index = c.index
      /\ out[j].calls[k].name = Restore(renames, c.name)
  BY <1>7, <1>8 DEF Call
<1> QED BY <1>3, <1>4, <1>7, <1>8, <1>9

(* A call that Stream lets through has a name, and not one of those that    *)
(* are dropped.                                                             *)
LEMMA KeptName ==
  ASSUME IInv, NEW i \in Index, decisions[i] = "keep"
  PROVE  /\ NamingFrames(i) # {} /\ NameArrived(i) # NoName
         /\ ~dropToolCall(NameArrived(i))
<1>1. NamingFrames(i) # {} /\ ~dropToolCall(NameArrived(i))
  BY DEF IInv, Decided
<1> QED BY <1>1, Basics, ArrivedName DEF Known

(* The text of a name of upstream's is not one of the client's.             *)
LEMMA WireNotPlain ==
  ASSUME IInv, NEW w \in DOMAIN renames.reverse
  PROVE  w \notin PlainName /\ renames.reverse[w] \in PlainName
<1>1. w[2] # 0 /\ renames.reverse[w] \in ToSet(Names)
  BY DEF IInv, Shaped, Matched
<1>2. \A n \in PlainName : n[2] = 0
  BY DEF PlainName, Plain
<1>3. ToSet(Names) \subseteq PlainName
  BY NamesTyped DEF IInv, TypeOK, ToSet
<1> QED BY <1>1, <1>2, <1>3

LEMMA OrderHolds == IInv => InOrder
<1> SUFFICES ASSUME IInv PROVE InOrder
  OBVIOUS
<1>1. /\ Len(out) \in Nat /\ DOMAIN out = 1..Len(out) /\ IsList(buffered)
      /\ DOMAIN arrived = 1..Len(arrived) /\ Len(arrived) \in Nat
      /\ Len(buffered) \in Nat /\ DOMAIN buffered = 1..Len(buffered)
  BY Basics
<1>2. \A j \in 1..Len(out) : out[j].pos = j
  BY DEF IInv, Sent
<1>3. Written = [j \in 1..Len(out) |-> j]
  BY <1>1, <1>2 DEF Written
<1>4. Written \in [1..Len(out) -> Nat]
  BY <1>1, <1>3
<1>5. Written \in Seq(Nat) /\ IsList(Written) /\ Len(Written) = Len(out)
  BY <1>1, <1>4, ListOf
<1>6. ASSUME stage = "open"
      PROVE  Written \o buffered = [p \in DOMAIN arrived |-> p]
  <2>1. /\ Len(out) + Len(buffered) = Len(arrived)
        /\ \A m \in 1..Len(buffered) : buffered[m] = Len(out) + m
    BY <1>1, <1>6 DEF IInv, Held
  <2>2. PICK v, w, s : v = Written /\ w = buffered /\ s = v \o w
    OBVIOUS
  <2>3. IsList(v) /\ IsList(w) /\ Len(v) = Len(out) /\ Len(w) = Len(buffered)
    BY <1>1, <1>5, <2>2
  <2>4. /\ IsList(s) /\ Len(s) = Len(v) + Len(w)
        /\ \A j \in 1..(Len(v) + Len(w)) :
             s[j] = IF j <= Len(v) THEN v[j] ELSE w[j - Len(v)]
    BY <2>2, <2>3, Joined
  <2>5. ASSUME NEW j \in 1..Len(arrived) PROVE s[j] = j
    <3>1. j \in 1..(Len(v) + Len(w))
      BY <2>1, <2>3
    <3>2. CASE j <= Len(out)
      BY <1>1, <1>3, <2>2, <2>3, <2>4, <3>1, <3>2
    <3>3. CASE ~(j <= Len(out))
      <4>1. j - Len(out) \in 1..Len(buffered) /\ Len(out) + (j - Len(out)) = j
        BY <1>1, <2>1, <3>3
      <4>2. s[j] = buffered[j - Len(out)]
        BY <2>2, <2>3, <2>4, <3>1, <3>3
      <4> QED BY <2>1, <4>1, <4>2
    <3> QED BY <3>2, <3>3
  <2>6. PICK S : s \in Seq(S)
    BY <2>4 DEF IsList
  <2>7. s \in [1..Len(s) -> S] /\ Len(s) = Len(arrived)
    BY <2>1, <2>3, <2>4, <2>6, LenProperties
  <2>8. s = [j \in 1..Len(arrived) |-> j]
    BY <2>5, <2>7
  <2> QED BY <1>1, <2>2, <2>8
<1>7. \A p \in (Len(Written) + 1)..Len(arrived) :
        \E k \in DOMAIN arrived[p].calls : Nameless(p, k)
  BY <1>5 DEF IInv, Held
<1>8. Written = [p \in 1..Len(Written) |-> p]
  BY <1>3, <1>5
<1> QED BY <1>6, <1>7, <1>8 DEF InOrder

LEMMA FinishHolds == IInv => FinishTruthful
<1> SUFFICES ASSUME IInv PROVE FinishTruthful
  OBVIOUS
<1>1. ASSUME NEW j \in DOMAIN out,
             out[j].whole, arrived[out[j].pos].finish = "tool_calls"
      PROVE  out[j].finish = IF CallsSeenBy(j) THEN "tool_calls" ELSE "stop"
  <2>1. j \in 1..Len(out)
    BY Basics
  <2>2. out[j].pos = j /\ Tells(out[j], arrived[j], SomeCall(out, j))
    BY <2>1 DEF IInv, Sent
  <2> QED BY <1>1, <2>2 DEF Tells, SomeCall, CallsSeenBy
<1>2. AggregateFinish = "tool_calls" => KeptCalls # {}
  BY DEF AggregateFinish
<1> QED BY <1>1, <1>2 DEF FinishTruthful

LEMMA BuiltinsHold == IInv => NoBuiltinCalls
<1> SUFFICES ASSUME IInv, NEW j \in DOMAIN out, NEW k \in DOMAIN out[j].calls
             PROVE  LET name == NameArrived(out[j].calls[k].index) IN
                    /\ name # NoName
                    /\ name \in OfficialTool =>
                         name \in ToSet(request.tools) \cup ToSet(request.choices)
  BY DEF NoBuiltinCalls
<1>1. PICK i \in Index : i = out[j].calls[k].index /\ decisions[i] = "keep"
  BY WrittenCall
<1>2. PICK name : name = NameArrived(i)
  OBVIOUS
<1>3. name # NoName /\ ~dropToolCall(name)
  BY <1>1, <1>2, KeptName
<1>4. ASSUME name \in OfficialTool
      PROVE  name \in ToSet(request.tools) \cup ToSet(request.choices)
  <2>1. ~IsRenamed(renames, name)
    BY <1>4, WireNotPlain, OfficialAssumption DEF IsRenamed
  <2>2. HasClientTool(renames, name)
    BY <1>3, <1>4, <2>1 DEF dropToolCall
  <2>3. name \in ToSet(Names)
    BY <2>2 DEF HasClientTool, IInv, Shaped
  <2> QED BY <2>3, NamesTyped DEF IInv, TypeOK
<1> QED BY <1>1, <1>2, <1>3, <1>4

LEMMA NamesHold == IInv => NamesRestored
<1> SUFFICES ASSUME IInv, NEW t \in ToSet(request.tools), NEW wire,
                    wire = renames.forward[t]
             PROVE  /\ \A i \in KeptCalls : NameArrived(i) = wire => pending[i].name = t
                    /\ \A j \in DOMAIN out :
                         /\ \A k \in DOMAIN out[j].calls : out[j].calls[k].name # wire
                         /\ out[j].whole =>
                              \A k \in DOMAIN arrived[out[j].pos].calls :
                                LET f == arrived[out[j].pos].calls[k] IN
                                f.name = wire /\ NameArrived(f.index) = wire
                                  /\ decisions[f.index] = "keep"
                                  => k \in DOMAIN out[j].calls /\ out[j].calls[k].name = t
  BY DEF NamesRestored
<1>1. CASE stage = "shaping"
  <2>1. arrived = <<>> /\ DOMAIN arrived = {} /\ out = <<>> /\ DOMAIN out = {}
    BY <1>1 DEF IInv, Held
  <2>2. \A i : NamingFrames(i) = {}
    BY <2>1 DEF NamingFrames
  <2>3. KeptCalls = {}
    BY <2>2 DEF IInv, Gathered, KeptCalls
  <2> QED BY <2>1, <2>3
<1>2. CASE stage # "shaping"
  <2>1. t \in DOMAIN renames.forward
    <3>1. t \in ToSet(Names) /\ DOMAIN Names = 1..Len(Names)
      BY NamesTyped DEF IInv, TypeOK
    <3>2. PICK m \in 1..Len(Names) : t = Names[m]
      BY <3>1 DEF ToSet
    <3> QED BY <1>2, <3>2 DEF IInv, Shaped
  <2>2. /\ wire \in DOMAIN renames.reverse /\ renames.reverse[wire] = t
        /\ Restore(renames, wire) = t
    BY <2>1 DEF IInv, Shaped, Matched, Restore, IsRenamed
  <2>3. wire # NoName
    <3>1. wire[2] # 0
      BY <2>2 DEF IInv, Shaped, Matched
    <3>2. NoName[2] = 0
      BY DEF NoName
    <3> QED BY <3>1, <3>2
  <2>4. ASSUME NEW i \in KeptCalls, NameArrived(i) = wire
        PROVE  pending[i].name = t
    BY <2>2, <2>4 DEF KeptCalls, IInv, Gathered
  <2>5. ASSUME NEW j \in DOMAIN out, NEW k \in DOMAIN out[j].calls
        PROVE  out[j].calls[k].name # wire
    <3>1. PICK name : out[j].calls[k].name = Restore(renames, name)
      BY WrittenCall
    <3>2. CASE IsRenamed(renames, name)
      BY <2>2, <3>1, <3>2, WireNotPlain DEF Restore, IsRenamed
    <3>3. CASE ~IsRenamed(renames, name)
      BY <2>2, <3>1, <3>3 DEF Restore, IsRenamed
    <3> QED BY <3>2, <3>3
  <2>6. ASSUME NEW j \in DOMAIN out, out[j].whole,
               NEW k \in DOMAIN arrived[out[j].pos].calls,
               arrived[out[j].pos].calls[k].name = wire,
               decisions[arrived[out[j].pos].calls[k].index] = "keep"
        PROVE  k \in DOMAIN out[j].calls /\ out[j].calls[k].name = t
    <3>1. j \in 1..Len(out)
      BY Basics
    <3>2. out[j].pos = j /\ Passed(out[j], arrived[j])
      BY <3>1 DEF IInv, Sent
    <3>3. k \in DOMAIN out[j].calls
      BY <2>3, <2>6, <3>2 DEF Passed
    <3> QED BY <2>2, <2>6, <3>2, <3>3, WrittenCall
  <2> QED BY <2>4, <2>5, <2>6
<1> QED BY <1>1, <1>2

LEMMA AggregateHolds == IInv => AggregateWithinStream
<1> SUFFICES ASSUME IInv, NEW i \in KeptCalls PROVE decisions[i] = "keep"
  BY DEF AggregateWithinStream
<1>1. i \in Index /\ NamingFrames(i) # {} /\ KeptByAggregate(NameArrived(i))
  BY DEF KeptCalls, IInv, Gathered
<1>2. ~dropToolCall(NameArrived(i))
  BY <1>1 DEF KeptByAggregate, dropToolCall
<1> QED BY <1>1, <1>2 DEF IInv, Decided

(* Every variable of both paths keeps to the values the code gives it.      *)
THEOREM TypesHold == Spec => []TypeOK
BY Invariance, PTL DEF IInv

(* Stream doubles, overtakes and, while upstream sends, loses no frame; an  *)
(* end costs the client only frames that were held back for a name.         *)
THEOREM FramesInOrder == Spec => []InOrder
<1>1. IInv => InOrder
  BY OrderHolds
<1> QED BY <1>1, Invariance, PTL

(* "tool_calls" comes only after a call, and is not taken from a client     *)
(* that got one.                                                            *)
THEOREM FinishIsTruthful == Spec => []FinishTruthful
<1>1. IInv => FinishTruthful
  BY FinishHolds
<1> QED BY <1>1, Invariance, PTL

(* A call of a built-in tool reaches only a client that named the tool.     *)
THEOREM BuiltinCallsDropped == Spec => []NoBuiltinCalls
<1>1. IInv => NoBuiltinCalls
  BY BuiltinsHold
<1> QED BY <1>1, Invariance, PTL

(* Whatever digests agree, a client gets its own names back and none of     *)
(* upstream's, from Stream and from Aggregate.                              *)
THEOREM NamesComeBack == Spec => []NamesRestored
<1>1. IInv => NamesRestored
  BY NamesHold
<1> QED BY <1>1, Invariance, PTL

(* A call that Aggregate keeps, Stream lets through.                        *)
THEOREM PathsAgree == Spec => []AggregateWithinStream
<1>1. IInv => AggregateWithinStream
  BY AggregateHolds
<1> QED BY <1>1, Invariance, PTL
==============================================================================
