-------------------------- MODULE FrameWriterProofs --------------------------
(****************************************************************************)
(* What holds of FrameWriter for any frames, any size of the buffer and     *)
(* batches of any length.  FlattenSeq is a recursive function; what is      *)
(* needed of it is shown by its least counterexample.                       *)
(****************************************************************************)
EXTENDS FrameWriter, SequenceTheorems, WellFoundedInduction, TLAPS

Byte == {"lead", "cont"}

(* The operator \o, without its definition by places.                       *)
Joint(s, t) == s \o t

(* The messages of this batch.                                              *)
Mine == SubSeq(sent, early + 1, Len(sent))

TypeInv ==
  /\ batch \in Seq(Seq(Byte)) /\ rest \in Seq(Byte) /\ buf \in Seq(Byte)
  /\ sent \in Seq(Seq(Byte)) /\ early \in 0..Len(sent)
  /\ at \in {"reading", "copying", "written"} /\ Len(buf) <= BufSize

(* What the batch consists of is, in this order, in its messages, in the    *)
(* buffer and still to be copied.                                           *)
IInv ==
  /\ TypeInv
  /\ at = "reading" => batch = <<>> /\ buf = <<>> /\ early = Len(sent)
  /\ at # "copying" => rest = <<>>
  /\ Joint(FlattenSeq(Mine), Joint(buf, rest)) = FlattenSeq(batch)
  /\ \A i \in 1..Len(Mine) : Len(Mine[i]) = BufSize

------------------------------------------------------------------------------
(* A set of numbers has a least element.                                    *)
LEMMA LeastNumber ==
  ASSUME NEW T, T \subseteq Nat, T # {}
  PROVE  \E x \in T : \A y \in T : x <= y
<1>1. \E x \in T : \A y \in T : ~ (<<y, x>> \in OpToRel(<, Nat))
  <2> DEFINE R == OpToRel(<, Nat)
  <2>1. IsWellFoundedOn(R, Nat)
    BY NatLessThanWellFounded
  <2> HIDE DEF R
  <2>2. \E x \in T : \A y \in T : ~ (<<y, x>> \in R)
    BY <2>1, WFMin, Zenon
  <2> QED BY <2>2 DEF R
<1>2. ASSUME NEW x \in Nat, NEW y \in Nat, y < x
      PROVE  <<y, x>> \in OpToRel(<, Nat)
  BY <1>2, Zenon DEF OpToRel
<1>3. PICK x \in T : \A y \in T : ~ (<<y, x>> \in OpToRel(<, Nat))
  BY <1>1
<1>4. ASSUME NEW y \in T PROVE ~(y < x)
  BY <1>2, <1>3, Zenon
<1>5. ASSUME NEW y \in T PROVE x <= y
  BY <1>4
<1> QED BY <1>5

LEMMA JointFacts ==
  ASSUME NEW a \in Seq(Byte), NEW b \in Seq(Byte), NEW c \in Seq(Byte)
  PROVE  /\ Joint(a, b) \in Seq(Byte) /\ Len(Joint(a, b)) = Len(a) + Len(b)
         /\ Joint(Joint(a, b), c) = Joint(a, Joint(b, c))
         /\ Joint(a, <<>>) = a /\ Joint(<<>>, a) = a
<1>1. a \o b \in Seq(Byte) /\ Len(a \o b) = Len(a) + Len(b)
  BY ConcatProperties
<1>2. (a \o b) \o c = a \o (b \o c)
  BY ConcatAssociative
<1>3. a \o <<>> = a /\ <<>> \o a = a
  BY ConcatEmptySeq
<1> QED BY <1>1, <1>2, <1>3, Zenon DEF Joint

------------------------------------------------------------------------------
(* f holds what the first i sequences of ss make up, for each i up to n.    *)
Joined(ss, n, f) ==
  f = [i \in 1..n |-> IF i = 1 THEN ss[i] ELSE Joint(f[i - 1], ss[i])]

LEMMA JoinedAt ==
  ASSUME NEW ss, NEW n \in Nat, NEW f, Joined(ss, n, f), NEW i \in 1..n
  PROVE  f[i] = IF i = 1 THEN ss[i] ELSE Joint(f[i - 1], ss[i])
BY DEF Joined

LEMMA JoinedExists ==
  ASSUME NEW ss, NEW n \in Nat
  PROVE  \E f : Joined(ss, n, f)
<1> DEFINE T == {k \in Nat : ~\E f : Joined(ss, k, f)}
<1> SUFFICES ASSUME T # {} PROVE FALSE
  OBVIOUS
<1>1. PICK m \in T : \A y \in T : m <= y
  BY LeastNumber
<1>2. m # 0
  <2> DEFINE f == [i \in 1..0 |-> ss[i]]
  <2>1. f = [i \in 1..0 |-> IF i = 1 THEN ss[i] ELSE Joint(f[i - 1], ss[i])]
    OBVIOUS
  <2> HIDE DEF f
  <2>2. Joined(ss, 0, f)
    BY <2>1 DEF Joined
  <2> QED BY <2>2
<1>3. m \in Nat /\ m - 1 \in Nat /\ m - 1 \notin T
  BY <1>1, <1>2
<1>4. PICK g : Joined(ss, m - 1, g)
  BY <1>3
<1> DEFINE top == IF m = 1 THEN ss[m] ELSE Joint(g[m - 1], ss[m])
           f   == [i \in 1..m |-> IF i = m THEN top ELSE g[i]]
<1>5. ASSUME NEW i \in 1..m
      PROVE  f[i] = IF i = 1 THEN ss[i] ELSE Joint(f[i - 1], ss[i])
  <2>1. CASE i = m
    BY <1>3, <2>1
  <2>2. CASE i # m
    <3>1. i \in 1..(m - 1)
      BY <1>3, <2>2
    <3>2. g[i] = IF i = 1 THEN ss[i] ELSE Joint(g[i - 1], ss[i])
      BY <1>3, <1>4, <3>1, JoinedAt
    <3>3. f[i] = g[i] /\ (i # 1 => i - 1 \in 1..m /\ f[i - 1] = g[i - 1])
      BY <1>3, <3>1
    <3> QED BY <3>2, <3>3
  <2> QED BY <2>1, <2>2
<1>6. f = [i \in 1..m |-> f[i]]
  OBVIOUS
<1> HIDE DEF f
<1>7. Joined(ss, m, f)
  BY <1>5, <1>6 DEF Joined
<1> QED BY <1>7

(* What comes after these sequences does not matter.                        *)
LEMMA JoinedAgree ==
  ASSUME NEW n \in Nat, NEW ss, NEW f, Joined(ss, n, f),
         NEW tt, NEW g, Joined(tt, n + 1, g), \A i \in 1..n : ss[i] = tt[i]
  PROVE  \A i \in 1..n : f[i] = g[i]
<1> DEFINE T == {i \in 1..n : f[i] # g[i]}
<1> SUFFICES ASSUME T # {} PROVE FALSE
  OBVIOUS
<1>0. T \subseteq Nat
  OBVIOUS
<1>1. PICK i \in T : \A y \in T : i <= y
  BY <1>0, LeastNumber
<1>2. n + 1 \in Nat /\ i \in 1..n /\ i \in 1..(n + 1) /\ f[i] # g[i]
  BY <1>1
<1>3. f[i] = IF i = 1 THEN ss[i] ELSE Joint(f[i - 1], ss[i])
  BY <1>2, JoinedAt
<1>4. g[i] = IF i = 1 THEN tt[i] ELSE Joint(g[i - 1], tt[i])
  BY <1>2, JoinedAt
<1>5. i # 1 => i - 1 \in 1..n /\ i - 1 \notin T
  BY <1>1, <1>2
<1> QED BY <1>2, <1>3, <1>4, <1>5

LEMMA FlattenIs ==
  ASSUME NEW ss \in Seq(Seq(Byte)), ss # <<>>
  PROVE  \E f : Joined(ss, Len(ss), f) /\ FlattenSeq(ss) = f[Len(ss)]
<1> DEFINE h == CHOOSE f :
             f = [i \in 1..Len(ss) |-> IF i = 1 THEN ss[i]
                                       ELSE Joint(f[i - 1], ss[i])]
<1>1. Len(ss) \in Nat /\ Len(ss) # 0
  OBVIOUS
<1>2. PICK g : Joined(ss, Len(ss), g)
  BY <1>1, JoinedExists
<1>3. h = [i \in 1..Len(ss) |-> IF i = 1 THEN ss[i] ELSE Joint(h[i - 1], ss[i])]
  BY <1>2, Zenon DEF Joined
<1>4. FlattenSeq(ss) = h[Len(ss)]
  BY <1>1, Zenon DEF FlattenSeq, Joint
<1> QED BY <1>3, <1>4 DEF Joined

LEMMA FlattenEmpty == FlattenSeq(<<>>) = <<>>
BY DEF FlattenSeq

(* The messages joined are bytes, one more message adds its own.            *)
LEMMA FlattenType ==
  ASSUME NEW ss \in Seq(Seq(Byte))
  PROVE  FlattenSeq(ss) \in Seq(Byte)
<1>1. CASE ss = <<>>
  BY <1>1, FlattenEmpty, EmptySeq, Zenon
<1>2. CASE ss # <<>>
  <2>1. PICK f : Joined(ss, Len(ss), f) /\ FlattenSeq(ss) = f[Len(ss)]
    BY <1>2, FlattenIs
  <2>2. /\ Len(ss) \in Nat /\ Len(ss) # 0
        /\ \A i \in 1..Len(ss) : ss[i] \in Seq(Byte)
    BY <1>2
  <2> DEFINE n == Len(ss)
             T == {i \in 1..n : f[i] \notin Seq(Byte)}
  <2> HIDE DEF n
  <2>3. ASSUME T # {} PROVE FALSE
    <3>0. T \subseteq Nat
      BY <2>2 DEF n
    <3>1. PICK i \in T : \A y \in T : i <= y
      BY <2>3, <3>0, LeastNumber
    <3>2. i \in 1..n /\ f[i] \notin Seq(Byte) /\ n \in Nat
      BY <2>2, <3>1 DEF n
    <3>3. f[i] = IF i = 1 THEN ss[i] ELSE Joint(f[i - 1], ss[i])
      BY <2>1, <3>2, JoinedAt DEF n
    <3>4. ss[i] \in Seq(Byte)
      BY <2>2, <3>2 DEF n
    <3>5. CASE i = 1
      BY <3>2, <3>3, <3>4, <3>5
    <3>6. CASE i # 1
      <4>1. i - 1 \in 1..n /\ i - 1 \notin T
        BY <3>1, <3>2, <3>6
      <4>2. f[i - 1] \in Seq(Byte)
        BY <4>1
      <4>3. Joint(f[i - 1], ss[i]) \in Seq(Byte)
        BY <3>4, <4>2, JointFacts
      <4> QED BY <3>2, <3>3, <3>6, <4>3
    <3> QED BY <3>5, <3>6
  <2>4. n \in 1..n /\ n \notin T
    BY <2>2, <2>3 DEF n
  <2>5. f[n] \in Seq(Byte)
    BY <2>4
  <2> QED BY <2>1, <2>5 DEF n
<1> QED BY <1>1, <1>2

LEMMA FlattenAppend ==
  ASSUME NEW ss \in Seq(Seq(Byte)), NEW x \in Seq(Byte)
  PROVE  FlattenSeq(Append(ss, x)) = Joint(FlattenSeq(ss), x)
<1> DEFINE tt == Append(ss, x)
           n  == Len(ss)
<1>1. tt \in Seq(Seq(Byte)) /\ tt # <<>> /\ Len(tt) = n + 1 /\ n \in Nat
  BY EmptySeq, AppendProperties
<1>2. tt[n + 1] = x /\ \A i \in 1..n : ss[i] = tt[i]
  OBVIOUS
<1> HIDE DEF tt, n
<1>3. PICK g : Joined(tt, n + 1, g) /\ FlattenSeq(tt) = g[n + 1]
  BY <1>1, FlattenIs
<1>4. n + 1 \in Nat /\ n + 1 \in 1..(n + 1) /\ (n + 1) - 1 = n
  BY <1>1
<1>5. g[n + 1] = IF n + 1 = 1 THEN tt[n + 1]
                 ELSE Joint(g[(n + 1) - 1], tt[n + 1])
  BY <1>3, <1>4, JoinedAt
<1>6. CASE ss = <<>>
  <2>1. n = 0 /\ FlattenSeq(ss) = <<>>
    BY <1>6, FlattenEmpty, EmptySeq DEF n
  <2>2. g[n + 1] = x
    BY <1>2, <1>5, <2>1
  <2>3. Joint(<<>>, x) = x
    BY JointFacts
  <2> QED BY <1>3, <2>1, <2>2, <2>3 DEF tt
<1>7. CASE ss # <<>>
  <2>1. n # 0
    BY <1>7, EmptySeq DEF n
  <2>2. PICK f : Joined(ss, n, f) /\ FlattenSeq(ss) = f[n]
    BY <1>7, FlattenIs DEF n
  <2>3. \A i \in 1..n : f[i] = g[i]
    <3>1. n \in Nat /\ Joined(ss, n, f) /\ Joined(tt, n + 1, g)
      BY <1>1, <1>3, <2>2
    <3>2. \A i \in 1..n : ss[i] = tt[i]
      BY <1>2
    <3> QED BY <3>1, <3>2, JoinedAgree
  <2>4. n + 1 # 1 /\ n \in 1..n
    BY <1>1, <2>1
  <2>5. g[n + 1] = Joint(g[n], x)
    BY <1>2, <1>4, <1>5, <2>4
  <2> QED BY <1>3, <2>2, <2>3, <2>4, <2>5 DEF tt
<1> QED BY <1>6, <1>7

------------------------------------------------------------------------------
(* What one more message does to those since e, and where two parts of one  *)
(* text meet.                                                               *)
LEMMA MineTyped ==
  ASSUME NEW s \in Seq(Seq(Byte)), NEW e \in 0..Len(s)
  PROVE  /\ SubSeq(s, e + 1, Len(s)) \in Seq(Seq(Byte))
         /\ Len(SubSeq(s, e + 1, Len(s))) = Len(s) - e
         /\ \A i \in 1..(Len(s) - e) : SubSeq(s, e + 1, Len(s))[i] = s[e + i]
<1>1. /\ Len(s) \in Nat /\ e + 1 \in Int /\ Len(s) \in Int /\ e \in Nat
      /\ \A i \in (e + 1)..Len(s) : s[i] \in Seq(Byte)
  OBVIOUS
<1>2. /\ SubSeq(s, e + 1, Len(s)) \in Seq(Seq(Byte))
      /\ Len(SubSeq(s, e + 1, Len(s))) =
           IF e + 1 <= Len(s) THEN Len(s) - (e + 1) + 1 ELSE 0
      /\ \A i \in 1..(Len(s) - (e + 1) + 1) :
           SubSeq(s, e + 1, Len(s))[i] = s[(e + 1) + i - 1]
  BY <1>1, SubSeqProperties
<1>3. /\ Len(s) - (e + 1) + 1 = Len(s) - e
      /\ ~(e + 1 <= Len(s)) => Len(s) - e = 0
  BY <1>1
<1>4. \A i \in 1..(Len(s) - e) : (e + 1) + i - 1 = e + i
  BY <1>1
<1> QED BY <1>2, <1>3, <1>4

LEMMA MineAppend ==
  ASSUME NEW s \in Seq(Seq(Byte)), NEW e \in 0..Len(s), NEW z \in Seq(Byte)
  PROVE  SubSeq(Append(s, z), e + 1, Len(Append(s, z))) =
           Append(SubSeq(s, e + 1, Len(s)), z)
<1> DEFINE n == Len(s)
           t == Append(s, z)
           a == SubSeq(t, e + 1, Len(t))
           b == SubSeq(s, e + 1, n)
<1>1. /\ t \in Seq(Seq(Byte)) /\ Len(t) = n + 1 /\ n \in Nat /\ e \in 0..n
      /\ t[n + 1] = z /\ \A i \in 1..n : t[i] = s[i]
  OBVIOUS
<1>2. /\ b \in Seq(Seq(Byte)) /\ Len(b) = n - e
      /\ \A i \in 1..(n - e) : b[i] = s[e + i]
  BY MineTyped
<1> HIDE DEF t
<1>3. /\ a \in Seq(Seq(Byte)) /\ Len(a) = n + 1 - e
      /\ \A i \in 1..(n + 1 - e) : a[i] = t[e + i]
  <2>1. e \in 0..Len(t)
    BY <1>1
  <2> QED BY <1>1, <2>1, MineTyped
<1> HIDE DEF a, b, n
<1>4. Append(b, z) \in Seq(Seq(Byte)) /\ Len(Append(b, z)) = n - e + 1
  <2>1. b \in Seq(Seq(Byte)) /\ Len(b) = n - e
    BY <1>2
  <2>2. Append(b, z) \in Seq(Seq(Byte)) /\ Len(Append(b, z)) = Len(b) + 1
    BY <2>1, AppendProperties
  <2> QED BY <2>1, <2>2
<1>5. ASSUME NEW i \in 1..Len(a) PROVE a[i] = Append(b, z)[i]
  <2>1. CASE i <= n - e
    <3>1. i \in 1..(n - e) /\ i \in 1..(n + 1 - e) /\ e + i \in 1..n
      BY <1>1, <1>3, <2>1
    <3>2. Append(b, z)[i] = b[i]
      BY <1>2, <3>1
    <3> QED BY <1>1, <1>2, <1>3, <3>1, <3>2
  <2>2. CASE ~(i <= n - e)
    <3>1. i = n - e + 1 /\ i \in 1..(n + 1 - e) /\ e + i = n + 1
      BY <1>1, <1>3, <2>2
    <3>2. Append(b, z)[i] = z
      BY <1>2, <3>1
    <3> QED BY <1>1, <1>3, <3>1, <3>2
  <2> QED BY <2>1, <2>2
<1>6. Len(a) = Len(Append(b, z))
  BY <1>1, <1>3, <1>4
<1>7. a = Append(b, z)
  BY <1>3, <1>4, <1>5, <1>6, SeqEqual
<1> QED BY <1>7 DEF a, b, n, t

LEMMA CutAt ==
  ASSUME NEW r \in Seq(Byte), NEW k \in Nat, k < Len(r)
  PROVE  /\ SubSeq(r, 1, k) \in Seq(Byte) /\ Len(SubSeq(r, 1, k)) = k
         /\ SubSeq(r, k + 1, Len(r)) \in Seq(Byte)
         /\ Joint(SubSeq(r, 1, k), SubSeq(r, k + 1, Len(r))) = r
<1>1. /\ Len(r) \in Nat /\ 1 \in 1..(Len(r) + 1) /\ k \in (1 - 1)..Len(r)
      /\ Len(r) \in k..Len(r)
  OBVIOUS
<1>2. SubSeq(r, 1, k) \o SubSeq(r, k + 1, Len(r)) = SubSeq(r, 1, Len(r))
  BY <1>1, ConcatAdjacentSubSeq
<1>3. SubSeq(r, 1, Len(r)) = r
  BY SubSeqFull
<1>4. SubSeq(r, 1, k) \in Seq(Byte) /\ Len(SubSeq(r, 1, k)) = k
  BY <1>1
<1>5. SubSeq(r, k + 1, Len(r)) \in Seq(Byte)
  BY <1>1
<1>6. Joint(SubSeq(r, 1, k), SubSeq(r, k + 1, Len(r))) = r
  BY <1>2, <1>3, Zenon DEF Joint
<1> QED BY <1>4, <1>5, <1>6

------------------------------------------------------------------------------
(* What an action leaves: types, that the batch is accounted for, and that  *)
(* what is out is full.                                                     *)
LEMMA FrameIsBytes ==
  ASSUME NEW f \in Frames PROVE f \in Seq(Byte)
BY FramesAssumption DEF Byte

LEMMA MinePart ==
  ASSUME TypeInv
  PROVE  /\ Mine \in Seq(Seq(Byte)) /\ FlattenSeq(Mine) \in Seq(Byte)
         /\ FlattenSeq(batch) \in Seq(Byte)
BY MineTyped, FlattenType DEF TypeInv, Mine

LEMMA InitInv == Init => IInv
<1> SUFFICES ASSUME Init PROVE IInv
  OBVIOUS
<1>1. /\ frames = <<>> /\ batch = <<>> /\ rest = <<>> /\ buf = <<>>
      /\ sent = <<>> /\ early = 0 /\ at = "reading" /\ Len(sent) = 0
  BY EmptySeq DEF Init
<1>2. TypeInv
  <2>1. <<>> \in Seq(Seq(Byte)) /\ <<>> \in Seq(Byte) /\ Len(<<>>) = 0
    BY EmptySeq
  <2> QED BY <1>1, <2>1, BufAssumption DEF TypeInv
<1>3. Mine = <<>>
  BY <1>1, SubSeqEmpty DEF Mine
<1>4. Joint(<<>>, Joint(<<>>, <<>>)) = <<>>
  BY JointFacts, EmptySeq, Zenon
<1> QED BY <1>1, <1>2, <1>3, <1>4, FlattenEmpty, EmptySeq DEF IInv

LEMMA WriteInv ==
  ASSUME IInv, NEW f \in Frames, WriteString(f)
  PROVE  IInv'
<1>1. /\ TypeInv /\ rest = <<>> /\ f \in Seq(Byte)
      /\ batch' = Append(batch, f) /\ rest' = f /\ at' = "copying"
      /\ buf' = buf /\ sent' = sent /\ early' = early
  BY FrameIsBytes DEF IInv, WriteString
<1>2. TypeInv'
  BY <1>1 DEF TypeInv
<1>3. Mine' = Mine
  BY <1>1 DEF Mine
<1> DEFINE F == FlattenSeq(Mine)
<1>4. F \in Seq(Byte) /\ buf \in Seq(Byte) /\ batch \in Seq(Seq(Byte))
  BY <1>1, MinePart DEF TypeInv
<1>5. Joint(F, buf) = FlattenSeq(batch)
  BY <1>1, <1>4, JointFacts DEF IInv
<1>6. FlattenSeq(batch') = Joint(Joint(F, buf), f)
  BY <1>1, <1>4, <1>5, FlattenAppend
<1>7. Joint(F, Joint(buf, f)) = Joint(Joint(F, buf), f)
  BY <1>1, <1>4, JointFacts
<1> QED BY <1>1, <1>2, <1>3, <1>6, <1>7 DEF IInv

LEMMA OverflowInv ==
  ASSUME IInv, Overflow
  PROVE  IInv'
<1> DEFINE k     == BufSize - Len(buf)
           front == SubSeq(rest, 1, k)
           back  == SubSeq(rest, k + 1, Len(rest))
           z     == Joint(buf, front)
           F     == FlattenSeq(Mine)
<1>1. /\ TypeInv /\ at' = at /\ at = "copying" /\ k < Len(rest)
      /\ sent' = Append(sent, z) /\ buf' = <<>> /\ rest' = back
      /\ batch' = batch /\ early' = early
  <2>1. k \in Nat /\ Len(rest) \in Nat
    BY BufAssumption DEF IInv, TypeInv
  <2> QED BY <2>1 DEF IInv, Overflow, Available, Joint
<1>2. /\ buf \in Seq(Byte) /\ rest \in Seq(Byte) /\ k \in Nat
      /\ sent \in Seq(Seq(Byte)) /\ early \in 0..Len(sent)
      /\ F \in Seq(Byte) /\ Mine \in Seq(Seq(Byte))
      /\ Len(buf) \in Nat /\ BufSize \in Nat
  BY <1>1, MinePart, BufAssumption DEF TypeInv
<1>3. /\ front \in Seq(Byte) /\ Len(front) = k /\ back \in Seq(Byte)
      /\ Joint(front, back) = rest
  BY <1>1, <1>2, CutAt
<1> HIDE DEF front, back
<1>4. z \in Seq(Byte) /\ Len(z) = BufSize
  <2>1. z \in Seq(Byte) /\ Len(z) = Len(buf) + Len(front)
    BY <1>2, <1>3, JointFacts
  <2> QED BY <1>2, <1>3, <2>1
<1>5. Mine' = Append(Mine, z)
  BY <1>1, <1>2, <1>4, MineAppend DEF Mine
<1>6. TypeInv'
  <2>1. /\ Append(sent, z) \in Seq(Seq(Byte))
        /\ Len(Append(sent, z)) = Len(sent) + 1
    BY <1>2, <1>4
  <2>2. <<>> \in Seq(Byte) /\ Len(<<>>) = 0
    BY EmptySeq
  <2> HIDE DEF z
  <2> QED BY <1>1, <1>2, <1>3, <2>1, <2>2 DEF TypeInv
<1>7. FlattenSeq(Mine') = Joint(F, z)
  BY <1>2, <1>4, <1>5, FlattenAppend
<1>8. Joint(Joint(F, z), Joint(<<>>, back)) = Joint(F, Joint(buf, rest))
  <2>1. Joint(<<>>, back) = back
    BY <1>3, JointFacts
  <2>2. Joint(z, back) = Joint(buf, Joint(front, back))
    BY <1>2, <1>3, JointFacts
  <2> HIDE DEF z, F
  <2>3. Joint(Joint(F, z), back) = Joint(F, Joint(z, back))
    BY <1>2, <1>3, <1>4, JointFacts
  <2> QED BY <1>3, <2>1, <2>2, <2>3
<1>9. \A i \in 1..Len(Mine') : Len(Mine'[i]) = BufSize
  <2> HIDE DEF z
  <2>1. Len(Append(Mine, z)) = Len(Mine) + 1 /\ Len(Mine) \in Nat
    BY <1>2, <1>4
  <2>2. ASSUME NEW i \in 1..(Len(Mine) + 1)
        PROVE  Len(Append(Mine, z)[i]) = BufSize
    <3>1. CASE i \in 1..Len(Mine)
      BY <1>2, <1>4, <3>1 DEF IInv
    <3>2. CASE i = Len(Mine) + 1
      BY <1>2, <1>4, <3>2
    <3> QED BY <2>1, <3>1, <3>2
  <2> QED BY <1>5, <2>1, <2>2
<1> QED BY <1>1, <1>6, <1>7, <1>8, <1>9 DEF IInv

LEMMA CopyInv ==
  ASSUME IInv, Copy
  PROVE  IInv'
<1>1. /\ TypeInv /\ at' = "written" /\ Len(rest) <= BufSize - Len(buf)
      /\ buf' = Joint(buf, rest) /\ rest' = <<>>
      /\ batch' = batch /\ sent' = sent /\ early' = early
  BY DEF IInv, Copy, Available, Joint
<1>2. /\ buf \in Seq(Byte) /\ rest \in Seq(Byte)
      /\ Len(buf) \in Nat /\ Len(rest) \in Nat /\ BufSize \in Nat
  BY <1>1, BufAssumption DEF TypeInv
<1>3. Joint(buf, rest) \in Seq(Byte) /\ Len(Joint(buf, rest)) <= BufSize
  <2>1. /\ Joint(buf, rest) \in Seq(Byte)
        /\ Len(Joint(buf, rest)) = Len(buf) + Len(rest)
    BY <1>2, JointFacts
  <2> QED BY <1>1, <1>2, <2>1
<1>4. TypeInv'
  BY <1>1, <1>3, EmptySeq DEF TypeInv
<1>5. Joint(Joint(buf, rest), <<>>) = Joint(buf, rest)
  BY <1>3, JointFacts
<1>6. Mine' = Mine
  BY <1>1 DEF Mine
<1> QED BY <1>1, <1>4, <1>5, <1>6 DEF IInv

(* After a flush: the messages of the batch that ends, of which only the    *)
(* last may be short.                                                       *)
LEMMA FlushSends ==
  ASSUME IInv, Flush
  PROVE  LET mine == SubSeq(sent', early + 1, Len(sent'))
         IN  /\ sent' \in Seq(Seq(Byte)) /\ FlattenSeq(mine) = FlattenSeq(batch)
             /\ \A i \in 1..(Len(mine) - 1) : Len(mine[i]) = BufSize
<1> DEFINE F == FlattenSeq(Mine)
           mine == SubSeq(sent', early + 1, Len(sent'))
<1> SUFFICES /\ sent' \in Seq(Seq(Byte)) /\ FlattenSeq(mine) = FlattenSeq(batch)
             /\ \A i \in 1..(Len(mine) - 1) : Len(mine[i]) = BufSize
  OBVIOUS
<1>1. /\ TypeInv /\ rest = <<>> /\ F \in Seq(Byte) /\ Mine \in Seq(Seq(Byte))
      /\ buf \in Seq(Byte) /\ sent \in Seq(Seq(Byte)) /\ early \in 0..Len(sent)
      /\ Len(Mine) \in Nat
  BY MinePart DEF IInv, Flush, TypeInv
<1>2. Joint(F, buf) = FlattenSeq(batch)
  BY <1>1, JointFacts DEF IInv
<1>3. CASE buf = <<>>
  <2>1. sent' = sent /\ mine = Mine
    BY <1>3 DEF Flush, Mine
  <2>2. Joint(F, <<>>) = F
    BY <1>1, JointFacts
  <2>3. \A i \in 1..(Len(Mine) - 1) : Len(Mine[i]) = BufSize
    BY <1>1 DEF IInv
  <2> HIDE DEF mine
  <2> QED BY <1>1, <1>2, <1>3, <2>1, <2>2, <2>3
<1>4. CASE buf # <<>>
  <2>1. sent' = Append(sent, buf)
    BY <1>4 DEF Flush
  <2>2. mine = Append(Mine, buf)
    BY <1>1, <2>1, MineAppend DEF Mine
  <2>3. FlattenSeq(mine) = Joint(F, buf)
    BY <1>1, <2>2, FlattenAppend
  <2>4. \A i \in 1..(Len(mine) - 1) : Len(mine[i]) = BufSize
    <3>1. Len(mine) - 1 = Len(Mine)
      BY <1>1, <2>2
    <3>2. \A i \in 1..Len(Mine) : Append(Mine, buf)[i] = Mine[i]
      BY <1>1, AppendProperties
    <3> QED BY <2>2, <3>1, <3>2 DEF IInv
  <2>5. sent' \in Seq(Seq(Byte))
    BY <1>1, <2>1
  <2> QED BY <1>2, <2>3, <2>4, <2>5
<1> QED BY <1>3, <1>4

LEMMA FlushInv ==
  ASSUME IInv, Flush
  PROVE  IInv'
<1>1. /\ TypeInv /\ at' = "reading" /\ buf' = <<>> /\ batch' = <<>>
      /\ rest = <<>> /\ rest' = rest /\ early' = Len(sent')
  BY DEF IInv, Flush
<1>2. sent' \in Seq(Seq(Byte)) /\ Len(sent') \in Nat
  BY FlushSends
<1>3. <<>> \in Seq(Byte) /\ <<>> \in Seq(Seq(Byte)) /\ Len(<<>>) = 0
  BY EmptySeq
<1>4. TypeInv'
  BY <1>1, <1>2, <1>3, BufAssumption DEF TypeInv
<1>5. Mine' = <<>>
  BY <1>1, <1>2, SubSeqEmpty DEF Mine
<1>6. Joint(<<>>, Joint(<<>>, <<>>)) = <<>>
  BY <1>3, JointFacts, Zenon
<1> QED BY <1>1, <1>3, <1>4, <1>5, <1>6, FlattenEmpty DEF IInv

------------------------------------------------------------------------------
(* What has been written is sent, in the buffer or about to be copied, and  *)
(* every message of an open batch is full.                                  *)
THEOREM Invariance == Spec => []IInv
<1>1. ASSUME IInv, [Next]_vars PROVE IInv'
  <2>1. CASE UNCHANGED vars
    BY <1>1, <2>1 DEF IInv, TypeInv, Mine, vars
  <2>2. CASE Next
    BY <1>1, <2>2, WriteInv, OverflowInv, CopyInv, FlushInv DEF Next
  <2> QED BY <1>1, <2>1, <2>2
<1> QED BY <1>1, InitInv, PTL DEF Spec

(* All that is written between two flushes is out at the second, in order,  *)
(* and frames are cut only in a batch that exceeds the buffer.              *)
THEOREM BatchesAreWhole == Spec => BatchesWhole
<1> DEFINE Whole ==
      at = "written" /\ at' = "reading" =>
        LET mine == SubSeq(sent', early + 1, Len(sent')) IN
        /\ FlattenSeq(mine) = FlattenSeq(batch)
        /\ \A i \in 1..(Len(mine) - 1) : Len(mine[i]) = BufSize
<1>1. ASSUME IInv, [Next]_vars PROVE Whole
  <2> SUFFICES ASSUME at = "written", at' = "reading" PROVE Whole
    OBVIOUS
  <2>1. Flush
    BY <1>1 DEF Next, WriteString, Overflow, Copy, vars
  <2> QED BY <1>1, <2>1, FlushSends
<1>2. IInv /\ [Next]_vars => [Whole]_vars
  BY <1>1
<1> QED BY <1>2, Invariance, PTL DEF Spec, BatchesWhole
==============================================================================
