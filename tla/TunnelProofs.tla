---------------------------- MODULE TunnelProofs -----------------------------
(****************************************************************************)
(* What holds of one Dial through any proxy, whatever it sends and however  *)
(* its context, the watcher and the proxy interleave.                       *)
(****************************************************************************)
EXTENDS Tunnel, TLAPS

HttpStage  == {"tls", "wrapTls", "status", "headers", "wrapBuf"}
SocksStage == {"method", "auth", "header", "len", "skip"}

(* Who may close the connection at each stage: as long as the watcher is    *)
(* armed nobody has, and once it has been stopped in time nobody else will. *)
OwnInv ==
  /\ at = "connect" => conn = "none"
  /\ conn = "none" => at \in {"connect", "failed"}
  /\ at \in HttpStage => script.scheme # "socks5"
  /\ at \in SocksStage => script.scheme = "socks5"
  /\ watcher = "armed" /\ at \notin {"failed", "released"} => conn = "open"
  /\ at \in {"clear", "returned", "inUse"} => watcher = "stopped" /\ conn = "open"

DialInv == TunnelTypeOK /\ OwnInv /\ ConnOwned

(* What a script may be, as the proofs use it.                              *)
LEMMA StreamTyped ==
  ASSUME script \in Script
  PROVE  /\ script.scheme \in {"http", "https", "socks5"}
         /\ Len(Stream) \in Nat
         /\ script.scheme = "socks5" => \A k \in 1..Len(Stream) : Stream[k] \in Nat
<1> DEFINE Element == IF script.scheme = "socks5" THEN 0..255 ELSE STRING
<1>1. script.stream \in Seq(Element)
  BY ScriptAssumption
<1>2. Len(script.stream) \in Nat /\ \A k \in 1..Len(script.stream) : script.stream[k] \in Element
  <2> HIDE DEF Element
  <2> QED  BY <1>1
<1>3. script.scheme = "socks5" => Element = 0..255
  OBVIOUS
<1>4. script.scheme \in {"http", "https", "socks5"}
  BY ScriptAssumption
<1>5. ASSUME script.scheme = "socks5", NEW k \in 1..Len(script.stream)
      PROVE  script.stream[k] \in Nat
  <2>1. script.stream[k] \in 0..255
    <3> HIDE DEF Element
    <3> QED  BY <1>2, <1>3, <1>5
  <2>2. \A x : x \in 0..255 => x \in Nat
    OBVIOUS
  <2> QED
    BY <2>1, <2>2
<1> QED
  BY <1>2, <1>4, <1>5 DEF Stream

LEMMA InitOwned == Init => DialInv
<1> SUFFICES ASSUME Init PROVE DialInv
  OBVIOUS
<1>1. script \in Script /\ script.scheme \in {"http", "https", "socks5"} /\ Len(Stream) \in Nat
  BY StreamTyped DEF Init
<1>2. TunnelTypeOK
  <2>1. wrapped \in BOOLEAN /\ deadline \in BOOLEAN
    BY DEF Init
  <2>2. used \in 0..read /\ read \in 0..Len(Stream) /\ skip \in Nat /\ read = used
    BY <1>1 DEF Init
  <2> QED
    BY <1>1, <2>1, <2>2 DEF Init, TunnelTypeOK, Talking
<1>3. OwnInv
  BY <1>1 DEF Init, OwnInv, HttpStage, SocksStage
<1> QED
  BY <1>1, <1>2, <1>3 DEF Init, DialInv, ConnOwned

LEMMA StepOwned == DialInv /\ [Next]_vars => DialInv'
<1> SUFFICES ASSUME DialInv, [Next]_vars PROVE DialInv'
  OBVIOUS
<1> USE DEF DialInv, OwnInv, ConnOwned, TunnelTypeOK, HttpStage, SocksStage, Talking, parsing
<1>1. /\ script.scheme \in {"http", "https", "socks5"} /\ Len(Stream) \in Nat
      /\ script.scheme = "socks5" => \A k \in 1..Len(Stream) : Stream[k] \in Nat
  BY StreamTyped
<1>2. CASE Connected
  BY <1>1, <1>2 DEF Connected, FirstStage, Stream
<1>3. CASE ConnectFails
  BY <1>3 DEF ConnectFails, Moves, Stream
<1>4. CASE ReadFails \/ TimesOut
  BY <1>4 DEF ReadFails, TimesOut, Moves, Stream
<1>5. CASE Reading
  <2>1. CASE TlsHandshake
    BY <2>1 DEF TlsHandshake, Moves, Stream
  <2>2. CASE Fill
    BY <1>1, <2>2 DEF Fill, Moves, Stream
  <2>3. CASE Method
    BY <1>1, <2>3 DEF Method, ReadFull, Moves, Stream
  <2>4. CASE Auth
    BY <1>1, <2>4 DEF Auth, ReadFull, Moves, Stream
  <2>5. CASE Header
    BY <1>1, <2>5 DEF Header, ReadFull, Moves, AddressLength, Stream
  <2>6. CASE NameLength
    <3>1. script.scheme = "socks5"
      BY <2>6 DEF NameLength
    <3>2. Stream[used + 1] \in Nat
      BY <1>1, <2>6, <3>1 DEF NameLength, ReadFull
    <3> QED
      BY <1>1, <2>6, <3>2 DEF NameLength, ReadFull, Byte, Moves, Stream
  <2>7. CASE Skip
    BY <1>1, <2>7 DEF Skip, ReadFull, Rest, Moves, Stream
  <2> QED
    BY <1>5, <2>1, <2>2, <2>3, <2>4, <2>5, <2>6, <2>7 DEF Reading
<1>6. CASE Local
  <2>1. CASE WrapTls
    BY <2>1 DEF WrapTls, Moves, Stream
  <2>2. CASE ReadStatus
    BY <1>1, <2>2 DEF ReadStatus, Moves, Stream
  <2>3. CASE ReadHeader
    BY <1>1, <2>3 DEF ReadHeader, AfterHeaders, Moves, Stream
  <2>4. CASE WrapBuf
    BY <2>4 DEF WrapBuf, Stream
  <2>5. CASE Stop
    BY <2>5 DEF Stop, Moves, Stream
  <2>6. CASE ClearDeadline
    BY <2>6 DEF ClearDeadline, Stream
  <2>7. CASE Fails
    BY <2>7 DEF Fails, Stream
  <2> QED
    BY <1>6, <2>1, <2>2, <2>3, <2>4, <2>5, <2>6, <2>7 DEF Local
<1>7. CASE Handshaken
  BY <1>7 DEF Handshaken, Moves, Stream
<1>8. CASE Released
  BY <1>8 DEF Released, Stream
<1>9. CASE Done \/ Fire \/ WatcherCloses \/ WatcherTears
  BY <1>9 DEF Done, Fire, WatcherCloses, WatcherTears, Running, Stream
<1>10. CASE UNCHANGED vars
  BY <1>10 DEF vars, Stream
<1> QED
  BY <1>2, <1>3, <1>4, <1>5, <1>6, <1>7, <1>8, <1>9, <1>10 DEF Next

LEMMA Owned == Spec => []DialInv
BY InitOwned, StepOwned, PTL DEF Spec

(* Types of Dial's state (dial.go:24-64): no byte is consumed before it has *)
(* been read, and a connection has a watcher from the moment it exists.     *)
THEOREM TunnelTypeCorrect == Spec => []TunnelTypeOK
<1>1. DialInv => TunnelTypeOK
  BY DEF DialInv
<1> QED
  BY Owned, <1>1, PTL

(* A Dial that fails leaves no connection open, and one that succeeds hands *)
(* over an open one that neither the watcher nor the handshake's deadline   *)
(* will end (dial.go:34-63), whenever its context ends.                     *)
THEOREM ConnOwnedAlways == Spec => []ConnOwned
<1>1. DialInv => ConnOwned
  BY DEF DialInv
<1> QED
  BY Owned, <1>1, PTL

------------------------------------------------------------------------------
(* How much of the answer has been consumed at each stage of the parsers.   *)
Begins == {"connect", "tls", "wrapTls", "status", "method"}
AnswerHead == IF Stream[2] = 2 THEN 8 ELSE 6

ReadInv ==
  /\ at \in Begins => used = 0
  /\ at = "headers" => used >= 1 /\ \A k \in 2..used : Stream[k] # "blank"
  /\ at = "wrapBuf" => IsAnswer(script, used)
  /\ at = "auth"   => used = 2 /\ Stream[2] = 2
  /\ at = "header" => used = AnswerHead - 4
  /\ at = "len"    => used = AnswerHead /\ Stream[AnswerHead] = 3
  /\ at = "skip"   => IsAnswer(script, used + skip + 2)
  /\ at \in Begins \cup HttpStage \cup SocksStage => ~wrapped
  /\ at \in {"stop", "clear", "returned", "inUse"} => IsAnswer(script, FirstRead)

AnswerInv == DialInv /\ ReadInv

LEMMA InitAnswer == Init => AnswerInv
<1> SUFFICES ASSUME Init PROVE ReadInv
  BY InitOwned DEF AnswerInv
<1> QED
  BY DEF Init, ReadInv, Begins, HttpStage, SocksStage

(* What the stages after the first line of an HTTP answer need of it.       *)
LEMMA HeadersEnd ==
  ASSUME DialInv, ReadInv, at = "headers", used < read, Stream[used + 1] = "blank"
  PROVE  IsAnswer(script, used + 1)
BY StreamTyped DEF DialInv, OwnInv, TunnelTypeOK, HttpStage, ReadInv, IsAnswer, Stream

LEMMA StepAnswer == AnswerInv /\ [Next]_vars => AnswerInv'
<1> SUFFICES ASSUME AnswerInv, [Next]_vars PROVE ReadInv'
  BY StepOwned DEF AnswerInv
<1>0. DialInv /\ ReadInv /\ DialInv'
  BY StepOwned DEF AnswerInv
<1>1. /\ script.scheme \in {"http", "https", "socks5"} /\ Len(Stream) \in Nat
      /\ script.scheme = "socks5" => \A k \in 1..Len(Stream) : Stream[k] \in Nat
      /\ used \in Nat /\ read \in Nat /\ skip \in Nat /\ used <= read
      /\ (script.scheme = "socks5" => read = used)
      /\ (at \in SocksStage => script.scheme = "socks5")
      /\ (at \in HttpStage => script.scheme # "socks5")
  BY <1>0, StreamTyped DEF DialInv, TunnelTypeOK, OwnInv, Stream
<1> USE <1>0 DEF ReadInv, Begins, HttpStage, SocksStage, parsing, FirstRead
<1>2. CASE Connected
  BY <1>1, <1>2 DEF Connected, FirstStage, Stream
<1>3. CASE ConnectFails
  BY <1>3 DEF ConnectFails, Moves
<1>4. CASE ReadFails \/ TimesOut
  BY <1>4 DEF ReadFails, TimesOut, Moves
<1>5. CASE Reading
  <2>1. CASE TlsHandshake
    BY <2>1 DEF TlsHandshake, Moves
  <2>2. CASE Fill
    BY <1>1, <2>2 DEF Fill, Moves, Stream
  <2>3. CASE Method
    BY <1>1, <2>3 DEF Method, ReadFull, Byte, Moves, Stream, AnswerHead
  <2>4. CASE Auth
    BY <1>1, <2>4 DEF Auth, ReadFull, Byte, Moves, Stream, AnswerHead
  <2>5. CASE Header
    <3>1. /\ used = AnswerHead - 4 /\ AnswerHead \in {6, 8}
          /\ script.scheme = "socks5" /\ ~wrapped
      BY <1>1, <2>5 DEF Header, AnswerHead
    <3>2. /\ used' = AnswerHead /\ read' = AnswerHead
          /\ script' = script /\ wrapped' = wrapped
      BY <1>1, <2>5, <3>1 DEF Header, ReadFull, Moves
    <3>3. CASE Byte(4) \in {1, 4} /\ at' = "skip" /\ skip' = AddressLength[Byte(4)]
      <4>1. AddressLength[Byte(4)] = IF Byte(4) = 1 THEN 4 ELSE 16
        BY <3>3 DEF AddressLength
      <4>2. Byte(4) = script.stream[AnswerHead]
        BY <3>1 DEF Byte, Stream
      <4>3. IsAnswer(script, AnswerHead + skip' + 2)
        BY <3>1, <3>3, <4>1, <4>2 DEF IsAnswer, AnswerHead, Stream
      <4> QED
        BY <3>2, <3>3, <4>3, <3>1 DEF IsAnswer
    <3>4. CASE Byte(4) = 3 /\ at' = "len"
      <4>1. Byte(4) = Stream[AnswerHead]
        BY <3>1 DEF Byte
      <4> QED
        BY <3>1, <3>2, <3>4, <4>1 DEF AnswerHead, Stream
    <3>5. CASE at' = "failing"
      BY <3>5
    <3> QED
      BY <2>5, <3>3, <3>4, <3>5 DEF Header, Moves
  <2>6. CASE NameLength
    BY <1>1, <2>6 DEF NameLength, ReadFull, Byte, Moves, Stream, AnswerHead, IsAnswer
  <2>7. CASE Skip
    BY <1>1, <2>7 DEF Skip, ReadFull, Rest, Moves, Stream
  <2> QED
    BY <1>5, <2>1, <2>2, <2>3, <2>4, <2>5, <2>6, <2>7 DEF Reading
<1>6. CASE Local
  <2>1. CASE WrapTls
    BY <2>1 DEF WrapTls, Moves
  <2>2. CASE ReadStatus
    BY <1>1, <2>2 DEF ReadStatus, Moves, Stream
  <2>3. CASE ReadHeader
    BY <1>1, <2>3, HeadersEnd DEF ReadHeader, AfterHeaders, Moves, Stream
  <2>4. CASE WrapBuf
    BY <1>1, <2>4 DEF WrapBuf
  <2>5. CASE Stop
    BY <2>5 DEF Stop, Moves
  <2>6. CASE ClearDeadline
    BY <2>6 DEF ClearDeadline
  <2>7. CASE Fails
    BY <2>7 DEF Fails
  <2> QED
    BY <1>6, <2>1, <2>2, <2>3, <2>4, <2>5, <2>6, <2>7 DEF Local
<1>7. CASE Handshaken
  BY <1>7 DEF Handshaken, Moves
<1>8. CASE Released
  BY <1>8 DEF Released
<1>9. CASE Done \/ Fire \/ WatcherCloses \/ WatcherTears
  BY <1>9 DEF Done, Fire, WatcherCloses, WatcherTears, Running, Stream, AnswerHead
<1>10. CASE UNCHANGED vars
  BY <1>10 DEF vars, Stream, AnswerHead
<1> QED
  BY <1>2, <1>3, <1>4, <1>5, <1>6, <1>7, <1>8, <1>9, <1>10 DEF Next

(* Whatever answer a proxy gives, in however many packets, the caller reads *)
(* from its end on (dial.go:85-102, 156-231).                               *)
THEOREM TunnelIntactAlways == Spec => []TunnelIntact
<1>1. AnswerInv => TunnelIntact
  BY DEF AnswerInv, ReadInv, TunnelIntact
<1> QED
  BY InitAnswer, StepAnswer, <1>1, PTL DEF Spec
==============================================================================
