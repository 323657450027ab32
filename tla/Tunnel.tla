------------------------------- MODULE Tunnel --------------------------------
(****************************************************************************)
(* Entry.Dial of internal/proxypool and what zen's DialTLSContext or a      *)
(* probe does with the connection: the handshake with an HTTP, HTTPS or     *)
(* SOCKS5 proxy, raced by the context's AfterFunc, which closes the         *)
(* connection from a goroutine of its own.  What the proxy sends is a       *)
(* sequence given beforehand, of lines ("2xx", "4xx", "junk", "header",     *)
(* "blank", "data") or of SOCKS bytes; how much of it a read brings, and    *)
(* whether the proxy goes silent or away, is left open.                     *)
(* D_M is D with the mistake M in it (see ProxyPool).                       *)
(****************************************************************************)
EXTENDS Naturals, Sequences

(* A proxy: its scheme, whether its URL names a user, and all it would send.*)
CONSTANT Script

ASSUME ScriptAssumption ==
  \A s \in Script :
    /\ s.scheme \in {"http", "https", "socks5"} /\ s.user \in BOOLEAN
    /\ s.stream \in Seq(IF s.scheme = "socks5" THEN 0..255 ELSE STRING)

VARIABLES script,    \* the proxy of this call
          at,        \* where Dial, and then its caller, is
          conn,      \* the TCP connection: none, open, closed
          read,      \* how much has been read off the connection
          used,      \* how much of that Dial has consumed
          skip,      \* socks5Connect's skip
          wrapped,   \* Dial returns a bufferedConn
          deadline,  \* the handshake's deadline is set
          ctx,       \* live or done
          watcher    \* unset, armed, stopped, fired (its goroutine is about
                     \* to read `conn` and close it), spent

parsing == <<read, used, skip>>
vars == <<script, at, conn, parsing, wrapped, deadline, ctx, watcher>>

Init ==
  /\ script \in Script
  /\ at = "connect" /\ conn = "none"
  /\ read = 0 /\ used = 0 /\ skip = 0 /\ wrapped = FALSE
  /\ deadline = FALSE /\ ctx = "live" /\ watcher = "unset"

Stream  == script.stream
Talking == {"tls", "status", "headers", "method", "auth", "header", "len", "skip"}

(* A step of Dial's own goroutine that touches nothing but its locals.      *)
Moves(where) ==
  /\ at' = where
  /\ UNCHANGED <<script, conn, wrapped, deadline, ctx, watcher>>

------------------------------------------------------------------------------
(* Dial up to the handshake                                                 *)
FirstStage == CASE script.scheme = "http"   -> "status"
                [] script.scheme = "https"  -> "tls"
                [] script.scheme = "socks5" -> "method"

Connected_NoDeadline ==
  /\ at = "connect"
  /\ at' = FirstStage /\ conn' = "open"
  /\ watcher' = "armed"
  /\ UNCHANGED <<script, parsing, wrapped, deadline, ctx>>

(* AfterFunc and SetDeadline                                                *)
Connected ==
  /\ at = "connect"
  /\ at' = FirstStage /\ conn' = "open"
  /\ watcher' = "armed" /\ deadline' = TRUE
  /\ UNCHANGED <<script, parsing, wrapped, ctx>>

(* net.Dialer has a timeout; no connection, nothing to close.               *)
ConnectFails ==
  /\ at = "connect"
  /\ Moves("failed") /\ UNCHANGED parsing

(* A write or read fails: the proxy is gone, or the watcher has closed the  *)
(* connection.                                                              *)
ReadFails == at \in Talking /\ Moves("failing") /\ UNCHANGED parsing
TimesOut  == deadline /\ ReadFails

(* The error path and the refusals lead here.                               *)
Fails ==
  /\ at = "failing"
  /\ at' = "failed" /\ conn' = "closed"
  /\ UNCHANGED <<script, parsing, wrapped, deadline, ctx, watcher>>

------------------------------------------------------------------------------
(* httpConnect.  The interface `conn`, which the watcher reads, is written  *)
(* in the stages wrapTls and wrapBuf with a value of another type.          *)
TlsHandshake ==
  /\ at = "tls" /\ conn = "open"
  /\ Moves("wrapTls") /\ UNCHANGED parsing

WrapTls == at = "wrapTls" /\ Moves("status") /\ UNCHANGED parsing

(* bufio.Reader reads what there is, also beyond the answer.                *)
Fill ==
  /\ at \in {"status", "headers"} /\ read = used /\ conn = "open"
  /\ \E n \in (read + 1)..Len(Stream) : read' = n
  /\ UNCHANGED <<used, skip>>
  /\ Moves(at)

ReadStatus ==
  /\ at = "status" /\ used < read
  /\ used' = used + 1 /\ UNCHANGED <<read, skip>>
  /\ Moves(IF Stream[used + 1] \in {"2xx", "4xx"} THEN "headers" ELSE "failing")

(* After the blank line: refused, or a tunnel, with or without bytes of it  *)
(* in the reader.                                                           *)
AfterHeaders_DropsReader ==
  IF Stream[1] = "2xx" THEN "stop" ELSE "failing"
AfterHeaders == IF Stream[1] # "2xx" THEN "failing"
                ELSE IF used + 1 < read THEN "wrapBuf" ELSE "stop"

ReadHeader_Eager ==
  /\ at = "headers"
  /\ used' = used + 1 /\ UNCHANGED <<read, skip>>
  /\ Moves("headers")

ReadHeader ==
  /\ at = "headers" /\ used < read
  /\ used' = used + 1 /\ UNCHANGED <<read, skip>>
  /\ Moves(IF Stream[used + 1] = "blank" THEN AfterHeaders ELSE "headers")

WrapBuf ==
  /\ at = "wrapBuf"
  /\ at' = "stop" /\ wrapped' = TRUE
  /\ UNCHANGED <<script, conn, parsing, deadline, ctx, watcher>>

------------------------------------------------------------------------------
(* socks5Connect: io.ReadFull takes exactly n bytes off the connection.     *)
ReadFull(n) ==
  /\ conn = "open" /\ used + n <= Len(Stream)
  /\ used' = used + n /\ read' = used + n

Byte(k) == Stream[used + k]

Method ==
  /\ at = "method" /\ ReadFull(2) /\ UNCHANGED skip
  /\ Moves(IF Byte(1) # 5 THEN "failing"
           ELSE IF Byte(2) = 0 THEN "header"
           ELSE IF Byte(2) = 2 /\ script.user THEN "auth" ELSE "failing")

Auth ==
  /\ at = "auth" /\ ReadFull(2) /\ UNCHANGED skip
  /\ Moves(IF Byte(2) = 0 THEN "header" ELSE "failing")

AddressLength == [type \in {1, 4} |-> IF type = 1 THEN 4 ELSE 16]

Header ==
  /\ at = "header" /\ ReadFull(4)
  /\ LET refused == Byte(1) # 5 \/ Byte(2) # 0
         type    == Byte(4)
     IN  \/ /\ ~refused /\ type \in {1, 4}
            /\ skip' = AddressLength[type] /\ Moves("skip")
         \/ ~refused /\ type = 3 /\ Moves("len") /\ UNCHANGED skip
         \/ (refused \/ type \notin {1, 3, 4}) /\ Moves("failing") /\ UNCHANGED skip

NameLength ==
  /\ at = "len" /\ ReadFull(1)
  /\ skip' = Byte(1)
  /\ Moves("skip")

(* The bound address, and its port.                                         *)
Rest == skip + 2
Skip == at = "skip" /\ ReadFull(Rest) /\ UNCHANGED skip /\ Moves("stop")

------------------------------------------------------------------------------
(* Dial after the handshake.  stop() is false once the watcher's goroutine  *)
(* has been started, whether or not it has come to close the connection.    *)
Stop_Unchecked ==
  /\ at = "stop"
  /\ watcher' = IF watcher = "armed" THEN "stopped" ELSE watcher
  /\ at' = "clear"
  /\ UNCHANGED <<script, conn, parsing, wrapped, deadline, ctx>>

Stop ==
  /\ at = "stop"
  /\ \/ /\ watcher = "armed"
        /\ watcher' = "stopped" /\ at' = "clear"
        /\ UNCHANGED <<script, conn, parsing, wrapped, deadline, ctx>>
     \/ /\ watcher # "armed"
        /\ Moves("failing") /\ UNCHANGED parsing

(* SetDeadline(time.Time{}) fails on a closed connection only.              *)
ClearDeadline ==
  /\ at = "clear" /\ conn = "open"
  /\ at' = "returned" /\ deadline' = FALSE
  /\ UNCHANGED <<script, conn, parsing, wrapped, ctx, watcher>>

(* The caller's TLS handshake with the target succeeds, or the caller       *)
(* closes the connection, as it does in the end.                            *)
Handshaken == at = "returned" /\ Moves("inUse") /\ UNCHANGED parsing
Released ==
  /\ at \in {"returned", "inUse"}
  /\ at' = "released" /\ conn' = "closed"
  /\ UNCHANGED <<script, parsing, wrapped, deadline, ctx, watcher>>

------------------------------------------------------------------------------
(* The context and its AfterFunc                                            *)
Running == at # "crashed"

Done ==
  /\ Running /\ ctx = "live"
  /\ ctx' = "done"
  /\ UNCHANGED <<script, at, conn, parsing, wrapped, deadline, watcher>>

Fire ==
  /\ Running /\ ctx = "done" /\ watcher = "armed"
  /\ watcher' = "fired"
  /\ UNCHANGED <<script, at, conn, parsing, wrapped, deadline, ctx>>

WatcherCloses ==
  /\ Running /\ watcher = "fired"
  /\ watcher' = "spent" /\ conn' = "closed"
  /\ UNCHANGED <<script, at, parsing, wrapped, deadline, ctx>>

(* A data race: the watcher may find `conn` half written, the type of one   *)
(* value with the pointer of the other, and call Close on that.             *)
WatcherTears ==
  /\ watcher = "fired" /\ at \in {"wrapTls", "wrapBuf"}
  /\ at' = "crashed" /\ watcher' = "spent"
  /\ UNCHANGED <<script, conn, parsing, wrapped, deadline, ctx>>

------------------------------------------------------------------------------
Reading == \/ TlsHandshake \/ Fill \/ Method \/ Auth \/ Header \/ NameLength
           \/ Skip
Local == \/ WrapTls \/ ReadStatus \/ ReadHeader \/ WrapBuf
         \/ Stop \/ ClearDeadline \/ Fails

Next == \/ Connected \/ ConnectFails \/ ReadFails \/ TimesOut
        \/ Reading \/ Local \/ Handshaken \/ Released
        \/ Done \/ Fire \/ WatcherCloses \/ WatcherTears

(* The goroutine runs and the two time limits expire.  The proxy need not   *)
(* answer, nor the context end.                                             *)
Fairness == WF_vars(Connected \/ ConnectFails) /\ WF_vars(TimesOut) /\ WF_vars(Local)

Spec == Init /\ [][Next]_vars /\ Fairness

------------------------------------------------------------------------------
(* Types, and what belongs to the stages.                                   *)
TunnelTypeOK ==
  /\ script \in Script
  /\ at \in Talking \cup {"connect", "wrapTls", "wrapBuf", "stop", "clear",
                          "returned", "inUse", "released", "failing", "failed",
                          "crashed"}
  /\ conn \in {"none", "open", "closed"} /\ ctx \in {"live", "done"}
  /\ used \in 0..read /\ read \in 0..Len(Stream) /\ skip \in Nat
  /\ wrapped \in BOOLEAN /\ deadline \in BOOLEAN
  /\ watcher \in {"unset", "armed", "stopped", "fired", "spent"}
  /\ watcher = "unset" <=> conn = "none"
  /\ script.scheme = "socks5" => read = used

(* The first n lines or bytes that s sends are the whole answer of a proxy  *)
(* that opens a tunnel: an HTTP head ends at its first blank line; a SOCKS  *)
(* reply follows the choice of a method, and a verdict on the user if that  *)
(* method is 2, and ends with an address, as long as its type says, and a   *)
(* port.                                                                    *)
IsAnswer(s, n) ==
  IF s.scheme = "socks5"
  THEN LET head == IF s.stream[2] = 2 THEN 8 ELSE 6
           type == s.stream[head]
       IN  \/ type = 1 /\ n = head + 4 + 2
           \/ type = 3 /\ n = head + 1 + s.stream[head + 1] + 2
           \/ type = 4 /\ n = head + 16 + 2
  ELSE /\ n \in 2..Len(s.stream) /\ s.stream[n] = "blank"
       /\ \A k \in 2..(n - 1) : s.stream[k] # "blank"

(* Where the caller's first read begins.                                    *)
FirstRead == IF wrapped THEN used ELSE read

(* The tunnel begins where the proxy's own answer ends: the caller gets all *)
(* bytes of the target and none of the proxy, whatever the answer's length  *)
(* and however it was cut into packets (dial.go:85-102, 156-231).           *)
TunnelIntact ==
  at \in {"clear", "returned", "inUse"} => IsAnswer(script, FirstRead)

(* A connection has one owner.  Dial that fails has closed what it opened;  *)
(* one that returns hands over an open connection that no watcher and no    *)
(* deadline of the handshake will touch, though the context may end then.   *)
ConnOwned ==
  /\ at \in {"failed", "released"} => conn # "open"
  /\ at \in {"returned", "inUse"} =>
       conn = "open" /\ ~deadline /\ watcher = "stopped"

(* Dial returns, whatever the proxy sends or withholds, and when the        *)
(* context never ends (handshakeTimeout, dial.go:18), unless it crashes.    *)
DialReturns == <>(at \in {"returned", "failed", "crashed"})
==============================================================================
