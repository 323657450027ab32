----------------------------- MODULE ChatService -----------------------------
(****************************************************************************)
(* internal/chat on top of the pool: UpstreamWithSession's loop over nodes, *)
(* the direct connection when the pool has none, and Complete with its      *)
(* second call after an empty answer.  The pool's actions are ProxyPool's;  *)
(* Report is made by the loop with what upstream answered.  `pc` idle means *)
(* that no call of Upstream is under way; `call` none, that the goroutine   *)
(* has not come here, or has come for something else (see HttpServer).      *)
(* D_M is D with the mistake M in it (see ProxyPool).                       *)
(****************************************************************************)
EXTENDS ProxyPool

CONSTANT Attempts    \* cfg.ProxyMaxAttempts, at least 1

ASSUME AttemptsAssumption == Attempts \in Nat \ {0}

VARIABLES call,       \* none, or which call of Upstream this request is in
          tries,      \* the loop's i
          last,       \* resp or err of the latest attempt
          cancelled,  \* requests whose context is done: the client has left
          body,       \* what is unread of resp.Body: none, open or stalled
          result      \* Complete's first answer, kept over its second call

chatVars == <<call, tries, last, cancelled, body, result>>
allVars  == <<vars, chatVars>>

(* What Aggregate makes of a body: which call of Upstream brought it, and   *)
(* what hasContent says of it.                                              *)
Answer   == [of : {"first", "nudge"}, content : BOOLEAN]
NoAnswer == [of |-> "none", content |-> FALSE]

ChatInit ==
  /\ Init
  /\ call  = [c \in Caller |-> "none"]
  /\ tries = [c \in Caller |-> 0]
  /\ last  = [c \in Caller |-> "none"]
  /\ cancelled = {}
  /\ body   = [c \in Caller |-> "none"]
  /\ result = [c \in Caller |-> NoAnswer]

Starts(c, which) ==
  /\ call'  = [call EXCEPT ![c] = which]
  /\ tries' = [tries EXCEPT ![c] = 0]
  /\ last'  = [last EXCEPT ![c] = "none"]

Accept(c) ==
  /\ call[c] = "none"
  /\ Begin(c)
  /\ Starts(c, "first")
  /\ UNCHANGED <<cancelled, body, result>>

(* The client goes away while its request is being served.                  *)
Cancel(c) ==
  /\ call[c] # "none" /\ c \notin cancelled
  /\ cancelled' = cancelled \cup {c}
  /\ UNCHANGED <<vars, call, tries, last, body, result>>

(* Upstream never ends the body: it falls silent within it, or sends for    *)
(* ever.  Nothing limits that (zen/client.go:118-119); the request's        *)
(* context does, when the client leaves.                                    *)
Stalls(c) ==
  /\ body[c] = "open"
  /\ body' = [body EXCEPT ![c] = "stalled"]
  /\ UNCHANGED <<vars, call, tries, last, cancelled, result>>

(* A read of the body comes to an end, or to an error.                      *)
Over(c) == body[c] # "stalled" \/ c \in cancelled

(* retryableProxyStatus                                                     *)
Retryable_OtherToo == {"quota", "failure", "other"}
Retryable == {"quota", "failure"}
MoreTries(c) == tries[c] + 1 < Attempts

(* Chat returned err: reported as a 502.  A cancelled context makes every   *)
(* attempt end here.                                                        *)
TransportFails_NotCounted(c) ==
  /\ call[c] # "none" /\ pc[c] = "using"
  /\ Reports(held[c], "failure")
  /\ held'  = [held EXCEPT ![c] = NoNode]
  /\ Goto(c, IF MoreTries(c) THEN "load" ELSE "idle")
  /\ last'  = [last EXCEPT ![c] = "transport"]
  /\ UNCHANGED <<loadVars, probeVars, refreshVars, call, tries, cancelled,
                 body, result>>

TransportFails(c) ==
  /\ call[c] # "none" /\ pc[c] = "using"
  /\ Reports(held[c], "failure")
  /\ held'  = [held EXCEPT ![c] = NoNode]
  /\ Goto(c, IF MoreTries(c) THEN "load" ELSE "idle")
  /\ tries' = [tries EXCEPT ![c] = @ + 1]
  /\ last'  = [last EXCEPT ![c] = "transport"]
  /\ UNCHANGED <<loadVars, probeVars, refreshVars, call, cancelled, body,
                 result>>

(* Upstream answered with a status: another node, or this answer.           *)
Replies(c, o) ==
  /\ call[c] # "none" /\ pc[c] = "using" /\ c \notin cancelled
  /\ Reports(held[c], o)
  /\ held'  = [held EXCEPT ![c] = NoNode]
  /\ Goto(c, IF o \in Retryable /\ MoreTries(c) THEN "load" ELSE "idle")
  /\ tries' = [tries EXCEPT ![c] = @ + 1]
  /\ last'  = [last EXCEPT ![c] = o]
  /\ body'  = [body EXCEPT ![c] = "open"]
  /\ UNCHANGED <<loadVars, probeVars, refreshVars, call, cancelled, result>>

(* drainAndClose, between a retryable answer and the next Take.             *)
Drain(c) ==
  /\ pc[c] = "load" /\ body[c] # "none" /\ Over(c)
  /\ body' = [body EXCEPT ![c] = "none"]
  /\ UNCHANGED <<vars, call, tries, last, cancelled, result>>

(* Take failed: chatOnce on the direct client, whatever comes of it.        *)
Direct(c, o) ==
  /\ call[c] # "none" /\ GiveUp(c)
  /\ o # "transport" => c \notin cancelled
  /\ last' = [last EXCEPT ![c] = o]
  /\ body' = [body EXCEPT ![c] = IF o = "transport" THEN "none" ELSE "open"]
  /\ UNCHANGED <<call, tries, cancelled, result>>

(* Complete: the first answer held dropped tool calls and no content.  It   *)
(* is kept, and Upstream is called once more.                               *)
Nudge(c) ==
  /\ pc[c] = "idle" /\ call[c] = "first" /\ last[c] = "ok" /\ body[c] = "open"
  /\ result' = [result EXCEPT ![c] = [of |-> "first", content |-> FALSE]]
  /\ body'   = [body EXCEPT ![c] = "none"]
  /\ Goto(c, "load")
  /\ Starts(c, "nudge")
  /\ UNCHANGED <<held, loadVars, pool, probeVars, refreshVars, cancelled>>

------------------------------------------------------------------------------
(* What the caller of Upstream or Complete is given: a status and, of a     *)
(* completion in one piece, the answer.                                     *)
Plain(status) == [status |-> status, answer |-> NoAnswer]
Whole(a)      == [status |-> "200", answer |-> a]
Return == [status : {"200", "502", "upstream"}, answer : Answer \cup {NoAnswer}]

(* No answer was got, or one with another status, whose text is read.       *)
Refusal(c, r) ==
  \/ last[c] = "transport" /\ r = Plain("502")
  \/ last[c] \in Outcome \ {"ok"} /\ Over(c) /\ r = Plain("upstream")

(* A stream has been given its 200 before its body is read.                 *)
Streamed(c, r) ==
  \/ Refusal(c, r)
  \/ last[c] = "ok" /\ Over(c) /\ r = Plain("200")

(* Complete after its first call: Aggregate fails, or has an answer that is *)
(* returned if it has content or if no tool call was dropped from it.       *)
FirstReturns(c, r) ==
  \/ Refusal(c, r)
  \/ last[c] = "ok" /\ Over(c) /\ r = Plain("502")
  \/ /\ last[c] = "ok" /\ body[c] = "open"
     /\ \E a \in Answer : a.of = "first" /\ r = Whole(a)

(* Complete after its second call: an error, a status other than 200, whose *)
(* text is not read, an error of Aggregate, and an answer without content   *)
(* leave the first answer; one with content replaces it.                    *)
SecondReturns_Unchecked(c, r) ==
  \/ last[c] \in (Outcome \ {"ok"}) \cup {"transport"} /\ r = Whole(result[c])
  \/ last[c] = "ok" /\ Over(c) /\ r = Whole(result[c])
  \/ /\ last[c] = "ok" /\ body[c] = "open"
     /\ \E a \in Answer : a.of = "nudge" /\ r = Whole(a)
SecondReturns(c, r) ==
  \/ last[c] \in (Outcome \ {"ok"}) \cup {"transport"} /\ r = Whole(result[c])
  \/ last[c] = "ok" /\ Over(c) /\ r = Whole(result[c])
  \/ /\ last[c] = "ok" /\ body[c] = "open"
     /\ \E a \in Answer : /\ a.of = "nudge"
                          /\ r = Whole(IF a.content THEN a ELSE result[c])

Completed(c, r) == IF call[c] = "first" THEN FirstReturns(c, r)
                                        ELSE SecondReturns(c, r)

(* The caller has what it asked for; the body is closed with it.            *)
Deliver(c) ==
  /\ pc[c] = "idle" /\ call[c] # "none"
  /\ call'  = [call EXCEPT ![c] = "none"]
  /\ tries' = [tries EXCEPT ![c] = 0]      \* end of the locals
  /\ last'  = [last EXCEPT ![c] = "none"]
  /\ body'  = [body EXCEPT ![c] = "none"]
  /\ result' = [result EXCEPT ![c] = NoAnswer]
  /\ cancelled' = cancelled \ {c}
  /\ UNCHANGED vars

Attempt(c) == \/ Cancel(c) \/ Stalls(c) \/ Drain(c) \/ TransportFails(c)
              \/ \E o \in Outcome : Replies(c, o)
              \/ \E o \in Outcome \cup {"transport"} : Direct(c, o)

Serving(c) == \/ Accept(c) \/ Attempt(c) \/ Nudge(c)
              \/ Deliver(c) /\ \E r \in Return : Streamed(c, r) \/ Completed(c, r)

(* The pool on its own, and the steps of Take, leave the service alone; a   *)
(* caller that drains a body has not come to Take yet.                      *)
Drained(p) == p \in Caller => body[p] = "none"

PoolStep == /\ \/ \E p \in Proc : Drained(p) /\ Load(p)
               \/ \E c \in Caller : \/ WaitProbe(c) \/ WaitReady(c)
                                    \/ WaitTimeout(c) \/ Take(c)
               \/ Probing \/ Refreshing \/ Tick
            /\ UNCHANGED chatVars

ChatNext == PoolStep \/ \E c \in Caller : Serving(c)

ChatSafetySpec == ChatInit /\ [][ChatNext]_allVars

------------------------------------------------------------------------------
(* Types of the service's variables.                                        *)
ChatTypeOK ==
  /\ TypeOK
  /\ call \in [Caller -> {"none", "first", "nudge"}]
  /\ tries \in [Caller -> 0..Attempts]
  /\ last \in [Caller -> Outcome \cup {"transport", "none"}]
  /\ cancelled \in SUBSET Caller
  /\ body \in [Caller -> {"none", "open", "stalled"}]
  /\ result \in [Caller -> Answer \cup {NoAnswer}]

(* What the service does, seen without the pool, is what it promises.       *)
Contract == INSTANCE ChatContract
              WITH running <- [c \in Caller |-> call[c] # "none" /\ pc[c] # "idle"]
ImplementsContract == Contract!Spec

(* A node is out of favour the moment a request turns from it to another    *)
(* attempt, in the loop here (retryableProxyStatus and Report's switch      *)
(* agree) and in the one of /ip that HttpServer adds: the next Take of      *)
(* anyone avoids it while another node is ready.                            *)
RetryLeavesNode ==
  [][\A c \in Caller : pc[c] = "using" /\ pc'[c] = "load" =>
       cooling'[held[c]] > 0 /\ current' # held[c]]_allVars

------------------------------------------------------------------------------
(* pool.go:25-26: a transport failure means that the node itself is down.   *)
(* A client that goes away says nothing about the node.                     *)
CancelSparesNode ==
  [][\A c \in cancelled :
       pc[c] = "using" /\ pc'[c] # "using" /\ states[held[c]] = "healthy"
         => states'[held[c]] = "healthy"]_allVars
===============================================================================
