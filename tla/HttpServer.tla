------------------------------ MODULE HttpServer ------------------------------
(****************************************************************************)
(* internal/httpapi: what the handlers make of the chat service and of the  *)
(* pool.  A completion, streamed or in one piece, is a call of ChatService; *)
(* /ip walks over the pool's nodes by itself while a second goroutine looks *)
(* the direct address up.  `reply` is the latest answer to a client: its    *)
(* status (upstream, when a status of its own is passed on) and, of a       *)
(* completion in one piece, the answer.  /health and /models only read.     *)
(* D_M is D with the mistake M in it (see ProxyPool).                       *)
(****************************************************************************)
EXTENDS ChatService

VARIABLES kind,     \* none, or what the request in service is
          reply,    \* the latest answer
          direct,   \* /ip: what directCh will bring, or has brought
          looked,   \* /ip: the loop's i
          found     \* /ip: proxyResult: none yet, ok or failed

httpVars  == <<kind, reply, direct, looked, found>>
ipVars    == <<direct, looked, found>>
serverVars == <<allVars, httpVars>>

HttpInit ==
  /\ ChatInit
  /\ kind   = [c \in Caller |-> "none"]
  /\ reply  = [c \in Caller |-> Plain("none")]
  /\ direct = [c \in Caller |-> "none"] /\ found  = [c \in Caller |-> "none"]
  /\ looked = [c \in Caller |-> 0]

Arrives(c, k) ==
  /\ kind[c] = "none"
  /\ kind'  = [kind EXCEPT ![c] = k]
  /\ reply' = [reply EXCEPT ![c] = Plain("none")]

Replied(c, r) ==
  /\ kind'  = [kind EXCEPT ![c] = "none"]
  /\ reply' = [reply EXCEPT ![c] = r]

------------------------------------------------------------------------------
(* completions                                                              *)

(* The method, the key, the length, the body or the model is refused before *)
(* anything is asked of the service.                                        *)
Refuse(c) ==
  /\ kind[c] = "none"
  /\ Replied(c, Plain("refused"))
  /\ UNCHANGED <<allVars, ipVars>>

AcceptChat(c, k) ==
  /\ Arrives(c, k)
  /\ Accept(c)
  /\ UNCHANGED ipVars

(* Complete makes its second call; a stream is never asked for again.       *)
NudgeUnary(c) ==
  /\ kind[c] = "unary"
  /\ Nudge(c)
  /\ UNCHANGED httpVars

(* Upstream's answer as it is, an error as a 502; or what Complete returns. *)
ReplyChat(c) ==
  /\ Deliver(c)
  /\ \E r \in Return :
       /\ \/ kind[c] = "stream" /\ Streamed(c, r)
          \/ kind[c] = "unary" /\ Completed(c, r)
       /\ Replied(c, r)
  /\ UNCHANGED ipVars

------------------------------------------------------------------------------
(* ip                                                                       *)
AcceptIp(c) ==
  /\ Arrives(c, "ip")
  /\ Begin(c)
  /\ direct' = [direct EXCEPT ![c] = "pending"]
  /\ UNCHANGED <<chatVars, looked, found>>

(* LookupResult on the direct client, in a goroutine of its own.            *)
DirectLookup(c, o) ==
  /\ kind[c] = "ip" /\ direct[c] = "pending"
  /\ direct' = [direct EXCEPT ![c] = o]
  /\ UNCHANGED <<allVars, kind, reply, looked, found>>

(* LookupResult through the node ends the loop, is tried again through      *)
(* another node, or has been tried often enough.  It has time limits of its *)
(* own: the client's departure does not reach it.                           *)
MoreLooks(c) == looked[c] + 1 < Attempts

LookupWorks(c) ==
  /\ kind[c] = "ip" /\ pc[c] = "using"
  /\ Reports(held[c], "ok")
  /\ held'  = [held EXCEPT ![c] = NoNode]
  /\ found' = [found EXCEPT ![c] = "ok"]
  /\ Goto(c, "idle")
  /\ UNCHANGED <<loadVars, probeVars, refreshVars, chatVars, kind, reply,
                 direct, looked>>

LookupFails_NotReported(c) ==
  /\ kind[c] = "ip" /\ pc[c] = "using"
  /\ looked' = [looked EXCEPT ![c] = @ + 1]
  /\ found' = [found EXCEPT ![c] = IF MoreLooks(c) THEN @ ELSE "failed"]
  /\ Goto(c, IF MoreLooks(c) THEN "load" ELSE "idle")
  /\ UNCHANGED <<held, loadVars, pool, probeVars, refreshVars, chatVars, kind,
                 reply, direct>>

LookupFails(c) ==
  /\ kind[c] = "ip" /\ pc[c] = "using"
  /\ Reports(held[c], "failure")
  /\ held'   = [held EXCEPT ![c] = NoNode]
  /\ looked' = [looked EXCEPT ![c] = @ + 1]
  /\ found' = [found EXCEPT ![c] = IF MoreLooks(c) THEN @ ELSE "failed"]
  /\ Goto(c, IF MoreLooks(c) THEN "load" ELSE "idle")
  /\ UNCHANGED <<loadVars, probeVars, refreshVars, chatVars, kind, reply, direct>>

(* Take failed: break.  There is no other way to try.                       *)
NoNodes_NoBreak(c) ==
  /\ kind[c] = "ip"
  /\ GiveUp(c)
  /\ UNCHANGED <<chatVars, kind, reply, direct, looked, found>>

NoNodes(c) ==
  /\ kind[c] = "ip"
  /\ GiveUp(c)
  /\ found' = [found EXCEPT ![c] = "failed"]
  /\ UNCHANGED <<chatVars, kind, reply, direct, looked>>

ReplyIp(c) ==
  /\ kind[c] = "ip" /\ found[c] # "none" /\ direct[c] # "pending"
  /\ Replied(c, Plain(IF "ok" \in {found[c], direct[c]} THEN "200" ELSE "502"))
  /\ direct' = [direct EXCEPT ![c] = "none"]   \* end of the locals
  /\ looked' = [looked EXCEPT ![c] = 0]
  /\ found'  = [found EXCEPT ![c] = "none"]
  /\ UNCHANGED allVars

------------------------------------------------------------------------------
IpStep(c) == \/ AcceptIp(c) \/ LookupWorks(c) \/ LookupFails(c) \/ NoNodes(c)
             \/ \E o \in {"ok", "failed"} : DirectLookup(c, o)
             \/ ReplyIp(c)

ChatStep(c) == \/ Refuse(c) \/ \E k \in {"stream", "unary"} : AcceptChat(c, k)
               \/ Attempt(c) /\ UNCHANGED httpVars
               \/ NudgeUnary(c) \/ ReplyChat(c)

HttpNext == \/ PoolStep /\ UNCHANGED httpVars
            \/ \E c \in Caller : ChatStep(c) \/ IpStep(c)

(* Goroutines run, mutexes are handed over (see ProxyPool); dials, response *)
(* headers and IP lookups have time limits.  Bodies have none: a stalled    *)
(* one keeps its reader (Drain, ReplyChat) waiting until the client leaves, *)
(* and no client has to.  Requests need not come.                           *)
Loading(p) == FetchFails(p) \/ Reload(p) \/ SetLoaded(p) \/ StartLoops(p)
TakingOn(c) == WaitProbe(c) \/ WaitReady(c) \/ WaitTimeout(c) \/ Take(c)
Judging(c) == \/ TransportFails(c) \/ \E o \in Outcome : Replies(c, o)
              \/ \E o \in Outcome \cup {"transport"} : Direct(c, o)

HttpFairness ==
  /\ \A p \in Proc :
       /\ WF_serverVars(/\ Drained(p) /\ LoadCheck(p)
                        /\ UNCHANGED <<chatVars, httpVars>>)
       /\ SF_serverVars(LoadLock(p) /\ UNCHANGED <<chatVars, httpVars>>)
       /\ WF_serverVars(Loading(p) /\ UNCHANGED <<chatVars, httpVars>>)
  /\ \A c \in Caller :
       /\ WF_serverVars(TakingOn(c) /\ UNCHANGED <<chatVars, httpVars>>)
       /\ WF_serverVars(Judging(c) /\ UNCHANGED httpVars)
       /\ WF_serverVars(Drain(c) /\ UNCHANGED httpVars)
       /\ WF_serverVars(NudgeUnary(c) \/ ReplyChat(c))
       /\ WF_serverVars(LookupWorks(c) \/ LookupFails(c) \/ NoNodes(c))
       /\ WF_serverVars(\E o \in {"ok", "failed"} : DirectLookup(c, o))
       /\ WF_serverVars(ReplyIp(c))

HttpSpec == HttpInit /\ [][HttpNext]_serverVars /\ HttpFairness

------------------------------------------------------------------------------
(* Types, and what a request owes to the pool: whoever took a node has told *)
(* the pool how it did, once, before it takes another or answers its        *)
(* client, in the completions' loop and in that of /ip.  No body is left    *)
(* open by a call of Upstream that goes on, and a first answer is held      *)
(* exactly during a second call.                                            *)
HttpTypeOK ==
  /\ ChatTypeOK
  /\ kind \in [Caller -> {"none", "stream", "unary", "ip"}]
  /\ reply \in [Caller -> [status : {"none", "200", "502", "upstream", "refused"},
                            answer : Answer \cup {NoAnswer}]]
  /\ direct \in [Caller -> {"none", "pending", "ok", "failed"}]
  /\ looked \in [Caller -> 0..Attempts]
  /\ found \in [Caller -> {"none", "ok", "failed"}]
  /\ \A c \in Caller : /\ pc[c] # "idle" => kind[c] # "none"
                       /\ call[c] # "none" <=> kind[c] \in {"stream", "unary"}
                       /\ held[c] # NoNode <=> pc[c] = "using"
                       /\ body[c] # "none" => /\ call[c] # "none"
                                              /\ pc[c] \in {"load", "idle"}
                       /\ call[c] = "nudge" <=> result[c] # NoAnswer

(* A first answer is not lost by asking again (chat.go:186-198): Complete   *)
(* keeps it over the whole second call, and returns it unless that call     *)
(* brings one that has content.  An error of the second call, a status, a   *)
(* body that breaks and a second empty answer do not replace it.            *)
FirstAnswerKept ==
  [][\A c \in Caller : result[c] # NoAnswer =>
       IF call'[c] # "none" THEN result'[c] = result[c]
       ELSE /\ reply'[c].status = "200"
            /\ \/ reply'[c].answer = result[c]
               \/ reply'[c].answer = [of |-> "nudge", content |-> TRUE]]_serverVars

(* Every request is answered, unless upstream stalls within a body of the   *)
(* request's and its client stays (zen/client.go:118-119): whatever nodes,  *)
(* lookups and subscriptions do, and also once the client has left.         *)
Answered ==
  \A c \in Caller : kind[c] # "none" ~>
       kind[c] = "none" \/ (body[c] = "stalled" /\ c \notin cancelled)
===============================================================================
