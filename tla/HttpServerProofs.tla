--------------------------- MODULE HttpServerProofs --------------------------
(****************************************************************************)
(* What holds of HttpServer, with the chat service and the pool under it,   *)
(* for any number of requests at a time, any nodes, subscriptions and       *)
(* number of attempts.                                                      *)
(****************************************************************************)
EXTENDS HttpServer, ProxyPoolProofs

(* What the server's variables have to do with each other between two       *)
(* steps.  Requests are served once Start has returned; a request that is   *)
(* not through with its loop has an attempt left; the second call is one of *)
(* Complete's; /ip's locals are its own.                                    *)
InService(c) ==
  /\ kind[c] # "none" => pc[Main] = "done"
  /\ call[c] # "none" /\ pc[c] # "idle" => tries[c] < Attempts
  /\ call[c] = "nudge" => kind[c] = "unary"
  /\ kind[c] # "ip" => looked[c] = 0 /\ found[c] = "none" /\ direct[c] = "none"
  /\ kind[c] = "ip" /\ pc[c] # "idle" => looked[c] < Attempts
  /\ found[c] # "none" => pc[c] = "idle"

Served == HttpTypeOK /\ \A c \in Caller : InService(c)

(* The request in service, its call, its node, the body it has to read and  *)
(* its first answer go together.                                            *)
Owes(c) == /\ pc[c] # "idle" => kind[c] # "none"
           /\ call[c] # "none" <=> kind[c] \in {"stream", "unary"}
           /\ held[c] # NoNode <=> pc[c] = "using"
           /\ body[c] # "none" => call[c] # "none" /\ pc[c] \in {"load", "idle"}
           /\ call[c] = "nudge" <=> result[c] # NoAnswer

(* HttpTypeOK without the pool: sets, and what Owes says.                   *)
ServerTyped ==
  /\ call \in [Caller -> {"none", "first", "nudge"}]
  /\ tries \in [Caller -> 0..Attempts]
  /\ last \in [Caller -> Outcome \cup {"transport", "none"}]
  /\ cancelled \in SUBSET Caller
  /\ body \in [Caller -> {"none", "open", "stalled"}]
  /\ result \in [Caller -> Answer \cup {NoAnswer}]
  /\ kind \in [Caller -> {"none", "stream", "unary", "ip"}]
  /\ reply \in [Caller -> [status : {"none", "200", "502", "upstream", "refused"},
                            answer : Answer \cup {NoAnswer}]]
  /\ direct \in [Caller -> {"none", "pending", "ok", "failed"}]
  /\ looked \in [Caller -> 0..Attempts]
  /\ found \in [Caller -> {"none", "ok", "failed"}]

LEMMA ServedParts ==
  Served <=> /\ TypeOK /\ ServerTyped
             /\ \A c \in Caller : Owes(c) /\ InService(c)
BY DEF Served, HttpTypeOK, ChatTypeOK, ServerTyped, Owes

------------------------------------------------------------------------------
(* The steps of Take and of the background tasks: they begin no request and *)
(* end none, and a caller has a node exactly when Take has returned one.    *)
LEMMA PoolStepFrame ==
  ASSUME TypeOK, PoolStep
  PROVE  /\ UNCHANGED chatVars
         /\ pc[Main] = "done" => pc'[Main] = "done"
         /\ \A c \in Caller : /\ pc'[c] = "idle" <=> pc[c] = "idle"
                              /\ pc[c] = "using" => pc'[c] = "using"
                              /\ body[c] # "none" /\ pc[c] = "load"
                                 => pc'[c] = "load"
                              /\ (held[c] # NoNode <=> pc[c] = "using")
                                 => (held'[c] # NoNode <=> pc'[c] = "using")
<1> USE ConstantsTyped DEF TypeOK, Goto
<1> DEFINE Kept ==
      /\ pc[Main] = "done" => pc'[Main] = "done"
      /\ \A c \in Caller : /\ pc'[c] = "idle" <=> pc[c] = "idle"
                           /\ pc[c] = "using" => pc'[c] = "using"
                           /\ body[c] # "none" /\ pc[c] = "load"
                              => pc'[c] = "load"
                           /\ (held[c] # NoNode <=> pc[c] = "using")
                              => (held'[c] # NoNode <=> pc'[c] = "using")
<1>1. ASSUME NEW p \in Proc, Drained(p), Load(p) PROVE Kept
  BY <1>1 DEF Drained, Load, LoadCheck, LoadLock, FetchFails, Reload, SetLoaded,
              StartLoops, AfterLoad
<1>2. ASSUME NEW c \in Caller, WaitProbe(c) \/ WaitReady(c) \/ WaitTimeout(c)
      PROVE  Kept
  BY <1>2 DEF WaitProbe, WaitReady, WaitTimeout
<1>3. ASSUME NEW c \in Caller, Take(c) PROVE Kept
  <2>1. PICK n \in Entries : held' = [held EXCEPT ![c] = n]
    BY <1>3 DEF Take
  <2>2. n \in Node
    BY ToSetTyped DEF Entries
  <2> QED BY <1>3, <2>1, <2>2 DEF Take
<1>4. ASSUME Probing \/ Refreshing \/ Tick PROVE Kept
  <2>1. pc' = pc /\ held' = held
    BY <1>4, BackgroundFrame
  <2> QED BY <2>1
<1>5. Kept
  <2> HIDE DEF Kept, TypeOK, Goto
  <2> QED BY <1>1, <1>2, <1>3, <1>4 DEF PoolStep
<1> QED BY <1>5 DEF PoolStep

(* A request's own step does nothing to the pool that a caller of Take and  *)
(* Report could not do.                                                     *)
LEMMA AttemptsReport ==
  ASSUME NEW c \in Caller
  PROVE  /\ TransportFails(c) => Report(c, "failure")
         /\ \A o \in Outcome : Replies(c, o) => Report(c, o)
         /\ LookupWorks(c) => Report(c, "ok")
         /\ LookupFails(c) => Report(c, "failure")
<1>1. TransportFails(c) => Report(c, "failure")
  BY DEF TransportFails, Report
<1>2. ASSUME NEW o \in Outcome, Replies(c, o) PROVE Report(c, o)
  BY <1>2 DEF Replies, Report
<1>3. LookupWorks(c) => Report(c, "ok")
  BY DEF LookupWorks, Report
<1>4. LookupFails(c) => Report(c, "failure")
  BY DEF LookupFails, Report
<1> QED BY <1>1, <1>2, <1>3, <1>4

LEMMA ServerStepsPool == Served /\ [HttpNext]_serverVars => [Next]_vars
<1> SUFFICES ASSUME Served, [HttpNext]_serverVars PROVE [Next]_vars
  OBVIOUS
<1>1. CASE PoolStep
  BY <1>1 DEF PoolStep, Next, PoolNext, Taking
<1>2. ASSUME NEW c \in Caller, ChatStep(c) PROVE [Next]_vars
  <2>1. CASE Refuse(c) \/ Cancel(c) \/ Stalls(c) \/ Drain(c) \/ ReplyChat(c)
    BY <2>1 DEF Refuse, Cancel, Stalls, Drain, ReplyChat, Deliver, allVars
  <2>2. ASSUME NEW k, AcceptChat(c, k) PROVE Begin(c)
    BY <2>2 DEF AcceptChat, Accept
  <2>3. ASSUME NudgeUnary(c) PROVE Begin(c)
    BY <2>3 DEF NudgeUnary, Nudge, Begin, Served, InService
  <2>4. ASSUME NEW o, Direct(c, o) PROVE GiveUp(c)
    BY <2>4 DEF Direct
  <2>5. CASE TransportFails(c) \/ \E o \in Outcome : Replies(c, o)
    BY <2>5, AttemptsReport DEF Next, Outcome
  <2> QED BY <1>2, <2>1, <2>2, <2>3, <2>4, <2>5
          DEF ChatStep, Attempt, Next, PoolNext, Taking
<1>3. ASSUME NEW c \in Caller, IpStep(c) PROVE [Next]_vars
  <2>1. CASE ReplyIp(c) \/ \E o \in {"ok", "failed"} : DirectLookup(c, o)
    BY <2>1 DEF ReplyIp, DirectLookup, allVars
  <2>2. CASE AcceptIp(c)
    BY <2>2 DEF AcceptIp, Next, PoolNext, Taking
  <2>3. CASE NoNodes(c)
    BY <2>3 DEF NoNodes, Next, PoolNext, Taking
  <2>4. CASE LookupWorks(c) \/ LookupFails(c)
    BY <2>4, AttemptsReport DEF Next, Outcome
  <2> QED BY <1>3, <2>1, <2>2, <2>3, <2>4 DEF IpStep
<1>4. CASE UNCHANGED serverVars
  BY <1>4 DEF serverVars, allVars
<1> QED BY <1>1, <1>2, <1>3, <1>4 DEF HttpNext

------------------------------------------------------------------------------
(* Every step keeps what the requests owe.                                  *)
LEMMA ChatStepServed ==
  ASSUME Served, NEW c \in Caller, ChatStep(c)
  PROVE  ServerTyped' /\ \A d \in Caller : Owes(d)' /\ InService(d)'
<1> USE ConstantsTyped, AttemptsAssumption, ServedParts
<1> USE DEF ServerTyped, Owes, InService, Goto, TypeOK, httpVars, ipVars,
        Plain, Answer, NoAnswer
<1>1. CASE Refuse(c)
  BY <1>1 DEF Refuse, Replied, allVars, chatVars, vars
<1>2. ASSUME NEW k \in {"stream", "unary"}, AcceptChat(c, k)
      PROVE  ServerTyped' /\ \A d \in Caller : Owes(d)' /\ InService(d)'
  BY <1>2 DEF AcceptChat, Arrives, Accept, Begin, Starts
<1>3. CASE (Cancel(c) \/ Stalls(c) \/ Drain(c)) /\ UNCHANGED httpVars
  <2>1. /\ UNCHANGED <<pc, held, call, tries, last, result, kind, reply, direct,
                       looked, found>>
        /\ cancelled' \in SUBSET Caller
    BY <1>3 DEF Cancel, Stalls, Drain, vars
  <2>2. /\ body' \in [Caller -> {"none", "open", "stalled"}]
        /\ \A d \in Caller : body'[d] # "none" => body[d] # "none"
    <3>1. \/ body' = body
          \/ body[c] = "open" /\ body' = [body EXCEPT ![c] = "stalled"]
          \/ body' = [body EXCEPT ![c] = "none"]
      BY <1>3 DEF Cancel, Stalls, Drain
    <3>2. body \in [Caller -> {"none", "open", "stalled"}]
      OBVIOUS
    <3> HIDE ServedParts
    <3> QED BY <3>1, <3>2
  <2>3. ServerTyped'
    BY <2>1, <2>2
  <2>4. ASSUME NEW d \in Caller PROVE Owes(d)' /\ InService(d)'
    BY <2>1, <2>2
  <2> QED BY <2>3, <2>4
<1>4. CASE TransportFails(c) /\ UNCHANGED httpVars
  <2>1. tries[c] \in Nat /\ tries[c] < Attempts /\ Attempts \in Nat
    BY <1>4 DEF TransportFails
  <2>2. /\ UNCHANGED <<call, cancelled, body, result, kind, reply, direct, looked, found>>
        /\ last' = [last EXCEPT ![c] = "transport"]
    BY <1>4 DEF TransportFails
  <2>3. ServerTyped'
    BY <1>4, <2>1, <2>2 DEF TransportFails
  <2>4. ASSUME NEW d \in Caller PROVE Owes(d)' /\ InService(d)'
    BY <1>4, <2>1, <2>2, <2>4 DEF TransportFails, MoreTries
  <2> QED BY <2>3, <2>4
<1>5. ASSUME NEW o \in Outcome, Replies(c, o), UNCHANGED httpVars
      PROVE  ServerTyped' /\ \A d \in Caller : Owes(d)' /\ InService(d)'
  BY <1>5 DEF Replies, MoreTries
<1>6. ASSUME NEW o \in Outcome \cup {"transport"}, Direct(c, o),
             UNCHANGED httpVars
      PROVE  ServerTyped' /\ \A d \in Caller : Owes(d)' /\ InService(d)'
  BY <1>6 DEF Direct, GiveUp
<1>7. CASE NudgeUnary(c)
  BY <1>7 DEF NudgeUnary, Nudge, Starts
<1>8. CASE ReplyChat(c)
  <2>1. pc[c] = "idle" /\ UNCHANGED <<pc, held, direct, looked, found>>
    BY <1>8 DEF ReplyChat, Deliver, vars
  <2>2. PICK r \in Return : Replied(c, r)
    BY <1>8 DEF ReplyChat
  <2>3. ServerTyped'
    BY <1>8, <2>1, <2>2, SMTT(40) DEF ReplyChat, Deliver, Replied, Return
  <2>4. ASSUME NEW d \in Caller PROVE Owes(d)' /\ InService(d)'
    BY <1>8, <2>1, <2>2, <2>4, SMTT(40) DEF ReplyChat, Deliver, Replied
  <2> QED BY <2>3, <2>4
<1> HIDE DEF ServerTyped, Owes, InService, Goto, TypeOK, httpVars, ipVars,
            Plain, Answer, NoAnswer
<1> QED BY <1>1, <1>2, <1>3, <1>4, <1>5, <1>6, <1>7, <1>8
        DEF ChatStep, Attempt

LEMMA IpStepServed ==
  ASSUME Served, NEW c \in Caller, IpStep(c)
  PROVE  ServerTyped' /\ \A d \in Caller : Owes(d)' /\ InService(d)'
<1> USE ConstantsTyped, AttemptsAssumption, ServedParts
<1> USE DEF ServerTyped, Owes, InService, Goto, TypeOK, chatVars, allVars, vars
<1>1. CASE AcceptIp(c)
  BY <1>1 DEF AcceptIp, Arrives, Begin, Plain, NoAnswer
<1>2. CASE LookupWorks(c)
  BY <1>2 DEF LookupWorks
<1>3. CASE LookupFails(c)
  <2>1. /\ UNCHANGED <<call, tries, last, cancelled, body, result, kind, reply,
                       direct>>
        /\ kind[c] = "ip" /\ pc[c] = "using"
        /\ looked' = [looked EXCEPT ![c] = @ + 1]
        /\ found' = [found EXCEPT ![c] = IF MoreLooks(c) THEN @ ELSE "failed"]
        /\ held' = [held EXCEPT ![c] = NoNode]
        /\ pc' = [pc EXCEPT ![c] = IF MoreLooks(c) THEN "load" ELSE "idle"]
    BY <1>3 DEF LookupFails
  <2>2. looked[c] \in Nat /\ looked[c] < Attempts /\ Attempts \in Nat
    BY <2>1
  <2>3. ServerTyped'
    <3>1. looked' \in [Caller -> 0..Attempts]
      BY <2>1, <2>2
    <3>2. found' \in [Caller -> {"none", "ok", "failed"}]
      BY <2>1
    <3> QED BY <2>1, <3>1, <3>2
  <2>4. ASSUME NEW d \in Caller PROVE Owes(d)' /\ InService(d)'
    BY <2>1, <2>2, <2>4 DEF MoreLooks
  <2> QED BY <2>3, <2>4
<1>4. CASE NoNodes(c)
  BY <1>4 DEF NoNodes, GiveUp
<1>5. ASSUME NEW o \in {"ok", "failed"}, DirectLookup(c, o)
      PROVE  ServerTyped' /\ \A d \in Caller : Owes(d)' /\ InService(d)'
  BY <1>5 DEF DirectLookup
<1>6. CASE ReplyIp(c)
  BY <1>6 DEF ReplyIp, Replied, Plain, NoAnswer
<1> HIDE ServedParts
<1> HIDE DEF ServerTyped, Owes, InService, Goto, TypeOK, chatVars, allVars, vars
<1> QED BY <1>1, <1>2, <1>3, <1>4, <1>5, <1>6 DEF IpStep

LEMMA ServedStep == Served /\ [HttpNext]_serverVars => Served'
<1> SUFFICES ASSUME Served, [HttpNext]_serverVars PROVE Served'
  OBVIOUS
<1>1. TypeOK'
  BY ServerStepsPool, TypeOKStep, ServedParts
<1>2. ServerTyped' /\ \A c \in Caller : Owes(c)' /\ InService(c)'
  <2>1. CASE PoolStep /\ UNCHANGED httpVars
    <3>1. TypeOK /\ ServerTyped /\ \A c \in Caller : Owes(c) /\ InService(c)
      BY ServedParts
    <3>2. UNCHANGED chatVars
      BY <2>1 DEF PoolStep
    <3>3. ServerTyped'
      BY <2>1, <3>1, <3>2 DEF ServerTyped, chatVars, httpVars
    <3>4. ASSUME NEW c \in Caller PROVE Owes(c)' /\ InService(c)'
      BY <2>1, <3>1, <3>2, PoolStepFrame DEF Owes, InService, chatVars, httpVars
    <3> QED BY <3>3, <3>4
  <2>2. ASSUME NEW c \in Caller, ChatStep(c) \/ IpStep(c)
        PROVE  ServerTyped' /\ \A d \in Caller : Owes(d)' /\ InService(d)'
    BY <2>2, ChatStepServed, IpStepServed
  <2>3. CASE UNCHANGED serverVars
    <3>1. ServerTyped /\ \A c \in Caller : Owes(c) /\ InService(c)
      BY ServedParts
    <3> QED BY <2>3, <3>1 DEF ServerTyped, Owes, InService, serverVars, allVars,
                              vars, chatVars, httpVars
  <2>4. \/ PoolStep /\ UNCHANGED httpVars
        \/ \E c \in Caller : ChatStep(c) \/ IpStep(c)
        \/ UNCHANGED serverVars
    BY Zenon DEF HttpNext
  <2>5. CASE \E c \in Caller : ChatStep(c) \/ IpStep(c)
    BY <2>2, <2>5, Zenon
  <2> QED BY <2>1, <2>3, <2>4, <2>5, Zenon
<1> QED BY <1>1, <1>2 DEF Served, HttpTypeOK, ChatTypeOK, ServerTyped, Owes

LEMMA ServedInit == HttpInit => Served
<1> SUFFICES ASSUME HttpInit PROVE Served
  OBVIOUS
<1> USE AttemptsAssumption DEF HttpInit, ChatInit
<1>1. TypeOK
  BY PoolTypedInit
<1>2. ServerTyped
  BY DEF ServerTyped, Plain
<1>3. ASSUME NEW c \in Caller PROVE Owes(c) /\ InService(c)
  BY <1>3, ConstantsTyped DEF Owes, InService, Init
<1> QED BY <1>1, <1>2, <1>3, ServedParts

(* Served holds of every state the server gets into.                        *)
THEOREM ServedAlways == HttpSpec => []Served
BY ServedInit, ServedStep, PTL DEF HttpSpec

(* Requests owe the pool a report exactly while they have a node, and their *)
(* call and kind agree, for any number of requests at a time.               *)
THEOREM HttpTypesHold == HttpSpec => []HttpTypeOK
<1>1. Served => HttpTypeOK
  BY DEF Served
<1> QED BY <1>1, ServedAlways, PTL

(* The chat service and /ip use the pool as ProxyPool says that callers of  *)
(* Take and Report do: all that holds of the pool holds in the server.      *)
THEOREM ServerUsesPool == HttpSpec => SafetySpec
<1>1. HttpInit => Init
  BY DEF HttpInit, ChatInit
<1> QED BY <1>1, ServedAlways, ServerStepsPool, PTL DEF HttpSpec, SafetySpec

(* So the pool is loaded once and answers each Take from a list that is not *)
(* empty, with the best node it has, whatever requests are in service.      *)
COROLLARY PoolInServer ==
  HttpSpec => /\ []LoadsOnce /\ []PoolIndexed /\ []OneBatch
              /\ VerdictsKept /\ CooldownsHonoured /\ StickyStays /\ ServesBest
BY ServerUsesPool, LoadsOnceAlways, PoolIndexedAlways, OneBatchAlways,
   VerdictsKeptAlways, CooldownsHonouredAlways, StickyStaysAlways,
   ServesBestAlways, PTL

(* A node is out of favour the moment a request turns from it to another    *)
(* attempt, in the completions' loop and in that of /ip.                    *)
THEOREM RetryLeavesNodeAlways == HttpSpec => RetryLeavesNode
<1> DEFINE Left(c) == pc[c] = "using" /\ pc'[c] = "load" =>
                        cooling'[held[c]] > 0 /\ current' # held[c]
<1>1. ASSUME Served, [HttpNext]_serverVars, NEW c \in Caller PROVE Left(c)
  <2> SUFFICES ASSUME pc[c] = "using", pc'[c] = "load"
               PROVE  cooling'[held[c]] > 0 /\ current' # held[c]
    OBVIOUS
  <2>1. /\ TypeOK /\ held[c] \in Node
    BY <1>1, ServedParts DEF Owes, TypeOK
  <2>2. ASSUME NEW o \in {"quota", "failure"}, Reports(held[c], o)
        PROVE  cooling'[held[c]] > 0 /\ current' # held[c]
    <3>1. cooling[held[c]] \in Nat
      BY <2>1 DEF TypeOK
    <3>2. CooledFor(cooling[held[c]], o) > 0
      BY <3>1, ConstantsTyped DEF CooledFor, Longer
    <3>3. cooling' = [cooling EXCEPT ![held[c]] = CooledFor(cooling[held[c]], o)]
      BY <2>2 DEF Reports
    <3>4. cooling'[held[c]] = CooledFor(cooling[held[c]], o)
      BY <2>1, <3>3 DEF TypeOK
    <3>5. current' # held[c]
      BY <2>1, <2>2, ConstantsTyped DEF Reports, CurrentAfter
    <3> QED BY <3>2, <3>4, <3>5
  <2>3. ASSUME NEW d \in Caller, ChatStep(d) \/ IpStep(d)
        PROVE  \E o \in {"quota", "failure"} : Reports(held[c], o)
    <3> USE <2>1, ConstantsTyped DEF TypeOK, Goto
    <3>1. ASSUME TransportFails(d) \/ LookupFails(d)
          PROVE  Reports(held[c], "failure")
      BY <3>1 DEF TransportFails, LookupFails
    <3>2. ASSUME NEW o \in Outcome, Replies(d, o)
          PROVE  o \in {"quota", "failure"} /\ Reports(held[c], o)
      BY <3>2 DEF Replies, Retryable
    <3>3. /\ ~(Refuse(d) \/ Cancel(d) \/ Stalls(d) \/ Drain(d))
          /\ ~(ReplyChat(d) \/ ReplyIp(d))
      BY DEF Refuse, Cancel, Stalls, Drain, ReplyChat, Deliver, ReplyIp, allVars,
             vars
    <3>4. ~(AcceptIp(d) \/ LookupWorks(d) \/ NoNodes(d) \/ NudgeUnary(d))
      BY DEF AcceptIp, Begin, LookupWorks, NoNodes, GiveUp, NudgeUnary, Nudge
    <3>5. /\ \A k : ~AcceptChat(d, k)
          /\ \A o : ~Direct(d, o) /\ ~DirectLookup(d, o)
      BY DEF AcceptChat, Accept, Begin, Direct, GiveUp, DirectLookup, allVars,
             vars
    <3> QED BY <2>3, <3>1, <3>2, <3>3, <3>4, <3>5
            DEF ChatStep, IpStep, Attempt
  <2>4. ~(PoolStep \/ UNCHANGED serverVars)
    BY <2>1, PoolStepFrame DEF serverVars, allVars, vars
  <2> QED BY <1>1, <2>2, <2>3, <2>4 DEF HttpNext
<1>2. Served /\ [HttpNext]_serverVars
        => [\A c \in Caller : pc[c] = "using" /\ pc'[c] = "load" =>
              cooling'[held[c]] > 0 /\ current' # held[c]]_allVars
  BY <1>1
<1> QED BY <1>2, ServedAlways, PTL DEF HttpSpec, RetryLeavesNode

(* What Complete returns after its second call is the first answer, or one  *)
(* of the second call's that has content.                                   *)
LEMMA SecondNeverWorse ==
  ASSUME NEW c \in Caller, NEW r, SecondReturns(c, r)
  PROVE  /\ r.status = "200"
         /\ \/ r.answer = result[c]
            \/ r.answer = [of |-> "nudge", content |-> TRUE]
<1>1. ASSUME NEW a, r = Whole(a) PROVE r.status = "200" /\ r.answer = a
  BY <1>1 DEF Whole
<1>2. CASE r = Whole(result[c])
  BY <1>1, <1>2
<1>3. ASSUME NEW a \in Answer, a.of = "nudge",
             r = Whole(IF a.content THEN a ELSE result[c])
      PROVE  \/ r = Whole(result[c])
             \/ r = Whole([of |-> "nudge", content |-> TRUE])
  BY <1>3 DEF Answer
<1>4. CASE r = Whole([of |-> "nudge", content |-> TRUE])
  BY <1>1, <1>4
<1> QED BY <1>2, <1>3, <1>4 DEF SecondReturns

(* A first answer is not lost by asking again: it is kept over the whole    *)
(* second call, and only an answer with content takes its place.            *)
THEOREM FirstAnswerKeptAlways == HttpSpec => FirstAnswerKept
<1> DEFINE Kept(c) ==
      IF call'[c] # "none" THEN result'[c] = result[c]
      ELSE /\ reply'[c].status = "200"
           /\ \/ reply'[c].answer = result[c]
              \/ reply'[c].answer = [of |-> "nudge", content |-> TRUE]
<1>1. ASSUME Served, [HttpNext]_serverVars, NEW c \in Caller,
             result[c] # NoAnswer
      PROVE  Kept(c)
  <2>1. /\ call[c] = "nudge" /\ kind[c] = "unary"
        /\ ServerTyped
    BY <1>1, ServedParts DEF Owes, InService
  <2>2. ASSUME ReplyChat(c) PROVE Kept(c)
    <3>1. PICK r \in Return : SecondReturns(c, r) /\ Replied(c, r)
      BY <2>1, <2>2 DEF ReplyChat, Completed
    <3>2. reply'[c] = r /\ call'[c] = "none"
      BY <2>1, <2>2, <3>1 DEF Replied, ReplyChat, Deliver, ServerTyped
    <3> QED BY <3>1, <3>2, SecondNeverWorse
  <2>3. SUFFICES ASSUME ~ReplyChat(c)
                 PROVE  call'[c] # "none" /\ result'[c] = result[c]
    BY <2>2
  <2>4. ASSUME UNCHANGED <<call, result>>
        PROVE  call'[c] # "none" /\ result'[c] = result[c]
    BY <2>1, <2>4
  <2>5. ASSUME NEW d \in Caller, ChatStep(d)
        PROVE  call'[c] # "none" /\ result'[c] = result[c]
    <3>1. CASE Refuse(d) \/ Attempt(d)
      BY <2>4, <3>1 DEF Refuse, Attempt, Cancel, Stalls, Drain, TransportFails,
                        Replies, Direct, allVars, chatVars
    <3>2. ASSUME NEW k, AcceptChat(d, k)
          PROVE  call'[c] # "none" /\ result'[c] = result[c]
      BY <2>1, <3>2 DEF AcceptChat, Accept, Starts, ServerTyped
    <3>3. CASE NudgeUnary(d) \/ ReplyChat(d)
      <4>1. d # c
        BY <2>1, <2>3, <3>3 DEF NudgeUnary, Nudge
      <4> QED BY <2>1, <3>3, <4>1 DEF NudgeUnary, Nudge, Starts, ReplyChat,
                                      Deliver, ServerTyped
    <3> QED BY <2>5, <3>1, <3>2, <3>3 DEF ChatStep
  <2>6. ASSUME NEW d \in Caller, IpStep(d) PROVE UNCHANGED <<call, result>>
    BY <2>6 DEF IpStep, AcceptIp, LookupWorks, LookupFails, NoNodes,
                DirectLookup, ReplyIp, allVars, chatVars
  <2>7. CASE PoolStep \/ UNCHANGED serverVars
    BY <2>4, <2>7 DEF PoolStep, serverVars, allVars, chatVars
  <2> QED BY <1>1, <2>4, <2>5, <2>6, <2>7 DEF HttpNext
<1>2. Served /\ [HttpNext]_serverVars
        => [\A c \in Caller : result[c] # NoAnswer =>
              IF call'[c] # "none" THEN result'[c] = result[c]
              ELSE /\ reply'[c].status = "200"
                   /\ \/ reply'[c].answer = result[c]
                      \/ reply'[c].answer
                           = [of |-> "nudge", content |-> TRUE]]_serverVars
  BY <1>1
<1> QED BY <1>2, ServedAlways, PTL DEF HttpSpec, FirstAnswerKept

------------------------------------------------------------------------------
(* The steps of the pool and of /ip are no steps of the contract, those of  *)
(* the service's loop are.                                                  *)
LEMMA ContractInit == HttpInit => Contract!Init
BY DEF HttpInit, ChatInit, Contract!Init

Running(c) == call[c] # "none" /\ pc[c] # "idle"

LEMMA RunningAfter ==
  ASSUME NEW c \in Caller, NEW b, Running(c)' <=> b, b \in BOOLEAN,
         \A d \in Caller \ {c} : Running(d)' <=> Running(d)
  PROVE  [d \in Caller |-> call[d] # "none" /\ pc[d] # "idle"]'
         = [[d \in Caller |-> call[d] # "none" /\ pc[d] # "idle"] EXCEPT ![c] = b]
<1> DEFINE after == [d \in Caller |-> call'[d] # "none" /\ pc'[d] # "idle"]
           before == [d \in Caller |-> call[d] # "none" /\ pc[d] # "idle"]
<1>1. ASSUME NEW d \in Caller PROVE after[d] = [before EXCEPT ![c] = b][d]
  <2>1. CASE d = c
    <3>1. after[d] = (call'[c] # "none" /\ pc'[c] # "idle")
      BY <2>1
    <3>2. [before EXCEPT ![c] = b][d] = b
      BY <2>1
    <3> QED BY <3>1, <3>2, Zenon DEF Running
  <2>2. CASE d # c
    <3>1. after[d] = (call'[d] # "none" /\ pc'[d] # "idle")
      OBVIOUS
    <3>2. [before EXCEPT ![c] = b][d] = (call[d] # "none" /\ pc[d] # "idle")
      BY <2>2
    <3> QED BY <2>2, <3>1, <3>2, Zenon DEF Running
  <2> QED BY <2>1, <2>2
<1> QED BY <1>1

(* A step of one request changes its own place in `running` only.           *)
LEMMA OthersRun ==
  ASSUME TypeOK, ServerTyped, NEW c \in Caller, NEW where, NEW b \in BOOLEAN,
         pc' = [pc EXCEPT ![c] = where] \/ pc' = pc,
         call' = call \/ \E which : call' = [call EXCEPT ![c] = which],
         Running(c)' <=> b
  PROVE  [d \in Caller |-> call[d] # "none" /\ pc[d] # "idle"]'
         = [[d \in Caller |-> call[d] # "none" /\ pc[d] # "idle"] EXCEPT ![c] = b]
<1>1. \A d \in Caller \ {c} : pc'[d] = pc[d] /\ call'[d] = call[d]
  BY ConstantsTyped DEF TypeOK, ServerTyped
<1>2. \A d \in Caller \ {c} : Running(d)' <=> Running(d)
  BY <1>1 DEF Running
<1> QED BY <1>2, RunningAfter

LEMMA ContractAttempt ==
  ASSUME Served, NEW c \in Caller,
         \/ TransportFails(c)
         \/ \E o \in Outcome : Replies(c, o)
         \/ \E o \in Outcome \cup {"transport"} : Direct(c, o)
  PROVE  Contract!Next
<1> DEFINE running == [d \in Caller |-> call[d] # "none" /\ pc[d] # "idle"]
<1>0. /\ TypeOK /\ ServerTyped /\ InService(c) /\ c \in Proc
      /\ pc \in [Proc -> {"idle", "load", "lockLoad", "fetch", "reloaded",
                          "startLoops", "waitProbe", "waiting", "pick", "using",
                          "error", "done"}]
  BY ServedParts, ConstantsTyped DEF TypeOK
<1>1. ASSUME TransportFails(c) PROVE Contract!Attempt(c, "transport")
  <2>1. call[c] # "none" /\ pc[c] = "using" /\ UNCHANGED call
    BY <1>1 DEF TransportFails
  <2>2. running[c] /\ tries[c] < Attempts
    BY <1>0, <2>1 DEF InService
  <2>3. /\ pc' = [pc EXCEPT ![c] = IF MoreTries(c) THEN "load" ELSE "idle"]
        /\ tries' = [tries EXCEPT ![c] = @ + 1]
        /\ last' = [last EXCEPT ![c] = "transport"]
    BY <1>1 DEF TransportFails, Goto
  <2>4. Running(c)' <=> MoreTries(c)
    BY <1>0, <2>1, <2>3 DEF Running
  <2>5. running' = [running EXCEPT ![c] = MoreTries(c)]
    <3>1. MoreTries(c) \in BOOLEAN
      BY DEF MoreTries
    <3> QED BY <1>0, <2>1, <2>3, <2>4, <3>1, OthersRun
  <2>6. MoreTries(c) = ("transport" \in Contract!Retryable \cup {"transport"}
                        /\ tries[c] + 1 < Attempts)
    BY DEF MoreTries
  <2> QED BY <2>1, <2>2, <2>3, <2>5, <2>6 DEF Contract!Attempt
<1>2. ASSUME NEW o \in Outcome, Replies(c, o) PROVE Contract!Attempt(c, o)
  <2> DEFINE again == o \in Retryable /\ MoreTries(c)
  <2>1. call[c] # "none" /\ pc[c] = "using" /\ UNCHANGED call
    BY <1>2 DEF Replies
  <2>2. running[c] /\ tries[c] < Attempts
    BY <1>0, <2>1 DEF InService
  <2>3. /\ pc' = [pc EXCEPT ![c] = IF again THEN "load" ELSE "idle"]
        /\ tries' = [tries EXCEPT ![c] = @ + 1]
        /\ last' = [last EXCEPT ![c] = o]
    BY <1>2 DEF Replies, Goto
  <2>4. Running(c)' <=> again
    BY <1>0, <2>1, <2>3 DEF Running
  <2>5. running' = [running EXCEPT ![c] = again]
    BY <1>0, <2>1, <2>3, <2>4, OthersRun DEF MoreTries
  <2>6. again = (o \in Contract!Retryable \cup {"transport"}
                 /\ tries[c] + 1 < Attempts)
    BY DEF MoreTries, Retryable, Contract!Retryable, Outcome
  <2> QED BY <2>1, <2>2, <2>3, <2>5, <2>6 DEF Contract!Attempt
<1>3. ASSUME NEW o \in Outcome \cup {"transport"}, Direct(c, o)
      PROVE  Contract!Direct(c, o)
  <2>1. call[c] # "none" /\ pc[c] = "error" /\ UNCHANGED <<call, tries>>
    BY <1>3 DEF Direct, GiveUp
  <2>2. running[c] /\ tries[c] < Attempts
    BY <1>0, <2>1 DEF InService
  <2>3. /\ pc' = [pc EXCEPT ![c] = "idle"]
        /\ last' = [last EXCEPT ![c] = o]
    BY <1>3 DEF Direct, GiveUp, Goto
  <2>4. Running(c)' <=> FALSE
    BY <1>0, <2>1, <2>3 DEF Running
  <2>5. running' = [running EXCEPT ![c] = FALSE]
    BY <1>0, <2>1, <2>3, <2>4, OthersRun
  <2> QED BY <2>1, <2>2, <2>3, <2>5 DEF Contract!Direct
<1>4. Outcome \cup {"transport"} \subseteq Contract!Attempted
  BY DEF Outcome, Contract!Attempted, Contract!Retryable
<1>5. ASSUME NEW o \in Contract!Attempted,
             Contract!Attempt(c, o) \/ Contract!Direct(c, o)
      PROVE  Contract!Next
  BY <1>5 DEF Contract!Next, Contract!Step
<1>6. "transport" \in Contract!Attempted
  BY <1>4
<1> QED BY <1>1, <1>2, <1>3, <1>4, <1>5, <1>6

LEMMA ContractStarts ==
  ASSUME Served, NEW c \in Caller, NEW which \in {"first", "nudge"},
         Starts(c, which), pc' = [pc EXCEPT ![c] = "load"]
  PROVE  Contract!Starts(c, which)
<1> DEFINE running == [d \in Caller |-> call[d] # "none" /\ pc[d] # "idle"]
<1>0. TypeOK /\ ServerTyped /\ c \in Proc
  BY ServedParts, ConstantsTyped
<1>1. Running(c)' <=> TRUE
  BY <1>0 DEF Running, Starts, TypeOK, ServerTyped
<1>2. call' = [call EXCEPT ![c] = which]
  BY DEF Starts
<1>3. running' = [running EXCEPT ![c] = TRUE]
  BY <1>0, <1>1, <1>2, OthersRun
<1> QED BY <1>3 DEF Starts, Contract!Starts

LEMMA ContractDeliver ==
  ASSUME Served, NEW c \in Caller, Deliver(c)
  PROVE  Contract!Deliver(c)
<1> DEFINE running == [d \in Caller |-> call[d] # "none" /\ pc[d] # "idle"]
<1>0. TypeOK /\ ServerTyped
  BY ServedParts
<1>1. pc[c] = "idle" /\ call[c] # "none" /\ UNCHANGED pc
  BY DEF Deliver, vars
<1>2. ~running[c]
  BY <1>1
<1>3. UNCHANGED running
  <2>1. ASSUME NEW d \in Caller
        PROVE  (call'[d] # "none" /\ pc'[d] # "idle")
               <=> (call[d] # "none" /\ pc[d] # "idle")
    <3>1. d # c => call'[d] = call[d]
      BY <1>0 DEF Deliver, ServerTyped
    <3> QED BY <1>1, <3>1
  <2>2. ASSUME NEW d \in Caller PROVE running'[d] = running[d]
    BY <2>1, Zenon
  <2> QED BY <2>2
<1> QED BY <1>1, <1>2, <1>3 DEF Deliver, Contract!Deliver

(* Whatever the request, its step is a step of the contract, or none.       *)
LEMMA ContractStep ==
  Served /\ [HttpNext]_serverVars => [Contract!Next]_(Contract!vars)
<1> SUFFICES ASSUME Served, [HttpNext]_serverVars
             PROVE  Contract!Next \/ UNCHANGED Contract!vars
  OBVIOUS
<1> DEFINE running == [d \in Caller |-> call[d] # "none" /\ pc[d] # "idle"]
<1>0. /\ TypeOK /\ ServerTyped /\ \A c \in Caller : c \in Proc /\ Owes(c)
      /\ pc \in [Proc -> {"idle", "load", "lockLoad", "fetch", "reloaded",
                          "startLoops", "waitProbe", "waiting", "pick", "using",
                          "error", "done"}]
  BY ServedParts, ConstantsTyped DEF TypeOK
<1>1. ASSUME UNCHANGED <<call, tries, last>>,
             \A d \in Caller : Running(d)' <=> Running(d)
      PROVE  UNCHANGED Contract!vars
  <2>1. ASSUME NEW d \in Caller PROVE running'[d] = running[d]
    BY <1>1, Zenon DEF Running
  <2>2. UNCHANGED running
    BY <2>1
  <2> QED BY <1>1, <2>2 DEF Contract!vars
<1>2. CASE PoolStep
  BY <1>0, <1>1, <1>2, PoolStepFrame DEF Running, chatVars
<1>3. ASSUME NEW c \in Caller, ChatStep(c)
      PROVE  Contract!Next \/ UNCHANGED Contract!vars
  <2>1. CASE Refuse(c) \/ Cancel(c) \/ Stalls(c) \/ Drain(c)
    BY <1>1, <2>1 DEF Refuse, Cancel, Stalls, Drain, allVars, chatVars, vars,
                      Running
  <2>2. ASSUME NEW k, AcceptChat(c, k) PROVE Contract!Accept(c)
    BY <2>2, ContractStarts DEF AcceptChat, Accept, Begin, Goto, Contract!Accept
  <2>3. ASSUME NudgeUnary(c) PROVE Contract!Nudge(c)
    BY <2>3, ContractStarts DEF NudgeUnary, Nudge, Goto, Contract!Nudge
  <2>4. ASSUME ReplyChat(c) PROVE Contract!Deliver(c)
    BY <2>4, ContractDeliver DEF ReplyChat
  <2>5. Contract!Accept(c) \/ Contract!Nudge(c) \/ Contract!Deliver(c)
          => Contract!Next
    BY DEF Contract!Next, Contract!Step
  <2> QED BY <1>3, <2>1, <2>2, <2>3, <2>4, <2>5, ContractAttempt
          DEF ChatStep, Attempt
<1>4. ASSUME NEW c \in Caller, IpStep(c) PROVE UNCHANGED Contract!vars
  <2>1. kind[c] \in {"none", "ip"} /\ UNCHANGED chatVars
    BY <1>4 DEF IpStep, AcceptIp, Arrives, LookupWorks, LookupFails, NoNodes,
                DirectLookup, ReplyIp, allVars
  <2>2. call[c] = "none" /\ call' = call
    BY <1>0, <2>1 DEF Owes, chatVars, ServerTyped
  <2>3. \E where : pc' = [pc EXCEPT ![c] = where] \/ pc' = pc
    BY <1>4 DEF IpStep, AcceptIp, Begin, LookupWorks, LookupFails, NoNodes,
                GiveUp, DirectLookup, ReplyIp, allVars, vars, Goto
  <2>4. \A d \in Caller : Running(d)' <=> Running(d)
    BY <1>0, <2>2, <2>3 DEF Running
  <2> QED BY <1>1, <2>1, <2>4 DEF chatVars
<1>5. CASE UNCHANGED serverVars
  BY <1>1, <1>5 DEF serverVars, allVars, chatVars, vars, Running
<1> QED BY <1>2, <1>3, <1>4, <1>5 DEF HttpNext

(* What the service does, seen without the pool, is what ChatContract says  *)
(* that it promises: for any number of requests, nodes and attempts.        *)
THEOREM ContractImplemented == HttpSpec => ImplementsContract
<1>1. HttpInit => Contract!Init
  BY ContractInit
<1> QED BY <1>1, ContractStep, ServedAlways, PTL
        DEF HttpSpec, ImplementsContract, Contract!Spec
==============================================================================
