-------------------------- MODULE RpcBridgeProofs ----------------------------
(****************************************************************************)
(* What holds of the Node layer and its cores for any number of requests,   *)
(* crashes and frames.                                                      *)
(****************************************************************************)
EXTENDS RpcBridge, FiniteSetTheorems, SequenceTheorems, TLAPS

(* Types, in full: what a promise may resolve to and what a response may be.*)
Promise  == {Idle, Waiting, Gone} \cup [type : {"end", "result", "refusal"}, from : Call]
Response == [head : {"none", "sse", "rejected", "200", "refused", "502", "503"},
             from : Call \cup {None}, chunks : Seq(Call \X (0..MaxFrames)),
             ended : BOOLEAN]

TypeInv ==
  /\ child \in Core \cup {0} /\ nextId \in 1..(Cardinality(Call) + 1)
  /\ pending \in [Id -> Call \cup {None}]
  /\ outcome \in [Call -> Promise]
  /\ reply \in [Call -> Response]
  /\ core \in [Core -> {"unborn", "reading", "draining", "down", "reaped"}]
  /\ inbox \in [Core -> Seq(Request)]
  /\ outbox \in [Core -> Seq(Message)]
  /\ tasks \in [Core -> SUBSET Task]
  /\ broken \subseteq Streams
  /\ \A g \in Core : \A t \in tasks[g] :
       /\ t.phase = "asking" => t.sent = 0
       /\ t.phase = "streaming" => t.from \in Streams

(* A request waits exactly as long as one entry of `pending` names it, and  *)
(* ids are handed out once.                                                 *)
Started == {h \in Call : outcome[h] # Idle}

CallInv ==
  /\ nextId = Cardinality(Started) + 1
  /\ \A i \in Id : i >= nextId => pending[i] = None
  /\ \A i \in Id : pending[i] # None => outcome[pending[i]] = Waiting
  /\ \A i, j \in Id : pending[i] # None /\ pending[i] = pending[j] => i = j
  /\ \A h \in Call : outcome[h] = Waiting =>
       (\E i \in Id : pending[i] = h) /\ ~reply[h].ended

(* The core in use is the one that runs, or has died unnoticed.             *)
CoreInv ==
  /\ OneCore
  /\ child # 0 => core[child] \in {"reading", "draining", "down"}
  /\ child = 0 => \A i \in Id : pending[i] = None
  /\ \A g \in Core : g >= nextId => core[g] = "unborn"

------------------------------------------------------------------------------
LEMMA CountTyped ==
  /\ Cardinality(Call) \in Nat
  /\ Id = 1..Cardinality(Call) /\ Core = 1..Cardinality(Call)
  /\ None \notin Call /\ MaxFrames \in Nat
BY CallAssumption, StreamAssumption, FS_CardinalityType DEF Id, Core

(* There is an id left for a request that has not been called yet.          *)
LEMMA IdLeft ==
  ASSUME TypeInv, CallInv, NEW h \in Call, outcome[h] = Idle
  PROVE  nextId \in Id
<1>1. Started \subseteq Call /\ Started # Call
  BY DEF Started
<1>2. IsFiniteSet(Call)
  BY CallAssumption
<1>3. Cardinality(Started) <= Cardinality(Call) /\ Cardinality(Started) # Cardinality(Call)
  BY <1>1, <1>2, FS_Subset
<1>4. Cardinality(Started) \in Nat
  BY <1>1, <1>2, FS_Subset, FS_CardinalityType
<1> QED
  BY <1>3, <1>4, CountTyped DEF CallInv

(* What Read does: a line too long stops the scanner, any other becomes a   *)
(* goroutine.                                                               *)
Born(r) == [id |-> r.id, from |-> r.from, sent |-> 0, phase |-> "asking"]

LEMMA ReadCases ==
  ASSUME NEW g \in Core, Read(g)
  PROVE  \/ core' = [core EXCEPT ![g] = "draining"] /\ UNCHANGED <<inbox, tasks>>
         \/ /\ core' = core
            /\ inbox' = [inbox EXCEPT ![g] = Tail(@)]
            /\ tasks' = [tasks EXCEPT ![g] = @ \cup {Born(Head(inbox[g]))}]
<1>1. CASE Head(inbox[g]).from \in Oversized
  BY <1>1 DEF Read
<1>2. CASE Head(inbox[g]).from \notin Oversized
  BY <1>2, Zenon DEF Read, Born
<1> QED
  BY <1>1, <1>2

LEMMA InitTypes == Init => TypeInv
<1> SUFFICES ASSUME Init PROVE TypeInv
  OBVIOUS
<1>1. NoReply \in Response
  BY DEF NoReply, Response
<1>2. Idle \in Promise
  BY DEF Promise
<1> QED
  BY <1>1, <1>2, CountTyped DEF Init, TypeInv

LEMMA StepTypes == TypeInv /\ CallInv /\ [Next]_vars => TypeInv'
<1> SUFFICES ASSUME TypeInv, CallInv, [Next]_vars PROVE TypeInv'
  OBVIOUS
<1> USE DEF TypeInv
<1>1. ASSUME NEW h \in Call, rpcCall(h) PROVE TypeInv'
  <2>1. nextId \in Id
    BY <1>1, IdLeft DEF rpcCall
  <2>2. [id |-> nextId, from |-> h] \in Request
    BY <2>1 DEF Request
  <2>3. nextId' \in 1..(Cardinality(Call) + 1)
    BY <1>1, <2>1, CountTyped DEF rpcCall, NewId
  <2>4. inbox' \in [Core -> Seq(Request)]
    BY <1>1, <2>2 DEF rpcCall, NewId
  <2>5. outcome' \in [Call -> Promise] /\ pending' \in [Id -> Call \cup {None}]
    BY <1>1, <2>1 DEF rpcCall, NewId, Promise
  <2> QED
    BY <1>1, <2>3, <2>4, <2>5 DEF rpcCall
<1>2. ASSUME NEW h \in Call, Reject(h) PROVE TypeInv'
  <2> DEFINE r == [reply[h] EXCEPT !.head = "rejected", !.ended = TRUE]
  <2>1. reply[h] \in Response
    OBVIOUS
  <2>2. r \in Response
    BY <2>1 DEF Response
  <2>3. reply' = [reply EXCEPT ![h] = r]
    BY <1>2 DEF Reject
  <2>4. reply' \in [Call -> Response]
    BY <2>2, <2>3
  <2> QED
    BY <1>2, <2>4 DEF Reject, go
<1>3. ASSUME NEW h \in Call, Answer(h) PROVE TypeInv'
  <2>1. outcome[h] \in Promise /\ reply[h] \in Response
    OBVIOUS
  <2>2. outcome[h].from \in Call \cup {None}
    BY <2>1 DEF Promise, Idle, Waiting, Gone
  <2>3. HeadOf(h) \in {"refused", "200", "502", "503"}
    BY Zenon DEF HeadOf
  <2>4. reply'[h] \in Response
    BY <1>3, <2>1, <2>2, <2>3 DEF Answer, Response
  <2>5. reply' \in [Call -> Response]
    BY <1>3, <2>4 DEF Answer
  <2> QED
    BY <1>3, <2>5 DEF Answer, go
<1>4. ASSUME NEW g \in Core, Line(g) PROVE TypeInv'
  <2> DEFINE m == Head(outbox[g])
             h == pending[m.id]
  <2>1. m \in Message /\ outbox' \in [Core -> Seq(Message)]
    BY <1>4 DEF Line
  <2>2. m.id \in Id /\ h \in Call \cup {None}
    BY <2>1 DEF Message
  <2>3. CASE h = None /\ UNCHANGED <<pending, outcome, reply>>
    BY <1>4, <2>1, <2>3 DEF Line
  <2>4. CASE h # None /\ m.type = "sse" /\ Frame(h, m)
    <3>1. reply[h] \in Response
      BY <2>2, <2>4
    <3>2. <<m.from, m.n>> \in Call \X (0..MaxFrames)
      BY <2>1 DEF Message
    <3>3. Append(reply[h].chunks, <<m.from, m.n>>) \in Seq(Call \X (0..MaxFrames))
      BY <3>1, <3>2 DEF Response
    <3> DEFINE r == WithChunk(reply[h], m)
    <3>4. r \in Response
      BY <3>1, <3>3 DEF WithChunk, Response
    <3>5. reply' = [reply EXCEPT ![h] = r]
      BY <2>4 DEF Frame
    <3>6. reply' \in [Call -> Response]
      BY <3>4, <3>5
    <3> QED
      BY <1>4, <2>1, <2>4, <3>6 DEF Line, Frame
  <2>5. CASE h # None /\ m.type # "sse" /\ Resolve(h, m)
    <3>1. (IF m.type = "error" THEN Gone ELSE [type |-> m.type, from |-> m.from]) \in Promise
      BY <2>1, <2>5 DEF Promise, Message
    <3>2. outcome' \in [Call -> Promise]
      BY <2>2, <2>5, <3>1 DEF Resolve
    <3>3. pending' \in [Id -> Call \cup {None}]
      BY <2>2, <2>5 DEF Resolve
    <3> QED
      BY <1>4, <2>1, <2>5, <3>2, <3>3 DEF Line, Resolve
  <2> QED
    BY <1>4, <2>3, <2>4, <2>5 DEF Line
<1>5. ASSUME NEW g \in Core, Exit(g) PROVE TypeInv'
  <2>1. outcome' \in [Call -> Promise]
    BY <1>5 DEF Exit, OutcomeAfterExit, Promise
  <2> QED
    BY <1>5, <2>1 DEF Exit, PendingAfterExit
<1>6. ASSUME NEW g \in Core, Read(g) PROVE TypeInv'
  <2>1. Head(inbox[g]) \in Request
    BY <1>6 DEF Read
  <2> DEFINE u == Born(Head(inbox[g]))
  <2>2. u \in Task /\ u.phase = "asking" /\ u.sent = 0
    BY <2>1, CountTyped DEF Request, Task, Born
  <2> HIDE DEF u
  <2>3. CASE core' = [core EXCEPT ![g] = "draining"] /\ UNCHANGED <<inbox, tasks>>
    BY <1>6, <2>3 DEF Read, node
  <2>4. CASE /\ core' = core
             /\ inbox' = [inbox EXCEPT ![g] = Tail(@)]
             /\ tasks' = [tasks EXCEPT ![g] = @ \cup {u}]
    <3>1. tasks' \in [Core -> SUBSET Task]
      BY <2>2, <2>4
    <3>2. inbox' \in [Core -> Seq(Request)]
      BY <1>6, <2>4 DEF Read
    <3>3. \A f \in Core : \A t \in tasks'[f] : t \in tasks[f] \/ t = u
      BY <2>4
    <3>4. \A f \in Core : \A t \in tasks'[f] :
            /\ t.phase = "asking" => t.sent = 0
            /\ t.phase = "streaming" => t.from \in Streams
      BY <2>2, <2>4, <3>3
    <3> QED
      BY <1>6, <2>4, <3>1, <3>2, <3>4 DEF Read, node
  <2> QED
    BY <1>6, <2>3, <2>4, ReadCases DEF u
<1>7. ASSUME NEW g \in Core, Stop(g) PROVE TypeInv'
  BY <1>7 DEF Stop, node
<1>8. ASSUME NEW g \in Core, Crash(g) PROVE TypeInv'
  BY <1>8 DEF Crash, node
<1>9. ASSUME NEW g \in Core, NEW i \in Id, Handle(g, i) PROVE TypeInv'
  <2>1. PICK t \in tasks[g] : t.id = i /\ TaskStep(g, t)
    BY <1>9 DEF Handle
  <2>2. t \in Task
    OBVIOUS
  <2>3. CASE Finish(g, t) /\ UNCHANGED broken
    <3>1. PICK w \in LastWord(t) : Send(g, t, w, 0) /\ Leave(g, t)
      BY <2>3 DEF Finish
    <3>2. [id |-> t.id, from |-> t.from, type |-> w, n |-> 0] \in Message
      BY <2>2, <3>1, CountTyped DEF LastWord, Message, Task
    <3>3. outbox' \in [Core -> Seq(Message)]
      BY <3>1, <3>2 DEF Send
    <3> QED
      BY <2>1, <2>3, <3>1, <3>3 DEF Leave, TaskStep, node
  <2>4. CASE OpenStream(g, t) /\ UNCHANGED broken
    <3> DEFINE u == [t EXCEPT !.phase = "streaming"]
    <3>1. u \in Task /\ u.phase = "streaming" /\ u.from = t.from
      BY <2>2 DEF Task
    <3>2. t.from \in Streams /\ tasks' = [tasks EXCEPT ![g] = (@ \ {t}) \cup {u}]
      BY <2>4 DEF OpenStream, Become
    <3> HIDE DEF u
    <3>3. tasks' \in [Core -> SUBSET Task]
      BY <3>1, <3>2
    <3>4. \A f \in Core : \A x \in tasks'[f] : x \in tasks[f] \/ x = u
      BY <3>2
    <3>5. \A f \in Core : \A x \in tasks'[f] :
            /\ x.phase = "asking" => x.sent = 0
            /\ x.phase = "streaming" => x.from \in Streams
      BY <3>1, <3>2, <3>4
    <3> QED
      BY <2>1, <2>4, <3>3, <3>5 DEF OpenStream, TaskStep, node
  <2>5. CASE PassFrame(g, t) /\ UNCHANGED broken
    <3>1. t.sent \in 0..MaxFrames /\ t.sent < MaxFrames
      BY <2>2, <2>5 DEF PassFrame, Task
    <3>2. t.sent + 1 \in 0..MaxFrames
      BY <3>1, CountTyped
    <3>3. [id |-> t.id, from |-> t.from, type |-> "sse", n |-> t.sent + 1] \in Message
      BY <2>2, <3>2 DEF Message, Task
    <3>4. outbox' \in [Core -> Seq(Message)]
      BY <2>5, <3>3 DEF PassFrame, Send
    <3> DEFINE u == [t EXCEPT !.sent = @ + 1]
    <3>5. u \in Task /\ u.phase = "streaming" /\ u.from = t.from
      BY <2>2, <2>5, <3>2 DEF Task, PassFrame
    <3>6. t.from \in Streams /\ tasks' = [tasks EXCEPT ![g] = (@ \ {t}) \cup {u}]
      BY <2>5 DEF PassFrame, Become
    <3> HIDE DEF u
    <3>7. tasks' \in [Core -> SUBSET Task]
      BY <3>5, <3>6
    <3>8. \A f \in Core : \A x \in tasks'[f] : x \in tasks[f] \/ x = u
      BY <3>6
    <3>9. \A f \in Core : \A x \in tasks'[f] :
            /\ x.phase = "asking" => x.sent = 0
            /\ x.phase = "streaming" => x.from \in Streams
      BY <3>5, <3>6, <3>8
    <3> QED
      BY <2>1, <2>5, <3>4, <3>7, <3>9 DEF TaskStep, node
  <2>6. CASE BreakStream(g, t)
    BY <2>1, <2>6 DEF BreakStream, Leave, TaskStep, node
  <2> QED
    BY <2>1, <2>3, <2>4, <2>5, <2>6 DEF TaskStep
<1>10. CASE UNCHANGED vars
  BY <1>10 DEF vars, node, go
<1> QED
  BY <1>1, <1>2, <1>3, <1>4, <1>5, <1>6, <1>7, <1>8, <1>9, <1>10 DEF Next

------------------------------------------------------------------------------
(* The calls: how many there were, and who waits.                           *)
LEMMA Distinct == Idle # Waiting /\ Idle # Gone /\ Waiting # Gone
BY DEF Idle, Waiting, Gone

(* What Resolve leaves is neither unstarted nor waiting.                    *)
LEMMA Resolved ==
  ASSUME NEW h, NEW m \in Message, m.type # "sse", Resolve(h, m),
         outcome \in [Call -> Promise], h \in Call
  PROVE  outcome'[h] \notin {Idle, Waiting}
<1>1. outcome'[h] = IF m.type = "error" THEN Gone ELSE [type |-> m.type, from |-> m.from]
  BY DEF Resolve
<1>2. CASE m.type = "error"
  BY <1>1, <1>2, Distinct
<1>3. CASE m.type # "error"
  BY <1>1, <1>3 DEF Message, Idle, Waiting
<1> QED
  BY <1>2, <1>3

LEMMA StepCalls == TypeInv /\ CallInv /\ [Next]_vars => CallInv'
<1> SUFFICES ASSUME TypeInv, CallInv, [Next]_vars PROVE CallInv'
  OBVIOUS
<1>0. IsFiniteSet(Call) /\ IsFiniteSet(Started) /\ Cardinality(Started) \in Nat
  BY CallAssumption, FS_Subset, FS_CardinalityType DEF Started
<1>1. ASSUME NEW h \in Call, rpcCall(h) PROVE CallInv'
  <2>1. nextId \in Id /\ nextId' = nextId + 1 /\ nextId \in Nat
    BY <1>1, IdLeft, CountTyped DEF rpcCall, NewId
  <2>2. pending' = [pending EXCEPT ![nextId] = h] /\ outcome' = [outcome EXCEPT ![h] = Waiting]
    BY <1>1 DEF rpcCall, NewId
  <2>3. outcome[h] = Idle /\ ~reply[h].ended /\ reply' = reply
    BY <1>1 DEF rpcCall
  <2>4. Started' = Started \cup {h} /\ h \notin Started
    BY <2>2, <2>3, Distinct DEF Started, TypeInv
  <2>5. nextId' = Cardinality(Started') + 1
    BY <1>0, <2>1, <2>4, FS_AddElement DEF CallInv
  <2>6. \A i \in Id : i >= nextId' => pending'[i] = None
    BY <2>1, <2>2, CountTyped DEF CallInv, TypeInv
  <2>7. \A i \in Id : pending[i] # h
    BY <2>3, Distinct, CountTyped DEF CallInv
  <2>8. \A i \in Id : pending'[i] # None => outcome'[pending'[i]] = Waiting
    BY <2>1, <2>2, <2>7 DEF CallInv, TypeInv
  <2>9. \A i, j \in Id : pending'[i] # None /\ pending'[i] = pending'[j] => i = j
    BY <2>1, <2>2, <2>7 DEF CallInv, TypeInv
  <2>10. \A f \in Call : outcome'[f] = Waiting => (\E i \in Id : pending'[i] = f) /\ ~reply'[f].ended
    <3> SUFFICES ASSUME NEW f \in Call, outcome'[f] = Waiting
                 PROVE  (\E i \in Id : pending'[i] = f) /\ ~reply'[f].ended
      OBVIOUS
    <3>1. CASE f = h
      BY <2>1, <2>2, <2>3, <3>1 DEF TypeInv
    <3>2. CASE f # h
      <4>1. outcome[f] = Waiting
        BY <2>2, <3>2 DEF TypeInv
      <4>2. PICK i \in Id : pending[i] = f
        BY <4>1 DEF CallInv
      <4>3. i # nextId
        BY <2>1, <4>2, CountTyped DEF CallInv
      <4> QED
        BY <2>2, <2>3, <4>1, <4>2, <4>3 DEF CallInv, TypeInv
    <3> QED
      BY <3>1, <3>2
  <2> QED
    BY <2>5, <2>6, <2>8, <2>9, <2>10 DEF CallInv
<1>2. ASSUME NEW h \in Call, Reject(h) PROVE CallInv'
  <2>1. outcome[h] = Idle /\ UNCHANGED <<nextId, pending, outcome>>
    BY <1>2 DEF Reject
  <2>2. \A f \in Call : f # h => reply'[f] = reply[f]
    BY <1>2 DEF Reject, TypeInv
  <2>3. Started' = Started
    BY <2>1 DEF Started
  <2> QED
    BY <2>1, <2>2, <2>3, Distinct DEF CallInv
<1>3. ASSUME NEW h \in Call, Answer(h) PROVE CallInv'
  <2>1. outcome[h] # Waiting /\ UNCHANGED <<nextId, pending, outcome>>
    BY <1>3 DEF Answer
  <2>2. \A f \in Call : f # h => reply'[f] = reply[f]
    BY <1>3 DEF Answer, TypeInv
  <2>3. Started' = Started
    BY <2>1 DEF Started
  <2> QED
    BY <2>1, <2>2, <2>3 DEF CallInv
<1>4. ASSUME NEW g \in Core, Line(g) PROVE CallInv'
  <2> DEFINE m == Head(outbox[g])
             h == pending[m.id]
  <2>1. m \in Message /\ nextId' = nextId
    BY <1>4 DEF Line, TypeInv
  <2>2. m.id \in Id /\ h \in Call \cup {None}
    BY <2>1 DEF Message, TypeInv
  <2> HIDE DEF m, h
  <2>3. CASE h = None /\ UNCHANGED <<pending, outcome, reply>>
    BY <2>1, <2>3 DEF CallInv, Started
  <2>4. CASE h # None /\ Frame(h, m)
    <3>1. \A f \in Call : reply'[f].ended = reply[f].ended
      BY <2>2, <2>4 DEF Frame, WithChunk, TypeInv, Response
    <3>2. UNCHANGED <<pending, outcome>> /\ Started' = Started
      BY <2>4 DEF Frame, Started
    <3> QED
      BY <2>1, <3>1, <3>2 DEF CallInv
  <2>5. CASE h # None /\ m.type # "sse" /\ Resolve(h, m)
    <3>1. h \in Call /\ outcome[h] = Waiting
      BY <2>2, <2>5 DEF CallInv, h
    <3>2. outcome'[h] \notin {Idle, Waiting}
      BY <2>1, <2>5, <3>1, Resolved DEF TypeInv
    <3>3. \A f \in Call : f # h => outcome'[f] = outcome[f]
      BY <2>5 DEF Resolve, TypeInv
    <3>4. Started' = Started
      BY <3>1, <3>2, <3>3, Distinct DEF Started
    <3>5. pending' = [pending EXCEPT ![m.id] = None] /\ reply' = reply
      BY <2>5 DEF Resolve
    <3>6. \A i \in Id : pending'[i] = IF i = m.id THEN None ELSE pending[i]
      BY <2>2, <3>5 DEF TypeInv
    <3>7. pending[m.id] = h
      BY DEF h
    <3>8. \A i \in Id : pending'[i] # None => pending'[i] # h /\ pending[i] = pending'[i]
      BY <2>2, <3>1, <3>6, <3>7, CountTyped DEF CallInv
    <3>9. \A i \in Id : pending'[i] # None => outcome'[pending'[i]] = Waiting
      <4> SUFFICES ASSUME NEW i \in Id, pending'[i] # None
                   PROVE  outcome'[pending'[i]] = Waiting
        OBVIOUS
      <4>1. pending'[i] = pending[i] /\ pending[i] \in Call /\ pending[i] # h
        BY <3>8 DEF TypeInv
      <4> QED
        BY <3>3, <4>1, CountTyped DEF CallInv
    <3>10. \A f \in Call : outcome'[f] = Waiting => (\E i \in Id : pending'[i] = f) /\ ~reply'[f].ended
      <4> SUFFICES ASSUME NEW f \in Call, outcome'[f] = Waiting
                   PROVE  (\E i \in Id : pending'[i] = f) /\ ~reply'[f].ended
        OBVIOUS
      <4>1. f # h /\ outcome[f] = Waiting
        BY <3>2, <3>3
      <4>2. PICK i \in Id : pending[i] = f
        BY <4>1 DEF CallInv
      <4>3. pending'[i] = f
        BY <3>6, <3>7, <4>1, <4>2
      <4> QED
        BY <3>5, <4>1, <4>3 DEF CallInv
    <3> QED
      BY <2>1, <3>4, <3>6, <3>8, <3>9, <3>10 DEF CallInv
  <2> QED
    BY <1>4, <2>3, <2>4, <2>5 DEF Line, m, h
<1>5. ASSUME NEW g \in Core, Exit(g) PROVE CallInv'
  <2>1. \A i \in Id : pending'[i] = None
    BY <1>5 DEF Exit, PendingAfterExit
  <2>2. \A f \in Call : outcome'[f] = IF f \in Awaited THEN Gone ELSE outcome[f]
    BY <1>5 DEF Exit, OutcomeAfterExit
  <2>3. \A f \in Call : f \in Awaited <=> outcome[f] = Waiting
    BY CountTyped DEF Awaited, CallInv
  <2>4. Started' = Started /\ \A f \in Call : outcome'[f] # Waiting
    BY <2>2, <2>3, Distinct DEF Started
  <2>5. nextId' = nextId /\ reply' = reply
    BY <1>5 DEF Exit
  <2> QED
    BY <2>1, <2>4, <2>5 DEF CallInv
<1>6. ASSUME UNCHANGED <<nextId, pending, outcome, reply>> PROVE CallInv'
  BY <1>6 DEF CallInv, Started
<1>7. ASSUME NEW g \in Core, Read(g) \/ Stop(g) \/ Crash(g) PROVE CallInv'
  BY <1>6, <1>7 DEF Read, Stop, Crash, node
<1>8. ASSUME NEW g \in Core, NEW i \in Id, Handle(g, i) PROVE CallInv'
  BY <1>6, <1>8 DEF Handle, TaskStep, node
<1>9. CASE UNCHANGED vars
  BY <1>6, <1>9 DEF vars, node
<1> QED
  BY <1>1, <1>2, <1>3, <1>4, <1>5, <1>7, <1>8, <1>9 DEF Next

------------------------------------------------------------------------------
(* The cores: cores are spawned in order, so there is one left for every    *)
(* request that has not been called.                                        *)
LEMMA StepCore == TypeInv /\ CallInv /\ CoreInv /\ [Next]_vars => CoreInv'
<1> SUFFICES ASSUME TypeInv, CallInv, CoreInv, [Next]_vars PROVE CoreInv'
  OBVIOUS
<1>1. ASSUME NEW h \in Call, rpcCall(h) PROVE CoreInv'
  <2>1. nextId \in Core /\ nextId' = nextId + 1 /\ \A f \in Core : f \in Nat
    BY <1>1, IdLeft, CountTyped DEF rpcCall, NewId
  <2>2. CASE child = 0
    <3>1. PICK g \in Core : /\ g \in Unborn /\ \A f \in Unborn : g <= f
                            /\ child' = g /\ core' = [core EXCEPT ![g] = "reading"]
      BY <1>1, <2>2 DEF rpcCall, NeedsCore
    <3>2. g <= nextId
      BY <2>1, <3>1 DEF Unborn, CoreInv
    <3>3. \A f \in Core : f # g => core'[f] = core[f] /\ core[f] \notin {"reading", "draining", "down"}
      BY <2>1, <2>2, <3>1, CountTyped DEF CoreInv, OneCore, TypeInv
    <3>4. \A f \in Core : f >= nextId' => f # g /\ f >= nextId
      BY <2>1, <3>2
    <3>5. child' # 0 /\ core'[child'] = "reading"
      BY <2>1, <3>1, CountTyped DEF TypeInv
    <3>6. OneCore'
      BY <3>1, <3>3 DEF OneCore
    <3>7. \A f \in Core : f >= nextId' => core'[f] = "unborn"
      BY <3>3, <3>4 DEF CoreInv
    <3> QED
      BY <3>5, <3>6, <3>7 DEF CoreInv
  <2>3. CASE child # 0
    <3>1. UNCHANGED <<child, core>>
      BY <1>1, <2>3 DEF rpcCall, NeedsCore
    <3> QED
      BY <2>1, <2>3, <3>1 DEF CoreInv, OneCore
  <2> QED
    BY <2>2, <2>3
<1>2. ASSUME UNCHANGED <<child, nextId, core>>, \A i \in Id : pending'[i] \in {pending[i], None}
      PROVE  CoreInv'
  BY <1>2 DEF CoreInv, OneCore
<1>3. ASSUME NEW g \in Core, Line(g) PROVE CoreInv'
  <2>1. \A i \in Id : pending'[i] \in {pending[i], None}
    BY <1>3 DEF Line, Frame, Resolve, TypeInv
  <2> QED
    BY <1>2, <1>3, <2>1 DEF Line
<1>4. ASSUME NEW g \in Core, Exit(g) PROVE CoreInv'
  <2>1. core[g] = "down" /\ g = child
    BY <1>4 DEF Exit, CoreInv, OneCore
  <2>2. /\ child' = 0 /\ core' = [core EXCEPT ![g] = "reaped"] /\ nextId' = nextId
        /\ \A i \in Id : pending'[i] = None
    BY <1>4 DEF Exit, PendingAfterExit
  <2> QED
    BY <2>1, <2>2 DEF CoreInv, OneCore, TypeInv
<1>5. ASSUME NEW g \in Core, core[g] \in {"reading", "draining"}, NEW life \in {"draining", "down"},
             core' = [core EXCEPT ![g] = life], UNCHANGED node
      PROVE  CoreInv'
  <2>1. g = child /\ child # 0
    BY <1>5, CountTyped DEF CoreInv, OneCore
  <2> QED
    BY <1>5, <2>1 DEF CoreInv, OneCore, TypeInv, node
<1>6. ASSUME NEW g \in Core, Read(g) PROVE CoreInv'
  <2>1. core[g] = "reading" /\ UNCHANGED node
    BY <1>6 DEF Read
  <2>2. core' = core \/ core' = [core EXCEPT ![g] = "draining"]
    BY <1>6, ReadCases
  <2> QED
    BY <1>2, <1>5, <2>1, <2>2 DEF node
<1>7. ASSUME NEW g \in Core, Stop(g) \/ Crash(g) PROVE CoreInv'
  BY <1>5, <1>7 DEF Stop, Drained, Crash
<1>8. ASSUME NEW h \in Call, Reject(h) \/ Answer(h) PROVE CoreInv'
  BY <1>2, <1>8 DEF Reject, Answer, go
<1>9. ASSUME NEW g \in Core, NEW i \in Id, Handle(g, i) PROVE CoreInv'
  BY <1>2, <1>9 DEF Handle, TaskStep, node
<1>10. CASE UNCHANGED vars
  BY <1>2, <1>10 DEF vars, node, go
<1> QED
  BY <1>1, <1>3, <1>4, <1>6, <1>7, <1>8, <1>9, <1>10 DEF Next

------------------------------------------------------------------------------
(* Sequences, element by element.                                           *)
LEMMA TailElements ==
  ASSUME NEW S, NEW s \in Seq(S), s # <<>>
  PROVE  /\ Head(s) = s[1] /\ 1 \in 1..Len(s) /\ Head(s) \in S
         /\ Tail(s) \in Seq(S) /\ Len(Tail(s)) = Len(s) - 1
         /\ \A k \in 1..Len(Tail(s)) : k + 1 \in 1..Len(s) /\ Tail(s)[k] = s[k + 1]
         /\ \A k \in 1..Len(s) : k # 1 => k - 1 \in 1..Len(Tail(s)) /\ Tail(s)[k - 1] = s[k]
<1>1. Len(s) \in Nat /\ Len(s) # 0 /\ \A k \in 1..Len(s) : s[k] \in S
  OBVIOUS
<1>2. Tail(s) \in Seq(S) /\ Len(Tail(s)) = Len(s) - 1 /\ Head(s) = s[1]
  OBVIOUS
<1>3. \A k \in 1..(Len(s) - 1) : Tail(s)[k] = s[k + 1]
  OBVIOUS
<1> QED
  BY <1>1, <1>2, <1>3

LEMMA AppendElements ==
  ASSUME NEW S, NEW s \in Seq(S), NEW e \in S
  PROVE  /\ Append(s, e) \in Seq(S) /\ Len(Append(s, e)) = Len(s) + 1
         /\ \A k \in 1..Len(s) : k \in 1..Len(Append(s, e)) /\ Append(s, e)[k] = s[k]
         /\ Len(s) + 1 \in 1..Len(Append(s, e)) /\ Append(s, e)[Len(s) + 1] = e
         /\ \A k \in 1..Len(Append(s, e)) :
              k \in 1..Len(s) \/ (k = Len(s) + 1 /\ Append(s, e)[k] = e)
OBVIOUS

LEMMA Typed ==
  ASSUME TypeInv, NEW g \in Core
  PROVE  /\ inbox[g] \in Seq(Request) /\ \A k \in 1..Len(inbox[g]) : inbox[g][k] \in Request
         /\ \A t \in tasks[g] : t \in Task
         /\ outbox[g] \in Seq(Message) /\ \A k \in 1..Len(outbox[g]) : outbox[g][k] \in Message
<1>1. inbox[g] \in Seq(Request) /\ outbox[g] \in Seq(Message) /\ tasks[g] \subseteq Task
  BY DEF TypeInv
<1> QED
  BY <1>1

------------------------------------------------------------------------------
(* The pipes: all they carry has an id that was handed out; if it is still  *)
(* awaited, then by the request that sent it, and the core is the one in    *)
(* use -- lines of a dead core meet nobody who waits.                       *)
Owned(g, x) ==
  /\ x.id < nextId
  /\ pending[x.id] # None => pending[x.id] = x.from /\ g = child

WireInv ==
  \A g \in Core :
    /\ \A k \in 1..Len(inbox[g]) : Owned(g, inbox[g][k])
    /\ \A t \in tasks[g] : Owned(g, t)
    /\ \A k \in 1..Len(outbox[g]) : Owned(g, outbox[g][k])

(* What a step may do to the entries there are: forget them; and those it   *)
(* leaves keep their core.                                                  *)
LEMMA PendingStep ==
  ASSUME TypeInv, CallInv, CoreInv, [Next]_vars
  PROVE  /\ nextId \in Nat /\ nextId' \in {nextId, nextId + 1}
         /\ \A i \in Id : i \in Nat /\ (i < nextId =>
              /\ pending'[i] \in {pending[i], None}
              /\ pending'[i] # None => child' = child)
<1> DEFINE Kept == /\ nextId \in Nat /\ nextId' \in {nextId, nextId + 1}
                   /\ \A i \in Id : i \in Nat /\ (i < nextId =>
                        /\ pending'[i] \in {pending[i], None}
                        /\ pending'[i] # None => child' = child)
<1>0. nextId \in Nat /\ \A i \in Id : i \in Nat
  BY CountTyped DEF TypeInv
<1>1. ASSUME NEW h \in Call, rpcCall(h) PROVE Kept
  <2>1. nextId' = nextId + 1 /\ pending' = [pending EXCEPT ![nextId] = h]
    BY <1>1 DEF rpcCall, NewId
  <2>2. \A i \in Id : i < nextId => pending'[i] = pending[i]
    BY <1>0, <2>1 DEF TypeInv
  <2>3. child # 0 => child' = child
    BY <1>1 DEF rpcCall, NeedsCore
  <2> QED
    BY <1>0, <2>1, <2>2, <2>3 DEF CoreInv
<1>2. ASSUME NEW g \in Core, Line(g) PROVE Kept
  <2>1. \A i \in Id : pending'[i] \in {pending[i], None}
    BY <1>2 DEF Line, Frame, Resolve, TypeInv
  <2> QED
    BY <1>0, <1>2, <2>1 DEF Line
<1>3. ASSUME NEW g \in Core, Exit(g) PROVE Kept
  BY <1>0, <1>3 DEF Exit, PendingAfterExit
<1>4. ASSUME UNCHANGED <<nextId, pending, child>> PROVE Kept
  BY <1>0, <1>4
<1>5. ASSUME NEW g \in Core, Read(g) \/ Stop(g) \/ Crash(g) PROVE Kept
  BY <1>4, <1>5 DEF Read, Stop, Crash, node
<1>6. ASSUME NEW h \in Call, Reject(h) \/ Answer(h) PROVE Kept
  BY <1>4, <1>6 DEF Reject, Answer
<1>7. ASSUME NEW g \in Core, NEW i \in Id, Handle(g, i) PROVE Kept
  BY <1>4, <1>7 DEF Handle, TaskStep, node
<1>8. CASE UNCHANGED vars
  BY <1>4, <1>8 DEF vars, node
<1> QED
  BY <1>1, <1>2, <1>3, <1>5, <1>6, <1>7, <1>8 DEF Next

LEMMA OwnedKept ==
  ASSUME TypeInv, CallInv, CoreInv, [Next]_vars
  PROVE  \A g \in Core : \A x : x.id \in Id /\ Owned(g, x) =>
           /\ x.id < nextId'
           /\ pending'[x.id] # None => pending'[x.id] = x.from /\ g = child'
<1> SUFFICES ASSUME NEW g \in Core, NEW x, x.id \in Id, Owned(g, x)
             PROVE  /\ x.id < nextId'
                    /\ pending'[x.id] # None => pending'[x.id] = x.from /\ g = child'
  OBVIOUS
<1>1. x.id < nextId /\ (pending[x.id] # None => pending[x.id] = x.from /\ g = child)
  BY DEF Owned
<1>2. /\ nextId \in Nat /\ nextId' \in {nextId, nextId + 1} /\ x.id \in Nat
      /\ pending'[x.id] \in {pending[x.id], None}
      /\ pending'[x.id] # None => child' = child
  BY <1>1, PendingStep
<1> QED
  BY <1>1, <1>2

(* What Handle does to a core: a goroutine goes on as another state of      *)
(* itself or not at all, and prints a line under its id or nothing.         *)
Says(t, w, n) == [id |-> t.id, from |-> t.from, type |-> w, n |-> n]

Goes(g, t, u)   == tasks' = [tasks EXCEPT ![g] = (@ \ {t}) \cup {u}]
Ends(g, t)      == tasks' = [tasks EXCEPT ![g] = @ \ {t}]
Prints(g, m)    == outbox' = [outbox EXCEPT ![g] = Append(@, m)]

(* The four things a goroutine may do: say its last word, open the stream,  *)
(* pass a frame, or leave a broken stream.                                  *)
Ended(g, t) ==
  /\ \E w \in LastWord(t) : Says(t, w, 0) \in Message /\ Prints(g, Says(t, w, 0))
  /\ Ends(g, t) /\ broken' = broken
Opened(g, t) ==
  /\ t.phase = "asking" /\ t.from \in Streams /\ t.sent = 0
  /\ \E u \in Task : /\ u.id = t.id /\ u.from = t.from /\ u.sent = t.sent
                     /\ Goes(g, t, u)
  /\ UNCHANGED <<outbox, broken>>
Passed(g, t) ==
  /\ t.phase = "streaming" /\ t.sent + 1 \in 0..MaxFrames
  /\ Says(t, "sse", t.sent + 1) \in Message /\ Prints(g, Says(t, "sse", t.sent + 1))
  /\ \E u \in Task : /\ u.id = t.id /\ u.from = t.from /\ u.sent = t.sent + 1
                     /\ Goes(g, t, u)
  /\ broken' = broken
Broke(g, t) ==
  /\ t.phase = "streaming" /\ broken' = broken \cup {t.from}
  /\ Ends(g, t) /\ outbox' = outbox

LEMMA HandleCases ==
  ASSUME TypeInv, NEW g \in Core, NEW i \in Id, Handle(g, i)
  PROVE  /\ UNCHANGED <<node, core, inbox>>
         /\ \E t \in tasks[g] :
              /\ t \in Task /\ t.id = i
              /\ Ended(g, t) \/ Opened(g, t) \/ Passed(g, t) \/ Broke(g, t)
<1>1. PICK t \in tasks[g] : t.id = i /\ TaskStep(g, t)
  BY DEF Handle
<1>2. t \in Task /\ (t.phase = "asking" => t.sent = 0)
  BY DEF TypeInv
<1>3. UNCHANGED <<node, core, inbox>>
  BY <1>1 DEF TaskStep
<1>4. CASE Finish(g, t) /\ UNCHANGED broken
  <2>1. PICK w \in LastWord(t) : Send(g, t, w, 0) /\ Leave(g, t)
    BY <1>4 DEF Finish
  <2>2. Says(t, w, 0) \in Message
    BY <1>2, <2>1, CountTyped DEF LastWord, Message, Task, Says
  <2>3. Prints(g, Says(t, w, 0)) /\ Ends(g, t)
    BY <2>1 DEF Send, Leave, Prints, Says, Ends
  <2> QED
    BY <1>1, <1>2, <1>3, <1>4, <2>1, <2>2, <2>3 DEF Ended
<1>5. CASE OpenStream(g, t) /\ UNCHANGED broken
  <2> DEFINE u == [t EXCEPT !.phase = "streaming"]
  <2>1. u \in Task /\ u.id = t.id /\ u.from = t.from /\ u.sent = t.sent
    BY <1>2 DEF Task
  <2>2. /\ t.phase = "asking" /\ t.from \in Streams /\ t.sent = 0 /\ Goes(g, t, u)
        /\ UNCHANGED <<outbox, broken>>
    BY <1>2, <1>5 DEF OpenStream, Become, Goes
  <2> QED
    BY <1>1, <1>2, <1>3, <2>1, <2>2 DEF Opened
<1>6. CASE PassFrame(g, t) /\ UNCHANGED broken
  <2> DEFINE u == [t EXCEPT !.sent = t.sent + 1]
  <2>1. t.sent + 1 \in 0..MaxFrames
    BY <1>2, <1>6, CountTyped DEF PassFrame, Task
  <2>2. Says(t, "sse", t.sent + 1) \in Message
    BY <1>2, <2>1 DEF Message, Task, Says
  <2>3. u \in Task /\ u.id = t.id /\ u.from = t.from /\ u.sent = t.sent + 1
    BY <1>2, <2>1 DEF Task
  <2>4. t.phase = "streaming" /\ Prints(g, Says(t, "sse", t.sent + 1)) /\ Goes(g, t, u)
    BY <1>6 DEF PassFrame, Become, Goes, Send, Says, Prints
  <2> QED
    BY <1>1, <1>2, <1>3, <1>6, <2>1, <2>2, <2>3, <2>4 DEF Passed
<1>7. CASE BreakStream(g, t)
  BY <1>1, <1>2, <1>3, <1>7 DEF BreakStream, Leave, Ends, Broke
<1> QED
  BY <1>1, <1>4, <1>5, <1>6, <1>7 DEF TaskStep

(* What rpcCall does: the line goes to the core in use, unless that one is  *)
(* down.                                                                    *)
Asks(h) == [id |-> nextId, from |-> h]

LEMMA CallCases ==
  ASSUME TypeInv, CallInv, NEW h \in Call, rpcCall(h)
  PROVE  /\ nextId \in Id /\ nextId' = nextId + 1 /\ Asks(h) \in Request
         /\ outcome[h] = Idle /\ outcome' = [outcome EXCEPT ![h] = Waiting]
         /\ pending' = [pending EXCEPT ![nextId] = h] /\ pending'[nextId] = h
         /\ child' \in Core /\ UNCHANGED <<reply, outbox, tasks, broken>>
         /\ \/ inbox' = [inbox EXCEPT ![child'] = Append(@, Asks(h))]
            \/ inbox' = inbox /\ core' = core /\ child' = child /\ core[child] = "down"
<1>1. nextId \in Id
  BY IdLeft DEF rpcCall
<1>2. Asks(h) \in Request
  BY <1>1 DEF Asks, Request
<1>3. pending' = [pending EXCEPT ![nextId] = h] /\ nextId' = nextId + 1
  BY DEF rpcCall, NewId
<1>4. pending'[nextId] = h
  BY <1>1, <1>3 DEF TypeInv
<1>5. child' \in Core
  BY DEF rpcCall
<1>6. \/ inbox' = [inbox EXCEPT ![child'] = Append(@, Asks(h))]
      \/ inbox' = inbox /\ core' = core /\ child' = child /\ core[child] = "down"
  BY DEF rpcCall, NewId, Asks, NeedsCore
<1> QED
  BY <1>1, <1>2, <1>3, <1>4, <1>5, <1>6 DEF rpcCall

LEMMA StepWire ==
  ASSUME TypeInv, CallInv, CoreInv, WireInv, [Next]_vars
  PROVE  WireInv'
<1> DEFINE Keeps(f, x) == /\ x.id < nextId'
                          /\ pending'[x.id] # None => pending'[x.id] = x.from /\ f = child'
           Inboxes  == \A f \in Core : \A k \in 1..Len(inbox'[f]) : Keeps(f, inbox'[f][k])
           Workers  == \A f \in Core : \A t \in tasks'[f] : Keeps(f, t)
           Outboxes == \A f \in Core : \A k \in 1..Len(outbox'[f]) : Keeps(f, outbox'[f][k])
<1>1. \A f \in Core :
        /\ inbox[f] \in Seq(Request) /\ \A k \in 1..Len(inbox[f]) : Keeps(f, inbox[f][k])
        /\ \A t \in tasks[f] : Keeps(f, t)
        /\ outbox[f] \in Seq(Message) /\ \A k \in 1..Len(outbox[f]) : Keeps(f, outbox[f][k])
  <2> SUFFICES ASSUME NEW f \in Core
               PROVE  /\ inbox[f] \in Seq(Request) /\ \A k \in 1..Len(inbox[f]) : Keeps(f, inbox[f][k])
                      /\ \A t \in tasks[f] : Keeps(f, t)
                      /\ outbox[f] \in Seq(Message) /\ \A k \in 1..Len(outbox[f]) : Keeps(f, outbox[f][k])
    OBVIOUS
  <2>1. /\ inbox[f] \in Seq(Request) /\ \A k \in 1..Len(inbox[f]) : inbox[f][k].id \in Id
        /\ \A t \in tasks[f] : t.id \in Id
        /\ outbox[f] \in Seq(Message) /\ \A k \in 1..Len(outbox[f]) : outbox[f][k].id \in Id
    BY Typed DEF Request, Task, Message
  <2> QED
    BY <2>1, OwnedKept DEF WireInv
<1> HIDE DEF Keeps
<1>2. inbox' = inbox => Inboxes
  BY <1>1
<1>3. tasks' = tasks => Workers
  BY <1>1
<1>4. outbox' = outbox => Outboxes
  BY <1>1
<1>5. ASSUME NEW h \in Call, rpcCall(h) PROVE Inboxes /\ Workers /\ Outboxes
  <2>1. CASE inbox' = [inbox EXCEPT ![child'] = Append(@, Asks(h))]
    <3>1. Keeps(child', Asks(h))
      <4>1. Asks(h).id = nextId /\ Asks(h).from = h
        BY DEF Asks
      <4>2. nextId < nextId' /\ pending'[nextId] = h
        BY <1>5, CallCases, CountTyped
      <4> QED
        BY <4>1, <4>2 DEF Keeps
    <3>2. child' \in Core /\ Asks(h) \in Request /\ inbox[child'] \in Seq(Request)
      BY <1>1, <1>5, CallCases
    <3>3. inbox'[child'] = Append(inbox[child'], Asks(h)) /\ \A f \in Core : f # child' => inbox'[f] = inbox[f]
      BY <2>1, <3>2 DEF TypeInv
    <3>4. \A k \in 1..Len(inbox'[child']) : Keeps(child', inbox'[child'][k])
      BY <1>1, <3>1, <3>2, <3>3, AppendElements
    <3>5. Inboxes
      BY <1>1, <3>3, <3>4
    <3> QED
      BY <1>3, <1>4, <1>5, <3>5, CallCases
  <2> QED
    BY <1>2, <1>3, <1>4, <1>5, <2>1, CallCases
<1>6. ASSUME NEW g \in Core, Line(g) PROVE Inboxes /\ Workers /\ Outboxes
  <2>1. /\ outbox[g] # <<>> /\ outbox' = [outbox EXCEPT ![g] = Tail(@)]
        /\ UNCHANGED <<inbox, tasks>>
    BY <1>6 DEF Line
  <2>2. outbox'[g] = Tail(outbox[g]) /\ \A f \in Core : f # g => outbox'[f] = outbox[f]
    BY <2>1 DEF TypeInv
  <2>3. \A k \in 1..Len(outbox'[g]) : Keeps(g, outbox'[g][k])
    BY <1>1, <2>1, <2>2, TailElements
  <2>4. Outboxes
    BY <1>1, <2>2, <2>3
  <2> QED
    BY <1>2, <1>3, <2>1, <2>4
<1>7. ASSUME NEW g \in Core, Read(g) PROVE Inboxes /\ Workers /\ Outboxes
  <2>1. outbox' = outbox /\ inbox[g] # <<>>
    BY <1>7 DEF Read
  <2>2. CASE UNCHANGED <<inbox, tasks>>
    BY <1>2, <1>3, <1>4, <2>1, <2>2
  <2>3. CASE /\ inbox' = [inbox EXCEPT ![g] = Tail(@)]
             /\ tasks' = [tasks EXCEPT ![g] = @ \cup {Born(Head(inbox[g]))}]
    <3>1. inbox'[g] = Tail(inbox[g]) /\ \A f \in Core : f # g => inbox'[f] = inbox[f]
      BY <2>3 DEF TypeInv
    <3>2. \A k \in 1..Len(inbox'[g]) : Keeps(g, inbox'[g][k])
      BY <1>1, <2>1, <3>1, TailElements
    <3>3. Keeps(g, Head(inbox[g]))
      BY <1>1, <2>1, TailElements
    <3>4. Keeps(g, Born(Head(inbox[g])))
      BY <3>3 DEF Keeps, Born
    <3>5. \A f \in Core : \A t \in tasks'[f] : t \in tasks[f] \/ (f = g /\ t = Born(Head(inbox[g])))
      BY <2>3 DEF TypeInv
    <3>6. Inboxes
      BY <1>1, <3>1, <3>2
    <3>7. Workers
      BY <1>1, <3>4, <3>5
    <3> QED
      BY <1>4, <2>1, <3>6, <3>7
  <2> QED
    BY <1>7, <2>2, <2>3, ReadCases
<1>8. ASSUME NEW g \in Core, Crash(g) PROVE Inboxes /\ Workers /\ Outboxes
  <2>1. \A f \in Core : inbox'[f] \in {inbox[f], <<>>} /\ tasks'[f] \subseteq tasks[f]
    BY <1>8 DEF Crash, TypeInv
  <2>2. Inboxes /\ Workers
    BY <1>1, <2>1
  <2> QED
    BY <1>4, <1>8, <2>2 DEF Crash
<1>9. ASSUME NEW g \in Core, NEW i \in Id, Handle(g, i) PROVE Inboxes /\ Workers /\ Outboxes
  <2>1. PICK t \in tasks[g] :
          /\ \/ Ends(g, t)
             \/ \E u \in Task : u.id = t.id /\ u.from = t.from /\ Goes(g, t, u)
          /\ \/ outbox' = outbox
             \/ \E w, n : Says(t, w, n) \in Message /\ Prints(g, Says(t, w, n))
    BY <1>9, HandleCases DEF Ended, Opened, Passed, Broke
  <2>2. Keeps(g, t) /\ outbox[g] \in Seq(Message)
    BY <1>1
  <2>3. \A f \in Core : \A x \in tasks'[f] :
          x \in tasks[f] \/ (f = g /\ x.id = t.id /\ x.from = t.from)
    BY <2>1 DEF Ends, Goes, TypeInv
  <2>4. Workers
    BY <1>1, <2>2, <2>3 DEF Keeps
  <2>5. ASSUME NEW w, NEW n, Says(t, w, n) \in Message, Prints(g, Says(t, w, n)) PROVE Outboxes
    <3>1. outbox'[g] = Append(outbox[g], Says(t, w, n)) /\ \A f \in Core : f # g => outbox'[f] = outbox[f]
      BY <2>5 DEF Prints, TypeInv
    <3>2. Keeps(g, Says(t, w, n))
      BY <2>2 DEF Keeps, Says
    <3>3. \A k \in 1..Len(outbox'[g]) : Keeps(g, outbox'[g][k])
      BY <1>1, <2>2, <2>5, <3>1, <3>2, AppendElements
    <3> QED
      BY <1>1, <3>1, <3>3
  <2> QED
    BY <1>2, <1>4, <1>9, <2>1, <2>4, <2>5, HandleCases
<1>10. ASSUME UNCHANGED <<inbox, tasks, outbox>> PROVE Inboxes /\ Workers /\ Outboxes
  BY <1>2, <1>3, <1>4, <1>10
<1>11. Inboxes /\ Workers /\ Outboxes
  BY <1>5, <1>6, <1>7, <1>8, <1>9, <1>10 DEF Next, vars, go, Exit, Stop, Reject, Answer
<1> QED
  BY <1>11 DEF WireInv, Owned, Keeps

------------------------------------------------------------------------------
(* A request is in one place: in the stdin of a core, in its hands (as one  *)
(* goroutine, with frames only in the pipe), or finished.                   *)
Once(q, T, o) ==
  /\ \A k, l \in 1..Len(q) : q[k].id = q[l].id => k = l
  /\ \A t, u \in T : t.id = u.id => t = u
  /\ \A k \in 1..Len(q) : \A t \in T : q[k].id # t.id
  /\ \A k \in 1..Len(q) : \A l \in 1..Len(o) : q[k].id # o[l].id
  /\ \A t \in T : \A l \in 1..Len(o) : t.id = o[l].id => o[l].type = "sse"

OnceInv == \A g \in Core : Once(inbox[g], tasks[g], outbox[g])

LEMMA OnceAsked ==
  ASSUME NEW q \in Seq(Request), NEW T, NEW o, Once(q, T, o), NEW r \in Request,
         \A k \in 1..Len(q) : q[k].id # r.id, \A t \in T : t.id # r.id,
         \A l \in 1..Len(o) : o[l].id # r.id
  PROVE  Once(Append(q, r), T, o)
<1>1. \A k \in 1..Len(Append(q, r)) :
        \/ k \in 1..Len(q) /\ Append(q, r)[k] = q[k]
        \/ k = Len(q) + 1 /\ Append(q, r)[k] = r
  BY AppendElements
<1> QED
  BY <1>1 DEF Once

LEMMA OnceTaken ==
  ASSUME NEW q \in Seq(Request), NEW T, NEW o, Once(q, T, o), q # <<>>
  PROVE  Once(Tail(q), T \cup {Born(Head(q))}, o)
<1>1. /\ Head(q) = q[1] /\ 1 \in 1..Len(q)
      /\ \A k \in 1..Len(Tail(q)) : k \in Nat /\ k + 1 \in 1..Len(q) /\ k + 1 # 1 /\ Tail(q)[k] = q[k + 1]
  BY TailElements
<1> DEFINE u == Born(Head(q))
<1>2. u.id = q[1].id
  BY <1>1 DEF Born
<1> HIDE DEF u
<1>3. \A k, l \in 1..Len(Tail(q)) : Tail(q)[k].id = Tail(q)[l].id => k = l
  BY <1>1 DEF Once
<1>4. \A t, v \in T \cup {u} : t.id = v.id => t = v
  BY <1>1, <1>2 DEF Once
<1>5. \A k \in 1..Len(Tail(q)) : \A t \in T \cup {u} : Tail(q)[k].id # t.id
  BY <1>1, <1>2 DEF Once
<1>6. \A k \in 1..Len(Tail(q)) : \A l \in 1..Len(o) : Tail(q)[k].id # o[l].id
  BY <1>1 DEF Once
<1>7. \A t \in T \cup {u} : \A l \in 1..Len(o) : t.id = o[l].id => o[l].type = "sse"
  BY <1>1, <1>2 DEF Once
<1> QED
  BY <1>3, <1>4, <1>5, <1>6, <1>7 DEF Once, u

LEMMA OncePrinted ==
  ASSUME NEW q, NEW T, NEW o \in Seq(Message), Once(q, T, o), o # <<>>
  PROVE  Once(q, T, Tail(o))
BY TailElements DEF Once

LEMMA OnceLost ==
  ASSUME NEW q, NEW T, NEW o, Once(q, T, o), NEW r, NEW U \in SUBSET T, r = q \/ r = <<>>
  PROVE  Once(r, U, o)
BY DEF Once

(* A line printed under the id of a goroutine t that then ends, or that is  *)
(* a frame.                                                                 *)
LEMMA OnceSaid ==
  ASSUME NEW q, NEW T, NEW o \in Seq(Message), Once(q, T, o), NEW t \in T,
         NEW m \in Message, m.id = t.id
  PROVE  /\ Once(q, T \ {t}, Append(o, m))
         /\ m.type = "sse" => Once(q, T, Append(o, m))
<1>1. \A l \in 1..Len(Append(o, m)) :
        \/ l \in 1..Len(o) /\ Append(o, m)[l] = o[l]
        \/ Append(o, m)[l] = m
  BY AppendElements
<1> QED
  BY <1>1 DEF Once

LEMMA OnceBecame ==
  ASSUME NEW q, NEW T, NEW o, Once(q, T, o), NEW t \in T, NEW u, u.id = t.id
  PROVE  Once(q, (T \ {t}) \cup {u}, o)
BY DEF Once

LEMMA StepOnce ==
  ASSUME TypeInv, CallInv, WireInv, OnceInv, [Next]_vars
  PROVE  OnceInv'
<1> DEFINE Fine(f) == Once(inbox'[f], tasks'[f], outbox'[f])
<1>1. \A f \in Core : Once(inbox[f], tasks[f], outbox[f]) /\ inbox[f] \in Seq(Request) /\ outbox[f] \in Seq(Message)
  BY Typed DEF OnceInv
<1> HIDE DEF Fine
<1>2. ASSUME NEW f \in Core, inbox'[f] = inbox[f], tasks'[f] = tasks[f], outbox'[f] = outbox[f]
      PROVE  Fine(f)
  BY <1>1, <1>2 DEF Fine
<1>3. ASSUME NEW h \in Call, rpcCall(h), NEW f \in Core PROVE Fine(f)
  <2>1. UNCHANGED <<tasks, outbox>>
    BY <1>3, CallCases
  <2>2. CASE inbox'[f] = inbox[f]
    BY <1>2, <2>1, <2>2
  <2>3. CASE inbox'[f] = Append(inbox[f], Asks(h))
    <3>1. nextId \in Nat /\ Asks(h).id = nextId
      BY CountTyped DEF Asks, TypeInv
    <3>2. \A k \in 1..Len(inbox[f]) : inbox[f][k].id < nextId /\ inbox[f][k].id \in Nat
      BY Typed, CountTyped DEF WireInv, Owned, Request
    <3>3. \A t \in tasks[f] : t.id < nextId /\ t.id \in Nat
      BY Typed, CountTyped DEF WireInv, Owned, Task
    <3>4. \A k \in 1..Len(outbox[f]) : outbox[f][k].id < nextId /\ outbox[f][k].id \in Nat
      BY Typed, CountTyped DEF WireInv, Owned, Message
    <3>5. \A x \in Nat : x < nextId => x # nextId
      BY <3>1
    <3>6. Once(Append(inbox[f], Asks(h)), tasks[f], outbox[f])
      BY <1>1, <1>3, <3>1, <3>2, <3>3, <3>4, <3>5, OnceAsked, CallCases
    <3> QED
      BY <2>1, <2>3, <3>6 DEF Fine
  <2> QED
    BY <1>3, <2>2, <2>3, CallCases DEF TypeInv
<1>4. ASSUME NEW g \in Core, Line(g), NEW f \in Core PROVE Fine(f)
  <2>1. /\ UNCHANGED <<inbox, tasks>> /\ outbox[g] # <<>>
        /\ outbox' = [outbox EXCEPT ![g] = Tail(@)]
    BY <1>4 DEF Line
  <2>2. outbox'[f] = IF f = g THEN Tail(outbox[f]) ELSE outbox[f]
    BY <2>1 DEF TypeInv
  <2> QED
    BY <1>1, <2>1, <2>2, OncePrinted DEF Fine
<1>5. ASSUME NEW g \in Core, Read(g), NEW f \in Core PROVE Fine(f)
  <2>1. outbox' = outbox /\ inbox[g] # <<>>
    BY <1>5 DEF Read
  <2>2. CASE UNCHANGED <<inbox, tasks>> \/ f # g
    <3>1. inbox'[f] = inbox[f] /\ tasks'[f] = tasks[f]
      BY <1>5, <2>2, ReadCases DEF TypeInv
    <3> QED
      BY <1>2, <2>1, <3>1
  <2>3. CASE /\ inbox' = [inbox EXCEPT ![g] = Tail(@)] /\ f = g
             /\ tasks' = [tasks EXCEPT ![g] = @ \cup {Born(Head(inbox[g]))}]
    <3>1. inbox'[g] = Tail(inbox[g]) /\ tasks'[g] = tasks[g] \cup {Born(Head(inbox[g]))}
      BY <2>3 DEF TypeInv
    <3>2. Once(Tail(inbox[g]), tasks[g] \cup {Born(Head(inbox[g]))}, outbox[g])
      BY <1>1, <2>1, OnceTaken
    <3> QED
      BY <2>1, <2>3, <3>1, <3>2 DEF Fine
  <2> QED
    BY <1>5, <2>2, <2>3, ReadCases
<1>6. ASSUME NEW g \in Core, Crash(g), NEW f \in Core PROVE Fine(f)
  <2>1. inbox'[f] \in {inbox[f], <<>>} /\ tasks'[f] \subseteq tasks[f] /\ outbox' = outbox
    BY <1>6 DEF Crash, TypeInv
  <2> QED
    BY <1>1, <2>1, OnceLost DEF Fine
<1>7. ASSUME NEW g \in Core, NEW i \in Id, Handle(g, i), NEW f \in Core PROVE Fine(f)
  <2>1. inbox' = inbox
    BY <1>7, HandleCases
  <2>2. PICK t \in tasks[g] : Ended(g, t) \/ Opened(g, t) \/ Passed(g, t) \/ Broke(g, t)
    BY <1>7, HandleCases
  <2>3. Ends(g, t) => tasks'[f] = IF f = g THEN tasks[f] \ {t} ELSE tasks[f]
    BY DEF Ends, TypeInv
  <2>4. \A u : Goes(g, t, u) => tasks'[f] = IF f = g THEN (tasks[f] \ {t}) \cup {u} ELSE tasks[f]
    BY DEF Goes, TypeInv
  <2>5. \A m : Prints(g, m) => outbox'[f] = IF f = g THEN Append(outbox[f], m) ELSE outbox[f]
    BY DEF Prints, TypeInv
  <2>6. CASE f # g
    BY <1>2, <2>1, <2>2, <2>3, <2>4, <2>5, <2>6 DEF Ended, Opened, Passed, Broke
  <2>7. CASE f = g /\ Ended(g, t)
    <3>1. PICK w \in LastWord(t) : Says(t, w, 0) \in Message /\ Prints(g, Says(t, w, 0))
      BY <2>7 DEF Ended
    <3> DEFINE m == Says(t, w, 0)
    <3>2. m.id = t.id /\ Ends(g, t) /\ m \in Message /\ Prints(g, m)
      BY <2>7, <3>1 DEF Says, Ended
    <3> HIDE DEF m
    <3>3. Once(inbox[g], tasks[g] \ {t}, Append(outbox[g], m))
      BY <1>1, <3>2, OnceSaid
    <3> QED
      BY <2>1, <2>3, <2>5, <2>7, <3>2, <3>3 DEF Fine
  <2>8. CASE f = g /\ Opened(g, t)
    BY <1>1, <2>1, <2>4, <2>8, OnceBecame DEF Fine, Opened
  <2>9. CASE f = g /\ Passed(g, t)
    <3> DEFINE m == Says(t, "sse", t.sent + 1)
    <3>1. m \in Message /\ m.id = t.id /\ m.type = "sse" /\ Prints(g, m)
      BY <2>9 DEF Says, Passed
    <3>2. PICK u : u.id = t.id /\ Goes(g, t, u)
      BY <2>9 DEF Passed
    <3> HIDE DEF m
    <3>3. Once(inbox[f], tasks[f], Append(outbox[f], m))
      BY <1>1, <2>9, <3>1, OnceSaid
    <3>4. Once(inbox[f], (tasks[f] \ {t}) \cup {u}, Append(outbox[f], m))
      BY <2>9, <3>2, <3>3, OnceBecame
    <3> QED
      BY <2>1, <2>4, <2>5, <2>9, <3>1, <3>2, <3>4 DEF Fine
  <2>10. CASE f = g /\ Broke(g, t)
    BY <1>1, <2>1, <2>3, <2>10, OnceLost DEF Fine, Broke
  <2> QED
    BY <2>2, <2>6, <2>7, <2>8, <2>9, <2>10
<1>8. ASSUME UNCHANGED <<inbox, tasks, outbox>>, NEW f \in Core PROVE Fine(f)
  BY <1>2, <1>8
<1>9. \A f \in Core : Fine(f)
  BY <1>3, <1>4, <1>5, <1>6, <1>7, <1>8 DEF Next, vars, go, Exit, Stop, Reject, Answer
<1> QED
  BY <1>9 DEF OnceInv, Fine

------------------------------------------------------------------------------
(* The frames of a request that is still awaited: those in the pipe follow  *)
(* those already sent to the client, without a gap, and its goroutine has   *)
(* sent the last of them; before a refusal there are none.                  *)
InTurn(o, k, c) ==
  /\ o[k].n > c[o[k].from]
  /\ \/ o[k].n = c[o[k].from] + 1
     \/ \E j \in 1..(k - 1) : o[j].id = o[k].id /\ o[j].type = "sse" /\ o[j].n = o[k].n - 1
  /\ \A j \in 1..(k - 1) : o[j].id = o[k].id /\ o[j].type = "sse" => o[j].n < o[k].n

UpTo(t, o, c) ==
  /\ t.sent >= c[t.from]
  /\ \A k \in 1..Len(o) : o[k].id = t.id => o[k].n <= t.sent
  /\ t.sent = c[t.from] \/ \E k \in 1..Len(o) : o[k].id = t.id /\ o[k].n = t.sent

Streamed(q, T, o, p, c) ==
  /\ \A k \in 1..Len(q) : p[q[k].id] # None => c[q[k].from] = 0
  /\ \A k \in 1..Len(o) : p[o[k].id] # None /\ o[k].type = "sse" => InTurn(o, k, c)
  /\ \A k \in 1..Len(o) : p[o[k].id] # None /\ o[k].type = "refusal" =>
       c[o[k].from] = 0 /\ \A j \in 1..Len(o) : o[j].id = o[k].id => o[j].type # "sse"
  /\ \A t \in T : p[t.id] # None => UpTo(t, o, c)

Counts == [h \in Call |-> Len(reply[h].chunks)]

StreamInv == \A g \in Core : Streamed(inbox[g], tasks[g], outbox[g], pending, Counts)

(* What holds of every pipe, put together.                                  *)
Wired(q, T, o, p) ==
  /\ q \in Seq(Request) /\ T \subseteq Task /\ o \in Seq(Message)
  /\ p \in [Id -> Call \cup {None}]
  /\ \A i, j \in Id : p[i] # None /\ p[i] = p[j] => i = j
  /\ \A k \in 1..Len(q) : p[q[k].id] # None => p[q[k].id] = q[k].from
  /\ \A t \in T : p[t.id] # None => p[t.id] = t.from
  /\ \A k \in 1..Len(o) : p[o[k].id] # None => p[o[k].id] = o[k].from
  /\ Once(q, T, o)

LEMMA StreamForgot ==
  ASSUME NEW q, NEW T, NEW o, NEW p, NEW r, NEW c, Streamed(q, T, o, p, c),
         \A k \in 1..Len(q) : r[q[k].id] \in {p[q[k].id], None},
         \A t \in T : r[t.id] \in {p[t.id], None},
         \A k \in 1..Len(o) : r[o[k].id] \in {p[o[k].id], None}
  PROVE  Streamed(q, T, o, r, c)
BY DEF Streamed

LEMMA StreamAsked ==
  ASSUME NEW q \in Seq(Request), NEW T, NEW o, NEW p, NEW c, Streamed(q, T, o, p, c),
         NEW r \in Request, c[r.from] = 0
  PROVE  Streamed(Append(q, r), T, o, p, c)
<1>1. \A k \in 1..Len(Append(q, r)) :
        \/ k \in 1..Len(q) /\ Append(q, r)[k] = q[k]
        \/ Append(q, r)[k] = r
  BY AppendElements
<1> QED
  BY <1>1 DEF Streamed

LEMMA StreamLost ==
  ASSUME NEW q, NEW T, NEW o, NEW p, NEW c, Streamed(q, T, o, p, c),
         NEW r, r = q \/ r = <<>>, NEW U \in SUBSET T
  PROVE  Streamed(r, U, o, p, c)
BY DEF Streamed

LEMMA StreamTaken ==
  ASSUME NEW q, NEW T, NEW o, NEW p, NEW c \in [Call -> Nat], Wired(q, T, o, p),
         Streamed(q, T, o, p, c), q # <<>>
  PROVE  Streamed(Tail(q), T \cup {Born(Head(q))}, o, p, c)
<1>1. /\ Head(q) = q[1] /\ 1 \in 1..Len(q)
      /\ \A k \in 1..Len(Tail(q)) : k + 1 \in 1..Len(q) /\ Tail(q)[k] = q[k + 1]
  BY TailElements DEF Wired
<1> DEFINE u == Born(Head(q))
<1>2. u.id = q[1].id /\ u.from = q[1].from /\ u.sent = 0
  BY <1>1 DEF Born
<1> HIDE DEF u
<1>3. p[u.id] # None => UpTo(u, o, c)
  <2> SUFFICES ASSUME p[u.id] # None PROVE UpTo(u, o, c)
    OBVIOUS
  <2>1. c[u.from] = 0
    BY <1>1, <1>2 DEF Streamed
  <2>2. \A l \in 1..Len(o) : o[l].id # u.id
    BY <1>1, <1>2 DEF Wired, Once
  <2> QED
    BY <1>2, <2>1, <2>2 DEF UpTo
<1>4. \A k \in 1..Len(Tail(q)) : p[Tail(q)[k].id] # None => c[Tail(q)[k].from] = 0
  BY <1>1 DEF Streamed
<1>5. \A t \in T \cup {u} : p[t.id] # None => UpTo(t, o, c)
  BY <1>3 DEF Streamed
<1> QED
  BY <1>4, <1>5 DEF Streamed, u

(* A line leaves the pipe unheard.                                          *)
LEMMA StreamDropped ==
  ASSUME NEW q, NEW T, NEW o \in Seq(Message), NEW p, NEW c, Streamed(q, T, o, p, c),
         o # <<>>, p[Head(o).id] = None
  PROVE  Streamed(q, T, Tail(o), p, c)
<1>1. /\ Head(o) = o[1] /\ 1 \in 1..Len(o) /\ Len(Tail(o)) = Len(o) - 1
      /\ \A k \in 1..Len(Tail(o)) : k + 1 \in 1..Len(o) /\ Tail(o)[k] = o[k + 1]
      /\ \A k \in 1..Len(o) : k # 1 => k - 1 \in 1..Len(Tail(o)) /\ Tail(o)[k - 1] = o[k]
  BY TailElements
<1>2. ASSUME NEW k \in 1..Len(Tail(o)), p[Tail(o)[k].id] # None, Tail(o)[k].type = "sse"
      PROVE  InTurn(Tail(o), k, c)
  <2>1. InTurn(o, k + 1, c) /\ Tail(o)[k] = o[k + 1] /\ o[1].id # o[k + 1].id
    BY <1>1, <1>2 DEF Streamed
  <2>2. ASSUME NEW j \in 1..k, o[j].id = o[k + 1].id
        PROVE  j - 1 \in 1..(k - 1) /\ Tail(o)[j - 1] = o[j]
    <3>1. j # 1 /\ j \in 1..Len(o) /\ k \in Nat
      BY <1>1, <2>1, <2>2
    <3> QED
      BY <1>1, <3>1
  <2>3. \A j \in 1..(k - 1) : j + 1 \in 1..k /\ Tail(o)[j] = o[j + 1]
    BY <1>1
  <2>4. (k + 1) - 1 = k
    OBVIOUS
  <2>5. \/ o[k + 1].n = c[o[k + 1].from] + 1
        \/ \E j \in 1..(k - 1) : Tail(o)[j].id = o[k + 1].id /\ Tail(o)[j].type = "sse" /\ Tail(o)[j].n = o[k + 1].n - 1
    BY <2>1, <2>2, <2>4 DEF InTurn
  <2>6. \A j \in 1..(k - 1) : Tail(o)[j].id = o[k + 1].id /\ Tail(o)[j].type = "sse" => Tail(o)[j].n < o[k + 1].n
    BY <2>1, <2>3, <2>4 DEF InTurn
  <2>7. o[k + 1].n > c[o[k + 1].from]
    BY <2>1 DEF InTurn
  <2> QED
    BY <2>1, <2>5, <2>6, <2>7 DEF InTurn
<1>3. ASSUME NEW k \in 1..Len(Tail(o)), p[Tail(o)[k].id] # None, Tail(o)[k].type = "refusal"
      PROVE  /\ c[Tail(o)[k].from] = 0
             /\ \A j \in 1..Len(Tail(o)) : Tail(o)[j].id = Tail(o)[k].id => Tail(o)[j].type # "sse"
  BY <1>1, <1>3 DEF Streamed
<1>4. ASSUME NEW t \in T, p[t.id] # None
      PROVE  UpTo(t, Tail(o), c)
  <2>1. UpTo(t, o, c) /\ o[1].id # t.id
    BY <1>1, <1>4 DEF Streamed
  <2> QED
    BY <1>1, <2>1 DEF UpTo
<1> QED
  BY <1>2, <1>3, <1>4 DEF Streamed

(* A frame leaves the pipe for the client: it is the next one.              *)
LEMMA StreamShown ==
  ASSUME NEW q, NEW T, NEW o, NEW p, NEW c \in [Call -> Nat], Wired(q, T, o, p),
         Streamed(q, T, o, p, c), o # <<>>, p[Head(o).id] # None, Head(o).type = "sse"
  PROVE  /\ Head(o).n = c[Head(o).from] + 1
         /\ Streamed(q, T, Tail(o), p, [c EXCEPT ![Head(o).from] = Head(o).n])
<1>0. /\ Head(o) = o[1] /\ 1 \in 1..Len(o) /\ Len(Tail(o)) = Len(o) - 1
      /\ \A k \in 1..Len(Tail(o)) : k + 1 \in 1..Len(o) /\ Tail(o)[k] = o[k + 1]
      /\ \A k \in 1..Len(o) : k # 1 => k - 1 \in 1..Len(Tail(o)) /\ Tail(o)[k - 1] = o[k]
  BY TailElements DEF Wired
<1> DEFINE m == Head(o)
           d == [c EXCEPT ![m.from] = m.n]
<1>1. /\ m = o[1] /\ m \in Message /\ m.id \in Id /\ m.from \in Call /\ m.n \in Nat
      /\ p[m.id] = m.from /\ m.type = "sse" /\ p[m.id] # None
      /\ \A k \in 1..Len(o) : o[k] \in Message /\ o[k].n \in Nat /\ o[k].id \in Id /\ o[k].from \in Call
  <2>1. \A k \in 1..Len(o) : o[k] \in Message
    BY DEF Wired
  <2>2. \A x \in Message : x.n \in Nat /\ x.id \in Id /\ x.from \in Call
    BY CountTyped DEF Message
  <2>3. m = o[1] /\ m \in Message /\ m.type = "sse" /\ p[m.id] # None
    BY <1>0, <2>1
  <2>4. p[m.id] = m.from
    BY <1>0, <2>3 DEF Wired
  <2> QED
    BY <2>1, <2>2, <2>3, <2>4
<1>2. d \in [Call -> Nat] /\ \A h \in Call : d[h] = IF h = m.from THEN m.n ELSE c[h]
  BY <1>1
<1> HIDE DEF m, d
<1>3. m.n = c[m.from] + 1
  <2>1. InTurn(o, 1, c)
    BY <1>0, <1>1 DEF Streamed
  <2>2. \A j \in 1..(1 - 1) : FALSE
    OBVIOUS
  <2> QED
    BY <1>1, <2>1, <2>2 DEF InTurn
(* Whoever else is awaited has another id and another count.                *)
<1>4. \A x : x.id \in Id /\ x.from \in Call /\ p[x.id] # None /\ p[x.id] = x.from =>
        /\ x.id = m.id => x.from = m.from /\ d[x.from] = m.n
        /\ x.id # m.id => x.from # m.from /\ d[x.from] = c[x.from]
  BY <1>1, <1>2 DEF Wired
<1>5. ASSUME NEW k \in 1..Len(q), p[q[k].id] # None PROVE d[q[k].from] = 0
  <2>1. q[k].id \in Id /\ q[k].from \in Call /\ p[q[k].id] = q[k].from
    <3>1. q[k] \in Request /\ p[q[k].id] = q[k].from
      BY <1>5 DEF Wired
    <3> QED
      BY <3>1 DEF Request
  <2>2. q[k].id # m.id /\ c[q[k].from] = 0
    BY <1>0, <1>1, <1>5 DEF Wired, Once, Streamed
  <2> QED
    BY <1>4, <1>5, <2>1, <2>2
<1>6. ASSUME NEW k \in 1..Len(Tail(o)), p[Tail(o)[k].id] # None, Tail(o)[k].type = "sse"
      PROVE  InTurn(Tail(o), k, d)
  <2> DEFINE x == o[k + 1]
  <2>1. k + 1 \in 1..Len(o) /\ Tail(o)[k] = x /\ k \in Nat /\ (k + 1) - 1 = k /\ k >= 1
    BY <1>0
  <2>2. /\ x.id \in Id /\ x.from \in Call /\ x.n \in Nat /\ p[x.id] # None /\ p[x.id] = x.from
        /\ x.type = "sse"
    BY <1>1, <1>6, <2>1 DEF Wired
  <2>3. InTurn(o, k + 1, c)
    BY <2>1, <2>2 DEF Streamed
  <2> HIDE DEF x
  <2>4. /\ x.n > c[x.from] /\ c[x.from] \in Nat
        /\ x.n = c[x.from] + 1 \/ \E j \in 1..k : o[j].id = x.id /\ o[j].type = "sse" /\ o[j].n = x.n - 1
        /\ \A j \in 1..k : o[j].id = x.id /\ o[j].type = "sse" => o[j].n < x.n
    BY <2>1, <2>2, <2>3 DEF InTurn, x
  <2>5. \A j \in 1..k : j # 1 => j - 1 \in 1..(k - 1) /\ Tail(o)[j - 1] = o[j]
    BY <1>0, <2>1
  <2>6. \A j \in 1..(k - 1) : j + 1 \in 1..k /\ Tail(o)[j] = o[j + 1]
    BY <1>0
  <2>7. \A j \in 1..(k - 1) : Tail(o)[j].id = x.id /\ Tail(o)[j].type = "sse" => Tail(o)[j].n < x.n
    BY <2>4, <2>6
  <2>8. CASE x.id # m.id
    <3>1. d[x.from] = c[x.from]
      BY <1>4, <2>2, <2>8
    <3>2. \/ x.n = c[x.from] + 1
          \/ \E j \in 1..(k - 1) : Tail(o)[j].id = x.id /\ Tail(o)[j].type = "sse" /\ Tail(o)[j].n = x.n - 1
      BY <1>1, <2>4, <2>5, <2>8
    <3> QED
      BY <2>1, <2>4, <2>7, <3>1, <3>2 DEF InTurn
  <2>9. CASE x.id = m.id
    <3>1. x.from = m.from /\ d[x.from] = m.n
      BY <1>4, <2>2, <2>9
    <3>2. m.n < x.n
      BY <1>1, <2>1, <2>4, <2>9
    <3>3. x.n # c[x.from] + 1
      BY <1>1, <1>3, <2>2, <3>1, <3>2
    <3>4. PICK j \in 1..k : o[j].id = x.id /\ o[j].type = "sse" /\ o[j].n = x.n - 1
      BY <2>4, <3>3
    <3>5. CASE j = 1
      <4>1. x.n = m.n + 1
        BY <1>1, <2>2, <3>4, <3>5
      <4> QED
        BY <2>1, <2>7, <3>1, <3>2, <4>1 DEF InTurn
    <3>6. CASE j # 1
      <4>1. /\ j - 1 \in 1..(k - 1) /\ Tail(o)[j - 1].id = x.id /\ Tail(o)[j - 1].type = "sse"
            /\ Tail(o)[j - 1].n = x.n - 1
        BY <2>5, <3>4, <3>6
      <4> QED
        BY <2>1, <2>7, <3>1, <3>2, <4>1 DEF InTurn
    <3> QED
      BY <3>5, <3>6
  <2> QED
    BY <2>8, <2>9
<1>7. ASSUME NEW k \in 1..Len(Tail(o)), p[Tail(o)[k].id] # None, Tail(o)[k].type = "refusal"
      PROVE  /\ d[Tail(o)[k].from] = 0
             /\ \A j \in 1..Len(Tail(o)) : Tail(o)[j].id = Tail(o)[k].id => Tail(o)[j].type # "sse"
  <2> DEFINE x == o[k + 1]
  <2>1. k + 1 \in 1..Len(o) /\ Tail(o)[k] = x
    BY <1>0
  <2>2. x.id \in Id /\ x.from \in Call /\ p[x.id] # None /\ p[x.id] = x.from /\ x.type = "refusal"
    BY <1>1, <1>7, <2>1 DEF Wired
  <2>3. c[x.from] = 0 /\ \A j \in 1..Len(o) : o[j].id = x.id => o[j].type # "sse"
    BY <2>1, <2>2 DEF Streamed
  <2> HIDE DEF x
  <2>4. x.id # m.id
    BY <1>0, <1>1, <2>3
  <2> QED
    BY <1>0, <1>4, <2>1, <2>2, <2>3, <2>4
<1>8. ASSUME NEW t \in T, p[t.id] # None PROVE UpTo(t, Tail(o), d)
  <2>1. t \in Task /\ t.id \in Id /\ t.from \in Call /\ t.sent \in Nat /\ p[t.id] = t.from
    BY <1>8, CountTyped DEF Wired, Task
  <2>2. /\ t.sent >= c[t.from] /\ c[t.from] \in Nat
        /\ \A k \in 1..Len(o) : o[k].id = t.id => o[k].n <= t.sent
        /\ t.sent = c[t.from] \/ \E k \in 1..Len(o) : o[k].id = t.id /\ o[k].n = t.sent
    BY <1>8, <2>1 DEF Streamed, UpTo
  <2>3. \A k \in 1..Len(Tail(o)) : Tail(o)[k].id = t.id => Tail(o)[k].n <= t.sent
    BY <1>0, <2>2
  <2>4. CASE t.id # m.id
    <3>1. d[t.from] = c[t.from]
      BY <1>4, <1>8, <2>1, <2>4
    <3>2. t.sent = c[t.from] \/ \E k \in 1..Len(Tail(o)) : Tail(o)[k].id = t.id /\ Tail(o)[k].n = t.sent
      <4>1. SUFFICES ASSUME t.sent # c[t.from]
                     PROVE  \E k \in 1..Len(Tail(o)) : Tail(o)[k].id = t.id /\ Tail(o)[k].n = t.sent
        OBVIOUS
      <4>2. PICK k \in 1..Len(o) : o[k].id = t.id /\ o[k].n = t.sent
        BY <2>2, <4>1
      <4>3. k - 1 \in 1..Len(Tail(o)) /\ Tail(o)[k - 1] = o[k]
        BY <1>0, <1>1, <2>4, <4>2
      <4> QED
        BY <4>2, <4>3
    <3> QED
      BY <2>2, <2>3, <3>1, <3>2 DEF UpTo
  <2>5. CASE t.id = m.id
    <3>1. t.from = m.from /\ d[t.from] = m.n
      BY <1>4, <1>8, <2>1, <2>5
    <3>2. t.sent >= m.n
      BY <1>0, <1>1, <2>2, <2>5
    <3>3. t.sent = m.n \/ \E k \in 1..Len(Tail(o)) : Tail(o)[k].id = t.id /\ Tail(o)[k].n = t.sent
      <4>1. t.sent # c[t.from]
        BY <1>1, <1>3, <2>1, <2>2, <3>1, <3>2
      <4>2. PICK k \in 1..Len(o) : o[k].id = t.id /\ o[k].n = t.sent
        BY <2>2, <4>1
      <4>3. CASE k = 1
        BY <1>1, <4>2, <4>3
      <4>4. CASE k # 1
        BY <1>0, <4>2, <4>4
      <4> QED
        BY <4>3, <4>4
    <3> QED
      BY <2>3, <3>1, <3>2, <3>3 DEF UpTo
  <2> QED
    BY <2>4, <2>5
<1>9. Streamed(q, T, Tail(o), p, d)
  BY <1>5, <1>6, <1>7, <1>8 DEF Streamed
<1> QED
  BY <1>3, <1>9 DEF m, d

(* A line is put into the pipe: those before it keep their turn.            *)
LEMMA TurnKept ==
  ASSUME NEW o \in Seq(Message), NEW m \in Message, NEW c, NEW k \in 1..Len(o), InTurn(o, k, c)
  PROVE  InTurn(Append(o, m), k, c)
<1>1. \A j \in 1..k : Append(o, m)[j] = o[j]
  BY AppendElements
<1>2. k \in 1..k /\ \A j \in 1..(k - 1) : j \in 1..k
  OBVIOUS
<1> QED
  BY <1>1, <1>2 DEF InTurn

LEMMA OthersUpTo ==
  ASSUME NEW q, NEW T, NEW o, NEW p, NEW c, Wired(q, T, o, p), Streamed(q, T, o, p, c),
         NEW t \in T, NEW v \in T, v # t, p[v.id] # None, NEW m \in Message, m.id = t.id
  PROVE  UpTo(v, Append(o, m), c)
<1>1. UpTo(v, o, c) /\ v.id # m.id /\ o \in Seq(Message)
  BY DEF Streamed, Wired, Once
<1>2. /\ \A k \in 1..Len(o) : k \in 1..Len(Append(o, m)) /\ Append(o, m)[k] = o[k]
      /\ \A k \in 1..Len(Append(o, m)) : k \in 1..Len(o) \/ Append(o, m)[k] = m
  BY <1>1, AppendElements
<1> QED
  BY <1>1, <1>2 DEF UpTo

LEMMA StreamEnded ==
  ASSUME NEW q, NEW T, NEW o, NEW p, NEW c \in [Call -> Nat], Wired(q, T, o, p),
         Streamed(q, T, o, p, c), NEW t \in T, NEW m \in Message,
         m.id = t.id, m.from = t.from, m.type # "sse", m.type = "refusal" => t.sent = 0
  PROVE  Streamed(q, T \ {t}, Append(o, m), p, c)
<1>0. o \in Seq(Message) /\ t \in Task /\ \A k \in 1..Len(o) : o[k] \in Message
  BY DEF Wired
<1>1. /\ \A k \in 1..Len(o) : k \in 1..Len(Append(o, m)) /\ Append(o, m)[k] = o[k]
      /\ \A k \in 1..Len(Append(o, m)) : k \in 1..Len(o) \/ Append(o, m)[k] = m
  BY <1>0, AppendElements
<1>2. ASSUME p[t.id] # None, m.type = "refusal"
      PROVE  c[t.from] = 0 /\ \A k \in 1..Len(o) : o[k].id = t.id => o[k].type # "sse"
  <2>1. UpTo(t, o, c) /\ t.sent = 0 /\ t.from \in Call /\ c[t.from] \in Nat
    BY <1>0, <1>2 DEF Streamed, Task
  <2>2. c[t.from] = 0
    BY <2>1 DEF UpTo
  <2>3. ASSUME NEW k \in 1..Len(o), o[k].id = t.id, o[k].type = "sse" PROVE FALSE
    <3>1. InTurn(o, k, c) /\ o[k].n <= 0
      BY <1>2, <2>1, <2>3 DEF Streamed, UpTo
    <3>2. o[k].from = t.from
      BY <1>2, <2>3 DEF Wired
    <3>3. o[k].n > 0 /\ o[k].n \in Nat
      BY <1>0, <2>2, <3>1, <3>2, CountTyped DEF InTurn, Message
    <3> QED
      BY <3>1, <3>3
  <2> QED
    BY <2>2, <2>3
<1>3. ASSUME NEW k \in 1..Len(Append(o, m)), p[Append(o, m)[k].id] # None, Append(o, m)[k].type = "sse"
      PROVE  InTurn(Append(o, m), k, c)
  <2>1. k \in 1..Len(o) /\ InTurn(o, k, c)
    BY <1>1, <1>3 DEF Streamed
  <2> QED
    BY <1>0, <2>1, TurnKept
<1>4. ASSUME NEW k \in 1..Len(Append(o, m)), p[Append(o, m)[k].id] # None, Append(o, m)[k].type = "refusal"
      PROVE  /\ c[Append(o, m)[k].from] = 0
             /\ \A j \in 1..Len(Append(o, m)) :
                  Append(o, m)[j].id = Append(o, m)[k].id => Append(o, m)[j].type # "sse"
  <2>1. CASE k \in 1..Len(o)
    BY <1>1, <1>4, <2>1 DEF Streamed
  <2>2. CASE Append(o, m)[k] = m
    BY <1>1, <1>2, <1>4, <2>2
  <2> QED
    BY <1>1, <2>1, <2>2
<1>5. ASSUME NEW v \in T \ {t}, p[v.id] # None PROVE UpTo(v, Append(o, m), c)
  BY <1>5, OthersUpTo
<1> QED
  BY <1>3, <1>4, <1>5 DEF Streamed

LEMMA StreamPassed ==
  ASSUME NEW q, NEW T, NEW o, NEW p, NEW c \in [Call -> Nat], Wired(q, T, o, p),
         Streamed(q, T, o, p, c), NEW t \in T, NEW m \in Message, NEW u \in Task,
         m.id = t.id, m.from = t.from, m.type = "sse", m.n = t.sent + 1,
         u.id = t.id, u.from = t.from, u.sent = t.sent + 1
  PROVE  Streamed(q, (T \ {t}) \cup {u}, Append(o, m), p, c)
<1>0. /\ o \in Seq(Message) /\ t \in Task /\ t.from \in Call /\ t.sent \in Nat
      /\ \A k \in 1..Len(o) : o[k].n \in Nat
  <2>1. o \in Seq(Message) /\ t \in Task
    BY DEF Wired
  <2>2. \A x \in Message : x.n \in Nat
    BY CountTyped DEF Message
  <2> QED
    BY <2>1, <2>2, CountTyped DEF Task
<1>1. /\ \A k \in 1..Len(o) : k \in 1..Len(Append(o, m)) /\ Append(o, m)[k] = o[k]
      /\ Len(o) + 1 \in 1..Len(Append(o, m)) /\ Append(o, m)[Len(o) + 1] = m
      /\ \A k \in 1..Len(Append(o, m)) :
           k \in 1..Len(o) \/ (k = Len(o) + 1 /\ Append(o, m)[k] = m)
  BY <1>0, AppendElements
<1>2. p[t.id] # None =>
        /\ t.sent >= c[t.from] /\ c[t.from] \in Nat
        /\ \A k \in 1..Len(o) : o[k].id = t.id => o[k].n <= t.sent
        /\ t.sent = c[t.from] \/ \E k \in 1..Len(o) : o[k].id = t.id /\ o[k].n = t.sent
  BY <1>0 DEF Streamed, UpTo
<1>3. ASSUME p[t.id] # None PROVE InTurn(Append(o, m), Len(o) + 1, c)
  <2>1. (Len(o) + 1) - 1 = Len(o)
    BY <1>0
  <2>2. m.n > c[m.from]
    BY <1>0, <1>2, <1>3
  <2>3. \A j \in 1..Len(o) : o[j].id = m.id => o[j].n < m.n
    BY <1>0, <1>2, <1>3
  <2>4. m.n = c[m.from] + 1 \/ \E j \in 1..Len(o) : o[j].id = m.id /\ o[j].type = "sse" /\ o[j].n = m.n - 1
    <3>1. \A j \in 1..Len(o) : o[j].id = t.id => o[j].type = "sse"
      BY DEF Wired, Once
    <3>2. m.n - 1 = t.sent
      BY <1>0
    <3> QED
      BY <1>2, <1>3, <3>1, <3>2
  <2> QED
    BY <1>1, <2>1, <2>2, <2>3, <2>4 DEF InTurn
<1>4. ASSUME NEW k \in 1..Len(Append(o, m)), p[Append(o, m)[k].id] # None, Append(o, m)[k].type = "sse"
      PROVE  InTurn(Append(o, m), k, c)
  <2>1. CASE k \in 1..Len(o)
    <3>1. InTurn(o, k, c)
      BY <1>1, <1>4, <2>1 DEF Streamed
    <3> QED
      BY <1>0, <2>1, <3>1, TurnKept
  <2>2. CASE k = Len(o) + 1
    BY <1>1, <1>3, <1>4, <2>2
  <2> QED
    BY <1>1, <2>1, <2>2
<1>5. ASSUME NEW k \in 1..Len(Append(o, m)), p[Append(o, m)[k].id] # None, Append(o, m)[k].type = "refusal"
      PROVE  /\ c[Append(o, m)[k].from] = 0
             /\ \A j \in 1..Len(Append(o, m)) :
                  Append(o, m)[j].id = Append(o, m)[k].id => Append(o, m)[j].type # "sse"
  <2>1. k \in 1..Len(o) /\ Append(o, m)[k] = o[k]
    BY <1>1, <1>5
  <2>2. o[k].id # t.id
    BY <1>5, <2>1 DEF Wired, Once
  <2>3. c[o[k].from] = 0 /\ \A j \in 1..Len(o) : o[j].id = o[k].id => o[j].type # "sse"
    BY <1>5, <2>1 DEF Streamed
  <2> QED
    BY <1>1, <2>1, <2>2, <2>3
<1>6. ASSUME NEW v \in (T \ {t}) \cup {u}, p[v.id] # None PROVE UpTo(v, Append(o, m), c)
  <2>1. CASE v = u
    <3>1. u.sent >= c[u.from]
      BY <1>0, <1>2, <1>6, <2>1
    <3>2. \A k \in 1..Len(Append(o, m)) : Append(o, m)[k].id = u.id => Append(o, m)[k].n <= u.sent
      BY <1>0, <1>1, <1>2, <1>6, <2>1
    <3> QED
      BY <1>1, <2>1, <3>1, <3>2 DEF UpTo
  <2>2. CASE v # u
    BY <1>6, <2>2, OthersUpTo
  <2> QED
    BY <2>1, <2>2
<1>7. \A k \in 1..Len(q) : p[q[k].id] # None => c[q[k].from] = 0
  BY DEF Streamed
<1> QED
  BY <1>4, <1>5, <1>6, <1>7 DEF Streamed

LEMMA StreamOpened ==
  ASSUME NEW q, NEW T, NEW o, NEW p, NEW c, Streamed(q, T, o, p, c),
         NEW t \in T, NEW u, u.id = t.id, u.from = t.from, u.sent = t.sent
  PROVE  Streamed(q, (T \ {t}) \cup {u}, o, p, c)
<1>1. p[u.id] # None => UpTo(u, o, c)
  BY DEF Streamed, UpTo
<1> QED
  BY <1>1 DEF Streamed

LEMMA AllWired ==
  ASSUME TypeInv, CallInv, WireInv, OnceInv, NEW g \in Core
  PROVE  Wired(inbox[g], tasks[g], outbox[g], pending)
<1>1. /\ inbox[g] \in Seq(Request) /\ tasks[g] \subseteq Task /\ outbox[g] \in Seq(Message)
      /\ pending \in [Id -> Call \cup {None}]
  BY DEF TypeInv
<1>2. \A i, j \in Id : pending[i] # None /\ pending[i] = pending[j] => i = j
  BY DEF CallInv
<1>3. /\ \A k \in 1..Len(inbox[g]) : pending[inbox[g][k].id] # None => pending[inbox[g][k].id] = inbox[g][k].from
      /\ \A t \in tasks[g] : pending[t.id] # None => pending[t.id] = t.from
      /\ \A k \in 1..Len(outbox[g]) : pending[outbox[g][k].id] # None => pending[outbox[g][k].id] = outbox[g][k].from
  BY DEF WireInv, Owned
<1> QED
  BY <1>1, <1>2, <1>3 DEF Wired, OnceInv

LEMMA CountsTyped ==
  ASSUME TypeInv
  PROVE  /\ Counts \in [Call -> Nat]
         /\ \A h \in Call : reply[h].chunks \in Seq(Call \X (0..MaxFrames)) /\ Counts[h] = Len(reply[h].chunks)
<1>1. \A h \in Call : reply[h].chunks \in Seq(Call \X (0..MaxFrames))
  BY DEF TypeInv, Response
<1>2. \A h \in Call : Len(reply[h].chunks) \in Nat
  BY <1>1
<1> QED
  BY <1>1, <1>2 DEF Counts

(* What Line does: drop a line for an id nobody awaits, pass on the next    *)
(* frame of the request that awaits it, or end its call.                    *)
LEMMA LineCases ==
  ASSUME TypeInv, CallInv, WireInv, OnceInv, StreamInv, NEW g \in Core, Line(g)
  PROVE  /\ outbox[g] # <<>> /\ outbox' = [outbox EXCEPT ![g] = Tail(@)]
         /\ Head(outbox[g]) \in Message /\ Head(outbox[g]) = outbox[g][1] /\ 1 \in 1..Len(outbox[g])
         /\ UNCHANGED <<child, nextId, core, inbox, tasks, broken>>
         /\ LET m == Head(outbox[g])
            IN \/ pending[m.id] = None /\ UNCHANGED <<pending, outcome, reply, Counts>>
               \/ /\ pending[m.id] = m.from /\ m.from \in Call /\ g = child
                  /\ outcome[m.from] = Waiting /\ ~reply[m.from].ended
                  /\ \/ /\ m.type = "sse" /\ m.n = Counts[m.from] + 1
                        /\ reply' = [reply EXCEPT ![m.from] = WithChunk(@, m)]
                        /\ Counts' = [Counts EXCEPT ![m.from] = m.n]
                        /\ UNCHANGED <<pending, outcome>>
                     \/ /\ m.type # "sse" /\ Resolve(m.from, m)
                        /\ UNCHANGED <<reply, Counts>>
<1> DEFINE m == Head(outbox[g])
           h == pending[m.id]
<1>1. /\ outbox[g] # <<>> /\ outbox' = [outbox EXCEPT ![g] = Tail(@)]
      /\ UNCHANGED <<child, nextId, core, inbox, tasks, broken>>
  BY DEF Line
<1>2. m \in Message /\ m = outbox[g][1] /\ 1 \in 1..Len(outbox[g])
  BY <1>1, Typed, TailElements
<1>3. /\ m.id \in Id /\ h \in Call \cup {None}
      /\ h # None => h = m.from /\ h \in Call /\ g = child /\ outcome[h] = Waiting /\ ~reply[h].ended
  <2>1. m.id \in Id /\ h \in Call \cup {None}
    BY <1>2 DEF Message, TypeInv
  <2>2. h # None => h = m.from /\ g = child
    BY <1>2 DEF WireInv, Owned
  <2> QED
    BY <2>1, <2>2, CountTyped DEF CallInv
<1>4. reply' = reply => Counts' = Counts
  BY DEF Counts
<1>5. \/ h = None /\ UNCHANGED <<pending, outcome, reply>>
      \/ h # None /\ m.type = "sse" /\ Frame(h, m)
      \/ h # None /\ m.type # "sse" /\ Resolve(h, m)
  BY DEF Line
<1> HIDE DEF m, h
<1>6. CASE h # None /\ m.type = "sse" /\ Frame(h, m)
  <2>1. m.n = Counts[m.from] + 1
    <3>1. Wired(inbox[g], tasks[g], outbox[g], pending)
      BY AllWired
    <3>2. Streamed(inbox[g], tasks[g], outbox[g], pending, Counts)
      BY DEF StreamInv
    <3>3. pending[Head(outbox[g]).id] # None /\ Head(outbox[g]).type = "sse"
      BY <1>6 DEF m, h
    <3>4. Counts \in [Call -> Nat]
      BY CountsTyped
    <3>5. outbox[g] # <<>>
      BY <1>1
    <3>6. /\ Head(outbox[g]).n = Counts[Head(outbox[g]).from] + 1
          /\ Streamed(inbox[g], tasks[g], Tail(outbox[g]), pending,
                      [Counts EXCEPT ![Head(outbox[g]).from] = Head(outbox[g]).n])
      BY <3>1, <3>2, <3>3, <3>4, <3>5, StreamShown, Zenon
    <3> QED
      BY <3>6 DEF m
  <2>2. reply' = [reply EXCEPT ![h] = WithChunk(@, m)] /\ UNCHANGED <<pending, outcome>>
    BY <1>6 DEF Frame
  <2>3. reply[h] \in Response /\ <<m.from, m.n>> \in Call \X (0..MaxFrames)
    BY <1>2, <1>3, <1>6 DEF TypeInv, Message
  <2>4. reply'[h].chunks = Append(reply[h].chunks, <<m.from, m.n>>)
    BY <1>3, <1>6, <2>2, <2>3 DEF WithChunk, TypeInv, Response
  <2>5. Len(reply'[h].chunks) = m.n
    BY <1>3, <1>6, <2>1, <2>3, <2>4, CountsTyped, AppendElements
  <2>6. \A f \in Call : f # h => reply'[f] = reply[f]
    BY <2>2 DEF TypeInv
  <2>7. Counts' = [Counts EXCEPT ![h] = m.n]
    BY <2>5, <2>6 DEF Counts
  <2> QED
    BY <1>1, <1>2, <1>3, <1>6, <2>1, <2>2, <2>7 DEF m, h
<1> QED
  BY <1>1, <1>2, <1>3, <1>4, <1>5, <1>6 DEF m, h, Resolve

(* What ends a response: it gets a head, unless it is a stream that began.  *)
LEMMA CloseCases ==
  ASSUME TypeInv, NEW h \in Call, Reject(h) \/ Answer(h)
  PROVE  /\ UNCHANGED <<child, nextId, pending, outcome, go>>
         /\ ~reply[h].ended /\ reply'[h].ended
         /\ \A e \in Call : e # h => reply'[e] = reply[e]
         /\ \A e \in Call : reply'[e].chunks = reply[e].chunks
         /\ \/ outcome[h] = Idle /\ reply'[h].head = "rejected" /\ reply'[h].from = reply[h].from
            \/ reply[h].head = "sse" /\ reply'[h].head = "sse" /\ reply'[h].from = reply[h].from
            \/ /\ outcome[h] \notin {Idle, Waiting} /\ reply[h].head # "sse"
               /\ reply'[h].head = HeadOf(h) /\ reply'[h].from = outcome[h].from
<1>1. UNCHANGED <<child, nextId, pending, outcome, go>> /\ ~reply[h].ended /\ reply[h] \in Response
  BY DEF Reject, Answer, TypeInv
<1>2. CASE Reject(h)
  <2> DEFINE r == [reply[h] EXCEPT !.head = "rejected", !.ended = TRUE]
  <2>1. reply' = [reply EXCEPT ![h] = r] /\ outcome[h] = Idle
    BY <1>2 DEF Reject
  <2>2. r.ended /\ r.chunks = reply[h].chunks /\ r.head = "rejected" /\ r.from = reply[h].from
    BY <1>1 DEF Response
  <2> HIDE DEF r
  <2>3. reply'[h] = r /\ \A e \in Call : e # h => reply'[e] = reply[e]
    BY <2>1 DEF TypeInv
  <2> QED
    BY <1>1, <2>1, <2>2, <2>3
<1>3. CASE Answer(h) /\ reply[h].head = "sse"
  <2> DEFINE r == [reply[h] EXCEPT !.ended = TRUE]
  <2>1. reply' = [reply EXCEPT ![h] = r]
    BY <1>3 DEF Answer
  <2>2. r.ended /\ r.chunks = reply[h].chunks /\ r.head = "sse" /\ r.from = reply[h].from
    BY <1>1, <1>3 DEF Response
  <2> HIDE DEF r
  <2>3. reply'[h] = r /\ \A e \in Call : e # h => reply'[e] = reply[e]
    BY <2>1 DEF TypeInv
  <2> QED
    BY <1>1, <1>3, <2>2, <2>3
<1>4. CASE Answer(h) /\ reply[h].head # "sse"
  <2> DEFINE r == [reply[h] EXCEPT !.head = HeadOf(h), !.from = outcome[h].from, !.ended = TRUE]
  <2>1. reply' = [reply EXCEPT ![h] = r] /\ outcome[h] \notin {Idle, Waiting}
    BY <1>4 DEF Answer
  <2>2. r.ended /\ r.chunks = reply[h].chunks /\ r.head = HeadOf(h) /\ r.from = outcome[h].from
    BY <1>1 DEF Response
  <2> HIDE DEF r
  <2>3. reply'[h] = r /\ \A e \in Call : e # h => reply'[e] = reply[e]
    BY <2>1 DEF TypeInv
  <2> QED
    BY <1>1, <1>4, <2>1, <2>2, <2>3
<1> QED
  BY <1>2, <1>3, <1>4

(* Whatever a response has been sent is its own request's, in order; the    *)
(* SSE head comes with the first frame and a refusal only without any.      *)
ReplyInv ==
  \A h \in Call :
    /\ \A k \in 1..Counts[h] : reply[h].chunks[k] = <<h, k>>
    /\ ~reply[h].ended => reply[h].head = IF Counts[h] = 0 THEN "none" ELSE "sse"
    /\ outcome[h] = Idle => Counts[h] = 0
    /\ outcome[h].type \in {"result", "refusal"} => outcome[h].from = h
    /\ outcome[h].type = "refusal" => reply[h].head \in {"none", "refused"}
    /\ reply[h].head \in {"200", "refused"} => reply[h].from = h

LEMMA StepStream ==
  ASSUME TypeInv, CallInv, CoreInv, WireInv, OnceInv, StreamInv, ReplyInv, [Next]_vars
  PROVE  StreamInv'
<1> DEFINE Fine(f) == Streamed(inbox'[f], tasks'[f], outbox'[f], pending', Counts')
<1>1. \A f \in Core : Wired(inbox[f], tasks[f], outbox[f], pending)
  BY AllWired
<1>2. \A f \in Core : Streamed(inbox[f], tasks[f], outbox[f], pending, Counts)
  BY DEF StreamInv
<1>3. Counts \in [Call -> Nat]
  BY CountsTyped
<1>4. \A f \in Core : Streamed(inbox[f], tasks[f], outbox[f], pending', Counts)
  <2> SUFFICES ASSUME NEW f \in Core PROVE Streamed(inbox[f], tasks[f], outbox[f], pending', Counts)
    OBVIOUS
  <2>1. \A x \in Request \cup Task \cup Message : x.id \in Id
    BY DEF Request, Task, Message
  <2>2. \A x \in Request \cup Task \cup Message : x.id < nextId => pending'[x.id] \in {pending[x.id], None}
    BY <2>1, PendingStep
  <2>3. \A k \in 1..Len(inbox[f]) : inbox[f][k] \in Request /\ inbox[f][k].id < nextId
    BY Typed DEF WireInv, Owned
  <2>4. \A t \in tasks[f] : t \in Task /\ t.id < nextId
    BY Typed DEF WireInv, Owned
  <2>5. \A k \in 1..Len(outbox[f]) : outbox[f][k] \in Message /\ outbox[f][k].id < nextId
    BY Typed DEF WireInv, Owned
  <2> QED
    BY <1>2, <2>2, <2>3, <2>4, <2>5, StreamForgot
<1>5. reply' = reply => Counts' = Counts
  BY DEF Counts
<1> HIDE DEF Fine
<1>6. ASSUME NEW f \in Core, inbox'[f] = inbox[f], tasks'[f] = tasks[f], outbox'[f] = outbox[f], Counts' = Counts
      PROVE  Fine(f)
  BY <1>4, <1>6 DEF Fine
<1>7. ASSUME NEW h \in Call, rpcCall(h), NEW f \in Core PROVE Fine(f)
  <2>1. UNCHANGED <<tasks, outbox, reply>>
    BY <1>7, CallCases
  <2>2. CASE inbox'[f] = inbox[f]
    BY <1>5, <1>6, <2>1, <2>2
  <2>3. CASE inbox'[f] = Append(inbox[f], Asks(h))
    <3>1. Asks(h) \in Request /\ outcome[h] = Idle
      BY <1>7, CallCases
    <3>2. Counts[Asks(h).from] = 0
      BY <3>1 DEF Asks, ReplyInv
    <3>3. Streamed(Append(inbox[f], Asks(h)), tasks[f], outbox[f], pending', Counts)
      BY <1>4, <3>1, <3>2, Typed, StreamAsked
    <3> QED
      BY <1>5, <2>1, <2>3, <3>3 DEF Fine
  <2> QED
    BY <1>7, <2>2, <2>3, CallCases DEF TypeInv
<1>8. ASSUME NEW g \in Core, Line(g), NEW f \in Core PROVE Fine(f)
  <2> DEFINE m == Head(outbox[g])
  <2>1. /\ UNCHANGED <<inbox, tasks>> /\ outbox[g] # <<>> /\ m \in Message
        /\ outbox'[f] = IF f = g THEN Tail(outbox[f]) ELSE outbox[f]
    <3>1. /\ UNCHANGED <<inbox, tasks>> /\ outbox[g] # <<>> /\ m \in Message
          /\ outbox' = [outbox EXCEPT ![g] = Tail(@)]
      BY <1>8, LineCases
    <3> QED
      BY <3>1 DEF TypeInv
  <2>2. CASE pending[m.id] = None /\ UNCHANGED <<pending, reply, Counts>>
    <3>1. Streamed(inbox[g], tasks[g], Tail(outbox[g]), pending, Counts)
      BY <1>2, <2>1, <2>2, Typed, StreamDropped
    <3> QED
      BY <1>6, <2>1, <2>2, <3>1 DEF Fine
  <2>3. CASE m.type # "sse" /\ Resolve(m.from, m) /\ UNCHANGED Counts
    <3>1. pending'[m.id] = None
      BY <2>1, <2>3 DEF Resolve, TypeInv, Message
    <3>2. Streamed(inbox[g], tasks[g], Tail(outbox[g]), pending', Counts)
      BY <1>4, <2>1, <3>1, Typed, StreamDropped
    <3> QED
      BY <1>6, <2>1, <2>3, <3>2 DEF Fine
  <2>4. CASE /\ m.type = "sse" /\ pending[m.id] = m.from /\ m.from \in Call /\ g = child
             /\ Counts' = [Counts EXCEPT ![m.from] = m.n] /\ pending' = pending
    <3>1. CASE f = g
      <4>1. Streamed(inbox[g], tasks[g], Tail(outbox[g]), pending, [Counts EXCEPT ![m.from] = m.n])
        <5>1. pending[m.id] # None /\ m.type = "sse"
          BY <2>4, CountTyped
        <5> QED
          BY <1>1, <1>2, <1>3, <2>1, <5>1, StreamShown, Zenon
      <4> QED
        BY <2>1, <2>4, <3>1, <4>1 DEF Fine
    <3>2. CASE f # g
      <4>1. /\ \A k \in 1..Len(inbox[f]) : pending[inbox[f][k].id] = None
            /\ \A t \in tasks[f] : pending[t.id] = None
            /\ \A k \in 1..Len(outbox[f]) : pending[outbox[f][k].id] = None
        BY <2>4, <3>2 DEF WireInv, Owned
      <4>2. \A d : Streamed(inbox[f], tasks[f], outbox[f], pending, d)
        BY <4>1 DEF Streamed
      <4> QED
        BY <2>1, <2>4, <3>2, <4>2 DEF Fine
    <3> QED
      BY <3>1, <3>2
  <2> QED
    BY <1>8, <2>2, <2>3, <2>4, LineCases
<1>9. ASSUME NEW g \in Core, Read(g), NEW f \in Core PROVE Fine(f)
  <2>1. UNCHANGED <<outbox, pending, reply>> /\ inbox[g] # <<>>
    BY <1>9 DEF Read, node
  <2>2. CASE UNCHANGED <<inbox, tasks>> \/ f # g
    <3>1. inbox'[f] = inbox[f] /\ tasks'[f] = tasks[f]
      BY <1>9, <2>2, ReadCases DEF TypeInv
    <3> QED
      BY <1>5, <1>6, <2>1, <3>1
  <2>3. CASE /\ inbox' = [inbox EXCEPT ![g] = Tail(@)] /\ f = g
             /\ tasks' = [tasks EXCEPT ![g] = @ \cup {Born(Head(inbox[g]))}]
    <3>1. inbox'[g] = Tail(inbox[g]) /\ tasks'[g] = tasks[g] \cup {Born(Head(inbox[g]))}
      BY <2>3 DEF TypeInv
    <3>2. Streamed(Tail(inbox[g]), tasks[g] \cup {Born(Head(inbox[g]))}, outbox[g], pending, Counts)
      BY <1>1, <1>2, <1>3, <2>1, StreamTaken
    <3> QED
      BY <1>5, <2>1, <2>3, <3>1, <3>2 DEF Fine
  <2> QED
    BY <1>9, <2>2, <2>3, ReadCases
<1>10. ASSUME NEW g \in Core, Crash(g), NEW f \in Core PROVE Fine(f)
  <2>1. inbox'[f] \in {inbox[f], <<>>} /\ tasks'[f] \subseteq tasks[f] /\ outbox' = outbox /\ reply' = reply
    BY <1>10 DEF Crash, TypeInv, node
  <2> QED
    BY <1>4, <1>5, <2>1, StreamLost DEF Fine
<1>11. ASSUME NEW g \in Core, NEW i \in Id, Handle(g, i), NEW f \in Core PROVE Fine(f)
  <2>1. UNCHANGED <<inbox, pending, reply>> /\ Counts' = Counts
    BY <1>5, <1>11, HandleCases DEF node
  <2>2. PICK t \in tasks[g] : /\ t \in Task
                              /\ Ended(g, t) \/ Opened(g, t) \/ Passed(g, t) \/ Broke(g, t)
    BY <1>11, HandleCases
  <2>3. Ends(g, t) => tasks'[f] = IF f = g THEN tasks[f] \ {t} ELSE tasks[f]
    BY DEF Ends, TypeInv
  <2>4. \A u : Goes(g, t, u) => tasks'[f] = IF f = g THEN (tasks[f] \ {t}) \cup {u} ELSE tasks[f]
    BY DEF Goes, TypeInv
  <2>5. \A m : Prints(g, m) => outbox'[f] = IF f = g THEN Append(outbox[f], m) ELSE outbox[f]
    BY DEF Prints, TypeInv
  <2>6. CASE f # g
    BY <1>6, <2>1, <2>2, <2>3, <2>4, <2>5, <2>6 DEF Ended, Opened, Passed, Broke
  <2>7. CASE f = g /\ Ended(g, t)
    <3>1. PICK w \in LastWord(t) : Says(t, w, 0) \in Message /\ Prints(g, Says(t, w, 0))
      BY <2>7 DEF Ended
    <3>2. w # "sse" /\ (w = "refusal" => t.sent = 0)
      <4>1. w = "refusal" => t.phase = "asking"
        BY <2>2, <3>1 DEF LastWord, Task
      <4>2. w # "sse"
        BY <3>1 DEF LastWord
      <4>3. t.phase = "asking" => t.sent = 0
        BY DEF TypeInv
      <4> QED
        BY <4>1, <4>2, <4>3
    <3> DEFINE m == Says(t, w, 0)
    <3>3. /\ m \in Message /\ Prints(g, m) /\ Ends(g, t)
          /\ m.id = t.id /\ m.from = t.from /\ m.type # "sse" /\ (m.type = "refusal" => t.sent = 0)
      BY <2>7, <3>1, <3>2 DEF Says, Ended
    <3> HIDE DEF m
    <3>4. Streamed(inbox[g], tasks[g] \ {t}, Append(outbox[g], m), pending, Counts)
      BY <1>1, <1>2, <1>3, <3>3, StreamEnded
    <3> QED
      BY <2>1, <2>3, <2>5, <2>7, <3>3, <3>4 DEF Fine
  <2>8. CASE f = g /\ Opened(g, t)
    <3>1. PICK u \in Task : u.id = t.id /\ u.from = t.from /\ u.sent = t.sent /\ Goes(g, t, u)
      BY <2>8 DEF Opened
    <3>2. Streamed(inbox[g], (tasks[g] \ {t}) \cup {u}, outbox[g], pending, Counts)
      BY <1>2, <3>1, StreamOpened
    <3> QED
      BY <2>1, <2>4, <2>8, <3>1, <3>2 DEF Fine, Opened
  <2>9. CASE f = g /\ Passed(g, t)
    <3> DEFINE m == Says(t, "sse", t.sent + 1)
    <3>1. /\ m \in Message /\ m.id = t.id /\ m.from = t.from /\ m.type = "sse" /\ m.n = t.sent + 1
          /\ Prints(g, m)
      BY <2>9 DEF Says, Passed
    <3>2. PICK u \in Task : u.id = t.id /\ u.from = t.from /\ u.sent = t.sent + 1 /\ Goes(g, t, u)
      BY <2>9 DEF Passed
    <3> HIDE DEF m
    <3>3. Streamed(inbox[g], (tasks[g] \ {t}) \cup {u}, Append(outbox[g], m), pending, Counts)
      BY <1>1, <1>2, <1>3, <3>1, <3>2, StreamPassed
    <3> QED
      BY <2>1, <2>4, <2>5, <2>9, <3>1, <3>2, <3>3 DEF Fine
  <2>10. CASE f = g /\ Broke(g, t)
    <3>1. Streamed(inbox[g], tasks[g] \ {t}, outbox[g], pending, Counts)
      BY <1>2, StreamLost
    <3> QED
      BY <2>1, <2>3, <2>10, <3>1 DEF Fine, Broke
  <2> QED
    BY <2>2, <2>6, <2>7, <2>8, <2>9, <2>10
<1>12. ASSUME NEW h \in Call, Reject(h) \/ Answer(h), NEW f \in Core PROVE Fine(f)
  <2>1. \A e \in Call : reply'[e].chunks = reply[e].chunks
    BY <1>12, CloseCases
  <2>2. Counts' = Counts
    BY <2>1 DEF Counts
  <2> QED
    BY <1>6, <1>12, <2>2 DEF Reject, Answer, go
<1>13. ASSUME NEW g \in Core, Exit(g) \/ Stop(g), NEW f \in Core PROVE Fine(f)
  BY <1>5, <1>6, <1>13 DEF Exit, Stop, node
<1>14. ASSUME UNCHANGED vars, NEW f \in Core PROVE Fine(f)
  BY <1>5, <1>6, <1>14 DEF vars, node, go
<1>15. \A f \in Core : Fine(f)
  BY <1>7, <1>8, <1>9, <1>10, <1>11, <1>12, <1>13, <1>14 DEF Next
<1> QED
  BY <1>15 DEF StreamInv, Fine

LEMMA StepReply ==
  ASSUME TypeInv, CallInv, CoreInv, WireInv, OnceInv, StreamInv, ReplyInv, [Next]_vars
  PROVE  ReplyInv'
<1> DEFINE Good(h) ==
      /\ \A k \in 1..Counts'[h] : reply'[h].chunks[k] = <<h, k>>
      /\ ~reply'[h].ended => reply'[h].head = IF Counts'[h] = 0 THEN "none" ELSE "sse"
      /\ outcome'[h] = Idle => Counts'[h] = 0
      /\ outcome'[h].type \in {"result", "refusal"} => outcome'[h].from = h
      /\ outcome'[h].type = "refusal" => reply'[h].head \in {"none", "refused"}
      /\ reply'[h].head \in {"200", "refused"} => reply'[h].from = h
<1>1. reply' = reply => Counts' = Counts
  BY DEF Counts
<1>2. ASSUME NEW h \in Call, reply'[h] = reply[h], Counts'[h] = Counts[h], outcome'[h] = outcome[h]
      PROVE  Good(h)
  BY <1>2 DEF ReplyInv
<1>3. ASSUME NEW h \in Call, reply'[h] = reply[h], Counts'[h] = Counts[h], outcome'[h] \in {Waiting, Gone}
      PROVE  Good(h)
  BY <1>3 DEF ReplyInv, Idle, Waiting, Gone
<1> HIDE DEF Good
<1>4. ASSUME NEW f \in Call, rpcCall(f), NEW h \in Call PROVE Good(h)
  <2>1. reply' = reply /\ outcome'[h] = IF h = f THEN Waiting ELSE outcome[h]
    BY <1>4, CallCases DEF TypeInv
  <2> QED
    BY <1>1, <1>2, <1>3, <2>1
<1>5. ASSUME NEW g \in Core, Line(g), NEW h \in Call PROVE Good(h)
  <2> DEFINE m == Head(outbox[g])
  <2>1. m \in Message /\ m = outbox[g][1] /\ 1 \in 1..Len(outbox[g])
    BY <1>5, LineCases
  <2>2. \/ UNCHANGED <<outcome, reply, Counts>>
        \/ /\ pending[m.id] = m.from /\ m.from \in Call
           /\ outcome[m.from] = Waiting /\ ~reply[m.from].ended
           /\ \/ /\ m.n = Counts[m.from] + 1
                 /\ reply' = [reply EXCEPT ![m.from] = WithChunk(@, m)]
                 /\ Counts' = [Counts EXCEPT ![m.from] = m.n]
                 /\ outcome' = outcome
              \/ /\ m.type # "sse" /\ Resolve(m.from, m)
                 /\ UNCHANGED <<reply, Counts>>
    BY <1>5, LineCases
  <2> HIDE DEF m
  <2>3. CASE UNCHANGED <<outcome, reply, Counts>>
    BY <1>2, <2>3
  <2>4. CASE /\ m.from \in Call /\ outcome[m.from] = Waiting /\ ~reply[m.from].ended
             /\ m.n = Counts[m.from] + 1
             /\ reply' = [reply EXCEPT ![m.from] = WithChunk(@, m)]
             /\ Counts' = [Counts EXCEPT ![m.from] = m.n]
             /\ outcome' = outcome
    <3>1. CASE h # m.from
      BY <1>2, <2>4, <3>1, CountsTyped DEF TypeInv
    <3>2. CASE h = m.from
      <4>1. /\ reply[h] \in Response /\ Counts[h] \in Nat /\ Counts[h] = Len(reply[h].chunks)
            /\ reply[h].chunks \in Seq(Call \X (0..MaxFrames)) /\ <<h, m.n>> \in Call \X (0..MaxFrames)
        BY <2>1, <3>2, CountsTyped DEF TypeInv, Message
      <4>2. /\ reply'[h].chunks = Append(reply[h].chunks, <<h, m.n>>)
            /\ reply'[h].head = "sse"
        BY <2>4, <3>2, <4>1 DEF WithChunk, TypeInv, Response
      <4>3. Counts'[h] = Len(reply[h].chunks) + 1 /\ Counts'[h] = m.n
        BY <2>4, <3>2, <4>1, CountsTyped
      <4>4. \A k \in 1..Counts'[h] : reply'[h].chunks[k] = <<h, k>>
        <5> SUFFICES ASSUME NEW k \in 1..Counts'[h] PROVE reply'[h].chunks[k] = <<h, k>>
          OBVIOUS
        <5>1. CASE k = m.n
          BY <4>1, <4>2, <4>3, <5>1, AppendElements
        <5>2. CASE k # m.n
          <6>1. k \in 1..Counts[h] /\ k \in 1..Len(reply[h].chunks)
            BY <4>1, <4>3, <5>2
          <6>2. reply[h].chunks[k] = <<h, k>>
            BY <6>1 DEF ReplyInv
          <6> QED
            BY <4>1, <4>2, <6>1, <6>2, AppendElements
        <5> QED
          BY <5>1, <5>2
      <4>5. outcome'[h] = Waiting /\ Counts'[h] # 0
        BY <2>4, <3>2, <4>1, <4>3
      <4>6. outcome'[h] # Idle /\ outcome'[h].type = "waiting"
        BY <4>5 DEF Idle, Waiting
      <4> QED
        BY <4>2, <4>4, <4>5, <4>6 DEF Good
    <3> QED
      BY <3>1, <3>2
  <2>5. CASE /\ pending[m.id] = m.from /\ m.from \in Call
             /\ outcome[m.from] = Waiting /\ ~reply[m.from].ended
             /\ m.type # "sse" /\ Resolve(m.from, m)
             /\ UNCHANGED <<reply, Counts>>
    <3>1. CASE h # m.from
      BY <1>2, <2>5, <3>1 DEF Resolve, TypeInv
    <3>2. CASE h = m.from /\ m.type = "error"
      <4>1. outcome'[h] = Gone
        BY <2>5, <3>2 DEF Resolve, TypeInv
      <4> QED
        BY <1>3, <2>5, <4>1
    <3>3. CASE h = m.from /\ m.type # "error"
      <4>1. outcome'[h] = [type |-> m.type, from |-> h]
        BY <2>5, <3>3 DEF Resolve, TypeInv
      <4>2. outcome'[h] # Idle
        BY <2>1, <2>5, <3>3, Resolved DEF TypeInv
      <4>3. m.type = "refusal" => Counts[h] = 0
        <5>1. Streamed(inbox[g], tasks[g], outbox[g], pending, Counts)
          BY <1>5 DEF StreamInv
        <5> QED
          BY <2>1, <2>5, <3>3, <5>1, CountTyped DEF Streamed
      <4>4. m.type = "refusal" => reply[h].head = "none"
        BY <2>5, <3>3, <4>3 DEF ReplyInv
      <4>5. /\ \A k \in 1..Counts'[h] : reply'[h].chunks[k] = <<h, k>>
            /\ ~reply'[h].ended => reply'[h].head = IF Counts'[h] = 0 THEN "none" ELSE "sse"
            /\ reply'[h].head \in {"200", "refused"} => reply'[h].from = h
        BY <2>5 DEF ReplyInv
      <4> QED
        BY <2>5, <4>1, <4>2, <4>4, <4>5 DEF Good
    <3> QED
      BY <3>1, <3>2, <3>3
  <2> QED
    BY <2>2, <2>3, <2>4, <2>5
<1>6. ASSUME NEW g \in Core, Exit(g), NEW h \in Call PROVE Good(h)
  <2>1. reply' = reply /\ outcome'[h] \in {outcome[h], Gone}
    BY <1>6 DEF Exit, OutcomeAfterExit
  <2> QED
    BY <1>1, <1>2, <1>3, <2>1
<1>7. ASSUME NEW f \in Call, Reject(f) \/ Answer(f), NEW h \in Call PROVE Good(h)
  <2>1. /\ outcome' = outcome /\ reply'[f].ended /\ reply'[h].chunks = reply[h].chunks
        /\ h # f => reply'[h] = reply[h]
        /\ ~reply[f].ended
    BY <1>7, CloseCases
  <2>2. Counts'[h] = Counts[h]
    BY <2>1 DEF Counts
  <2>3. CASE h # f
    BY <1>2, <2>1, <2>2, <2>3
  <2>4. CASE h = f
    <3>1. /\ \A k \in 1..Counts'[h] : reply'[h].chunks[k] = <<h, k>>
          /\ outcome'[h] = Idle => Counts'[h] = 0
          /\ outcome'[h].type \in {"result", "refusal"} => outcome'[h].from = h
      BY <2>1, <2>2 DEF ReplyInv
    <3>2. CASE outcome[h] = Idle /\ reply'[h].head = "rejected"
      BY <2>1, <2>4, <3>1, <3>2 DEF Good, Idle
    <3>3. CASE reply[h].head = "sse" /\ reply'[h].head = "sse"
      <4>1. outcome[h].type # "refusal"
        BY <3>3 DEF ReplyInv
      <4> QED
        BY <2>1, <2>4, <3>1, <3>3, <4>1 DEF Good
    <3>4. CASE reply'[h].head = HeadOf(h) /\ reply'[h].from = outcome[h].from
      <4>1. /\ HeadOf(h) = "refused" => outcome[h].type = "refusal"
            /\ HeadOf(h) = "200" => outcome[h].type = "result"
            /\ outcome[h].type = "refusal" => HeadOf(h) = "refused"
        <5>1. CASE outcome[h].type = "refusal"
          BY <5>1 DEF HeadOf
        <5>2. CASE outcome[h].type # "refusal"
          BY <5>2 DEF HeadOf
        <5> QED
          BY <5>1, <5>2
      <4> QED
        BY <2>1, <2>4, <3>1, <3>4, <4>1 DEF Good
    <3> QED
      BY <1>7, <2>4, <3>2, <3>3, <3>4, CloseCases
  <2> QED
    BY <2>3, <2>4
<1>8. ASSUME UNCHANGED <<outcome, reply>>, NEW h \in Call PROVE Good(h)
  BY <1>1, <1>2, <1>8
<1>9. ASSUME NEW g \in Core, Read(g) \/ Stop(g) \/ Crash(g), NEW h \in Call PROVE Good(h)
  BY <1>8, <1>9 DEF Read, Stop, Crash, node
<1>10. ASSUME NEW g \in Core, NEW i \in Id, Handle(g, i), NEW h \in Call PROVE Good(h)
  BY <1>8, <1>10, HandleCases DEF node
<1>11. ASSUME UNCHANGED vars, NEW h \in Call PROVE Good(h)
  BY <1>8, <1>11 DEF vars, node
<1>12. \A h \in Call : Good(h)
  BY <1>4, <1>5, <1>6, <1>7, <1>9, <1>10, <1>11 DEF Next
<1> QED
  BY <1>12 DEF ReplyInv, Good

------------------------------------------------------------------------------
(* Nobody is forgotten: a core that still runs holds every request that is  *)
(* awaited, but for the streams that broke.                                 *)
Held(q, T, o, i) ==
  \/ \E k \in 1..Len(q) : q[k].id = i
  \/ \E t \in T : t.id = i
  \/ \E k \in 1..Len(o) : o[k].id = i /\ o[k].type # "sse"

Attended ==
  \A i \in Id : pending[i] \notin broken \cup {None} =>
    child # 0 /\ (core[child] = "down" \/ Held(inbox[child], tasks[child], outbox[child], i))

LEMMA StepAttended ==
  ASSUME TypeInv, CallInv, CoreInv, WireInv, OnceInv, StreamInv, Attended, [Next]_vars
  PROVE  Attended'
<1> DEFINE Now(i)   == Held(inbox[child], tasks[child], outbox[child], i)
           Then(i)  == Held(inbox'[child], tasks'[child], outbox'[child], i)
           Cared(i) == pending'[i] \notin broken' \cup {None} =>
                         /\ child' # 0
                         /\ \/ core'[child'] = "down"
                            \/ Held(inbox'[child'], tasks'[child'], outbox'[child'], i)
<1>0. \A i \in Id : pending[i] \notin broken \cup {None} => child # 0 /\ (core[child] = "down" \/ Now(i))
  BY DEF Attended
<1>1. child # 0 => child \in Core /\ core[child] \in {"reading", "draining", "down"}
  BY DEF TypeInv, CoreInv
<1> HIDE DEF Now, Then
<1>2. ASSUME NEW i \in Id, child' = child, pending'[i] \in {pending[i], None}, broken \subseteq broken',
             child # 0 /\ core[child] = "down" => core'[child] = "down",
             pending'[i] \notin broken' \cup {None} => (Now(i) => Then(i) \/ core'[child] = "down")
      PROVE  Cared(i)
  <2> SUFFICES ASSUME pending'[i] \notin broken' \cup {None}
               PROVE  child # 0 /\ (core'[child] = "down" \/ Then(i))
    BY <1>2 DEF Then
  <2> QED
    BY <1>0, <1>2
<1>3. ASSUME child \in Core, inbox'[child] = inbox[child], tasks'[child] = tasks[child], outbox'[child] = outbox[child],
             NEW i \in Id, Now(i)
      PROVE  Then(i)
  BY <1>3 DEF Now, Then
<1> HIDE DEF Cared
<1>4. ASSUME NEW h \in Call, rpcCall(h), NEW i \in Id PROVE Cared(i)
  <2>1. /\ nextId \in Id /\ child' \in Core /\ UNCHANGED <<outbox, tasks, broken>>
        /\ pending' = [pending EXCEPT ![nextId] = h]
        /\ \/ inbox' = [inbox EXCEPT ![child'] = Append(@, Asks(h))]
           \/ inbox' = inbox /\ core' = core /\ child' = child /\ core[child] = "down"
    BY <1>4, CallCases
  <2>2. CASE i = nextId
    <3>1. CASE inbox' = [inbox EXCEPT ![child'] = Append(@, Asks(h))]
      <4>1. inbox'[child'] = Append(inbox[child'], Asks(h)) /\ Asks(h) \in Request /\ inbox[child'] \in Seq(Request)
        BY <1>4, <2>1, <3>1, CallCases DEF TypeInv
      <4>2. \E k \in 1..Len(inbox'[child']) : inbox'[child'][k] = Asks(h)
        BY <4>1, AppendElements
      <4>3. Asks(h).id = i
        BY <2>2 DEF Asks
      <4>4. Held(inbox'[child'], tasks'[child'], outbox'[child'], i)
        BY <4>2, <4>3 DEF Held
      <4> QED
        BY <2>1, <4>4, CountTyped DEF Cared
    <3> QED
      BY <2>1, <3>1, CountTyped DEF Cared
  <2>3. CASE i # nextId /\ child = 0
    BY <2>1, <2>3 DEF Cared, CoreInv, TypeInv
  <2>4. CASE i # nextId /\ child # 0
    <3>1. child' = child /\ core' = core /\ pending'[i] = pending[i]
      BY <1>4, <2>1, <2>4 DEF rpcCall, NeedsCore, TypeInv
    <3>2. ASSUME Now(i) PROVE Then(i)
      <4>1. inbox[child] \in Seq(Request) /\ Asks(h) \in Request
        BY <1>1, <1>4, <2>4, CallCases DEF TypeInv
      <4>2. inbox'[child] \in {inbox[child], Append(inbox[child], Asks(h))}
        BY <1>1, <2>1, <2>4, <3>1 DEF TypeInv
      <4>3. \A k \in 1..Len(inbox[child]) : k \in 1..Len(inbox'[child]) /\ inbox'[child][k] = inbox[child][k]
        BY <4>1, <4>2, AppendElements
      <4> QED
        BY <2>1, <3>2, <4>3 DEF Now, Then, Held
    <3> QED
      BY <1>2, <2>1, <3>1, <3>2
  <2> QED
    BY <2>2, <2>3, <2>4
<1>5. ASSUME NEW g \in Core, Line(g), NEW i \in Id PROVE Cared(i)
  <2> DEFINE m == Head(outbox[g])
  <2>1. /\ UNCHANGED <<child, core, inbox, tasks, broken>> /\ m = outbox[g][1]
        /\ outbox[g] # <<>> /\ outbox' = [outbox EXCEPT ![g] = Tail(@)] /\ m \in Message
    BY <1>5, LineCases
  <2>2. pending'[i] \in {pending[i], None}
    BY <1>5, LineCases DEF Resolve, TypeInv
  <2>3. m.id = i /\ m.type # "sse" => pending'[i] = None
    <3>1. m.id \in Id
      BY <2>1 DEF Message
    <3>2. \/ pending[m.id] = None /\ pending' = pending
          \/ m.type = "sse"
          \/ pending' = [pending EXCEPT ![m.id] = None]
      BY <1>5, LineCases DEF Resolve
    <3> QED
      BY <3>1, <3>2 DEF TypeInv
  <2> HIDE DEF m
  <2>4. ASSUME pending'[i] # None, Now(i), child # 0 PROVE Then(i)
    <3>1. CASE child # g
      BY <1>1, <1>3, <2>1, <2>4, <3>1 DEF TypeInv
    <3>2. CASE child = g
      <4>1. outbox'[g] = Tail(outbox[g]) /\ outbox[g] \in Seq(Message)
        BY <2>1 DEF TypeInv
      <4>2. \A k \in 1..Len(outbox[g]) : k # 1 => k - 1 \in 1..Len(outbox'[g]) /\ outbox'[g][k - 1] = outbox[g][k]
        <5>1. outbox[g] # <<>>
          BY <2>1
        <5> QED
          BY <4>1, <5>1, TailElements
      <4>3. \A k \in 1..Len(outbox[g]) : outbox[g][k].id = i /\ outbox[g][k].type # "sse" => k # 1
        BY <2>1, <2>3, <2>4
      <4>4. inbox' = inbox /\ tasks' = tasks
        BY <2>1
      <4>5. ASSUME NEW k \in 1..Len(outbox[g]), outbox[g][k].id = i, outbox[g][k].type # "sse" PROVE Then(i)
        <5>1. \E j \in 1..Len(outbox'[g]) : outbox'[g][j].id = i /\ outbox'[g][j].type # "sse"
          BY <4>2, <4>3, <4>5
        <5> QED
          BY <3>2, <5>1 DEF Then, Held
      <4> QED
        BY <2>4, <3>2, <4>4, <4>5 DEF Now, Then, Held
    <3> QED
      BY <3>1, <3>2
  <2>5. pending'[i] \notin broken' \cup {None} => child # 0
    BY <1>0, <2>1, <2>2
  <2> QED
    BY <1>2, <2>1, <2>2, <2>4, <2>5
<1>6. ASSUME NEW g \in Core, Exit(g), NEW i \in Id PROVE Cared(i)
  BY <1>6 DEF Exit, PendingAfterExit, Cared
<1>7. ASSUME NEW g \in Core, Read(g), NEW i \in Id PROVE Cared(i)
  <2>1. UNCHANGED <<child, pending, outbox, broken>> /\ inbox[g] # <<>> /\ core[g] = "reading"
    BY <1>7 DEF Read, node
  <2>2. child # 0 /\ core[child] = "down" => core'[child] = "down"
    BY <1>1, <1>7, <2>1, ReadCases DEF TypeInv
  <2>3. ASSUME child # 0, Now(i) PROVE Then(i)
    <3>1. CASE UNCHANGED <<inbox, tasks>>
      BY <1>1, <1>3, <2>1, <2>3, <3>1
    <3>2. CASE /\ inbox' = [inbox EXCEPT ![g] = Tail(@)]
               /\ tasks' = [tasks EXCEPT ![g] = @ \cup {Born(Head(inbox[g]))}]
      <4>1. CASE child # g
        BY <1>1, <1>3, <2>1, <2>3, <3>2, <4>1 DEF TypeInv
      <4>2. CASE child = g
        <5>1. /\ inbox'[g] = Tail(inbox[g]) /\ inbox[g] \in Seq(Request)
              /\ tasks'[g] = tasks[g] \cup {Born(Head(inbox[g]))}
          BY <3>2 DEF TypeInv
        <5>2. /\ \A k \in 1..Len(inbox[g]) : k # 1 => k - 1 \in 1..Len(inbox'[g]) /\ inbox'[g][k - 1] = inbox[g][k]
              /\ Head(inbox[g]) = inbox[g][1]
          BY <2>1, <5>1, TailElements
        <5>3. Born(Head(inbox[g])).id = inbox[g][1].id
          BY <5>2 DEF Born
        <5>4. ASSUME NEW k \in 1..Len(inbox[g]), inbox[g][k].id = i PROVE Then(i)
          <6>1. CASE k = 1
            BY <4>2, <5>1, <5>3, <5>4, <6>1 DEF Then, Held
          <6>2. CASE k # 1
            BY <4>2, <5>2, <5>4, <6>2 DEF Then, Held
          <6> QED
            BY <6>1, <6>2
        <5>5. ASSUME NEW t \in tasks[g], t.id = i PROVE Then(i)
          BY <4>2, <5>1, <5>5 DEF Then, Held
        <5>6. ASSUME NEW k \in 1..Len(outbox[g]), outbox[g][k].id = i, outbox[g][k].type # "sse" PROVE Then(i)
          BY <2>1, <4>2, <5>6 DEF Then, Held
        <5> QED
          BY <2>3, <4>2, <5>4, <5>5, <5>6 DEF Now, Held
      <4> QED
        BY <4>1, <4>2
    <3> QED
      BY <1>7, <3>1, <3>2, ReadCases
  <2>4. pending'[i] \notin broken' \cup {None} => child # 0
    BY <1>0, <2>1
  <2> QED
    BY <1>2, <2>1, <2>2, <2>3, <2>4
<1>8. ASSUME NEW g \in Core, Stop(g) \/ Crash(g), NEW i \in Id PROVE Cared(i)
  <2>1. g = child /\ core'[child] = "down" /\ UNCHANGED <<child, pending, broken>>
    BY <1>8 DEF Stop, Drained, Crash, CoreInv, OneCore, TypeInv, node
  <2> QED
    BY <1>2, <2>1
<1>9. ASSUME NEW g \in Core, NEW j \in Id, Handle(g, j), NEW i \in Id PROVE Cared(i)
  <2>1. UNCHANGED <<child, pending, core, inbox>>
    BY <1>9, HandleCases DEF node
  <2>2. PICK t \in tasks[g] : t \in Task /\ (Ended(g, t) \/ Opened(g, t) \/ Passed(g, t) \/ Broke(g, t))
    BY <1>9, HandleCases
  <2>3. /\ broken \subseteq broken'
        /\ Ended(g, t) \/ Opened(g, t) \/ Passed(g, t) => broken' = broken
    BY <2>2 DEF Ended, Opened, Passed, Broke
  <2>4. ASSUME Now(i), child # 0, pending'[i] \notin broken' \cup {None} PROVE Then(i)
    <3>1. Ends(g, t) => \A f \in Core : tasks'[f] = IF f = g THEN tasks[f] \ {t} ELSE tasks[f]
      BY DEF Ends, TypeInv
    <3>2. \A u : Goes(g, t, u) => \A f \in Core : tasks'[f] = IF f = g THEN (tasks[f] \ {t}) \cup {u} ELSE tasks[f]
      BY DEF Goes, TypeInv
    <3>3. \A m : Prints(g, m) => \A f \in Core : outbox'[f] = IF f = g THEN Append(outbox[f], m) ELSE outbox[f]
      BY DEF Prints, TypeInv
    <3>4. CASE child # g
      <4>1. tasks'[child] = tasks[child] /\ outbox'[child] = outbox[child]
        BY <1>1, <2>2, <2>4, <3>1, <3>2, <3>3, <3>4 DEF Ended, Opened, Passed, Broke
      <4> QED
        BY <1>1, <1>3, <2>1, <2>4, <4>1
    <3>5. CASE child = g
      <4>1. outbox[g] \in Seq(Message)
        BY DEF TypeInv
      <4>2. ASSUME NEW m \in Message, Prints(g, m)
            PROVE  /\ \A k \in 1..Len(outbox[g]) : k \in 1..Len(outbox'[g]) /\ outbox'[g][k] = outbox[g][k]
                   /\ Len(outbox[g]) + 1 \in 1..Len(outbox'[g]) /\ outbox'[g][Len(outbox[g]) + 1] = m
        <5>1. outbox'[g] = Append(outbox[g], m)
          BY <3>3, <4>2
        <5> QED
          BY <4>1, <5>1, AppendElements
      <4>3. \A k \in 1..Len(outbox[g]) : k \in 1..Len(outbox'[g]) /\ outbox'[g][k] = outbox[g][k]
        BY <2>2, <4>2 DEF Ended, Opened, Passed, Broke
      <4>4. CASE i # t.id
        <5>1. \A v \in tasks[g] : v.id = i => v \in tasks'[g]
          BY <2>2, <3>1, <3>2, <4>4 DEF Ended, Opened, Passed, Broke
        <5> QED
          BY <2>1, <2>4, <3>5, <4>3, <5>1 DEF Now, Then, Held
      <4>5. CASE i = t.id /\ Ended(g, t)
        <5>1. PICK w \in LastWord(t) : Says(t, w, 0) \in Message /\ Prints(g, Says(t, w, 0))
          BY <4>5 DEF Ended
        <5>2. Says(t, w, 0).id = i /\ Says(t, w, 0).type # "sse"
          BY <4>5, <5>1 DEF Says, LastWord
        <5>3. \E k \in 1..Len(outbox'[g]) : outbox'[g][k].id = i /\ outbox'[g][k].type # "sse"
          BY <4>2, <5>1, <5>2
        <5> QED
          BY <3>5, <5>3 DEF Then, Held
      <4>6. CASE i = t.id /\ (Opened(g, t) \/ Passed(g, t))
        <5>1. PICK u : u.id = t.id /\ Goes(g, t, u)
          BY <4>6 DEF Opened, Passed
        <5>2. u \in tasks'[g]
          BY <3>2, <5>1
        <5> QED
          BY <3>5, <4>6, <5>1, <5>2 DEF Then, Held
      <4>7. CASE i = t.id /\ Broke(g, t)
        <5>1. pending[i] = t.from
          BY <2>1, <2>4, <4>7 DEF WireInv, Owned
        <5> QED
          BY <2>1, <2>4, <4>7, <5>1 DEF Broke
      <4> QED
        BY <2>2, <4>4, <4>5, <4>6, <4>7
    <3> QED
      BY <3>4, <3>5
  <2>5. pending'[i] \notin broken' \cup {None} => child # 0
    BY <1>0, <2>1, <2>3
  <2> QED
    BY <1>2, <2>1, <2>3, <2>4, <2>5
<1>10. ASSUME UNCHANGED <<child, pending, go>>, NEW i \in Id PROVE Cared(i)
  BY <1>0, <1>10 DEF Cared, Now, go
<1>11. \A i \in Id : Cared(i)
  BY <1>4, <1>5, <1>6, <1>7, <1>8, <1>9, <1>10 DEF Next, Reject, Answer, vars, node
<1> QED
  BY <1>11 DEF Attended, Cared

------------------------------------------------------------------------------
(* The inductive invariant.                                                 *)
IInv ==
  /\ TypeInv /\ CallInv /\ CoreInv
  /\ WireInv /\ OnceInv /\ StreamInv
  /\ ReplyInv /\ Attended

LEMMA InitInv == Init => IInv
<1> SUFFICES ASSUME Init PROVE IInv
  OBVIOUS
<1>1. TypeInv
  BY InitTypes
<1>2. /\ nextId = 1 /\ child = 0 /\ \A i \in Id : pending[i] = None
      /\ \A h \in Call : outcome[h] = Idle /\ reply[h] = NoReply
      /\ \A g \in Core : core[g] = "unborn" /\ inbox[g] = <<>> /\ outbox[g] = <<>> /\ tasks[g] = {}
  BY DEF Init
<1>3. CallInv
  <2>1. Started = {}
    BY <1>2 DEF Started
  <2>2. nextId = Cardinality(Started) + 1
    BY <1>2, <2>1, FS_EmptySet
  <2> QED
    BY <1>2, <2>2, Distinct DEF CallInv
<1>4. CoreInv
  BY <1>2 DEF CoreInv, OneCore
<1>5. \A g \in Core : Len(inbox[g]) = 0 /\ Len(outbox[g]) = 0
  BY <1>2
<1>6. WireInv /\ OnceInv /\ StreamInv
  BY <1>2, <1>5 DEF WireInv, OnceInv, Once, StreamInv, Streamed
<1>7. \A h \in Call : Counts[h] = 0
  BY <1>2 DEF Counts, NoReply
<1>8. ReplyInv
  BY <1>2, <1>7 DEF ReplyInv, Idle, NoReply
<1>9. Attended
  BY <1>2 DEF Attended
<1> QED
  BY <1>1, <1>3, <1>4, <1>6, <1>8, <1>9 DEF IInv

LEMMA StepInv == IInv /\ [Next]_vars => IInv'
<1> SUFFICES ASSUME IInv, [Next]_vars PROVE IInv'
  OBVIOUS
<1>1. TypeInv' /\ CallInv' /\ CoreInv'
  BY StepTypes, StepCalls, StepCore DEF IInv
<1>2. WireInv' /\ OnceInv'
  BY StepWire, StepOnce DEF IInv
<1>3. StreamInv' /\ ReplyInv' /\ Attended'
  BY StepStream, StepReply, StepAttended DEF IInv
<1> QED
  BY <1>1, <1>2, <1>3 DEF IInv

(* The invariant is preserved by every step of the bridge, from any state   *)
(* that satisfies it.                                                       *)
THEOREM Invariance == Spec => []IInv
BY InitInv, StepInv, PTL DEF Spec

------------------------------------------------------------------------------
(* Every variable keeps its type, however many cores die: an id is handed   *)
(* out once per request and a frame is one its stream may have (nextId of   *)
(* index.js, emit of rpc.go).                                               *)
THEOREM TypesHold == Spec => []BridgeTypeOK
<1>1. IInv => BridgeTypeOK
  <2> SUFFICES ASSUME IInv PROVE BridgeTypeOK
    OBVIOUS
  <2>1. TypeInv /\ ReplyInv
    BY DEF IInv
  <2>2. nextId \in Id \cup {Cardinality(Call) + 1}
    BY <2>1, CountTyped DEF TypeInv
  <2>3. ASSUME NEW h \in Call
        PROVE  outcome[h] \in [type : {"idle", "waiting", "rpc_error", "end", "result", "refusal"},
                               from : Call \cup {None}]
    BY <2>1 DEF TypeInv, Promise, Idle, Waiting, Gone
  <2>4. ASSUME NEW h \in Call
        PROVE  reply[h].chunks \in Seq(Call \X (1..MaxFrames))
    <3> DEFINE s == reply[h].chunks
    <3>1. s \in Seq(Call \X (0..MaxFrames)) /\ Counts[h] = Len(s)
      BY <2>1, CountsTyped
    <3>2. \A k \in 1..Len(s) : s[k] = <<h, k>> /\ s[k] \in Call \X (0..MaxFrames)
      BY <2>1, <3>1 DEF ReplyInv
    <3> HIDE DEF s
    <3>3. \A k \in 1..Len(s) : s[k] \in Call \X (1..MaxFrames)
      <4> SUFFICES ASSUME NEW k \in 1..Len(s) PROVE s[k] \in Call \X (1..MaxFrames)
        OBVIOUS
      <4>1. s[k] = <<h, k>> /\ s[k] \in Call \X (0..MaxFrames)
        BY <3>2
      <4>2. k \in 0..MaxFrames /\ k >= 1
        BY <3>1, <4>1
      <4>3. k \in 1..MaxFrames
        BY <4>2, CountTyped
      <4> QED
        BY <4>1, <4>3
    <3>4. s \in Seq(Call \X (1..MaxFrames))
      <4>1. Len(s) \in Nat /\ s \in [1..Len(s) -> Call \X (0..MaxFrames)]
        BY <3>1, LenProperties
      <4>2. s \in [1..Len(s) -> Call \X (1..MaxFrames)]
        BY <3>3, <4>1
      <4> QED
        BY <4>1, <4>2, SeqDef
    <3> QED
      BY <3>4 DEF s
  <2>5. \A g \in Core : inbox[g] \in Seq(Request) /\ outbox[g] \in Seq(Message) /\ tasks[g] \subseteq Task
    BY <2>1 DEF TypeInv
  <2> QED
    BY <2>1, <2>2, <2>3, <2>4, <2>5 DEF BridgeTypeOK, TypeInv
<1> QED
  BY <1>1, Invariance, PTL

(* At most one core runs, and it is the one Node writes to, whenever cores  *)
(* die and however late their exit is seen (ensureChild).                   *)
THEOREM OneCoreRuns == Spec => []OneCore
<1>1. IInv => OneCore
  BY DEF IInv, CoreInv
<1> QED
  BY <1>1, Invariance, PTL

(* Every request is answered with its own frames, from the first and        *)
(* without a gap, and with a result or refusal that was meant for it, for   *)
(* any interleaving of requests over one pipe and any number of cores that  *)
(* die with lines still in theirs (message.id of index.js, emit of rpc.go). *)
THEOREM RepliesAreOwn == Spec => []OwnReply
<1>1. IInv => OwnReply
  <2> SUFFICES ASSUME IInv, NEW h \in Call
               PROVE  /\ \A k \in DOMAIN reply[h].chunks : reply[h].chunks[k] = <<h, k>>
                      /\ reply[h].head \in {"200", "refused"} => reply[h].from = h
    BY DEF OwnReply
  <2>1. DOMAIN reply[h].chunks = 1..Counts[h]
    BY CountsTyped DEF IInv
  <2> QED
    BY <2>1 DEF IInv, ReplyInv
<1> QED
  BY <1>1, Invariance, PTL

(* A refusal always finds the response untouched: the SSE head waits for    *)
(* the first frame, and no frame comes before a refusal (index.js:151).     *)
THEOREM HeadWaits == Spec => []HeadAwaitsVerdict
<1>1. IInv => HeadAwaitsVerdict
  BY DEF IInv, ReplyInv, HeadAwaitsVerdict
<1> QED
  BY <1>1, Invariance, PTL

(* No call is lost: a request that waits has its entry in `pending`, and    *)
(* the entry has somebody to end it -- the core in use holds the request or *)
(* its answer, or is down with an exit to be seen -- but for the streams    *)
(* that broke (ServeStdio, child.on("exit")).                               *)
THEOREM NoCallIsLost == Spec => []NoLostCall
<1>1. IInv => NoLostCall
  <2> SUFFICES ASSUME IInv PROVE NoLostCall
    OBVIOUS
  <2>1. \A h \in Call : outcome[h] = Waiting => h \in Awaited
    BY DEF IInv, CallInv, Awaited
  <2>2. ASSUME NEW i \in Id, pending[i] \notin broken \cup {None}
        PROVE  /\ child # 0
               /\ core[child] = "down" \/ Queued(child, i) \/ InHand(child, i) \/ Answered(child, i)
    <3>1. child # 0 /\ (core[child] = "down" \/ Held(inbox[child], tasks[child], outbox[child], i))
      BY <2>2 DEF IInv, Attended
    <3>2. child \in Core
      BY <3>1 DEF IInv, TypeInv
    <3>3. DOMAIN inbox[child] = 1..Len(inbox[child]) /\ DOMAIN outbox[child] = 1..Len(outbox[child])
      BY <3>2, Typed DEF IInv
    <3> QED
      BY <3>1, <3>3 DEF Held, Queued, InHand, Answered
  <2> QED
    BY <2>1, <2>2 DEF NoLostCall
<1> QED
  BY <1>1, Invariance, PTL

(* A response that has ended is written to no more: no entry of `pending`   *)
(* leads to it, so no line of any core does (res.end of index.js).          *)
THEOREM EndedStays == Spec => EndedStaysEnded
<1>1. IInv /\ [Next]_vars => [\A h \in Call : reply[h].ended => reply'[h] = reply[h]]_vars
  <2> SUFFICES ASSUME IInv, [Next]_vars, NEW h \in Call, reply[h].ended
               PROVE  reply'[h] = reply[h]
    OBVIOUS
  <2>1. TypeInv
    BY DEF IInv
  <2>2. ASSUME NEW g \in Core, Line(g) PROVE reply'[h] = reply[h]
    <3> DEFINE m == Head(outbox[g])
    <3>1. \/ reply' = reply
          \/ /\ ~reply[m.from].ended
             /\ reply' = [reply EXCEPT ![m.from] = WithChunk(@, m)]
      BY <2>2, LineCases DEF IInv
    <3> QED
      BY <2>1, <3>1 DEF TypeInv
  <2>3. ASSUME NEW f \in Call, Reject(f) \/ Answer(f) PROVE reply'[h] = reply[h]
    BY <2>1, <2>3, CloseCases
  <2>4. ASSUME NEW g \in Core, NEW i \in Id, Handle(g, i) PROVE reply'[h] = reply[h]
    BY <2>4 DEF Handle, TaskStep, node
  <2> QED
    BY <2>2, <2>3, <2>4 DEF Next, vars, node, rpcCall, Exit, Read, Stop, Crash
<1> QED
  BY <1>1, Invariance, PTL DEF Spec, EndedStaysEnded

(* Ids and cores never run out of their ranges: as long as a request has    *)
(* not been called there is an id for it and a core to be spawned, so that  *)
(* the bounds of the model refuse nothing the code would do.                *)
RangesSuffice == \A h \in Call : outcome[h] = Idle => nextId \in Id /\ Unborn # {}

THEOREM NothingRunsOut == Spec => []RangesSuffice
<1>1. IInv => RangesSuffice
  <2> SUFFICES ASSUME IInv, NEW h \in Call, outcome[h] = Idle
               PROVE  nextId \in Id /\ Unborn # {}
    BY DEF RangesSuffice
  <2>1. nextId \in Id
    BY IdLeft DEF IInv
  <2>2. nextId \in Core /\ nextId >= nextId
    BY <2>1, CountTyped
  <2>3. core[nextId] = "unborn"
    BY <2>2 DEF IInv, CoreInv
  <2> QED
    BY <2>1, <2>2, <2>3 DEF Unborn
<1> QED
  BY <1>1, Invariance, PTL
==============================================================================
