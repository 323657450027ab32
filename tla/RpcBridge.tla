----------------------------- MODULE RpcBridge -----------------------------
(* The Vercel deployment: one Node process (src/api/index.js) that spawns   *)
(* the Go core on demand and multiplexes its HTTP requests over the core's  *)
(* stdin and stdout (src/internal/rpc/rpc.go), one line per message.        *)
(*                                                                          *)
(* Node runs one event handler at a time, so a handler up to its next await *)
(* is one action.  The core runs one goroutine per request; emit holds a    *)
(* mutex, so a message is one step.  The two pipes are FIFO.  A core that   *)
(* dies loses its stdin and its goroutines; what it already printed is still *)
(* delivered, before or after Node learns of the exit.                      *)
(*                                                                          *)
(* Each request is one call, so call ids and cores number at most           *)
(* Cardinality(Call): no other bound is needed on spawns and crashes.       *)
(* MaxFrames bounds the frames of one stream.                               *)
(*                                                                          *)
(* An operator named D_M is a mutated form of D, used by no other           *)
(* definition.                                                              *)
EXTENDS Naturals, Sequences, FiniteSets

CONSTANTS Streams,        \* requests of handler with stream: true
          Unaries,        \* requests answered by rpcJson
          Oversized,      \* requests whose line exceeds maxBodyBytes
          None,           \* no entry of `pending`
          MaxFrames       \* frames of one stream

Call == Streams \cup Unaries
Id   == 1..Cardinality(Call)
Core == 1..Cardinality(Call)

ASSUME CallAssumption ==
  /\ IsFiniteSet(Call) /\ Streams \cap Unaries = {}
  /\ Oversized \subseteq Call /\ None \notin Call
ASSUME StreamAssumption == MaxFrames \in Nat

VARIABLES child,    \* index.js: the core in use, 0 for null
          nextId,   \* index.js: the next call id
          pending,  \* index.js: call id -> the request awaiting it
          outcome,  \* what the promise of a request resolved to
          reply,    \* the HTTP response of a request, as written so far
          core,     \* life of each core; "down" until Node sees its exit
          inbox,    \* stdin of each core
          outbox,   \* stdout of each core
          tasks,    \* goroutines of each core
          broken    \* requests whose upstream body failed (history)

node == <<child, nextId, pending, outcome, reply>>
go   == <<core, inbox, outbox, tasks, broken>>
vars == <<node, go>>

Request == [id : Id, from : Call]
Message == [id : Id, from : Call, n : 0..MaxFrames,
            type : {"sse", "end", "error", "result", "refusal"}]
Task    == [id : Id, from : Call, sent : 0..MaxFrames,
            phase : {"asking", "streaming"}]

NoReply == [head |-> "none", from |-> None, chunks |-> <<>>, ended |-> FALSE]
Idle    == [type |-> "idle", from |-> None]
Waiting == [type |-> "waiting", from |-> None]
Gone    == [type |-> "rpc_error", from |-> None]

Init ==
  /\ child = 0 /\ nextId = 1
  /\ pending = [i \in Id |-> None]
  /\ outcome = [h \in Call |-> Idle]
  /\ reply = [h \in Call |-> NoReply]
  /\ core = [g \in Core |-> "unborn"]
  /\ inbox = [g \in Core |-> <<>>] /\ outbox = [g \in Core |-> <<>>]
  /\ tasks = [g \in Core |-> {}]
  /\ broken = {}

------------------------------------------------------------------------------
(* Node: the call.  exitCode is set in the turn that emits "exit", and that *)
(* handler clears `child`, so `child && child.exitCode === null` is         *)
(* child # 0: a core may well be down while Node still writes to it.        *)
NeedsCore_WhenDown == child = 0 \/ core[child] = "down"
NeedsCore == child = 0

Unborn == {g \in Core : core[g] = "unborn"}

NewId_PreIncrement == nextId + 1
NewId_PerCore == IF NeedsCore THEN 1 ELSE nextId
NewId == nextId

(* rpcCall, with ensureChild: spawn if need be, register, write the line.   *)
rpcCall(h) ==
  /\ outcome[h] = Idle /\ ~reply[h].ended
  /\ \E g \in Core :
       /\ IF NeedsCore THEN g \in Unborn /\ \A f \in Unborn : g <= f
                       ELSE g = child
       /\ child' = g
       /\ core' = IF NeedsCore THEN [core EXCEPT ![g] = "reading"] ELSE core
       /\ inbox' = IF NeedsCore \/ core[g] # "down"
                   THEN [inbox EXCEPT ![g] = Append(@, [id |-> NewId, from |-> h])]
                   ELSE inbox
  /\ pending' = [pending EXCEPT ![NewId] = h]
  /\ nextId' = NewId + 1
  /\ outcome' = [outcome EXCEPT ![h] = Waiting]
  /\ UNCHANGED <<reply, outbox, tasks, broken>>

(* The requests handler answers by itself: OPTIONS, 404, 401 and bad JSON.  *)
Reject(h) ==
  /\ outcome[h] = Idle /\ ~reply[h].ended
  /\ reply' = [reply EXCEPT ![h].head = "rejected", ![h].ended = TRUE]
  /\ UNCHANGED <<child, nextId, pending, outcome, go>>

------------------------------------------------------------------------------
(* Node: the events.  A line for an id nobody awaits is dropped; a frame    *)
(* goes to onEvent, which commits the SSE head with the first one; anything *)
(* else resolves the promise and forgets the entry.                         *)
WithChunk(r, m) == [r EXCEPT !.head = "sse", !.chunks = Append(@, <<m.from, m.n>>)]

Frame(h, m) ==
  /\ reply' = [reply EXCEPT ![h] = WithChunk(@, m)]
  /\ UNCHANGED <<pending, outcome>>

Resolve(h, m) ==
  /\ pending' = [pending EXCEPT ![m.id] = None]
  /\ outcome' = [outcome EXCEPT ![h] =
                   IF m.type = "error" THEN Gone
                   ELSE [type |-> m.type, from |-> m.from]]
  /\ UNCHANGED reply

Line(g) ==
  /\ outbox[g] # <<>>
  /\ outbox' = [outbox EXCEPT ![g] = Tail(@)]
  /\ LET m == Head(outbox[g])
         h == pending[m.id]
     IN \/ h = None /\ UNCHANGED <<pending, outcome, reply>>
        \/ h # None /\ m.type = "sse" /\ Frame(h, m)
        \/ h # None /\ m.type # "sse" /\ Resolve(h, m)
  /\ UNCHANGED <<child, nextId, core, inbox, tasks, broken>>

(* child.on("exit"): every call still awaited fails; ids are not reused.    *)
PendingAfterExit_Kept == pending
PendingAfterExit == [i \in Id |-> None]

Awaited == {h \in Call : \E i \in Id : pending[i] = h}

OutcomeAfterExit_Forgets == outcome
OutcomeAfterExit == [h \in Call |-> IF h \in Awaited THEN Gone ELSE outcome[h]]

Exit(g) ==
  /\ core[g] = "down"
  /\ core' = [core EXCEPT ![g] = "reaped"]
  /\ child' = 0
  /\ outcome' = OutcomeAfterExit
  /\ pending' = PendingAfterExit
  /\ UNCHANGED <<nextId, reply, inbox, outbox, tasks, broken>>

------------------------------------------------------------------------------
(* Node: after the await.  A stream that was started just ends, whatever    *)
(* the outcome; otherwise a refusal keeps its status, a result is 200 (of   *)
(* rpcJson) and the rest is 503 (rpcJson) or 502 (stream).                  *)
HeadOf(h) ==
  CASE outcome[h].type = "refusal"                    -> "refused"
    [] outcome[h].type = "result" /\ h \in Unaries    -> "200"
    [] outcome[h].type # "refusal" /\ h \in Streams   -> "502"
    [] OTHER                                          -> "503"

Answer(h) ==
  /\ outcome[h] \notin {Idle, Waiting} /\ ~reply[h].ended
  /\ reply' = [reply EXCEPT ![h] =
       IF reply[h].head = "sse" THEN [@ EXCEPT !.ended = TRUE]
       ELSE [@ EXCEPT !.head = HeadOf(h), !.from = outcome[h].from, !.ended = TRUE]]
  /\ UNCHANGED <<child, nextId, pending, outcome, go>>

------------------------------------------------------------------------------
(* Go: ServeStdio.  A line over the limit stops the scanner: nothing more   *)
(* is read, the goroutines are waited for, and the process ends.            *)
Read(g) ==
  /\ core[g] = "reading" /\ inbox[g] # <<>>
  /\ LET r == Head(inbox[g])
     IN IF r.from \in Oversized
        THEN /\ core' = [core EXCEPT ![g] = "draining"]
             /\ UNCHANGED <<inbox, tasks>>
        ELSE /\ inbox' = [inbox EXCEPT ![g] = Tail(@)]
             /\ tasks' = [tasks EXCEPT ![g] = @ \cup
                  {[id |-> r.id, from |-> r.from, sent |-> 0, phase |-> "asking"]}]
             /\ UNCHANGED core
  /\ UNCHANGED <<node, outbox, broken>>

Drained_KeepsScanning(g) == FALSE
Drained(g) == core[g] = "draining" /\ tasks[g] = {}

Stop(g) ==
  /\ Drained(g)
  /\ core' = [core EXCEPT ![g] = "down"]
  /\ UNCHANGED <<node, inbox, outbox, tasks, broken>>

(* A panic in any goroutine, or the platform killing the process.           *)
Crash(g) ==
  /\ core[g] \in {"reading", "draining"}
  /\ core' = [core EXCEPT ![g] = "down"]
  /\ inbox' = [inbox EXCEPT ![g] = <<>>]
  /\ tasks' = [tasks EXCEPT ![g] = {}]
  /\ UNCHANGED <<node, outbox, broken>>

------------------------------------------------------------------------------
(* Go: Handle.  Every request but a streaming chat ends with one message: a *)
(* result, a refusal (a result with a status other than 200: validation, or *)
(* the upstream's answer) or an error.  A streaming chat may also pass      *)
(* frames on and then send "end"; a stream that fails says nothing.         *)
Send(g, t, type, n) ==
  outbox' = [outbox EXCEPT ![g] =
    Append(@, [id |-> t.id, from |-> t.from, type |-> type, n |-> n])]
Leave(g, t) == tasks' = [tasks EXCEPT ![g] = @ \ {t}]
Become(g, t, u) == tasks' = [tasks EXCEPT ![g] = (@ \ {t}) \cup {u}]

LastWord_Anytime(t) == {"error", "refusal"}
LastWord(t) ==
  IF t.phase = "streaming" THEN {"end"}
  ELSE {"error", "refusal"} \cup (IF t.from \in Unaries THEN {"result"} ELSE {})

Finish(g, t) == \E w \in LastWord(t) : Send(g, t, w, 0) /\ Leave(g, t)

OpenStream(g, t) ==
  /\ t.from \in Streams /\ t.phase = "asking"
  /\ Become(g, t, [t EXCEPT !.phase = "streaming"])
  /\ UNCHANGED outbox

(* emitWriter.Write: protocol.Stream has written a frame, or a piece of one *)
(* (FrameWriter).                                                           *)
PassFrame(g, t) ==
  /\ t.phase = "streaming" /\ t.sent < MaxFrames
  /\ Send(g, t, "sse", t.sent + 1)
  /\ Become(g, t, [t EXCEPT !.sent = @ + 1])

BreakStream(g, t) ==
  /\ t.phase = "streaming"
  /\ Leave(g, t)
  /\ broken' = broken \cup {t.from}
  /\ UNCHANGED outbox

TaskStep(g, t) ==
  /\ \/ /\ Finish(g, t) \/ OpenStream(g, t) \/ PassFrame(g, t)
        /\ UNCHANGED broken
     \/ BreakStream(g, t)
  /\ UNCHANGED <<node, core, inbox>>

Handle(g, i) == \E t \in tasks[g] : t.id = i /\ TaskStep(g, t)

------------------------------------------------------------------------------
Next ==
  \/ \E h \in Call : rpcCall(h) \/ Reject(h) \/ Answer(h)
  \/ \E g \in Core : Line(g) \/ Exit(g) \/ Read(g) \/ Stop(g) \/ Crash(g)
  \/ \E g \in Core, i \in Id : Handle(g, i)

(* Node's event loop serves every event in the end; the core's scheduler    *)
(* runs every goroutine, and an upstream answer or body is finite.  No      *)
(* request has to come and no core has to crash.                            *)
Fairness ==
  /\ \A h \in Call : WF_vars(Answer(h))
  /\ \A g \in Core : WF_vars(Line(g)) /\ WF_vars(Exit(g))
  /\ \A g \in Core : WF_vars(Read(g)) /\ WF_vars(Stop(g))
  /\ \A g \in Core, i \in Id : WF_vars(Handle(g, i))

Spec     == Init /\ [][Next]_vars
LiveSpec == Spec /\ Fairness

------------------------------------------------------------------------------
(* The state stays in its intended domains; in particular call ids and      *)
(* cores never run out of the ranges above.                                 *)
BridgeTypeOK ==
  /\ broken \subseteq Streams
  /\ child \in Core \cup {0} /\ nextId \in Id \cup {Cardinality(Call) + 1}
  /\ pending \in [Id -> Call \cup {None}]
  /\ \A h \in Call :
       /\ outcome[h] \in [type : {"idle", "waiting", "rpc_error", "end", "result", "refusal"},
                          from : Call \cup {None}]
       /\ reply[h].chunks \in Seq(Call \X (1..MaxFrames))
  /\ core \in [Core -> {"unborn", "reading", "draining", "down", "reaped"}]
  /\ \A g \in Core : /\ inbox[g] \in Seq(Request) /\ outbox[g] \in Seq(Message)
                     /\ tasks[g] \subseteq Task

(* However cores die and however late Node learns of it, at most one core   *)
(* runs at a time, and it is the one Node writes to (ensureChild).          *)
OneCore ==
  \A g \in Core : core[g] \in {"reading", "draining", "down"} => g = child

(* What a request is answered with is its own: the frames it is sent are    *)
(* those its goroutine produced, in order and from the first, and the       *)
(* result or refusal was meant for it -- also when lines of a dead core     *)
(* arrive after the next one has started (pending, message.id).             *)
OwnReply ==
  \A h \in Call :
    /\ \A k \in DOMAIN reply[h].chunks : reply[h].chunks[k] = <<h, k>>
    /\ reply[h].head \in {"200", "refused"} => reply[h].from = h

(* index.js:151: the SSE head is not committed before the core has accepted *)
(* the request, so a refusal still finds the response untouched and the     *)
(* client gets its status.                                                  *)
HeadAwaitsVerdict ==
  \A h \in Call : outcome[h].type = "refusal" => reply[h].head \in {"none", "refused"}

(* A response that has ended is never written to again, neither by a frame  *)
(* that was still in the pipe nor by a second outcome.                      *)
EndedStaysEnded ==
  [][\A h \in Call : reply[h].ended => reply'[h] = reply[h]]_vars

(* A request that still waits is known to `pending`, and somebody will end  *)
(* its call: it is on its way to the current core, in that core's hands, or *)
(* answered in the pipe; or that core is down and its exit will be          *)
(* reported -- but for the streams that broke.                              *)
Queued(g, i)    == \E k \in DOMAIN inbox[g] : inbox[g][k].id = i
InHand(g, i)    == \E t \in tasks[g] : t.id = i
Answered(g, i)  == \E k \in DOMAIN outbox[g] :
                     outbox[g][k].id = i /\ outbox[g][k].type # "sse"
NoLostCall ==
  /\ \A h \in Call : outcome[h] = Waiting => h \in Awaited
  /\ \A i \in Id : pending[i] \notin broken \cup {None} =>
    /\ child # 0
    /\ core[child] = "down" \/ Queued(child, i) \/ InHand(child, i) \/ Answered(child, i)

(* Every request that reaches a core is answered, whatever becomes of that  *)
(* core, unless its own stream breaks.                                      *)
UnbrokenAnswered ==
  \A h \in Call : outcome[h] = Waiting ~> reply[h].ended \/ h \in broken

(* index.js:171: a request whose stream breaks is answered too ("upstream   *)
(* stream error").                                                          *)
BrokenAnswered ==
  \A h \in Call : outcome[h] = Waiting /\ h \in broken ~> reply[h].ended
=============================================================================
