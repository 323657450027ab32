------------------------------ MODULE SseFilter ------------------------------
(****************************************************************************)
(* internal/protocol: what Stream (frame by frame) and Aggregate (at the    *)
(* end) make of the same upstream answer, with the renames of its request.  *)
(* A frame carries some text or none, fragments of tool calls, and perhaps  *)
(* a finish reason; a fragment belongs to the call of its index and may     *)
(* carry the call's name.  A request has no `n`, so a frame has one choice. *)
(* D_M is D with the mistake M in it (see ProxyPool).                       *)
(****************************************************************************)
EXTENDS Renames

CONSTANTS Index,      \* tool call indexes upstream uses
          Request,    \* tools declared, tools named by the tool choice
          Frame,      \* frames upstream may send
          MaxFrames   \* bound on the length of an answer

ASSUME RequestAssumption ==
  Request \subseteq [tools : Seq(PlainName), choices : Seq(PlainName)]
ASSUME FrameAssumption ==
  Frame \subseteq [text   : BOOLEAN,
                   calls  : Seq([index : Index, name : STRING \X Nat]),
                   finish : {"none", "stop", "tool_calls"}]
ASSUME BoundAssumption == MaxFrames \in Nat

VARIABLES request,    \* what the client asked for
          renames,    \* what Build has made of it
          built,      \* how many of Names it has given
          arrived,    \* frames read so far
          stage,      \* shaping (in Build); open, cut (in a line), done
                      \* ([DONE] read); and the end: closed, or broken (an
                      \* error ends the scan)
          decisions,  \* Stream: streamState.decisions
          kept,       \* Stream: streamState.kept
          buffered,   \* Stream: positions in `arrived` of the held frames
          out,        \* Stream: frames written to the client
          pending,    \* Aggregate: what is known of each call
          finish      \* Aggregate: the last finish reason

stream    == <<decisions, kept, buffered, out>>
aggregate == <<pending, finish>>
shape     == <<request, renames, built>>
vars      == <<shape, arrived, stage, stream, aggregate>>

Unseen == [seen |-> "unseen", name |-> NoName]

Init ==
  /\ request \in Request /\ renames = newRenames /\ built = 0
  /\ arrived = <<>> /\ stage = "shaping"
  /\ decisions = [i \in Index |-> "undecided"] /\ kept = FALSE
  /\ buffered = <<>> /\ out = <<>>
  /\ pending = [i \in Index |-> Unseen] /\ finish = "none"

------------------------------------------------------------------------------
(* The tools the request declares, in their order, then those that its      *)
(* tool_choice and function_call name, declared or not.                     *)
Names == request.tools \o request.choices

Build ==
  /\ stage = "shaping"
  /\ \/ /\ built < Len(Names)
        /\ renames' = rename(renames, Names[built + 1]) /\ built' = built + 1
        /\ UNCHANGED stage
     \/ /\ built = Len(Names)
        /\ stage' = "open"
        /\ UNCHANGED <<renames, built>>
  /\ UNCHANGED <<request, arrived, stream, aggregate>>

------------------------------------------------------------------------------
dropToolCall_Nothing(name) == FALSE
dropToolCall(name) ==
  /\ name # NoName /\ ~IsRenamed(renames, name) /\ ~HasClientTool(renames, name)
  /\ name \in OfficialTool

(* pendingCall.observe keeps what it can give its own name back.            *)
KeptByAggregate_All(name) == TRUE
KeptByAggregate(name) == IsRenamed(renames, name)

(* The fragments of call i that carry a name.                               *)
NamedAt(calls, i) == {k \in DOMAIN calls : calls[k].index = i /\ calls[k].name # NoName}
FirstName(calls, i) == calls[Min(NamedAt(calls, i))].name

(* classifyChunk: the first name of a call decides, whole frame or not ...  *)
Decide(calls, i) ==
  IF decisions[i] # "undecided" \/ NamedAt(calls, i) = {} THEN decisions[i]
  ELSE IF dropToolCall(FirstName(calls, i)) THEN "drop" ELSE "keep"

(* ... and these fragments came before any name of their call.              *)
Undecided(calls) ==
  {k \in DOMAIN calls :
     /\ decisions[calls[k].index] = "undecided"
     /\ \A j \in NamedAt(calls, calls[k].index) : j > k}

(* rewriteChunk.  Calls not decided on are dropped like the unwanted ones;  *)
(* a fragment that stays is known by its place in the frame that came.      *)
Wanted(calls) ==
  [k \in {k \in DOMAIN calls : decisions'[calls[k].index] = "keep"} |->
     [calls[k] EXCEPT !.name = Restore(renames, @)]]

(* state.kept once the frames at positions ps[1..j] have been rewritten.    *)
KeptBy(ps, j) ==
  kept \/ \E i \in 1..j : DOMAIN Wanted(arrived'[ps[i]].calls) # {}

(* No call was let through: tool_calls would make the client wait.          *)
FinishAs_Unchanged(reason, anyKept) == reason
FinishAs(reason, anyKept) ==
  IF reason = "tool_calls" /\ ~anyKept THEN "stop" ELSE reason

Rewritten(ps) ==
  [j \in DOMAIN ps |->
     [pos    |-> ps[j], whole |-> TRUE,
      calls  |-> Wanted(arrived'[ps[j]].calls),
      finish |-> FinishAs(arrived'[ps[j]].finish, KeptBy(ps, j))]]

(* The order in which a decided frame and the frames held back go out.      *)
Released_FrameFirst(p) == <<p>> \o buffered
Released(p) == Append(buffered, p)

StreamFrame(f) ==
  LET p == Len(arrived) + 1 IN
  /\ decisions' = [i \in Index |-> Decide(f.calls, i)]
  /\ \/ /\ Undecided(f.calls) # {}
        /\ buffered' = Append(buffered, p)
        /\ UNCHANGED <<kept, out>>
     \/ /\ Undecided(f.calls) = {}
        /\ out' = out \o Rewritten(Released(p))
        /\ kept' = KeptBy(Released(p), Len(buffered) + 1)
        /\ buffered' = <<>>

(* pendingCall.observe: the first name settles whether the call is kept.    *)
Observe(calls, i) ==
  IF pending[i].seen \in {"keep", "drop"} \/ \A k \in DOMAIN calls : calls[k].index # i
    THEN pending[i]
  ELSE IF NamedAt(calls, i) = {} THEN [seen |-> "unnamed", name |-> NoName]
  ELSE IF KeptByAggregate(FirstName(calls, i))
    THEN [seen |-> "keep", name |-> Restore(renames, FirstName(calls, i))]
  ELSE [seen |-> "drop", name |-> NoName]

AggregateFrame(f) ==
  /\ pending' = [i \in Index |-> Observe(f.calls, i)]
  /\ finish' = IF f.finish = "none" THEN finish ELSE f.finish

OnFrame(f) ==
  /\ stage = "open" /\ Len(arrived) < MaxFrames
  /\ arrived' = Append(arrived, f)
  /\ StreamFrame(f)
  /\ AggregateFrame(f)
  /\ UNCHANGED <<shape, stage>>

(* The body ends within a line: the scanner hands on what there is of it.   *)
(* It does not parse, and so releases what was held and passes unchanged.   *)
OnCutFrame ==
  /\ stage = "open" /\ Len(arrived) < MaxFrames
  /\ stage' = "cut"
  /\ UNCHANGED <<shape, arrived, decisions, aggregate>>
  /\ out' = Append(out \o Rewritten(buffered),
                   [pos |-> Len(arrived) + 1, whole |-> FALSE,
                    calls |-> <<>>, finish |-> "none"])
  /\ kept' = KeptBy(buffered, Len(buffered))
  /\ buffered' = <<>>

(* data: [DONE].  What is still held back is thrown away.                   *)
OnDone_KeepsBuffer ==
  /\ stage = "open"
  /\ stage' = "done"
  /\ UNCHANGED <<shape, arrived, stream, aggregate>>

OnDone ==
  /\ stage = "open"
  /\ stage' = "done"
  /\ buffered' = <<>>
  /\ UNCHANGED <<shape, arrived, decisions, kept, out, aggregate>>

(* The body ends, with or without [DONE], or it fails, a frame is longer    *)
(* than 8 MiB, or the client cannot be written to: Stream's buffer goes     *)
(* with it.  Aggregate builds a result from a body that ended only.         *)
OnEnd(how) ==
  /\ stage \in {"open", "cut", "done"}
  /\ stage' = how
  /\ buffered' = <<>>
  /\ UNCHANGED <<shape, arrived, decisions, kept, out, aggregate>>

Next == \/ Build
        \/ \E f \in Frame : OnFrame(f)
        \/ OnCutFrame \/ OnDone
        \/ \E how \in {"closed", "broken"} : OnEnd(how)
Spec == Init /\ [][Next]_vars

------------------------------------------------------------------------------
(* Aggregate's result, when stage is closed.                                *)
KeptCalls == {i \in Index : pending[i].seen = "keep"}
Dropped   == {i \in Index : pending[i].seen \in {"unnamed", "drop"}}
AggregateFinish ==
  IF KeptCalls # {} THEN IF finish = "none" THEN "tool_calls" ELSE finish
  ELSE IF finish \in {"none", "tool_calls"} THEN "stop" ELSE finish

------------------------------------------------------------------------------
(* Types.                                                                   *)
TypeOK ==
  /\ request \in Request /\ built \in 0..Len(Names) /\ arrived \in Seq(Frame)
  /\ stage \in {"shaping", "open", "cut", "done", "closed", "broken"}
  /\ decisions \in [Index -> {"undecided", "keep", "drop"}] /\ kept \in BOOLEAN
  /\ buffered \in Seq(1..Len(arrived))
  /\ stage # "open" => buffered = <<>>
  /\ \A i \in Index : pending[i].seen \in {"unseen", "unnamed", "keep", "drop"}
  /\ finish \in {"none", "stop", "tool_calls"}

(* Positions of the frames written; a piece of a line counts as one more.   *)
Written == [j \in DOMAIN out |-> out[j].pos]

(* The name of call i is the first that arrived for it.                     *)
NamingFrames(i) == {p \in DOMAIN arrived : NamedAt(arrived[p].calls, i) # {}}
NameArrived(i) == IF NamingFrames(i) = {} THEN NoName
                  ELSE FirstName(arrived[Min(NamingFrames(i))].calls, i)

(* Neither an earlier frame nor this one up to its fragment k names the call. *)
Nameless(p, k) ==
  LET i == arrived[p].calls[k].index IN
  /\ \A q \in NamingFrames(i) : q >= p
  /\ \A j \in NamedAt(arrived[p].calls, i) : j > k

(* No frame is doubled or overtaken, and while upstream sends none is lost: *)
(* what has been written and what is held make up the answer so far.  An    *)
(* end may lose frames only from the end of the answer, only those held     *)
(* back, of which each had a call without a name when it came.              *)
InOrder ==
  /\ Written = [p \in 1..Len(Written) |-> p]
  /\ stage = "open" => Written \o buffered = [p \in DOMAIN arrived |-> p]
  /\ \A p \in (Len(Written) + 1)..Len(arrived) :
       \E k \in DOMAIN arrived[p].calls : Nameless(p, k)

(* The client's wait for a tool is never in vain: "tool_calls" reaches it   *)
(* only after a call has, and Aggregate says it only with calls; and a      *)
(* finish of "tool_calls" is not taken away from a client that got a call.  *)
CallsSeenBy(j) == \E i \in 1..j : DOMAIN out[i].calls # {}
FinishTruthful ==
  /\ \A j \in DOMAIN out :
       out[j].whole /\ arrived[out[j].pos].finish = "tool_calls" =>
         out[j].finish = IF CallsSeenBy(j) THEN "tool_calls" ELSE "stop"
  /\ AggregateFinish = "tool_calls" => KeptCalls # {}

(* No fragment of a built-in call reaches a client that has not named the   *)
(* tool, however its name and arguments were spread over frames.            *)
NoBuiltinCalls ==
  \A j \in DOMAIN out : \A k \in DOMAIN out[j].calls :
    LET name == NameArrived(out[j].calls[k].index) IN
    /\ name # NoName
    /\ name \in OfficialTool =>
         name \in ToSet(request.tools) \cup ToSet(request.choices)

(* A tool goes upstream under a name of its own and comes back under the    *)
(* client's, on both paths, though the digests of two tools may agree; no   *)
(* name that was made for upstream reaches the client in a frame that       *)
(* parses (a line cut off by the end of the body is passed on as it is).    *)
NamesRestored ==
  \A t \in ToSet(request.tools) :
    LET wire == renames.forward[t] IN
    /\ \A i \in KeptCalls : NameArrived(i) = wire => pending[i].name = t
    /\ \A j \in DOMAIN out :
         /\ \A k \in DOMAIN out[j].calls : out[j].calls[k].name # wire
         /\ out[j].whole =>
              \A k \in DOMAIN arrived[out[j].pos].calls :
                LET f == arrived[out[j].pos].calls[k] IN
                f.name = wire /\ NameArrived(f.index) = wire /\ decisions[f.index] = "keep"
                  => k \in DOMAIN out[j].calls /\ out[j].calls[k].name = t

(* The two paths agree in this direction: a call that a client gets in one  *)
(* piece, another gets in a stream.                                         *)
AggregateWithinStream ==
  \A i \in KeptCalls : decisions[i] = "keep"

------------------------------------------------------------------------------
(* stream.go:46: a frame whose call has no name yet is held until the call  *)
(* is decided, then let through: no fragment of a call the client gets is   *)
(* missing.                                                                 *)
WrittenOf(i) ==
  {p \in DOMAIN arrived : \E j \in DOMAIN out :
     out[j].pos = p /\ \E k \in DOMAIN out[j].calls : out[j].calls[k].index = i}
KeptCallsWhole ==
  stage = "open" =>
    \A p \in DOMAIN arrived : \A k \in DOMAIN arrived[p].calls :
      LET i == arrived[p].calls[k].index IN
      decisions[i] = "keep" /\ p \notin ToSet(buffered) => p \in WrittenOf(i)
==============================================================================
