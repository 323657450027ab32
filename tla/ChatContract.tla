---------------------------- MODULE ChatContract -----------------------------
(****************************************************************************)
(* What chat.Service promises the HTTP and RPC layers about one completion, *)
(* with the pool left out: a call of Upstream makes at most `Attempts`      *)
(* attempts through the pool, gives up a node's answer only for another     *)
(* attempt, and ends; Complete makes at most one second call, after an      *)
(* empty first answer.                                                      *)
(****************************************************************************)
EXTENDS Naturals

CONSTANTS Caller, Attempts

VARIABLES call,     \* none, or which call of Upstream this request is in
          running,  \* Upstream has not returned yet
          tries,    \* attempts this call has made through the pool
          last      \* what the latest attempt came to

vars == <<call, running, tries, last>>

Retryable == {"quota", "failure"}
Attempted == {"ok", "other", "transport"} \cup Retryable

Init == /\ call    = [c \in Caller |-> "none"]
        /\ running = [c \in Caller |-> FALSE]
        /\ tries   = [c \in Caller |-> 0]
        /\ last    = [c \in Caller |-> "none"]

Starts(c, which) ==
  /\ call'    = [call EXCEPT ![c] = which]
  /\ running' = [running EXCEPT ![c] = TRUE]
  /\ tries'   = [tries EXCEPT ![c] = 0]
  /\ last'    = [last EXCEPT ![c] = "none"]

Accept(c) == call[c] = "none" /\ Starts(c, "first")

(* One attempt; Upstream returns unless it is worth, and may make, another. *)
Attempt(c, o) ==
  /\ running[c] /\ tries[c] < Attempts
  /\ tries' = [tries EXCEPT ![c] = @ + 1]
  /\ last'  = [last EXCEPT ![c] = o]
  /\ running' = [running EXCEPT ![c] =
        o \in Retryable \cup {"transport"} /\ tries[c] + 1 < Attempts]
  /\ UNCHANGED call

(* The pool has no node to give: one direct attempt, not repeated.          *)
Direct(c, o) ==
  /\ running[c] /\ tries[c] < Attempts
  /\ last' = [last EXCEPT ![c] = o]
  /\ running' = [running EXCEPT ![c] = FALSE]
  /\ UNCHANGED <<call, tries>>

Nudge(c) ==
  /\ call[c] = "first" /\ ~running[c] /\ last[c] = "ok"
  /\ Starts(c, "nudge")

Deliver(c) ==
  /\ call[c] # "none" /\ ~running[c]
  /\ call'  = [call EXCEPT ![c] = "none"]
  /\ tries' = [tries EXCEPT ![c] = 0]
  /\ last'  = [last EXCEPT ![c] = "none"]
  /\ UNCHANGED running

Step(c) == \/ Accept(c) \/ Nudge(c) \/ Deliver(c)
           \/ \E o \in Attempted : Attempt(c, o) \/ Direct(c, o)

Next == \E c \in Caller : Step(c)

Spec == Init /\ [][Next]_vars
==============================================================================
