---------------------------- MODULE MCSseFilter ------------------------------
EXTENDS SseFilter

(* "one" and "two" have the same digest; "read" is the built-in tool.       *)
MCDigest == [t \in {"one", "two", "read", "other"} |->
               CASE t \in {"one", "two"} -> "d12"
                 [] t = "read" -> "dread" [] t = "other" -> "dother"]
Read == Plain("read")
MCOfficialTool == {Read}

(* No tools; two that collide; the built-in tool's name declared by the     *)
(* client; the same named by the tool choice of a client without tools.     *)
MCRequest ==
  {[tools |-> <<>>, choices |-> <<>>],
   [tools |-> <<Plain("one"), Plain("two")>>, choices |-> <<Plain("two")>>],
   [tools |-> <<Read, Plain("one")>>, choices |-> <<>>],
   [tools |-> <<>>, choices |-> <<Read>>]}

F(text, calls, fin) == [text |-> text, calls |-> calls, finish |-> fin]
C(i, name) == [index |-> i, name |-> name]
First  == <<"d12", 1>>
Second == <<"d12", 2>>

(* Text; names and bare arguments of two interleaved calls; a frame that    *)
(* decides one call and leaves the other open; a frame with the arguments   *)
(* before the name; text beside an undecided call; both finish reasons.     *)
MCFrame ==
  {F(TRUE, <<>>, "none"), F(FALSE, <<>>, "stop"), F(FALSE, <<>>, "tool_calls"),
   F(FALSE, <<C(0, First)>>, "none"), F(FALSE, <<C(1, Second)>>, "none"),
   F(FALSE, <<C(0, Read)>>, "none"), F(FALSE, <<C(0, Plain("other"))>>, "none"),
   F(FALSE, <<C(0, NoName)>>, "none"), F(FALSE, <<C(1, NoName)>>, "none"),
   F(FALSE, <<C(0, First), C(1, NoName)>>, "tool_calls"),
   F(FALSE, <<C(0, NoName), C(0, Read)>>, "none"),
   F(TRUE, <<C(1, NoName)>>, "tool_calls")}
==============================================================================
