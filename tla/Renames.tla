------------------------------- MODULE Renames -------------------------------
(****************************************************************************)
(* internal/shape: the names under which a request's tools go upstream.  A  *)
(* name is a pair: <<t, 0>> is the text t itself, <<d, k>> with k > 0 the   *)
(* name made of the prefix and the digest d, numbered from the second on    *)
(* ("_2", "_3", ...), which no client gives a tool.  Renames keeps two      *)
(* maps, which Build fills name by name (see SseFilter).                     *)
(* D_M is D with the mistake M in it (see ProxyPool).                       *)
(****************************************************************************)
EXTENDS Naturals, Sequences, SequencesExt

CONSTANTS ToolText,       \* what a tool may be called
          Digest,         \* the twelve digits of each one's SHA-256
          OfficialTool    \* the built-in tools sent with every request

NoName    == <<"", 0>>
Plain(t)  == <<t, 0>>
PlainName == {Plain(t) : t \in ToolText}

ASSUME DigestAssumption == DOMAIN Digest = ToolText /\ "" \notin ToolText
ASSUME OfficialAssumption == OfficialTool \subseteq PlainName

newRenames == [forward |-> <<>>, reverse |-> <<>>]

HasClientTool(r, name) == name \in DOMAIN r.forward
IsRenamed(r, name)     == name \in DOMAIN r.reverse
Restore(r, name)       == IF IsRenamed(r, name) THEN r.reverse[name] ELSE name

(* The digest, or the digest with the least number that is not taken.       *)
Candidate_IgnoresTaken(r, name) == <<Digest[name[1]], 1>>
Candidate(r, name) ==
  LET d == Digest[name[1]]
      taken(k) == <<d, k>> \in DOMAIN r.reverse
      fresh == CHOOSE k \in 1..(Cardinality(DOMAIN r.reverse) + 1) :
                 ~taken(k) /\ \A j \in 1..(k - 1) : taken(j)
  IN  <<d, fresh>>

(* A map with one key more.                                                 *)
With(map, key, value) ==
  [k \in DOMAIN map \cup {key} |-> IF k = key THEN value ELSE map[k]]

(* A name that has been renamed keeps its new name.                         *)
rename(r, name) ==
  IF name = NoName \/ HasClientTool(r, name) THEN r
  ELSE LET wire == Candidate(r, name)
       IN  [forward |-> With(r.forward, name, wire),
            reverse |-> With(r.reverse, wire, name)]
==============================================================================
