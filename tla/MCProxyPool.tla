---------------------------- MODULE MCProxyPool ------------------------------
EXTENDS ProxyPool

CONSTANTS a, b, u, v

(* The callers run the same code and no property names one of them.         *)
CallerSymmetry == Permutations({u, v})

(* Subscriptions that stay, lose a node and gain it again, or exchange it   *)
(* for another.                                                             *)
Fixed    == {<<a, b>>}
Changing == {<<a, b>>, <<b>>}
Swapping == {<<a>>, <<b>>}
==============================================================================
