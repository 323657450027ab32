----------------------------- MODULE MCPickLoop ------------------------------
EXTENDS PickLoop

CONSTANTS a, b, c

(* One, two and three nodes, and a subscription that lists a key twice.     *)
MCLists == {<<a>>, <<a, b>>, <<a, b, c>>, <<a, b, a>>}
==============================================================================
