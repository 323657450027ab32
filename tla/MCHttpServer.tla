---------------------------- MODULE MCHttpServer -----------------------------
EXTENDS HttpServer

CONSTANTS a, b

(* A subscription with two nodes.                                           *)
Two == {<<a, b>>}
==============================================================================
