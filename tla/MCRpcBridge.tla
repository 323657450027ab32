---------------------------- MODULE MCRpcBridge ----------------------------
(* RpcBridge with named requests: s streams, u and v do not, and the line   *)
(* of v is too long for the core.                                           *)
EXTENDS RpcBridge
CONSTANTS s, u, v
OneStream   == {s}
OneUnary    == {u}
TwoUnaries  == {u, v}
NoneTooLong == {}
VTooLong    == {v}
============================================================================
