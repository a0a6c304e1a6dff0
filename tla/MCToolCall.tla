----------------------------- MODULE MCToolCall -----------------------------
(* Instances of ToolCall for TLC: two calls of one proxy session and one   *)
(* of another, which share the limiter and the coordinator.                *)
EXTENDS ToolCall, TLC

CONSTANTS c1, c2, c3, p1, p2

ProxyOfThree == c1 :> p1 @@ c2 :> p1 @@ c3 :> p2
ProxyOfTwo   == c1 :> p1 @@ c2 :> p1
=============================================================================
