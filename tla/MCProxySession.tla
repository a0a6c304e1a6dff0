--------------------------- MODULE MCProxySession ---------------------------
(* An instance of ProxySession for TLC.                                    *)
EXTENDS ProxySession

IdsOfAll == Proxies \X (1 .. MaxGens)
=============================================================================
