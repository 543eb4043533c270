--------------------------- MODULE MCNetworkGuard ---------------------------
(* Two instances of NetworkGuard in one run: two workers for two clients,   *)
(* where the workers race each other and every stop(), and a single worker  *)
(* for three clients behind an upstream proxy, where one client is served,  *)
(* one waits and one is refused.                                            *)
EXTENDS NetworkGuard

MCSetups == {[workers |-> 2, clients |-> 2, proxied |-> FALSE],
             [workers |-> 1, clients |-> 3, proxied |-> TRUE]}
=============================================================================
