-------------------------- MODULE MCRobustSockJS --------------------------
(* The server writes two messages, which have an order, the client one.    *)
EXTENDS RobustSockJS

MCMaxMessages == [client |-> 1, server |-> 2]

=============================================================================
