---------------------------- MODULE MCBrokerQueue ----------------------------
(* BrokerQueue on a small instance: see the configuration. *)
EXTENDS BrokerQueue, TLC

CONSTANTS m1, m2, c1

\* One exchange, and one call of Consumer for it
GroupOfCalls == (m1 :> "g") @@ (m2 :> "g") @@ (c1 :> "g")
ToCalls == (m1 :> c1) @@ (m2 :> c1)
=============================================================================
