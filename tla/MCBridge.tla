------------------------------ MODULE MCBridge ------------------------------
(***************************************************************************)
(* Instances of Bridge for TLC: one or two connectors of chosen types.     *)
(***************************************************************************)
EXTENDS Bridge, TLC

CONSTANTS c1, c2

\* A listener without streaming and a streaming subscriber.
ListenerAndStreamSubscriber == (c1 :> Queue2NATS) @@ (c2 :> Stan2Queue)

OneListener         == c1 :> Topic2NATS
OneSubscriber       == c1 :> NATS2Queue
OneStreamSubscriber == c1 :> Stan2Topic

=============================================================================
