--------------------------- MODULE MCMessageRouter ---------------------------
(***************************************************************************)
(* Two agents, two channels for subscriptions and resubscriptions, channels *)
(* of one message, so that they are soon full.                              *)
(***************************************************************************)
EXTENDS MessageRouter

CONSTANTS ann, bob,                 \* agents
          direct, more, news,       \* two messages to bob, one to everyone
          c1, c2                    \* channels

MCSender == [m \in Message |-> ann]
MCTo == [m \in Message |-> IF m = news THEN Everyone ELSE bob]
=============================================================================
