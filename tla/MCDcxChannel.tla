---------------------------- MODULE MCDcxChannel ----------------------------
(* Instances of DcxChannel for TLC: alice calls send_to_peer twice and bob   *)
(* once; bob also has an ensure_channel call and two inbound tasks.          *)
EXTENDS DcxChannel, TLC

CONSTANTS alice, bob, s1, s2, r1, e2, h1, h2

MCPeer == alice :> bob @@ bob :> alice

MCAt ==
  [t \in Tasks \cup Handlers |-> IF t \in {r1, e2, h1, h2} THEN bob ELSE alice]
=============================================================================
