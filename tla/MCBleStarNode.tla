---------------------------- MODULE MCBleStarNode ----------------------------
(* Names for BleStarNode on small instances: a node "me", two devices one   *)
(* of whose names is the start of the other's, and a subscription.          *)
EXTENDS BleStarNode

MCName == {"", "*", "me", "DEV1", "DEV10", "/s"}

\* strstr(hay, needle)
MCInfix ==
  {<<n, n>> : n \in MCName} \cup {<<n, "">> : n \in MCName}
    \cup {<<"DEV10", "DEV1">>}

==============================================================================
