---------------------------- MODULE MCSupervisor ----------------------------
\* One daemon of each restart policy for TLC.
EXTENDS Supervisor

CONSTANTS proxy, bridge, oneshot

Three == {proxy, bridge, oneshot}
ThreePolicies ==
  [d \in Three |-> CASE d = proxy -> "always" [] d = bridge -> "on-failure" [] d = oneshot -> "no"]
=============================================================================
