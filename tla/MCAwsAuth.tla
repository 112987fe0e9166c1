------------------------------ MODULE MCAwsAuth ------------------------------
(* Two daemons with two narrowings of one profile, the second with           *)
(* credentials that need not outlast the lead, and a daemon of another       *)
(* profile, any two of which run at a time; a request to the first; and what *)
(* two of their predecessors left in the cache.                              *)
EXTENDS AwsAuth, TLC

CONSTANTS narrow, wide, apart, c1, work, home, policy, none

OfNarrow == c1 :> narrow
TwoProfiles == narrow :> work @@ wide :> work @@ apart :> home
TwoNarrowings == narrow :> policy @@ wide :> none @@ apart :> none
LongAndShort == narrow :> {Lead + 2} @@ wide :> {Lead, Lead + 2} @@ apart :> {Lead + 2}
LeftBehind == {work :> [digest |-> none, left |-> Lead + 1] @@
               home :> [digest |-> none, left |-> Lead]}
=============================================================================
