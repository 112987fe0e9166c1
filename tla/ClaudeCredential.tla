-------------------------- MODULE ClaudeCredential --------------------------
(***************************************************************************)
(* What the host's one Claude credential promises, with no lock, no        *)
(* sessions and no upstream: a cell that a login replaces whatever it      *)
(* holds, that a refresh moves on from the tokens it replaces without      *)
(* leaving their login, and that stays with a refresh token consumed for   *)
(* nothing until somebody logs in.  OAuthRefresh implements it.            *)
(***************************************************************************)
EXTENDS Naturals

CONSTANT MaxIssue  \* bound: token sets Anthropic issues in a behaviour
Issues == 1..MaxIssue

VARIABLE cell

\* The numbers of the access and of the refresh token, the login they descend from,
\* and whether the refresh token was consumed and its successor lost.
NoCredential == [at |-> 0, rt |-> 0, login |-> 0, dead |-> FALSE]
Holds == cell # NoCredential

Init == cell = NoCredential

Login == \E i \in Issues \ {cell.rt} :
  cell' = [at |-> i, rt |-> i, login |-> i, dead |-> FALSE]

\* A response may carry no refresh token; the access token is always a newer one.
Rotate == /\ Holds /\ ~cell.dead
          /\ \E i \in Issues : \E r \in {cell.rt, i} :
               /\ i > cell.at
               /\ cell' = [at |-> i, rt |-> r, login |-> cell.login, dead |-> FALSE]

Lose == /\ Holds /\ ~cell.dead
        /\ cell' = [at |-> cell.at, rt |-> cell.rt, login |-> cell.login, dead |-> TRUE]

Next == Login \/ Rotate \/ Lose

Spec == Init /\ [][Next]_cell
=============================================================================
