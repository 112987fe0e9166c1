---------------------------- MODULE OpenAIGrant ----------------------------
(***************************************************************************)
(* What the shared OpenAI credential promises, with no lock, no processes  *)
(* and no upstream: one cell holding a generation, and five atomic ways to *)
(* change it.  Every change is computed from the value it replaces, so no  *)
(* update is ever lost.  OpenAIAuth implements this specification.         *)
(***************************************************************************)
EXTENDS Naturals

CONSTANTS Issues,      \* numbers of the token sets OpenAI and the user hand out
          NoState,     \* credentials.json is absent
          Unreadable   \* it exists but loadState refuses it

VARIABLE cell

Holds == cell \notin {NoState, Unreadable}

\* The fields of State that decide anything: which token set is held, which
\* refresh token, the generation, and the two facts Refresh branches on.
Generation == [gen : Nat \ {0}, at : Issues, rt : Issues,
               loginRequired : BOOLEAN, due : BOOLEAN]

Init == cell \in {NoState, Unreadable}

\* A login or an import starts the next generation, or generation 1.
Install == \E i \in Issues, due \in BOOLEAN :
  cell' = [gen |-> IF Holds THEN cell.gen + 1 ELSE 1, at |-> i, rt |-> i,
           loginRequired |-> FALSE, due |-> due]

\* A redemption advances the generation it redeemed, and no other.
Rotate == /\ Holds /\ ~cell.loginRequired /\ cell.due
          /\ \E i \in Issues : \E r \in {cell.rt, i} :
               cell' = [gen |-> cell.gen + 1, at |-> i, rt |-> r,
                        loginRequired |-> FALSE, due |-> FALSE]

\* A permanent refusal marks the generation that was refused.
Reject == /\ Holds /\ ~cell.loginRequired /\ cell.due
          /\ cell' = [cell EXCEPT !.loginRequired = TRUE]

Remove == cell' = NoState

Expire == Holds /\ ~cell.due /\ cell' = [cell EXCEPT !.due = TRUE]

Next == Install \/ Rotate \/ Reject \/ Remove \/ Expire

Spec == Init /\ [][Next]_cell
=============================================================================
