---------------------------- MODULE MCOpenAIAuth ---------------------------
(* Instances of OpenAIAuth for TLC.                                        *)
EXTENDS OpenAIAuth, TLC

CONSTANTS j1, j2, h1, bg

OneJail   == {j1}
TwoJails  == {j1, j2}
OneHost   == {h1}
NoHosts   == {}
=============================================================================
