-------------------------- MODULE MCHostSingleton ---------------------------
\* Host-wide daemons for TLC; callers and daemon processes are interchangeable.
EXTENDS HostSingleton, TLC

CONSTANTS claude, openai

Interchangeable == Permutations(Callers) \cup Permutations(Instances)
=============================================================================
