---------------------------- MODULE MCJailLaunch ----------------------------
\* Launches of one workspace for TLC; they are interchangeable.
EXTENDS JailLaunch, TLC

Interchangeable == Permutations(Launches)
=============================================================================
