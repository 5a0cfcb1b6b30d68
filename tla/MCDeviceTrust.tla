-------------------------- MODULE MCDeviceTrust --------------------------
EXTENDS DeviceTrust, TLC

\* Keys, invites and nonces are interchangeable.
Symmetry == Permutations(Keys) \cup Permutations(Invites) \cup Permutations(Nonces)
=============================================================================
