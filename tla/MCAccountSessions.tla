------------------------ MODULE MCAccountSessions ------------------------
EXTENDS AccountSessions, TLC

\* Devices, passwords and request slots are interchangeable.
Symmetry == Permutations(Devices) \cup Permutations(Passwords)
              \cup Permutations(Requests)
=============================================================================
