---------------------------- MODULE MCAccounts ----------------------------
EXTENDS Accounts, TLC

Symmetry == Permutations(Slots) \cup Permutations(Handles) \cup Permutations(Settled)
              \cup Permutations(Links)
=============================================================================
