------------------------------ MODULE MCVault ------------------------------
EXTENDS Vault, TLC

VaultSymmetry == Permutations(Users) \cup Permutations(Ids)
============================================================================
