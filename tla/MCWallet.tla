------------------------------ MODULE MCWallet -------------------------------
(* Wallet with interchangeable labels and calls.                           *)
EXTENDS Wallet, TLC

CallSymmetry == Permutations(Calls) \cup Permutations(Labels)
=============================================================================
