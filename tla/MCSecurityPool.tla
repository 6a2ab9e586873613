--------------------------- MODULE MCSecurityPool ---------------------------
(* Two vaults, one trader and two children.  With the vaults' REP equal the *)
(* vaults are interchangeable; the children always are.                    *)
EXTENDS SecurityPool, TLC

CONSTANTS alice, bob

EvenSupply == alice :> 5 @@ bob :> 5
UnevenSupply == alice :> 6 @@ bob :> 3

PoolSymmetry == Permutations(Vault) \cup Permutations(Child)
ChildSymmetry == Permutations(Child)
=============================================================================
