------------------------------ MODULE MCZoltar ------------------------------
(* A genesis universe, its two children and one grandchild; two holders,   *)
(* one of them able to fork the genesis and then a child of it.            *)
EXTENDS Zoltar

CONSTANTS Yes, No, Q1, Q2, alice, bob, burn

MCGenesis == <<>>
MCUniverseId == {<<>>, <<<<>>, Yes>>, <<<<>>, No>>, <<<<<<>>, Yes>>, Yes>>}
MCWellFormed == [q \in Question |-> IF q = Q1 THEN {Yes, No} ELSE {Yes}]
MCGenesisBalance == [a \in Account |-> IF a = alice THEN 7 ELSE IF a = bob THEN 9 ELSE 0]
=============================================================================
