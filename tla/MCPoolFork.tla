----------------------------- MODULE MCPoolFork -----------------------------
(***************************************************************************)
(* Six parents: one without a game; one with a game forked by others,     *)
(* whose own earlier auction left winnings unclaimed; an own fork, whose   *)
(* game can be drained; one whose units are not its REP one to one, some   *)
(* of them nobody's; one whose shares are held by two and migrate; and one *)
(* whose question an earlier fork decided and some of whose shares are     *)
(* still where that fork left them.                                        *)
(***************************************************************************)
EXTENDS PoolFork, TLC

CONSTANTS alice, bob, yes, no

Amount(units, capacity, badDebt) ==
    [units |-> units, capacity |-> capacity, badDebt |-> badDebt]

Pool(ownFork, poolRep, gameRep, collateral, a, b, late, lost) ==
    LET total == Plus(Plus(Plus(a, b), late), lost)
    IN  [ownFork |-> ownFork, sameQuestion |-> ownFork,
         shares |-> [o \in Child |-> alice :> collateral @@ bob :> 0],
         late |-> [o \in Child |-> alice :> 0 @@ bob :> 0], decided |-> {}, traders |-> {},
         traded |-> {}, prices |-> {1, 9},
         hasGame |-> gameRep > 0, poolRep |-> poolRep,
         gameRep |-> gameRep, collateral |-> collateral, snapshot |-> 0,
         badDebtAtFork |-> 0, shareSupply |-> collateral, price |-> 1,
         totalUnits |-> total.units, totalCapacity |-> total.capacity,
         totalBadDebt |-> total.badDebt,
         vaults |-> alice :> a @@ bob :> b,
         unclaimed |-> alice :> Nothing @@ bob :> late, abandoned |-> lost]

MCParents ==
    {Pool(FALSE, 5, 0, 3, Amount(3, 4, 0), Amount(2, 2, 1), Nothing, Nothing),
     Pool(FALSE, 7, 4, 3, Amount(3, 3, 0), Amount(1, 1, 1), Amount(2, 3, 0), Nothing),
     Pool(TRUE, 6, 3, 2, Amount(4, 2, 1), Amount(1, 3, 0), Nothing, Nothing),
     Pool(FALSE, 3, 0, 4, Amount(4, 4, 0), Amount(3, 4, 0), Nothing, Amount(1, 1, 1)),
     [Pool(FALSE, 1, 0, 2, Amount(1, 1, 0), Amount(0, 0, 0), Nothing, Nothing) EXCEPT
         !.sameQuestion = TRUE,
         !.traders = {alice, bob}, !.traded = {yes}, !.prices = {},
         !.shares = yes :> (alice :> 1 @@ bob :> 1) @@ no :> (alice :> 2 @@ bob :> 0)],
     [Pool(FALSE, 1, 0, 2, Amount(1, 1, 0), Amount(0, 0, 0), Nothing, Nothing) EXCEPT
         !.decided = {yes},
         !.traders = {bob}, !.traded = {yes}, !.prices = {},
         !.shares = yes :> (alice :> 0 @@ bob :> 1) @@ no :> (alice :> 2 @@ bob :> 0),
         !.late = yes :> (alice :> 0 @@ bob :> 1) @@ no :> (alice :> 0 @@ bob :> 1)]}
=============================================================================
