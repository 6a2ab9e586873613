------------------------ MODULE MCPriceCoordinator -------------------------
(* Two vaults, and approvals by which one lets the other liquidate for it. *)
EXTENDS PriceCoordinator

CONSTANTS alice, bob, forAlice

\* Good for two operations, the second for less than it asks; it runs out
\* while an operation waits for a slow report.
MCTerms ==
    [a \in {forAlice} |->
       [receiver |-> alice, operator |-> bob, target |-> AnyVault, maxCumulative |-> 3,
        maxPerLiquidation |-> 2, validAfter |-> 1, validUntil |-> 3, nonce |-> 0]]
=============================================================================
