----------------------------- MODULE MCAuction -----------------------------
(***************************************************************************)
(* Two auctions of two bidders at three prices around the reserve: with    *)
(* caps 5 and 4 the reserve 2.5 rounds up to the middle price; with 6 and 3*)
(* it is the top one, the cap buying exactly the REP on sale.  And one of a*)
(* single bidder with many small bids at six prices, for the trees.        *)
(***************************************************************************)
EXTENDS Auction, TLC

CONSTANTS alice, bob, carol

MCTick == -2 .. 3
MCTickPrice == [t \in MCTick |-> t + 3]
MCTerms == {<<5, 4>>, <<6, 3>>, <<2, 2>>}
MCOffers(ethCap) ==
    CASE ethCap = 2 -> {carol} \X MCTick \X {1}
      [] ethCap = 5 -> {alice, bob} \X (-1 .. 1) \X {0, 2, 3}
      [] ethCap = 6 -> {alice, bob} \X (-1 .. 1) \X {1, 4}
      [] OTHER -> {}
MCMaxBids(ethCap) == CASE ethCap = 2 -> 5 [] ethCap = 5 -> 4 [] ethCap = 6 -> 4
BidderSymmetry == Permutations({alice, bob})
=============================================================================
