------------------------------ MODULE Auction ------------------------------
(***************************************************************************)
(* The truth auction of a forked child pool: sealed-price bids in ETH for  *)
(* the child's REP, one clearing price, refunds before and after the       *)
(* finalization (UniformPriceDualCapBatchAuction.sol and its Storage       *)
(* library).  The owner is the SecurityPoolForker, whose entry points      *)
(* (finalizeTruthAuction, claimAuctionProceeds, settleAuctionBids) anyone  *)
(* may call.  Its trees are those of AuctionStorage.                       *)
(***************************************************************************)
EXTENDS AuctionStorage

CONSTANTS
    Bidder,
    MIN_BID_SIZE_DIVISOR,
    Terms,                 \* <<ETH raise cap, REP sale cap>> an auction starts with
    CapacityForSale,       \* auctionedCapacityOwnershipAttoRep: shared pro rata
    Offers(_),             \* bound: the <<bidder, tick, amount>> bid under an ETH cap
    MaxBids(_)             \* bound: the bids in all under an ETH cap

ASSUME AuctionAssumption ==
    /\ MIN_BID_SIZE_DIVISOR \in Nat \ {0}
    /\ Terms \subseteq (Nat \ {0}) \X (Nat \ {0})
    /\ CapacityForSale \in Nat
    /\ \A p \in Terms : /\ Offers(p[1]) \subseteq Bidder \X Tick \X Nat
                         /\ MaxBids(p[1]) \in Nat

VARIABLES
    auctionStarted,
    periodOver,            \* AUCTION_TIME has passed since the start
    attoEthRaiseCap,
    maxAttoRepBeingSold,
    underfundedThreshold,  \* the reserve price the two caps imply
    bidsAtTick,            \* [tick]: the bids, in order of submission
    root,                  \* the tree of active ticks
    activeTickCount,
    refundedBidPrefixTree, \* [tick]: the Fenwick tree of its refunds
    outcome,               \* what finalize() stored
    ethBalance,            \* of the contract
    pendingEthRefunds,     \* [bidder]: refunds whose push failed
    repCredited,           \* REP withdrawBids returned in all
    capacityCredited       \* capacity ownership it returned in all

terms == <<attoEthRaiseCap, maxAttoRepBeingSold, underfundedThreshold>>
tree == <<root, activeTickCount>>
book == <<bidsAtTick, refundedBidPrefixTree>>
credits == <<repCredited, capacityCredited>>
vars == <<auctionStarted, periodOver, terms, book, tree, outcome, ethBalance,
          pendingEthRefunds, credits>>

CeilDiv(a, b) == (a + b - 1) \div b
SumOver(f, S) == MapThenSumSet(LAMBDA x : f[x], S)
BidRefs == UNION {{t} \X DOMAIN bidsAtTick[t] : t \in Tick}
Bid(r) == bidsAtTick[r[1]][r[2]]
AmountOf(R) == MapThenSumSet(LAMBDA r : Bid(r).amount, R)
Unclaimed == {r \in BidRefs : ~Bid(r).claimed}

-----------------------------------------------------------------------------
(* Clearing                                                                *)

\* Mutant: the reserve price is rounded down.
MutReserveFloor(ethCap, repCap) == (ethCap * PRICE_PRECISION) \div repCap

ReservePrice(ethCap, repCap) == CeilDiv(ethCap * PRICE_PRECISION, repCap)

config == [eth |-> attoEthRaiseCap, rep |-> maxAttoRepBeingSold,
           reserve |-> underfundedThreshold]

computeClearing == _compute(root, config, StartCursor)

_priceToCeilingTick(price) ==
    LET reached == {t \in Tick : TickPrice[t] >= price}
    IN  IF reached = {} THEN Max(Tick) ELSE Min(reached)

ActiveAtOrAbove(t) == getActiveBidAttoEthAboveTick(root, t) + getBidAttoEthAtTick(root, t)

\* What finalize() records and sends for a clearing c.
_computeFinalizationOutcome(c) ==
    LET floor == _priceToCeilingTick(underfundedThreshold)
        winning == IF TickPrice[floor] < underfundedThreshold THEN 0
                   ELSE ActiveAtOrAbove(floor)
        result(tick, won, rep, raised) ==
            [finalized |-> TRUE, underfunded |-> ~c.hitCap, clearingTick |-> tick,
             filledAtClearing |-> c.atTick, ethRaised |-> c.accumulated,
             winningEth |-> won, repPurchased |-> rep, sent |-> raised]
    IN  IF c.hitCap
        THEN result(c.tick, 0, (c.accumulated * PRICE_PRECISION) \div TickPrice[c.tick],
                    c.accumulated)
        ELSE IF c.accumulated = 0 THEN result(0, 0, 0, 0)
        ELSE result(floor, winning, IF winning = 0 THEN 0 ELSE maxAttoRepBeingSold, winning)

NotFinalized ==
    [finalized |-> FALSE, underfunded |-> FALSE, clearingTick |-> 0,
     filledAtClearing |-> 0, ethRaised |-> 0, winningEth |-> 0,
     repPurchased |-> 0, sent |-> 0]

-----------------------------------------------------------------------------
(* Settlement of one bid after finalization                                *)

_getActiveCumulativeBidBefore(r) ==
    Bid(r).cumulative - Bid(r).amount
      - refundedCumulativeBefore(refundedBidPrefixTree[r[1]], r[2] - 1)

_isBidRefunded(r) ==
    refundedCumulativeBefore(refundedBidPrefixTree[r[1]], r[2])
      > refundedCumulativeBefore(refundedBidPrefixTree[r[1]], r[2] - 1)

\* ETH in front of the bid: every better tick, then the earlier bids of its own.
Position(r) ==
    getActiveBidAttoEthAboveTick(root, r[1]) + _getActiveCumulativeBidBefore(r)

allocateFromCumulativePosition(before, used, numerator, denominator) ==
    IF used = 0 \/ denominator = 0 THEN 0
    ELSE ((before + used) * numerator) \div denominator - (before * numerator) \div denominator

BidUsed(r) ==
    IF outcome.underfunded
    THEN IF outcome.winningEth > 0 /\ r[1] >= outcome.clearingTick THEN Bid(r).amount ELSE 0
    ELSE IF r[1] < outcome.clearingTick THEN 0
    ELSE IF r[1] > outcome.clearingTick THEN Bid(r).amount
    ELSE Min({Bid(r).amount,
              Max({0, outcome.filledAtClearing - _getActiveCumulativeBidBefore(r)})})

RepFilled(r) ==
    IF outcome.underfunded
    THEN allocateFromCumulativePosition(Position(r), BidUsed(r),
                                        outcome.repPurchased, outcome.winningEth)
    ELSE allocateFromCumulativePosition(Position(r), BidUsed(r),
                                        PRICE_PRECISION, TickPrice[outcome.clearingTick])

CapacityShare(r) ==
    allocateFromCumulativePosition(Position(r), BidUsed(r), CapacityForSale, outcome.ethRaised)

BidRefund(r) == Bid(r).amount - BidUsed(r)

-----------------------------------------------------------------------------
(* Actions                                                                 *)

Init ==
    /\ auctionStarted = FALSE /\ periodOver = FALSE
    /\ attoEthRaiseCap = 0 /\ maxAttoRepBeingSold = 0 /\ underfundedThreshold = 0
    /\ bidsAtTick = [t \in Tick |-> <<>>]
    /\ root = Empty /\ activeTickCount = 0
    /\ refundedBidPrefixTree = [t \in Tick |-> <<>>]
    /\ outcome = NotFinalized
    /\ ethBalance = 0
    /\ pendingEthRefunds = [b \in Bidder |-> 0]
    /\ repCredited = 0 /\ capacityCredited = 0

startAuction(ethCap, repCap) ==
    /\ ~auctionStarted
    /\ auctionStarted' = TRUE
    /\ attoEthRaiseCap' = ethCap
    /\ maxAttoRepBeingSold' = repCap
    /\ underfundedThreshold' = ReservePrice(ethCap, repCap)
    /\ UNCHANGED <<periodOver, book, tree, outcome, ethBalance, pendingEthRefunds, credits>>

\* The bidding week passes.
PeriodEnds ==
    /\ auctionStarted /\ ~periodOver
    /\ periodOver' = TRUE
    /\ UNCHANGED <<auctionStarted, terms, book, tree, outcome, ethBalance,
                   pendingEthRefunds, credits>>

minBidSize == Max({1, attoEthRaiseCap \div MIN_BID_SIZE_DIVISOR})

_appendBid(t, bidder, amount) ==
    LET q == bidsAtTick[t]
        before == IF q = <<>> THEN 0 ELSE Last(q).cumulative
    IN  /\ refundedBidPrefixTree' =
               [refundedBidPrefixTree EXCEPT ![t] = initializeRefundPrefixEntry(@)]
        /\ bidsAtTick' = [bidsAtTick EXCEPT ![t] =
               Append(q, [bidder |-> bidder, amount |-> amount,
                          cumulative |-> before + amount, claimed |-> FALSE])]

submitBid(bidder, t, amount) ==
    /\ auctionStarted /\ ~periodOver /\ ~outcome.finalized
    /\ Cardinality(BidRefs) < MaxBids(attoEthRaiseCap)
    /\ amount >= minBidSize
    /\ root' = insert(root, t, amount, underfundedThreshold)
    /\ activeTickCount' =
         activeTickCount + IF getBidAttoEthAtTick(root, t) = 0 THEN 1 ELSE 0
    /\ _appendBid(t, bidder, amount)
    /\ ethBalance' = ethBalance + amount
    /\ UNCHANGED <<auctionStarted, periodOver, terms, outcome, pendingEthRefunds, credits>>

\* Mutant: a refund is recorded for the pull path although the push went through.
MutPayAndDefer(bidder, amount) ==
    /\ ethBalance' = ethBalance - amount
    /\ pendingEthRefunds' = [pendingEthRefunds EXCEPT ![bidder] = @ + amount]

\* The refund is pushed; when the recipient refuses it, it waits to be pulled.
_payOrDeferRefund(bidder, amount) ==
    \/ /\ ethBalance' = ethBalance - amount
       /\ UNCHANGED pendingEthRefunds
    \/ /\ amount > 0
       /\ pendingEthRefunds' = [pendingEthRefunds EXCEPT ![bidder] = @ + amount]
       /\ UNCHANGED ethBalance

Claim(R) ==
    [t \in Tick |-> [i \in DOMAIN bidsAtTick[t] |->
        [bidsAtTick[t][i] EXCEPT !.claimed = @ \/ <<t, i>> \in R]]]

\* Mutant: bids at the clearing tick itself can be refunded early.
MutRefundsTheMarginalTick(r) == r[1] <= computeClearing.tick

\* Which bids _refundLosingBids lets go: those under the clearing tick.
Refundable(r) == r[1] < computeClearing.tick

\* One bid leaves the tree of its tick's refunds and the tree of ticks.
RefundedPrefix(entries, r) ==
    [entries EXCEPT ![r[1]] = addRefundedPrefixAmount(@, r[2], Bid(r).amount)]
Decreased(n, r) == _decrease(n, r[1], Bid(r).amount, underfundedThreshold)

\* refundLosingBids, or settleAuctionBids through the forker, for a set of bids in
\* the caller's order.
_refundLosingBids(bidder, R) ==
    /\ ~outcome.finalized /\ auctionStarted
    /\ computeClearing.hitCap
    /\ \A r \in R : Refundable(r) /\ Bid(r).bidder = bidder /\ ~Bid(r).claimed
    /\ bidsAtTick' = Claim(R)
    /\ \E refs \in SetToSeqs(R) :
         /\ refundedBidPrefixTree' = FoldLeft(RefundedPrefix, refundedBidPrefixTree, refs)
         /\ root' = FoldLeft(Decreased, root, refs)
    /\ activeTickCount' = activeTickCount
         - Cardinality({t \in Tick : /\ getBidAttoEthAtTick(root, t) > 0
                                     /\ getBidAttoEthAtTick(root', t) = 0})
    /\ _payOrDeferRefund(bidder, AmountOf(R))
    /\ UNCHANGED <<auctionStarted, periodOver, terms, outcome, credits>>

finalize ==
    /\ ~outcome.finalized /\ auctionStarted /\ periodOver
    /\ outcome' = _computeFinalizationOutcome(computeClearing)
    /\ ethBalance >= outcome'.sent
    /\ ethBalance' = ethBalance - outcome'.sent
    /\ UNCHANGED <<auctionStarted, periodOver, terms, book, tree, pendingEthRefunds, credits>>

withdrawBids(bidder, R) ==
    /\ outcome.finalized
    /\ \A r \in R : Bid(r).bidder = bidder /\ ~Bid(r).claimed
    /\ bidsAtTick' = Claim(R)
    /\ repCredited' = repCredited + MapThenSumSet(RepFilled, R)
    /\ capacityCredited' = capacityCredited + MapThenSumSet(CapacityShare, R)
    /\ _payOrDeferRefund(bidder, MapThenSumSet(BidRefund, R))
    /\ UNCHANGED <<auctionStarted, periodOver, terms, refundedBidPrefixTree, tree, outcome>>

withdrawPendingEthRefund(bidder) ==
    /\ pendingEthRefunds[bidder] > 0
    /\ pendingEthRefunds' = [pendingEthRefunds EXCEPT ![bidder] = 0]
    /\ ethBalance' = ethBalance - pendingEthRefunds[bidder]
    /\ UNCHANGED <<auctionStarted, periodOver, terms, book, tree, outcome, credits>>

Next ==
    \/ \E p \in Terms : startAuction(p[1], p[2])
    \/ PeriodEnds
    \/ finalize
    \/ \E o \in Offers(attoEthRaiseCap) : submitBid(o[1], o[2], o[3])
    \/ \E b \in Bidder :
         \/ \E R \in SUBSET {r \in Unclaimed : Bid(r).bidder = b} \ {{}} :
              \/ _refundLosingBids(b, R)
              \/ withdrawBids(b, R)
         \/ withdrawPendingEthRefund(b)

Spec == Init /\ [][Next]_vars

-----------------------------------------------------------------------------
(* Properties                                                              *)

\* Every amount stays in its range: no bid, tick or balance goes negative.
TypeOK ==
    /\ {auctionStarted, periodOver} \subseteq BOOLEAN
    /\ terms \in Nat \X Nat \X Nat
    /\ \A r \in BidRefs :
         Bid(r) \in [bidder : Bidder, amount : Nat \ {0}, cumulative : Nat \ {0},
                     claimed : BOOLEAN]
    /\ refundedBidPrefixTree \in [Tick -> Seq(Nat)]
    /\ {root.subtree, root.clearing, activeTickCount} \subseteq Nat
    /\ outcome \in [finalized : BOOLEAN, underfunded : BOOLEAN, clearingTick : Tick,
                    filledAtClearing : Nat, ethRaised : Nat, winningEth : Nat,
                    repPurchased : Nat, sent : Nat]
    /\ {ethBalance, repCredited, capacityCredited} \subseteq Nat
    /\ pendingEthRefunds \in [Bidder -> Nat]

RECURSIVE IsBalanced(_)
IsBalanced(n) ==
    n # Empty => /\ n.left.height - n.right.height \in -1 .. 1
                 /\ IsBalanced(n.left) /\ IsBalanced(n.right)

\* What the trees stand for, as long as bids and refunds change them: per tick
\* the bids that were not refunded, the ticks that have any, best price first,
\* and in front of each bid the sum of the refunded ones.
TreesMatchBook ==
    LET standing(t) == AmountOf({r \in Unclaimed : r[1] = t})
        refunded(t, i) == AmountOf({r \in BidRefs \ Unclaimed : r[1] = t /\ r[2] <= i})
        active == {t \in Tick : standing(t) > 0}
    IN  ~outcome.finalized =>
          /\ IsBalanced(root)
          /\ ActiveTicks(root) = SetToSortSeq(active, LAMBDA t, u : t > u)
          /\ activeTickCount = Cardinality(active)
          /\ \A t \in Tick :
               /\ getBidAttoEthAtTick(root, t) = standing(t)
               /\ getActiveBidAttoEthAboveTick(root, t)
                    = MapThenSumSet(standing, {u \in Tick : u > t})
          /\ \A r \in BidRefs :
               /\ refundedCumulativeBefore(refundedBidPrefixTree[r[1]], r[2])
                    = refunded(r[1], r[2])
               /\ _isBidRefunded(r) = Bid(r).claimed

\* The clearing as the documentation describes it: tick after tick from the best
\* price down to the reserve, nothing skipped.
WalkedClearing ==
    LET ticks == SelectSeq(ActiveTicks(root),
                           LAMBDA t : _isClearingTick(t, underfundedThreshold))
        step(cursor, t) ==
            IF cursor.hitCap THEN cursor
            ELSE TakeTick(cursor, t, getBidAttoEthAtTick(root, t), config)
    IN  FoldLeft(step, [StartCursor EXCEPT !.atTick = getBidAttoEthAtTick(root, 0)], ticks)

\* Through any history of bids and early refunds, with the rotations, deletions
\* and reinsertions they cause, the trees say what the book says, and the descent
\* that skips subtrees clears as the walk over every tick does
\* (UniformPriceDualCapBatchAuctionStorage.sol).
TreesServeTheBook == TreesMatchBook /\ computeClearing = WalkedClearing

\* AUC-02, and more: an auction that clears raises exactly its ETH cap, so the
\* other three exits of the descent are never the one taken, and neither cap is
\* ever passed by what finalize() records and sends.
CapsRespected ==
    /\ computeClearing.hitCap =>
         computeClearing.accumulated = attoEthRaiseCap
    /\ outcome.sent <= attoEthRaiseCap
    /\ outcome.repPurchased <= maxAttoRepBeingSold

\* AUC-12: the contract's ETH is exactly what it owes: the bids before
\* finalization, what is left of the unclaimed ones after it, and the deferred
\* refunds.
EthLiabilities ==
    ethBalance = SumOver(pendingEthRefunds, Bidder)
               + IF outcome.finalized THEN MapThenSumSet(BidRefund, Unclaimed)
                                      ELSE AmountOf(Unclaimed)

\* AUC-04 and AUC-05: whatever was claimed and in whatever order, what was
\* credited and what the unclaimed bids still yield add up to the REP sold and,
\* when anything was, to the whole capacity for sale: no dust is lost or minted.
AllocationsReconcile ==
    outcome.finalized =>
      /\ repCredited + MapThenSumSet(RepFilled, Unclaimed) = outcome.repPurchased
      /\ capacityCredited + MapThenSumSet(CapacityShare, Unclaimed)
           = IF outcome.ethRaised > 0 THEN CapacityForSale ELSE 0

\* What the contract holds and has sold is what its bids may claim.
LiabilitiesReconcile == TypeOK /\ EthLiabilities /\ AllocationsReconcile

\* Price, then time: a bid spends anything only when every standing bid with a
\* better price, or an earlier one at its own, is spent whole; and a bid refunded
\* early could not have won: the auction stays cleared above its tick, before
\* finalization and in the outcome, whatever is bid or refunded later, so that a
\* refund never takes ETH from under an allocation.
PriorityRespected ==
    /\ outcome.finalized =>
         \A r, s \in {x \in BidRefs : ~_isBidRefunded(x)} :
           r[1] > s[1] \/ (r[1] = s[1] /\ r[2] < s[2]) =>
             (BidUsed(s) > 0 => BidUsed(r) = Bid(r).amount)
    /\ \A r \in BidRefs : _isBidRefunded(r) =>
         IF outcome.finalized THEN ~outcome.underfunded /\ r[1] < outcome.clearingTick
         ELSE computeClearing.hitCap /\ Refundable(r)
=============================================================================
