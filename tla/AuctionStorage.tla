---------------------------- MODULE AuctionStorage ----------------------------
(***************************************************************************)
(* The storage library of the truth auction                                *)
(* (UniformPriceDualCapBatchAuctionStorage.sol): an AVL tree of the active *)
(* ticks whose nodes carry the totals of their subtrees, the descent that  *)
(* clears the auction by skipping whole subtrees, and per tick a Fenwick   *)
(* tree of what was refunded.  A node is a record that holds its children; *)
(* node ids and their reuse have no other use.                             *)
(***************************************************************************)
EXTENDS Integers, Sequences, SequencesExt, FiniteSets, FiniteSetsExt

CONSTANTS
    Tick,                  \* the price levels, MIN_TICK..MAX_TICK
    TickPrice,             \* tickToPrice, scaled by PRICE_PRECISION
    PRICE_PRECISION

\* The price grid: it contains tick 0 and rises with the tick.
ASSUME GridAssumption ==
    /\ Tick \subseteq Int /\ 0 \in Tick /\ IsFiniteSet(Tick)
    /\ TickPrice \in [Tick -> Nat \ {0}]
    /\ \A t, u \in Tick : t < u => TickPrice[t] < TickPrice[u]
    /\ PRICE_PRECISION \in Nat \ {0}

-----------------------------------------------------------------------------
(* The tree of active ticks.  reserve is underfundedThreshold: ticks under *)
(* it stay in the tree and out of the clearing totals.                     *)

\* Node 0: no height and no bids, as the null checks of the code read it.
Empty == [height |-> 0, subtree |-> 0, clearing |-> 0]

_isClearingTick(tick, reserve) == TickPrice[tick] >= reserve

_update(n, reserve) ==
    LET own == IF _isClearingTick(n.tick, reserve) THEN n.total ELSE 0
    IN  [n EXCEPT !.subtree = n.total + n.left.subtree + n.right.subtree,
                  !.clearing = own + n.left.clearing + n.right.clearing,
                  !.height = 1 + Max({n.left.height, n.right.height}),
                  !.minTick = CASE n.left.clearing > 0 -> n.left.minTick
                                [] n.left.clearing = 0 /\ own > 0 -> n.tick
                                [] n.left.clearing = 0 /\ own = 0 ->
                                     IF n.right.clearing = 0 THEN 0 ELSE n.right.minTick]

\* Mutant: only the node that rises is updated.
MutRotateKeepsTotals(n, reserve) ==
    _update([n.right EXCEPT !.left = [n EXCEPT !.right = n.right.left]], reserve)

_rotateLeft(n, reserve) ==
    LET demoted == _update([n EXCEPT !.right = n.right.left], reserve)
    IN  _update([n.right EXCEPT !.left = demoted], reserve)

_rotateRight(n, reserve) ==
    LET demoted == _update([n EXCEPT !.left = n.left.right], reserve)
    IN  _update([n.left EXCEPT !.right = demoted], reserve)

_balance(n, reserve) ==
    LET tilt == n.left.height - n.right.height
        leftInner == n.left.left.height < n.left.right.height
        rightInner == n.right.right.height < n.right.left.height
    IN  IF tilt > 1
        THEN _rotateRight(IF leftInner THEN [n EXCEPT !.left = _rotateLeft(@, reserve)]
                                       ELSE n, reserve)
        ELSE IF tilt < -1
        THEN _rotateLeft(IF rightInner THEN [n EXCEPT !.right = _rotateRight(@, reserve)]
                                       ELSE n, reserve)
        ELSE n

RECURSIVE insert(_, _, _, _)
insert(n, tick, amount, reserve) ==
    LET Settled(m) == _balance(_update(m, reserve), reserve)
        leaf == [tick |-> tick, total |-> amount, subtree |-> 0, clearing |-> 0,
                 height |-> 1, minTick |-> 0, left |-> Empty, right |-> Empty]
    IN  IF n = Empty THEN _update(leaf, reserve)
        ELSE Settled(
            CASE tick = n.tick -> [n EXCEPT !.total = @ + amount]
              [] tick < n.tick -> [n EXCEPT !.left = insert(@, tick, amount, reserve)]
              [] tick > n.tick -> [n EXCEPT !.right = insert(@, tick, amount, reserve)])

RECURSIVE _minNode(_)
_minNode(n) == IF n.left = Empty THEN n ELSE _minNode(n.left)

\* A node with two children takes over its successor, which leaves in its place.
RECURSIVE _delete(_, _, _)
_delete(n, tick, reserve) ==
    LET successor == _minNode(n.right)
        Settled(m) == _balance(_update(m, reserve), reserve)
    IN  CASE tick < n.tick -> Settled([n EXCEPT !.left = _delete(@, tick, reserve)])
          [] tick > n.tick -> Settled([n EXCEPT !.right = _delete(@, tick, reserve)])
          [] tick = n.tick /\ n.left = Empty -> n.right
          [] tick = n.tick /\ n.left # Empty /\ n.right = Empty -> n.left
          [] tick = n.tick /\ n.left # Empty /\ n.right # Empty ->
               Settled([n EXCEPT !.tick = successor.tick,
                                 !.total = successor.total,
                                 !.right = _delete(@, successor.tick, reserve)])

RECURSIVE _decrease(_, _, _, _)
_decrease(n, tick, amount, reserve) ==
    LET Settled(m) == _balance(_update(m, reserve), reserve)
    IN  CASE tick < n.tick -> Settled([n EXCEPT !.left = _decrease(@, tick, amount, reserve)])
          [] tick > n.tick -> Settled([n EXCEPT !.right = _decrease(@, tick, amount, reserve)])
          [] tick = n.tick /\ n.total = amount -> _delete(n, tick, reserve)
          [] tick = n.tick /\ n.total > amount -> Settled([n EXCEPT !.total = @ - amount])

RECURSIVE getBidAttoEthAtTick(_, _)
getBidAttoEthAtTick(n, tick) ==
    IF n = Empty THEN 0
    ELSE IF tick = n.tick THEN n.total
    ELSE getBidAttoEthAtTick(IF tick < n.tick THEN n.left ELSE n.right, tick)

RECURSIVE getActiveBidAttoEthAboveTick(_, _)
getActiveBidAttoEthAboveTick(n, tick) ==
    IF n = Empty THEN 0
    ELSE CASE tick < n.tick -> n.right.subtree + n.total
                                 + getActiveBidAttoEthAboveTick(n.left, tick)
           [] tick > n.tick -> getActiveBidAttoEthAboveTick(n.right, tick)
           [] tick = n.tick -> n.right.subtree

\* The ticks in the order in which the pager lists them.
RECURSIVE ActiveTicks(_)
ActiveTicks(n) ==
    IF n = Empty THEN <<>>
    ELSE ActiveTicks(n.right) \o <<n.tick>> \o ActiveTicks(n.left)

-----------------------------------------------------------------------------
(* Clearing.  caps is ClearingConfig; a cursor is what was passed: hitCap, *)
(* the last tick, the ETH up to it and the ETH used at it.                 *)

StartCursor == [hitCap |-> FALSE, tick |-> 0, accumulated |-> 0, atTick |-> 0]

\* One tick, in the order of the tests: the ETH so far already buys too much
\* here, or has reached the cap; the tick reaches the REP cap; it reaches the ETH
\* cap; or it is taken whole and the descent goes on.
TakeTick(cursor, tick, bid, caps) ==
    LET buys(eth) == (eth * PRICE_PRECISION) \div TickPrice[tick]
        take == Min({bid, caps.eth - cursor.accumulated})
        total == cursor.accumulated + take
        most == (caps.rep * TickPrice[tick]) \div PRICE_PRECISION
        partial == Min({take, Max({0, most - cursor.accumulated})})
        here(hit, used) == [hitCap |-> hit, tick |-> tick,
                            accumulated |-> cursor.accumulated + used,
                            atTick |-> used]
    IN  IF \/ cursor.accumulated > 0 /\ buys(cursor.accumulated) > caps.rep
           \/ cursor.accumulated >= caps.eth
        THEN [cursor EXCEPT !.hitCap = TRUE]
        ELSE IF buys(total) >= caps.rep THEN here(TRUE, partial)
        ELSE here(total >= caps.eth, take)

_subtreeWouldClear(n, accumulated, caps) ==
    LET candidate == accumulated + n.clearing
    IN  /\ n.clearing > 0
        /\ \/ candidate >= caps.eth
           \/ (candidate * PRICE_PRECISION) \div TickPrice[n.minTick] >= caps.rep

\* The cursor after a subtree that does not clear.
PastSubtree(cursor, n) ==
    IF n.clearing = 0 THEN cursor
    ELSE [cursor EXCEPT !.tick = n.minTick,
                        !.accumulated = @ + n.clearing,
                        !.atTick = getBidAttoEthAtTick(n, n.minTick)]

RECURSIVE _compute(_, _, _)
_compute(n, caps, cursor) ==
    LET past == PastSubtree(cursor, n.right)
        taken == TakeTick(past, n.tick, n.total, caps)
    IN  IF n = Empty THEN [cursor EXCEPT !.atTick = 0]
        ELSE IF ~_subtreeWouldClear(n, cursor.accumulated, caps)
        THEN [hitCap |-> FALSE, tick |-> n.minTick,
              accumulated |-> cursor.accumulated + n.clearing,
              atTick |-> getBidAttoEthAtTick(n, n.minTick)]
        ELSE IF _subtreeWouldClear(n.right, cursor.accumulated, caps)
        THEN _compute(n.right, caps, cursor)
        ELSE IF ~_isClearingTick(n.tick, caps.reserve) THEN past
        ELSE IF taken.hitCap THEN taken
        ELSE _compute(n.left, caps, taken)

-----------------------------------------------------------------------------
(* The refunds of one tick: entry i sums the last lsb(i) bids up to i.     *)

_leastSignificantBit(value) ==
    Max({d \in {2 ^ k : k \in 0 .. value} : value % d = 0})

RECURSIVE refundedCumulativeBefore(_, _)
refundedCumulativeBefore(entries, index) ==
    IF index = 0 THEN 0
    ELSE entries[index]
           + refundedCumulativeBefore(entries, index - _leastSignificantBit(index))

RECURSIVE addRefundedPrefixAmount(_, _, _)
addRefundedPrefixAmount(entries, index, amount) ==
    IF index > Len(entries) THEN entries
    ELSE addRefundedPrefixAmount([entries EXCEPT ![index] = @ + amount],
                                 index + _leastSignificantBit(index), amount)

initializeRefundPrefixEntry(entries) ==
    LET index == Len(entries) + 1
    IN  Append(entries,
               refundedCumulativeBefore(entries, index - 1)
                 - refundedCumulativeBefore(entries, index - _leastSignificantBit(index)))
=============================================================================
