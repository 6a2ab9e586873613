-------------------------- MODULE PriceCoordinator --------------------------
(***************************************************************************)
(* The oracle coordinator of a security pool: price reports, the operations*)
(* staged until a price is fresh, and the debt quotas that receivers of    *)
(* liquidations approve (OpenOraclePriceCoordinator.sol and                *)
(* LiquidationApprovalRegistry.sol).                                       *)
(*                                                                         *)
(* One report runs the whole batch of pending operations in one callback,  *)
(* so what an operation does to the coordinator's indexes, the registry and*)
(* the vaults is a function on the record `book', and a handler composes   *)
(* these functions.  The pool is two numbers per vault; whether it reverts *)
(* and how much debt a liquidation moves is its choice (fate).             *)
(***************************************************************************)
EXTENDS Integers, FiniteSets, SequencesExt

CONSTANTS
    Vault,
    Operator, Depositor,   \* the vaults that stage operations, and that deposit
    Approval,              \* installable approvals, as identifiers
    ApprovalTerms,         \* [approval]: LiquidationApprovalParams
    NoApproval, AnyVault,
    MAX_PENDING_SETTLEMENT_OPERATIONS,
    PRICE_VALID_FOR_SECONDS,
    settlementTime,
    Validity,              \* validForSeconds callers choose
    DebtAmount,            \* amounts callers choose
    CapacityAdded,         \* the capacity a unit deposited may bring
    InitialUnits, MinimumUnits, \* backing of each vault, and the least it may keep
    MaxOps, MaxTime, MaxUnits   \* bounds: operations, clock, deposits

ASSUME CoordinatorAssumption ==
    /\ {MAX_PENDING_SETTLEMENT_OPERATIONS, PRICE_VALID_FOR_SECONDS, settlementTime,
        InitialUnits, MinimumUnits, MaxOps, MaxTime, MaxUnits} \subseteq Nat \ {0}
    /\ Validity \cup DebtAmount \subseteq Nat \ {0} /\ CapacityAdded \subseteq Nat
    /\ IsFiniteSet(DebtAmount) /\ DebtAmount # {}
    /\ Operator \cup Depositor \subseteq Vault
    /\ NoApproval \notin Approval /\ AnyVault \notin Vault
    /\ \A a \in Approval :
         /\ {ApprovalTerms[a].receiver, ApprovalTerms[a].operator} \subseteq Vault
         /\ ApprovalTerms[a].target \in Vault \cup {AnyVault}
         /\ {ApprovalTerms[a].maxCumulative, ApprovalTerms[a].validAfter,
             ApprovalTerms[a].validUntil, ApprovalTerms[a].nonce} \subseteq Nat
         /\ ApprovalTerms[a].maxPerLiquidation \in 1..ApprovalTerms[a].maxCumulative
         /\ ApprovalTerms[a].validAfter < ApprovalTerms[a].validUntil

VARIABLES
    now,
    resolved,              \* isEscalationResolved of the pool
    report,                \* the pending report, or NoReport
    lastSettlement,        \* lastSettlementTimestamp, 0 before the first price
    minimumNonce,          \* [vault]
    book                   \* operations, indexes, quotas and vaults

vars == <<now, resolved, report, lastSettlement, minimumNonce, book>>
oracle == <<report, lastSettlement>>

OpId == 1..MaxOps
NoReport == [sponsor |-> AnyVault, at |-> 0, settled |-> FALSE]
Reverts == -1
Rejected == 0          \* not a fate: the report came to nothing
Fate == {Reverts} \cup (1..Max(DebtAmount))

NoOperation == [kind |-> "none"]
NoReservation == [approval |-> NoApproval, amount |-> 0, settled |-> FALSE]
NoQuota == [installed |-> FALSE, available |-> 0, reserved |-> 0, consumed |-> 0,
            revoked |-> FALSE]

Init ==
    /\ now = 1 /\ resolved = FALSE /\ report = NoReport /\ lastSettlement = 0
    /\ minimumNonce = [v \in Vault |-> 0]
    /\ book = [counter |-> 0,
               ops |-> [id \in OpId |-> NoOperation],
               live |-> {},
               pending |-> <<>>, slot |-> 0,
               latest |-> 0, count |-> 0,
               older |-> [id \in OpId |-> 0], newer |-> [id \in OpId |-> 0],
               quota |-> [a \in Approval |-> NoQuota],
               reservation |-> [id \in OpId |-> NoReservation],
               vault |-> [v \in Vault |-> [units |-> InitialUnits, capacity |-> InitialUnits]],
               result |-> [id \in OpId |-> [status |-> "none", moved |-> 0]]]

isPriceValid(settledAt) == settledAt # 0 /\ settledAt + PRICE_VALID_FOR_SECONDS > now
Expiry(op) == op.queuedAt + settlementTime + op.validFor

-----------------------------------------------------------------------------
(* Indexes of the staged operations                                        *)

_trackActiveStagedOperation(b, id) ==
    [b EXCEPT !.live = @ \cup {id}, !.count = @ + 1, !.latest = id,
              !.older = IF b.latest = 0 THEN @ ELSE [@ EXCEPT ![id] = b.latest],
              !.newer = IF b.latest = 0 THEN @ ELSE [@ EXCEPT ![b.latest] = id]]

\* Mutant: the older neighbour keeps its link to what is gone.
MutConsumeOneLink(b, id) ==
    LET older == b.older[id]  newer == b.newer[id]
    IN [b EXCEPT !.live = @ \ {id}, !.count = @ - 1,
                 !.latest = IF newer = 0 THEN older ELSE @,
                 !.older = [i \in OpId |-> IF i = id THEN 0
                                           ELSE IF i = newer THEN older ELSE @[i]],
                 !.newer = [i \in OpId |-> IF i = id THEN 0 ELSE @[i]]]

\* The doubly linked list closes over the operation that leaves.
_consumeActiveStagedOperation(b, id) ==
    LET older == b.older[id]  newer == b.newer[id]
    IN [b EXCEPT !.live = @ \ {id}, !.count = @ - 1,
                 !.latest = IF newer = 0 THEN older ELSE @,
                 !.older = [i \in OpId |-> IF i = id THEN 0
                                           ELSE IF i = newer THEN older ELSE @[i]],
                 !.newer = [i \in OpId |-> IF i = id THEN 0
                                           ELSE IF i = older THEN newer ELSE @[i]]]

_trackPendingSettlementOperation(b, id) ==
    IF Len(b.pending) >= MAX_PENDING_SETTLEMENT_OPERATIONS THEN b
    ELSE [b EXCEPT !.pending = Append(@, id), !.slot = IF @ = 0 THEN id ELSE @]

_consumePendingSettlementOperation(b, id) ==
    IF id \notin ToSet(b.pending) THEN b
    ELSE LET first == CHOOSE i \in DOMAIN b.pending :
                          /\ b.pending[i] = id
                          /\ \A j \in DOMAIN b.pending : b.pending[j] = id => i <= j
             rest == RemoveAt(b.pending, first)
         IN [b EXCEPT !.pending = rest, !.slot = IF rest = <<>> THEN 0 ELSE rest[1]]

_deleteStagedOperation(b, id) ==
    _consumeActiveStagedOperation(_consumePendingSettlementOperation(b, id), id)

-----------------------------------------------------------------------------
(* The approval registry                                                   *)

\* The debt reserved of an approval: the request, capped four ways.
ReservableDebt(b, a, t, requested) ==
    Min({requested, b.vault[t].capacity, ApprovalTerms[a].maxPerLiquidation,
         b.quota[a].available})

\* Mutant: an approval need only be valid when the operation is staged.
MutMayReserveForNow(b, a, r, t, operator, validFor) ==
    /\ a \in Approval
    /\ b.quota[a].installed /\ ~b.quota[a].revoked
    /\ ApprovalTerms[a].receiver = r /\ ApprovalTerms[a].operator = operator
    /\ ApprovalTerms[a].target \in {t, AnyVault}
    /\ ApprovalTerms[a].nonce >= minimumNonce[r]
    /\ now >= ApprovalTerms[a].validAfter
    /\ now <= ApprovalTerms[a].validUntil

\* reserve's checks: the window must cover the latest moment of execution.
MayReserve(b, a, r, t, operator, validFor) ==
    /\ a \in Approval
    /\ b.quota[a].installed /\ ~b.quota[a].revoked
    /\ ApprovalTerms[a].receiver = r /\ ApprovalTerms[a].operator = operator
    /\ ApprovalTerms[a].target \in {t, AnyVault}
    /\ ApprovalTerms[a].nonce >= minimumNonce[r]
    /\ now >= ApprovalTerms[a].validAfter
    /\ now + settlementTime + validFor <= ApprovalTerms[a].validUntil

Hold(q, amount) == [q EXCEPT !.available = q.available - amount,
                             !.reserved = q.reserved + amount]

reserve(b, id, a, amount) ==
    [b EXCEPT !.quota[a] = Hold(@, amount),
              !.reservation[id] = [approval |-> a, amount |-> amount, settled |-> FALSE]]

\* What is reserved for id is settled: moved of it is spent, the rest returns.
Spend(q, amount, moved) == [q EXCEPT !.reserved = q.reserved - amount,
                                     !.consumed = q.consumed + moved,
                                     !.available = q.available + (amount - moved)]

SettleReservation(b, id, moved) ==
    LET r == b.reservation[id]
    IN IF r.approval = NoApproval \/ r.settled THEN b
       ELSE [b EXCEPT !.reservation[id].settled = TRUE,
                      !.quota[r.approval] = Spend(@, r.amount, moved)]

\* Mutant: a failed operation leaves what was reserved for it.
MutReleaseNothing(b, id) == b
release(b, id) == SettleReservation(b, id, 0)
consume(b, id, moved) == SettleReservation(b, id, moved)

-----------------------------------------------------------------------------
(* Execution of a staged operation                                         *)

_consumeStagedOperation(b, id) == _deleteStagedOperation(release(b, id), id)

Failed(b, id) ==
    [_consumeStagedOperation(b, id) EXCEPT !.result[id] = [status |-> "failed", moved |-> 0]]

\* The quota caps what a routed liquidation may ask of the pool.
MaximumDebt(b, id) ==
    IF b.ops[id].approval # NoApproval THEN b.reservation[id].amount ELSE b.ops[id].amount

\* performLiquidation: debt and the units that pay for it change vaults.
performLiquidation(b, id, moved) ==
    LET t == b.ops[id].target  r == b.ops[id].receiver
        paid == [b EXCEPT !.vault[t] = [units |-> @.units - moved, capacity |-> @.capacity - moved]]
    IN [paid EXCEPT !.vault[r] = [units |-> @.units + moved, capacity |-> @.capacity + moved]]

_executeLiquidationStagedOperation(b, id, fate) ==
    LET t == b.vault[b.ops[id].target]
        moved == Min({fate, MaximumDebt(b, id), t.units, t.capacity})
    IN IF fate = Reverts THEN Failed(b, id)
       ELSE [_deleteStagedOperation(consume(performLiquidation(b, id, moved), id, moved), id)
             EXCEPT !.result[id] = [status |-> "ok", moved |-> moved]]

\* withdrawRepFromVault: what would leave too little takes everything.
WithdrawRep(b, v, amount) ==
    LET held == b.vault[v].units
        left == IF amount + MinimumUnits > held THEN 0 ELSE held - amount
    IN [b EXCEPT !.vault[v] = [units |-> left, capacity |-> (@.capacity * left) \div held]]

_executeWithdrawRepStagedOperation(b, id, fate) ==
    LET b1 == _consumeStagedOperation(b, id)
    IN IF fate = Reverts THEN Failed(b, id)
       ELSE [WithdrawRep(b1, b.ops[id].operator, b.ops[id].amount)
             EXCEPT !.result[id] = [status |-> "ok", moved |-> 0]]

\* The snapshot of what backs the target no longer holds.  The coordinator checks
\* it, and the pool once more with the liquidation.
StaleLiquidation(b, id) == b.vault[b.ops[id].target] # b.ops[id].snapshot

\* executeStagedOperation under a valid price, or of an expired operation.
Refused(b, id) ==
    LET op == b.ops[id]
    IN \/ now > Expiry(op)
       \/ op.kind = "Liquidation" /\ StaleLiquidation(b, id)
       \/ op.kind = "WithdrawRep" /\ b.vault[op.operator].units = 0
       \/ resolved

Executed(b, id, fate) ==
    IF Refused(b, id) THEN Failed(b, id)
    ELSE IF b.ops[id].kind = "Liquidation"
         THEN _executeLiquidationStagedOperation(b, id, fate)
         ELSE _executeWithdrawRepStagedOperation(b, id, fate)

executeStagedOperation(id, fate) ==
    /\ id \in book.live
    /\ now > Expiry(book.ops[id]) \/ isPriceValid(lastSettlement)
    /\ book' = Executed(book, id, fate)
    /\ UNCHANGED <<now, resolved, oracle, minimumNonce>>

expireStagedOperation(id) ==
    /\ id \in book.live
    /\ now > Expiry(book.ops[id])
    /\ book' = Failed(book, id)
    /\ UNCHANGED <<now, resolved, oracle, minimumNonce>>

-----------------------------------------------------------------------------
(* Staging                                                                 *)

StagedBook(operator, kind, t, r, a, amount, validFor) ==
    LET id == book.counter + 1
        operation == [kind |-> kind, operator |-> operator, receiver |-> r, target |-> t,
                      amount |-> amount, queuedAt |-> now, validFor |-> validFor,
                      snapshot |-> book.vault[t], approval |-> a]
        b == [book EXCEPT !.counter = id, !.ops[id] = operation]
    IN _trackActiveStagedOperation(
           IF a = NoApproval THEN b ELSE reserve(b, id, a, ReservableDebt(b, a, t, amount)), id)

MayStage(operator) == ~resolved /\ (report # NoReport => operator = report.sponsor)

\* Who may receive: oneself without an approval, another vault with its approval.
RouteAllowed(operator, t, r, a, amount, validFor) ==
    /\ r # t
    /\ IF r = operator THEN a = NoApproval
       ELSE /\ MayReserve(book, a, r, t, operator, validFor)
            /\ ReservableDebt(book, a, t, amount) > 0

\* A fresh price executes the operation at once; otherwise it waits, and the
\* first to wait pays for the report it waits for.
ExecuteOrWait(operator, b, id, fate) ==
    IF isPriceValid(lastSettlement)
    THEN book' = Executed(b, id, fate) /\ UNCHANGED oracle
    ELSE /\ book' = _trackPendingSettlementOperation(b, id)
         /\ report' = IF report = NoReport /\ b.pending = <<>>
                      THEN [sponsor |-> operator, at |-> now, settled |-> FALSE]
                      ELSE report
         /\ UNCHANGED lastSettlement

requestPriceIfNeededAndStageLiquidation(operator, t, r, a, amount, validFor, fate) ==
    /\ book.counter < MaxOps
    /\ MayStage(operator) /\ RouteAllowed(operator, t, r, a, amount, validFor)
    /\ ExecuteOrWait(operator,
           StagedBook(operator, "Liquidation", t, r, a, amount, validFor),
           book.counter + 1, fate)
    /\ UNCHANGED <<now, resolved, minimumNonce>>

requestPriceIfNeededAndStageWithdrawal(operator, amount, validFor, fate) ==
    /\ book.counter < MaxOps
    /\ MayStage(operator) /\ book.vault[operator].units > 0
    /\ ExecuteOrWait(operator,
           StagedBook(operator, "WithdrawRep", operator, operator, NoApproval, amount,
                      validFor),
           book.counter + 1, fate)
    /\ UNCHANGED <<now, resolved, minimumNonce>>

-----------------------------------------------------------------------------
(* Reports.  Disputes may delay a report's settlement for as long as they  *)
(* like; OpenOracle settles it once and ignores a callback that reverts.   *)

requestPrice(sponsor) ==
    /\ report = NoReport /\ ~isPriceValid(lastSettlement)
    /\ report' = [sponsor |-> sponsor, at |-> now, settled |-> FALSE]
    /\ UNCHANGED <<now, resolved, lastSettlement, minimumNonce, book>>

MaySettle == report # NoReport /\ ~report.settled /\ now >= report.at + settlementTime

\* The batch leaves the pending list before any of it runs.
DetachedBook == [book EXCEPT !.pending = <<>>, !.slot = 0]

\* One after the other; what is no longer staged is passed over.
Settled(b, id, fate) ==
    IF id \notin b.live THEN b
    ELSE IF fate = Rejected THEN Failed(b, id)
    ELSE Executed(b, id, fate)

SettledBatch(fates) ==
    LET after[n \in 0..Len(book.pending)] ==
            IF n = 0 THEN DetachedBook ELSE Settled(after[n - 1], book.pending[n], fates[n])
    IN after[Len(book.pending)]

_failPendingSettlementOperations == SettledBatch([i \in DOMAIN book.pending |-> Rejected])

openOracleCallback(fates) ==
    /\ MaySettle
    /\ report' = NoReport
    /\ lastSettlement' = now
    /\ book' = SettledBatch(fates)
    /\ UNCHANGED <<now, resolved, minimumNonce>>

\* Base fee too high, report uneconomic or saturated, or no usable price.
_rejectReportAndPendingOperations ==
    /\ MaySettle
    /\ report' = NoReport
    /\ book' = _failPendingSettlementOperations
    /\ UNCHANGED <<now, resolved, lastSettlement, minimumNonce>>

CallbackReverts ==
    /\ MaySettle
    /\ report' = [report EXCEPT !.settled = TRUE]
    /\ UNCHANGED <<now, resolved, lastSettlement, minimumNonce, book>>

recoverSettledPendingReport ==
    /\ report # NoReport /\ report.settled
    /\ report' = NoReport
    /\ book' = _failPendingSettlementOperations
    /\ UNCHANGED <<now, resolved, lastSettlement, minimumNonce>>

-----------------------------------------------------------------------------
(* Receivers, vault owners and the clock                                   *)

_install(a) ==
    /\ \A b \in Approval : book.quota[b].installed =>
         <<ApprovalTerms[b].receiver, ApprovalTerms[b].nonce>>
           # <<ApprovalTerms[a].receiver, ApprovalTerms[a].nonce>>
    /\ ApprovalTerms[a].validUntil > now
    /\ ApprovalTerms[a].nonce >= minimumNonce[ApprovalTerms[a].receiver]
    /\ book' = [book EXCEPT !.quota[a].installed = TRUE,
                            !.quota[a].available = ApprovalTerms[a].maxCumulative]
    /\ UNCHANGED <<now, resolved, oracle, minimumNonce>>

revokeLiquidationApproval(a) ==
    /\ book.quota[a].installed /\ ~book.quota[a].revoked
    /\ book' = [book EXCEPT !.quota[a].revoked = TRUE]
    /\ UNCHANGED <<now, resolved, oracle, minimumNonce>>

invalidateLiquidationApprovalNonce(v, nonce) ==
    /\ nonce > minimumNonce[v]
    /\ minimumNonce' = [minimumNonce EXCEPT ![v] = nonce]
    /\ UNCHANGED <<now, resolved, oracle, book>>

\* What the owner of a vault may do without a price.  The capacity a deposit adds
\* follows its target health factor, and may round to nothing.
depositRepToVault(v, capacity) ==
    /\ ~resolved /\ book.vault[v].units < MaxUnits
    /\ book' = [book EXCEPT !.vault[v] = [units |-> @.units + 1, capacity |-> @.capacity + capacity]]
    /\ UNCHANGED <<now, resolved, oracle, minimumNonce>>

QuestionResolves ==
    /\ ~resolved /\ resolved' = TRUE
    /\ UNCHANGED <<now, oracle, minimumNonce, book>>

Tick ==
    /\ now < MaxTime /\ now' = now + 1
    /\ UNCHANGED <<resolved, oracle, minimumNonce, book>>

Next ==
    \/ \E v \in Operator, n \in DebtAmount, s \in Validity, f \in Fate :
         \/ requestPriceIfNeededAndStageWithdrawal(v, n, s, f)
         \/ \E t, r \in Vault, a \in Approval \cup {NoApproval} :
              requestPriceIfNeededAndStageLiquidation(v, t, r, a, n, s, f)
    \/ \E v \in Vault : requestPrice(v)
    \/ \E v \in Depositor, c \in CapacityAdded : depositRepToVault(v, c)
    \/ \E id \in OpId :
         expireStagedOperation(id) \/ \E f \in Fate : executeStagedOperation(id, f)
    \/ \E fates \in [DOMAIN book.pending -> Fate] : openOracleCallback(fates)
    \/ _rejectReportAndPendingOperations
    \/ CallbackReverts
    \/ recoverSettledPendingReport
    \/ \E a \in Approval :
         \/ _install(a)
         \/ revokeLiquidationApproval(a)
         \/ invalidateLiquidationApprovalNonce(ApprovalTerms[a].receiver,
                                               ApprovalTerms[a].nonce + 1)
    \/ QuestionResolves
    \/ Tick

Spec == Init /\ [][Next]_vars

-----------------------------------------------------------------------------
(* Properties                                                              *)

QuotaType == [installed: BOOLEAN, available: Nat, reserved: Nat, consumed: Nat,
              revoked: BOOLEAN]

\* Type correctness.  Solidity's checked subtraction makes a handler that would
\* take a quota or a vault below zero revert; that none of them can is a claim
\* about reserve's caps and the pool's.  The batch never exceeds its limit.
TypeOK ==
    /\ now \in 1..MaxTime /\ resolved \in BOOLEAN /\ lastSettlement \in 0..now
    /\ report \in [sponsor: Vault \cup {AnyVault}, at: 0..now, settled: BOOLEAN]
    /\ minimumNonce \in [Vault -> Nat]
    /\ book.counter \in 0..MaxOps /\ book.live \subseteq 1..book.counter
    /\ book.pending \in Seq(OpId) /\ Len(book.pending) <= MAX_PENDING_SETTLEMENT_OPERATIONS
    /\ book.quota \in [Approval -> QuotaType]
    /\ book.vault \in [Vault -> [units: Nat, capacity: Nat]]

Before(id) == {i \in book.live : i < id}
After(id) == {i \in book.live : i > id}

\* ORA-07, and what makes the batch safe to run: the linked list is exactly the
\* live operations, newest first, whichever left it and in whatever order; the
\* batch holds distinct live operations, all of the sponsor who paid for the
\* report, and never outlives that report.
IndexesAreExact ==
    /\ book.count = Cardinality(book.live)
    /\ book.latest = Max(book.live \cup {0})
    /\ \A id \in OpId :
         /\ book.older[id] = IF id \in book.live THEN Max(Before(id) \cup {0}) ELSE 0
         /\ book.newer[id] = IF id \in book.live /\ After(id) # {} THEN Min(After(id)) ELSE 0
    /\ Cardinality(ToSet(book.pending)) = Len(book.pending)
    /\ ToSet(book.pending) \subseteq book.live
    /\ book.slot = IF book.pending = <<>> THEN 0 ELSE book.pending[1]
    /\ book.pending # <<>> =>
         report # NoReport /\ \A id \in ToSet(book.pending) :
                                book.ops[id].operator = report.sponsor

Reserved(a) ==
    {id \in OpId : book.reservation[id].approval = a /\ ~book.reservation[id].settled}
Spent(a) == {id \in OpId : book.reservation[id].approval = a}

\* A quota is reserved exactly while the operation it was reserved for is
\* staged, and what is neither reserved nor spent is available: no rejection,
\* expiry, failure or recovery strands any of it, and none is spent twice.
ReservationsReconcile ==
    TypeOK /\ \A a \in Approval :
      LET q == book.quota[a]
      IN /\ Reserved(a) = {id \in book.live : book.ops[id].approval = a}
         /\ q.reserved =
              SumFunctionOnSet([id \in OpId |-> book.reservation[id].amount], Reserved(a))
         /\ q.consumed = SumFunctionOnSet([id \in OpId |-> book.result[id].moved], Spent(a))
         /\ q.installed => q.available + q.reserved + q.consumed
                             = ApprovalTerms[a].maxCumulative

SettledNow(id) == book'.result[id] # book.result[id]

\* The target as the operation was staged on it, but for what others of the same
\* batch, settled before it, bought of that vault, gave it or withdrew.
AsStaged(id) ==
    \/ book.vault[book'.ops[id].target] = book'.ops[id].snapshot
    \/ \E other \in OpId \ {id} :
          /\ SettledNow(other) /\ book'.result[other].status = "ok"
          /\ book'.ops[id].target \in {book'.ops[other].target, book'.ops[other].receiver}

\* What the receiver of a liquidation agreed to, and its target was shown.
OnTerms(id) ==
    LET op == book'.ops[id]
        a == op.approval
    IN /\ now <= Expiry(op)
       /\ op.kind = "Liquidation" => AsStaged(id)
       /\ a # NoApproval => /\ now <= ApprovalTerms[a].validUntil
                            /\ book'.result[id].moved <= ApprovalTerms[a].maxPerLiquidation

\* ORA-04 and ORA-05: an operation has one result, for ever; and a success found
\* the target as it was when the operation was staged, so that nobody outside the
\* batch can add a rescue deposit to what a liquidator buys, within the window of
\* the receiver's approval, however late the report came.
SettledOnceOnTerms ==
    [][ \A id \in OpId : SettledNow(id) =>
          /\ book.result[id].status = "none"
          /\ id \notin book'.live
          /\ book'.result[id].status = "ok" => OnTerms(id) ]_vars
=============================================================================
