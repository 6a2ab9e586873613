----------------------------- MODULE Liquidator -----------------------------
(***************************************************************************)
(* The journal of the liquidator bot: one cycle of cli/run.ts at a time    *)
(* recovers what earlier cycles or an earlier process left, and only then  *)
(* signs, persists and submits one transaction (submitCall of              *)
(* liquidation-executor.ts, recoverPendingTransactions and                 *)
(* reconcilePendingStagedOperations of recovery.ts).  The process may stop *)
(* between any two steps, and the chain, the relays and the operator at    *)
(* the dashboard move between any two.                                     *)
(*                                                                         *)
(* A transaction is its place in the order of signing, and a staged        *)
(* liquidation is the transaction that queued it.  What the quorum of RPC  *)
(* endpoints agrees on is the chain itself; a read that finds no agreement *)
(* fails.                                                                  *)
(***************************************************************************)
EXTENDS Integers, Sequences, FiniteSets

CONSTANTS
    Calls,                 \* what the bot may decide to send
    Settings,              \* the operator's settings
    VALIDITY,              \* blocks a private relay keeps a transaction for
    PRIVATE_INTENT_FINALITY_BLOCKS,
    MaxDepth,              \* blocks a reorganisation replaces
    Drift,                 \* blocks mined while one recovery reads the chain
    logLookbackBlocks,     \* blocks one search of the logs may cover
    MaxHead, MaxTx, MaxFaults

ASSUME LiquidatorAssumption ==
    /\ {VALIDITY, PRIVATE_INTENT_FINALITY_BLOCKS, logLookbackBlocks} \subseteq Nat \ {0}
    /\ {MaxDepth, Drift, MaxHead, MaxTx, MaxFaults} \subseteq Nat
    /\ Calls \subseteq [requiresMarketEvidence : BOOLEAN,
                      expects : {"transaction", "staged-success", "pending-liquidation"}]
    /\ Settings \subseteq [mode : {"private", "public"}, historicalLogRecovery : BOOLEAN]
    /\ MaxDepth + Drift <= PRIVATE_INTENT_FINALITY_BLOCKS

VARIABLES
    \* the chain, the relays and the mempool
    head, peak,            \* the head, and the highest there has been
    branch,                \* how often the block of a number has been replaced
    tx,                    \* the transactions signed, in order
    foreign,               \* the operator's own: [nonce, at], at = 0 when not mined
    \* the process
    mode,                  \* settings.submission.mode
    historicalLogRecovery, \* settings.runtime
    step,                  \* where the cycle is
    after,                 \* where it goes on when the state is saved
    current,               \* the transaction it is about
    seen,                  \* the block it signs for, found no receipt at or searches to
    left,                  \* staged operations this cycle has yet to look at
    pendingTransactions, pendingStagedOperations, paused,
    search,                \* how far the outcome of a staged operation is searched for
    \* the state file
    disk,
    faults,
    \* history, for the properties
    stale                  \* searches that a reorganisation may have gone unnoticed by

vars == <<head, peak, branch, tx, foreign, mode, historicalLogRecovery, step, after, current,
          seen, left, pendingTransactions, pendingStagedOperations, paused, search, disk,
          faults, stale>>
chain == <<head, peak, branch, tx, foreign, stale>>
settings == <<mode, historicalLogRecovery>>
journal == <<pendingTransactions, pendingStagedOperations, search>>

Ids == DOMAIN tx
Deep(at) == at # 0 /\ head >= at + PRIVATE_INTENT_FINALITY_BLOCKS
Final(i) == Deep(tx[i].at)
Fits(i) == tx[i].outcome # "unexpected"
Queued(i) == tx[i].outcome = "success" /\ tx[i].call.expects = "pending-liquidation"
BlockHash(b) == <<b, branch[b]>>
Consumed == {tx[i].nonce : i \in {j \in Ids : tx[j].at # 0}}
            \cup {f.nonce : f \in {g \in foreign : g.at # 0}}
NextNonce == {n \in 0..MaxTx + 1 : n \notin Consumed /\ 0..n - 1 \subseteq Consumed}

-----------------------------------------------------------------------------
(* The chain, as the bot relies on it                                      *)

\* Where a recovery reads the chain at several moments.
Recovering == {"nonce", "heads", "search", "history", "anchor", "ancestry"}

Growing == /\ head < MaxHead
           /\ step \in Recovering => head < seen + Drift
           /\ head' = head + 1
           /\ peak' = IF head = peak THEN head + 1 ELSE peak

\* A block takes in a transaction that somebody holds and whose nonce is next;
\* a relay gives a private one up after its last block.
Include(i) ==
    /\ tx[i].handed > 0 /\ tx[i].at = 0 /\ tx[i].nonce \in NextNonce
    /\ tx[i].mode = "private" => head + 1 <= tx[i].maxBlockNumber
    /\ Growing
    /\ \E o \in {"reverted", "success", "unexpected"} :
         /\ o = "unexpected" => tx[i].call.expects # "transaction"
         /\ tx' = [tx EXCEPT ![i].at = head + 1, ![i].outcome = o]
    /\ UNCHANGED foreign

IncludeForeign(f) ==
    /\ f.at = 0 /\ f.nonce \in NextNonce
    /\ Growing
    /\ foreign' = (foreign \ {f}) \cup {[f EXCEPT !.at = head + 1]}
    /\ UNCHANGED tx

Settle(i) ==
    /\ tx[i].at # 0 /\ Queued(i) /\ tx[i].settledAt = 0
    /\ Growing
    /\ \E good \in BOOLEAN : tx' = [tx EXCEPT ![i].settledAt = head + 1, ![i].settledWell = good]
    /\ UNCHANGED foreign

Mine ==
    /\ \/ Growing /\ UNCHANGED <<tx, foreign>>
       \/ \E i \in Ids : Include(i) \/ Settle(i)
       \/ \E f \in foreign : IncludeForeign(f)
    /\ UNCHANGED <<branch, settings, step, after, current, seen, left, journal, paused, disk,
                  faults, stale>>

Before(at, h) == IF at > h THEN 0 ELSE at

\* Searches between the head they read and the hash they keep, or without one.
Unguarded ==
    {i \in pendingStagedOperations :
       \/ i = current /\ \/ step \in {"search", "anchor", "history"}
                         \/ step = "save" /\ after \in {"search", "history"}
       \/ search[i].anchorBlock # 0 /\ search[i].anchorHash = <<>>}

Reorganise ==
    /\ faults < MaxFaults /\ faults' = faults + 1
    /\ \E d \in 1..MaxDepth :
         /\ head - d >= peak - MaxDepth
         /\ d <= head
         /\ head' = head - d
         /\ tx' = [i \in Ids |-> [tx[i] EXCEPT !.at = Before(@, head - d),
                    !.settledAt = Before(@, head - d),
                    !.outcome = IF tx[i].at > head - d THEN "none" ELSE @]]
         /\ foreign' = {[f EXCEPT !.at = Before(@, head - d)] : f \in foreign}
         /\ branch' = [b \in DOMAIN branch |-> IF b > head - d THEN branch[b] + 1 ELSE branch[b]]
    /\ stale' = stale \cup Unguarded
    /\ UNCHANGED <<peak, settings, step, after, current, seen, left, journal, paused, disk>>

-----------------------------------------------------------------------------
(* The state file and the end of a cycle                                   *)

Saving(next) == step' = "save" /\ after' = next

saveDurableState ==
    /\ step = "save"
    /\ disk' = [transactions |-> pendingTransactions, staged |-> pendingStagedOperations,
                search |-> search]
    /\ step' = after /\ after' = "idle"
    /\ IF after = "idle" THEN current' = 0 /\ seen' = 0 /\ left' = {}
       ELSE UNCHANGED <<current, seen, left>>
    /\ UNCHANGED <<chain, settings, journal, paused, faults>>

\* A safety failure pauses the bot until the operator resumes it.
SafetyFault == paused' = TRUE /\ Saving("idle")

\* An endpoint or the quorum fails: connectivity is degraded and the cycle is
\* tried again.
rpcFails ==
    /\ step \notin {"idle", "save"}
    /\ faults < MaxFaults /\ faults' = faults + 1
    /\ Saving("idle")
    /\ UNCHANGED <<chain, settings, current, seen, left, journal, paused, disk>>

-----------------------------------------------------------------------------
(* Recovery                                                                *)

startCycle ==
    /\ step = "idle" /\ ~paused
    /\ step' = "recover"
    /\ UNCHANGED <<chain, settings, after, current, seen, left, journal, paused, disk, faults>>

\* As if the staged liquidation were not taken over from the receipt.
MutResolveForgets(i, next) ==
    /\ pendingTransactions' = pendingTransactions \ {i}
    /\ UNCHANGED <<pendingStagedOperations, search>>
    /\ Saving(next)

\* What a final receipt does to the journal, and how the cycle goes on.
resolveRecoveredIntentJournal(i, next) ==
    /\ pendingTransactions' = pendingTransactions \ {i}
    /\ pendingStagedOperations' = IF Queued(i) THEN pendingStagedOperations \cup {i}
                                  ELSE pendingStagedOperations
    /\ UNCHANGED search
    /\ Saving(next)

\* validateReceiptExpectation throws before the intent leaves the journal.
recoverReceipt(i) ==
    /\ step = "recover" /\ i \in pendingTransactions
    /\ \/ /\ Final(i) /\ Fits(i)
          /\ resolveRecoveredIntentJournal(i, IF tx[i].outcome = "reverted" THEN "idle"
                                              ELSE "recover")
          /\ paused' = (paused \/ tx[i].outcome = "reverted")
          /\ UNCHANGED <<current, seen>>
       \/ /\ Final(i) /\ ~Fits(i)
          /\ SafetyFault
          /\ UNCHANGED <<journal, current, seen>>
       \/ /\ ~Final(i) /\ tx[i].at # 0
          /\ Saving("idle")
          /\ UNCHANGED <<journal, paused, current, seen>>
       \/ /\ tx[i].at = 0
          /\ step' = "nonce" /\ current' = i /\ seen' = head
          /\ UNCHANGED <<journal, paused, after>>
    /\ UNCHANGED <<chain, settings, left, disk, faults>>

\* The pending nonce counts what the asked nodes hold of the public mempool.
PendingNonces ==
    NextNonce \cup
    {n + 1 : n \in NextNonce \cap
       ({tx[i].nonce : i \in {j \in Ids : tx[j].mode = "public" /\ tx[j].handed > 0}}
         \cup {f.nonce : f \in foreign})}

\* A nonce consumed without a receipt is for the operator.
recoverNonce ==
    /\ step = "nonce"
    /\ \E nonce \in PendingNonces :
         IF nonce > tx[current].nonce THEN SafetyFault
         ELSE step' = "heads" /\ UNCHANGED <<paused, after>>
    /\ UNCHANGED <<chain, settings, current, seen, left, journal, disk, faults>>

\* As if every intent without a receipt could be sent again.
MutResubmits(i) == "resubmit"

ambiguousRecoveryAction(i) ==
    IF ~tx[i].call.requiresMarketEvidence THEN "resubmit"
    ELSE IF /\ tx[i].mode = "private"
            /\ head >= tx[i].maxBlockNumber + PRIVATE_INTENT_FINALITY_BLOCKS
         THEN "expire-private" ELSE "retain"

\* A target takes the transaction, or refuses it, or takes it and its answer is
\* lost.
Submitted(i, accepted) ==
    tx' = [tx EXCEPT ![i].handed = IF accepted /\ @ < 2 THEN @ + 1 ELSE @]

recoverHeads ==
    /\ step = "heads"
    /\ \/ /\ ambiguousRecoveryAction(current) = "expire-private"
          /\ pendingTransactions' = pendingTransactions \ {current}
          /\ Saving("recover")
          /\ UNCHANGED <<tx, paused>>
       \/ /\ ambiguousRecoveryAction(current) = "retain"
          /\ SafetyFault
          /\ UNCHANGED <<tx, pendingTransactions>>
       \/ /\ ambiguousRecoveryAction(current) = "resubmit"
          /\ \E accepted \in BOOLEAN : Submitted(current, accepted)
          /\ \/ Saving("idle") /\ UNCHANGED paused
             \/ SafetyFault
          /\ UNCHANGED pendingTransactions
    /\ UNCHANGED <<head, peak, branch, foreign, stale, settings, current, seen, left,
                  pendingStagedOperations, search, disk, faults>>

-----------------------------------------------------------------------------
(* The search for the outcome of a staged operation                        *)

NoOutcome == [at |-> 0, hash |-> <<>>, well |-> FALSE]
NotSearched == [latestRecoveryBlock |-> 0, nextHistoricalBlock |-> 0,
                historicalRecoveryComplete |-> FALSE,
                anchorBlock |-> 0, anchorHash |-> <<>>, candidateOutcome |-> NoOutcome]

Later(a, b) == IF a > b THEN a ELSE b
queuedBlock(i) == tx[i].at

\* What the logs of some blocks say of the operation.
scanRange(i, from, to) ==
    IF tx[i].settledAt # 0 /\ tx[i].settledAt \in from..to
    THEN [at |-> tx[i].settledAt, hash |-> BlockHash(tx[i].settledAt), well |-> tx[i].settledWell]
    ELSE NoOutcome

\* As if a replaced block were noticed by its number alone.
MutAnchorByNumber(s) == s.anchorBlock <= head

stagedRecoveryAnchorMatches(s) ==
    \/ s.anchorBlock = 0 \/ s.anchorHash = <<>>
    \/ s.anchorBlock <= head /\ s.anchorHash = BlockHash(s.anchorBlock)

recordStagedRecoveryGap(s, cursor, from) ==
    IF from <= cursor THEN s
    ELSE [s EXCEPT !.nextHistoricalBlock = Later(@, from - 1), !.historicalRecoveryComplete = FALSE]

\* What one search of from..to leaves; the block of the anchor is set before
\* its hash is asked for.
recordStagedRecoveryChunk(i, s, from, to, historical) ==
    LET outcome == scanRange(i, from, to)
        found == [s EXCEPT !.candidateOutcome = outcome]
        back == [s EXCEPT !.nextHistoricalBlock = IF from = queuedBlock(i) THEN 0 ELSE from - 1,
                          !.historicalRecoveryComplete = @ \/ from = queuedBlock(i)]
        forth == [s EXCEPT !.latestRecoveryBlock = Later(@, to),
                           !.nextHistoricalBlock =
                              IF @ = 0 /\ ~s.historicalRecoveryComplete /\ from > queuedBlock(i)
                              THEN from - 1 ELSE @]
    IN  [(IF outcome # NoOutcome THEN found ELSE IF historical THEN back ELSE forth)
           EXCEPT !.anchorBlock = Later(@, to)]

\* The head is read; what was found on blocks that have been replaced is dropped.
reconcileStaged(i) ==
    /\ step = "staged" /\ i \in left
    /\ left' = left \ {i} /\ current' = i /\ seen' = head
    /\ IF stagedRecoveryAnchorMatches(search[i])
       THEN step' = "search" /\ UNCHANGED <<search, after>>
       ELSE Saving("search") /\ search' = [search EXCEPT ![i] = NotSearched]
    /\ UNCHANGED <<chain, settings, pendingTransactions, pendingStagedOperations, paused, disk,
                  faults>>

\* The blocks since the last search, but no more than the settings allow.
searchLatest ==
    LET s == search[current]
        cursor == IF s.latestRecoveryBlock = 0 THEN queuedBlock(current)
                  ELSE s.latestRecoveryBlock + 1
        from == Later(cursor, seen + 1 - logLookbackBlocks)
        kept == recordStagedRecoveryGap(s, cursor, from)
        next == recordStagedRecoveryChunk(current, kept, from, seen, FALSE)
    IN  /\ step = "search"
        /\ IF s.candidateOutcome # NoOutcome
           THEN /\ step' = "ancestry" /\ UNCHANGED after
                /\ search' = [search EXCEPT ![current] = kept]
           ELSE IF from > seen
           THEN /\ step' = "history" /\ UNCHANGED after
                /\ search' = [search EXCEPT ![current] = kept]
           ELSE /\ step' = "anchor"
                /\ after' = IF next.candidateOutcome # NoOutcome THEN "ancestry" ELSE "history"
                /\ search' = [search EXCEPT ![current] = next]
        /\ UNCHANGED <<chain, settings, current, seen, left, pendingTransactions,
                      pendingStagedOperations, paused, disk, faults>>

\* A part of the gap, when the settings ask for it.
searchHistory ==
    LET s == search[current]
        to == s.nextHistoricalBlock
        from == Later(queuedBlock(current), to + 1 - logLookbackBlocks)
        next == recordStagedRecoveryChunk(current, s, from, to, TRUE)
    IN  /\ step = "history"
        /\ IF historicalLogRecovery /\ to # 0 /\ to >= queuedBlock(current)
           THEN /\ step' = "anchor"
                /\ after' = IF next.candidateOutcome # NoOutcome THEN "ancestry" ELSE "staged"
                /\ search' = [search EXCEPT ![current] = next]
           ELSE step' = "staged" /\ UNCHANGED <<after, search>>
        /\ UNCHANGED <<chain, settings, current, seen, left, pendingTransactions,
                      pendingStagedOperations, paused, disk, faults>>

\* The hash is asked for after the search.
retainRecoveryAnchor ==
    /\ step = "anchor"
    /\ IF search[current].anchorBlock <= head
       THEN /\ step' = "save" /\ UNCHANGED after
            /\ search' = [search EXCEPT ![current].anchorHash =
                             BlockHash(search[current].anchorBlock)]
       ELSE Saving("idle") /\ UNCHANGED search
    /\ UNCHANGED <<chain, settings, current, seen, left, pendingTransactions,
                  pendingStagedOperations, paused, disk, faults>>

\* An outcome that was deep at the head first read and is still canonical ends
\* the operation.
confirmOutcome ==
    LET outcome == search[current].candidateOutcome
        deepest == outcome.at + PRIVATE_INTENT_FINALITY_BLOCKS
    IN  /\ step = "ancestry"
        /\ \/ /\ seen < deepest
              /\ step' = "staged" /\ UNCHANGED <<journal, paused, after>>
           \/ /\ seen >= deepest /\ head < deepest
              /\ Saving("idle") /\ UNCHANGED <<journal, paused>>
           \/ /\ seen >= deepest /\ head >= deepest /\ outcome.hash # BlockHash(outcome.at)
              /\ search' = [search EXCEPT ![current].candidateOutcome = NoOutcome]
              /\ Saving("staged")
              /\ UNCHANGED <<pendingTransactions, pendingStagedOperations, paused>>
           \/ /\ seen >= deepest /\ head >= deepest /\ outcome.hash = BlockHash(outcome.at)
              /\ search' = [search EXCEPT ![current] = NotSearched]
              /\ pendingStagedOperations' = pendingStagedOperations \ {current}
              /\ IF outcome.well THEN Saving("staged") /\ UNCHANGED paused ELSE SafetyFault
              /\ UNCHANGED pendingTransactions
        /\ UNCHANGED <<chain, settings, current, seen, left, disk, faults>>

\* As if only transactions blocked execution.
MutStagedDoNotBlock ==
    \/ /\ step = "recover" /\ pendingTransactions = {}
       /\ step' = "staged" /\ left' = pendingStagedOperations /\ UNCHANGED after
    \/ /\ step = "staged" /\ left = {}
       /\ step' = "decide" /\ UNCHANGED <<after, left>>

\* What is still staged when every operation has been looked at ends the cycle.
recoveryWorkBlocksExecution ==
    \/ /\ step = "recover" /\ pendingTransactions = {}
       /\ step' = "staged" /\ left' = pendingStagedOperations /\ UNCHANGED after
    \/ /\ step = "staged" /\ left = {}
       /\ IF pendingStagedOperations # {} THEN Saving("idle")
          ELSE step' = "decide" /\ UNCHANGED after
       /\ UNCHANGED left

recovered ==
    /\ recoveryWorkBlocksExecution
    /\ UNCHANGED <<chain, settings, current, seen, journal, paused, disk, faults>>

-----------------------------------------------------------------------------
(* Submission                                                              *)

\* The cycle finds nothing to do, or decides on a call and reads the block it
\* is signed for, unless the gas, the simulation or the operator forbids it.
decide ==
    /\ step = "decide"
    /\ \/ Saving("idle") /\ UNCHANGED <<seen, paused>>
       \/ /\ ~paused
          /\ Len(tx) < MaxTx
          /\ step' = "sign" /\ seen' = head
          /\ UNCHANGED <<paused, after>>
       \/ SafetyFault /\ UNCHANGED seen
    /\ UNCHANGED <<chain, settings, current, left, journal, disk, faults>>

\* The nonce is read and, unless the bot is paused or the market says no, the
\* signed intent enters the journal.
sign ==
    /\ step = "sign"
    /\ \/ /\ ~paused /\ Len(tx) < MaxTx
          /\ \E call \in Calls, nonce \in PendingNonces :
               tx' = Append(tx, [call |-> call, nonce |-> nonce, mode |-> mode,
                                 maxBlockNumber |-> IF mode = "private" THEN seen + VALIDITY
                                                    ELSE 0,
                                 handed |-> 0, at |-> 0, outcome |-> "none",
                                 settledAt |-> 0, settledWell |-> FALSE])
          /\ current' = Len(tx) + 1
          /\ pendingTransactions' = pendingTransactions \cup {current'}
          /\ Saving("check")
          /\ UNCHANGED paused
       \/ SafetyFault /\ UNCHANGED <<tx, current, pendingTransactions>>
    /\ seen' = 0
    /\ UNCHANGED <<head, peak, branch, foreign, stale, settings, left,
                  pendingStagedOperations, search, disk, faults>>

\* The last look at the market drops the intent again when it says no.
preSubmit ==
    /\ step = "check"
    /\ \/ paused /\ SafetyFault /\ UNCHANGED pendingTransactions
       \/ /\ ~paused
          /\ step' = "send" /\ UNCHANGED <<pendingTransactions, paused, after>>
       \/ /\ ~paused /\ tx[current].call.requiresMarketEvidence
          /\ pendingTransactions' = pendingTransactions \ {current}
          /\ SafetyFault
    /\ UNCHANGED <<chain, settings, current, seen, left, pendingStagedOperations, search, disk,
                  faults>>

submitSignedTransaction ==
    /\ step = "send"
    /\ \E accepted \in BOOLEAN :
         /\ Submitted(current, accepted)
         /\ \/ accepted /\ step' = "wait" /\ UNCHANGED <<paused, after>>
            \/ Saving("idle") /\ UNCHANGED paused
            \/ SafetyFault
    /\ UNCHANGED <<head, peak, branch, foreign, stale, settings, current, seen, left, journal,
                  disk, faults>>

\* The receipt appears, or the wait times out, which degrades connectivity.
waitForTransactionReceipt ==
    /\ step = "wait"
    /\ \/ /\ Final(current) /\ Fits(current) /\ tx[current].outcome # "reverted"
          /\ resolveRecoveredIntentJournal(current, "idle")
          /\ UNCHANGED paused
       \/ /\ Final(current) /\ (~Fits(current) \/ tx[current].outcome = "reverted")
          /\ SafetyFault /\ UNCHANGED journal
       \/ /\ ~Final(current)
          /\ Saving("idle")
          /\ UNCHANGED <<journal, paused>>
       \/ tx[current].at = 0 /\ SafetyFault /\ UNCHANGED journal
    /\ UNCHANGED <<chain, settings, current, seen, left, disk, faults>>

-----------------------------------------------------------------------------
(* The operator and the process                                            *)

setPaused ==
    /\ \/ ~paused /\ paused' = TRUE /\ faults < MaxFaults /\ faults' = faults + 1
       \/ paused /\ paused' = FALSE /\ UNCHANGED faults
    /\ UNCHANGED <<chain, settings, step, after, current, seen, left, journal, disk>>

\* The operator sends something else with the nonce of a pending intent.
replace ==
    /\ foreign = {} /\ paused
    /\ faults < MaxFaults /\ faults' = faults + 1
    /\ \E i \in pendingTransactions : foreign' = {[nonce |-> tx[i].nonce, at |-> 0]}
    /\ UNCHANGED <<head, peak, branch, tx, stale, settings, step, after, current, seen, left,
                  journal, paused, disk>>

reconcileTransaction(i) ==
    /\ paused /\ i \in pendingTransactions
    /\ \E f \in foreign : f.nonce = tx[i].nonce /\ Deep(f.at)
    /\ pendingTransactions' = pendingTransactions \ {i}
    /\ disk' = [transactions |-> pendingTransactions \ {i}, staged |-> pendingStagedOperations,
                search |-> search]
    /\ UNCHANGED <<chain, settings, step, after, current, seen, left, pendingStagedOperations,
                  search, paused, faults>>

\* The process stops and starts again from its files.
restart ==
    /\ faults < MaxFaults /\ faults' = faults + 1
    /\ step' = "idle" /\ after' = "idle" /\ current' = 0 /\ seen' = 0 /\ left' = {}
    /\ pendingTransactions' = disk.transactions
    /\ pendingStagedOperations' = disk.staged
    /\ search' = disk.search
    /\ UNCHANGED <<chain, settings, paused, disk>>

-----------------------------------------------------------------------------
Init ==
    /\ head = 0 /\ peak = 0 /\ tx = <<>> /\ foreign = {}
    /\ branch = [b \in 0..MaxHead |-> 0]
    /\ \E s \in Settings :
         mode = s.mode /\ historicalLogRecovery = s.historicalLogRecovery
    /\ step = "idle" /\ after = "idle" /\ current = 0 /\ seen = 0 /\ left = {}
    /\ pendingTransactions = {} /\ pendingStagedOperations = {} /\ paused = FALSE
    /\ search = [i \in 1..MaxTx |-> NotSearched]
    /\ disk = [transactions |-> {}, staged |-> {}, search |-> search]
    /\ faults = 0 /\ stale = {}

Cycle ==
    \/ saveDurableState \/ startCycle
    \/ \E i \in Ids : recoverReceipt(i) \/ reconcileStaged(i)
    \/ recoverNonce \/ recoverHeads \/ recovered
    \/ searchLatest \/ searchHistory \/ retainRecoveryAnchor \/ confirmOutcome
    \/ decide \/ sign \/ preSubmit \/ submitSignedTransaction \/ waitForTransactionReceipt

Next ==
    \/ Mine \/ Reorganise
    \/ Cycle \/ rpcFails
    \/ setPaused \/ replace \/ \E i \in Ids : reconcileTransaction(i)
    \/ restart

Spec == Init /\ [][Next]_vars

\* The bot polls for ever, and the operator looks at a paused bot: a finalized
\* replacement is entered, and the bot is resumed.
FairSpec ==
    /\ Spec /\ WF_vars(Mine) /\ WF_vars(Cycle)
    /\ WF_vars(paused /\ setPaused)
    /\ \A i \in 1..MaxTx : WF_vars(i \in Ids /\ reconcileTransaction(i))

-----------------------------------------------------------------------------
(* Properties                                                              *)

Transaction ==
    [call : Calls, nonce : Nat, mode : {"private", "public"}, maxBlockNumber : Nat,
     handed : 0..2, at : Nat, outcome : {"none", "reverted", "success", "unexpected"},
     settledAt : 0..MaxHead, settledWell : BOOLEAN]

Hashes == {<<>>} \cup (0..MaxHead) \X Nat
Search ==
    [latestRecoveryBlock : 0..MaxHead, nextHistoricalBlock : 0..MaxHead,
     historicalRecoveryComplete : BOOLEAN, anchorBlock : 0..MaxHead, anchorHash : Hashes,
     candidateOutcome : [at : 0..MaxHead, hash : Hashes, well : BOOLEAN]]

TypeOK ==
    /\ {head, seen} \subseteq 0..MaxHead /\ {peak, current, faults} \subseteq Nat
    /\ branch \in [0..MaxHead -> Nat]
    /\ tx \in Seq(Transaction) /\ Ids \subseteq 1..MaxTx
    /\ foreign \subseteq [nonce : Nat, at : Nat]
    /\ mode \in {"private", "public"} /\ {historicalLogRecovery, paused} \subseteq BOOLEAN
    /\ step \in {"idle", "save", "recover", "nonce", "heads", "staged", "search", "history",
                "anchor", "ancestry", "decide", "sign", "check", "send", "wait"}
    /\ after \in {"idle", "recover", "staged", "search", "history", "ancestry", "check"}
    /\ UNION {pendingTransactions, pendingStagedOperations, left, stale} \subseteq Ids
    /\ search \in [1..MaxTx -> Search]
    /\ disk \in [transactions : SUBSET Ids, staged : SUBSET Ids, search : [1..MaxTx -> Search]]

\* What no reorganisation takes back.
Irrevocable(at) == at # 0 /\ peak >= at + MaxDepth

\* A transaction that can no longer be mined.
Dead(i) ==
    /\ tx[i].at = 0
    /\ \/ tx[i].mode = "private" /\ peak >= tx[i].maxBlockNumber + MaxDepth
       \/ \E f \in foreign : f.nonce = tx[i].nonce /\ Irrevocable(f.at)

\* What the bot has handed over and does not know the end of: the transaction,
\* or the liquidation it queued.
Outstanding ==
    {i \in Ids : /\ tx[i].handed > 0
                 /\ IF Irrevocable(tx[i].at) THEN Queued(i) /\ ~Irrevocable(tx[i].settledAt)
                    ELSE ~Dead(i)}

\* README: the signed intent is fsynced before submission and the queued
\* operation is persisted across restarts.  Whatever may still happen on chain
\* because of the bot is in its state file, at every instant it may stop.
JournalCoversChain == Outstanding \subseteq disk.transactions \cup disk.staged

\* Recovery blocks execution: the bot never has a second transaction or staged
\* liquidation under way, whatever crashed, expired or was reorganised before.
OneAtATime == Cardinality(Outstanding) <= 1

\* README: it never rebroadcasts a price-dependent intent, in the same process
\* or after a restart.
NeverRebroadcast == \A i \in Ids : tx[i].call.requiresMarketEvidence => tx[i].handed <= 1

Missed(i) ==
    /\ tx[i].call.requiresMarketEvidence /\ tx[i].mode = "private" /\ tx[i].at = 0
    /\ head >= tx[i].maxBlockNumber + PRIVATE_INTENT_FINALITY_BLOCKS
Gone(i) == i \notin disk.transactions \cup disk.staged

\* The outcome is in blocks the bot has noted as not searched, and its settings
\* do not let it go back to them.
Unreachable(i) ==
    /\ ~historicalLogRecovery
    /\ disk.search[i].candidateOutcome = NoOutcome
    /\ tx[i].settledAt \in 1..disk.search[i].nextHistoricalBlock

\* The bot gets past what it has evidence about: a final receipt that is as
\* expected, the final outcome of what it queued, and a private transaction that
\* missed its last block by the finality depth, unless the operator has sent
\* something else with its nonce.  The outcome is found however many searches it
\* takes, with two exceptions: it fell out of the recent blocks while
\* historicalLogRecovery is off, or blocks were replaced between the head a search
\* read and the hash it kept as its anchor (recovery.ts asks for that hash last).
EventuallyUnblocked ==
    \A i \in 1..MaxTx :
      /\ (/\ i \in Ids /\ Final(i) /\ Fits(i)
          /\ Queued(i) => Deep(tx[i].settledAt)) ~> (Gone(i) \/ i \in stale \/ Unreachable(i))
      /\ (i \in Ids /\ Missed(i) /\ foreign = {}) ~> (Gone(i) \/ foreign # {})

\* README: an intent remains blocked until the original receipt appears.
ReceiptUnblocks == \A i \in 1..MaxTx : (i \in Ids /\ Final(i)) ~> i \notin disk.transactions
=============================================================================
