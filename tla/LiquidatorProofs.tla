-------------------------- MODULE LiquidatorProofs --------------------------
(***************************************************************************)
(* The journal of the liquidator covers the chain, for any finality depth, *)
(* depth of reorganisations, validity and number of transactions, as long  *)
(* as a recovery sees at most Drift new blocks and the finality depth      *)
(* exceeds a reorganisation by that much.                                  *)
(***************************************************************************)
EXTENDS Liquidator, TLAPS, FiniteSetTheorems, SequenceTheorems

\* The head is close to its peak, a private transaction is mined in time, and
\* no nonce is spent by both the bot and the operator.
ChainInv ==
    /\ head <= peak /\ peak <= head + MaxDepth
    /\ \A i \in Ids : tx[i].mode = "private" /\ tx[i].at # 0 => tx[i].at <= tx[i].maxBlockNumber
    /\ \A i \in Ids, f \in foreign : tx[i].at # 0 /\ f.at # 0 => tx[i].nonce # f.nonce

\* What a recovery has read is at most so old, and a transaction mined since
\* is in a block a reorganisation could replace when it was read.
ReadInv ==
    step \in {"nonce", "heads"} =>
        /\ current \in Ids
        /\ head <= seen + Drift /\ seen <= peak
        /\ tx[current].at # 0 => tx[current].at + MaxDepth > seen

\* One staged operation is searched for, and where a cycle looks for any.
Searching == \/ step \in {"search", "history", "anchor", "ancestry"}
             \/ step = "save" /\ after \in {"search", "history", "ancestry"}
Scanning == Searching \/ step = "staged" \/ (step = "save" /\ after = "staged")

Memory == pendingTransactions \cup pendingStagedOperations
Disk == disk.transactions \cup disk.staged

\* The state file is the memory, except while it is being saved, and each of
\* them covers what is outstanding.
JournalInv ==
    /\ step # "save" => /\ disk.transactions = pendingTransactions
                        /\ disk.staged = pendingStagedOperations
    /\ Outstanding \subseteq Memory
    /\ Outstanding \subseteq Disk
    /\ \A i \in pendingStagedOperations \cup disk.staged : Irrevocable(tx[i].at) /\ Queued(i)

Unsent == step \in {"check", "send"} \/ (step = "save" /\ after = "check")

\* The transaction a step is about is in the journal, unless the operator has
\* replaced it, and has not been handed over before its one submission.
CurrentInv ==
    /\ Unsent \/ step \in {"nonce", "heads", "wait"} =>
           current \in Ids /\ (current \in pendingTransactions \/ Dead(current))
    /\ Unsent => tx[current].handed = 0

\* The journal has at most one entry, and none when a new one is decided.
SingleInv ==
    /\ \A i, j \in Memory : i = j
    /\ \A i, j \in Disk : i = j
    /\ step \in {"decide", "sign"} => Memory = {}
    /\ Scanning => pendingTransactions = {}

\* An outcome that was found is on a block that has been replaced, or still
\* settles the operation there.
Holds(s, t, b) ==
    LET c == s.candidateOutcome
    IN  c # NoOutcome => /\ c.at # 0 /\ c.hash = <<c.at, c.hash[2]>>
                         /\ c.hash[2] \in 0..b[c.at]
                         /\ c.hash[2] = b[c.at] => t.settledAt = c.at

\* What the searches hold, in memory and on disk, and which one is under way.
SearchInv ==
    /\ \A i \in Ids : Holds(search[i], tx[i], branch) /\ Holds(disk.search[i], tx[i], branch)
    /\ \A i \in (1..MaxTx) \ Ids : search[i] = NotSearched /\ disk.search[i] = NotSearched
    /\ Searching => current \in pendingStagedOperations /\ left = {}
    /\ left \subseteq pendingStagedOperations
    /\ step = "anchor" => after \in {"history", "ancestry", "staged"}

CoreInv == /\ TypeOK /\ ChainInv /\ ReadInv /\ JournalInv /\ CurrentInv /\ SingleInv
           /\ NeverRebroadcast
IInv == CoreInv /\ SearchInv

-----------------------------------------------------------------------------
(* Types                                                                   *)

LEMMA ConstantTypes ==
    /\ VALIDITY \in Nat /\ PRIVATE_INTENT_FINALITY_BLOCKS \in Nat
    /\ MaxDepth \in Nat /\ Drift \in Nat /\ MaxHead \in Nat
    /\ MaxDepth + Drift <= PRIVATE_INTENT_FINALITY_BLOCKS
BY LiquidatorAssumption DEF LiquidatorAssumption

LEMMA Types ==
    ASSUME TypeOK
    PROVE  /\ head \in Nat /\ peak \in Nat /\ seen \in Nat
           /\ head \in 0..MaxHead /\ seen \in 0..MaxHead /\ MaxHead \in Nat
           /\ \A i \in Ids : /\ tx[i] \in Transaction
                            /\ tx[i].at \in Nat /\ tx[i].settledAt \in Nat
                            /\ tx[i].maxBlockNumber \in Nat /\ tx[i].nonce \in Nat
                            /\ tx[i].handed \in 0..2
           /\ \A f \in foreign : f.at \in Nat
<1>1. \A i \in Ids : tx[i] \in Transaction
  BY DEF TypeOK, Ids
<1>2. \A t \in Transaction : /\ t.at \in Nat /\ t.settledAt \in Nat /\ t.maxBlockNumber \in Nat
                            /\ t.nonce \in Nat /\ t.handed \in 0..2
  BY DEF Transaction
<1> QED BY <1>1, <1>2, ConstantTypes DEF TypeOK

Steps == {"idle", "save", "recover", "nonce", "heads", "staged", "search", "history",
          "anchor", "ancestry", "decide", "sign", "check", "send", "wait"}
Afters == {"idle", "recover", "staged", "search", "history", "ancestry", "check"}

\* The variables of the process keep their types while the chain rests.
LEMMA TypesRest ==
    ASSUME TypeOK, UNCHANGED chain, UNCHANGED settings,
           current' \in Nat, seen' \in 0..MaxHead, faults' \in Nat, paused' \in BOOLEAN,
           step' \in Steps, after' \in Afters,
           pendingTransactions' \subseteq Ids, pendingStagedOperations' \subseteq Ids,
           left' \subseteq Ids, search' \in [1..MaxTx -> Search],
           disk' \in [transactions : SUBSET Ids, staged : SUBSET Ids,
                      search : [1..MaxTx -> Search]]
    PROVE  TypeOK'
<1>1. /\ UNCHANGED <<head, peak, branch, tx, foreign, stale, mode, historicalLogRecovery>>
      /\ Ids' = Ids
  BY DEF chain, settings, Ids
<1>2. UNION {pendingTransactions', pendingStagedOperations', left', stale'} \subseteq Ids'
  BY <1>1 DEF TypeOK
<1> QED BY <1>1, <1>2 DEF TypeOK, Steps, Afters

\* And they have them.
LEMMA ProcessTypes ==
    ASSUME TypeOK
    PROVE  /\ current \in Nat /\ seen \in 0..MaxHead /\ faults \in Nat /\ paused \in BOOLEAN
           /\ step \in Steps /\ after \in Afters
           /\ pendingTransactions \subseteq Ids /\ pendingStagedOperations \subseteq Ids
           /\ left \subseteq Ids /\ stale \subseteq Ids /\ search \in [1..MaxTx -> Search]
           /\ disk \in [transactions : SUBSET Ids, staged : SUBSET Ids,
                        search : [1..MaxTx -> Search]]
           /\ disk.transactions \subseteq Ids /\ disk.staged \subseteq Ids
           /\ disk.search \in [1..MaxTx -> Search]
           /\ Ids \subseteq 1..MaxTx
<1>1. disk \in [transactions : SUBSET Ids, staged : SUBSET Ids, search : [1..MaxTx -> Search]]
  BY DEF TypeOK
<1>2. /\ disk.transactions \subseteq Ids /\ disk.staged \subseteq Ids
      /\ disk.search \in [1..MaxTx -> Search]
  BY <1>1
<1> QED BY <1>1, <1>2 DEF TypeOK, Steps, Afters

-----------------------------------------------------------------------------
(* What the chain does to the transactions                                 *)

\* The fields a block or a reorganisation leaves alone.
Signed(i) == <<tx[i].call, tx[i].nonce, tx[i].mode, tx[i].maxBlockNumber, tx[i].handed>>

\* What every step of the chain keeps: what is irrevocable or dead.
Kept ==
    /\ peak' \in Nat /\ peak' >= peak
    /\ Ids' = Ids
    /\ \A i \in Ids : Signed(i)' = Signed(i)
    /\ \A i \in Ids : Irrevocable(tx[i].at) =>
           /\ tx'[i].at = tx[i].at /\ tx'[i].outcome = tx[i].outcome
           /\ Irrevocable(tx[i].settledAt) => tx'[i].settledAt = tx[i].settledAt
    /\ \A i \in Ids : Dead(i) => tx'[i].at = 0
    /\ \A f \in foreign : Irrevocable(f.at) => f \in foreign'
    /\ branch' \in [0..MaxHead -> Nat]
    /\ \A b \in 0..MaxHead : branch'[b] >= branch[b]
    /\ \A b \in (0..MaxHead) \ {0}, i \in Ids :
         branch'[b] = branch[b] /\ tx[i].settledAt = b => tx'[i].settledAt = b

\* A step that keeps these makes nothing outstanding.
LEMMA KeptLemma ==
    ASSUME TypeOK, Kept
    PROVE  /\ Outstanding' \subseteq Outstanding
           /\ \A i \in Ids : Dead(i) => Dead(i)'
           /\ \A i \in Ids : Irrevocable(tx[i].at) /\ Queued(i) =>
                                 (Irrevocable(tx[i].at) /\ Queued(i))'
           /\ NeverRebroadcast => NeverRebroadcast'
<1>1. \A i \in Ids : /\ tx'[i].call = tx[i].call /\ tx'[i].nonce = tx[i].nonce
                     /\ tx'[i].mode = tx[i].mode /\ tx'[i].maxBlockNumber = tx[i].maxBlockNumber
                     /\ tx'[i].handed = tx[i].handed
  BY DEF Kept, Signed
<1>2. /\ peak \in Nat /\ peak' \in Nat /\ peak' >= peak /\ MaxDepth \in Nat
      /\ \A i \in Ids : tx[i].at \in Nat /\ tx[i].settledAt \in Nat /\ tx[i].maxBlockNumber \in Nat
      /\ \A f \in foreign : f.at \in Nat
  BY Types, ConstantTypes DEF Kept
<1>3. \A i \in Ids : Irrevocable(tx[i].at) => Irrevocable(tx[i].at)'
  BY <1>2 DEF Kept, Irrevocable
<1>4. \A i \in Ids : Irrevocable(tx[i].at) /\ Irrevocable(tx[i].settledAt) =>
                        Irrevocable(tx[i].settledAt)'
  BY <1>2 DEF Kept, Irrevocable
<1>5. \A i \in Ids : Irrevocable(tx[i].at) => (Queued(i) <=> Queued(i)')
  BY <1>1 DEF Kept, Queued
<1>6. \A i \in Ids : Dead(i) => Dead(i)'
  <2> SUFFICES ASSUME NEW i \in Ids, Dead(i) PROVE Dead(i)'
    OBVIOUS
  <2>1. tx'[i].at = 0
    BY DEF Kept
  <2>2. CASE tx[i].mode = "private" /\ peak >= tx[i].maxBlockNumber + MaxDepth
    BY <1>1, <1>2, <2>1, <2>2 DEF Dead
  <2>3. CASE \E f \in foreign : f.nonce = tx[i].nonce /\ Irrevocable(f.at)
    <3>1. PICK f \in foreign : f.nonce = tx[i].nonce /\ Irrevocable(f.at)
      BY <2>3
    <3>2. f \in foreign' /\ Irrevocable(f.at)'
      BY <1>2, <3>1 DEF Kept, Irrevocable
    <3> QED BY <1>1, <2>1, <3>1, <3>2 DEF Dead
  <2> QED BY <2>2, <2>3 DEF Dead
<1>7. Outstanding' \subseteq Outstanding
  <2> SUFFICES ASSUME NEW i \in Outstanding' PROVE i \in Outstanding
    OBVIOUS
  <2>1. i \in Ids /\ tx[i].handed > 0
    BY <1>1 DEF Outstanding, Kept
  <2>2. ~Dead(i)
    <3>1. tx[i].at = 0 /\ tx'[i].at = 0 => ~Dead(i)
      BY <1>6, <2>1 DEF Outstanding, Irrevocable, Dead
    <3>2. Dead(i) => tx[i].at = 0 /\ tx'[i].at = 0
      BY <2>1 DEF Dead, Kept
    <3> QED BY <3>1, <3>2
  <2>3. CASE ~Irrevocable(tx[i].at)
    BY <2>1, <2>2, <2>3 DEF Outstanding
  <2>4. CASE Irrevocable(tx[i].at)
    BY <1>3, <1>4, <1>5, <2>1, <2>4 DEF Outstanding
  <2> QED BY <2>3, <2>4
<1>8. NeverRebroadcast => NeverRebroadcast'
  BY <1>1 DEF NeverRebroadcast, Kept
<1> QED BY <1>3, <1>5, <1>6, <1>7, <1>8

\* Without a reorganisation the blocks stay what they are.
LEMMA BranchRests ==
    ASSUME TypeOK, UNCHANGED branch,
           \A i \in Ids : tx[i].settledAt # 0 => tx'[i].settledAt = tx[i].settledAt
    PROVE  /\ branch' \in [0..MaxHead -> Nat]
           /\ \A b \in 0..MaxHead : branch'[b] >= branch[b]
           /\ \A b \in (0..MaxHead) \ {0}, i \in Ids :
                branch'[b] = branch[b] /\ tx[i].settledAt = b => tx'[i].settledAt = b
<1>1. branch \in [0..MaxHead -> Nat]
  BY DEF TypeOK
<1>2. \A b \in 0..MaxHead : branch[b] \in Nat
  BY <1>1
<1> QED BY <1>1, <1>2

\* The process and its files, which the chain does not touch.
process == <<settings, step, after, current, seen, left, journal, paused, disk>>

LEMMA TypesKept ==
    ASSUME TypeOK, UNCHANGED process, Ids' = Ids, tx' \in Seq(Transaction),
           head' \in 0..MaxHead, peak' \in Nat, faults' \in Nat,
           branch' \in [0..MaxHead -> Nat], foreign' \subseteq [nonce : Nat, at : Nat],
           stale' \subseteq Ids
    PROVE  TypeOK'
<1>1. UNCHANGED <<mode, historicalLogRecovery, step, after, current, seen, left, paused, disk,
                  pendingTransactions, pendingStagedOperations, search>>
  BY DEF process, settings, journal
<1>2. UNION {pendingTransactions', pendingStagedOperations', left', stale'} \subseteq Ids'
  BY <1>1 DEF TypeOK
<1>3. {head', seen'} \subseteq 0..MaxHead /\ {peak', current', faults'} \subseteq Nat
  BY <1>1 DEF TypeOK
<1> QED BY <1>1, <1>2, <1>3 DEF TypeOK

LEMMA GrowingLemma ==
    ASSUME TypeOK, ChainInv, Growing
    PROVE  /\ head' = head + 1 /\ head' \in 0..MaxHead
           /\ peak' \in Nat /\ peak' >= peak /\ head' <= peak' /\ peak' <= head' + MaxDepth
           /\ step \in {"nonce", "heads"} => head' <= seen + Drift
BY Types, ConstantTypes DEF Growing, ChainInv, Recovering

\* A block takes a transaction in.
LEMMA IncludeLemma ==
    ASSUME TypeOK, ChainInv, ReadInv, NEW k \in Ids, Include(k),
           UNCHANGED process, UNCHANGED <<branch, faults, stale>>
    PROVE  TypeOK' /\ ChainInv' /\ ReadInv' /\ Kept
<1>1. PICK o \in {"reverted", "success", "unexpected"} :
         tx' = [tx EXCEPT ![k].at = head + 1, ![k].outcome = o]
  BY DEF Include
<1>2. /\ tx[k].handed > 0 /\ tx[k].at = 0 /\ tx[k].nonce \in NextNonce
      /\ tx[k].mode = "private" => head + 1 <= tx[k].maxBlockNumber
      /\ Growing /\ foreign' = foreign
  BY DEF Include
<1>3. /\ head' = head + 1 /\ head' \in 0..MaxHead /\ head' \in Nat
      /\ peak' \in Nat /\ peak' >= peak /\ head' <= peak' /\ peak' <= head' + MaxDepth
      /\ step \in {"nonce", "heads"} => head' <= seen + Drift
  BY <1>2, GrowingLemma
<1>4. tx \in Seq(Transaction) /\ \A i \in Ids : tx[i] \in Transaction
  BY Types DEF TypeOK
<1>5. [tx[k] EXCEPT !.at = head + 1, !.outcome = o] \in Transaction
  BY <1>3, <1>4 DEF Transaction
<1>6. tx' = [tx EXCEPT ![k] = [tx[k] EXCEPT !.at = head + 1, !.outcome = o]]
  BY <1>1
<1>7. tx' \in Seq(Transaction) /\ Ids' = Ids
  BY <1>4, <1>5, <1>6 DEF Ids
<1>8. /\ tx'[k] = [tx[k] EXCEPT !.at = head + 1, !.outcome = o]
      /\ \A i \in Ids \ {k} : tx'[i] = tx[i]
  BY <1>4, <1>6 DEF Ids
<1>9. /\ Signed(k)' = Signed(k) /\ tx'[k].at = head + 1
      /\ tx'[k].nonce = tx[k].nonce /\ tx'[k].mode = tx[k].mode
      /\ tx'[k].maxBlockNumber = tx[k].maxBlockNumber
  BY <1>4, <1>8 DEF Signed, Transaction
<1>10. ~Dead(k)
  <2>1. \A f \in foreign : f.at # 0 => f.nonce \in Consumed
    BY DEF Consumed
  <2>2. tx[k].nonce \notin Consumed
    BY <1>2 DEF NextNonce
  <2>3. \A f \in foreign : f.nonce = tx[k].nonce => ~Irrevocable(f.at)
    BY <2>1, <2>2 DEF Irrevocable
  <2>4. tx[k].mode = "private" => ~(peak >= tx[k].maxBlockNumber + MaxDepth)
    BY <1>2, <1>3, Types, ConstantTypes DEF ChainInv
  <2> QED BY <2>3, <2>4 DEF Dead
<1>11. Kept
  <2>1. \A i \in Ids : Signed(i)' = Signed(i)
    BY <1>8, <1>9 DEF Signed
  <2>2. \A i \in Ids : Irrevocable(tx[i].at) => i # k
    BY <1>2 DEF Irrevocable
  <2>3. \A i \in Ids : Dead(i) => tx'[i].at = 0
    BY <1>8, <1>10 DEF Dead
  <2>4. \A i \in Ids : tx'[i].settledAt = tx[i].settledAt
    <3>1. tx[k] \in Transaction
      BY <1>4
    <3>2. [tx[k] EXCEPT !.at = head + 1, !.outcome = o].settledAt = tx[k].settledAt
      BY <3>1 DEF Transaction
    <3> QED BY <1>8, <3>2
  <2> QED BY <1>2, <1>3, <1>7, <1>8, <2>1, <2>2, <2>3, <2>4, BranchRests DEF Kept
<1>12. ChainInv'
  <2>1. \A i \in Ids, f \in foreign : tx'[i].at # 0 /\ f.at # 0 => tx'[i].nonce # f.nonce
    <3>1. tx[k].nonce \notin Consumed
      BY <1>2 DEF NextNonce
    <3>2. \A f \in foreign : f.at # 0 => tx[k].nonce # f.nonce
      BY <3>1 DEF Consumed
    <3>3. tx'[k].nonce = tx[k].nonce /\ \A i \in Ids \ {k} : tx'[i] = tx[i]
      BY <1>8, <1>9
    <3> QED BY <3>2, <3>3 DEF ChainInv
  <2>2. \A i \in Ids : tx'[i].mode = "private" /\ tx'[i].at # 0 =>
                          tx'[i].at <= tx'[i].maxBlockNumber
    BY <1>2, <1>8, <1>9 DEF ChainInv
  <2> QED BY <1>2, <1>3, <1>7, <2>1, <2>2 DEF ChainInv
<1>13. ReadInv'
  <2> SUFFICES ASSUME step \in {"nonce", "heads"}
               PROVE  /\ current \in Ids /\ head' <= seen + Drift /\ seen <= peak'
                      /\ tx'[current].at # 0 => tx'[current].at + MaxDepth > seen
    BY <1>7 DEF ReadInv, process
  <2>1. current \in Ids /\ seen \in Nat /\ seen <= peak /\ peak \in Nat /\ head \in Nat
    BY Types DEF ReadInv
  <2>2. CASE current = k
    BY <1>3, <1>9, <2>1, <2>2, ConstantTypes DEF ChainInv
  <2>3. CASE current # k
    <3>1. tx'[current] = tx[current]
      BY <1>8, <2>1, <2>3
    <3> QED BY <1>3, <2>1, <3>1, ConstantTypes DEF ReadInv
  <2> QED BY <2>2, <2>3
<1>14. TypeOK'
  BY <1>2, <1>3, <1>7, ProcessTypes, TypesKept DEF TypeOK
<1> QED BY <1>11, <1>12, <1>13, <1>14

\* The outcome of a staged liquidation appears.
LEMMA SettleLemma ==
    ASSUME TypeOK, ChainInv, ReadInv, NEW k \in Ids, Settle(k),
           UNCHANGED process, UNCHANGED <<branch, faults, stale>>
    PROVE  TypeOK' /\ ChainInv' /\ ReadInv' /\ Kept
<1>1. PICK good \in BOOLEAN :
         tx' = [tx EXCEPT ![k].settledAt = head + 1, ![k].settledWell = good]
  BY DEF Settle
<1>2. /\ tx[k].settledAt = 0 /\ Growing /\ foreign' = foreign
  BY DEF Settle
<1>3. /\ head' = head + 1 /\ head' \in 0..MaxHead /\ head' \in Nat
      /\ peak' \in Nat /\ peak' >= peak /\ head' <= peak' /\ peak' <= head' + MaxDepth
      /\ step \in {"nonce", "heads"} => head' <= seen + Drift
  BY <1>2, GrowingLemma
<1>4. tx \in Seq(Transaction) /\ \A i \in Ids : tx[i] \in Transaction
  BY Types DEF TypeOK
<1>5. [tx[k] EXCEPT !.settledAt = head + 1, !.settledWell = good] \in Transaction
  BY <1>3, <1>4 DEF Transaction
<1>6. tx' = [tx EXCEPT ![k] = [tx[k] EXCEPT !.settledAt = head + 1, !.settledWell = good]]
  BY <1>1
<1>7. tx' \in Seq(Transaction) /\ Ids' = Ids
  BY <1>4, <1>5, <1>6 DEF Ids
<1>8. /\ tx'[k] = [tx[k] EXCEPT !.settledAt = head + 1, !.settledWell = good]
      /\ \A i \in Ids \ {k} : tx'[i] = tx[i]
  BY <1>4, <1>6 DEF Ids
<1>9. \A i \in Ids : /\ Signed(i)' = Signed(i) /\ tx'[i].at = tx[i].at
                     /\ tx'[i].outcome = tx[i].outcome
                     /\ tx'[i].nonce = tx[i].nonce /\ tx'[i].mode = tx[i].mode
                     /\ tx'[i].maxBlockNumber = tx[i].maxBlockNumber
                     /\ Irrevocable(tx[i].settledAt) => tx'[i].settledAt = tx[i].settledAt
  <2>1. /\ tx'[k].call = tx[k].call /\ tx'[k].nonce = tx[k].nonce /\ tx'[k].mode = tx[k].mode
        /\ tx'[k].maxBlockNumber = tx[k].maxBlockNumber /\ tx'[k].handed = tx[k].handed
        /\ tx'[k].at = tx[k].at /\ tx'[k].outcome = tx[k].outcome
    BY <1>4, <1>8 DEF Transaction
  <2>2. ~Irrevocable(tx[k].settledAt)
    BY <1>2 DEF Irrevocable
  <2> QED BY <1>8, <2>1, <2>2 DEF Signed
<1>10. Kept
  <2>1. \A i \in Ids : tx[i].settledAt # 0 => tx'[i].settledAt = tx[i].settledAt
    BY <1>2, <1>8
  <2> QED BY <1>2, <1>3, <1>7, <1>9, <2>1, BranchRests DEF Kept, Dead
<1>11. ChainInv'
  BY <1>2, <1>3, <1>7, <1>9 DEF ChainInv
<1>12. ReadInv'
  BY <1>3, <1>7, <1>9, Types DEF ReadInv, process
<1>13. TypeOK'
  BY <1>2, <1>3, <1>7, ProcessTypes, TypesKept DEF TypeOK
<1> QED BY <1>10, <1>11, <1>12, <1>13

\* A block that has nothing of the bot's, or something of the operator's.
LEMMA OtherBlockLemma ==
    ASSUME TypeOK, ChainInv, ReadInv, Growing, UNCHANGED tx,
           UNCHANGED process, UNCHANGED <<branch, faults, stale>>,
           UNCHANGED foreign \/ \E f \in foreign : IncludeForeign(f)
    PROVE  TypeOK' /\ ChainInv' /\ ReadInv' /\ Kept
<1>1. /\ head' = head + 1 /\ head' \in 0..MaxHead /\ head' \in Nat
      /\ peak' \in Nat /\ peak' >= peak /\ head' <= peak' /\ peak' <= head' + MaxDepth
      /\ step \in {"nonce", "heads"} => head' <= seen + Drift
  BY GrowingLemma
<1>2. Ids' = Ids /\ tx' = tx /\ head \in Nat
  BY Types DEF Ids
<1>3. /\ foreign' \subseteq [nonce : Nat, at : Nat]
      /\ \A f \in foreign : Irrevocable(f.at) => f \in foreign'
      /\ \A i \in Ids, f \in foreign' : tx[i].at # 0 /\ f.at # 0 => tx[i].nonce # f.nonce
  <2>1. CASE UNCHANGED foreign
    BY <2>1 DEF TypeOK, ChainInv
  <2>2. CASE \E f \in foreign : IncludeForeign(f)
    <3>1. PICK f \in foreign : IncludeForeign(f)
      BY <2>2
    <3>2. /\ f.at = 0 /\ f.nonce \notin Consumed /\ f \in [nonce : Nat, at : Nat]
          /\ foreign' = (foreign \ {f}) \cup {[f EXCEPT !.at = head + 1]}
      BY <3>1 DEF IncludeForeign, NextNonce, TypeOK
    <3>3. /\ [f EXCEPT !.at = head + 1] \in [nonce : Nat, at : Nat]
          /\ [f EXCEPT !.at = head + 1].nonce = f.nonce
      BY <1>2, <3>2
    <3>4. \A i \in Ids : tx[i].at # 0 => tx[i].nonce # f.nonce
      BY <3>2 DEF Consumed
    <3> QED BY <3>2, <3>3, <3>4 DEF TypeOK, ChainInv, Irrevocable
  <2> QED BY <2>1, <2>2
<1>4. Kept
  BY <1>1, <1>2, <1>3, BranchRests DEF Kept, Signed, Dead
<1>5. ChainInv'
  BY <1>1, <1>2, <1>3 DEF ChainInv
<1>6. ReadInv'
  BY <1>1, <1>2, Types DEF ReadInv, process
<1>7. TypeOK'
  BY <1>1, <1>2, <1>3, ProcessTypes, TypesKept DEF TypeOK
<1> QED BY <1>4, <1>5, <1>6, <1>7

\* Blocks are replaced.
LEMMA ReorganiseLemma ==
    ASSUME TypeOK, ChainInv, ReadInv, Reorganise
    PROVE  TypeOK' /\ ChainInv' /\ ReadInv' /\ Kept
<1>1. PICK d \in 1..MaxDepth :
         /\ head - d >= peak - MaxDepth
         /\ d <= head
         /\ head' = head - d
         /\ tx' = [i \in Ids |-> [tx[i] EXCEPT !.at = Before(@, head - d),
                    !.settledAt = Before(@, head - d),
                    !.outcome = IF tx[i].at > head - d THEN "none" ELSE @]]
         /\ foreign' = {[f EXCEPT !.at = Before(@, head - d)] : f \in foreign}
         /\ branch' = [b \in DOMAIN branch |-> IF b > head - d THEN branch[b] + 1 ELSE branch[b]]
  BY DEF Reorganise
<1>2. /\ peak' = peak /\ UNCHANGED process /\ faults' = faults + 1
  BY DEF Reorganise, process, journal
<1>3. head' = head - d /\ head - d >= peak - MaxDepth /\ d <= head
  BY <1>1
<1>4. /\ head \in Nat /\ peak \in Nat /\ MaxDepth \in Nat /\ d \in Nat
      /\ head' \in Nat /\ head' <= head /\ head' <= peak' /\ peak' <= head' + MaxDepth
  BY <1>3, <1>2, Types, ConstantTypes DEF ChainInv
<1>5. \A n \in Nat : Before(n, head - d) \in Nat /\ Before(n, head - d) \in {0, n}
  BY DEF Before
<1>6. \A n \in Nat : Irrevocable(n) => Before(n, head - d) = n /\ ~(n > head - d)
  BY <1>3, <1>4 DEF Before, Irrevocable
<1>7. \A i \in Ids : tx[i] \in Transaction /\ tx[i].at \in Nat /\ tx[i].settledAt \in Nat
  BY Types
<1>8. Ids' = Ids
  BY <1>1 DEF Ids
<1>9. ASSUME NEW i \in Ids
      PROVE  /\ tx'[i] \in Transaction
             /\ Signed(i)' = Signed(i) /\ tx'[i].nonce = tx[i].nonce /\ tx'[i].mode = tx[i].mode
             /\ tx'[i].maxBlockNumber = tx[i].maxBlockNumber
             /\ tx'[i].at = Before(tx[i].at, head - d)
             /\ tx'[i].settledAt = Before(tx[i].settledAt, head - d)
             /\ tx'[i].outcome = IF tx[i].at > head - d THEN "none" ELSE tx[i].outcome
  <2>1. tx'[i] = [tx[i] EXCEPT !.at = Before(tx[i].at, head - d),
                    !.settledAt = Before(tx[i].settledAt, head - d),
                    !.outcome = IF tx[i].at > head - d THEN "none" ELSE tx[i].outcome]
    BY <1>1
  <2>2. Before(tx[i].at, head - d) \in Nat /\ Before(tx[i].settledAt, head - d) \in 0..MaxHead
    <3>1. tx[i].settledAt \in 0..MaxHead /\ 0 \in 0..MaxHead
      BY <1>7, ConstantTypes DEF Transaction
    <3> QED BY <1>5, <1>7, <3>1
  <2> QED BY <1>7, <2>1, <2>2 DEF Transaction, Signed
<1>10. tx' \in Seq(Transaction)
  <2>1. Len(tx) \in Nat /\ Ids = 1..Len(tx)
    BY DEF TypeOK, Ids
  <2>2. tx' \in [1..Len(tx) -> Transaction]
    <3> DEFINE t(i) == [tx[i] EXCEPT !.at = Before(@, head - d),
                          !.settledAt = Before(@, head - d),
                          !.outcome = IF tx[i].at > head - d THEN "none" ELSE @]
    <3>1. tx' = [i \in Ids |-> t(i)]
      BY <1>1
    <3> HIDE DEF t
    <3>2. \A i \in Ids : t(i) \in Transaction
      BY <1>9, <3>1
    <3> QED BY <2>1, <3>1, <3>2
  <2> QED BY <2>1, <2>2, SeqDef
<1>11. /\ foreign' \subseteq [nonce : Nat, at : Nat]
       /\ \A g \in foreign' : \E f \in foreign : g.nonce = f.nonce /\ (g.at # 0 => f.at # 0)
       /\ \A f \in foreign : Irrevocable(f.at) => f \in foreign'
  <2> DEFINE moved(f) == [f EXCEPT !.at = Before(f.at, head - d)]
  <2>1. ASSUME NEW f \in foreign
        PROVE  /\ moved(f) \in [nonce : Nat, at : Nat]
               /\ moved(f).nonce = f.nonce /\ (moved(f).at # 0 => f.at # 0)
               /\ Irrevocable(f.at) => moved(f) = f
    <3>1. f \in [nonce : Nat, at : Nat]
      BY DEF TypeOK
    <3>2. Before(f.at, head - d) \in Nat /\ Before(f.at, head - d) \in {0, f.at}
      BY <1>5, <3>1
    <3> QED BY <1>6, <3>1, <3>2
  <2>2. foreign' = {moved(f) : f \in foreign}
    BY <1>1
  <2> HIDE DEF moved
  <2> QED BY <2>1, <2>2
<1>12. /\ branch' \in [0..MaxHead -> Nat]
       /\ \A b \in 0..MaxHead : branch'[b] = IF b > head - d THEN branch[b] + 1 ELSE branch[b]
  <2>1. branch \in [0..MaxHead -> Nat]
    BY DEF TypeOK
  <2>2. branch' = [b \in DOMAIN branch |-> IF b > head - d THEN branch[b] + 1 ELSE branch[b]]
    BY <1>1
  <2>3. branch' = [b \in 0..MaxHead |-> IF b > head - d THEN branch[b] + 1 ELSE branch[b]]
    BY <2>1, <2>2
  <2>4. \A b \in 0..MaxHead : branch[b] \in Nat /\ branch[b] + 1 \in Nat
    BY <2>1
  <2> QED BY <2>3, <2>4
<1>13. /\ \A b \in 0..MaxHead : branch'[b] >= branch[b]
       /\ \A b \in (0..MaxHead) \ {0}, i \in Ids :
            branch'[b] = branch[b] /\ tx[i].settledAt = b => tx'[i].settledAt = b
  <2>1. \A b \in 0..MaxHead : branch[b] \in Nat
    BY DEF TypeOK
  <2>2. \A b \in 0..MaxHead : branch'[b] = branch[b] => ~(b > head - d)
    BY <1>12, <2>1
  <2> QED BY <1>9, <1>12, <2>1, <2>2 DEF Before
<1>14. Kept
  <2>1. \A i \in Ids : Irrevocable(tx[i].at) =>
           /\ tx'[i].at = tx[i].at /\ tx'[i].outcome = tx[i].outcome
           /\ Irrevocable(tx[i].settledAt) => tx'[i].settledAt = tx[i].settledAt
    BY <1>6, <1>7, <1>9
  <2>2. \A i \in Ids : Dead(i) => tx'[i].at = 0
    BY <1>5, <1>9 DEF Dead
  <2> QED BY <1>2, <1>4, <1>8, <1>9, <1>11, <1>12, <1>13, <2>1, <2>2 DEF Kept
<1>15. ChainInv'
  <2>1. \A i \in Ids : tx'[i].at # 0 => tx'[i].at = tx[i].at /\ tx[i].at # 0
    BY <1>5, <1>7, <1>9
  <2>2. \A i \in Ids : tx'[i].mode = "private" /\ tx'[i].at # 0 =>
                          tx'[i].at <= tx'[i].maxBlockNumber
    BY <1>9, <2>1 DEF ChainInv
  <2>3. \A i \in Ids, g \in foreign' : tx'[i].at # 0 /\ g.at # 0 => tx'[i].nonce # g.nonce
    BY <1>9, <1>11, <2>1 DEF ChainInv
  <2> QED BY <1>4, <1>8, <2>2, <2>3 DEF ChainInv
<1>16. ReadInv'
  <2> SUFFICES ASSUME step \in {"nonce", "heads"}
               PROVE  /\ current \in Ids /\ head' <= seen + Drift /\ seen <= peak'
                      /\ tx'[current].at # 0 => tx'[current].at + MaxDepth > seen
    BY <1>2, <1>8 DEF ReadInv, process
  <2>1. current \in Ids /\ tx'[current].at \in {0, tx[current].at}
    BY <1>5, <1>7, <1>9 DEF ReadInv
  <2>2. seen \in Nat /\ Drift \in Nat
    BY Types, ConstantTypes
  <2> QED BY <1>2, <1>4, <2>1, <2>2 DEF ReadInv
<1>17. TypeOK'
  <2>1. stale' \subseteq Ids
    BY ProcessTypes DEF Reorganise, Unguarded
  <2>2. faults' \in Nat /\ head' \in 0..MaxHead
    BY <1>2, <1>4, ProcessTypes, Types
  <2> QED BY <1>2, <1>4, <1>8, <1>10, <1>11, <1>12, <2>1, <2>2, TypesKept
<1> QED BY <1>14, <1>15, <1>16, <1>17

\* A step that keeps what the chain has settled and leaves the process alone.
LEMMA KeptStep ==
    ASSUME CoreInv, TypeOK', ChainInv', ReadInv', Kept, UNCHANGED process
    PROVE  CoreInv'
<1>1. /\ Outstanding' \subseteq Outstanding
      /\ \A i \in Ids : Dead(i) => Dead(i)'
      /\ \A i \in Ids : Irrevocable(tx[i].at) /\ Queued(i) => (Irrevocable(tx[i].at) /\ Queued(i))'
      /\ NeverRebroadcast => NeverRebroadcast'
  BY KeptLemma DEF CoreInv
<1>2. JournalInv'
  <2>1. pendingStagedOperations \subseteq Ids /\ disk.staged \subseteq Ids
    BY DEF CoreInv, TypeOK
  <2> QED BY <1>1, <2>1 DEF CoreInv, JournalInv, Memory, Disk, process, journal
<1>3. CurrentInv'
  BY <1>1 DEF CoreInv, CurrentInv, Unsent, Kept, Signed, process, journal
<1>4. SingleInv'
  BY DEF CoreInv, SingleInv, Memory, Disk, Scanning, Searching, process, journal
<1> QED BY <1>1, <1>2, <1>3, <1>4 DEF CoreInv

\* Any step of the chain: the process is where it was, and its invariants hold.
LEMMA ChainStep ==
    ASSUME CoreInv, Mine \/ Reorganise
    PROVE  CoreInv' /\ Kept /\ UNCHANGED process
<1>1. CASE Reorganise
  BY <1>1, ReorganiseLemma, KeptStep DEF CoreInv, Reorganise, process
<1>2. CASE Mine
  <2>1. UNCHANGED process /\ UNCHANGED <<branch, faults, stale>>
    BY <1>2 DEF Mine, process
  <2>2. CASE \E i \in Ids : Include(i)
    BY <2>1, <2>2, IncludeLemma, KeptStep DEF CoreInv
  <2>3. CASE \E i \in Ids : Settle(i)
    BY <2>1, <2>3, SettleLemma, KeptStep DEF CoreInv
  <2>4. CASE Growing /\ UNCHANGED tx /\ (UNCHANGED foreign \/ \E f \in foreign : IncludeForeign(f))
    BY <2>1, <2>4, OtherBlockLemma, KeptStep DEF CoreInv
  <2> QED BY <1>2, <2>1, <2>2, <2>3, <2>4 DEF Mine, IncludeForeign
<1> QED BY <1>1, <1>2

\* The operator's own transaction settles nothing until it is mined.
LEMMA ReplaceStep ==
    ASSUME CoreInv, replace
    PROVE  CoreInv' /\ Kept /\ UNCHANGED process
<1>1. PICK i \in pendingTransactions : foreign' = {[nonce |-> tx[i].nonce, at |-> 0]}
  BY DEF replace
<1>2. /\ foreign = {} /\ faults' = faults + 1 /\ faults \in Nat
      /\ tx' = tx /\ head' = head /\ peak' = peak /\ Ids' = Ids /\ UNCHANGED process
      /\ UNCHANGED <<branch, stale>>
  BY DEF replace, process, Ids, CoreInv, TypeOK
<1>3. tx[i].nonce \in Nat /\ peak \in Nat
  <2>1. i \in Ids
    BY DEF CoreInv, TypeOK
  <2> QED BY <2>1, Types DEF CoreInv
<1>4. TypeOK'
  <2>1. foreign' \subseteq [nonce : Nat, at : Nat]
    BY <1>1, <1>3
  <2>2. faults' \in Nat
    BY <1>2
  <2> QED BY <1>2, <2>1, <2>2, ProcessTypes, TypesKept DEF CoreInv, TypeOK
<1>5. ChainInv'
  BY <1>1, <1>2 DEF CoreInv, ChainInv
<1>6. ReadInv'
  BY <1>2 DEF CoreInv, ReadInv, process
<1>7. Kept
  BY <1>2, <1>3, BranchRests DEF Kept, Signed, Dead, CoreInv
<1> QED BY <1>2, <1>4, <1>5, <1>6, <1>7, KeptStep

-----------------------------------------------------------------------------
(* The steps of the process                                                *)

\* What is said about the chain alone stays true while it rests.
LEMMA ChainRests ==
    ASSUME UNCHANGED chain
    PROVE  /\ Ids' = Ids /\ tx' = tx /\ head' = head /\ peak' = peak /\ foreign' = foreign
           /\ Outstanding' = Outstanding
           /\ \A i : Dead(i)' = Dead(i)
           /\ \A i : (Irrevocable(tx[i].at) /\ Queued(i))' = (Irrevocable(tx[i].at) /\ Queued(i))
           /\ ChainInv => ChainInv'
           /\ NeverRebroadcast => NeverRebroadcast'
BY DEF chain, Ids, Outstanding, Dead, Irrevocable, Queued, ChainInv, NeverRebroadcast

\* A final transaction cannot be taken back.
LEMMA FinalIsIrrevocable ==
    ASSUME TypeOK, ChainInv, NEW n \in Nat, Deep(n)
    PROVE  Irrevocable(n)
BY Types, ConstantTypes DEF Deep, Irrevocable, ChainInv

LEMMA SaveStep ==
    ASSUME CoreInv, saveDurableState
    PROVE  CoreInv'
<1>1. /\ UNCHANGED chain /\ UNCHANGED <<settings, journal, paused, faults>>
      /\ step = "save" /\ step' = after /\ after' = "idle"
      /\ disk' = [transactions |-> pendingTransactions, staged |-> pendingStagedOperations,
                  search |-> search]
      /\ current' \in {0, current} /\ seen' \in {0, seen} /\ left' \in {{}, left}
      /\ after # "idle" => UNCHANGED <<current, seen>>
  BY DEF saveDurableState
<1>2. UNCHANGED <<pendingTransactions, pendingStagedOperations, search>>
  BY <1>1 DEF journal
<1>3. /\ disk'.transactions = pendingTransactions /\ disk'.staged = pendingStagedOperations
      /\ after \in Afters
  BY <1>1, ProcessTypes DEF CoreInv
<1>4. TypeOK'
  <2>1. disk' \in [transactions : SUBSET Ids, staged : SUBSET Ids, search : [1..MaxTx -> Search]]
    BY <1>1, ProcessTypes DEF CoreInv
  <2>2. current' \in Nat /\ seen' \in 0..MaxHead /\ left' \subseteq Ids
    BY <1>1, ProcessTypes, ConstantTypes DEF CoreInv
  <2> QED BY <1>1, <1>2, <1>3, <2>1, <2>2, ProcessTypes, TypesRest DEF CoreInv, Steps, Afters
<1>5. /\ ChainInv' /\ NeverRebroadcast'
      /\ Outstanding' = Outstanding /\ \A i : Dead(i)' = Dead(i)
      /\ \A i : (Irrevocable(tx[i].at) /\ Queued(i))' = (Irrevocable(tx[i].at) /\ Queued(i))
      /\ Ids' = Ids /\ tx' = tx
  BY <1>1, ChainRests DEF CoreInv
<1>6. ReadInv'
  BY <1>1, <1>3 DEF ReadInv, Afters
<1>7. JournalInv'
  BY <1>1, <1>2, <1>3, <1>5 DEF CoreInv, JournalInv, Memory, Disk
<1>8. CurrentInv'
  BY <1>1, <1>2, <1>3, <1>5 DEF CoreInv, CurrentInv, Unsent, Afters
<1>9. SingleInv'
  BY <1>1, <1>2, <1>3 DEF CoreInv, SingleInv, Memory, Disk, Scanning, Searching, Afters
<1> QED BY <1>4, <1>5, <1>6, <1>7, <1>8, <1>9 DEF CoreInv

\* A step that leaves the journal alone, and ends the cycle or goes on to where
\* no transaction is at hand.
LEMMA QuietStep ==
    ASSUME CoreInv, UNCHANGED chain, UNCHANGED <<settings, disk>>,
           UNCHANGED <<pendingTransactions, pendingStagedOperations>>,
           step # "save", current' \in Nat, seen' \in 0..MaxHead,
           paused' \in BOOLEAN, faults' \in Nat,
           left' \subseteq Ids, search' \in [1..MaxTx -> Search],
           \/ step' = "save" /\ after' \in Afters \ {"check"}
           \/ step' \in Steps \ {"save", "nonce", "heads", "check", "send", "wait"}
                /\ after' \in Afters,
           step' \in {"decide", "sign"} => Memory = {},
           Scanning' => pendingTransactions = {}
    PROVE  CoreInv'
<1>1. /\ ChainInv' /\ NeverRebroadcast'
      /\ Outstanding' = Outstanding /\ \A i : Dead(i)' = Dead(i)
      /\ \A i : (Irrevocable(tx[i].at) /\ Queued(i))' = (Irrevocable(tx[i].at) /\ Queued(i))
      /\ Ids' = Ids /\ tx' = tx
  BY ChainRests DEF CoreInv
<1>2. TypeOK'
  BY ProcessTypes, TypesRest DEF CoreInv, Steps, Afters
<1>3. ReadInv'
  BY DEF ReadInv, Steps
<1>4. JournalInv'
  BY <1>1 DEF CoreInv, JournalInv, Memory, Disk
<1>5. CurrentInv'
  BY DEF CurrentInv, Unsent, Steps, Afters
<1>6. SingleInv'
  BY DEF CoreInv, SingleInv, Memory, Disk
<1> QED BY <1>1, <1>2, <1>3, <1>4, <1>5, <1>6 DEF CoreInv

\* The same, when it ends the cycle.
LEMMA EndStep ==
    ASSUME CoreInv, UNCHANGED chain, UNCHANGED <<settings, left, journal, disk>>,
           step # "save", current' \in Nat, seen' \in 0..MaxHead, paused' \in BOOLEAN,
           faults' \in Nat, Saving("idle")
    PROVE  CoreInv'
<1>1. step' = "save" /\ after' = "idle" /\ ~Scanning'
  BY DEF Saving, Scanning, Searching
<1>2. UNCHANGED <<pendingTransactions, pendingStagedOperations, search>>
  BY DEF journal
<1> QED BY <1>1, <1>2, ProcessTypes, QuietStep DEF CoreInv, Afters

LEMMA QuietSteps ==
    ASSUME CoreInv, startCycle \/ rpcFails \/ recovered \/ decide
    PROVE  CoreInv'
<1>1. /\ head \in 0..MaxHead /\ faults + 1 \in Nat
      /\ seen \in 0..MaxHead /\ current \in Nat /\ faults \in Nat /\ paused \in BOOLEAN
      /\ left \subseteq Ids /\ search \in [1..MaxTx -> Search] /\ after \in Afters
      /\ pendingStagedOperations \subseteq Ids
  BY ProcessTypes, Types DEF CoreInv
<1>2. CASE startCycle
  BY <1>1, <1>2, QuietStep DEF startCycle, journal, Scanning, Searching, Steps
<1>3. CASE rpcFails
  BY <1>1, <1>3, EndStep DEF rpcFails
<1>4. CASE recovered
  <2>1. step = "staged" => pendingTransactions = {}
    BY DEF CoreInv, SingleInv, Scanning
  <2>2. /\ UNCHANGED chain /\ UNCHANGED <<settings, current, seen, journal, paused, disk, faults>>
        /\ UNCHANGED <<pendingTransactions, pendingStagedOperations, search>>
        /\ step \in {"recover", "staged"} /\ recoveryWorkBlocksExecution
    BY <1>4 DEF recovered, recoveryWorkBlocksExecution, journal
  <2>3. pendingTransactions = {}
    BY <2>1, <2>2 DEF recoveryWorkBlocksExecution
  <2>4. CASE Saving("idle") /\ UNCHANGED left
    BY <1>1, <2>2, <2>4, EndStep
  <2>5. CASE step' = "staged" /\ left' = pendingStagedOperations /\ UNCHANGED after
    BY <1>1, <2>2, <2>3, <2>5, QuietStep DEF Steps
  <2>6. CASE step' = "decide" /\ UNCHANGED <<after, left>> /\ pendingStagedOperations = {}
    BY <1>1, <2>2, <2>3, <2>6, QuietStep DEF Steps, Memory
  <2> QED BY <2>2, <2>4, <2>5, <2>6 DEF recoveryWorkBlocksExecution
<1>5. CASE decide
  <2>1. step = "decide" => Memory = {}
    BY DEF CoreInv, SingleInv
  <2>2. /\ UNCHANGED chain /\ UNCHANGED <<settings, current, left, journal, disk, faults>>
        /\ UNCHANGED <<pendingTransactions, pendingStagedOperations, search>>
        /\ step = "decide"
    BY <1>5 DEF decide, journal
  <2>3. CASE Saving("idle") /\ UNCHANGED <<seen, paused>>
    BY <1>1, <2>2, <2>3, EndStep
  <2>4. CASE step' = "sign" /\ seen' = head /\ UNCHANGED <<paused, after>>
    BY <1>1, <2>1, <2>2, <2>4, QuietStep DEF Steps, Scanning, Searching
  <2>5. CASE SafetyFault /\ UNCHANGED seen
    BY <1>1, <2>2, <2>5, EndStep DEF SafetyFault
  <2> QED BY <1>5, <2>3, <2>4, <2>5 DEF decide
<1> QED BY <1>2, <1>3, <1>4, <1>5

LEMMA PauseStep ==
    ASSUME CoreInv, setPaused
    PROVE  CoreInv'
<1>1. UNCHANGED chain /\ UNCHANGED <<settings, step, after, current, seen, left, journal, disk>>
  BY DEF setPaused
<1>2. paused' = TRUE \/ paused' = FALSE
  BY DEF setPaused
<1>3. faults' \in Nat
  <2>1. faults \in Nat
    BY DEF CoreInv, TypeOK
  <2>2. faults' = faults \/ faults' = faults + 1
    BY DEF setPaused
  <2> QED BY <2>1, <2>2
<1>4. /\ ChainInv' /\ NeverRebroadcast'
      /\ Outstanding' = Outstanding /\ \A i : Dead(i)' = Dead(i)
      /\ \A i : (Irrevocable(tx[i].at) /\ Queued(i))' = (Irrevocable(tx[i].at) /\ Queued(i))
      /\ Ids' = Ids /\ tx' = tx /\ head' = head /\ peak' = peak
  BY <1>1, ChainRests DEF CoreInv
<1>5. TypeOK'
  BY <1>1, <1>2, <1>3, ProcessTypes, TypesRest DEF CoreInv, journal
<1>6. ReadInv'
  BY <1>1, <1>4 DEF CoreInv, ReadInv
<1>7. JournalInv'
  BY <1>1, <1>4 DEF CoreInv, JournalInv, Memory, Disk, journal
<1>8. CurrentInv'
  BY <1>1, <1>4 DEF CoreInv, CurrentInv, Unsent, journal
<1>9. SingleInv'
  BY <1>1 DEF CoreInv, SingleInv, Memory, Disk, Scanning, Searching, journal
<1> QED BY <1>4, <1>5, <1>6, <1>7, <1>8, <1>9 DEF CoreInv

\* The process comes back with what its file says.
LEMMA RestartStep ==
    ASSUME CoreInv, restart
    PROVE  CoreInv'
<1>1. /\ UNCHANGED chain /\ UNCHANGED <<settings, paused, disk>> /\ faults' \in Nat
      /\ step' = "idle" /\ after' = "idle" /\ current' = 0 /\ seen' = 0
      /\ pendingTransactions' = disk.transactions /\ pendingStagedOperations' = disk.staged
      /\ search' = disk.search /\ left' = {}
  BY DEF restart, CoreInv, TypeOK
<1>2. /\ ChainInv' /\ NeverRebroadcast'
      /\ Outstanding' = Outstanding
      /\ \A i : (Irrevocable(tx[i].at) /\ Queued(i))' = (Irrevocable(tx[i].at) /\ Queued(i))
      /\ Ids' = Ids /\ tx' = tx
  BY <1>1, ChainRests DEF CoreInv
<1>3. TypeOK'
  BY <1>1, ProcessTypes, ConstantTypes, TypesRest DEF CoreInv, Steps, Afters
<1>4. JournalInv'
  BY <1>1, <1>2 DEF CoreInv, JournalInv, Memory, Disk
<1>5. ReadInv' /\ CurrentInv'
  BY <1>1 DEF ReadInv, CurrentInv, Unsent
<1>6. SingleInv'
  BY <1>1 DEF CoreInv, SingleInv, Memory, Disk, Scanning, Searching
<1> QED BY <1>2, <1>3, <1>4, <1>5, <1>6 DEF CoreInv

\* What a step that changes the journal and nothing of the chain has to show.
LEMMA JournalStep ==
    ASSUME CoreInv, UNCHANGED chain, UNCHANGED <<settings, disk>>, step # "save",
           current' \in Nat, seen' \in 0..MaxHead, paused' \in BOOLEAN, faults' \in Nat,
           step' = "save", after' \in {"idle", "recover", "staged"},
           left' \subseteq Ids, search' \in [1..MaxTx -> Search],
           pendingTransactions' \subseteq Ids, pendingStagedOperations' \subseteq Ids,
           Outstanding \subseteq Memory',
           \A i \in pendingStagedOperations' : Irrevocable(tx[i].at) /\ Queued(i),
           \A i, j \in Memory' : i = j,
           after' = "staged" => pendingTransactions' = {}
    PROVE  CoreInv'
<1>1. /\ ChainInv' /\ NeverRebroadcast' /\ Outstanding' = Outstanding
      /\ \A i : (Irrevocable(tx[i].at) /\ Queued(i))' = (Irrevocable(tx[i].at) /\ Queued(i))
      /\ Ids' = Ids /\ tx' = tx
  BY ChainRests DEF CoreInv
<1>2. TypeOK'
  BY ProcessTypes, TypesRest DEF CoreInv, Steps, Afters
<1>3. JournalInv'
  BY <1>1 DEF CoreInv, JournalInv, Memory, Disk
<1>4. ReadInv' /\ CurrentInv'
  BY DEF ReadInv, CurrentInv, Unsent
<1>5. SingleInv'
  BY DEF CoreInv, SingleInv, Memory, Disk, Scanning, Searching
<1> QED BY <1>1, <1>2, <1>3, <1>4, <1>5 DEF CoreInv

\* A final transaction leaves the journal, or stays in it as the liquidation it
\* queued.
LEMMA ResolveStep ==
    ASSUME CoreInv, UNCHANGED chain, UNCHANGED <<settings, left, disk>>, step # "save",
           current' \in Nat, seen' \in 0..MaxHead, paused' \in BOOLEAN, faults' \in Nat,
           NEW i \in pendingTransactions, Final(i), NEW next \in {"idle", "recover"},
           resolveRecoveredIntentJournal(i, next)
    PROVE  CoreInv'
<1>1. /\ step' = "save" /\ after' = next
      /\ pendingTransactions' = pendingTransactions \ {i}
      /\ pendingStagedOperations' = IF Queued(i) THEN pendingStagedOperations \cup {i}
                                    ELSE pendingStagedOperations
      /\ UNCHANGED search
  BY DEF resolveRecoveredIntentJournal, Saving
<1>2. /\ pendingTransactions \subseteq Ids /\ pendingStagedOperations \subseteq Ids /\ i \in Ids
      /\ Outstanding \subseteq Memory
      /\ \A k \in pendingStagedOperations : Irrevocable(tx[k].at) /\ Queued(k)
      /\ \A j, k \in Memory : j = k
  BY DEF CoreInv, TypeOK, JournalInv, SingleInv
<1>3. Irrevocable(tx[i].at)
  BY <1>2, Types, FinalIsIrrevocable DEF CoreInv, Final
<1>4. ~Queued(i) => i \notin Outstanding
  BY <1>3 DEF Outstanding
<1>5. Outstanding \subseteq Memory'
  BY <1>1, <1>2, <1>4 DEF Memory
<1>6. \A j, k \in Memory' : j = k
  BY <1>1, <1>2 DEF Memory
<1> QED BY <1>1, <1>2, <1>3, <1>5, <1>6, ProcessTypes, JournalStep DEF CoreInv

\* The first read of a recovery: a receipt, or none, and then the nonce.
LEMMA ReceiptStep ==
    ASSUME CoreInv, NEW i \in Ids, recoverReceipt(i)
    PROVE  CoreInv'
<1>1. /\ step = "recover" /\ i \in pendingTransactions
      /\ UNCHANGED <<chain, settings, left, disk, faults>>
  BY DEF recoverReceipt
<1>2. /\ head \in 0..MaxHead /\ current \in Nat /\ seen \in 0..MaxHead /\ faults \in Nat
      /\ paused \in BOOLEAN /\ pendingTransactions \subseteq Ids /\ i \in Nat
  BY ProcessTypes, Types DEF CoreInv, TypeOK, Ids
<1>3. CASE /\ Final(i) /\ Fits(i)
           /\ resolveRecoveredIntentJournal(i, IF tx[i].outcome = "reverted" THEN "idle"
                                               ELSE "recover")
           /\ paused' = (paused \/ tx[i].outcome = "reverted")
           /\ UNCHANGED <<current, seen>>
  <2>1. paused' \in BOOLEAN
    BY <1>2, <1>3
  <2> QED BY <1>1, <1>2, <1>3, <2>1, ResolveStep
<1>4. CASE Final(i) /\ ~Fits(i) /\ SafetyFault /\ UNCHANGED <<journal, current, seen>>
  BY <1>1, <1>2, <1>4, EndStep DEF SafetyFault
<1>5. CASE /\ ~Final(i) /\ tx[i].at # 0 /\ Saving("idle")
           /\ UNCHANGED <<journal, paused, current, seen>>
  BY <1>1, <1>2, <1>5, EndStep
<1>6. CASE /\ tx[i].at = 0
           /\ step' = "nonce" /\ current' = i /\ seen' = head
           /\ UNCHANGED <<journal, paused, after>>
  <2>1. /\ ChainInv' /\ NeverRebroadcast'
        /\ Outstanding' = Outstanding
        /\ \A k : (Irrevocable(tx[k].at) /\ Queued(k))' = (Irrevocable(tx[k].at) /\ Queued(k))
        /\ Ids' = Ids /\ tx' = tx /\ head' = head /\ peak' = peak
    BY <1>1, ChainRests DEF CoreInv
  <2>2. TypeOK'
    BY <1>1, <1>2, <1>6, ProcessTypes, TypesRest DEF CoreInv, Steps, journal
  <2>3. ReadInv'
    BY <1>2, <1>6, <2>1, ConstantTypes, Types DEF ReadInv, CoreInv, ChainInv
  <2>4. JournalInv'
    BY <1>1, <1>6, <2>1 DEF CoreInv, JournalInv, Memory, Disk, journal
  <2>5. CurrentInv'
    BY <1>1, <1>6, <2>1 DEF CurrentInv, Unsent, journal
  <2>6. SingleInv'
    BY <1>1, <1>6 DEF CoreInv, SingleInv, Memory, Disk, Scanning, Searching, journal
  <2> QED BY <2>1, <2>2, <2>3, <2>4, <2>5, <2>6 DEF CoreInv
<1> QED BY <1>3, <1>4, <1>5, <1>6 DEF recoverReceipt

LEMMA NonceStep ==
    ASSUME CoreInv, recoverNonce
    PROVE  CoreInv'
<1>1. /\ step = "nonce" /\ UNCHANGED <<chain, settings, current, seen, left, journal, disk, faults>>
      /\ \/ SafetyFault
         \/ step' = "heads" /\ UNCHANGED <<paused, after>>
  BY DEF recoverNonce
<1>2. current \in Nat /\ seen \in 0..MaxHead /\ faults \in Nat /\ paused \in BOOLEAN
  BY ProcessTypes DEF CoreInv
<1>3. CASE SafetyFault
  BY <1>1, <1>2, <1>3, EndStep DEF SafetyFault
<1>4. CASE step' = "heads" /\ UNCHANGED <<paused, after>>
  <2>1. /\ ChainInv' /\ NeverRebroadcast'
        /\ Outstanding' = Outstanding /\ \A k : Dead(k)' = Dead(k)
        /\ \A k : (Irrevocable(tx[k].at) /\ Queued(k))' = (Irrevocable(tx[k].at) /\ Queued(k))
        /\ Ids' = Ids /\ tx' = tx /\ head' = head /\ peak' = peak
    BY <1>1, ChainRests DEF CoreInv
  <2>2. TypeOK'
    BY <1>1, <1>2, <1>4, ProcessTypes, TypesRest DEF CoreInv, Steps, journal
  <2>3. ReadInv'
    BY <1>1, <1>4, <2>1 DEF CoreInv, ReadInv
  <2>4. JournalInv'
    BY <1>1, <1>4, <2>1 DEF CoreInv, JournalInv, Memory, Disk, journal
  <2>5. CurrentInv'
    BY <1>1, <1>4, <2>1 DEF CoreInv, CurrentInv, Unsent, journal
  <2>6. SingleInv'
    BY <1>1, <1>4 DEF CoreInv, SingleInv, Memory, Disk, Scanning, Searching, journal
  <2> QED BY <2>1, <2>2, <2>3, <2>4, <2>5, <2>6 DEF CoreInv
<1> QED BY <1>1, <1>3, <1>4

-----------------------------------------------------------------------------
(* The search for an outcome                                               *)

LEMMA SearchTypes ==
    /\ NoOutcome \in [at : 0..MaxHead, hash : Hashes, well : BOOLEAN]
    /\ NotSearched \in Search /\ NotSearched.candidateOutcome = NoOutcome
    /\ logLookbackBlocks \in Nat \ {0}
BY ConstantTypes, LiquidatorAssumption
   DEF NotSearched, NoOutcome, Search, Hashes, LiquidatorAssumption

\* What the logs say of a signed transaction is an outcome of its own.
LEMMA ScanLemma ==
    ASSUME TypeOK, NEW i \in Ids, NEW from, NEW to
    PROVE  /\ scanRange(i, from, to) \in [at : 0..MaxHead, hash : Hashes, well : BOOLEAN]
           /\ scanRange(i, from, to) # NoOutcome =>
                  /\ scanRange(i, from, to).at = tx[i].settledAt /\ tx[i].settledAt # 0
                  /\ scanRange(i, from, to).hash = <<tx[i].settledAt, branch[tx[i].settledAt]>>
<1>1. CASE tx[i].settledAt # 0 /\ tx[i].settledAt \in from..to
  <2>1. tx[i].settledAt \in 0..MaxHead /\ tx[i].settledWell \in BOOLEAN
    BY Types DEF Transaction
  <2>2. branch[tx[i].settledAt] \in Nat
    BY <2>1 DEF TypeOK
  <2>3. scanRange(i, from, to) = [at |-> tx[i].settledAt,
           hash |-> <<tx[i].settledAt, branch[tx[i].settledAt]>>, well |-> tx[i].settledWell]
    BY <1>1 DEF scanRange, BlockHash
  <2>4. <<tx[i].settledAt, branch[tx[i].settledAt]>> \in Hashes
    BY <2>1, <2>2 DEF Hashes
  <2> QED BY <1>1, <2>1, <2>3, <2>4
<1>2. CASE ~(tx[i].settledAt # 0 /\ tx[i].settledAt \in from..to)
  BY <1>2, SearchTypes DEF scanRange
<1> QED BY <1>1, <1>2

\* A gap is noted among the blocks of the chain.
LEMMA GapLemma ==
    ASSUME NEW s \in Search, NEW cursor \in Nat, NEW from \in Nat, from <= MaxHead \/ from = cursor
    PROVE  /\ recordStagedRecoveryGap(s, cursor, from) \in Search
           /\ recordStagedRecoveryGap(s, cursor, from).candidateOutcome = s.candidateOutcome
<1>1. s.nextHistoricalBlock \in 0..MaxHead /\ MaxHead \in Nat
  BY ConstantTypes DEF Search
<1>2. from > cursor => from - 1 \in 0..MaxHead
  BY <1>1
<1>3. from > cursor => Later(s.nextHistoricalBlock, from - 1) \in 0..MaxHead
  BY <1>1, <1>2 DEF Later
<1>4. CASE from <= cursor
  BY <1>4 DEF recordStagedRecoveryGap
<1>5. CASE from > cursor
  <2> DEFINE far == Later(s.nextHistoricalBlock, from - 1)
  <2>1. recordStagedRecoveryGap(s, cursor, from) =
          [s EXCEPT !.nextHistoricalBlock = far, !.historicalRecoveryComplete = FALSE]
    BY <1>5 DEF recordStagedRecoveryGap
  <2>2. far \in 0..MaxHead
    BY <1>3, <1>5
  <2> HIDE DEF far
  <2> QED BY <2>1, <2>2 DEF Search
<1> QED BY <1>4, <1>5

\* A search leaves what it was, or an outcome of the transaction.
LEMMA ChunkLemma ==
    ASSUME TypeOK, NEW i \in Ids, NEW s \in Search, NEW from \in Nat, NEW to \in 0..MaxHead,
           from <= to, NEW historical \in BOOLEAN, historical => queuedBlock(i) <= from
    PROVE  LET t == recordStagedRecoveryChunk(i, s, from, to, historical)
           IN  /\ t \in Search
               /\ t.candidateOutcome \in {s.candidateOutcome, scanRange(i, from, to)}
<1> DEFINE outcome == scanRange(i, from, to)
           found == [s EXCEPT !.candidateOutcome = outcome]
           back == [s EXCEPT !.nextHistoricalBlock = IF from = queuedBlock(i) THEN 0 ELSE from - 1,
                             !.historicalRecoveryComplete = @ \/ from = queuedBlock(i)]
           forth == [s EXCEPT !.latestRecoveryBlock = Later(@, to),
                              !.nextHistoricalBlock =
                                 IF @ = 0 /\ ~s.historicalRecoveryComplete /\ from > queuedBlock(i)
                                 THEN from - 1 ELSE @]
           u == IF outcome # NoOutcome THEN found ELSE IF historical THEN back ELSE forth
<1>1. /\ s.nextHistoricalBlock \in 0..MaxHead /\ s.latestRecoveryBlock \in 0..MaxHead
      /\ s.anchorBlock \in 0..MaxHead /\ MaxHead \in Nat /\ queuedBlock(i) \in Nat
      /\ s.historicalRecoveryComplete \in BOOLEAN
  BY ConstantTypes, Types DEF Search, queuedBlock
<1>2. /\ Later(s.latestRecoveryBlock, to) \in 0..MaxHead
      /\ Later(s.anchorBlock, to) \in 0..MaxHead
      /\ historical /\ from # queuedBlock(i) => from - 1 \in 0..MaxHead
      /\ from > queuedBlock(i) => from - 1 \in 0..MaxHead
  BY <1>1 DEF Later
<1>3. outcome \in [at : 0..MaxHead, hash : Hashes, well : BOOLEAN]
  BY ScanLemma
<1>4. found \in Search /\ found.candidateOutcome = outcome /\ found.anchorBlock = s.anchorBlock
  <2> HIDE DEF outcome
  <2> QED BY <1>3 DEF Search
<1>5. historical => /\ back \in Search /\ back.candidateOutcome = s.candidateOutcome
                    /\ back.anchorBlock = s.anchorBlock
  <2>1. historical => (IF from = queuedBlock(i) THEN 0 ELSE from - 1) \in 0..MaxHead
    BY <1>1, <1>2
  <2>2. (s.historicalRecoveryComplete \/ from = queuedBlock(i)) \in BOOLEAN
    OBVIOUS
  <2> QED BY <2>1, <2>2 DEF Search
<1>6. /\ forth \in Search /\ forth.candidateOutcome = s.candidateOutcome
      /\ forth.anchorBlock = s.anchorBlock
  <2>1. (IF s.nextHistoricalBlock = 0 /\ ~s.historicalRecoveryComplete /\ from > queuedBlock(i)
         THEN from - 1 ELSE s.nextHistoricalBlock) \in 0..MaxHead
    BY <1>1, <1>2
  <2> QED BY <1>2, <2>1 DEF Search
<1>7. recordStagedRecoveryChunk(i, s, from, to, historical) =
        [u EXCEPT !.anchorBlock = Later(@, to)]
  BY DEF recordStagedRecoveryChunk
<1>8. /\ u \in Search /\ u.anchorBlock = s.anchorBlock
      /\ u.candidateOutcome \in {s.candidateOutcome, outcome}
  <2> HIDE DEF found, back, forth, outcome
  <2> QED BY <1>4, <1>5, <1>6
<1>9. [u EXCEPT !.anchorBlock = Later(@, to)] \in Search
  <2>1. Later(u.anchorBlock, to) \in 0..MaxHead
    BY <1>2, <1>8
  <2> HIDE DEF u
  <2> QED BY <1>8, <2>1 DEF Search
<1>10. [u EXCEPT !.anchorBlock = Later(@, to)].candidateOutcome = u.candidateOutcome
  <2> HIDE DEF u
  <2> QED BY <1>8 DEF Search
<1> HIDE DEF u, outcome
<1> QED BY <1>7, <1>8, <1>9, <1>10 DEF outcome

\* Two states of a search that hold together: the outcome is the old one, or
\* what the logs say.
Follows(i, t, s) ==
    /\ t \in Search
    /\ t.candidateOutcome = s.candidateOutcome \/ Holds(t, tx[i], branch)

LEMMA ScanHolds ==
    ASSUME TypeOK, NEW i \in Ids, NEW from, NEW to, NEW t \in Search,
           t.candidateOutcome = scanRange(i, from, to)
    PROVE  Holds(t, tx[i], branch)
<1>1. tx[i].settledAt \in 0..MaxHead
  BY Types DEF Transaction
<1>2. branch[tx[i].settledAt] \in Nat
  BY <1>1 DEF TypeOK
<1> QED BY <1>2, ScanLemma DEF Holds

\* What a search of the latest blocks leaves.
LEMMA LatestFollows ==
    ASSUME TypeOK, current \in Ids, searchLatest
    PROVE  /\ search' = [search EXCEPT ![current] = search'[current]]
           /\ Follows(current, search'[current], search[current])
           /\ \/ step' \in {"history", "ancestry"} /\ after' = after
              \/ step' = "anchor" /\ after' \in {"history", "ancestry"}
<1> DEFINE s == search[current]
           cursor == IF s.latestRecoveryBlock = 0 THEN queuedBlock(current)
                     ELSE s.latestRecoveryBlock + 1
           from == Later(cursor, seen + 1 - logLookbackBlocks)
           kept == recordStagedRecoveryGap(s, cursor, from)
           next == recordStagedRecoveryChunk(current, kept, from, seen, FALSE)
<1>1. s \in Search /\ current \in 1..MaxTx /\ seen \in 0..MaxHead /\ MaxHead \in Nat
  BY ProcessTypes, ConstantTypes
<1>2. s.latestRecoveryBlock \in Nat /\ queuedBlock(current) \in Nat
  BY <1>1, Types DEF Search, queuedBlock
<1>3. cursor \in Nat
  BY <1>2
<1>4. from \in Nat /\ from >= cursor /\ (from <= MaxHead \/ from = cursor)
  BY <1>1, <1>3, SearchTypes DEF Later
<1>5. kept \in Search /\ kept.candidateOutcome = s.candidateOutcome
  <2> HIDE DEF s, cursor, from
  <2> QED BY <1>1, <1>3, <1>4, GapLemma
<1>6. CASE /\ search' = [search EXCEPT ![current] = kept]
           /\ step' \in {"history", "ancestry"} /\ after' = after
  <2>1. search'[current] = kept
    <3> HIDE DEF kept
    <3> QED BY <1>1, <1>6, ProcessTypes
  <2> HIDE DEF kept, s
  <2> QED BY <1>5, <1>6, <2>1 DEF Follows, s
<1>7. CASE /\ from <= seen /\ search' = [search EXCEPT ![current] = next]
           /\ step' = "anchor" /\ after' \in {"history", "ancestry"}
  <2>1. /\ next \in Search
        /\ next.candidateOutcome \in {kept.candidateOutcome, scanRange(current, from, seen)}
    <3> HIDE DEF kept, from
    <3> QED BY <1>1, <1>4, <1>5, <1>7, ChunkLemma
  <2>2. search'[current] = next
    <3> HIDE DEF next
    <3> QED BY <1>1, <1>7, ProcessTypes
  <2> HIDE DEF next, s, kept, from
  <2>3. next.candidateOutcome = s.candidateOutcome \/ Holds(next, tx[current], branch)
    BY <1>5, <2>1, ScanHolds
  <2> QED BY <1>7, <2>1, <2>2, <2>3 DEF Follows, s
<1>8. IF s.candidateOutcome # NoOutcome
      THEN step' = "ancestry" /\ after' = after /\ search' = [search EXCEPT ![current] = kept]
      ELSE IF from > seen
      THEN step' = "history" /\ after' = after /\ search' = [search EXCEPT ![current] = kept]
      ELSE /\ step' = "anchor" /\ search' = [search EXCEPT ![current] = next]
           /\ after' \in {"history", "ancestry"}
  BY DEF searchLatest
<1> HIDE DEF s, kept, next, from
<1> QED BY <1>1, <1>4, <1>6, <1>7, <1>8

\* What a search of a part of the gap leaves.
LEMMA HistoryFollows ==
    ASSUME TypeOK, current \in Ids, searchHistory
    PROVE  \/ step' = "staged" /\ after' = after /\ search' = search
           \/ /\ step' = "anchor" /\ after' \in {"ancestry", "staged"}
              /\ search' = [search EXCEPT ![current] = search'[current]]
              /\ Follows(current, search'[current], search[current])
<1> DEFINE s == search[current]
           to == s.nextHistoricalBlock
           from == Later(queuedBlock(current), to + 1 - logLookbackBlocks)
           next == recordStagedRecoveryChunk(current, s, from, to, TRUE)
<1>1. s \in Search /\ current \in 1..MaxTx
  BY ProcessTypes
<1>2. to \in 0..MaxHead /\ MaxHead \in Nat /\ queuedBlock(current) \in Nat
  BY <1>1, ConstantTypes, Types DEF Search, queuedBlock
<1>3. CASE /\ to >= queuedBlock(current) /\ step' = "anchor" /\ after' \in {"ancestry", "staged"}
           /\ search' = [search EXCEPT ![current] = next]
  <2>1. from \in Nat /\ from <= to /\ queuedBlock(current) <= from
    BY <1>2, <1>3, SearchTypes DEF Later
  <2>2. /\ next \in Search
        /\ next.candidateOutcome \in {s.candidateOutcome, scanRange(current, from, to)}
    <3> HIDE DEF s, to, from
    <3> QED BY <1>1, <1>2, <2>1, ChunkLemma
  <2>3. search'[current] = next
    <3> HIDE DEF next
    <3> QED BY <1>1, <1>3, ProcessTypes
  <2> HIDE DEF next, s, from, to
  <2>4. next.candidateOutcome = s.candidateOutcome \/ Holds(next, tx[current], branch)
    BY <2>2, ScanHolds
  <2> QED BY <1>3, <2>2, <2>3, <2>4 DEF Follows, s
<1> QED BY <1>3 DEF searchHistory

\* One look at a staged operation, while the journal stays what it is.
LEMMA LookStep ==
    ASSUME CoreInv, SearchInv, UNCHANGED chain, UNCHANGED <<settings, disk>>,
           UNCHANGED <<pendingTransactions, pendingStagedOperations>>,
           step # "save", pendingTransactions = {},
           current' \in pendingStagedOperations, left' = {}, seen' \in 0..MaxHead,
           paused' \in BOOLEAN, faults' \in Nat,
           NEW t, search' = [search EXCEPT ![current'] = t],
           Follows(current', t, search[current']),
           \/ step' = "save" /\ after' \in Afters \ {"check"}
           \/ step' \in {"search", "history", "ancestry", "staged"} /\ after' \in Afters
           \/ step' = "anchor" /\ after' \in {"history", "ancestry", "staged"}
    PROVE  CoreInv' /\ SearchInv'
<1>1. /\ current' \in Ids /\ current' \in 1..MaxTx /\ current' \in Nat
      /\ search \in [1..MaxTx -> Search] /\ t \in Search /\ Ids \subseteq 1..MaxTx
  BY ProcessTypes DEF CoreInv, Follows
<1>2. search' \in [1..MaxTx -> Search]
  BY <1>1
<1>3. CoreInv'
  BY <1>1, <1>2, QuietStep DEF Steps, Afters
<1>4. /\ search'[current'] = t /\ \A i \in (1..MaxTx) \ {current'} : search'[i] = search[i]
      /\ disk' = disk /\ Ids' = Ids /\ tx' = tx /\ branch' = branch
  BY <1>1 DEF chain, Ids
<1>5. Holds(t, tx[current'], branch)
  BY <1>1 DEF SearchInv, Follows, Holds
<1>6. \A i \in Ids : Holds(search'[i], tx[i], branch) /\ Holds(disk.search[i], tx[i], branch)
  BY <1>1, <1>4, <1>5 DEF SearchInv
<1>7. \A i \in (1..MaxTx) \ Ids : search'[i] = NotSearched /\ disk.search[i] = NotSearched
  BY <1>1, <1>4 DEF SearchInv
<1>8. SearchInv'
  BY <1>4, <1>6, <1>7 DEF SearchInv, Afters
<1> QED BY <1>3, <1>8

\* The first look reads the head and drops what was found on replaced blocks.
LEMMA StagedStep ==
    ASSUME CoreInv, SearchInv, NEW i \in Ids, reconcileStaged(i)
    PROVE  CoreInv' /\ SearchInv'
<1>1. /\ step = "staged" /\ i \in left /\ left' = left \ {i} /\ current' = i /\ seen' = head
      /\ UNCHANGED <<chain, settings, pendingTransactions, pendingStagedOperations, paused, disk,
                     faults>>
  BY DEF reconcileStaged
<1>2. /\ i \in pendingStagedOperations /\ left' = {} /\ pendingTransactions = {}
      /\ head \in 0..MaxHead /\ faults \in Nat /\ paused \in BOOLEAN /\ after \in Afters
      /\ search \in [1..MaxTx -> Search] /\ i \in 1..MaxTx
  BY <1>1, ProcessTypes, Types DEF CoreInv, SearchInv, SingleInv, Memory, Scanning
<1>3. CASE step' = "search" /\ UNCHANGED <<search, after>>
  <2>1. search' = [search EXCEPT ![i] = search[i]] /\ Follows(i, search[i], search[i])
    BY <1>2, <1>3 DEF Follows
  <2> QED BY <1>1, <1>2, <1>3, <2>1, LookStep
<1>4. CASE Saving("search") /\ search' = [search EXCEPT ![i] = NotSearched]
  <2>1. Follows(i, NotSearched, search[i])
    BY SearchTypes DEF Follows, Holds
  <2>2. step' = "save" /\ after' \in Afters \ {"check"}
    BY <1>4 DEF Saving, Afters
  <2> QED BY <1>1, <1>2, <1>4, <2>1, <2>2, LookStep
<1> QED BY <1>3, <1>4 DEF reconcileStaged

\* The steps between the first look and the last.
LEMMA SearchSteps ==
    ASSUME CoreInv, SearchInv, searchLatest \/ searchHistory \/ retainRecoveryAnchor
    PROVE  CoreInv' /\ SearchInv'
<1>1. /\ step \in {"search", "history", "anchor"}
      /\ UNCHANGED <<chain, settings, current, seen, left, pendingTransactions,
                     pendingStagedOperations, paused, disk, faults>>
  BY DEF searchLatest, searchHistory, retainRecoveryAnchor
<1>2. /\ current \in pendingStagedOperations /\ left = {} /\ pendingTransactions = {}
      /\ seen \in 0..MaxHead /\ faults \in Nat /\ paused \in BOOLEAN /\ after \in Afters
      /\ search \in [1..MaxTx -> Search] /\ current \in 1..MaxTx /\ current \in Ids
  BY <1>1, ProcessTypes DEF CoreInv, SearchInv, SingleInv, Scanning, Searching
<1>3. search = [search EXCEPT ![current] = search[current]]
      /\ Follows(current, search[current], search[current])
  BY <1>2 DEF Follows
<1>4. CASE searchLatest
  BY <1>1, <1>2, <1>4, LatestFollows, LookStep DEF CoreInv, Afters
<1>5. CASE searchHistory
  BY <1>1, <1>2, <1>3, <1>5, HistoryFollows, LookStep DEF CoreInv, Afters
<1>6. CASE retainRecoveryAnchor
  <2>1. CASE Saving("idle") /\ UNCHANGED search
    BY <1>1, <1>2, <1>3, <2>1, LookStep DEF Saving, Afters
  <2>2. CASE /\ step' = "save" /\ UNCHANGED after
             /\ search' = [search EXCEPT ![current].anchorHash =
                              BlockHash(search[current].anchorBlock)]
    <3> DEFINE t == [search[current] EXCEPT !.anchorHash = BlockHash(search[current].anchorBlock)]
    <3>1. search[current] \in Search
      BY <1>2
    <3>2. BlockHash(search[current].anchorBlock) \in Hashes
      BY <3>1 DEF Search, Hashes, BlockHash, CoreInv, TypeOK
    <3>3. t \in Search /\ t.candidateOutcome = search[current].candidateOutcome
      BY <3>1, <3>2 DEF Search
    <3>4. search' = [search EXCEPT ![current] = t]
      BY <2>2
    <3>5. after \in Afters \ {"check"}
      BY <1>1, <1>6 DEF SearchInv, retainRecoveryAnchor, Afters
    <3> HIDE DEF t
    <3>6. Follows(current, t, search[current])
      BY <3>3 DEF Follows
    <3> QED BY <1>1, <1>2, <2>2, <3>4, <3>5, <3>6, LookStep
  <2> QED BY <1>6, <2>1, <2>2 DEF retainRecoveryAnchor
<1> QED BY <1>4, <1>5, <1>6

\* What every other step keeps of the searches.
LEMMA SearchRests ==
    ASSUME CoreInv, SearchInv, Ids \subseteq Ids', Ids' \subseteq 1..MaxTx,
           \A b \in 0..MaxHead : branch'[b] \in Nat /\ branch'[b] >= branch[b],
           \A b \in (0..MaxHead) \ {0}, i \in Ids :
              branch'[b] = branch[b] /\ tx[i].settledAt = b => tx'[i].settledAt = b,
           \A i \in 1..MaxTx : /\ search'[i] \in {search[i], disk.search[i], NotSearched}
                              /\ disk'.search[i] \in {search[i], disk.search[i]},
           left' \subseteq pendingStagedOperations',
           Searching' => current' \in pendingStagedOperations' /\ left' = {},
           step' = "anchor" => after' \in {"history", "ancestry", "staged"}
    PROVE  SearchInv'
<1>1. Ids \subseteq 1..MaxTx
  OBVIOUS
<1>2. ASSUME NEW i \in Ids, NEW s \in Search, Holds(s, tx[i], branch)
      PROVE  Holds(s, tx'[i], branch')
  <2> SUFFICES ASSUME s.candidateOutcome # NoOutcome
               PROVE  Holds(s, tx'[i], branch')
    BY DEF Holds
  <2> DEFINE c == s.candidateOutcome
  <2>1. /\ c.at # 0 /\ c.hash = <<c.at, c.hash[2]>> /\ c.hash[2] \in 0..branch[c.at]
        /\ c.hash[2] = branch[c.at] => tx[i].settledAt = c.at
    BY <1>2 DEF Holds
  <2>2. c.at \in (0..MaxHead) \ {0}
    BY <2>1 DEF Search
  <2> HIDE DEF c
  <2>3. branch[c.at] \in Nat /\ branch'[c.at] \in Nat /\ branch'[c.at] >= branch[c.at]
    BY <2>2 DEF CoreInv, TypeOK
  <2>4. c.hash[2] \in 0..branch'[c.at]
    BY <2>1, <2>3
  <2>5. c.hash[2] = branch'[c.at] => tx'[i].settledAt = c.at
    <3>1. c.hash[2] = branch'[c.at] => c.hash[2] = branch[c.at] /\ branch'[c.at] = branch[c.at]
      BY <2>1, <2>3
    <3> QED BY <2>1, <2>2, <3>1
  <2> QED BY <2>1, <2>4, <2>5 DEF Holds, c
<1>3. \A i, t, b : Holds(NotSearched, t, b)
  BY SearchTypes DEF Holds
<1>4. \A i \in 1..MaxTx : search[i] \in Search /\ disk.search[i] \in Search
  BY ProcessTypes DEF CoreInv
<1>5. \A i \in Ids : Holds(search[i], tx'[i], branch') /\ Holds(disk.search[i], tx'[i], branch')
  BY <1>1, <1>2, <1>4 DEF SearchInv
<1>6. \A i \in Ids : Holds(search'[i], tx'[i], branch') /\ Holds(disk'.search[i], tx'[i], branch')
  BY <1>1, <1>3, <1>5
<1>7. \A i \in (1..MaxTx) \ Ids : search'[i] = NotSearched /\ disk'.search[i] = NotSearched
  BY DEF SearchInv
<1>8. \A i \in Ids' : Holds(search'[i], tx'[i], branch') /\ Holds(disk'.search[i], tx'[i], branch')
  BY <1>3, <1>6, <1>7
<1>9. \A i \in (1..MaxTx) \ Ids' : search'[i] = NotSearched /\ disk'.search[i] = NotSearched
  BY <1>7
<1> QED BY <1>8, <1>9 DEF SearchInv

\* The same, when the blocks rest and each search is one that was there.
LEMMA SearchStays ==
    ASSUME CoreInv, SearchInv, Ids' = Ids, UNCHANGED branch,
           \A i \in Ids : tx'[i].settledAt = tx[i].settledAt,
           search' \in {search, disk.search}, disk'.search \in {search, disk.search},
           left' \subseteq pendingStagedOperations',
           Searching' => current' \in pendingStagedOperations' /\ left' = {},
           step' = "anchor" => after' \in {"history", "ancestry", "staged"}
    PROVE  SearchInv'
<1>1. \A b \in 0..MaxHead : branch'[b] \in Nat /\ branch'[b] >= branch[b]
  <2>1. \A b \in 0..MaxHead : branch[b] \in Nat
    BY DEF CoreInv, TypeOK
  <2> QED BY <2>1
<1>2. Ids \subseteq 1..MaxTx
  BY ProcessTypes DEF CoreInv
<1> QED BY <1>1, <1>2, SearchRests

\* The last look: a final outcome ends the operation.
LEMMA ConfirmStep ==
    ASSUME CoreInv, SearchInv, confirmOutcome
    PROVE  CoreInv' /\ SearchInv'
<1> DEFINE outcome == search[current].candidateOutcome
           deepest == outcome.at + PRIVATE_INTENT_FINALITY_BLOCKS
<1>1. /\ step = "ancestry" /\ UNCHANGED <<chain, settings, current, seen, left, disk, faults>>
  BY DEF confirmOutcome
<1>2. /\ current \in pendingStagedOperations /\ left = {} /\ pendingTransactions = {}
      /\ seen \in 0..MaxHead /\ faults \in Nat /\ paused \in BOOLEAN /\ after \in Afters
      /\ search \in [1..MaxTx -> Search] /\ current \in 1..MaxTx /\ current \in Ids
      /\ current \in Nat
  BY <1>1, ProcessTypes DEF CoreInv, SearchInv, SingleInv, Scanning, Searching
<1>3. search[current] \in Search
  BY <1>2
<1>4. CASE step' = "staged" /\ UNCHANGED <<journal, paused, after>>
  <2>1. search' = [search EXCEPT ![current] = search[current]]
        /\ Follows(current, search[current], search[current])
    BY <1>2, <1>4 DEF Follows, journal
  <2>2. UNCHANGED <<pendingTransactions, pendingStagedOperations>>
    BY <1>4 DEF journal
  <2> QED BY <1>1, <1>2, <1>4, <2>1, <2>2, LookStep
<1>5. CASE Saving("idle") /\ UNCHANGED <<journal, paused>>
  <2>1. search' = [search EXCEPT ![current] = search[current]]
        /\ Follows(current, search[current], search[current])
    BY <1>2, <1>5 DEF Follows, journal
  <2>2. UNCHANGED <<pendingTransactions, pendingStagedOperations>>
        /\ step' = "save" /\ after' \in Afters \ {"check"}
    BY <1>5 DEF journal, Saving, Afters
  <2> QED BY <1>1, <1>2, <1>5, <2>1, <2>2, LookStep
<1>6. CASE /\ search' = [search EXCEPT ![current].candidateOutcome = NoOutcome]
           /\ Saving("staged")
           /\ UNCHANGED <<pendingTransactions, pendingStagedOperations, paused>>
  <2> DEFINE t == [search[current] EXCEPT !.candidateOutcome = NoOutcome]
  <2>1. t \in Search /\ t.candidateOutcome = NoOutcome
    BY <1>3, SearchTypes DEF Search
  <2>2. search' = [search EXCEPT ![current] = t] /\ step' = "save" /\ after' \in Afters \ {"check"}
    BY <1>6 DEF Saving, Afters
  <2> HIDE DEF t
  <2>3. Follows(current, t, search[current])
    BY <2>1 DEF Follows, Holds
  <2> QED BY <1>1, <1>2, <1>6, <2>2, <2>3, LookStep
<1>7. CASE /\ head >= deepest /\ outcome.hash = BlockHash(outcome.at)
           /\ search' = [search EXCEPT ![current] = NotSearched]
           /\ pendingStagedOperations' = pendingStagedOperations \ {current}
           /\ (Saving("staged") /\ UNCHANGED paused) \/ SafetyFault
           /\ UNCHANGED pendingTransactions
  <2>1. /\ outcome.at \in 0..MaxHead /\ branch[outcome.at] \in Nat
    BY <1>3 DEF Search, CoreInv, TypeOK
  <2>2. outcome # NoOutcome
    BY <1>7 DEF NoOutcome, BlockHash
  <2>3. outcome.at # 0 /\ tx[current].settledAt = outcome.at
    <3>1. Holds(search[current], tx[current], branch)
      BY <1>2 DEF SearchInv
    <3>2. /\ outcome.at # 0
          /\ outcome.hash[2] = branch[outcome.at] => tx[current].settledAt = outcome.at
      BY <2>2, <3>1 DEF Holds
    <3>3. outcome.hash = <<outcome.at, branch[outcome.at]>>
      BY <1>7 DEF BlockHash
    <3>4. outcome.hash[2] = branch[outcome.at]
      BY <3>3
    <3> QED BY <3>2, <3>4
  <2>4. Deep(tx[current].settledAt)
    BY <1>7, <2>3 DEF Deep
  <2>5. Irrevocable(tx[current].settledAt)
    BY <1>2, <2>4, Types, FinalIsIrrevocable DEF CoreInv
  <2>6. /\ Outstanding \subseteq Memory
        /\ \A k \in pendingStagedOperations : Irrevocable(tx[k].at) /\ Queued(k)
        /\ \A j, k \in Memory : j = k
        /\ pendingStagedOperations \subseteq Ids
    BY ProcessTypes DEF CoreInv, JournalInv, SingleInv
  <2>7. current \notin Outstanding
    BY <1>2, <2>5, <2>6 DEF Outstanding
  <2>8. Outstanding \subseteq Memory' /\ \A j, k \in Memory' : j = k
    BY <1>7, <2>6, <2>7 DEF Memory
  <2>9. /\ step' = "save" /\ after' \in {"idle", "staged"} /\ paused' \in BOOLEAN
    BY <1>2, <1>7 DEF Saving, SafetyFault
  <2>10. search' \in [1..MaxTx -> Search]
    BY <1>2, <1>7, SearchTypes
  <2>11. /\ UNCHANGED chain /\ UNCHANGED <<settings, disk>> /\ step # "save"
         /\ current' \in Nat /\ seen' \in 0..MaxHead /\ faults' \in Nat /\ left' = {}
         /\ pendingTransactions' = {} /\ pendingStagedOperations' \subseteq Ids
    BY <1>1, <1>2, <1>7, <2>6
  <2>12. \A k \in pendingStagedOperations' : Irrevocable(tx[k].at) /\ Queued(k)
    BY <1>7, <2>6
  <2>13. CoreInv'
    BY <2>8, <2>9, <2>10, <2>11, <2>12, JournalStep
  <2>14. /\ Ids' = Ids /\ tx' = tx /\ branch' = branch /\ ~Searching' /\ step' # "anchor"
    BY <2>9, <2>11 DEF chain, Ids, Searching
  <2>15. \A b \in 0..MaxHead : branch'[b] \in Nat /\ branch'[b] >= branch[b]
    <3>1. \A b \in 0..MaxHead : branch[b] \in Nat
      BY DEF CoreInv, TypeOK
    <3> QED BY <2>14, <3>1
  <2>16. \A i \in 1..MaxTx : search'[i] \in {search[i], disk.search[i], NotSearched}
    BY <1>2, <1>7
  <2>17. Ids \subseteq 1..MaxTx
    BY ProcessTypes DEF CoreInv
  <2>18. SearchInv'
    BY <2>11, <2>14, <2>15, <2>16, <2>17, SearchRests
  <2> QED BY <2>13, <2>18
<1> QED BY <1>4, <1>5, <1>6, <1>7 DEF confirmOutcome

-----------------------------------------------------------------------------
(* Handing a transaction over                                              *)

\* Only the count of submissions changes, and only the transaction handed over
\* may become outstanding, if it is not dead.
LEMMA HandLemma ==
    ASSUME TypeOK, ChainInv, NEW k \in Ids, NEW h \in 0..2,
           tx' = [tx EXCEPT ![k].handed = h], UNCHANGED <<head, peak, foreign>>
    PROVE  /\ tx' \in Seq(Transaction) /\ Ids' = Ids /\ ChainInv'
           /\ \A i \in Ids : /\ Dead(i) => Dead(i)'
                             /\ Irrevocable(tx[i].at) /\ Queued(i) =>
                                    (Irrevocable(tx[i].at) /\ Queued(i))'
                             /\ tx'[i].call = tx[i].call
                             /\ i # k => tx'[i].handed = tx[i].handed
           /\ tx'[k].handed = h
           /\ Dead(k) => Outstanding' \subseteq Outstanding
           /\ Outstanding' \subseteq Outstanding \cup {k}
<1>1. tx \in Seq(Transaction) /\ \A i \in Ids : tx[i] \in Transaction
  BY Types DEF TypeOK
<1>2. [tx[k] EXCEPT !.handed = h] \in Transaction
  BY <1>1 DEF Transaction
<1>3. tx' = [tx EXCEPT ![k] = [tx[k] EXCEPT !.handed = h]]
  OBVIOUS
<1>4. tx' \in Seq(Transaction) /\ Ids' = Ids
  BY <1>1, <1>2, <1>3 DEF Ids
<1>5. /\ tx'[k] = [tx[k] EXCEPT !.handed = h]
      /\ \A i \in Ids \ {k} : tx'[i] = tx[i]
  BY <1>1, <1>3 DEF Ids
<1>6. tx'[k].handed = h
  BY <1>1, <1>5 DEF Transaction
<1>7. \A i \in Ids : /\ tx'[i].call = tx[i].call /\ tx'[i].nonce = tx[i].nonce
                     /\ tx'[i].mode = tx[i].mode /\ tx'[i].at = tx[i].at
                     /\ tx'[i].maxBlockNumber = tx[i].maxBlockNumber
                     /\ tx'[i].outcome = tx[i].outcome /\ tx'[i].settledAt = tx[i].settledAt
  <2>1. /\ tx'[k].call = tx[k].call /\ tx'[k].nonce = tx[k].nonce
        /\ tx'[k].mode = tx[k].mode /\ tx'[k].at = tx[k].at
        /\ tx'[k].maxBlockNumber = tx[k].maxBlockNumber
        /\ tx'[k].outcome = tx[k].outcome /\ tx'[k].settledAt = tx[k].settledAt
    BY <1>1, <1>5 DEF Transaction
  <2> QED BY <1>5, <2>1
<1>8. ChainInv'
  BY <1>4, <1>7 DEF ChainInv
<1>9. \A i \in Ids : Dead(i)' = Dead(i)
  BY <1>7 DEF Dead, Irrevocable
<1>10. \A i \in Ids : /\ Irrevocable(tx[i].at)' = Irrevocable(tx[i].at)
                      /\ Irrevocable(tx[i].settledAt)' = Irrevocable(tx[i].settledAt)
                      /\ Queued(i)' = Queued(i)
  BY <1>7 DEF Irrevocable, Queued
<1>11. Outstanding' \subseteq Outstanding \cup {k}
  BY <1>4, <1>5, <1>9, <1>10 DEF Outstanding
<1>12. Dead(k) => k \notin Outstanding'
  BY <1>9, <1>7 DEF Outstanding, Dead, Irrevocable
<1> QED BY <1>4, <1>5, <1>6, <1>7, <1>8, <1>9, <1>10, <1>11, <1>12

\* A submission, the first or one more, of the transaction the cycle is about.
LEMMA HandStep ==
    ASSUME CoreInv, step \in {"heads", "send"}, NEW h \in 0..2,
           current \in Ids, current \in pendingTransactions \/ Dead(current),
           tx' = [tx EXCEPT ![current].handed = h],
           tx[current].call.requiresMarketEvidence => h <= 1,
           UNCHANGED <<head, peak, branch, foreign, stale, settings, current, seen, left, journal,
                     disk, faults>>,
           paused' \in BOOLEAN, Saving("idle") \/ (step' = "wait" /\ UNCHANGED after)
    PROVE  CoreInv'
<1>1. /\ tx' \in Seq(Transaction) /\ Ids' = Ids /\ ChainInv'
      /\ \A i \in Ids : /\ Dead(i) => Dead(i)'
                        /\ Irrevocable(tx[i].at) /\ Queued(i) =>
                               (Irrevocable(tx[i].at) /\ Queued(i))'
                        /\ tx'[i].call = tx[i].call
                        /\ i # current => tx'[i].handed = tx[i].handed
      /\ tx'[current].handed = h
      /\ Dead(current) => Outstanding' \subseteq Outstanding
      /\ Outstanding' \subseteq Outstanding \cup {current}
  BY HandLemma DEF CoreInv
<1>2. TypeOK'
  <2>1. /\ UNCHANGED <<head, peak, branch, foreign, stale, mode, historicalLogRecovery, current,
                       seen, left, pendingTransactions, pendingStagedOperations, search, disk,
                       faults>>
        /\ Ids' = Ids /\ step' \in {"save", "wait"} /\ after' \in {"idle", after}
    BY <1>1 DEF settings, journal, Saving
  <2>2. UNION {pendingTransactions', pendingStagedOperations', left', stale'} \subseteq Ids'
    BY <2>1 DEF CoreInv, TypeOK
  <2> QED BY <1>1, <2>1, <2>2 DEF CoreInv, TypeOK
<1>3. ReadInv'
  BY DEF ReadInv, Saving
<1>4. NeverRebroadcast'
  BY <1>1 DEF CoreInv, NeverRebroadcast
<1>5. Memory' = Memory /\ Disk' = Disk /\ Memory = Disk
  BY DEF CoreInv, JournalInv, Memory, Disk, journal
<1>6. Outstanding' \subseteq Memory
  BY <1>1 DEF CoreInv, JournalInv, Memory
<1>7. pendingStagedOperations \cup disk.staged \subseteq Ids
  BY DEF CoreInv, TypeOK
<1>8. JournalInv'
  BY <1>1, <1>5, <1>6, <1>7 DEF CoreInv, JournalInv, journal, Saving
<1>9. CurrentInv'
  BY <1>1 DEF CurrentInv, Unsent, journal, Saving
<1>10. SingleInv'
  BY <1>5 DEF CoreInv, SingleInv, Scanning, Searching, journal, Saving
<1> QED BY <1>1, <1>2, <1>3, <1>4, <1>8, <1>9, <1>10 DEF CoreInv

LEMMA SubmitStep ==
    ASSUME CoreInv, submitSignedTransaction
    PROVE  CoreInv'
<1>1. /\ step = "send" /\ current \in Ids /\ tx[current].handed = 0
      /\ current \in pendingTransactions \/ Dead(current)
  BY DEF submitSignedTransaction, CoreInv, CurrentInv, Unsent
<1>2. PICK accepted \in BOOLEAN :
         /\ Submitted(current, accepted)
         /\ \/ accepted /\ step' = "wait" /\ UNCHANGED <<paused, after>>
            \/ Saving("idle") /\ UNCHANGED paused
            \/ SafetyFault
  BY DEF submitSignedTransaction
<1>3. UNCHANGED <<head, peak, branch, foreign, stale, settings, current, seen, left, journal,
                     disk, faults>>
  BY DEF submitSignedTransaction
<1>4. PICK h \in 0..1 : tx' = [tx EXCEPT ![current].handed = h]
  <2>1. CASE accepted
    <3>1. tx' = [tx EXCEPT ![current].handed = 1]
      BY <1>1, <1>2, <2>1 DEF Submitted
    <3> QED BY <3>1
  <2>2. CASE ~accepted
    <3>1. tx' = [tx EXCEPT ![current].handed = 0]
      BY <1>1, <1>2, <2>2 DEF Submitted
    <3> QED BY <3>1
  <2> QED BY <2>1, <2>2
<1>5. paused' \in BOOLEAN /\ (Saving("idle") \/ (step' = "wait" /\ UNCHANGED after))
  BY <1>2 DEF SafetyFault, CoreInv, TypeOK
<1>6. h \in 0..2 /\ h <= 1
  OBVIOUS
<1> QED BY <1>1, <1>3, <1>4, <1>5, <1>6, HandStep

\* What the heads say of a transaction without a receipt.
LEMMA HeadsStep ==
    ASSUME CoreInv, recoverHeads
    PROVE  CoreInv'
<1>1. /\ step = "heads" /\ current \in Ids
      /\ current \in pendingTransactions \/ Dead(current)
      /\ UNCHANGED <<head, peak, branch, foreign, stale, settings, current, seen, left,
                  pendingStagedOperations, search, disk, faults>>
  BY DEF recoverHeads, CoreInv, ReadInv, CurrentInv
<1>2. /\ current \in Nat /\ seen \in 0..MaxHead /\ faults \in Nat /\ paused \in BOOLEAN
      /\ pendingTransactions \subseteq Ids /\ pendingStagedOperations \subseteq Ids
      /\ left \subseteq Ids /\ search \in [1..MaxTx -> Search]
  BY ProcessTypes DEF CoreInv
<1>3. CASE /\ ambiguousRecoveryAction(current) = "expire-private"
           /\ pendingTransactions' = pendingTransactions \ {current}
           /\ Saving("recover")
           /\ UNCHANGED <<tx, paused>>
  <2>1. /\ tx[current].mode = "private"
        /\ head >= tx[current].maxBlockNumber + PRIVATE_INTENT_FINALITY_BLOCKS
    BY <1>3 DEF ambiguousRecoveryAction
  <2>2. tx[current].at = 0
    <3>1. head \in Nat /\ tx[current].at \in Nat /\ tx[current].maxBlockNumber \in Nat
      BY <1>1, Types DEF CoreInv
    <3>2. tx[current].at # 0 => tx[current].at <= tx[current].maxBlockNumber
      BY <1>1, <2>1 DEF CoreInv, ChainInv
    <3>3. /\ head <= seen + Drift
          /\ tx[current].at # 0 => tx[current].at + MaxDepth > seen
      BY <1>1 DEF CoreInv, ReadInv
    <3> QED BY <1>2, <2>1, <3>1, <3>2, <3>3, ConstantTypes
  <2>3. Dead(current)
    <3>1. head \in Nat /\ peak \in Nat /\ head <= peak /\ tx[current].maxBlockNumber \in Nat
      BY <1>1, Types DEF CoreInv, ChainInv
    <3>2. peak >= tx[current].maxBlockNumber + MaxDepth
      BY <2>1, <3>1, ConstantTypes
    <3> QED BY <2>1, <2>2, <3>2 DEF Dead
  <2>4. current \notin Outstanding
    BY <2>2, <2>3 DEF Outstanding, Irrevocable
  <2>5. /\ Outstanding \subseteq Memory /\ \A i, j \in Memory : i = j
        /\ \A i \in pendingStagedOperations : Irrevocable(tx[i].at) /\ Queued(i)
    BY DEF CoreInv, JournalInv, SingleInv
  <2>6. Outstanding \subseteq Memory' /\ \A i, j \in Memory' : i = j
    BY <1>1, <1>3, <2>4, <2>5 DEF Memory
  <2>7. /\ UNCHANGED chain /\ UNCHANGED <<settings, disk>> /\ paused' \in BOOLEAN
        /\ left' \subseteq Ids /\ search' \in [1..MaxTx -> Search]
        /\ pendingTransactions' \subseteq Ids /\ pendingStagedOperations' \subseteq Ids
        /\ step' = "save" /\ after' = "recover" /\ step # "save"
        /\ current' \in Nat /\ seen' \in 0..MaxHead /\ faults' \in Nat
    BY <1>1, <1>2, <1>3 DEF chain, Saving
  <2>8. \A i \in pendingStagedOperations' : Irrevocable(tx[i].at) /\ Queued(i)
    BY <1>1, <2>5
  <2> QED BY <2>6, <2>7, <2>8, JournalStep
<1>4. CASE /\ ambiguousRecoveryAction(current) = "retain"
           /\ SafetyFault
           /\ UNCHANGED <<tx, pendingTransactions>>
  <2>1. UNCHANGED chain /\ UNCHANGED <<settings, current, journal, disk>>
    BY <1>1, <1>4 DEF chain, journal
  <2>2. paused' \in BOOLEAN /\ Saving("idle") /\ UNCHANGED <<left, faults, seen>>
    BY <1>1, <1>4 DEF SafetyFault
  <2> QED BY <1>1, <1>2, <2>1, <2>2, EndStep
<1>5. CASE /\ ambiguousRecoveryAction(current) = "resubmit"
           /\ \E accepted \in BOOLEAN : Submitted(current, accepted)
           /\ (Saving("idle") /\ UNCHANGED paused) \/ SafetyFault
           /\ UNCHANGED pendingTransactions
  <2>1. ~tx[current].call.requiresMarketEvidence
    BY <1>5 DEF ambiguousRecoveryAction
  <2>2. tx[current].handed \in 0..2
    BY <1>1, Types DEF CoreInv
  <2>3. PICK h \in 0..2 : tx' = [tx EXCEPT ![current].handed = h]
    <3>1. PICK accepted \in BOOLEAN : Submitted(current, accepted)
      BY <1>5
    <3>2. CASE accepted /\ tx[current].handed < 2
      <4>1. tx' = [tx EXCEPT ![current].handed = tx[current].handed + 1]
        BY <3>1, <3>2 DEF Submitted
      <4>2. tx[current].handed + 1 \in 0..2
        BY <2>2, <3>2
      <4> QED BY <4>1, <4>2
    <3>3. CASE ~(accepted /\ tx[current].handed < 2)
      <4>1. tx' = [tx EXCEPT ![current].handed = tx[current].handed]
        BY <3>1, <3>3 DEF Submitted
      <4> QED BY <2>2, <4>1
    <3> QED BY <3>2, <3>3
  <2>4. UNCHANGED <<head, peak, branch, foreign, stale, settings, current, seen, left, journal,
                     disk, faults>>
    BY <1>1, <1>5 DEF journal
  <2>5. paused' \in BOOLEAN /\ Saving("idle")
    BY <1>5 DEF SafetyFault, CoreInv, TypeOK
  <2> QED BY <1>1, <2>1, <2>3, <2>4, <2>5, HandStep
<1> QED BY <1>3, <1>4, <1>5 DEF recoverHeads

-----------------------------------------------------------------------------
(* A new transaction, and the end of one                                   *)

\* What is signed is not outstanding yet.
LEMMA SignStep ==
    ASSUME CoreInv, sign
    PROVE  CoreInv'
<1>1. /\ step = "sign"
      /\ UNCHANGED <<head, peak, branch, foreign, stale, settings, left, pendingStagedOperations,
                     search, disk, faults>>
      /\ seen' = 0 /\ 0 \in 0..MaxHead /\ 0 \in Nat
  BY ConstantTypes DEF sign
<1>2. /\ pendingTransactions = {} /\ pendingStagedOperations = {}
      /\ disk.transactions = {} /\ disk.staged = {}
      /\ Outstanding = {}
  BY <1>1 DEF CoreInv, SingleInv, JournalInv, Memory
<1>3. CASE SafetyFault /\ UNCHANGED <<tx, current, pendingTransactions>>
  <2>1. UNCHANGED chain /\ UNCHANGED <<settings, current, journal, disk>>
    BY <1>1, <1>3 DEF chain, journal
  <2>2. current' \in Nat /\ seen' \in 0..MaxHead /\ faults' \in Nat
    BY <1>1, <2>1, ProcessTypes DEF CoreInv
  <2> QED BY <1>1, <1>3, <2>1, <2>2, EndStep DEF SafetyFault
<1>4. ASSUME NEW call \in Calls, NEW nonce \in PendingNonces,
             tx' = Append(tx, [call |-> call, nonce |-> nonce, mode |-> mode,
                               maxBlockNumber |-> IF mode = "private" THEN seen + VALIDITY ELSE 0,
                               handed |-> 0, at |-> 0, outcome |-> "none",
                               settledAt |-> 0, settledWell |-> FALSE]),
             current' = Len(tx) + 1,
             pendingTransactions' = pendingTransactions \cup {current'},
             Saving("check"), UNCHANGED paused, Len(tx) < MaxTx
      PROVE  CoreInv'
  <2> DEFINE t == [call |-> call, nonce |-> nonce, mode |-> mode,
                   maxBlockNumber |-> IF mode = "private" THEN seen + VALIDITY ELSE 0,
                   handed |-> 0, at |-> 0, outcome |-> "none",
                   settledAt |-> 0, settledWell |-> FALSE]
  <2>1. t.handed = 0 /\ t.at = 0 /\ t.settledAt = 0
    OBVIOUS
  <2>2. t \in Transaction
    <3>1. nonce \in Nat
      BY LiquidatorAssumption DEF PendingNonces, NextNonce, LiquidatorAssumption
    <3>2. (IF mode = "private" THEN seen + VALIDITY ELSE 0) \in Nat
      BY ConstantTypes, Types DEF CoreInv
    <3>3. mode \in {"private", "public"}
      BY DEF CoreInv, TypeOK
    <3>4. 0 \in 0..MaxHead /\ 0 \in 0..2
      BY ConstantTypes
    <3> QED BY <3>1, <3>2, <3>3, <3>4 DEF Transaction
  <2>3. tx' = Append(tx, t)
    BY <1>4
  <2> HIDE DEF t
  <2>4. tx \in Seq(Transaction) /\ Len(tx) \in Nat /\ Ids = 1..Len(tx)
    BY DEF CoreInv, TypeOK, Ids
  <2>5. /\ tx' \in Seq(Transaction) /\ Ids' = 1..Len(tx) + 1
        /\ \A i \in Ids : tx'[i] = tx[i]
        /\ tx'[Len(tx) + 1] = t
    BY <2>2, <2>3, <2>4 DEF Ids
  <2>6. Ids' = Ids \cup {current'} /\ tx'[current'] = t /\ current' \in Nat
    BY <1>4, <2>4, <2>5
  <2>7. TypeOK'
    <3>1. /\ UNCHANGED <<head, peak, branch, foreign, stale, mode, historicalLogRecovery, left,
                         pendingStagedOperations, search, disk, faults, paused>>
          /\ step' = "save" /\ after' = "check"
      BY <1>1, <1>4 DEF settings, Saving
    <3>2. /\ pendingTransactions' \subseteq Ids' /\ pendingStagedOperations' \subseteq Ids'
          /\ left' \subseteq Ids' /\ stale' \subseteq Ids'
          /\ disk.transactions \subseteq Ids' /\ disk.staged \subseteq Ids'
      BY <1>2, <1>4, <2>6, <3>1, ProcessTypes DEF CoreInv
    <3>3. disk \in [transactions : SUBSET Ids', staged : SUBSET Ids', search : [1..MaxTx -> Search]]
      BY <3>2, ProcessTypes DEF CoreInv
    <3>4. Ids' \subseteq 1..MaxTx
      BY <1>4, <2>4, <2>5, LiquidatorAssumption DEF LiquidatorAssumption
    <3>5. UNION {pendingTransactions', pendingStagedOperations', left', stale'} \subseteq Ids'
      BY <3>2
    <3>6. {head', seen'} \subseteq 0..MaxHead /\ {peak', current', faults'} \subseteq Nat
      BY <1>1, <2>6, <3>1 DEF CoreInv, TypeOK
    <3> QED BY <2>5, <3>1, <3>3, <3>4, <3>5, <3>6 DEF CoreInv, TypeOK
  <2>8. ChainInv'
    BY <1>1, <2>1, <2>5, <2>6 DEF CoreInv, ChainInv
  <2>9. ReadInv'
    BY <1>4 DEF ReadInv, Saving
  <2>10. Outstanding' = {}
    <3>1. \A i \in Ids : i \in Outstanding' => i \in Outstanding
      BY <1>1, <2>5 DEF Outstanding, Irrevocable, Queued, Dead
    <3>2. current' \notin Outstanding'
      BY <2>1, <2>6 DEF Outstanding
    <3>3. Outstanding' \subseteq Ids'
      BY DEF Outstanding
    <3> QED BY <1>2, <2>6, <3>1, <3>2, <3>3
  <2>11. JournalInv'
    BY <1>1, <1>2, <1>4, <2>10 DEF JournalInv, Saving
  <2>12. CurrentInv'
    BY <1>4, <2>1, <2>6 DEF CurrentInv, Unsent, Saving
  <2>13. SingleInv'
    BY <1>1, <1>2, <1>4 DEF SingleInv, Memory, Disk, Scanning, Searching, Saving
  <2>14. NeverRebroadcast'
    BY <2>1, <2>5, <2>6 DEF CoreInv, NeverRebroadcast
  <2> QED BY <2>7, <2>8, <2>9, <2>11, <2>12, <2>13, <2>14 DEF CoreInv
<1> QED BY <1>3, <1>4 DEF sign

\* The last look at the market, before anything is handed over.
LEMMA PreSubmitStep ==
    ASSUME CoreInv, preSubmit
    PROVE  CoreInv'
<1>1. /\ step = "check"
      /\ UNCHANGED <<chain, settings, current, seen, left, pendingStagedOperations, search,
                     disk, faults>>
  BY DEF preSubmit
<1>2. /\ current \in Ids /\ tx[current].handed = 0
      /\ current \in Nat /\ seen \in 0..MaxHead /\ faults \in Nat /\ paused \in BOOLEAN
      /\ pendingTransactions \subseteq Ids /\ pendingStagedOperations \subseteq Ids
      /\ left \subseteq Ids /\ search \in [1..MaxTx -> Search]
  BY <1>1, ProcessTypes DEF CoreInv, CurrentInv, Unsent
<1>3. CASE SafetyFault /\ UNCHANGED pendingTransactions
  BY <1>1, <1>2, <1>3, EndStep DEF SafetyFault, journal
<1>4. CASE step' = "send" /\ UNCHANGED <<pendingTransactions, paused, after>>
  <2>1. /\ ChainInv' /\ NeverRebroadcast'
        /\ Outstanding' = Outstanding /\ \A k : Dead(k)' = Dead(k)
        /\ \A k : (Irrevocable(tx[k].at) /\ Queued(k))' = (Irrevocable(tx[k].at) /\ Queued(k))
        /\ Ids' = Ids /\ tx' = tx
    BY <1>1, ChainRests DEF CoreInv
  <2>2. TypeOK'
    BY <1>1, <1>2, <1>4, ProcessTypes, TypesRest DEF CoreInv, Steps
  <2>3. ReadInv'
    BY <1>4 DEF ReadInv
  <2>4. JournalInv'
    BY <1>1, <1>4, <2>1 DEF CoreInv, JournalInv, Memory, Disk
  <2>5. CurrentInv'
    BY <1>1, <1>4, <2>1 DEF CoreInv, CurrentInv, Unsent
  <2>6. SingleInv'
    BY <1>1, <1>4 DEF CoreInv, SingleInv, Memory, Disk, Scanning, Searching
  <2> QED BY <2>1, <2>2, <2>3, <2>4, <2>5, <2>6 DEF CoreInv
<1>5. CASE pendingTransactions' = pendingTransactions \ {current} /\ SafetyFault
  <2>1. /\ Outstanding \subseteq Memory /\ \A i, j \in Memory : i = j
        /\ \A i \in pendingStagedOperations : Irrevocable(tx[i].at) /\ Queued(i)
    BY DEF CoreInv, JournalInv, SingleInv
  <2>2. current \notin Outstanding
    BY <1>2 DEF Outstanding
  <2>3. Outstanding \subseteq Memory' /\ \A i, j \in Memory' : i = j
    BY <1>1, <1>5, <2>1, <2>2 DEF Memory
  <2> QED BY <1>1, <1>2, <1>5, <2>1, <2>3, JournalStep DEF SafetyFault, Saving
<1> QED BY <1>3, <1>4, <1>5 DEF preSubmit

\* The receipt of a submission is final, or the transaction stays in the journal.
LEMMA WaitStep ==
    ASSUME CoreInv, waitForTransactionReceipt
    PROVE  CoreInv'
<1>1. /\ step = "wait" /\ UNCHANGED <<chain, settings, current, seen, left, disk, faults>>
      /\ current \in Ids /\ (current \in pendingTransactions \/ Dead(current))
      /\ current \in Nat /\ seen \in 0..MaxHead /\ faults \in Nat /\ paused \in BOOLEAN
  BY ProcessTypes DEF waitForTransactionReceipt, CoreInv, CurrentInv
<1>2. CASE Final(current) /\ resolveRecoveredIntentJournal(current, "idle") /\ UNCHANGED paused
  <2>1. current \in pendingTransactions
    BY <1>1, <1>2 DEF Final, Deep, Dead
  <2> QED BY <1>1, <1>2, <2>1, ResolveStep
<1>3. CASE UNCHANGED journal /\ (SafetyFault \/ (Saving("idle") /\ UNCHANGED paused))
  BY <1>1, <1>3, EndStep DEF SafetyFault
<1> QED BY <1>2, <1>3 DEF waitForTransactionReceipt

\* The operator enters a final replacement: the intent can no longer be mined.
LEMMA ReconcileStep ==
    ASSUME CoreInv, NEW i \in Ids, reconcileTransaction(i)
    PROVE  CoreInv'
<1>1. /\ pendingTransactions' = pendingTransactions \ {i}
      /\ disk' = [transactions |-> pendingTransactions \ {i}, staged |-> pendingStagedOperations,
                search |-> search]
      /\ UNCHANGED <<chain, settings, step, after, current, seen, left,
                     pendingStagedOperations, search, paused, faults>>
  BY DEF reconcileTransaction
<1>2. PICK f \in foreign : f.nonce = tx[i].nonce /\ Deep(f.at)
  BY DEF reconcileTransaction
<1>3. f.at \in Nat /\ Irrevocable(f.at)
  BY <1>2, Types, FinalIsIrrevocable DEF CoreInv
<1>4. tx[i].at = 0
  BY <1>2 DEF CoreInv, ChainInv, Deep
<1>5. i \notin Outstanding
  <2>1. Dead(i)
    BY <1>2, <1>3, <1>4 DEF Dead
  <2> QED BY <1>4, <2>1 DEF Outstanding, Irrevocable
<1>6. Dead(i)
  BY <1>2, <1>3, <1>4 DEF Dead
<1>7. /\ ChainInv' /\ NeverRebroadcast'
      /\ Outstanding' = Outstanding /\ \A k : Dead(k)' = Dead(k)
      /\ \A k : (Irrevocable(tx[k].at) /\ Queued(k))' = (Irrevocable(tx[k].at) /\ Queued(k))
      /\ Ids' = Ids /\ tx' = tx /\ head' = head /\ peak' = peak
  BY <1>1, ChainRests DEF CoreInv
<1>8. TypeOK'
  <2>1. disk' \in [transactions : SUBSET Ids, staged : SUBSET Ids, search : [1..MaxTx -> Search]]
    BY <1>1, ProcessTypes DEF CoreInv
  <2> QED BY <1>1, <2>1, ProcessTypes, TypesRest DEF CoreInv
<1>9. ReadInv'
  BY <1>1, <1>7 DEF CoreInv, ReadInv
<1>10. JournalInv'
  BY <1>1, <1>5, <1>7 DEF CoreInv, JournalInv, Memory, Disk
<1>11. CurrentInv'
  BY <1>1, <1>6, <1>7 DEF CoreInv, CurrentInv, Unsent
<1>12. SingleInv'
  BY <1>1 DEF CoreInv, SingleInv, Memory, Disk, Scanning, Searching
<1> QED BY <1>7, <1>8, <1>9, <1>10, <1>11, <1>12 DEF CoreInv

-----------------------------------------------------------------------------
(* The theorems                                                            *)

LEMMA Initially ==
    ASSUME Init
    PROVE  CoreInv /\ SearchInv
<1>1. Ids = {}
  BY DEF Init, Ids
<1>2. NotSearched \in Search
  BY ConstantTypes DEF NotSearched, NoOutcome, Search, Hashes
<1>3. TypeOK
  <2>1. tx \in Seq(Transaction) /\ Ids \subseteq 1..MaxTx
    BY <1>1 DEF Init
  <2>2. mode \in {"private", "public"} /\ historicalLogRecovery \in BOOLEAN
    BY LiquidatorAssumption DEF Init, LiquidatorAssumption
  <2>3. search \in [1..MaxTx -> Search] /\ branch \in [0..MaxHead -> Nat]
    BY <1>2 DEF Init
  <2>4. disk \in [transactions : SUBSET Ids, staged : SUBSET Ids, search : [1..MaxTx -> Search]]
    BY <2>3 DEF Init
  <2>5. {head, seen} \subseteq 0..MaxHead /\ {peak, current, faults} \subseteq Nat
    BY ConstantTypes DEF Init
  <2>6. /\ foreign \subseteq [nonce : Nat, at : Nat] /\ step = "idle" /\ after = "idle"
        /\ paused \in BOOLEAN
        /\ UNION {pendingTransactions, pendingStagedOperations, left, stale} \subseteq Ids
    BY DEF Init
  <2> QED BY <2>1, <2>2, <2>3, <2>4, <2>5, <2>6 DEF TypeOK
<1>4. ChainInv /\ ReadInv /\ NeverRebroadcast
  BY <1>1, ConstantTypes DEF Init, ChainInv, ReadInv, NeverRebroadcast
<1>5. JournalInv /\ CurrentInv /\ SingleInv
  BY <1>1 DEF Init, JournalInv, CurrentInv, SingleInv, Unsent, Outstanding, Memory, Disk
<1>6. SearchInv
  <2>1. /\ step = "idle" /\ left = {} /\ search = [i \in 1..MaxTx |-> NotSearched]
        /\ disk.search = search
    BY DEF Init
  <2> QED BY <1>1, <2>1 DEF SearchInv, Searching
<1> QED BY <1>3, <1>4, <1>5, <1>6 DEF CoreInv

LEMMA StutterStep ==
    ASSUME CoreInv, UNCHANGED vars
    PROVE  CoreInv'
<1>1. /\ UNCHANGED chain
      /\ UNCHANGED <<settings, step, after, current, seen, left, pendingTransactions,
                     pendingStagedOperations, search, paused, disk, faults>>
  BY DEF vars, chain, settings
<1>2. /\ ChainInv' /\ NeverRebroadcast'
      /\ Outstanding' = Outstanding /\ \A i : Dead(i)' = Dead(i)
      /\ \A i : (Irrevocable(tx[i].at) /\ Queued(i))' = (Irrevocable(tx[i].at) /\ Queued(i))
      /\ Ids' = Ids /\ tx' = tx /\ head' = head /\ peak' = peak
  BY <1>1, ChainRests DEF CoreInv
<1>3. TypeOK'
  BY <1>1, ProcessTypes, TypesRest DEF CoreInv
<1>4. ReadInv'
  BY <1>1, <1>2 DEF CoreInv, ReadInv
<1>5. JournalInv'
  BY <1>1, <1>2 DEF CoreInv, JournalInv, Memory, Disk
<1>6. CurrentInv'
  BY <1>1, <1>2 DEF CoreInv, CurrentInv, Unsent
<1>7. SingleInv'
  BY <1>1 DEF CoreInv, SingleInv, Memory, Disk, Scanning, Searching
<1> QED BY <1>2, <1>3, <1>4, <1>5, <1>6, <1>7 DEF CoreInv

\* A block leaves the searches alone.
LEMMA ChainSearch ==
    ASSUME CoreInv, SearchInv, Mine \/ Reorganise \/ replace
    PROVE  SearchInv'
<1>1. Kept /\ UNCHANGED process
  BY ChainStep, ReplaceStep
<1>2. /\ UNCHANGED <<step, after, current, left, pendingStagedOperations, search, disk>>
      /\ Ids' = Ids
  BY <1>1 DEF process, journal, Kept
<1>3. /\ \A b \in 0..MaxHead : branch'[b] \in Nat /\ branch'[b] >= branch[b]
      /\ \A b \in (0..MaxHead) \ {0}, i \in Ids :
           branch'[b] = branch[b] /\ tx[i].settledAt = b => tx'[i].settledAt = b
  BY <1>1 DEF Kept
<1>4. Ids \subseteq 1..MaxTx
  BY ProcessTypes DEF CoreInv
<1>5. /\ left \subseteq pendingStagedOperations
      /\ Searching' => current \in pendingStagedOperations /\ left = {}
      /\ step = "anchor" => after \in {"history", "ancestry", "staged"}
  BY <1>2 DEF SearchInv, Searching
<1> QED BY <1>2, <1>3, <1>4, <1>5, SearchRests

\* Nor does a step of a cycle that is not about a staged operation.
LEMMA CycleSearch ==
    ASSUME CoreInv, SearchInv,
           \/ startCycle \/ rpcFails \/ recovered \/ decide \/ recoverNonce \/ recoverHeads
           \/ preSubmit \/ submitSignedTransaction \/ waitForTransactionReceipt
           \/ \E i \in Ids : recoverReceipt(i)
    PROVE  SearchInv'
<1>1. /\ UNCHANGED <<branch, search, disk>> /\ step' # "anchor" /\ ~Searching'
      /\ pendingStagedOperations \subseteq pendingStagedOperations'
      /\ left' \in {left, pendingStagedOperations}
  BY DEF startCycle, rpcFails, recovered, recoveryWorkBlocksExecution, decide, recoverNonce,
         recoverHeads, preSubmit, submitSignedTransaction, waitForTransactionReceipt,
         recoverReceipt, resolveRecoveredIntentJournal, SafetyFault, Saving, Searching, chain,
         journal
<1>2. Ids' = Ids /\ \A i \in Ids : tx'[i].settledAt = tx[i].settledAt
  <2>1. CASE recoverHeads \/ submitSignedTransaction
    <3>1. tx' = tx \/ \E h : tx' = [tx EXCEPT ![current].handed = h]
      <4>1. tx' = tx \/ \E accepted \in BOOLEAN : Submitted(current, accepted)
        BY <2>1 DEF recoverHeads, submitSignedTransaction
      <4>2. ASSUME NEW accepted \in BOOLEAN, Submitted(current, accepted)
            PROVE  \E h : tx' = [tx EXCEPT ![current].handed = h]
        <5>1. tx' = [tx EXCEPT ![current].handed =
                       IF accepted /\ tx[current].handed < 2 THEN tx[current].handed + 1
                       ELSE tx[current].handed]
          BY <4>2 DEF Submitted
        <5> QED BY <5>1
      <4> QED BY <4>1, <4>2
    <3>2. tx \in Seq(Transaction) /\ \A i \in Ids : tx[i] \in Transaction
      BY Types DEF CoreInv, TypeOK
    <3>3. CASE tx' = tx
      BY <3>3 DEF Ids
    <3>4. CASE \E h : tx' = [tx EXCEPT ![current].handed = h]
      <4>1. PICK h : tx' = [tx EXCEPT ![current].handed = h]
        BY <3>4
      <4>2. DOMAIN tx' = DOMAIN tx
        BY <4>1
      <4>3. \A i \in Ids : tx'[i] = IF i = current THEN [tx[i] EXCEPT !.handed = h] ELSE tx[i]
        BY <4>1 DEF Ids
      <4>4. \A i \in Ids : [tx[i] EXCEPT !.handed = h].settledAt = tx[i].settledAt
        BY <3>2 DEF Transaction
      <4> QED BY <4>2, <4>3, <4>4 DEF Ids
    <3> QED BY <3>1, <3>3, <3>4
  <2>2. CASE tx' = tx
    BY <2>2 DEF Ids
  <2> QED BY <2>1, <2>2 DEF startCycle, rpcFails, recovered, decide, recoverNonce,
         preSubmit, waitForTransactionReceipt, recoverReceipt, chain
<1>3. left' \subseteq pendingStagedOperations'
  BY <1>1 DEF SearchInv
<1> QED BY <1>1, <1>2, <1>3, SearchStays

\* Nor do the state file, the operator and a restart.
LEMMA FileSearch ==
    ASSUME CoreInv, SearchInv,
           \/ saveDurableState \/ setPaused \/ restart \/ UNCHANGED vars
           \/ \E i \in Ids : reconcileTransaction(i)
    PROVE  SearchInv'
<1>1. UNCHANGED <<tx, branch>> /\ Ids' = Ids
  BY DEF saveDurableState, setPaused, restart, reconcileTransaction, vars, chain, Ids
<1>2. \A i \in Ids : tx'[i].settledAt = tx[i].settledAt
  BY <1>1
<1>3. CASE saveDurableState
  <2>1. /\ step = "save" /\ step' = after /\ after' = "idle" /\ after \in Afters
        /\ disk'.search = search /\ search' = search
        /\ pendingStagedOperations' = pendingStagedOperations
        /\ left' = {} \/ (left' = left /\ current' = current)
        /\ left' # {} \/ after = "idle" \/ current' = current
    BY <1>3, ProcessTypes DEF saveDurableState, journal, CoreInv
  <2>2. Searching' => Searching /\ current' = current
    BY <1>3, <2>1 DEF Searching, Afters, saveDurableState
  <2> QED BY <1>1, <1>2, <2>1, <2>2, SearchStays DEF SearchInv, Afters
<1>4. CASE setPaused \/ UNCHANGED vars
  <2>1. UNCHANGED <<step, after, current, left, pendingStagedOperations, search, disk>>
    BY <1>4 DEF setPaused, vars, journal
  <2>2. Searching' <=> Searching
    BY <2>1 DEF Searching
  <2> QED BY <1>1, <1>2, <2>1, <2>2, SearchStays DEF SearchInv
<1>5. CASE restart
  <2>1. /\ search' = disk.search /\ disk' = disk /\ left' = {} /\ step' = "idle" /\ after' = "idle"
    BY <1>5 DEF restart
  <2> QED BY <1>1, <1>2, <2>1, SearchStays DEF Searching
<1>6. CASE \E i \in Ids : reconcileTransaction(i)
  <2>1. /\ UNCHANGED <<step, after, current, left, pendingStagedOperations, search>>
        /\ disk'.search = search
    BY <1>6 DEF reconcileTransaction
  <2>2. Searching' <=> Searching
    BY <2>1 DEF Searching
  <2> QED BY <1>1, <1>2, <2>1, <2>2, SearchStays DEF SearchInv
<1> QED BY <1>3, <1>4, <1>5, <1>6

\* A transaction that is signed has not been searched for.
LEMMA SignSearch ==
    ASSUME CoreInv, SearchInv, CoreInv', sign
    PROVE  SearchInv'
<1>1. /\ UNCHANGED <<branch, left, pendingStagedOperations, search, disk>>
      /\ ~Searching' /\ step' # "anchor"
  BY DEF sign, SafetyFault, Saving, Searching
<1>2. Ids \subseteq Ids' /\ \A i \in Ids : tx'[i] = tx[i]
  <2>1. tx' = tx \/ \E t : tx' = Append(tx, t)
    BY DEF sign
  <2>2. tx \in Seq(Transaction)
    BY DEF CoreInv, TypeOK
  <2>3. CASE tx' = tx
    BY <2>3 DEF Ids
  <2>4. CASE \E t : tx' = Append(tx, t)
    <3>1. PICK t : tx' = Append(tx, t)
      BY <2>4
    <3>2. Ids = 1..Len(tx) /\ Len(tx) \in Nat
      BY <2>2 DEF Ids
    <3>3. Ids' = 1..Len(tx) + 1 /\ \A i \in 1..Len(tx) : tx'[i] = tx[i]
      BY <2>2, <3>1 DEF Ids
    <3> QED BY <3>2, <3>3
  <2> QED BY <2>1, <2>3, <2>4
<1>3. Ids' \subseteq 1..MaxTx
  BY DEF CoreInv, TypeOK
<1>4. \A b \in 0..MaxHead : branch'[b] \in Nat /\ branch'[b] >= branch[b]
  <2>1. \A b \in 0..MaxHead : branch[b] \in Nat
    BY DEF CoreInv, TypeOK
  <2> QED BY <1>1, <2>1
<1>5. left \subseteq pendingStagedOperations
  BY DEF SearchInv
<1> QED BY <1>1, <1>2, <1>3, <1>4, <1>5, SearchRests

LEMMA Inductive ==
    ASSUME IInv, [Next]_vars
    PROVE  IInv'
<1>1. CoreInv /\ SearchInv
  BY DEF IInv
<1>2. CASE Mine \/ Reorganise \/ replace
  BY <1>1, <1>2, ChainStep, ReplaceStep, ChainSearch DEF IInv
<1>3. CASE Cycle
  <2>1. CASE saveDurableState
    BY <1>1, <2>1, SaveStep, FileSearch DEF IInv
  <2>2. CASE startCycle \/ recovered \/ decide
    BY <1>1, <2>2, QuietSteps, CycleSearch DEF IInv
  <2>3. CASE \E i \in Ids : recoverReceipt(i)
    BY <1>1, <2>3, ReceiptStep, CycleSearch DEF IInv
  <2>4. CASE \E i \in Ids : reconcileStaged(i)
    BY <1>1, <2>4, StagedStep DEF IInv
  <2>5. CASE searchLatest \/ searchHistory \/ retainRecoveryAnchor \/ confirmOutcome
    BY <1>1, <2>5, SearchSteps, ConfirmStep DEF IInv
  <2>6. CASE recoverNonce \/ recoverHeads
    BY <1>1, <2>6, NonceStep, HeadsStep, CycleSearch DEF IInv
  <2>7. CASE sign
    BY <1>1, <2>7, SignStep, SignSearch DEF IInv
  <2>8. CASE preSubmit \/ submitSignedTransaction \/ waitForTransactionReceipt
    BY <1>1, <2>8, PreSubmitStep, SubmitStep, WaitStep, CycleSearch DEF IInv
  <2> QED BY <1>3, <2>1, <2>2, <2>3, <2>4, <2>5, <2>6, <2>7, <2>8 DEF Cycle
<1>4. CASE rpcFails
  BY <1>1, <1>4, QuietSteps, CycleSearch DEF IInv
<1>5. CASE setPaused
  BY <1>1, <1>5, PauseStep, FileSearch DEF IInv
<1>6. CASE \E i \in Ids : reconcileTransaction(i)
  BY <1>1, <1>6, ReconcileStep, FileSearch DEF IInv
<1>7. CASE restart
  BY <1>1, <1>7, RestartStep, FileSearch DEF IInv
<1>8. CASE UNCHANGED vars
  BY <1>1, <1>8, StutterStep, FileSearch DEF IInv
<1> QED BY <1>2, <1>3, <1>4, <1>5, <1>6, <1>7, <1>8 DEF Next

\* The inductive invariant: types, the chain's bounds, what a recovery has read,
\* the journal in memory and on disk, and its single entry.
THEOREM Invariance == Spec => []IInv
<1>1. Init => IInv
  BY Initially DEF IInv
<1>2. IInv /\ [Next]_vars => IInv'
  BY Inductive
<1> QED BY <1>1, <1>2, PTL DEF Spec

\* Every variable keeps its type: what the journal and the file name has been
\* signed, at any number of transactions.
THEOREM TypesHold == Spec => []TypeOK
<1>1. IInv => TypeOK
  BY DEF IInv, CoreInv
<1> QED BY <1>1, Invariance, PTL

\* At every instant the process may stop, its file names whatever may still
\* happen on chain because of it (submitCall and recovery persist first).
THEOREM JournalIsComplete == Spec => []JournalCoversChain
<1>1. IInv => JournalCoversChain
  BY DEF IInv, CoreInv, JournalInv, Disk, JournalCoversChain
<1> QED BY <1>1, Invariance, PTL

\* Recovery blocks execution: at most one transaction or staged liquidation is
\* under way.
THEOREM RecoveryBlocksExecution == Spec => []OneAtATime
<1>1. ASSUME IInv PROVE OneAtATime
  <2>1. \A i, j \in Outstanding : i = j
    BY <1>1 DEF IInv, CoreInv, JournalInv, SingleInv
  <2>2. CASE Outstanding = {}
    BY <2>2, FS_EmptySet DEF OneAtATime
  <2>3. CASE Outstanding # {}
    <3>1. PICK i \in Outstanding : TRUE
      BY <2>3
    <3>2. Outstanding = {i}
      BY <2>1, <3>1
    <3>3. Cardinality({i}) = 1
      BY FS_Singleton
    <3> QED BY <3>2, <3>3 DEF OneAtATime
  <2> QED BY <2>2, <2>3
<1> QED BY <1>1, Invariance, PTL

\* A price-dependent intent is handed over at most once, also across restarts.
THEOREM PricedIntentsGoOutOnce == Spec => []NeverRebroadcast
<1>1. IInv => NeverRebroadcast
  BY DEF IInv, CoreInv
<1> QED BY <1>1, Invariance, PTL
=============================================================================
