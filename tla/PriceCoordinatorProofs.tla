----------------------- MODULE PriceCoordinatorProofs -----------------------
(***************************************************************************)
(* What PriceCoordinator's run checks on a few operations, for any number  *)
(* of them, any vaults, approvals, terms, limits and times:                *)
(*   IndexesAreExactThm        from Linked, Batched and Sponsored          *)
(*   ReservationsReconcileThm  from Reconciled, with sums over operations  *)
(*   SettledOnceOnTermsThm     from all of IInv, step by step              *)
(*                                                                         *)
(* A handler is a composition of functions on a book, so the proof is about*)
(* books: Sound is kept by each function a handler is composed of, Settles *)
(* says what settling one operation does, and Progress what settling any   *)
(* number of them one after the other does.                                *)
(***************************************************************************)
EXTENDS PriceCoordinator, SumTheorems, SequenceTheorems, TLAPS

Operation ==
    [kind: {"Liquidation", "WithdrawRep"}, operator: Vault, receiver: Vault, target: Vault,
     amount: Nat, queuedAt: Nat, validFor: Nat, snapshot: [units: Nat, capacity: Nat],
     approval: Approval \cup {NoApproval}]

Fields == {"counter", "ops", "live", "pending", "slot", "latest", "count", "older",
           "newer", "quota", "reservation", "vault", "result"}

(* The types of a book's fields. *)
Typed(b) ==
    /\ DOMAIN b = Fields
    /\ b.counter \in 0..MaxOps /\ b.live \subseteq 1..b.counter
    /\ DOMAIN b.ops = OpId /\ \A id \in 1..b.counter : b.ops[id] \in Operation
    /\ b.pending \in Seq(OpId) /\ Len(b.pending) <= MAX_PENDING_SETTLEMENT_OPERATIONS
    /\ b.quota \in [Approval -> QuotaType]
    /\ b.vault \in [Vault -> [units: Nat, capacity: Nat]]
    /\ DOMAIN b.older = OpId /\ DOMAIN b.newer = OpId
    /\ b.reservation \in [OpId -> [approval: Approval \cup {NoApproval}, amount: Nat,
                                   settled: BOOLEAN]]
    /\ b.result \in [OpId -> [status: {"none", "ok", "failed"}, moved: Nat]]

IsNewest(n, S) == n \in S \cup {0} /\ \A i \in S : i <= n
IsOldest(n, S) == (S = {} /\ n = 0) \/ (n \in S /\ \A i \in S : n <= i)
LiveBefore(b, id) == {i \in b.live : i < id}
LiveAfter(b, id) == {i \in b.live : i > id}

(* The doubly linked list of the live operations. *)
Linked(b) ==
    /\ b.count = Cardinality(b.live)
    /\ IsNewest(b.latest, b.live)
    /\ \A id \in b.live : /\ IsNewest(b.older[id], LiveBefore(b, id))
                          /\ IsOldest(b.newer[id], LiveAfter(b, id))
    /\ \A id \in OpId \ b.live : b.older[id] = 0 /\ b.newer[id] = 0

(* The pending list. *)
Batched(b) ==
    /\ \A i \in DOMAIN b.pending : b.pending[i] \in b.live
    /\ \A i, j \in DOMAIN b.pending : b.pending[i] = b.pending[j] => i = j
    /\ b.slot = IF b.pending = <<>> THEN 0 ELSE b.pending[1]

ReservedIn(b, a) ==
    {id \in OpId : b.reservation[id].approval = a /\ ~b.reservation[id].settled}
SpentIn(b, a) == {id \in OpId : b.reservation[id].approval = a}
AmountOf(b) == [id \in OpId |-> b.reservation[id].amount]
MovedOf(b) == [id \in OpId |-> b.result[id].moved]

(* The quotas of the approvals. *)
Reconciled(b) ==
    /\ \A id \in OpId :
         /\ b.reservation[id].approval =
              IF id \in 1..b.counter THEN b.ops[id].approval ELSE NoApproval
         /\ b.reservation[id].approval # NoApproval =>
              /\ b.reservation[id].settled = (id \notin b.live)
              /\ b.quota[b.reservation[id].approval].installed
    /\ \A a \in Approval :
         /\ b.quota[a].reserved = SumFunctionOnSet(AmountOf(b), ReservedIn(b, a))
         /\ b.quota[a].consumed = SumFunctionOnSet(MovedOf(b), SpentIn(b, a))
         /\ IF b.quota[a].installed
            THEN b.quota[a].available + b.quota[a].reserved + b.quota[a].consumed
                   = ApprovalTerms[a].maxCumulative
            ELSE b.quota[a].reserved = 0 /\ b.quota[a].consumed = 0

(* The terms of what is staged. *)
Termed(b) ==
    /\ \A id \in 1..b.counter :
         /\ b.ops[id].kind = "WithdrawRep" => b.ops[id].target = b.ops[id].operator
         /\ b.ops[id].approval # NoApproval =>
              /\ Expiry(b.ops[id]) <= ApprovalTerms[b.ops[id].approval].validUntil
              /\ b.reservation[id].amount
                   <= ApprovalTerms[b.ops[id].approval].maxPerLiquidation
    /\ \A id \in OpId : id \in b.live \/ id > b.counter =>
                          b.result[id] = [status |-> "none", moved |-> 0]

Sound(b) == Typed(b) /\ Linked(b) /\ Batched(b) /\ Reconciled(b) /\ Termed(b)

Clocks ==
    /\ now \in 1..MaxTime /\ resolved \in BOOLEAN /\ lastSettlement \in 0..now
    /\ report \in [sponsor: Vault \cup {AnyVault}, at: 0..now, settled: BOOLEAN]
    /\ minimumNonce \in [Vault -> Nat]

Sponsored(b, r) ==
    b.pending # <<>> =>
      r # NoReport /\ \A i \in DOMAIN b.pending : b.ops[b.pending[i]].operator = r.sponsor

IInv == Clocks /\ Sound(book) /\ Sponsored(book, report)

-----------------------------------------------------------------------------
(* What each operator leaves in a book.                                    *)

\* _consumeActiveStagedOperation rewrites the linked list and nothing else.
LEMMA ActiveFields ==
    ASSUME NEW b, DOMAIN b = Fields, NEW id,
           NEW c, c = _consumeActiveStagedOperation(b, id)
    PROVE  /\ DOMAIN c = Fields
           /\ c.counter = b.counter /\ c.ops = b.ops
           /\ c.pending = b.pending /\ c.slot = b.slot
           /\ c.quota = b.quota /\ c.reservation = b.reservation
           /\ c.vault = b.vault /\ c.result = b.result
           /\ c.live = b.live \ {id} /\ c.count = b.count - 1
           /\ b.newer[id] = 0 => c.latest = b.older[id]
           /\ b.newer[id] # 0 => c.latest = b.latest
           /\ DOMAIN c.older = OpId /\ DOMAIN c.newer = OpId
           /\ \A i \in OpId :
                /\ i = id => c.older[i] = 0 /\ c.newer[i] = 0
                /\ i # id /\ i = b.newer[id] => c.older[i] = b.older[id]
                /\ i # id /\ i = b.older[id] => c.newer[i] = b.newer[id]
                /\ i # id /\ i # b.newer[id] => c.older[i] = b.older[i]
                /\ i # id /\ i # b.older[id] => c.newer[i] = b.newer[i]
BY DEF Fields, _consumeActiveStagedOperation

\* _trackActiveStagedOperation likewise.
LEMMA TrackFields ==
    ASSUME NEW b, DOMAIN b = Fields, DOMAIN b.older = OpId, DOMAIN b.newer = OpId, NEW id,
           NEW c, c = _trackActiveStagedOperation(b, id)
    PROVE  /\ DOMAIN c = Fields
           /\ c.counter = b.counter /\ c.ops = b.ops
           /\ c.pending = b.pending /\ c.slot = b.slot
           /\ c.quota = b.quota /\ c.reservation = b.reservation
           /\ c.vault = b.vault /\ c.result = b.result
           /\ c.live = b.live \cup {id} /\ c.count = b.count + 1 /\ c.latest = id
           /\ DOMAIN c.older = OpId /\ DOMAIN c.newer = OpId
           /\ \A i \in OpId :
                /\ b.latest # 0 /\ i = id => c.older[i] = b.latest
                /\ b.latest = 0 \/ i # id => c.older[i] = b.older[i]
                /\ b.latest # 0 /\ i = b.latest => c.newer[i] = id
                /\ b.latest = 0 \/ i # b.latest => c.newer[i] = b.newer[i]
BY DEF Fields, _trackActiveStagedOperation

\* The registry's settlement leaves the indexes and vaults.
LEMMA SettleFields ==
    ASSUME NEW b, DOMAIN b = Fields, NEW id, NEW moved,
           NEW c, c = SettleReservation(b, id, moved)
    PROVE  /\ DOMAIN c = Fields
           /\ c.counter = b.counter /\ c.ops = b.ops
           /\ c.pending = b.pending /\ c.slot = b.slot
           /\ c.live = b.live /\ c.count = b.count /\ c.latest = b.latest
           /\ c.older = b.older /\ c.newer = b.newer
           /\ c.vault = b.vault /\ c.result = b.result
BY DEF Fields, SettleReservation

\* _consumePendingSettlementOperation leaves all but the batch and its head.
LEMMA PendingFields ==
    ASSUME NEW b, DOMAIN b = Fields, NEW id,
           NEW c, c = _consumePendingSettlementOperation(b, id)
    PROVE  /\ DOMAIN c = Fields
           /\ c.counter = b.counter /\ c.ops = b.ops
           /\ c.quota = b.quota /\ c.reservation = b.reservation
           /\ c.live = b.live /\ c.count = b.count /\ c.latest = b.latest
           /\ c.older = b.older /\ c.newer = b.newer
           /\ c.vault = b.vault /\ c.result = b.result
BY DEF Fields, _consumePendingSettlementOperation

\* A liquidation moves what the vaults hold and nothing else.
LEMMA LiquidationFields ==
    ASSUME NEW b, DOMAIN b = Fields, NEW id, NEW moved,
           NEW c, c = performLiquidation(b, id, moved)
    PROVE  /\ DOMAIN c = Fields
           /\ c.counter = b.counter /\ c.ops = b.ops
           /\ c.pending = b.pending /\ c.slot = b.slot
           /\ c.quota = b.quota /\ c.reservation = b.reservation
           /\ c.live = b.live /\ c.count = b.count /\ c.latest = b.latest
           /\ c.older = b.older /\ c.newer = b.newer /\ c.result = b.result
BY DEF Fields, performLiquidation

\* So does a withdrawal.
LEMMA WithdrawFields ==
    ASSUME NEW b, DOMAIN b = Fields, NEW v, NEW amount,
           NEW c, c = WithdrawRep(b, v, amount)
    PROVE  /\ DOMAIN c = Fields
           /\ c.counter = b.counter /\ c.ops = b.ops
           /\ c.pending = b.pending /\ c.slot = b.slot
           /\ c.quota = b.quota /\ c.reservation = b.reservation
           /\ c.live = b.live /\ c.count = b.count /\ c.latest = b.latest
           /\ c.older = b.older /\ c.newer = b.newer /\ c.result = b.result
BY DEF Fields, WithdrawRep

-----------------------------------------------------------------------------
(* The linked list.                                                        *)

\* Operations are numbered from 1, and finitely many are staged.
LEMMA LiveIsFinite ==
    ASSUME NEW b, Typed(b)
    PROVE  /\ MaxOps \in Nat /\ b.counter \in Nat /\ b.counter <= MaxOps
           /\ IsFiniteSet(b.live) /\ b.live \subseteq OpId /\ b.live \subseteq Nat
           /\ 0 \notin b.live /\ 0 \notin OpId
<1>1. MaxOps \in Nat
  BY CoordinatorAssumption
<1>2. b.counter \in 0..MaxOps /\ b.live \subseteq 1..b.counter
  BY DEF Typed
<1>3. IsFiniteSet(1..b.counter)
  BY <1>1, <1>2, FS_Interval
<1> QED
  BY <1>1, <1>2, <1>3, FS_Subset DEF OpId

\* The list closes over the operation that leaves it, wherever in it that was.
LEMMA LinksClose ==
    ASSUME NEW b, Typed(b), Linked(b), NEW id \in b.live,
           NEW x, DOMAIN x = Fields, x.live = b.live, x.count = b.count,
           x.latest = b.latest, x.older = b.older, x.newer = b.newer,
           NEW c, c = _consumeActiveStagedOperation(x, id)
    PROVE  Linked(c)
<1> DEFINE live == b.live \ {id}
           older == b.older[id]
           newer == b.newer[id]
<1>1. /\ c.live = live /\ c.count = b.count - 1
      /\ c.latest = IF newer = 0 THEN older ELSE b.latest
      /\ \A i \in OpId :
           /\ c.older[i] = IF i = id THEN 0 ELSE IF i = newer THEN older ELSE b.older[i]
           /\ c.newer[i] = IF i = id THEN 0 ELSE IF i = older THEN newer ELSE b.newer[i]
  BY SMTT(30), ActiveFields
<1>2. b.live \subseteq OpId /\ b.live \subseteq Nat /\ 0 \notin b.live /\ 0 \notin OpId
  BY LiveIsFinite
<1>3. c.count = Cardinality(c.live)
  <2>1. b.count = Cardinality(b.live) /\ IsFiniteSet(b.live)
    BY LiveIsFinite DEF Linked
  <2>2. Cardinality(live) = Cardinality(b.live) - 1
    BY <2>1, FS_RemoveElement
  <2> QED
    BY <1>1, <2>1, <2>2
<1>4. /\ older \in {i \in b.live : i < id} \cup {0}
      /\ \A i \in b.live : i < id => i <= older
  BY DEF Linked, IsNewest, LiveBefore
<1>5. \/ newer = 0 /\ \A i \in b.live : i <= id
      \/ newer \in b.live /\ newer > id /\ \A i \in b.live : i > id => newer <= i
  <2>1. IsOldest(newer, LiveAfter(b, id))
    BY DEF Linked
  <2> QED
    BY <1>2, <2>1 DEF IsOldest, LiveAfter
<1>6. b.latest \in b.live /\ \A i \in b.live : i <= b.latest
  BY <1>2 DEF Linked, IsNewest
<1> HIDE DEF older, newer
<1>7. IsNewest(c.latest, live)
  BY <1>1, <1>2, <1>4, <1>5, <1>6 DEF IsNewest
<1>8. ASSUME NEW j \in live
      PROVE  /\ IsNewest(c.older[j], LiveBefore(c, j))
             /\ IsOldest(c.newer[j], LiveAfter(c, j))
  <2>1. j \in b.live /\ j # id /\ j \in OpId /\ j \in Nat /\ id \in Nat
    BY <1>2
  <2>2. /\ b.older[j] \in {i \in b.live : i < j} \cup {0}
        /\ \A i \in b.live : i < j => i <= b.older[j]
    BY <2>1 DEF Linked, IsNewest, LiveBefore
  <2>3. \/ b.newer[j] = 0 /\ \A i \in b.live : i <= j
        \/ /\ b.newer[j] \in b.live /\ b.newer[j] > j
           /\ \A i \in b.live : i > j => b.newer[j] <= i
    <3>1. IsOldest(b.newer[j], LiveAfter(b, j))
      BY <2>1 DEF Linked
    <3> QED
      BY <1>2, <2>1, <3>1 DEF IsOldest, LiveAfter
  <2>4. /\ c.older[j] = IF j = newer THEN older ELSE b.older[j]
        /\ c.newer[j] = IF j = older THEN newer ELSE b.newer[j]
        /\ c.live = live
    BY <1>1, <2>1
  <2>5. /\ c.older[j] \in {i \in live : i < j} \cup {0}
        /\ \A i \in live : i < j => i <= c.older[j]
    BY <1>2, <1>4, <1>5, <2>1, <2>2, <2>4
  <2>6. \/ c.newer[j] = 0 /\ \A i \in live : i <= j
        \/ /\ c.newer[j] \in live /\ c.newer[j] > j
           /\ \A i \in live : i > j => c.newer[j] <= i
    BY <1>2, <1>4, <1>5, <2>1, <2>3, <2>4
  <2> QED
    BY <1>2, <2>1, <2>4, <2>5, <2>6 DEF IsNewest, IsOldest, LiveBefore, LiveAfter
<1>9. \A j \in OpId \ live : c.older[j] = 0 /\ c.newer[j] = 0
  <2>1. \A j \in OpId \ b.live : b.older[j] = 0 /\ b.newer[j] = 0
    BY DEF Linked
  <2> QED
    BY <1>1, <1>2, <1>4, <1>5, <2>1
<1> QED
  BY <1>1, <1>3, <1>7, <1>8, <1>9 DEF Linked

\* A newer operation extends it.
LEMMA LinksGrow ==
    ASSUME NEW b, Typed(b), Linked(b), NEW id \in OpId, \A i \in b.live : i < id,
           NEW x, DOMAIN x = Fields, x.live = b.live, x.count = b.count,
           x.latest = b.latest, x.older = b.older, x.newer = b.newer,
           NEW c, c = _trackActiveStagedOperation(x, id)
    PROVE  Linked(c)
<1>1. /\ c.live = b.live \cup {id} /\ c.count = b.count + 1 /\ c.latest = id
      /\ \A i \in OpId :
           /\ b.latest # 0 /\ i = id => c.older[i] = b.latest
           /\ b.latest = 0 \/ i # id => c.older[i] = b.older[i]
           /\ b.latest # 0 /\ i = b.latest => c.newer[i] = id
           /\ b.latest = 0 \/ i # b.latest => c.newer[i] = b.newer[i]
  <2>1. DOMAIN x.older = OpId /\ DOMAIN x.newer = OpId
    BY DEF Typed
  <2> QED
    BY <2>1, TrackFields
<1>2. /\ b.live \subseteq OpId /\ b.live \subseteq Nat /\ 0 \notin b.live /\ 0 \notin OpId
      /\ id \in Nat /\ id \notin b.live
  BY LiveIsFinite DEF OpId
<1>3. DOMAIN b.older = OpId /\ DOMAIN b.newer = OpId
  BY DEF Typed
<1>4. c.count = Cardinality(c.live)
  <2>1. b.count = Cardinality(b.live) /\ IsFiniteSet(b.live)
    BY LiveIsFinite DEF Linked
  <2>2. Cardinality(b.live \cup {id}) = Cardinality(b.live) + 1
    BY <1>2, <2>1, FS_AddElement
  <2> QED
    BY <1>1, <2>1, <2>2
<1>5. b.latest \in b.live \cup {0} /\ \A i \in b.live : i <= b.latest
  BY DEF Linked, IsNewest
<1>6. \A j \in OpId \ b.live : b.older[j] = 0 /\ b.newer[j] = 0
  BY DEF Linked
<1>7. \A j \in OpId :
        /\ c.older[j] = IF j = id THEN b.latest ELSE b.older[j]
        /\ c.newer[j] = IF j = b.latest THEN id ELSE b.newer[j]
  BY <1>1, <1>2, <1>3, <1>5, <1>6
<1>8. IsNewest(c.latest, c.live)
  BY <1>1, <1>2 DEF IsNewest
<1>9. ASSUME NEW j \in c.live
      PROVE  /\ IsNewest(c.older[j], LiveBefore(c, j))
             /\ IsOldest(c.newer[j], LiveAfter(c, j))
  <2>1. CASE j = id
    <3>1. c.older[j] = b.latest /\ c.newer[j] = 0
      BY <1>2, <1>5, <1>6, <1>7, <2>1
    <3>2. LiveBefore(c, j) = b.live /\ LiveAfter(c, j) = {}
      BY <1>1, <1>2, <2>1 DEF LiveBefore, LiveAfter
    <3> QED
      BY <1>5, <3>1, <3>2 DEF IsNewest, IsOldest
  <2>2. CASE j \in b.live
    <3>1. IsNewest(b.older[j], LiveBefore(b, j)) /\ IsOldest(b.newer[j], LiveAfter(b, j))
      BY <2>2 DEF Linked
    <3>2. c.older[j] = b.older[j] /\ LiveBefore(c, j) = LiveBefore(b, j)
      BY <1>1, <1>2, <1>7, <2>2 DEF LiveBefore
    <3>3. LiveAfter(c, j) = LiveAfter(b, j) \cup {id}
      BY <1>1, <1>2, <2>2 DEF LiveAfter
    <3>4. IsOldest(c.newer[j], LiveAfter(c, j))
      <4>1. CASE j = b.latest
        <5>1. LiveAfter(b, j) = {}
          BY <1>2, <1>5, <2>2, <4>1 DEF LiveAfter
        <5> QED
          BY <1>2, <1>7, <2>2, <3>3, <4>1, <5>1 DEF IsOldest
      <4>2. CASE j # b.latest
        <5>1. b.latest \in LiveAfter(b, j)
          BY <1>2, <1>5, <2>2, <4>2 DEF LiveAfter
        <5>2. c.newer[j] = b.newer[j] /\ b.newer[j] \in b.live
          BY <1>2, <1>7, <2>2, <3>1, <4>2, <5>1 DEF IsOldest, LiveAfter
        <5> QED
          BY <1>2, <3>1, <3>3, <5>1, <5>2 DEF IsOldest
      <4> QED
        BY <4>1, <4>2
    <3> QED
      BY <3>1, <3>2, <3>4
  <2> QED
    BY <1>1, <2>1, <2>2
<1>10. \A j \in OpId \ c.live : c.older[j] = 0 /\ c.newer[j] = 0
  BY <1>1, <1>2, <1>5, <1>6, <1>7
<1> QED
  BY <1>4, <1>8, <1>9, <1>10 DEF Linked

-----------------------------------------------------------------------------
(* The pending list.                                                       *)

\* A sequence without its k-th element.
LEMMA RemoveAtFacts ==
    ASSUME NEW S, NEW s \in Seq(S), NEW k \in 1..Len(s)
    PROVE  /\ RemoveAt(s, k) \in Seq(S) /\ Len(RemoveAt(s, k)) = Len(s) - 1
           /\ \A i \in 1..Len(s) - 1 : /\ i < k => RemoveAt(s, k)[i] = s[i]
                                       /\ i >= k => RemoveAt(s, k)[i] = s[i + 1]
<1> DEFINE r == RemoveAt(s, k)
           p == SubSeq(s, 1, k - 1)
           q == SubSeq(s, k + 1, Len(s))
<1>1. Len(s) \in Nat /\ k \in Int /\ \A i \in 1..Len(s) : s[i] \in S
  OBVIOUS
<1>2. /\ p \in Seq(S) /\ Len(p) = k - 1
      /\ \A i \in 1..k - 1 : p[i] = s[i]
  <2>1. /\ p \in Seq(S) /\ Len(p) = IF 1 <= k - 1 THEN k - 1 - 1 + 1 ELSE 0
        /\ \A i \in 1..k - 1 - 1 + 1 : p[i] = s[1 + i - 1]
    BY <1>1, SubSeqProperties
  <2> QED
    BY <1>1, <2>1
<1>3. /\ q \in Seq(S) /\ Len(q) = Len(s) - k
      /\ \A i \in 1..Len(s) - k : q[i] = s[k + i]
  <2>1. /\ q \in Seq(S) /\ Len(q) = IF k + 1 <= Len(s) THEN Len(s) - (k + 1) + 1 ELSE 0
        /\ \A i \in 1..Len(s) - (k + 1) + 1 : q[i] = s[k + 1 + i - 1]
    BY <1>1, SubSeqProperties
  <2> QED
    BY <1>1, <2>1
<1>4. r = p \o q
  BY DEF RemoveAt
<1> HIDE DEF p, q, r
<1>5. /\ r \in Seq(S) /\ Len(r) = Len(p) + Len(q)
      /\ \A i \in 1..Len(p) + Len(q) : /\ i <= Len(p) => r[i] = p[i]
                                       /\ ~(i <= Len(p)) => r[i] = q[i - Len(p)]
  <2>1. p \in Seq(S) /\ q \in Seq(S)
    BY <1>2, <1>3
  <2> QED
    BY <1>4, <2>1
<1>6. Len(r) = Len(s) - 1
  BY <1>1, <1>2, <1>3, <1>5
<1>7. ASSUME NEW i \in 1..Len(s) - 1, i < k
      PROVE  r[i] = s[i]
  BY <1>1, <1>2, <1>3, <1>5, <1>7
<1>8. ASSUME NEW i \in 1..Len(s) - 1, i >= k
      PROVE  r[i] = s[i + 1]
  <2>1. i - (k - 1) \in 1..Len(s) - k /\ k + (i - (k - 1)) = i + 1
    BY <1>1, <1>8
  <2>2. r[i] = q[i - (k - 1)]
    BY <1>1, <1>2, <1>3, <1>5, <1>8
  <2> QED
    BY <1>3, <2>1, <2>2
<1> QED
  BY <1>5, <1>6, <1>7, <1>8 DEF r

(* No operation is pending twice. *)
Distinct(s) == \A i, j \in DOMAIN s : s[i] = s[j] => i = j

\* An operation that leaves the batch leaves the others in it, each once.
LEMMA PendingLeaves ==
    ASSUME NEW b, Typed(b), Distinct(b.pending),
           b.slot = IF b.pending = <<>> THEN 0 ELSE b.pending[1],
           NEW id, NEW c, c = _consumePendingSettlementOperation(b, id)
    PROVE  /\ c.pending \in Seq(OpId) /\ Len(c.pending) <= Len(b.pending)
           /\ \A i \in DOMAIN c.pending :
                \E j \in DOMAIN b.pending : c.pending[i] = b.pending[j] /\ b.pending[j] # id
           /\ Distinct(c.pending)
           /\ c.slot = IF c.pending = <<>> THEN 0 ELSE c.pending[1]
<1> DEFINE s == b.pending
           Places == {i \in DOMAIN s : s[i] = id}
<1>1. DOMAIN b = Fields /\ s \in Seq(OpId) /\ Len(s) \in Nat /\ DOMAIN s = 1..Len(s)
  BY DEF Typed
<1>2. CASE id \notin ToSet(s)
  <2>1. c = b
    BY <1>2 DEF _consumePendingSettlementOperation
  <2>2. \A i \in DOMAIN s : s[i] # id
    BY <1>2 DEF ToSet
  <2> QED
    BY <1>1, <2>1, <2>2
<1>3. CASE id \in ToSet(s)
  <2> DEFINE first == CHOOSE i \in DOMAIN s :
                          /\ s[i] = id
                          /\ \A j \in DOMAIN s : s[j] = id => i <= j
             rest == RemoveAt(s, first)
  <2>1. Places \in SUBSET Nat /\ Places # {}
    BY <1>1, <1>3 DEF ToSet
  <2>2. \E i \in Places : \A j \in Places : i <= j
    BY <2>1, LeastNumber
  <2>3. first \in DOMAIN s /\ s[first] = id
    BY <2>2
  <2>4. c = [b EXCEPT !.pending = rest, !.slot = IF rest = <<>> THEN 0 ELSE rest[1]]
    BY <1>3 DEF _consumePendingSettlementOperation
  <2>5. c.pending = rest /\ c.slot = IF rest = <<>> THEN 0 ELSE rest[1]
    BY <1>1, <2>4 DEF Fields
  <2> HIDE DEF first
  <2>6. /\ rest \in Seq(OpId) /\ Len(rest) = Len(s) - 1
        /\ \A i \in 1..Len(s) - 1 : /\ i < first => rest[i] = s[i]
                                    /\ i >= first => rest[i] = s[i + 1]
    <3> DEFINE k == first
    <3>1. k \in 1..Len(s)
      BY <1>1, <2>3
    <3> QED
      BY <1>1, <3>1, RemoveAtFacts
  <2> HIDE DEF rest
  <2>7. DOMAIN rest = 1..Len(s) - 1 /\ first \in Nat
    BY <1>1, <2>3, <2>6
  <2>8. ASSUME NEW i \in DOMAIN rest
        PROVE  \E j \in DOMAIN s : /\ rest[i] = s[j] /\ s[j] # id
                                   /\ (j = i /\ i < first) \/ (j = i + 1 /\ i >= first)
    <3>1. CASE i < first
      BY <1>1, <2>3, <2>6, <2>7, <3>1 DEF Distinct
    <3>2. CASE i >= first
      <4>1. i + 1 \in DOMAIN s /\ i + 1 # first /\ rest[i] = s[i + 1]
        BY <1>1, <2>6, <2>7, <3>2
      <4> QED
        BY <2>3, <2>7, <3>2, <4>1 DEF Distinct
    <3> QED
      BY <1>1, <2>7, <3>1, <3>2
  <2>9. ASSUME NEW i \in DOMAIN rest, NEW j \in DOMAIN rest, rest[i] = rest[j]
        PROVE  i = j
    <3>1. PICK p \in DOMAIN s : /\ rest[i] = s[p]
                                /\ (p = i /\ i < first) \/ (p = i + 1 /\ i >= first)
      BY <2>8
    <3>2. PICK q \in DOMAIN s : /\ rest[j] = s[q]
                                /\ (q = j /\ j < first) \/ (q = j + 1 /\ j >= first)
      BY <2>8
    <3>3. p = q
      BY <2>9, <3>1, <3>2 DEF Distinct
    <3> QED
      BY <2>7, <3>1, <3>2, <3>3
  <2> QED
    BY <1>1, <2>5, <2>6, <2>8, <2>9 DEF Distinct
<1> QED
  BY <1>2, <1>3

-----------------------------------------------------------------------------
(* The quotas.                                                             *)

Reservation == [approval: Approval \cup {NoApproval}, amount: Nat, settled: BOOLEAN]

AnyQuota == [installed: BOOLEAN, available: Int, reserved: Int, consumed: Int,
             revoked: BOOLEAN]

\* Spend, field by field.
LEMMA SpendFacts ==
    ASSUME NEW q \in QuotaType, NEW n \in Nat, NEW moved \in Nat
    PROVE  /\ Spend(q, n, moved) \in AnyQuota
           /\ Spend(q, n, moved).installed = q.installed
           /\ Spend(q, n, moved).reserved = q.reserved - n
           /\ Spend(q, n, moved).consumed = q.consumed + moved
           /\ Spend(q, n, moved).available = q.available + (n - moved)
<1> DEFINE x == [q EXCEPT !.reserved = q.reserved - n]
           y == [x EXCEPT !.consumed = q.consumed + moved]
           z == [y EXCEPT !.available = q.available + (n - moved)]
<1>1. /\ q \in AnyQuota /\ q.reserved - n \in Int /\ q.consumed + moved \in Int
      /\ q.available + (n - moved) \in Int
  BY DEF QuotaType, AnyQuota
<1>2. x \in AnyQuota /\ x.installed = q.installed /\ x.reserved = q.reserved - n
  BY <1>1 DEF AnyQuota
<1>3. /\ y \in AnyQuota /\ y.installed = q.installed /\ y.reserved = q.reserved - n
      /\ y.consumed = q.consumed + moved
  BY <1>1, <1>2 DEF AnyQuota
<1>4. /\ z \in AnyQuota /\ z.installed = q.installed /\ z.reserved = q.reserved - n
      /\ z.consumed = q.consumed + moved /\ z.available = q.available + (n - moved)
  BY <1>1, <1>3 DEF AnyQuota
<1>5. Spend(q, n, moved) = z
  BY DEF Spend
<1> QED
  BY <1>4, <1>5

Closed(r) == [r EXCEPT !.settled = TRUE]

\* A reservation once it is settled.
LEMMA ClosedFacts ==
    ASSUME NEW r \in Reservation
    PROVE  /\ Closed(r) \in Reservation /\ Closed(r).amount = r.amount
           /\ Closed(r).approval = r.approval /\ Closed(r).settled = TRUE
BY DEF Reservation, Closed

(* Only reservation id was closed, between two states of the reservations. *)
ClosedIn(old, new, id) ==
    /\ new \in [OpId -> Reservation]
    /\ \A i \in OpId : /\ new[i].amount = old[i].amount /\ new[i].approval = old[i].approval
                       /\ i # id => new[i].settled = old[i].settled
    /\ new[id].settled = TRUE

(* Only quota a was spent, between two states of the quotas. *)
SpentOf(old, new, a, n, moved) ==
    /\ new \in [Approval -> AnyQuota]
    /\ \A x \in Approval : x # a => new[x] = old[x]
    /\ new[a].installed = old[a].installed
    /\ new[a].reserved = old[a].reserved - n
    /\ new[a].consumed = old[a].consumed + moved
    /\ new[a].available = old[a].available + (n - moved)

\* SettleReservation: one reservation closes, and its quota alone changes.
LEMMA SettledQuota ==
    ASSUME NEW b, DOMAIN b = Fields, b.quota \in [Approval -> QuotaType],
           b.reservation \in [OpId -> Reservation], NEW id \in OpId, NEW moved \in Nat,
           NEW a \in Approval, a = b.reservation[id].approval, a # NoApproval,
           b.reservation[id].settled = FALSE, NEW d, d = SettleReservation(b, id, moved)
    PROVE  /\ ClosedIn(b.reservation, d.reservation, id)
           /\ SpentOf(b.quota, d.quota, a, b.reservation[id].amount, moved)
<1> DEFINE n == b.reservation[id].amount
           q == b.quota[a]
           p == Spend(q, n, moved)
<1>1. d = [b EXCEPT !.reservation[id].settled = TRUE, !.quota[a] = p]
  BY DEF SettleReservation
<1>2. n \in Nat /\ q \in QuotaType
  BY DEF Reservation
<1>3. /\ p \in AnyQuota /\ p.installed = q.installed /\ p.reserved = q.reserved - n
      /\ p.consumed = q.consumed + moved /\ p.available = q.available + (n - moved)
  BY <1>2, SpendFacts
<1>4. /\ d.reservation = [b.reservation EXCEPT ![id].settled = TRUE]
      /\ d.quota = [b.quota EXCEPT ![a] = p]
  BY <1>1 DEF Fields
<1>5. b.quota \in [Approval -> AnyQuota]
  BY DEF QuotaType, AnyQuota
<1> HIDE DEF p, q, n
<1>6. /\ d.quota \in [Approval -> AnyQuota]
      /\ \A x \in Approval : x # a => d.quota[x] = b.quota[x]
      /\ d.quota[a] = p
  BY <1>3, <1>4, <1>5
<1>7. /\ d.reservation \in [OpId -> Reservation]
      /\ \A i \in OpId : /\ d.reservation[i].amount = b.reservation[i].amount
                         /\ d.reservation[i].approval = b.reservation[i].approval
                         /\ i # id => d.reservation[i].settled = b.reservation[i].settled
      /\ d.reservation[id].settled = TRUE
  <2> DEFINE r == Closed(b.reservation[id])
  <2>1. d.reservation = [b.reservation EXCEPT ![id] = r]
    BY <1>4 DEF Closed
  <2>2. b.reservation[id] \in Reservation
    OBVIOUS
  <2>3. /\ r \in Reservation /\ r.amount = b.reservation[id].amount
        /\ r.approval = b.reservation[id].approval /\ r.settled = TRUE
    BY <2>2, ClosedFacts
  <2> HIDE DEF r
  <2>4. d.reservation \in [OpId -> Reservation]
    BY <2>1, <2>3
  <2>5. d.reservation[id] = r /\ \A i \in OpId : i # id => d.reservation[i] = b.reservation[i]
    BY <2>1
  <2> QED
    BY <2>3, <2>4, <2>5
<1> QED
  BY <1>3, <1>6, <1>7 DEF q, n, ClosedIn, SpentOf

\* The sums of the quotas follow: what closes leaves the reserved sum of its
\* approval, what it moved joins the consumed one, and the total stays.
LEMMA Settlement ==
    ASSUME NEW b, Typed(b), Reconciled(b), NEW id \in b.live,
           NEW moved \in Nat,
           b.ops[id].approval # NoApproval => moved <= b.reservation[id].amount,
           b.result[id].moved = 0,
           NEW d, d = SettleReservation(b, id, moved),
           NEW c, c.quota = d.quota, c.reservation = d.reservation,
           c.counter = b.counter, c.ops = b.ops, c.live = b.live \ {id},
           c.result[id].moved = moved,
           \A i \in OpId \ {id} : c.result[i].moved = b.result[i].moved
    PROVE  /\ Reconciled(c) /\ c.quota \in [Approval -> QuotaType]
           /\ c.reservation \in [OpId -> Reservation]
           /\ \A i \in OpId : c.reservation[i].amount = b.reservation[i].amount
<1> DEFINE a == b.reservation[id].approval
           n == b.reservation[id].amount
<1>1. /\ DOMAIN b = Fields /\ id \in OpId
      /\ b.quota \in [Approval -> QuotaType] /\ b.reservation \in [OpId -> Reservation]
      /\ b.result \in [OpId -> [status: {"none", "ok", "failed"}, moved: Nat]]
      /\ id \in 1..b.counter
  BY LiveIsFinite DEF Typed, Reservation
<1>2. a = b.ops[id].approval /\ n \in Nat /\ NoApproval \notin Approval
  BY <1>1, CoordinatorAssumption DEF Reconciled, Reservation
<1>3. IsFiniteSet(OpId)
  <2>1. MaxOps \in Nat
    BY CoordinatorAssumption
  <2> QED
    BY <2>1, FS_Interval DEF OpId
<1>4. \A i \in OpId : /\ AmountOf(b)[i] = b.reservation[i].amount /\ AmountOf(b)[i] \in Nat
                      /\ MovedOf(b)[i] = b.result[i].moved /\ MovedOf(b)[i] \in Nat
  BY <1>1 DEF AmountOf, MovedOf, Reservation
<1>5. CASE a = NoApproval
  <2>1. c.quota = b.quota /\ c.reservation = b.reservation
    BY <1>5 DEF SettleReservation
  <2>2. ASSUME NEW x \in Approval
        PROVE  /\ SumFunctionOnSet(AmountOf(c), ReservedIn(c, x))
                    = SumFunctionOnSet(AmountOf(b), ReservedIn(b, x))
               /\ SumFunctionOnSet(MovedOf(c), SpentIn(c, x))
                    = SumFunctionOnSet(MovedOf(b), SpentIn(b, x))
    <3>1. /\ ReservedIn(c, x) = ReservedIn(b, x) /\ SpentIn(c, x) = SpentIn(b, x)
          /\ AmountOf(c) = AmountOf(b)
      BY <2>1 DEF ReservedIn, SpentIn, AmountOf
    <3>2. SpentIn(b, x) \subseteq OpId /\ id \notin SpentIn(b, x)
      BY <1>2, <1>5 DEF SpentIn
    <3>3. \A i \in SpentIn(b, x) : MovedOf(c)[i] = MovedOf(b)[i] /\ MovedOf(b)[i] \in Int
      BY <1>4, <3>2 DEF MovedOf
    <3>4. IsFiniteSet(SpentIn(b, x))
      BY <1>3, <3>2, FS_Subset
    <3>5. SumFunctionOnSet(MovedOf(c), SpentIn(b, x))
            = SumFunctionOnSet(MovedOf(b), SpentIn(b, x))
      BY <3>3, <3>4, SumAgree
    <3> QED
      BY <3>1, <3>5
  <2>3. \A i \in OpId :
           /\ c.reservation[i].approval =
                IF i \in 1..c.counter THEN c.ops[i].approval ELSE NoApproval
           /\ c.reservation[i].approval # NoApproval =>
                /\ c.reservation[i].settled = (i \notin c.live)
                /\ c.quota[c.reservation[i].approval].installed
    BY <1>5, <2>1 DEF Reconciled
  <2>4. \A x \in Approval :
          /\ c.quota[x].reserved = SumFunctionOnSet(AmountOf(c), ReservedIn(c, x))
          /\ c.quota[x].consumed = SumFunctionOnSet(MovedOf(c), SpentIn(c, x))
          /\ IF c.quota[x].installed
             THEN c.quota[x].available + c.quota[x].reserved + c.quota[x].consumed
                    = ApprovalTerms[x].maxCumulative
             ELSE c.quota[x].reserved = 0 /\ c.quota[x].consumed = 0
    BY <2>1, <2>2 DEF Reconciled
  <2> QED
    BY <1>1, <2>1, <2>3, <2>4 DEF Reconciled
<1>6. CASE a # NoApproval
  <2>1. /\ a \in Approval /\ ~b.reservation[id].settled /\ b.quota[a].installed /\ moved <= n
        /\ b.quota[a] \in QuotaType
    BY <1>1, <1>2, <1>6 DEF Reconciled, Reservation
  <2>2. ClosedIn(b.reservation, d.reservation, id) /\ SpentOf(b.quota, d.quota, a, n, moved)
    <3>1. b.reservation[id].settled = FALSE
      BY <1>1, <2>1 DEF Reservation
    <3> QED
      BY <1>1, <1>6, <2>1, <3>1, SettledQuota
  <2>4. /\ c.reservation \in [OpId -> Reservation]
        /\ \A i \in OpId : /\ c.reservation[i].amount = b.reservation[i].amount
                           /\ c.reservation[i].approval = b.reservation[i].approval
                           /\ i # id => c.reservation[i].settled = b.reservation[i].settled
        /\ c.reservation[id].settled = TRUE
    BY <2>2 DEF ClosedIn
  <2>5. /\ c.quota \in [Approval -> AnyQuota]
        /\ \A x \in Approval : x # a => c.quota[x] = b.quota[x]
        /\ c.quota[a].installed = b.quota[a].installed
        /\ c.quota[a].reserved = b.quota[a].reserved - n
        /\ c.quota[a].consumed = b.quota[a].consumed + moved
        /\ c.quota[a].available = b.quota[a].available + (n - moved)
    BY <2>2 DEF SpentOf
  <2>6. \A x \in Approval : /\ SpentIn(c, x) = SpentIn(b, x)
                            /\ x # a => ReservedIn(c, x) = ReservedIn(b, x)
    BY <2>4 DEF SpentIn, ReservedIn
  <2>7. /\ ReservedIn(c, a) = ReservedIn(b, a) \ {id}
        /\ id \in ReservedIn(b, a) /\ id \in SpentIn(b, a)
    BY <1>1, <2>1, <2>4 DEF ReservedIn, SpentIn
  <2>8. AmountOf(c) = AmountOf(b)
    BY <2>4 DEF AmountOf
  <2>9. \A x \in Approval : /\ IsFiniteSet(ReservedIn(b, x)) /\ ReservedIn(b, x) \subseteq OpId
                            /\ IsFiniteSet(SpentIn(b, x)) /\ SpentIn(b, x) \subseteq OpId
    BY <1>3, FS_Subset DEF ReservedIn, SpentIn
  <2>10. /\ SumFunctionOnSet(AmountOf(b), ReservedIn(b, a)) \in Nat
         /\ SumFunctionOnSet(AmountOf(b), ReservedIn(b, a) \ {id})
              = SumFunctionOnSet(AmountOf(b), ReservedIn(b, a)) - n
         /\ n <= SumFunctionOnSet(AmountOf(b), ReservedIn(b, a))
    <3> DEFINE R == ReservedIn(b, a)
               f == AmountOf(b)
    <3>1. IsFiniteSet(R) /\ id \in R /\ \A i \in R : f[i] \in Nat
      BY <1>4, <2>1, <2>7, <2>9
    <3>2. f[id] = n
      BY <1>1, <1>4
    <3> HIDE DEF R, f
    <3>3. SumFunctionOnSet(f, R) \in Nat
      BY <3>1, SumNat
    <3>4. f[id] <= SumFunctionOnSet(f, R)
      BY <3>1, SumTerm
    <3>5. \A i \in R : f[i] \in Int
      BY <3>1
    <3>6. SumFunctionOnSet(f, R) = f[id] + SumFunctionOnSet(f, R \ {id})
      BY <3>1, <3>5, SumRemove
    <3>7. IsFiniteSet(R \ {id}) /\ \A i \in R \ {id} : f[i] \in Int
      BY <3>1, <3>5, FS_Subset
    <3>8. SumFunctionOnSet(f, R \ {id}) \in Int
      BY <3>7, SumInt
    <3>9. SumFunctionOnSet(f, R \ {id}) = SumFunctionOnSet(f, R) - n
      BY <1>2, <3>2, <3>3, <3>6, <3>8
    <3> QED
      BY <3>2, <3>3, <3>4, <3>9 DEF R, f
  <2>11. ASSUME NEW x \in Approval
         PROVE  SumFunctionOnSet(MovedOf(c), SpentIn(b, x))
                  = SumFunctionOnSet(MovedOf(b), SpentIn(b, x)) + IF x = a THEN moved ELSE 0
    <3> DEFINE S == SpentIn(b, x)
               f == MovedOf(b)
               g == MovedOf(c)
    <3>1. IsFiniteSet(S) /\ S \subseteq OpId /\ (id \in S <=> x = a)
      BY <1>1, <2>9 DEF SpentIn
    <3>2. /\ \A i \in OpId : f[i] \in Int /\ g[i] \in Int /\ (i # id => g[i] = f[i])
          /\ f[id] = 0 /\ g[id] = moved
      BY <1>1, <1>4 DEF MovedOf
    <3> HIDE DEF S, f, g
    <3>3. SumFunctionOnSet(f, S) \in Int
      BY <3>1, <3>2, SumInt
    <3>4. CASE x = a
      <4>1. id \in S /\ \A i \in S \ {id} : g[i] = f[i]
        BY <3>1, <3>2, <3>4
      <4>2. \A i \in S : f[i] \in Int /\ g[i] \in Int
        BY <3>1, <3>2
      <4>3. SumFunctionOnSet(g, S) = SumFunctionOnSet(f, S) + (g[id] - f[id])
        BY <3>1, <4>1, <4>2, SumChange
      <4> QED
        BY <3>2, <3>3, <3>4, <4>3 DEF f, g, S
    <3>5. CASE x # a
      <4>1. \A i \in S : f[i] \in Int /\ g[i] = f[i]
        BY <3>1, <3>2, <3>5
      <4>2. SumFunctionOnSet(g, S) = SumFunctionOnSet(f, S)
        BY <3>1, <4>1, SumAgree
      <4> QED
        BY <3>3, <3>5, <4>2 DEF f, g, S
    <3> QED
      BY <3>4, <3>5
  <2>12. \A i \in OpId :
           /\ c.reservation[i].approval =
                IF i \in 1..c.counter THEN c.ops[i].approval ELSE NoApproval
           /\ c.reservation[i].approval # NoApproval =>
                /\ c.reservation[i].settled = (i \notin c.live)
                /\ c.quota[c.reservation[i].approval].installed
    <3> SUFFICES ASSUME NEW i \in OpId
                 PROVE  /\ c.reservation[i].approval =
                             IF i \in 1..c.counter THEN c.ops[i].approval ELSE NoApproval
                        /\ c.reservation[i].approval # NoApproval =>
                             /\ c.reservation[i].settled = (i \notin c.live)
                             /\ c.quota[c.reservation[i].approval].installed
      OBVIOUS
    <3>1. /\ c.reservation[i].approval = b.reservation[i].approval
          /\ b.reservation[i].approval \in Approval \cup {NoApproval}
          /\ b.reservation[i].settled \in BOOLEAN
      BY <1>1, <2>4 DEF Reservation
    <3>2. /\ b.reservation[i].approval =
               IF i \in 1..b.counter THEN b.ops[i].approval ELSE NoApproval
          /\ b.reservation[i].approval # NoApproval =>
               /\ b.reservation[i].settled = (i \notin b.live)
               /\ b.quota[b.reservation[i].approval].installed
      BY DEF Reconciled
    <3>3. b.reservation[i].approval # NoApproval =>
            c.quota[c.reservation[i].approval].installed
      BY <2>5, <3>1, <3>2
    <3>4. b.reservation[i].approval # NoApproval =>
            c.reservation[i].settled = (i \notin c.live)
      BY <2>4, <3>2
    <3> QED
      BY <3>1, <3>2, <3>3, <3>4
  <2>13. ASSUME NEW x \in Approval
         PROVE  /\ c.quota[x].reserved = SumFunctionOnSet(AmountOf(c), ReservedIn(c, x))
                /\ c.quota[x].consumed = SumFunctionOnSet(MovedOf(c), SpentIn(c, x))
                /\ IF c.quota[x].installed
                   THEN c.quota[x].available + c.quota[x].reserved + c.quota[x].consumed
                          = ApprovalTerms[x].maxCumulative
                   ELSE c.quota[x].reserved = 0 /\ c.quota[x].consumed = 0
    <3>1. /\ b.quota[x].reserved = SumFunctionOnSet(AmountOf(b), ReservedIn(b, x))
          /\ b.quota[x].consumed = SumFunctionOnSet(MovedOf(b), SpentIn(b, x))
          /\ IF b.quota[x].installed
             THEN b.quota[x].available + b.quota[x].reserved + b.quota[x].consumed
                    = ApprovalTerms[x].maxCumulative
             ELSE b.quota[x].reserved = 0 /\ b.quota[x].consumed = 0
      BY DEF Reconciled
    <3>2. /\ b.quota[x].reserved \in Nat /\ b.quota[x].consumed \in Nat
          /\ b.quota[x].available \in Nat /\ ApprovalTerms[x].maxCumulative \in Nat
      BY <1>1, CoordinatorAssumption DEF QuotaType
    <3>3. CASE x = a
      <4>1. SumFunctionOnSet(MovedOf(c), SpentIn(c, x)) = b.quota[x].consumed + moved
        BY <2>6, <2>11, <3>1, <3>3
      <4>2. SumFunctionOnSet(AmountOf(c), ReservedIn(c, x)) = b.quota[x].reserved - n
        BY <2>7, <2>8, <2>10, <3>1, <3>3
      <4>3. /\ c.quota[x].reserved = b.quota[x].reserved - n
            /\ c.quota[x].consumed = b.quota[x].consumed + moved
            /\ c.quota[x].available = b.quota[x].available + (n - moved)
            /\ b.quota[x].installed
        BY <2>1, <2>5, <3>3
      <4>4. c.quota[x].available + c.quota[x].reserved + c.quota[x].consumed
              = ApprovalTerms[x].maxCumulative
        BY <1>2, <3>1, <3>2, <4>3
      <4>5. c.quota[x].installed
        BY <2>5, <3>3, <4>3
      <4> QED
        BY <4>1, <4>2, <4>3, <4>4, <4>5
    <3>4. CASE x # a
      <4>1. SumFunctionOnSet(MovedOf(c), SpentIn(c, x)) = b.quota[x].consumed
        BY <2>6, <2>11, <3>1, <3>2, <3>4
      <4> QED
        BY <2>5, <2>6, <2>8, <3>1, <3>4, <4>1
    <3> QED
      BY <3>3, <3>4
  <2>14. c.quota \in [Approval -> QuotaType]
    <3>1. n <= b.quota[a].reserved
      BY <2>1, <2>10 DEF Reconciled
    <3>2. /\ b.quota[a].reserved \in Nat /\ b.quota[a].consumed \in Nat
          /\ b.quota[a].available \in Nat
      BY <2>1 DEF QuotaType
    <3>3. /\ c.quota[a].reserved \in Nat /\ c.quota[a].consumed \in Nat
          /\ c.quota[a].available \in Nat
      BY <1>2, <2>1, <2>5, <3>1, <3>2
    <3>4. \A x \in Approval : c.quota[x] \in QuotaType
      BY <1>1, <2>1, <2>5, <3>3 DEF QuotaType, AnyQuota
    <3> QED
      BY <2>5, <3>4
  <2> QED
    BY <2>4, <2>12, <2>13, <2>14 DEF Reconciled
<1> QED
  BY <1>5, <1>6

-----------------------------------------------------------------------------
(* An operation leaves the indexes.                                        *)

(* Two books with the same indexes and operations. *)
SameIndexes(b, x) ==
    /\ DOMAIN x = Fields
    /\ x.counter = b.counter /\ x.ops = b.ops
    /\ x.pending = b.pending /\ x.slot = b.slot
    /\ x.live = b.live /\ x.count = b.count /\ x.latest = b.latest
    /\ x.older = b.older /\ x.newer = b.newer

(* The indexes of d, once id left those of b. *)
LeftIndexes(b, d, id) ==
    /\ DOMAIN d = Fields
    /\ d.counter = b.counter /\ d.ops = b.ops /\ d.live = b.live \ {id}
    /\ d.pending \in Seq(OpId) /\ Len(d.pending) <= MAX_PENDING_SETTLEMENT_OPERATIONS
    /\ DOMAIN d.older = OpId /\ DOMAIN d.newer = OpId
    /\ \A i \in DOMAIN d.pending : \E j \in DOMAIN b.pending : d.pending[i] = b.pending[j]

\* The batch's part of the invariant, with Distinct in it.
LEMMA BatchedIsDistinct ==
    ASSUME NEW b
    PROVE  Batched(b) <=>
             /\ \A i \in DOMAIN b.pending : b.pending[i] \in b.live
             /\ Distinct(b.pending)
             /\ b.slot = IF b.pending = <<>> THEN 0 ELSE b.pending[1]
BY DEF Batched, Distinct

\* Both indexes are sound once an operation is deleted from them.
LEMMA IndexesClose ==
    ASSUME NEW b, Typed(b), Linked(b), Batched(b), NEW id \in b.live,
           NEW x, SameIndexes(b, x), NEW d, d = _deleteStagedOperation(x, id)
    PROVE  /\ LeftIndexes(b, d, id) /\ Linked(d) /\ Batched(d)
           /\ d.quota = x.quota /\ d.reservation = x.reservation
           /\ d.vault = x.vault /\ d.result = x.result
<1> DEFINE p == _consumePendingSettlementOperation(b, id)
           px == _consumePendingSettlementOperation(x, id)
<1>1. DOMAIN b = Fields /\ DOMAIN x = Fields /\ x.pending = b.pending /\ x.slot = b.slot
  BY DEF Typed, SameIndexes
<1>2. d = _consumeActiveStagedOperation(px, id)
  BY DEF _deleteStagedOperation
<1>3. /\ DOMAIN px = Fields
      /\ px.counter = b.counter /\ px.ops = b.ops
      /\ px.quota = x.quota /\ px.reservation = x.reservation
      /\ px.live = b.live /\ px.count = b.count /\ px.latest = b.latest
      /\ px.older = b.older /\ px.newer = b.newer
      /\ px.vault = x.vault /\ px.result = x.result
  BY <1>1, PendingFields DEF SameIndexes
<1>4. px.pending = p.pending /\ px.slot = p.slot
  BY <1>1 DEF _consumePendingSettlementOperation, Fields
<1>5. /\ Distinct(b.pending) /\ \A i \in DOMAIN b.pending : b.pending[i] \in b.live
      /\ b.slot = IF b.pending = <<>> THEN 0 ELSE b.pending[1]
  BY BatchedIsDistinct
<1>6. /\ p.pending \in Seq(OpId) /\ Len(p.pending) <= Len(b.pending)
      /\ \A i \in DOMAIN p.pending :
           \E j \in DOMAIN b.pending : p.pending[i] = b.pending[j] /\ b.pending[j] # id
      /\ Distinct(p.pending)
      /\ p.slot = IF p.pending = <<>> THEN 0 ELSE p.pending[1]
  BY <1>5, PendingLeaves
<1> HIDE DEF p, px
<1>7. /\ DOMAIN d = Fields
      /\ d.counter = px.counter /\ d.ops = px.ops
      /\ d.pending = px.pending /\ d.slot = px.slot
      /\ d.quota = px.quota /\ d.reservation = px.reservation
      /\ d.vault = px.vault /\ d.result = px.result
      /\ d.live = px.live \ {id}
      /\ DOMAIN d.older = OpId /\ DOMAIN d.newer = OpId
  BY <1>2, <1>3, ActiveFields
<1>8. Linked(d)
  BY <1>2, <1>3, LinksClose
<1>9. LeftIndexes(b, d, id)
  <2>1. d.pending = p.pending /\ DOMAIN d = Fields
    BY <1>4, <1>7
  <2>2. /\ d.counter = b.counter /\ d.ops = b.ops /\ d.live = b.live \ {id}
        /\ DOMAIN d.older = OpId /\ DOMAIN d.newer = OpId
    BY <1>3, <1>7
  <2>3. Len(d.pending) <= MAX_PENDING_SETTLEMENT_OPERATIONS
    <3>1. /\ Len(p.pending) <= Len(b.pending)
          /\ Len(b.pending) <= MAX_PENDING_SETTLEMENT_OPERATIONS
          /\ Len(p.pending) \in Nat /\ Len(b.pending) \in Nat
          /\ MAX_PENDING_SETTLEMENT_OPERATIONS \in Nat
      BY <1>6, CoordinatorAssumption DEF Typed
    <3> QED
      BY <2>1, <3>1
  <2> QED
    BY <1>6, <2>1, <2>2, <2>3 DEF LeftIndexes
<1>10. Batched(d)
  <2>1. d.pending = p.pending /\ d.slot = p.slot /\ d.live = b.live \ {id}
    BY <1>3, <1>4, <1>7
  <2>2. \A i \in DOMAIN p.pending : p.pending[i] \in b.live \ {id}
    BY <1>5, <1>6
  <2> QED
    BY <1>6, <2>1, <2>2, BatchedIsDistinct
<1> QED
  BY <1>3, <1>7, <1>8, <1>9, <1>10

VaultType == [units: Nat, capacity: Nat]
ResultType == [status: {"none", "ok", "failed"}, moved: Nat]

\* A book is sound when its indexes have let go of an operation, its reservation
\* is settled and it has its result.
LEMMA SoundOnceSettled ==
    ASSUME NEW b, Sound(b), NEW id \in b.live, NEW moved \in Nat, NEW s \in {"ok", "failed"},
           b.ops[id].approval # NoApproval => moved <= b.reservation[id].amount,
           NEW x, SameIndexes(b, x), NEW d, d = _deleteStagedOperation(x, id),
           NEW q, q = SettleReservation(b, id, moved),
           NEW c, SameIndexes(d, c), c.quota = q.quota, c.reservation = q.reservation,
           c.vault \in [Vault -> VaultType],
           DOMAIN c.result = OpId, c.result[id].status = s, c.result[id].moved = moved,
           c.result \in [OpId -> ResultType],
           \A i \in OpId \ {id} : c.result[i] = b.result[i]
    PROVE  Sound(c) /\ LeftIndexes(b, c, id)
<1>1. Typed(b) /\ Linked(b) /\ Batched(b) /\ Reconciled(b) /\ Termed(b)
  BY DEF Sound
<1>2. LeftIndexes(b, d, id) /\ Linked(d) /\ Batched(d)
  BY <1>1, IndexesClose
<1>3. LeftIndexes(b, c, id) /\ Linked(c) /\ Batched(c)
  <2>1. LeftIndexes(b, c, id)
    BY <1>2 DEF LeftIndexes, SameIndexes
  <2>2. Linked(c)
    BY <1>2 DEF SameIndexes, Linked, LiveBefore, LiveAfter
  <2>3. Batched(c)
    BY <1>2 DEF SameIndexes, Batched
  <2> QED
    BY <2>1, <2>2, <2>3
<1>4. id \in OpId /\ id \in 1..b.counter
  BY <1>1, LiveIsFinite DEF Typed
<1>5. b.result[id] = [status |-> "none", moved |-> 0]
  BY <1>1, <1>4 DEF Termed
<1>6. c.counter = b.counter /\ c.ops = b.ops /\ c.live = b.live \ {id}
  BY <1>3 DEF LeftIndexes
<1>7. /\ Reconciled(c) /\ c.quota \in [Approval -> QuotaType]
      /\ c.reservation \in [OpId -> Reservation]
      /\ \A i \in OpId : c.reservation[i].amount = b.reservation[i].amount
  <2>1. \A i \in OpId \ {id} : c.result[i].moved = b.result[i].moved
    OBVIOUS
  <2>2. b.result[id].moved = 0
    BY <1>5
  <2> QED
    BY <1>1, <1>6, <2>1, <2>2, Settlement
<1>8. Typed(c)
  <2>1. /\ DOMAIN c = Fields /\ c.counter \in 0..MaxOps /\ c.live \subseteq 1..c.counter
        /\ DOMAIN c.ops = OpId /\ \A i \in 1..c.counter : c.ops[i] \in Operation
        /\ c.pending \in Seq(OpId) /\ Len(c.pending) <= MAX_PENDING_SETTLEMENT_OPERATIONS
        /\ DOMAIN c.older = OpId /\ DOMAIN c.newer = OpId
    BY <1>1, <1>3, <1>6 DEF LeftIndexes, Typed
  <2> QED
    BY <1>7, <2>1 DEF Typed, Reservation, VaultType, ResultType
<1>9. Termed(c)
  <2>1. \A i \in 1..c.counter :
          /\ c.ops[i].kind = "WithdrawRep" => c.ops[i].target = c.ops[i].operator
          /\ c.ops[i].approval # NoApproval =>
               /\ Expiry(c.ops[i]) <= ApprovalTerms[c.ops[i].approval].validUntil
               /\ c.reservation[i].amount
                    <= ApprovalTerms[c.ops[i].approval].maxPerLiquidation
    <3>1. 1..b.counter \subseteq OpId
      BY <1>1, LiveIsFinite DEF OpId
    <3> QED
      BY <1>1, <1>6, <1>7, <3>1 DEF Termed
  <2>2. ASSUME NEW i \in OpId, i \in c.live \/ i > c.counter
        PROVE  c.result[i] = [status |-> "none", moved |-> 0]
    <3>1. i # id
      <4>1. i \in Int /\ id \in Int /\ b.counter \in Nat /\ id <= b.counter
        BY <1>1, <1>4, LiveIsFinite DEF OpId
      <4> QED
        BY <1>6, <2>2, <4>1
    <3>2. i \in b.live \/ i > b.counter
      BY <1>6, <2>2
    <3> QED
      BY <1>1, <3>1, <3>2 DEF Termed
  <2> QED
    BY <2>1, <2>2 DEF Termed
<1> QED
  BY <1>3, <1>7, <1>8, <1>9 DEF Sound

-----------------------------------------------------------------------------
(* An operation is executed, or fails.                                     *)

(* What the receiver agreed to and the target was shown, of a success. *)
TermsMet(b, c, id) ==
    /\ now <= Expiry(b.ops[id])
    /\ b.ops[id].kind = "Liquidation" => b.vault[b.ops[id].target] = b.ops[id].snapshot
    /\ b.ops[id].approval # NoApproval =>
         c.result[id].moved <= ApprovalTerms[b.ops[id].approval].maxPerLiquidation

(* Operation id, and no other, got its result between b and c. *)
Settles(b, c, id) ==
    /\ LeftIndexes(b, c, id)
    /\ \A i \in OpId \ {id} : c.result[i] = b.result[i]
    /\ c.result[id].status \in {"ok", "failed"}
    /\ \A v \in Vault : c.vault[v] # b.vault[v] =>
         c.result[id].status = "ok" /\ v \in {b.ops[id].target, b.ops[id].receiver}
    /\ c.result[id].status = "ok" => TermsMet(b, c, id)

\* What a staged operation is.
LEMMA LiveOperation ==
    ASSUME NEW b, Sound(b), NEW id \in b.live
    PROVE  /\ DOMAIN b = Fields /\ id \in OpId /\ id \in 1..b.counter
           /\ b.ops[id] \in Operation
           /\ b.vault \in [Vault -> VaultType] /\ b.result \in [OpId -> ResultType]
           /\ b.reservation \in [OpId -> Reservation]
           /\ SameIndexes(b, b)
<1>1. Typed(b)
  BY DEF Sound
<1> QED
  BY <1>1, LiveIsFinite DEF Typed, VaultType, ResultType, Reservation, SameIndexes

\* An operation that fails, expires or is rejected gives back all it held.
LEMMA FailedSettles ==
    ASSUME NEW b, Sound(b), NEW id \in b.live, NEW c, c = Failed(b, id)
    PROVE  Sound(c) /\ Settles(b, c, id) /\ c.result[id].status = "failed"
<1> DEFINE x == SettleReservation(b, id, 0)
           d == _deleteStagedOperation(x, id)
           p == [b.result EXCEPT ![id] = [status |-> "failed", moved |-> 0]]
<1>1. /\ DOMAIN b = Fields /\ id \in OpId /\ b.vault \in [Vault -> VaultType]
      /\ b.result \in [OpId -> ResultType]
  BY LiveOperation
<1>2. SameIndexes(b, x) /\ x.vault = b.vault /\ x.result = b.result
  BY <1>1, SettleFields DEF SameIndexes
<1>3. c = [d EXCEPT !.result[id] = [status |-> "failed", moved |-> 0]]
  BY DEF Failed, _consumeStagedOperation, release
<1> HIDE DEF x
<1>4. Typed(b) /\ Linked(b) /\ Batched(b)
  BY DEF Sound
<1>5. /\ LeftIndexes(b, d, id) /\ d.quota = x.quota /\ d.reservation = x.reservation
      /\ d.vault = b.vault /\ d.result = b.result
  BY <1>2, <1>4, IndexesClose
<1>6. DOMAIN d = Fields
  BY <1>5 DEF LeftIndexes
<1>7. d = _deleteStagedOperation(x, id)
  OBVIOUS
<1> HIDE DEF d
<1>8. SameIndexes(d, c)
  BY <1>3, <1>6 DEF SameIndexes, Fields
<1>9. /\ c.quota = x.quota /\ c.reservation = x.reservation
      /\ c.vault = b.vault /\ c.result = p
  BY <1>3, <1>5, <1>6 DEF Fields
<1>10. /\ p \in [OpId -> ResultType] /\ DOMAIN p = OpId
       /\ p[id].status = "failed" /\ p[id].moved = 0
       /\ \A i \in OpId \ {id} : p[i] = b.result[i]
  BY <1>1 DEF ResultType
<1> HIDE DEF p
<1>11. /\ c.vault \in [Vault -> VaultType] /\ DOMAIN c.result = OpId
       /\ c.result[id].status = "failed" /\ c.result[id].moved = 0
       /\ c.result \in [OpId -> ResultType]
       /\ \A i \in OpId \ {id} : c.result[i] = b.result[i]
  BY <1>1, <1>9, <1>10
<1>12. b.ops[id].approval # NoApproval => 0 <= b.reservation[id].amount
  BY <1>1, LiveOperation DEF Reservation
<1>13. Sound(c) /\ LeftIndexes(b, c, id)
  BY <1>2, <1>7, <1>8, <1>9, <1>11, <1>12, SoundOnceSettled DEF x
<1> QED
  BY <1>9, <1>11, <1>13 DEF Settles

\* The least of four integers is one of them and no larger than any.
LEMMA MinOfFour ==
    ASSUME NEW n1 \in Int, NEW n2 \in Int, NEW n3 \in Int, NEW n4 \in Int
    PROVE  /\ Min({n1, n2, n3, n4}) \in {n1, n2, n3, n4}
           /\ Min({n1, n2, n3, n4}) <= n1 /\ Min({n1, n2, n3, n4}) <= n2
           /\ Min({n1, n2, n3, n4}) <= n3 /\ Min({n1, n2, n3, n4}) <= n4
<1>1. \E x \in {n1, n2, n3, n4} : \A y \in {n1, n2, n3, n4} : x <= y
  OBVIOUS
<1> QED
  BY <1>1 DEF Min

\* A liquidation leaves the vaults natural numbers, for it moves no more than the
\* target has.
LEMMA PaidVaults ==
    ASSUME NEW b, DOMAIN b = Fields, b.vault \in [Vault -> VaultType], NEW id, NEW moved \in Nat,
           NEW t \in Vault, t = b.ops[id].target, NEW r \in Vault, r = b.ops[id].receiver,
           moved <= b.vault[t].units, moved <= b.vault[t].capacity,
           NEW y, y = performLiquidation(b, id, moved)
    PROVE  /\ y.vault \in [Vault -> VaultType]
           /\ \A v \in Vault : v \notin {t, r} => y.vault[v] = b.vault[v]
<1> DEFINE less == [units |-> b.vault[t].units - moved, capacity |-> b.vault[t].capacity - moved]
           paid == [b EXCEPT !.vault[t] = less]
           mid == paid.vault
           more == [units |-> mid[r].units + moved, capacity |-> mid[r].capacity + moved]
<1>0. y = [paid EXCEPT !.vault[r] = more]
  BY DEF performLiquidation
<1>1. /\ mid = [b.vault EXCEPT ![t] = less]
      /\ y.vault = [mid EXCEPT ![r] = more]
  BY <1>0 DEF Fields
<1>2. less \in VaultType
  BY DEF VaultType
<1> HIDE DEF less, paid
<1>3. mid \in [Vault -> VaultType] /\ \A v \in Vault : v # t => mid[v] = b.vault[v]
  BY <1>1, <1>2
<1> HIDE DEF mid
<1>4. more \in VaultType
  BY <1>3 DEF VaultType
<1> HIDE DEF more
<1> QED
  BY <1>1, <1>3, <1>4

\* A liquidation that the pool lets through.
LEMMA LiquidationSettles ==
    ASSUME NEW b, Sound(b), NEW id \in b.live, b.ops[id].kind = "Liquidation",
           now <= Expiry(b.ops[id]), ~StaleLiquidation(b, id),
           NEW fate \in Fate, fate # Reverts,
           NEW c, c = _executeLiquidationStagedOperation(b, id, fate)
    PROVE  Sound(c) /\ Settles(b, c, id)
<1> DEFINE t == b.ops[id].target
           r == b.ops[id].receiver
           moved == Min({fate, MaximumDebt(b, id), b.vault[t].units, b.vault[t].capacity})
           y == performLiquidation(b, id, moved)
           x == SettleReservation(y, id, moved)
           q == SettleReservation(b, id, moved)
           d == _deleteStagedOperation(x, id)
           p == [b.result EXCEPT ![id] = [status |-> "ok", moved |-> moved]]
<1>1. /\ DOMAIN b = Fields /\ id \in OpId /\ b.vault \in [Vault -> VaultType]
      /\ b.result \in [OpId -> ResultType] /\ b.reservation \in [OpId -> Reservation]
      /\ b.ops[id] \in Operation /\ id \in 1..b.counter
  BY LiveOperation
<1>2. /\ t \in Vault /\ r \in Vault /\ b.ops[id].amount \in Nat
      /\ b.ops[id].approval \in Approval \cup {NoApproval}
  BY <1>1 DEF Operation
<1>3. MaximumDebt(b, id) \in Nat
  BY <1>1, <1>2 DEF MaximumDebt, Reservation
<1>4. fate \in Nat
  BY DEF Fate, Reverts
<1>5. b.vault[t].units \in Nat /\ b.vault[t].capacity \in Nat
  BY <1>1, <1>2 DEF VaultType
<1>6. /\ moved \in Nat /\ moved <= MaximumDebt(b, id)
      /\ moved <= b.vault[t].units /\ moved <= b.vault[t].capacity
  <2>1. /\ moved \in {fate, MaximumDebt(b, id), b.vault[t].units, b.vault[t].capacity}
        /\ moved <= MaximumDebt(b, id)
        /\ moved <= b.vault[t].units /\ moved <= b.vault[t].capacity
    <3> DEFINE n2 == MaximumDebt(b, id)
               n3 == b.vault[t].units
               n4 == b.vault[t].capacity
    <3>1. fate \in Int /\ n2 \in Int /\ n3 \in Int /\ n4 \in Int
      BY <1>3, <1>4, <1>5
    <3> HIDE DEF n2, n3, n4
    <3>2. /\ Min({fate, n2, n3, n4}) \in {fate, n2, n3, n4}
          /\ Min({fate, n2, n3, n4}) <= n2
          /\ Min({fate, n2, n3, n4}) <= n3 /\ Min({fate, n2, n3, n4}) <= n4
      BY <3>1, MinOfFour, Zenon
    <3> QED
      BY <3>2 DEF n2, n3, n4
  <2> QED
    BY <1>3, <1>4, <1>5, <2>1
<1>7. c = [d EXCEPT !.result[id] = [status |-> "ok", moved |-> moved]]
  BY DEF _executeLiquidationStagedOperation, consume
<1> HIDE DEF moved
<1>8. /\ DOMAIN y = Fields /\ y.quota = b.quota /\ y.reservation = b.reservation
      /\ y.result = b.result /\ SameIndexes(b, y)
  BY <1>1, LiquidationFields DEF SameIndexes
<1>9. /\ y.vault \in [Vault -> VaultType]
      /\ \A v \in Vault : v \notin {t, r} => y.vault[v] = b.vault[v]
  BY <1>1, <1>2, <1>6, PaidVaults
<1> HIDE DEF y
<1>10. SameIndexes(b, x) /\ x.vault = y.vault /\ x.result = b.result
  BY <1>8, SettleFields DEF SameIndexes
<1>11. x.quota = q.quota /\ x.reservation = q.reservation
  BY <1>1, <1>8 DEF SettleReservation, Fields
<1> HIDE DEF x
<1>12. Typed(b) /\ Linked(b) /\ Batched(b)
  BY DEF Sound
<1>13. /\ LeftIndexes(b, d, id) /\ d.quota = x.quota /\ d.reservation = x.reservation
       /\ d.vault = y.vault /\ d.result = b.result
  BY <1>10, <1>12, IndexesClose
<1>14. DOMAIN d = Fields
  BY <1>13 DEF LeftIndexes
<1>15. d = _deleteStagedOperation(x, id) /\ q = SettleReservation(b, id, moved)
  OBVIOUS
<1> HIDE DEF d, q
<1>16. SameIndexes(d, c)
  BY <1>7, <1>14 DEF SameIndexes, Fields
<1>17. /\ c.quota = q.quota /\ c.reservation = q.reservation
       /\ c.vault = y.vault /\ c.result = p
  BY <1>7, <1>11, <1>13, <1>14 DEF Fields
<1>18. /\ p \in [OpId -> ResultType] /\ DOMAIN p = OpId
       /\ p[id].status = "ok" /\ p[id].moved = moved
       /\ \A i \in OpId \ {id} : p[i] = b.result[i]
  BY <1>1, <1>6 DEF ResultType
<1> HIDE DEF p
<1>19. /\ c.vault \in [Vault -> VaultType] /\ DOMAIN c.result = OpId
       /\ c.result[id].status = "ok" /\ c.result[id].moved = moved
       /\ c.result \in [OpId -> ResultType]
       /\ \A i \in OpId \ {id} : c.result[i] = b.result[i]
  BY <1>9, <1>17, <1>18
<1>20. b.ops[id].approval # NoApproval => moved <= b.reservation[id].amount
  BY <1>6 DEF MaximumDebt
<1>21. Sound(c) /\ LeftIndexes(b, c, id)
  BY <1>6, <1>10, <1>15, <1>16, <1>17, <1>19, <1>20, SoundOnceSettled
<1>22. TermsMet(b, c, id)
  <2>1. b.ops[id].approval # NoApproval =>
          b.reservation[id].amount <= ApprovalTerms[b.ops[id].approval].maxPerLiquidation
    BY <1>1 DEF Sound, Termed
  <2>2. b.ops[id].approval # NoApproval =>
          ApprovalTerms[b.ops[id].approval].maxPerLiquidation \in Int
    BY <1>2, CoordinatorAssumption
  <2>3. b.reservation[id].amount \in Int
    BY <1>1 DEF Reservation
  <2>4. b.ops[id].approval # NoApproval =>
          c.result[id].moved <= ApprovalTerms[b.ops[id].approval].maxPerLiquidation
    BY <1>6, <1>19, <1>20, <2>1, <2>2, <2>3
  <2> QED
    BY <2>4 DEF TermsMet, StaleLiquidation
<1> QED
  BY <1>9, <1>17, <1>19, <1>21, <1>22 DEF Settles

\* A withdrawal leaves the vaults natural numbers.
LEMMA WithdrawnVaults ==
    ASSUME NEW b, DOMAIN b = Fields, b.vault \in [Vault -> VaultType], NEW v \in Vault,
           b.vault[v].units # 0, NEW amount \in Nat, NEW y, y = WithdrawRep(b, v, amount)
    PROVE  /\ y.vault \in [Vault -> VaultType]
           /\ \A w \in Vault : w # v => y.vault[w] = b.vault[w]
<1> DEFINE held == b.vault[v].units
           left == IF amount + MinimumUnits > held THEN 0 ELSE held - amount
           scaled == (b.vault[v].capacity * left) \div held
           new == [units |-> left, capacity |-> scaled]
<1>1. y.vault = [b.vault EXCEPT ![v] = new]
  BY DEF WithdrawRep, Fields
<1>2. held \in Nat /\ b.vault[v].capacity \in Nat /\ held # 0 /\ MinimumUnits \in Nat
  BY CoordinatorAssumption DEF VaultType
<1> HIDE DEF held
<1>3. left \in Nat
  BY <1>2
<1> HIDE DEF left
<1>4. b.vault[v].capacity * left \in Nat
  <2> DEFINE m == b.vault[v].capacity
  <2>1. m \in Nat
    BY <1>2
  <2> HIDE DEF m
  <2>2. m * left \in Nat
    BY <1>3, <2>1
  <2> QED
    BY <2>2 DEF m
<1>5. scaled \in Nat
  <2> DEFINE m == b.vault[v].capacity * left
  <2>1. m \in Nat
    BY <1>4
  <2> HIDE DEF m
  <2>2. m \div held \in Nat
    BY <1>2, <2>1
  <2> QED
    BY <2>2 DEF m
<1> HIDE DEF scaled
<1>6. new \in VaultType
  BY <1>3, <1>5 DEF VaultType
<1> HIDE DEF new
<1> QED
  BY <1>1, <1>6

\* A withdrawal that the pool lets through.
LEMMA WithdrawalSettles ==
    ASSUME NEW b, Sound(b), NEW id \in b.live, b.ops[id].kind = "WithdrawRep",
           now <= Expiry(b.ops[id]), b.vault[b.ops[id].operator].units # 0,
           NEW fate \in Fate, fate # Reverts,
           NEW c, c = _executeWithdrawRepStagedOperation(b, id, fate)
    PROVE  Sound(c) /\ Settles(b, c, id)
<1> DEFINE v == b.ops[id].operator
           x == SettleReservation(b, id, 0)
           d == _deleteStagedOperation(x, id)
           y == WithdrawRep(d, v, b.ops[id].amount)
           p == [b.result EXCEPT ![id] = [status |-> "ok", moved |-> 0]]
<1>1. /\ DOMAIN b = Fields /\ id \in OpId /\ b.vault \in [Vault -> VaultType]
      /\ b.result \in [OpId -> ResultType] /\ b.reservation \in [OpId -> Reservation]
      /\ b.ops[id] \in Operation /\ id \in 1..b.counter
  BY LiveOperation
<1>2. /\ v \in Vault /\ b.ops[id].amount \in Nat
      /\ b.ops[id].approval \in Approval \cup {NoApproval}
  BY <1>1 DEF Operation
<1>3. SameIndexes(b, x) /\ x.vault = b.vault /\ x.result = b.result
  BY <1>1, SettleFields DEF SameIndexes
<1>4. c = [y EXCEPT !.result[id] = [status |-> "ok", moved |-> 0]]
  BY DEF _executeWithdrawRepStagedOperation, _consumeStagedOperation, release
<1> HIDE DEF x
<1>5. Typed(b) /\ Linked(b) /\ Batched(b)
  BY DEF Sound
<1>6. /\ LeftIndexes(b, d, id) /\ d.quota = x.quota /\ d.reservation = x.reservation
      /\ d.vault = b.vault /\ d.result = b.result
  BY <1>3, <1>5, IndexesClose
<1>7. DOMAIN d = Fields /\ d = _deleteStagedOperation(x, id)
  BY <1>6 DEF LeftIndexes
<1> HIDE DEF d
<1>8. /\ DOMAIN y = Fields /\ y.quota = d.quota /\ y.reservation = d.reservation
      /\ y.result = d.result /\ SameIndexes(d, y)
  BY <1>7, WithdrawFields DEF SameIndexes
<1>9. /\ y.vault \in [Vault -> VaultType]
      /\ \A w \in Vault : w # v => y.vault[w] = b.vault[w]
  BY <1>1, <1>2, <1>6, <1>7, WithdrawnVaults
<1> HIDE DEF y
<1>10. SameIndexes(d, c)
  BY <1>4, <1>8 DEF SameIndexes, Fields
<1>11. /\ c.quota = x.quota /\ c.reservation = x.reservation
       /\ c.vault = y.vault /\ c.result = p
  BY <1>4, <1>6, <1>8 DEF Fields
<1>12. /\ p \in [OpId -> ResultType] /\ DOMAIN p = OpId
       /\ p[id].status = "ok" /\ p[id].moved = 0
       /\ \A i \in OpId \ {id} : p[i] = b.result[i]
  BY <1>1 DEF ResultType
<1> HIDE DEF p
<1>13. /\ c.vault \in [Vault -> VaultType] /\ DOMAIN c.result = OpId
       /\ c.result[id].status = "ok" /\ c.result[id].moved = 0
       /\ c.result \in [OpId -> ResultType]
       /\ \A i \in OpId \ {id} : c.result[i] = b.result[i]
  BY <1>9, <1>11, <1>12
<1>14. b.ops[id].approval # NoApproval => 0 <= b.reservation[id].amount
  BY <1>1 DEF Reservation
<1>15. Sound(c) /\ LeftIndexes(b, c, id)
  BY <1>3, <1>7, <1>10, <1>11, <1>13, <1>14, SoundOnceSettled DEF x
<1>16. TermsMet(b, c, id)
  <2>1. b.ops[id].approval # NoApproval =>
          0 <= ApprovalTerms[b.ops[id].approval].maxPerLiquidation
    <3>1. b.ops[id].approval # NoApproval =>
            /\ ApprovalTerms[b.ops[id].approval].maxPerLiquidation
                 \in 1..ApprovalTerms[b.ops[id].approval].maxCumulative
            /\ ApprovalTerms[b.ops[id].approval].maxCumulative \in Nat
      BY <1>2, CoordinatorAssumption
    <3> QED
      BY <3>1
  <2> QED
    BY <1>13, <2>1 DEF TermsMet
<1>17. b.ops[id].target = v
  BY <1>1 DEF Sound, Termed
<1> QED
  BY <1>9, <1>11, <1>13, <1>15, <1>16, <1>17 DEF Settles

(* Whatever becomes of it, an operation of the book that is executed settles. *)
LEMMA ExecutedSettles ==
    ASSUME now \in Int, NEW b, Sound(b), NEW id \in b.live, NEW fate \in Fate,
           NEW c, c = Executed(b, id, fate)
    PROVE  Sound(c) /\ Settles(b, c, id)
<1>1. CASE c = Failed(b, id)
  BY <1>1, FailedSettles
<1>2. CASE c # Failed(b, id)
  <2>1. /\ ~(now > Expiry(b.ops[id]))
        /\ ~(b.ops[id].kind = "Liquidation" /\ StaleLiquidation(b, id))
        /\ ~(b.ops[id].kind = "WithdrawRep" /\ b.vault[b.ops[id].operator].units = 0)
    BY <1>2 DEF Executed, Refused
  <2>2. b.ops[id] \in Operation
    BY LiveOperation
  <2>3. now <= Expiry(b.ops[id])
    <3>1. Expiry(b.ops[id]) \in Int
      BY <2>2, CoordinatorAssumption DEF Expiry, Operation
    <3> QED
      BY <2>1, <3>1
  <2>4. b.ops[id].kind \in {"Liquidation", "WithdrawRep"}
    BY <2>2 DEF Operation
  <2>5. CASE b.ops[id].kind = "Liquidation"
    <3>1. c = _executeLiquidationStagedOperation(b, id, fate)
      BY <1>2, <2>5 DEF Executed
    <3>2. fate # Reverts
      BY <1>2, <3>1 DEF _executeLiquidationStagedOperation
    <3> QED
      BY <2>1, <2>3, <2>5, <3>1, <3>2, LiquidationSettles
  <2>6. CASE b.ops[id].kind = "WithdrawRep"
    <3>1. c = _executeWithdrawRepStagedOperation(b, id, fate)
      BY <1>2, <2>6 DEF Executed
    <3>2. fate # Reverts
      BY <1>2, <3>1 DEF _executeWithdrawRepStagedOperation
    <3> QED
      BY <2>1, <2>3, <2>6, <3>1, <3>2, WithdrawalSettles
  <2> QED
    BY <2>4, <2>5, <2>6
<1> QED
  BY <1>1, <1>2

-----------------------------------------------------------------------------
(* One handler settles several operations of a book.                       *)

(* Operation o succeeded between b and c, and touched vault v. *)
Touched(b, c, o, v) ==
    /\ c.result[o] # b.result[o] /\ c.result[o].status = "ok"
    /\ v \in {b.ops[o].target, b.ops[o].receiver}

(* What a success found, of the book b the handler started from. *)
Served(b, c, id) ==
    /\ now <= Expiry(b.ops[id])
    /\ b.ops[id].kind = "Liquidation" =>
         \/ b.vault[b.ops[id].target] = b.ops[id].snapshot
         \/ \E o \in OpId \ {id} : Touched(b, c, o, b.ops[id].target)
    /\ b.ops[id].approval # NoApproval =>
         c.result[id].moved <= ApprovalTerms[b.ops[id].approval].maxPerLiquidation

Progress(b, c) ==
    /\ c.counter = b.counter /\ c.ops = b.ops /\ c.live \subseteq b.live
    /\ \A i \in DOMAIN c.pending : \E j \in DOMAIN b.pending : c.pending[i] = b.pending[j]
    /\ \A id \in OpId : c.result[id] # b.result[id] =>
         /\ id \in b.live /\ id \notin c.live
         /\ c.result[id].status = "ok" => Served(b, c, id)
    /\ \A v \in Vault : c.vault[v] # b.vault[v] => \E o \in OpId : Touched(b, c, o, v)

\* A book has made no progress over itself.
LEMMA NoProgress ==
    ASSUME NEW b
    PROVE  Progress(b, b)
BY DEF Progress

\* One more operation settled is progress: no result is written twice, and a
\* vault that is not as it was has been touched by a success.
LEMMA MoreProgress ==
    ASSUME NEW a, NEW b, Progress(a, b), Sound(b), NEW id \in b.live, NEW c, Settles(b, c, id)
    PROVE  Progress(a, c)
<1>1. /\ b.counter = a.counter /\ b.ops = a.ops /\ b.live \subseteq a.live
      /\ \A i \in DOMAIN b.pending : \E j \in DOMAIN a.pending : b.pending[i] = a.pending[j]
  BY DEF Progress
<1>2. /\ c.counter = b.counter /\ c.ops = b.ops /\ c.live = b.live \ {id}
      /\ \A i \in DOMAIN c.pending : \E j \in DOMAIN b.pending : c.pending[i] = b.pending[j]
  BY DEF Settles, LeftIndexes
<1>3. id \in OpId /\ b.result[id].status = "none"
  BY LiveOperation DEF Sound, Termed
<1>4. b.result[id] = a.result[id]
  BY <1>3 DEF Progress
<1>5. /\ c.result[id].status \in {"ok", "failed"} /\ c.result[id] # a.result[id]
      /\ \A i \in OpId \ {id} : c.result[i] = b.result[i]
  BY <1>3, <1>4 DEF Settles
<1>6. \A o \in OpId : \A v : Touched(a, b, o, v) => Touched(a, c, o, v) /\ o # id
  BY <1>4, <1>5 DEF Touched
<1>7. ASSUME NEW v \in Vault, c.vault[v] # a.vault[v]
      PROVE  \E o \in OpId : Touched(a, c, o, v)
  <2>1. CASE b.vault[v] # a.vault[v]
    <3>1. \E o \in OpId : Touched(a, b, o, v)
      BY <2>1 DEF Progress
    <3> QED
      BY <1>6, <3>1
  <2>2. CASE c.vault[v] # b.vault[v]
    <3>1. c.result[id].status = "ok" /\ v \in {b.ops[id].target, b.ops[id].receiver}
      BY <2>2 DEF Settles
    <3>2. Touched(a, c, id, v)
      BY <1>1, <1>5, <3>1 DEF Touched
    <3> QED
      BY <1>3, <3>2
  <2> QED
    BY <1>7, <2>1, <2>2
<1>8. ASSUME NEW i \in OpId, c.result[i] # a.result[i]
      PROVE  /\ i \in a.live /\ i \notin c.live
             /\ c.result[i].status = "ok" => Served(a, c, i)
  <2>1. CASE i = id
    <3>1. ASSUME c.result[id].status = "ok"
          PROVE  Served(a, c, id)
      <4>1. TermsMet(b, c, id)
        BY <3>1 DEF Settles
      <4>2. ASSUME a.ops[id].kind = "Liquidation",
                   a.vault[a.ops[id].target] # a.ops[id].snapshot
            PROVE  \E o \in OpId \ {id} : Touched(a, c, o, a.ops[id].target)
        <5>1. b.vault[b.ops[id].target] = b.ops[id].snapshot
          BY <1>1, <4>1, <4>2 DEF TermsMet
        <5>2. b.ops[id].target \in Vault
          BY LiveOperation DEF Operation
        <5>3. \E o \in OpId : Touched(a, b, o, a.ops[id].target)
          BY <1>1, <4>2, <5>1, <5>2 DEF Progress
        <5> QED
          BY <1>6, <5>3
      <4> QED
        BY <1>1, <4>1, <4>2 DEF TermsMet, Served
    <3> QED
      BY <1>1, <1>2, <2>1, <3>1
  <2>2. CASE i # id
    <3>1. c.result[i] = b.result[i]
      BY <1>5, <2>2
    <3>2. i \in a.live /\ i \notin b.live
      BY <1>8, <3>1 DEF Progress
    <3>3. ASSUME c.result[i].status = "ok"
          PROVE  Served(a, c, i)
      <4>1. Served(a, b, i)
        BY <1>8, <3>1, <3>3 DEF Progress
      <4>2. (\E o \in OpId \ {i} : Touched(a, b, o, a.ops[i].target)) =>
              \E o \in OpId \ {i} : Touched(a, c, o, a.ops[i].target)
        BY <1>6
      <4> QED
        BY <3>1, <4>1, <4>2 DEF Served
    <3> QED
      BY <1>2, <3>2, <3>3
  <2> QED
    BY <2>1, <2>2
<1>9. \A i \in DOMAIN c.pending : \E j \in DOMAIN a.pending : c.pending[i] = a.pending[j]
  BY <1>1, <1>2
<1> QED
  BY <1>1, <1>2, <1>7, <1>8, <1>9 DEF Progress

\* The batch leaves the pending list, and the book is sound without it.
LEMMA DetachedIsSound ==
    ASSUME Sound(book), NEW d, d = DetachedBook
    PROVE  /\ Sound(d) /\ d.pending = <<>> /\ d.result = book.result
           /\ d.vault = book.vault /\ d.ops = book.ops /\ d.live = book.live
           /\ d.counter = book.counter
<1>1. DOMAIN book = Fields
  BY DEF Sound, Typed
<1>2. /\ DOMAIN d = Fields
      /\ d.counter = book.counter /\ d.ops = book.ops
      /\ d.quota = book.quota /\ d.reservation = book.reservation
      /\ d.live = book.live /\ d.count = book.count /\ d.latest = book.latest
      /\ d.older = book.older /\ d.newer = book.newer
      /\ d.vault = book.vault /\ d.result = book.result
      /\ d.pending = <<>> /\ d.slot = 0
  BY <1>1 DEF DetachedBook, Fields
<1>3. Typed(d)
  <2>1. /\ d.pending \in Seq(OpId) /\ Len(d.pending) = 0
        /\ 0 <= MAX_PENDING_SETTLEMENT_OPERATIONS
    BY <1>2, CoordinatorAssumption
  <2> QED
    BY <1>2, <2>1 DEF Sound, Typed
<1>4. Linked(d)
  BY <1>2 DEF Sound, Linked, LiveBefore, LiveAfter
<1>5. Batched(d)
  <2>1. DOMAIN d.pending = {}
    BY <1>2
  <2> QED
    BY <1>2, <2>1 DEF Batched
<1>6. Reconciled(d)
  <2>1. AmountOf(d) = AmountOf(book) /\ MovedOf(d) = MovedOf(book)
    BY <1>2 DEF AmountOf, MovedOf
  <2>2. \A a : ReservedIn(d, a) = ReservedIn(book, a) /\ SpentIn(d, a) = SpentIn(book, a)
    BY <1>2 DEF ReservedIn, SpentIn
  <2> QED
    BY <1>2, <2>1, <2>2 DEF Sound, Reconciled
<1>7. Termed(d)
  BY <1>2 DEF Sound, Termed
<1> QED
  BY <1>2, <1>3, <1>4, <1>5, <1>6, <1>7 DEF Sound

\* One operation of the batch is executed, rejected or passed over.
LEMMA SettledProgress ==
    ASSUME now \in Int, NEW a, NEW b, Progress(a, b), Sound(b), NEW id \in OpId,
           NEW fate \in Fate \cup {Rejected}, NEW c, c = Settled(b, id, fate)
    PROVE  Sound(c) /\ Progress(a, c)
<1>1. CASE id \notin b.live
  BY <1>1 DEF Settled
<1>2. CASE id \in b.live /\ fate = Rejected
  <2>1. c = Failed(b, id)
    BY <1>2 DEF Settled
  <2> QED
    BY <1>2, <2>1, FailedSettles, MoreProgress
<1>3. CASE id \in b.live /\ fate # Rejected
  <2>1. c = Executed(b, id, fate) /\ fate \in Fate
    BY <1>3 DEF Settled
  <2> QED
    BY <1>3, <2>1, ExecutedSettles, MoreProgress
<1> QED
  BY <1>1, <1>2, <1>3

(* The book after n operations of the batch, by recursion on n. *)
AfterStep(fates, g, n) ==
    IF n = 0 THEN DetachedBook ELSE Settled(g[n - 1], book.pending[n], fates[n])

IsBatch(fates, g, n) == g = [m \in 0..n |-> AfterStep(fates, g, m)]

\* The recursion over the batch has a solution, whatever the fates.
LEMMA BatchExists ==
    ASSUME NEW fates, NEW n \in Nat
    PROVE  \E g : IsBatch(fates, g, n)
<1> DEFINE Unsolved == {m \in Nat : ~ \E g : IsBatch(fates, g, m)}
<1>1. SUFFICES ASSUME Unsolved # {} PROVE FALSE
  OBVIOUS
<1>2. PICK m \in Unsolved : \A k \in Unsolved : m <= k
  BY <1>1, LeastNumber
<1>3. m # 0
  <2> DEFINE g == [k \in 0..0 |-> DetachedBook]
  <2>1. g = [k \in 0..0 |-> AfterStep(fates, g, k)]
    BY DEF AfterStep
  <2>2. IsBatch(fates, g, 0)
    BY <2>1 DEF IsBatch
  <2> QED
    BY <1>2, <2>2
<1>4. m \in Nat /\ m - 1 \in Nat /\ m - 1 \notin Unsolved
  BY <1>2, <1>3
<1>5. PICK h : IsBatch(fates, h, m - 1)
  BY <1>4
<1> DEFINE g == [k \in 0..m |-> IF k = m THEN AfterStep(fates, h, m) ELSE h[k]]
<1>6. ASSUME NEW k \in 0..m - 1
      PROVE  g[k] = h[k] /\ h[k] = AfterStep(fates, h, k)
  <2>1. k \in 0..m /\ k # m
    BY <1>4
  <2>2. h = [i \in 0..m - 1 |-> AfterStep(fates, h, i)]
    BY <1>5 DEF IsBatch
  <2>3. h[k] = AfterStep(fates, h, k)
    BY <2>2
  <2> QED
    BY <2>1, <2>3
<1>7. g[m] = AfterStep(fates, h, m)
  BY <1>4
<1> HIDE DEF g
<1>8. ASSUME NEW k \in 0..m
      PROVE  AfterStep(fates, g, k) = AfterStep(fates, h, k)
  <2>1. CASE k = 0
    BY <2>1 DEF AfterStep
  <2>2. CASE k # 0
    <3>1. k - 1 \in 0..m - 1
      BY <1>4, <2>2
    <3> QED
      BY <1>6, <2>2, <3>1 DEF AfterStep
  <2> QED
    BY <2>1, <2>2
<1>9. ASSUME NEW k \in 0..m
      PROVE  g[k] = AfterStep(fates, g, k)
  <2>1. CASE k = m
    BY <1>7, <1>8, <2>1
  <2>2. CASE k # m
    <3>1. k \in 0..m - 1
      BY <1>4, <2>2
    <3> QED
      BY <1>6, <1>8, <3>1
  <2> QED
    BY <2>1, <2>2
<1>10. IsBatch(fates, g, m)
  BY <1>9 DEF IsBatch, g
<1> QED
  BY <1>2, <1>10

\* A whole batch keeps the book sound and is progress over the detached book.
LEMMA BatchProgress ==
    ASSUME now \in Int, Sound(book), NEW fates,
           \A i \in DOMAIN book.pending : fates[i] \in Fate \cup {Rejected}
    PROVE  Sound(SettledBatch(fates)) /\ Progress(DetachedBook, SettledBatch(fates))
<1> DEFINE L == Len(book.pending)
           f == CHOOSE g : IsBatch(fates, g, L)
<1>1. L \in Nat /\ DOMAIN book.pending = 1..L /\ \A i \in 1..L : book.pending[i] \in OpId
  BY DEF Sound, Typed
<1>2. SettledBatch(fates) = f[L]
  BY DEF SettledBatch, IsBatch, AfterStep
<1>3. IsBatch(fates, f, L)
  BY <1>1, BatchExists
<1> HIDE DEF f
<1> DEFINE Bad == {n \in 0..L : ~(Sound(f[n]) /\ Progress(DetachedBook, f[n]))}
<1>4. Bad = {}
  <2>1. SUFFICES ASSUME Bad # {} PROVE FALSE
    OBVIOUS
  <2>2. PICK n \in Bad : \A k \in Bad : n <= k
    <3>1. Bad \in SUBSET Nat
      BY <1>1
    <3> HIDE DEF Bad
    <3> QED
      BY <2>1, <3>1, LeastNumber
  <2>3. n \in 0..L /\ f[n] = AfterStep(fates, f, n)
    BY <1>3, <2>2 DEF IsBatch
  <2>4. CASE n = 0
    <3>1. f[n] = DetachedBook
      BY <2>3, <2>4 DEF AfterStep
    <3> QED
      BY <2>2, <3>1, DetachedIsSound, NoProgress
  <2>5. CASE n # 0
    <3>1. n - 1 \in 0..L /\ n - 1 \notin Bad /\ n \in 1..L
      BY <1>1, <2>2, <2>3, <2>5
    <3>2. Sound(f[n - 1]) /\ Progress(DetachedBook, f[n - 1])
      BY <3>1
    <3>3. f[n] = Settled(f[n - 1], book.pending[n], fates[n])
      BY <2>3, <2>5 DEF AfterStep
    <3>4. book.pending[n] \in OpId /\ fates[n] \in Fate \cup {Rejected}
      BY <1>1, <3>1
    <3>5. Sound(f[n]) /\ Progress(DetachedBook, f[n])
      BY <3>2, <3>3, <3>4, SettledProgress
    <3> QED
      BY <2>2, <3>5
  <2> QED
    BY <2>4, <2>5
<1> QED
  BY <1>1, <1>2, <1>4

-----------------------------------------------------------------------------
(* An operation is staged.                                                 *)

(* Only quota a held n more, between two states of the quotas. *)
HeldOf(old, new, a, n) ==
    /\ new \in [Approval -> AnyQuota]
    /\ \A x \in Approval : x # a => new[x] = old[x]
    /\ new[a].installed = old[a].installed
    /\ new[a].reserved = old[a].reserved + n
    /\ new[a].consumed = old[a].consumed
    /\ new[a].available = old[a].available - n

\* Hold, field by field.
LEMMA HoldFacts ==
    ASSUME NEW q \in QuotaType, NEW n \in Nat
    PROVE  /\ Hold(q, n) \in AnyQuota /\ Hold(q, n).installed = q.installed
           /\ Hold(q, n).reserved = q.reserved + n /\ Hold(q, n).consumed = q.consumed
           /\ Hold(q, n).available = q.available - n
<1> DEFINE x == [q EXCEPT !.available = q.available - n]
           y == [x EXCEPT !.reserved = q.reserved + n]
<1>1. q \in AnyQuota /\ q.reserved + n \in Int /\ q.available - n \in Int
  BY DEF QuotaType, AnyQuota
<1>2. /\ x \in AnyQuota /\ x.installed = q.installed /\ x.available = q.available - n
      /\ x.consumed = q.consumed
  BY <1>1 DEF AnyQuota
<1>3. /\ y \in AnyQuota /\ y.installed = q.installed /\ y.available = q.available - n
      /\ y.consumed = q.consumed /\ y.reserved = q.reserved + n
  BY <1>1, <1>2 DEF AnyQuota
<1>4. Hold(q, n) = y
  BY DEF Hold
<1> QED
  BY <1>3, <1>4

\* reserve: one quota alone changes.
LEMMA HeldQuota ==
    ASSUME NEW b, DOMAIN b = Fields, b.quota \in [Approval -> QuotaType],
           NEW id, NEW a \in Approval, NEW n \in Nat, NEW d, d = reserve(b, id, a, n)
    PROVE  HeldOf(b.quota, d.quota, a, n)
<1> DEFINE p == Hold(b.quota[a], n)
<1>1. d.quota = [b.quota EXCEPT ![a] = p]
  BY DEF reserve, Fields
<1>2. /\ p \in AnyQuota /\ p.installed = b.quota[a].installed
      /\ p.reserved = b.quota[a].reserved + n /\ p.consumed = b.quota[a].consumed
      /\ p.available = b.quota[a].available - n
  BY HoldFacts
<1>3. b.quota \in [Approval -> AnyQuota]
  BY DEF QuotaType, AnyQuota
<1> HIDE DEF p
<1>4. /\ d.quota \in [Approval -> AnyQuota]
      /\ \A x \in Approval : x # a => d.quota[x] = b.quota[x]
      /\ d.quota[a] = p
  BY <1>1, <1>2, <1>3
<1> QED
  BY <1>2, <1>4 DEF HeldOf

(* The operation record that staging writes. *)
NewOperation(operator, kind, t, r, a, amount, validFor) ==
    [kind |-> kind, operator |-> operator, receiver |-> r, target |-> t,
     amount |-> amount, queuedAt |-> now, validFor |-> validFor,
     snapshot |-> book.vault[t], approval |-> a]

(* Book c is book b with operation id staged on it. *)
StagedOn(b, c, id, op) ==
    /\ DOMAIN c = Fields
    /\ c.counter = id /\ c.live = b.live \cup {id}
    /\ DOMAIN c.ops = OpId /\ c.ops[id] = op
    /\ \A i \in OpId \ {id} : c.ops[i] = b.ops[i]
    /\ c.pending = b.pending /\ c.slot = b.slot
    /\ c.vault = b.vault /\ c.result = b.result

(* The quotas and reservations of c: those of b and what id holds. *)
HoldsFor(b, c, id, a, n) ==
    IF a = NoApproval THEN c.quota = b.quota /\ c.reservation = b.reservation
    ELSE /\ HeldOf(b.quota, c.quota, a, n)
         /\ c.reservation = [b.reservation EXCEPT ![id] =
                               [approval |-> a, amount |-> n, settled |-> FALSE]]

\* What staging writes, field by field.
LEMMA StagedFields ==
    ASSUME Typed(book), Linked(book), NEW operator, NEW kind, NEW t, NEW r,
           NEW a \in Approval \cup {NoApproval}, NEW amount, NEW validFor, NEW id \in OpId,
           id = book.counter + 1, NEW n, n = ReservableDebt(book, a, t, amount),
           a # NoApproval => n \in Nat,
           NEW c, c = StagedBook(operator, kind, t, r, a, amount, validFor)
    PROVE  /\ StagedOn(book, c, id, NewOperation(operator, kind, t, r, a, amount, validFor))
           /\ HoldsFor(book, c, id, a, n) /\ Linked(c)
           /\ DOMAIN c.older = OpId /\ DOMAIN c.newer = OpId
<1> DEFINE op == NewOperation(operator, kind, t, r, a, amount, validFor)
           b == [book EXCEPT !.counter = id, !.ops[id] = op]
           d == IF a = NoApproval THEN b ELSE reserve(b, id, a, n)
<1>1. /\ DOMAIN book = Fields /\ DOMAIN book.ops = OpId
      /\ book.quota \in [Approval -> QuotaType]
      /\ DOMAIN book.older = OpId /\ DOMAIN book.newer = OpId
  BY DEF Typed
<1>2. /\ DOMAIN b = Fields /\ b.counter = id
      /\ DOMAIN b.ops = OpId /\ b.ops[id] = op
      /\ \A i \in OpId \ {id} : b.ops[i] = book.ops[i]
      /\ b.pending = book.pending /\ b.slot = book.slot
      /\ b.live = book.live /\ b.count = book.count /\ b.latest = book.latest
      /\ b.older = book.older /\ b.newer = book.newer
      /\ b.quota = book.quota /\ b.reservation = book.reservation
      /\ b.vault = book.vault /\ b.result = book.result
  BY <1>1 DEF Fields
<1>3. ReservableDebt(b, a, t, amount) = n
  BY <1>2 DEF ReservableDebt
<1>4. c = _trackActiveStagedOperation(d, id)
  BY <1>3 DEF StagedBook, NewOperation
<1> HIDE DEF op, b
<1>5. /\ DOMAIN d = Fields /\ d.counter = b.counter /\ d.ops = b.ops
      /\ d.pending = b.pending /\ d.slot = b.slot
      /\ d.live = b.live /\ d.count = b.count /\ d.latest = b.latest
      /\ d.older = b.older /\ d.newer = b.newer
      /\ d.vault = b.vault /\ d.result = b.result
  BY <1>2 DEF reserve, Fields
<1>6. HoldsFor(book, d, id, a, n)
  <2>1. CASE a = NoApproval
    BY <1>2, <2>1 DEF HoldsFor
  <2>2. CASE a # NoApproval
    <3>1. d = reserve(b, id, a, n) /\ a \in Approval /\ n \in Nat
      BY <2>2
    <3>2. HeldOf(b.quota, d.quota, a, n)
      BY <1>1, <1>2, <3>1, HeldQuota
    <3>3. d.reservation = [b.reservation EXCEPT ![id] =
                             [approval |-> a, amount |-> n, settled |-> FALSE]]
      BY <1>2, <3>1 DEF reserve, Fields
    <3> QED
      BY <1>2, <2>2, <3>2, <3>3 DEF HoldsFor
  <2> QED
    BY <2>1, <2>2
<1> HIDE DEF d
<1>7. /\ DOMAIN c = Fields
      /\ c.counter = d.counter /\ c.ops = d.ops
      /\ c.pending = d.pending /\ c.slot = d.slot
      /\ c.quota = d.quota /\ c.reservation = d.reservation
      /\ c.vault = d.vault /\ c.result = d.result
      /\ c.live = d.live \cup {id}
      /\ DOMAIN c.older = OpId /\ DOMAIN c.newer = OpId
  BY <1>1, <1>2, <1>4, <1>5, TrackFields
<1>8. Linked(c)
  <2>1. \A i \in book.live : i < id
    BY LiveIsFinite DEF Typed
  <2> QED
    BY <1>2, <1>4, <1>5, <2>1, LinksGrow
<1>9. StagedOn(book, c, id, op)
  BY <1>2, <1>5, <1>7 DEF StagedOn
<1>10. HoldsFor(book, c, id, a, n)
  BY <1>6, <1>7 DEF HoldsFor
<1> QED
  BY <1>7, <1>8, <1>9, <1>10 DEF op

(* An approval can cover n. *)
Covers(b, a, n) ==
    a # NoApproval => /\ n \in Nat /\ n <= b.quota[a].available
                      /\ b.quota[a].installed

(* What staging leaves of the quotas and reservations. *)
Booked(b, c, id, a, n) ==
    /\ Reconciled(c) /\ c.quota \in [Approval -> QuotaType]
    /\ c.reservation \in [OpId -> Reservation]
    /\ \A i \in OpId \ {id} : c.reservation[i] = b.reservation[i]
    /\ a # NoApproval => c.reservation[id].amount = n

\* The quotas and reservations are sound with what the new operation holds.
LEMMA StagedReconciles ==
    ASSUME Sound(book), NEW id \in OpId, id = book.counter + 1,
           NEW a \in Approval \cup {NoApproval}, NEW n,
           NEW op \in Operation, op.approval = a, Covers(book, a, n),
           NEW c, StagedOn(book, c, id, op), HoldsFor(book, c, id, a, n)
    PROVE  Booked(book, c, id, a, n)
<1>1. /\ book.quota \in [Approval -> QuotaType] /\ book.reservation \in [OpId -> Reservation]
      /\ book.result \in [OpId -> ResultType] /\ Reconciled(book) /\ Termed(book)
      /\ book.counter \in Nat /\ id \in Nat /\ NoApproval \notin Approval /\ Typed(book)
      /\ id \notin book.live
  <2>1. Typed(book) /\ Reconciled(book) /\ Termed(book)
    BY DEF Sound
  <2>2. book.counter \in Nat
    BY <2>1, LiveIsFinite
  <2>3. /\ book.live \subseteq 1..book.counter /\ book.quota \in [Approval -> QuotaType]
        /\ book.reservation \in [OpId -> Reservation]
        /\ book.result \in [OpId -> ResultType]
    BY <2>1 DEF Typed, Reservation, ResultType
  <2>4. NoApproval \notin Approval
    BY CoordinatorAssumption
  <2>5. id \in Nat /\ id \notin book.live
    BY <2>2, <2>3
  <2> QED
    BY <2>1, <2>2, <2>3, <2>4, <2>5
<1>2. /\ c.counter = id /\ c.live = book.live \cup {id} /\ c.ops[id] = op
      /\ \A i \in OpId \ {id} : c.ops[i] = book.ops[i]
      /\ c.result = book.result
  BY DEF StagedOn
<1>3. /\ \A i \in OpId : i \in 1..id <=> i \in 1..book.counter \/ i = id
      /\ id \notin 1..book.counter
  BY <1>1 DEF OpId
<1>4. book.reservation[id].approval = NoApproval
  BY <1>1, <1>3 DEF Reconciled
<1>5. book.result[id].moved = 0 /\ MovedOf(c) = MovedOf(book)
  <2>1. id > book.counter
    BY <1>1
  <2>2. book.result[id] = [status |-> "none", moved |-> 0]
    BY <1>1, <2>1 DEF Termed
  <2> QED
    BY <1>2, <2>2 DEF MovedOf
<1>6. /\ IsFiniteSet(OpId)
      /\ \A x \in Approval : /\ SpentIn(book, x) \subseteq OpId
                            /\ ReservedIn(book, x) \subseteq OpId
  <2>1. MaxOps \in Nat
    BY CoordinatorAssumption
  <2>2. IsFiniteSet(OpId)
    BY <2>1, FS_Interval DEF OpId
  <2>3. \A x \in Approval : /\ SpentIn(book, x) \subseteq OpId
                           /\ ReservedIn(book, x) \subseteq OpId
    BY DEF SpentIn, ReservedIn
  <2> QED
    BY <2>2, <2>3
<1>7. CASE a = NoApproval
  <2>1. c.quota = book.quota /\ c.reservation = book.reservation
    BY <1>7 DEF HoldsFor
  <2>2. \A x \in Approval : /\ ReservedIn(c, x) = ReservedIn(book, x)
                            /\ SpentIn(c, x) = SpentIn(book, x)
    BY <2>1 DEF ReservedIn, SpentIn
  <2>3. AmountOf(c) = AmountOf(book)
    BY <2>1 DEF AmountOf
  <2>4. \A i \in OpId :
           /\ c.reservation[i].approval =
                IF i \in 1..c.counter THEN c.ops[i].approval ELSE NoApproval
           /\ c.reservation[i].approval # NoApproval =>
                /\ c.reservation[i].settled = (i \notin c.live)
                /\ c.quota[c.reservation[i].approval].installed
    BY <1>1, <1>2, <1>3, <1>4, <1>7, <2>1 DEF Reconciled
  <2> QED
    BY <1>1, <1>5, <1>7, <2>1, <2>2, <2>3, <2>4 DEF Reconciled, Booked
<1>8. CASE a # NoApproval
  <2> DEFINE held == [approval |-> a, amount |-> n, settled |-> FALSE]
  <2>1. /\ a \in Approval /\ n \in Nat /\ n <= book.quota[a].available
        /\ book.quota[a].installed /\ book.quota[a] \in QuotaType
    BY <1>1, <1>8 DEF Covers
  <2>2. /\ HeldOf(book.quota, c.quota, a, n)
        /\ c.reservation = [book.reservation EXCEPT ![id] = held]
    BY <1>8 DEF HoldsFor
  <2>3. held \in Reservation /\ held.approval = a /\ held.amount = n /\ held.settled = FALSE
    BY <2>1 DEF Reservation
  <2> HIDE DEF held
  <2>4. /\ c.reservation \in [OpId -> Reservation] /\ c.reservation[id] = held
        /\ \A i \in OpId \ {id} : c.reservation[i] = book.reservation[i]
    BY <1>1, <2>2, <2>3
  <2>5. /\ c.quota \in [Approval -> AnyQuota]
        /\ \A x \in Approval : x # a => c.quota[x] = book.quota[x]
        /\ c.quota[a].installed = book.quota[a].installed
        /\ c.quota[a].reserved = book.quota[a].reserved + n
        /\ c.quota[a].consumed = book.quota[a].consumed
        /\ c.quota[a].available = book.quota[a].available - n
    BY <2>2 DEF HeldOf
  <2>6. c.quota \in [Approval -> QuotaType]
    <3>1. /\ book.quota[a].reserved \in Nat /\ book.quota[a].consumed \in Nat
          /\ book.quota[a].available \in Nat
      BY <2>1 DEF QuotaType
    <3>2. /\ c.quota[a].reserved \in Nat /\ c.quota[a].consumed \in Nat
          /\ c.quota[a].available \in Nat
      BY <2>1, <2>5, <3>1
    <3>3. \A x \in Approval : c.quota[x] \in QuotaType
      BY <1>1, <2>1, <2>5, <3>2 DEF QuotaType, AnyQuota
    <3> QED
      BY <2>5, <3>3
  <2>7. \A i \in OpId :
           /\ c.reservation[i].approval =
                IF i \in 1..c.counter THEN c.ops[i].approval ELSE NoApproval
           /\ c.reservation[i].approval # NoApproval =>
                /\ c.reservation[i].settled = (i \notin c.live)
                /\ c.quota[c.reservation[i].approval].installed
    <3> SUFFICES ASSUME NEW i \in OpId
                 PROVE  /\ c.reservation[i].approval =
                             IF i \in 1..c.counter THEN c.ops[i].approval ELSE NoApproval
                        /\ c.reservation[i].approval # NoApproval =>
                             /\ c.reservation[i].settled = (i \notin c.live)
                             /\ c.quota[c.reservation[i].approval].installed
      OBVIOUS
    <3>1. CASE i = id
      BY <1>2, <1>3, <2>1, <2>3, <2>4, <2>5, <3>1
    <3>2. CASE i # id
      <4>1. c.reservation[i] = book.reservation[i] /\ c.ops[i] = book.ops[i]
        BY <1>2, <2>4, <3>2
      <4>2. /\ book.reservation[i].approval =
                 IF i \in 1..book.counter THEN book.ops[i].approval ELSE NoApproval
            /\ book.reservation[i].approval # NoApproval =>
                 /\ book.reservation[i].settled = (i \notin book.live)
                 /\ book.quota[book.reservation[i].approval].installed
        BY <1>1 DEF Reconciled
      <4>3. book.reservation[i].approval \in Approval \cup {NoApproval}
        BY <1>1 DEF Reservation
      <4>4. book.reservation[i].approval # NoApproval =>
              c.quota[book.reservation[i].approval].installed
        BY <2>5, <4>2, <4>3
      <4> QED
        BY <1>2, <1>3, <3>2, <4>1, <4>2, <4>4
    <3> QED
      BY <3>1, <3>2
  <2>8. /\ ReservedIn(c, a) = ReservedIn(book, a) \cup {id}
        /\ SpentIn(c, a) = SpentIn(book, a) \cup {id}
        /\ id \notin ReservedIn(book, a) /\ id \notin SpentIn(book, a)
    <3>1. /\ \A i \in OpId \ {id} : c.reservation[i] = book.reservation[i]
          /\ c.reservation[id].approval = a /\ ~c.reservation[id].settled
          /\ id \in OpId /\ book.reservation[id].approval # a
      BY <1>1, <1>4, <2>1, <2>3, <2>4
    <3> QED
      BY <3>1, Zenon DEF ReservedIn, SpentIn
  <2>9. \A x \in Approval : x # a => /\ ReservedIn(c, x) = ReservedIn(book, x)
                                     /\ SpentIn(c, x) = SpentIn(book, x)
                                     /\ id \notin ReservedIn(book, x)
    <3>1. /\ \A i \in OpId \ {id} : c.reservation[i] = book.reservation[i]
          /\ c.reservation[id].approval = a /\ a # NoApproval
          /\ id \in OpId /\ book.reservation[id].approval = NoApproval
      BY <1>1, <1>4, <2>1, <2>3, <2>4
    <3>2. NoApproval \notin Approval
      BY CoordinatorAssumption
    <3> QED
      BY <3>1, <3>2, Zenon DEF ReservedIn, SpentIn
  <2>10. /\ \A i \in OpId : /\ AmountOf(c)[i] = c.reservation[i].amount
                            /\ AmountOf(book)[i] = book.reservation[i].amount
                            /\ AmountOf(c)[i] \in Nat /\ AmountOf(book)[i] \in Nat
                            /\ MovedOf(book)[i] \in Nat
         /\ AmountOf(c)[id] = n /\ MovedOf(book)[id] = 0
    BY <1>1, <1>5, <2>3, <2>4 DEF AmountOf, MovedOf, Reservation, ResultType
  <2>11. ASSUME NEW x \in Approval
         PROVE  /\ SumFunctionOnSet(AmountOf(c), ReservedIn(book, x))
                     = SumFunctionOnSet(AmountOf(book), ReservedIn(book, x))
                /\ SumFunctionOnSet(AmountOf(c), ReservedIn(book, x)) \in Int
    <3> DEFINE S == ReservedIn(book, x)
               f == AmountOf(book)
               g == AmountOf(c)
    <3>1. IsFiniteSet(S) /\ S \subseteq OpId /\ id \notin S
      BY <1>6, <2>8, <2>9, FS_Subset
    <3>2. \A i \in S : f[i] \in Int /\ g[i] = f[i]
      <4>1. \A i \in OpId : /\ f[i] \in Int /\ f[i] = book.reservation[i].amount
                            /\ g[i] = c.reservation[i].amount
        BY <2>10
      <4>2. \A i \in OpId \ {id} : c.reservation[i] = book.reservation[i]
        BY <2>4
      <4> HIDE DEF f, g, S
      <4> QED
        BY <3>1, <4>1, <4>2
    <3> HIDE DEF S, f, g
    <3>3. SumFunctionOnSet(g, S) = SumFunctionOnSet(f, S)
      BY <3>1, <3>2, SumAgree
    <3>4. SumFunctionOnSet(f, S) \in Int
      BY <3>1, <3>2, SumInt
    <3> QED
      BY <3>3, <3>4 DEF S, f, g
  <2>12. SumFunctionOnSet(AmountOf(c), ReservedIn(c, a)) = book.quota[a].reserved + n
    <3> DEFINE S == ReservedIn(book, a)
               g == AmountOf(c)
    <3>1. IsFiniteSet(S) /\ id \notin S /\ \A i \in S : g[i] \in Int
      <4>1. S \subseteq OpId /\ id \notin S
        BY <1>6, <2>1, <2>8
      <4>2. IsFiniteSet(S)
        BY <1>6, <4>1, FS_Subset
      <4>3. \A i \in OpId : g[i] \in Int
        BY <2>10
      <4> QED
        BY <4>1, <4>2, <4>3
    <3>2. g[id] = n /\ g[id] \in Int
      BY <2>1, <2>10
    <3>3. SumFunctionOnSet(g, S) = book.quota[a].reserved
      BY <1>1, <2>1, <2>11 DEF Reconciled
    <3> HIDE DEF S, g
    <3>4. SumFunctionOnSet(g, S \cup {id}) = g[id] + SumFunctionOnSet(g, S)
      BY <3>1, <3>2, SumAdd
    <3>5. book.quota[a].reserved \in Nat
      BY <2>1 DEF QuotaType
    <3>6. SumFunctionOnSet(g, S \cup {id}) = book.quota[a].reserved + n
      BY <2>1, <3>2, <3>3, <3>4, <3>5
    <3> QED
      BY <2>8, <3>6 DEF S, g
  <2>13. SumFunctionOnSet(MovedOf(c), SpentIn(c, a)) = book.quota[a].consumed
    <3> DEFINE S == SpentIn(book, a)
               f == MovedOf(book)
    <3>1. IsFiniteSet(S) /\ id \notin S /\ \A i \in S : f[i] \in Int
      <4>1. S \subseteq OpId /\ id \notin S
        BY <1>6, <2>1, <2>8
      <4>2. IsFiniteSet(S)
        BY <1>6, <4>1, FS_Subset
      <4>3. \A i \in OpId : f[i] \in Int
        BY <2>10
      <4> QED
        BY <4>1, <4>2, <4>3
    <3>2. f[id] = 0 /\ f[id] \in Int
      BY <2>10
    <3>3. SumFunctionOnSet(f, S) = book.quota[a].consumed
      BY <1>1, <2>1 DEF Reconciled
    <3> HIDE DEF S, f
    <3>4. SumFunctionOnSet(f, S \cup {id}) = f[id] + SumFunctionOnSet(f, S)
      BY <3>1, <3>2, SumAdd
    <3>5. book.quota[a].consumed \in Nat
      BY <2>1 DEF QuotaType
    <3>6. SumFunctionOnSet(f, S \cup {id}) = book.quota[a].consumed
      BY <3>2, <3>3, <3>4, <3>5
    <3> QED
      BY <1>5, <2>8, <3>6 DEF S, f
  <2>14. ASSUME NEW x \in Approval
         PROVE  /\ c.quota[x].reserved = SumFunctionOnSet(AmountOf(c), ReservedIn(c, x))
                /\ c.quota[x].consumed = SumFunctionOnSet(MovedOf(c), SpentIn(c, x))
                /\ IF c.quota[x].installed
                   THEN c.quota[x].available + c.quota[x].reserved + c.quota[x].consumed
                          = ApprovalTerms[x].maxCumulative
                   ELSE c.quota[x].reserved = 0 /\ c.quota[x].consumed = 0
    <3>1. /\ book.quota[x].reserved
               = SumFunctionOnSet(AmountOf(book), ReservedIn(book, x))
          /\ book.quota[x].consumed = SumFunctionOnSet(MovedOf(book), SpentIn(book, x))
          /\ IF book.quota[x].installed
             THEN book.quota[x].available + book.quota[x].reserved + book.quota[x].consumed
                    = ApprovalTerms[x].maxCumulative
             ELSE book.quota[x].reserved = 0 /\ book.quota[x].consumed = 0
      BY <1>1 DEF Reconciled
    <3>2. /\ book.quota[x].reserved \in Nat /\ book.quota[x].consumed \in Nat
          /\ book.quota[x].available \in Nat /\ ApprovalTerms[x].maxCumulative \in Nat
      BY <1>1, CoordinatorAssumption DEF QuotaType
    <3>3. CASE x = a
      <4>1. /\ c.quota[x].reserved = book.quota[x].reserved + n
            /\ c.quota[x].consumed = book.quota[x].consumed
            /\ c.quota[x].available = book.quota[x].available - n
            /\ book.quota[x].installed /\ c.quota[x].installed
        BY <2>1, <2>5, <3>3
      <4>2. c.quota[x].available + c.quota[x].reserved + c.quota[x].consumed
              = ApprovalTerms[x].maxCumulative
        BY <2>1, <3>1, <3>2, <4>1
      <4> QED
        BY <2>12, <2>13, <3>3, <4>1, <4>2
    <3>4. CASE x # a
      BY <1>5, <2>5, <2>9, <2>11, <3>1, <3>4
    <3> QED
      BY <3>3, <3>4
  <2> QED
    BY <2>3, <2>4, <2>6, <2>7, <2>14 DEF Reconciled, Booked
<1> QED
  BY <1>7, <1>8

(* What the staging handlers check of the route. *)
RouteFits(operator, kind, t, r, a, validFor) ==
    /\ kind = "WithdrawRep" => t = operator
    /\ a # NoApproval => MayReserve(book, a, r, t, operator, validFor)

\* The book is sound with the new operation staged on it.
LEMMA StagedIsSound ==
    ASSUME Clocks, Sound(book), book.counter < MaxOps,
           NEW operator \in Vault, NEW kind \in {"Liquidation", "WithdrawRep"},
           NEW t \in Vault, NEW r \in Vault, NEW a \in Approval \cup {NoApproval},
           NEW amount \in Nat, NEW validFor \in Nat, NEW id, id = book.counter + 1,
           RouteFits(operator, kind, t, r, a, validFor),
           NEW c, c = StagedBook(operator, kind, t, r, a, amount, validFor)
    PROVE  /\ Sound(c) /\ id \in OpId /\ id \in c.live
           /\ StagedOn(book, c, id, NewOperation(operator, kind, t, r, a, amount, validFor))
<1> DEFINE op == NewOperation(operator, kind, t, r, a, amount, validFor)
           n == ReservableDebt(book, a, t, amount)
<1>1. /\ Typed(book) /\ Linked(book) /\ Batched(book) /\ Termed(book)
      /\ book.vault \in [Vault -> VaultType]
      /\ book.quota \in [Approval -> QuotaType]
  BY DEF Sound, Typed, VaultType
<1>2. /\ MaxOps \in Nat /\ book.counter \in Nat /\ id \in OpId /\ id \in Nat
      /\ book.live \subseteq 1..book.counter
  <2>1. MaxOps \in Nat /\ book.counter \in Nat
    BY <1>1, LiveIsFinite
  <2>2. book.live \subseteq 1..book.counter
    BY <1>1 DEF Typed
  <2> QED
    BY <2>1, <2>2 DEF OpId
<1>3. now \in Nat /\ settlementTime \in Nat
  BY CoordinatorAssumption DEF Clocks
<1>4. op \in Operation /\ op.approval = a /\ op.kind = kind /\ op.target = t
      /\ op.operator = operator /\ Expiry(op) = now + settlementTime + validFor
  <2>1. book.vault[t] \in [units: Nat, capacity: Nat]
    BY <1>1 DEF VaultType
  <2> QED
    BY <1>3, <2>1 DEF NewOperation, Operation, Expiry
<1> HIDE DEF op
<1>5. a # NoApproval => /\ n \in Nat /\ n <= book.quota[a].available
                        /\ n <= ApprovalTerms[a].maxPerLiquidation
                        /\ book.quota[a].installed
                        /\ Expiry(op) <= ApprovalTerms[a].validUntil
  <2> SUFFICES ASSUME a # NoApproval
               PROVE  /\ n \in Nat /\ n <= book.quota[a].available
                      /\ n <= ApprovalTerms[a].maxPerLiquidation
                      /\ book.quota[a].installed
                      /\ Expiry(op) <= ApprovalTerms[a].validUntil
    OBVIOUS
  <2> DEFINE n2 == book.vault[t].capacity
             n3 == ApprovalTerms[a].maxPerLiquidation
             n4 == book.quota[a].available
  <2>1. n2 \in Nat /\ n3 \in Nat /\ n4 \in Nat
    <3>1. n2 \in Nat
      BY <1>1 DEF VaultType
    <3>2. n4 \in Nat
      BY <1>1 DEF QuotaType
    <3>3. n3 \in Nat
      <4>1. n3 \in 1..ApprovalTerms[a].maxCumulative
        BY CoordinatorAssumption
      <4> QED
        BY <4>1
    <3> QED
      BY <3>1, <3>2, <3>3
  <2>2. n = Min({amount, n2, n3, n4})
    BY DEF ReservableDebt
  <2> HIDE DEF n, n2, n3, n4
  <2>3. amount \in Int /\ n2 \in Int /\ n3 \in Int /\ n4 \in Int
    BY <2>1
  <2>4. /\ Min({amount, n2, n3, n4}) \in {amount, n2, n3, n4}
        /\ Min({amount, n2, n3, n4}) <= n3 /\ Min({amount, n2, n3, n4}) <= n4
    BY <2>3, MinOfFour, Zenon
  <2>5. n \in Nat /\ n <= n3 /\ n <= n4
    BY <2>1, <2>2, <2>4
  <2>6. /\ book.quota[a].installed
        /\ now + settlementTime + validFor <= ApprovalTerms[a].validUntil
    BY DEF MayReserve, RouteFits
  <2> QED
    BY <1>4, <2>5, <2>6 DEF n3, n4
<1>6. /\ StagedOn(book, c, id, op) /\ HoldsFor(book, c, id, a, n) /\ Linked(c)
      /\ DOMAIN c.older = OpId /\ DOMAIN c.newer = OpId
  BY <1>1, <1>2, <1>5, StagedFields DEF op
<1> HIDE DEF n
<1>7. /\ Reconciled(c) /\ c.quota \in [Approval -> QuotaType]
      /\ c.reservation \in [OpId -> Reservation]
      /\ \A i \in OpId \ {id} : c.reservation[i] = book.reservation[i]
      /\ a # NoApproval => c.reservation[id].amount = n
  <2>1. Covers(book, a, n)
    BY <1>5 DEF Covers
  <2>2. op \in Operation /\ op.approval = a
    BY <1>4
  <2>3. Booked(book, c, id, a, n)
    BY <1>2, <1>6, <2>1, <2>2, StagedReconciles
  <2> QED
    BY <2>3 DEF Booked
<1>8. /\ c.counter = id /\ c.live = book.live \cup {id} /\ c.ops[id] = op
      /\ DOMAIN c = Fields /\ DOMAIN c.ops = OpId
      /\ \A i \in OpId \ {id} : c.ops[i] = book.ops[i]
      /\ c.pending = book.pending /\ c.slot = book.slot
      /\ c.vault = book.vault /\ c.result = book.result
  BY <1>6 DEF StagedOn
<1>9. /\ \A i : i \in 1..id <=> i \in 1..book.counter \/ i = id
      /\ 1..book.counter \subseteq OpId \ {id}
      /\ id \in 0..MaxOps
  BY <1>2 DEF OpId
<1>10. Typed(c)
  <2>1. c.counter \in 0..MaxOps
    BY <1>8, <1>9
  <2>2. c.live \subseteq 1..c.counter
    <3>1. book.live \subseteq 1..book.counter
      BY <1>1 DEF Typed
    <3> QED
      BY <1>8, <1>9, <3>1
  <2>3. \A i \in 1..c.counter : c.ops[i] \in Operation
    <3>1. \A i \in 1..book.counter : book.ops[i] \in Operation
      BY <1>1 DEF Typed
    <3>2. op \in Operation
      BY <1>4
    <3> QED
      BY <1>8, <1>9, <3>1, <3>2
  <2> QED
    BY <1>1, <1>6, <1>7, <1>8, <2>1, <2>2, <2>3 DEF Typed, Reservation
<1>11. Batched(c)
  BY <1>1, <1>8 DEF Batched
<1>12. Termed(c)
  <2>1. ASSUME NEW i \in 1..c.counter
        PROVE  /\ c.ops[i].kind = "WithdrawRep" => c.ops[i].target = c.ops[i].operator
               /\ c.ops[i].approval # NoApproval =>
                    /\ Expiry(c.ops[i]) <= ApprovalTerms[c.ops[i].approval].validUntil
                    /\ c.reservation[i].amount
                         <= ApprovalTerms[c.ops[i].approval].maxPerLiquidation
    <3>1. CASE i = id
      BY <1>4, <1>5, <1>7, <1>8, <3>1 DEF RouteFits
    <3>2. CASE i # id
      <4>1. i \in 1..book.counter /\ i \in OpId \ {id}
        BY <1>8, <1>9, <3>2
      <4> QED
        BY <1>1, <1>7, <1>8, <4>1 DEF Termed
    <3> QED
      BY <3>1, <3>2
  <2>2. ASSUME NEW i \in OpId, i \in c.live \/ i > c.counter
        PROVE  c.result[i] = [status |-> "none", moved |-> 0]
    <3>1. i \in book.live \/ i > book.counter
      BY <1>2, <1>8, <2>2 DEF OpId
    <3> QED
      BY <1>1, <1>8, <3>1 DEF Termed
  <2> QED
    BY <2>1, <2>2 DEF Termed
<1> QED
  BY <1>2, <1>6, <1>7, <1>8, <1>10, <1>11, <1>12 DEF Sound, op

-----------------------------------------------------------------------------
(* What else changes a book.                                               *)

(* Two books with the same operations, linked list and results. *)
SameOperations(b, d) ==
    /\ DOMAIN d = Fields
    /\ d.counter = b.counter /\ d.ops = b.ops
    /\ d.live = b.live /\ d.count = b.count /\ d.latest = b.latest
    /\ d.older = b.older /\ d.newer = b.newer
    /\ d.reservation = b.reservation /\ d.result = b.result

(* The quotas of d, where only what is installed or revoked differs from b. *)
SoundQuotas(b, d) ==
    /\ d.quota \in [Approval -> QuotaType]
    /\ \A a \in Approval :
         /\ d.quota[a].reserved = b.quota[a].reserved
         /\ d.quota[a].consumed = b.quota[a].consumed
         /\ b.quota[a].installed => d.quota[a].installed
         /\ IF d.quota[a].installed
            THEN d.quota[a].available + d.quota[a].reserved + d.quota[a].consumed
                   = ApprovalTerms[a].maxCumulative
            ELSE d.quota[a].reserved = 0 /\ d.quota[a].consumed = 0

\* Quotas that did not change are sound still.
LEMMA SameQuotas ==
    ASSUME NEW b, Sound(b), NEW d, d.quota = b.quota
    PROVE  SoundQuotas(b, d)
BY DEF Sound, Typed, Reconciled, SoundQuotas

\* A book is sound as long as its operations and results stay, and its batch,
\* quotas and vaults are sound themselves.
LEMMA SoundFrame ==
    ASSUME NEW b, Sound(b), NEW d, SameOperations(b, d), SoundQuotas(b, d), Batched(d),
           d.vault \in [Vault -> VaultType],
           d.pending \in Seq(OpId), Len(d.pending) <= MAX_PENDING_SETTLEMENT_OPERATIONS
    PROVE  Sound(d)
<1>1. /\ DOMAIN d = Fields
      /\ d.counter = b.counter /\ d.ops = b.ops
      /\ d.live = b.live /\ d.count = b.count /\ d.latest = b.latest
      /\ d.older = b.older /\ d.newer = b.newer
      /\ d.reservation = b.reservation /\ d.result = b.result
  BY DEF SameOperations
<1>2. Typed(b) /\ Linked(b) /\ Reconciled(b) /\ Termed(b)
  BY DEF Sound
<1>3. Typed(d)
  <2>1. d.quota \in [Approval -> QuotaType]
    BY DEF SoundQuotas
  <2> QED
    BY <1>1, <1>2, <2>1 DEF Typed, VaultType
<1>4. Linked(d)
  BY <1>1, <1>2 DEF Linked, LiveBefore, LiveAfter
<1>5. Termed(d)
  BY <1>1, <1>2 DEF Termed
<1>6. Reconciled(d)
  <2>1. AmountOf(d) = AmountOf(b) /\ MovedOf(d) = MovedOf(b)
    BY <1>1 DEF AmountOf, MovedOf
  <2>2. \A a : ReservedIn(d, a) = ReservedIn(b, a) /\ SpentIn(d, a) = SpentIn(b, a)
    BY <1>1 DEF ReservedIn, SpentIn
  <2>3. \A id \in OpId : b.reservation[id].approval \in Approval \cup {NoApproval}
    BY <1>2 DEF Typed
  <2>4. ASSUME NEW id \in OpId
        PROVE  /\ d.reservation[id].approval =
                    IF id \in 1..d.counter THEN d.ops[id].approval ELSE NoApproval
               /\ d.reservation[id].approval # NoApproval =>
                    /\ d.reservation[id].settled = (id \notin d.live)
                    /\ d.quota[d.reservation[id].approval].installed
    BY <1>1, <1>2, <2>3 DEF Reconciled, SoundQuotas
  <2>5. ASSUME NEW a \in Approval
        PROVE  /\ d.quota[a].reserved = SumFunctionOnSet(AmountOf(d), ReservedIn(d, a))
               /\ d.quota[a].consumed = SumFunctionOnSet(MovedOf(d), SpentIn(d, a))
    BY <1>2, <2>1, <2>2 DEF Reconciled, SoundQuotas
  <2> QED
    BY <2>4, <2>5 DEF Reconciled, SoundQuotas
<1> QED
  BY <1>3, <1>4, <1>5, <1>6 DEF Sound

(* An operation that is staged and not yet pending joins the batch, if there is
   room. *)
LEMMA TrackedIsSound ==
    ASSUME NEW b, Sound(b), NEW id \in b.live,
           \A i \in DOMAIN b.pending : b.pending[i] # id,
           NEW d, d = _trackPendingSettlementOperation(b, id)
    PROVE  /\ Sound(d) /\ d.ops = b.ops /\ d.result = b.result /\ d.live = b.live
           /\ \A i \in DOMAIN d.pending :
                \/ d.pending[i] = id
                \/ \E j \in DOMAIN b.pending : d.pending[i] = b.pending[j]
<1>1. /\ Typed(b) /\ DOMAIN b = Fields /\ b.pending \in Seq(OpId)
      /\ Len(b.pending) \in Nat /\ DOMAIN b.pending = 1..Len(b.pending)
      /\ Len(b.pending) <= MAX_PENDING_SETTLEMENT_OPERATIONS
      /\ b.vault \in [Vault -> VaultType]
  BY DEF Sound, Typed, VaultType
<1>2. id \in OpId /\ 0 \notin OpId
  BY <1>1, LiveIsFinite
<1>3. MAX_PENDING_SETTLEMENT_OPERATIONS \in Nat
  BY CoordinatorAssumption
<1>4. CASE d = b
  BY <1>4
<1>5. CASE d # b
  <2> DEFINE p == Append(b.pending, id)
  <2>1. /\ ~(Len(b.pending) >= MAX_PENDING_SETTLEMENT_OPERATIONS)
        /\ d = [b EXCEPT !.pending = p, !.slot = IF @ = 0 THEN id ELSE @]
    BY <1>5 DEF _trackPendingSettlementOperation
  <2>2. /\ p \in Seq(OpId) /\ Len(p) = Len(b.pending) + 1 /\ p # <<>>
        /\ \A i \in 1..Len(b.pending) : p[i] = b.pending[i]
        /\ p[Len(b.pending) + 1] = id
        /\ DOMAIN p = 1..Len(b.pending) + 1
    BY <1>1, <1>2
  <2> HIDE DEF p
  <2>3. /\ SameOperations(b, d) /\ d.pending = p /\ d.vault = b.vault /\ d.quota = b.quota
        /\ b.slot = 0 => d.slot = id
        /\ b.slot # 0 => d.slot = b.slot
    BY <1>1, <2>1 DEF SameOperations, Fields
  <2>4. Len(p) <= MAX_PENDING_SETTLEMENT_OPERATIONS
    BY <1>1, <1>3, <2>1, <2>2
  <2>5. \A i \in DOMAIN p : \/ i \in 1..Len(b.pending) /\ p[i] = b.pending[i]
                            \/ i = Len(b.pending) + 1 /\ p[i] = id
    BY <1>1, <2>2
  <2>6. Batched(d)
    <3>1. \A i \in DOMAIN p : p[i] \in d.live
      BY <1>1, <2>3, <2>5 DEF Sound, Batched, SameOperations
    <3>2. \A i, j \in DOMAIN p : p[i] = p[j] => i = j
      BY <1>1, <2>5 DEF Sound, Batched
    <3>3. d.slot = p[1]
      <4>1. b.slot = IF b.pending = <<>> THEN 0 ELSE b.pending[1]
        BY DEF Sound, Batched
      <4>2. CASE b.pending = <<>>
        <5>1. Len(b.pending) = 0
          BY <4>2
        <5>2. p[1] = id
          BY <2>2, <5>1
        <5> QED
          BY <2>3, <4>1, <4>2, <5>2
      <4>3. CASE b.pending # <<>>
        <5>1. 1 \in 1..Len(b.pending)
          BY <1>1, <4>3
        <5>2. p[1] = b.pending[1] /\ b.pending[1] \in OpId
          BY <1>1, <2>2, <5>1
        <5> QED
          BY <1>2, <2>3, <4>1, <4>3, <5>2
      <4> QED
        BY <4>2, <4>3
    <3> QED
      BY <2>2, <2>3, <3>1, <3>2, <3>3 DEF Batched
  <2>7. SoundQuotas(b, d)
    BY <2>3, SameQuotas
  <2>8. Sound(d)
    BY <1>1, <2>2, <2>3, <2>4, <2>6, <2>7, SoundFrame
  <2>9. \A i \in DOMAIN d.pending :
          \/ d.pending[i] = id
          \/ \E j \in DOMAIN b.pending : d.pending[i] = b.pending[j]
    BY <1>1, <2>3, <2>5
  <2> QED
    BY <2>3, <2>8, <2>9 DEF SameOperations
<1> QED
  BY <1>4, <1>5

\* _install gives an approval its whole quota, none of it held or spent.
LEMMA InstalledIsSound ==
    ASSUME Sound(book), NEW a \in Approval, book.quota[a].installed = FALSE,
           NEW d, d = [book EXCEPT !.quota[a].installed = TRUE,
                                   !.quota[a].available = ApprovalTerms[a].maxCumulative]
    PROVE  Sound(d) /\ SameIndexes(book, d) /\ d.result = book.result
<1> DEFINE q == book.quota[a]
           x == [q EXCEPT !.installed = TRUE]
           y == [x EXCEPT !.available = ApprovalTerms[a].maxCumulative]
<1>1. /\ Typed(book) /\ DOMAIN book = Fields /\ book.quota \in [Approval -> QuotaType]
      /\ book.vault \in [Vault -> VaultType]
      /\ book.pending \in Seq(OpId)
      /\ Len(book.pending) <= MAX_PENDING_SETTLEMENT_OPERATIONS
  BY DEF Sound, Typed, VaultType
<1>2. ApprovalTerms[a].maxCumulative \in Nat
  BY CoordinatorAssumption
<1>3. q.reserved = 0 /\ q.consumed = 0 /\ q \in QuotaType
  BY <1>1 DEF Sound, Reconciled
<1>4. x \in QuotaType /\ x.installed = TRUE /\ x.reserved = 0 /\ x.consumed = 0
  BY <1>3 DEF QuotaType
<1>5. /\ y \in QuotaType /\ y.installed = TRUE /\ y.reserved = 0 /\ y.consumed = 0
      /\ y.available = ApprovalTerms[a].maxCumulative
  BY <1>2, <1>4 DEF QuotaType
<1>6. d.quota = [book.quota EXCEPT ![a] = y]
  BY <1>1 DEF Fields
<1>7. /\ SameOperations(book, d) /\ SameIndexes(book, d)
      /\ d.pending = book.pending /\ d.slot = book.slot /\ d.vault = book.vault
  BY <1>1 DEF SameOperations, SameIndexes, Fields
<1> HIDE DEF y, x
<1>8. /\ d.quota \in [Approval -> QuotaType] /\ d.quota[a] = y
      /\ \A c \in Approval : c # a => d.quota[c] = book.quota[c]
  <2>1. book.quota \in [Approval -> QuotaType]
    BY <1>1
  <2>2. y \in QuotaType
    BY <1>5
  <2> QED
    BY <1>6, <2>1, <2>2
<1>9. SoundQuotas(book, d)
  <2>1. y.available + y.reserved + y.consumed = ApprovalTerms[a].maxCumulative
    BY <1>2, <1>5
  <2>2. SoundQuotas(book, book)
    BY SameQuotas
  <2> HIDE DEF q
  <2> QED
    BY <1>3, <1>5, <1>8, <2>1, <2>2 DEF SoundQuotas, q
<1>10. Batched(d)
  BY <1>7 DEF Sound, Batched, SameOperations
<1>11. Sound(d)
  BY <1>1, <1>7, <1>9, <1>10, SoundFrame
<1> QED
  BY <1>7, <1>11 DEF SameOperations

\* A revoked approval keeps its quota.
LEMMA RevokedIsSound ==
    ASSUME Sound(book), NEW a \in Approval,
           NEW d, d = [book EXCEPT !.quota[a].revoked = TRUE]
    PROVE  Sound(d) /\ SameIndexes(book, d) /\ d.result = book.result
<1> DEFINE q == book.quota[a]
           x == [q EXCEPT !.revoked = TRUE]
<1>1. /\ Typed(book) /\ DOMAIN book = Fields /\ book.quota \in [Approval -> QuotaType]
      /\ book.vault \in [Vault -> VaultType]
      /\ book.pending \in Seq(OpId)
      /\ Len(book.pending) <= MAX_PENDING_SETTLEMENT_OPERATIONS
  BY DEF Sound, Typed, VaultType
<1>2. /\ x \in QuotaType /\ x.installed = q.installed /\ x.reserved = q.reserved
      /\ x.consumed = q.consumed /\ x.available = q.available
  BY <1>1 DEF QuotaType
<1>3. d.quota = [book.quota EXCEPT ![a] = x]
  BY <1>1 DEF Fields
<1>4. /\ SameOperations(book, d) /\ SameIndexes(book, d)
      /\ d.pending = book.pending /\ d.slot = book.slot /\ d.vault = book.vault
  BY <1>1 DEF SameOperations, SameIndexes, Fields
<1> HIDE DEF x, q
<1>5. /\ d.quota \in [Approval -> QuotaType] /\ d.quota[a] = x
      /\ \A c \in Approval : c # a => d.quota[c] = book.quota[c]
  <2>1. d.quota = [c \in Approval |-> IF c = a THEN x ELSE book.quota[c]]
    BY <1>1, <1>3
  <2>2. x \in QuotaType /\ book.quota \in [Approval -> QuotaType]
    BY <1>1, <1>2
  <2> SUFFICES ASSUME NEW f, f = book.quota, NEW g, g = d.quota
               PROVE  /\ g \in [Approval -> QuotaType] /\ g[a] = x
                      /\ \A c \in Approval : c # a => g[c] = f[c]
    OBVIOUS
  <2>3. g = [c \in Approval |-> IF c = a THEN x ELSE f[c]] /\ f \in [Approval -> QuotaType]
    BY <2>1, <2>2
  <2>4. \A c \in Approval : g[c] = IF c = a THEN x ELSE f[c]
    BY <2>3
  <2> QED
    BY <2>2, <2>3, <2>4
<1>6. SoundQuotas(book, d)
  <2>1. SoundQuotas(book, book)
    BY SameQuotas
  <2> QED
    BY <1>2, <1>5, <2>1 DEF SoundQuotas, q
<1>7. Batched(d)
  BY <1>4 DEF Sound, Batched, SameOperations
<1>8. Sound(d)
  BY <1>1, <1>4, <1>6, <1>7, SoundFrame
<1> QED
  BY <1>4, <1>8 DEF SameOperations

\* A deposit changes one vault.
LEMMA DepositedIsSound ==
    ASSUME Sound(book), NEW v \in Vault, NEW capacity \in Nat,
           NEW d, d = [book EXCEPT !.vault[v] = [units |-> @.units + 1,
                                                 capacity |-> @.capacity + capacity]]
    PROVE  Sound(d) /\ SameIndexes(book, d) /\ d.result = book.result
<1> DEFINE w == [units |-> book.vault[v].units + 1,
                 capacity |-> book.vault[v].capacity + capacity]
<1>1. /\ Typed(book) /\ DOMAIN book = Fields /\ book.quota \in [Approval -> QuotaType]
      /\ book.vault \in [Vault -> VaultType]
      /\ book.pending \in Seq(OpId)
      /\ Len(book.pending) <= MAX_PENDING_SETTLEMENT_OPERATIONS
  BY DEF Sound, Typed, VaultType
<1>2. w \in VaultType
  BY <1>1 DEF VaultType
<1>3. d.vault = [book.vault EXCEPT ![v] = w]
  BY <1>1 DEF Fields
<1>4. /\ SameOperations(book, d) /\ SameIndexes(book, d)
      /\ d.pending = book.pending /\ d.slot = book.slot /\ d.quota = book.quota
  BY <1>1 DEF SameOperations, SameIndexes, Fields
<1> HIDE DEF w
<1>5. d.vault \in [Vault -> VaultType]
  BY <1>1, <1>2, <1>3
<1>6. SoundQuotas(book, d)
  BY <1>4, SameQuotas
<1>7. Batched(d)
  BY <1>4 DEF Sound, Batched, SameOperations
<1>8. Sound(d)
  BY <1>1, <1>4, <1>5, <1>6, <1>7, SoundFrame
<1> QED
  BY <1>4, <1>8 DEF SameOperations

-----------------------------------------------------------------------------
(* What a handler settles, it settles once and on terms.                   *)

(* What of a success id of book c was agreed, seen from the book x before. *)
AgreedTerms(x, c, id) ==
    /\ now <= Expiry(c.ops[id])
    /\ c.ops[id].kind = "Liquidation" =>
         \/ x.vault[c.ops[id].target] = c.ops[id].snapshot
         \/ \E o \in OpId \ {id} :
               /\ c.result[o] # x.result[o] /\ c.result[o].status = "ok"
               /\ c.ops[id].target \in {c.ops[o].target, c.ops[o].receiver}
    /\ c.ops[id].approval # NoApproval =>
         /\ now <= ApprovalTerms[c.ops[id].approval].validUntil
         /\ c.result[id].moved <= ApprovalTerms[c.ops[id].approval].maxPerLiquidation

OnceOnTerms(x, c) ==
    \A id \in OpId : c.result[id] # x.result[id] =>
      /\ x.result[id].status = "none" /\ id \notin c.live
      /\ c.result[id].status = "ok" => AgreedTerms(x, c, id)

\* Without a new result there are no terms to meet.
LEMMA NothingSettled ==
    ASSUME NEW x, NEW c, c.result = x.result
    PROVE  OnceOnTerms(x, c)
BY DEF OnceOnTerms

\* Progress over a sound book is settled once and on terms.
LEMMA SettledOnTerms ==
    ASSUME now \in Int, NEW b, Sound(b), NEW c, Progress(b, c),
           NEW x, b.result = x.result, b.vault = x.vault
    PROVE  OnceOnTerms(x, c)
<1> SUFFICES ASSUME NEW id \in OpId, c.result[id] # x.result[id]
             PROVE  /\ x.result[id].status = "none" /\ id \notin c.live
                    /\ c.result[id].status = "ok" => AgreedTerms(x, c, id)
  BY DEF OnceOnTerms
<1>1. c.result[id] # b.result[id]
  OBVIOUS
<1>2. /\ id \in b.live /\ id \notin c.live /\ c.ops = b.ops
      /\ c.result[id].status = "ok" => Served(b, c, id)
  BY <1>1 DEF Progress
<1>3. x.result[id].status = "none"
  BY <1>2 DEF Sound, Termed
<1>4. ASSUME c.result[id].status = "ok"
      PROVE  AgreedTerms(x, c, id)
  <2> DEFINE op == c.ops[id]
  <2>1. Served(b, c, id)
    BY <1>2, <1>4
  <2>2. op = b.ops[id] /\ id \in 1..b.counter /\ op \in Operation
    BY <1>2, LiveOperation
  <2>3. now <= Expiry(op)
    BY <2>1, <2>2 DEF Served
  <2>4. ASSUME op.kind = "Liquidation", x.vault[op.target] # op.snapshot
        PROVE  \E o \in OpId \ {id} :
                  /\ c.result[o] # x.result[o] /\ c.result[o].status = "ok"
                  /\ op.target \in {c.ops[o].target, c.ops[o].receiver}
    <3>1. \E o \in OpId \ {id} : Touched(b, c, o, op.target)
      BY <2>1, <2>2, <2>4 DEF Served
    <3> QED
      BY <1>2, <3>1 DEF Touched
  <2>5. ASSUME op.approval # NoApproval
        PROVE  /\ now <= ApprovalTerms[op.approval].validUntil
               /\ c.result[id].moved <= ApprovalTerms[op.approval].maxPerLiquidation
    <3>1. c.result[id].moved <= ApprovalTerms[op.approval].maxPerLiquidation
      BY <2>1, <2>2, <2>5 DEF Served
    <3>2. Expiry(op) <= ApprovalTerms[op.approval].validUntil
      BY <2>2, <2>5 DEF Sound, Termed
    <3>3. Expiry(op) \in Int
      BY <2>2, CoordinatorAssumption DEF Expiry, Operation
    <3>4. ApprovalTerms[op.approval].validUntil \in Int
      <4>1. op.approval \in Approval
        BY <2>2, <2>5 DEF Operation
      <4> QED
        BY <4>1, CoordinatorAssumption
    <3> HIDE DEF op
    <3> QED
      BY <2>3, <3>1, <3>2, <3>3, <3>4
  <2> QED
    BY <2>3, <2>4, <2>5 DEF AgreedTerms
<1> QED
  BY <1>2, <1>3, <1>4

-----------------------------------------------------------------------------
(* The steps.                                                              *)

(* The clocks after a step that leaves the report, the price and the time. *)
LEMMA ClocksStay ==
    ASSUME Clocks, UNCHANGED <<now, resolved, report, lastSettlement, minimumNonce>>
    PROVE  Clocks'
BY DEF Clocks

(* What an action owes: the invariant, and terms for whatever it settled. *)
Owed == IInv' /\ OnceOnTerms(book, book')

\* A step that settles one operation and leaves the report.
LEMMA SettlingStep ==
    ASSUME IInv, NEW id \in book.live, Sound(book'), Settles(book, book', id),
           UNCHANGED <<now, resolved, report, lastSettlement, minimumNonce>>
    PROVE  Owed
<1>1. Clocks' /\ now \in Int
  BY ClocksStay DEF IInv, Clocks
<1>2. Sound(book)
  BY DEF IInv
<1>3. Progress(book, book')
  BY <1>2, NoProgress, MoreProgress
<1>4. OnceOnTerms(book, book')
  BY <1>1, <1>2, <1>3, SettledOnTerms
<1>5. Sponsored(book', report')
  <2>1. /\ \A i \in DOMAIN book'.pending :
             \E j \in DOMAIN book.pending : book'.pending[i] = book.pending[j]
        /\ book'.ops = book.ops
    BY <1>3 DEF Progress
  <2>2. CASE book'.pending = <<>>
    BY <2>2 DEF Sponsored
  <2>3. CASE book'.pending # <<>>
    <3>1. 1 \in DOMAIN book'.pending
      BY <2>3 DEF Sound, Typed
    <3>2. book.pending # <<>>
      BY <2>1, <3>1
    <3>3. report # NoReport /\ \A j \in DOMAIN book.pending :
                                  book.ops[book.pending[j]].operator = report.sponsor
      BY <3>2 DEF IInv, Sponsored
    <3> QED
      BY <2>1, <3>3 DEF Sponsored
  <2> QED
    BY <2>2, <2>3
<1> QED
  BY <1>1, <1>4, <1>5 DEF Owed, IInv

\* A step that settles none and stages none.
LEMMA QuietStep ==
    ASSUME IInv, Sound(book'), book'.pending = book.pending, book'.ops = book.ops,
           book'.result = book.result,
           UNCHANGED <<now, resolved, report, lastSettlement, minimumNonce>>
    PROVE  Owed
<1>1. Clocks'
  BY ClocksStay DEF IInv
<1>2. OnceOnTerms(book, book')
  BY NothingSettled
<1>3. Sponsored(book', report')
  BY DEF IInv, Sponsored
<1> QED
  BY <1>1, <1>2, <1>3 DEF Owed, IInv

\* A step that settles the batch, and with it ends the report.
LEMMA BatchStep ==
    ASSUME IInv, NEW fates, \A i \in DOMAIN book.pending : fates[i] \in Fate \cup {Rejected},
           book' = SettledBatch(fates), Clocks'
    PROVE  Owed
<1>1. now \in Int /\ Sound(book)
  BY DEF IInv, Clocks
<1>2. Sound(book') /\ Progress(DetachedBook, book')
  BY <1>1, BatchProgress
<1>3. /\ Sound(DetachedBook) /\ DetachedBook.pending = <<>>
      /\ DetachedBook.result = book.result /\ DetachedBook.vault = book.vault
  BY <1>1, DetachedIsSound
<1>4. OnceOnTerms(book, book')
  BY <1>1, <1>2, <1>3, SettledOnTerms
<1>5. book'.pending = <<>>
  <2>1. \A i \in DOMAIN book'.pending : FALSE
    BY <1>2, <1>3 DEF Progress
  <2>2. book'.pending \in Seq(OpId)
    BY <1>2 DEF Sound, Typed
  <2>3. ASSUME NEW s \in Seq(OpId), s # <<>>
        PROVE  1 \in DOMAIN s
    BY <2>3
  <2> QED
    BY <2>1, <2>2, <2>3
<1> QED
  BY <1>2, <1>4, <1>5 DEF Owed, IInv, Sponsored

\* A step that stages an operation, and executes it at a fresh price or waits.
LEMMA StagedStep ==
    ASSUME IInv, book.counter < MaxOps, NEW operator \in Vault, MayStage(operator),
           NEW kind \in {"Liquidation", "WithdrawRep"},
           NEW t \in Vault, NEW r \in Vault, NEW a \in Approval \cup {NoApproval},
           NEW amount \in Nat, NEW validFor \in Nat, NEW fate \in Fate,
           RouteFits(operator, kind, t, r, a, validFor),
           ExecuteOrWait(operator, StagedBook(operator, kind, t, r, a, amount, validFor),
                         book.counter + 1, fate),
           UNCHANGED <<now, resolved, minimumNonce>>
    PROVE  Owed
<1> DEFINE id == book.counter + 1
           op == NewOperation(operator, kind, t, r, a, amount, validFor)
           c == StagedBook(operator, kind, t, r, a, amount, validFor)
<1>1. Clocks /\ Sound(book) /\ Sponsored(book, report) /\ now \in Int
  BY DEF IInv, Clocks
<1>2. Sound(c) /\ id \in OpId /\ id \in c.live /\ StagedOn(book, c, id, op)
  BY <1>1, StagedIsSound
<1>3. /\ c.ops[id].operator = operator /\ \A i \in OpId \ {id} : c.ops[i] = book.ops[i]
      /\ c.pending = book.pending /\ c.vault = book.vault /\ c.result = book.result
  BY <1>2 DEF StagedOn, NewOperation
<1>4. \A i \in DOMAIN book.pending : book.pending[i] \in OpId \ {id}
  <2>1. \A i \in DOMAIN book.pending : book.pending[i] \in book.live
    BY <1>1 DEF Sound, Batched
  <2>2. book.live \subseteq 1..book.counter /\ book.counter \in Nat /\ book.live \subseteq OpId
    BY <1>1, LiveIsFinite DEF Sound, Typed
  <2> QED
    BY <2>1, <2>2
<1>5. ExecuteOrWait(operator, c, id, fate)
  OBVIOUS
<1> HIDE DEF c, id, op
<1>6. CASE isPriceValid(lastSettlement)
  <2>1. book' = Executed(c, id, fate) /\ UNCHANGED <<report, lastSettlement>>
    BY <1>5, <1>6 DEF ExecuteOrWait, oracle
  <2>2. Sound(book') /\ Settles(c, book', id)
    BY <1>1, <1>2, <2>1, ExecutedSettles
  <2>3. Progress(c, book')
    BY <1>2, <2>2, NoProgress, MoreProgress
  <2>4. OnceOnTerms(book, book')
    BY <1>1, <1>2, <1>3, <2>3, SettledOnTerms
  <2>5. Sponsored(book', report')
    <3>1. /\ \A i \in DOMAIN book'.pending :
               \E j \in DOMAIN c.pending : book'.pending[i] = c.pending[j]
          /\ book'.ops = c.ops
      BY <2>3 DEF Progress
    <3>2. CASE book'.pending = <<>>
      BY <3>2 DEF Sponsored
    <3>3. CASE book'.pending # <<>>
      <4>1. 1 \in DOMAIN book'.pending
        BY <2>2, <3>3 DEF Sound, Typed
      <4>2. book.pending # <<>>
        BY <1>3, <3>1, <4>1
      <4>3. report # NoReport /\ \A j \in DOMAIN book.pending :
                                    book.ops[book.pending[j]].operator = report.sponsor
        BY <1>1, <4>2 DEF Sponsored
      <4> QED
        BY <1>3, <1>4, <2>1, <3>1, <4>3 DEF Sponsored
    <3> QED
      BY <3>2, <3>3
  <2>6. Clocks'
    BY <1>1, <2>1, ClocksStay
  <2> QED
    BY <2>2, <2>4, <2>5, <2>6 DEF Owed, IInv
<1>7. CASE ~isPriceValid(lastSettlement)
  <2> DEFINE first == [sponsor |-> operator, at |-> now, settled |-> FALSE]
  <2>1. /\ book' = _trackPendingSettlementOperation(c, id)
        /\ report' = IF report = NoReport /\ c.pending = <<>> THEN first ELSE report
        /\ UNCHANGED lastSettlement
    BY <1>5, <1>7 DEF ExecuteOrWait
  <2>2. /\ Sound(book') /\ book'.ops = c.ops /\ book'.result = c.result
        /\ \A i \in DOMAIN book'.pending :
             \/ book'.pending[i] = id
             \/ \E j \in DOMAIN c.pending : book'.pending[i] = c.pending[j]
    BY <1>2, <1>3, <1>4, <2>1, TrackedIsSound
  <2>3. OnceOnTerms(book, book')
    BY <1>3, <2>2, NothingSettled
  <2>4. report' # NoReport /\ report'.sponsor = operator
    <3>1. CASE report = NoReport
      <4>1. c.pending = <<>>
        BY <1>1, <1>3, <3>1 DEF Sponsored
      <4>2. report' = first /\ first.sponsor = operator /\ operator # AnyVault
        BY <2>1, <3>1, <4>1, CoordinatorAssumption
      <4>3. NoReport.sponsor = AnyVault
        BY DEF NoReport
      <4> QED
        BY <4>2, <4>3
    <3>2. CASE report # NoReport
      BY <2>1, <3>2 DEF MayStage
    <3> QED
      BY <3>1, <3>2
  <2>5. ASSUME NEW i \in DOMAIN book'.pending
        PROVE  book'.ops[book'.pending[i]].operator = report'.sponsor
    <3>1. CASE book'.pending[i] = id
      BY <1>3, <2>2, <2>4, <3>1
    <3>2. CASE \E j \in DOMAIN book.pending : book'.pending[i] = book.pending[j]
      <4>1. PICK j \in DOMAIN book.pending : book'.pending[i] = book.pending[j]
        BY <3>2
      <4>2. book.pending # <<>>
        BY <4>1
      <4>3. report # NoReport /\ book.ops[book.pending[j]].operator = report.sponsor
        BY <1>1, <4>1, <4>2 DEF Sponsored
      <4>4. report.sponsor = operator
        BY <4>3 DEF MayStage
      <4> QED
        BY <1>3, <1>4, <2>2, <2>4, <4>1, <4>3, <4>4
    <3> QED
      BY <1>3, <2>2, <3>1, <3>2
  <2>6. Sponsored(book', report')
    BY <2>4, <2>5 DEF Sponsored
  <2>7. Clocks'
    <3>1. /\ now \in 1..MaxTime /\ resolved \in BOOLEAN /\ lastSettlement \in 0..now
          /\ report \in [sponsor: Vault \cup {AnyVault}, at: 0..now, settled: BOOLEAN]
          /\ minimumNonce \in [Vault -> Nat]
      BY <1>1 DEF Clocks
    <3>2. first \in [sponsor: Vault \cup {AnyVault}, at: 0..now, settled: BOOLEAN]
      BY <3>1
    <3>3. report' \in [sponsor: Vault \cup {AnyVault}, at: 0..now, settled: BOOLEAN]
      BY <2>1, <3>1, <3>2
    <3> QED
      BY <2>1, <3>1, <3>3 DEF Clocks
  <2> QED
    BY <2>2, <2>3, <2>6, <2>7 DEF Owed, IInv
<1> QED
  BY <1>6, <1>7

\* The inputs of the handlers.
LEMMA FatesAreFates ==
    /\ \A n \in DebtAmount : n \in Nat
    /\ \A n \in Validity : n \in Nat
    /\ \A n \in CapacityAdded : n \in Nat
    /\ Operator \subseteq Vault /\ Depositor \subseteq Vault
BY CoordinatorAssumption

\* Every step keeps the invariant and settles once and on terms.
LEMMA NextStep ==
    ASSUME IInv, [Next]_vars
    PROVE  Owed
<1>1. /\ Clocks /\ Sound(book) /\ Sponsored(book, report)
      /\ now \in 1..MaxTime /\ now \in Int /\ MaxTime \in Int /\ lastSettlement \in 0..now
      /\ report \in [sponsor: Vault \cup {AnyVault}, at: 0..now, settled: BOOLEAN]
  BY CoordinatorAssumption DEF IInv, Clocks
<1>2. ASSUME NEW v \in Operator, NEW n \in DebtAmount, NEW s \in Validity, NEW f \in Fate,
             requestPriceIfNeededAndStageWithdrawal(v, n, s, f)
      PROVE  Owed
  <2>1. v \in Vault /\ n \in Nat /\ s \in Nat
    BY FatesAreFates
  <2>2. RouteFits(v, "WithdrawRep", v, v, NoApproval, s)
    BY DEF RouteFits
  <2>3. /\ book.counter < MaxOps /\ MayStage(v)
        /\ ExecuteOrWait(v, StagedBook(v, "WithdrawRep", v, v, NoApproval, n, s),
                         book.counter + 1, f)
        /\ UNCHANGED <<now, resolved, minimumNonce>>
    BY <1>2 DEF requestPriceIfNeededAndStageWithdrawal
  <2> QED
    BY <2>1, <2>2, <2>3, StagedStep
<1>3. ASSUME NEW v \in Operator, NEW n \in DebtAmount, NEW s \in Validity, NEW f \in Fate,
             NEW t \in Vault, NEW r \in Vault, NEW a \in Approval \cup {NoApproval},
             requestPriceIfNeededAndStageLiquidation(v, t, r, a, n, s, f)
      PROVE  Owed
  <2>1. v \in Vault /\ n \in Nat /\ s \in Nat
    BY FatesAreFates
  <2>2. /\ book.counter < MaxOps /\ MayStage(v) /\ RouteAllowed(v, t, r, a, n, s)
        /\ ExecuteOrWait(v, StagedBook(v, "Liquidation", t, r, a, n, s),
                         book.counter + 1, f)
        /\ UNCHANGED <<now, resolved, minimumNonce>>
    BY <1>3 DEF requestPriceIfNeededAndStageLiquidation
  <2>3. RouteFits(v, "Liquidation", t, r, a, s)
    BY <2>2 DEF RouteFits, RouteAllowed
  <2> QED
    BY <2>1, <2>2, <2>3, StagedStep
<1>4. ASSUME NEW v \in Vault, requestPrice(v)
      PROVE  Owed
  <2> DEFINE first == [sponsor |-> v, at |-> now, settled |-> FALSE]
  <2>1. /\ report = NoReport /\ report' = first
        /\ UNCHANGED <<now, resolved, lastSettlement, minimumNonce, book>>
    BY <1>4 DEF requestPrice
  <2>2. first \in [sponsor: Vault \cup {AnyVault}, at: 0..now, settled: BOOLEAN]
    BY <1>1
  <2>3. Clocks'
    BY <1>1, <2>1, <2>2 DEF Clocks
  <2>4. Sponsored(book', report')
    BY <1>1, <2>1 DEF Sponsored
  <2>5. OnceOnTerms(book, book')
    BY <2>1, NothingSettled
  <2> QED
    BY <1>1, <2>1, <2>3, <2>4, <2>5 DEF Owed, IInv
<1>5. ASSUME NEW v \in Depositor, NEW n \in CapacityAdded, depositRepToVault(v, n)
      PROVE  Owed
  <2>1. v \in Vault /\ n \in Nat
    BY FatesAreFates
  <2>2. /\ book' = [book EXCEPT !.vault[v] = [units |-> @.units + 1,
                                              capacity |-> @.capacity + n]]
        /\ UNCHANGED <<now, resolved, report, lastSettlement, minimumNonce>>
    BY <1>5 DEF depositRepToVault, oracle
  <2>3. Sound(book') /\ SameIndexes(book, book') /\ book'.result = book.result
    BY <1>1, <2>1, <2>2, DepositedIsSound
  <2> QED
    BY <2>2, <2>3, QuietStep DEF SameIndexes
<1>6. ASSUME NEW id \in OpId, expireStagedOperation(id)
      PROVE  Owed
  <2>1. /\ id \in book.live /\ book' = Failed(book, id)
        /\ UNCHANGED <<now, resolved, report, lastSettlement, minimumNonce>>
    BY <1>6 DEF expireStagedOperation, oracle
  <2>2. Sound(book') /\ Settles(book, book', id)
    BY <1>1, <2>1, FailedSettles
  <2> QED
    BY <2>1, <2>2, SettlingStep
<1>7. ASSUME NEW id \in OpId, NEW f \in Fate, executeStagedOperation(id, f)
      PROVE  Owed
  <2>1. /\ id \in book.live /\ book' = Executed(book, id, f)
        /\ UNCHANGED <<now, resolved, report, lastSettlement, minimumNonce>>
    BY <1>7 DEF executeStagedOperation, oracle
  <2>2. Sound(book') /\ Settles(book, book', id)
    BY <1>1, <2>1, ExecutedSettles
  <2> QED
    BY <2>1, <2>2, SettlingStep
<1>8. NoReport \in [sponsor: Vault \cup {AnyVault}, at: 0..now, settled: BOOLEAN]
  BY <1>1 DEF NoReport
<1>9. ASSUME NEW fates \in [DOMAIN book.pending -> Fate], openOracleCallback(fates)
      PROVE  Owed
  <2>1. /\ report' = NoReport /\ lastSettlement' = now /\ book' = SettledBatch(fates)
        /\ UNCHANGED <<now, resolved, minimumNonce>>
    BY <1>9 DEF openOracleCallback
  <2>2. Clocks'
    BY <1>1, <1>8, <2>1 DEF Clocks
  <2>3. \A i \in DOMAIN book.pending : fates[i] \in Fate \cup {Rejected}
    OBVIOUS
  <2> QED
    BY <2>1, <2>2, <2>3, BatchStep
<1>10. ASSUME book' = _failPendingSettlementOperations, report' = NoReport,
              UNCHANGED <<now, resolved, lastSettlement, minimumNonce>>
       PROVE  Owed
  <2> DEFINE fates == [i \in DOMAIN book.pending |-> Rejected]
  <2>1. book' = SettledBatch(fates)
    BY <1>10 DEF _failPendingSettlementOperations
  <2>2. Clocks'
    BY <1>1, <1>8, <1>10 DEF Clocks
  <2>3. \A i \in DOMAIN book.pending : fates[i] \in Fate \cup {Rejected}
    OBVIOUS
  <2> HIDE DEF fates
  <2> QED
    BY <2>1, <2>2, <2>3, BatchStep
<1>11. ASSUME CallbackReverts
       PROVE  Owed
  <2>1. /\ report # NoReport /\ report' = [report EXCEPT !.settled = TRUE]
        /\ UNCHANGED <<now, resolved, lastSettlement, minimumNonce, book>>
    BY <1>11 DEF CallbackReverts, MaySettle
  <2>2. /\ report' \in [sponsor: Vault \cup {AnyVault}, at: 0..now, settled: BOOLEAN]
        /\ report'.sponsor = report.sponsor /\ report' # NoReport
    BY <1>1, <2>1 DEF NoReport
  <2>3. Clocks'
    BY <1>1, <2>1, <2>2 DEF Clocks
  <2>4. Sponsored(book', report')
    BY <1>1, <2>1, <2>2 DEF Sponsored
  <2>5. OnceOnTerms(book, book')
    BY <2>1, NothingSettled
  <2> QED
    BY <1>1, <2>1, <2>3, <2>4, <2>5 DEF Owed, IInv
<1>12. ASSUME NEW a \in Approval, _install(a)
       PROVE  Owed
  <2>1. /\ book' = [book EXCEPT !.quota[a].installed = TRUE,
                                !.quota[a].available = ApprovalTerms[a].maxCumulative]
        /\ UNCHANGED <<now, resolved, report, lastSettlement, minimumNonce>>
    BY <1>12 DEF _install, oracle
  <2>2. book.quota[a].installed = FALSE
    <3>1. ~book.quota[a].installed
      BY <1>12 DEF _install
    <3>2. book.quota[a].installed \in BOOLEAN
      <4>1. book.quota[a] \in QuotaType
        BY <1>1 DEF Sound, Typed
      <4> QED
        BY <4>1 DEF QuotaType
    <3> QED
      BY <3>1, <3>2
  <2>3. Sound(book') /\ SameIndexes(book, book') /\ book'.result = book.result
    BY <1>1, <2>1, <2>2, InstalledIsSound
  <2> QED
    BY <2>1, <2>3, QuietStep DEF SameIndexes
<1>13. ASSUME NEW a \in Approval, revokeLiquidationApproval(a)
       PROVE  Owed
  <2>1. /\ book' = [book EXCEPT !.quota[a].revoked = TRUE]
        /\ UNCHANGED <<now, resolved, report, lastSettlement, minimumNonce>>
    BY <1>13 DEF revokeLiquidationApproval, oracle
  <2>2. Sound(book') /\ SameIndexes(book, book') /\ book'.result = book.result
    BY <1>1, <2>1, RevokedIsSound
  <2> QED
    BY <2>1, <2>2, QuietStep DEF SameIndexes
<1>14. ASSUME Clocks', UNCHANGED <<report, book>>
       PROVE  Owed
  <2>1. Sponsored(book', report') /\ Sound(book')
    BY <1>1, <1>14
  <2>2. OnceOnTerms(book, book')
    BY <1>14, NothingSettled
  <2> QED
    BY <1>14, <2>1, <2>2 DEF Owed, IInv
<1>15. ASSUME NEW a \in Approval,
              invalidateLiquidationApprovalNonce(ApprovalTerms[a].receiver,
                                                 ApprovalTerms[a].nonce + 1)
       PROVE  Owed
  <2>1. ApprovalTerms[a].receiver \in Vault /\ ApprovalTerms[a].nonce + 1 \in Nat
    <3>1. ApprovalTerms[a].nonce \in Nat
      BY CoordinatorAssumption
    <3>2. ApprovalTerms[a].receiver \in Vault
      BY CoordinatorAssumption
    <3> QED
      BY <3>1, <3>2
  <2>2. /\ minimumNonce' = [minimumNonce EXCEPT ![ApprovalTerms[a].receiver]
                                                = ApprovalTerms[a].nonce + 1]
        /\ UNCHANGED <<now, resolved, report, lastSettlement, book>>
    BY <1>15 DEF invalidateLiquidationApprovalNonce, oracle
  <2>3. minimumNonce' \in [Vault -> Nat]
    BY <1>1, <2>1, <2>2 DEF Clocks
  <2>4. Clocks'
    BY <1>1, <2>2, <2>3 DEF Clocks
  <2> QED
    BY <1>14, <2>2, <2>4
<1>16. ASSUME QuestionResolves
       PROVE  Owed
  <2>1. /\ resolved' = TRUE
        /\ UNCHANGED <<now, report, lastSettlement, minimumNonce, book>>
    BY <1>16 DEF QuestionResolves, oracle
  <2>2. Clocks'
    BY <1>1, <2>1 DEF Clocks
  <2> QED
    BY <1>14, <2>1, <2>2
<1>17. ASSUME Tick
       PROVE  Owed
  <2>1. /\ now < MaxTime /\ now' = now + 1
        /\ UNCHANGED <<resolved, report, lastSettlement, minimumNonce, book>>
    BY <1>17 DEF Tick, oracle
  <2>2. now' \in 1..MaxTime /\ 0..now \subseteq 0..now'
    BY <1>1, <2>1
  <2>3. report \in [sponsor: Vault \cup {AnyVault}, at: 0..now', settled: BOOLEAN]
    BY <1>1, <2>2
  <2>4. Clocks'
    BY <1>1, <2>1, <2>2, <2>3 DEF Clocks
  <2> QED
    BY <1>14, <2>1, <2>4
<1>18. CASE UNCHANGED vars
  <2>1. UNCHANGED <<now, resolved, report, lastSettlement, minimumNonce, book>>
    BY <1>18 DEF vars
  <2>2. Clocks'
    BY <1>1, <2>1, ClocksStay
  <2> QED
    BY <1>14, <2>1, <2>2
<1>19. CASE _rejectReportAndPendingOperations
  BY <1>10, <1>19 DEF _rejectReportAndPendingOperations
<1>20. CASE recoverSettledPendingReport
  BY <1>10, <1>20 DEF recoverSettledPendingReport
<1> QED
  BY <1>2, <1>3, <1>4, <1>5, <1>6, <1>7, <1>9, <1>11, <1>12, <1>13, <1>15, <1>16, <1>17,
     <1>18, <1>19, <1>20 DEF Next

\* The book starts sound.
LEMMA InitialBook ==
    ASSUME Init
    PROVE  IInv
<1>1. /\ now = 1 /\ resolved = FALSE /\ report = NoReport /\ lastSettlement = 0
      /\ minimumNonce = [v \in Vault |-> 0]
      /\ DOMAIN book = Fields /\ book.counter = 0 /\ book.live = {}
      /\ book.ops = [id \in OpId |-> NoOperation]
      /\ book.pending = <<>> /\ book.slot = 0 /\ book.latest = 0 /\ book.count = 0
      /\ book.older = [id \in OpId |-> 0] /\ book.newer = [id \in OpId |-> 0]
      /\ book.quota = [a \in Approval |-> NoQuota]
      /\ book.reservation = [id \in OpId |-> NoReservation]
      /\ book.vault = [v \in Vault |-> [units |-> InitialUnits, capacity |-> InitialUnits]]
      /\ book.result = [id \in OpId |-> [status |-> "none", moved |-> 0]]
  BY DEF Init, Fields
<1>2. /\ MaxOps \in Nat /\ MAX_PENDING_SETTLEMENT_OPERATIONS \in Nat /\ InitialUnits \in Nat
      /\ MaxTime \in Nat /\ MaxTime # 0 /\ NoApproval \notin Approval
  BY CoordinatorAssumption
<1>3. Clocks
  <2>1. now \in 1..MaxTime /\ 0 \in 0..now
    BY <1>1, <1>2
  <2>2. NoReport \in [sponsor: Vault \cup {AnyVault}, at: 0..now, settled: BOOLEAN]
    BY <2>1 DEF NoReport
  <2>3. minimumNonce \in [Vault -> Nat]
    BY <1>1
  <2> QED
    BY <1>1, <2>1, <2>2, <2>3 DEF Clocks
<1>4. NoReservation.approval = NoApproval /\ NoReservation \in Reservation
  BY DEF NoReservation, Reservation
<1>5. Typed(book)
  <2>1. NoQuota \in QuotaType
    BY DEF NoQuota, QuotaType
  <2>2. book.reservation \in [OpId -> Reservation]
    BY <1>1, <1>4
  <2>3. book.quota \in [Approval -> QuotaType]
    BY <1>1, <2>1
  <2>4. /\ book.vault \in [Vault -> VaultType]
        /\ book.result \in [OpId -> ResultType]
    BY <1>1, <1>2 DEF VaultType, ResultType
  <2>5. /\ book.counter \in 0..MaxOps /\ book.live \subseteq 1..book.counter
        /\ 1..book.counter = {}
    BY <1>1, <1>2
  <2>6. /\ book.pending \in Seq(OpId)
        /\ Len(book.pending) <= MAX_PENDING_SETTLEMENT_OPERATIONS
    BY <1>1, <1>2
  <2>7. /\ DOMAIN book.ops = OpId /\ DOMAIN book.older = OpId /\ DOMAIN book.newer = OpId
    BY <1>1
  <2> QED
    BY <1>1, <2>2, <2>3, <2>4, <2>5, <2>6, <2>7 DEF Typed, Reservation, VaultType, ResultType
<1>6. Linked(book)
  BY <1>1, FS_EmptySet DEF Linked, IsNewest
<1>7. Batched(book)
  BY <1>1 DEF Batched
<1>8. Reconciled(book)
  <2>1. \A id \in OpId : book.reservation[id].approval = NoApproval /\ id \notin 1..book.counter
    BY <1>1, <1>4
  <2>2. \A a \in Approval : ReservedIn(book, a) = {} /\ SpentIn(book, a) = {}
    BY <1>2, <2>1 DEF ReservedIn, SpentIn
  <2>3. \A f : SumFunctionOnSet(f, {}) = 0
    BY SumEmpty
  <2>4. \A a \in Approval : /\ book.quota[a].reserved = 0 /\ book.quota[a].consumed = 0
                            /\ book.quota[a].installed = FALSE
    BY <1>1 DEF NoQuota
  <2> QED
    BY <2>1, <2>2, <2>3, <2>4 DEF Reconciled
<1>9. Termed(book)
  BY <1>1, <1>2 DEF Termed
<1>10. Sponsored(book, report)
  BY <1>1 DEF Sponsored
<1> QED
  BY <1>3, <1>5, <1>6, <1>7, <1>8, <1>9, <1>10 DEF IInv, Sound

-----------------------------------------------------------------------------
(* The invariant in the words of the properties.                           *)

\* A largest element is the maximum.
LEMMA MaxIs ==
    ASSUME NEW S \in SUBSET Int, NEW m \in S, \A i \in S : i <= m
    PROVE  Max(S) = m
<1>1. \A k \in S : (\A i \in S : k >= i) => k = m
  BY Z3
<1> QED
  BY <1>1 DEF Max

\* A least element is the minimum.
LEMMA MinIs ==
    ASSUME NEW S \in SUBSET Int, NEW m \in S, \A i \in S : m <= i
    PROVE  Min(S) = m
<1>1. \A k \in S : (\A i \in S : k <= i) => k = m
  BY Z3
<1> QED
  BY <1>1 DEF Min

\* Distinct elements are as many as places.
LEMMA DistinctCount ==
    ASSUME NEW S, NEW s \in Seq(S), Distinct(s)
    PROVE  Cardinality(ToSet(s)) = Len(s)
<1>1. Len(s) \in Nat /\ DOMAIN s = 1..Len(s) /\ s = [i \in 1..Len(s) |-> s[i]]
  OBVIOUS
<1>2. s \in Bijection(1..Len(s), ToSet(s))
  BY <1>1 DEF Bijection, Injection, Surjection, IsInjective, ToSet, Distinct
<1> QED
  BY <1>1, <1>2, FS_CountingElements DEF ExistsBijection

\* The inductive invariant holds of every reachable state.
THEOREM CoordinatorInvariance == Spec => []IInv
<1>1. Init => IInv
  BY InitialBook
<1>2. IInv /\ [Next]_vars => IInv'
  BY NextStep DEF Owed
<1> QED
  BY <1>1, <1>2, PTL DEF Spec

\* The links are the neighbours in the order the operations were staged in.
LEMMA LinksAreExact ==
    ASSUME Sound(book), NEW id \in OpId
    PROVE  /\ book.older[id] = IF id \in book.live THEN Max(Before(id) \cup {0}) ELSE 0
           /\ book.newer[id] = IF id \in book.live /\ After(id) # {} THEN Min(After(id)) ELSE 0
<1>1. Typed(book) /\ Linked(book)
  BY DEF Sound
<1>2. book.live \subseteq Nat /\ book.live \subseteq OpId
  BY <1>1, LiveIsFinite
<1>3. /\ Before(id) = LiveBefore(book, id) /\ After(id) = LiveAfter(book, id)
      /\ Before(id) \cup {0} \in SUBSET Int /\ After(id) \in SUBSET Int
  BY <1>2 DEF Before, After, LiveBefore, LiveAfter
<1>4. CASE id \notin book.live
  BY <1>1, <1>4 DEF Linked
<1>5. CASE id \in book.live
  <2>1. IsNewest(book.older[id], Before(id)) /\ IsOldest(book.newer[id], After(id))
    BY <1>1, <1>3, <1>5 DEF Linked
  <2>2. book.older[id] = Max(Before(id) \cup {0})
    <3>1. /\ book.older[id] \in Before(id) \cup {0}
          /\ \A i \in Before(id) \cup {0} : i <= book.older[id]
      BY <1>2, <1>3, <2>1 DEF IsNewest, Before
    <3> QED
      BY <1>3, <3>1, MaxIs
  <2>3. After(id) # {} => book.newer[id] = Min(After(id))
    <3>1. After(id) # {} =>
            book.newer[id] \in After(id) /\ \A i \in After(id) : book.newer[id] <= i
      BY <2>1 DEF IsOldest
    <3> QED
      BY <1>3, <3>1, MinIs
  <2>4. After(id) = {} => book.newer[id] = 0
    BY <2>1 DEF IsOldest
  <2> QED
    BY <1>5, <2>2, <2>3, <2>4
<1> QED
  BY <1>4, <1>5

\* The linked list is exactly the operations that are staged, the batch is some of
\* them, each once and all of the sponsor of the report that it waits for: however
\* operations leave (executed, expired, rejected, recovered), and in any order.
THEOREM IndexesAreExactThm == Spec => []IndexesAreExact
<1>1. ASSUME IInv
      PROVE  IndexesAreExact
  <2>1. /\ Sound(book) /\ Typed(book) /\ Linked(book) /\ Batched(book)
        /\ Sponsored(book, report) /\ book.live \subseteq Nat
    BY <1>1, LiveIsFinite DEF IInv, Sound
  <2>2. book.latest = Max(book.live \cup {0})
    <3>1. /\ book.latest \in book.live \cup {0}
          /\ \A i \in book.live \cup {0} : i <= book.latest
      BY <2>1 DEF Linked, IsNewest
    <3>2. book.live \cup {0} \in SUBSET Int
      BY <2>1
    <3> QED
      BY <3>1, <3>2, MaxIs
  <2>3. Cardinality(ToSet(book.pending)) = Len(book.pending)
    <3>1. book.pending \in Seq(OpId) /\ Distinct(book.pending)
      BY <2>1 DEF Typed, Batched, Distinct
    <3> QED
      BY <3>1, DistinctCount
  <2>4. ToSet(book.pending) \subseteq book.live
    BY <2>1 DEF Batched, ToSet
  <2>5. book.pending # <<>> =>
          report # NoReport /\ \A id \in ToSet(book.pending) :
                                 book.ops[id].operator = report.sponsor
    BY <2>1 DEF Sponsored, ToSet
  <2>6. book.count = Cardinality(book.live)
    BY <2>1 DEF Linked
  <2>7. book.slot = IF book.pending = <<>> THEN 0 ELSE book.pending[1]
    BY <2>1 DEF Batched
  <2> QED
    BY <2>1, <2>2, <2>3, <2>4, <2>5, <2>6, <2>7, LinksAreExact DEF IndexesAreExact
<1> QED
  BY <1>1, CoordinatorInvariance, PTL

\* A quota is held exactly while the operation it is held for is staged, and what
\* is neither held nor spent is available: no way an operation can end strands any
\* of it or spends it twice, and no subtraction of the registry can underflow.
THEOREM ReservationsReconcileThm == Spec => []ReservationsReconcile
<1>1. ASSUME IInv
      PROVE  ReservationsReconcile
  <2>1. /\ Sound(book) /\ Typed(book) /\ Reconciled(book) /\ book.live \subseteq OpId
        /\ book.live \subseteq 1..book.counter
    BY <1>1, LiveIsFinite DEF IInv, Sound, Typed
  <2>2. TypeOK
    BY <1>1, <2>1 DEF IInv, Clocks, Typed, TypeOK
  <2>3. NoApproval \notin Approval
    BY CoordinatorAssumption
  <2>4. ASSUME NEW a \in Approval
        PROVE  /\ Reserved(a) = {id \in book.live : book.ops[id].approval = a}
               /\ book.quota[a].reserved =
                    SumFunctionOnSet([id \in OpId |-> book.reservation[id].amount],
                                     Reserved(a))
               /\ book.quota[a].consumed =
                    SumFunctionOnSet([id \in OpId |-> book.result[id].moved], Spent(a))
               /\ book.quota[a].installed =>
                    book.quota[a].available + book.quota[a].reserved
                      + book.quota[a].consumed = ApprovalTerms[a].maxCumulative
    <3>1. /\ book.quota[a].reserved = SumFunctionOnSet(AmountOf(book), ReservedIn(book, a))
          /\ book.quota[a].consumed = SumFunctionOnSet(MovedOf(book), SpentIn(book, a))
          /\ book.quota[a].installed =>
               book.quota[a].available + book.quota[a].reserved
                 + book.quota[a].consumed = ApprovalTerms[a].maxCumulative
      BY <2>1 DEF Reconciled
    <3>2. ReservedIn(book, a) = Reserved(a) /\ SpentIn(book, a) = Spent(a)
      BY DEF ReservedIn, SpentIn, Reserved, Spent
    <3>3. Reserved(a) = {id \in book.live : book.ops[id].approval = a}
      <4>1. ASSUME NEW id \in OpId
            PROVE  id \in Reserved(a) <=> id \in book.live /\ book.ops[id].approval = a
        <5>1. /\ book.reservation[id].approval =
                   IF id \in 1..book.counter THEN book.ops[id].approval ELSE NoApproval
              /\ book.reservation[id].approval # NoApproval =>
                   book.reservation[id].settled = (id \notin book.live)
          BY <2>1 DEF Reconciled
        <5> QED
          BY <2>1, <2>3, <5>1 DEF Reserved
      <4> QED
        BY <2>1, <4>1 DEF Reserved
    <3> QED
      BY <3>1, <3>2, <3>3 DEF AmountOf, MovedOf
  <2> QED
    BY <2>2, <2>4 DEF ReservationsReconcile
<1> QED
  BY <1>1, CoordinatorInvariance, PTL

\* An operation has one result, for ever; a success found its target as it was
\* staged, but for what others of the same batch did to it, and kept within the
\* receiver's window and cap.
THEOREM SettledOnceOnTermsThm == Spec => SettledOnceOnTerms
<1>1. ASSUME OnceOnTerms(book, book'), NEW id \in OpId, SettledNow(id)
      PROVE  /\ book.result[id].status = "none" /\ id \notin book'.live
             /\ book'.result[id].status = "ok" => OnTerms(id)
  <2>1. book'.result[id] # book.result[id]
    BY <1>1 DEF SettledNow
  <2>2. /\ book.result[id].status = "none" /\ id \notin book'.live
        /\ book'.result[id].status = "ok" => AgreedTerms(book, book', id)
    BY <1>1, <2>1 DEF OnceOnTerms
  <2>3. AgreedTerms(book, book', id) => OnTerms(id)
    BY DEF AgreedTerms, OnTerms, AsStaged, SettledNow
  <2> QED
    BY <2>2, <2>3
<1>2. IInv /\ [Next]_vars =>
        [\A id \in OpId : SettledNow(id) =>
           /\ book.result[id].status = "none"
           /\ id \notin book'.live
           /\ book'.result[id].status = "ok" => OnTerms(id)]_vars
  BY <1>1, NextStep DEF Owed
<1> QED
  BY <1>2, CoordinatorInvariance, PTL DEF Spec, SettledOnceOnTerms
=============================================================================
