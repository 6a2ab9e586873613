--------------------------- MODULE AugurScanProofs ---------------------------
(***************************************************************************)
(* The two halves of augurScan.  What the indexer's database says of the   *)
(* chain, for any replicas, contracts, manifests, depth, range size,       *)
(* reorganisations and faults; and that the stream of LiveEvents           *)
(* implements LiveFeed for any writers and pages, any page size, buffer,   *)
(* number of cohorts and number of losses.                                 *)
(*                                                                         *)
(* The indexer: a block that was ever seen is on the chain or gone, and    *)
(* stays gone until a reorganisation brings it back: so what two requests  *)
(* to the node agree about was so in between, if none fell there that did. *)
(* Only the replica that holds the lease commits, and what it has in hand  *)
(* fits the rows, because it gives up all of it when it loses the lease.   *)
(*                                                                         *)
(* The stream: no event is published between two that follow each other    *)
(* (Follows), and none ever will be, because the ids of later events are   *)
(* larger.  Chains of such events are what a query answers, what a stream  *)
(* buffers, and what a page has got.                                       *)
(***************************************************************************)
EXTENDS Indexer, LiveEvents, SumTheorems, SequenceTheorems, TLAPS

Prefix(b, n) == SubSeq(b, 1, n)

\* A block that was on the chain ch, or is: g counts the reorganisations so far,
\* and the chain has lost its upper blocks with one of them.
Seen(ch, g, b) ==
    /\ b \in Seq(Blocks) /\ Realistic(b)
    /\ \A i \in DOMAIN b : b[i].gen <= g /\ (i > Len(ch) => b[i].gen < g)

OnChain(ch, b) == Len(b) <= Len(ch) /\ Prefix(ch, Len(b)) = b
Gone(ch, b) == \E i \in DOMAIN b : i > Len(ch) \/ b[i] # ch[i]

-----------------------------------------------------------------------------
(* The rows.                                                               *)

DbFields == {"start", "manifest", "discovered", "checkpoint", "canonical", "finalized",
             "logs", "snapshots", "cursors"}

Cursors == [start : 0..MaxHead, last : 0..MaxHead]

\* A cursor of rows from block s to block n.
Within(cursor, s, n) == cursor = NoCursor \/ (cursor.start >= 1 /\ cursor.last \in s..n)

\* The canonical rows are the checkpoint and its ancestors, and no cursor is
\* outside of them.
Linked(ch, g, d) ==
    /\ DOMAIN d = DbFields
    /\ d.start \in 1..MaxPruned /\ d.manifest \subseteq Contract
    /\ d.discovered \in [Contract -> 0..MaxHead]
    /\ d.cursors \in [Contract -> Cursors]
    /\ Seen(ch, g, d.checkpoint)
    /\ d.checkpoint # <<>> => d.start <= Len(d.checkpoint)
    /\ d.canonical = {Prefix(d.checkpoint, n) : n \in d.start..Len(d.checkpoint)}
    /\ \A c \in Contract : Within(d.cursors[c], d.start, Len(d.checkpoint))

\* Finalized rows are deeper than any reorganisation, and snapshots are filed
\* under the block they were read of: tp is the greatest height of the chain, dp
\* says that a reorganisation was deeper, and rs that blocks came back between
\* the read of a snapshot and its confirmation.
Settled(ch, tp, dp, rs, d) ==
    /\ d.finalized \subseteq d.canonical
    /\ dp \/ \A b \in d.finalized : OnChain(ch, b) /\ Len(b) + confirmationDepth <= tp
    /\ rs \/ \A s \in d.snapshots : s.read = s.block

Log(b, c) == [block |-> b, contract |-> c]

\* What was discovered is of the rows, or of before their start.
DiscoveredInRows(d) ==
    \A c \in Contract : d.discovered[c] <= Len(d.checkpoint) \/ d.discovered[c] < d.start

\* A contract has no logs before the block it was discovered in.
NoLogBefore(d) ==
    \A b \in d.canonical : \A c \in Contract :
        d.discovered[c] >= d.start /\ Len(b) < d.discovered[c] => c \notin LogsOf(b)

\* Logs are of canonical rows, and what their block creates is tracked since then.
LogsBacked(d) ==
    \A l \in d.logs :
        /\ l.block \in d.canonical /\ l = Log(l.block, l.contract)
        /\ \A c \in Last(l.block).creates : c \in d.manifest \/ d.discovered[c] \in 1..Len(l.block)

\* The logs of the tracked contracts are there, and no others.
LogsFull(d) ==
    \A b \in d.canonical : \A c : Log(b, c) \in d.logs <=> c \in Tracked(d) /\ c \in LogsOf(b)

Logged(tn, d) ==
    DiscoveredInRows(d) /\ NoLogBefore(d) /\ LogsBacked(d) /\ (tn \/ LogsFull(d))

-----------------------------------------------------------------------------
(* What the replica with the lease has in hand.                            *)

ProcFields == {"pc", "head", "number", "to", "parent", "anchor", "contracts", "logs", "headers"}

Ranged == {"logs", "close", "headers", "index"}
Segment == {"range"} \cup Ranged

\* Of the segment that ends with the anchor, the logs.
Gathered(l) ==
    \A k \in l.number..l.to : \A c :
        Log(Prefix(l.anchor, k), c) \in l.logs
          <=> c \in l.contracts /\ c \in LogsOf(Prefix(l.anchor, k))

InHand(ch, g, tp, d, l) ==
    /\ DOMAIN l = ProcFields /\ l.pc # "standby"
    /\ l.pc = "reorg" => d.checkpoint # <<>> /\ l.number \in 0..Len(d.checkpoint) - 1
    /\ l.pc \in {"snapshot", "confirm"} => d.checkpoint # <<>> /\ l.anchor = d.checkpoint
    /\ l.pc \in Segment =>
         /\ l.number = NextBlock(d) /\ l.parent = d.checkpoint
         /\ l.head \in l.number..tp /\ l.contracts \subseteq Contract
    /\ l.pc \in Ranged => l.to \in l.number..l.head /\ Seen(ch, g, l.anchor)
                          /\ Len(l.anchor) = l.to
    /\ l.pc \in {"range", "logs", "close"} => DOMAIN l.headers = {}
    /\ l.pc = "headers" => DOMAIN l.headers \subseteq l.number..l.to
    /\ l.pc = "index" => l.number..l.to \subseteq DOMAIN l.headers
    /\ l.pc \in {"headers", "index"} =>
         \A n \in DOMAIN l.headers : Seen(ch, g, l.headers[n]) /\ Len(l.headers[n]) = n

\* What it has read: tn says that logs may be of two chains.
Collected(ch, rs, tn, d, l) ==
    /\ l.pc = "confirm" => rs \/ l.parent = l.anchor \/ Gone(ch, l.anchor)
    /\ l.pc \in Segment => \A x \in l.logs : x = Log(x.block, x.contract)
    /\ l.pc \in Segment \ {"index"} => l.contracts = Tracked(d)
    /\ l.pc = "close" => tn \/ Gone(ch, l.anchor) \/ Gathered(l)
    /\ l.pc = "headers" =>
         tn \/ (Gathered(l) /\ \A n \in DOMAIN l.headers : OnChain(ch, l.headers[n]))
    /\ l.pc = "index" =>
         /\ Tracked(d) \subseteq l.contracts
         /\ l.contracts \subseteq Tracked(d) \cup Last(l.headers[l.number]).creates
         /\ tn \/ /\ Gathered(l)
                  /\ \A n \in l.number..l.to : l.headers[n] = Prefix(l.anchor, n)

\* Blocks came back between a read of state and its confirmation, and logs may
\* be of two chains: a segment was torn, or blocks came back while they were read.
Restored == "confirm" \in back
Mixed == torn \/ "close" \in back

World ==
    /\ Seen(chain, reorgs, chain) /\ top \in Height..MaxHead
    /\ reorgs \in 0..MaxReorgs /\ {deep, torn} \subseteq BOOLEAN /\ firstLog \in 1..MaxPruned
    /\ faults \in 0..MaxFaults /\ alarm = FALSE
    /\ lease \in Replica \cup {NoReplica} /\ DOMAIN proc = Replica

IInv ==
    /\ World
    /\ Linked(chain, reorgs, db) /\ Settled(chain, top, deep, Restored, db) /\ Logged(Mixed, db)
    /\ \A r \in Replica : lease = r =>
         InHand(chain, reorgs, top, db, proc[r]) /\ Collected(chain, Restored, Mixed, db, proc[r])

-----------------------------------------------------------------------------
(* Prefixes of blocks.                                                     *)

LEMMA PrefixFacts ==
    ASSUME NEW b \in Seq(Blocks), NEW n \in 0..Len(b)
    PROVE  /\ Prefix(b, n) \in Seq(Blocks) /\ Len(Prefix(b, n)) = n
           /\ DOMAIN Prefix(b, n) = 1..n
           /\ \A i \in 1..n : Prefix(b, n)[i] = b[i]
<1>1. Len(b) \in Nat /\ n \in Nat /\ \A i \in 1..n : b[i] \in Blocks
  BY ElementOfSeq, LenProperties
<1>2. /\ SubSeq(b, 1, n) \in Seq(Blocks)
      /\ Len(SubSeq(b, 1, n)) = IF 1 <= n THEN n - 1 + 1 ELSE 0
      /\ \A i \in 1..n - 1 + 1 : SubSeq(b, 1, n)[i] = b[1 + i - 1]
  BY <1>1, SubSeqProperties
<1>3. Len(SubSeq(b, 1, n)) = n
  BY <1>1, <1>2
<1>4. \A i \in 1..n : SubSeq(b, 1, n)[i] = b[i]
  <2> TAKE i \in 1..n
  <2>1. i \in 1..n - 1 + 1 /\ 1 + i - 1 = i
    BY <1>1
  <2> QED
    BY <1>2, <2>1
<1> QED
  BY <1>2, <1>3, <1>4, LenProperties DEF Prefix

LEMMA SameBlock ==
    ASSUME NEW a \in Seq(Blocks), NEW b \in Seq(Blocks), Len(a) = Len(b),
           \A i \in 1..Len(a) : a[i] = b[i]
    PROVE  a = b
<1> QED
  BY SeqEqual

LEMMA PrefixWhole ==
    ASSUME NEW b \in Seq(Blocks)
    PROVE  Prefix(b, Len(b)) = b
<1> QED
  BY SubSeqFull DEF Prefix

LEMMA PrefixAgree ==
    ASSUME NEW a \in Seq(Blocks), NEW b \in Seq(Blocks), NEW n \in 0..Len(a), n <= Len(b),
           \A i \in 1..n : a[i] = b[i]
    PROVE  Prefix(a, n) = Prefix(b, n)
<1>1. n \in 0..Len(b)
  BY LenProperties
<1>2. /\ Prefix(a, n) \in Seq(Blocks) /\ Len(Prefix(a, n)) = n
      /\ \A i \in 1..n : Prefix(a, n)[i] = a[i]
  BY PrefixFacts
<1>3. /\ Prefix(b, n) \in Seq(Blocks) /\ Len(Prefix(b, n)) = n
      /\ \A i \in 1..n : Prefix(b, n)[i] = b[i]
  BY <1>1, PrefixFacts
<1> QED
  BY <1>2, <1>3, SameBlock

LEMMA PrefixPrefix ==
    ASSUME NEW b \in Seq(Blocks), NEW n \in 0..Len(b), NEW m \in 0..n
    PROVE  Prefix(Prefix(b, n), m) = Prefix(b, m)
<1>1. Len(b) \in Nat /\ m <= Len(b) /\ m \in 0..Len(b)
  BY LenProperties
<1>2. /\ Prefix(b, n) \in Seq(Blocks) /\ Len(Prefix(b, n)) = n
      /\ \A i \in 1..n : Prefix(b, n)[i] = b[i]
  BY PrefixFacts
<1>3. \A i \in 1..m : Prefix(b, n)[i] = b[i]
  BY <1>1, <1>2
<1> QED
  BY <1>1, <1>2, <1>3, PrefixAgree

LEMMA EmptyBlock ==
    ASSUME NEW b \in Seq(Blocks)
    PROVE  /\ Len(b) \in Nat /\ (b = <<>> <=> Len(b) = 0)
           /\ b # <<>> => Len(b) >= 1
           /\ Prefix(b, 0) = <<>>
<1>1. Len(b) \in Nat /\ (b = <<>> <=> Len(b) = 0)
  BY LenProperties, EmptySeq
<1>2. Prefix(b, 0) = <<>>
  BY SubSeqEmpty DEF Prefix
<1> QED
  BY <1>1, <1>2

LEMMA FrontIsPrefix ==
    ASSUME NEW b \in Seq(Blocks)
    PROVE  Front(b) = Prefix(b, Len(b) - 1)
<1> QED
  BY DEF Front, Prefix

-----------------------------------------------------------------------------
(* Blocks that were on the chain.                                          *)

\* A prefix of a block holds what existed at it.
LEMMA ExistingPrefix ==
    ASSUME NEW b \in Seq(Blocks), NEW n \in 0..Len(b), NEW m \in 0..n
    PROVE  Existing(Prefix(b, m)) \subseteq Existing(Prefix(b, n))
<1>1. m \in 0..Len(b) /\ n \in Nat /\ m \in Nat
  BY LenProperties
<1>2. ASSUME NEW i \in 1..m PROVE i \in 1..n /\ Prefix(b, m)[i] = Prefix(b, n)[i]
  <2>1. i \in 1..n
    BY <1>1
  <2>2. Prefix(b, m)[i] = b[i]
    BY <1>1, PrefixFacts
  <2>3. Prefix(b, n)[i] = b[i]
    BY <2>1, PrefixFacts
  <2> QED
    BY <2>1, <2>2, <2>3
<1>3. DOMAIN Prefix(b, m) = 1..m /\ DOMAIN Prefix(b, n) = 1..n
  BY <1>1, PrefixFacts
<1> QED
  BY <1>2, <1>3 DEF Existing

LEMMA SeenFacts ==
    ASSUME NEW ch, NEW g, NEW b, Seen(ch, g, b)
    PROVE  /\ b \in Seq(Blocks) /\ Len(b) \in Nat
           /\ DOMAIN b = 1..Len(b)
           /\ \A i \in 1..Len(b) : b[i] \in Blocks
<1>1. b \in Seq(Blocks)
  BY DEF Seen
<1> QED
  BY <1>1, LenProperties, ElementOfSeq

LEMMA SeenPrefix ==
    ASSUME NEW ch \in Seq(Blocks), NEW g, NEW b, Seen(ch, g, b), NEW n \in 0..Len(b)
    PROVE  Seen(ch, g, Prefix(b, n)) /\ Len(Prefix(b, n)) = n
<1> DEFINE p == Prefix(b, n)
<1>1. /\ b \in Seq(Blocks) /\ Len(b) \in Nat
      /\ DOMAIN b = 1..Len(b) /\ n \in Nat
  BY SeenFacts, LenProperties
<1>2. /\ p \in Seq(Blocks) /\ Len(p) = n /\ DOMAIN p = 1..n /\ \A i \in 1..n : p[i] = b[i]
  BY <1>1, PrefixFacts
<1>3. \A i \in 1..n : i \in 1..Len(b)
  BY <1>1
<1>4. Realistic(p)
  <2>1. SUFFICES ASSUME NEW i \in 1..n
                 PROVE  /\ p[i].logs \subseteq Existing(SubSeq(p, 1, i))
                        /\ p[i].creates \cap Existing(SubSeq(p, 1, i - 1)) = {}
    BY <1>2 DEF Realistic
  <2>2. SubSeq(p, 1, i) = SubSeq(b, 1, i) /\ SubSeq(p, 1, i - 1) = SubSeq(b, 1, i - 1)
    <3>1. i \in 0..n /\ i - 1 \in 0..n
      BY <1>1
    <3> QED
      BY <1>1, <3>1, PrefixPrefix DEF Prefix
  <2>3. /\ b[i].logs \subseteq Existing(SubSeq(b, 1, i))
        /\ b[i].creates \cap Existing(SubSeq(b, 1, i - 1)) = {}
    BY <1>1, <1>3 DEF Seen, Realistic
  <2> QED
    BY <1>2, <2>2, <2>3
<1>5. \A i \in DOMAIN p : p[i].gen <= g /\ (i > Len(ch) => p[i].gen < g)
  BY <1>1, <1>2, <1>3 DEF Seen
<1> QED
  BY <1>2, <1>4, <1>5 DEF Seen

\* The blocks before the one that creates a contract have no logs of it.
LEMMA NoEarlierLogs ==
    ASSUME NEW ch, NEW g, NEW b, Seen(ch, g, b), NEW n \in 1..Len(b), NEW k \in 1..n - 1,
           NEW c \in b[n].creates
    PROVE  c \notin LogsOf(Prefix(b, k))
<1>1. /\ b \in Seq(Blocks) /\ Len(b) \in Nat /\ DOMAIN b = 1..Len(b) /\ n \in Nat /\ k \in Nat
      /\ k \in 1..Len(b) /\ k \in 0..Len(b) /\ n - 1 \in 0..Len(b) /\ k \in 0..n - 1 /\ k \in 1..k
  BY SeenFacts
<1>2. c \notin Existing(Prefix(b, n - 1))
  BY <1>1 DEF Seen, Realistic, Prefix
<1>3. b[k].logs \subseteq Existing(Prefix(b, k))
  BY <1>1 DEF Seen, Realistic, Prefix
<1>4. Existing(Prefix(b, k)) \subseteq Existing(Prefix(b, n - 1))
  BY <1>1, ExistingPrefix
<1>5. Prefix(b, k)[Len(Prefix(b, k))] = b[k]
  BY <1>1, PrefixFacts
<1> QED
  BY <1>2, <1>3, <1>4, <1>5 DEF LogsOf, Last

LEMMA ChainOrGone ==
    ASSUME NEW ch \in Seq(Blocks), NEW g, NEW b, Seen(ch, g, b)
    PROVE  OnChain(ch, b) <=> ~ Gone(ch, b)
<1>1. /\ b \in Seq(Blocks) /\ Len(b) \in Nat /\ Len(ch) \in Nat /\ DOMAIN b = 1..Len(b)
  BY SeenFacts, LenProperties
<1>2. ASSUME Len(b) <= Len(ch)
      PROVE  /\ Prefix(ch, Len(b)) \in Seq(Blocks) /\ Len(Prefix(ch, Len(b))) = Len(b)
             /\ \A i \in 1..Len(b) : Prefix(ch, Len(b))[i] = ch[i]
  <2>1. Len(b) \in 0..Len(ch)
    BY <1>1, <1>2
  <2> QED
    BY <2>1, PrefixFacts
<1>3. ASSUME OnChain(ch, b) PROVE ~ Gone(ch, b)
  <2>1. Len(b) <= Len(ch) /\ \A i \in 1..Len(b) : b[i] = ch[i]
    BY <1>2, <1>3 DEF OnChain
  <2>2. \A i \in 1..Len(b) : ~ (i > Len(ch))
    BY <1>1, <2>1
  <2> QED
    BY <1>1, <2>1, <2>2 DEF Gone
<1>4. ASSUME ~ Gone(ch, b) PROVE OnChain(ch, b)
  <2>1. \A i \in 1..Len(b) : ~ (i > Len(ch)) /\ b[i] = ch[i]
    BY <1>1, <1>4 DEF Gone
  <2>2. Len(b) <= Len(ch)
    BY <1>1, <2>1
  <2>3. \A i \in 1..Len(b) : Prefix(ch, Len(b))[i] = b[i]
    BY <1>2, <2>1, <2>2
  <2> QED
    BY <1>1, <1>2, <2>2, <2>3, SameBlock DEF OnChain
<1> QED
  BY <1>3, <1>4

LEMMA OnChainPrefix ==
    ASSUME NEW ch \in Seq(Blocks), NEW g, NEW b, Seen(ch, g, b), OnChain(ch, b),
           NEW n \in 0..Len(b)
    PROVE  Prefix(ch, n) = Prefix(b, n) /\ n \in 0..Len(ch)
<1>1. Len(b) \in 0..Len(ch) /\ n \in 0..Len(ch)
  BY SeenFacts, LenProperties DEF OnChain
<1> QED
  BY <1>1, PrefixPrefix DEF OnChain

\* What the node answers for the number of a block says whether it is on the chain.
LEMMA HashOfChain ==
    ASSUME chain \in Seq(Blocks), NEW b \in Seq(Blocks), b # <<>>
    PROVE  HashAt(Len(b)) = b <=> OnChain(chain, b)
<1> QED
  BY DEF HashAt, OnChain, Prefix, Height

LEMMA HashBelowHead ==
    ASSUME chain \in Seq(Blocks), NEW n \in 0..Len(chain)
    PROVE  /\ HashAt(n) = Prefix(chain, n)
           /\ HashAt(n) \in Seq(Blocks) /\ Len(HashAt(n)) = n
<1>1. n <= Height
  BY LenProperties DEF Height
<1>2. HashAt(n) = Prefix(chain, n)
  BY <1>1 DEF HashAt, Prefix
<1> QED
  BY <1>2, PrefixFacts

-----------------------------------------------------------------------------
(* The chain moves.                                                        *)

Moves(ch, g, ch2, g2) ==
    /\ ch2 \in Seq(Blocks) /\ g2 \in Nat
    /\ g2 > g \/ (g2 = g /\ Len(ch) <= Len(ch2))

\* Whatever is added or replaced is so by something new.
Renews(ch, g, ch2) ==
    \A i \in 1..Len(ch2) :
        \/ i <= Len(ch) /\ ch2[i] = ch[i]
        \/ ch2[i].gen > g
        \/ i > Len(ch) /\ ch2[i].gen >= g

LEMMA SeenMoves ==
    ASSUME NEW ch \in Seq(Blocks), NEW g \in Nat, NEW ch2, NEW g2, Moves(ch, g, ch2, g2),
           NEW b, Seen(ch, g, b)
    PROVE  Seen(ch2, g2, b)
<1>1. /\ b \in Seq(Blocks) /\ Len(b) \in Nat /\ Len(ch) \in Nat /\ Len(ch2) \in Nat /\ g2 \in Nat
      /\ DOMAIN b = 1..Len(b) /\ \A i \in 1..Len(b) : b[i] \in Blocks
  BY SeenFacts, LenProperties DEF Moves
<1>2. \A i \in DOMAIN b : b[i].gen <= g2 /\ (i > Len(ch2) => b[i].gen < g2)
  <2> TAKE i \in DOMAIN b
  <2>1. b[i].gen <= g /\ (i > Len(ch) => b[i].gen < g)
    BY DEF Seen
  <2>2. b[i].gen \in 0..MaxReorgs /\ i \in Nat
    BY <1>1 DEF Blocks
  <2>3. CASE g2 > g
    BY <1>1, <2>1, <2>2, <2>3
  <2>4. CASE g2 = g /\ Len(ch) <= Len(ch2)
    BY <1>1, <2>1, <2>2, <2>4
  <2> QED
    BY <2>3, <2>4 DEF Moves
<1> QED
  BY <1>1, <1>2 DEF Seen

LEMMA GoneMoves ==
    ASSUME NEW ch \in Seq(Blocks), NEW g \in Nat, NEW ch2, NEW g2, Moves(ch, g, ch2, g2),
           Renews(ch, g, ch2), NEW b, Seen(ch, g, b), Gone(ch, b)
    PROVE  Gone(ch2, b)
<1>1. /\ b \in Seq(Blocks) /\ Len(b) \in Nat /\ Len(ch) \in Nat /\ Len(ch2) \in Nat
      /\ DOMAIN b = 1..Len(b) /\ \A i \in 1..Len(b) : b[i] \in Blocks
      /\ ch2 \in Seq(Blocks)
  BY SeenFacts, LenProperties DEF Moves
<1>2. PICK i \in DOMAIN b : i > Len(ch) \/ b[i] # ch[i]
  BY DEF Gone
<1>3. /\ i \in Nat /\ i >= 1 /\ b[i].gen <= g /\ (i > Len(ch) => b[i].gen < g)
      /\ b[i].gen \in Nat
  BY <1>1, IndexerAssumption DEF Seen, Blocks
<1>4. CASE i > Len(ch2)
  BY <1>4 DEF Gone
<1>5. CASE ~ (i > Len(ch2))
  <2>1. i \in 1..Len(ch2)
    BY <1>1, <1>3, <1>5
  <2>2. ch2[i].gen \in Nat
    <3>1. ch2[i] \in Blocks
      BY <1>1, <2>1, ElementOfSeq
    <3> QED
      BY <3>1, IndexerAssumption DEF Blocks
  <2>3. CASE i <= Len(ch) /\ ch2[i] = ch[i]
    BY <1>1, <1>2, <1>3, <2>3 DEF Gone
  <2>4. CASE ch2[i].gen > g \/ (i > Len(ch) /\ ch2[i].gen >= g)
    <3>1. b[i].gen # ch2[i].gen
      BY <1>3, <2>2, <2>4
    <3> QED
      BY <3>1 DEF Gone
  <2> QED
    BY <2>1, <2>3, <2>4 DEF Renews
<1> QED
  BY <1>4, <1>5

LEMMA LinkedMoves ==
    ASSUME NEW ch \in Seq(Blocks), NEW g \in Nat, NEW ch2, NEW g2, Moves(ch, g, ch2, g2),
           NEW d, Linked(ch, g, d)
    PROVE  Linked(ch2, g2, d)
<1>1. Seen(ch2, g2, d.checkpoint)
  BY SeenMoves DEF Linked
<1> QED
  BY <1>1 DEF Linked

LEMMA InHandMoves ==
    ASSUME NEW ch \in Seq(Blocks), NEW g \in Nat, NEW ch2, NEW g2, Moves(ch, g, ch2, g2),
           NEW tp \in Nat, NEW tp2 \in Nat, tp <= tp2,
           NEW d, Linked(ch, g, d), NEW l, InHand(ch, g, tp, d, l)
    PROVE  InHand(ch2, g2, tp2, d, l)
<1>1. l.pc \in Segment => l.head \in l.number..tp2
  <2>1. SUFFICES ASSUME l.pc \in Segment PROVE l.head \in l.number..tp2
    OBVIOUS
  <2>2. l.head \in l.number..tp
    BY <2>1 DEF InHand
  <2> QED
    BY <2>2
<1>2. l.pc \in Ranged => Seen(ch2, g2, l.anchor)
  BY SeenMoves DEF InHand
<1>3. l.pc \in {"headers", "index"} => \A n \in DOMAIN l.headers : Seen(ch2, g2, l.headers[n])
  BY SeenMoves DEF InHand
<1> QED
  BY <1>1, <1>2, <1>3 DEF InHand

\* The headers in hand are of the chain as long as the segment is not torn.
Untorn(ch, ch2, l, tn2) ==
    \/ tn2 \/ l.pc # "headers" \/ DOMAIN l.headers = {}
    \/ Len(ch) <= Len(ch2) /\ \A n \in 0..Len(ch) : Prefix(ch2, n) = Prefix(ch, n)

\* What is gone stays so unless blocks come back, and that is remembered.
Remembered(ch, g, ch2, l, rs2, tn2) ==
    Renews(ch, g, ch2) \/ ((l.pc = "confirm" => rs2) /\ (l.pc = "close" => tn2))

LEMMA CollectedMoves ==
    ASSUME NEW ch \in Seq(Blocks), NEW g \in Nat, NEW ch2, NEW g2, Moves(ch, g, ch2, g2),
           NEW d, Linked(ch, g, d), NEW tp, NEW l, InHand(ch, g, tp, d, l),
           NEW rs \in BOOLEAN, NEW rs2 \in BOOLEAN, rs => rs2,
           NEW tn \in BOOLEAN, NEW tn2 \in BOOLEAN, tn => tn2,
           Collected(ch, rs, tn, d, l), Untorn(ch, ch2, l, tn2),
           Remembered(ch, g, ch2, l, rs2, tn2)
    PROVE  Collected(ch2, rs2, tn2, d, l)
<1>1. l.pc = "confirm" => rs2 \/ l.parent = l.anchor \/ Gone(ch2, l.anchor)
  <2>1. SUFFICES ASSUME l.pc = "confirm", rs2 = FALSE
                 PROVE  l.parent = l.anchor \/ Gone(ch2, l.anchor)
    OBVIOUS
  <2>2. Seen(ch, g, l.anchor)
    BY <2>1 DEF InHand, Linked
  <2>3. l.parent = l.anchor \/ Gone(ch, l.anchor)
    BY <2>1 DEF Collected
  <2> QED
    BY <2>1, <2>2, <2>3, GoneMoves DEF Remembered
<1>2. l.pc = "close" => tn2 \/ Gone(ch2, l.anchor) \/ Gathered(l)
  <2>1. SUFFICES ASSUME l.pc = "close", tn2 = FALSE PROVE Gone(ch2, l.anchor) \/ Gathered(l)
    OBVIOUS
  <2>2. Seen(ch, g, l.anchor)
    BY <2>1 DEF InHand, Ranged
  <2>3. Gone(ch, l.anchor) \/ Gathered(l)
    BY <2>1 DEF Collected
  <2> QED
    BY <2>1, <2>2, <2>3, GoneMoves DEF Remembered
<1>3. l.pc = "headers" =>
        tn2 \/ (Gathered(l) /\ \A n \in DOMAIN l.headers : OnChain(ch2, l.headers[n]))
  <2>1. SUFFICES ASSUME l.pc = "headers", tn2 = FALSE
                 PROVE  Gathered(l) /\ \A n \in DOMAIN l.headers : OnChain(ch2, l.headers[n])
    OBVIOUS
  <2>2. Gathered(l)
    BY <2>1 DEF Collected
  <2>3. ASSUME NEW n \in DOMAIN l.headers PROVE OnChain(ch2, l.headers[n])
    <3>1. OnChain(ch, l.headers[n]) /\ Seen(ch, g, l.headers[n])
      BY <2>1 DEF Collected, InHand
    <3>2. /\ Len(l.headers[n]) \in 0..Len(ch) /\ Len(ch) \in Nat
          /\ ch2 \in Seq(Blocks) /\ Len(ch2) \in Nat
      BY <3>1, SeenFacts, LenProperties DEF OnChain, Moves
    <3> QED
      BY <2>1, <3>1, <3>2 DEF Untorn, OnChain
  <2> QED
    BY <2>2, <2>3
<1> QED
  BY <1>1, <1>2, <1>3 DEF Collected

-----------------------------------------------------------------------------
(* The rows.                                                               *)

LEMMA LinkedFacts ==
    ASSUME NEW ch \in Seq(Blocks), NEW g, NEW d, Linked(ch, g, d)
    PROVE  /\ d.checkpoint \in Seq(Blocks) /\ Len(d.checkpoint) \in Nat
           /\ Len(ch) \in Nat
           /\ d.start \in Nat /\ d.start >= 1 /\ d.start <= MaxPruned
           /\ d.checkpoint = <<>> <=> Len(d.checkpoint) = 0
           /\ d.checkpoint # <<>> => d.start <= Len(d.checkpoint)
<1>1. d.checkpoint \in Seq(Blocks) /\ Len(d.checkpoint) \in Nat
  BY SeenFacts DEF Linked
<1>2. d.start \in 1..MaxPruned /\ MaxPruned \in Nat
  BY IndexerAssumption DEF Linked
<1> QED
  BY <1>1, <1>2, EmptyBlock, LenProperties DEF Linked

LEMMA CanonicalFacts ==
    ASSUME NEW ch \in Seq(Blocks), NEW g, NEW d, Linked(ch, g, d)
    PROVE  /\ \A b \in d.canonical : /\ b \in Seq(Blocks) /\ Seen(ch, g, b)
                                     /\ Len(b) \in d.start..Len(d.checkpoint)
                                     /\ b = Prefix(d.checkpoint, Len(b))
           /\ \A n \in d.start..Len(d.checkpoint) : Prefix(d.checkpoint, n) \in d.canonical
<1>1. Len(d.checkpoint) \in Nat /\ d.start \in Nat /\ Seen(ch, g, d.checkpoint)
      /\ d.canonical = {Prefix(d.checkpoint, n) : n \in d.start..Len(d.checkpoint)}
  BY LinkedFacts DEF Linked
<1>2. ASSUME NEW b \in d.canonical
      PROVE  /\ b \in Seq(Blocks) /\ Seen(ch, g, b) /\ Len(b) \in d.start..Len(d.checkpoint)
             /\ b = Prefix(d.checkpoint, Len(b))
  <2>1. PICK n \in d.start..Len(d.checkpoint) : b = Prefix(d.checkpoint, n)
    BY <1>1
  <2>2. n \in 0..Len(d.checkpoint)
    BY <1>1
  <2>3. Seen(ch, g, b) /\ Len(b) = n
    BY <1>1, <2>1, <2>2, SeenPrefix
  <2> QED
    BY <2>1, <2>3, SeenFacts
<1> QED
  BY <1>1, <1>2

LEMMA MinTwo ==
    ASSUME NEW a \in Nat, NEW b \in Nat
    PROVE  Min({a, b}) \in {a, b} /\ Min({a, b}) <= a /\ Min({a, b}) <= b
<1>1. \E x \in {a, b} : \A y \in {a, b} : x <= y
  OBVIOUS
<1> QED
  BY <1>1 DEF Min

LEMMA MaxTwo ==
    ASSUME NEW a \in Nat, NEW b \in Nat
    PROVE  Max({a, b}) \in {a, b} /\ Max({a, b}) >= a /\ Max({a, b}) >= b
<1>1. \E x \in {a, b} : \A y \in {a, b} : x >= y
  OBVIOUS
<1> QED
  BY <1>1 DEF Max

LEMMA NoCursorTyped == NoCursor \in Cursors
<1> QED
  BY IndexerAssumption DEF Cursors, NoCursor

LEMMA RecalledCursor ==
    ASSUME NEW k \in Cursors, NEW s \in Nat, NEW m \in Nat, NEW n \in Nat, Within(k, s, m),
           n = 0 \/ n \in s..m
    PROVE  Recalled(k, n) \in Cursors /\ Within(Recalled(k, n), s, n)
<1>1. k.start \in 0..MaxHead /\ k.last \in 0..MaxHead /\ MaxHead \in Nat
  BY IndexerAssumption DEF Cursors
<1> DEFINE least == Min({k.last, n})
<1>2. least \in {k.last, n} /\ least <= k.last /\ least <= n
  BY <1>1, MinTwo
<1>3. CASE k.start > n
  BY <1>3, NoCursorTyped DEF Recalled, Within
<1>4. CASE ~ (k.start > n)
  <2> DEFINE r == [k EXCEPT !.last = least]
  <2>1. Recalled(k, n) = r
    BY <1>4 DEF Recalled
  <2>2. least \in 0..MaxHead
    BY <1>1, <1>2
  <2>3. r \in Cursors /\ r.start = k.start /\ r.last = least
    BY <2>2 DEF Cursors
  <2>4. CASE k = NoCursor
    <3>1. k.start = 0 /\ k.last = 0
      BY <2>4 DEF NoCursor
    <3>2. least = 0
      BY <1>2, <3>1
    <3>3. r = NoCursor
      BY <2>4, <3>2 DEF NoCursor
    <3> QED
      BY <2>1, <2>3, <3>3 DEF Within
  <2>5. CASE k # NoCursor
    <3>1. k.start >= 1 /\ k.last \in s..m
      BY <2>5 DEF Within
    <3>2. n \in s..m
      BY <1>1, <1>4, <3>1
    <3>3. least \in s..n
      BY <1>2, <3>1, <3>2
    <3> QED
      BY <2>1, <2>3, <3>1, <3>3 DEF Within
  <2> QED
    BY <2>4, <2>5
<1> QED
  BY <1>3, <1>4

\* The fields of rewound rows e.
Rewound(d, n, e) ==
    /\ DOMAIN e = DbFields /\ e.start = d.start /\ e.manifest = d.manifest
    /\ e.checkpoint = Prefix(d.checkpoint, n)
    /\ e.canonical = UpTo(d.canonical, n) /\ e.finalized = UpTo(d.finalized, n)
    /\ e.logs = {l \in d.logs : Len(l.block) <= n}
    /\ e.snapshots = {s \in d.snapshots : Len(s.block) <= n}
    /\ e.discovered = Undiscovered(d, d.start, n)
    /\ e.cursors = [c \in Contract |-> Recalled(d.cursors[c], n)]

LEMMA RewindFields ==
    ASSUME NEW d, DOMAIN d = DbFields, NEW n
    PROVE  Rewound(d, n, rewind(d, n))
<1> QED
  BY DEF Rewound, rewind, DbFields, Prefix

LEMMA LinkedRewind ==
    ASSUME NEW ch \in Seq(Blocks), NEW g, NEW d, Linked(ch, g, d), NEW n \in Nat,
           n = 0 \/ n \in d.start..Len(d.checkpoint)
    PROVE  Linked(ch, g, rewind(d, n))
<1> DEFINE e == rewind(d, n)
<1>1. /\ d.checkpoint \in Seq(Blocks) /\ Len(d.checkpoint) \in Nat
      /\ d.start \in Nat /\ d.start >= 1 /\ n \in 0..Len(d.checkpoint)
  BY LinkedFacts
<1>2. /\ DOMAIN e = DbFields /\ e.start = d.start /\ e.manifest = d.manifest
      /\ e.checkpoint = Prefix(d.checkpoint, n) /\ e.canonical = UpTo(d.canonical, n)
      /\ e.discovered = Undiscovered(d, d.start, n)
      /\ e.cursors = [c \in Contract |-> Recalled(d.cursors[c], n)]
  <2>1. Rewound(d, n, e)
    BY RewindFields DEF Linked
  <2> QED
    BY <2>1 DEF Rewound
<1> HIDE DEF e
<1>3. Seen(ch, g, e.checkpoint) /\ Len(e.checkpoint) = n
  BY <1>1, <1>2, SeenPrefix DEF Linked
<1>4. e.checkpoint # <<>> => e.start <= Len(e.checkpoint)
  <2>1. e.checkpoint # <<>> => n # 0
    BY <1>1, <1>2, EmptyBlock
  <2> QED
    BY <1>1, <1>2, <1>3, <2>1
<1>5. e.discovered \in [Contract -> 0..MaxHead]
  <2>1. d.discovered \in [Contract -> 0..MaxHead] /\ MaxHead \in Nat
    BY IndexerAssumption DEF Linked
  <2> QED
    BY <1>2, <2>1 DEF Undiscovered
<1>6. ASSUME NEW c \in Contract
      PROVE  Recalled(d.cursors[c], n) \in Cursors /\ Within(Recalled(d.cursors[c], n), d.start, n)
  <2>1. d.cursors[c] \in Cursors /\ Within(d.cursors[c], d.start, Len(d.checkpoint))
    BY DEF Linked
  <2> QED
    BY <1>1, <2>1, RecalledCursor
<1>7. e.canonical = {Prefix(e.checkpoint, k) : k \in e.start..Len(e.checkpoint)}
  <2>1. ASSUME NEW b \in e.canonical PROVE b \in {Prefix(e.checkpoint, k) : k \in d.start..n}
    <3>1. b \in d.canonical /\ Len(b) <= n
      BY <1>2 DEF UpTo
    <3>2. Len(b) \in d.start..Len(d.checkpoint) /\ b = Prefix(d.checkpoint, Len(b))
      BY <3>1, CanonicalFacts
    <3>3. Len(b) \in d.start..n /\ Len(b) \in 0..n
      BY <1>1, <3>1, <3>2
    <3>4. Prefix(Prefix(d.checkpoint, n), Len(b)) = Prefix(d.checkpoint, Len(b))
      BY <1>1, <3>3, PrefixPrefix
    <3> QED
      BY <1>2, <3>2, <3>3, <3>4
  <2>2. ASSUME NEW k \in d.start..n PROVE Prefix(e.checkpoint, k) \in e.canonical
    <3>1. k \in 0..n /\ k \in d.start..Len(d.checkpoint) /\ k \in 0..Len(d.checkpoint) /\ k <= n
      BY <1>1
    <3>2. Prefix(e.checkpoint, k) = Prefix(d.checkpoint, k)
      BY <1>1, <1>2, <3>1, PrefixPrefix
    <3>3. Prefix(d.checkpoint, k) \in d.canonical /\ Len(Prefix(d.checkpoint, k)) = k
      BY <1>1, <3>1, CanonicalFacts, PrefixFacts
    <3> QED
      BY <1>2, <3>1, <3>2, <3>3 DEF UpTo
  <2> QED
    BY <1>2, <1>3, <2>1, <2>2
<1>8. /\ e.cursors \in [Contract -> Cursors]
      /\ \A c \in Contract : Within(e.cursors[c], e.start, Len(e.checkpoint))
  BY <1>2, <1>3, <1>6
<1>9. e.start \in 1..MaxPruned /\ e.manifest \subseteq Contract
  BY <1>2 DEF Linked
<1> QED
  BY <1>2, <1>3, <1>4, <1>5, <1>7, <1>8, <1>9 DEF Linked, e

LEMMA SettledRewind ==
    ASSUME NEW ch \in Seq(Blocks), NEW g, NEW tp, NEW dp, NEW rs, NEW d, Linked(ch, g, d),
           Settled(ch, tp, dp, rs, d),
           NEW n \in Nat
    PROVE  Settled(ch, tp, dp, rs, rewind(d, n))
<1> DEFINE e == rewind(d, n)
<1>1. /\ e.canonical = UpTo(d.canonical, n) /\ e.finalized = UpTo(d.finalized, n)
      /\ e.snapshots = {s \in d.snapshots : Len(s.block) <= n}
  <2>1. Rewound(d, n, e)
    BY RewindFields DEF Linked
  <2> QED
    BY <2>1 DEF Rewound
<1> HIDE DEF e
<1>2. e.finalized \subseteq e.canonical /\ e.finalized \subseteq d.finalized
      /\ e.snapshots \subseteq d.snapshots
  BY <1>1 DEF UpTo, Settled
<1> QED
  BY <1>2 DEF Settled, e

LEMMA LoggedRewind ==
    ASSUME NEW ch \in Seq(Blocks), NEW g, NEW tn \in BOOLEAN, NEW d, Linked(ch, g, d),
           Logged(tn, d), NEW n \in Nat, n = 0 \/ n \in d.start..Len(d.checkpoint)
    PROVE  Logged(tn, rewind(d, n))
<1> DEFINE e == rewind(d, n)
<1>1. /\ d.checkpoint \in Seq(Blocks) /\ Len(d.checkpoint) \in Nat
      /\ d.start \in Nat /\ d.start >= 1 /\ n \in 0..Len(d.checkpoint)
  BY LinkedFacts
<1>2. /\ e.start = d.start /\ e.manifest = d.manifest
      /\ e.checkpoint = Prefix(d.checkpoint, n) /\ e.canonical = UpTo(d.canonical, n)
      /\ e.discovered = Undiscovered(d, d.start, n)
      /\ e.logs = {l \in d.logs : Len(l.block) <= n}
  <2>1. Rewound(d, n, e)
    BY RewindFields DEF Linked
  <2> QED
    BY <2>1 DEF Rewound
<1> HIDE DEF e
<1>3. Len(e.checkpoint) = n
  BY <1>1, <1>2, PrefixFacts
<1>4. ASSUME NEW c \in Contract
      PROVE  /\ d.discovered[c] \in Nat
             /\ \/ e.discovered[c] = 0 /\ d.discovered[c] >= d.start /\ d.discovered[c] > n
                \/ /\ e.discovered[c] = d.discovered[c]
                   /\ ~ (d.discovered[c] >= d.start /\ d.discovered[c] > n)
  <2>1. d.discovered[c] \in Nat
    BY IndexerAssumption DEF Linked
  <2> QED
    BY <1>2, <2>1 DEF Undiscovered
<1>5. DiscoveredInRows(e)
  BY <1>1, <1>2, <1>3, <1>4 DEF DiscoveredInRows
<1>6. ASSUME NEW b \in e.canonical
      PROVE  b \in d.canonical /\ Len(b) \in Nat /\ Len(b) <= n
  <2>1. b \in d.canonical /\ Len(b) <= n
    BY <1>2 DEF UpTo
  <2> QED
    BY <2>1, CanonicalFacts, LenProperties
<1>7. NoLogBefore(e)
  <2>1. SUFFICES ASSUME NEW b \in e.canonical, NEW c \in Contract, e.discovered[c] >= e.start,
                        Len(b) < e.discovered[c]
                 PROVE  c \notin LogsOf(b)
    BY DEF NoLogBefore
  <2>2. e.discovered[c] = d.discovered[c]
    BY <1>1, <1>2, <1>4, <2>1
  <2> QED
    BY <1>2, <1>6, <2>1, <2>2 DEF Logged, NoLogBefore
<1>8. LogsBacked(e)
  <2>1. SUFFICES ASSUME NEW l \in e.logs
                 PROVE  /\ l.block \in e.canonical /\ l = Log(l.block, l.contract)
                        /\ \A c \in Last(l.block).creates :
                             c \in e.manifest \/ e.discovered[c] \in 1..Len(l.block)
    BY DEF LogsBacked
  <2>2. /\ l \in d.logs /\ Len(l.block) <= n /\ l.block \in d.canonical
        /\ l = Log(l.block, l.contract)
        /\ \A c \in Last(l.block).creates : c \in d.manifest \/ d.discovered[c] \in 1..Len(l.block)
    BY <1>2, <2>1 DEF Logged, LogsBacked
  <2>3. l.block \in e.canonical
    BY <1>2, <2>2 DEF UpTo
  <2>4. ASSUME NEW c \in Last(l.block).creates
        PROVE  c \in e.manifest \/ e.discovered[c] \in 1..Len(l.block)
    <3>1. c \in Contract
      <4>1. Seen(ch, g, l.block) /\ Len(l.block) \in d.start..Len(d.checkpoint)
        BY <2>2, CanonicalFacts
      <4>2. l.block[Len(l.block)] \in Blocks
        BY <1>1, <4>1, SeenFacts
      <4> QED
        BY <4>2 DEF Blocks, Last
    <3>2. CASE d.discovered[c] \in 1..Len(l.block)
      <4>1. d.discovered[c] <= n
        BY <1>6, <2>2, <2>3, <3>2
      <4>2. e.discovered[c] = d.discovered[c]
        BY <1>4, <3>1, <4>1
      <4> QED
        BY <3>2, <4>2
    <3> QED
      BY <1>2, <2>2, <3>2
  <2> QED
    BY <2>2, <2>3, <2>4
<1>9. LogsFull(d) => LogsFull(e)
  <2>1. SUFFICES ASSUME LogsFull(d), NEW b \in e.canonical, NEW c
                 PROVE  Log(b, c) \in e.logs <=> c \in Tracked(e) /\ c \in LogsOf(b)
    BY DEF LogsFull
  <2>2. b \in d.canonical /\ Len(b) \in Nat /\ Len(b) <= n
    BY <1>6
  <2>3. Log(b, c) \in e.logs <=> Log(b, c) \in d.logs
    BY <1>2, <2>2 DEF Log
  <2>4. Log(b, c) \in d.logs <=> c \in Tracked(d) /\ c \in LogsOf(b)
    BY <2>1, <2>2 DEF LogsFull
  <2>5. ASSUME c \in LogsOf(b) PROVE c \in Tracked(e) <=> c \in Tracked(d)
    <3>1. ASSUME c \in Contract PROVE e.discovered[c] > 0 <=> d.discovered[c] > 0
      <4>1. ~ (d.discovered[c] >= d.start /\ Len(b) < d.discovered[c])
        BY <2>2, <2>5, <3>1 DEF Logged, NoLogBefore
      <4> QED
        BY <1>1, <1>4, <2>2, <3>1, <4>1
    <3> QED
      BY <1>2, <3>1 DEF Tracked
  <2> QED
    BY <2>3, <2>4, <2>5
<1> QED
  BY <1>5, <1>7, <1>8, <1>9 DEF Logged, e

\* Rows of which nothing is left but what was discovered before their start.
Blank(rs, d) ==
    /\ DOMAIN d = DbFields /\ d.start \in 1..MaxPruned /\ d.manifest \subseteq Contract
    /\ d.checkpoint = <<>> /\ d.canonical = {} /\ d.finalized = {} /\ d.logs = {}
    /\ d.discovered \in [Contract -> 0..MaxHead]
    /\ \A c \in Contract : d.discovered[c] = 0 \/ d.discovered[c] < d.start
    /\ d.cursors \in [Contract -> Cursors] /\ \A c \in Contract : d.cursors[c] = NoCursor
    /\ rs \/ \A s \in d.snapshots : s.read = s.block

LEMMA NothingSeen ==
    ASSUME NEW ch \in Seq(Blocks), NEW g
    PROVE  Seen(ch, g, <<>>) /\ Len(<<>>) = 0
<1>1. <<>> \in Seq(Blocks) /\ Len(<<>>) = 0 /\ DOMAIN <<>> = {} /\ Len(ch) \in Nat
  BY LenProperties, EmptySeq
<1>2. Realistic(<<>>)
  BY <1>1 DEF Realistic
<1> QED
  BY <1>1, <1>2 DEF Seen

LEMMA BlankRows ==
    ASSUME NEW ch \in Seq(Blocks), NEW g, NEW tp, NEW dp, NEW rs, NEW tn, NEW d, Blank(rs, d)
    PROVE  Linked(ch, g, d) /\ Settled(ch, tp, dp, rs, d) /\ Logged(tn, d)
<1>1. Seen(ch, g, d.checkpoint) /\ Len(d.checkpoint) = 0
  BY NothingSeen DEF Blank
<1>2. d.start \in Nat /\ d.start >= 1
  BY IndexerAssumption DEF Blank
<1>3. d.canonical = {Prefix(d.checkpoint, n) : n \in d.start..Len(d.checkpoint)}
  BY <1>1, <1>2 DEF Blank
<1>4. \A c \in Contract : Within(d.cursors[c], d.start, Len(d.checkpoint))
  BY DEF Blank, Within
<1>5. Linked(ch, g, d)
  BY <1>1, <1>2, <1>3, <1>4 DEF Linked, Blank
<1>6. Settled(ch, tp, dp, rs, d)
  BY DEF Settled, Blank
<1>7. DiscoveredInRows(d) /\ NoLogBefore(d) /\ LogsBacked(d) /\ LogsFull(d)
  BY <1>1 DEF DiscoveredInRows, NoLogBefore, LogsBacked, LogsFull, Blank
<1> QED
  BY <1>5, <1>6, <1>7 DEF Logged

LEMMA InvalidatedBlank ==
    ASSUME NEW ch \in Seq(Blocks), NEW g, NEW tp, NEW dp, NEW rs, NEW d, Linked(ch, g, d),
           Settled(ch, tp, dp, rs, d),
           NEW floor \in 1..MaxPruned, NEW manifest \in SUBSET Contract
    PROVE  /\ Blank(rs, [invalidateCanonicalHistory(d, floor) EXCEPT !.start = floor])
           /\ floor = d.start =>
                Blank(rs, [invalidateCanonicalHistory(d, floor) EXCEPT !.manifest = manifest])
<1> DEFINE e == invalidateCanonicalHistory(d, floor)
<1>1. DOMAIN d = DbFields /\ d.start \in 1..MaxPruned /\ d.manifest \subseteq Contract
      /\ d.discovered \in [Contract -> 0..MaxHead]
  BY DEF Linked
<1>2. /\ DOMAIN e = DbFields /\ e.start = d.start /\ e.manifest = d.manifest
      /\ e.checkpoint = <<>> /\ e.canonical = {} /\ e.finalized = {} /\ e.logs = {}
      /\ e.snapshots = {} /\ e.discovered = Undiscovered(d, floor, 0)
      /\ e.cursors = [c \in Contract |-> NoCursor]
  BY <1>1 DEF invalidateCanonicalHistory, DbFields
<1> HIDE DEF e
<1>3. MaxHead \in Nat /\ MaxPruned \in Nat /\ floor \in Nat
  BY IndexerAssumption
<1>4. /\ e.discovered \in [Contract -> 0..MaxHead]
      /\ \A c \in Contract : e.discovered[c] = 0 \/ e.discovered[c] < floor
  BY <1>1, <1>2, <1>3 DEF Undiscovered
<1>5. e.cursors \in [Contract -> Cursors] /\ \A c \in Contract : e.cursors[c] = NoCursor
  BY <1>2, NoCursorTyped
<1> DEFINE x == [e EXCEPT !.start = floor]
<1>6. /\ DOMAIN x = DbFields /\ x.start = floor /\ x.manifest = e.manifest
      /\ x.checkpoint = e.checkpoint /\ x.canonical = e.canonical
      /\ x.finalized = e.finalized /\ x.logs = e.logs /\ x.snapshots = e.snapshots
      /\ x.discovered = e.discovered /\ x.cursors = e.cursors
  BY <1>2 DEF DbFields
<1> HIDE DEF x
<1>7. Blank(rs, x)
  BY <1>1, <1>2, <1>4, <1>5, <1>6 DEF Blank
<1> DEFINE y == [e EXCEPT !.manifest = manifest]
<1>8. /\ DOMAIN y = DbFields /\ y.start = e.start /\ y.manifest = manifest
      /\ y.checkpoint = e.checkpoint /\ y.canonical = e.canonical
      /\ y.finalized = e.finalized /\ y.logs = e.logs /\ y.snapshots = e.snapshots
      /\ y.discovered = e.discovered /\ y.cursors = e.cursors
  BY <1>2 DEF DbFields
<1> HIDE DEF y
<1>9. floor = d.start => Blank(rs, y)
  BY <1>1, <1>2, <1>4, <1>5, <1>8 DEF Blank
<1> QED
  BY <1>7, <1>9 DEF x, y, e

\* Rows that agree in every field.
SameRows(d, e) == DOMAIN e = DbFields /\ \A x \in DbFields : e[x] = d[x]

LEMMA SameRowsHold ==
    ASSUME NEW ch, NEW g, NEW tp, NEW dp, NEW rs, NEW tn, NEW d, NEW e, SameRows(d, e),
           Linked(ch, g, d), Settled(ch, tp, dp, rs, d), Logged(tn, d)
    PROVE  Linked(ch, g, e) /\ Settled(ch, tp, dp, rs, e) /\ Logged(tn, e)
<1>1. /\ DOMAIN e = DbFields /\ e.start = d.start /\ e.manifest = d.manifest
      /\ e.checkpoint = d.checkpoint /\ e.canonical = d.canonical
      /\ e.finalized = d.finalized /\ e.logs = d.logs /\ e.snapshots = d.snapshots
      /\ e.discovered = d.discovered /\ e.cursors = d.cursors
  BY DEF SameRows, DbFields
<1>2. Linked(ch, g, e)
  BY <1>1 DEF Linked
<1>3. Settled(ch, tp, dp, rs, e)
  BY <1>1 DEF Settled
<1>4. DiscoveredInRows(e) /\ NoLogBefore(e) /\ LogsBacked(e) /\ (LogsFull(d) => LogsFull(e))
  BY <1>1 DEF Logged, DiscoveredInRows, NoLogBefore, LogsBacked, LogsFull, Tracked
<1> QED
  BY <1>2, <1>3, <1>4 DEF Logged

\* Rows without a checkpoint are blank.
LEMMA NoRows ==
    ASSUME NEW ch \in Seq(Blocks), NEW g, NEW tp, NEW dp, NEW rs, NEW tn, NEW d, Linked(ch, g, d),
           Settled(ch, tp, dp, rs, d), Logged(tn, d), d.checkpoint = <<>>
    PROVE  Blank(rs, d)
<1>1. Len(d.checkpoint) = 0 /\ d.start \in Nat /\ d.start >= 1
  BY LinkedFacts
<1>2. d.canonical = {}
  BY <1>1 DEF Linked
<1>3. d.finalized = {} /\ d.logs = {}
  BY <1>2 DEF Settled, Logged, LogsBacked
<1>4. \A c \in Contract : d.discovered[c] = 0 \/ d.discovered[c] < d.start
  <2> TAKE c \in Contract
  <2>1. d.discovered[c] \in Nat
    BY IndexerAssumption DEF Linked
  <2>2. d.discovered[c] <= 0 \/ d.discovered[c] < d.start
    BY <1>1 DEF Logged, DiscoveredInRows
  <2> QED
    BY <2>1, <2>2
<1>5. \A c \in Contract : d.cursors[c] = NoCursor
  <2> TAKE c \in Contract
  <2>1. Within(d.cursors[c], d.start, 0)
    BY <1>1 DEF Linked
  <2> QED
    BY <1>1, <2>1 DEF Within
<1> QED
  BY <1>2, <1>3, <1>4, <1>5 DEF Blank, Linked, Settled

LEMMA SeedHolds ==
    ASSUME NEW ch \in Seq(Blocks), NEW g, NEW tp, NEW dp, NEW rs, NEW tn, NEW d, Linked(ch, g, d),
           Settled(ch, tp, dp, rs, d), Logged(tn, d), NEW manifest \in SUBSET Contract
    PROVE  /\ Linked(ch, g, seedNetwork(d, manifest))
           /\ Settled(ch, tp, dp, rs, seedNetwork(d, manifest))
           /\ Logged(tn, seedNetwork(d, manifest))
<1> DEFINE e == seedNetwork(d, manifest)
<1>1. CASE manifest # d.manifest /\ d.checkpoint # <<>>
  <2>1. e = [invalidateCanonicalHistory(d, d.start) EXCEPT !.manifest = manifest]
    BY <1>1 DEF seedNetwork
  <2>2. d.start \in 1..MaxPruned
    BY DEF Linked
  <2> HIDE DEF e
  <2>3. Blank(rs, e)
    BY <2>1, <2>2, InvalidatedBlank
  <2> QED
    BY <2>3, BlankRows DEF e
<1>2. CASE manifest # d.manifest /\ d.checkpoint = <<>>
  <2>1. e = [d EXCEPT !.manifest = manifest]
    BY <1>2 DEF seedNetwork
  <2>2. Blank(rs, d)
    BY <1>2, NoRows
  <2> HIDE DEF e
  <2>3. /\ DOMAIN e = DbFields /\ e.start = d.start /\ e.manifest = manifest
        /\ e.checkpoint = d.checkpoint /\ e.canonical = d.canonical
        /\ e.finalized = d.finalized /\ e.logs = d.logs /\ e.snapshots = d.snapshots
        /\ e.discovered = d.discovered /\ e.cursors = d.cursors
    BY <2>1, <2>2 DEF DbFields, Blank
  <2>4. Blank(rs, e)
    BY <2>2, <2>3 DEF Blank
  <2> QED
    BY <2>4, BlankRows DEF e
<1>3. CASE manifest = d.manifest
  <2>1. e = [d EXCEPT !.manifest = manifest]
    BY <1>3 DEF seedNetwork
  <2> HIDE DEF e
  <2>2. SameRows(d, e)
    BY <1>3, <2>1 DEF SameRows, Linked, DbFields
  <2> QED
    BY <2>2, SameRowsHold DEF e
<1> QED
  BY <1>1, <1>2, <1>3

LEMMA AdvanceHolds ==
    ASSUME NEW ch \in Seq(Blocks), NEW g, NEW tp, NEW dp, NEW rs, NEW tn, NEW d, Linked(ch, g, d),
           Settled(ch, tp, dp, rs, d), Logged(tn, d), NEW start \in 1..MaxPruned
    PROVE  /\ Linked(ch, g, advanceNetworkStartBlock(d, start))
           /\ Settled(ch, tp, dp, rs, advanceNetworkStartBlock(d, start))
           /\ Logged(tn, advanceNetworkStartBlock(d, start))
<1> DEFINE e == advanceNetworkStartBlock(d, start)
<1>1. CASE start <= d.start
  BY <1>1 DEF advanceNetworkStartBlock
<1>2. CASE ~ (start <= d.start)
  <2>1. e = [invalidateCanonicalHistory(d, start) EXCEPT !.start = start]
    BY <1>2 DEF advanceNetworkStartBlock
  <2> HIDE DEF e
  <2>2. Blank(rs, e)
    BY <2>1, InvalidatedBlank
  <2> QED
    BY <2>2, BlankRows DEF e
<1> QED
  BY <1>1, <1>2

-----------------------------------------------------------------------------
(* A block is stored.                                                      *)

\* The block b of the chain may be appended.
NextRow(ch, g, d, b) ==
    /\ Seen(ch, g, b) /\ OnChain(ch, b) /\ Len(b) = NextBlock(d)
    /\ d.checkpoint # <<>> => Front(b) = d.checkpoint

\* The fields of the rows e with b stored.
Stored(d, b, logs, found, head, scanned, e) ==
    /\ DOMAIN e = DbFields /\ e.start = d.start /\ e.manifest = d.manifest
    /\ e.checkpoint = b /\ e.canonical = d.canonical \cup {b}
    /\ e.logs = d.logs \cup logs /\ e.snapshots = d.snapshots
    /\ e.discovered = [c \in Contract |-> IF c \in found THEN Len(b) ELSE d.discovered[c]]
    /\ e.cursors = [c \in Contract |-> IF c \in scanned THEN Advanced(d, found, Len(b), c)
                                       ELSE d.cursors[c]]
    /\ e.finalized = d.finalized \cup UpTo(d.canonical \cup {b}, finalizedThrough(head))

LEMMA StoreFields ==
    ASSUME NEW d, DOMAIN d = DbFields, NEW b, NEW logs, NEW found, NEW head, NEW scanned
    PROVE  Stored(d, b, logs, found, head, scanned, storeBlock(d, b, logs, found, head, scanned))
<1> QED
  BY DEF Stored, storeBlock, DbFields

\* The canonical rows are the ancestors of the block that is stored.
LEMMA AncestorsOfNext ==
    ASSUME NEW ch \in Seq(Blocks), NEW g, NEW d, Linked(ch, g, d), NEW b, NextRow(ch, g, d, b)
    PROVE  /\ Len(b) \in Nat /\ Len(b) >= d.start /\ Len(b) > Len(d.checkpoint)
           /\ Len(b) <= Len(ch) /\ b \in Seq(Blocks)
           /\ \A k \in d.canonical : /\ k = Prefix(b, Len(k)) /\ Len(k) \in d.start..Len(b) - 1
           /\ \A n \in d.start..Len(b) - 1 : Prefix(b, n) \in d.canonical
<1>1. /\ d.checkpoint \in Seq(Blocks) /\ Len(d.checkpoint) \in Nat
      /\ d.start \in Nat /\ d.start >= 1
      /\ (d.checkpoint = <<>> <=> Len(d.checkpoint) = 0)
      /\ (d.checkpoint # <<>> => d.start <= Len(d.checkpoint))
  BY LinkedFacts
<1>2. b \in Seq(Blocks) /\ Len(b) \in Nat /\ Len(b) <= Len(ch) /\ Len(ch) \in Nat
  BY SeenFacts, LinkedFacts DEF NextRow, OnChain
<1>3. CASE d.checkpoint = <<>>
  <2>1. Len(b) = d.start
    BY <1>3 DEF NextRow, NextBlock
  <2>2. d.canonical = {}
    BY <1>1, <1>3 DEF Linked
  <2> QED
    BY <1>1, <1>2, <1>3, <2>1, <2>2
<1>4. CASE d.checkpoint # <<>>
  <2>1. Len(b) = Len(d.checkpoint) + 1
    BY <1>4 DEF NextRow, NextBlock, indexedBlock
  <2>2. d.checkpoint = Prefix(b, Len(b) - 1)
    BY <1>2, <1>4, FrontIsPrefix DEF NextRow
  <2>3. ASSUME NEW n \in d.start..Len(d.checkpoint) PROVE Prefix(d.checkpoint, n) = Prefix(b, n)
    <3>1. Len(b) - 1 \in 0..Len(b) /\ n \in 0..Len(b) - 1
      BY <1>1, <1>2, <2>1
    <3> QED
      BY <1>2, <2>2, <3>1, PrefixPrefix
  <2>4. \A k \in d.canonical :
          Len(k) \in d.start..Len(d.checkpoint) /\ k = Prefix(d.checkpoint, Len(k))
    BY CanonicalFacts
  <2>5. \A n \in d.start..Len(d.checkpoint) : Prefix(d.checkpoint, n) \in d.canonical
    BY CanonicalFacts
  <2>6. d.start..Len(b) - 1 = d.start..Len(d.checkpoint)
    BY <1>1, <2>1
  <2>7. /\ \A k \in d.canonical : k = Prefix(b, Len(k)) /\ Len(k) \in d.start..Len(b) - 1
        /\ \A n \in d.start..Len(b) - 1 : Prefix(b, n) \in d.canonical
    BY <2>3, <2>4, <2>5, <2>6
  <2> QED
    BY <1>1, <1>2, <1>4, <2>1, <2>7
<1> QED
  BY <1>3, <1>4

LEMMA AdvancedCursor ==
    ASSUME NEW ch \in Seq(Blocks), NEW g, NEW d, Linked(ch, g, d), NEW found, NEW n \in Nat,
           n > Len(d.checkpoint), n >= d.start, n <= MaxHead, NEW c \in Contract
    PROVE  Advanced(d, found, n, c) \in Cursors /\ Within(Advanced(d, found, n, c), d.start, n)
<1>1. /\ d.start \in Nat /\ d.start >= 1 /\ MaxHead \in Nat /\ Len(d.checkpoint) \in Nat
      /\ d.discovered[c] \in 0..MaxHead
      /\ d.cursors[c] \in Cursors /\ Within(d.cursors[c], d.start, Len(d.checkpoint))
  BY LinkedFacts, IndexerAssumption DEF Linked
<1> DEFINE k == d.cursors[c]
           from == IF d.discovered[c] > d.start THEN d.discovered[c]
                   ELSE IF c \in found THEN n ELSE d.start
           least == Min({k.start, from})
<1>2. k.start \in 0..MaxHead /\ k.last \in 0..MaxHead
  BY <1>1 DEF Cursors
<1>3. from \in 1..MaxHead
  BY <1>1
<1>4. n \in 0..MaxHead /\ n \in d.start..n
  BY <1>1
<1> HIDE DEF from
<1>5. CASE k = NoCursor
  <2>1. k.start = 0 /\ k.last = 0
    BY <1>5 DEF NoCursor
  <2>2. Advanced(d, found, n, c) = [start |-> from, last |-> n]
    BY <1>1, <1>5, <2>1 DEF Advanced, from
  <2> QED
    BY <1>3, <1>4, <2>2 DEF Cursors, Within
<1>6. CASE k # NoCursor
  <2>1. k.start >= 1 /\ k.last \in d.start..Len(d.checkpoint)
    BY <1>1, <1>6 DEF Within
  <2>2. ~ (k.last > n)
    BY <1>1, <2>1
  <2>3. Advanced(d, found, n, c) = [start |-> least, last |-> n]
    BY <1>6, <2>2 DEF Advanced, from
  <2>4. least \in {k.start, from}
    BY <1>2, <1>3, MinTwo
  <2>5. least \in 1..MaxHead
    BY <1>2, <1>3, <2>1, <2>4
  <2> HIDE DEF least
  <2> QED
    BY <1>4, <2>3, <2>5 DEF Cursors, Within
<1> QED
  BY <1>5, <1>6

LEMMA LinkedStore ==
    ASSUME NEW ch \in Seq(Blocks), Len(ch) <= MaxHead, NEW g, NEW d, Linked(ch, g, d),
           NEW b, NextRow(ch, g, d, b), NEW logs, NEW found, NEW head, NEW scanned,
           NEW e, Stored(d, b, logs, found, head, scanned, e)
    PROVE  Linked(ch, g, e)
<1>1. /\ Len(b) \in Nat /\ Len(b) >= d.start /\ Len(b) > Len(d.checkpoint)
      /\ Len(b) <= Len(ch) /\ b \in Seq(Blocks)
      /\ \A k \in d.canonical : k = Prefix(b, Len(k)) /\ Len(k) \in d.start..Len(b) - 1
      /\ \A n \in d.start..Len(b) - 1 : Prefix(b, n) \in d.canonical
  BY AncestorsOfNext
<1>2. d.start \in Nat /\ d.start >= 1 /\ Len(ch) \in Nat /\ MaxHead \in Nat
      /\ Len(d.checkpoint) \in Nat
  BY LinkedFacts, IndexerAssumption
<1>3. Len(b) <= MaxHead /\ Len(b) \in 0..MaxHead
  BY <1>1, <1>2
<1>4. e.discovered \in [Contract -> 0..MaxHead]
  BY <1>3 DEF Stored, Linked
<1>5. ASSUME NEW c \in Contract
      PROVE  e.cursors[c] \in Cursors /\ Within(e.cursors[c], e.start, Len(e.checkpoint))
  <2>1. /\ Advanced(d, found, Len(b), c) \in Cursors
        /\ Within(Advanced(d, found, Len(b), c), d.start, Len(b))
    BY <1>1, <1>3, AdvancedCursor
  <2>2. d.cursors[c] \in Cursors /\ Within(d.cursors[c], d.start, Len(d.checkpoint))
    BY DEF Linked
  <2>3. Within(d.cursors[c], d.start, Len(b))
    BY <1>1, <1>2, <2>2 DEF Within
  <2> QED
    BY <2>1, <2>2, <2>3 DEF Stored
<1>6. e.cursors \in [Contract -> Cursors]
  BY <1>5 DEF Stored
<1>7. e.canonical = {Prefix(e.checkpoint, n) : n \in e.start..Len(e.checkpoint)}
  <2>1. e.canonical = d.canonical \cup {b} /\ e.start = d.start /\ e.checkpoint = b
    BY DEF Stored
  <2>2. b = Prefix(b, Len(b)) /\ Len(b) \in d.start..Len(b)
    BY <1>1, <1>2, PrefixWhole
  <2>3. ASSUME NEW n \in d.start..Len(b) PROVE Prefix(b, n) \in d.canonical \cup {b}
    <3>1. CASE n = Len(b)
      BY <2>2, <3>1
    <3>2. CASE n # Len(b)
      BY <1>1, <1>2, <3>2
    <3> QED
      BY <3>1, <3>2
  <2>4. ASSUME NEW k \in d.canonical PROVE k \in {Prefix(b, n) : n \in d.start..Len(b)}
    <3>1. k = Prefix(b, Len(k)) /\ Len(k) \in d.start..Len(b)
      BY <1>1, <1>2
    <3> QED
      BY <3>1
  <2> QED
    BY <2>1, <2>2, <2>3, <2>4
<1>8. Seen(ch, g, e.checkpoint) /\ (e.checkpoint # <<>> => e.start <= Len(e.checkpoint))
  BY <1>1 DEF Stored, NextRow
<1> QED
  BY <1>4, <1>5, <1>6, <1>7, <1>8 DEF Linked, Stored

LEMMA SettledStore ==
    ASSUME NEW ch \in Seq(Blocks), NEW g, NEW tp, NEW dp \in BOOLEAN, NEW rs, NEW d,
           Linked(ch, g, d),
           Settled(ch, tp, dp, rs, d), NEW b, NextRow(ch, g, d, b), NEW logs, NEW found,
           tp \in Nat, NEW head \in Nat, head <= tp, NEW scanned,
           NEW e, Stored(d, b, logs, found, head, scanned, e)
    PROVE  Settled(ch, tp, dp, rs, e)
<1>1. /\ Len(b) \in Nat /\ Len(b) >= d.start /\ b \in Seq(Blocks)
      /\ \A k \in d.canonical : k = Prefix(b, Len(k)) /\ Len(k) \in d.start..Len(b) - 1
  BY AncestorsOfNext
<1>2. d.start \in Nat /\ d.start >= 1 /\ Len(ch) \in Nat /\ confirmationDepth \in Nat
  BY LinkedFacts, IndexerAssumption
<1>3. /\ e.finalized = d.finalized \cup UpTo(d.canonical \cup {b}, finalizedThrough(head))
      /\ e.canonical = d.canonical \cup {b} /\ e.snapshots = d.snapshots
  BY DEF Stored
<1>4. e.finalized \subseteq e.canonical
  BY <1>3 DEF UpTo, Settled
<1>5. ASSUME NEW k \in UpTo(d.canonical \cup {b}, finalizedThrough(head))
      PROVE  OnChain(ch, k) /\ Len(k) + confirmationDepth <= tp
  <2>1. k \in d.canonical \cup {b} /\ Len(k) <= finalizedThrough(head)
    BY DEF UpTo
  <2>2. k = Prefix(b, Len(k)) /\ Len(k) \in 0..Len(b) /\ Len(k) >= 1
    <3>1. CASE k = b
      BY <1>1, <1>2, <3>1, PrefixWhole
    <3>2. CASE k \in d.canonical
      BY <1>1, <1>2, <3>2
    <3> QED
      BY <2>1, <3>1, <3>2
  <2>3. OnChain(ch, k)
    BY <2>2, OnChainPrefix DEF NextRow, OnChain
  <2>4. head > confirmationDepth /\ Len(k) <= head - confirmationDepth
    BY <1>2, <2>1, <2>2 DEF finalizedThrough
  <2> QED
    BY <1>2, <2>2, <2>3, <2>4
<1>6. dp \/ \A k \in e.finalized : OnChain(ch, k) /\ Len(k) + confirmationDepth <= tp
  BY <1>3, <1>5 DEF Settled
<1> QED
  BY <1>3, <1>4, <1>6 DEF Settled

\* The logs and discoveries of block b among the contracts scanned for.
Scanned(tn, d, b, contracts, logs, found) ==
    /\ contracts \subseteq Contract /\ Tracked(d) \subseteq contracts
    /\ contracts \subseteq Tracked(d) \cup Last(b).creates
    /\ found = {c \in contracts \cap Last(b).creates : d.discovered[c] = 0 /\ c \notin d.manifest}
    /\ \A x \in logs : x = Log(b, x.contract)
    /\ logs = {} \/ Last(b).creates \subseteq contracts
    /\ tn \/ \A c : Log(b, c) \in logs <=> c \in contracts /\ c \in LogsOf(b)

LEMMA TrackedStore ==
    ASSUME NEW ch \in Seq(Blocks), NEW g, NEW d, Linked(ch, g, d), NEW tn \in BOOLEAN,
           NEW b, NextRow(ch, g, d, b), NEW contracts, NEW logs, NEW found,
           Scanned(tn, d, b, contracts, logs, found), NEW head, NEW scanned,
           NEW e, Stored(d, b, logs, found, head, scanned, e)
    PROVE  /\ Tracked(e) = Tracked(d) \cup found
           /\ Tracked(e) \subseteq contracts
           /\ \A c \in contracts : c \in Last(b).creates => c \in Tracked(e)
           /\ contracts = Tracked(e)
<1>1. Len(b) \in Nat /\ Len(b) >= 1
  BY AncestorsOfNext, LinkedFacts
<1>2. \A c \in Contract : d.discovered[c] \in Nat
  BY IndexerAssumption DEF Linked
<1>3. found \subseteq contracts /\ contracts \subseteq Contract
  BY DEF Scanned
<1>4. \A c \in Contract : e.discovered[c] = IF c \in found THEN Len(b) ELSE d.discovered[c]
  BY DEF Stored
<1>5. e.manifest = d.manifest
  BY DEF Stored
<1>6. Tracked(e) = Tracked(d) \cup found
  BY <1>1, <1>2, <1>3, <1>4, <1>5 DEF Tracked
<1>7. \A c \in contracts : c \in Last(b).creates => c \in Tracked(e)
  BY <1>2, <1>3, <1>6 DEF Tracked, Scanned
<1> QED
  BY <1>3, <1>6, <1>7 DEF Scanned

LEMMA LoggedStore ==
    ASSUME NEW ch \in Seq(Blocks), NEW g, NEW tn \in BOOLEAN, NEW d, Linked(ch, g, d),
           Logged(tn, d), NEW b, NextRow(ch, g, d, b), NEW contracts, NEW logs, NEW found,
           Scanned(tn, d, b, contracts, logs, found), NEW head, NEW scanned,
           NEW e, Stored(d, b, logs, found, head, scanned, e)
    PROVE  Logged(tn, e)
<1>1. /\ Len(b) \in Nat /\ Len(b) >= d.start /\ Len(b) > Len(d.checkpoint) /\ b \in Seq(Blocks)
      /\ \A k \in d.canonical : k = Prefix(b, Len(k)) /\ Len(k) \in d.start..Len(b) - 1
  BY AncestorsOfNext
<1>2. d.start \in Nat /\ d.start >= 1 /\ Len(d.checkpoint) \in Nat
  BY LinkedFacts
<1>3. /\ e.start = d.start /\ e.manifest = d.manifest /\ e.checkpoint = b
      /\ e.canonical = d.canonical \cup {b} /\ e.logs = d.logs \cup logs
  BY DEF Stored
<1>4. ASSUME NEW c \in Contract
      PROVE  /\ d.discovered[c] \in Nat
             /\ \/ c \in found /\ e.discovered[c] = Len(b) /\ d.discovered[c] = 0
                \/ c \notin found /\ e.discovered[c] = d.discovered[c]
             /\ d.discovered[c] <= Len(d.checkpoint) \/ d.discovered[c] < d.start
  BY IndexerAssumption DEF Linked, Stored, Scanned, Logged, DiscoveredInRows
<1>5. DiscoveredInRows(e)
  BY <1>1, <1>2, <1>3, <1>4 DEF DiscoveredInRows
<1>6. ASSUME NEW k \in d.canonical, NEW c \in found PROVE c \notin LogsOf(k)
  <2>1. c \in b[Len(b)].creates /\ Len(k) \in 1..Len(b) - 1 /\ Len(b) \in 1..Len(b)
    BY <1>1, <1>2 DEF Scanned, Last
  <2>2. c \notin LogsOf(Prefix(b, Len(k)))
    BY <2>1, NoEarlierLogs DEF NextRow
  <2> QED
    BY <1>1, <2>2
<1>7. NoLogBefore(e)
  <2>1. SUFFICES ASSUME NEW k \in e.canonical, NEW c \in Contract, e.discovered[c] >= e.start,
                        Len(k) < e.discovered[c]
                 PROVE  c \notin LogsOf(k)
    BY DEF NoLogBefore
  <2>2. CASE k = b
    BY <1>1, <1>2, <1>3, <1>4, <2>1, <2>2
  <2>3. CASE k \in d.canonical /\ c \in found
    BY <1>6, <2>3
  <2>4. CASE k \in d.canonical /\ c \notin found
    BY <1>3, <1>4, <2>1, <2>4 DEF Logged, NoLogBefore
  <2> QED
    BY <1>3, <2>2, <2>3, <2>4
<1>8. LogsBacked(e)
  <2>1. ASSUME NEW l \in d.logs
        PROVE  /\ l.block \in e.canonical /\ l = Log(l.block, l.contract)
               /\ \A c \in Last(l.block).creates :
                    c \in e.manifest \/ e.discovered[c] \in 1..Len(l.block)
    <3>1. /\ l.block \in d.canonical /\ l = Log(l.block, l.contract)
          /\ \A c \in Last(l.block).creates : c \in d.manifest \/ d.discovered[c] \in 1..Len(l.block)
      BY DEF Logged, LogsBacked
    <3>2. Seen(ch, g, l.block) /\ Len(l.block) \in d.start..Len(d.checkpoint)
      BY <3>1, CanonicalFacts
    <3>3. l.block[Len(l.block)] \in Blocks
      BY <1>2, <3>2, SeenFacts
    <3>4. Last(l.block).creates \subseteq Contract
      BY <3>3 DEF Blocks, Last
    <3>5. ASSUME NEW c \in Last(l.block).creates
          PROVE  c \in e.manifest \/ e.discovered[c] \in 1..Len(l.block)
      <4>1. CASE c \in d.manifest
        BY <1>3, <4>1
      <4>2. CASE d.discovered[c] \in 1..Len(l.block)
        <5>1. d.discovered[c] # 0
          BY <4>2
        <5> QED
          BY <1>4, <3>4, <4>2, <5>1
      <4> QED
        BY <3>1, <4>1, <4>2
    <3> QED
      BY <1>3, <3>1, <3>5
  <2>2. ASSUME NEW l \in logs
        PROVE  /\ l.block \in e.canonical /\ l = Log(l.block, l.contract)
               /\ \A c \in Last(l.block).creates :
                    c \in e.manifest \/ e.discovered[c] \in 1..Len(l.block)
    <3>1. l = Log(b, l.contract)
      BY DEF Scanned
    <3>2. l.block = b
      BY <3>1 DEF Log
    <3>3. ASSUME NEW c \in Last(b).creates
          PROVE  c \in e.manifest \/ e.discovered[c] \in 1..Len(b)
      <4>1. c \in contracts /\ c \in Contract
        BY DEF Scanned
      <4>2. CASE c \in d.manifest
        BY <1>3, <4>2
      <4>3. CASE c \notin d.manifest /\ d.discovered[c] = 0
        <5>1. c \in found
          BY <4>1, <4>3 DEF Scanned
        <5> QED
          BY <1>1, <1>2, <1>4, <4>1, <5>1
      <4>4. CASE d.discovered[c] # 0
        <5>1. e.discovered[c] = d.discovered[c]
          BY <1>4, <4>1, <4>4
        <5> QED
          BY <1>1, <1>2, <1>4, <4>1, <4>4, <5>1
      <4> QED
        BY <4>2, <4>3, <4>4
    <3> QED
      BY <1>3, <3>1, <3>2, <3>3
  <2> QED
    BY <1>3, <2>1, <2>2 DEF LogsBacked
<1>9. ASSUME tn = FALSE PROVE LogsFull(e)
  <2>1. LogsFull(d)
    BY <1>9 DEF Logged
  <2>2. Tracked(e) = Tracked(d) \cup found /\ contracts = Tracked(e)
    BY TrackedStore
  <2>3. ASSUME NEW c PROVE Log(b, c) \in e.logs <=> c \in Tracked(e) /\ c \in LogsOf(b)
    <3>1. Log(b, c) \notin d.logs
      <4>1. SUFFICES ASSUME Log(b, c) \in d.logs PROVE FALSE
        OBVIOUS
      <4>2. b \in d.canonical
        BY <4>1 DEF Logged, LogsBacked, Log
      <4>3. Len(b) \in d.start..Len(b) - 1
        BY <1>1, <4>2
      <4> QED
        BY <1>1, <1>2, <4>3
    <3>2. Log(b, c) \in logs <=> c \in contracts /\ c \in LogsOf(b)
      BY <1>9 DEF Scanned
    <3> QED
      BY <1>3, <2>2, <3>1, <3>2
  <2>4. ASSUME NEW k \in d.canonical, NEW c
        PROVE  Log(k, c) \in e.logs <=> c \in Tracked(e) /\ c \in LogsOf(k)
    <3>1. Log(k, c) \notin logs
      <4>1. SUFFICES ASSUME Log(k, c) \in logs PROVE FALSE
        OBVIOUS
      <4>2. k = b
        BY <4>1 DEF Scanned, Log
      <4>3. Len(b) \in d.start..Len(b) - 1
        BY <1>1, <4>2
      <4> QED
        BY <1>1, <1>2, <4>3
    <3>2. Log(k, c) \in d.logs <=> c \in Tracked(d) /\ c \in LogsOf(k)
      BY <2>1 DEF LogsFull
    <3>3. c \in LogsOf(k) => c \notin found
      BY <1>6
    <3> QED
      BY <1>3, <2>2, <3>1, <3>2, <3>3
  <2> QED
    BY <1>3, <2>3, <2>4 DEF LogsFull
<1> QED
  BY <1>5, <1>7, <1>8, <1>9 DEF Logged

-----------------------------------------------------------------------------
(* The node's steps.                                                       *)

LEMMA WorldFacts ==
    ASSUME IInv
    PROVE  /\ chain \in Seq(Blocks) /\ Height \in Nat /\ top \in Nat
           /\ Height <= top /\ top <= MaxHead /\ Len(chain) = Height
           /\ MaxHead \in Nat /\ MaxReorgs \in Nat /\ reorgs \in 0..MaxReorgs /\ reorgs \in Nat
           /\ deep \in BOOLEAN /\ torn \in BOOLEAN /\ Seen(chain, reorgs, chain)
           /\ Mixed \in BOOLEAN /\ Restored \in BOOLEAN
<1>1. World
  BY DEF IInv
<1>2. chain \in Seq(Blocks) /\ Height \in Nat
  BY <1>1, LenProperties DEF World, Seen, Height
<1>3. MaxHead \in Nat /\ MaxReorgs \in Nat
  BY IndexerAssumption
<1>4. torn \in BOOLEAN /\ deep \in BOOLEAN /\ Seen(chain, reorgs, chain)
      /\ top \in Height..MaxHead /\ reorgs \in 0..MaxReorgs
  BY <1>1 DEF World
<1>5. Mixed \in BOOLEAN /\ Restored \in BOOLEAN
  BY <1>4 DEF Mixed, Restored
<1> QED
  BY <1>2, <1>3, <1>4, <1>5 DEF Height

LEMMA ChainStep ==
    ASSUME IInv, Moves(chain, reorgs, chain', reorgs'), World',
           Settled(chain', top', deep', Restored', db),
           top <= top', Mixed => Mixed', Restored => Restored', UNCHANGED <<db, proc, lease>>,
           \A r \in Replica : /\ Untorn(chain, chain', proc[r], Mixed')
                              /\ Remembered(chain, reorgs, chain', proc[r], Restored', Mixed')
    PROVE  IInv'
<1>1. /\ chain \in Seq(Blocks) /\ reorgs \in Nat /\ Mixed \in BOOLEAN /\ Mixed' \in BOOLEAN
      /\ Restored \in BOOLEAN /\ Restored' \in BOOLEAN
      /\ top \in Nat /\ top' \in Nat
  <2>1. Mixed' \in BOOLEAN /\ Restored' \in BOOLEAN
    BY DEF Mixed, Restored, World
  <2>2. top' \in Nat
    BY WorldFacts, LenProperties DEF World, Height, Seen
  <2> QED
    BY <2>1, <2>2, WorldFacts
<1>2. Linked(chain', reorgs', db)
  BY <1>1, LinkedMoves DEF IInv
<1>3. Logged(Mixed', db)
  BY DEF IInv, Logged
<1>4. ASSUME NEW r \in Replica, lease = r
      PROVE  /\ InHand(chain', reorgs', top', db, proc[r])
             /\ Collected(chain', Restored', Mixed', db, proc[r])
  <2>1. Linked(chain, reorgs, db) /\ InHand(chain, reorgs, top, db, proc[r])
        /\ Collected(chain, Restored, Mixed, db, proc[r])
    BY <1>4 DEF IInv
  <2>2. InHand(chain', reorgs', top', db, proc[r])
    BY <1>1, <2>1, InHandMoves
  <2>3. /\ Untorn(chain, chain', proc[r], Mixed')
        /\ Remembered(chain, reorgs, chain', proc[r], Restored', Mixed')
    OBVIOUS
  <2> DEFINE rs == Restored
             rs2 == Restored'
             tn == Mixed
             tn2 == Mixed'
  <2>4. /\ rs \in BOOLEAN /\ rs2 \in BOOLEAN /\ (rs => rs2)
        /\ tn \in BOOLEAN /\ tn2 \in BOOLEAN /\ (tn => tn2)
        /\ Collected(chain, rs, tn, db, proc[r])
        /\ Untorn(chain, chain', proc[r], tn2)
        /\ Remembered(chain, reorgs, chain', proc[r], rs2, tn2)
    BY <1>1, <2>1, <2>3
  <2> HIDE DEF rs, rs2, tn, tn2
  <2>5. Collected(chain', rs2, tn2, db, proc[r])
    BY <1>1, <2>1, <2>4, CollectedMoves
  <2> QED
    BY <2>2, <2>5 DEF rs2, tn2
<1> QED
  BY <1>2, <1>3, <1>4 DEF IInv

LEMMA BlockTyped ==
    ASSUME NEW c \in Payload, NEW g \in 0..MaxReorgs
    PROVE  Block(c, g) \in Blocks /\ Block(c, g).gen = g
<1> QED
  BY IndexerAssumption DEF Block, Blocks

LEMMA ExtendKeeps ==
    ASSUME IInv, Extend
    PROVE  IInv'
<1>1. /\ chain \in Seq(Blocks) /\ Height \in Nat /\ MaxHead \in Nat /\ Len(chain) = Height
      /\ reorgs \in 0..MaxReorgs /\ reorgs \in Nat /\ Seen(chain, reorgs, chain)
      /\ top \in Nat /\ top <= MaxHead
  BY WorldFacts
<1>2. PICK c \in Payload : chain' = Append(chain, Block(c, reorgs)) /\ Realistic(chain')
  BY DEF Extend
<1>3. Block(c, reorgs) \in Blocks /\ Block(c, reorgs).gen = reorgs
  BY <1>1, BlockTyped
<1>4. /\ chain' \in Seq(Blocks) /\ Len(chain') = Height + 1
      /\ \A i \in 1..Height : chain'[i] = chain[i]
      /\ chain'[Height + 1] = Block(c, reorgs)
  BY <1>2, <1>3, <1>1, AppendProperties
<1>5. /\ Height < MaxHead /\ top' = Max({top, Height + 1})
      /\ UNCHANGED <<reorgs, deep, torn, back, firstLog, faults, db, lease, proc, alarm>>
  BY DEF Extend
<1>6. /\ top' \in Nat /\ top <= top' /\ Height + 1 <= top' /\ top' <= MaxHead
      /\ Height' = Height + 1
  <2>1. Height + 1 \in Nat /\ Height + 1 <= MaxHead
    BY <1>1, <1>5
  <2>2. /\ Max({top, Height + 1}) \in {top, Height + 1}
        /\ Max({top, Height + 1}) >= top /\ Max({top, Height + 1}) >= Height + 1
    BY <1>1, <2>1, MaxTwo
  <2> QED
    BY <1>1, <1>4, <1>5, <2>1, <2>2 DEF Height
<1>7. Moves(chain, reorgs, chain', reorgs')
  BY <1>1, <1>4, <1>5 DEF Moves
<1>8. \A i \in 1..Height + 1 : (i <= Height /\ chain'[i] = chain[i])
                               \/ (i > Height /\ chain'[i].gen = reorgs)
  <2> TAKE i \in 1..Height + 1
  <2>1. i \in 1..Height \/ i = Height + 1
    BY <1>1
  <2>2. CASE i \in 1..Height
    BY <1>1, <1>4, <2>2
  <2>3. CASE i = Height + 1
    BY <1>1, <1>3, <1>4, <2>3
  <2> QED
    BY <2>1, <2>2, <2>3
<1>9. Renews(chain, reorgs, chain')
  BY <1>1, <1>4, <1>8 DEF Renews
<1>10. Seen(chain', reorgs', chain')
  <2>1. DOMAIN chain' = 1..Height + 1 /\ DOMAIN chain = 1..Height
    BY <1>1, <1>4, LenProperties
  <2>2. \A i \in 1..Height : chain[i].gen <= reorgs
    BY <1>1, <2>1 DEF Seen
  <2>3. \A i \in DOMAIN chain' : chain'[i].gen <= reorgs /\ ~ (i > Len(chain'))
    <3> TAKE i \in DOMAIN chain'
    <3>1. i \in 1..Height + 1 /\ ~ (i > Len(chain'))
      BY <1>1, <1>4, <2>1
    <3>2. CASE i <= Height /\ chain'[i] = chain[i]
      BY <1>1, <2>2, <3>1, <3>2
    <3>3. CASE i > Height /\ chain'[i].gen = reorgs
      BY <1>1, <3>1, <3>3
    <3> QED
      BY <1>8, <3>1, <3>2, <3>3
  <2> QED
    BY <1>2, <1>4, <1>5, <2>3 DEF Seen
<1>11. World'
  <2>1. top' \in Height'..MaxHead'
    BY <1>1, <1>6
  <2> QED
    BY <1>5, <1>10, <2>1 DEF World, IInv
<1>12. \A n \in 0..Height : Prefix(chain', n) = Prefix(chain, n)
  <2> TAKE n \in 0..Height
  <2>1. /\ n \in 0..Len(chain') /\ n <= Len(chain) /\ \A i \in 1..n : chain'[i] = chain[i]
    BY <1>1, <1>4
  <2> QED
    BY <1>1, <1>4, <2>1, PrefixAgree
<1>13. Restored' = Restored /\ Mixed' = Mixed
  BY <1>5 DEF Restored, Mixed
<1>14. Settled(chain', top', deep', Restored', db)
  <2>1. ASSUME NEW b \in db.finalized, OnChain(chain, b), Len(b) + confirmationDepth <= top
        PROVE  OnChain(chain', b) /\ Len(b) + confirmationDepth <= top'
    <3>1. b \in db.canonical
      BY DEF IInv, Settled
    <3>2. Seen(chain, reorgs, b)
      BY <1>1, <3>1, CanonicalFacts DEF IInv
    <3>3. Len(b) \in 0..Height /\ Len(b) <= Height + 1
      BY <1>1, <2>1, <3>2, SeenFacts DEF OnChain
    <3>4. OnChain(chain', b)
      BY <1>1, <1>4, <1>12, <2>1, <3>3 DEF OnChain
    <3>5. Len(b) + confirmationDepth <= top'
      BY <1>1, <1>6, <2>1, <3>3, IndexerAssumption
    <3> QED
      BY <3>4, <3>5
  <2> QED
    BY <1>5, <1>13, <2>1 DEF IInv, Settled
<1>15. \A r \in Replica : /\ Untorn(chain, chain', proc[r], Mixed')
                          /\ Remembered(chain, reorgs, chain', proc[r], Restored', Mixed')
  BY <1>1, <1>4, <1>9, <1>12 DEF Untorn, Remembered
<1> QED
  BY <1>5, <1>6, <1>7, <1>11, <1>13, <1>14, <1>15, ChainStep

LEMMA ReorganiseKeeps ==
    ASSUME IInv, Reorganise
    PROVE  IInv'
<1>1. /\ chain \in Seq(Blocks) /\ Height \in Nat /\ MaxHead \in Nat /\ MaxReorgs \in Nat
      /\ reorgs \in 0..MaxReorgs /\ reorgs \in Nat /\ Seen(chain, reorgs, chain)
      /\ top \in Nat /\ Height <= top /\ top <= MaxHead /\ Len(chain) = Height
      /\ confirmationDepth \in Nat /\ torn \in BOOLEAN /\ deep \in BOOLEAN
  BY WorldFacts, IndexerAssumption
<1> DEFINE Replaces(k, to, returned) ==
         /\ \E suffix \in [k + 1..to -> Payload] : \E gen \in [k + 1..returned -> 0..reorgs - 1] :
              chain' = [n \in 1..to |->
                          IF n <= k THEN chain[n]
                          ELSE Block(suffix[n], IF n <= returned THEN gen[n] ELSE reorgs')]
         /\ deep' = (deep \/ top - k > confirmationDepth)
         /\ torn' = (\/ torn
                     \/ /\ k < Height
                        /\ \E r \in Replica : proc[r].pc = "headers" /\ proc[r].headers # <<>>)
         /\ back' = IF returned = k THEN back ELSE back \cup {proc[r].pc : r \in Replica}
<1>2. PICK k \in 0..Height : \E to \in k..top : \E returned \in k..to : Replaces(k, to, returned)
  BY DEF Reorganise
<1>3. PICK to \in k..top : \E returned \in k..to : Replaces(k, to, returned)
  BY <1>2
<1>4. PICK returned \in k..to : Replaces(k, to, returned)
  BY <1>3
<1>5. PICK suffix \in [k + 1..to -> Payload], gen \in [k + 1..returned -> 0..reorgs - 1] :
         chain' = [n \in 1..to |->
     IF n <= k THEN chain[n]
     ELSE Block(suffix[n], IF n <= returned THEN gen[n] ELSE reorgs')]
  BY <1>4
<1>6. /\ reorgs' = reorgs + 1 /\ reorgs < MaxReorgs /\ Realistic(chain')
      /\ UNCHANGED <<top, firstLog, faults, db, lease, proc, alarm>>
  BY DEF Reorganise
<1>7. k \in Nat /\ to \in Nat /\ returned \in Nat /\ k <= Height /\ k <= to /\ to <= top
      /\ reorgs' \in 0..MaxReorgs /\ reorgs' \in Nat
  BY <1>1, <1>6
<1> DEFINE born(n) == IF n <= returned THEN gen[n] ELSE reorgs'
<1>8. \A n \in k + 1..to : born(n) \in 0..MaxReorgs /\ born(n) <= reorgs'
  <2> TAKE n \in k + 1..to
  <2>1. CASE n <= returned
    <3>1. n \in k + 1..returned
      BY <1>7, <2>1
    <3>2. gen[n] \in 0..reorgs - 1
      BY <3>1
    <3> QED
      BY <1>1, <1>6, <2>1, <3>2
  <2>2. CASE ~ (n <= returned)
    BY <1>7, <2>2
  <2> QED
    BY <2>1, <2>2
<1>9. \A n \in 1..to : chain'[n] = IF n <= k THEN chain[n] ELSE Block(suffix[n], born(n))
  BY <1>5
<1>10. DOMAIN chain' = 1..to
  BY <1>5
<1> HIDE DEF born
<1>11. ASSUME NEW n \in k + 1..to
      PROVE  n \in 1..to /\ chain'[n] \in Blocks /\ chain'[n].gen = born(n)
  <2>1. n \in 1..to /\ ~ (n <= k)
    BY <1>7
  <2>2. suffix[n] \in Payload
    OBVIOUS
  <2>3. Block(suffix[n], born(n)) \in Blocks /\ Block(suffix[n], born(n)).gen = born(n)
    BY <1>8, <2>2, BlockTyped
  <2> QED
    BY <1>9, <2>1, <2>3
<1>12. ASSUME NEW n \in 1..k PROVE n \in 1..to /\ n \in 1..Height /\ chain'[n] = chain[n]
  BY <1>1, <1>7, <1>9
<1>13. \A n \in 1..to : n \in 1..k \/ n \in k + 1..to
  BY <1>7
<1>14. \A n \in 1..Height : chain[n] \in Blocks /\ chain[n].gen <= reorgs /\ chain[n].gen \in Nat
  <2> TAKE n \in 1..Height
  <2>1. chain[n] \in Blocks
    BY <1>1, ElementOfSeq
  <2>2. n \in DOMAIN chain
    BY <1>1, LenProperties
  <2> QED
    BY <1>1, <2>1, <2>2 DEF Seen, Blocks
<1>15. chain' \in Seq(Blocks) /\ Len(chain') = to
  <2>1. \A n \in 1..to : chain'[n] \in Blocks
    BY <1>11, <1>12, <1>13, <1>14
  <2>2. chain' \in [1..to -> Blocks]
    <3>1. chain' = [n \in 1..to |-> chain'[n]]
      BY <1>5
    <3> QED
      BY <2>1, <3>1
  <2> QED
    BY <1>7, <2>2, LenProperties
<1>16. Moves(chain, reorgs, chain', reorgs')
  BY <1>1, <1>6, <1>7, <1>15 DEF Moves
<1>17. Seen(chain', reorgs', chain')
  <2>1. \A i \in DOMAIN chain' : chain'[i].gen <= reorgs' /\ ~ (i > Len(chain'))
    <3> TAKE i \in DOMAIN chain'
    <3>1. i \in 1..to
      BY <1>10
    <3>2. CASE i \in 1..k
      <4>1. chain'[i].gen <= reorgs /\ chain'[i].gen \in Nat
        BY <1>12, <1>14, <3>2
      <4> QED
        BY <1>1, <1>6, <1>7, <1>15, <3>1, <4>1
    <3>3. CASE i \in k + 1..to
      BY <1>7, <1>8, <1>11, <1>15, <3>1, <3>3
    <3> QED
      BY <1>13, <3>1, <3>2, <3>3
  <2> QED
    BY <1>6, <1>15, <2>1 DEF Seen
<1>18. Restored => Restored'
  BY <1>4 DEF Restored
<1>19. Mixed => Mixed'
  BY <1>4 DEF Mixed
<1>20. World'
  <2>1. deep' \in BOOLEAN /\ torn' \in BOOLEAN
    BY <1>4
  <2>2. top' \in Height'..MaxHead'
    BY <1>1, <1>6, <1>7, <1>15 DEF Height
  <2> QED
    BY <1>6, <1>7, <1>17, <2>1, <2>2 DEF World, IInv
<1>21. \A n \in 0..k : Prefix(chain', n) = Prefix(chain, n) /\ n <= Len(chain')
  <2> TAKE n \in 0..k
  <2>1. /\ n \in 0..Len(chain') /\ n <= Len(chain) /\ \A i \in 1..n : chain'[i] = chain[i]
    BY <1>1, <1>7, <1>12, <1>15
  <2>2. chain \in Seq(Blocks) /\ chain' \in Seq(Blocks)
    BY <1>1, <1>15
  <2>3. Prefix(chain', n) = Prefix(chain, n)
    BY <2>1, <2>2, PrefixAgree
  <2> QED
    BY <1>7, <1>15, <2>3
<1>22. Settled(chain', top', deep', Restored', db)
  <2>1. ASSUME NEW b \in db.finalized, deep' = FALSE
        PROVE  OnChain(chain', b) /\ Len(b) + confirmationDepth <= top'
    <3>1. OnChain(chain, b) /\ Len(b) + confirmationDepth <= top /\ b \in db.canonical
      BY <1>4, <2>1 DEF IInv, Settled
    <3>2. Seen(chain, reorgs, b)
      BY <1>1, <3>1, CanonicalFacts DEF IInv
    <3>3. Len(b) \in Nat
      BY <3>2, SeenFacts
    <3>4. ~ (top - k > confirmationDepth)
      BY <1>4, <2>1
    <3>5. Len(b) \in 0..k
      BY <1>1, <1>7, <3>1, <3>3, <3>4
    <3> QED
      BY <1>6, <1>21, <3>1, <3>5 DEF OnChain
  <2>2. deep' \in BOOLEAN
    BY <1>4
  <2>3. Restored' \/ \A s \in db.snapshots : s.read = s.block
    BY <1>18 DEF IInv, Settled
  <2> QED
    BY <2>1, <2>2, <2>3 DEF IInv, Settled
<1>23. ASSUME NEW r \in Replica PROVE Untorn(chain, chain', proc[r], Mixed')
  <2>1. CASE k < Height
    <3>1. proc[r].headers = <<>> => DOMAIN proc[r].headers = {}
      OBVIOUS
    <3> QED
      BY <1>4, <2>1, <3>1 DEF Untorn, Mixed
  <2>2. CASE ~ (k < Height)
    <3>1. k = Height
      BY <1>1, <1>7, <2>2
    <3> QED
      BY <1>1, <1>7, <1>15, <1>21, <3>1 DEF Untorn
  <2> QED
    BY <2>1, <2>2
<1>24. ASSUME NEW r \in Replica
       PROVE  Remembered(chain, reorgs, chain', proc[r], Restored', Mixed')
  <2>1. CASE returned # k
    <3>1. proc[r].pc \in back'
      BY <1>4, <2>1
    <3> QED
      BY <3>1 DEF Remembered, Restored, Mixed
  <2>2. CASE returned = k
    <3>1. \A i \in 1..Len(chain') :
            (i <= Len(chain) /\ chain'[i] = chain[i]) \/ chain'[i].gen > reorgs
      <4> TAKE i \in 1..Len(chain')
      <4>1. i \in 1..k \/ i \in k + 1..to
        BY <1>13, <1>15
      <4>2. CASE i \in 1..k
        BY <1>1, <1>12, <4>2
      <4>3. CASE i \in k + 1..to
        <5>1. ~ (i <= returned)
          BY <1>7, <2>2, <4>3
        <5>2. chain'[i].gen = reorgs'
          BY <1>11, <4>3, <5>1 DEF born
        <5> QED
          BY <1>1, <1>6, <5>2
      <4> QED
        BY <4>1, <4>2, <4>3
    <3> QED
      BY <3>1 DEF Renews, Remembered
  <2> QED
    BY <2>1, <2>2
<1>25. top <= top'
  BY <1>1, <1>6
<1> QED
  BY <1>6, <1>16, <1>18, <1>19, <1>20, <1>22, <1>23, <1>24, <1>25, ChainStep

LEMMA PruneKeeps ==
    ASSUME IInv, PruneLogs
    PROVE  IInv'
<1>1. /\ firstLog < Min({MaxPruned, Height}) /\ firstLog' = firstLog + 1
      /\ UNCHANGED <<chain, top, reorgs, deep, torn, back, faults, db, lease, proc, alarm>>
  BY DEF PruneLogs
<1>2. MaxPruned \in Nat /\ Height \in Nat /\ firstLog \in 1..MaxPruned
  BY WorldFacts, IndexerAssumption DEF IInv, World
<1>3. Min({MaxPruned, Height}) \in {MaxPruned, Height} /\ Min({MaxPruned, Height}) <= MaxPruned
  BY <1>2, MinTwo
<1>4. firstLog' \in 1..MaxPruned
  BY <1>1, <1>2, <1>3
<1>5. World'
  BY <1>1, <1>4 DEF IInv, World, Height
<1> QED
  BY <1>1, <1>5 DEF IInv, Restored, Mixed

-----------------------------------------------------------------------------
(* The steps of the replicas.                                              *)

\* What the rows d and the holder's variables l must be.
Fits(d, l) ==
    /\ Linked(chain, reorgs, d) /\ Settled(chain, top, deep, Restored, d) /\ Logged(Mixed, d)
    /\ InHand(chain, reorgs, top, d, l) /\ Collected(chain, Restored, Mixed, d, l)

\* A place where a replica has nothing in hand.
Resting == {"seed", "verify", "idle", "head"}

LEMMA HolderFacts ==
    ASSUME IInv, NEW r \in Replica, lease = r
    PROVE  Fits(db, proc[r])
<1> QED
  BY DEF IInv, Fits

LEMMA AtFields ==
    ASSUME NEW pc
    PROVE  /\ DOMAIN At(pc) = ProcFields /\ At(pc).pc = pc /\ At(pc).head = 0
           /\ At(pc).number = 0 /\ At(pc).to = 0 /\ At(pc).parent = <<>> /\ At(pc).anchor = <<>>
           /\ At(pc).contracts = {} /\ At(pc).logs = {} /\ At(pc).headers = <<>>
<1> QED
  BY DEF At, ProcFields

LEMMA RestingFits ==
    ASSUME NEW ch, NEW g, NEW tp, NEW rs, NEW tn, NEW d, NEW pc \in Resting
    PROVE  InHand(ch, g, tp, d, At(pc)) /\ Collected(ch, rs, tn, d, At(pc))
<1>1. DOMAIN At(pc) = ProcFields /\ At(pc).pc = pc
  BY AtFields
<1>2. pc \notin Segment /\ pc \notin Ranged /\ pc \notin {"reorg", "snapshot", "confirm", "standby"}
  BY DEF Resting, Segment, Ranged
<1>3. InHand(ch, g, tp, d, At(pc))
  BY <1>1, <1>2 DEF InHand, Segment, Ranged
<1>4. Collected(ch, rs, tn, d, At(pc))
  BY <1>1, <1>2 DEF Collected, Segment, Ranged
<1> QED
  BY <1>3, <1>4

\* A step of the holder that leaves rows and variables that fit.
LEMMA HolderStep ==
    ASSUME IInv, NEW r \in Replica, lease = r, NEW local, Go(r, local), Fits(db', local),
           UNCHANGED <<node, faults, lease, alarm>>
    PROVE  IInv'
<1>1. UNCHANGED <<chain, top, reorgs, deep, torn, back, firstLog, faults, lease, alarm>>
  BY DEF node
<1>2. DOMAIN proc = Replica /\ World
  BY DEF IInv, World
<1>3. proc' = [proc EXCEPT ![r] = local]
  BY DEF Go
<1>4. DOMAIN proc' = Replica /\ proc'[r] = local
  BY <1>2, <1>3
<1>5. World'
  BY <1>1, <1>2, <1>4 DEF World, Height
<1>6. \A s \in Replica : lease' = s => s = r
  BY <1>1
<1> QED
  BY <1>1, <1>4, <1>5, <1>6 DEF IInv, Fits, Restored, Mixed

\* A step of any replica that gives up, or takes up, all it has in hand.
LEMMA IdleStep ==
    ASSUME IInv, NEW r \in Replica, NEW pc, Go(r, At(pc)), pc \in Resting \/ lease' # r,
           lease' \in {lease, r, NoReplica}, faults' \in 0..MaxFaults,
           UNCHANGED <<node, db, alarm>>
    PROVE  IInv'
<1>1. UNCHANGED <<chain, top, reorgs, deep, torn, back, firstLog, db, alarm>>
  BY DEF node
<1>2. DOMAIN proc = Replica /\ World
  BY DEF IInv, World
<1>3. proc' = [proc EXCEPT ![r] = At(pc)]
  BY DEF Go
<1>4. DOMAIN proc' = Replica /\ proc'[r] = At(pc) /\ \A s \in Replica : s # r => proc'[s] = proc[s]
  BY <1>2, <1>3
<1>5. lease' \in Replica \cup {NoReplica}
  BY <1>2 DEF World
<1>6. World'
  BY <1>1, <1>2, <1>4, <1>5 DEF World, Height
<1>7. ASSUME NEW s \in Replica, lease' = s
      PROVE  /\ InHand(chain, reorgs, top, db, proc'[s])
             /\ Collected(chain, Restored, Mixed, db, proc'[s])
  <2>1. CASE s = r
    <3>1. pc \in Resting
      BY <1>7, <2>1
    <3> QED
      BY <1>4, <2>1, <3>1, RestingFits
  <2>2. CASE s # r
    <3>1. lease = s
      BY <1>7, <2>2, IndexerAssumption
    <3> QED
      BY <1>4, <2>2, <3>1 DEF IInv
  <2> QED
    BY <2>1, <2>2
<1> QED
  BY <1>1, <1>6, <1>7 DEF IInv, Restored, Mixed

LEMMA LeaseKeeps ==
    ASSUME IInv, NEW r \in Replica,
           tryAcquireIndexerLock(r) \/ LeaseLost(r) \/ RequestFails(r) \/ Crash(r)
    PROVE  IInv'
<1>1. faults \in 0..MaxFaults /\ MaxFaults \in Nat
  BY IndexerAssumption DEF IInv, World
<1>2. CASE tryAcquireIndexerLock(r)
  <2>1. "seed" \in Resting
    BY DEF Resting
  <2> QED
    BY <1>1, <1>2, <2>1, IdleStep DEF tryAcquireIndexerLock
<1>3. CASE LeaseLost(r)
  <2>1. lease' # r
    BY <1>3 DEF LeaseLost, Held
  <2> QED
    BY <1>1, <1>3, <2>1, IdleStep DEF LeaseLost
<1>4. CASE RequestFails(r)
  <2>1. "idle" \in Resting /\ faults' \in 0..MaxFaults
    BY <1>1, <1>4 DEF Resting, RequestFails, Fault
  <2> QED
    BY <1>4, <2>1, IdleStep DEF RequestFails
<1>5. CASE Crash(r)
  <2>1. faults' \in 0..MaxFaults
    BY <1>1, <1>5 DEF Crash, Fault
  <2>2. lease' # r /\ lease' \in {lease, r, NoReplica}
    BY <1>5, IndexerAssumption DEF Crash, Held
  <2> QED
    BY <1>5, <2>1, <2>2, IdleStep DEF Crash
<1> QED
  BY <1>2, <1>3, <1>4, <1>5

LEMMA SessionDiesKeeps ==
    ASSUME IInv, SessionDies
    PROVE  IInv'
<1>1. faults \in 0..MaxFaults /\ MaxFaults \in Nat /\ World
  BY IndexerAssumption DEF IInv, World
<1>2. faults' \in 0..MaxFaults
  BY <1>1 DEF SessionDies, Fault
<1>3. /\ lease' = NoReplica
      /\ UNCHANGED <<chain, top, reorgs, deep, torn, back, firstLog, db, proc, alarm>>
  BY DEF SessionDies, node
<1>4. World'
  BY <1>1, <1>2, <1>3 DEF World, Height
<1>5. \A r \in Replica : lease' # r
  BY <1>3, IndexerAssumption
<1> QED
  BY <1>3, <1>4, <1>5 DEF IInv, Restored, Mixed

LEMMA CommitKeeps ==
    ASSUME IInv, NEW r \in Replica, NEW rows, NEW local, Commit(r, rows, local), Fits(rows, local)
    PROVE  IInv'
<1> QED
  BY HolderStep DEF Commit, Held

LEMMA ReadKeeps ==
    ASSUME IInv, NEW r \in Replica, NEW local, Read(r, local), Fits(db, local)
    PROVE  IInv'
<1>1. db' = db /\ lease = r /\ Go(r, local) /\ UNCHANGED <<node, faults, lease, alarm>>
  BY DEF Read, Held
<1> QED
  BY <1>1, HolderStep

LEMMA SeedKeeps ==
    ASSUME IInv, NEW r \in Replica, seed(r)
    PROVE  IInv'
<1>1. Commit(r, seedNetwork(db, Manifest[r]), At("verify"))
  BY DEF seed
<1>2. Fits(db, proc[r])
  BY <1>1, HolderFacts DEF Commit, Held
<1>3. Manifest[r] \in SUBSET Contract
  BY IndexerAssumption
<1>4. /\ Linked(chain, reorgs, seedNetwork(db, Manifest[r]))
      /\ Settled(chain, top, deep, Restored, seedNetwork(db, Manifest[r]))
      /\ Logged(Mixed, seedNetwork(db, Manifest[r]))
  BY <1>2, <1>3, WorldFacts, SeedHolds DEF Fits
<1>5. "verify" \in Resting
  BY DEF Resting
<1>6. Fits(seedNetwork(db, Manifest[r]), At("verify"))
  BY <1>4, <1>5, RestingFits DEF Fits
<1> QED
  BY <1>1, <1>6, CommitKeeps

LEMMA RestKeeps ==
    ASSUME IInv, NEW r \in Replica, NEW pc \in Resting, Commit(r, db, At(pc))
    PROVE  IInv'
<1>1. Fits(db, At(pc))
  BY HolderFacts, RestingFits DEF Commit, Held, Fits
<1> QED
  BY <1>1, CommitKeeps

LEMMA RewindKeeps ==
    ASSUME IInv, NEW r \in Replica, NEW pc \in Resting, NEW n \in Nat,
           n = 0 \/ n \in db.start..Len(db.checkpoint), Commit(r, rewind(db, n), At(pc))
    PROVE  IInv'
<1>1. Fits(db, proc[r])
  BY HolderFacts DEF Commit, Held
<1>2. chain \in Seq(Blocks) /\ Mixed \in BOOLEAN
  BY WorldFacts
<1>3. Linked(chain, reorgs, rewind(db, n))
  BY <1>1, <1>2, LinkedRewind DEF Fits
<1>4. Settled(chain, top, deep, Restored, rewind(db, n))
  BY <1>1, <1>2, SettledRewind DEF Fits
<1>5. Logged(Mixed, rewind(db, n))
  BY <1>1, <1>2, LoggedRewind DEF Fits
<1>6. Fits(rewind(db, n), At(pc))
  BY <1>3, <1>4, <1>5, RestingFits DEF Fits
<1> QED
  BY <1>6, CommitKeeps

\* A replay starts at the start of the history or right above a canonical row.
LEMMA ReplayStart ==
    ASSUME IInv, NEW r \in Replica, planManifestBackfill(r) # {}
    PROVE  /\ Min(planManifestBackfill(r)) \in Nat
           /\ Min(planManifestBackfill(r)) # db.start =>
                Min(planManifestBackfill(r)) - 1 \in db.start..Len(db.checkpoint)
<1> DEFINE missingStart(c) == IF db.cursors[c] = NoCursor \/ db.cursors[c].start > db.start
                              THEN db.start ELSE db.cursors[c].last + 1
           gaps == planManifestBackfill(r)
<1>1. Linked(chain, reorgs, db) /\ chain \in Seq(Blocks)
  BY WorldFacts DEF IInv
<1>2. db.start \in Nat /\ Len(db.checkpoint) \in Nat
  BY <1>1, LinkedFacts
<1>3. ASSUME NEW n \in gaps
      PROVE  n \in Nat /\ (n # db.start => n - 1 \in db.start..Len(db.checkpoint))
  <2>1. PICK c \in Manifest[r] : n = missingStart(c)
    BY DEF planManifestBackfill
  <2>2. c \in Contract
    BY IndexerAssumption
  <2>3. Within(db.cursors[c], db.start, Len(db.checkpoint))
    BY <1>1, <2>2 DEF Linked
  <2>4. CASE db.cursors[c] = NoCursor \/ db.cursors[c].start > db.start
    BY <1>2, <2>1, <2>4
  <2>5. CASE ~ (db.cursors[c] = NoCursor \/ db.cursors[c].start > db.start)
    <3>1. n = db.cursors[c].last + 1 /\ db.cursors[c].last \in db.start..Len(db.checkpoint)
      BY <2>1, <2>3, <2>5 DEF Within
    <3> QED
      BY <1>2, <3>1
  <2> QED
    BY <2>4, <2>5
<1>4. \E m \in gaps : \A k \in gaps : m <= k
  BY <1>3, LeastNumber
<1> HIDE DEF gaps
<1>5. Min(gaps) \in gaps
  BY <1>4 DEF Min
<1> QED
  BY <1>3, <1>5 DEF gaps

LEMMA BackfillKeeps ==
    ASSUME IInv, NEW r \in Replica, reconcileManifestBackfill(r)
    PROVE  IInv'
<1> DEFINE gaps == planManifestBackfill(r)
           ancestor == IF Min(gaps) = db.start THEN 0 ELSE Min(gaps) - 1
<1>1. /\ Linked(chain, reorgs, db) /\ chain \in Seq(Blocks) /\ Len(db.checkpoint) \in Nat
      /\ db.checkpoint \in Seq(Blocks) /\ db.start \in Nat /\ db.start >= 1
  BY WorldFacts, LinkedFacts DEF IInv
<1>2. "idle" \in Resting
  BY DEF Resting
<1>3. CASE db.checkpoint = <<>> \/ gaps = {}
  <2>1. Commit(r, db, At("idle"))
    BY <1>3 DEF reconcileManifestBackfill
  <2> QED
    BY <1>2, <2>1, RestKeeps
<1>4. CASE ~ (db.checkpoint = <<>> \/ gaps = {})
  <2>1. /\ Min(gaps) \in Nat
        /\ (Min(gaps) # db.start => Min(gaps) - 1 \in db.start..Len(db.checkpoint))
    BY <1>4, ReplayStart
  <2>2. ancestor \in Nat /\ (ancestor = 0 \/ ancestor \in db.start..Len(db.checkpoint))
    BY <1>1, <2>1
  <2>3. ~ (ancestor > 0 /\ \A b \in db.canonical : Len(b) # ancestor)
    <3>1. SUFFICES ASSUME ancestor > 0 PROVE \E b \in db.canonical : Len(b) = ancestor
      OBVIOUS
    <3>2. ancestor \in db.start..Len(db.checkpoint) /\ ancestor \in 0..Len(db.checkpoint)
      BY <1>1, <2>2, <3>1
    <3> HIDE DEF ancestor
    <3>3. Prefix(db.checkpoint, ancestor) \in db.canonical
      BY <1>1, <3>2, CanonicalFacts
    <3>4. Len(Prefix(db.checkpoint, ancestor)) = ancestor
      BY <1>1, <3>2, PrefixFacts
    <3> QED
      BY <3>3, <3>4
  <2>4. Commit(r, rewind(db, ancestor), At("idle"))
    BY <1>4, <2>3 DEF reconcileManifestBackfill
  <2> HIDE DEF ancestor
  <2> QED
    BY <1>2, <2>2, <2>4, RewindKeeps
<1> QED
  BY <1>3, <1>4

LEMMA PollKeeps ==
    ASSUME IInv, NEW r \in Replica, poll(r)
    PROVE  IInv'
<1>1. /\ Linked(chain, reorgs, db) /\ chain \in Seq(Blocks) /\ Len(db.checkpoint) \in Nat
      /\ (db.checkpoint = <<>> <=> Len(db.checkpoint) = 0)
  BY WorldFacts, LinkedFacts DEF IInv
<1>2. CASE db.checkpoint = <<>> \/ HashAt(indexedBlock(db)) = db.checkpoint
  <2>1. Commit(r, db, At("head")) /\ "head" \in Resting
    BY <1>2 DEF poll, Resting
  <2> QED
    BY <2>1, RestKeeps
<1>3. CASE /\ ~ (db.checkpoint = <<>> \/ HashAt(indexedBlock(db)) = db.checkpoint)
           /\ indexedBlock(db) > Height
  <2>1. Commit(r, db, At("idle")) /\ "idle" \in Resting
    BY <1>3 DEF poll, Resting
  <2> QED
    BY <2>1, RestKeeps
<1>4. CASE /\ ~ (db.checkpoint = <<>> \/ HashAt(indexedBlock(db)) = db.checkpoint)
           /\ ~ (indexedBlock(db) > Height)
  <2> DEFINE l == [At("reorg") EXCEPT !.number = Len(db.checkpoint) - 1]
  <2>1. Commit(r, db, l)
    BY <1>4 DEF poll, indexedBlock
  <2>2. DOMAIN l = ProcFields /\ l.pc = "reorg" /\ l.number = Len(db.checkpoint) - 1
    BY AtFields DEF ProcFields
  <2> HIDE DEF l
  <2>3. l.number \in 0..Len(db.checkpoint) - 1 /\ db.checkpoint # <<>>
    BY <1>1, <1>4, <2>2
  <2>4. InHand(chain, reorgs, top, db, l)
    BY <2>2, <2>3 DEF InHand, Segment, Ranged
  <2>5. Collected(chain, Restored, Mixed, db, l)
    BY <2>2 DEF Collected, Segment, Ranged
  <2>6. Fits(db, l)
    BY <2>4, <2>5 DEF Fits, IInv
  <2> QED
    BY <2>1, <2>6, CommitKeeps
<1> QED
  BY <1>2, <1>3, <1>4

LEMMA ReorgKeeps ==
    ASSUME IInv, NEW r \in Replica, reconcileReorg(r)
    PROVE  IInv'
<1> DEFINE n == proc[r].number
<1>1. /\ Linked(chain, reorgs, db) /\ chain \in Seq(Blocks) /\ Len(db.checkpoint) \in Nat
      /\ db.start \in Nat /\ db.start >= 1 /\ Len(chain) \in Nat /\ Len(chain) = Height
  BY WorldFacts, LinkedFacts DEF IInv
<1>2. Fits(db, proc[r])
  BY HolderFacts DEF reconcileReorg, Commit, Held
<1>3. /\ DOMAIN proc[r] = ProcFields /\ proc[r].pc = "reorg" /\ db.checkpoint # <<>>
      /\ n \in 0..Len(db.checkpoint) - 1
  BY <1>2 DEF Fits, InHand, reconcileReorg
<1>4. "head" \in Resting /\ "idle" \in Resting /\ 0 \in Nat
  BY DEF Resting
<1>5. CASE n < reorgSearchFloor(db)
  <2>1. Commit(r, rewind(db, 0), At("head"))
    BY <1>5 DEF reconcileReorg
  <2> QED
    BY <1>4, <2>1, RewindKeeps
<1>6. CASE ~ (n < reorgSearchFloor(db)) /\ n > Height
  <2>1. Commit(r, db, At("idle"))
    BY <1>6 DEF reconcileReorg
  <2> QED
    BY <1>4, <2>1, RestKeeps
<1>7. CASE ~ (n < reorgSearchFloor(db)) /\ ~ (n > Height) /\ HashAt(n) \in db.canonical
  <2>1. Commit(r, rewind(db, n), At("head"))
    BY <1>7 DEF reconcileReorg
  <2>2. n \in 0..Len(chain) /\ n \in Nat
    BY <1>1, <1>3, <1>7
  <2>3. Len(HashAt(n)) = n
    BY <1>1, <2>2, HashBelowHead
  <2>4. Len(HashAt(n)) \in db.start..Len(db.checkpoint)
    BY <1>1, <1>7, CanonicalFacts
  <2> QED
    BY <1>4, <2>1, <2>2, <2>3, <2>4, RewindKeeps
<1>8. CASE ~ (n < reorgSearchFloor(db)) /\ ~ (n > Height) /\ HashAt(n) \notin db.canonical
  <2> DEFINE l == [proc[r] EXCEPT !.number = n - 1]
  <2>1. Commit(r, db, l)
    BY <1>8 DEF reconcileReorg
  <2>2. DOMAIN l = ProcFields /\ l.pc = "reorg" /\ l.number = n - 1
    BY <1>3 DEF ProcFields
  <2>3. reorgSearchFloor(db) >= db.start
    <3>1. CASE indexedBlock(db) > confirmationDepth
      <4>1. indexedBlock(db) - confirmationDepth \in Nat
        BY <1>1, <3>1, IndexerAssumption DEF indexedBlock
      <4> QED
        BY <1>1, <3>1, <4>1, MaxTwo DEF reorgSearchFloor
    <3>2. CASE ~ (indexedBlock(db) > confirmationDepth)
      BY <1>1, <3>2 DEF reorgSearchFloor
    <3> QED
      BY <3>1, <3>2
  <2>4. reorgSearchFloor(db) \in Nat
    <3>1. CASE indexedBlock(db) > confirmationDepth
      <4>1. indexedBlock(db) - confirmationDepth \in Nat
        BY <1>1, <3>1, IndexerAssumption DEF indexedBlock
      <4> QED
        BY <1>1, <3>1, <4>1, MaxTwo DEF reorgSearchFloor
    <3>2. CASE ~ (indexedBlock(db) > confirmationDepth)
      BY <1>1, <3>2 DEF reorgSearchFloor
    <3> QED
      BY <3>1, <3>2
  <2> HIDE DEF l
  <2>5. n - 1 \in 0..Len(db.checkpoint) - 1
    BY <1>1, <1>3, <1>8, <2>3, <2>4
  <2>6. InHand(chain, reorgs, top, db, l)
    BY <1>3, <2>2, <2>5 DEF InHand, Segment, Ranged
  <2>7. Collected(chain, Restored, Mixed, db, l)
    BY <2>2 DEF Collected, Segment, Ranged
  <2>8. Fits(db, l)
    BY <1>2, <2>6, <2>7 DEF Fits
  <2> QED
    BY <2>1, <2>8, CommitKeeps
<1> QED
  BY <1>5, <1>6, <1>7, <1>8

LEMMA NextBlockFacts ==
    ASSUME NEW ch \in Seq(Blocks), NEW g, NEW d, Linked(ch, g, d)
    PROVE  /\ NextBlock(d) \in Nat /\ NextBlock(d) >= 1 /\ NextBlock(d) >= d.start
           /\ NextBlock(d) > Len(d.checkpoint)
           /\ NextBlock(d) = d.start \/ NextBlock(d) = Len(d.checkpoint) + 1
<1> QED
  BY LinkedFacts DEF NextBlock, indexedBlock

LEMMA TrackedContracts ==
    ASSUME NEW ch, NEW g, NEW d, Linked(ch, g, d)
    PROVE  Tracked(d) \subseteq Contract
<1> QED
  BY DEF Linked, Tracked

LEMMA SegmentKeeps ==
    ASSUME IInv, NEW r \in Replica, nextSegment(r)
    PROVE  IInv'
<1> DEFINE next == NextBlock(db)
           local == [At("") EXCEPT !.head = Height, !.number = next, !.parent = db.checkpoint,
                                   !.anchor = db.checkpoint, !.contracts = Tracked(db)]
<1>1. /\ Linked(chain, reorgs, db) /\ chain \in Seq(Blocks) /\ Len(db.checkpoint) \in Nat
      /\ Height \in Nat /\ top \in Nat /\ Height <= top /\ db.start \in Nat /\ db.start >= 1
      /\ (db.checkpoint = <<>> <=> Len(db.checkpoint) = 0)
      /\ (db.checkpoint # <<>> => db.start <= Len(db.checkpoint))
  BY WorldFacts, LinkedFacts DEF IInv
<1>2. next \in Nat /\ next > Len(db.checkpoint)
  BY <1>1, NextBlockFacts
<1>3. /\ DOMAIN local = ProcFields /\ local.head = Height /\ local.number = next
      /\ local.parent = db.checkpoint /\ local.anchor = db.checkpoint
      /\ local.contracts = Tracked(db) /\ local.logs = {} /\ local.headers = <<>>
  BY AtFields DEF ProcFields
<1>4. Tracked(db) \subseteq Contract
  BY <1>1, TrackedContracts
<1>5. Settled(chain, top, deep, Restored, db) /\ Logged(Mixed, db)
  BY DEF IInv
<1>6. CASE next > Height /\ db.checkpoint = <<>>
  <2>1. Commit(r, db, At("idle")) /\ "idle" \in Resting
    BY <1>6 DEF nextSegment, Resting
  <2> QED
    BY <2>1, RestKeeps
<1>7. CASE next > Height /\ db.checkpoint # <<>>
  <2> DEFINE l == [local EXCEPT !.pc = "snapshot"]
  <2>1. Commit(r, db, l)
    BY <1>7 DEF nextSegment
  <2> HIDE DEF local
  <2>2. DOMAIN l = ProcFields /\ l.pc = "snapshot" /\ l.anchor = db.checkpoint
    BY <1>3 DEF ProcFields
  <2> HIDE DEF l
  <2>3. InHand(chain, reorgs, top, db, l)
    BY <1>7, <2>2 DEF InHand, Segment, Ranged
  <2>4. Collected(chain, Restored, Mixed, db, l)
    BY <2>2 DEF Collected, Segment, Ranged
  <2>5. Fits(db, l)
    BY <1>1, <1>5, <2>3, <2>4 DEF Fits
  <2> QED
    BY <2>1, <2>5, CommitKeeps
<1>8. CASE ~ (next > Height)
  <2> DEFINE l == [local EXCEPT !.pc = "range"]
  <2>1. ~ \E c \in Tracked(db) : db.cursors[c].last >= next
    <3>1. SUFFICES ASSUME NEW c \in Contract PROVE ~ (db.cursors[c].last >= next)
      BY <1>4
    <3>2. Within(db.cursors[c], db.start, Len(db.checkpoint))
      BY <1>1 DEF Linked
    <3>3. CASE db.cursors[c] = NoCursor
      <4>1. db.cursors[c].last = 0
        BY <3>3 DEF NoCursor
      <4> QED
        BY <1>1, <1>2, <4>1
    <3>4. CASE db.cursors[c] # NoCursor
      <4>1. db.cursors[c].last \in db.start..Len(db.checkpoint)
        BY <3>2, <3>4 DEF Within
      <4> QED
        BY <1>1, <1>2, <4>1
    <3> QED
      BY <3>3, <3>4
  <2>2. Commit(r, db, l)
    BY <1>8, <2>1 DEF nextSegment
  <2> HIDE DEF local
  <2>3. /\ DOMAIN l = ProcFields /\ l.pc = "range" /\ l.number = next /\ l.parent = db.checkpoint
        /\ l.head = Height /\ l.contracts = Tracked(db) /\ l.logs = {} /\ l.headers = <<>>
    BY <1>3 DEF ProcFields
  <2> HIDE DEF l
  <2>4. l.head \in l.number..top /\ DOMAIN l.headers = {}
    BY <1>1, <1>2, <1>8, <2>3
  <2>5. InHand(chain, reorgs, top, db, l)
    BY <1>4, <2>3, <2>4 DEF InHand, Segment, Ranged
  <2>6. Collected(chain, Restored, Mixed, db, l)
    BY <2>3 DEF Collected, Segment, Ranged
  <2>7. Fits(db, l)
    BY <1>1, <1>5, <2>5, <2>6 DEF Fits
  <2> QED
    BY <2>2, <2>7, CommitKeeps
<1> QED
  BY <1>6, <1>7, <1>8

LEMMA GiveUpKeeps ==
    ASSUME IInv, NEW r \in Replica, Read(r, At("idle"))
    PROVE  IInv'
<1>1. Fits(db, At("idle"))
  BY HolderFacts, RestingFits DEF Read, Held, Fits, Resting
<1> QED
  BY <1>1, ReadKeeps

LEMMA ReadSnapshotsKeeps ==
    ASSUME IInv, NEW r \in Replica, readSnapshots(r)
    PROVE  IInv'
<1> DEFINE a == proc[r].anchor
           l == [proc[r] EXCEPT !.pc = "confirm", !.parent = HashAt(Len(a))]
<1>1. CASE Len(a) > Height
  <2>1. Read(r, At("idle"))
    BY <1>1 DEF readSnapshots
  <2> QED
    BY <2>1, GiveUpKeeps
<1>2. CASE ~ (Len(a) > Height)
  <2>1. Read(r, l)
    BY <1>2 DEF readSnapshots
  <2>2. Fits(db, proc[r]) /\ chain \in Seq(Blocks)
    BY <2>1, HolderFacts, WorldFacts DEF Read, Held
  <2>3. DOMAIN proc[r] = ProcFields /\ a = db.checkpoint /\ db.checkpoint # <<>>
    BY <2>2 DEF readSnapshots, Fits, InHand
  <2>4. DOMAIN l = ProcFields /\ l.pc = "confirm" /\ l.anchor = a /\ l.parent = HashAt(Len(a))
    BY <2>3 DEF ProcFields
  <2>5. Seen(chain, reorgs, a) /\ a \in Seq(Blocks)
    BY <2>2, <2>3, SeenFacts DEF Fits, Linked
  <2> HIDE DEF l
  <2>6. l.parent = l.anchor \/ Gone(chain, l.anchor)
    BY <2>2, <2>3, <2>4, <2>5, ChainOrGone, HashOfChain
  <2>7. InHand(chain, reorgs, top, db, l)
    BY <2>3, <2>4 DEF InHand, Segment, Ranged
  <2>8. Collected(chain, Restored, Mixed, db, l)
    BY <2>4, <2>6 DEF Collected, Segment, Ranged
  <2>9. Fits(db, l)
    BY <2>2, <2>7, <2>8 DEF Fits
  <2> QED
    BY <2>1, <2>9, ReadKeeps
<1> QED
  BY <1>1, <1>2

LEMMA ConfirmKeeps ==
    ASSUME IInv, NEW r \in Replica, commitCanonicalRead(r)
    PROVE  IInv'
<1> DEFINE b == proc[r].anchor
           rows == storeEntityStateSnapshots(db, b, proc[r].parent)
<1>1. Fits(db, proc[r]) /\ chain \in Seq(Blocks)
  BY HolderFacts, WorldFacts DEF commitCanonicalRead, Commit, Inconsistent, Held
<1>2. /\ proc[r].pc = "confirm" /\ b = db.checkpoint /\ db.checkpoint # <<>>
      /\ Restored \/ b = proc[r].parent \/ Gone(chain, b)
  BY <1>1 DEF commitCanonicalRead, Fits, InHand, Collected
<1>3. Seen(chain, reorgs, b) /\ Linked(chain, reorgs, db) /\ b \in Seq(Blocks)
  BY <1>1, <1>2, SeenFacts DEF Fits, Linked
<1>4. "idle" \in Resting
  BY DEF Resting
<1>5. b \in db.canonical
  <2>1. /\ Len(db.checkpoint) \in db.start..Len(db.checkpoint)
        /\ db.checkpoint \in Seq(Blocks)
    BY <1>1, <1>2, <1>3, LinkedFacts
  <2> QED
    BY <1>1, <1>2, <1>3, <2>1, CanonicalFacts, PrefixWhole
<1>6. CASE HashAt(Len(b)) # b
  <2>1. Commit(r, db, At("idle"))
    BY <1>6 DEF commitCanonicalRead
  <2> QED
    BY <1>4, <2>1, RestKeeps
<1>7. CASE HashAt(Len(b)) = b
  <2>1. Commit(r, rows, At("idle"))
    BY <1>5, <1>7 DEF commitCanonicalRead
  <2>2. Restored \/ proc[r].parent = b
    BY <1>1, <1>2, <1>3, <1>7, ChainOrGone, HashOfChain
  <2>3. DOMAIN db = DbFields
    BY <1>3 DEF Linked
  <2>4. /\ DOMAIN rows = DbFields /\ rows.start = db.start /\ rows.manifest = db.manifest
        /\ rows.checkpoint = db.checkpoint /\ rows.canonical = db.canonical
        /\ rows.finalized = db.finalized /\ rows.logs = db.logs
        /\ rows.snapshots = db.snapshots \cup {[block |-> b, read |-> proc[r].parent]}
        /\ rows.discovered = db.discovered /\ rows.cursors = db.cursors
    BY <2>3 DEF storeEntityStateSnapshots, DbFields
  <2> HIDE DEF rows
  <2>5. Linked(chain, reorgs, rows)
    BY <1>3, <2>4 DEF Linked
  <2>6. Restored \/ \A s \in rows.snapshots : s.read = s.block
    BY <1>1, <2>2, <2>4 DEF Fits, Settled
  <2>7. Settled(chain, top, deep, Restored, rows)
    BY <1>1, <2>4, <2>6 DEF Fits, Settled
  <2>8. /\ DiscoveredInRows(rows) /\ NoLogBefore(rows) /\ LogsBacked(rows)
        /\ (LogsFull(db) => LogsFull(rows))
    BY <1>1, <2>4 DEF Fits, Logged, DiscoveredInRows, NoLogBefore, LogsBacked, LogsFull, Tracked
  <2>9. Logged(Mixed, rows)
    BY <1>1, <2>8 DEF Fits, Logged
  <2>10. Fits(rows, At("idle"))
    BY <1>4, <2>5, <2>7, <2>9, RestingFits DEF Fits
  <2> QED
    BY <2>1, <2>10, CommitKeeps
<1> QED
  BY <1>6, <1>7

LEMMA OpenRangeKeeps ==
    ASSUME IInv, NEW r \in Replica, openRange(r)
    PROVE  IInv'
<1> DEFINE p == proc[r]
<1>1. PICK to \in p.number..Min({p.head, p.number + logScanRangeSize - 1}) :
         Read(r, IF to > Height THEN At("idle")
                 ELSE [p EXCEPT !.pc = "logs", !.to = to, !.anchor = HashAt(to)])
  BY DEF openRange
<1>2. CASE to > Height
  <2>1. Read(r, At("idle"))
    BY <1>1, <1>2
  <2> QED
    BY <2>1, GiveUpKeeps
<1>3. CASE ~ (to > Height)
  <2>1. /\ Fits(db, p) /\ chain \in Seq(Blocks) /\ Seen(chain, reorgs, chain)
        /\ Height \in Nat /\ Len(chain) = Height /\ top \in Nat
    BY <1>1, HolderFacts, WorldFacts DEF Read, Held
  <2>2. Linked(chain, reorgs, db) /\ NextBlock(db) \in Nat
    BY <2>1, NextBlockFacts DEF Fits
  <2>3. /\ DOMAIN p = ProcFields /\ p.number = NextBlock(db) /\ p.parent = db.checkpoint
        /\ p.head \in p.number..top /\ p.contracts \subseteq Contract
        /\ DOMAIN p.headers = {}
    BY <2>1 DEF openRange, Fits, InHand, Segment
  <2>4. p.contracts = Tracked(db) /\ \A x \in p.logs : x = Log(x.block, x.contract)
    BY <2>1 DEF openRange, Fits, Collected, Segment
  <2>5. to \in p.number..p.head /\ to \in 0..Len(chain)
    <3>1. p.head \in Nat /\ p.number \in Nat /\ p.number + logScanRangeSize - 1 \in Nat
      BY <2>1, <2>2, <2>3, IndexerAssumption
    <3>2. Min({p.head, p.number + logScanRangeSize - 1}) \in Nat
          /\ Min({p.head, p.number + logScanRangeSize - 1}) <= p.head
      BY <3>1, MinTwo
    <3> QED
      BY <1>3, <2>1, <2>3, <3>1, <3>2
  <2> DEFINE l == [p EXCEPT !.pc = "logs", !.to = to, !.anchor = HashAt(to)]
  <2>6. /\ DOMAIN l = ProcFields /\ l.pc = "logs" /\ l.to = to /\ l.anchor = HashAt(to)
        /\ l.number = p.number /\ l.parent = p.parent /\ l.head = p.head
        /\ l.contracts = p.contracts /\ l.logs = p.logs /\ l.headers = p.headers
    BY <2>3 DEF ProcFields
  <2>7. Read(r, l)
    BY <1>1, <1>3
  <2> HIDE DEF l
  <2>8. Seen(chain, reorgs, l.anchor) /\ Len(l.anchor) = l.to
    BY <2>1, <2>5, <2>6, SeenPrefix, HashBelowHead
  <2>9. InHand(chain, reorgs, top, db, l)
    BY <2>3, <2>5, <2>6, <2>8 DEF InHand, Segment, Ranged
  <2>10. Collected(chain, Restored, Mixed, db, l)
    BY <2>4, <2>6 DEF Collected, Segment, Ranged
  <2>11. Fits(db, l)
    BY <2>1, <2>9, <2>10 DEF Fits
  <2> QED
    BY <2>7, <2>11, ReadKeeps
<1> QED
  BY <1>2, <1>3

\* On one chain the logs that are asked for are those of the blocks of the range.
LEMMA LogsOfRange ==
    ASSUME chain \in Seq(Blocks), NEW anchor, Seen(chain, reorgs, anchor), OnChain(chain, anchor),
           NEW from \in Nat, from >= 1, NEW k \in from..Len(anchor), NEW c, NEW contracts
    PROVE  Log(Prefix(anchor, k), c) \in LogsOn(contracts, from, Len(anchor))
             <=> c \in contracts /\ c \in LogsOf(Prefix(anchor, k))
<1> DEFINE to == Len(anchor)
<1>1. /\ anchor \in Seq(Blocks) /\ to \in Nat /\ k \in Nat /\ to <= Height
      /\ Height \in Nat /\ Len(chain) = Height /\ Min({to, Height}) = to
  <2>1. /\ anchor \in Seq(Blocks) /\ to \in Nat /\ k \in Nat /\ to <= Height
        /\ Height \in Nat /\ Len(chain) = Height
    BY SeenFacts, LenProperties DEF OnChain, Height
  <2>2. Min({to, Height}) \in {to, Height} /\ Min({to, Height}) <= to
    BY <2>1, MinTwo
  <2> QED
    BY <2>1, <2>2
<1>2. \A n \in from..to : HashAt(n) = Prefix(anchor, n) /\ Len(Prefix(anchor, n)) = n
  <2> TAKE n \in from..to
  <2>1. n \in 0..to
    BY <1>1
  <2> QED
    BY <1>1, <2>1, OnChainPrefix, PrefixFacts, HashBelowHead
<1>3. \A x : x \in LogsOn(contracts, from, to)
               <=> \E n \in from..to : \E e \in contracts \cap LogsOf(HashAt(n)) : x = Log(HashAt(n), e)
  BY <1>1 DEF LogsOn, Log
<1>4. \A n \in from..to : \A e : Log(Prefix(anchor, k), c) = Log(HashAt(n), e) => n = k /\ e = c
  <2> TAKE n \in from..to
  <2> TAKE e
  <2>1. SUFFICES ASSUME Log(Prefix(anchor, k), c) = Log(HashAt(n), e) PROVE n = k /\ e = c
    OBVIOUS
  <2>2. Prefix(anchor, k) = HashAt(n) /\ c = e
    BY <2>1 DEF Log
  <2> QED
    BY <1>2, <2>2
<1> HIDE DEF to
<1>5. ASSUME Log(Prefix(anchor, k), c) \in LogsOn(contracts, from, to)
      PROVE  c \in contracts /\ c \in LogsOf(Prefix(anchor, k))
  <2>1. PICK n \in from..to : \E e \in contracts \cap LogsOf(HashAt(n)) :
                                Log(Prefix(anchor, k), c) = Log(HashAt(n), e)
    BY <1>3, <1>5
  <2> QED
    BY <1>2, <1>4, <2>1 DEF to
<1>6. ASSUME c \in contracts, c \in LogsOf(Prefix(anchor, k))
      PROVE  Log(Prefix(anchor, k), c) \in LogsOn(contracts, from, to)
  <2>1. k \in from..to /\ HashAt(k) = Prefix(anchor, k)
    BY <1>2 DEF to
  <2> QED
    BY <1>3, <1>6, <2>1
<1> QED
  BY <1>5, <1>6 DEF to

LEMMA LogsOnTyped ==
    ASSUME NEW contracts, NEW from, NEW to
    PROVE  \A x \in LogsOn(contracts, from, to) : x = Log(x.block, x.contract)
<1> QED
  BY DEF LogsOn, Log

LEMMA QueryKeeps ==
    ASSUME IInv, NEW r \in Replica, queryLogs(r)
    PROVE  IInv'
<1> DEFINE p == proc[r]
           l == [p EXCEPT !.pc = "close", !.logs = LogsOn(p.contracts, p.number, p.to)]
<1>1. Read(r, l)
  BY DEF queryLogs
<1>2. Fits(db, p) /\ chain \in Seq(Blocks)
  BY <1>1, HolderFacts, WorldFacts DEF Read, Held
<1>3. NextBlock(db) \in Nat /\ NextBlock(db) >= 1
  BY <1>2, NextBlockFacts DEF Fits
<1>4. /\ DOMAIN p = ProcFields /\ p.number = NextBlock(db) /\ p.parent = db.checkpoint
      /\ p.head \in p.number..top /\ p.contracts \subseteq Contract
      /\ DOMAIN p.headers = {} /\ p.to \in p.number..p.head
      /\ Seen(chain, reorgs, p.anchor) /\ Len(p.anchor) = p.to
  BY <1>2 DEF queryLogs, Fits, InHand, Segment, Ranged
<1>5. p.contracts = Tracked(db)
  BY <1>2 DEF queryLogs, Fits, Collected, Segment, Ranged
<1>6. /\ DOMAIN l = ProcFields /\ l.pc = "close" /\ l.to = p.to /\ l.anchor = p.anchor
      /\ l.number = p.number /\ l.parent = p.parent /\ l.head = p.head
      /\ l.contracts = p.contracts /\ l.logs = LogsOn(p.contracts, p.number, p.to)
      /\ l.headers = p.headers
  BY <1>4 DEF ProcFields
<1> HIDE DEF l
<1>7. \A x \in l.logs : x = Log(x.block, x.contract)
  BY <1>6, LogsOnTyped
<1>8. Mixed \/ Gone(chain, l.anchor) \/ Gathered(l)
  <2>1. SUFFICES ASSUME OnChain(chain, p.anchor) PROVE Gathered(l)
    BY <1>2, <1>4, <1>6, ChainOrGone
  <2>2. SUFFICES ASSUME NEW k \in l.number..l.to, NEW c
                 PROVE  Log(Prefix(l.anchor, k), c) \in l.logs
                          <=> c \in l.contracts /\ c \in LogsOf(Prefix(l.anchor, k))
    BY DEF Gathered
  <2> QED
    BY <1>2, <1>3, <1>4, <1>6, <2>1, LogsOfRange
<1>9. InHand(chain, reorgs, top, db, l)
  BY <1>4, <1>6 DEF InHand, Segment, Ranged
<1>10. Collected(chain, Restored, Mixed, db, l)
  BY <1>5, <1>6, <1>7, <1>8 DEF Collected, Segment, Ranged
<1>11. Fits(db, l)
  BY <1>2, <1>9, <1>10 DEF Fits
<1> QED
  BY <1>1, <1>11, ReadKeeps

LEMMA PrunedKeeps ==
    ASSUME IInv, NEW r \in Replica, recoverPrunedLogFailure(r)
    PROVE  IInv'
<1>1. Commit(r, advanceNetworkStartBlock(db, firstLog), At("idle"))
  BY DEF recoverPrunedLogFailure
<1>2. Fits(db, proc[r]) /\ chain \in Seq(Blocks)
  BY <1>1, HolderFacts, WorldFacts DEF Commit, Held
<1>3. firstLog \in 1..MaxPruned
  BY DEF IInv, World
<1>4. /\ Linked(chain, reorgs, advanceNetworkStartBlock(db, firstLog))
      /\ Settled(chain, top, deep, Restored, advanceNetworkStartBlock(db, firstLog))
      /\ Logged(Mixed, advanceNetworkStartBlock(db, firstLog))
  BY <1>2, <1>3, AdvanceHolds DEF Fits
<1>5. Fits(advanceNetworkStartBlock(db, firstLog), At("idle"))
  BY <1>4, RestingFits DEF Fits, Resting
<1> QED
  BY <1>1, <1>5, CommitKeeps

LEMMA CloseKeeps ==
    ASSUME IInv, NEW r \in Replica, closeRange(r)
    PROVE  IInv'
<1> DEFINE p == proc[r]
           l == [p EXCEPT !.pc = "headers"]
<1>1. CASE HashAt(p.to) # p.anchor
  <2>1. Read(r, At("idle"))
    BY <1>1 DEF closeRange
  <2> QED
    BY <2>1, GiveUpKeeps
<1>2. CASE HashAt(p.to) = p.anchor
  <2>1. Read(r, l)
    BY <1>2 DEF closeRange
  <2>2. Fits(db, p) /\ chain \in Seq(Blocks)
    BY <2>1, HolderFacts, WorldFacts DEF Read, Held
  <2>3. /\ DOMAIN p = ProcFields /\ p.number = NextBlock(db) /\ p.parent = db.checkpoint
        /\ p.head \in p.number..top /\ p.contracts \subseteq Contract
        /\ DOMAIN p.headers = {} /\ p.to \in p.number..p.head
        /\ Seen(chain, reorgs, p.anchor) /\ Len(p.anchor) = p.to
    BY <2>2 DEF closeRange, Fits, InHand, Segment, Ranged
  <2>4. /\ p.contracts = Tracked(db) /\ (Mixed \/ Gone(chain, p.anchor) \/ Gathered(p))
        /\ \A x \in p.logs : x = Log(x.block, x.contract)
    BY <2>2 DEF closeRange, Fits, Collected, Segment, Ranged
  <2>5. OnChain(chain, p.anchor)
    <3>1. NextBlock(db) \in Nat /\ NextBlock(db) >= 1
      BY <2>2, NextBlockFacts DEF Fits
    <3>2. p.anchor \in Seq(Blocks) /\ Len(p.anchor) # 0
      BY <2>3, <3>1, SeenFacts
    <3>3. p.anchor # <<>>
      BY <3>2, EmptyBlock
    <3> QED
      BY <1>2, <2>2, <2>3, <3>2, <3>3, HashOfChain
  <2>6. Mixed \/ Gathered(p)
    BY <2>2, <2>3, <2>4, <2>5, ChainOrGone
  <2>7. /\ DOMAIN l = ProcFields /\ l.pc = "headers" /\ l.to = p.to /\ l.anchor = p.anchor
        /\ l.number = p.number /\ l.parent = p.parent /\ l.head = p.head
        /\ l.contracts = p.contracts /\ l.logs = p.logs /\ l.headers = p.headers
    BY <2>3 DEF ProcFields
  <2> HIDE DEF l
  <2>8. Mixed \/ Gathered(l)
    BY <2>6, <2>7 DEF Gathered
  <2>9. InHand(chain, reorgs, top, db, l)
    BY <2>3, <2>7 DEF InHand, Segment, Ranged
  <2>10. Collected(chain, Restored, Mixed, db, l)
    BY <2>3, <2>4, <2>7, <2>8 DEF Collected, Segment, Ranged
  <2>11. Fits(db, l)
    BY <2>2, <2>9, <2>10 DEF Fits
  <2> QED
    BY <2>1, <2>11, ReadKeeps
<1> QED
  BY <1>1, <1>2

LEMMA HeadersKeeps ==
    ASSUME IInv, NEW r \in Replica, readHeaders(r)
    PROVE  IInv'
<1> DEFINE p == proc[r]
           wanted == p.number..p.to
<1>1. PICK n \in wanted \ DOMAIN p.headers :
         LET known == WithHeader(p.headers, n)
         IN  Read(r, IF n > Height THEN At("idle")
                   ELSE IF DOMAIN known # wanted THEN [p EXCEPT !.headers = known]
                   ELSE IF known[p.to] # p.anchor THEN At("idle")
                   ELSE [p EXCEPT !.pc = "index", !.headers = known])
  BY DEF readHeaders
<1> DEFINE known == WithHeader(p.headers, n)
<1>2. /\ Fits(db, p) /\ chain \in Seq(Blocks) /\ Height \in Nat /\ Seen(chain, reorgs, chain)
      /\ Mixed \in BOOLEAN /\ Len(chain) = Height /\ top \in Nat
  BY <1>1, HolderFacts, WorldFacts DEF Read, Held
<1>3. NextBlock(db) \in Nat /\ NextBlock(db) >= 1
  BY <1>2, NextBlockFacts DEF Fits
<1>4. /\ DOMAIN p = ProcFields /\ p.pc = "headers" /\ p.number = NextBlock(db)
      /\ p.parent = db.checkpoint
      /\ p.head \in p.number..top /\ p.contracts \subseteq Contract
      /\ p.to \in p.number..p.head /\ DOMAIN p.headers \subseteq p.number..p.to
      /\ Seen(chain, reorgs, p.anchor) /\ Len(p.anchor) = p.to
      /\ \A m \in DOMAIN p.headers : Seen(chain, reorgs, p.headers[m]) /\ Len(p.headers[m]) = m
  BY <1>2 DEF readHeaders, Fits, InHand, Segment, Ranged
<1>5. /\ p.contracts = Tracked(db) /\ \A x \in p.logs : x = Log(x.block, x.contract)
      /\ Mixed \/ (Gathered(p) /\ \A m \in DOMAIN p.headers : OnChain(chain, p.headers[m]))
  BY <1>2, <1>4 DEF Fits, Collected, Segment, Ranged
<1>6. /\ DOMAIN known = DOMAIN p.headers \cup {n} /\ known[n] = HashAt(n)
      /\ \A m \in DOMAIN p.headers : known[m] = p.headers[m]
  BY DEF WithHeader
<1>7. n \in p.number..p.to /\ n \in Nat /\ p.to \in Nat
  BY <1>2, <1>3, <1>4
<1> HIDE DEF known
<1>8. CASE n > Height
  <2>1. Read(r, At("idle"))
    BY <1>1, <1>8
  <2> QED
    BY <2>1, GiveUpKeeps
<1>9. ASSUME ~ (n > Height)
      PROVE  /\ DOMAIN known \subseteq wanted
             /\ \A m \in DOMAIN known : Seen(chain, reorgs, known[m]) /\ Len(known[m]) = m
             /\ Mixed \/ \A m \in DOMAIN known : OnChain(chain, known[m])
  <2>1. n \in 0..Len(chain)
    BY <1>2, <1>7, <1>9
  <2>2. HashAt(n) = Prefix(chain, n) /\ Len(HashAt(n)) = n
    BY <1>2, <2>1, HashBelowHead
  <2>3. Seen(chain, reorgs, HashAt(n))
    BY <1>2, <2>1, <2>2, SeenPrefix
  <2>4. OnChain(chain, HashAt(n))
    BY <2>1, <2>2 DEF OnChain
  <2> QED
    BY <1>4, <1>5, <1>6, <1>7, <2>2, <2>3, <2>4
<1>10. CASE ~ (n > Height) /\ DOMAIN known # wanted
  <2> DEFINE l == [p EXCEPT !.headers = known]
  <2>1. Read(r, l)
    BY <1>1, <1>10 DEF known
  <2>2. /\ DOMAIN l = ProcFields /\ l.pc = "headers" /\ l.to = p.to /\ l.anchor = p.anchor
        /\ l.number = p.number /\ l.parent = p.parent /\ l.head = p.head
        /\ l.contracts = p.contracts /\ l.logs = p.logs /\ l.headers = known
    BY <1>4 DEF ProcFields
  <2> HIDE DEF l
  <2>3. Mixed \/ Gathered(l)
    BY <1>5, <2>2 DEF Gathered
  <2>4. InHand(chain, reorgs, top, db, l)
    BY <1>4, <1>9, <1>10, <2>2 DEF InHand, Segment, Ranged
  <2>5. Collected(chain, Restored, Mixed, db, l)
    BY <1>5, <1>9, <1>10, <2>2, <2>3 DEF Collected, Segment, Ranged
  <2>6. Fits(db, l)
    BY <1>2, <2>4, <2>5 DEF Fits
  <2> QED
    BY <2>1, <2>6, ReadKeeps
<1>11. CASE ~ (n > Height) /\ DOMAIN known = wanted /\ known[p.to] # p.anchor
  <2>1. Read(r, At("idle"))
    BY <1>1, <1>11 DEF known
  <2> QED
    BY <2>1, GiveUpKeeps
<1>12. CASE ~ (n > Height) /\ DOMAIN known = wanted /\ known[p.to] = p.anchor
  <2> DEFINE l == [p EXCEPT !.pc = "index", !.headers = known]
  <2>1. Read(r, l)
    BY <1>1, <1>12 DEF known
  <2>2. /\ DOMAIN l = ProcFields /\ l.pc = "index" /\ l.to = p.to /\ l.anchor = p.anchor
        /\ l.number = p.number /\ l.parent = p.parent /\ l.head = p.head
        /\ l.contracts = p.contracts /\ l.logs = p.logs /\ l.headers = known
    BY <1>4 DEF ProcFields
  <2> HIDE DEF l
  <2>3. Mixed \/ Gathered(l)
    BY <1>5, <2>2 DEF Gathered
  <2>4. Mixed \/ \A m \in l.number..l.to : l.headers[m] = Prefix(l.anchor, m)
    <3>1. SUFFICES ASSUME Mixed = FALSE, NEW m \in p.number..p.to
                   PROVE  known[m] = Prefix(p.anchor, m)
      BY <1>2, <2>2
    <3>2. p.to \in p.number..p.to /\ m \in 0..p.to
      BY <1>3, <1>4, <1>7
    <3>3. OnChain(chain, known[m]) /\ Len(known[m]) = m /\ OnChain(chain, p.anchor)
      BY <1>9, <1>12, <3>1, <3>2
    <3>4. known[m] = Prefix(chain, m)
      BY <3>3 DEF OnChain
    <3> QED
      BY <1>2, <1>4, <3>2, <3>3, <3>4, OnChainPrefix
  <2>5. InHand(chain, reorgs, top, db, l)
    BY <1>4, <1>9, <1>12, <2>2 DEF InHand, Segment, Ranged
  <2>6. Tracked(db) \subseteq l.contracts
        /\ l.contracts \subseteq Tracked(db) \cup Last(l.headers[l.number]).creates
    BY <1>5, <2>2
  <2>7. Collected(chain, Restored, Mixed, db, l)
    BY <1>2, <1>5, <2>2, <2>3, <2>4, <2>6 DEF Collected, Segment, Ranged
  <2>8. Fits(db, l)
    BY <1>2, <2>5, <2>7 DEF Fits
  <2> QED
    BY <2>1, <2>8, ReadKeeps
<1> QED
  BY <1>8, <1>10, <1>11, <1>12

\* What the holder has when it indexes a block.
LEMMA IndexFacts ==
    ASSUME IInv, NEW l, l.pc = "index", Fits(db, l)
    PROVE  /\ DOMAIN l = ProcFields /\ l.number = NextBlock(db) /\ l.parent = db.checkpoint
           /\ l.head \in l.number..top /\ l.contracts \subseteq Contract
           /\ l.to \in l.number..l.head /\ l.number..l.to \subseteq DOMAIN l.headers
           /\ Seen(chain, reorgs, l.anchor) /\ Len(l.anchor) = l.to
           /\ \A n \in DOMAIN l.headers : Seen(chain, reorgs, l.headers[n]) /\ Len(l.headers[n]) = n
           /\ \A x \in l.logs : x = Log(x.block, x.contract)
           /\ Tracked(db) \subseteq l.contracts
           /\ l.contracts \subseteq Tracked(db) \cup Last(l.headers[l.number]).creates
           /\ Mixed \/ (Gathered(l) /\ \A n \in l.number..l.to : l.headers[n] = Prefix(l.anchor, n))
<1>1. /\ DOMAIN l = ProcFields /\ l.number = NextBlock(db) /\ l.parent = db.checkpoint
      /\ l.head \in l.number..top /\ l.contracts \subseteq Contract
      /\ l.to \in l.number..l.head /\ l.number..l.to \subseteq DOMAIN l.headers
      /\ Seen(chain, reorgs, l.anchor) /\ Len(l.anchor) = l.to
      /\ \A n \in DOMAIN l.headers : Seen(chain, reorgs, l.headers[n]) /\ Len(l.headers[n]) = n
  BY DEF Fits, InHand, Segment, Ranged
<1>2. /\ \A x \in l.logs : x = Log(x.block, x.contract)
      /\ Tracked(db) \subseteq l.contracts
      /\ l.contracts \subseteq Tracked(db) \cup Last(l.headers[l.number]).creates
      /\ Mixed \/ (Gathered(l) /\ \A n \in l.number..l.to : l.headers[n] = Prefix(l.anchor, n))
  BY DEF Fits, Collected, Segment, Ranged
<1> QED
  BY <1>1, <1>2

LEMMA DiscoverKeeps ==
    ASSUME IInv, NEW r \in Replica, discover(r)
    PROVE  IInv'
<1> DEFINE p == proc[r]
           b == p.headers[p.number]
           found == Announced(p, b)
           l == [p EXCEPT !.contracts = @ \cup found,
                          !.logs = @ \cup LogsOn(found, p.number, p.to)]
<1>1. CASE HashAt(p.to) # p.headers[p.to]
  <2>1. Read(r, At("idle"))
    BY <1>1 DEF discover
  <2> QED
    BY <2>1, GiveUpKeeps
<1>2. CASE HashAt(p.to) = p.headers[p.to]
  <2>1. Read(r, l) /\ p.pc = "index"
    BY <1>2 DEF discover
  <2>2. Fits(db, p) /\ chain \in Seq(Blocks) /\ Mixed \in BOOLEAN
    BY <2>1, HolderFacts, WorldFacts DEF Read, Held
  <2>3. NextBlock(db) \in Nat /\ NextBlock(db) >= 1 /\ top \in Nat
    BY <2>2, WorldFacts, NextBlockFacts DEF Fits
  <2>4. /\ DOMAIN p = ProcFields /\ p.number = NextBlock(db) /\ p.parent = db.checkpoint
        /\ p.head \in p.number..top /\ p.contracts \subseteq Contract
        /\ p.to \in p.number..p.head /\ p.number..p.to \subseteq DOMAIN p.headers
        /\ Seen(chain, reorgs, p.anchor) /\ Len(p.anchor) = p.to
        /\ \A n \in DOMAIN p.headers : Seen(chain, reorgs, p.headers[n]) /\ Len(p.headers[n]) = n
        /\ \A x \in p.logs : x = Log(x.block, x.contract)
        /\ Tracked(db) \subseteq p.contracts
        /\ p.contracts \subseteq Tracked(db) \cup Last(b).creates
        /\ Mixed \/ (Gathered(p) /\ \A n \in p.number..p.to : p.headers[n] = Prefix(p.anchor, n))
    BY <2>1, <2>2, IndexFacts
  <2>5. found \subseteq Last(b).creates
    BY DEF Announced
  <2>6. found \subseteq Contract
    <3>1. p.number \in p.number..p.to /\ p.number >= 1
      BY <2>3, <2>4
    <3>2. Seen(chain, reorgs, b) /\ Len(b) = p.number
      BY <2>4, <3>1
    <3>3. b[Len(b)] \in Blocks
      BY <2>3, <2>4, <3>1, <3>2, SeenFacts
    <3> QED
      BY <2>5, <3>3 DEF Blocks, Last
  <2> HIDE DEF found
  <2>7. /\ DOMAIN l = ProcFields /\ l.pc = "index" /\ l.to = p.to /\ l.anchor = p.anchor
        /\ l.number = p.number /\ l.parent = p.parent /\ l.head = p.head
        /\ l.contracts = p.contracts \cup found
        /\ l.logs = p.logs \cup LogsOn(found, p.number, p.to) /\ l.headers = p.headers
    BY <2>1, <2>4 DEF ProcFields
  <2> HIDE DEF l
  <2>8. \A x \in l.logs : x = Log(x.block, x.contract)
    BY <2>4, <2>7, LogsOnTyped
  <2>9. Mixed \/ Gathered(l)
    <3>1. SUFFICES ASSUME Mixed = FALSE PROVE Gathered(l)
      BY <2>2
    <3>2. Gathered(p) /\ \A n \in p.number..p.to : p.headers[n] = Prefix(p.anchor, n)
      BY <2>4, <3>1
    <3>3. OnChain(chain, p.anchor)
      <4>1. p.to \in p.number..p.to
        BY <2>3, <2>4
      <4>2. Prefix(p.anchor, p.to) = p.anchor
        BY <2>4, SeenFacts, PrefixWhole
      <4>3. p.anchor \in Seq(Blocks) /\ Len(p.anchor) # 0
        BY <2>3, <2>4, SeenFacts
      <4>4. p.anchor # <<>> /\ HashAt(Len(p.anchor)) = p.anchor
        BY <1>2, <2>4, <3>2, <4>1, <4>2, <4>3, EmptyBlock
      <4> QED
        BY <2>2, <4>3, <4>4, HashOfChain
    <3>4. SUFFICES ASSUME NEW k \in l.number..l.to, NEW c
                   PROVE  Log(Prefix(l.anchor, k), c) \in l.logs
                            <=> c \in l.contracts /\ c \in LogsOf(Prefix(l.anchor, k))
      BY DEF Gathered
    <3>5. Log(Prefix(p.anchor, k), c) \in p.logs
            <=> c \in p.contracts /\ c \in LogsOf(Prefix(p.anchor, k))
      BY <2>7, <3>2 DEF Gathered
    <3>6. Log(Prefix(p.anchor, k), c) \in LogsOn(found, p.number, p.to)
            <=> c \in found /\ c \in LogsOf(Prefix(p.anchor, k))
      BY <2>2, <2>3, <2>4, <2>7, <3>3, LogsOfRange
    <3> QED
      BY <2>7, <3>5, <3>6
  <2>10. Mixed \/ \A n \in l.number..l.to : l.headers[n] = Prefix(l.anchor, n)
    BY <2>4, <2>7
  <2>11. InHand(chain, reorgs, top, db, l)
    BY <2>4, <2>6, <2>7 DEF InHand, Segment, Ranged
  <2>12. /\ Tracked(db) \subseteq l.contracts
         /\ l.contracts \subseteq Tracked(db) \cup Last(l.headers[l.number]).creates
    BY <2>4, <2>5, <2>7
  <2>13. Collected(chain, Restored, Mixed, db, l)
    BY <2>2, <2>7, <2>8, <2>9, <2>10, <2>12 DEF Collected, Segment, Ranged
  <2>14. Fits(db, l)
    BY <2>2, <2>11, <2>13 DEF Fits
  <2> QED
    BY <2>1, <2>14, ReadKeeps
<1> QED
  BY <1>1, <1>2

\* The block next in a segment is the next row, with its logs and discoveries.
LEMMA NextInSegment ==
    ASSUME IInv, NEW p, p.pc = "index", Fits(db, p),
           NEW b, b = p.headers[p.number], Continuous(p, b), Announced(p, b) = {},
           NEW logs, logs = {x \in p.logs : x.block = b},
           NEW found, found = {c \in p.contracts \cap Last(b).creates :
                                 db.discovered[c] = 0 /\ c \notin db.manifest}
    PROVE  /\ NextRow(chain, reorgs, db, b) /\ assertBlockAppend(db, b, Front(b))
           /\ Scanned(Mixed, db, b, p.contracts, logs, found)
<1>1. chain \in Seq(Blocks) /\ Mixed \in BOOLEAN
  BY WorldFacts
<1>2. NextBlock(db) \in Nat /\ NextBlock(db) >= 1 /\ top \in Nat
  BY <1>1, WorldFacts, NextBlockFacts DEF Fits
<1>3. /\ p.number = NextBlock(db) /\ p.parent = db.checkpoint
      /\ p.head \in p.number..top /\ p.contracts \subseteq Contract
      /\ p.to \in p.number..p.head /\ p.number..p.to \subseteq DOMAIN p.headers
      /\ \A n \in DOMAIN p.headers : Seen(chain, reorgs, p.headers[n]) /\ Len(p.headers[n]) = n
      /\ \A x \in p.logs : x = Log(x.block, x.contract)
      /\ Tracked(db) \subseteq p.contracts
      /\ p.contracts \subseteq Tracked(db) \cup Last(b).creates
      /\ Mixed \/ (Gathered(p) /\ \A n \in p.number..p.to : p.headers[n] = Prefix(p.anchor, n))
  BY IndexFacts
<1>4. p.number \in p.number..p.to
  BY <1>2, <1>3
<1>5. Seen(chain, reorgs, b) /\ Len(b) = p.number
  BY <1>3, <1>4
<1>6. OnChain(chain, b)
  <2>1. b \in Seq(Blocks) /\ Len(b) # 0
    BY <1>2, <1>3, <1>5, SeenFacts
  <2>2. b # <<>> /\ HashAt(Len(b)) = b
    BY <2>1, EmptyBlock DEF Continuous
  <2> QED
    BY <1>1, <2>1, <2>2, HashOfChain
<1>7. db.checkpoint # <<>> => Front(b) = db.checkpoint
  BY <1>3 DEF Continuous
<1>8. NextRow(chain, reorgs, db, b)
  BY <1>3, <1>5, <1>6, <1>7 DEF NextRow
<1>9. assertBlockAppend(db, b, Front(b))
  BY <1>3, <1>5, <1>7 DEF assertBlockAppend
<1>10. \A x \in logs : x = Log(b, x.contract)
  BY <1>3
<1>11. logs = {} \/ Last(b).creates \subseteq p.contracts
  BY DEF Announced
<1>12. Mixed \/ \A c : Log(b, c) \in logs <=> c \in p.contracts /\ c \in LogsOf(b)
  <2>1. SUFFICES ASSUME Mixed = FALSE, NEW c
                 PROVE  Log(b, c) \in logs <=> c \in p.contracts /\ c \in LogsOf(b)
    BY <1>1
  <2>2. b = Prefix(p.anchor, p.number)
    BY <1>3, <1>4, <2>1
  <2>3. Log(b, c) \in p.logs <=> c \in p.contracts /\ c \in LogsOf(b)
    BY <1>3, <1>4, <2>1, <2>2 DEF Gathered
  <2>4. Log(b, c).block = b
    BY DEF Log
  <2> QED
    BY <2>3, <2>4
<1>13. Scanned(Mixed, db, b, p.contracts, logs, found)
  BY <1>3, <1>10, <1>11, <1>12 DEF Scanned
<1> QED
  BY <1>8, <1>9, <1>13

\* The rows with the next block in them, and that its contracts are tracked.
LEMMA RowsWithNext ==
    ASSUME IInv, NEW b, NextRow(chain, reorgs, db, b), NEW contracts, NEW logs, NEW found,
           Scanned(Mixed, db, b, contracts, logs, found),
           NEW head \in Nat, head <= top, NEW scanned, NEW rows,
           Stored(db, b, logs, found, head, scanned, rows)
    PROVE  /\ Linked(chain, reorgs, rows) /\ Settled(chain, top, deep, Restored, rows)
           /\ Logged(Mixed, rows)
           /\ Tracked(rows) = contracts /\ rows.checkpoint = b
<1>1. /\ chain \in Seq(Blocks) /\ Len(chain) <= MaxHead /\ Mixed \in BOOLEAN
      /\ deep \in BOOLEAN /\ top \in Nat
  BY WorldFacts
<1>2. Linked(chain, reorgs, db) /\ Settled(chain, top, deep, Restored, db) /\ Logged(Mixed, db)
  BY DEF IInv
<1>3. Linked(chain, reorgs, rows)
  BY <1>1, <1>2, LinkedStore
<1>4. Settled(chain, top, deep, Restored, rows)
  BY <1>1, <1>2, SettledStore
<1>5. Logged(Mixed, rows)
  BY <1>1, <1>2, LoggedStore
<1>6. Tracked(rows) = contracts
  BY <1>1, <1>2, TrackedStore
<1>7. rows.checkpoint = b
  BY DEF Stored
<1> QED
  BY <1>3, <1>4, <1>5, <1>6, <1>7

LEMMA IndexBlockKeeps ==
    ASSUME IInv, NEW r \in Replica, indexBlock(r)
    PROVE  IInv'
<1> DEFINE p == proc[r]
           b == p.headers[p.number]
           found == {c \in p.contracts \cap Last(b).creates : db.discovered[c] = 0
                                                              /\ c \notin db.manifest}
           logs == {x \in p.logs : x.block = b}
           scanned == IF p.number = p.to THEN p.contracts ELSE {}
           rows == storeBlock(db, b, logs, found, p.head, scanned)
           l == [p EXCEPT !.number = @ + 1, !.parent = b]
<1>1. CASE ~Continuous(p, b)
  <2>1. Commit(r, db, At("idle"))
    BY <1>1 DEF indexBlock
  <2>2. "idle" \in Resting
    BY DEF Resting
  <2> QED
    BY <2>1, <2>2, RestKeeps
<1>2. CASE Continuous(p, b)
  <2>1. p.pc = "index" /\ Announced(p, b) = {} /\ lease = r
    BY <1>2 DEF indexBlock, Commit, Inconsistent, Held
  <2>2. Fits(db, p) /\ chain \in Seq(Blocks) /\ Mixed \in BOOLEAN
    BY <2>1, HolderFacts, WorldFacts
  <2>3. /\ NextRow(chain, reorgs, db, b) /\ assertBlockAppend(db, b, Front(b))
        /\ Scanned(Mixed, db, b, p.contracts, logs, found)
    BY <1>2, <2>1, <2>2, NextInSegment
  <2>4. Commit(r, rows, IF p.number = p.to THEN At("idle") ELSE l)
    BY <1>2, <2>3 DEF indexBlock
  <2>5. NextBlock(db) \in Nat /\ NextBlock(db) >= 1 /\ top \in Nat /\ DOMAIN db = DbFields
    BY <2>2, WorldFacts, NextBlockFacts DEF Fits, Linked
  <2>6. /\ DOMAIN p = ProcFields /\ p.number = NextBlock(db) /\ p.parent = db.checkpoint
        /\ p.head \in p.number..top /\ p.contracts \subseteq Contract
        /\ p.to \in p.number..p.head /\ p.number..p.to \subseteq DOMAIN p.headers
        /\ Seen(chain, reorgs, p.anchor) /\ Len(p.anchor) = p.to
        /\ \A n \in DOMAIN p.headers : Seen(chain, reorgs, p.headers[n]) /\ Len(p.headers[n]) = n
        /\ \A x \in p.logs : x = Log(x.block, x.contract)
        /\ Mixed \/ (Gathered(p) /\ \A n \in p.number..p.to : p.headers[n] = Prefix(p.anchor, n))
    BY <2>1, <2>2, IndexFacts
  <2>7. p.head \in Nat /\ p.head <= top /\ Len(b) = p.number
    BY <2>3, <2>5, <2>6 DEF NextRow
  <2>8. Stored(db, b, logs, found, p.head, scanned, rows)
    BY <2>5, StoreFields
  <2> HIDE DEF rows, logs, found, scanned, b
  <2>9. /\ Linked(chain, reorgs, rows) /\ Settled(chain, top, deep, Restored, rows)
        /\ Logged(Mixed, rows)
        /\ Tracked(rows) = p.contracts /\ rows.checkpoint = b
    BY <2>3, <2>7, <2>8, RowsWithNext
  <2>10. CASE p.number = p.to
    <3>1. Commit(r, rows, At("idle"))
      BY <2>4, <2>10
    <3>2. "idle" \in Resting
      BY DEF Resting
    <3>3. Fits(rows, At("idle"))
      BY <2>9, <3>2, RestingFits DEF Fits
    <3> QED
      BY <3>1, <3>3, CommitKeeps
  <2>11. CASE p.number # p.to
    <3>1. Commit(r, rows, l)
      BY <2>4, <2>11
    <3>2. /\ DOMAIN l = ProcFields /\ l.pc = "index" /\ l.to = p.to /\ l.anchor = p.anchor
          /\ l.number = p.number + 1 /\ l.parent = b /\ l.head = p.head
          /\ l.contracts = p.contracts /\ l.logs = p.logs /\ l.headers = p.headers
      BY <2>1, <2>6 DEF ProcFields
    <3> HIDE DEF l
    <3>3. NextBlock(rows) = p.number + 1
      <4>1. b # <<>>
        BY <2>5, <2>6, <2>7, EmptyBlock
      <4> QED
        BY <2>7, <2>9, <4>1 DEF NextBlock, indexedBlock
    <3>4. /\ l.number..l.to \subseteq p.number..p.to /\ l.head \in l.number..top
          /\ l.to \in l.number..l.head
      BY <2>5, <2>6, <2>11, <3>2
    <3>5. InHand(chain, reorgs, top, rows, l)
      BY <2>6, <2>9, <3>2, <3>3, <3>4 DEF InHand, Segment, Ranged
    <3>6. Mixed \/ (Gathered(l) /\ \A n \in l.number..l.to : l.headers[n] = Prefix(l.anchor, n))
      BY <2>6, <3>2, <3>4 DEF Gathered
    <3>7. /\ \A x \in l.logs : x = Log(x.block, x.contract)
          /\ Tracked(rows) \subseteq l.contracts
          /\ l.contracts \subseteq Tracked(rows) \cup Last(l.headers[l.number]).creates
      BY <2>6, <2>9, <3>2
    <3>8. Collected(chain, Restored, Mixed, rows, l)
      BY <3>2, <3>6, <3>7 DEF Collected, Segment, Ranged
    <3>9. Fits(rows, l)
      BY <2>9, <3>5, <3>8 DEF Fits
    <3> QED
      BY <3>1, <3>9, CommitKeeps
  <2> QED
    BY <2>10, <2>11
<1> QED
  BY <1>1, <1>2

-----------------------------------------------------------------------------
(* The invariant.                                                          *)

LEMMA InitHolds ==
    ASSUME Init
    PROVE  IInv
<1>1. /\ confirmationDepth \in Nat /\ MaxHead \in Nat /\ MaxReorgs \in Nat /\ MaxFaults \in Nat
      /\ MaxPruned \in Nat /\ MaxPruned >= 1 /\ NoReplica \notin Replica
  BY IndexerAssumption
<1>2. chain = <<>> /\ chain \in Seq(Blocks) /\ Len(chain) = 0 /\ DOMAIN chain = {}
  BY EmptySeq DEF Init
<1>3. Seen(chain, reorgs, chain)
  BY <1>2 DEF Seen, Realistic
<1>4. World
  <2>1. top \in Height..MaxHead /\ reorgs \in 0..MaxReorgs /\ firstLog \in 1..MaxPruned
        /\ faults \in 0..MaxFaults
    BY <1>1, <1>2 DEF Init, Height
  <2>2. {deep, torn} \subseteq BOOLEAN /\ alarm = FALSE /\ lease \in Replica \cup {NoReplica}
        /\ DOMAIN proc = Replica
    BY DEF Init
  <2> QED
    BY <1>3, <2>1, <2>2 DEF World
<1>5. /\ DOMAIN db = DbFields /\ db.start = 1 /\ db.manifest = {} /\ db.checkpoint = <<>>
      /\ db.canonical = {} /\ db.finalized = {} /\ db.logs = {} /\ db.snapshots = {}
      /\ db.discovered = [c \in Contract |-> 0] /\ db.cursors = [c \in Contract |-> NoCursor]
  BY DEF Init, Empty, DbFields
<1>6. Len(db.checkpoint) = 0 /\ db.start..Len(db.checkpoint) = {}
  BY <1>2, <1>5
<1>7. db.discovered \in [Contract -> 0..MaxHead] /\ db.cursors \in [Contract -> Cursors]
  BY <1>1, <1>5, NoCursorTyped
<1>8. Linked(chain, reorgs, db)
  BY <1>1, <1>2, <1>3, <1>5, <1>6, <1>7 DEF Linked, Within
<1>9. Settled(chain, top, deep, Restored, db)
  BY <1>5 DEF Settled
<1>10. Logged(Mixed, db)
  BY <1>5 DEF Logged, DiscoveredInRows, NoLogBefore, LogsBacked, LogsFull
<1>11. \A r \in Replica : lease # r
  BY <1>1 DEF Init
<1> QED
  BY <1>4, <1>8, <1>9, <1>10, <1>11 DEF IInv

LEMMA StepKeeps ==
    ASSUME IInv, NEW r \in Replica, Step(r)
    PROVE  IInv'
<1>1. CASE tryAcquireIndexerLock(r) \/ LeaseLost(r)
  BY <1>1, LeaseKeeps
<1>2. CASE seed(r)
  BY <1>2, SeedKeeps
<1>3. CASE reconcileManifestBackfill(r)
  BY <1>3, BackfillKeeps
<1>4. CASE poll(r)
  BY <1>4, PollKeeps
<1>5. CASE reconcileReorg(r)
  BY <1>5, ReorgKeeps
<1>6. CASE nextSegment(r)
  BY <1>6, SegmentKeeps
<1>7. CASE readSnapshots(r)
  BY <1>7, ReadSnapshotsKeeps
<1>8. CASE commitCanonicalRead(r)
  BY <1>8, ConfirmKeeps
<1>9. CASE openRange(r)
  BY <1>9, OpenRangeKeeps
<1>10. CASE queryLogs(r)
  BY <1>10, QueryKeeps
<1>11. CASE recoverPrunedLogFailure(r)
  BY <1>11, PrunedKeeps
<1>12. CASE closeRange(r)
  BY <1>12, CloseKeeps
<1>13. CASE readHeaders(r)
  BY <1>13, HeadersKeeps
<1>14. CASE discover(r)
  BY <1>14, DiscoverKeeps
<1>15. CASE indexBlock(r)
  BY <1>15, IndexBlockKeeps
<1> QED
  BY <1>1, <1>2, <1>3, <1>4, <1>5, <1>6, <1>7, <1>8, <1>9, <1>10, <1>11, <1>12, <1>13, <1>14,
     <1>15 DEF Step

LEMMA NextKeeps ==
    ASSUME IInv, [Next]_vars
    PROVE  IInv'
<1>1. CASE Extend
  BY <1>1, ExtendKeeps
<1>2. CASE Reorganise
  BY <1>2, ReorganiseKeeps
<1>3. CASE PruneLogs
  BY <1>3, PruneKeeps
<1>4. CASE SessionDies
  BY <1>4, SessionDiesKeeps
<1>5. ASSUME NEW r \in Replica, Step(r) PROVE IInv'
  BY <1>5, StepKeeps
<1>6. ASSUME NEW r \in Replica, RequestFails(r) \/ Crash(r) PROVE IInv'
  BY <1>6, LeaseKeeps
<1>7. CASE UNCHANGED vars
  <2>1. UNCHANGED <<chain, top, reorgs, deep, torn, back, firstLog, faults, db, lease, proc, alarm>>
    BY <1>7 DEF vars, node
  <2> QED
    BY <2>1 DEF IInv, World, Height, Restored, Mixed
<1> QED
  BY <1>1, <1>2, <1>3, <1>4, <1>5, <1>6, <1>7 DEF Next

\* Whatever the node, the replicas and the faults do, the rows are linked,
\* settled and logged, and what the holder of the lease has read fits them
\* (the transactions of database.ts and the polls of indexer.ts).
THEOREM IndexerInvariance == Spec => []IInv
<1>1. Init => IInv
  BY InitHolds
<1>2. IInv /\ [Next]_vars => IInv'
  BY NextKeeps
<1> QED
  BY <1>1, <1>2, PTL DEF Spec

\* The canonical rows are the checkpoint and its ancestors down to the start, no
\* cursor is ahead of them, and none of the assertions that guard the database
\* (assertBlockAppend, the ancestor of a replay, the cursors of a segment, the
\* row of a confirmed read) ever fires (auditIntegrity).
THEOREM AuditCleanThm == Spec => []AuditClean
<1>1. ASSUME IInv PROVE AuditClean
  <2>1. /\ World /\ Linked(chain, reorgs, db) /\ Settled(chain, top, deep, Restored, db)
        /\ chain \in Seq(Blocks)
    BY <1>1, WorldFacts DEF IInv
  <2>2. /\ db.checkpoint \in Seq(Blocks) /\ Len(db.checkpoint) \in Nat /\ db.start \in Nat
    BY <2>1, LinkedFacts
  <2>3. db.canonical \subseteq Seq(Blocks)
    BY <2>1, CanonicalFacts
  <2>4. Height <= top /\ top <= MaxHead
    BY <1>1, WorldFacts
  <2>5. TypeOK
    BY <2>1, <2>2, <2>3, <2>4 DEF TypeOK, World, Linked, Settled, Cursors
  <2>6. db.canonical = {SubSeq(db.checkpoint, 1, n) : n \in db.start..indexedBlock(db)}
    BY <2>1 DEF Linked, Prefix, indexedBlock
  <2>7. ASSUME NEW c \in Contract PROVE db.cursors[c].last <= indexedBlock(db)
    <3>1. Within(db.cursors[c], db.start, Len(db.checkpoint))
      BY <2>1 DEF Linked
    <3>2. CASE db.cursors[c] = NoCursor
      BY <2>2, <3>2 DEF NoCursor, indexedBlock
    <3>3. CASE db.cursors[c] # NoCursor
      BY <2>2, <3>1, <3>3 DEF Within, indexedBlock
    <3> QED
      BY <3>2, <3>3
  <2>8. ~alarm
    BY <2>1 DEF World
  <2> QED
    BY <2>5, <2>6, <2>7, <2>8 DEF AuditClean
<1> QED
  BY <1>1, IndexerInvariance, PTL

\* Unless a reorganisation fell between two headers of one segment, or abandoned
\* blocks returned while logs were read, every canonical row has the logs of all
\* tracked contracts and no others, and what those logs announce is tracked
\* (storeBlock, indexBlock).
THEOREM LogsCompleteThm == Spec => []LogsComplete
<1>1. ASSUME IInv PROVE LogsComplete
  <2>1. Mixed \in BOOLEAN /\ Logged(Mixed, db) /\ Linked(chain, reorgs, db)
    BY <1>1, WorldFacts DEF IInv
  <2>2. SUFFICES ASSUME Mixed = FALSE PROVE Complete
    BY <2>1 DEF LogsComplete, Mixed
  <2>3. LogsBacked(db) /\ LogsFull(db) /\ Tracked(db) \subseteq Contract
    BY <2>1, <2>2, TrackedContracts DEF Logged
  <2> DEFINE kept == UNION {{[block |-> b, contract |-> c] : c \in Tracked(db) \cap LogsOf(b)}
                              : b \in db.canonical}
  <2>4. ASSUME NEW x \in db.logs PROVE x \in kept
    <3>1. x.block \in db.canonical /\ x = Log(x.block, x.contract)
      BY <2>3 DEF LogsBacked
    <3>2. x.contract \in Tracked(db) /\ x.contract \in LogsOf(x.block)
      BY <2>3, <3>1 DEF LogsFull
    <3> QED
      BY <3>1, <3>2 DEF Log
  <2>5. ASSUME NEW x \in kept PROVE x \in db.logs
    <3>1. PICK b \in db.canonical : x \in {[block |-> b, contract |-> c] : c \in Tracked(db) \cap LogsOf(b)}
      OBVIOUS
    <3>2. PICK c \in Tracked(db) \cap LogsOf(b) : x = Log(b, c)
      BY <3>1 DEF Log
    <3> QED
      BY <2>3, <3>2 DEF LogsFull
  <2>6. db.logs = kept
    BY <2>4, <2>5
  <2> HIDE DEF kept
  <2>7. ASSUME NEW x \in db.logs, NEW c \in Last(x.block).creates PROVE c \in Tracked(db)
    <3>1. c \in db.manifest \/ db.discovered[c] \in 1..Len(x.block)
      BY <2>3 DEF LogsBacked
    <3>2. x.block \in db.canonical
      BY <2>3 DEF LogsBacked
    <3>3. Seen(chain, reorgs, x.block) /\ Len(x.block) \in db.start..Len(db.checkpoint)
          /\ db.start \in Nat /\ db.start >= 1 /\ chain \in Seq(Blocks)
      BY <1>1, <2>1, <3>2, WorldFacts, CanonicalFacts, LinkedFacts
    <3>4. x.block[Len(x.block)] \in Blocks
      BY <3>3, SeenFacts
    <3>5. c \in Contract
      BY <3>4 DEF Last, Blocks
    <3> QED
      BY <3>1, <3>3, <3>5 DEF Tracked
  <2> QED
    BY <2>6, <2>7 DEF Complete, kept
<1> QED
  BY <1>1, IndexerInvariance, PTL

\* As long as no reorganisation goes below the confirmation depth, a block shown
\* as finalized is on the chain (storeBlock and finalizedThrough).
THEOREM FinalizedIsFinalThm == Spec => []FinalizedIsFinal
<1>1. ASSUME IInv PROVE FinalizedIsFinal
  <2>1. Settled(chain, top, deep, Restored, db) /\ deep \in BOOLEAN
    BY <1>1, WorldFacts DEF IInv
  <2>2. SUFFICES ASSUME NEW b \in db.finalized, OnChain(chain, b) PROVE HashAt(Len(b)) = b
    BY <2>1 DEF Settled, FinalizedIsFinal
  <2> QED
    BY <2>2 DEF OnChain, HashAt, Prefix, Height
<1> QED
  BY <1>1, IndexerInvariance, PTL

\* State that was read by block number is the state of the block it is filed
\* under (commitCanonicalRead).  Blocks may be replaced, dropped and come back;
\* what is excluded is that abandoned blocks return between the read and the
\* hash that confirms it: nothing in the code would tell.
THEOREM SnapshotsOfTheirBlockThm == Spec => []SnapshotsOfTheirBlock
<1>1. ASSUME IInv PROVE SnapshotsOfTheirBlock
  BY <1>1 DEF IInv, Settled, SnapshotsOfTheirBlock, Restored
<1> QED
  BY <1>1, IndexerInvariance, PTL

-----------------------------------------------------------------------------
(***************************************************************************)
(* The live events.                                                        *)
(***************************************************************************)

EventType == [id: Nat, reset: BOOLEAN]

\* Of the ids P published, n is the next one after prev.
Follows(P, n, prev) == n \in P /\ n > prev /\ \A i \in P : i > prev => n <= i

PrevIn(prev, s, k) == IF k = 1 THEN prev ELSE s[k - 1].id

\* The events s, each the next one after the one before it, or a reset.
Chain(P, prev, s) ==
    \A k \in DOMAIN s : /\ s[k].id \in P
                        /\ s[k].reset = FALSE => Follows(P, s[k].id, PrevIn(prev, s, k))

End(prev, s) == IF s = <<>> THEN prev ELSE s[Len(s)].id

Ascending(s) == \A i, j \in DOMAIN s : i < j => s[i].id < s[j].id

Answer(P, cursor, events) ==
    events \in Seq(EventType) /\ Chain(P, cursor, events) /\ Ascending(events)

LocalFields == {"stream", "cursor", "queue", "through", "restarted", "lastEventId"}

\* What a page has and what its stream buffers is a chain that ends at the cursor.
Fed(P, l) ==
    /\ DOMAIN l = LocalFields
    /\ {l.cursor, l.through, l.restarted, l.lastEventId} \subseteq P \cup {0}
    /\ l.queue \in Seq(EventType) /\ Chain(P, l.through, l.queue)
    /\ l.stream = "open" => l.cursor = End(l.through, l.queue)
    /\ l.stream # "open" => l.queue = <<>>
    /\ l.lastEventId # 0 => l.through = l.lastEventId
    /\ l.stream = "opening" => l.lastEventId = 0

JobFields == {"cursor", "clients", "answered", "events", "stray"}

\* A job is for streams that were at its cursor, and may be beyond it.
Asked(P, cl, job) ==
    /\ DOMAIN job = JobFields /\ job.clients \subseteq Page
    /\ \A c \in job.clients : /\ cl[c].stream = "open"
                              /\ job.cursor \in P \cup {0} /\ job.cursor <= cl[c].cursor
    /\ job.clients # {} /\ job.answered => Answer(P, job.cursor, job.events)

\* The row lock makes ids visible in their order.
Serialised ==
    /\ nextId \in 0..MaxId /\ published \subseteq 1..nextId
    /\ prunedThrough \in published \cup {0}
    /\ liveEvents = {i \in published : i > prunedThrough}
    /\ inserted \in [Writer -> Nat]
    /\ \A w \in Writer : inserted[w] # 0 =>
         row = w /\ inserted[w] = nextId /\ nextId \notin published

Known == {latestCursor, latestCursorPromise} \subseteq published \cup {0, -1}

LiveInv ==
    /\ Serialised /\ Known
    /\ DOMAIN client = Page /\ \A c \in Page : Fed(published, client[c])
    /\ \A job \in jobs : Asked(published, client, job)

-----------------------------------------------------------------------------
(* Largest and smallest numbers.                                           *)

\* A set of naturals that has a bound and is not empty has a maximum.
LEMMA MaxOf ==
    ASSUME NEW S \in SUBSET Nat, S # {}, NEW n \in Nat, \A i \in S : i <= n
    PROVE  Max(S) \in S /\ \A i \in S : i <= Max(S)
<1> DEFINE Bounds == {k \in Nat : \A i \in S : i <= k}
<1>1. PICK m \in Bounds : \A k \in Bounds : m <= k
  <2>1. Bounds \in SUBSET Nat /\ Bounds # {}
    OBVIOUS
  <2> QED
    BY <2>1, LeastNumber
<1>2. m \in S
  <2>1. SUFFICES ASSUME m \notin S PROVE FALSE
    OBVIOUS
  <2>2. m \in Nat /\ \A i \in S : i <= m /\ i # m
    BY <1>1, <2>1
  <2>3. PICK j \in S : TRUE
    OBVIOUS
  <2>4. m - 1 \in Nat /\ \A i \in S : i <= m - 1
    BY <2>2, <2>3
  <2>5. m - 1 \in Bounds
    BY <2>4
  <2> QED
    BY <1>1, <2>2, <2>5
<1>3. \A i \in S : i <= m
  BY <1>1
<1>4. \E x \in S : \A y \in S : x >= y
  BY <1>2, <1>3
<1>5. Max(S) \in S /\ \A y \in S : Max(S) >= y
  BY <1>4 DEF Max
<1> QED
  BY <1>5

\* The smaller of two integers is one of them and no larger than either.
LEMMA MinOfTwo ==
    ASSUME NEW a \in Int, NEW b \in Int
    PROVE  Min({a, b}) \in {a, b} /\ Min({a, b}) <= a /\ Min({a, b}) <= b
<1>1. \E x \in {a, b} : \A y \in {a, b} : x <= y
  OBVIOUS
<1> QED
  BY <1>1 DEF Min

-----------------------------------------------------------------------------
(* A finite set of numbers in order.                                       *)

Increasing(s) == \A i, j \in DOMAIN s : i < j => s[i] < s[j]

Enumerates(s, S) == s \in [1..Cardinality(S) -> S] /\ Increasing(s)

\* Every finite set of naturals has an enumeration in order.
LEMMA EnumerationExists ==
    ASSUME NEW S, S \subseteq Nat, IsFiniteSet(S), NEW n \in Nat, \A i \in S : i <= n
    PROVE  \E s : Enumerates(s, S)
<1> DEFINE Bad == {T \in SUBSET S : ~ \E s : Enumerates(s, T)}
<1>1. SUFFICES ASSUME Bad # {} PROVE FALSE
  OBVIOUS
<1>2. PICK T \in Bad : \A u \in Bad : u \subseteq T => u = T
  <2>1. Bad \in SUBSET SUBSET S
    OBVIOUS
  <2>2. IsFiniteSet(S)
    OBVIOUS
  <2> HIDE DEF Bad
  <2> QED
    BY ONLY <1>1, <2>1, <2>2, MinimalSet
<1>3. T \in SUBSET S /\ IsFiniteSet(T) /\ ~ \E s : Enumerates(s, T)
  BY <1>2, FS_Subset
<1>4. T # {}
  <2>1. SUFFICES ASSUME T = {} PROVE FALSE
    OBVIOUS
  <2>2. Cardinality(T) = 0
    BY <2>1, FS_EmptySet
  <2>3. Enumerates([i \in 1..0 |-> 0], T)
    BY <2>2 DEF Enumerates, Increasing
  <2> QED
    BY <1>3, <2>3
<1> DEFINE m == Max(T)
           R == T \ {m}
           k == Cardinality(R)
<1>5. m \in T /\ \A i \in T : i <= m
  <2>1. T \in SUBSET Nat /\ \A i \in T : i <= n
    BY <1>3
  <2> QED
    BY <1>4, <2>1, MaxOf
<1>6. IsFiniteSet(R) /\ k \in Nat /\ Cardinality(T) = k + 1
  <2>1. IsFiniteSet(R) /\ k = Cardinality(T) - 1
    BY <1>3, <1>5, FS_RemoveElement
  <2>2. Cardinality(T) \in Nat /\ k \in Nat
    BY <1>3, <2>1, FS_CardinalityType
  <2> QED
    BY <2>1, <2>2
<1>7. PICK s : Enumerates(s, R)
  <2>1. R \in SUBSET S /\ R \subseteq T /\ R # T
    BY <1>3, <1>5
  <2> QED
    BY <1>2, <2>1
<1> DEFINE t == [i \in 1..k + 1 |-> IF i = k + 1 THEN m ELSE s[i]]
<1>8. /\ DOMAIN s = 1..k /\ \A i \in 1..k : s[i] \in R
      /\ \A i, j \in 1..k : i < j => s[i] < s[j]
  BY <1>7 DEF Enumerates, Increasing
<1>9. \A i \in R : i < m /\ i \in T /\ i \in Nat
  <2>1. T \in SUBSET Nat /\ m \in Nat
    BY <1>3, <1>5
  <2> HIDE DEF m
  <2> QED
    BY <1>5, <2>1
<1> HIDE DEF m, R, k
<1>10. \A i \in 1..k + 1 : i = k + 1 \/ i \in 1..k
  BY <1>6
<1>11. t \in [1..k + 1 -> T]
  BY <1>5, <1>8, <1>9, <1>10
<1>12. ASSUME NEW i \in 1..k + 1, NEW j \in 1..k + 1, i < j
       PROVE  t[i] < t[j]
  <2>1. i \in 1..k /\ i # k + 1
    BY <1>6, <1>10, <1>12
  <2>2. CASE j = k + 1
    BY <1>8, <1>9, <2>1, <2>2
  <2>3. CASE j # k + 1
    BY <1>8, <1>10, <1>12, <2>1, <2>3
  <2> QED
    BY <2>2, <2>3
<1>13. Enumerates(t, T)
  BY <1>6, <1>11, <1>12 DEF Enumerates, Increasing
<1> QED
  BY <1>3, <1>13

\* InOrder returns it: all of the set, each number once, from the least on.
LEMMA InOrderFacts ==
    ASSUME NEW S \in SUBSET Nat, NEW n \in Nat, \A i \in S : i <= n
    PROVE  /\ InOrder(S) \in Seq(S) /\ Increasing(InOrder(S))
           /\ DOMAIN InOrder(S) = 1..Len(InOrder(S)) /\ Len(InOrder(S)) \in Nat
           /\ \A x \in S : \E i \in DOMAIN InOrder(S) : InOrder(S)[i] = x
<1> DEFINE s == InOrder(S)
<1>1. IsFiniteSet(S)
  <2>1. IsFiniteSet(0..n) /\ S \in SUBSET (0..n)
    BY FS_Interval
  <2> QED
    BY <2>1, FS_Subset
<1>2. Cardinality(S) \in Nat
  BY <1>1, FS_CardinalityType
<1>3. \E e \in [1..Cardinality(S) -> S] : \A i, j \in DOMAIN e : i < j => e[i] < e[j]
  BY <1>1, EnumerationExists DEF Enumerates, Increasing
<1>4. s \in [1..Cardinality(S) -> S] /\ \A i, j \in DOMAIN s : i < j => s[i] < s[j]
  BY <1>3 DEF InOrder
<1> HIDE DEF s
<1>5. DOMAIN s = 1..Cardinality(S) /\ \A i \in DOMAIN s : s[i] \in Nat
  BY <1>4
<1>6. s \in Injection(1..Cardinality(S), S)
  <2>1. \A i, j \in DOMAIN s : s[i] = s[j] => i = j
    BY <1>2, <1>4, <1>5
  <2> QED
    BY <1>4, <1>5, <2>1 DEF Injection, IsInjective
<1>7. \A x \in S : \E i \in DOMAIN s : s[i] = x
  <2>1. Cardinality(1..Cardinality(S)) = Cardinality(S)
    <3>1. IsFiniteSet(1..Cardinality(S))
      BY <1>2, FS_Interval
    <3>2. Cardinality(1..Cardinality(S)) =
            IF 1 > Cardinality(S) THEN 0 ELSE Cardinality(S) - 1 + 1
      BY <1>2, FS_Interval
    <3> QED
      BY <1>2, <3>2
  <2>2. s \in Surjection(1..Cardinality(S), S)
    BY <1>1, <1>6, <2>1, FS_Injection
  <2> QED
    BY <1>5, <2>2 DEF Surjection
<1>8. s \in Seq(S) /\ Len(s) = Cardinality(S)
  BY <1>2, <1>4
<1> QED
  BY <1>2, <1>4, <1>5, <1>7, <1>8 DEF s, Increasing

-----------------------------------------------------------------------------
(* Chains.                                                                 *)

\* Q are the ids P and newer ones.
Grown(P, Q) == P \subseteq Q /\ \A n \in Q \ P : \A i \in P : i < n

LEMMA FollowsStill ==
    ASSUME NEW P, P \subseteq Nat, NEW Q, Q \subseteq Nat, Grown(P, Q),
           NEW n, NEW prev, Follows(P, n, prev)
    PROVE  Follows(Q, n, prev)
<1> SUFFICES ASSUME NEW i \in Q, i > prev
             PROVE  n <= i
  BY DEF Follows, Grown
<1>1. CASE i \in P
  BY <1>1 DEF Follows
<1>2. CASE i \notin P
  BY <1>2 DEF Follows, Grown
<1> QED
  BY <1>1, <1>2

LEMMA ChainStill ==
    ASSUME NEW P, P \subseteq Nat, NEW Q, Q \subseteq Nat, Grown(P, Q),
           NEW prev, NEW s, Chain(P, prev, s)
    PROVE  Chain(Q, prev, s)
<1> SUFFICES ASSUME NEW k \in DOMAIN s
             PROVE  /\ s[k].id \in Q
                    /\ s[k].reset = FALSE => Follows(Q, s[k].id, PrevIn(prev, s, k))
  BY DEF Chain
<1>1. /\ s[k].id \in P
      /\ s[k].reset = FALSE => Follows(P, s[k].id, PrevIn(prev, s, k))
  BY DEF Chain
<1> QED
  BY <1>1, FollowsStill DEF Grown

\* A chain goes on where another one ended.
LEMMA ChainLengthens ==
    ASSUME NEW P, NEW prev, NEW s \in Seq(EventType), Chain(P, prev, s),
           NEW t \in Seq(EventType), t # <<>>, Chain(P, End(prev, s), t)
    PROVE  /\ s \o t \in Seq(EventType) /\ Chain(P, prev, s \o t)
           /\ End(prev, s \o t) = t[Len(t)].id
<1> DEFINE u == s \o t
           n == Len(s)
           m == Len(t)
<1>1. /\ u \in Seq(EventType) /\ Len(u) = n + m /\ n \in Nat /\ m \in Nat
      /\ DOMAIN s = 1..n /\ DOMAIN t = 1..m /\ DOMAIN u = 1..n + m
  OBVIOUS
<1>2. /\ \A i \in 1..n : u[i] = s[i]
      /\ \A i \in 1..m : u[n + i] = t[i]
  BY <1>1
<1>3. m # 0
  BY <1>1
<1> HIDE DEF u, n, m
<1>4. End(prev, u) = t[m].id
  <2>1. u # <<>>
    BY <1>1, <1>3
  <2>2. u[n + m] = t[m]
    BY <1>1, <1>2, <1>3
  <2> QED
    BY <1>1, <2>1, <2>2 DEF End
<1>5. ASSUME NEW k \in 1..n + m
      PROVE  /\ u[k].id \in P
             /\ u[k].reset = FALSE => Follows(P, u[k].id, PrevIn(prev, u, k))
  <2>1. CASE k \in 1..n
    <3>1. u[k] = s[k]
      BY <1>2, <2>1
    <3>2. PrevIn(prev, u, k) = PrevIn(prev, s, k)
      <4>1. k # 1 => k - 1 \in 1..n
        BY <1>1, <2>1
      <4> QED
        BY <1>2, <4>1 DEF PrevIn
    <3> QED
      BY <1>1, <2>1, <3>1, <3>2 DEF Chain
  <2>2. CASE k \notin 1..n
    <3>1. PICK i \in 1..m : k = n + i
      <4>1. k - n \in 1..m /\ k = n + (k - n)
        BY <1>1, <2>2
      <4> QED
        BY <4>1
    <3>2. u[k] = t[i]
      BY <1>2, <3>1
    <3>3. PrevIn(prev, u, k) = PrevIn(End(prev, s), t, i)
      <4>1. CASE i = 1 /\ n = 0
        <5>1. s = <<>> /\ k = 1
          BY <1>1, <3>1, <4>1 DEF n
        <5> QED
          BY <4>1, <5>1 DEF PrevIn, End
      <4>2. CASE i = 1 /\ n # 0
        <5>1. k # 1 /\ k - 1 = n /\ n \in 1..n /\ s # <<>>
          BY <1>1, <3>1, <4>2 DEF n
        <5>2. u[k - 1] = s[n]
          BY <1>2, <5>1
        <5> QED
          BY <4>2, <5>1, <5>2 DEF PrevIn, End, n
      <4>3. CASE i # 1
        <5>1. k # 1 /\ k - 1 = n + (i - 1) /\ i - 1 \in 1..m
          BY <1>1, <3>1, <4>3
        <5>2. u[k - 1] = t[i - 1]
          BY <1>2, <5>1
        <5> QED
          BY <4>3, <5>1, <5>2 DEF PrevIn
      <4> QED
        BY <4>1, <4>2, <4>3
    <3> QED
      BY <1>1, <3>1, <3>2, <3>3 DEF Chain
  <2> QED
    BY <2>1, <2>2
<1>6. Chain(P, prev, u)
  BY <1>1, <1>5 DEF Chain
<1> QED
  BY <1>1, <1>4, <1>6 DEF u, m

\* The first event of a chain is read.
LEMMA ChainShortens ==
    ASSUME NEW P, NEW prev, NEW s \in Seq(EventType), s # <<>>, Chain(P, prev, s)
    PROVE  /\ Head(s) \in EventType /\ Head(s).id \in P
           /\ Head(s).reset = FALSE => Follows(P, Head(s).id, prev)
           /\ Tail(s) \in Seq(EventType) /\ Chain(P, Head(s).id, Tail(s))
           /\ End(Head(s).id, Tail(s)) = End(prev, s)
<1> DEFINE t == Tail(s)
           n == Len(s)
<1>1. /\ n \in Nat /\ n # 0 /\ DOMAIN s = 1..n /\ Head(s) = s[1] /\ 1 \in 1..n
      /\ t \in Seq(EventType) /\ Len(t) = n - 1 /\ DOMAIN t = 1..n - 1
  OBVIOUS
<1>2. \A i \in 1..n - 1 : t[i] = s[i + 1]
  BY <1>1
<1>3. /\ s[1] \in EventType /\ s[1].id \in P
      /\ s[1].reset = FALSE => Follows(P, s[1].id, prev)
  BY <1>1 DEF Chain, PrevIn
<1> HIDE DEF t, n
<1>4. ASSUME NEW k \in 1..n - 1
      PROVE  /\ t[k].id \in P
             /\ t[k].reset = FALSE => Follows(P, t[k].id, PrevIn(s[1].id, t, k))
  <2>1. k + 1 \in 1..n /\ k + 1 # 1 /\ t[k] = s[k + 1] /\ (k + 1) - 1 = k
    BY <1>1, <1>2
  <2>2. PrevIn(s[1].id, t, k) = PrevIn(prev, s, k + 1)
    <3>1. k # 1 => k - 1 \in 1..n - 1 /\ (k - 1) + 1 = k
      BY <1>1
    <3>2. k # 1 => t[k - 1] = s[k]
      BY <1>2, <3>1
    <3> QED
      BY <2>1, <3>2 DEF PrevIn
  <2> QED
    BY <1>1, <2>1, <2>2 DEF Chain
<1>5. End(s[1].id, t) = End(prev, s)
  <2>1. CASE n = 1
    <3>1. t = <<>>
      BY <1>1, <2>1
    <3> QED
      BY <2>1, <3>1 DEF End, n
  <2>2. CASE n # 1
    <3>1. t # <<>> /\ n - 1 \in 1..n - 1 /\ (n - 1) + 1 = n
      BY <1>1, <2>2
    <3>2. t[n - 1] = s[n]
      BY <1>2, <3>1
    <3> QED
      BY <1>1, <3>1, <3>2 DEF End, n
  <2> QED
    BY <2>1, <2>2
<1> QED
  BY <1>1, <1>3, <1>4, <1>5 DEF t, Chain

\* A first part of a chain, and the chain it is part of, are chains.
LEMMA ChainPart ==
    ASSUME NEW P, NEW prev, NEW s \in Seq(EventType), Chain(P, prev, s), NEW n \in 1..Len(s)
    PROVE  /\ SubSeq(s, 1, n) \in Seq(EventType) /\ Len(SubSeq(s, 1, n)) = n
           /\ Chain(P, prev, SubSeq(s, 1, n)) /\ SubSeq(s, 1, n)[n] = s[n]
<1> DEFINE t == SubSeq(s, 1, n)
<1>1. /\ Len(s) \in Nat /\ DOMAIN s = 1..Len(s) /\ t \in Seq(EventType) /\ Len(t) = n
      /\ DOMAIN t = 1..n /\ 1..n \subseteq 1..Len(s)
  OBVIOUS
<1>2. \A i \in 1..n : t[i] = s[i]
  BY <1>1
<1> HIDE DEF t
<1>3. ASSUME NEW k \in 1..n
      PROVE  /\ t[k].id \in P
             /\ t[k].reset = FALSE => Follows(P, t[k].id, PrevIn(prev, t, k))
  <2>1. PrevIn(prev, t, k) = PrevIn(prev, s, k)
    <3>1. k # 1 => k - 1 \in 1..n
      BY <1>1
    <3> QED
      BY <1>2, <3>1 DEF PrevIn
  <2> QED
    BY <1>1, <1>2, <2>1 DEF Chain
<1>4. Chain(P, prev, t)
  BY <1>1, <1>3 DEF Chain
<1>5. t[n] = s[n]
  <2>1. n \in 1..n
    BY <1>1
  <2> QED
    BY <1>2, <2>1
<1> QED
  BY <1>1, <1>4, <1>5 DEF t

-----------------------------------------------------------------------------
(* What a query answers, and what of an answer is new to a stream.         *)

\* The larger of two integers is one of them and no smaller than either.
LEMMA MaxOfTwo ==
    ASSUME NEW a \in Int, NEW b \in Int
    PROVE  Max({a, b}) \in {a, b} /\ Max({a, b}) >= a /\ Max({a, b}) >= b
<1>1. \E x \in {a, b} : \A y \in {a, b} : x >= y
  OBVIOUS
<1> QED
  BY <1>1 DEF Max

Indexes(l, events) == {i \in DOMAIN events : events[i].id > l.cursor}

\* The events of an answer that are newer than the cursor of a stream go on
\* where the stream is, although the query was for an older cursor.
LEMMA NewFacts ==
    ASSUME NEW P, P \subseteq Nat, NEW l, l.cursor \in Nat,
           NEW k \in Nat, k <= l.cursor, NEW events, Answer(P, k, events)
    PROVE  /\ New(l, events) \in Seq(EventType)
           /\ Chain(P, l.cursor, New(l, events))
           /\ \A i \in DOMAIN New(l, events) : New(l, events)[i].id > l.cursor
           /\ ToSet(New(l, events)) \subseteq ToSet(events)
<1> DEFINE S == Indexes(l, events)
           a == InOrder(S)
           m == Len(a)
           new == New(l, events)
<1>1. /\ events \in Seq(EventType) /\ Chain(P, k, events) /\ Ascending(events)
      /\ Len(events) \in Nat /\ DOMAIN events = 1..Len(events)
  BY DEF Answer
<1>2. /\ \A i \in DOMAIN events : events[i] \in EventType /\ events[i].id \in Nat
  <2>1. \A i \in DOMAIN events : events[i] \in EventType
    BY <1>1
  <2> QED
    BY <2>1 DEF EventType
<1>3. S \in SUBSET Nat /\ \A i \in S : i <= Len(events)
  BY <1>1 DEF Indexes
<1>4. /\ a \in Seq(S) /\ Increasing(a) /\ DOMAIN a = 1..m /\ m \in Nat
      /\ \A x \in S : \E i \in DOMAIN a : a[i] = x
  <2>1. Len(events) \in Nat
    BY <1>1
  <2> HIDE DEF S
  <2> QED
    BY <1>3, <2>1, InOrderFacts
<1>5. new = [i \in 1..m |-> events[a[i]]]
  BY <1>4 DEF New, Indexes
<1>6. \A i \in 1..m : a[i] \in S
  BY <1>4
<1> HIDE DEF a, m, new
<1>7. /\ DOMAIN new = 1..m
      /\ \A i \in 1..m : new[i] = events[a[i]] /\ a[i] \in DOMAIN events
                         /\ new[i] \in EventType /\ new[i].id > l.cursor
  BY <1>2, <1>5, <1>6 DEF Indexes
<1>8. new \in Seq(EventType)
  BY <1>4, <1>5, <1>7
<1>9. ASSUME NEW j \in 1..m
      PROVE  /\ new[j].id \in P
             /\ new[j].reset = FALSE => Follows(P, new[j].id, PrevIn(l.cursor, new, j))
  <2> DEFINE prev == PrevIn(l.cursor, new, j)
             old == PrevIn(k, events, a[j])
  <2>1. a[j] \in DOMAIN events /\ a[j] \in Nat /\ new[j] = events[a[j]] /\ new[j].id \in Nat
    BY <1>1, <1>2, <1>7
  <2>2. /\ new[j].id \in P
        /\ new[j].reset = FALSE => Follows(P, new[j].id, old)
    BY <1>1, <2>1 DEF Chain
  <2>3. prev \in Nat /\ prev < new[j].id /\ prev >= l.cursor
    <3>1. CASE j = 1
      BY <1>7, <2>1, <3>1 DEF PrevIn
    <3>2. CASE j # 1
      <4>1. j - 1 \in 1..m /\ j - 1 < j
        BY <1>4, <3>2
      <4>2. a[j - 1] < a[j]
        BY <1>4, <4>1 DEF Increasing
      <4>3. /\ new[j - 1] = events[a[j - 1]] /\ a[j - 1] \in DOMAIN events
            /\ new[j - 1].id > l.cursor
        BY <1>7, <4>1
      <4>4. events[a[j - 1]].id < events[a[j]].id /\ events[a[j - 1]].id \in Nat
        BY <1>1, <1>2, <2>1, <4>2, <4>3 DEF Ascending
      <4> QED
        BY <2>1, <3>2, <4>3, <4>4 DEF PrevIn
    <3> QED
      BY <3>1, <3>2
  <2>4. old \in Nat /\ old <= prev
    <3>1. CASE a[j] = 1
      BY <2>3, <3>1 DEF PrevIn
    <3>2. CASE a[j] # 1 /\ a[j] - 1 \notin S
      <4>1. a[j] - 1 \in DOMAIN events
        BY <1>1, <2>1, <3>2
      <4>2. events[a[j] - 1].id \in Nat /\ ~(events[a[j] - 1].id > l.cursor)
        BY <1>2, <3>2, <4>1 DEF Indexes
      <4> QED
        BY <2>3, <3>2, <4>2 DEF PrevIn
    <3>3. CASE a[j] # 1 /\ a[j] - 1 \in S
      <4>1. PICK i \in 1..m : a[i] = a[j] - 1
        BY <1>4, <3>3
      <4>2. i < j
        <5>1. j < i => a[j] < a[i]
          BY <1>4 DEF Increasing
        <5>2. m \in Nat /\ a[j] \in Nat
          BY <1>4, <2>1
        <5>3. ~(j < i) /\ i # j
          BY <4>1, <5>1, <5>2
        <5> QED
          BY <5>2, <5>3
      <4>3. j # 1 /\ j - 1 \in 1..m /\ i <= j - 1
        BY <1>4, <4>2
      <4>4. new[i].id <= new[j - 1].id
        <5>1. CASE i = j - 1
          BY <1>2, <1>7, <4>3, <5>1
        <5>2. CASE i < j - 1
          <6>1. a[i] < a[j - 1]
            BY <1>4, <4>3, <5>2 DEF Increasing
          <6>2. events[a[i]].id < events[a[j - 1]].id
            BY <1>1, <1>7, <4>3, <6>1 DEF Ascending
          <6> QED
            BY <1>2, <1>7, <4>3, <6>2
        <5> QED
          BY <4>3, <5>1, <5>2
      <4>5. old = new[i].id /\ prev = new[j - 1].id /\ new[i].id \in Nat
        BY <1>2, <1>7, <3>3, <4>1, <4>3 DEF PrevIn
      <4> QED
        BY <4>4, <4>5
    <3> QED
      BY <3>1, <3>2, <3>3
  <2> HIDE DEF prev, old
  <2>5. ASSUME new[j].reset = FALSE PROVE Follows(P, new[j].id, prev)
    <3>1. \A i \in P : i > old => new[j].id <= i
      BY <2>2, <2>5 DEF Follows
    <3>2. \A i \in P : i > prev => new[j].id <= i
      BY <2>3, <2>4, <3>1
    <3> QED
      BY <2>2, <2>3, <3>2 DEF Follows
  <2>6. new[j].reset = FALSE => Follows(P, new[j].id, prev)
    BY <2>5
  <2> QED
    BY <2>2, <2>6 DEF prev
<1>10. Chain(P, l.cursor, new)
  BY <1>7, <1>9 DEF Chain
<1>11. ToSet(new) \subseteq ToSet(events)
  BY <1>7 DEF ToSet
<1> QED
  BY <1>7, <1>8, <1>10, <1>11 DEF new

\* The newest event was published.
LEMMA NewestFacts ==
    ASSUME Serialised
    PROVE  latestEventId \in published \cup {0}
<1>1. /\ published \in SUBSET Nat /\ nextId \in Nat /\ \A i \in published : i <= nextId
      /\ liveEvents \subseteq published
  BY DEF Serialised
<1>2. /\ liveEvents \cup {0} \in SUBSET Nat /\ liveEvents \cup {0} # {}
      /\ \A i \in liveEvents \cup {0} : i <= nextId
  BY <1>1
<1>3. Max(liveEvents \cup {0}) \in liveEvents \cup {0}
  BY ONLY <1>1, <1>2, MaxOf
<1> QED
  BY <1>1, <1>3 DEF latestEventId

\* A query answers the next events, or a reset to the newest one.
LEMMA AnswerFacts ==
    ASSUME LiveAssumption, Serialised, NEW cursor \in published \cup {0}
    PROVE  Answer(published, cursor, eventsAfter(cursor))
<1> DEFINE P == published
           newest == Max({prunedThrough, latestEventId})
<1>1. /\ P \in SUBSET Nat /\ nextId \in Nat /\ (\A i \in P : i <= nextId /\ i # 0)
      /\ prunedThrough \in P \cup {0} /\ MaxId \in Nat /\ limit \in Nat /\ limit # 0
  BY DEF Serialised, LiveAssumption
<1>2. liveEvents = {i \in P : i > prunedThrough}
  BY DEF Serialised
<1>3. latestEventId \in P \cup {0}
  BY NewestFacts
<1>4. CASE cursor < prunedThrough
  <2> DEFINE s == <<[id |-> newest, reset |-> TRUE]>>
  <2>1. newest \in {prunedThrough, latestEventId} /\ newest >= prunedThrough
    <3>1. prunedThrough \in Int /\ latestEventId \in Int
      BY <1>1, <1>3
    <3> QED
      BY <3>1, MaxOfTwo
  <2> HIDE DEF newest
  <2>2. newest \in P /\ newest \in Nat
    BY <1>1, <1>3, <1>4, <2>1
  <2>3. s \in Seq(EventType) /\ DOMAIN s = {1} /\ s[1].id = newest /\ s[1].reset = TRUE
    BY <2>2 DEF EventType
  <2> HIDE DEF s
  <2>4. Chain(P, cursor, s) /\ Ascending(s)
    BY <2>2, <2>3 DEF Chain, Ascending
  <2>5. eventsAfter(cursor) = s
    BY <1>4 DEF eventsAfter, s, newest
  <2> QED
    BY <2>3, <2>4, <2>5 DEF Answer
<1>5. CASE ~(cursor < prunedThrough)
  <2> DEFINE S == {i \in liveEvents : i > cursor}
             a == InOrder(S)
             m == Min({limit, Len(a)})
             s == [i \in 1..m |-> Event(a[i])]
  <2>1. \A i \in P : i > cursor <=> i \in S
    BY <1>1, <1>2, <1>5
  <2>2. S \in SUBSET Nat /\ (\A i \in S : i <= nextId) /\ S \subseteq P
    BY <1>1, <1>2
  <2>3. /\ a \in Seq(S) /\ Increasing(a) /\ DOMAIN a = 1..Len(a) /\ Len(a) \in Nat
        /\ \A x \in S : \E i \in DOMAIN a : a[i] = x
    <3> HIDE DEF S
    <3> QED
      BY ONLY <1>1, <2>2, InOrderFacts
  <2>4. \A i \in DOMAIN a : a[i] \in S /\ a[i] \in P /\ a[i] > cursor /\ a[i] \in Nat
    BY <2>2, <2>3
  <2>5. m \in Nat /\ m <= Len(a)
    <3> HIDE DEF a
    <3>1. limit \in Int /\ Len(a) \in Int
      BY <1>1, <2>3
    <3>2. m \in {limit, Len(a)} /\ m <= Len(a)
      BY ONLY <3>1, MinOfTwo
    <3> QED
      BY <1>1, <2>3, <3>2
  <2> HIDE DEF a, m, S
  <2>6. \A i \in 1..m : i \in DOMAIN a
    BY <2>3, <2>5
  <2>7. /\ DOMAIN s = 1..m
        /\ \A i \in 1..m : s[i].id = a[i] /\ s[i].reset = FALSE /\ s[i] \in EventType
    BY <2>4, <2>6 DEF Event, EventType
  <2>8. s \in Seq(EventType)
    BY <2>5, <2>7
  <2> HIDE DEF s
  <2>9. Ascending(s)
    BY <2>3, <2>6, <2>7 DEF Ascending, Increasing
  <2>10. ASSUME NEW k \in 1..m
         PROVE  s[k].id \in P /\ Follows(P, s[k].id, PrevIn(cursor, s, k))
    <3> DEFINE prev == PrevIn(cursor, s, k)
    <3>1. k \in DOMAIN a /\ s[k].id = a[k] /\ a[k] \in P /\ a[k] \in Nat
      BY <2>4, <2>6, <2>7
    <3>2. ASSUME NEW i \in P, i > prev
          PROVE  a[k] <= i
      <4>1. CASE k = 1
        <5>1. prev = cursor
          BY <4>1 DEF PrevIn
        <5>2. PICK j \in DOMAIN a : a[j] = i
          BY <2>1, <2>3, <3>2, <5>1
        <5>3. 1 < j => a[1] < a[j]
          BY <2>3, <3>1, <4>1 DEF Increasing
        <5>4. j = 1 \/ 1 < j
          BY <2>3
        <5>5. a[j] \in Nat /\ a[1] \in Nat
          BY <2>4, <3>1, <4>1
        <5> QED
          BY <4>1, <5>2, <5>3, <5>4, <5>5
      <4>2. CASE k # 1
        <5>1. /\ k - 1 \in 1..m /\ prev = a[k - 1] /\ k - 1 \in DOMAIN a
              /\ k \in Nat /\ k - 1 < k
          BY <2>5, <2>6, <2>7, <4>2 DEF PrevIn
        <5>2. a[k - 1] < a[k] /\ a[k - 1] > cursor /\ a[k - 1] \in Nat
          BY <2>3, <2>4, <3>1, <5>1 DEF Increasing
        <5>3. i > cursor
          BY <1>1, <3>2, <5>1, <5>2
        <5>4. PICK j \in DOMAIN a : a[j] = i
          BY <2>1, <2>3, <5>3
        <5>5. j \in Nat /\ ~(j < k - 1) /\ j # k - 1
          <6>1. j < k - 1 => a[j] < a[k - 1]
            BY <2>3, <5>1 DEF Increasing
          <6>2. i \in Nat /\ i > a[k - 1] /\ j \in Nat
            BY <1>1, <2>3, <3>2, <5>1
          <6> QED
            BY <5>2, <5>4, <6>1, <6>2
        <5>6. k <= j
          BY <5>1, <5>5
        <5>7. k < j => a[k] < a[j]
          BY <2>3, <3>1, <5>4 DEF Increasing
        <5>8. k = j \/ k < j
          BY <5>1, <5>5, <5>6
        <5>9. a[j] \in Nat
          BY <2>4
        <5> QED
          BY <3>1, <5>4, <5>7, <5>8, <5>9
      <4> QED
        BY <4>1, <4>2
    <3>3. a[k] > prev
      <4>1. CASE k = 1
        BY <2>4, <3>1, <4>1 DEF PrevIn
      <4>2. CASE k # 1
        <5>1. k - 1 \in 1..m /\ prev = a[k - 1] /\ k - 1 \in DOMAIN a /\ k - 1 < k
          BY <2>5, <2>6, <2>7, <4>2 DEF PrevIn
        <5> QED
          BY <2>3, <2>4, <3>1, <5>1 DEF Increasing
      <4> QED
        BY <4>1, <4>2
    <3> HIDE DEF prev
    <3>4. Follows(P, a[k], prev)
      BY <3>1, <3>2, <3>3 DEF Follows
    <3> QED
      BY <3>1, <3>4 DEF prev
  <2>11. Chain(P, cursor, s)
    BY <2>7, <2>10 DEF Chain
  <2>12. eventsAfter(cursor) = s
    BY <1>5 DEF eventsAfter, s, m, a, S
  <2> QED
    BY <2>8, <2>9, <2>11, <2>12 DEF Answer
<1> QED
  <2>1. cursor \in Nat /\ prunedThrough \in Nat
    BY <1>1
  <2> QED
    BY <1>4, <1>5

\* What a page has is what it had, and its stream is not behind where it was.
Forwards(l, e) ==
    /\ e.stream = l.stream /\ e.through = l.through /\ e.restarted = l.restarted
    /\ e.lastEventId = l.lastEventId /\ e.cursor >= l.cursor

\* An answer that comes late or twice is put into a stream in its place.
LEMMA EnqueueFacts ==
    ASSUME LiveAssumption, NEW P, P \subseteq Nat, NEW l, Fed(P, l), l.stream = "open",
           NEW k \in Nat, k <= l.cursor, NEW events, Answer(P, k, events)
    PROVE  Fed(P, enqueueEvents(l, events)) /\ Forwards(l, enqueueEvents(l, events))
<1> DEFINE new == New(l, events)
           n == Min({Len(new), Room(l)})
           t == SubSeq(new, 1, n)
           x == [l EXCEPT !.queue = l.queue \o t]
           y == [x EXCEPT !.cursor = new[n].id]
<1>1. l.cursor \in Nat /\ l.queue \in Seq(EventType) /\ DOMAIN l = LocalFields
  <2>1. l.cursor \in P \cup {0} /\ l.queue \in Seq(EventType) /\ DOMAIN l = LocalFields
    BY DEF Fed
  <2>2. l.cursor \in Nat
    <3>1. P \cup {0} \subseteq Nat
      OBVIOUS
    <3> QED
      BY ONLY <2>1, <3>1
  <2> QED
    BY ONLY <2>1, <2>2
<1>2. /\ new \in Seq(EventType) /\ Chain(P, l.cursor, new)
      /\ \A i \in DOMAIN new : new[i].id > l.cursor
  BY <1>1, NewFacts
<1>3. n \in Nat /\ n <= Len(new)
  <2>1. Room(l) \in Nat
    <3>1. highWaterMark - Len(l.queue) \in Int /\ 0 \in Int
      BY <1>1 DEF LiveAssumption
    <3>2. Room(l) >= 0 /\ Room(l) \in {highWaterMark - Len(l.queue), 0}
      BY ONLY <3>1, MaxOfTwo DEF Room
    <3> QED
      BY <3>1, <3>2
  <2>2. Len(new) \in Int /\ Room(l) \in Int /\ Len(new) \in Nat
    BY <1>2, <2>1
  <2> HIDE DEF new
  <2>3. n \in {Len(new), Room(l)} /\ n <= Len(new)
    BY ONLY <2>2, MinOfTwo
  <2> QED
    BY <2>1, <2>2, <2>3
<1> HIDE DEF new, n
<1>4. CASE n = 0
  <2>1. enqueueEvents(l, events) = l
    BY <1>4 DEF enqueueEvents, n, new
  <2>2. l.cursor >= l.cursor
    BY <1>1
  <2> QED
    BY <2>1, <2>2 DEF Forwards
<1>5. CASE n # 0
  <2>1. n \in 1..Len(new) /\ n \in DOMAIN new
    BY <1>2, <1>3, <1>5
  <2>2. /\ t \in Seq(EventType) /\ Len(t) = n /\ Chain(P, l.cursor, t) /\ t[n] = new[n]
    BY <1>2, <2>1, ChainPart
  <2>3. l.cursor = End(l.through, l.queue) /\ Chain(P, l.through, l.queue)
    BY DEF Fed
  <2> HIDE DEF t
  <2>4. t # <<>> /\ n \in DOMAIN t
    BY <1>5, <2>1, <2>2
  <2>5. /\ l.queue \o t \in Seq(EventType) /\ Chain(P, l.through, l.queue \o t)
        /\ End(l.through, l.queue \o t) = t[Len(t)].id
    BY <1>1, <2>2, <2>3, <2>4, ChainLengthens
  <2>6. new[n].id \in P /\ new[n].id > l.cursor
    BY <1>2, <2>1 DEF Chain
  <2>7. enqueueEvents(l, events) = y
    BY <1>5 DEF enqueueEvents, n, new, t
  <2>8. /\ DOMAIN x = LocalFields /\ x.queue = l.queue \o t
        /\ x.stream = l.stream /\ x.through = l.through /\ x.restarted = l.restarted
        /\ x.lastEventId = l.lastEventId
    BY <1>1 DEF LocalFields
  <2> HIDE DEF x
  <2>9. /\ DOMAIN y = LocalFields /\ y.queue = l.queue \o t /\ y.cursor = new[n].id
        /\ y.stream = l.stream /\ y.through = l.through /\ y.restarted = l.restarted
        /\ y.lastEventId = l.lastEventId
    BY <2>8 DEF LocalFields
  <2> HIDE DEF y
  <2>10. /\ {l.through, l.restarted, l.lastEventId} \subseteq P \cup {0}
         /\ l.lastEventId # 0 => l.through = l.lastEventId
    BY DEF Fed
  <2>11. new[n].id >= l.cursor
    <3>1. new[n].id \in Nat
      BY <2>6
    <3> QED
      BY <1>1, <2>6, <3>1
  <2>12. Fed(P, y)
    BY <2>2, <2>5, <2>6, <2>9, <2>10 DEF Fed
  <2> QED
    BY <2>7, <2>9, <2>11, <2>12 DEF Forwards
<1> QED
  BY <1>4, <1>5

\* The cursors the server learns from an answer are ids of events.
LEMMA MetFacts ==
    ASSUME NEW P, NEW k, NEW l, NEW events, Answer(P, k, events)
    PROVE  Met(l, events) \subseteq P
BY DEF Met, Answer, Chain, ToSet

-----------------------------------------------------------------------------
(* What the parts of the invariant keep.                                   *)

LEMMA FedStill ==
    ASSUME NEW P, P \subseteq Nat, NEW Q, Q \subseteq Nat, Grown(P, Q), NEW l, Fed(P, l)
    PROVE  Fed(Q, l)
<1>1. P \subseteq Q
  BY DEF Grown
<1>2. Chain(Q, l.through, l.queue)
  BY ChainStill DEF Fed
<1> QED
  BY <1>1, <1>2 DEF Fed

LEMMA AnswerStill ==
    ASSUME NEW P, P \subseteq Nat, NEW Q, Q \subseteq Nat, Grown(P, Q),
           NEW k, NEW events, Answer(P, k, events)
    PROVE  Answer(Q, k, events)
BY ChainStill DEF Answer

\* The streams of a job's clients went forwards.
LEMMA AskedStill ==
    ASSUME NEW P, P \subseteq Nat, NEW Q, Q \subseteq Nat, Grown(P, Q),
           NEW cl, NEW cr, NEW job, Asked(P, cl, job),
           \A c \in job.clients : cr[c].stream = "open",
           \A c \in job.clients : {cl[c].cursor, cr[c].cursor} \subseteq Nat,
           \A c \in job.clients : cr[c].cursor >= cl[c].cursor
    PROVE  Asked(Q, cr, job)
<1>1. P \subseteq Q
  BY DEF Grown
<1>2. ASSUME NEW c \in job.clients
      PROVE  /\ cr[c].stream = "open"
             /\ job.cursor \in Q \cup {0} /\ job.cursor <= cr[c].cursor
  <2>1. job.cursor \in P \cup {0} /\ job.cursor <= cl[c].cursor
    BY DEF Asked
  <2>2. cl[c].cursor \in Nat /\ cr[c].cursor \in Nat /\ cr[c].cursor >= cl[c].cursor
    OBVIOUS
  <2>3. P \cup {0} \subseteq Nat
    OBVIOUS
  <2>4. job.cursor \in Nat
    BY ONLY <2>1, <2>3
  <2>5. job.cursor <= cr[c].cursor
    BY ONLY <2>1, <2>2, <2>4
  <2> QED
    BY <1>1, <2>1, <2>5
<1>3. job.clients # {} /\ job.answered => Answer(Q, job.cursor, job.events)
  BY AnswerStill DEF Asked
<1>4. DOMAIN job = JobFields /\ job.clients \subseteq Page
  BY DEF Asked
<1> QED
  BY <1>2, <1>3, <1>4 DEF Asked

LEMMA GrownSame ==
    ASSUME NEW P
    PROVE  Grown(P, P)
BY DEF Grown

\* A page that opens a stream at an event it knows nothing before.
LEMMA OpenedFed ==
    ASSUME NEW P, NEW l, Fed(P, l), l.lastEventId = 0, l.queue = <<>>,
           NEW start \in P \cup {0}
    PROVE  /\ Fed(P, Opened(l, start)) /\ Opened(l, start).stream = "open"
           /\ Opened(l, start).through = start /\ Opened(l, start).restarted = start
<1> DEFINE x == [l EXCEPT !.stream = "open"]
           y == [x EXCEPT !.cursor = start]
           z == [y EXCEPT !.through = start]
           o == [z EXCEPT !.restarted = start]
<1>1. DOMAIN l = LocalFields
  BY DEF Fed
<1>2. Opened(l, start) = o
  BY DEF Opened
<1>3. /\ DOMAIN x = LocalFields /\ x.stream = "open"
      /\ x.queue = l.queue /\ x.lastEventId = l.lastEventId
  BY <1>1 DEF LocalFields
<1> HIDE DEF x
<1>4. /\ DOMAIN y = LocalFields /\ y.stream = "open" /\ y.cursor = start
      /\ y.queue = l.queue /\ y.lastEventId = l.lastEventId
  BY <1>3 DEF LocalFields
<1> HIDE DEF y
<1>5. /\ DOMAIN z = LocalFields /\ z.stream = "open" /\ z.cursor = start /\ z.through = start
      /\ z.queue = l.queue /\ z.lastEventId = l.lastEventId
  BY <1>4 DEF LocalFields
<1> HIDE DEF z
<1>6. /\ DOMAIN o = LocalFields /\ o.stream = "open" /\ o.cursor = start /\ o.through = start
      /\ o.restarted = start /\ o.queue = l.queue /\ o.lastEventId = l.lastEventId
  BY <1>5 DEF LocalFields
<1> HIDE DEF o
<1>7. <<>> \in Seq(EventType) /\ Chain(P, start, <<>>) /\ End(start, <<>>) = start
  BY DEF Chain, End
<1>8. Fed(P, o)
  BY <1>6, <1>7 DEF Fed
<1> QED
  BY <1>2, <1>6, <1>8

\* A stream ends, and what it had buffered is lost.
LEMMA ClosedFed ==
    ASSUME NEW P, NEW l, Fed(P, l)
    PROVE  /\ Fed(P, Closed(l)) /\ Closed(l).stream = "closed"
           /\ Closed(l).through = l.through /\ Closed(l).restarted = l.restarted
<1> DEFINE x == [l EXCEPT !.stream = "closed"]
           y == [x EXCEPT !.queue = <<>>]
<1>1. DOMAIN l = LocalFields
  BY DEF Fed
<1>2. Closed(l) = y
  BY DEF Closed
<1>3. /\ DOMAIN x = LocalFields /\ x.stream = "closed" /\ x.cursor = l.cursor
      /\ x.through = l.through /\ x.restarted = l.restarted /\ x.lastEventId = l.lastEventId
  BY <1>1 DEF LocalFields
<1> HIDE DEF x
<1>4. /\ DOMAIN y = LocalFields /\ y.stream = "closed" /\ y.cursor = l.cursor /\ y.queue = <<>>
      /\ y.through = l.through /\ y.restarted = l.restarted /\ y.lastEventId = l.lastEventId
  BY <1>3 DEF LocalFields
<1> HIDE DEF y
<1>5. <<>> \in Seq(EventType) /\ Chain(P, l.through, <<>>)
  BY DEF Chain
<1>6. Fed(P, y)
  BY <1>4, <1>5 DEF Fed
<1> QED
  BY <1>2, <1>4, <1>6

\* A page forgets the id it got last, or keeps it.
LEMMA ForgetsFed ==
    ASSUME NEW P, NEW l, Fed(P, l), l.stream = "closed", NEW last \in {l.lastEventId, 0}
    PROVE  /\ Fed(P, [l EXCEPT !.lastEventId = last])
           /\ [l EXCEPT !.lastEventId = last].through = l.through
           /\ [l EXCEPT !.lastEventId = last].restarted = l.restarted
<1> DEFINE x == [l EXCEPT !.lastEventId = last]
<1>1. /\ DOMAIN x = LocalFields /\ x.stream = l.stream /\ x.cursor = l.cursor
      /\ x.queue = l.queue /\ x.through = l.through /\ x.restarted = l.restarted
      /\ x.lastEventId = last
  BY DEF LocalFields, Fed
<1> HIDE DEF x
<1>2. Fed(P, x)
  BY <1>1 DEF Fed
<1> QED
  BY <1>1, <1>2 DEF x

-----------------------------------------------------------------------------
(* The steps: each keeps the invariant, and is one of the feed or none.    *)

FeedStep == Feed!Next \/ UNCHANGED Feed!feedVars

\* Nothing a page got changes.
Kept ==
    /\ published' = published
    /\ \A c \in Page : /\ client'[c].through = client[c].through
                       /\ client'[c].restarted = client[c].restarted

LEMMA Stutter ==
    ASSUME Kept
    PROVE  FeedStep
<1>1. /\ [c \in Page |-> client[c].through]' = [c \in Page |-> client[c].through]
      /\ [c \in Page |-> client[c].restarted]' = [c \in Page |-> client[c].restarted]
      /\ published' = published
  BY DEF Kept
<1> QED
  BY <1>1 DEF FeedStep, Feed!feedVars

\* The ids that are published are positive and were drawn.
LEMMA PublishedFacts ==
    ASSUME Serialised
    PROVE  /\ published \in SUBSET Nat /\ published \cup {0} \subseteq Nat
           /\ nextId \in Nat /\ 0 \notin published
           /\ \A i \in published : i <= nextId
BY DEF Serialised

\* The pages and the jobs are as they were.
LEMMA PagesUnchanged ==
    ASSUME LiveInv, published' = published, client' = client, jobs' = jobs
    PROVE  /\ DOMAIN client' = Page /\ (\A c \in Page : Fed(published', client'[c]))
           /\ (\A job \in jobs' : Asked(published', client', job))
           /\ FeedStep
<1>1. Kept
  BY DEF Kept
<1> QED
  BY <1>1, Stutter DEF LiveInv

LEMMA lockKeeps ==
    ASSUME LiveAssumption, LiveInv, NEW w \in Writer, lockLiveEventWriter(w)
    PROVE  LiveInv' /\ FeedStep
<1>1. /\ row = NoWriter /\ row' = w /\ nextId < MaxId /\ nextId' = nextId + 1
      /\ inserted' = [inserted EXCEPT ![w] = nextId + 1]
      /\ liveEvents' = liveEvents /\ prunedThrough' = prunedThrough /\ published' = published
      /\ client' = client /\ jobs' = jobs /\ latestCursor' = latestCursor
      /\ latestCursorPromise' = latestCursorPromise
  BY DEF lockLiveEventWriter, MayInsert, server
<1>2. /\ nextId \in 0..MaxId /\ published \subseteq 1..nextId
      /\ prunedThrough \in published \cup {0}
      /\ liveEvents = {i \in published : i > prunedThrough}
      /\ inserted \in [Writer -> Nat]
      /\ \A v \in Writer : inserted[v] # 0 => row = v
  BY DEF LiveInv, Serialised
<1>3. MaxId \in Nat /\ NoWriter \notin Writer
  BY DEF LiveAssumption
<1>4. nextId + 1 \in 0..MaxId /\ published \subseteq 1..nextId + 1 /\ nextId + 1 \notin published
      /\ nextId + 1 \in Nat
  BY <1>1, <1>2, <1>3
<1>5. inserted' \in [Writer -> Nat] /\ inserted'[w] = nextId + 1
      /\ \A v \in Writer : v # w => inserted'[v] = inserted[v]
  BY <1>1, <1>2, <1>4
<1>6. \A v \in Writer : inserted[v] = 0
  BY <1>1, <1>2, <1>3
<1>7. Serialised'
  BY <1>1, <1>2, <1>4, <1>5, <1>6 DEF Serialised
<1>8. Known'
  BY <1>1 DEF LiveInv, Known
<1> QED
  BY <1>1, <1>7, <1>8, PagesUnchanged DEF LiveInv

LEMMA rollbackKeeps ==
    ASSUME LiveAssumption, LiveInv, NEW w \in Writer, rollback(w)
    PROVE  LiveInv' /\ FeedStep
<1>1. /\ inserted[w] # 0 /\ inserted' = [inserted EXCEPT ![w] = 0] /\ nextId' = nextId
      /\ liveEvents' = liveEvents /\ prunedThrough' = prunedThrough /\ published' = published
      /\ client' = client /\ jobs' = jobs /\ latestCursor' = latestCursor
      /\ latestCursorPromise' = latestCursorPromise
  BY DEF rollback, server
<1>2. /\ inserted \in [Writer -> Nat]
      /\ \A v \in Writer : inserted[v] # 0 => row = v
  BY DEF LiveInv, Serialised
<1>3. inserted' \in [Writer -> Nat] /\ \A v \in Writer : inserted'[v] = 0
  BY <1>1, <1>2
<1>4. Serialised'
  BY <1>1, <1>3 DEF LiveInv, Serialised
<1>5. Known'
  BY <1>1 DEF LiveInv, Known
<1> QED
  BY <1>1, <1>4, <1>5, PagesUnchanged DEF LiveInv

LEMMA pruneKeeps ==
    ASSUME LiveAssumption, LiveInv, pruneLiveEvents
    PROVE  LiveInv' /\ FeedStep
<1>1. PICK old \in liveEvents :
        /\ liveEvents' = {i \in liveEvents : i > old}
        /\ prunedThrough' = Max({prunedThrough, old})
  BY DEF pruneLiveEvents
<1>2. /\ prunedThrough = 0 /\ nextId' = nextId /\ inserted' = inserted /\ row' = row
      /\ published' = published
      /\ client' = client /\ jobs' = jobs /\ latestCursor' = latestCursor
      /\ latestCursorPromise' = latestCursorPromise
  BY DEF pruneLiveEvents, server
<1>3. liveEvents = {i \in published : i > prunedThrough} /\ Serialised
  BY DEF LiveInv, Serialised
<1>4. old \in published /\ old \in Nat /\ old > 0 /\ published \subseteq Nat
  BY <1>2, <1>3, PublishedFacts
<1>5. prunedThrough' = old
  <2>1. prunedThrough \in Int /\ old \in Int
    BY <1>2, <1>4
  <2>2. /\ prunedThrough' \in {prunedThrough, old} /\ prunedThrough' >= old
    BY <1>1, <2>1, MaxOfTwo
  <2> QED
    BY <1>2, <1>4, <2>2
<1>6. liveEvents' = {i \in published : i > old}
  <2>1. \A i \in published : i \in Nat /\ (i > old => i > 0)
    BY <1>4
  <2>2. \A i \in published : i > old => i \in liveEvents
    BY <1>2, <1>3, <2>1
  <2>3. liveEvents \subseteq published
    BY <1>3
  <2> QED
    BY <1>1, <2>2, <2>3
<1>7. Serialised'
  BY <1>2, <1>4, <1>5, <1>6 DEF LiveInv, Serialised
<1>8. Known'
  BY <1>2 DEF LiveInv, Known
<1> QED
  BY <1>2, <1>7, <1>8, PagesUnchanged DEF LiveInv

\* The event that becomes visible is newer than all that are, because the row
\* is held from before its id is drawn until it is visible.
LEMMA commitKeeps ==
    ASSUME LiveAssumption, LiveInv, NEW w \in Writer, commit(w)
    PROVE  LiveInv' /\ FeedStep
<1>1. /\ inserted[w] # 0 /\ liveEvents' = liveEvents \cup {inserted[w]}
      /\ published' = published \cup {inserted[w]}
      /\ inserted' = [inserted EXCEPT ![w] = 0]
      /\ prunedThrough' = prunedThrough /\ nextId' = nextId
      /\ client' = client /\ jobs' = jobs /\ latestCursor' = latestCursor
      /\ latestCursorPromise' = latestCursorPromise
  BY DEF commit, server
<1>2. /\ nextId \in 0..MaxId /\ published \subseteq 1..nextId
      /\ prunedThrough \in published \cup {0}
      /\ liveEvents = {i \in published : i > prunedThrough}
      /\ inserted \in [Writer -> Nat]
      /\ \A v \in Writer : inserted[v] # 0 =>
           row = v /\ inserted[v] = nextId /\ nextId \notin published
  BY DEF LiveInv, Serialised
<1>3. MaxId \in Nat
  BY DEF LiveAssumption
<1>4. /\ inserted[w] = nextId /\ nextId # 0 /\ nextId \in 1..MaxId /\ nextId \notin published
      /\ published' = published \cup {nextId} /\ liveEvents' = liveEvents \cup {nextId}
  BY <1>1, <1>2, <1>3
<1>5. \A i \in published : i \in Nat /\ i < nextId
  BY <1>2, <1>3, <1>4
<1>6. prunedThrough < nextId /\ prunedThrough \in Nat
  BY <1>2, <1>4, <1>5
<1>7. Serialised'
  <2>1. inserted' \in [Writer -> Nat] /\ \A v \in Writer : inserted'[v] = 0
    BY <1>1, <1>2
  <2>2. published' \subseteq 1..nextId /\ prunedThrough' \in published' \cup {0}
    BY <1>1, <1>2, <1>3, <1>4
  <2>3. liveEvents' = {i \in published' : i > prunedThrough'}
    BY <1>1, <1>2, <1>4, <1>6
  <2> QED
    BY <1>1, <1>2, <2>1, <2>2, <2>3 DEF Serialised
<1>8. Known'
  BY <1>1 DEF LiveInv, Known
<1>9. /\ Grown(published, published') /\ published \subseteq Nat /\ published' \subseteq Nat
      /\ published \in SUBSET Nat
  BY <1>3, <1>4, <1>5 DEF Grown
<1>10. \A c \in Page : Fed(published', client'[c])
  BY <1>1, <1>9, FedStill DEF LiveInv
<1>11. \A job \in jobs' : Asked(published', client', job)
  <2> SUFFICES ASSUME NEW job \in jobs
               PROVE  Asked(published', client, job)
    BY <1>1
  <2>1. Asked(published, client, job)
    BY DEF LiveInv
  <2>2. \A c \in job.clients : client[c].stream = "open"
    BY <2>1 DEF Asked
  <2>3. \A c \in job.clients : client[c].cursor \in Nat
    <3>1. \A c \in job.clients : client[c].cursor \in published \cup {0}
      BY <2>1 DEF LiveInv, Asked, Fed
    <3>2. published \cup {0} \subseteq Nat
      BY <1>9
    <3> QED
      BY <3>1, <3>2
  <2>4. /\ \A c \in job.clients : {client[c].cursor, client[c].cursor} \subseteq Nat
        /\ \A c \in job.clients : client[c].cursor >= client[c].cursor
    BY <2>3
  <2> QED
    BY <1>9, <2>1, <2>2, <2>4, AskedStill
<1>12. FeedStep
  <2>1. nextId \in 1..MaxId /\ \A i \in published : nextId > i
    BY <1>4, <1>5
  <2>2. Feed!Publish
    BY <1>1, <1>4, <2>1 DEF Feed!Publish
  <2> QED
    BY <2>2 DEF FeedStep, Feed!Next
<1> QED
  BY <1>1, <1>7, <1>8, <1>10, <1>11, <1>12 DEF LiveInv

-----------------------------------------------------------------------------

LEMMA startPollKeeps ==
    ASSUME LiveAssumption, LiveInv, startPoll
    PROVE  LiveInv' /\ FeedStep
<1> DEFINE ready == {c \in Open : Len(client[c].queue) < highWaterMark}
           cursors == {client[c].cursor : c \in ready}
           job(k) == [cursor |-> k, clients |-> {c \in ready : client[c].cursor = k},
                      answered |-> FALSE, events |-> <<>>, stray |-> FALSE]
<1>1. /\ jobs' = jobs \cup {job(k) : k \in Selected(cursors)}
      /\ liveEvents' = liveEvents /\ prunedThrough' = prunedThrough /\ nextId' = nextId
      /\ row' = row /\ inserted' = inserted /\ published' = published
      /\ client' = client /\ latestCursor' = latestCursor
      /\ latestCursorPromise' = latestCursorPromise
  BY DEF startPoll, database
<1>2. Serialised' /\ Known'
  BY <1>1 DEF LiveInv, Serialised, Known
<1>3. ASSUME NEW k
      PROVE  Asked(published, client, job(k))
  <2> DEFINE j == job(k)
  <2>1. /\ DOMAIN j = JobFields /\ j.clients = {c \in ready : client[c].cursor = k}
        /\ j.cursor = k /\ j.answered = FALSE
    BY DEF JobFields
  <2> HIDE DEF j
  <2>2. \A c \in j.clients : c \in Page /\ client[c].stream = "open" /\ client[c].cursor = k
    BY <2>1 DEF Open
  <2>3. ASSUME NEW c \in j.clients
        PROVE  j.cursor \in published \cup {0} /\ j.cursor <= client[c].cursor
    <3>1. client[c].cursor \in published \cup {0}
      BY <2>2 DEF LiveInv, Fed
    <3>2. published \cup {0} \subseteq Nat
      BY PublishedFacts DEF LiveInv
    <3>3. k \in Nat
      BY <2>2, <3>1, <3>2
    <3> QED
      BY <2>1, <2>2, <3>1, <3>3
  <2>4. Asked(published, client, j)
    BY <2>1, <2>2, <2>3 DEF Asked
  <2> QED
    BY <2>4 DEF j
<1> HIDE DEF job
<1>4. \A j \in jobs' : Asked(published', client', j)
  BY <1>1, <1>3 DEF LiveInv
<1>5. Kept
  BY <1>1 DEF Kept
<1>6. FeedStep
  BY <1>5, Stutter
<1> QED
  BY <1>1, <1>2, <1>4, <1>6 DEF LiveInv

\* Of a job that is changed or left, the clients, their streams and the events
\* that count are as before.
LEMMA queryKeeps ==
    ASSUME LiveAssumption, LiveInv, NEW job \in jobs, query(job)
    PROVE  LiveInv' /\ FeedStep
<1> DEFINE x == [job EXCEPT !.answered = TRUE]
           j == [x EXCEPT !.events = eventsAfter(job.cursor)]
<1>1. /\ jobs' = (jobs \ {job}) \cup {j}
      /\ liveEvents' = liveEvents /\ prunedThrough' = prunedThrough /\ nextId' = nextId
      /\ row' = row /\ inserted' = inserted /\ published' = published
      /\ client' = client /\ latestCursor' = latestCursor
      /\ latestCursorPromise' = latestCursorPromise
  BY DEF query, database
<1>2. Serialised' /\ Known'
  BY <1>1 DEF LiveInv, Serialised, Known
<1>3. Asked(published, client, job)
  BY DEF LiveInv
<1>4. /\ DOMAIN x = JobFields /\ x.clients = job.clients /\ x.cursor = job.cursor
  BY <1>3 DEF Asked, JobFields
<1> HIDE DEF x
<1>5. /\ DOMAIN j = JobFields /\ j.clients = job.clients /\ j.cursor = job.cursor
      /\ j.events = eventsAfter(job.cursor)
  BY <1>4 DEF JobFields
<1> HIDE DEF j
<1>6. ASSUME job.clients # {}
      PROVE  Answer(published, job.cursor, eventsAfter(job.cursor))
  <2>1. job.cursor \in published \cup {0}
    BY <1>3, <1>6 DEF Asked
  <2>2. Serialised
    BY DEF LiveInv
  <2> QED
    BY <2>1, <2>2, AnswerFacts
<1>7. Asked(published, client, j)
  BY <1>3, <1>5, <1>6 DEF Asked
<1>8. Kept
  BY <1>1 DEF Kept
<1>9. FeedStep
  BY <1>8, Stutter
<1> QED
  BY <1>1, <1>2, <1>7, <1>9 DEF LiveInv

LEMMA queryFailsKeeps ==
    ASSUME LiveAssumption, LiveInv, NEW job \in jobs, queryFails(job)
    PROVE  LiveInv' /\ FeedStep
<1> DEFINE Left == {IF job.stray THEN j ELSE [j EXCEPT !.stray = TRUE] : j \in jobs \ {job}}
<1>1. jobs' = Left
  BY DEF queryFails
<1>2. /\ liveEvents' = liveEvents /\ prunedThrough' = prunedThrough /\ nextId' = nextId
      /\ row' = row /\ inserted' = inserted /\ published' = published
      /\ client' = client /\ latestCursor' = latestCursor
      /\ latestCursorPromise' = latestCursorPromise
  BY DEF queryFails, database
<1>3. Serialised' /\ Known'
  BY <1>2 DEF LiveInv, Serialised, Known
<1>4. ASSUME NEW j \in jobs
      PROVE  Asked(published, client, [j EXCEPT !.stray = TRUE]) /\ Asked(published, client, j)
  <2> DEFINE x == [j EXCEPT !.stray = TRUE]
  <2>1. Asked(published, client, j)
    BY DEF LiveInv
  <2>2. /\ DOMAIN x = JobFields /\ x.clients = j.clients /\ x.cursor = j.cursor
        /\ x.answered = j.answered /\ x.events = j.events
    BY <2>1 DEF Asked, JobFields
  <2> HIDE DEF x
  <2>3. Asked(published, client, x)
    BY <2>1, <2>2 DEF Asked
  <2> QED
    BY <2>1, <2>3 DEF x
<1>5. \A j \in jobs' : Asked(published', client', j)
  BY <1>1, <1>2, <1>4
<1>6. Kept
  BY <1>2 DEF Kept
<1>7. FeedStep
  BY <1>6, Stutter
<1> QED
  BY <1>2, <1>3, <1>5, <1>7 DEF LiveInv

LEMMA deliverKeeps ==
    ASSUME LiveAssumption, LiveInv, NEW job \in jobs, deliver(job)
    PROVE  LiveInv' /\ FeedStep
<1> DEFINE met == UNION {Met(client[c], job.events) : c \in job.clients}
<1>1. /\ job.answered /\ jobs' = jobs \ {job}
      /\ client' = [c \in Page |-> IF c \in job.clients THEN enqueueEvents(client[c], job.events)
                                   ELSE client[c]]
      /\ latestCursor' = IF met = {} THEN latestCursor ELSE Max({latestCursor, 0} \cup met)
      /\ liveEvents' = liveEvents /\ prunedThrough' = prunedThrough /\ nextId' = nextId
      /\ row' = row /\ inserted' = inserted /\ published' = published
      /\ latestCursorPromise' = latestCursorPromise
  BY DEF deliver, database
<1>2. Serialised /\ Known /\ Asked(published, client, job)
      /\ (\A c \in Page : Fed(published, client[c]))
      /\ \A j \in jobs : Asked(published, client, j)
  BY DEF LiveInv
<1>3. /\ published \in SUBSET Nat /\ published \cup {0} \subseteq Nat /\ nextId \in Nat
      /\ published \subseteq Nat /\ \A i \in published : i <= nextId
  BY <1>2, PublishedFacts
<1>4. \A c \in Page : client[c].cursor \in Nat
  <2>1. \A c \in Page : client[c].cursor \in published \cup {0}
    BY <1>2 DEF Fed
  <2> QED
    BY ONLY <1>3, <2>1
<1>5. ASSUME NEW c \in Page
      PROVE  Fed(published, client'[c]) /\ Forwards(client[c], client'[c])
  <2>1. CASE c \in job.clients
    <3>1. /\ client[c].stream = "open" /\ job.cursor \in published \cup {0}
          /\ job.cursor <= client[c].cursor /\ Answer(published, job.cursor, job.events)
      BY <1>1, <1>2, <2>1 DEF Asked
    <3>2. job.cursor \in Nat
      BY ONLY <1>3, <3>1
    <3>3. Fed(published, client[c])
      BY <1>2
    <3>4. client'[c] = enqueueEvents(client[c], job.events)
      BY <1>1, <2>1
    <3>5. /\ Fed(published, enqueueEvents(client[c], job.events))
          /\ Forwards(client[c], enqueueEvents(client[c], job.events))
      BY <1>3, <3>1, <3>2, <3>3, EnqueueFacts
    <3> QED
      BY <3>4, <3>5
  <2>2. CASE c \notin job.clients
    <3>1. client'[c] = client[c] /\ client[c].cursor >= client[c].cursor
      BY <1>1, <1>4, <2>2
    <3> QED
      BY <1>2, <3>1 DEF Forwards
  <2> QED
    BY <2>1, <2>2
<1>6. \A j \in jobs' : Asked(published', client', j)
  <2> SUFFICES ASSUME NEW j \in jobs
               PROVE  Asked(published, client', j)
    BY <1>1
  <2>1. Asked(published, client, j) /\ j.clients \subseteq Page
    BY <1>2 DEF Asked
  <2>2. \A c \in j.clients : client'[c].stream = "open"
    BY <1>5, <2>1 DEF Asked, Forwards
  <2>3. \A c \in Page : client'[c].cursor \in Nat
    <3>1. \A c \in Page : client'[c].cursor \in published \cup {0}
      BY <1>5 DEF Fed
    <3> QED
      BY ONLY <1>3, <3>1
  <2>4. \A c \in j.clients : {client[c].cursor, client'[c].cursor} \subseteq Nat
    BY <1>4, <2>1, <2>3
  <2>5. \A c \in j.clients : client'[c].cursor >= client[c].cursor
    BY <1>5, <2>1 DEF Forwards
  <2>6. Grown(published, published)
    BY GrownSame
  <2> QED
    BY <1>3, <2>1, <2>2, <2>4, <2>5, <2>6, AskedStill
<1>7. latestCursor' \in published \cup {0, -1}
  <2>1. latestCursor \in published \cup {0, -1}
    BY <1>2 DEF Known
  <2>2. met \subseteq published
    <3>1. ASSUME NEW c \in job.clients
          PROVE  Met(client[c], job.events) \subseteq published
      <4>1. Answer(published, job.cursor, job.events)
        BY <1>1, <1>2 DEF Asked
      <4> QED
        BY <4>1, MetFacts
    <3> QED
      BY <3>1
  <2> HIDE DEF met
  <2>3. CASE met = {}
    BY <1>1, <2>1, <2>3
  <2>4. CASE met # {}
    <3> DEFINE M == {latestCursor, 0} \cup met
    <3>1. PICK x : x \in {Max(M)} /\ latestCursor' = x
      BY <1>1, <2>4
    <3>2. Max(M) \in M
      <4>1. \E i \in M : \A k \in M : i >= k
        <5> DEFINE N == (M \ {-1}) \cup {0}
        <5>1. N \in SUBSET Nat /\ N # {} /\ \A i \in N : i <= nextId
          BY <1>3, <2>1, <2>2
        <5>2. Max(N) \in N /\ \A i \in N : i <= Max(N)
          <6> HIDE DEF N
          <6> QED
            BY ONLY <1>3, <5>1, MaxOf
        <5>3. \A i \in M : i \in N \/ i = -1
          OBVIOUS
        <5>4. N \subseteq M /\ Max(N) \in Nat
          BY <5>1, <5>2
        <5> HIDE DEF N, M
        <5>5. \A i \in M : Max(N) >= i
          BY <5>1, <5>2, <5>3, <5>4
        <5> QED
          BY <5>2, <5>4, <5>5
      <4> HIDE DEF M
      <4> QED
        BY <4>1 DEF Max
    <3>3. M \subseteq published \cup {0, -1}
      BY <2>1, <2>2
    <3> QED
      BY <3>1, <3>2, <3>3
  <2> QED
    BY <2>3, <2>4
<1>8. Known'
  BY <1>1, <1>2, <1>7 DEF Known
<1>9. Serialised'
  BY <1>1, <1>2 DEF Serialised
<1>10. Kept
  BY <1>1, <1>5 DEF Kept, Forwards
<1>11. FeedStep
  BY <1>10, Stutter
<1>12. DOMAIN client' = Page
  BY <1>1
<1> QED
  BY <1>1, <1>5, <1>6, <1>8, <1>9, <1>11, <1>12 DEF LiveInv

-----------------------------------------------------------------------------

\* One page changed, and no job is for it or its stream is as open and as far.
LEMMA OnePage ==
    ASSUME LiveInv, NEW c \in Page, NEW l, client' = [client EXCEPT ![c] = l],
           Fed(published, l),
           client[c].stream = "open" => l.stream = "open" /\ l.cursor = client[c].cursor,
           published' = published, jobs' = jobs
    PROVE  /\ DOMAIN client' = Page /\ (\A d \in Page : Fed(published', client'[d]))
           /\ \A job \in jobs' : Asked(published', client', job)
<1>1. DOMAIN client = Page /\ \A d \in Page : Fed(published, client[d])
  BY DEF LiveInv
<1>2. DOMAIN client' = Page /\ client'[c] = l /\ \A d \in Page : d # c => client'[d] = client[d]
  BY <1>1
<1>3. \A d \in Page : Fed(published, client'[d])
  BY <1>1, <1>2
<1>4. ASSUME NEW job \in jobs
      PROVE  Asked(published, client', job)
  <2>1. Asked(published, client, job) /\ job.clients \subseteq Page
    BY DEF LiveInv, Asked
  <2>2. \A d \in job.clients : /\ client'[d].stream = "open"
                               /\ client'[d].cursor = client[d].cursor
    BY <1>2, <2>1 DEF Asked
  <2> QED
    BY <2>1, <2>2 DEF Asked
<1> QED
  BY <1>2, <1>3, <1>4

LEMMA streamKeeps ==
    ASSUME LiveAssumption, LiveInv, NEW c \in Page, stream(c)
    PROVE  LiveInv' /\ FeedStep
<1>1. /\ client[c].stream = "closed"
      /\ liveEvents' = liveEvents /\ prunedThrough' = prunedThrough /\ nextId' = nextId
      /\ row' = row /\ inserted' = inserted /\ published' = published
      /\ latestCursor' = latestCursor /\ jobs' = jobs
  BY DEF stream, database
<1>2. /\ Serialised /\ Known /\ Fed(published, client[c]) /\ DOMAIN client = Page
      /\ \A d \in Page : Fed(published, client[d])
  BY DEF LiveInv
<1>3. /\ DOMAIN client[c] = LocalFields /\ client[c].queue = <<>>
      /\ client[c].lastEventId # 0 => client[c].through = client[c].lastEventId
      /\ {client[c].cursor, client[c].through, client[c].restarted, client[c].lastEventId}
           \subseteq published \cup {0}
  BY <1>1, <1>2 DEF Fed
<1>4. <<>> \in Seq(EventType) /\ \A k : Chain(published, k, <<>>) /\ End(k, <<>>) = k
  BY DEF Chain, End
<1>5. Serialised'
  BY <1>1, <1>2 DEF Serialised
<1>6. CASE /\ client[c].lastEventId > 0
           /\ client' = [client EXCEPT ![c].stream = "open", ![c].cursor = client[c].lastEventId]
           /\ UNCHANGED latestCursorPromise
  <2> DEFINE x == [client[c] EXCEPT !.stream = "open"]
             l == [x EXCEPT !.cursor = client[c].lastEventId]
  <2>1. client' = [client EXCEPT ![c] = l]
    BY <1>2, <1>6
  <2>2. /\ DOMAIN x = LocalFields /\ x.stream = "open" /\ x.queue = <<>>
        /\ x.through = client[c].through /\ x.restarted = client[c].restarted
        /\ x.lastEventId = client[c].lastEventId
    BY <1>3 DEF LocalFields
  <2> HIDE DEF x
  <2>3. /\ DOMAIN l = LocalFields /\ l.stream = "open" /\ l.queue = <<>>
        /\ l.cursor = client[c].lastEventId
        /\ l.through = client[c].through /\ l.restarted = client[c].restarted
        /\ l.lastEventId = client[c].lastEventId
    BY <2>2 DEF LocalFields
  <2> HIDE DEF l
  <2>4. client[c].lastEventId # 0
    BY <1>6
  <2>5. Fed(published, l)
    BY <1>3, <1>4, <2>3, <2>4 DEF Fed
  <2>6. /\ DOMAIN client' = Page /\ (\A d \in Page : Fed(published', client'[d]))
        /\ \A job \in jobs' : Asked(published', client', job)
    BY <1>1, <2>1, <2>5, OnePage
  <2>7. Kept
    BY <1>1, <1>2, <2>1, <2>3 DEF Kept
  <2>8. Known'
    BY <1>1, <1>2, <1>6 DEF Known
  <2> QED
    BY <1>5, <2>6, <2>7, <2>8, Stutter DEF LiveInv
<1>7. CASE /\ client[c].lastEventId = 0 /\ latestCursor # -1
           /\ client' = [client EXCEPT ![c] = Opened(@, latestCursor)]
           /\ UNCHANGED latestCursorPromise
  <2> DEFINE l == Opened(client[c], latestCursor)
  <2>1. client' = [client EXCEPT ![c] = l]
    BY <1>7
  <2>2. latestCursor \in published \cup {0}
    BY <1>2, <1>7 DEF Known
  <2>3. Fed(published, l) /\ l.through = latestCursor /\ l.restarted = latestCursor
    BY <1>2, <1>3, <1>7, <2>2, OpenedFed
  <2> HIDE DEF l
  <2>4. /\ DOMAIN client' = Page /\ (\A d \in Page : Fed(published', client'[d]))
        /\ \A job \in jobs' : Asked(published', client', job)
    BY <1>1, <2>1, <2>3, OnePage
  <2>5. Known'
    BY <1>1, <1>2, <1>7 DEF Known
  <2>6. FeedStep
    <3>1. /\ [d \in Page |-> client[d].through]' =
               [d \in Page |-> IF d \in {c} THEN latestCursor
                               ELSE [e \in Page |-> client[e].through][d]]
          /\ [d \in Page |-> client[d].restarted]' =
               [d \in Page |-> IF d \in {c} THEN latestCursor
                               ELSE [e \in Page |-> client[e].restarted][d]]
      BY <1>2, <2>1, <2>3
    <3>2. Feed!StartAgain({c})
      BY <1>1, <2>2, <3>1 DEF Feed!StartAgain
    <3> QED
      BY <3>2 DEF FeedStep, Feed!Next
  <2> QED
    BY <1>5, <2>4, <2>5, <2>6 DEF LiveInv
<1>8. CASE /\ client[c].lastEventId = 0 /\ latestCursor = -1
           /\ client' = [client EXCEPT ![c].stream = "opening"]
           /\ latestCursorPromise' = IF latestCursorPromise # -1 THEN latestCursorPromise
                                     ELSE latestEventId
  <2> DEFINE l == [client[c] EXCEPT !.stream = "opening"]
  <2>1. client' = [client EXCEPT ![c] = l]
    BY <1>8
  <2>2. /\ DOMAIN l = LocalFields /\ l.stream = "opening" /\ l.queue = <<>>
        /\ l.cursor = client[c].cursor
        /\ l.through = client[c].through /\ l.restarted = client[c].restarted
        /\ l.lastEventId = client[c].lastEventId
    BY <1>3 DEF LocalFields
  <2> HIDE DEF l
  <2>3. Fed(published, l)
    BY <1>3, <1>4, <1>8, <2>2 DEF Fed
  <2>4. /\ DOMAIN client' = Page /\ (\A d \in Page : Fed(published', client'[d]))
        /\ \A job \in jobs' : Asked(published', client', job)
    BY <1>1, <2>1, <2>3, OnePage
  <2>5. Kept
    BY <1>1, <1>2, <2>1, <2>2 DEF Kept
  <2>6. latestEventId \in published \cup {0}
    BY <1>2, NewestFacts
  <2>7. Known'
    BY <1>1, <1>2, <1>8, <2>6 DEF Known
  <2> QED
    BY <1>5, <2>4, <2>5, <2>7, Stutter DEF LiveInv
<1> QED
  BY <1>6, <1>7, <1>8 DEF stream

LEMMA initialCursorKeeps ==
    ASSUME LiveAssumption, LiveInv, initialCursor
    PROVE  LiveInv' /\ FeedStep
<1> DEFINE Waiting == {c \in Page : client[c].stream = "opening"}
           start == latestCursorPromise
<1>1. /\ start # -1 /\ latestCursor' = start /\ latestCursorPromise' = -1 /\ jobs' = jobs
      /\ client' = [c \in Page |-> IF client[c].stream # "opening" THEN client[c]
                                   ELSE Opened(client[c], start)]
      /\ liveEvents' = liveEvents /\ prunedThrough' = prunedThrough /\ nextId' = nextId
      /\ row' = row /\ inserted' = inserted /\ published' = published
  BY DEF initialCursor, database
<1>2. /\ Serialised /\ Known /\ DOMAIN client = Page
      /\ (\A c \in Page : Fed(published, client[c]))
      /\ \A job \in jobs : Asked(published, client, job)
  BY DEF LiveInv
<1>3. start \in published \cup {0}
  BY <1>1, <1>2 DEF Known
<1> HIDE DEF start
<1>4. Serialised'
  BY <1>1, <1>2 DEF Serialised
<1>5. Known'
  BY <1>1, <1>3 DEF Known
<1>6. ASSUME NEW c \in Page
      PROVE  /\ c \in Waiting =>
                  /\ Fed(published, client'[c])
                  /\ client'[c].through = start /\ client'[c].restarted = start
             /\ c \notin Waiting => client'[c] = client[c]
  <2>1. CASE c \in Waiting
    <3>1. client'[c] = Opened(client[c], start)
      BY <1>1, <2>1
    <3>2. Fed(published, client[c])
      BY <1>2
    <3>3. client[c].lastEventId = 0 /\ client[c].queue = <<>>
      BY <2>1, <3>2 DEF Fed
    <3> QED
      BY <1>3, <2>1, <3>1, <3>2, <3>3, OpenedFed
  <2>2. CASE c \notin Waiting
    BY <1>1, <2>2
  <2> QED
    BY <2>1, <2>2
<1>7. ASSUME NEW job \in jobs
      PROVE  Asked(published, client', job)
  <2>1. Asked(published, client, job) /\ job.clients \subseteq Page
    BY <1>2 DEF Asked
  <2>2. \A c \in job.clients : c \notin Waiting /\ c \in Page
    BY <2>1 DEF Asked
  <2>3. \A c \in job.clients : client'[c] = client[c]
    BY <1>6, <2>2
  <2> QED
    BY <2>1, <2>3 DEF Asked
<1>8. FeedStep
  <2>1. /\ [c \in Page |-> client[c].through]' =
             [c \in Page |-> IF c \in Waiting THEN start
                             ELSE [d \in Page |-> client[d].through][c]]
        /\ [c \in Page |-> client[c].restarted]' =
             [c \in Page |-> IF c \in Waiting THEN start
                             ELSE [d \in Page |-> client[d].restarted][c]]
    BY <1>6
  <2>2. PICK pages \in SUBSET Page : pages = Waiting
    OBVIOUS
  <2>3. Feed!StartAgain(pages)
    BY <1>1, <1>3, <2>1, <2>2 DEF Feed!StartAgain
  <2> QED
    BY <2>2, <2>3 DEF FeedStep, Feed!Next
<1>9. DOMAIN client' = Page /\ \A c \in Page : Fed(published, client'[c])
  BY <1>1, <1>2, <1>6
<1> QED
  BY <1>1, <1>4, <1>5, <1>7, <1>8, <1>9 DEF LiveInv

LEMMA receiveKeeps ==
    ASSUME LiveAssumption, LiveInv, NEW c \in Page, receive(c)
    PROVE  LiveInv' /\ FeedStep
<1> DEFINE e == Head(client[c].queue)
           x == [client[c] EXCEPT !.queue = Tail(client[c].queue)]
           y == [x EXCEPT !.through = e.id]
           z == [y EXCEPT !.lastEventId = e.id]
           r == IF e.reset THEN e.id ELSE client[c].restarted
           l == [z EXCEPT !.restarted = r]
<1>1. /\ client[c].queue # <<>> /\ jobs' = jobs
      /\ liveEvents' = liveEvents /\ prunedThrough' = prunedThrough /\ nextId' = nextId
      /\ row' = row /\ inserted' = inserted /\ published' = published
      /\ latestCursor' = latestCursor /\ latestCursorPromise' = latestCursorPromise
  BY DEF receive, database, server
<1>2. /\ Serialised /\ Known /\ DOMAIN client = Page /\ Fed(published, client[c])
  BY DEF LiveInv
<1>3. client' = [client EXCEPT ![c] = l]
  BY <1>2 DEF receive
<1>4. /\ DOMAIN client[c] = LocalFields
      /\ {client[c].cursor, client[c].through, client[c].restarted, client[c].lastEventId}
           \subseteq published \cup {0}
      /\ client[c].queue \in Seq(EventType)
      /\ Chain(published, client[c].through, client[c].queue)
      /\ client[c].stream = "open"
      /\ client[c].cursor = End(client[c].through, client[c].queue)
  BY <1>1, <1>2 DEF Fed
<1>5. /\ e \in EventType /\ e.id \in published
      /\ e.reset = FALSE => Follows(published, e.id, client[c].through)
      /\ Tail(client[c].queue) \in Seq(EventType)
      /\ Chain(published, e.id, Tail(client[c].queue))
      /\ End(e.id, Tail(client[c].queue)) = client[c].cursor
  <2> DEFINE q == client[c].queue
             prev == client[c].through
  <2>1. q \in Seq(EventType) /\ q # <<>> /\ Chain(published, prev, q)
    BY <1>1, <1>4
  <2>2. client[c].cursor = End(prev, q)
    BY <1>4
  <2> HIDE DEF q, prev
  <2>3. /\ Head(q) \in EventType /\ Head(q).id \in published
        /\ Head(q).reset = FALSE => Follows(published, Head(q).id, prev)
        /\ Tail(q) \in Seq(EventType) /\ Chain(published, Head(q).id, Tail(q))
        /\ End(Head(q).id, Tail(q)) = End(prev, q)
    BY <2>1, ChainShortens
  <2> QED
    BY <2>2, <2>3 DEF q, prev
<1>6. e.reset \in BOOLEAN
  BY <1>5 DEF EventType
<1> HIDE DEF e
<1>7. /\ DOMAIN x = LocalFields /\ x.stream = client[c].stream /\ x.cursor = client[c].cursor
      /\ x.queue = Tail(client[c].queue) /\ x.restarted = client[c].restarted
  BY <1>4 DEF LocalFields
<1> HIDE DEF x
<1>8. /\ DOMAIN y = LocalFields /\ y.stream = client[c].stream /\ y.cursor = client[c].cursor
      /\ y.queue = Tail(client[c].queue) /\ y.restarted = client[c].restarted
      /\ y.through = e.id
  BY <1>7 DEF LocalFields
<1> HIDE DEF y
<1>9. /\ DOMAIN z = LocalFields /\ z.stream = client[c].stream /\ z.cursor = client[c].cursor
      /\ z.queue = Tail(client[c].queue) /\ z.restarted = client[c].restarted
      /\ z.through = e.id /\ z.lastEventId = e.id
  BY <1>8 DEF LocalFields
<1> HIDE DEF z
<1>10. r \in published \cup {0} /\ (e.reset = TRUE => r = e.id)
       /\ (e.reset = FALSE => r = client[c].restarted)
  BY <1>4, <1>5, <1>6
<1> HIDE DEF r
<1>11. /\ DOMAIN l = LocalFields /\ l.stream = client[c].stream /\ l.cursor = client[c].cursor
       /\ l.queue = Tail(client[c].queue) /\ l.restarted = r
       /\ l.through = e.id /\ l.lastEventId = e.id
  BY <1>9 DEF LocalFields
<1> HIDE DEF l
<1>12. Fed(published, l)
  BY <1>4, <1>5, <1>10, <1>11 DEF Fed
<1>13. /\ DOMAIN client' = Page /\ (\A d \in Page : Fed(published', client'[d]))
       /\ \A job \in jobs' : Asked(published', client', job)
  BY <1>1, <1>3, <1>4, <1>11, <1>12, OnePage
<1>14. client'[c] = l /\ \A d \in Page : d # c => client'[d] = client[d]
  BY <1>2, <1>3
<1>15. FeedStep
  <2> DEFINE through == [d \in Page |-> client[d].through]
             restarted == [d \in Page |-> client[d].restarted]
  <2>1. CASE e.reset = FALSE
    <3>1. Follows(published, e.id, through[c])
      BY <1>5, <2>1
    <3>2. [d \in Page |-> client[d].through]' = [through EXCEPT ![c] = e.id]
      BY <1>11, <1>14
    <3>3. [d \in Page |-> client[d].restarted]' = restarted
      BY <1>10, <1>11, <1>14, <2>1
    <3>4. Feed!Deliver(c)
      BY <1>1, <3>1, <3>2, <3>3 DEF Feed!Deliver, Follows
    <3> QED
      BY <3>4 DEF FeedStep, Feed!Next
  <2>2. CASE e.reset = TRUE
    <3>1. /\ [d \in Page |-> client[d].through]' =
               [d \in Page |-> IF d \in {c} THEN e.id ELSE through[d]]
          /\ [d \in Page |-> client[d].restarted]' =
               [d \in Page |-> IF d \in {c} THEN e.id ELSE restarted[d]]
      BY <1>10, <1>11, <1>14, <2>2
    <3>2. Feed!StartAgain({c})
      BY <1>1, <1>5, <3>1 DEF Feed!StartAgain
    <3> QED
      BY <3>2 DEF FeedStep, Feed!Next
  <2> QED
    BY <1>6, <2>1, <2>2
<1>16. Serialised' /\ Known'
  BY <1>1, <1>2 DEF Serialised, Known
<1> QED
  BY <1>13, <1>15, <1>16 DEF LiveInv

LEMMA disconnectKeeps ==
    ASSUME LiveAssumption, LiveInv, NEW c \in Page, disconnect(c)
    PROVE  LiveInv' /\ FeedStep
<1> DEFINE Without(job) == [job EXCEPT !.clients = job.clients \ {c}]
           x == Closed(client[c])
<1>1. PICK last \in {client[c].lastEventId, 0} :
        client' = [client EXCEPT ![c] = [Closed(@) EXCEPT !.lastEventId = last]]
  BY DEF disconnect
<1> DEFINE l == [x EXCEPT !.lastEventId = last]
<1>2. /\ jobs' = {Without(job) : job \in jobs}
      /\ liveEvents' = liveEvents /\ prunedThrough' = prunedThrough /\ nextId' = nextId
      /\ row' = row /\ inserted' = inserted /\ published' = published
      /\ latestCursor' = latestCursor /\ latestCursorPromise' = latestCursorPromise
  BY DEF disconnect, database
<1>3. /\ Serialised /\ Known /\ DOMAIN client = Page
      /\ (\A d \in Page : Fed(published, client[d]))
      /\ \A job \in jobs : Asked(published, client, job)
  BY DEF LiveInv
<1>4. client' = [client EXCEPT ![c] = l]
  BY <1>1, <1>3
<1>5. /\ Fed(published, x) /\ x.stream = "closed" /\ x.through = client[c].through
      /\ x.restarted = client[c].restarted
  BY <1>3, ClosedFed
<1>6. x.lastEventId = client[c].lastEventId /\ DOMAIN x = LocalFields
  BY <1>3 DEF Closed, Fed, LocalFields
<1> HIDE DEF x
<1>7. /\ Fed(published, l) /\ l.through = client[c].through
      /\ l.restarted = client[c].restarted
  <2>1. last \in {x.lastEventId, 0}
    BY <1>6
  <2>2. /\ Fed(published, l) /\ l.through = x.through /\ l.restarted = x.restarted
    BY <1>5, <2>1, ForgetsFed
  <2> QED
    BY <1>5, <2>2
<1> HIDE DEF l
<1>8. client'[c] = l /\ DOMAIN client' = Page /\ \A d \in Page : d # c => client'[d] = client[d]
  BY <1>3, <1>4
<1>9. ASSUME NEW job \in jobs
      PROVE  Asked(published, client', Without(job))
  <2> DEFINE j == Without(job)
  <2>1. Asked(published, client, job)
    BY <1>3
  <2>2. /\ DOMAIN j = JobFields /\ j.clients = job.clients \ {c} /\ j.cursor = job.cursor
        /\ j.answered = job.answered /\ j.events = job.events
    BY <2>1 DEF Asked, JobFields
  <2> HIDE DEF j
  <2>3. j.clients \subseteq Page /\ \A d \in j.clients : client'[d] = client[d]
    BY <1>8, <2>1, <2>2 DEF Asked
  <2>4. Asked(published, client', j)
    BY <2>1, <2>2, <2>3 DEF Asked
  <2> QED
    BY <2>4 DEF j
<1> HIDE DEF Without
<1>10. \A j \in jobs' : Asked(published', client', j)
  BY <1>2, <1>9
<1>11. Kept
  BY <1>2, <1>7, <1>8 DEF Kept
<1>12. Serialised' /\ Known'
  BY <1>2, <1>3 DEF Serialised, Known
<1>13. \A d \in Page : Fed(published', client'[d])
  BY <1>2, <1>3, <1>7, <1>8
<1> QED
  BY <1>8, <1>10, <1>11, <1>12, <1>13, Stutter DEF LiveInv

LEMMA restartKeeps ==
    ASSUME LiveAssumption, LiveInv, restart
    PROVE  LiveInv' /\ FeedStep
<1>1. /\ client' = [c \in Page |-> Closed(client[c])] /\ jobs' = {}
      /\ latestCursor' = -1 /\ latestCursorPromise' = -1
      /\ liveEvents' = liveEvents /\ prunedThrough' = prunedThrough /\ nextId' = nextId
      /\ row' = row /\ inserted' = inserted /\ published' = published
  BY DEF restart, database
<1>2. Serialised /\ \A c \in Page : Fed(published, client[c])
  BY DEF LiveInv
<1>3. Serialised' /\ Known'
  BY <1>1, <1>2 DEF Serialised, Known
<1>4. \A c \in Page : /\ Fed(published, client'[c])
                      /\ client'[c].through = client[c].through
                      /\ client'[c].restarted = client[c].restarted
  <2>1. \A c \in Page : client'[c] = Closed(client[c])
    BY <1>1
  <2> QED
    BY <1>2, <2>1, ClosedFed
<1>5. Kept
  BY <1>1, <1>4 DEF Kept
<1> QED
  BY <1>1, <1>3, <1>4, <1>5, Stutter DEF LiveInv

-----------------------------------------------------------------------------

LEMMA LiveInitHolds ==
    ASSUME LiveAssumption, LiveInit
    PROVE  LiveInv /\ Feed!Init
<1>1. Serialised /\ Known
  BY DEF LiveInit, LiveAssumption, Serialised, Known
<1>2. ASSUME NEW c \in Page
      PROVE  Fed(published, client[c])
  <2> DEFINE l == client[c]
  <2>1. /\ DOMAIN l = LocalFields /\ l.stream = "closed" /\ l.cursor = 0 /\ l.queue = <<>>
        /\ l.through = 0 /\ l.restarted = 0 /\ l.lastEventId = 0
    BY DEF LiveInit, LocalFields
  <2> HIDE DEF l
  <2>2. <<>> \in Seq(EventType) /\ Chain(published, 0, <<>>)
    BY DEF Chain
  <2>3. Fed(published, l)
    BY <2>1, <2>2 DEF Fed
  <2> QED
    BY <2>3 DEF l
<1>3. LiveInv
  BY <1>1, <1>2 DEF LiveInit, LiveInv
<1>4. Feed!Init
  BY DEF LiveInit, Feed!Init
<1> QED
  BY <1>3, <1>4

LEMMA LiveStepKeeps ==
    ASSUME LiveAssumption, LiveInv, LiveNext
    PROVE  LiveInv' /\ FeedStep
<1>1. CASE \E w \in Writer : lockLiveEventWriter(w) \/ commit(w) \/ rollback(w)
  BY <1>1, lockKeeps, commitKeeps, rollbackKeeps
<1>2. CASE pruneLiveEvents
  BY <1>2, pruneKeeps
<1>3. CASE Serve
  BY <1>3, startPollKeeps, queryKeeps, deliverKeeps DEF Serve
<1>4. CASE initialCursor
  BY <1>4, initialCursorKeeps
<1>5. CASE \E job \in jobs : queryFails(job)
  BY <1>5, queryFailsKeeps
<1>6. CASE \E c \in Page : stream(c) \/ receive(c) \/ disconnect(c)
  BY <1>6, streamKeeps, receiveKeeps, disconnectKeeps
<1>7. CASE restart
  BY <1>7, restartKeeps
<1> QED
  BY <1>1, <1>2, <1>3, <1>4, <1>5, <1>6, <1>7 DEF LiveNext

LEMMA StutterKeeps ==
    ASSUME LiveInv, UNCHANGED liveVars
    PROVE  LiveInv' /\ FeedStep
<1>1. LiveInv'
  BY DEF liveVars, LiveInv, Serialised, Known
<1>2. Kept
  BY DEF liveVars, Kept
<1> QED
  BY <1>1, <1>2, Stutter

\* The ids of the events become visible in their order, a page's stream is the
\* chain from the event it last got to the stream's cursor, and a job asks for
\* the events after a cursor its clients were at.
THEOREM LiveInvariance == LiveSpec => []LiveInv
<1>1. LiveInit => LiveInv
  BY LiveAssumption, LiveInitHolds
<1>2. LiveInv /\ [LiveNext]_liveVars => LiveInv'
  BY LiveAssumption, LiveStepKeeps, StutterKeeps
<1> QED
  BY <1>1, <1>2, PTL DEF LiveSpec

\* A page gets each event once, in the order of the ids, and misses none
\* without being told to start again, whatever writers, prunings, overlapping
\* polls, lost connections, restarts and sizes there are.
THEOREM ImplementsFeedThm == LiveSpec => ImplementsFeed
<1>1. LiveInit => Feed!Init
  BY LiveAssumption, LiveInitHolds
<1>2. LiveInv /\ [LiveNext]_liveVars => [Feed!Next]_(Feed!feedVars)
  BY LiveAssumption, LiveStepKeeps, StutterKeeps DEF FeedStep
<1> QED
  BY <1>1, <1>2, LiveInvariance, PTL DEF LiveSpec, ImplementsFeed, Feed!Spec
=============================================================================
