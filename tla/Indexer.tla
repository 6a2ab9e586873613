------------------------------- MODULE Indexer -------------------------------
(***************************************************************************)
(* The augurScan indexer (augurScan/src/indexer.ts, indexer-runtime.ts and *)
(* the writes of database.ts): replicas that take turns, under an advisory *)
(* lock of PostgreSQL, at copying the logs of the tracked contracts from a *)
(* chain that reorganises into a database that must follow it.             *)
(*                                                                         *)
(* A block is named by the whole chain up to it, so that two blocks have   *)
(* one hash only when they are one block and the parent of a block is the  *)
(* sequence without its last element.  One request to the node is a step,  *)
(* because the chain may change between two of them; a transaction of the  *)
(* database is a step, together with the request whose answer it commits   *)
(* when nothing the two depend on can change between them.  Rows that are  *)
(* not canonical are never read again and are left out.                    *)
(***************************************************************************)
EXTENDS Integers, Sequences, SequencesExt, FiniteSets, FiniteSetsExt, TLC

CONSTANTS
    Replica, Contract,
    Manifest,              \* [replica]: contracts its configuration lists
    Payload,               \* what a block can hold: [logs, creates]
    confirmationDepth, logScanRangeSize,
    NoReplica,
    MaxHead, MaxReorgs,    \* bounds on the chain
    MaxPruned,             \* bound: logs from this block on are never pruned
    MaxFaults,             \* bound: crashes, lost leases and failed requests
    MaxTrouble             \* bound: reorganisations, prunings and faults together

ASSUME IndexerAssumption ==
    /\ Manifest \in [Replica -> SUBSET Contract \ {{}}]
    /\ \A c \in Payload : c.logs \subseteq Contract /\ c.creates \subseteq Contract
    /\ {confirmationDepth, MaxHead, MaxReorgs, MaxFaults, MaxTrouble} \subseteq Nat
    /\ {logScanRangeSize, MaxPruned} \subseteq Nat \ {0}
    /\ NoReplica \notin Replica

VARIABLES
    chain,                 \* the blocks of the node's canonical chain
    top,                   \* its greatest height so far
    reorgs,                \* reorganisations so far
    deep,                  \* one of them went below the confirmation depth
    torn,                  \* one of them fell between two headers of a segment
    back,                  \* the pcs of replicas at which abandoned blocks returned
    firstLog,              \* the node has pruned the logs of earlier blocks
    faults,                \* of the replicas, their connections and the node
    db,                    \* the rows of one network
    lease,                 \* the replica whose session holds the advisory lock
    proc,                  \* [replica]: where it is and what it has read
    alarm                  \* a DatabaseConsistencyError has been thrown

node == <<chain, top, reorgs, deep, torn, back, firstLog>>
vars == <<node, faults, db, lease, proc, alarm>>

Height == Len(chain)
\* The node has no block above its head.
HashAt(n) == IF n <= Height THEN SubSeq(chain, 1, n) ELSE <<>>
LogsOf(b) == Last(b).logs
NoCursor == [start |-> 0, last |-> 0]
At(pc) == [pc |-> pc, head |-> 0, number |-> 0, to |-> 0, parent |-> <<>>, anchor |-> <<>>,
           contracts |-> {}, logs |-> {}, headers |-> <<>>]

-----------------------------------------------------------------------------
(* The database: one operator per transaction                              *)

\* An undefined checkpoint is the empty sequence.
Empty == [start |-> 1, manifest |-> {}, discovered |-> [c \in Contract |-> 0],
          checkpoint |-> <<>>, canonical |-> {}, finalized |-> {}, logs |-> {},
          snapshots |-> {}, cursors |-> [c \in Contract |-> NoCursor]]

indexedBlock(d) == Len(d.checkpoint)
Tracked(d) == d.manifest \cup {c \in Contract : d.discovered[c] > 0}
NextBlock(d) == IF d.checkpoint = <<>> THEN d.start ELSE indexedBlock(d) + 1
UpTo(blocks, n) == {b \in blocks : Len(b) <= n}

\* Contracts whose discovery is undone; one made before the start is kept.
Undiscovered(d, floor, n) ==
    [c \in Contract |-> IF d.discovered[c] >= floor /\ d.discovered[c] > n
                        THEN 0 ELSE d.discovered[c]]

\* A cursor comes back to the ancestor, or is deleted with the rows it is of.
Recalled(cursor, ancestor) ==
    IF cursor.start > ancestor THEN NoCursor
    ELSE [cursor EXCEPT !.last = Min({@, ancestor})]

MutRewindOneTooFew(d, ancestor) ==
    [d EXCEPT !.checkpoint = SubSeq(@, 1, ancestor),
              !.canonical = UpTo(@, ancestor + 1), !.finalized = UpTo(@, ancestor),
              !.logs = {l \in @ : Len(l.block) <= ancestor},
              !.snapshots = {s \in @ : Len(s.block) <= ancestor},
              !.discovered = Undiscovered(d, d.start, ancestor),
              !.cursors = [c \in Contract |-> Recalled(d.cursors[c], ancestor)]]

\* rewind: everything above the ancestor stops being canonical and the cursors
\* come back to it.  Block 0 stands for -1, the rewind of the whole history.
rewind(d, ancestor) ==
    [d EXCEPT !.checkpoint = SubSeq(@, 1, ancestor),
              !.canonical = UpTo(@, ancestor),
              !.finalized = UpTo(@, ancestor),
              !.logs = {l \in @ : Len(l.block) <= ancestor},
              !.snapshots = {s \in @ : Len(s.block) <= ancestor},
              !.discovered = Undiscovered(d, d.start, ancestor),
              !.cursors = [c \in Contract |-> Recalled(d.cursors[c], ancestor)]]

invalidateCanonicalHistory(d, floor) ==
    [d EXCEPT !.checkpoint = <<>>, !.canonical = {}, !.finalized = {}, !.logs = {},
              !.snapshots = {}, !.discovered = Undiscovered(d, floor, 0),
              !.cursors = [c \in Contract |-> NoCursor]]

\* A changed manifest starts the history again.
seedNetwork(d, manifest) ==
    LET restart == manifest # d.manifest /\ d.checkpoint # <<>>
    IN  [(IF restart THEN invalidateCanonicalHistory(d, d.start) ELSE d)
            EXCEPT !.manifest = manifest]

advanceNetworkStartBlock(d, start) ==
    IF start <= d.start THEN d
    ELSE [invalidateCanonicalHistory(d, start) EXCEPT !.start = start]

assertBlockAppend(d, b, parent) ==
    /\ Len(b) = NextBlock(d)
    /\ d.checkpoint # <<>> => parent = d.checkpoint

MutFinalizedThrough(head) == IF head > confirmationDepth THEN head - confirmationDepth + 1 ELSE 0
finalizedThrough(head) == IF head > confirmationDepth THEN head - confirmationDepth ELSE 0

\* The cursor of a contract whose logs were scanned up to block n: from where it
\* was discovered, or from the start, or from where it already began.
Advanced(d, found, n, c) ==
    LET from == IF d.discovered[c] > d.start THEN d.discovered[c]
                ELSE IF c \in found THEN n ELSE d.start
    IN  CASE d.cursors[c] = NoCursor -> [start |-> from, last |-> n]
          [] d.cursors[c].last > n -> d.cursors[c]
          [] OTHER -> [start |-> Min({d.cursors[c].start, from}), last |-> n]

\* storeBlock: the block, its logs, its discoveries and, with the last block of
\* a segment, the cursors of the contracts in `scanned', in one transaction.
storeBlock(d, b, logs, found, head, scanned) ==
    LET canonical == d.canonical \cup {b}
    IN  [d EXCEPT !.checkpoint = b,
                  !.canonical = canonical,
                  !.logs = @ \cup logs,
                  !.discovered = [c \in Contract |->
                                    IF c \in found THEN Len(b) ELSE d.discovered[c]],
                  !.cursors = [c \in Contract |->
                                 IF c \in scanned THEN Advanced(d, found, Len(b), c)
                                 ELSE d.cursors[c]],
                  !.finalized = @ \cup UpTo(canonical, finalizedThrough(head))]

\* A snapshot remembers the block it was filed under and the block it was read of.
storeEntityStateSnapshots(d, b, read) ==
    [d EXCEPT !.snapshots = @ \cup {[block |-> b, read |-> read]}]

-----------------------------------------------------------------------------
(* The node                                                                *)

\* A contract is created once, and has logs only once it exists.
Existing(b) == UNION {Manifest[r] : r \in Replica} \cup UNION {b[i].creates : i \in DOMAIN b}
Realistic(b) == \A i \in DOMAIN b :
    /\ b[i].logs \subseteq Existing(SubSeq(b, 1, i))
    /\ b[i].creates \cap Existing(SubSeq(b, 1, i - 1)) = {}
Trouble == reorgs + faults + firstLog <= MaxTrouble
Block(payload, gen) == [logs |-> payload.logs, creates |-> payload.creates, gen |-> gen]

Extend ==
    /\ Height < MaxHead
    /\ \E c \in Payload :
         /\ chain' = Append(chain, Block(c, reorgs))
         /\ Realistic(chain')
    /\ top' = Max({top, Height + 1})
    /\ UNCHANGED <<reorgs, deep, torn, back, firstLog, faults, db, lease, proc, alarm>>

\* The blocks above k make way for others, no higher than the chain has been:
\* first, if any, for blocks that an earlier reorganisation abandoned (named by
\* their gen, the reorganisation they appeared with), then for new ones.
Reorganise ==
    /\ Trouble /\ reorgs < MaxReorgs
    /\ reorgs' = reorgs + 1
    /\ \E k \in 0..Height : \E to \in k..top : \E returned \in k..to :
         /\ k < Height \/ k < returned
         /\ \E suffix \in [k + 1..to -> Payload] : \E gen \in [k + 1..returned -> 0..reorgs - 1] :
              chain' = [n \in 1..to |->
                          IF n <= k THEN chain[n]
                          ELSE Block(suffix[n], IF n <= returned THEN gen[n] ELSE reorgs')]
         /\ deep' = (deep \/ top - k > confirmationDepth)
         /\ torn' = (\/ torn
                     \/ /\ k < Height
                        /\ \E r \in Replica : proc[r].pc = "headers" /\ proc[r].headers # <<>>)
         /\ back' = IF returned = k THEN back ELSE back \cup {proc[r].pc : r \in Replica}
    /\ Realistic(chain')
    /\ UNCHANGED <<top, firstLog, faults, db, lease, proc, alarm>>

PruneLogs ==
    /\ Trouble /\ firstLog < Min({MaxPruned, Height})
    /\ firstLog' = firstLog + 1
    /\ UNCHANGED <<chain, top, reorgs, deep, torn, back, faults, db, lease, proc, alarm>>

-----------------------------------------------------------------------------
(* Ownership                                                               *)

MutHeld(r) == TRUE
\* What withIndexerLease asks in every transaction, on the session of the lease.
Held(r) == lease = r

Go(r, local) == proc' = [proc EXCEPT ![r] = local]

\* A step that only reads the node.  A replica without the lease may take it
\* too, but never commits what it read, so these reads of it are left out.
Read(r, local) ==
    /\ Held(r)
    /\ Go(r, local)
    /\ UNCHANGED <<node, faults, db, lease, alarm>>

Commit(r, rows, local) ==
    /\ Held(r)
    /\ db' = rows
    /\ Go(r, local)
    /\ UNCHANGED <<node, faults, lease, alarm>>

\* A DatabaseConsistencyError ends the ownership.
Inconsistent(r) ==
    /\ Held(r)
    /\ lease' = NoReplica
    /\ Go(r, At("standby"))
    /\ alarm' = TRUE
    /\ UNCHANGED <<node, faults, db>>

tryAcquireIndexerLock(r) ==
    /\ proc[r].pc = "standby"
    /\ lease = NoReplica
    /\ lease' = r
    /\ Go(r, At("seed"))
    /\ UNCHANGED <<node, faults, db, alarm>>

seed(r) ==
    /\ proc[r].pc = "seed"
    /\ Commit(r, seedNetwork(db, Manifest[r]), At("verify"))

\* The first assertion or transaction after the lease is lost fails.
LeaseLost(r) ==
    /\ proc[r].pc # "standby"
    /\ ~Held(r)
    /\ Go(r, At("standby"))
    /\ UNCHANGED <<node, faults, db, lease, alarm>>

\* Where the history of a manifest contract has a gap, the replay starts.
planManifestBackfill(r) ==
    LET missingStart(c) == IF db.cursors[c] = NoCursor \/ db.cursors[c].start > db.start
                           THEN db.start ELSE db.cursors[c].last + 1
    IN  {n \in {missingStart(c) : c \in Manifest[r]} : n <= indexedBlock(db)}

\* Once for each ownership: a crash in the middle of a segment leaves blocks
\* above the cursors.
reconcileManifestBackfill(r) ==
    /\ proc[r].pc = "verify"
    /\ LET gaps == planManifestBackfill(r)
           replay == Min(gaps)
           ancestor == IF replay = db.start THEN 0 ELSE replay - 1
       IN  IF db.checkpoint = <<>> \/ gaps = {} THEN Commit(r, db, At("idle"))
           ELSE IF ancestor > 0 /\ \A b \in db.canonical : Len(b) # ancestor THEN Inconsistent(r)
           ELSE Commit(r, rewind(db, ancestor), At("idle"))

-----------------------------------------------------------------------------
(* A poll                                                                  *)

\* The checkpoint is compared with the node first.  Here and below, a request
\* for a block above the head of the node fails, and the poll with it.
poll(r) ==
    /\ proc[r].pc = "idle"
    /\ Commit(r, db,
         IF db.checkpoint = <<>> \/ HashAt(indexedBlock(db)) = db.checkpoint THEN At("head")
         ELSE IF indexedBlock(db) > Height THEN At("idle")
         ELSE [At("reorg") EXCEPT !.number = indexedBlock(db) - 1])

reorgSearchFloor(d) ==
    IF indexedBlock(d) > confirmationDepth
    THEN Max({d.start, indexedBlock(d) - confirmationDepth}) ELSE d.start

MutReconcileReorg(r) ==
    LET n == proc[r].number
    IN  /\ proc[r].pc = "reorg"
        /\ IF n < reorgSearchFloor(db) \/ n > Height THEN Commit(r, db, At("idle"))
           ELSE IF HashAt(n) \in db.canonical THEN Commit(r, rewind(db, n), At("head"))
           ELSE Commit(r, db, [proc[r] EXCEPT !.number = n - 1])

\* The search goes down one block at a time, and rewinds to the first that
\* matches, or altogether when none does.
reconcileReorg(r) ==
    LET n == proc[r].number
    IN  /\ proc[r].pc = "reorg"
        /\ IF n < reorgSearchFloor(db) THEN Commit(r, rewind(db, 0), At("head"))
           ELSE IF n > Height THEN Commit(r, db, At("idle"))
           ELSE IF HashAt(n) \in db.canonical THEN Commit(r, rewind(db, n), At("head"))
           ELSE Commit(r, db, [proc[r] EXCEPT !.number = n - 1])

nextSegment(r) ==
    LET next == NextBlock(db)
        local == [At("") EXCEPT !.head = Height, !.number = next, !.parent = db.checkpoint,
                                !.anchor = db.checkpoint, !.contracts = Tracked(db)]
    IN  /\ proc[r].pc = "head"
        /\ IF next > Height
           THEN Commit(r, db, IF db.checkpoint = <<>> THEN At("idle")
                              ELSE [local EXCEPT !.pc = "snapshot"])
           ELSE IF \E c \in Tracked(db) : db.cursors[c].last >= next THEN Inconsistent(r)
           ELSE Commit(r, db, [local EXCEPT !.pc = "range"])

\* Caught up: state is read at the number of the checkpoint and filed under its
\* hash (the rich-list balances go the same way).
readSnapshots(r) ==
    /\ proc[r].pc = "snapshot"
    /\ Read(r, IF Len(proc[r].anchor) > Height THEN At("idle")
               ELSE [proc[r] EXCEPT !.pc = "confirm", !.parent = HashAt(Len(proc[r].anchor))])

MutCommitUnconfirmedRead(r) ==
    LET b == proc[r].anchor
    IN  /\ proc[r].pc = "confirm"
        /\ Commit(r, storeEntityStateSnapshots(db, b, proc[r].parent), At("idle"))

commitCanonicalRead(r) ==
    LET b == proc[r].anchor
    IN  /\ proc[r].pc = "confirm"
        /\ IF HashAt(Len(b)) # b THEN Commit(r, db, At("idle"))
           ELSE IF b \notin db.canonical THEN Inconsistent(r)
           ELSE Commit(r, storeEntityStateSnapshots(db, b, proc[r].parent), At("idle"))

\* A range is shortened when the node refuses it, so any end up to the head and
\* the range size may be the one that succeeds.
openRange(r) ==
    /\ proc[r].pc = "range"
    /\ \E to \in proc[r].number..Min({proc[r].head, proc[r].number + logScanRangeSize - 1}) :
         Read(r, IF to > Height THEN At("idle")
                 ELSE [proc[r] EXCEPT !.pc = "logs", !.to = to, !.anchor = HashAt(to)])

LogsOn(contracts, from, to) ==
    UNION {{[block |-> HashAt(n), contract |-> c] : c \in contracts \cap LogsOf(HashAt(n))}
             : n \in from..Min({to, Height})}

queryLogs(r) ==
    /\ proc[r].pc = "logs"
    /\ proc[r].number >= firstLog
    /\ Read(r, [proc[r] EXCEPT !.pc = "close",
                  !.logs = LogsOn(proc[r].contracts, proc[r].number, proc[r].to)])

\* The node no longer has the logs: the history starts at the first it has.
recoverPrunedLogFailure(r) ==
    /\ proc[r].pc = "logs"
    /\ proc[r].number < firstLog
    /\ Commit(r, advanceNetworkStartBlock(db, firstLog), At("idle"))

\* The end of the range must not have changed while its logs were read.
closeRange(r) ==
    /\ proc[r].pc = "close"
    /\ Read(r, IF HashAt(proc[r].to) = proc[r].anchor THEN [proc[r] EXCEPT !.pc = "headers"]
             ELSE At("idle"))

\* The headers held, with the one of block n that the node now answers.
WithHeader(headers, n) ==
    [m \in DOMAIN headers \cup {n} |-> IF m = n THEN HashAt(n) ELSE headers[m]]

\* The headers of the segment are requested in parallel and may be answered in
\* any order; only the last is compared with the end of the range.
readHeaders(r) ==
    LET wanted == proc[r].number..proc[r].to
    IN  /\ proc[r].pc = "headers"
        /\ \E n \in wanted \ DOMAIN proc[r].headers :
             LET known == WithHeader(proc[r].headers, n)
             IN  Read(r, IF n > Height THEN At("idle")
                       ELSE IF DOMAIN known # wanted THEN [proc[r] EXCEPT !.headers = known]
                       ELSE IF known[proc[r].to] # proc[r].anchor THEN At("idle")
                       ELSE [proc[r] EXCEPT !.pc = "index", !.headers = known])

\* What indexBlock refuses: a block that does not extend the last one, logs of
\* another block of its number, and a block that is not canonical any more.
Continuous(local, b) ==
    /\ local.parent # <<>> => Front(b) = local.parent
    /\ \A l \in local.logs : Len(l.block) = Len(b) => l.block = b
    /\ HashAt(Len(b)) = b

\* Contracts that a log of a tracked contract in the block announces.
Announced(local, b) ==
    IF \E l \in local.logs : l.block = b THEN Last(b).creates \ local.contracts ELSE {}

\* Their logs are fetched to the end of the segment, between two reads of a
\* hash that must be the one of the header.
discover(r) ==
    LET local == proc[r]
        b == local.headers[local.number]
        found == Announced(local, b)
    IN  /\ local.pc = "index"
        /\ Continuous(local, b)
        /\ found # {}
        /\ Read(r, IF HashAt(local.to) # local.headers[local.to] THEN At("idle")
                 ELSE [local EXCEPT !.contracts = @ \cup found,
                                    !.logs = @ \cup LogsOn(found, local.number, local.to)])

\* indexBlock and storeBlock.  A break of continuity ends the poll, after a
\* reconciliation that the next poll begins with anyway.
indexBlock(r) ==
    LET local == proc[r]
        b == local.headers[local.number]
        isSegmentEnd == local.number = local.to
        found == {c \in local.contracts \cap Last(b).creates : db.discovered[c] = 0
                                                               /\ c \notin db.manifest}
        rows == storeBlock(db, b, {l \in local.logs : l.block = b}, found, local.head,
                           IF isSegmentEnd THEN local.contracts ELSE {})
    IN  /\ local.pc = "index"
        /\ Continuous(local, b) => Announced(local, b) = {}
        /\ IF ~Continuous(local, b) THEN Commit(r, db, At("idle"))
           ELSE IF ~assertBlockAppend(db, b, Front(b)) THEN Inconsistent(r)
           ELSE Commit(r, rows, IF isSegmentEnd THEN At("idle")
                                ELSE [local EXCEPT !.number = @ + 1, !.parent = b])

-----------------------------------------------------------------------------
(* Faults                                                                  *)

Fault == Trouble /\ faults < MaxFaults /\ faults' = faults + 1

\* A request of the poll fails: the poll is given up and retried later.
RequestFails(r) ==
    /\ Fault
    /\ proc[r].pc \notin {"standby", "seed", "verify", "idle"}
    /\ Go(r, At("idle"))
    /\ UNCHANGED <<node, db, lease, alarm>>

\* The process dies, and PostgreSQL drops the lock of its session.
Crash(r) ==
    /\ Fault
    /\ proc[r].pc # "standby"
    /\ Go(r, At("standby"))
    /\ lease' = IF Held(r) THEN NoReplica ELSE lease
    /\ UNCHANGED <<node, db, alarm>>

\* The session dies, and the process goes on until it needs it.
SessionDies ==
    /\ Fault
    /\ lease # NoReplica
    /\ lease' = NoReplica
    /\ UNCHANGED <<node, db, proc, alarm>>

-----------------------------------------------------------------------------
Init ==
    /\ chain = <<>> /\ top = 0 /\ reorgs = 0 /\ deep = FALSE /\ torn = FALSE /\ back = {}
    /\ firstLog = 1 /\ faults = 0
    /\ db = Empty /\ lease = NoReplica /\ alarm = FALSE
    /\ proc = [r \in Replica |-> At("standby")]

Step(r) ==
    \/ tryAcquireIndexerLock(r) \/ seed(r) \/ LeaseLost(r) \/ reconcileManifestBackfill(r)
    \/ poll(r) \/ reconcileReorg(r) \/ nextSegment(r)
    \/ readSnapshots(r) \/ commitCanonicalRead(r)
    \/ openRange(r) \/ queryLogs(r) \/ recoverPrunedLogFailure(r) \/ closeRange(r)
    \/ readHeaders(r) \/ discover(r) \/ indexBlock(r)

Next ==
    \/ Extend \/ Reorganise \/ PruneLogs \/ SessionDies
    \/ \E r \in Replica : Step(r) \/ RequestFails(r) \/ Crash(r)

Spec == Init /\ [][Next]_vars

\* A replica that can go on does.  Nothing is asked of the chain or the faults.
FairSpec == Spec /\ \A r \in Replica : WF_vars(Step(r))

-----------------------------------------------------------------------------
(* Properties                                                              *)

Blocks == [logs : SUBSET Contract, creates : SUBSET Contract, gen : 0..MaxReorgs]
TypeOK ==
    /\ chain \in Seq(Blocks) /\ Height <= top /\ top <= MaxHead
    /\ reorgs \in 0..MaxReorgs /\ {deep, torn} \subseteq BOOLEAN /\ firstLog \in 1..MaxPruned
    /\ faults \in 0..MaxFaults /\ alarm \in BOOLEAN
    /\ lease \in Replica \cup {NoReplica}
    /\ db.start \in 1..MaxPruned /\ db.manifest \subseteq Contract
    /\ db.checkpoint \in Seq(Blocks) /\ db.canonical \subseteq Seq(Blocks)
    /\ db.finalized \subseteq db.canonical
    /\ db.discovered \in [Contract -> 0..MaxHead]
    /\ db.cursors \in [Contract -> [start : 0..MaxHead, last : 0..MaxHead]]
    /\ DOMAIN proc = Replica

\* What auditIntegrity reports, over the whole history: the canonical rows are
\* exactly the checkpoint and its ancestors down to the start, whatever was
\* rewound, replayed or left half indexed, and no cursor is ahead of them.  And the
\* assertions that guard the database never fire: losing the lease at any point,
\* the replicas interleave so that each finds what it needs.
AuditClean ==
    /\ TypeOK
    /\ ~alarm
    /\ db.canonical = {SubSeq(db.checkpoint, 1, n) : n \in db.start..indexedBlock(db)}
    /\ \A c \in Contract : db.cursors[c].last <= indexedBlock(db)

\* Every canonical row has the logs of every tracked contract in it and no
\* other, and every contract such a log announces is tracked.
Complete ==
    /\ db.logs = UNION {{[block |-> b, contract |-> c] : c \in Tracked(db) \cap LogsOf(b)}
                          : b \in db.canonical}
    /\ \A l \in db.logs : Last(l.block).creates \subseteq Tracked(db)

\* No activity is omitted, across reorganisations during the scan, discoveries
\* in the middle of a segment, crashes and replicas with other manifests, as
\* long as the headers of each segment are read of one chain and no abandoned
\* block returns while logs are read: the hash that closes a range, or the reads
\* of a discovery (one step at "index", three requests in the code), would not
\* tell that the logs are of the other branch.
LogsComplete == torn \/ back \cap {"close", "index"} # {} \/ Complete

\* The README's promise without that exception: every block the cursors cover,
\* and every other canonical row, was stored with its logs.
NoLogOmitted == Complete

\* As long as no reorganisation goes below the confirmation depth, a block shown
\* as finalized stays on the chain, although the head it was judged by was read
\* before the segment.
FinalizedIsFinal == deep \/ \A b \in db.finalized : HashAt(Len(b)) = b

\* State read by block number is the state of the block it is filed under, as
\* long as no abandoned block returns between the read and the hash that confirms
\* it: the chain may do anything else then, and anything at all before and after.
SnapshotsOfTheirBlock == "confirm" \in back \/ \A s \in db.snapshots : s.read = s.block

\* Once the chain rests, the index reaches its head, unless that is below what
\* it has indexed or where its history starts: it then waits for the chain.  The
\* cursors follow if the chain has not been higher: they move with the last
\* block of a segment, which the chain may have lost.
EventuallyCaughtUp ==
    <>[](/\ Height >= Max({db.start, indexedBlock(db)}) => db.checkpoint = chain
         /\ Height = top => \A c \in Tracked(db) : db.cursors[c].last = Height)
=============================================================================
