------------------------------ MODULE ShareToken ------------------------------
(***************************************************************************)
(* The shares of a pool whose universe forked (tokens/ShareToken.sol and   *)
(* ERC1155.sol): a balance of the source is an entitlement that its holder *)
(* materializes in every child he likes, and that no transfer may carry to *)
(* somebody else once it was used.  Minting calls the holder back, who may *)
(* do anything before the rest of his migration goes on.  A batch of       *)
(* transfers is several under the same lock.                               *)
(*                                                                         *)
(* The source may itself belong to a child of an earlier fork, whose       *)
(* holders materialize their shares in it when they like, after its own    *)
(* fork too: such shares are late until they do.                           *)
(***************************************************************************)
EXTENDS Integers, FiniteSets, FiniteSetsExt, Functions

CONSTANTS
    Vault,                 \* the accounts
    Child                  \* the children, and the outcomes of the pool's question

VARIABLE
    token    \* source: [outcome][account], child: [child][outcome][account], the
             \* balances; late: [outcome][account], what is still to come to the source;
             \* migrated and locked: what was materialized; call: the
             \* migration whose holder is being called back, if any

Shares == [Child -> [Vault -> Nat]]
NoShares == [o \in Child |-> [v \in Vault |-> 0]]

FreshToken(shares, late) ==
    [source |-> shares, late |-> late, child |-> [c \in Child |-> NoShares],
     migrated |-> [c \in Child |-> NoShares],
     locked |-> [o \in Child |-> [v \in Vault |-> FALSE]], call |-> {}]

\* What a child would still mint for a call, whose balance was read at its start.
Due(t, call) ==
    {c \in call.left : t.migrated[c][call.outcome][call.holder] < call.balance}

\* Mutant: the source is locked when the whole call is done.
MutLocksAtTheEnd(t, call, c) ==
    LET rest == [call EXCEPT !.left = @ \ {c}]
        over == Due(t, rest) = {}
    IN  [t EXCEPT
            !.child[c][call.outcome][call.holder] =
                @ + call.balance - t.migrated[c][call.outcome][call.holder],
            !.migrated[c][call.outcome][call.holder] = call.balance,
            !.locked[call.outcome][call.holder] = @ \/ over,
            !.call = IF over THEN {} ELSE {rest}]

\* One child of a call: record, lock, mint.
Materialize(t, call, c) ==
    LET rest == [call EXCEPT !.left = @ \ {c}]
    IN  [t EXCEPT
            !.child[c][call.outcome][call.holder] =
                @ + call.balance - t.migrated[c][call.outcome][call.holder],
            !.migrated[c][call.outcome][call.holder] = call.balance,
            !.locked[call.outcome][call.holder] = TRUE,
            !.call = IF Due(t, rest) = {} THEN {} ELSE {rest}]

\* No child of the call has more than it is about to get; else the call reverts.
WithinBalance(call) ==
    \A c \in call.left : token.migrated[c][call.outcome][call.holder] <= call.balance

\* migrate, up to its first callback.  During a callback one target at a time.
migrateShares(v, o, targets) ==
    LET call == [holder |-> v, outcome |-> o, balance |-> token.source[o][v],
                 left |-> targets]
    IN  /\ call.balance > 0
        /\ WithinBalance(call)
        /\ token.call # {} => Cardinality(targets) = 1
        /\ \E c \in Due(token, call) :
             token' = [Materialize(token, call, c) EXCEPT
                          !.call = @ \cup token.call]

\* A call goes on after the callback, or ends because the callback did the rest.
resumeMigration ==
    \E call \in token.call :
        /\ WithinBalance(call)
        /\ \/ \E c \in Due(token, call) : token' = Materialize(token, call, c)
           \/ /\ Due(token, call) = {}
              /\ token' = [token EXCEPT !.call = {}]

\* safeTransferFrom of a source share and of a child's share.
transferSource(o, from, to, amount) ==
    /\ from # to
    /\ ~token.locked[o][from]
    /\ amount \in 1 .. token.source[o][from]
    /\ token' = [token EXCEPT !.source[o][from] = @ - amount,
                              !.source[o][to] = @ + amount]

\* The same calls in the universe that the source's one descends from: migrate,
\* which mints in a forked source as in any other, up to a balance that was read
\* before a callback, and a transfer.  That only who has materialized nothing
\* there may send a share is left out.
migrateIntoSource(v, o, amount) ==
    /\ amount \in 1 .. token.late[o][v]
    /\ token' = [token EXCEPT !.late[o][v] = @ - amount, !.source[o][v] = @ + amount]

transferLate(o, from, to, amount) ==
    /\ from # to
    /\ amount \in 1 .. token.late[o][from]
    /\ token' = [token EXCEPT !.late[o][from] = @ - amount, !.late[o][to] = @ + amount]

transferChild(c, o, from, to, amount) ==
    /\ from # to
    /\ amount \in 1 .. token.child[c][o][from]
    /\ token' = [token EXCEPT !.child[c][o][from] = @ - amount,
                              !.child[c][o][to] = @ + amount]

burnTokenIdAndGetRemainingSupply(c, o, v) ==
    token' = [token EXCEPT !.child[c][o][v] = 0]

burnCompleteSets(c, v, amount) ==
    /\ \A o \in Child : amount <= token.child[c][o][v]
    /\ token' = [token EXCEPT !.child[c] =
           [o \in Child |-> [token.child[c][o] EXCEPT ![v] = @ - amount]]]

\* Everything holders can still claim of an outcome in a child: its shares, the
\* source shares that were not materialized in it yet, and those that are late.
Claims(c, o) ==
    SumFunctionOnSet([v \in Vault |-> token.child[c][o][v] +
        (token.source[o][v] + token.late[o][v] - token.migrated[c][o][v])], Vault)
=============================================================================
