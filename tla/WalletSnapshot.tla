--------------------------- MODULE WalletSnapshot ---------------------------
(***************************************************************************)
(* How the web wallet's dashboard reads the chain: refresh of               *)
(* app/src/components/WalletDashboard.tsx, the snapshot it loads            *)
(* (app/src/lib/wallet-snapshot.ts) and the reads it is put together from   *)
(* (packages/shared/src/testnet-rpc.ts, activity.ts, portfolio.ts,          *)
(* portfolio-values.ts, staking.ts).  Each read is a call that is tried     *)
(* again after a transient failure, and the calls of a load are answered in *)
(* any order while transactions go on being executed.                       *)
(***************************************************************************)
EXTENDS Naturals, SequencesExt, Filter

CONSTANTS Loads,            \* refreshes that may be under way at once
          Reads,            \* the calls a snapshot is put together from
          Limit,            \* rows of activity, 10 in the dashboard
          MaxAttempts,      \* of suiRpc, 3 unless told otherwise
          MaxTransactions,  \* bound: transactions of the wallet
          MaxRefreshes,     \* bound: refreshes
          None

ASSUME SnapshotAssumption ==
    /\ {"price", "outgoing", "incoming"} \subseteq Reads
    /\ {"balance", "metadata"} \cap Reads = {}
    /\ Limit \in Nat \ {0} /\ MaxAttempts \in Nat \ {0}
    /\ MaxTransactions \in Nat /\ MaxRefreshes \in Nat
    /\ None \notin Nat

VARIABLES ledger,     \* executed transactions that concern the wallet
          checkpoints,\* the times of the checkpoints the first of them are in
          loads,      \* the refreshes under way
          snapshot,   \* the snapshot that is shown
          snapError,  \* whether the error is shown
          loading,    \* whether the button reads Refreshing
          refreshes   \* how many refreshes there were

snapshotVars == <<ledger, checkpoints, loads, snapshot, snapError, loading, refreshes>>

(* What activity.ts asks of a transaction: whether the wallet sent it, and  *)
(* whether something came to the wallet.                                    *)
Transaction == {t \in [from : BOOLEAN, to : BOOLEAN] : t.from \/ t.to}

(* What it is answered: a digest and the time, 0 (timestampMs ?? 0) for a   *)
(* transaction that is not in a checkpoint yet.                             *)
TransactionBlock == [digest : 1..MaxTransactions, timestampMs : Nat]

Calls == {"balance", "metadata"} \cup Reads

(* A call at its attempt, or what it was answered.                          *)
Asked == [attempt |-> 1, result |-> None]

CallsOf(phase) ==
    CASE phase = "balance" -> {"balance"}
      [] phase = "reads" -> Reads
      [] phase = "metadata" -> {"metadata"}

Call == [attempt : 0..MaxAttempts, result : Seq(TransactionBlock) \cup {None}]

Load == [since : 0..MaxTransactions, phase : {"balance", "reads", "metadata"},
         calls : [Calls -> Call]]

SnapshotInit ==
    /\ ledger = <<>> /\ checkpoints = <<>>
    /\ loads = [l \in Loads |-> None]
    /\ snapshot = None
    /\ snapError = FALSE /\ loading = FALSE
    /\ refreshes = 0
-----------------------------------------------------------------------------
(* The fullnode.  A transaction's digest is its place in the ledger.        *)

Execute(from, to) ==
    /\ Len(ledger) < MaxTransactions
    /\ from \/ to
    /\ ledger' = Append(ledger, [from |-> from, to |-> to])
    /\ UNCHANGED <<checkpoints, loads, snapshot, snapError, loading, refreshes>>

Now == IF checkpoints = <<>> THEN 1 ELSE Last(checkpoints)

(* A checkpoint takes in what was executed; several transactions of a       *)
(* checkpoint have one timestamp.                                           *)
Checkpoint(tick) ==
    /\ Len(checkpoints) < Len(ledger)
    /\ checkpoints' = Append(checkpoints, Now + tick)
    /\ UNCHANGED <<ledger, loads, snapshot, snapError, loading, refreshes>>

TimestampMs(d) == IF d \in DOMAIN checkpoints THEN checkpoints[d] ELSE 0

UpToLimit(list) == SubSeq(list, 1, IF Len(list) < Limit THEN Len(list) ELSE Limit)

(* suix_queryTransactionBlocks, descending, at most Limit.                  *)
Query(matching) == UpToLimit(Kept(Reverse([i \in 1..Len(ledger) |-> i]), matching))

QueryTransactionBlocks(matching) ==
    LET found == Query(matching) IN
    [k \in DOMAIN found |-> [digest |-> found[k], timestampMs |-> TimestampMs(found[k])]]

ResultOf(c) ==
    CASE c = "outgoing" -> QueryTransactionBlocks({i \in DOMAIN ledger : ledger[i].from})
      [] c = "incoming" -> QueryTransactionBlocks({i \in DOMAIN ledger : ledger[i].to})
      [] OTHER -> <<>>
-----------------------------------------------------------------------------
(* suiRpc; the price is fetched without it.                                 *)

Waiting(l, c) ==
    /\ loads[l] /= None
    /\ c \in CallsOf(loads[l].phase)
    /\ loads[l].calls[c].result = None

Answered(l, c) ==
    /\ Waiting(l, c)
    /\ loads' = [loads EXCEPT ![l].calls[c] = [attempt |-> 0, result |-> ResultOf(c)]]
    /\ UNCHANGED <<ledger, checkpoints, snapshot, snapError, loading, refreshes>>

LastAttempt(l, c) == c = "price" \/ loads[l].calls[c].attempt = MaxAttempts

(* HTTP 5xx, or an error that isTransientFetchError recognises.             *)
Retried(l, c) ==
    /\ Waiting(l, c) /\ ~LastAttempt(l, c)
    /\ loads' = [loads EXCEPT ![l].calls[c].attempt = @ + 1]
    /\ UNCHANGED <<ledger, checkpoints, snapshot, snapError, loading, refreshes>>

(* The catch of refresh: of a balance nothing is said, any other call takes *)
(* the whole snapshot with it.                                              *)
Throws(l, c) ==
    /\ IF c = "balance"
       THEN /\ loads' = [loads EXCEPT ![l].phase = "reads"]
            /\ UNCHANGED <<snapError, loading>>
       ELSE /\ loads' = [loads EXCEPT ![l] = None]
            /\ snapError' = TRUE
            /\ loading' = FALSE
    /\ UNCHANGED <<ledger, checkpoints, snapshot, refreshes>>

(* HTTP 4xx, an error of the method, no result: at any attempt; a transient *)
(* failure at the last one.                                                 *)
Refused(l, c) == Waiting(l, c) /\ Throws(l, c)
-----------------------------------------------------------------------------
(* listRecentActivityRows                                                   *)

\* Mutation: a transaction the wallet sent to itself is listed twice.
BlocksConcatenated(outgoing, incoming) == outgoing \o incoming

Digests(blocks) == {blocks[k].digest : k \in DOMAIN blocks}

BlocksByDigest(outgoing, incoming) ==
    outgoing \o Kept(incoming, {b \in ToSet(incoming) : b.digest \notin Digests(outgoing)})

(* sort is stable: blocks of one timestamp stay in the order of the map.    *)
GoesBefore(blocks, j, i) ==
    LET l == blocks[j].timestampMs
        r == blocks[i].timestampMs
    IN l > r \/ (l = r /\ j < i)

Place(blocks, i) == 1 + Cardinality({j \in DOMAIN blocks : GoesBefore(blocks, j, i)})

NewestFirst(blocks) ==
    [n \in DOMAIN blocks |-> blocks[CHOOSE i \in DOMAIN blocks : Place(blocks, i) = n]]

ListRecentActivityRows(outgoing, incoming) ==
    UpToLimit(NewestFirst(BlocksByDigest(outgoing, incoming)))
-----------------------------------------------------------------------------
(* refresh                                                                  *)

Refresh(l) ==
    /\ loads[l] = None
    /\ refreshes < MaxRefreshes
    /\ loads' = [loads EXCEPT ![l] =
           [since |-> Len(checkpoints), phase |-> "balance", calls |-> [c \in Calls |-> Asked]]]
    /\ snapError' = FALSE
    /\ loading' = TRUE
    /\ refreshes' = refreshes + 1
    /\ UNCHANGED <<ledger, checkpoints, snapshot>>

\* Mutation: the snapshot waits for a balance that failed.
AllAnsweredAndBalance(l, phase) ==
    /\ loads[l] /= None /\ loads[l].phase = phase
    /\ \A c \in CallsOf(phase) \cup {"balance"} : loads[l].calls[c].result /= None

AllAnswered(l, phase) ==
    /\ loads[l] /= None /\ loads[l].phase = phase
    /\ \A c \in CallsOf(phase) : loads[l].calls[c].result /= None

BalanceRead(l) ==
    /\ AllAnswered(l, "balance")
    /\ loads' = [loads EXCEPT ![l].phase = "reads"]
    /\ UNCHANGED <<ledger, checkpoints, snapshot, snapError, loading, refreshes>>

LoadTokenMetadata(l) ==
    /\ AllAnswered(l, "reads")
    /\ loads' = [loads EXCEPT ![l].phase = "metadata"]
    /\ UNCHANGED <<ledger, checkpoints, snapshot, snapError, loading, refreshes>>

(* What an earlier refresh loaded may be shown after what a later one did.  *)
SetSnapshot(l) ==
    /\ AllAnswered(l, "metadata")
    /\ snapshot' = [since |-> loads[l].since,
                    activityRows |-> ListRecentActivityRows(
                        loads[l].calls["outgoing"].result, loads[l].calls["incoming"].result)]
    /\ loads' = [loads EXCEPT ![l] = None]
    /\ loading' = FALSE
    /\ UNCHANGED <<ledger, checkpoints, snapError, refreshes>>

AnswerStep(l) == \E c \in Calls : Answered(l, c) \/ Retried(l, c) \/ Refused(l, c)

RefreshStep(l) == BalanceRead(l) \/ LoadTokenMetadata(l) \/ SetSnapshot(l)

SnapshotNext ==
    \/ \E from, to \in BOOLEAN : Execute(from, to)
    \/ \E tick \in {0, 1} : Checkpoint(tick)
    \/ \E l \in Loads : Refresh(l) \/ AnswerStep(l) \/ RefreshStep(l)

(* Every request is answered or fails in the end, in whatever way; promises *)
(* that are settled go on.                                                  *)
Fairness == \A l \in Loads : WF_snapshotVars(AnswerStep(l)) /\ WF_snapshotVars(RefreshStep(l))

SnapshotSpec == SnapshotInit /\ [][SnapshotNext]_snapshotVars /\ Fairness
-----------------------------------------------------------------------------
SnapshotTypeOK ==
    /\ ledger \in Seq(Transaction) /\ Len(ledger) <= MaxTransactions
    /\ checkpoints \in Seq(Nat) /\ Len(checkpoints) <= Len(ledger)
    /\ loads \in [Loads -> Load \cup {None}]
    /\ {snapError, loading} \subseteq BOOLEAN
    /\ snapshot /= None => /\ snapshot.since \in 0..Len(checkpoints)
                           /\ snapshot.activityRows \in Seq(TransactionBlock)

(* Those that are as new as a transaction of a checkpoint, or newer.        *)
NotOlder(d) ==
    {e \in DOMAIN ledger : e /= d /\ (e \in DOMAIN checkpoints => checkpoints[e] >= checkpoints[d])}

(* The activity a snapshot shows leaves no gap in what was in a checkpoint  *)
(* when its load began: such a transaction is shown, unless Limit others    *)
(* are as new; nothing is shown twice; and above such a transaction there   *)
(* is only what is as new.  The outgoing and the incoming ones are two      *)
(* queries, answered at different times and cut at Limit each, after        *)
(* retries of their own (activity.ts:37-69).                                *)
RecentComplete ==
    snapshot /= None =>
        LET rows == snapshot.activityRows IN
        /\ \A d \in 1..snapshot.since : Cardinality(NotOlder(d)) < Limit => d \in Digests(rows)
        /\ \A i, j \in DOMAIN rows : rows[i].digest = rows[j].digest => i = j
        /\ \A i, j \in DOMAIN rows : i < j /\ rows[j].digest <= snapshot.since =>
               TimestampMs(rows[i].digest) >= TimestampMs(rows[j].digest)

(* The button does not read Refreshing for ever: a refresh ends, with a     *)
(* snapshot or with the error, however often the fullnode fails: attempts   *)
(* are bounded (testnet-rpc.ts:60), and a failed balance is not waited for. *)
RefreshEnds == loading ~> ~loading
=============================================================================
