---------------------------- MODULE SpendLedger ----------------------------
(***************************************************************************)
(* The enclave's memory of what it approved (enclave/src/ledger.rs): for    *)
(* each vault the approvals of the last ROLLING_WINDOW, one per digest.     *)
(* A ledger is a function from lower-cased vault spellings to sets of       *)
(* approvals; a key the HashMap does not hold maps to the empty set.        *)
(***************************************************************************)
EXTENDS Integers, FiniteSetsExt, PolicyCheck

CONSTANT Window   \* ROLLING_WINDOW, in ticks of the clock

ASSUME WindowAssumption == Window \in Nat \ {0}

ApprovedOutflow == [txDigest : Digests, netOutflow : U64, approvedAt : Nat]

(* A wrong key, for sensitivity: each spelling has a ledger of its own.     *)
VaultKeyAsSpelled(vault) == vault

VaultKey(vault) == NormalizeAddress(vault)

VaultKeys == {VaultKey(t) : t \in Texts}

EmptyLedger == [key \in VaultKeys |-> {}]

(* Wrong pruning, for sensitivity: an entry ages out a tick early, or when  *)
(* the clock is behind it.                                                  *)
RetainedTooBriefly(entries, now) == {e \in entries : now - e.approvedAt < Window - 1}
RetainedUnlessFuture(entries, now) == {e \in entries : now - e.approvedAt \in 0..(Window - 1)}

(* Entries younger than the window stay; so does an entry of the future,    *)
(* whose age is negative here and an Err of duration_since in the code.     *)
Retained(entries, now) == {e \in entries : now - e.approvedAt < Window}

Prune(ledger, vault, now) ==
    [ledger EXCEPT ![VaultKey(vault)] = Retained(@, now)]

(* What a set of approvals adds up to, without a limit.                     *)
TotalOutflow(entries) == MapThenSumSet(LAMBDA e : e.netOutflow, entries)

(* A wrong sum, for sensitivity: a transaction counts against itself.       *)
OutflowOfAll(pruned, vault, excluded) == TotalOutflow(pruned[VaultKey(vault)])

(* The sum outflow_within_window returns for a ledger it has just pruned.   *)
OutflowWithinWindow(pruned, vault, excluded) ==
    MapThenFoldSet(SaturatingAdd, 0, LAMBDA e : e.netOutflow,
                   LAMBDA s : CHOOSE e \in s : TRUE,
                   {e \in pruned[VaultKey(vault)] : e.txDigest # excluded})

(* Wrong records, for sensitivity: a digest is entered at each approval, an *)
(* outflow of 0 is entered, an entry is dated at the window's start.        *)
RecordEachApproval(ledger, vault, digest, outflow, now) ==
    [Prune(ledger, vault, now) EXCEPT ![VaultKey(vault)] = @ \cup
        {[txDigest |-> digest, netOutflow |-> outflow, approvedAt |-> now]}]

RecordFromWindowStart(ledger, vault, digest, outflow, now) ==
    [Prune(ledger, vault, now) EXCEPT ![VaultKey(vault)] = @ \cup
        {[txDigest |-> digest, netOutflow |-> outflow, approvedAt |-> now - Window]}]

(* record_approval: nothing is written for an outflow of 0, nor for a       *)
(* digest that is in the window already.                                    *)
RecordApproval(ledger, vault, digest, outflow, now) ==
    LET pruned  == Prune(ledger, vault, now)
        entries == pruned[VaultKey(vault)]
        entry   == [txDigest |-> digest, netOutflow |-> outflow, approvedAt |-> now]
    IN  IF outflow = 0
        THEN ledger
        ELSE IF \E e \in entries : e.txDigest = digest
        THEN pruned
        ELSE [pruned EXCEPT ![VaultKey(vault)] = @ \cup {entry}]
=============================================================================
