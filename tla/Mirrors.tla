------------------------------ MODULE Mirrors ------------------------------
(***************************************************************************)
(* Code that is written twice: the budget of a sub-account on chain and in  *)
(* the client, and the readers of a dry run.  The first is a state machine; *)
(* the others are functions of one input.                                   *)
(***************************************************************************)
EXTENDS SubAccount, SimulationFacts

CONSTANTS
    Users,         \* whose transaction is read, as spelled by the caller
    DryRuns        \* dry runs that are read

DryRun ==
    [failed : BOOLEAN, balanceChanges : Seq(BalanceChange),
     objectChanges : Seq(Rendered), calls : Seq(Objects),
     computationCost : Nat, storageCost : Nat, storageRebate : Nat]

ASSUME MirrorsAssumption ==
    /\ Users \subseteq {a \in Address : a.of \in Accounts}
    /\ DryRuns \subseteq DryRun

VARIABLE read      \* the dry run that is read, and the user for whom

mirrorVars == <<subVars, read>>

Nothing == [of |-> "nothing"]

MirrorInit == Init /\ read = Nothing

(* Inputs are read while there is no sub-account: they have no part in it.  *)
ReadInput ==
    /\ read = Nothing /\ ~sub.created /\ clock = 0
    /\ \E d \in DryRuns, u \in Users : read' = [of |-> "dryRun", input |-> d, user |-> u]
    /\ UNCHANGED subVars

MirrorNext ==
    \/ Next /\ read = Nothing /\ UNCHANGED read
    \/ ReadInput

MirrorSpec == MirrorInit /\ [][MirrorNext]_mirrorVars
-----------------------------------------------------------------------------
Sent(d, u) == SummarizeDryRun(d, u).sends

Amount(sends) == -Total(AmountsOf(sends))

(* What a list of changes says of one coin.                                 *)
NetOf(changes, coinType) ==
    Total([i \in DOMAIN changes |->
              IF changes[i].coinType = coinType THEN changes[i].amount ELSE 0])

PaidTo(d, u) ==
    {ToLowerCase(c.owner) : c \in ToSet(d.balanceChanges) \cap (Comes \ OwnedBy(u))}

EnclaveSees(d, u) ==
    LET facts == DerivePolicyRequest(d, u, "0x2")
        sends == Sent(d, u)
    IN  IF d.failed
        THEN facts.error /\ SummarizeDryRun(d, u).failed
        ELSE /\ facts.netOutflow = IF Amount(sends) > OutflowMax THEN OutflowMax
                                   ELSE Amount(sends)
             /\ \A a \in Address : a.of \in Accounts /\ PaidTo(d, u) = {a} =>
                    /\ facts.recipient = a
                    /\ \A i \in DOMAIN sends : sends[i].to \in {a, Nobody}

(* The enclave decides on what the user is shown: a transaction that fails  *)
(* is refused by the one and critical to the other; otherwise the outflow   *)
(* is the sum of the sends shown, up to u64, and if one account receives    *)
(* all that is paid, it is the one that the allowlist is asked about and    *)
(* that every send of a coin it receives names (simulation.rs:82-159,       *)
(* dry-run-summary.ts:41-118).                                              *)
EnclaveSeesWhatIsShown == read.of = "dryRun" => EnclaveSees(read.input, read.user)

SameSends(d, fromJson, fromGrpc) ==
    /\ DOMAIN fromJson = DOMAIN fromGrpc
    /\ \A i \in DOMAIN fromJson :
          /\ fromJson[i].coinType = fromGrpc[i].coinType
          /\ fromJson[i].amount = fromGrpc[i].amount
          /\ (\A c \in ToSet(d.balanceChanges) : c.owner.of \in Accounts)
                => fromJson[i].to = ToLowerCase(fromGrpc[i].to)

(* Objects that the user had and that another account or nobody has now.    *)
Lost(d, u) ==
    {c \in ToSet(d.objectChanges) :
        /\ AddressOwner(c.inputOwner) = ToLowerCase(u)
        /\ c.change = "transferred" =>
              AddressOwner(c.outputOwner) \notin {Nobody, ToLowerCase(u)}}

SameObjects(d, u, fromJson, fromGrpc) ==
    (\A c \in ToSet(d.objectChanges) : ToLowerCase(c.sender) = ToLowerCase(u)) =>
        /\ ToSet(fromGrpc) \subseteq ToSet(fromJson)
        /\ LeavesBySender(d, u) \subseteq Lost(d, u) => fromGrpc = fromJson

SummariesAgree(d, u) ==
    LET fromJson == SummarizeDryRun(d, u)
        fromGrpc == SummarizeSimulation(d, u)
    IN  /\ fromJson.receives = fromGrpc.receives /\ fromJson.gas = fromGrpc.gas
        /\ fromJson.failed = fromGrpc.failed
        /\ SameSends(d, fromJson.sends, fromGrpc.sends)
        /\ SameObjects(d, u, fromJson.objectsLeaving, fromGrpc.objectsLeaving)

RowAgrees(d, u) ==
    LET shown == SummarizeDryRun(d, u)
        row == ActivityRow(d, u)
        net == NetOf(shown.receives, row.coinType) + NetOf(shown.sends, row.coinType)
    IN  u.padded /\ (\A c \in ToSet(d.balanceChanges) : c.owner.padded) =>
            /\ row.amount = Absolute(net)
            /\ (row.direction = "outbound") <=> (net < 0)
            /\ (row.direction = "inbound") <=> (net > 0)

(* The readers of one transaction agree, however the user's address is      *)
(* spelled: the two summaries, from the two APIs of a fullnode, in the      *)
(* coins and amounts sent and received, the gas and the failure, and, when  *)
(* no object is paid, in the recipients up to the case of their letters.    *)
(* Of the objects of a transaction that the user sends, the JSON-RPC        *)
(* summary shows as leaving all that the gRPC one does, and the same when   *)
(* each was the user's and none stays with them or is shared.  The activity *)
(* list shows afterwards what the summary announced, for the coin of its    *)
(* row the difference of what is sent and received, if all addresses are    *)
(* written with their leading zeros (dry-run-summary.ts, sim-summary.ts,    *)
(* activity.ts:98-136).                                                     *)
ReadersAgree ==
    read.of = "dryRun" =>
        SummariesAgree(read.input, read.user) /\ RowAgrees(read.input, read.user)
=============================================================================
