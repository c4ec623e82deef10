-------------------------- MODULE SimulationFacts --------------------------
(***************************************************************************)
(* What is read out of one simulated transaction, in four places that were  *)
(* written apart: the facts the enclave's policy decides on                 *)
(* (enclave/src/simulation.rs), the summary shown to the user, from         *)
(* JSON-RPC (dry-run-summary.ts) and from the gRPC client (sim-summary.ts), *)
(* and the row of the activity list (activity.ts).                          *)
(*                                                                         *)
(* The changes of balances and objects keep their order: the readers look   *)
(* for the first one that fits.  Each reader compares addresses in a        *)
(* spelling of its own.                                                     *)
(***************************************************************************)
EXTENDS Integers, SequencesExt, Filter

CONSTANTS
    Accounts,      \* holders of a key
    Objects,       \* objects; they may own coins and objects
    Coins, SUI,    \* coin types
    Amounts,       \* of balance changes
    OutflowMax,    \* u64::MAX
    Nobody         \* no address

(* An address as text: whom it is of, whether it has all its leading zeros, *)
(* and whether its letters are small.                                       *)
Address == [of : Accounts \cup Objects, padded : BOOLEAN, lower : BOOLEAN]

ASSUME FactsAssumption ==
    /\ SUI \in Coins /\ Amounts \subseteq Int /\ OutflowMax \in Nat
    /\ Accounts \cap Objects = {} /\ Nobody \notin Address

BalanceChange == [owner : Address, coinType : Coins, amount : Amounts]

(* What became of an object: its owner before and after, none for a shared  *)
(* object and one that is gone.                                             *)
ObjectChange ==
    [objectId : Objects, sender : Address,
     change : {"created", "mutated", "transferred", "wrapped", "deleted"},
     inputOwner : Address \cup {Nobody}, outputOwner : Address \cup {Nobody}]

(* A fullnode calls a change of owner a transfer.                           *)
Rendered ==
    {c \in ObjectChange : /\ c.change = "created" => c.inputOwner = Nobody
                          /\ c.change = "mutated" => c.outputOwner = c.inputOwner
                          /\ c.change \in {"wrapped", "deleted"} => c.outputOwner = Nobody}

(* A dry run is whether it failed, its balanceChanges and its               *)
(* objectChanges, the packages of its MoveCalls as calls, each in order,    *)
(* and its gas costs.                                                       *)

ToLowerCase(a) == IF a = Nobody THEN Nobody ELSE [a EXCEPT !.lower = TRUE]

NormalizeSuiAddress(a) == [a EXCEPT !.padded = TRUE, !.lower = TRUE]

(* An owner that is an object is no address to the readers of JSON-RPC.     *)
AddressOwner(a) == IF a # Nobody /\ a.of \in Accounts THEN ToLowerCase(a) ELSE Nobody

Absolute(n) == IF n < 0 THEN -n ELSE n

(* The changes that a reader looks for.                                     *)
OwnedBy(a) == {c \in BalanceChange : ToLowerCase(c.owner) = ToLowerCase(a)}

OwnedByPadded(a) ==
    {c \in BalanceChange : NormalizeSuiAddress(c.owner) = NormalizeSuiAddress(a)}

InCoin(coinType) == {c \in BalanceChange : c.coinType = coinType}

Leaves == {c \in BalanceChange : c.amount < 0}

Comes == {c \in BalanceChange : c.amount > 0}

(* The sum of a list of numbers.                                            *)
Total(numbers) ==
    LET sum[i \in 0 .. Len(numbers)] == IF i = 0 THEN 0 ELSE sum[i - 1] + numbers[i]
    IN  sum[Len(numbers)]

AmountsOf(changes) == [i \in DOMAIN changes |-> changes[i].amount]

FirstOwner(changes) == IF changes = <<>> THEN Nobody ELSE Head(changes).owner
-----------------------------------------------------------------------------
(* The enclave.  first_positive_balance_recipient takes any coin and any    *)
(* owner.                                                                   *)
PositiveBalanceRecipient(d, vault) ==
    ToLowerCase(FirstOwner(Kept(d.balanceChanges, Comes \ OwnedBy(vault))))

(* first_external_object_owner: of the objects that the rendering gives an  *)
(* owner, which are those created and changed.                              *)
ExternalObjectOwner(d, vault) ==
    LET ofOthers == {c \in ToSet(d.objectChanges) :
                       /\ c.change \in {"created", "mutated"} /\ c.outputOwner # Nobody
                       /\ ToLowerCase(c.outputOwner) # ToLowerCase(vault)}
        kept == Kept(d.objectChanges, ofOthers)
    IN  IF kept = <<>> THEN Nobody ELSE ToLowerCase(Head(kept).outputOwner)

(* The vault itself stands for no recipient.                                *)
Recipient(d, vault) ==
    LET paid == PositiveBalanceRecipient(d, vault)
        owner == ExternalObjectOwner(d, vault)
    IN  IF paid # Nobody THEN paid ELSE IF owner # Nobody THEN owner ELSE ToLowerCase(vault)

(* A wrong sum, for sensitivity: what comes in is set off.                  *)
NetOutflowOffset(d, vault) ==
    LET sum == Total(AmountsOf(Kept(d.balanceChanges, OwnedBy(vault))))
    IN  IF sum >= 0 THEN 0 ELSE IF -sum > OutflowMax THEN OutflowMax ELSE -sum

(* net_outflow_mist: what leaves the vault, of all coins, as a u64.         *)
NetOutflow(d, vault) ==
    LET sum == -Total(AmountsOf(Kept(d.balanceChanges, OwnedBy(vault) \cap Leaves)))
    IN  IF sum > OutflowMax THEN OutflowMax ELSE sum

DerivePolicyRequest(d, vault, defaultPackage) ==
    IF d.failed THEN [error |-> TRUE]
    ELSE [error |-> FALSE, recipient |-> Recipient(d, vault),
          package |-> IF d.calls = <<>> THEN defaultPackage ELSE Head(d.calls),
          netOutflow |-> NetOutflow(d, vault)]
-----------------------------------------------------------------------------
Gas(d) == d.computationCost + d.storageCost - d.storageRebate

(* inferRecipient: the first account that receives the coin.                *)
InferRecipient(d, coinType, user) ==
    LET toAccounts == {c \in (InCoin(coinType) \cap Comes) \ OwnedBy(user) :
                          c.owner.of \in Accounts}
    IN  AddressOwner(FirstOwner(Kept(d.balanceChanges, toAccounts)))

(* An object leaves when it is gone or given away in a transaction that the *)
(* user sends, whosever it was.                                             *)
LeavesBySender(d, user) ==
    {c \in ToSet(d.objectChanges) : /\ c.change \in {"transferred", "wrapped", "deleted"}
                                    /\ ToLowerCase(c.sender) = ToLowerCase(user)}

Left(changes) ==
    [i \in DOMAIN changes |-> [objectId |-> changes[i].objectId,
                               to |-> AddressOwner(changes[i].outputOwner)]]

(* A wrong reader, for sensitivity: addresses are compared as they come.    *)
SummarizeDryRunSpelled(d, user) ==
    LET own == Kept(d.balanceChanges, {c \in BalanceChange : c.owner = user})
        out == Kept(own, Leaves)
    IN  [sends |-> [i \in DOMAIN out |->
                      [coinType |-> out[i].coinType, amount |-> out[i].amount,
                       to |-> InferRecipient(d, out[i].coinType, user)]],
         receives |-> Kept(own, Comes),
         objectsLeaving |-> Left(Kept(d.objectChanges, LeavesBySender(d, user))),
         gas |-> Gas(d), failed |-> d.failed]

(* summarizeDryRun, from the JSON-RPC rendering.                            *)
SummarizeDryRun(d, user) ==
    LET own == Kept(d.balanceChanges, OwnedBy(user))
        out == Kept(own, Leaves)
    IN  [sends |-> [i \in DOMAIN out |->
                      [coinType |-> out[i].coinType, amount |-> out[i].amount,
                       to |-> InferRecipient(d, out[i].coinType, user)]],
         receives |-> Kept(own, Comes),
         objectsLeaving |-> Left(Kept(d.objectChanges, LeavesBySender(d, user))),
         gas |-> Gas(d), failed |-> d.failed]

(* inferCoinRecipient: the gRPC client gives every owner as an address,     *)
(* objects too, and the address is shown as it came.                        *)
InferCoinRecipient(d, coinType, user) ==
    FirstOwner(Kept(d.balanceChanges, (InCoin(coinType) \cap Comes) \ OwnedBy(user)))

(* isObjectLeavingUser: an object leaves when it was the user's and is gone *)
(* or another account's, whoever sends the transaction.                     *)
LeavesItsOwner(d, user) ==
    {c \in ToSet(d.objectChanges) :
        /\ AddressOwner(c.inputOwner) = ToLowerCase(user)
        /\ \/ c.change \in {"wrapped", "deleted"}
           \/ AddressOwner(c.outputOwner) \notin {Nobody, ToLowerCase(user)}}

(* summarizeSimulation.                                                     *)
SummarizeSimulation(d, user) ==
    LET changes == d.balanceChanges
        send(c) == [coinType |-> c.coinType, amount |-> c.amount,
                    to |-> InferCoinRecipient(d, c.coinType, user)]
        pushed(list, c, S, shown) == IF c \in OwnedBy(user) \cap S THEN Append(list, shown)
                                     ELSE list
        read[i \in 0 .. Len(changes)] ==
            IF i = 0 THEN [sends |-> <<>>, receives |-> <<>>]
            ELSE LET before == read[i - 1]
                     c == changes[i]
                 IN  [sends |-> pushed(before.sends, c, Leaves, send(c)),
                      receives |-> pushed(before.receives, c, Comes, c)]
        all == read[Len(changes)]
    IN  [sends |-> all.sends, receives |-> all.receives,
         objectsLeaving |-> Left(Kept(d.objectChanges, LeavesItsOwner(d, user))),
         gas |-> Gas(d), failed |-> d.failed]
-----------------------------------------------------------------------------
Row(primary, net, d) ==
    [coinType |-> primary, amount |-> Absolute(net), failure |-> d.failed,
     direction |-> IF net > 0 THEN "inbound" ELSE IF net < 0 THEN "outbound" ELSE "internal"]

(* SUI if the account's SUI changed, else the coin that changed first.      *)
PrimaryCoin(own) ==
    IF own = <<>> \/ Kept(own, InCoin(SUI)) # <<>> THEN SUI ELSE Head(own).coinType

(* activityRowFromBlock: the changes of the primary coin are added up.      *)
ActivityRow(d, user) ==
    LET own == Kept(d.balanceChanges, OwnedByPadded(user))
    IN  Row(PrimaryCoin(own), Total(AmountsOf(Kept(own, InCoin(PrimaryCoin(own))))), d)
=============================================================================
