---------------------------- MODULE MCCoSigner ----------------------------
(***************************************************************************)
(* Instances of CoSigner for TLC: one vault, spelled in both cases, one     *)
(* recipient and one package on the allowlist, and a stranger.  The package *)
(* is 0x2, as every framework package one that starts with zeros.           *)
(***************************************************************************)
EXTENDS CoSigner, TLC

CONSTANTS safe, friend, stranger, framework, d1, d2, d3, c1, c2, c3

Symmetry == Permutations(Calls)

(* An account as the wallet's own code writes it, without leading zeros.    *)
Short(account) == [who |-> account, upper |-> FALSE, padded |-> FALSE]
Capital(text) == [text EXCEPT !.upper = TRUE]

(* The facts of a transfer, whose package is written "0x2"; and those of a  *)
(* Move call, whose package the fullnode spells.                            *)
Facts(digest, account, amount) ==
    [txDigest |-> digest, recipient |-> FullnodeText(account),
     package |-> Short(framework), netOutflow |-> amount]

MoveCall(f) == [f EXCEPT !.package = FullnodeText(framework)]

Simulates(vault, report) ==
    [vaultAddress |-> vault, decodes |-> TRUE,
     policyRequest |-> None, dryRuns |-> {report}]

Claims(vault, readable, claimed) ==
    [vaultAddress |-> vault, decodes |-> readable,
     policyRequest |-> claimed, dryRuns |-> {}]

Object(recipients, maxBps, perTx, rolling) ==
    [allowedRecipients |-> recipients, allowedPackages |-> {framework},
     maxOutflowBps |-> maxBps, perTxCap |-> perTx, rollingCap |-> rolling]

(* A transaction of 1, sent for both spellings of the vault, and one of 2,  *)
(* under a rolling cap of 2; one that sends nothing, and one whose bytes    *)
(* cannot be decoded.                                                       *)
SpendRequests ==
    {Simulates(Short(safe), Facts(d1, friend, 1)),
     Simulates(Capital(Short(safe)), Facts(d1, friend, 1)),
     Simulates(Capital(Short(safe)), Facts(d2, friend, 2)),
     Simulates(Short(safe), Facts(d3, friend, 0)),
     Claims(Short(safe), FALSE, Facts(d3, friend, 1))}

(* Facts the caller claims: a mixed-case recipient, and an outflow at the   *)
(* limit of u64; and a Move call the enclave simulates.                     *)
ClaimedRequests ==
    {Claims(Short(safe), TRUE,
            [Facts(d1, friend, 1) EXCEPT !.recipient = Capital(Short(friend))]),
     Claims(Capital(Short(safe)), TRUE, Facts(d2, friend, U64Max)),
     Simulates(Capital(Short(safe)), MoveCall(Facts(d3, stranger, 1)))}

OnePolicy == {Object({friend}, 10000, 0, 2)}

(* The owner tightens the rolling cap, or the list, or lifts the cap.       *)
ChangingPolicy ==
    {Object({friend}, 10000, 0, 2), Object({friend}, 10000, 2, 1),
     Object({stranger}, 10000, 1, 0)}

LocalPolicy == VaultPolicyFromMoveObject(Object({friend}, 10000, 0, 2))
=============================================================================
