---------------------------- MODULE PolicyCheck ----------------------------
(***************************************************************************)
(* The rules a vault transaction is judged by (enclave/src/policy.rs), and  *)
(* the policy the enclave reads from the chain for them                     *)
(* (enclave/src/policy_source.rs).  The rules are pure: a policy, the facts *)
(* of one simulated transaction and the vault's earlier outflow give a      *)
(* verdict.                                                                 *)
(***************************************************************************)
EXTENDS Naturals, AddressText

CONSTANTS
    Digests,    \* transaction digests
    U64Max,     \* the largest u64; amounts saturate there
    TotalMist   \* AEGIS_TOTAL_MIST, what an outflow is a share of

ASSUME U64Assumption == U64Max \in Nat \ {0} /\ TotalMist \in 0..U64Max

U64 == 0..U64Max

(* A wrong sum, for sensitivity: it wraps.                                  *)
WrappingAdd(a, b) == (a + b) % (U64Max + 1)

SaturatingAdd(a, b) == IF a + b > U64Max THEN U64Max ELSE a + b
SaturatingMul(a, b) == IF a * b > U64Max THEN U64Max ELSE a * b

(* struct PolicyRequest: what a dry run says of one transaction.            *)
PolicyRequest ==
    [txDigest : Digests, recipient : Texts, package : Texts, netOutflow : U64]

(* struct VaultPolicy *)
VaultPolicy ==
    [allowedRecipients : SUBSET Texts, allowedPackages : SUBSET Texts,
     maxOutflowBps : U64, perTxCap : U64, rollingCap : U64, total : U64]

(* The Move object aegis::policy::Policy: its addresses are accounts, its   *)
(* share is at most 10000 basis points (policy.move), and                   *)
(* it does not know the wallet's total.                                     *)
PolicyObject ==
    [allowedRecipients : SUBSET Accounts, allowedPackages : SUBSET Accounts,
     maxOutflowBps : U64 \cap 0..10000, perTxCap : U64, rollingCap : U64]

(* vault_policy_from_move_object, applied to a fullnode's answer.           *)
VaultPolicyFromMoveObject(object) ==
    LET AddressVector(accounts) ==
            {NormalizeSuiAddress(FullnodeText(a)) : a \in accounts}
    IN  [allowedRecipients |-> AddressVector(object.allowedRecipients),
         allowedPackages   |-> AddressVector(object.allowedPackages),
         maxOutflowBps     |-> object.maxOutflowBps,
         perTxCap          |-> object.perTxCap,
         rollingCap        |-> object.rollingCap,
         total             |-> TotalMist]
-----------------------------------------------------------------------------
Allowlisted(list, text) == \E entry \in list : EqIgnoreAsciiCase(entry, text)

(* The share of the total that leaves, in basis points; 0 for an unknown    *)
(* total.                                                                   *)
OutflowBps(policy, request) ==
    IF policy.total = 0
    THEN 0
    ELSE SaturatingMul(request.netOutflow, 10000) \div policy.total

(* A cap of 0 is no cap.                                                    *)
ExceedsPerTxCap(policy, request) ==
    policy.perTxCap > 0 /\ request.netOutflow > policy.perTxCap

ExceedsRollingCap(policy, request, prior) ==
    /\ policy.rollingCap > 0
    /\ SaturatingAdd(prior, request.netOutflow) > policy.rollingCap

(* PolicyDecision.reason; the last is the reason of a decision to allow.    *)
Verdicts ==
    {"recipient is not allowlisted", "package is not allowlisted",
     "per-tx outflow exceeds policy cap", "net outflow exceeds policy limit",
     "rolling daily outflow exceeds policy cap", "policy passed"}

(* evaluate_policy_with_window_outflow: the first rule that fails names the *)
(* refusal.                                                                 *)
EvaluatePolicyWithWindowOutflow(policy, request, prior) ==
    IF ~Allowlisted(policy.allowedRecipients, request.recipient)
    THEN "recipient is not allowlisted"
    ELSE IF ~Allowlisted(policy.allowedPackages, request.package)
    THEN "package is not allowlisted"
    ELSE IF ExceedsPerTxCap(policy, request)
    THEN "per-tx outflow exceeds policy cap"
    ELSE IF OutflowBps(policy, request) > policy.maxOutflowBps
    THEN "net outflow exceeds policy limit"
    ELSE IF ExceedsRollingCap(policy, request, prior)
    THEN "rolling daily outflow exceeds policy cap"
    ELSE "policy passed"

(* evaluate_policy: the stateless check of POST /policy_check_and_cosign.   *)
EvaluatePolicy(policy, request) ==
    EvaluatePolicyWithWindowOutflow(policy, request, 0)
=============================================================================
