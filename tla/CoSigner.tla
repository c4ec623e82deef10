------------------------------ MODULE CoSigner ------------------------------
(***************************************************************************)
(* The policy co-signer of Vault Mode (enclave/src/main.rs, cosign.rs).     *)
(*                                                                         *)
(* POST /co_sign is an async handler: it awaits a dry run of the            *)
(* transaction, awaits the policy, then takes the ledger's mutex and        *)
(* decides.  Several calls are in flight at once, and between two awaits of *)
(* one of them the owner may change the policy on chain, another call may   *)
(* be approved, the clock moves, or the enclave restarts and forgets its    *)
(* ledger.                                                                  *)
(***************************************************************************)
EXTENDS SpendLedger

CONSTANTS
    Calls,              \* HTTP calls; each is used once
    Requests,           \* the bodies a call may carry
    PolicyObjects,      \* the values the on-chain Policy object may take
    FallbackPolicy,     \* AppState.policy, from the environment
    HasPolicyObject,    \* AEGIS_POLICY_OBJECT_ID is set
    FetchMayFail,       \* the fullnode may fail to return the policy
    AllowCallerFacts,   \* AEGIS_ALLOW_CALLER_POLICY_REQUESTS
    ClockMayStepBack,   \* SystemTime is not monotone
    MaxTime,            \* bound: the last tick
    MaxBoots,           \* bound: restarts of the enclave
    None                \* no value

(* struct CoSignRequest, with what a dry run of its transaction may report  *)
(* (nothing, when it always fails), whether txBytes is base64, and the      *)
(* facts the caller claims.                                                 *)
CoSignRequest ==
    [vaultAddress : Texts, decodes : BOOLEAN,
     policyRequest : PolicyRequest \cup {None}, dryRuns : SUBSET PolicyRequest]

ASSUME CoSignerAssumption ==
    /\ Requests \subseteq CoSignRequest
    /\ PolicyObjects \subseteq PolicyObject /\ PolicyObjects # {}
    /\ FallbackPolicy \in VaultPolicy
    /\ {HasPolicyObject, FetchMayFail, AllowCallerFacts, ClockMayStepBack} \subseteq BOOLEAN
    /\ MaxTime \in Nat /\ MaxBoots \in Nat
    /\ None \notin CoSignRequest \cup PolicyRequest \cup VaultPolicy

VARIABLES
    now,         \* SystemTime::now
    boot,        \* number of the enclave's current run
    ledger,      \* AppState.spend_ledger
    policyObject,\* the Policy object on chain
    phase,       \* where each call is in the handler
    request,     \* the call's body
    facts,       \* request.policy_request once it is known
    policy,      \* the handler's local `policy`
    response,    \* the reason the call was answered with
    answeredAt,  \* history: the tick a call was answered at
    answeredIn,  \* history: the run of the enclave that answered it
    offered,     \* history: policy objects on chain while the call ran
    latest       \* history: the latest tick this run of the enclave has seen

vars == <<now, boot, ledger, policyObject, phase, request, facts, policy,
          response, answeredAt, answeredIn, offered, latest>>

Phases == {"idle", "simulating", "loading", "deciding", "signed", "refused", "lost"}

(* The reason of an answer; none while there is no answer.                  *)
Responses ==
    Verdicts \cup {"", "server-side simulation failed", "txBytes is not valid base64"}

InFlight == {c \in Calls : phase[c] \in {"simulating", "loading", "deciding"}}

Init ==
    /\ now = 0
    /\ boot = 0
    /\ ledger = EmptyLedger
    /\ policyObject \in PolicyObjects
    /\ phase = [c \in Calls |-> "idle"]
    /\ request = [c \in Calls |-> None]
    /\ facts = [c \in Calls |-> None]
    /\ policy = [c \in Calls |-> None]
    /\ response = [c \in Calls |-> ""]
    /\ answeredAt = [c \in Calls |-> 0]
    /\ answeredIn = [c \in Calls |-> 0]
    /\ offered = [c \in Calls |-> {}]
    /\ latest = 0
-----------------------------------------------------------------------------
(* The call arrives.  Facts the caller claims are believed only when the    *)
(* enclave was configured to; otherwise the transaction is simulated.       *)
Receive(c, r) ==
    /\ phase[c] = "idle"
    /\ request' = [request EXCEPT ![c] = r]
    /\ offered' = [offered EXCEPT ![c] = {policyObject}]
    /\ IF AllowCallerFacts /\ r.policyRequest # None
       THEN /\ phase' = [phase EXCEPT ![c] = "loading"]
            /\ facts' = [facts EXCEPT ![c] = r.policyRequest]
       ELSE /\ phase' = [phase EXCEPT ![c] = "simulating"]
            /\ UNCHANGED facts
    /\ UNCHANGED <<now, boot, ledger, policyObject, policy, response,
                   answeredAt, answeredIn, latest>>

(* The fullnode's dry run succeeds.                                         *)
Simulated(c) ==
    /\ phase[c] = "simulating"
    /\ phase' = [phase EXCEPT ![c] = "loading"]
    /\ \E f \in request[c].dryRuns : facts' = [facts EXCEPT ![c] = f]
    /\ UNCHANGED <<now, boot, ledger, policyObject, request, policy, response,
                   answeredAt, answeredIn, offered, latest>>

(* The dry run fails, or the fullnode does not answer it.                   *)
SimulationFailed(c) ==
    /\ phase[c] = "simulating"
    /\ phase' = [phase EXCEPT ![c] = "refused"]
    /\ response' = [response EXCEPT ![c] = "server-side simulation failed"]
    /\ answeredAt' = [answeredAt EXCEPT ![c] = now]
    /\ answeredIn' = [answeredIn EXCEPT ![c] = boot]
    /\ UNCHANGED <<now, boot, ledger, policyObject, request, facts, policy,
                   offered, latest>>

(* policy_source.load: the policy is copied now and used at CoSign.         *)
LoadPolicy(c) ==
    /\ phase[c] = "loading"
    /\ HasPolicyObject
    /\ phase' = [phase EXCEPT ![c] = "deciding"]
    /\ policy' = [policy EXCEPT ![c] = VaultPolicyFromMoveObject(policyObject)]
    /\ UNCHANGED <<now, boot, ledger, policyObject, request, facts, response,
                   answeredAt, answeredIn, offered, latest>>

(* A wrong load, for sensitivity: it may fall back at any time.             *)
LoadFallbackAnyway(c) ==
    /\ phase[c] = "loading"
    /\ phase' = [phase EXCEPT ![c] = "deciding"]
    /\ policy' = [policy EXCEPT ![c] = FallbackPolicy]
    /\ UNCHANGED <<now, boot, ledger, policyObject, request, facts, response,
                   answeredAt, answeredIn, offered, latest>>

(* The environment's policy stands in for one that cannot be read.          *)
LoadFallback(c) ==
    /\ phase[c] = "loading"
    /\ ~HasPolicyObject \/ FetchMayFail
    /\ phase' = [phase EXCEPT ![c] = "deciding"]
    /\ policy' = [policy EXCEPT ![c] = FallbackPolicy]
    /\ UNCHANGED <<now, boot, ledger, policyObject, request, facts, response,
                   answeredAt, answeredIn, offered, latest>>

(* co_sign_transaction, under the ledger's mutex and therefore one step:    *)
(* the ledger is pruned even when the answer is a refusal.                  *)
CoSign(c) ==
    LET vault   == request[c].vaultAddress
        pruned  == Prune(ledger, vault, now)
        prior   == OutflowWithinWindow(pruned, vault, facts[c].txDigest)
        verdict == EvaluatePolicyWithWindowOutflow(policy[c], facts[c], prior)
        Refuse(reason) ==
            /\ phase' = [phase EXCEPT ![c] = "refused"]
            /\ response' = [response EXCEPT ![c] = reason]
            /\ ledger' = pruned
    IN  /\ phase[c] = "deciding"
        /\ \/ /\ verdict # "policy passed"
              /\ Refuse(verdict)
           \/ /\ verdict = "policy passed"
              /\ ~request[c].decodes
              /\ Refuse("txBytes is not valid base64")
           \/ /\ verdict = "policy passed"
              /\ request[c].decodes
              /\ phase' = [phase EXCEPT ![c] = "signed"]
              /\ response' = [response EXCEPT ![c] = verdict]
              /\ ledger' = RecordApproval(pruned, vault, facts[c].txDigest,
                                          facts[c].netOutflow, now)
        /\ answeredAt' = [answeredAt EXCEPT ![c] = now]
        /\ answeredIn' = [answeredIn EXCEPT ![c] = boot]
        /\ UNCHANGED <<now, boot, policyObject, request, facts, policy,
                       offered, latest>>
-----------------------------------------------------------------------------
(* policy::set_limits and friends: the owner changes the policy on chain.   *)
SetPolicy(p) ==
    /\ p # policyObject
    /\ policyObject' = p
    /\ offered' = [c \in Calls |-> IF c \in InFlight THEN offered[c] \cup {p}
                                                     ELSE offered[c]]
    /\ UNCHANGED <<now, boot, ledger, phase, request, facts, policy, response,
                   answeredAt, answeredIn, latest>>

Tick ==
    /\ now < MaxTime
    /\ now' = now + 1
    /\ latest' = IF now + 1 > latest THEN now + 1 ELSE latest
    /\ UNCHANGED <<boot, ledger, policyObject, phase, request, facts, policy,
                   response, answeredAt, answeredIn, offered>>

ClockStepsBack ==
    /\ ClockMayStepBack
    /\ now > 0
    /\ now' = now - 1
    /\ UNCHANGED <<boot, ledger, policyObject, phase, request, facts, policy,
                   response, answeredAt, answeredIn, offered, latest>>

(* The process starts anew: the ledger is memory only, open calls are lost. *)
Restart ==
    /\ boot < MaxBoots
    /\ boot' = boot + 1
    /\ ledger' = EmptyLedger
    /\ phase' = [c \in Calls |-> IF c \in InFlight THEN "lost" ELSE phase[c]]
    /\ latest' = now
    /\ UNCHANGED <<now, policyObject, request, facts, policy, response,
                   answeredAt, answeredIn, offered>>

Next ==
    \/ \E c \in Calls :
        \/ \E r \in Requests : Receive(c, r)
        \/ Simulated(c)
        \/ SimulationFailed(c)
        \/ LoadPolicy(c)
        \/ LoadFallback(c)
        \/ CoSign(c)
    \/ \E p \in PolicyObjects : SetPolicy(p)
    \/ Tick
    \/ ClockStepsBack
    \/ Restart

Spec == Init /\ [][Next]_vars
-----------------------------------------------------------------------------
(* The variables hold what their declarations say.                          *)
TypeOK ==
    /\ now \in Nat /\ latest \in Nat /\ boot \in Nat
    /\ ledger \in [VaultKeys -> SUBSET ApprovedOutflow]
    /\ policyObject \in PolicyObjects
    /\ phase \in [Calls -> Phases]
    /\ request \in [Calls -> Requests \cup {None}]
    /\ facts \in [Calls -> PolicyRequest \cup {None}]
    /\ policy \in [Calls -> VaultPolicy \cup {None}]
    /\ response \in [Calls -> Responses]
    /\ answeredAt \in [Calls -> Nat]
    /\ answeredIn \in [Calls -> Nat]
    /\ offered \in [Calls -> SUBSET PolicyObjects]

(* The vault a call spends from, and the key its approvals are kept under.  *)
Vault(c) == request[c].vaultAddress.who
Key(c) == VaultKey(request[c].vaultAddress)

(* An approval of this run of the enclave that counts towards the cap.      *)
Approved(c) ==
    phase[c] = "signed" /\ answeredIn[c] = boot /\ facts[c].netOutflow > 0

SameTransaction(c, d) ==
    Vault(c) = Vault(d) /\ facts[c].txDigest = facts[d].txDigest

(* What the ledger is for.  Of the transactions first approved in the       *)
(* window that ends at the latest reading of the clock, the outflow of each *)
(* counted once.                                                            *)
FirstApproval(c) ==
    /\ Approved(c)
    /\ \A d \in Calls : Approved(d) /\ SameTransaction(c, d)
                            => answeredAt[c] <= answeredAt[d]

WindowSpend(vault) ==
    TotalOutflow(
        {[txDigest |-> facts[c].txDigest, netOutflow |-> facts[c].netOutflow] :
            c \in {c \in Calls : /\ FirstApproval(c) /\ Vault(c) = vault
                                 /\ answeredAt[c] > latest - Window}})

(* A signature never takes a vault past the rolling cap of the policy the   *)
(* call was judged by, whatever else was signed while the call was waiting, *)
(* in whichever case its callers spell the vault, and across retries of     *)
(* the same transaction (cosign.rs:48-65).  0 is no cap, and neither is the *)
(* largest u64, which no saturating sum exceeds.                            *)
SignedWithinRollingCap ==
    [][\A c \in Calls :
        /\ phase[c] = "deciding" /\ phase'[c] = "signed"
        /\ policy[c].rollingCap \in 1..(U64Max - 1)
        => WindowSpend(Vault(c))' <= policy[c].rollingCap]_vars

(* The ledger invents nothing: every entry is an approval this run of the   *)
(* enclave signed, and a digest is in a vault's window once.  A refused     *)
(* call, refused by the policy or for its bytes, consumes no allowance.     *)
LedgerSound ==
    \A key \in VaultKeys : \A e \in ledger[key] :
        /\ \E c \in Calls :
            /\ Approved(c) /\ Vault(c) = key.who
            /\ e = [txDigest |-> facts[c].txDigest,
                    netOutflow |-> facts[c].netOutflow,
                    approvedAt |-> answeredAt[c]]
        /\ \A f \in ledger[key] : f.txDigest = e.txDigest => f = e

(* The ledger forgets nothing early: an approval of this run of the enclave *)
(* stays counted until an approval of that transaction has aged out of the  *)
(* window at some reading of the clock, however the clock steps             *)
(* (ledger.rs:75, "the conservative failure mode").                         *)
LedgerComplete ==
    \A c \in Calls : Approved(c) =>
        \/ \E e \in ledger[Key(c)] : e.txDigest = facts[c].txDigest
        \/ \E d \in Calls : /\ Approved(d) /\ SameTransaction(c, d)
                            /\ latest - answeredAt[d] >= Window

(* A transaction whose approval is still in the window is not refused for   *)
(* the rolling cap when it is sent again: it is not counted against itself  *)
(* (lib.rs:216).  Holds while the policy does not change.                   *)
RetryNotRefused ==
    [][\A c \in Calls :
        /\ phase[c] = "deciding" /\ phase'[c] = "refused"
        /\ response'[c] = "rolling daily outflow exceeds policy cap"
        => \A e \in Retained(ledger[Key(c)], now) :
            e.txDigest = facts[c].txDigest => e.netOutflow < facts[c].netOutflow]_vars

Permits(p, f) == EvaluatePolicy(p, f) = "policy passed"

(* What a policy of the enclave's own may stand in for: one that cannot be  *)
(* read, or an owner without one.                                           *)
StandIns == IF HasPolicyObject /\ ~FetchMayFail THEN {} ELSE {FallbackPolicy}

(* A signature passes the rules, apart from the rolling cap, of a policy    *)
(* its owner had on chain while the call was being served: not of the one   *)
(* before a change that preceded the call, and not of one of the enclave's  *)
(* own unless none can be read (main.rs:142, policy_source.rs:35).          *)
SignedUnderOwnersPolicy ==
    \A c \in Calls : phase[c] = "signed" =>
        \E p \in {VaultPolicyFromMoveObject(o) : o \in offered[c]} \cup StandIns :
            policy[c] = p /\ Permits(p, facts[c])

OnList(text, accounts) == text.who \in accounts /\ ~text.padded

(* The lists of a policy read from the chain let an account through, as     *)
(* recipient or as package, exactly when it is listed and spelled without   *)
(* leading zeros, in whichever case: listing 0x2 permits a transfer         *)
(* (simulation.rs:180) and no Move call of that package, whose 64 digits    *)
(* the list has lost (simulation.rs:161, policy_source.rs:135).             *)
ListedAsSpelled ==
    \A c \in Calls : \A p \in PolicyObjects :
        policy[c] = VaultPolicyFromMoveObject(p) =>
            /\ phase[c] = "signed"
                => /\ OnList(facts[c].recipient, p.allowedRecipients)
                   /\ OnList(facts[c].package, p.allowedPackages)
            /\ phase[c] = "refused"
                => /\ response[c] = "recipient is not allowlisted"
                        => ~OnList(facts[c].recipient, p.allowedRecipients)
                   /\ response[c] = "package is not allowlisted"
                        => ~OnList(facts[c].package, p.allowedPackages)
=============================================================================
