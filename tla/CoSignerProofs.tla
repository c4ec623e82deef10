--------------------------- MODULE CoSignerProofs ---------------------------
(***************************************************************************)
(* Proofs about CoSigner, for every number of calls, every set of requests  *)
(* and policies, every window and every behaviour of the clock.             *)
(***************************************************************************)
EXTENDS CoSigner, InductionLemmas, TLAPS

(* Recording an approval, like pruning, yields a ledger.                    *)
LEMMA RetainedSubset ==
    ASSUME NEW E, NEW t
    PROVE  Retained(E, t) \subseteq E
BY DEF Retained

\* The ledger's key of a vault (ledger.rs) is one of VaultKeys.
LEMMA VaultKeyType ==
    ASSUME NEW v \in Texts
    PROVE  VaultKey(v) \in VaultKeys
BY DEF VaultKeys

\* Pruning keeps the ledger a ledger and touches the key of one vault only.
LEMMA PruneType ==
    ASSUME NEW l \in [VaultKeys -> SUBSET ApprovedOutflow], NEW v \in Texts,
           NEW t \in Nat
    PROVE  /\ Prune(l, v, t) \in [VaultKeys -> SUBSET ApprovedOutflow]
           /\ \A key \in VaultKeys : Prune(l, v, t)[key] =
                IF key = VaultKey(v) THEN Retained(l[key], t) ELSE l[key]
BY RetainedSubset, VaultKeyType DEF Prune

\* So does recording an approval.
LEMMA RecordApprovalType ==
    ASSUME NEW l \in [VaultKeys -> SUBSET ApprovedOutflow], NEW v \in Texts,
           NEW d \in Digests, NEW o \in U64, NEW t \in Nat
    PROVE  RecordApproval(l, v, d, o, t) \in [VaultKeys -> SUBSET ApprovedOutflow]
<1>1. [txDigest |-> d, netOutflow |-> o, approvedAt |-> t] \in ApprovedOutflow
  BY DEF ApprovedOutflow
<1>2. QED
  BY <1>1, PruneType, VaultKeyType DEF RecordApproval

(* The rules answer one of the verdicts.                                        *)
LEMMA VerdictType ==
    ASSUME NEW p, NEW f, NEW prior
    PROVE  EvaluatePolicyWithWindowOutflow(p, f, prior) \in Verdicts
<1> DEFINE R == ~Allowlisted(p.allowedRecipients, f.recipient)
           P == ~Allowlisted(p.allowedPackages, f.package)
           T == ExceedsPerTxCap(p, f)
           O == OutflowBps(p, f) > p.maxOutflowBps
           W == ExceedsRollingCap(p, f, prior)
<1>1. EvaluatePolicyWithWindowOutflow(p, f, prior) =
        IF R THEN "recipient is not allowlisted"
        ELSE IF P THEN "package is not allowlisted"
        ELSE IF T THEN "per-tx outflow exceeds policy cap"
        ELSE IF O THEN "net outflow exceeds policy limit"
        ELSE IF W THEN "rolling daily outflow exceeds policy cap"
        ELSE "policy passed"
  BY DEF EvaluatePolicyWithWindowOutflow
<1> HIDE DEF R, P, T, O, W
<1>2. QED
  BY <1>1 DEF Verdicts

\* What policy_source.rs makes of a Policy object is a policy.
LEMMA VaultPolicyFromMoveObjectType ==
    ASSUME NEW object \in PolicyObject
    PROVE  VaultPolicyFromMoveObject(object) \in VaultPolicy
<1>1. \A a \in Accounts : NormalizeSuiAddress(FullnodeText(a)) \in Texts
  BY ShortAccountsAssumption DEF NormalizeSuiAddress, NormalizeAddress, FullnodeText, Texts
<1>2. TotalMist \in U64
  BY U64Assumption DEF U64
<1>3. QED
  BY <1>1, <1>2 DEF VaultPolicyFromMoveObject, PolicyObject, VaultPolicy

(* What a call holds once it has reached a phase of the handler.            *)
CallData ==
    \A c \in Calls :
        /\ phase[c] # "idle" => request[c] \in Requests
        /\ phase[c] \in {"loading", "deciding", "signed"} => facts[c] \in PolicyRequest
        /\ phase[c] \in {"deciding", "signed"} => policy[c] \in VaultPolicy

\* The variables of the co-signer keep their types, and the locals of a handler
\* (main.rs co_sign) are set in the phases that read them, for every window and clock.
THEOREM TypeCorrect == Spec => [](TypeOK /\ CallData)
<1>1. Init => TypeOK /\ CallData
  <2> SUFFICES ASSUME Init PROVE TypeOK /\ CallData
    OBVIOUS
  <2>1. TypeOK
    BY DEF Init, TypeOK, EmptyLedger, Phases, Responses
  <2>2. CallData
    BY DEF Init, CallData
  <2>3. QED
    BY <2>1, <2>2
<1>2. TypeOK /\ CallData /\ [Next]_vars => (TypeOK /\ CallData)'
  <2> SUFFICES ASSUME TypeOK, CallData, [Next]_vars
               PROVE  (TypeOK /\ CallData)'
    OBVIOUS
  <2> USE CoSignerAssumption
  <2>1. ASSUME NEW c \in Calls, NEW r \in Requests, Receive(c, r)
        PROVE  (TypeOK /\ CallData)'
    BY <2>1 DEF TypeOK, CallData, Receive, Phases, CoSignRequest
  <2>2. ASSUME NEW c \in Calls, Simulated(c)
        PROVE  (TypeOK /\ CallData)'
    BY <2>2 DEF TypeOK, CallData, Simulated, Phases, CoSignRequest
  <2>3. ASSUME NEW c \in Calls, SimulationFailed(c)
        PROVE  (TypeOK /\ CallData)'
    BY <2>3 DEF TypeOK, CallData, SimulationFailed, Phases, Responses
  <2>4. ASSUME NEW c \in Calls, LoadPolicy(c)
        PROVE  (TypeOK /\ CallData)'
    BY <2>4, VaultPolicyFromMoveObjectType DEF TypeOK, CallData, LoadPolicy, Phases
  <2>5. ASSUME NEW c \in Calls, LoadFallback(c)
        PROVE  (TypeOK /\ CallData)'
    BY <2>5 DEF TypeOK, CallData, LoadFallback, Phases
  <2>6. ASSUME NEW c \in Calls, CoSign(c)
        PROVE  (TypeOK /\ CallData)'
    <3>1. request[c] \in CoSignRequest /\ facts[c] \in PolicyRequest
      BY <2>6 DEF CallData, CoSign
    <3>2. /\ request[c].vaultAddress \in Texts
          /\ facts[c].txDigest \in Digests /\ facts[c].netOutflow \in U64
      BY <3>1 DEF CoSignRequest, PolicyRequest
    <3> DEFINE pruned == Prune(ledger, request[c].vaultAddress, now)
               recorded == RecordApproval(pruned, request[c].vaultAddress,
                             facts[c].txDigest, facts[c].netOutflow, now)
    <3>3. pruned \in [VaultKeys -> SUBSET ApprovedOutflow]
      BY <3>2, PruneType DEF TypeOK
    <3>4. recorded \in [VaultKeys -> SUBSET ApprovedOutflow]
      BY <3>2, <3>3, RecordApprovalType DEF TypeOK
    <3> HIDE DEF pruned, recorded
    <3>5. /\ ledger' \in {pruned, recorded}
          /\ response' \in [Calls -> Responses]
          /\ \E p \in {"signed", "refused"} : phase' = [phase EXCEPT ![c] = p]
      <4> DEFINE prior == OutflowWithinWindow(pruned, request[c].vaultAddress,
                                              facts[c].txDigest)
                 verdict == EvaluatePolicyWithWindowOutflow(policy[c], facts[c], prior)
      <4>1. verdict \in Responses /\ "txBytes is not valid base64" \in Responses
        BY VerdictType DEF Responses
      <4> HIDE DEF prior, verdict
      <4>2. \/ /\ phase' = [phase EXCEPT ![c] = "refused"] /\ ledger' = pruned
               /\ response' = [response EXCEPT ![c] = verdict]
            \/ /\ phase' = [phase EXCEPT ![c] = "refused"] /\ ledger' = pruned
               /\ response' = [response EXCEPT ![c] = "txBytes is not valid base64"]
            \/ /\ phase' = [phase EXCEPT ![c] = "signed"] /\ ledger' = recorded
               /\ response' = [response EXCEPT ![c] = verdict]
        BY <2>6 DEF CoSign, prior, verdict, pruned, recorded
      <4>3. response \in [Calls -> Responses]
        BY DEF TypeOK
      <4>4. \A answer \in Responses : [response EXCEPT ![c] = answer] \in [Calls -> Responses]
        BY <4>3
      <4>5. response' \in [Calls -> Responses]
        BY <4>1, <4>2, <4>4
      <4>6. QED
        BY <4>2, <4>5
    <3>6. phase[c] = "deciding"
      BY <2>6 DEF CoSign
    <3>7. /\ answeredAt' = [answeredAt EXCEPT ![c] = now]
          /\ answeredIn' = [answeredIn EXCEPT ![c] = boot]
          /\ UNCHANGED <<now, boot, policyObject, request, facts, policy, offered, latest>>
      BY <2>6 DEF CoSign
    <3>8. QED
      BY <3>3, <3>4, <3>5, <3>6, <3>7 DEF TypeOK, CallData, Phases
  <2>7. ASSUME NEW p \in PolicyObjects, SetPolicy(p)
        PROVE  (TypeOK /\ CallData)'
    BY <2>7 DEF TypeOK, CallData, SetPolicy
  <2>8. CASE Tick
    BY <2>8 DEF TypeOK, CallData, Tick
  <2>9. CASE ClockStepsBack
    BY <2>9 DEF TypeOK, CallData, ClockStepsBack
  <2>10. CASE Restart
    BY <2>10 DEF TypeOK, CallData, Restart, EmptyLedger, InFlight, Phases
  <2>11. CASE UNCHANGED vars
    BY <2>11 DEF TypeOK, CallData, vars
  <2>12. QED
    BY <2>1, <2>2, <2>3, <2>4, <2>5, <2>6, <2>7, <2>8, <2>9, <2>10, <2>11 DEF Next
<1>3. QED
  BY <1>1, <1>2, PTL DEF Spec
-----------------------------------------------------------------------------
(* The clock never shows more than `latest`, and no answer comes from a run *)
(* of the enclave that is still to come.                                    *)
Bounds ==
    /\ now <= latest
    /\ \A c \in Calls : answeredIn[c] <= boot

\* Every step keeps these bounds: the clock raises `latest`, a restart raises `boot`.
LEMMA BoundsInductive ==
    ASSUME TypeOK, Bounds, [Next]_vars
    PROVE  Bounds'
<1> USE DEF TypeOK, Bounds
<1>1. ASSUME NEW c \in Calls, NEW r \in Requests, Receive(c, r)
      PROVE  Bounds'
  BY <1>1 DEF Receive
<1>2. ASSUME NEW c \in Calls, Simulated(c)
      PROVE  Bounds'
  BY <1>2 DEF Simulated
<1>3. ASSUME NEW c \in Calls, SimulationFailed(c)
      PROVE  Bounds'
  <2>1. /\ answeredIn' = [answeredIn EXCEPT ![c] = boot]
        /\ UNCHANGED <<now, boot, latest>>
    BY <1>3 DEF SimulationFailed
  <2>2. QED
    BY <2>1
<1>4. ASSUME NEW c \in Calls, LoadPolicy(c) \/ LoadFallback(c)
      PROVE  Bounds'
  BY <1>4 DEF LoadPolicy, LoadFallback
<1>5. ASSUME NEW c \in Calls, CoSign(c)
      PROVE  Bounds'
  <2>1. /\ answeredIn' = [answeredIn EXCEPT ![c] = boot]
        /\ UNCHANGED <<now, boot, latest>>
    BY <1>5 DEF CoSign
  <2>2. QED
    BY <2>1
<1>6. ASSUME NEW p \in PolicyObjects, SetPolicy(p)
      PROVE  Bounds'
  BY <1>6 DEF SetPolicy
<1>7. CASE Tick
  BY <1>7 DEF Tick
<1>8. CASE ClockStepsBack
  BY <1>8 DEF ClockStepsBack
<1>9. CASE Restart
  BY <1>9 DEF Restart
<1>10. CASE UNCHANGED vars
  BY <1>10 DEF vars
<1>11. QED
  BY <1>1, <1>2, <1>3, <1>4, <1>5, <1>6, <1>7, <1>8, <1>9, <1>10 DEF Next

(* What a call brought and learned, as far as the ledger is concerned.      *)
SameApproval(c) ==
    /\ request'[c] = request[c] /\ facts'[c] = facts[c]
    /\ answeredAt'[c] = answeredAt[c]

(* A step that leaves the approvals of this run of the enclave alone.       *)
SameApprovals ==
    /\ boot' = boot
    /\ \A c \in Calls : /\ Approved(c)' => Approved(c)
                        /\ Approved(c) => Approved(c)' /\ SameApproval(c)

(* Every step but a decision and a restart is one, and leaves the ledger.   *)
LEMMA OtherSteps ==
    ASSUME TypeOK, [Next]_vars, ~Restart, \A c \in Calls : ~CoSign(c)
    PROVE  SameApprovals /\ ledger' = ledger /\ latest' >= latest
<1> USE DEF TypeOK, SameApprovals, SameApproval, Approved
<1>1. ASSUME NEW c \in Calls, NEW r \in Requests, Receive(c, r)
      PROVE  SameApprovals /\ ledger' = ledger /\ latest' >= latest
  BY <1>1 DEF Receive
<1>2. ASSUME NEW c \in Calls, Simulated(c)
      PROVE  SameApprovals /\ ledger' = ledger /\ latest' >= latest
  BY <1>2 DEF Simulated
<1>3. ASSUME NEW c \in Calls, SimulationFailed(c)
      PROVE  SameApprovals /\ ledger' = ledger /\ latest' >= latest
  <2>1. /\ phase[c] = "simulating"
        /\ phase' = [phase EXCEPT ![c] = "refused"]
        /\ answeredAt' = [answeredAt EXCEPT ![c] = now]
        /\ answeredIn' = [answeredIn EXCEPT ![c] = boot]
        /\ UNCHANGED <<boot, ledger, request, facts, latest>>
    BY <1>3 DEF SimulationFailed
  <2>2. QED
    BY <2>1
<1>4. ASSUME NEW c \in Calls, LoadPolicy(c) \/ LoadFallback(c)
      PROVE  SameApprovals /\ ledger' = ledger /\ latest' >= latest
  BY <1>4 DEF LoadPolicy, LoadFallback
<1>5. ASSUME NEW p \in PolicyObjects, SetPolicy(p)
      PROVE  SameApprovals /\ ledger' = ledger /\ latest' >= latest
  BY <1>5 DEF SetPolicy
<1>6. CASE Tick
  BY <1>6 DEF Tick
<1>7. CASE ClockStepsBack
  BY <1>7 DEF ClockStepsBack
<1>8. CASE UNCHANGED vars
  BY <1>8 DEF vars
<1>9. QED
  BY <1>1, <1>2, <1>3, <1>4, <1>5, <1>6, <1>7, <1>8 DEF Next

(* A decision: the call's vault is pruned, and a signature adds the call to *)
(* the approvals and its entry to the ledger.                               *)
EntryOf(c) ==
    [txDigest |-> facts[c].txDigest, netOutflow |-> facts[c].netOutflow,
     approvedAt |-> answeredAt[c]]

\* What CoSign does, in these terms.
LEMMA CoSignStep ==
    ASSUME TypeOK, CallData, NEW c \in Calls, CoSign(c)
    PROVE  /\ request[c] \in CoSignRequest /\ facts[c] \in PolicyRequest
           /\ phase[c] = "deciding"
           /\ UNCHANGED <<now, boot, latest, request, facts>>
           /\ answeredAt' = [answeredAt EXCEPT ![c] = now]
           /\ answeredIn' = [answeredIn EXCEPT ![c] = boot]
           /\ \/ /\ phase' = [phase EXCEPT ![c] = "refused"]
                 /\ ledger' = Prune(ledger, request[c].vaultAddress, now)
              \/ /\ phase' = [phase EXCEPT ![c] = "signed"]
                 /\ ledger' = RecordApproval(
                                 Prune(ledger, request[c].vaultAddress, now),
                                 request[c].vaultAddress, facts[c].txDigest,
                                 facts[c].netOutflow, now)
BY CoSignerAssumption DEF CoSign, CallData

(* Pruning a second time at the same instant changes nothing.               *)
LEMMA PruneTwice ==
    ASSUME NEW l \in [VaultKeys -> SUBSET ApprovedOutflow], NEW v \in Texts,
           NEW t \in Nat
    PROVE  Prune(Prune(l, v, t), v, t) = Prune(l, v, t)
<1>1. \A E : Retained(Retained(E, t), t) = Retained(E, t)
  BY DEF Retained
<1>2. QED
  BY <1>1, VaultKeyType DEF Prune

(* What a decision does to a ledger: entries only leave by age; with an     *)
(* approval of a positive outflow, the digest is in the ledger afterwards,  *)
(* as an old entry or as the only new one.                                  *)
LEMMA PruneEffect ==
    ASSUME NEW l \in [VaultKeys -> SUBSET ApprovedOutflow], NEW v \in Texts,
           NEW t \in Nat, NEW key \in VaultKeys
    PROVE  /\ Prune(l, v, t)[key] \subseteq l[key]
           /\ \A e \in l[key] : e \in Prune(l, v, t)[key] \/ t - e.approvedAt >= Window
<1>1. \A e \in l[key] : t - e.approvedAt < Window \/ t - e.approvedAt >= Window
  BY WindowAssumption DEF ApprovedOutflow
<1>2. Prune(l, v, t)[key] = IF key = VaultKey(v) THEN Retained(l[key], t) ELSE l[key]
  BY PruneType
<1>3. \A e : e \in Retained(l[key], t) <=> e \in l[key] /\ t - e.approvedAt < Window
  BY DEF Retained
<1>4. QED
  BY <1>1, <1>2, <1>3

\* Recording adds at most the one entry, and only if the digest is not there yet.
LEMMA RecordEffect ==
    ASSUME NEW l \in [VaultKeys -> SUBSET ApprovedOutflow], NEW v \in Texts,
           NEW d \in Digests, NEW o \in U64, NEW t \in Nat, NEW key \in VaultKeys
    PROVE  LET pruned   == Prune(l, v, t)
               recorded == RecordApproval(pruned, v, d, o, t)
               entry    == [txDigest |-> d, netOutflow |-> o, approvedAt |-> t]
           IN  /\ pruned[key] \subseteq recorded[key]
               /\ \A e \in recorded[key] \ pruned[key] :
                    /\ e = entry /\ key = VaultKey(v) /\ o > 0
                    /\ \A f \in pruned[key] : f.txDigest # d
               /\ o > 0 /\ key = VaultKey(v)
                    => \E e \in recorded[key] : e.txDigest = d
<1> DEFINE pruned   == Prune(l, v, t)
           recorded == RecordApproval(pruned, v, d, o, t)
           entry    == [txDigest |-> d, netOutflow |-> o, approvedAt |-> t]
<1>1. pruned \in [VaultKeys -> SUBSET ApprovedOutflow] /\ Prune(pruned, v, t) = pruned
  BY PruneType, PruneTwice
<1>2. recorded = IF o = 0 THEN pruned
                 ELSE IF \E e \in pruned[VaultKey(v)] : e.txDigest = d THEN pruned
                 ELSE [pruned EXCEPT ![VaultKey(v)] = @ \cup {entry}]
  BY <1>1 DEF RecordApproval
<1>3. VaultKey(v) \in VaultKeys /\ (o # 0 => o > 0) /\ entry.txDigest = d
  BY VaultKeyType DEF U64
<1> HIDE DEF pruned, recorded, entry
<1>4. /\ pruned[key] \subseteq recorded[key]
      /\ \A e \in recorded[key] \ pruned[key] :
            /\ e = entry /\ key = VaultKey(v) /\ o > 0
            /\ \A f \in pruned[key] : f.txDigest # d
      /\ o > 0 /\ key = VaultKey(v) => \E e \in recorded[key] : e.txDigest = d
  BY <1>1, <1>2, <1>3
<1>5. QED
  BY <1>4 DEF pruned, recorded, entry
-----------------------------------------------------------------------------
(* A step that leaves the approvals alone keeps what is known of the ledger.*)
LEMMA SameApprovalsKeep ==
    ASSUME TypeOK, LedgerSound, LedgerComplete,
           SameApprovals, ledger' = ledger, latest \in Nat, latest' \in Nat,
           latest' >= latest
    PROVE  LedgerSound' /\ LedgerComplete'
<1>0. ASSUME NEW c \in Calls
      PROVE  /\ Approved(c)' => Approved(c)
             /\ Approved(c) => /\ Approved(c)' /\ SameApproval(c)
                               /\ Key(c)' = Key(c) /\ Vault(c)' = Vault(c)
                               /\ EntryOf(c)' = EntryOf(c)
  <2>1. /\ Approved(c)' => Approved(c)
        /\ Approved(c) => Approved(c)' /\ SameApproval(c)
    BY DEF SameApprovals
  <2>2. SameApproval(c) => /\ Key(c)' = Key(c) /\ Vault(c)' = Vault(c)
                           /\ EntryOf(c)' = EntryOf(c)
    BY DEF SameApproval, Key, Vault, EntryOf
  <2>3. QED
    BY <2>1, <2>2
<1>1. LedgerSound'
  <2> SUFFICES ASSUME NEW key \in VaultKeys, NEW e \in ledger'[key]
               PROVE  /\ \E c \in Calls : Approved(c)' /\ Vault(c)' = key.who /\ e = EntryOf(c)'
                      /\ \A f \in ledger'[key] : f.txDigest = e.txDigest => f = e
    BY DEF LedgerSound, EntryOf
  <2>1. PICK c \in Calls : Approved(c) /\ Vault(c) = key.who /\ e = EntryOf(c)
    BY DEF LedgerSound, EntryOf
  <2>2. Approved(c)' /\ Vault(c)' = key.who /\ e = EntryOf(c)'
    BY <1>0, <2>1
  <2>3. QED
    BY <2>2 DEF LedgerSound
<1>2. ASSUME NEW c \in Calls, Approved(c)'
      PROVE  \/ \E e \in ledger'[Key(c)'] : e.txDigest = facts'[c].txDigest
             \/ \E d \in Calls : /\ Approved(d)' /\ SameTransaction(c, d)'
                                 /\ latest' - answeredAt'[d] >= Window
  <2>1. Approved(c) /\ SameApproval(c) /\ Key(c)' = Key(c)
    BY <1>0, <1>2
  <2>2. CASE \E e \in ledger[Key(c)] : e.txDigest = facts[c].txDigest
    BY <2>1, <2>2 DEF SameApproval
  <2>3. CASE \E d \in Calls : /\ Approved(d) /\ SameTransaction(c, d)
                              /\ latest - answeredAt[d] >= Window
    <3>1. PICK d \in Calls : /\ Approved(d) /\ SameTransaction(c, d)
                             /\ latest - answeredAt[d] >= Window
      BY <2>3
    <3>2. Approved(d)' /\ SameTransaction(c, d)' /\ answeredAt'[d] = answeredAt[d]
      BY <1>0, <2>1, <3>1 DEF SameTransaction, SameApproval
    <3>3. latest' - answeredAt[d] >= Window
      BY <3>1, WindowAssumption DEF TypeOK
    <3>4. QED
      BY <3>2, <3>3
  <2>4. QED
    BY <2>1, <2>2, <2>3 DEF LedgerComplete
<1>3. LedgerComplete'
  BY <1>2 DEF LedgerComplete
<1>4. QED
  BY <1>1, <1>3

(* The other approvals, and their entries, are the same after a decision.   *)
LEMMA CoSignKeepsOthers ==
    ASSUME TypeOK, CallData, NEW c \in Calls, CoSign(c), NEW d \in Calls
    PROVE  /\ Approved(d) => Approved(d)'
           /\ Approved(d)' => Approved(d) \/ d = c
           /\ Approved(d) => d # c /\ answeredAt'[d] = answeredAt[d] /\ EntryOf(d)' = EntryOf(d)
           /\ facts'[d] = facts[d] /\ Vault(d)' = Vault(d) /\ Key(d)' = Key(d)
<1>1. /\ phase[c] = "deciding" /\ UNCHANGED <<boot, request, facts>>
      /\ answeredAt' = [answeredAt EXCEPT ![c] = now]
      /\ answeredIn' = [answeredIn EXCEPT ![c] = boot]
      /\ \E p \in {"refused", "signed"} : phase' = [phase EXCEPT ![c] = p]
  BY CoSignStep
<1>2. Approved(d) => d # c
  BY <1>1 DEF Approved
<1>3. d # c => /\ phase'[d] = phase[d] /\ answeredIn'[d] = answeredIn[d]
               /\ answeredAt'[d] = answeredAt[d]
  BY <1>1 DEF TypeOK
<1>4. QED
  BY <1>1, <1>2, <1>3 DEF Approved, Vault, Key, EntryOf

\* A decision keeps the ledger sound.
LEMMA CoSignSound ==
    ASSUME TypeOK, CallData, LedgerSound, NEW c \in Calls, CoSign(c)
    PROVE  LedgerSound'
<1> DEFINE v        == request[c].vaultAddress
           pruned   == Prune(ledger, v, now)
           recorded == RecordApproval(pruned, v, facts[c].txDigest,
                                      facts[c].netOutflow, now)
<1>1. /\ v \in Texts /\ facts[c].txDigest \in Digests /\ facts[c].netOutflow \in U64
      /\ now \in Nat /\ ledger \in [VaultKeys -> SUBSET ApprovedOutflow]
  BY CoSignStep DEF CoSignRequest, PolicyRequest, TypeOK
<1>2. SUFFICES ASSUME NEW key \in VaultKeys, NEW e \in ledger'[key]
               PROVE  /\ \E d \in Calls : Approved(d)' /\ Vault(d)' = key.who /\ e = EntryOf(d)'
                      /\ \A f \in ledger'[key] : f.txDigest = e.txDigest => f = e
  BY DEF LedgerSound, EntryOf
<1>3. pruned[key] \subseteq ledger[key]
  BY <1>1, PruneEffect
<1>4. ASSUME NEW f \in pruned[key]
      PROVE  /\ \E d \in Calls : Approved(d)' /\ Vault(d)' = key.who /\ f = EntryOf(d)'
             /\ \A g \in pruned[key] : g.txDigest = f.txDigest => g = f
  <2>1. PICK d \in Calls : Approved(d) /\ Vault(d) = key.who /\ f = EntryOf(d)
    BY <1>3, <1>4 DEF LedgerSound, EntryOf
  <2>2. Approved(d)' /\ Vault(d)' = key.who /\ f = EntryOf(d)'
    BY <2>1, CoSignKeepsOthers
  <2>3. QED
    BY <2>2, <1>3, <1>4 DEF LedgerSound
<1>5. CASE ledger' = pruned
  BY <1>2, <1>4, <1>5
<1>6. CASE phase' = [phase EXCEPT ![c] = "signed"] /\ ledger' = recorded
  <2> DEFINE entry == [txDigest |-> facts[c].txDigest, netOutflow |-> facts[c].netOutflow,
                       approvedAt |-> now]
  <2>1. \A g \in recorded[key] \ pruned[key] :
          /\ g = entry /\ key = VaultKey(v) /\ facts[c].netOutflow > 0
          /\ \A f \in pruned[key] : f.txDigest # facts[c].txDigest
    BY <1>1, RecordEffect
  <2>2. EntryOf(c)' = entry /\ Vault(c)' = VaultKey(v).who /\ entry.txDigest = facts[c].txDigest
    BY CoSignStep DEF EntryOf, Vault, TypeOK, VaultKey, NormalizeAddress, Texts, CoSignRequest
  <2>3. facts[c].netOutflow > 0 => Approved(c)'
    BY <1>6, CoSignStep DEF Approved, TypeOK
  <2> HIDE DEF entry, recorded, pruned, v
  <2>4. CASE e \in pruned[key]
    <3>1. \A g \in ledger'[key] : g.txDigest = e.txDigest => g \in pruned[key]
      BY <1>6, <2>1, <2>2, <2>4
    <3>2. QED
      BY <1>4, <2>4, <3>1
  <2>5. CASE e \notin pruned[key]
    <3>1. e = entry /\ key = VaultKey(v) /\ Approved(c)'
      BY <1>2, <1>6, <2>1, <2>3, <2>5
    <3>2. \A g \in ledger'[key] : g.txDigest = e.txDigest => g = e
      BY <1>2, <1>6, <2>1, <2>2, <2>5, <3>1
    <3>3. Approved(c)' /\ Vault(c)' = key.who /\ e = EntryOf(c)'
      BY <2>2, <3>1
    <3>4. QED
      BY <3>2, <3>3
  <2>6. QED
    BY <2>4, <2>5
<1>7. QED
  BY <1>5, <1>6, CoSignStep

\* A decision keeps the ledger complete.
LEMMA CoSignComplete ==
    ASSUME TypeOK, CallData, Bounds, LedgerSound, LedgerComplete,
           NEW c \in Calls, CoSign(c)
    PROVE  LedgerComplete'
<1> DEFINE v        == request[c].vaultAddress
           pruned   == Prune(ledger, v, now)
           recorded == RecordApproval(pruned, v, facts[c].txDigest,
                                      facts[c].netOutflow, now)
<1>1. /\ v \in Texts /\ facts[c].txDigest \in Digests /\ facts[c].netOutflow \in U64
      /\ now \in Nat /\ latest \in Nat /\ ledger \in [VaultKeys -> SUBSET ApprovedOutflow]
  BY CoSignStep DEF CoSignRequest, PolicyRequest, TypeOK
<1>2. \A key \in VaultKeys :
        /\ pruned[key] \subseteq ledger'[key]
        /\ \A e \in ledger[key] : e \in pruned[key] \/ now - e.approvedAt >= Window
  BY <1>1, PruneEffect, RecordEffect, CoSignStep
<1>3. SUFFICES ASSUME NEW a \in Calls, Approved(a)'
               PROVE  \/ \E e \in ledger'[Key(a)'] : e.txDigest = facts'[a].txDigest
                      \/ \E d \in Calls : /\ Approved(d)' /\ SameTransaction(a, d)'
                                          /\ latest' - answeredAt'[d] >= Window
  BY DEF LedgerComplete
<1>4. facts'[a] = facts[a] /\ Vault(a)' = Vault(a) /\ Key(a)' = Key(a) /\ latest' = latest
  BY CoSignKeepsOthers, CoSignStep
<1>5. request[a] \in CoSignRequest
  BY <1>3, CoSignStep, CoSignerAssumption DEF CallData, Approved, TypeOK
<1>6. Key(a) \in VaultKeys /\ Key(a).who = Vault(a)
  BY <1>5, VaultKeyType DEF Key, Vault, CoSignRequest, VaultKey, NormalizeAddress, Texts
<1>7. ASSUME NEW d \in Calls, Approved(d), SameTransaction(a, d),
             latest - answeredAt[d] >= Window
      PROVE  /\ Approved(d)' /\ SameTransaction(a, d)'
             /\ latest' - answeredAt'[d] >= Window
  BY <1>4, <1>7, CoSignKeepsOthers DEF SameTransaction
<1>8. CASE Approved(a)
  <2>1. CASE \E e \in ledger[Key(a)] : e.txDigest = facts[a].txDigest
    <3>1. PICK e \in ledger[Key(a)] : e.txDigest = facts[a].txDigest
      BY <2>1
    <3>2. CASE e \in pruned[Key(a)]
      BY <1>2, <1>4, <1>6, <3>1, <3>2
    <3>3. CASE now - e.approvedAt >= Window
      <4>1. PICK d \in Calls : Approved(d) /\ Vault(d) = Key(a).who /\ e = EntryOf(d)
        BY <1>6, <3>1 DEF LedgerSound, EntryOf
      <4>2. SameTransaction(a, d) /\ e.approvedAt = answeredAt[d]
        BY <1>6, <3>1, <4>1 DEF SameTransaction, EntryOf
      <4>3. latest - answeredAt[d] >= Window
        BY <1>1, <3>3, <4>2, WindowAssumption DEF Bounds, TypeOK
      <4>4. QED
        BY <1>7, <4>1, <4>2, <4>3
    <3>4. QED
      BY <1>2, <1>6, <3>1, <3>2, <3>3
  <2>2. CASE \E d \in Calls : /\ Approved(d) /\ SameTransaction(a, d)
                              /\ latest - answeredAt[d] >= Window
    BY <1>7, <2>2
  <2>3. QED
    BY <1>8, <2>1, <2>2 DEF LedgerComplete
<1>9. CASE ~Approved(a)
  <2>1. a = c
    BY <1>3, <1>9, CoSignKeepsOthers
  <2>2. ledger' = recorded /\ facts[c].netOutflow > 0
    BY <1>3, <2>1, CoSignStep DEF Approved, TypeOK
  <2>3. \E e \in recorded[VaultKey(v)] : e.txDigest = facts[c].txDigest
    BY <1>1, <2>2, RecordEffect, VaultKeyType
  <2>4. QED
    BY <1>4, <2>1, <2>2, <2>3 DEF Key
<1>10. QED
  BY <1>8, <1>9

(* A restart empties the ledger and there are no approvals of the new run.  *)
LEMMA RestartKeeps ==
    ASSUME TypeOK, Bounds, Restart
    PROVE  LedgerSound' /\ LedgerComplete'
<1>1. ledger' = EmptyLedger /\ boot' = boot + 1 /\ answeredIn' = answeredIn
  BY DEF Restart
<1>2. \A c \in Calls : ~Approved(c)'
  BY <1>1 DEF Approved, Bounds, TypeOK
<1>3. QED
  BY <1>1, <1>2 DEF LedgerSound, LedgerComplete, EmptyLedger

(* Whatever the requests, the interleaving of the calls, the clock and the  *)
(* restarts: the ledger holds exactly what was approved, one entry to a     *)
(* digest, until it ages out.                                               *)
THEOREM LedgerFaithful == Spec => [](LedgerSound /\ LedgerComplete)
<1>1. Init => Bounds /\ LedgerSound /\ LedgerComplete
  <2> SUFFICES ASSUME Init
               PROVE  Bounds /\ LedgerSound /\ LedgerComplete
    OBVIOUS
  <2>1. \A c \in Calls : phase[c] = "idle" /\ answeredAt[c] = 0 /\ answeredIn[c] = 0
    BY DEF Init
  <2>2. \A c \in Calls : ~Approved(c)
    BY <2>1 DEF Approved
  <2>3. \A key \in VaultKeys : ledger[key] = {}
    BY DEF Init, EmptyLedger
  <2>4. Bounds
    <3>1. now = 0 /\ latest = 0 /\ boot = 0
      BY DEF Init
    <3>2. QED
      BY <2>1, <3>1 DEF Bounds
  <2>5. QED
    BY <2>2, <2>3, <2>4 DEF LedgerSound, LedgerComplete
<1>2. /\ TypeOK /\ CallData /\ TypeOK' /\ Bounds /\ LedgerSound /\ LedgerComplete
      /\ [Next]_vars
      => (Bounds /\ LedgerSound /\ LedgerComplete)'
  <2> SUFFICES ASSUME TypeOK, CallData, TypeOK', Bounds, LedgerSound, LedgerComplete,
                      [Next]_vars
               PROVE  (Bounds /\ LedgerSound /\ LedgerComplete)'
    OBVIOUS
  <2>1. Bounds'
    BY BoundsInductive
  <2>2. CASE \E c \in Calls : CoSign(c)
    BY <2>1, <2>2, CoSignSound, CoSignComplete
  <2>3. CASE Restart
    BY <2>1, <2>3, RestartKeeps
  <2>4. CASE ~Restart /\ \A c \in Calls : ~CoSign(c)
    <3>1. SameApprovals /\ ledger' = ledger /\ latest' >= latest
      BY <2>4, OtherSteps
    <3>2. latest \in Nat /\ latest' \in Nat
      BY DEF TypeOK
    <3>3. QED
      BY <2>1, <3>1, <3>2, SameApprovalsKeep
  <2>5. QED
    BY <2>2, <2>3, <2>4
<1>3. QED
  BY <1>1, <1>2, TypeCorrect, PTL DEF Spec
-----------------------------------------------------------------------------
(* What each entry of a set of approvals adds to the window.                *)
Amounts(S) == [e \in S |-> e.netOutflow]

\* The sum of the outflows of a finite set, in the order MapThenSumSet picks them.
LEMMA SumIs ==
    ASSUME NEW S, IsFiniteSet(S), Amounts(S) \in [S -> Nat],
           NEW g, IsSum(g, Amounts(S), S)
    PROVE  MapThenSumSet(LAMBDA e : e.netOutflow, S) = g[S]
<1> DEFINE Eq(h) == h = [A \in SUBSET S |->
                            IF A = {} THEN 0
                            ELSE (CHOOSE e \in A : TRUE).netOutflow
                                   + h[A \ {CHOOSE e \in A : TRUE}]]
           sum == CHOOSE h : Eq(h)
<1>1. MapThenSumSet(LAMBDA e : e.netOutflow, S) = sum[S]
  BY DEF MapThenSumSet, MapThenFoldSet
<1>2. \A A \in SUBSET S : A # {} => (CHOOSE e \in A : TRUE) \in A
  OBVIOUS
<1>3. Eq(g)
  <2>1. ASSUME NEW A \in SUBSET S
        PROVE  g[A] = IF A = {} THEN 0
                      ELSE (CHOOSE e \in A : TRUE).netOutflow + g[A \ {CHOOSE e \in A : TRUE}]
    BY <1>2 DEF IsSum, Amounts
  <2>2. g = [A \in SUBSET S |-> g[A]]
    BY DEF IsSum
  <2> QED
    BY <2>1, <2>2
<1>4. Eq(sum)
  <2> HIDE DEF Eq
  <2> QED
    BY <1>3
<1>5. ASSUME NEW A \in SUBSET S
      PROVE  sum[A] = IF A = {} THEN 0
                      ELSE (CHOOSE e \in A : TRUE).netOutflow
                             + sum[A \ {CHOOSE e \in A : TRUE}]
  <2> HIDE DEF sum
  <2> DEFINE F == [B \in SUBSET S |->
                      IF B = {} THEN 0
                      ELSE (CHOOSE e \in B : TRUE).netOutflow
                             + sum[B \ {CHOOSE e \in B : TRUE}]]
  <2>1. sum = F
    BY <1>4
  <2>2. F[A] = IF A = {} THEN 0
               ELSE (CHOOSE e \in A : TRUE).netOutflow
                      + sum[A \ {CHOOSE e \in A : TRUE}]
    OBVIOUS
  <2> HIDE DEF F
  <2> QED
    BY <2>1, <2>2, Zenon
<1> HIDE DEF sum
<1>6. ASSUME NEW A \in SUBSET S, A # {}
      PROVE  \E x \in A : sum[A] = Amounts(S)[x] + sum[A \ {x}]
  <2> DEFINE c == CHOOSE e \in A : TRUE
  <2>1. c \in A /\ sum[A] = c.netOutflow + sum[A \ {c}]
    BY <1>2, <1>5, <1>6
  <2> HIDE DEF c
  <2> QED
    BY <2>1 DEF Amounts
<1>7. sum[{}] = 0
  BY <1>5
<1>8. sum[S] = g[S]
  <2>1. AddsUp(sum, Amounts(S), S)
    BY <1>6, <1>7 DEF AddsUp
  <2> QED
    BY <2>1, SumInSomeOrder
<1> QED
  BY <1>1, <1>8

\* Saturating at each addition is saturating the sum once.
LEMMA SaturatedSum ==
    ASSUME NEW S, IsFiniteSet(S), Amounts(S) \in [S -> Nat],
           NEW g, IsSum(g, Amounts(S), S)
    PROVE  MapThenFoldSet(SaturatingAdd, 0, LAMBDA e : e.netOutflow,
                          LAMBDA s : CHOOSE e \in s : TRUE, S)
             = IF g[S] > U64Max THEN U64Max ELSE g[S]
<1> DEFINE Eq(h) == h = [A \in SUBSET S |->
                            IF A = {} THEN 0
                            ELSE SaturatingAdd((CHOOSE e \in A : TRUE).netOutflow,
                                               h[A \ {CHOOSE e \in A : TRUE}])]
           sum == CHOOSE h : Eq(h)
           sat == [A \in SUBSET S |-> IF g[A] > U64Max THEN U64Max ELSE g[A]]
<1>1. MapThenFoldSet(SaturatingAdd, 0, LAMBDA e : e.netOutflow,
                     LAMBDA s : CHOOSE e \in s : TRUE, S) = sum[S]
  BY DEF MapThenFoldSet
<1>2. \A A \in SUBSET S : A # {} => (CHOOSE e \in A : TRUE) \in A
  OBVIOUS
<1>3. Eq(sat)
  <2>1. ASSUME NEW A \in SUBSET S
        PROVE  sat[A] = IF A = {} THEN 0
                        ELSE SaturatingAdd((CHOOSE e \in A : TRUE).netOutflow,
                                           sat[A \ {CHOOSE e \in A : TRUE}])
    <3>1. CASE A = {}
      BY <3>1, U64Assumption DEF IsSum
    <3>2. CASE A # {}
      <4> DEFINE c == CHOOSE e \in A : TRUE
                 n == Amounts(S)[c]
      <4>1. c \in A /\ c \in S
        BY <1>2, <3>2
      <4>2. n = c.netOutflow /\ n \in Nat
        BY <4>1 DEF Amounts
      <4> HIDE DEF c
      <4>3. g[A] = n + g[A \ {c}] /\ g[A \ {c}] \in Nat /\ g[A] \in Nat
        BY <4>1 DEF IsSum
      <4>4. A \ {c} \in SUBSET S
        OBVIOUS
      <4>5. sat[A] = SaturatingAdd(c.netOutflow, sat[A \ {c}])
        <5> HIDE DEF n
        <5> QED
          BY <4>2, <4>3, <4>4, U64Assumption DEF SaturatingAdd
      <4> QED
        BY <3>2, <4>5 DEF c
    <3> QED
      BY <3>1, <3>2
  <2> QED
    <3> DEFINE F == [A \in SUBSET S |->
                            IF A = {} THEN 0
                            ELSE SaturatingAdd((CHOOSE e \in A : TRUE).netOutflow,
                                               sat[A \ {CHOOSE e \in A : TRUE}])]
    <3>1. sat = [A \in SUBSET S |-> sat[A]]
      OBVIOUS
    <3> HIDE DEF sat
    <3>2. sat = F
      BY <2>1, <3>1
    <3> QED
      BY <3>2
<1>4. Eq(sum)
  <2> HIDE DEF Eq
  <2> QED
    BY <1>3
<1> DEFINE T == {A \in SUBSET S : sum[A] = sat[A]}
<1>5. ASSUME NEW A \in SUBSET S, \A x \in A : A \ {x} \in T
      PROVE  A \in T
  <2>0. ASSUME NEW h, Eq(h)
        PROVE  h[A] = IF A = {} THEN 0
                      ELSE SaturatingAdd((CHOOSE e \in A : TRUE).netOutflow,
                                         h[A \ {CHOOSE e \in A : TRUE}])
    <3> DEFINE F == [B \in SUBSET S |->
                            IF B = {} THEN 0
                            ELSE SaturatingAdd((CHOOSE e \in B : TRUE).netOutflow,
                                               h[B \ {CHOOSE e \in B : TRUE}])]
    <3>1. h = F
      BY <2>0
    <3>2. F[A] = IF A = {} THEN 0
                 ELSE SaturatingAdd((CHOOSE e \in A : TRUE).netOutflow,
                                    h[A \ {CHOOSE e \in A : TRUE}])
      OBVIOUS
    <3> HIDE DEF F
    <3> QED
      BY <3>1, <3>2, Zenon
  <2>1. A # {} => sum[A \ {CHOOSE e \in A : TRUE}] = sat[A \ {CHOOSE e \in A : TRUE}]
    BY <1>2, <1>5
  <2> HIDE DEF sum, sat, Eq
  <2>2. sum[A] = sat[A]
    BY <1>3, <1>4, <2>0, <2>1
  <2> QED
    BY <2>2
<1>6. S \in T
  <2> HIDE DEF T
  <2> QED
    BY <1>5, FiniteSetInduction
<1> QED
  BY <1>1, <1>6


Counted(S) == IsFiniteSet(S) /\ \A e \in S : e.netOutflow \in Nat

\* One function gives the outflow of each part of a finite set.
LEMMA SpentIsSum ==
    ASSUME NEW S, Counted(S)
    PROVE  /\ Amounts(S) \in [S -> Nat]
           /\ \E g : /\ IsSum(g, Amounts(S), S)
                     /\ \A B \in SUBSET S : Counted(B) /\ TotalOutflow(B) = g[B]
<1>1. IsFiniteSet(S) /\ Amounts(S) \in [S -> Nat]
  BY DEF Counted, Amounts
<1>2. PICK g : IsSum(g, Amounts(S), S)
  BY <1>1, SumExists
<1>3. ASSUME NEW B \in SUBSET S
      PROVE  Counted(B) /\ TotalOutflow(B) = g[B]
  <2> DEFINE h == [A \in SUBSET B |-> g[A]]
  <2>1. IsFiniteSet(B) /\ Amounts(B) \in [B -> Nat]
    BY <1>1, FS_Subset DEF Counted, Amounts
  <2>2. IsSum(h, Amounts(B), B)
    <3>1. h \in [SUBSET B -> Nat] /\ h[{}] = 0
      BY <1>2 DEF IsSum
    <3>2. ASSUME NEW A \in SUBSET B, NEW x \in A
          PROVE  h[A] = Amounts(B)[x] + h[A \ {x}]
      <4>1. g[A] = Amounts(S)[x] + g[A \ {x}]
        BY <1>2 DEF IsSum
      <4>2. Amounts(S)[x] = Amounts(B)[x]
        BY DEF Amounts
      <4> QED
        BY <4>1, <4>2
    <3> QED
      BY <3>1, <3>2 DEF IsSum
  <2>3. h[B] = g[B]
    OBVIOUS
  <2> HIDE DEF h
  <2>4. TotalOutflow(B) = h[B]
    BY <2>1, <2>2, SumIs DEF TotalOutflow
  <2>5. Counted(B)
    BY <2>1 DEF Counted
  <2> QED
    BY <2>3, <2>4, <2>5
<1> QED
  BY <1>1, <1>2, <1>3

\* What a set of approvals spends: an element more adds its outflow, a part spends no more.
LEMMA SpentParts ==
    ASSUME NEW S, Counted(S)
    PROVE  /\ TotalOutflow(S) \in Nat
           /\ S = {} => TotalOutflow(S) = 0
           /\ \A e \in S : TotalOutflow(S) = e.netOutflow + TotalOutflow(S \ {e})
           /\ \A B \in SUBSET S : Counted(B) /\ TotalOutflow(B) \in Nat /\ TotalOutflow(B) <= TotalOutflow(S)
<1>1. PICK g : /\ IsSum(g, Amounts(S), S)
               /\ \A B \in SUBSET S : Counted(B) /\ TotalOutflow(B) = g[B]
  BY SpentIsSum
<1>2. /\ \A B \in SUBSET S : TotalOutflow(B) \in Nat
      /\ S = {} => TotalOutflow(S) = 0
  BY <1>1 DEF IsSum
<1>3. \A A \in SUBSET S : \A e \in A : TotalOutflow(A) = e.netOutflow + TotalOutflow(A \ {e})
  <2> TAKE A \in SUBSET S
  <2> TAKE e \in A
  <2>1. g[A] = Amounts(S)[e] + g[A \ {e}]
    BY <1>1 DEF IsSum
  <2> QED
    BY <1>1, <2>1 DEF Amounts
<1> DEFINE T == {A \in SUBSET S : \A B \in SUBSET A : TotalOutflow(B) <= TotalOutflow(A)}
<1>4. ASSUME NEW A \in SUBSET S, \A x \in A : A \ {x} \in T
      PROVE  A \in T
  <2> SUFFICES ASSUME NEW B \in SUBSET A, B # A
               PROVE  TotalOutflow(B) <= TotalOutflow(A)
    BY <1>2
  <2>1. PICK x \in A : x \notin B
    OBVIOUS
  <2>2. TotalOutflow(B) <= TotalOutflow(A \ {x})
    BY <1>4, <2>1
  <2>3. TotalOutflow(A) = x.netOutflow + TotalOutflow(A \ {x}) /\ x.netOutflow \in Nat
    BY <1>3 DEF Counted
  <2>4. TotalOutflow(B) \in Nat /\ TotalOutflow(A \ {x}) \in Nat /\ TotalOutflow(A) \in Nat
    BY <1>2
  <2> QED
    BY <2>2, <2>3, <2>4
<1>5. S \in T
  <2>1. IsFiniteSet(S)
    BY DEF Counted
  <2>2. \A A \in SUBSET S : A \in T
    <3> HIDE DEF T
    <3> QED
      BY <1>4, <2>1, FiniteSetInduction, Zenon
  <2> QED
    BY <2>2
<1> QED
  BY <1>1, <1>2, <1>3, <1>5

\* The saturating sum of ledger.rs is the sum, up to the largest u64.
LEMMA SpentSaturated ==
    ASSUME NEW S, Counted(S)
    PROVE  MapThenFoldSet(SaturatingAdd, 0, LAMBDA e : e.netOutflow,
                          LAMBDA s : CHOOSE e \in s : TRUE, S)
             = IF TotalOutflow(S) > U64Max THEN U64Max ELSE TotalOutflow(S)
<1>1. PICK g : /\ Amounts(S) \in [S -> Nat] /\ IsSum(g, Amounts(S), S)
               /\ TotalOutflow(S) = g[S]
  BY SpentIsSum
<1>2. IsFiniteSet(S)
  BY DEF Counted
<1> QED
  BY <1>1, <1>2, SaturatedSum

\* If each element of S has one of R of its own, of the same outflow, S spends no more.
LEMMA SpentInjection ==
    ASSUME NEW S, NEW R, Counted(R), NEW m \in [S -> R],
           \A x, y \in S : m[x] = m[y] => x = y,
           \A x \in S : x.netOutflow = m[x].netOutflow
    PROVE  Counted(S) /\ TotalOutflow(S) <= TotalOutflow(R)
<1>1. m \in Injection(S, R)
  BY DEF Injection, IsInjective
<1>2. Counted(S)
  BY <1>1, FS_Injection DEF Counted
<1>3. PICK g : IsSum(g, Amounts(S), S) /\ TotalOutflow(S) = g[S]
  BY <1>2, SpentIsSum
<1>4. PICK h : IsSum(h, Amounts(R), R) /\ TotalOutflow(R) = h[R]
  BY SpentIsSum
<1>5. /\ Amounts(S) \in [S -> Nat] /\ Amounts(R) \in [R -> Nat] /\ IsFiniteSet(S)
      /\ \A x \in S : Amounts(S)[x] = Amounts(R)[m[x]]
  BY <1>2 DEF Amounts, Counted
<1>6. g[S] <= h[R]
  BY <1>3, <1>4, <1>5, SumInjection
<1> QED
  BY <1>2, <1>3, <1>4, <1>6
-----------------------------------------------------------------------------
(* The facts a call may be judged by: those of a dry run, or the caller's.  *)
FactsOf(r) == (r.dryRuns \cup {r.policyRequest}) \ {None}

(* A call is judged by facts of its request, and the ledger stays finite.   *)
KnownFacts ==
    \A c \in Calls : phase[c] \in {"loading", "deciding", "signed"} =>
        request[c] \in Requests /\ facts[c] \in FactsOf(request[c])

FiniteLedger == \A key \in VaultKeys : IsFiniteSet(ledger[key])

\* What pruning and recording leave of a finite ledger is finite, and can be summed up.
LEMMA FiniteEffect ==
    ASSUME NEW l \in [VaultKeys -> SUBSET ApprovedOutflow], NEW v \in Texts,
           NEW d \in Digests, NEW o \in U64, NEW t \in Nat, NEW key \in VaultKeys,
           IsFiniteSet(l[key])
    PROVE  /\ IsFiniteSet(Prune(l, v, t)[key])
           /\ IsFiniteSet(RecordApproval(Prune(l, v, t), v, d, o, t)[key])
<1> DEFINE pruned   == Prune(l, v, t)
           recorded == RecordApproval(pruned, v, d, o, t)
           entry    == [txDigest |-> d, netOutflow |-> o, approvedAt |-> t]
<1>1. pruned[key] \in SUBSET l[key]
  BY PruneEffect
<1>2. IsFiniteSet(pruned[key])
  BY <1>1, FS_Subset
<1>3. recorded[key] \subseteq pruned[key] \cup {entry}
  BY RecordEffect
<1> HIDE DEF pruned, recorded, entry
<1>4. IsFiniteSet(pruned[key] \cup {entry})
  BY <1>2, FS_AddElement
<1>5. IsFiniteSet(recorded[key])
  BY <1>3, <1>4, FS_Subset
<1> QED
  BY <1>2, <1>5 DEF pruned, recorded

\* Every step keeps this.
LEMMA FactsKept ==
    ASSUME TypeOK, CallData, KnownFacts, FiniteLedger, [Next]_vars
    PROVE  (KnownFacts /\ FiniteLedger)'
<1>1. KnownFacts'
  <2>1. ASSUME NEW c \in Calls, NEW r \in Requests, Receive(c, r)
        PROVE  KnownFacts'
    BY <2>1 DEF KnownFacts, Receive, TypeOK, FactsOf
  <2>2. ASSUME NEW c \in Calls, Simulated(c)
        PROVE  KnownFacts'
    <3>1. request[c] \in Requests /\ UNCHANGED request
      BY <2>2 DEF Simulated, CallData
    <3>2. PICK f \in request[c].dryRuns : facts' = [facts EXCEPT ![c] = f]
      BY <2>2 DEF Simulated
    <3>3. f # None
      BY <3>1, CoSignerAssumption DEF CoSignRequest
    <3>4. phase' = [phase EXCEPT ![c] = "loading"]
      BY <2>2 DEF Simulated
    <3> QED
      BY <3>1, <3>2, <3>3, <3>4 DEF KnownFacts, TypeOK, FactsOf
  <2>3. ASSUME NEW c \in Calls, SimulationFailed(c)
        PROVE  KnownFacts'
    BY <2>3 DEF KnownFacts, SimulationFailed, TypeOK
  <2>4. ASSUME NEW c \in Calls, LoadPolicy(c) \/ LoadFallback(c)
        PROVE  KnownFacts'
    BY <2>4 DEF KnownFacts, LoadPolicy, LoadFallback, TypeOK
  <2>5. ASSUME NEW c \in Calls, CoSign(c)
        PROVE  KnownFacts'
    <3>1. /\ phase[c] = "deciding" /\ UNCHANGED <<request, facts>>
          /\ \E p \in {"refused", "signed"} : phase' = [phase EXCEPT ![c] = p]
      BY <2>5, CoSignStep
    <3> QED
      BY <3>1 DEF KnownFacts, TypeOK
  <2>6. ASSUME NEW p \in PolicyObjects, SetPolicy(p)
        PROVE  KnownFacts'
    BY <2>6 DEF KnownFacts, SetPolicy
  <2>7. CASE Tick \/ ClockStepsBack \/ UNCHANGED vars
    BY <2>7 DEF KnownFacts, Tick, ClockStepsBack, vars
  <2>8. CASE Restart
    BY <2>8 DEF KnownFacts, Restart, TypeOK
  <2> QED
    BY <2>1, <2>2, <2>3, <2>4, <2>5, <2>6, <2>7, <2>8 DEF Next
<1>2. FiniteLedger'
  <2>1. ASSUME NEW c \in Calls, CoSign(c)
        PROVE  FiniteLedger'
    <3>1. /\ request[c].vaultAddress \in Texts /\ facts[c].txDigest \in Digests
          /\ facts[c].netOutflow \in U64 /\ now \in Nat
          /\ ledger \in [VaultKeys -> SUBSET ApprovedOutflow]
      BY <2>1, CoSignStep DEF CoSignRequest, PolicyRequest, TypeOK
    <3> QED
      BY <2>1, <3>1, CoSignStep, FiniteEffect DEF FiniteLedger
  <2>2. CASE Restart
    BY <2>2, FS_EmptySet DEF FiniteLedger, Restart, EmptyLedger
  <2>3. CASE ~Restart /\ \A c \in Calls : ~CoSign(c)
    BY <2>3, OtherSteps DEF FiniteLedger
  <2> QED
    BY <2>1, <2>2, <2>3
<1> QED
  BY <1>1, <1>2

\* A call is judged by facts of its own request, and the ledger is finite, in every state.
LEMMA FactsHold == Spec => [](KnownFacts /\ FiniteLedger)
<1>1. Init => KnownFacts /\ FiniteLedger
  <2> SUFFICES ASSUME Init
               PROVE  KnownFacts /\ FiniteLedger
    OBVIOUS
  <2>1. KnownFacts
    BY DEF Init, KnownFacts
  <2>2. FiniteLedger
    BY FS_EmptySet DEF Init, FiniteLedger, EmptyLedger
  <2> QED
    BY <2>1, <2>2
<1>2. TypeOK /\ CallData /\ KnownFacts /\ FiniteLedger /\ [Next]_vars
      => (KnownFacts /\ FiniteLedger)'
  BY FactsKept
<1> QED
  BY <1>1, <1>2, TypeCorrect, PTL DEF Spec

(* The approvals of a vault that count against a transaction.               *)
Others(l, v, d) == {e \in l[VaultKey(v)] : e.txDigest # d}

\* The earlier outflow a call is judged by (ledger.rs outflow_within_window).
LEMMA PriorIsTotal ==
    ASSUME NEW l \in [VaultKeys -> SUBSET ApprovedOutflow], NEW v \in Texts, NEW d,
           IsFiniteSet(l[VaultKey(v)])
    PROVE  /\ Counted(l[VaultKey(v)]) /\ Counted(Others(l, v, d))
           /\ OutflowWithinWindow(l, v, d)
                = IF TotalOutflow(Others(l, v, d)) > U64Max THEN U64Max
                  ELSE TotalOutflow(Others(l, v, d))
           /\ OutflowWithinWindow(l, v, d) \in U64
<1> DEFINE others == Others(l, v, d)
<1>1. \A e \in l[VaultKey(v)] : e.netOutflow \in Nat
  BY VaultKeyType DEF ApprovedOutflow, U64
<1>2. Counted(l[VaultKey(v)])
  BY <1>1 DEF Counted
<1>3. others \in SUBSET l[VaultKey(v)]
  BY DEF Others
<1>4. OutflowWithinWindow(l, v, d) =
        MapThenFoldSet(SaturatingAdd, 0, LAMBDA e : e.netOutflow,
                       LAMBDA s : CHOOSE e \in s : TRUE, others)
  BY DEF OutflowWithinWindow, Others
<1> HIDE DEF others
<1>5. Counted(others) /\ TotalOutflow(others) \in Nat
  BY <1>2, <1>3, SpentParts
<1>6. OutflowWithinWindow(l, v, d)
        = IF TotalOutflow(others) > U64Max THEN U64Max ELSE TotalOutflow(others)
  BY <1>4, <1>5, SpentSaturated
<1>7. OutflowWithinWindow(l, v, d) \in U64
  BY <1>5, <1>6, U64Assumption DEF U64
<1> QED
  BY <1>2, <1>5, <1>6, <1>7 DEF others

\* The verdict passes only under the rolling cap, and refuses for it only above it.
LEMMA RollingVerdict ==
    ASSUME NEW p, NEW f, NEW prior
    PROVE  LET verdict == EvaluatePolicyWithWindowOutflow(p, f, prior)
           IN  /\ verdict = "policy passed" => ~ExceedsRollingCap(p, f, prior)
               /\ verdict = "rolling daily outflow exceeds policy cap"
                    => ExceedsRollingCap(p, f, prior)
<1> DEFINE R == Allowlisted(p.allowedRecipients, f.recipient)
           P == Allowlisted(p.allowedPackages, f.package)
           T == ExceedsPerTxCap(p, f)
           O == OutflowBps(p, f) > p.maxOutflowBps
           W == ExceedsRollingCap(p, f, prior)
           V == EvaluatePolicyWithWindowOutflow(p, f, prior)
<1>1. V = IF ~R THEN "recipient is not allowlisted"
          ELSE IF ~P THEN "package is not allowlisted"
          ELSE IF T THEN "per-tx outflow exceeds policy cap"
          ELSE IF O THEN "net outflow exceeds policy limit"
          ELSE IF W THEN "rolling daily outflow exceeds policy cap"
          ELSE "policy passed"
  BY DEF EvaluatePolicyWithWindowOutflow
<1> HIDE DEF R, P, T, O, W, V
<1>2. /\ V = "policy passed" => ~W
      /\ V = "rolling daily outflow exceeds policy cap" => W
  BY <1>1
<1> QED
  BY <1>2 DEF V, W
-----------------------------------------------------------------------------
(* What is asked of the requests: the dry runs of a transaction, and the    *)
(* callers who claim its facts, agree on its outflow, and a vault is        *)
(* spelled with its leading zeros or without, in one way by all callers.    *)
OneOutflowPerDigest ==
    \A r, s \in Requests : \A f \in FactsOf(r), g \in FactsOf(s) :
        f.txDigest = g.txDigest => f.netOutflow = g.netOutflow

OneKeyPerVault ==
    \A r, s \in Requests : r.vaultAddress.who = s.vaultAddress.who
        => VaultKey(r.vaultAddress) = VaultKey(s.vaultAddress)

(* The transactions WindowSpend counts, one record each.                    *)
Record(c) == [txDigest |-> facts[c].txDigest, netOutflow |-> facts[c].netOutflow]

Counting(vault) ==
    {c \in Calls : /\ FirstApproval(c) /\ Vault(c) = vault
                   /\ answeredAt[c] > latest - Window}

LedgerInv == TypeOK /\ CallData /\ Bounds /\ LedgerSound /\ LedgerComplete
             /\ KnownFacts /\ FiniteLedger

\* A transaction that counts after a decision, other than the one decided, is in the
\* pruned ledger of the vault (ledger.rs prune, cosign.rs:48).
LEMMA CountedIsRetained ==
    ASSUME LedgerInv, OneOutflowPerDigest, OneKeyPerVault,
           NEW c \in Calls, CoSign(c), NEW d \in Calls,
           FirstApproval(d)', Vault(d)' = Vault(c)', answeredAt'[d] > latest' - Window
    PROVE  /\ facts[d].txDigest = facts[c].txDigest
                => facts[d].netOutflow = facts[c].netOutflow
           /\ facts[d].txDigest # facts[c].txDigest
                => \E e \in Prune(ledger, request[c].vaultAddress, now)[Key(c)] :
                        e.txDigest = facts[d].txDigest /\ e.netOutflow = facts[d].netOutflow
<1> USE DEF LedgerInv
<1>1. Approved(d)' /\ UNCHANGED <<request, facts, latest, boot, now>>
  BY CoSignStep DEF FirstApproval
<1>2. /\ request[c] \in Requests /\ facts[c] \in FactsOf(request[c])
      /\ request[d] \in Requests /\ facts[d] \in FactsOf(request[d])
  <2>1. phase[c] = "deciding"
    BY CoSignStep
  <2>2. Approved(d) \/ d = c
    BY <1>1, CoSignKeepsOthers
  <2>3. phase[d] = "signed" \/ d = c
    BY <2>2 DEF Approved
  <2> QED
    BY <2>1, <2>3 DEF KnownFacts
<1>3. ASSUME facts[d].txDigest = facts[c].txDigest
      PROVE  facts[d].netOutflow = facts[c].netOutflow
  BY <1>2, <1>3 DEF OneOutflowPerDigest
<1>4. ASSUME facts[d].txDigest # facts[c].txDigest
      PROVE  \E e \in Prune(ledger, request[c].vaultAddress, now)[Key(c)] :
                e.txDigest = facts[d].txDigest /\ e.netOutflow = facts[d].netOutflow
  <2>1. Approved(d) /\ d # c /\ answeredAt'[d] = answeredAt[d]
    BY <1>1, <1>4, CoSignKeepsOthers
  <2>2. Vault(d) = Vault(c) /\ Key(d) = Key(c)
    BY <1>1, <1>2 DEF Vault, Key, OneKeyPerVault
  <2>3. ASSUME NEW b \in Calls, Approved(b), SameTransaction(d, b)
        PROVE  answeredAt[d] <= answeredAt[b]
    <3>1. Approved(b)' /\ answeredAt'[b] = answeredAt[b] /\ SameTransaction(d, b)'
      BY <1>1, <2>3, CoSignKeepsOthers DEF SameTransaction, Vault
    <3>2. answeredAt'[d] <= answeredAt'[b]
      BY <3>1 DEF FirstApproval
    <3> QED
      BY <2>1, <3>1, <3>2
  <2>4. \A b \in Calls : answeredAt[b] \in Nat /\ latest \in Nat /\ now \in Nat /\ now <= latest
    BY DEF TypeOK, Bounds
  <2>5. PICK e \in ledger[Key(d)] : e.txDigest = facts[d].txDigest
    <3>1. ASSUME NEW b \in Calls, Approved(b), SameTransaction(d, b),
                 latest - answeredAt[b] >= Window
          PROVE  FALSE
      <4>1. answeredAt[d] <= answeredAt[b] /\ answeredAt[d] > latest - Window
        BY <1>1, <2>1, <2>3, <3>1
      <4> QED
        BY <2>4, <3>1, <4>1, WindowAssumption
    <3> QED
      BY <2>1, <3>1 DEF LedgerComplete
  <2>6. request[c].vaultAddress \in Texts /\ Key(c) \in VaultKeys /\ Key(c).who = Vault(c)
        /\ ledger \in [VaultKeys -> SUBSET ApprovedOutflow] /\ now \in Nat
    BY CoSignStep, VaultKeyType
       DEF Key, Vault, CoSignRequest, VaultKey, NormalizeAddress, Texts, TypeOK
  <2>7. PICK b \in Calls : Approved(b) /\ Vault(b) = Key(c).who /\ e = EntryOf(b)
    BY <2>2, <2>5, <2>6 DEF LedgerSound, EntryOf
  <2>8. SameTransaction(d, b) /\ e.approvedAt = answeredAt[b] /\ e.netOutflow = facts[b].netOutflow
    BY <2>2, <2>5, <2>6, <2>7 DEF SameTransaction, EntryOf
  <2>9. ~(now - e.approvedAt >= Window)
    <3>1. answeredAt[d] <= answeredAt[b] /\ answeredAt[d] > latest - Window
      BY <1>1, <2>1, <2>3, <2>7, <2>8
    <3> QED
      BY <2>4, <2>8, <3>1, WindowAssumption
  <2>10. e \in Prune(ledger, request[c].vaultAddress, now)[Key(c)]
    BY <2>2, <2>5, <2>6, <2>9, PruneEffect
  <2>11. e.netOutflow = facts[d].netOutflow
    <3>1. facts[b] \in FactsOf(request[b]) /\ request[b] \in Requests
      BY <2>7 DEF KnownFacts, Approved
    <3>2. facts[b].txDigest = facts[d].txDigest
      BY <2>8 DEF SameTransaction
    <3> QED
      BY <1>2, <2>8, <3>1, <3>2 DEF OneOutflowPerDigest
  <2> QED
    BY <2>5, <2>10, <2>11
<1> QED
  BY <1>3, <1>4

\* So a signature under a rolling cap leaves the window within it.
LEMMA SignatureWithinCap ==
    ASSUME LedgerInv, OneOutflowPerDigest, OneKeyPerVault,
           NEW c \in Calls, CoSign(c), phase'[c] = "signed",
           policy[c].rollingCap \in 1..(U64Max - 1)
    PROVE  WindowSpend(Vault(c))' <= policy[c].rollingCap
<1> USE DEF LedgerInv
<1> DEFINE v      == request[c].vaultAddress
           pruned == Prune(ledger, v, now)
           others == Others(pruned, v, facts[c].txDigest)
           prior  == OutflowWithinWindow(pruned, v, facts[c].txDigest)
           own    == [txDigest |-> facts[c].txDigest, netOutflow |-> facts[c].netOutflow]
           F      == {Record(d)' : d \in {d \in Calls : /\ FirstApproval(d)' /\ Vault(d)' = Vault(c)'
                                                        /\ answeredAt'[d] > latest' - Window}}
<1>1. /\ v \in Texts /\ facts[c].txDigest \in Digests /\ facts[c].netOutflow \in U64
      /\ now \in Nat /\ ledger \in [VaultKeys -> SUBSET ApprovedOutflow]
      /\ UNCHANGED <<request, facts>>
  BY CoSignStep DEF CoSignRequest, PolicyRequest, TypeOK
<1>2. /\ pruned \in [VaultKeys -> SUBSET ApprovedOutflow]
      /\ IsFiniteSet(pruned[VaultKey(v)])
  BY <1>1, PruneType, FiniteEffect, VaultKeyType DEF FiniteLedger
<1>3. EvaluatePolicyWithWindowOutflow(policy[c], facts[c], prior) = "policy passed"
  BY DEF CoSign, TypeOK
<1>4. ~(SaturatingAdd(prior, facts[c].netOutflow) > policy[c].rollingCap)
  <2>1. ~ExceedsRollingCap(policy[c], facts[c], prior)
    <3> HIDE DEF prior
    <3> QED
      BY <1>3, RollingVerdict
  <2>2. policy[c].rollingCap > 0
    BY U64Assumption
  <2> QED
    BY <2>1, <2>2 DEF ExceedsRollingCap
<1>5. /\ Counted(others)
      /\ prior = IF TotalOutflow(others) > U64Max THEN U64Max ELSE TotalOutflow(others)
  <2> HIDE DEF pruned, v
  <2> QED
    BY <1>1, <1>2, PriorIsTotal
<1>6. WindowSpend(Vault(c))' = TotalOutflow(F)
  BY DEF WindowSpend, Record
<1>7. ASSUME NEW r \in F
      PROVE  /\ r.txDigest = facts[c].txDigest => r = own
             /\ r.txDigest # facts[c].txDigest
                  => \E e \in others : e.txDigest = r.txDigest /\ e.netOutflow = r.netOutflow
             /\ r = [txDigest |-> r.txDigest, netOutflow |-> r.netOutflow]
  <2>1. PICK d \in Calls : /\ FirstApproval(d)' /\ Vault(d)' = Vault(c)'
                           /\ answeredAt'[d] > latest' - Window /\ r = Record(d)'
    OBVIOUS
  <2>2. r = [txDigest |-> facts[d].txDigest, netOutflow |-> facts[d].netOutflow]
    BY <1>1, <2>1 DEF Record
  <2>3. /\ facts[d].txDigest = facts[c].txDigest
                => facts[d].netOutflow = facts[c].netOutflow
        /\ facts[d].txDigest # facts[c].txDigest
                => \E e \in pruned[VaultKey(v)] :
                        e.txDigest = facts[d].txDigest /\ e.netOutflow = facts[d].netOutflow
    BY <2>1, CountedIsRetained DEF Key
  <2> HIDE DEF pruned, v
  <2> QED
    BY <2>2, <2>3 DEF Others
<1> HIDE DEF F, prior, others, pruned, v, own
<1> DEFINE rest == F \ {own}
           m == [r \in rest |-> CHOOSE e \in others : e.txDigest = r.txDigest
                                                      /\ e.netOutflow = r.netOutflow]
<1>8. Counted(rest) /\ TotalOutflow(rest) <= TotalOutflow(others)
  <2>1. ASSUME NEW r \in rest
        PROVE  m[r] \in others /\ m[r].txDigest = r.txDigest /\ m[r].netOutflow = r.netOutflow
    <3>1. \E e \in others : e.txDigest = r.txDigest /\ e.netOutflow = r.netOutflow
      BY <1>7
    <3> QED
      BY <3>1
  <2>2. m \in [rest -> others]
    BY <2>1
  <2> HIDE DEF m
  <2>3. ASSUME NEW x \in rest, NEW y \in rest, m[x] = m[y]
        PROVE  x = y
    <3>1. x.txDigest = y.txDigest /\ x.netOutflow = y.netOutflow
      BY <2>1, <2>3
    <3>2. /\ x = [txDigest |-> x.txDigest, netOutflow |-> x.netOutflow]
          /\ y = [txDigest |-> y.txDigest, netOutflow |-> y.netOutflow]
      BY <1>7
    <3> QED
      BY <3>1, <3>2
  <2> HIDE DEF rest
  <2> QED
    BY <1>5, <2>1, <2>2, <2>3, SpentInjection
<1>9. facts[c].netOutflow \in Nat /\ own.netOutflow = facts[c].netOutflow
  BY <1>1, U64Assumption DEF own, U64
<1>10. Counted(F)
  <2>1. IsFiniteSet(rest \cup {own}) /\ F \in SUBSET (rest \cup {own})
    BY <1>8, FS_AddElement DEF Counted
  <2>2. IsFiniteSet(F)
    BY <2>1, FS_Subset
  <2> QED
    BY <1>8, <1>9, <2>2 DEF Counted
<1>11. TotalOutflow(F) <= TotalOutflow(others) + facts[c].netOutflow
       /\ TotalOutflow(F) \in Nat /\ TotalOutflow(others) \in Nat
  <2>1. TotalOutflow(F) \in Nat /\ TotalOutflow(others) \in Nat /\ TotalOutflow(rest) \in Nat
    BY <1>5, <1>8, <1>10, SpentParts
  <2>2. own \in F => TotalOutflow(F) = facts[c].netOutflow + TotalOutflow(rest)
    BY <1>9, <1>10, SpentParts
  <2>3. own \notin F => F = rest
    OBVIOUS
  <2> HIDE DEF rest
  <2> QED
    BY <1>8, <1>9, <2>1, <2>2, <2>3
<1>12. TotalOutflow(others) + facts[c].netOutflow <= policy[c].rollingCap
  BY <1>4, <1>5, <1>9, <1>11, U64Assumption DEF SaturatingAdd
<1>13. TotalOutflow(F) <= policy[c].rollingCap
  BY <1>9, <1>11, <1>12, U64Assumption
<1> QED
  BY <1>6, <1>13

\* A call leaves "deciding" for an answer only by its own decision (main.rs co_sign).
LEMMA AnsweredByCoSign ==
    ASSUME TypeOK, [Next]_vars, NEW c \in Calls, phase[c] = "deciding",
           phase'[c] \in {"signed", "refused"}
    PROVE  CoSign(c)
<1>1. ASSUME NEW d \in Calls, NEW r \in Requests, Receive(d, r)
      PROVE  FALSE
  BY <1>1 DEF Receive, TypeOK
<1>2. ASSUME NEW d \in Calls,
             Simulated(d) \/ SimulationFailed(d) \/ LoadPolicy(d) \/ LoadFallback(d)
      PROVE  FALSE
  BY <1>2 DEF Simulated, SimulationFailed, LoadPolicy, LoadFallback, TypeOK
<1>3. ASSUME NEW d \in Calls, CoSign(d)
      PROVE  d = c
  BY <1>3, CoSignerAssumption DEF CoSign, TypeOK
<1>4. ASSUME NEW p \in PolicyObjects, SetPolicy(p)
      PROVE  FALSE
  BY <1>4 DEF SetPolicy
<1>5. CASE Tick \/ ClockStepsBack \/ UNCHANGED vars
  BY <1>5 DEF Tick, ClockStepsBack, vars
<1>6. CASE Restart
  BY <1>6 DEF Restart, InFlight, TypeOK
<1> QED
  BY <1>1, <1>2, <1>3, <1>4, <1>5, <1>6 DEF Next

\* What is known of the ledger holds in every reachable state.
LEMMA LedgerHolds == Spec => []LedgerInv
<1>1. Init => Bounds
  <2> SUFFICES ASSUME Init
               PROVE  Bounds
    OBVIOUS
  <2>1. now = 0 /\ latest = 0 /\ boot = 0 /\ \A c \in Calls : answeredIn[c] = 0
    BY DEF Init
  <2> QED
    BY <2>1 DEF Bounds
<1>2. TypeOK /\ CallData /\ Bounds /\ [Next]_vars => Bounds'
  BY BoundsInductive
<1>3. Spec => []Bounds
  BY <1>1, <1>2, TypeCorrect, PTL DEF Spec
<1> QED
  BY <1>3, TypeCorrect, LedgerFaithful, FactsHold, PTL DEF LedgerInv

(* Whatever the interleaving of the calls, the clock, the restarts and the  *)
(* owner's changes: a signature (cosign.rs:48-65) leaves what was signed in *)
(* the window within the rolling cap of the policy it was judged by.        *)
THEOREM AlwaysWithinRollingCap ==
    OneOutflowPerDigest /\ OneKeyPerVault /\ Spec => SignedWithinRollingCap
<1> SUFFICES ASSUME OneOutflowPerDigest, OneKeyPerVault
             PROVE  Spec => SignedWithinRollingCap
  OBVIOUS
<1> DEFINE Stays == \A c \in Calls :
                        /\ phase[c] = "deciding" /\ phase'[c] = "signed"
                        /\ policy[c].rollingCap \in 1..(U64Max - 1)
                        => WindowSpend(Vault(c))' <= policy[c].rollingCap
<1>1. LedgerInv /\ [Next]_vars => [Stays]_vars
  <2> SUFFICES ASSUME LedgerInv, [Next]_vars,
                      NEW c \in Calls, phase[c] = "deciding", phase'[c] = "signed",
                      policy[c].rollingCap \in 1..(U64Max - 1)
               PROVE  WindowSpend(Vault(c))' <= policy[c].rollingCap
    OBVIOUS
  <2>1. CoSign(c)
    BY AnsweredByCoSign DEF LedgerInv
  <2> QED
    BY <2>1, SignatureWithinCap
<1>2. Spec => [][Stays]_vars
  <2> HIDE DEF Stays
  <2> QED
    BY <1>1, LedgerHolds, PTL DEF Spec
<1> QED
  BY <1>2 DEF SignedWithinRollingCap
-----------------------------------------------------------------------------
(* All policies set the rolling cap Cap.                                    *)
Cap == FallbackPolicy.rollingCap

OneRollingCap == \A p \in PolicyObjects : p.rollingCap = Cap

(* While they do, what the ledger holds for a vault stays within the cap.   *)
WithinCap ==
    /\ \A c \in Calls : phase[c] \in {"deciding", "signed"} => policy[c].rollingCap = Cap
    /\ Cap \in 1..(U64Max - 1) =>
           \A key \in VaultKeys : TotalOutflow(ledger[key]) <= Cap

\* What a decision refuses for the rolling cap, or signs under it.
LEMMA DecisionTotals ==
    ASSUME LedgerInv, NEW c \in Calls, CoSign(c)
    PROVE  LET v      == request[c].vaultAddress
               pruned == Prune(ledger, v, now)
               others == Others(pruned, v, facts[c].txDigest)
           IN  /\ Counted(pruned[VaultKey(v)]) /\ Counted(others)
               /\ phase'[c] = "signed" /\ policy[c].rollingCap \in 1..(U64Max - 1)
                    => TotalOutflow(others) + facts[c].netOutflow <= policy[c].rollingCap
               /\ phase'[c] = "refused"
                  /\ response'[c] = "rolling daily outflow exceeds policy cap"
                    => /\ policy[c].rollingCap \in 1..(U64Max - 1)
                       /\ TotalOutflow(others) + facts[c].netOutflow > policy[c].rollingCap
<1> USE DEF LedgerInv
<1> DEFINE v      == request[c].vaultAddress
           pruned == Prune(ledger, v, now)
           others == Others(pruned, v, facts[c].txDigest)
           prior  == OutflowWithinWindow(pruned, v, facts[c].txDigest)
           V      == EvaluatePolicyWithWindowOutflow(policy[c], facts[c], prior)
<1>1. /\ v \in Texts /\ facts[c].txDigest \in Digests /\ facts[c].netOutflow \in U64
      /\ now \in Nat /\ ledger \in [VaultKeys -> SUBSET ApprovedOutflow]
      /\ policy[c] \in VaultPolicy
  BY CoSignStep DEF CoSignRequest, PolicyRequest, TypeOK, CallData
<1>2. /\ pruned \in [VaultKeys -> SUBSET ApprovedOutflow]
      /\ IsFiniteSet(pruned[VaultKey(v)])
  BY <1>1, PruneType, FiniteEffect, VaultKeyType DEF FiniteLedger
<1>3. /\ phase'[c] = "signed" => V = "policy passed"
      /\ phase'[c] = "refused" => response'[c] \in {V, "txBytes is not valid base64"}
  BY DEF CoSign, TypeOK
<1> HIDE DEF V, prior, pruned, v
<1>4. /\ Counted(pruned[VaultKey(v)]) /\ Counted(others)
      /\ prior = IF TotalOutflow(others) > U64Max THEN U64Max ELSE TotalOutflow(others)
  BY <1>1, <1>2, PriorIsTotal DEF prior
<1>5. /\ V = "policy passed" => ~ExceedsRollingCap(policy[c], facts[c], prior)
      /\ V = "rolling daily outflow exceeds policy cap"
            => ExceedsRollingCap(policy[c], facts[c], prior)
  BY RollingVerdict DEF V
<1> HIDE DEF others
<1>6. TotalOutflow(others) \in Nat /\ facts[c].netOutflow \in Nat
      /\ policy[c].rollingCap \in Nat /\ policy[c].rollingCap <= U64Max
  BY <1>1, <1>4, SpentParts, U64Assumption DEF U64, VaultPolicy
<1>7. /\ policy[c].rollingCap \in 1..(U64Max - 1)
         /\ ~ExceedsRollingCap(policy[c], facts[c], prior)
           => TotalOutflow(others) + facts[c].netOutflow <= policy[c].rollingCap
      /\ ExceedsRollingCap(policy[c], facts[c], prior)
           => /\ policy[c].rollingCap \in 1..(U64Max - 1)
              /\ TotalOutflow(others) + facts[c].netOutflow > policy[c].rollingCap
  <2> DEFINE t == TotalOutflow(others)
             o == facts[c].netOutflow
             cap == policy[c].rollingCap
  <2>1. ExceedsRollingCap(policy[c], facts[c], prior)
          <=> cap > 0 /\ SaturatingAdd(prior, o) > cap
    BY DEF ExceedsRollingCap
  <2>2. prior = IF t > U64Max THEN U64Max ELSE t
    BY <1>4
  <2>3. t \in Nat /\ o \in Nat /\ cap \in Nat /\ cap <= U64Max
    BY <1>6
  <2> HIDE DEF t, o, cap
  <2>4. /\ cap \in 1..(U64Max - 1) /\ ~(cap > 0 /\ SaturatingAdd(prior, o) > cap) => t + o <= cap
        /\ cap > 0 /\ SaturatingAdd(prior, o) > cap => cap \in 1..(U64Max - 1) /\ t + o > cap
    BY <2>2, <2>3, U64Assumption DEF SaturatingAdd
  <2> QED
    BY <2>1, <2>4 DEF t, o, cap
<1> QED
  BY <1>3, <1>4, <1>5, <1>7 DEF others, pruned, v

\* What a policy object or the fallback sets as rolling cap, while there is one cap.
LEMMA CapLoaded ==
    ASSUME OneRollingCap, NEW p \in PolicyObjects
    PROVE  VaultPolicyFromMoveObject(p).rollingCap = Cap
BY DEF OneRollingCap, VaultPolicyFromMoveObject

\* A decision keeps the ledger within the cap.
LEMMA DecisionWithinCap ==
    ASSUME LedgerInv, WithinCap, Cap \in 1..(U64Max - 1), NEW c \in Calls, CoSign(c),
           NEW key \in VaultKeys
    PROVE  TotalOutflow(ledger'[key]) <= Cap
<1> USE DEF LedgerInv
<1> DEFINE v        == request[c].vaultAddress
           pruned   == Prune(ledger, v, now)
           recorded == RecordApproval(pruned, v, facts[c].txDigest, facts[c].netOutflow, now)
           entry    == [txDigest |-> facts[c].txDigest, netOutflow |-> facts[c].netOutflow,
                        approvedAt |-> now]
           others   == Others(pruned, v, facts[c].txDigest)
<1>1. /\ v \in Texts /\ facts[c].txDigest \in Digests /\ facts[c].netOutflow \in U64
      /\ now \in Nat /\ ledger \in [VaultKeys -> SUBSET ApprovedOutflow]
      /\ phase[c] = "deciding"
  BY CoSignStep DEF CoSignRequest, PolicyRequest, TypeOK
<1>2. Counted(ledger[key])
  BY <1>1, U64Assumption DEF Counted, FiniteLedger, ApprovedOutflow, U64
<1>3. Counted(pruned[key]) /\ TotalOutflow(pruned[key]) <= Cap /\ TotalOutflow(pruned[key]) \in Nat
  <2>1. pruned[key] \in SUBSET ledger[key]
    BY <1>1, PruneEffect
  <2>2. TotalOutflow(ledger[key]) <= Cap /\ Cap \in Nat
    BY U64Assumption DEF WithinCap
  <2>3. /\ Counted(pruned[key]) /\ TotalOutflow(pruned[key]) \in Nat
        /\ TotalOutflow(pruned[key]) <= TotalOutflow(ledger[key])
        /\ TotalOutflow(ledger[key]) \in Nat
    BY <1>2, <2>1, SpentParts
  <2> QED
    BY <2>2, <2>3
<1>4. CASE ledger' = pruned
  BY <1>3, <1>4
<1>5. CASE phase'[c] = "signed" /\ ledger' = recorded
  <2>1. /\ pruned[key] \subseteq recorded[key]
        /\ \A e \in recorded[key] \ pruned[key] :
              /\ e = entry /\ key = VaultKey(v)
              /\ \A f \in pruned[key] : f.txDigest # facts[c].txDigest
    BY <1>1, RecordEffect
  <2>2. CASE recorded[key] = pruned[key]
    BY <1>3, <1>5, <2>2
  <2>3. CASE recorded[key] # pruned[key]
    <3>1. /\ recorded[key] = pruned[key] \cup {entry} /\ entry \notin pruned[key]
          /\ key = VaultKey(v) /\ pruned[key] = others
      <4>1. PICK e : e \in recorded[key] \ pruned[key]
        BY <2>1, <2>3
      <4>2. /\ e = entry /\ key = VaultKey(v)
            /\ \A f \in pruned[key] : f.txDigest # facts[c].txDigest
        BY <2>1, <4>1
      <4>3. pruned[key] = others
        BY <4>2 DEF Others
      <4> HIDE DEF recorded, pruned, entry, others, v
      <4> QED
        BY <2>1, <4>1, <4>2, <4>3
    <3>2. TotalOutflow(others) + facts[c].netOutflow <= Cap
      <4>1. policy[c].rollingCap = Cap
        BY <1>1 DEF WithinCap
      <4> QED
        BY <1>5, <4>1, DecisionTotals
    <3>3. Counted(recorded[key])
      <4>1. IsFiniteSet(recorded[key])
        BY <1>3, <3>1, FS_AddElement DEF Counted
      <4>2. entry.netOutflow \in Nat
        BY <1>1, U64Assumption DEF U64
      <4> HIDE DEF entry, recorded, pruned
      <4> QED
        BY <1>3, <3>1, <4>1, <4>2 DEF Counted
    <3>4. entry \in recorded[key] /\ recorded[key] \ {entry} = pruned[key]
      BY <3>1
    <3>5. entry.netOutflow = facts[c].netOutflow
      OBVIOUS
    <3> HIDE DEF entry, recorded, pruned, others
    <3>6. TotalOutflow(recorded[key]) = facts[c].netOutflow + TotalOutflow(others)
      BY <3>1, <3>3, <3>4, <3>5, SpentParts
    <3> QED
      BY <1>1, <1>3, <1>5, <3>1, <3>2, <3>6, U64Assumption DEF U64
  <2> QED
    BY <2>2, <2>3
<1> QED
  BY <1>4, <1>5, CoSignStep DEF TypeOK

\* Every step keeps the ledger within the one cap there is.
LEMMA WithinCapKept ==
    ASSUME OneRollingCap, LedgerInv, WithinCap, [Next]_vars
    PROVE  WithinCap'
<1> USE DEF LedgerInv
<1>1. \A c \in Calls : phase'[c] \in {"deciding", "signed"} => policy'[c].rollingCap = Cap
  <2>1. ASSUME NEW c \in Calls, NEW r \in Requests, Receive(c, r)
        PROVE  \A d \in Calls : phase'[d] \in {"deciding", "signed"} => policy'[d].rollingCap = Cap
    BY <2>1 DEF WithinCap, Receive, TypeOK
  <2>2. ASSUME NEW c \in Calls, Simulated(c) \/ SimulationFailed(c)
        PROVE  \A d \in Calls : phase'[d] \in {"deciding", "signed"} => policy'[d].rollingCap = Cap
    BY <2>2 DEF WithinCap, Simulated, SimulationFailed, TypeOK
  <2>3. ASSUME NEW c \in Calls, LoadPolicy(c)
        PROVE  \A d \in Calls : phase'[d] \in {"deciding", "signed"} => policy'[d].rollingCap = Cap
    <3>1. /\ phase' = [phase EXCEPT ![c] = "deciding"]
          /\ policy' = [policy EXCEPT ![c] = VaultPolicyFromMoveObject(policyObject)]
          /\ policyObject \in PolicyObjects
      BY <2>3 DEF LoadPolicy, TypeOK
    <3> QED
      BY <3>1, CapLoaded DEF WithinCap, TypeOK
  <2>4. ASSUME NEW c \in Calls, LoadFallback(c)
        PROVE  \A d \in Calls : phase'[d] \in {"deciding", "signed"} => policy'[d].rollingCap = Cap
    BY <2>4 DEF WithinCap, LoadFallback, TypeOK, Cap
  <2>5. ASSUME NEW c \in Calls, CoSign(c)
        PROVE  \A d \in Calls : phase'[d] \in {"deciding", "signed"} => policy'[d].rollingCap = Cap
    <3>1. /\ phase[c] = "deciding" /\ policy' = policy
          /\ \E p \in {"refused", "signed"} : phase' = [phase EXCEPT ![c] = p]
      BY <2>5, CoSignStep DEF CoSign
    <3> QED
      BY <3>1 DEF WithinCap, TypeOK
  <2>6. ASSUME NEW p \in PolicyObjects, SetPolicy(p)
        PROVE  \A d \in Calls : phase'[d] \in {"deciding", "signed"} => policy'[d].rollingCap = Cap
    BY <2>6 DEF WithinCap, SetPolicy
  <2>7. CASE Tick \/ ClockStepsBack \/ UNCHANGED vars
    BY <2>7 DEF WithinCap, Tick, ClockStepsBack, vars
  <2>8. CASE Restart
    BY <2>8 DEF WithinCap, Restart, TypeOK
  <2> QED
    BY <2>1, <2>2, <2>3, <2>4, <2>5, <2>6, <2>7, <2>8 DEF Next
<1>2. ASSUME Cap \in 1..(U64Max - 1), NEW key \in VaultKeys
      PROVE  TotalOutflow(ledger'[key]) <= Cap
  <2>1. ASSUME NEW c \in Calls, CoSign(c)
        PROVE  TotalOutflow(ledger'[key]) <= Cap
    BY <1>2, <2>1, DecisionWithinCap
  <2>2. CASE Restart
    <3>1. ledger'[key] = {}
      BY <2>2 DEF Restart, EmptyLedger
    <3>2. Counted({})
      BY FS_EmptySet DEF Counted
    <3>3. TotalOutflow({}) = 0
      BY <3>2, SpentParts
    <3> QED
      BY <1>2, <3>1, <3>3, U64Assumption
  <2>3. CASE ~Restart /\ \A c \in Calls : ~CoSign(c)
    BY <1>2, <2>3, OtherSteps DEF WithinCap
  <2> QED
    BY <2>1, <2>2, <2>3
<1> QED
  BY <1>1, <1>2 DEF WithinCap, Cap

\* An entry of the window that is refused again for the cap was of a smaller outflow: the
\* others and it are within the cap, so the others and the call are above it.
LEMMA RefusedIsLarger ==
    ASSUME LedgerInv, WithinCap, NEW c \in Calls, CoSign(c), phase[c] = "deciding",
           policy[c].rollingCap \in 1..(U64Max - 1),
           TotalOutflow(Others(Prune(ledger, request[c].vaultAddress, now),
                               request[c].vaultAddress, facts[c].txDigest))
             + facts[c].netOutflow > policy[c].rollingCap,
           NEW e, e \in Retained(ledger[Key(c)], now), e.txDigest = facts[c].txDigest
    PROVE  e.netOutflow < facts[c].netOutflow
<1> DEFINE v      == request[c].vaultAddress
           pruned == Prune(ledger, v, now)
           others == Others(pruned, v, facts[c].txDigest)
<1>2. /\ v \in Texts /\ now \in Nat /\ ledger \in [VaultKeys -> SUBSET ApprovedOutflow]
      /\ facts[c].netOutflow \in U64 /\ VaultKey(v) \in VaultKeys
  BY CoSignStep, VaultKeyType DEF LedgerInv, CoSignRequest, PolicyRequest, TypeOK
<1>3. /\ policy[c].rollingCap \in 1..(U64Max - 1) /\ Counted(pruned[VaultKey(v)])
      /\ TotalOutflow(others) + facts[c].netOutflow > policy[c].rollingCap
  BY DecisionTotals
<1>4. policy[c].rollingCap = Cap /\ TotalOutflow(ledger[VaultKey(v)]) <= Cap
  BY <1>2, <1>3 DEF WithinCap
<1>5. pruned[VaultKey(v)] = Retained(ledger[VaultKey(v)], now)
  BY <1>2, PruneType
<1>6. e \in pruned[VaultKey(v)] /\ pruned[VaultKey(v)] \ {e} = others
  <2>1. e \in pruned[VaultKey(v)]
    BY <1>5 DEF Key
  <2>2. pruned[VaultKey(v)] \subseteq ledger[VaultKey(v)]
    BY <1>5, RetainedSubset
  <2>3. \A f \in pruned[VaultKey(v)] : f.txDigest = e.txDigest => f = e
    BY <1>2, <2>1, <2>2 DEF LedgerInv, LedgerSound
  <2> QED
    BY <2>1, <2>3 DEF Others
<1>7. Counted(ledger[VaultKey(v)])
  <2>1. ASSUME NEW key \in VaultKeys
        PROVE  Counted(ledger[key])
    BY <1>2, <2>1, U64Assumption DEF Counted, LedgerInv, FiniteLedger, ApprovedOutflow, U64
  <2> HIDE DEF v
  <2> QED
    BY <1>2, <2>1
<1>8. pruned[VaultKey(v)] \in SUBSET ledger[VaultKey(v)]
  BY <1>5, RetainedSubset
<1>9. e.netOutflow \in Nat /\ facts[c].netOutflow \in Nat
  <2> HIDE DEF pruned, v
  <2>1. facts[c].netOutflow \in Nat
    BY <1>2, U64Assumption DEF U64
  <2> QED
    BY <1>3, <1>6, <2>1 DEF Counted
<1> HIDE DEF pruned, v, others
<1>10. /\ TotalOutflow(pruned[VaultKey(v)]) = e.netOutflow + TotalOutflow(others)
       /\ Counted(others) /\ TotalOutflow(pruned[VaultKey(v)]) \in Nat
  <2>1. others \in SUBSET pruned[VaultKey(v)]
    BY <1>6
  <2> QED
    BY <1>3, <1>6, <2>1, SpentParts
<1>11. TotalOutflow(others) \in Nat
  BY <1>10, SpentParts
<1>12. TotalOutflow(pruned[VaultKey(v)]) <= TotalOutflow(ledger[VaultKey(v)])
       /\ TotalOutflow(ledger[VaultKey(v)]) \in Nat
  BY <1>7, <1>8, SpentParts
<1>13. Cap \in Nat
  BY <1>3, <1>4, U64Assumption
<1> DEFINE a == TotalOutflow(others)
           b == e.netOutflow
           o == facts[c].netOutflow
           p == TotalOutflow(pruned[VaultKey(v)])
           l == TotalOutflow(ledger[VaultKey(v)])
<1>14. /\ a \in Nat /\ b \in Nat /\ o \in Nat /\ p \in Nat /\ l \in Nat
       /\ p = b + a /\ p <= l /\ l <= Cap /\ a + o > Cap
  BY <1>3, <1>4, <1>9, <1>10, <1>11, <1>12
<1>15. b < o
  <2> HIDE DEF a, b, o, p, l, Cap
  <2> QED
    BY <1>13, <1>14
<1> QED
  BY <1>15

(* While every policy sets the same rolling cap, a transaction whose        *)
(* approval is still in the window is not refused for it when it is sent    *)
(* again (lib.rs:216): the ledger never holds more than the cap.            *)
THEOREM RetryNeverRefused == OneRollingCap /\ Spec => RetryNotRefused
<1> SUFFICES ASSUME OneRollingCap
             PROVE  Spec => RetryNotRefused
  OBVIOUS
<1>1. Init => WithinCap
  <2> SUFFICES ASSUME Init
               PROVE  WithinCap
    OBVIOUS
  <2>1. Counted({})
    BY FS_EmptySet DEF Counted
  <2>2. TotalOutflow({}) = 0
    BY <2>1, SpentParts
  <2>3. \A key \in VaultKeys : ledger[key] = {}
    BY DEF Init, EmptyLedger
  <2>4. \A c \in Calls : phase[c] = "idle"
    BY DEF Init
  <2>5. ASSUME Cap \in 1..(U64Max - 1), NEW key \in VaultKeys
        PROVE  TotalOutflow(ledger[key]) <= Cap
    <3>1. TotalOutflow(ledger[key]) = 0
      BY <2>2, <2>3
    <3> HIDE DEF Cap
    <3> QED
      BY <2>5, <3>1, U64Assumption
  <2> QED
    BY <2>4, <2>5 DEF WithinCap
<1>2. LedgerInv /\ WithinCap /\ [Next]_vars => WithinCap'
  BY WithinCapKept
<1>3. Spec => [](LedgerInv /\ WithinCap)
  BY <1>1, <1>2, LedgerHolds, PTL DEF Spec
<1> DEFINE Stays == \A c \in Calls :
                     /\ phase[c] = "deciding" /\ phase'[c] = "refused"
                     /\ response'[c] = "rolling daily outflow exceeds policy cap"
                     => \A e \in Retained(ledger[Key(c)], now) :
                          e.txDigest = facts[c].txDigest => e.netOutflow < facts[c].netOutflow
<1>4. LedgerInv /\ WithinCap /\ [Next]_vars => [Stays]_vars
  <2> SUFFICES ASSUME LedgerInv, WithinCap, [Next]_vars,
                      NEW c \in Calls, phase[c] = "deciding", phase'[c] = "refused",
                      response'[c] = "rolling daily outflow exceeds policy cap",
                      NEW e, e \in Retained(ledger[Key(c)], now), e.txDigest = facts[c].txDigest
               PROVE  e.netOutflow < facts[c].netOutflow
    OBVIOUS
  <2>1. CoSign(c)
    BY AnsweredByCoSign DEF LedgerInv
  <2>2. /\ policy[c].rollingCap \in 1..(U64Max - 1)
        /\ TotalOutflow(Others(Prune(ledger, request[c].vaultAddress, now),
                               request[c].vaultAddress, facts[c].txDigest))
             + facts[c].netOutflow > policy[c].rollingCap
    BY <2>1, DecisionTotals, Zenon
  <2> QED
    BY <2>1, <2>2, RefusedIsLarger, Zenon
<1>5. Spec => [][Stays]_vars
  <2> HIDE DEF Stays
  <2> QED
    BY <1>3, <1>4, PTL DEF Spec
<1> QED
  BY <1>5 DEF RetryNotRefused
-----------------------------------------------------------------------------
(* The policy on chain has been offered to every call that is open; a call  *)
(* that decides holds one that was, or what stands in for one; and an       *)
(* answer is what the rules said.                                           *)
OpenInv(c) ==
    /\ c \in InFlight => policyObject \in offered[c]
    /\ phase[c] \in {"deciding", "signed"} =>
           policy[c] \in {VaultPolicyFromMoveObject(o) : o \in offered[c]} \cup StandIns

AnswerInv(c) ==
    /\ phase[c] = "signed" => facts[c] \in PolicyRequest /\ Permits(policy[c], facts[c])
    /\ phase[c] = "refused" =>
        /\ response[c] = "recipient is not allowlisted"
               => /\ facts[c] \in PolicyRequest
                  /\ ~Allowlisted(policy[c].allowedRecipients, facts[c].recipient)
        /\ response[c] = "package is not allowlisted"
               => /\ facts[c] \in PolicyRequest
                  /\ ~Allowlisted(policy[c].allowedPackages, facts[c].package)

(* What each verdict says of the rules.                                     *)
LEMMA VerdictMeaning ==
    ASSUME NEW p, NEW f, NEW prior
    PROVE  LET verdict == EvaluatePolicyWithWindowOutflow(p, f, prior)
           IN  /\ verdict = "recipient is not allowlisted"
                      => ~Allowlisted(p.allowedRecipients, f.recipient)
               /\ verdict = "package is not allowlisted"
                      => ~Allowlisted(p.allowedPackages, f.package)
               /\ verdict = "policy passed"
                      => /\ Allowlisted(p.allowedRecipients, f.recipient)
                         /\ Allowlisted(p.allowedPackages, f.package)
<1> DEFINE R == Allowlisted(p.allowedRecipients, f.recipient)
           P == Allowlisted(p.allowedPackages, f.package)
           T == ExceedsPerTxCap(p, f)
           O == OutflowBps(p, f) > p.maxOutflowBps
           W == ExceedsRollingCap(p, f, prior)
           V == EvaluatePolicyWithWindowOutflow(p, f, prior)
<1>1. V = IF ~R THEN "recipient is not allowlisted"
          ELSE IF ~P THEN "package is not allowlisted"
          ELSE IF T THEN "per-tx outflow exceeds policy cap"
          ELSE IF O THEN "net outflow exceeds policy limit"
          ELSE IF W THEN "rolling daily outflow exceeds policy cap"
          ELSE "policy passed"
  BY DEF EvaluatePolicyWithWindowOutflow
<1> HIDE DEF R, P, T, O, W, V
<1>2. /\ V = "recipient is not allowlisted" => ~R
      /\ V = "package is not allowlisted" => ~P
      /\ V = "policy passed" => R /\ P
  BY <1>1
<1> QED
  BY <1>2 DEF R, P, V

\* Earlier outflow only adds to what the rolling cap refuses.
LEMMA PriorOnlyAdds ==
    ASSUME NEW p \in VaultPolicy, NEW f \in PolicyRequest, NEW prior \in U64,
           ExceedsRollingCap(p, f, 0)
    PROVE  ExceedsRollingCap(p, f, prior)
<1> DEFINE o == f.netOutflow
           cap == p.rollingCap
<1>1. o \in Nat /\ o <= U64Max /\ cap \in Nat /\ prior \in Nat
  BY U64Assumption DEF PolicyRequest, VaultPolicy, U64
<1>2. cap > 0 /\ SaturatingAdd(0, o) > cap
  BY DEF ExceedsRollingCap
<1> HIDE DEF o, cap
<1>3. SaturatingAdd(prior, o) > cap
  BY <1>1, <1>2, U64Assumption DEF SaturatingAdd
<1> QED
  BY <1>2, <1>3 DEF ExceedsRollingCap, o, cap

\* What passes with some earlier outflow passes without any.
LEMMA PassesWithoutPrior ==
    ASSUME NEW p \in VaultPolicy, NEW f \in PolicyRequest, NEW prior \in U64,
           EvaluatePolicyWithWindowOutflow(p, f, prior) = "policy passed"
    PROVE  Permits(p, f)
<1> DEFINE R == Allowlisted(p.allowedRecipients, f.recipient)
           P == Allowlisted(p.allowedPackages, f.package)
           T == ExceedsPerTxCap(p, f)
           O == OutflowBps(p, f) > p.maxOutflowBps
           W == ExceedsRollingCap(p, f, prior)
           N == ExceedsRollingCap(p, f, 0)
           V == EvaluatePolicyWithWindowOutflow(p, f, prior)
           E == EvaluatePolicyWithWindowOutflow(p, f, 0)
<1>1. V = IF ~R THEN "recipient is not allowlisted"
          ELSE IF ~P THEN "package is not allowlisted"
          ELSE IF T THEN "per-tx outflow exceeds policy cap"
          ELSE IF O THEN "net outflow exceeds policy limit"
          ELSE IF W THEN "rolling daily outflow exceeds policy cap"
          ELSE "policy passed"
  BY DEF EvaluatePolicyWithWindowOutflow
<1>2. E = IF ~R THEN "recipient is not allowlisted"
          ELSE IF ~P THEN "package is not allowlisted"
          ELSE IF T THEN "per-tx outflow exceeds policy cap"
          ELSE IF O THEN "net outflow exceeds policy limit"
          ELSE IF N THEN "rolling daily outflow exceeds policy cap"
          ELSE "policy passed"
  BY DEF EvaluatePolicyWithWindowOutflow
<1>3. N => W
  BY PriorOnlyAdds
<1>4. V = "policy passed"
  OBVIOUS
<1> HIDE DEF R, P, T, O, W, N, V, E
<1>5. E = "policy passed"
  BY <1>1, <1>2, <1>3, <1>4
<1> QED
  BY <1>5 DEF E, Permits, EvaluatePolicy

(* A call that a step leaves alone keeps what is known of it.               *)
Untouched(c) ==
    /\ phase'[c] = phase[c] /\ facts'[c] = facts[c] /\ policy'[c] = policy[c]
    /\ response'[c] = response[c] /\ offered[c] \subseteq offered'[c]
    /\ c \in InFlight => policyObject' \in offered'[c]

\* Such a step keeps the invariants of the call.
LEMMA UntouchedKeeps ==
    ASSUME NEW c \in Calls, OpenInv(c), AnswerInv(c), Untouched(c)
    PROVE  OpenInv(c)' /\ AnswerInv(c)'
  BY DEF Untouched, OpenInv, AnswerInv, InFlight

\* A step of one call's handler keeps the invariants of every call.
LEMMA HandlerKeepsAnswers ==
    ASSUME LedgerInv, TypeOK, CallData, \A c \in Calls : OpenInv(c) /\ AnswerInv(c),
           NEW c \in Calls,
           \/ \E r \in Requests : Receive(c, r)
           \/ Simulated(c) \/ SimulationFailed(c) \/ LoadPolicy(c) \/ LoadFallback(c)
           \/ CoSign(c)
    PROVE  \A d \in Calls : OpenInv(d)' /\ AnswerInv(d)'
<1>1. \A d \in Calls : d # c => Untouched(d)
  <2>1. CASE \E r \in Requests : Receive(c, r)
    BY <2>1 DEF Receive, TypeOK, Untouched, OpenInv
  <2>2. CASE Simulated(c) \/ SimulationFailed(c)
    <3>1. CASE Simulated(c)
      BY <3>1 DEF Simulated, TypeOK, Untouched, OpenInv
    <3>2. CASE SimulationFailed(c)
      BY <3>2 DEF SimulationFailed, TypeOK, Untouched, OpenInv
    <3> QED
      BY <2>2, <3>1, <3>2
  <2>3. CASE LoadPolicy(c) \/ LoadFallback(c)
    BY <2>3 DEF LoadPolicy, LoadFallback, TypeOK, Untouched, OpenInv
  <2>4. CASE CoSign(c)
    BY <2>4 DEF CoSign, TypeOK, Untouched, OpenInv
  <2> QED
    BY <2>1, <2>2, <2>3, <2>4
<1>2. OpenInv(c)' /\ AnswerInv(c)'
  <2>1. ASSUME NEW r \in Requests, Receive(c, r)
        PROVE  OpenInv(c)' /\ AnswerInv(c)'
    <3>1. phase'[c] \in {"simulating", "loading"} /\ offered'[c] = {policyObject}
          /\ policyObject' = policyObject
      BY <2>1 DEF Receive, TypeOK
    <3> QED
      BY <3>1 DEF OpenInv, AnswerInv
  <2>2. CASE Simulated(c)
    <3>1. phase'[c] = "loading" /\ phase[c] = "simulating"
          /\ UNCHANGED <<policyObject, offered>>
      BY <2>2 DEF Simulated, TypeOK
    <3> QED
      BY <3>1 DEF OpenInv, AnswerInv, InFlight
  <2>3. CASE SimulationFailed(c)
    <3>1. phase'[c] = "refused" /\ response'[c] = "server-side simulation failed"
      BY <2>3 DEF SimulationFailed, TypeOK
    <3> QED
      BY <3>1 DEF OpenInv, AnswerInv, InFlight
  <2>4. CASE LoadPolicy(c)
    <3>1. /\ phase'[c] = "deciding" /\ phase[c] = "loading"
          /\ policy'[c] = VaultPolicyFromMoveObject(policyObject)
          /\ UNCHANGED <<policyObject, offered>>
      BY <2>4 DEF LoadPolicy, TypeOK
    <3> QED
      BY <3>1 DEF OpenInv, AnswerInv, InFlight
  <2>5. CASE LoadFallback(c)
    <3>1. /\ phase'[c] = "deciding" /\ phase[c] = "loading"
          /\ policy'[c] \in StandIns
          /\ UNCHANGED <<policyObject, offered>>
      BY <2>5 DEF LoadFallback, TypeOK, StandIns
    <3> QED
      BY <3>1 DEF OpenInv, AnswerInv, InFlight
  <2>6. CASE CoSign(c)
    <3> DEFINE prior == OutflowWithinWindow(Prune(ledger, request[c].vaultAddress, now),
                                            request[c].vaultAddress, facts[c].txDigest)
               V == EvaluatePolicyWithWindowOutflow(policy[c], facts[c], prior)
    <3>1. /\ phase[c] = "deciding" /\ facts[c] \in PolicyRequest
          /\ UNCHANGED <<policyObject, offered, facts, policy>>
          /\ policy[c] \in VaultPolicy
          /\ \/ phase'[c] = "signed" /\ V = "policy passed"
             \/ phase'[c] = "refused" /\ response'[c] \in {V, "txBytes is not valid base64"}
      BY <2>6 DEF CoSign, CallData, TypeOK
    <3>2. /\ V = "recipient is not allowlisted"
                 => ~Allowlisted(policy[c].allowedRecipients, facts[c].recipient)
          /\ V = "package is not allowlisted"
                 => ~Allowlisted(policy[c].allowedPackages, facts[c].package)
      BY VerdictMeaning
    <3>3. prior \in U64
      <4>1. /\ request[c].vaultAddress \in Texts /\ facts[c].txDigest \in Digests
            /\ facts[c].netOutflow \in U64 /\ now \in Nat
            /\ ledger \in [VaultKeys -> SUBSET ApprovedOutflow]
        BY <2>6, CoSignStep DEF CoSignRequest, PolicyRequest, TypeOK
      <4> DEFINE v == request[c].vaultAddress
                 pruned == Prune(ledger, v, now)
      <4>2. /\ pruned \in [VaultKeys -> SUBSET ApprovedOutflow]
            /\ IsFiniteSet(pruned[VaultKey(v)])
        BY <4>1, PruneType, FiniteEffect, VaultKeyType DEF LedgerInv, FiniteLedger
      <4> HIDE DEF v, pruned
      <4>3. OutflowWithinWindow(pruned, v, facts[c].txDigest) \in U64
        BY <4>1, <4>2, PriorIsTotal DEF v
      <4> QED
        BY <4>3 DEF v, pruned
    <3>4. V = "policy passed" => Permits(policy[c], facts[c])
      <4> HIDE DEF prior
      <4> QED
        BY <3>1, <3>3, PassesWithoutPrior
    <3> HIDE DEF V
    <3>5. AnswerInv(c)'
      BY <3>1, <3>2, <3>4 DEF AnswerInv, Permits, EvaluatePolicy, EvaluatePolicyWithWindowOutflow
    <3>6. OpenInv(c)'
      BY <3>1 DEF OpenInv, InFlight
    <3> QED
      BY <3>5, <3>6
  <2> QED
    BY <2>1, <2>2, <2>3, <2>4, <2>5, <2>6
<1> QED
  BY <1>1, <1>2, UntouchedKeeps

\* Every step keeps the invariants of every call.
LEMMA AnswersKept ==
    ASSUME LedgerInv, TypeOK, CallData, \A c \in Calls : OpenInv(c) /\ AnswerInv(c), [Next]_vars
    PROVE  \A c \in Calls : OpenInv(c)' /\ AnswerInv(c)'
<1>1. ASSUME NEW p \in PolicyObjects, SetPolicy(p)
      PROVE  \A c \in Calls : Untouched(c)
  BY <1>1 DEF SetPolicy, Untouched, OpenInv, TypeOK
<1>2. CASE Tick \/ ClockStepsBack \/ UNCHANGED vars
  <2>1. \A c \in Calls : Untouched(c)
    BY <1>2 DEF Tick, ClockStepsBack, vars, Untouched, OpenInv
  <2> QED
    BY <2>1, UntouchedKeeps
<1>3. CASE Restart
  <2>1. /\ \A c \in Calls : phase'[c] = phase[c] \/ phase'[c] = "lost"
        /\ \A c \in Calls : phase'[c] \notin {"simulating", "loading", "deciding"}
        /\ UNCHANGED <<policyObject, facts, policy, response, offered>>
    BY <1>3 DEF Restart, InFlight
  <2> QED
    BY <2>1 DEF OpenInv, AnswerInv, InFlight
<1> QED
  BY <1>1, <1>2, <1>3, HandlerKeepsAnswers, UntouchedKeeps DEF Next

\* The invariants of the calls hold in every reachable state.
LEMMA AnswersHold == Spec => [](\A c \in Calls : OpenInv(c) /\ AnswerInv(c))
<1>1. Init => \A c \in Calls : OpenInv(c) /\ AnswerInv(c)
  BY DEF Init, OpenInv, AnswerInv, InFlight
<1>2. /\ LedgerInv /\ (\A c \in Calls : OpenInv(c) /\ AnswerInv(c))
      /\ [Next]_vars
      => (\A c \in Calls : OpenInv(c) /\ AnswerInv(c))'
  BY AnswersKept DEF LedgerInv
<1> QED
  BY <1>1, <1>2, LedgerHolds, PTL DEF Spec

(* A signature passes the rules, apart from the rolling cap, of a policy    *)
(* its owner had on chain at some time during the call (main.rs co_sign,    *)
(* policy_source.rs load), or where none can be read of the enclave's own.  *)
THEOREM AlwaysUnderOwnersPolicy == Spec => []SignedUnderOwnersPolicy
<1>1. (\A c \in Calls : OpenInv(c) /\ AnswerInv(c)) => SignedUnderOwnersPolicy
  BY DEF OpenInv, AnswerInv, SignedUnderOwnersPolicy
<1> QED
  BY <1>1, AnswersHold, PTL

(* A spelling, by its parts.                                                *)
Spelt(who, upper, padded) == [who |-> who, upper |-> upper, padded |-> padded]

\* Setting a part of a spelling, and telling two spellings in lower case apart.
LEMMA SpeltParts ==
    ASSUME NEW who, NEW upper, NEW padded, NEW new
    PROVE  /\ [Spelt(who, upper, padded) EXCEPT !.upper = new] = Spelt(who, new, padded)
           /\ [Spelt(who, upper, padded) EXCEPT !.padded = new] = Spelt(who, upper, new)
  BY DEF Spelt

\* What the two normalisations do to a spelling.
LEMMA SpeltNormalized ==
    ASSUME NEW who, NEW upper, NEW padded
    PROVE  /\ NormalizeAddress(Spelt(who, upper, padded)) = Spelt(who, FALSE, padded)
           /\ NormalizeSuiAddress(Spelt(who, upper, padded)) = Spelt(who, FALSE, FALSE)
<1>1. PICK no : no = FALSE
  OBVIOUS
<1>2. /\ [Spelt(who, upper, padded) EXCEPT !.upper = no] = Spelt(who, no, padded)
      /\ [Spelt(who, no, padded) EXCEPT !.padded = no] = Spelt(who, no, no)
  BY SpeltParts
<1>3. NormalizeAddress(Spelt(who, upper, padded)) = Spelt(who, no, padded)
  BY <1>1, <1>2, Zenon DEF NormalizeAddress
<1>4. NormalizeSuiAddress(Spelt(who, upper, padded)) = Spelt(who, no, no)
  BY <1>1, <1>2, <1>3, Zenon DEF NormalizeSuiAddress
<1> QED
  BY <1>1, <1>3, <1>4, Zenon

\* A list read from the chain matches the spellings of its accounts without zeros.
LEMMA ListMatches ==
    ASSUME NEW t \in Texts, NEW accounts
    PROVE  Allowlisted({NormalizeSuiAddress(FullnodeText(a)) : a \in accounts}, t)
               <=> OnList(t, accounts)
<1>1. t = Spelt(t.who, t.upper, t.padded) /\ t.padded \in BOOLEAN
  BY DEF Texts, Spelt
<1>2. NormalizeAddress(t) = Spelt(t.who, FALSE, t.padded)
  BY <1>1, SpeltNormalized, Zenon
<1>3. ASSUME NEW a
      PROVE  EqIgnoreAsciiCase(NormalizeSuiAddress(FullnodeText(a)), t)
                 <=> a = t.who /\ t.padded = FALSE
  <2>1. FullnodeText(a) = Spelt(a, FALSE, a \in ShortAccounts)
    BY DEF FullnodeText, Spelt
  <2>2. NormalizeSuiAddress(FullnodeText(a)) = Spelt(a, FALSE, FALSE)
    BY <2>1, SpeltNormalized, Zenon
  <2>3. NormalizeAddress(Spelt(a, FALSE, FALSE)) = Spelt(a, FALSE, FALSE)
    BY SpeltNormalized, Zenon
  <2>4. EqIgnoreAsciiCase(NormalizeSuiAddress(FullnodeText(a)), t)
            <=> Spelt(a, FALSE, FALSE) = Spelt(t.who, FALSE, t.padded)
    BY <1>2, <2>2, <2>3, Zenon DEF EqIgnoreAsciiCase
  <2>5. Spelt(a, FALSE, FALSE) = Spelt(t.who, FALSE, t.padded)
            <=> a = t.who /\ t.padded = FALSE
    BY DEF Spelt
  <2> QED
    BY <2>4, <2>5, Zenon
<1>4. Allowlisted({NormalizeSuiAddress(FullnodeText(a)) : a \in accounts}, t)
           <=> \E a \in accounts : EqIgnoreAsciiCase(NormalizeSuiAddress(FullnodeText(a)), t)
  BY Zenon DEF Allowlisted
<1>5. t.padded = FALSE <=> ~t.padded
  BY <1>1
<1> QED
  BY <1>3, <1>4, <1>5, Zenon DEF OnList

(* The lists of a policy read from the chain let an account through exactly *)
(* when it is listed and spelled without leading zeros, in whichever case   *)
(* (policy.rs, and policy_source.rs:135 for the zeros).                     *)
THEOREM AlwaysListedAsSpelled == Spec => []ListedAsSpelled
<1>1. ASSUME \A c \in Calls : OpenInv(c) /\ AnswerInv(c)
      PROVE  ListedAsSpelled
  <2>1. SUFFICES ASSUME NEW c \in Calls, NEW p \in PolicyObjects,
                        policy[c] = VaultPolicyFromMoveObject(p)
                 PROVE  /\ phase[c] = "signed"
                            => /\ OnList(facts[c].recipient, p.allowedRecipients)
                               /\ OnList(facts[c].package, p.allowedPackages)
                        /\ phase[c] = "refused"
                            => /\ response[c] = "recipient is not allowlisted"
                                    => ~OnList(facts[c].recipient, p.allowedRecipients)
                               /\ response[c] = "package is not allowlisted"
                                    => ~OnList(facts[c].package, p.allowedPackages)
    BY DEF ListedAsSpelled
  <2>2. /\ policy[c].allowedRecipients =
               {NormalizeSuiAddress(FullnodeText(a)) : a \in p.allowedRecipients}
        /\ policy[c].allowedPackages =
               {NormalizeSuiAddress(FullnodeText(a)) : a \in p.allowedPackages}
    BY <2>1 DEF VaultPolicyFromMoveObject
  <2>3. ASSUME facts[c] \in PolicyRequest
        PROVE  /\ Allowlisted(policy[c].allowedRecipients, facts[c].recipient)
                      <=> OnList(facts[c].recipient, p.allowedRecipients)
               /\ Allowlisted(policy[c].allowedPackages, facts[c].package)
                      <=> OnList(facts[c].package, p.allowedPackages)
    <3>1. facts[c].recipient \in Texts /\ facts[c].package \in Texts
      BY <2>3 DEF PolicyRequest
    <3> QED
      BY <2>2, <3>1, ListMatches
  <2>4. ASSUME phase[c] = "signed"
        PROVE  /\ facts[c] \in PolicyRequest
               /\ Allowlisted(policy[c].allowedRecipients, facts[c].recipient)
               /\ Allowlisted(policy[c].allowedPackages, facts[c].package)
    BY <1>1, <2>4, VerdictMeaning DEF AnswerInv, Permits, EvaluatePolicy
  <2>5. ASSUME phase[c] = "refused"
        PROVE  /\ response[c] = "recipient is not allowlisted"
                     => /\ facts[c] \in PolicyRequest
                        /\ ~Allowlisted(policy[c].allowedRecipients, facts[c].recipient)
               /\ response[c] = "package is not allowlisted"
                     => /\ facts[c] \in PolicyRequest
                        /\ ~Allowlisted(policy[c].allowedPackages, facts[c].package)
    BY <1>1, <2>5 DEF AnswerInv
  <2> QED
    BY <2>3, <2>4, <2>5
<1> QED
  BY <1>1, AnswersHold, PTL
=============================================================================
