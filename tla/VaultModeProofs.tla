---------------------------- MODULE VaultModeProofs ----------------------------
(* For every set of configs, guardians, timelocks and transactions: the types, *)
(* the guardrail, and that recovery implements the timelocked release.         *)
EXTENDS VaultMode, FiniteSetTheorems, TLAPS

\* The clock is past zero and fits in u64, and no request is of the future.
RequestInv ==
    /\ now >= 1 /\ now <= U64Max
    /\ \A c \in Configs : config[c] # None => config[c].recovery_requested_at <= now

\* The first request of the vault's own config is never after its latest.
FirstInv ==
    /\ firstRequest # None => firstRequest <= now
    /\ config[Home] # None /\ config[Home].recovery_requested_at # 0 =>
        /\ firstRequest # None
        /\ firstRequest <= config[Home].recovery_requested_at

TimelockOver ==
    /\ config[Home] # None
    /\ firstRequest # None
    /\ now >= firstRequest + config[Home].timelock_ms

\* Nothing of the secret is out before the timelock is over.
ShareInv ==
    /\ split # None => config[Home] # None /\ split.threshold >= 2
    /\ IsFiniteSet(opened)
    /\ opened # {} => split # None /\ TimelockOver
    /\ recovered => opened # {}

\* A signature, and an execution, has what it takes.
SignatureInv ==
    /\ \A tx \in Txs : Recovery \in signatures[tx] => recovered
    /\ \A tx \in Txs : Enclave \in signatures[tx] => tx \in Allowed
    /\ \A tx \in executed \ Allowed : Recovery \in signers /\ recovered

IInv == TypeOK /\ RequestInv /\ FirstInv /\ ShareInv /\ SignatureInv

USE RecoveryAssumption, NoneIsNothing, VaultAssumption

\* Timelocks are natural numbers.
LEMMA TimelockIsNat == Timelocks \subseteq Nat
OBVIOUS

\* Two of the three members without the enclave are the passkey and the recovery key.
LEMMA WeightWithoutEnclave ==
    ASSUME NEW S, S \subseteq Roles, Enclave \notin S, Weight(S) >= Threshold
    PROVE  Recovery \in S
<1> SUFFICES ASSUME Recovery \notin S PROVE FALSE
    OBVIOUS
<1>1. S \subseteq {Passkey}
    BY DEF Roles
<1>2. IsFiniteSet({Passkey}) /\ Cardinality({Passkey}) = 1
    BY FS_Singleton
<1>3. Cardinality(S) <= 1 /\ Cardinality(S) \in Nat
    BY <1>1, <1>2, FS_Subset, FS_CardinalityType
<1> QED
    BY <1>3 DEF Weight, Threshold

\* The inductive invariant holds initially.
LEMMA InitIInv == Init => IInv
<1> SUFFICES ASSUME Init PROVE IInv
    OBVIOUS
<1> USE DEF Init, RecoveryInit
<1>1. TypeOK
    BY DEF TypeOK, RecoveryTypeOK, Roles
<1>2. RequestInv /\ FirstInv
    BY DEF RequestInv, FirstInv
<1>3. ShareInv
    BY FS_EmptySet DEF ShareInv
<1>4. SignatureInv
    BY DEF SignatureInv
<1> QED
    BY <1>1, <1>2, <1>3, <1>4 DEF IInv

\* What RecoveryNext leaves of the vault's own part.
LEMMA VaultUnchanged ==
    ASSUME IInv, UNCHANGED vaultVars, recovered => recovered'
    PROVE  SignatureInv'
BY DEF IInv, SignatureInv, vaultVars, TypeOK

\* Creating a config (recovery.move 16-35) keeps the invariant.
LEMMA CreateConfigStep ==
    ASSUME IInv, UNCHANGED vaultVars,
           NEW c \in Configs, NEW timelock \in Timelocks, NEW guardians \in GuardianLists,
           NEW threshold \in 2 .. Len(guardians),
           CreateConfig(c, threshold, timelock, guardians)
    PROVE  IInv'
<1> DEFINE new == [shamir_threshold |-> threshold, timelock_ms |-> timelock,
                   guardians |-> guardians, recovery_requested_at |-> 0]
<1>1. guardians \in Seq(Addresses) /\ Len(guardians) \in Nat
    OBVIOUS
<1>2. new \in RecoveryConfig
    BY <1>1 DEF RecoveryConfig
<1>3. /\ config[c] = None /\ config' = [config EXCEPT ![c] = new]
      /\ UNCHANGED <<now, split, opened, recovered, requests, firstRequest>>
    BY DEF CreateConfig
<1>4. new.recovery_requested_at = 0
    OBVIOUS
<1> HIDE DEF new
<1>5. config \in [Configs -> RecoveryConfig \cup {None}]
    BY DEF IInv, TypeOK, RecoveryTypeOK
<1>6. config' \in [Configs -> RecoveryConfig \cup {None}]
    BY <1>2, <1>3, <1>5
<1>7. TypeOK'
    BY <1>3, <1>6 DEF IInv, TypeOK, RecoveryTypeOK, vaultVars
<1>8. config'[c] = new /\ \A d \in Configs : d # c => config'[d] = config[d]
    BY <1>3, <1>5
<1>9. RequestInv'
    BY <1>2, <1>3, <1>4, <1>8 DEF IInv, RequestInv, TypeOK, RecoveryTypeOK
<1>10. FirstInv'
    BY <1>3, <1>4, <1>8 DEF IInv, FirstInv
<1>11. config[Home] # None => config'[Home] = config[Home]
    BY <1>3, <1>8
<1>12. split # None => config[Home] # None
    BY DEF IInv, ShareInv
<1>13. ShareInv'
    BY <1>3, <1>11, <1>12 DEF IInv, ShareInv, TimelockOver
<1>14. SignatureInv'
    BY <1>3, VaultUnchanged
<1> QED
    BY <1>7, <1>9, <1>10, <1>13, <1>14 DEF IInv

\* A request, the first or a later one (recovery.move 37-44), keeps the invariant.
LEMMA RequestRecoveryStep ==
    ASSUME IInv, UNCHANGED vaultVars,
           NEW caller \in Addresses, NEW c \in Configs, RequestRecovery(caller, c)
    PROVE  /\ IInv'
           /\ config'[c] = [config[c] EXCEPT !.recovery_requested_at = now]
           /\ config'[c] # None
           /\ \A d \in Configs : d # c => config'[d] = config[d]
<1> DEFINE new == [config[c] EXCEPT !.recovery_requested_at = now]
<1>1. /\ config[c] # None /\ config' = [config EXCEPT ![c] = new]
      /\ requests' = [requests EXCEPT ![c] = @ + 1]
      /\ firstRequest' = IF c = Home /\ firstRequest = None THEN now ELSE firstRequest
      /\ UNCHANGED <<now, split, opened, recovered>>
    BY DEF RequestRecovery
<1>2. /\ config \in [Configs -> RecoveryConfig \cup {None}] /\ now \in Nat
      /\ requests \in [Configs -> Nat]
      /\ firstRequest \in Nat \cup {None}
    BY DEF IInv, TypeOK, RecoveryTypeOK
<1>3. config[c] \in RecoveryConfig
    BY <1>1, <1>2
<1>4. /\ new \in RecoveryConfig /\ new.recovery_requested_at = now
      /\ new.timelock_ms = config[c].timelock_ms
    BY <1>2, <1>3 DEF RecoveryConfig
<1>5. new # None
    BY <1>4
<1> HIDE DEF new
<1>6. config'[c] = new /\ \A d \in Configs : d # c => config'[d] = config[d]
    BY <1>1, <1>2
<1>7. config' \in [Configs -> RecoveryConfig \cup {None}]
    BY <1>1, <1>2, <1>4
<1>8. requests' \in [Configs -> Nat] /\ firstRequest' \in Nat \cup {None}
    BY <1>1, <1>2
<1>9. TypeOK'
    BY <1>1, <1>7, <1>8 DEF IInv, TypeOK, RecoveryTypeOK, vaultVars
<1>10. RequestInv'
    BY <1>1, <1>2, <1>4, <1>6 DEF IInv, RequestInv
<1>11. FirstInv'
  <2>1. CASE c # Home
      BY <2>1, <1>1, <1>6 DEF IInv, FirstInv
  <2>2. CASE c = Home /\ firstRequest = None
      BY <2>2, <1>1, <1>2, <1>4, <1>6 DEF FirstInv
  <2>3. CASE c = Home /\ firstRequest # None
    <3>1. firstRequest <= now
        BY <2>3 DEF IInv, FirstInv
    <3> QED
        BY <2>3, <3>1, <1>1, <1>4, <1>6 DEF FirstInv
  <2> QED
      BY <2>1, <2>2, <2>3
<1>12. ShareInv'
  <2>1. config[Home] # None =>
          config'[Home] # None /\ config'[Home].timelock_ms = config[Home].timelock_ms
      BY <1>4, <1>5, <1>6
  <2>2. firstRequest # None => firstRequest' = firstRequest
      BY <1>1
  <2> QED
      BY <1>1, <2>1, <2>2 DEF IInv, ShareInv, TimelockOver
<1>13. SignatureInv'
    BY <1>1, VaultUnchanged
<1> QED
    BY <1>5, <1>6, <1>9, <1>10, <1>11, <1>12, <1>13 DEF IInv, new

\* Splitting the key into shares (recovery.ts) keeps the invariant.
LEMMA CreateSharesStep ==
    ASSUME IInv, UNCHANGED vaultVars,
           NEW guardians \in GuardianLists, NEW threshold \in 2 .. Len(guardians),
           CreateGuardianRecoveryShares(guardians, threshold)
    PROVE  IInv'
<1>1. /\ config[Home] # None /\ split = None
      /\ split' = [count |-> Len(guardians), threshold |-> threshold]
      /\ UNCHANGED <<now, config, opened, recovered, requests, firstRequest>>
    BY DEF CreateGuardianRecoveryShares
<1>2. guardians \in Seq(Addresses) /\ Len(guardians) \in Nat
    OBVIOUS
<1>3. split' \in Sharing /\ split'.threshold >= 2
    BY <1>1, <1>2 DEF Sharing
<1>4. TypeOK'
    BY <1>1, <1>3 DEF IInv, TypeOK, RecoveryTypeOK, vaultVars
<1>5. RequestInv' /\ FirstInv'
    BY <1>1 DEF IInv, RequestInv, FirstInv
<1>6. ShareInv'
    BY <1>1, <1>3 DEF IInv, ShareInv, TimelockOver
<1>7. SignatureInv'
    BY <1>1, VaultUnchanged
<1> QED
    BY <1>4, <1>5, <1>6, <1>7 DEF IInv

\* A share that is opened (recovery.move 55-65) keeps the invariant.
LEMMA OpenShareStep ==
    ASSUME IInv, UNCHANGED vaultVars,
           split # None, NEW caller \in Addresses, NEW index \in 1 .. split.count,
           NEW c \in Configs, OpenShare(caller, index, c)
    PROVE  /\ IInv'
           /\ config[Home].recovery_requested_at # 0
           /\ now >= config[Home].recovery_requested_at + config[Home].timelock_ms
<1>1. /\ config[c] # None /\ CheckPolicy(caller, BuildSealShareIdentity(Home, index), c)
      /\ opened' = opened \cup {index}
      /\ UNCHANGED <<now, config, split, recovered, requests, firstRequest>>
    BY DEF OpenShare
<1>2. c = Home
    BY <1>1 DEF CheckPolicy, HasConfigPrefix, BuildSealShareIdentity
<1>3. /\ config[Home].recovery_requested_at # 0
      /\ now >= config[Home].recovery_requested_at + config[Home].timelock_ms
    BY <1>1, <1>2 DEF CheckPolicy
<1>4. /\ config[Home] \in RecoveryConfig /\ split \in Sharing /\ now \in Nat
      /\ firstRequest \in Nat \cup {None}
    BY <1>1, <1>2 DEF IInv, TypeOK, RecoveryTypeOK
<1>5. TimelockOver
  <2>1. config[Home].timelock_ms \in Nat /\ config[Home].recovery_requested_at \in Nat
      BY <1>4, TimelockIsNat DEF RecoveryConfig
  <2>2. firstRequest \in Nat /\ firstRequest <= config[Home].recovery_requested_at
      BY <1>1, <1>2, <1>3, <1>4 DEF IInv, FirstInv
  <2> QED
      BY <1>1, <1>2, <1>3, <1>4, <2>1, <2>2 DEF TimelockOver
<1>6. index \in Nat
    BY <1>4 DEF Sharing
<1>7. TypeOK'
    BY <1>1, <1>6 DEF IInv, TypeOK, RecoveryTypeOK, vaultVars
<1>8. RequestInv' /\ FirstInv'
    BY <1>1 DEF IInv, RequestInv, FirstInv
<1>9. IsFiniteSet(opened')
    BY <1>1, FS_AddElement DEF IInv, ShareInv
<1>10. ShareInv'
    BY <1>1, <1>5, <1>9 DEF IInv, ShareInv, TimelockOver
<1>11. SignatureInv'
    BY <1>1, VaultUnchanged
<1> QED
    BY <1>3, <1>7, <1>8, <1>10, <1>11 DEF IInv

\* Combining opened shares (recovery.ts) keeps the invariant.
LEMMA CombineStep ==
    ASSUME IInv, UNCHANGED vaultVars, CombineGuardianShares
    PROVE  IInv'
<1>1. /\ Enough /\ recovered' = TRUE
      /\ UNCHANGED <<now, config, split, opened, requests, firstRequest>>
    BY DEF CombineGuardianShares
<1>2. opened # {}
    BY <1>1, FS_EmptySet DEF Enough, IInv, ShareInv, TypeOK, RecoveryTypeOK, Sharing
<1>3. TypeOK'
    BY <1>1 DEF IInv, TypeOK, RecoveryTypeOK, vaultVars
<1>4. RequestInv' /\ FirstInv'
    BY <1>1 DEF IInv, RequestInv, FirstInv
<1>5. ShareInv'
    BY <1>1, <1>2 DEF IInv, ShareInv, TimelockOver
<1>6. SignatureInv'
    BY <1>1, VaultUnchanged
<1> QED
    BY <1>3, <1>4, <1>5, <1>6 DEF IInv

\* A tick of the chain's clock keeps the invariant.
LEMMA TickStep ==
    ASSUME IInv, UNCHANGED vaultVars, Tick
    PROVE  IInv'
<1>1. now' = now + 1 /\ UNCHANGED <<config, split, opened, recovered, requests, firstRequest>>
    BY DEF Tick
<1>2. TypeOK /\ now \in Nat /\ firstRequest \in Nat \cup {None}
      /\ \A c \in Configs : config[c] # None => config[c] \in RecoveryConfig
    BY DEF IInv, TypeOK, RecoveryTypeOK
<1>3. TypeOK'
    BY <1>1, <1>2 DEF TypeOK, RecoveryTypeOK, vaultVars
<1>4. RequestInv'
  <2>1. now < U64Max
    <3>1. CASE now < MaxTime
        BY <1>2, <3>1
    <3>2. CASE \E c \in Configs : Maturing(c)
      <4>1. PICK c \in Configs : Maturing(c)
          BY <3>2
      <4>2. config[c].recovery_requested_at \in Nat /\ config[c].timelock_ms \in Nat
          BY <1>2, <4>1, TimelockIsNat DEF Maturing, RecoveryConfig
      <4> QED
          BY <1>2, <4>1, <4>2 DEF Maturing
    <3> QED
        BY <3>1, <3>2 DEF Tick
  <2> QED
      BY <1>1, <1>2, <2>1 DEF IInv, RequestInv, RecoveryConfig
<1>5. FirstInv'
    BY <1>1, <1>2 DEF IInv, FirstInv
<1>6. TimelockOver => TimelockOver'
  <2> SUFFICES ASSUME TimelockOver PROVE TimelockOver'
      OBVIOUS
  <2>1. config[Home].timelock_ms \in Nat
      BY <1>2, TimelockIsNat DEF TimelockOver, RecoveryConfig
  <2>2. firstRequest \in Nat
      BY <1>2 DEF TimelockOver
  <2>3. now + 1 >= firstRequest + config[Home].timelock_ms
      BY <1>2, <2>1, <2>2 DEF TimelockOver
  <2> QED
      BY <1>1, <2>3 DEF TimelockOver
<1>7. ShareInv'
    BY <1>1, <1>6 DEF IInv, ShareInv
<1>8. SignatureInv'
    BY <1>1, VaultUnchanged
<1> QED
    BY <1>3, <1>4, <1>5, <1>7, <1>8 DEF IInv

\* The vault's own steps leave recovery alone.
LEMMA RecoveryUnchanged ==
    ASSUME IInv, UNCHANGED recoveryVars
    PROVE  RecoveryTypeOK' /\ RequestInv' /\ FirstInv' /\ ShareInv'
<1>1. UNCHANGED <<now, config, split, opened, recovered, requests, firstRequest>>
    BY DEF recoveryVars
<1>2. RecoveryTypeOK'
    BY <1>1 DEF IInv, TypeOK, RecoveryTypeOK
<1>3. RequestInv' /\ FirstInv'
    BY <1>1 DEF IInv, RequestInv, FirstInv
<1>4. ShareInv'
    BY <1>1 DEF IInv, ShareInv, TimelockOver
<1> QED
    BY <1>2, <1>3, <1>4

\* A partial signature (vault-account.ts) keeps the invariant.
LEMMA SignStep ==
    ASSUME IInv, NEW tx \in Txs, PasskeySign(tx) \/ EnclaveSign(tx) \/ RecoverySign(tx)
    PROVE  IInv' /\ UNCHANGED recoveryVars
<1>1. PICK role \in Roles :
          /\ role = Recovery => recovered
          /\ role = Enclave => tx \in Allowed
          /\ Sign(role, tx)
    BY DEF PasskeySign, EnclaveSign, RecoverySign, Roles
<1>2. /\ signatures' = [signatures EXCEPT ![tx] = @ \cup {role}]
      /\ UNCHANGED recoveryVars /\ UNCHANGED <<signers, executed>>
    BY <1>1 DEF Sign
<1>3. signatures \in [Txs -> SUBSET Roles]
    BY DEF IInv, TypeOK
<1>4. signatures' \in [Txs -> SUBSET Roles]
    BY <1>2, <1>3
<1>5. TypeOK'
    BY <1>2, <1>4, RecoveryUnchanged DEF IInv, TypeOK
<1>6. \A t \in Txs, r \in Roles :
          r \in signatures'[t] => r \in signatures[t] \/ (t = tx /\ r = role)
    BY <1>2, <1>3
<1>7. SignatureInv'
    BY <1>1, <1>2, <1>6 DEF IInv, SignatureInv, Roles, recoveryVars
<1> QED
    BY <1>2, <1>5, <1>7, RecoveryUnchanged DEF IInv

\* An execution keeps the invariant.
LEMMA ExecuteStep ==
    ASSUME IInv, NEW tx \in Txs, Execute(tx)
    PROVE  IInv' /\ UNCHANGED recoveryVars
<1>1. /\ Weight(signatures[tx] \cap signers) >= Threshold
      /\ executed' = executed \cup {tx}
      /\ UNCHANGED recoveryVars /\ UNCHANGED <<signers, signatures>>
    BY DEF Execute
<1>2. TypeOK'
    BY <1>1, RecoveryUnchanged DEF IInv, TypeOK
<1>3. tx \notin Allowed => Recovery \in signers /\ recovered
  <2> SUFFICES ASSUME tx \notin Allowed PROVE Recovery \in signers /\ recovered
      OBVIOUS
  <2>1. Enclave \notin signatures[tx]
      BY DEF IInv, SignatureInv
  <2>2. signatures[tx] \cap signers \subseteq Roles
      BY DEF IInv, TypeOK
  <2>3. Recovery \in signatures[tx] \cap signers
      BY <1>1, <2>1, <2>2, WeightWithoutEnclave
  <2> QED
      BY <2>3 DEF IInv, SignatureInv
<1>4. SignatureInv'
    BY <1>1, <1>3 DEF IInv, SignatureInv, recoveryVars
<1> QED
    BY <1>1, <1>2, <1>4, RecoveryUnchanged DEF IInv

\* Every step keeps the invariant.
LEMMA NextIInv == IInv /\ [Next]_vars => IInv'
<1> SUFFICES ASSUME IInv, [Next]_vars PROVE IInv'
    OBVIOUS
<1>1. CASE RecoveryNext /\ UNCHANGED vaultVars
    BY <1>1, CreateConfigStep, RequestRecoveryStep, CreateSharesStep, OpenShareStep,
       CombineStep, TickStep DEF RecoveryNext, OpenSomeShare
<1>2. CASE \E tx \in Txs : PasskeySign(tx) \/ EnclaveSign(tx) \/ RecoverySign(tx) \/ Execute(tx)
    BY <1>2, SignStep, ExecuteStep
<1>3. CASE UNCHANGED vars
    BY <1>3, RecoveryUnchanged, VaultUnchanged DEF vars, IInv, TypeOK, vaultVars, recoveryVars
<1> QED
    BY <1>1, <1>2, <1>3 DEF Next

\* The invariant holds in every reachable state.
LEMMA Invariance == Spec => []IInv
BY InitIInv, NextIInv, PTL DEF Spec

\* The variables keep their types, for all configs, guardians and timelocks
\* (recovery.move, vault-account.ts).
THEOREM VaultTypeCorrect == Spec => []TypeOK
<1>1. IInv => TypeOK
    BY DEF IInv
<1> QED
    BY <1>1, Invariance, PTL

\* Nothing outside the policy runs before the timelock since the first request is over,
\* whoever asks, opens, combines and signs, in whatever order (recovery.move 55-65).
THEOREM GuardrailTheorem == Spec => []GuardrailHolds
<1>1. IInv => GuardrailHolds
    BY DEF IInv, ShareInv, SignatureInv, TimelockOver, GuardrailHolds
<1> QED
    BY <1>1, Invariance, PTL

\* The panel and the chain agree on when the way out is open, for every config and
\* guardian and up to the last tick of u64 (vault-liveness.ts, recovery.move 55-65).
THEOREM PanelTheorem == Spec => []PanelAgreesWithChain
<1>1. IInv => PanelAgreesWithChain
  <2> SUFFICES ASSUME IInv, NEW c \in Configs, NEW caller \in Addresses,
                      config[c] # None, IsGuardian(config[c], caller)
               PROVE  LET cfg == config[c]
                          at == IF cfg.recovery_requested_at = 0 THEN None
                                ELSE cfg.recovery_requested_at
                      IN  VaultLivenessState(FALSE, at, cfg.timelock_ms, now).status
                            = "escape-available"
                            <=> CheckPolicy(caller, BuildSealShareIdentity(c, 1), c)
      BY DEF PanelAgreesWithChain
  <2> DEFINE r == config[c].recovery_requested_at
             tl == config[c].timelock_ms
             at == IF r = 0 THEN None ELSE r
             status == VaultLivenessState(FALSE, at, tl, now).status
  <2>1. r \in Nat /\ tl \in Nat /\ now \in Nat /\ now <= U64Max
      BY TimelockIsNat DEF IInv, TypeOK, RecoveryTypeOK, RecoveryConfig, RequestInv
  <2>2. CheckPolicy(caller, BuildSealShareIdentity(c, 1), c)
          <=> r # 0 /\ r + tl <= U64Max /\ now >= r + tl
      BY DEF CheckPolicy, HasConfigPrefix, BuildSealShareIdentity
  <2>3. CASE r = 0
    <3>1. status = "request-recovery"
        BY <2>3 DEF VaultLivenessState
    <3> QED
        BY <2>2, <2>3, <3>1
  <2>4. CASE r # 0
    <3>1. at = r /\ at # None
        BY <2>1, <2>4
    <3>2. status = IF Later(0, r + tl - now) = 0 THEN "escape-available" ELSE "timelocked"
        BY <3>1 DEF VaultLivenessState
    <3>3. Later(0, r + tl - now) = 0 <=> now >= r + tl
        BY <2>1 DEF Later
    <3>4. CASE now >= r + tl
      <4>1. status = "escape-available"
          BY <3>2, <3>3, <3>4
      <4>2. CheckPolicy(caller, BuildSealShareIdentity(c, 1), c)
          BY <2>1, <2>2, <2>4, <3>4
      <4> QED
          BY <4>1, <4>2
    <3>5. CASE ~(now >= r + tl)
      <4>1. status = "timelocked"
          BY <3>2, <3>3, <3>5
      <4>2. ~CheckPolicy(caller, BuildSealShareIdentity(c, 1), c)
          BY <2>2, <3>5
      <4> QED
          BY <4>1, <4>2
    <3> QED
        BY <3>4, <3>5
  <2> QED
      BY <2>3, <2>4
<1> QED
    BY <1>1, Invariance, PTL

--------------------------------------------------------------------------------
(* Recovery implements the timelocked release. *)

USE DEF TR!rvars

\* Initial states map to initial states.
LEMMA AbstractInit == Init => TR!ReleaseInit
BY DEF Init, RecoveryInit, TR!ReleaseInit, Remaining, Enough

\* A step that leaves recovery alone is a stutter of the abstract release.
LEMMA AbstractUnchanged ==
    ASSUME UNCHANGED <<config[Home], now, split, opened>>
    PROVE  UNCHANGED TR!rvars
BY DEF Remaining, Enough, Later

\* What the mapping reads of a config that exists.
LEMMA HomeTypes ==
    ASSUME IInv, config[Home] # None
    PROVE  /\ config[Home].timelock_ms \in Nat
           /\ config[Home].recovery_requested_at \in Nat
           /\ now \in Nat /\ now >= 1
BY TimelockIsNat DEF IInv, TypeOK, RecoveryTypeOK, RecoveryConfig, RequestInv

\* A new config of the vault is the agreement on a lock; a foreign one is a stutter.
LEMMA AbstractCreateConfig ==
    ASSUME IInv, NEW c \in Configs, NEW timelock \in Timelocks, NEW guardians \in GuardianLists,
           NEW threshold \in 2 .. Len(guardians),
           CreateConfig(c, threshold, timelock, guardians), IInv'
    PROVE  TR!Agree \/ UNCHANGED TR!rvars
<1>1. /\ config[c] = None /\ UNCHANGED <<now, split, opened>>
      /\ config' = [config EXCEPT ![c] =
                    [shamir_threshold |-> threshold, timelock_ms |-> timelock,
                     guardians |-> guardians, recovery_requested_at |-> 0]]
    BY DEF CreateConfig
<1>2. config \in [Configs -> RecoveryConfig \cup {None}]
    BY DEF IInv, TypeOK, RecoveryTypeOK
<1>3. CASE c # Home
  <2>1. config'[Home] = config[Home]
      BY <1>1, <1>2, <1>3
  <2> QED
      BY <1>1, <2>1, AbstractUnchanged
<1>4. CASE c = Home
  <2>1. split = None
      BY <1>1, <1>4 DEF IInv, ShareInv
  <2>2. config'[Home].timelock_ms = timelock /\ config'[Home].recovery_requested_at = 0
      BY <1>1, <1>2, <1>4
  <2> QED
      BY <1>1, <1>4, <2>1, <2>2, TimelockIsNat DEF TR!Agree, Remaining, Enough
<1> QED
    BY <1>3, <1>4

\* A request in the vault's config starts the wait anew; in a foreign one it is a stutter.
LEMMA AbstractRequest ==
    ASSUME IInv, UNCHANGED vaultVars,
           NEW caller \in Addresses, NEW c \in Configs, RequestRecovery(caller, c)
    PROVE  TR!Request \/ UNCHANGED TR!rvars
<1>1. /\ config[c] # None /\ UNCHANGED <<now, split, opened>>
    BY DEF RequestRecovery
<1>2. /\ config'[c] = [config[c] EXCEPT !.recovery_requested_at = now]
      /\ config'[c] # None
      /\ \A d \in Configs : d # c => config'[d] = config[d]
    BY RequestRecoveryStep
<1>3. CASE c # Home
    BY <1>1, <1>2, <1>3, AbstractUnchanged
<1>4. CASE c = Home
  <2>1. config[Home] \in RecoveryConfig
      BY <1>1, <1>4 DEF IInv, TypeOK, RecoveryTypeOK
  <2>2. /\ config'[Home].timelock_ms = config[Home].timelock_ms
        /\ config'[Home].recovery_requested_at = now
      BY <1>2, <1>4, <2>1 DEF RecoveryConfig
  <2>3. Remaining' = config[Home].timelock_ms
      BY <1>1, <1>2, <1>4, <2>2, HomeTypes DEF Remaining, Later
  <2>4. UNCHANGED Enough
      BY <1>1 DEF Enough
  <2>5. config[Home] # None /\ config'[Home] # None
      BY <1>1, <1>2, <1>4
  <2>6. config[Home].timelock_ms # None
      BY <2>5, HomeTypes
  <2> QED
      BY <2>2, <2>3, <2>4, <2>5, <2>6 DEF TR!Request
<1> QED
    BY <1>3, <1>4

\* Splitting is a stutter.
LEMMA AbstractShares ==
    ASSUME IInv, NEW guardians \in GuardianLists, NEW threshold \in 2 .. Len(guardians),
           CreateGuardianRecoveryShares(guardians, threshold), IInv'
    PROVE  UNCHANGED TR!rvars
<1>1. split = None /\ UNCHANGED <<now, config, opened>> /\ config[Home] # None /\ split'.threshold >= 2
    BY DEF CreateGuardianRecoveryShares, IInv, ShareInv
<1>2. opened = {}
    BY <1>1 DEF IInv, ShareInv
<1>3. Cardinality(opened') = 0
    BY <1>1, <1>2, FS_EmptySet
<1>4. split' \in Sharing \cup {None}
    BY DEF IInv, TypeOK, RecoveryTypeOK
<1>5. ~Enough /\ ~Enough'
    BY <1>1, <1>3, <1>4 DEF Enough, Sharing
<1>6. UNCHANGED <<config[Home], Remaining>>
    BY <1>1 DEF Remaining
<1>7. UNCHANGED Enough
    BY <1>5 DEF Enough
<1> QED
    BY <1>6, <1>7

\* The share that completes the secret is its release; another one is a stutter.
LEMMA AbstractOpen ==
    ASSUME IInv, UNCHANGED vaultVars,
           split # None, NEW caller \in Addresses, NEW index \in 1 .. split.count,
           NEW c \in Configs, OpenShare(caller, index, c)
    PROVE  TR!Release \/ UNCHANGED TR!rvars
<1>1. opened' = opened \cup {index} /\ UNCHANGED <<now, config, split>>
    BY DEF OpenShare
<1>2. config[Home] # None
    BY DEF IInv, ShareInv
<1>3. Remaining = 0
    BY <1>2, HomeTypes, OpenShareStep DEF Remaining, Later
<1>4. UNCHANGED <<Remaining, config[Home]>>
    BY <1>1 DEF Remaining
<1>5. Enough => Enough'
  <2>0. IsFiniteSet(opened)
      BY DEF IInv, ShareInv
  <2>1. /\ Cardinality(opened) \in Nat
        /\ Cardinality(opened') = IF index \in opened THEN Cardinality(opened)
                                  ELSE Cardinality(opened) + 1
      BY <1>1, <2>0, FS_AddElement, FS_CardinalityType
  <2>2. split.threshold \in Nat
      BY DEF IInv, TypeOK, RecoveryTypeOK, Sharing
  <2> QED
      BY <1>1, <2>1, <2>2 DEF Enough
<1>6. Enough \in BOOLEAN /\ Enough' \in BOOLEAN
    BY DEF Enough
<1>7. CASE Enough'
    BY <1>3, <1>4, <1>7 DEF TR!Release
<1>8. CASE ~Enough'
    BY <1>4, <1>5, <1>6, <1>8
<1> QED
    BY <1>7, <1>8

\* A tick is a wait or a stutter.
LEMMA AbstractTick ==
    ASSUME IInv, Tick
    PROVE  TR!Wait \/ UNCHANGED TR!rvars
<1>1. now' = now + 1 /\ UNCHANGED <<config, split, opened>>
    BY DEF Tick
<1>2. UNCHANGED <<config[Home], Enough>>
    BY <1>1 DEF Enough
<1>3. CASE config[Home] = None \/ config[Home].recovery_requested_at = 0
  <2>1. Remaining = None /\ Remaining' = None
      BY <1>1, <1>3 DEF Remaining
  <2> QED
      BY <1>2, <2>1
<1>4. CASE config[Home] # None /\ config[Home].recovery_requested_at # 0
  <2> DEFINE end == config[Home].recovery_requested_at + config[Home].timelock_ms
             left(t) == IF 0 >= end - t THEN 0 ELSE end - t
  <2>1. end \in Nat /\ now \in Nat
      BY <1>4, HomeTypes
  <2>2. Remaining = left(now)
      BY <1>4, HomeTypes DEF Remaining, Later
  <2>3. Remaining' = left(now + 1)
    <3>1. config'[Home] = config[Home] /\ now' = now + 1
        BY <1>1
    <3> QED
        BY <1>4, <3>1, HomeTypes DEF Remaining, Later
  <2> HIDE DEF end
  <2>4. Remaining \in Nat
      BY <2>1, <2>2
  <2>5. Remaining > 0 => Remaining' = Remaining - 1
      BY <2>1, <2>2, <2>3
  <2>6. ~(Remaining > 0) => Remaining' = Remaining
      BY <2>1, <2>2, <2>3
  <2>7. Remaining # None
      BY <2>4
  <2> QED
      BY <1>2, <2>5, <2>6, <2>7 DEF TR!Wait
<1> QED
    BY <1>3, <1>4

\* Every step maps to a step or a stutter of the abstract release.
LEMMA AbstractNext == IInv /\ IInv' /\ [Next]_vars => [TR!ReleaseNext]_(TR!rvars)
<1> SUFFICES ASSUME IInv, IInv', [Next]_vars
             PROVE  TR!ReleaseNext \/ UNCHANGED TR!rvars
    OBVIOUS
<1>1. CASE RecoveryNext /\ UNCHANGED vaultVars
  <2>1. CASE CombineGuardianShares
      BY <2>1, AbstractUnchanged DEF CombineGuardianShares
  <2> QED
      BY <1>1, <2>1, AbstractCreateConfig, AbstractRequest, AbstractShares, AbstractOpen,
         AbstractTick DEF RecoveryNext, OpenSomeShare, TR!ReleaseNext
<1>2. CASE \E tx \in Txs : PasskeySign(tx) \/ EnclaveSign(tx) \/ RecoverySign(tx) \/ Execute(tx)
  <2>1. UNCHANGED recoveryVars
      BY <1>2, SignStep, ExecuteStep
  <2> QED
      BY <2>1, AbstractUnchanged DEF recoveryVars
<1>3. CASE UNCHANGED vars
    BY <1>3, AbstractUnchanged DEF vars, recoveryVars
<1> QED
    BY <1>1, <1>2, <1>3 DEF Next

\* Guardian recovery keeps the promise of the timelocked release: the last share that
\* takes it is never opened before the wait since the latest request is over, and a
\* request starts the wait again (recovery.move 37-65, recovery.ts 53-89).
THEOREM ImplementsTimelockedRelease == Spec => TimelockRespected
<1>1. Spec => []IInv
    BY Invariance
<1> QED
    BY <1>1, AbstractInit, AbstractNext, PTL DEF Spec, TimelockRespected, TR!ReleaseSpec
================================================================================
