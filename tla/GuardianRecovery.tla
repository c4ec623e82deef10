---------------------------- MODULE GuardianRecovery ----------------------------
(* Guardian recovery: the shared RecoveryConfig objects of recovery.move and   *)
(* their three entry functions, the secret a client splits into Seal-encrypted *)
(* shares, the key servers that open a share for whoever passes seal_approve,  *)
(* and the client that puts the shares together again.                         *)
(* Abstracted: the secret and the ciphertexts (a share is its index), the      *)
(* config's owner (only an accessor reads it), Seal's threshold of key servers *)
(* (an open share is one that enough of them released).                        *)
EXTENDS Integers, FiniteSets, Sequences

CONSTANTS
    None,
    Configs,        \* object ids of RecoveryConfig
    Home,           \* the config under whose id the secret's shares are encrypted
    Addresses,      \* senders of transactions
    GuardianLists,  \* guardian vectors that create_config may be given
    Timelocks,      \* values of timelock_ms that create_config may be given
    U64Max,         \* u64::MAX
    MaxTime,        \* bound: the clock stops here unless a request is maturing
    MaxRequests     \* bound: calls of request_recovery on one config

ASSUME RecoveryAssumption ==
    /\ U64Max \in Nat /\ MaxTime \in 1 .. U64Max /\ MaxRequests \in Nat
    /\ Home \in Configs
    /\ Timelocks \subseteq 0 .. U64Max
    /\ GuardianLists \subseteq Seq(Addresses)

VARIABLES
    now,           \* timestamp_ms of the chain's Clock
    config,        \* the shared RecoveryConfig objects, None before create_config
    split,         \* the sharing of the secret, None before the client made it
    opened,        \* indexes of the shares that have been decrypted
    recovered,     \* the client has combined enough shares to the secret
    requests,      \* calls of request_recovery on each config so far
    firstRequest   \* history: when recovery was first requested from Home

recoveryVars == <<now, config, split, opened, recovered, requests, firstRequest>>

RecoveryConfig ==
    [shamir_threshold : Nat, timelock_ms : Timelocks,
     guardians : GuardianLists, recovery_requested_at : Nat]

Sharing == [count : Nat, threshold : Nat]

ASSUME NoneIsNothing == None \notin Nat /\ None \notin RecoveryConfig /\ None \notin Sharing

RecoveryTypeOK ==
    /\ now \in Nat
    /\ config \in [Configs -> RecoveryConfig \cup {None}]
    /\ split \in Sharing \cup {None}
    /\ opened \subseteq Nat
    /\ recovered \in BOOLEAN
    /\ requests \in [Configs -> Nat]
    /\ firstRequest \in Nat \cup {None}

\* The clock of a running chain is past zero, which the code reads as "no request".
RecoveryInit ==
    /\ now = 1
    /\ config = [c \in Configs |-> None]
    /\ split = None
    /\ opened = {}
    /\ recovered = FALSE
    /\ requests = [c \in Configs |-> 0]
    /\ firstRequest = None

--------------------------------------------------------------------------------
(* The Move package. *)

IsGuardian(cfg, caller) == \E i \in DOMAIN cfg.guardians : cfg.guardians[i] = caller

\* A share's identity is the config's id followed by the share's index.
BuildSealShareIdentity(c, index) == <<c, index>>

HasConfigPrefixByLength(c, id) == Len(id) >= 1  \* mutation: the bytes are not compared

HasConfigPrefix(c, id) == id[1] = c

\* Mutation: the sentinel of "no request" is taken for a request at time zero.
CheckPolicyUnrequested(caller, id, c) ==
    LET cfg == config[c]
    IN  /\ IsGuardian(cfg, caller)
        /\ cfg.recovery_requested_at + cfg.timelock_ms <= U64Max
        /\ now >= cfg.recovery_requested_at + cfg.timelock_ms
        /\ HasConfigPrefix(c, id)

\* Mutation: the last tick of the timelock is waited for as well.
CheckPolicyAfter(caller, id, c) ==
    LET cfg == config[c]
    IN  /\ IsGuardian(cfg, caller)
        /\ cfg.recovery_requested_at # 0
        /\ cfg.recovery_requested_at + cfg.timelock_ms <= U64Max
        /\ now > cfg.recovery_requested_at + cfg.timelock_ms
        /\ HasConfigPrefix(c, id)

\* In u64 arithmetic a sum that does not fit aborts, as if the check had failed.
CheckPolicy(caller, id, c) ==
    LET cfg == config[c]
    IN  /\ IsGuardian(cfg, caller)
        /\ cfg.recovery_requested_at # 0
        /\ cfg.recovery_requested_at + cfg.timelock_ms <= U64Max
        /\ now >= cfg.recovery_requested_at + cfg.timelock_ms
        /\ HasConfigPrefix(c, id)

\* Mutation: the timelock is given in seconds and stored as milliseconds.
CreateConfigInSeconds(c, threshold, timelock, guardians) ==
    /\ config[c] = None
    /\ threshold \in 2 .. Len(guardians)
    /\ config' = [config EXCEPT ![c] =
                    [shamir_threshold |-> threshold, timelock_ms |-> timelock * 1000,
                     guardians |-> guardians, recovery_requested_at |-> 0]]
    /\ UNCHANGED <<now, split, opened, recovered, requests, firstRequest>>

CreateConfig(c, threshold, timelock, guardians) ==
    /\ config[c] = None
    /\ Len(guardians) >= 2
    /\ threshold \in 2 .. Len(guardians)
    /\ config' = [config EXCEPT ![c] =
                    [shamir_threshold |-> threshold, timelock_ms |-> timelock,
                     guardians |-> guardians, recovery_requested_at |-> 0]]
    /\ UNCHANGED <<now, split, opened, recovered, requests, firstRequest>>

RequestRecovery(caller, c) ==
    /\ requests[c] < MaxRequests
    /\ config[c] # None
    /\ IsGuardian(config[c], caller)
    /\ config' = [config EXCEPT ![c].recovery_requested_at = now]
    /\ requests' = [requests EXCEPT ![c] = @ + 1]
    /\ firstRequest' = IF c = Home /\ firstRequest = None THEN now ELSE firstRequest
    /\ UNCHANGED <<now, split, opened, recovered>>

--------------------------------------------------------------------------------
(* The client and the key servers. *)

\* createGuardianRecoveryShares: the client passes its own guardian list and threshold.
CreateGuardianRecoveryShares(guardians, threshold) ==
    /\ config[Home] # None
    /\ split = None
    /\ Len(guardians) >= 2
    /\ threshold \in 2 .. Len(guardians)
    /\ split' = [count |-> Len(guardians), threshold |-> threshold]
    /\ UNCHANGED <<now, config, opened, recovered, requests, firstRequest>>

\* Key servers run seal_approve for the caller, who chooses the config to name, and
\* the caller decrypts. Nothing ties a share's index to one guardian.
OpenShare(caller, index, c) ==
    /\ config[c] # None
    /\ CheckPolicy(caller, BuildSealShareIdentity(Home, index), c)
    /\ opened' = opened \cup {index}
    /\ UNCHANGED <<now, config, split, recovered, requests, firstRequest>>

OpenSomeShare ==
    /\ split # None
    /\ \E caller \in Addresses, index \in 1 .. split.count, c \in Configs : OpenShare(caller, index, c)

\* Mutation: one share more than the threshold is asked for.
EnoughAndOneMore == split # None /\ Cardinality(opened) > split.threshold

Enough == split # None /\ Cardinality(opened) >= split.threshold

CombineGuardianShares ==
    /\ Enough
    /\ ~recovered
    /\ recovered' = TRUE
    /\ UNCHANGED <<now, config, split, opened, requests, firstRequest>>

\* A request that has yet to mature; one whose end does not fit in u64 never does.
Maturing(c) ==
    /\ config[c] # None
    /\ config[c].recovery_requested_at # 0
    /\ config[c].recovery_requested_at + config[c].timelock_ms <= U64Max
    /\ now < config[c].recovery_requested_at + config[c].timelock_ms

Tick ==
    /\ now < MaxTime \/ \E c \in Configs : Maturing(c)
    /\ now' = now + 1
    /\ UNCHANGED <<config, split, opened, recovered, requests, firstRequest>>

RecoveryNext ==
    \/ \E c \in Configs, timelock \in Timelocks, guardians \in GuardianLists :
          \E threshold \in 2 .. Len(guardians) : CreateConfig(c, threshold, timelock, guardians)
    \/ \E caller \in Addresses, c \in Configs : RequestRecovery(caller, c)
    \/ \E guardians \in GuardianLists :
          \E threshold \in 2 .. Len(guardians) : CreateGuardianRecoveryShares(guardians, threshold)
    \/ OpenSomeShare
    \/ CombineGuardianShares
    \/ Tick

--------------------------------------------------------------------------------
(* The panel that tells the user whether the way out is open. *)

Later(a, b) == IF a >= b THEN a ELSE b

\* getVaultLivenessState; requestedAt is None when there is no request.
VaultLivenessState(enclaveReachable, requestedAt, timelock, at) ==
    CASE enclaveReachable -> [status |-> "active", remaining |-> 0]
      [] ~enclaveReachable /\ requestedAt = None ->
            [status |-> "request-recovery", remaining |-> timelock]
      [] OTHER ->
            LET remaining == Later(0, requestedAt + timelock - at)
            IN  [status |-> IF remaining = 0 THEN "escape-available" ELSE "timelocked",
                 remaining |-> remaining]
================================================================================
