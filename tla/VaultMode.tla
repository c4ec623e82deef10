-------------------------------- MODULE VaultMode --------------------------------
(* A vault is a multisig of weight-1 members with threshold 2: the user's      *)
(* passkey, the enclave that co-signs what the policy allows, and, when the    *)
(* vault is recoverable, a recovery key that exists only as guardian shares.   *)
(* The enclave may be down for as long as it likes: recovery is the way out.   *)
(* The whole of the co-signer's judgement (CoSigner.tla) is the set Allowed.   *)
EXTENDS GuardianRecovery

CONSTANTS
    Passkey, Enclave, Recovery,  \* the roles of the members
    Txs,                         \* transactions of the vault
    Allowed                      \* those the enclave co-signs

ASSUME VaultAssumption ==
    /\ Allowed \subseteq Txs
    /\ Passkey # Enclave /\ Enclave # Recovery /\ Passkey # Recovery

VARIABLES
    signers,     \* the members of the vault's MultiSigPublicKey
    signatures,  \* partial signatures collected for each transaction
    executed     \* transactions the chain has executed

vaultVars == <<signers, signatures, executed>>
vars == <<recoveryVars, vaultVars>>

Roles == {Passkey, Enclave, Recovery}
VaultAccount == {Passkey, Enclave}
RecoverableVaultAccount == {Passkey, Enclave, Recovery}
Threshold == 2
Weight(members) == Cardinality(members)

TypeOK ==
    /\ RecoveryTypeOK
    /\ signers \in {VaultAccount, RecoverableVaultAccount}
    /\ signatures \in [Txs -> SUBSET Roles]
    /\ executed \subseteq Txs

Init ==
    /\ RecoveryInit
    /\ signers \in {VaultAccount, RecoverableVaultAccount}
    /\ signatures = [tx \in Txs |-> {}]
    /\ executed = {}

\* A signature of what has already run would change nothing.
Sign(role, tx) ==
    /\ tx \notin executed
    /\ role \notin signatures[tx]
    /\ signatures' = [signatures EXCEPT ![tx] = @ \cup {role}]
    /\ UNCHANGED <<recoveryVars, signers, executed>>

PasskeySign(tx) == Sign(Passkey, tx)

\* An enclave that is down is one that does not take this step.
EnclaveSign(tx) == tx \in Allowed /\ Sign(Enclave, tx)

RecoverySign(tx) == recovered /\ Sign(Recovery, tx)

\* combinePartialSignatures, and the chain that checks the multisig and runs a digest once.
Execute(tx) ==
    /\ tx \notin executed
    /\ Weight(signatures[tx] \cap signers) >= Threshold
    /\ executed' = executed \cup {tx}
    /\ UNCHANGED <<recoveryVars, signers, signatures>>

Next ==
    \/ RecoveryNext /\ UNCHANGED vaultVars
    \/ \E tx \in Txs : PasskeySign(tx) \/ EnclaveSign(tx) \/ RecoverySign(tx) \/ Execute(tx)

Spec == Init /\ [][Next]_vars

\* The chain's clock goes on and includes what is sent to it; guardians and the user,
\* who want the secret and the transactions, keep at it. Nothing is asked of the
\* enclave, nor of guardians that request again: MaxRequests only stops them in the end.
Fairness ==
    /\ WF_vars(Tick /\ UNCHANGED vaultVars)
    /\ WF_vars(\E caller \in Addresses :
                  firstRequest = None /\ RequestRecovery(caller, Home) /\ UNCHANGED vaultVars)
    /\ WF_vars(OpenSomeShare /\ UNCHANGED vaultVars)
    /\ WF_vars(CombineGuardianShares /\ UNCHANGED vaultVars)
    /\ \A tx \in Txs :
          WF_vars(PasskeySign(tx)) /\ WF_vars(RecoverySign(tx)) /\ WF_vars(Execute(tx))

FairSpec == Spec /\ Fairness

--------------------------------------------------------------------------------
(* Properties *)

\* A transaction that the enclave would not co-sign runs only in a recoverable vault,
\* and only once the timelock has passed in full since a guardian of the vault's own
\* config first asked for recovery: no other config, no repeated request, no share
\* opened early gets round the policy (recovery.move check_policy, vault-account.ts).
GuardrailHolds ==
    \A tx \in executed \ Allowed :
        /\ Recovery \in signers
        /\ firstRequest # None
        /\ now >= firstRequest + config[Home].timelock_ms

\* The refinement: recovery implements the timelocked release. The wait is counted from
\* the last request, and the secret is out when the last share it takes is opened.
Remaining ==
    IF config[Home] = None THEN None
    ELSE IF config[Home].recovery_requested_at = 0 THEN None
    ELSE Later(0, config[Home].recovery_requested_at + config[Home].timelock_ms - now)

TR == INSTANCE TimelockedRelease WITH
        lock <- IF config[Home] = None THEN None ELSE config[Home].timelock_ms,
        remaining <- Remaining,
        released <- Enough

\* Every step of the vault is a step of the timelocked release, or none of it: a share
\* is never the last one needed before the wait since the LAST request is over.
TimelockRespected == TR!ReleaseSpec

\* With the enclave down and what is on chain just read, the panel says that the way out
\* is open exactly when the key servers would open a share for a guardian
\* (vault-liveness.ts against check_policy).
PanelAgreesWithChain ==
    \A c \in Configs, caller \in Addresses :
        LET cfg == config[c]
            at == IF cfg.recovery_requested_at = 0 THEN None ELSE cfg.recovery_requested_at
        IN  config[c] # None /\ IsGuardian(cfg, caller) =>
              (VaultLivenessState(FALSE, at, cfg.timelock_ms, now).status = "escape-available"
                 <=> CheckPolicy(caller, BuildSealShareIdentity(c, 1), c))

\* Whatever the enclave does, a recoverable vault whose secret was shared executes what
\* its user wants in the end (the way out that the specification asks Vault Mode for);
\* the wait has to fit in u64 from the latest time at which it can start.
EscapeReached ==
    \A tx \in Txs :
        (/\ Recovery \in signers
         /\ split # None
         /\ config[Home].timelock_ms <= U64Max \div 2) ~> tx \in executed

================================================================================
