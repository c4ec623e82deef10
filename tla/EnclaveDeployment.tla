------------------------- MODULE EnclaveDeployment -------------------------
(***************************************************************************)
(* How the co-signer's enclave is built, run, registered, gated and put     *)
(* into a vault.  The Nitro host runs one enclave at a time                 *)
(* (enclave/Makefile), which makes its key when it starts (main.rs) and     *)
(* answers with an attestation of it (attestation.rs).  One terminal runs   *)
(* the scripts register-nautilus-enclave.ts, external-gates-preflight.ts    *)
(* and testnet-vault-execute.ts, each at its awaits; a script may stop at   *)
(* any of them.  Between two awaits the host may restart the enclave or     *)
(* build another image, and others send transactions to the registry.       *)
(***************************************************************************)
EXTENDS EnclaveRegistry

CONSTANTS Images,        \* enclave images, of different code or policy
          PcrsOf,        \* the measurement of an image, as nitro-cli prints it
          ZeroPcrs,      \* what a debug enclave is measured as
          LaptopKey,     \* the key of testnet-vault-execute.ts's own seed
          Operator,      \* the active local keypair
          EnvPcrs        \* values an operator gives in AEGIS_PCR0..2

Modes == {"production", "debug", "local"}

ASSUME MeasurementAssumption ==
    /\ PcrsOf \in [Images -> Pcrs \ {ZeroPcrs}]
    /\ ZeroPcrs \in Pcrs
    /\ LaptopKey \in Keys
    /\ Operator \in Senders
    /\ EnvPcrs \subseteq Pcrs
    /\ None \notin Images

VARIABLES eif,             \* the image that was built last
          pcrFile,         \* out/pcr-values.json
          attestationFile, \* attestation.json
          boots,           \* history: the run of an enclave that made a key
          running,         \* the key of the enclave that serves
          script,          \* the script in the terminal
          report           \* the last report of the preflight's Nitro gate

hostVars == <<eif, pcrFile, attestationFile, boots, running>>
vars == <<configs, enclaves, published, origin, eif, pcrFile, attestationFile,
          boots, running, script, report>>
-----------------------------------------------------------------------------
(* The enclave. *)

Boot == [image : Images, mode : Modes]

(* What the Nitro hypervisor measures of a run: a debug enclave is all      *)
(* zeros.                                                                   *)
Measurement(boot) ==
    IF boot.mode = "production" THEN PcrsOf[boot.image] ELSE ZeroPcrs

AttestationMode(k) ==
    IF boots[k] /= None /\ boots[k].mode /= "local"
    THEN "nitro-attested" ELSE "local-unattested"

NitroAttestationDocumentOf(k) == [pcrs |-> Measurement(boots[k]), publicKey |-> k]

AttestationResponse ==
    [mode : {"nitro-attested", "local-unattested"}, publicKey : Keys,
     attestation : NitroAttestationDocument \cup {None}]

GetAttestation(k) ==
    [mode |-> AttestationMode(k), publicKey |-> k,
     attestation |-> IF AttestationMode(k) = "nitro-attested"
                     THEN NitroAttestationDocumentOf(k) ELSE None]

BuildEnclave(i) ==
    /\ eif' = i
    /\ pcrFile' = PcrsOf[i]
    /\ UNCHANGED <<registryVars, attestationFile, boots, running, script, report>>

(* A run makes a key of its own: nothing stores it.                         *)
RunEnclave(k, mode) ==
    /\ eif /= None /\ running = None
    /\ k /= LaptopKey /\ boots[k] = None
    /\ boots' = [boots EXCEPT ![k] = [image |-> eif, mode |-> mode]]
    /\ running' = k
    /\ UNCHANGED <<registryVars, eif, pcrFile, attestationFile, script, report>>

StopEnclave ==
    /\ running /= None
    /\ running' = None
    /\ UNCHANGED <<registryVars, eif, pcrFile, attestationFile, boots, script, report>>

(* curl -s .../get_attestation > attestation.json, an empty file when       *)
(* nothing answers.                                                         *)
SaveAttestation ==
    /\ attestationFile' = IF running = None THEN None ELSE GetAttestation(running)
    /\ UNCHANGED <<registryVars, eif, pcrFile, boots, running, script, report>>
-----------------------------------------------------------------------------
(* The registry, used by others: the documents of all enclaves that ran can *)
(* be had, and the owner of the capability may update a configuration.      *)

Documents == {NitroAttestationDocumentOf(k) : k \in
                 {l \in Keys : boots[l] /= None /\ boots[l].mode /= "local"}}

ChainStep ==
    /\ \/ \E s \in Senders, e \in EnclaveIds, c \in ConfigIds, d \in Documents :
             RegisterEnclave(s, e, c, d)
       \/ \E c \in ConfigIds, p \in Pcrs : UpdatePcrs(CapOwner, c, p)
       \/ \E e \in EnclaveIds, c \in ConfigIds : DestroyOldEnclave(e, c)
       \/ \E s \in Senders, e \in EnclaveIds : DeployOldEnclaveByOwner(s, e)
    /\ UNCHANGED <<hostVars, script, report>>
-----------------------------------------------------------------------------
(* The scripts.  A script's record has the values it holds at its await.    *)

Phases == {"idle", "create", "find", "register", "gate", "health", "attest",
           "match", "fund", "cosign", "execute", "drain", "receipt"}

Script == [phase : Phases, pcrs : Pcrs \cup {None},
           attestation : AttestationResponse \cup {None},
           config : ConfigIds \cup {None}, enclave : EnclaveIds \cup {None},
           remote : BOOLEAN, key : Keys \cup {None}, signer : Keys \cup {None}]

Idle == [phase |-> "idle", pcrs |-> None, attestation |-> None, config |-> None,
         enclave |-> None, remote |-> FALSE, key |-> None, signer |-> None]

(* The script throws at its await, or is killed.                            *)
ScriptEnds ==
    /\ script.phase /= "idle"
    /\ script' = Idle
    /\ UNCHANGED <<registryVars, hostVars, report>>

(* register-nautilus-enclave.ts.  Without AEGIS_ENCLAVE_CONFIG_ID it makes  *)
(* a configuration first.                                                   *)
RegisterStart(c, pcrs) ==
    /\ script.phase = "idle"
    /\ pcrs /= None
    /\ attestationFile /= None /\ attestationFile.attestation /= None
    /\ script' = [Idle EXCEPT !.phase = IF c = None THEN "create" ELSE "register",
                              !.pcrs = pcrs, !.attestation = attestationFile,
                              !.config = c]
    /\ UNCHANGED <<registryVars, hostVars, report>>

CreateConfigTx(c) ==
    /\ script.phase = "create"
    /\ CreateEnclaveConfig(Operator, c, script.pcrs)
    /\ script' = [script EXCEPT !.phase = "find", !.config = c]
    /\ UNCHANGED <<hostVars, report>>

FindCreatedConfigObject ==
    /\ script.phase = "find"
    /\ script' = [script EXCEPT !.phase = "register"]
    /\ UNCHANGED <<registryVars, hostVars, report>>

RegisterTx(e) ==
    /\ script.phase = "register"
    /\ RegisterEnclave(Operator, e, script.config, script.attestation.attestation)
    /\ script' = Idle
    /\ UNCHANGED <<hostVars, report>>

RegisteredPk(e) == IF Exists(enclaves, e) THEN enclaves[e].pk ELSE None

(* external-gates-preflight.ts, readNitroAttestationGate: the files are     *)
(* read at once, the registered key after an await.                         *)
GateStart(e) ==
    /\ script.phase = "idle"
    /\ IF pcrFile = None \/ attestationFile = None
       THEN /\ report' = [ready |-> FALSE, key |-> None]
            /\ UNCHANGED script
       ELSE /\ script' = [Idle EXCEPT !.phase = "gate", !.pcrs = pcrFile,
                                      !.attestation = attestationFile, !.enclave = e]
            /\ UNCHANGED report
    /\ UNCHANGED <<registryVars, hostVars>>

\* Mutation: the registered key is not compared.
GateReadyUnregistered ==
    /\ script.pcrs /= ZeroPcrs
    /\ script.attestation.mode = "nitro-attested"
    /\ script.attestation.attestation /= None

GateReady ==
    /\ script.pcrs /= ZeroPcrs
    /\ script.attestation.mode = "nitro-attested"
    /\ script.attestation.attestation /= None
    /\ RegisteredPk(script.enclave) = script.attestation.publicKey

GateReport ==
    /\ script.phase = "gate"
    /\ report' = [ready |-> GateReady, key |-> script.attestation.publicKey]
    /\ script' = Idle
    /\ UNCHANGED <<registryVars, hostVars>>
-----------------------------------------------------------------------------
(* testnet-vault-execute.ts.  With AEGIS_ENCLAVE_URL it talks to the host's *)
(* enclave, else to one it starts with a seed of its own; e is              *)
(* AEGIS_REGISTERED_ENCLAVE_ID.                                             *)

Serving == IF script.remote THEN running ELSE LaptopKey

Answers == Serving /= None

VaultStart(remote, e) ==
    /\ script.phase = "idle"
    /\ script' = [Idle EXCEPT !.phase = "health", !.remote = remote, !.enclave = e]
    /\ UNCHANGED <<registryVars, hostVars, report>>

ConnectEnclave ==
    /\ script.phase = "health" /\ Answers
    /\ script' = [script EXCEPT !.phase = "attest", !.key = Serving]
    /\ UNCHANGED <<registryVars, hostVars, report>>

CheckAttestation ==
    /\ script.phase = "attest" /\ Answers
    /\ LET attestation == GetAttestation(Serving)
       IN /\ attestation.publicKey = script.key
          /\ script.remote => /\ attestation.mode = "nitro-attested"
                              /\ attestation.attestation /= None
    /\ script' = [script EXCEPT !.phase = "match"]
    /\ UNCHANGED <<registryVars, hostVars, report>>

\* Mutation: any registered enclave will do.
AssertRegisteredEnclaveExists ==
    script.enclave /= None => RegisteredPk(script.enclave) /= None

AssertRegisteredEnclaveMatches ==
    script.enclave /= None => RegisteredPk(script.enclave) = script.key

(* The multisig of the passkey and the key, whose address ensureFunded then  *)
(* sends coins to.                                                          *)
MakeVault ==
    /\ script.phase = "match"
    /\ AssertRegisteredEnclaveMatches
    /\ script' = [script EXCEPT !.phase = "fund"]
    /\ UNCHANGED <<registryVars, hostVars, report>>

EnsureFunded ==
    /\ script.phase = "fund"
    /\ script' = [script EXCEPT !.phase = "cosign"]
    /\ UNCHANGED <<registryVars, hostVars, report>>

CoSign ==
    /\ script.phase = "cosign" /\ Answers
    /\ script' = [script EXCEPT !.phase = "execute", !.signer = Serving]
    /\ UNCHANGED <<registryVars, hostVars, report>>

(* combinePartialSignatures throws for a key that is not in the multisig.   *)
ExecuteTransaction ==
    /\ script.phase = "execute"
    /\ script.signer = script.key
    /\ script' = [script EXCEPT !.phase = "drain"]
    /\ UNCHANGED <<registryVars, hostVars, report>>

CoSignRefused ==
    /\ script.phase = "drain" /\ Answers
    /\ script' = [script EXCEPT !.phase = "receipt", !.signer = Serving]
    /\ UNCHANGED <<registryVars, hostVars, report>>

(* A PolicyRejected event.                *)
RecordPolicyRejectedReceipt ==
    /\ script.phase = "receipt"
    /\ script' = Idle
    /\ UNCHANGED <<registryVars, hostVars, report>>
-----------------------------------------------------------------------------
Init ==
    /\ RegistryInit
    /\ eif = None /\ pcrFile = None /\ attestationFile = None
    /\ boots = [k \in Keys |-> None]
    /\ running = None
    /\ script = Idle
    /\ report = [ready |-> FALSE, key |-> None]

HostStep ==
    \/ \E i \in Images : BuildEnclave(i)
    \/ \E k \in Keys, mode \in Modes : RunEnclave(k, mode)
    \/ StopEnclave
    \/ SaveAttestation

RegisterStep ==
    \/ \E c \in {d \in ConfigIds : Exists(configs, d)} \cup {None},
          pcrs \in EnvPcrs \cup {pcrFile} : RegisterStart(c, pcrs)
    \/ \E c \in ConfigIds : CreateConfigTx(c)
    \/ FindCreatedConfigObject
    \/ \E e \in EnclaveIds : RegisterTx(e)

GateStep ==
    \/ \E e \in EnclaveIds : GateStart(e)
    \/ GateReport

VaultStep ==
    \/ \E remote \in BOOLEAN, e \in EnclaveIds \cup {None} : VaultStart(remote, e)
    \/ ConnectEnclave
    \/ CheckAttestation
    \/ MakeVault
    \/ EnsureFunded
    \/ CoSign
    \/ ExecuteTransaction
    \/ CoSignRefused
    \/ RecordPolicyRejectedReceipt

Next ==
    \/ HostStep
    \/ ChainStep
    \/ RegisterStep
    \/ GateStep
    \/ VaultStep
    \/ ScriptEnds

Spec == Init /\ [][Next]_vars
-----------------------------------------------------------------------------
TypeOK ==
    /\ RegistryTypeOK
    /\ eif \in Images \cup {None}
    /\ pcrFile \in Pcrs \cup {None}
    /\ attestationFile \in AttestationResponse \cup {None}
    /\ boots \in [Keys -> Boot \cup {None}]
    /\ running \in Keys \cup {None}
    /\ script \in Script
    /\ report \in [ready : BOOLEAN, key : Keys \cup {None}]

(* A key was made in an enclave whose measurement the owner of the          *)
(* capability published.                                                    *)
Measured(k) ==
    /\ boots[k] /= None
    /\ \E p \in published : p.pcrs = Measurement(boots[k])

(* Every registered enclave's key was made by an enclave measured exactly   *)
(* as the configuration it was registered under was at the version it       *)
(* names, and no other measurement ever has that version (enclave.move:43): *)
(* whatever documents are replayed, whoever registers them, and whatever    *)
(* the owner publishes meanwhile and afterwards (enclave.move:85, 114-124). *)
RegisteredIsMeasured ==
    \A e \in EnclaveIds : Exists(enclaves, e) =>
        /\ boots[enclaves[e].pk] /= None
        /\ {p.pcrs : p \in {q \in published : /\ q.config = origin[e]
                                             /\ q.version = enclaves[e].configVersion}}
               = {Measurement(boots[enclaves[e].pk])}

(* From the funding of its vault on, testnet-vault-execute.ts depends on a   *)
(* key that was made in a measured enclave, if it was told which one is     *)
(* registered: the host may restart or replace the enclave between any two  *)
(* of its requests, and the registered object be outdated or destroyed.     *)
(* (testnet-vault-execute.ts:54-84, 374-421.)                               *)
VaultPhases == {"fund", "cosign", "execute", "drain", "receipt"}

VaultCoSignerMeasured ==
    (script.phase \in VaultPhases /\ script.enclave /= None) => Measured(script.key)

(* A gate that is ready stands for a key that a production enclave made, as *)
(* external-gates-preflight.ts:183 says ("Non-debug Nitro attestation       *)
(* artifacts"), although its two files may be of different builds and of an *)
(* enclave that has stopped.  It relies on an owner who never publishes     *)
(* zeros (enclave/DEPLOY.md:89): of the attestation the gate reads the mode *)
(* and the key only.                                                        *)
ZeroNeverPublished == \A p \in published : p.pcrs /= ZeroPcrs

ReadyMeansNonDebug ==
    (report.ready /\ ZeroNeverPublished) =>
        /\ Measured(report.key)
        /\ boots[report.key].mode = "production"
=============================================================================
