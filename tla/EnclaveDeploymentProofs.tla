---------------------- MODULE EnclaveDeploymentProofs ----------------------
(***************************************************************************)
(* What a registered enclave, a funded vault and a gate that is ready stand *)
(* for, for all images, keys, objects, senders and any number of updates.   *)
(*                                                                         *)
(* The three properties rest on what the history of the registry and of the *)
(* host never does: a version of a configuration is published once          *)
(* (PublishedInv), a run of an enclave keeps its key (HistoryGrows), a      *)
(* document that is saved or held by a script is one that an enclave gave   *)
(* (FilesInv), and a script keeps what it tested before its await           *)
(* (ScriptInv).                                                             *)
(***************************************************************************)
EXTENDS EnclaveDeployment, TLAPS

(* What the steps of the whole system do to the registry.                   *)
Attested(d) ==
    \E k \in Keys : boots[k] /= None /\ d = NitroAttestationDocumentOf(k)

Publishes ==
    \E s \in Senders, c \in ConfigIds, p \in Pcrs :
        CreateEnclaveConfig(s, c, p) \/ UpdatePcrs(s, c, p)

Registers ==
    \E s \in Senders, e \in EnclaveIds, c \in ConfigIds, d \in NitroAttestationDocument :
        Attested(d) /\ RegisterEnclave(s, e, c, d)

Deletes ==
    /\ \E e \in EnclaveIds : enclaves' = [enclaves EXCEPT ![e] = None]
    /\ UNCHANGED <<configs, published, origin>>

(* A document that somebody holds is one that a run of an enclave gave.     *)
Genuine(a) ==
    (a /= None /\ a.attestation /= None) =>
        /\ boots[a.publicKey] /= None
        /\ a.attestation = NitroAttestationDocumentOf(a.publicKey)

FilesInv == Genuine(attestationFile) /\ Genuine(script.attestation)

PublishedInv ==
    /\ \A p, q \in published :
           (p.config = q.config /\ p.version = q.version) => p.pcrs = q.pcrs
    /\ \A p \in published : /\ configs[p.config] \in EnclaveConfig
                            /\ p.version <= configs[p.config].version
    /\ \A c \in ConfigIds : Exists(configs, c) => PublicationOf(c) \in published

RegistrationOf(e) ==
    [config |-> origin[e], version |-> enclaves[e].configVersion,
     pcrs |-> Measurement(boots[enclaves[e].pk])]

EnclavesInv ==
    \A e \in EnclaveIds : Exists(enclaves, e) =>
        boots[enclaves[e].pk] /= None /\ RegistrationOf(e) \in published

RegisterPhases == {"create", "find", "register"}
KeyPhases == {"attest", "match"} \cup VaultPhases

ScriptInv ==
    /\ script.phase \in RegisterPhases =>
           script.attestation /= None /\ script.attestation.attestation /= None
    /\ script.phase = "create" => script.pcrs /= None
    /\ script.phase \in {"find", "register"} => script.config /= None
    /\ script.phase = "gate" => script.attestation /= None /\ script.enclave /= None
    /\ script.phase \in KeyPhases => script.key /= None
    /\ VaultCoSignerMeasured

ReportInv == report.ready => report.key /= None /\ Measured(report.key)

DeploymentInv ==
    TypeOK /\ FilesInv /\ PublishedInv /\ EnclavesInv /\ ScriptInv /\ ReportInv
-----------------------------------------------------------------------------
(* What an enclave answers has its type.                                    *)
LEMMA AnswerTypes ==
    ASSUME TypeOK, NEW k \in Keys
    PROVE  /\ GetAttestation(k) \in AttestationResponse
           /\ GetAttestation(k).publicKey = k
           /\ boots[k] /= None => /\ Measurement(boots[k]) \in Pcrs
                                  /\ NitroAttestationDocumentOf(k) \in NitroAttestationDocument
<1>1. ASSUME boots[k] /= None
      PROVE  Measurement(boots[k]) \in Pcrs
  <2>1. boots[k] \in Boot
    BY <1>1 DEF TypeOK
  <2> QED
    BY <2>1, MeasurementAssumption DEF Boot, Measurement
<1>2. ASSUME boots[k] /= None
      PROVE  NitroAttestationDocumentOf(k) \in NitroAttestationDocument
  BY <1>1, <1>2 DEF NitroAttestationDocumentOf, NitroAttestationDocument
<1>3. AttestationMode(k) \in {"nitro-attested", "local-unattested"}
  BY DEF AttestationMode
<1>4. AttestationMode(k) = "nitro-attested" => boots[k] /= None
  BY DEF AttestationMode
<1>5. GetAttestation(k) \in AttestationResponse
  BY <1>2, <1>3, <1>4 DEF GetAttestation, AttestationResponse
<1> QED
  BY <1>1, <1>2, <1>5 DEF GetAttestation

(* Nothing published is withdrawn and no key changes its enclave.           *)
LEMMA HistoryGrows ==
    ASSUME TypeOK, [Next]_vars
    PROVE  /\ published \subseteq published'
           /\ \A k \in Keys : boots[k] /= None => boots'[k] = boots[k]
<1>1. CASE HostStep
  BY <1>1 DEF HostStep, BuildEnclave, RunEnclave, StopEnclave, SaveAttestation,
              registryVars, TypeOK
<1>2. CASE ChainStep
  BY <1>2 DEF ChainStep, RegisterEnclave, UpdatePcrs, DestroyOldEnclave,
              DeployOldEnclaveByOwner, hostVars
<1>3. CASE RegisterStep
  BY <1>3 DEF RegisterStep, RegisterStart, CreateConfigTx, CreateEnclaveConfig,
              FindCreatedConfigObject, RegisterTx, RegisterEnclave, hostVars, registryVars
<1>4. CASE GateStep \/ VaultStep \/ ScriptEnds
  BY <1>4 DEF GateStep, GateStart, GateReport, VaultStep, VaultStart, ConnectEnclave,
              CheckAttestation, MakeVault, EnsureFunded, CoSign, ExecuteTransaction,
              CoSignRefused, RecordPolicyRejectedReceipt, ScriptEnds, hostVars, registryVars
<1>5. CASE UNCHANGED vars
  BY <1>5 DEF vars
<1> QED
  BY <1>1, <1>2, <1>3, <1>4, <1>5 DEF Next

(* So a measured key stays measured, and a genuine document genuine.        *)
LEMMA MeasuredForever ==
    ASSUME TypeOK, [Next]_vars, NEW k \in Keys, Measured(k)
    PROVE  Measured(k)'
  BY HistoryGrows DEF Measured

\* A genuine document stays genuine: keys and boots are only added.
LEMMA GenuineForever ==
    ASSUME TypeOK, [Next]_vars, NEW a \in AttestationResponse \cup {None}, Genuine(a)
    PROVE  Genuine(a)'
<1>1. ASSUME a /= None, a.attestation /= None
      PROVE  boots'[a.publicKey] = boots[a.publicKey]
  BY <1>1, HistoryGrows DEF Genuine, AttestationResponse
<1> QED
  BY <1>1 DEF Genuine, NitroAttestationDocumentOf

(* Every step leaves the registry alone, publishes, deletes, or registers a *)
(* document of an enclave that ran: register-nautilus-enclave.ts uses the   *)
(* one it read when it started.                                             *)
LEMMA RegistrySteps ==
    ASSUME TypeOK, FilesInv, ScriptInv, [Next]_vars
    PROVE  UNCHANGED registryVars \/ Publishes \/ Registers \/ Deletes
<1>1. CASE HostStep
  BY <1>1 DEF HostStep, BuildEnclave, RunEnclave, StopEnclave, SaveAttestation
<1>2. ASSUME NEW s \in Senders, NEW e \in EnclaveIds, NEW c \in ConfigIds,
             NEW d \in Documents, RegisterEnclave(s, e, c, d)
      PROVE  Registers
  <2>1. PICK k \in Keys : boots[k] /= None /\ d = NitroAttestationDocumentOf(k)
    BY DEF Documents
  <2>2. Attested(d) /\ d \in NitroAttestationDocument
    BY <2>1, AnswerTypes DEF Attested
  <2> QED
    BY <1>2, <2>2 DEF Registers
<1>3. ASSUME NEW c \in ConfigIds, NEW p \in Pcrs, UpdatePcrs(CapOwner, c, p)
      PROVE  Publishes
  BY <1>3, CapOwnerAssumption DEF Publishes
<1>4. ASSUME NEW e \in EnclaveIds, NEW c \in ConfigIds, DestroyOldEnclave(e, c)
      PROVE  Deletes
  BY <1>4 DEF DestroyOldEnclave, Deletes
<1>5. ASSUME NEW s \in Senders, NEW e \in EnclaveIds, DeployOldEnclaveByOwner(s, e)
      PROVE  Deletes
  BY <1>5 DEF DeployOldEnclaveByOwner, Deletes
<1>6. CASE ChainStep
  BY <1>2, <1>3, <1>4, <1>5, <1>6 DEF ChainStep
<1>7. ASSUME NEW c \in ConfigIds, CreateConfigTx(c)
      PROVE  Publishes
  <2>1. script.pcrs \in Pcrs
    BY <1>7 DEF CreateConfigTx, ScriptInv, TypeOK, Script
  <2> QED
    BY <1>7, <2>1, MeasurementAssumption DEF CreateConfigTx, Publishes
<1>8. ASSUME NEW e \in EnclaveIds, RegisterTx(e)
      PROVE  Registers
  <2> DEFINE a == script.attestation
  <2>1. a \in AttestationResponse /\ a /= None /\ a.attestation /= None
    BY <1>8 DEF RegisterTx, ScriptInv, RegisterPhases, TypeOK, Script
  <2>2. a.publicKey \in Keys
    BY <2>1 DEF AttestationResponse
  <2>3. Attested(a.attestation)
    BY <2>1, <2>2 DEF FilesInv, Genuine, Attested
  <2>4. a.attestation \in NitroAttestationDocument
    BY <2>1 DEF AttestationResponse
  <2>5. script.config \in ConfigIds
    BY <1>8 DEF RegisterTx, ScriptInv, TypeOK, Script
  <2> QED
    BY <1>8, <2>3, <2>4, <2>5, MeasurementAssumption DEF RegisterTx, Registers
<1>9. CASE RegisterStep
  BY <1>7, <1>8, <1>9 DEF RegisterStep, RegisterStart, FindCreatedConfigObject
<1>10. CASE GateStep \/ VaultStep \/ ScriptEnds
  BY <1>10 DEF GateStep, GateStart, GateReport, VaultStep, VaultStart, ConnectEnclave,
               CheckAttestation, MakeVault, EnsureFunded, CoSign, ExecuteTransaction,
               CoSignRefused, RecordPolicyRejectedReceipt, ScriptEnds
<1>11. CASE UNCHANGED vars
  BY <1>11 DEF vars, registryVars
<1> QED
  BY <1>1, <1>6, <1>9, <1>10, <1>11 DEF Next
-----------------------------------------------------------------------------
(* The variables have their types at the start and after every step.        *)
LEMMA RegistryTypesKept ==
    ASSUME TypeOK, FilesInv, ScriptInv, [Next]_vars
    PROVE  RegistryTypeOK'
<1>1. RegistryTypeOK
  BY DEF TypeOK
<1>2. CASE UNCHANGED registryVars
  BY <1>1, <1>2 DEF registryVars, RegistryTypeOK
<1>3. ASSUME NEW s \in Senders, NEW c \in ConfigIds, NEW p \in Pcrs,
             CreateEnclaveConfig(s, c, p)
      PROVE  RegistryTypeOK'
  BY <1>1, <1>3 DEF CreateEnclaveConfig, RegistryTypeOK, EnclaveConfig, Publication
<1>4. ASSUME NEW s \in Senders, NEW c \in ConfigIds, NEW p \in Pcrs,
             UpdatePcrs(s, c, p)
      PROVE  RegistryTypeOK'
  <2>1. configs[c] \in EnclaveConfig
    BY <1>1, <1>4 DEF UpdatePcrs, Exists, RegistryTypeOK
  <2>2. NextVersion(c) \in Nat
    BY <2>1 DEF EnclaveConfig, NextVersion
  <2> QED
    BY <1>1, <1>4, <2>2 DEF UpdatePcrs, RegistryTypeOK, EnclaveConfig, Publication
<1>5. ASSUME NEW s \in Senders, NEW e \in EnclaveIds, NEW c \in ConfigIds,
             NEW d \in NitroAttestationDocument, RegisterEnclave(s, e, c, d)
      PROVE  RegistryTypeOK'
  <2>1. configs[c] \in EnclaveConfig
    BY <1>1, <1>5 DEF RegisterEnclave, Exists, RegistryTypeOK
  <2>2. [pk |-> d.publicKey, configVersion |-> configs[c].version, owner |-> s] \in Enclave
    BY <2>1 DEF NitroAttestationDocument, EnclaveConfig, Enclave
  <2> QED
    BY <1>1, <1>5, <2>2 DEF RegisterEnclave, RegistryTypeOK
<1>6. CASE Deletes
  BY <1>1, <1>6 DEF Deletes, RegistryTypeOK
<1> QED
  BY <1>2, <1>3, <1>4, <1>5, <1>6, RegistrySteps DEF Publishes, Registers

\* Every step of the deployment keeps the types.
LEMMA TypesKept ==
    ASSUME TypeOK, FilesInv, ScriptInv, [Next]_vars
    PROVE  TypeOK'
<1>1. RegistryTypeOK'
  BY RegistryTypesKept
<1> DEFINE Files == /\ eif \in Images \cup {None}
                    /\ pcrFile \in Pcrs \cup {None}
                    /\ attestationFile \in AttestationResponse \cup {None}
                    /\ boots \in [Keys -> Boot \cup {None}]
                    /\ running \in Keys \cup {None}
           Reported == report \in [ready : BOOLEAN, key : Keys \cup {None}]
<1>2. Files /\ script \in Script /\ Reported
  BY DEF TypeOK
<1>3. ASSUME UNCHANGED hostVars
      PROVE  Files'
  BY <1>2, <1>3 DEF hostVars
<1>0. Idle \in Script
  BY DEF Idle, Script, Phases
<1>4. CASE HostStep
  <2>1. UNCHANGED <<script, report>>
    BY <1>4 DEF HostStep, BuildEnclave, RunEnclave, StopEnclave, SaveAttestation
  <2>2. ASSUME NEW i \in Images, BuildEnclave(i)
        PROVE  Files'
    BY <1>2, <2>2, MeasurementAssumption DEF BuildEnclave
  <2>3. ASSUME NEW k \in Keys, NEW mode \in Modes, RunEnclave(k, mode)
        PROVE  Files'
    <3>1. [image |-> eif, mode |-> mode] \in Boot
      BY <1>2, <2>3 DEF RunEnclave, Boot
    <3> QED
      BY <1>2, <2>3, <3>1 DEF RunEnclave
  <2>4. ASSUME StopEnclave
        PROVE  Files'
    BY <1>2, <2>4 DEF StopEnclave
  <2>5. ASSUME SaveAttestation
        PROVE  Files'
    <3>1. attestationFile' \in AttestationResponse \cup {None}
      BY <1>2, <2>5, AnswerTypes DEF SaveAttestation
    <3> QED
      BY <1>2, <2>5, <3>1 DEF SaveAttestation
  <2>6. Files'
    BY <1>4, <2>2, <2>3, <2>4, <2>5 DEF HostStep
  <2> QED
    BY <1>1, <1>2, <2>1, <2>6 DEF TypeOK
<1>5. CASE ChainStep
  BY <1>1, <1>2, <1>3, <1>5 DEF ChainStep, TypeOK
<1>6. CASE RegisterStep
  <2>1. UNCHANGED hostVars /\ report' = report
    BY <1>6 DEF RegisterStep, RegisterStart, CreateConfigTx, FindCreatedConfigObject, RegisterTx
  <2>2. ASSUME NEW c \in {d \in ConfigIds : Exists(configs, d)} \cup {None},
               NEW pcrs \in EnvPcrs \cup {pcrFile}, RegisterStart(c, pcrs)
        PROVE  script' \in Script
    <3>1. pcrs \in Pcrs /\ attestationFile \in AttestationResponse
      BY <1>2, <2>2, MeasurementAssumption DEF RegisterStart
    <3>2. c \in ConfigIds \cup {None}
      OBVIOUS
    <3>3. (IF c = None THEN "create" ELSE "register") \in Phases
      BY DEF Phases
    <3> QED
      BY <2>2, <3>1, <3>2, <3>3 DEF RegisterStart, Idle, Script
  <2>3. ASSUME NEW c \in ConfigIds, CreateConfigTx(c)
        PROVE  script' \in Script
    BY <1>2, <2>3 DEF CreateConfigTx, Script, Phases
  <2>4. ASSUME FindCreatedConfigObject
        PROVE  script' \in Script
    BY <1>2, <2>4 DEF FindCreatedConfigObject, Script, Phases
  <2>5. ASSUME NEW e \in EnclaveIds, RegisterTx(e)
        PROVE  script' \in Script
    BY <2>5 DEF RegisterTx, Idle, Script, Phases
  <2>6. script' \in Script
    BY <1>6, <2>2, <2>3, <2>4, <2>5 DEF RegisterStep
  <2> QED
    BY <1>1, <1>2, <1>3, <2>1, <2>6 DEF TypeOK
<1>7. CASE GateStep
  <2>1. UNCHANGED hostVars
    BY <1>7 DEF GateStep, GateStart, GateReport
  <2>2. ASSUME NEW e \in EnclaveIds, GateStart(e)
        PROVE  script' \in Script /\ Reported'
    <3>1. CASE pcrFile = None \/ attestationFile = None
      <4>1. report' = [ready |-> FALSE, key |-> None] /\ script' = script
        BY <2>2, <3>1 DEF GateStart
      <4>2. Reported'
        BY <4>1
      <4> QED
        BY <1>2, <4>1, <4>2
    <3>2. CASE ~(pcrFile = None \/ attestationFile = None)
      <4>1. script' = [Idle EXCEPT !.phase = "gate", !.pcrs = pcrFile,
                                   !.attestation = attestationFile, !.enclave = e]
        BY <2>2, <3>2 DEF GateStart
      <4>2. script' \in Script
        BY <1>2, <4>1 DEF Idle, Script, Phases
      <4> QED
        BY <1>2, <2>2, <3>2, <4>2 DEF GateStart
    <3> QED
      BY <3>1, <3>2
  <2>3. ASSUME GateReport
        PROVE  script' \in Script /\ Reported'
    <3>1. script' \in Script
      BY <2>3 DEF GateReport, Idle, Script, Phases
    <3>2. script.attestation \in AttestationResponse
      BY <1>2, <2>3 DEF GateReport, ScriptInv, Script
    <3>3. script.attestation.publicKey \in Keys
      BY <3>2 DEF AttestationResponse
    <3>4. GateReady \in BOOLEAN
      BY DEF GateReady
    <3>5. Reported'
      BY <2>3, <3>3, <3>4 DEF GateReport
    <3> QED
      BY <3>1, <3>5
  <2>4. script' \in Script /\ Reported'
    BY <1>7, <2>2, <2>3 DEF GateStep
  <2> QED
    BY <1>1, <1>2, <1>3, <2>1, <2>4 DEF TypeOK
<1>8. CASE VaultStep \/ ScriptEnds
  <2>1. UNCHANGED hostVars /\ report' = report
    BY <1>8 DEF VaultStep, VaultStart, ConnectEnclave, CheckAttestation, MakeVault,
                EnsureFunded, CoSign, ExecuteTransaction, CoSignRefused,
                RecordPolicyRejectedReceipt, ScriptEnds
  <2>2. Serving \in Keys \cup {None}
    BY <1>2, MeasurementAssumption DEF Serving
  <2>3. ASSUME \/ ConnectEnclave \/ CheckAttestation \/ MakeVault \/ EnsureFunded
               \/ CoSign \/ ExecuteTransaction \/ CoSignRefused
        PROVE  script' \in Script
    <3>1. CASE ConnectEnclave
      BY <1>2, <2>2, <3>1 DEF ConnectEnclave, Script, Phases
    <3>2. CASE CheckAttestation \/ MakeVault \/ EnsureFunded \/ ExecuteTransaction
      <4>1. \E phase \in Phases : script' = [script EXCEPT !.phase = phase]
        BY <3>2 DEF CheckAttestation, MakeVault, EnsureFunded, ExecuteTransaction, Phases
      <4> QED
        BY <1>2, <4>1 DEF Script
    <3>3. CASE CoSign \/ CoSignRefused
      <4>1. \E phase \in Phases : script' = [script EXCEPT !.phase = phase, !.signer = Serving]
        BY <3>3 DEF CoSign, CoSignRefused, Phases
      <4> QED
        BY <1>2, <2>2, <4>1 DEF Script
    <3> QED
      BY <2>3, <3>1, <3>2, <3>3
  <2>4. ASSUME NEW remote \in BOOLEAN, NEW e \in EnclaveIds \cup {None},
               VaultStart(remote, e)
        PROVE  script' \in Script
    BY <2>4 DEF VaultStart, Idle, Script, Phases
  <2>5. ASSUME RecordPolicyRejectedReceipt \/ ScriptEnds
        PROVE  script' \in Script
    BY <1>0, <2>5 DEF RecordPolicyRejectedReceipt, ScriptEnds
  <2> QED
    BY <1>1, <1>2, <1>3, <1>8, <2>1, <2>3, <2>4, <2>5 DEF VaultStep, TypeOK
<1>9. CASE UNCHANGED vars
  BY <1>1, <1>2, <1>9 DEF vars, TypeOK
<1> QED
  BY <1>4, <1>5, <1>6, <1>7, <1>8, <1>9 DEF Next
-----------------------------------------------------------------------------
(* The documents in the files and in the script stay genuine, and a saved   *)
(* one is of the enclave that served when it was saved.                     *)
LEMMA FilesKept ==
    ASSUME TypeOK, FilesInv, [Next]_vars
    PROVE  FilesInv'
<1>1. /\ attestationFile \in AttestationResponse \cup {None}
      /\ script.attestation \in AttestationResponse \cup {None}
  BY DEF TypeOK, Script
<1>0. script \in Script
  BY DEF TypeOK
<1>2. Genuine(None)'
  BY DEF Genuine
<1>3. ASSUME attestationFile' = attestationFile, script' = script
      PROVE  FilesInv'
  BY <1>1, <1>3, GenuineForever DEF FilesInv
<1>4. ASSUME attestationFile' = attestationFile,
             script'.attestation \in {script.attestation, attestationFile, None}
      PROVE  FilesInv'
  BY <1>1, <1>2, <1>4, GenuineForever DEF FilesInv
<1>5. CASE HostStep
  <2>1. script' = script
    BY <1>5 DEF HostStep, BuildEnclave, RunEnclave, StopEnclave, SaveAttestation
  <2>2. CASE SaveAttestation
    <3>1. boots' = boots
      BY <2>2 DEF SaveAttestation
    <3>2. ASSUME running /= None
          PROVE  Genuine(GetAttestation(running))
      BY DEF GetAttestation, AttestationMode, Genuine
    <3>3. Genuine(attestationFile')
      BY <2>2, <3>2 DEF SaveAttestation, Genuine
    <3>4. Genuine(attestationFile)'
      BY <3>1, <3>3 DEF Genuine, NitroAttestationDocumentOf
    <3>5. Genuine(script.attestation)'
      BY <1>1, <2>1, GenuineForever DEF FilesInv
    <3> QED
      BY <3>4, <3>5 DEF FilesInv
  <2>3. CASE ~SaveAttestation
    BY <1>3, <1>5, <2>1, <2>3 DEF HostStep, BuildEnclave, RunEnclave, StopEnclave
  <2> QED
    BY <2>2, <2>3
<1>6. CASE ChainStep
  BY <1>3, <1>6 DEF ChainStep, hostVars
<1>7. CASE RegisterStep
  <2>1. attestationFile' = attestationFile
    BY <1>7 DEF RegisterStep, RegisterStart, CreateConfigTx, FindCreatedConfigObject,
                RegisterTx, hostVars
  <2>2. script'.attestation \in {script.attestation, attestationFile, None}
    <3>1. ASSUME NEW c, NEW pcrs, RegisterStart(c, pcrs)
          PROVE  script'.attestation = attestationFile
      BY <3>1 DEF RegisterStart, Idle
    <3>2. ASSUME NEW c, CreateConfigTx(c)
          PROVE  script'.attestation = script.attestation
      BY <1>0, <3>2 DEF CreateConfigTx, Script
    <3>3. ASSUME FindCreatedConfigObject
          PROVE  script'.attestation = script.attestation
      BY <1>0, <3>3 DEF FindCreatedConfigObject, Script
    <3>4. ASSUME NEW e, RegisterTx(e)
          PROVE  script'.attestation = None
      BY <3>4 DEF RegisterTx, Idle
    <3> QED
      BY <1>7, <3>1, <3>2, <3>3, <3>4 DEF RegisterStep
  <2> QED
    BY <1>4, <2>1, <2>2
<1>8. CASE GateStep
  <2>1. attestationFile' = attestationFile
    BY <1>8 DEF GateStep, GateStart, GateReport, hostVars
  <2>2. script'.attestation \in {script.attestation, attestationFile, None}
    <3>1. ASSUME NEW e, GateStart(e)
          PROVE  script'.attestation \in {script.attestation, attestationFile}
      BY <3>1 DEF GateStart, Idle
    <3> QED
      BY <1>8, <3>1 DEF GateStep, GateReport, Idle
  <2> QED
    BY <1>4, <2>1, <2>2
<1>9. CASE VaultStep \/ ScriptEnds
  <2>1. attestationFile' = attestationFile
    BY <1>9 DEF VaultStep, VaultStart, ConnectEnclave, CheckAttestation, MakeVault,
                EnsureFunded, CoSign, ExecuteTransaction, CoSignRefused,
                RecordPolicyRejectedReceipt, ScriptEnds, hostVars
  <2>2. script'.attestation \in {script.attestation, None}
    <3>1. ASSUME \/ ConnectEnclave \/ CheckAttestation \/ MakeVault \/ EnsureFunded
                 \/ CoSign \/ ExecuteTransaction \/ CoSignRefused
          PROVE  script'.attestation = script.attestation
      BY <1>0, <3>1 DEF ConnectEnclave, CheckAttestation, MakeVault, EnsureFunded,
                        CoSign, ExecuteTransaction, CoSignRefused, Script
    <3>2. ASSUME NEW remote, NEW e, VaultStart(remote, e)
          PROVE  script'.attestation = None
      BY <3>2 DEF VaultStart, Idle
    <3>3. ASSUME RecordPolicyRejectedReceipt \/ ScriptEnds
          PROVE  script'.attestation = None
      BY <3>3 DEF RecordPolicyRejectedReceipt, ScriptEnds, Idle
    <3> QED
      BY <1>9, <3>1, <3>2, <3>3 DEF VaultStep
  <2> QED
    BY <1>4, <2>1, <2>2
<1>10. CASE UNCHANGED vars
  BY <1>3, <1>10 DEF vars
<1> QED
  BY <1>5, <1>6, <1>7, <1>8, <1>9, <1>10 DEF Next
-----------------------------------------------------------------------------
(* A version of a configuration is published once: an update takes the next *)
(* one, which is above all that were.                                       *)
LEMMA PublishedKept ==
    ASSUME TypeOK, FilesInv, ScriptInv, PublishedInv, [Next]_vars
    PROVE  PublishedInv'
<1>1. RegistryTypeOK
  BY DEF TypeOK
<1>2. ASSUME UNCHANGED <<configs, published>>
      PROVE  PublishedInv'
  BY <1>2 DEF PublishedInv, Exists, PublicationOf
<1>3. ASSUME NEW c \in ConfigIds, NEW v \in Nat, NEW p \in Pcrs,
             configs' = [configs EXCEPT ![c] = [pcrs |-> p, version |-> v]],
             published' = published \cup {[config |-> c, version |-> v, pcrs |-> p]},
             \A q \in published : q.config = c => q.version < v
      PROVE  PublishedInv'
  <2> DEFINE new == [config |-> c, version |-> v, pcrs |-> p]
  <2>1. new.config = c /\ new.version = v /\ new.pcrs = p
    OBVIOUS
  <2>2. /\ configs'[c] = [pcrs |-> p, version |-> v]
        /\ \A d \in ConfigIds : d /= c => configs'[d] = configs[d]
    BY <1>1, <1>3 DEF RegistryTypeOK
  <2>3. configs'[c] \in EnclaveConfig /\ configs'[c].version = v
    BY <2>2 DEF EnclaveConfig
  <2>4. \A q \in published : /\ q.config \in ConfigIds /\ q.version \in Nat
                             /\ q.config = c => q.version < v
    BY <1>1, <1>3 DEF RegistryTypeOK, Publication
  <2>5. \A q, r \in published' :
            (q.config = r.config /\ q.version = r.version) => q.pcrs = r.pcrs
    <3> SUFFICES ASSUME NEW q \in published', NEW r \in published',
                        q.config = r.config, q.version = r.version
                 PROVE  q.pcrs = r.pcrs
      OBVIOUS
    <3>1. q \in published \cup {new} /\ r \in published \cup {new}
      BY <1>3
    <3>2. CASE q \in published /\ r \in published
      BY <3>2 DEF PublishedInv
    <3>3. CASE q = new /\ r = new
      BY <3>3
    <3>4. ASSUME NEW x \in published, x.config = new.config
          PROVE  x.version /= new.version
      BY <2>1, <2>4, <3>4
    <3> QED
      BY <3>1, <3>2, <3>3, <3>4
  <2>6. ASSUME NEW q \in published'
        PROVE  /\ configs'[q.config] \in EnclaveConfig
               /\ q.version <= configs'[q.config].version
    <3>1. CASE q = new
      BY <2>1, <2>3, <3>1
    <3>2. CASE q \in published /\ q.config = c
      BY <2>3, <2>4, <3>2
    <3>3. CASE q \in published /\ q.config /= c
      BY <2>2, <2>4, <3>3 DEF PublishedInv
    <3> QED
      BY <1>3, <3>1, <3>2, <3>3
  <2>7. ASSUME NEW d \in ConfigIds, configs'[d] /= None
        PROVE  PublicationOf(d)' \in published'
    <3>1. CASE d = c
      BY <1>3, <2>2, <3>1 DEF PublicationOf
    <3>2. CASE d /= c
      BY <1>3, <2>2, <2>7, <3>2 DEF PublicationOf, PublishedInv, Exists
    <3> QED
      BY <3>1, <3>2
  <2> QED
    BY <2>5, <2>6, <2>7 DEF PublishedInv, Exists
<1>4. ASSUME NEW s \in Senders, NEW c \in ConfigIds, NEW p \in Pcrs,
             CreateEnclaveConfig(s, c, p)
      PROVE  PublishedInv'
  <2>1. \A q \in published : q.config /= c
    BY <1>4, ConfigObjectAssumption DEF CreateEnclaveConfig, Exists, PublishedInv
  <2> QED
    BY <1>3, <1>4, <2>1 DEF CreateEnclaveConfig
<1>5. ASSUME NEW s \in Senders, NEW c \in ConfigIds, NEW p \in Pcrs,
             UpdatePcrs(s, c, p)
      PROVE  PublishedInv'
  <2>1. configs[c].version \in Nat
    BY <1>1, <1>5 DEF UpdatePcrs, Exists, RegistryTypeOK, EnclaveConfig
  <2>2. ASSUME NEW q \in published, q.config = c
        PROVE  q.version < NextVersion(c)
    <3>1. q.version \in Nat /\ q.version <= configs[c].version
      BY <1>1, <2>2 DEF RegistryTypeOK, Publication, PublishedInv
    <3> QED
      BY <2>1, <3>1 DEF NextVersion
  <2>3. NextVersion(c) \in Nat
    BY <2>1 DEF NextVersion
  <2> QED
    BY <1>3, <1>5, <2>2, <2>3 DEF UpdatePcrs
<1>6. CASE Publishes
  BY <1>4, <1>5, <1>6 DEF Publishes
<1>7. CASE UNCHANGED registryVars \/ Registers \/ Deletes
  BY <1>2, <1>7 DEF registryVars, Registers, RegisterEnclave, Deletes
<1> QED
  BY <1>6, <1>7, RegistrySteps

(* A registered enclave keeps its registration: load_pk compared the        *)
(* document with the configuration that was current.                        *)
LEMMA EnclavesKept ==
    ASSUME TypeOK, FilesInv, ScriptInv, PublishedInv, EnclavesInv, [Next]_vars
    PROVE  EnclavesInv'
<1>1. RegistryTypeOK
  BY DEF TypeOK
<1>2. ASSUME NEW e \in EnclaveIds, Exists(enclaves, e),
             enclaves'[e] = enclaves[e], origin'[e] = origin[e]
      PROVE  boots'[enclaves'[e].pk] /= None /\ RegistrationOf(e)' \in published'
  <2>1. enclaves[e].pk \in Keys
    BY <1>1, <1>2 DEF RegistryTypeOK, Enclave, Exists
  <2>2. boots'[enclaves[e].pk] = boots[enclaves[e].pk] /\ published \subseteq published'
    BY <1>2, <2>1, HistoryGrows DEF EnclavesInv
  <2> QED
    BY <1>2, <2>2 DEF EnclavesInv, RegistrationOf
<1>3. CASE UNCHANGED registryVars \/ Publishes
  <2>1. UNCHANGED <<enclaves, origin>>
    BY <1>3 DEF registryVars, Publishes, CreateEnclaveConfig, UpdatePcrs
  <2> QED
    BY <1>2, <2>1 DEF EnclavesInv, Exists
<1>4. CASE Deletes
  <2>1. PICK f \in EnclaveIds : enclaves' = [enclaves EXCEPT ![f] = None]
    BY <1>4 DEF Deletes
  <2>2. ASSUME NEW e \in EnclaveIds, enclaves'[e] /= None
        PROVE  enclaves'[e] = enclaves[e] /\ origin' = origin
    BY <1>1, <1>4, <2>1, <2>2 DEF Deletes, RegistryTypeOK
  <2> QED
    BY <1>2, <2>2 DEF EnclavesInv, Exists
<1>5. ASSUME NEW s \in Senders, NEW f \in EnclaveIds, NEW c \in ConfigIds,
             NEW d \in NitroAttestationDocument, Attested(d), RegisterEnclave(s, f, c, d)
      PROVE  EnclavesInv'
  <2>1. PICK k \in Keys : boots[k] /= None /\ d = NitroAttestationDocumentOf(k)
    BY <1>5 DEF Attested
  <2>2. boots'[k] = boots[k] /\ published' = published
    BY <1>5, <2>1, HistoryGrows DEF RegisterEnclave
  <2>3. /\ enclaves'[f].pk = k /\ enclaves'[f].configVersion = configs[c].version
        /\ origin'[f] = c
    BY <1>1, <1>5, <2>1 DEF RegisterEnclave, RegistryTypeOK, NitroAttestationDocumentOf
  <2>4. configs[c].pcrs = Measurement(boots[k])
    BY <1>5, <2>1 DEF RegisterEnclave, LoadPk, NitroAttestationDocumentOf
  <2>5. RegistrationOf(f)' = PublicationOf(c)
    BY <2>2, <2>3, <2>4 DEF RegistrationOf, PublicationOf, Measurement
  <2>6. RegistrationOf(f)' \in published'
    BY <1>5, <2>2, <2>5 DEF RegisterEnclave, PublishedInv
  <2>7. ASSUME NEW e \in EnclaveIds, e /= f
        PROVE  enclaves'[e] = enclaves[e] /\ origin'[e] = origin[e]
    BY <1>1, <1>5, <2>7 DEF RegisterEnclave, RegistryTypeOK
  <2> QED
    BY <1>2, <2>1, <2>2, <2>3, <2>6, <2>7 DEF EnclavesInv, Exists
<1> QED
  BY <1>3, <1>4, <1>5, RegistrySteps DEF Registers

(* The registered key of a registered enclave is a measured one.            *)
LEMMA RegisteredKeyMeasured ==
    ASSUME TypeOK, EnclavesInv, NEW e \in EnclaveIds, RegisteredPk(e) /= None
    PROVE  Measured(RegisteredPk(e))
<1>1. Exists(enclaves, e) /\ RegisteredPk(e) = enclaves[e].pk
  BY DEF RegisteredPk
<1>2. /\ boots[enclaves[e].pk] /= None /\ RegistrationOf(e) \in published
      /\ RegistrationOf(e).pcrs = Measurement(boots[enclaves[e].pk])
  BY <1>1 DEF EnclavesInv, RegistrationOf
<1> QED
  BY <1>1, <1>2 DEF Measured
-----------------------------------------------------------------------------
(* A script holds at each await what it read and tested before: the         *)
(* registered key is compared before the vault is made and funded.          *)
LEMMA ScriptKept ==
    ASSUME TypeOK, FilesInv, EnclavesInv, ScriptInv, [Next]_vars
    PROVE  ScriptInv'
<1>1. script \in Script
  BY DEF TypeOK
<1>2. ASSUME script'.phase \in VaultPhases, script'.enclave /= None,
             script.phase \in VaultPhases,
             script'.enclave = script.enclave, script'.key = script.key
      PROVE  Measured(script.key)'
  <2>1. script.key \in Keys /\ Measured(script.key)
    BY <1>1, <1>2 DEF ScriptInv, KeyPhases, VaultCoSignerMeasured, Script
  <2>2. PICK k \in Keys : k = script.key
    BY <2>1
  <2>3. Measured(k)'
    BY <2>1, <2>2, MeasuredForever
  <2> QED
    BY <1>2, <2>2, <2>3 DEF Measured
<1>3. ASSUME script' = script
      PROVE  ScriptInv'
  <2>1. VaultCoSignerMeasured'
    BY <1>2, <1>3 DEF VaultCoSignerMeasured, Measured
  <2> QED
    BY <1>3, <2>1 DEF ScriptInv
<1>4. ASSUME script'.phase = "idle"
      PROVE  ScriptInv'
  BY <1>4 DEF ScriptInv, RegisterPhases, KeyPhases, VaultPhases, VaultCoSignerMeasured
<1>5. Idle.phase = "idle"
  BY DEF Idle
<1>6. CASE HostStep \/ ChainStep \/ UNCHANGED vars
  BY <1>3, <1>6 DEF HostStep, BuildEnclave, RunEnclave, StopEnclave, SaveAttestation,
                    ChainStep, vars
<1>7. CASE ScriptEnds
  BY <1>4, <1>5, <1>7 DEF ScriptEnds
<1>8. CASE RegisterStep
  <2>1. ASSUME NEW c, NEW pcrs, RegisterStart(c, pcrs)
        PROVE  ScriptInv'
    <3>1. /\ script'.phase = IF c = None THEN "create" ELSE "register"
          /\ script'.pcrs = pcrs /\ script'.attestation = attestationFile
          /\ script'.config = c
      BY <2>1 DEF RegisterStart, Idle
    <3> QED
      BY <2>1, <3>1 DEF RegisterStart, ScriptInv, RegisterPhases, KeyPhases,
                        VaultPhases, VaultCoSignerMeasured
  <2>2. ASSUME NEW c \in ConfigIds, CreateConfigTx(c)
        PROVE  ScriptInv'
    <3>1. /\ script'.phase = "find" /\ script'.config = c
          /\ script'.attestation = script.attestation
      BY <1>1, <2>2 DEF CreateConfigTx, Script
    <3> QED
      BY <2>2, <3>1, NoneAssumption
      DEF CreateConfigTx, ScriptInv, RegisterPhases, KeyPhases, VaultPhases,
          VaultCoSignerMeasured
  <2>3. ASSUME FindCreatedConfigObject
        PROVE  ScriptInv'
    <3>1. /\ script'.phase = "register" /\ script'.config = script.config
          /\ script'.attestation = script.attestation
      BY <1>1, <2>3 DEF FindCreatedConfigObject, Script
    <3> QED
      BY <2>3, <3>1
      DEF FindCreatedConfigObject, ScriptInv, RegisterPhases, KeyPhases, VaultPhases,
          VaultCoSignerMeasured
  <2>4. ASSUME NEW e, RegisterTx(e)
        PROVE  ScriptInv'
    BY <1>4, <1>5, <2>4 DEF RegisterTx
  <2> QED
    BY <1>8, <2>1, <2>2, <2>3, <2>4 DEF RegisterStep
<1>9. CASE GateStep
  <2>1. ASSUME NEW e \in EnclaveIds, GateStart(e)
        PROVE  ScriptInv'
    <3>1. CASE pcrFile = None \/ attestationFile = None
      BY <1>3, <2>1, <3>1 DEF GateStart
    <3>2. CASE ~(pcrFile = None \/ attestationFile = None)
      <4>1. /\ script'.phase = "gate" /\ script'.attestation = attestationFile
            /\ script'.enclave = e
        BY <2>1, <3>2 DEF GateStart, Idle
      <4> QED
        BY <2>1, <3>2, <4>1, NoneAssumption DEF ScriptInv, RegisterPhases, KeyPhases, VaultPhases,
                          VaultCoSignerMeasured
    <3> QED
      BY <3>1, <3>2
  <2>2. CASE GateReport
    BY <1>4, <1>5, <2>2 DEF GateReport
  <2> QED
    BY <1>9, <2>1, <2>2 DEF GateStep
<1>10. CASE VaultStep
  <2>1. ASSUME NEW remote, NEW e, VaultStart(remote, e)
        PROVE  ScriptInv'
    <3>1. script'.phase = "health"
      BY <2>1 DEF VaultStart, Idle
    <3> QED
      BY <3>1 DEF ScriptInv, RegisterPhases, KeyPhases, VaultPhases, VaultCoSignerMeasured
  <2>2. CASE ConnectEnclave
    <3>1. script'.phase = "attest" /\ script'.key = Serving /\ Serving /= None
      BY <1>1, <2>2 DEF ConnectEnclave, Answers, Script
    <3> QED
      BY <3>1 DEF ScriptInv, RegisterPhases, KeyPhases, VaultPhases, VaultCoSignerMeasured
  <2>3. CASE CheckAttestation
    <3>1. script'.phase = "match" /\ script'.key = script.key
      BY <1>1, <2>3 DEF CheckAttestation, Script
    <3> QED
      BY <2>3, <3>1 DEF CheckAttestation, ScriptInv, RegisterPhases, KeyPhases,
                        VaultPhases, VaultCoSignerMeasured
  <2>4. CASE MakeVault
    <3>1. /\ script'.phase = "fund" /\ script'.key = script.key
          /\ script'.enclave = script.enclave
      BY <1>1, <2>4 DEF MakeVault, Script
    <3>2. script.key \in Keys
      BY <1>1, <2>4 DEF MakeVault, ScriptInv, KeyPhases, Script
    <3>3. ASSUME script.enclave /= None
          PROVE  Measured(script.key)'
      <4>1. script.enclave \in EnclaveIds /\ RegisteredPk(script.enclave) = script.key
        BY <1>1, <2>4, <3>3 DEF MakeVault, AssertRegisteredEnclaveMatches, Script
      <4>2. PICK k \in Keys : k = script.key
        BY <3>2
      <4>3. Measured(k)
        BY <4>1, <4>2, NoneAssumption, RegisteredKeyMeasured
      <4>4. Measured(k)'
        BY <4>3, MeasuredForever
      <4> QED
        BY <3>1, <4>2, <4>4 DEF Measured
    <3>4. VaultCoSignerMeasured'
      BY <3>1, <3>3 DEF VaultCoSignerMeasured, Measured
    <3> QED
      BY <3>1, <3>2, <3>4, NoneAssumption DEF ScriptInv, RegisterPhases
  <2>5. ASSUME EnsureFunded \/ CoSign \/ ExecuteTransaction \/ CoSignRefused
        PROVE  ScriptInv'
    <3>1. /\ script.phase \in VaultPhases
          /\ script'.phase \in {"cosign", "execute", "drain", "receipt"}
          /\ script'.key = script.key /\ script'.enclave = script.enclave
      BY <1>1, <2>5 DEF EnsureFunded, CoSign, ExecuteTransaction, CoSignRefused,
                        VaultPhases, Script
    <3>2. VaultCoSignerMeasured'
      BY <1>2, <3>1 DEF VaultCoSignerMeasured, Measured
    <3> QED
      BY <3>1, <3>2 DEF ScriptInv, RegisterPhases, KeyPhases, VaultPhases
  <2>6. CASE RecordPolicyRejectedReceipt
    BY <1>4, <1>5, <2>6 DEF RecordPolicyRejectedReceipt
  <2> QED
    BY <1>10, <2>1, <2>2, <2>3, <2>4, <2>5, <2>6 DEF VaultStep
<1> QED
  BY <1>6, <1>7, <1>8, <1>9, <1>10 DEF Next

(* A report that is ready is of a measured key.                             *)
LEMMA ReportKept ==
    ASSUME TypeOK, EnclavesInv, ScriptInv, ReportInv, [Next]_vars
    PROVE  ReportInv'
<1>1. ASSUME report' = report
      PROVE  ReportInv'
  <2>1. CASE report.ready
    <3>1. report.key \in Keys /\ Measured(report.key)
      BY <2>1 DEF ReportInv, TypeOK
    <3>2. PICK k \in Keys : k = report.key
      BY <3>1
    <3>3. Measured(k)'
      BY <3>1, <3>2, MeasuredForever
    <3> QED
      BY <1>1, <2>1, <3>2, <3>3 DEF ReportInv, Measured
  <2>2. CASE ~report.ready
    BY <1>1, <2>2 DEF ReportInv
  <2> QED
    BY <2>1, <2>2
<1>2. ASSUME NEW e, GateStart(e)
      PROVE  ReportInv'
  <2>1. report' = [ready |-> FALSE, key |-> None] \/ report' = report
    BY <1>2 DEF GateStart
  <2> QED
    BY <1>1, <2>1 DEF ReportInv
<1>3. ASSUME GateReport
      PROVE  ReportInv'
  <2>1. script.attestation \in AttestationResponse
    BY <1>3 DEF GateReport, ScriptInv, TypeOK, Script
  <2>2. PICK k \in Keys : k = script.attestation.publicKey
    BY <2>1 DEF AttestationResponse
  <2>3. ASSUME GateReady
        PROVE  Measured(k)'
    <3>1. RegisteredPk(script.enclave) = k
      BY <2>2, <2>3 DEF GateReady
    <3>2. script.enclave \in EnclaveIds
      BY <1>3 DEF GateReport, ScriptInv, TypeOK, Script
    <3>3. Measured(k)
      BY <3>1, <3>2, NoneAssumption, RegisteredKeyMeasured
    <3> QED
      BY <3>3, MeasuredForever
  <2>4. report'.ready = GateReady /\ report'.key = k
    BY <1>3, <2>2 DEF GateReport
  <2>5. k /= None
    BY NoneAssumption
  <2> QED
    BY <2>3, <2>4, <2>5 DEF ReportInv, Measured
<1>4. CASE HostStep \/ ChainStep \/ RegisterStep
  BY <1>1, <1>4 DEF HostStep, BuildEnclave, RunEnclave, StopEnclave, SaveAttestation,
                    ChainStep, RegisterStep, RegisterStart, CreateConfigTx,
                    FindCreatedConfigObject, RegisterTx
<1>5. CASE GateStep
  BY <1>2, <1>3, <1>5 DEF GateStep
<1>6. CASE VaultStep \/ ScriptEnds \/ UNCHANGED vars
  BY <1>1, <1>6 DEF VaultStep, VaultStart, ConnectEnclave, CheckAttestation, MakeVault,
                    EnsureFunded, CoSign, ExecuteTransaction, CoSignRefused,
                    RecordPolicyRejectedReceipt, ScriptEnds, vars
<1> QED
  BY <1>4, <1>5, <1>6 DEF Next
-----------------------------------------------------------------------------
\* The inductive invariant holds initially.
LEMMA DeploymentInitially == Init => DeploymentInv
<1> SUFFICES ASSUME Init
             PROVE  DeploymentInv
  OBVIOUS
<1>1. TypeOK
  BY DEF Init, RegistryInit, TypeOK, RegistryTypeOK, Idle, Script, Phases
<1>2. FilesInv /\ ScriptInv /\ ReportInv
  BY DEF Init, Idle, FilesInv, Genuine, ScriptInv, ReportInv, RegisterPhases, KeyPhases,
         VaultPhases, VaultCoSignerMeasured
<1>3. PublishedInv /\ EnclavesInv
  BY DEF Init, RegistryInit, PublishedInv, EnclavesInv, Exists
<1> QED
  BY <1>1, <1>2, <1>3 DEF DeploymentInv

\* Every step keeps the inductive invariant.
LEMMA DeploymentInvKept == DeploymentInv /\ [Next]_vars => DeploymentInv'
  BY TypesKept, FilesKept, PublishedKept, EnclavesKept, ScriptKept, ReportKept
  DEF DeploymentInv

\* The inductive invariant holds in every reachable state.
LEMMA DeploymentInvHolds == Spec => []DeploymentInv
  BY DeploymentInitially, DeploymentInvKept, PTL DEF Spec

(* The registry, the host, the files and the scripts keep their types.      *)
THEOREM TypeCorrect == Spec => []TypeOK
<1>1. DeploymentInv => TypeOK
  BY DEF DeploymentInv
<1> QED
  BY <1>1, DeploymentInvHolds, PTL

(* Every registered enclave's key was made by an enclave measured as its    *)
(* configuration was at its version, the only measurement of that version   *)
(* (enclave.move:43, 85, 114-124).                                          *)
THEOREM RegisteredAlwaysMeasured == Spec => []RegisteredIsMeasured
<1>1. DeploymentInv => RegisteredIsMeasured
  <2> SUFFICES ASSUME DeploymentInv, NEW e \in EnclaveIds, Exists(enclaves, e)
               PROVE  /\ boots[enclaves[e].pk] /= None
                      /\ {p.pcrs : p \in {q \in published :
                              /\ q.config = origin[e]
                              /\ q.version = enclaves[e].configVersion}}
                             = {Measurement(boots[enclaves[e].pk])}
    BY DEF RegisteredIsMeasured
  <2>1. boots[enclaves[e].pk] /= None /\ RegistrationOf(e) \in published
    BY DEF DeploymentInv, EnclavesInv
  <2>2. /\ RegistrationOf(e).config = origin[e]
        /\ RegistrationOf(e).version = enclaves[e].configVersion
        /\ RegistrationOf(e).pcrs = Measurement(boots[enclaves[e].pk])
    BY DEF RegistrationOf
  <2>3. \A q \in published :
            (q.config = origin[e] /\ q.version = enclaves[e].configVersion)
                => q.pcrs = Measurement(boots[enclaves[e].pk])
    BY <2>1, <2>2 DEF DeploymentInv, PublishedInv
  <2> QED
    BY <2>1, <2>2, <2>3
<1> QED
  BY <1>1, DeploymentInvHolds, PTL

(* The vault script funds and uses a key of a measured enclave when it was  *)
(* told which one is registered (testnet-vault-execute.ts:54-84, 374-421).  *)
THEOREM VaultCoSignerAlwaysMeasured == Spec => []VaultCoSignerMeasured
<1>1. DeploymentInv => VaultCoSignerMeasured
  BY DEF DeploymentInv, ScriptInv
<1> QED
  BY <1>1, DeploymentInvHolds, PTL

(* A gate that is ready stands for a key of a production enclave, if zeros  *)
(* were never published (external-gates-preflight.ts:162-183).              *)
THEOREM ReadyAlwaysMeansNonDebug == Spec => []ReadyMeansNonDebug
<1>1. DeploymentInv => ReadyMeansNonDebug
  <2> SUFFICES ASSUME DeploymentInv, report.ready, ZeroNeverPublished
               PROVE  /\ Measured(report.key)
                      /\ boots[report.key].mode = "production"
    BY DEF ReadyMeansNonDebug
  <2>1. Measured(report.key)
    BY DEF DeploymentInv, ReportInv
  <2>2. Measurement(boots[report.key]) /= ZeroPcrs
    BY <2>1 DEF Measured, ZeroNeverPublished
  <2> QED
    BY <2>1, <2>2 DEF Measurement
<1> QED
  BY <1>1, DeploymentInvHolds, PTL
=============================================================================
