-------------------------- MODULE EnclaveRegistry --------------------------
(***************************************************************************)
(* move/enclave/sources/enclave.move with the capability that               *)
(* move/aegis/sources/attestation.move makes: the configurations an owner   *)
(* publishes, each a measurement (PCRs) and a version, and the enclave      *)
(* objects registered under them with the key of an attestation document.   *)
(* Object ids come from ConfigIds and EnclaveIds; an object that is not     *)
(* there is None.  published and origin are history: every measurement a    *)
(* configuration ever had, and the configuration an enclave was registered  *)
(* under, which the code does not store.                                    *)
(***************************************************************************)
EXTENDS Naturals

CONSTANTS Senders,      \* addresses that send transactions
          CapOwner,     \* the address that holds Cap<AEGIS>
          ConfigIds, EnclaveIds,
          Pcrs,         \* measurements, PCR0 to PCR2 as one value
          Keys,         \* public keys of enclaves
          MaxVersion,   \* bound on the updates of one configuration
          None

ASSUME CapOwnerAssumption == CapOwner \in Senders
ASSUME NoneAssumption == None \notin ConfigIds \cup EnclaveIds \cup Pcrs \cup Keys

VARIABLES configs, enclaves, published, origin

registryVars == <<configs, enclaves, published, origin>>

EnclaveConfig == [pcrs : Pcrs, version : Nat]

ASSUME ConfigObjectAssumption == None \notin EnclaveConfig

Enclave == [pk : Keys, configVersion : Nat, owner : Senders]

NitroAttestationDocument == [pcrs : Pcrs, publicKey : Keys]

Publication == [config : ConfigIds, version : Nat, pcrs : Pcrs]

Exists(objects, id) == objects[id] /= None

PublicationOf(c) ==
    [config |-> c, version |-> configs[c].version, pcrs |-> configs[c].pcrs]

RegistryInit ==
    /\ configs = [c \in ConfigIds |-> None]
    /\ enclaves = [e \in EnclaveIds |-> None]
    /\ published = {}
    /\ origin = [e \in EnclaveIds |-> None]

CreateEnclaveConfig(sender, c, pcrs) ==
    /\ sender = CapOwner
    /\ ~Exists(configs, c)
    /\ configs' = [configs EXCEPT ![c] = [pcrs |-> pcrs, version |-> 0]]
    /\ published' = published \cup {[config |-> c, version |-> 0, pcrs |-> pcrs]}
    /\ UNCHANGED <<enclaves, origin>>

NextVersion(c) == configs[c].version + 1

UpdatePcrs(sender, c, pcrs) ==
    /\ sender = CapOwner
    /\ Exists(configs, c)
    /\ configs[c].version < MaxVersion
    /\ configs' = [configs EXCEPT ![c] = [pcrs |-> pcrs, version |-> NextVersion(c)]]
    /\ published' = published \cup
           {[config |-> c, version |-> NextVersion(c), pcrs |-> pcrs]}
    /\ UNCHANGED <<enclaves, origin>>

\* Mutation: the document is registered unread.
LoadPkUnmeasured(c, document) == document.pcrs \in Pcrs

LoadPk(c, document) == document.pcrs = configs[c].pcrs

RegisterEnclave(sender, e, c, document) ==
    /\ Exists(configs, c)
    /\ LoadPk(c, document)
    /\ ~Exists(enclaves, e)
    /\ origin[e] = None            \* a deleted object's id is not used again
    /\ enclaves' = [enclaves EXCEPT ![e] =
           [pk |-> document.publicKey, configVersion |-> configs[c].version,
            owner |-> sender]]
    /\ origin' = [origin EXCEPT ![e] = c]
    /\ UNCHANGED <<configs, published>>

(* Anyone may destroy an enclave whose version is older than that of the    *)
(* configuration named in the call, which need not be its own.              *)
DestroyOldEnclave(e, c) ==
    /\ Exists(enclaves, e) /\ Exists(configs, c)
    /\ enclaves[e].configVersion < configs[c].version
    /\ enclaves' = [enclaves EXCEPT ![e] = None]
    /\ UNCHANGED <<configs, published, origin>>

DeployOldEnclaveByOwner(sender, e) ==
    /\ Exists(enclaves, e)
    /\ enclaves[e].owner = sender
    /\ enclaves' = [enclaves EXCEPT ![e] = None]
    /\ UNCHANGED <<configs, published, origin>>

RegistryTypeOK ==
    /\ configs \in [ConfigIds -> EnclaveConfig \cup {None}]
    /\ enclaves \in [EnclaveIds -> Enclave \cup {None}]
    /\ published \subseteq Publication
    /\ origin \in [EnclaveIds -> ConfigIds \cup {None}]
=============================================================================
