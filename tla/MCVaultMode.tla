------------------------------ MODULE MCVaultMode ------------------------------
(* A vault of its own config and one foreign config, two addresses that are    *)
(* guardians together, or one of them twice, a timelock that passes and one   *)
(* whose end does not fit in u64.                                             *)
EXTENDS VaultMode

CONSTANTS alice, bob

MCGuardianLists == {<<alice, bob>>, <<bob, bob>>}
MCTimelocks == {2, U64Max}
================================================================================
