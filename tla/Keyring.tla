------------------------------ MODULE Keyring ------------------------------
(***************************************************************************)
(* The extension's keyring (extension/src/keyring.ts): accounts encrypted   *)
(* in chrome.storage.local, the unlocked ones in chrome.storage.session,    *)
(* and the accounts each origin was allowed to see.                         *)
(*                                                                         *)
(* Every call reads and writes whole values of chrome.storage, and awaits   *)
(* in between: the slow derivation of a key from the password, and each     *)
(* get and set.  Calls of several popups and several request handlers       *)
(* interleave there.                                                        *)
(***************************************************************************)
EXTENDS FiniteSets

CONSTANTS
    Accounts,    \* addresses
    Passwords,
    Origins,     \* of dApps
    Popups,      \* popup pages, each with at most one call running
    Handlers,    \* background handlers that may change an origin's accounts
    None         \* no value

ASSUME NoneAssumption == None \notin Passwords

VARIABLES
    stored,      \* LOCAL_KEY: the password an account is encrypted under
    session,     \* SESSION_KEY: the accounts whose secret is decrypted
    origins,     \* ORIGINS_KEY: the accounts an origin may see
    popupTask,   \* the adopt or unlock a popup has running
    originTask,  \* the approveOrigin or revokeOrigin a handler has running
    saved,       \* history: accounts a popup was told are set up
    raced        \* history: accounts written between the read and the write
                 \* of another set-up

keyringVars == <<stored, session, origins, popupTask, originTask, saved, raced>>

StoredAccounts == [Accounts -> Passwords \cup {None}]

OriginMap == [Origins -> SUBSET Accounts]

(* A call of adopt (encrypting, saving) or unlock (decrypting); both end    *)
(* with a merge into the session.                                           *)
PopupTask ==
    [step : {"encrypting", "saving", "decrypting", "merging", "opening"},
     password : Passwords, opens : SUBSET Accounts,
     local : StoredAccounts, secrets : SUBSET Accounts, adopts : BOOLEAN]

OriginTask ==
    [step : {"reading", "writing"}, origin : Origins,
     addresses : SUBSET Accounts, map : OriginMap]

NoAccounts == [a \in Accounts |-> None]

NoOrigins == [o \in Origins |-> {}]

HasAccounts == \E a \in Accounts : stored[a] # None

(* isLocked: false while there is nothing to unlock.                        *)
IsLocked == HasAccounts /\ session = {}

(* unlockedAccounts                                                         *)
UnlockedAccounts == {a \in session : stored[a] # None}

KeyringInit ==
    /\ stored \in StoredAccounts
    /\ session = {}
    /\ origins = NoOrigins
    /\ popupTask = [p \in Popups |-> None]
    /\ originTask = [h \in Handlers |-> None]
    /\ saved = {a \in Accounts : stored[a] # None}
    /\ raced = {}
-----------------------------------------------------------------------------
(* createAccount and importAccount: adopt begins to encrypt the secret.     *)
Adopt(p, a, password) ==
    /\ popupTask[p] = None
    /\ popupTask' = [popupTask EXCEPT ![p] =
            [step |-> "encrypting", password |-> password, opens |-> {a},
             local |-> NoAccounts, secrets |-> {}, adopts |-> TRUE]]
    /\ UNCHANGED <<stored, session, origins, originTask, saved, raced>>

(* A wrong adopt, for sensitivity: the session is written without waiting   *)
(* for what is on disk.                                                     *)
ReadLocalUnsaved(p) ==
    /\ popupTask[p] # None /\ popupTask[p].step = "encrypting"
    /\ popupTask' = [popupTask EXCEPT ![p].step = "merging", ![p].local = stored]
    /\ UNCHANGED <<stored, session, origins, originTask, saved, raced>>

(* The secret is encrypted; localGet.                                       *)
ReadLocal(p) ==
    /\ popupTask[p] # None /\ popupTask[p].step = "encrypting"
    /\ popupTask' = [popupTask EXCEPT ![p].step = "saving", ![p].local = stored]
    /\ UNCHANGED <<stored, session, origins, originTask, saved, raced>>

Saving(p) == popupTask[p] # None /\ popupTask[p].step = "saving"

(* localSet: the accounts that were read, with this one replaced or added.  *)
WriteLocal(p) ==
    /\ Saving(p)
    /\ stored' = [a \in Accounts |-> IF a \in popupTask[p].opens
                                     THEN popupTask[p].password
                                     ELSE popupTask[p].local[a]]
    /\ popupTask' = [popupTask EXCEPT ![p].step = "merging"]
    /\ raced' = IF \E q \in Popups \ {p} : Saving(q) THEN raced \cup popupTask[p].opens
                                                     ELSE raced
    /\ UNCHANGED <<session, origins, originTask, saved>>

(* unlock: localGet, then one decryption after another.                     *)
Unlock(p, password) ==
    /\ popupTask[p] = None
    /\ popupTask' = [popupTask EXCEPT ![p] =
            [step |-> "decrypting", password |-> password, opens |-> {},
             local |-> stored, secrets |-> {}, adopts |-> FALSE]]
    /\ UNCHANGED <<stored, session, origins, originTask, saved, raced>>

(* The accounts under this password are open; with none, the password was   *)
(* wrong and the call ends.                                                 *)
Decrypted(p) ==
    /\ popupTask[p] # None /\ popupTask[p].step = "decrypting"
    /\ LET opened == {a \in Accounts : popupTask[p].local[a] = popupTask[p].password}
       IN  popupTask' = [popupTask EXCEPT ![p] =
                IF opened = {} THEN None
                ELSE [@ EXCEPT !.step = "merging", !.opens = opened]]
    /\ UNCHANGED <<stored, session, origins, originTask, saved, raced>>

(* await sessionSecrets()                                                   *)
ReadSession(p) ==
    /\ popupTask[p] # None /\ popupTask[p].step = "merging"
    /\ popupTask' = [popupTask EXCEPT ![p].step = "opening", ![p].secrets = session]
    /\ UNCHANGED <<stored, session, origins, originTask, saved, raced>>

(* setSessionSecrets: what was read, and the accounts just opened.          *)
WriteSession(p) ==
    /\ popupTask[p] # None /\ popupTask[p].step = "opening"
    /\ session' = popupTask[p].secrets \cup popupTask[p].opens
    /\ saved' = IF popupTask[p].adopts THEN saved \cup popupTask[p].opens ELSE saved
    /\ popupTask' = [popupTask EXCEPT ![p] = None]
    /\ UNCHANGED <<stored, origins, originTask, raced>>

(* lock                                                                     *)
Lock ==
    /\ session' = {}
    /\ UNCHANGED <<stored, origins, popupTask, originTask, saved, raced>>

(* approveOrigin, and revokeOrigin for no addresses: read the map, then     *)
(* write all of it.                                                         *)
SetOrigin(h, o, addresses) ==
    /\ originTask[h] = None
    /\ originTask' = [originTask EXCEPT ![h] =
            [step |-> "reading", origin |-> o, addresses |-> addresses,
             map |-> NoOrigins]]
    /\ UNCHANGED <<stored, session, origins, popupTask, saved, raced>>

ReadOrigins(h) ==
    /\ originTask[h] # None /\ originTask[h].step = "reading"
    /\ originTask' = [originTask EXCEPT ![h].step = "writing", ![h].map = origins]
    /\ UNCHANGED <<stored, session, origins, popupTask, saved, raced>>

WriteOrigins(h) ==
    /\ originTask[h] # None /\ originTask[h].step = "writing"
    /\ origins' = [originTask[h].map EXCEPT ![originTask[h].origin] = originTask[h].addresses]
    /\ originTask' = [originTask EXCEPT ![h] = None]
    /\ UNCHANGED <<stored, session, popupTask, saved, raced>>
-----------------------------------------------------------------------------
KeyringTypeOK ==
    /\ stored \in StoredAccounts
    /\ session \subseteq Accounts
    /\ origins \in OriginMap
    /\ popupTask \in [Popups -> PopupTask \cup {None}]
    /\ originTask \in [Handlers -> OriginTask \cup {None}]
    /\ saved \subseteq Accounts /\ raced \subseteq Accounts

(* What is unlocked is stored, so that it can be unlocked again, and so is   *)
(* an account whose set-up a popup reported as done: calls of popups and    *)
(* handlers, however they interleave, and stops of the worker lose none but *)
(* an account that was written while another set-up had read the accounts   *)
(* and was yet to write them (keyring.ts:42-63, popup.tsx:94).              *)
AccountsBacked == \A a \in (session \cup saved) \ raced : stored[a] # None
=============================================================================
