----------------------------- MODULE WalletAccount -----------------------------
(* The web wallet's accounts (app/src/lib/wallet-account.tsx and the onboarding, *)
(* unlock and backup screens). Every tab keeps a copy of the wallet it read from *)
(* localStorage, and the one secret it has decrypted; no tab is told when another*)
(* one writes. A key is derived from a password in an await, and the tab goes on *)
(* meanwhile. A password is abstracted to whether it is right.                  *)
EXTENDS SequencesExt, Filter

CONSTANTS
    Tabs, Accounts, None,
    Importable      \* bound: the accounts whose secret key the user has from elsewhere

ASSUME AccountAssumption == None \notin Accounts /\ Importable \subseteq Accounts

VARIABLES
    disk,     \* localStorage[STORAGE_KEY], shared by the tabs
    store,    \* each tab's copy of it, a React state
    signer,   \* the account whose keypair a tab holds
    tasks,    \* createAccount, importAccount and unlock calls at their await
    busy,     \* the call the screen that is shown now waits for
    used,     \* accounts that exist already; createAccount makes a new one
    held      \* history: accounts taken into this browser and not forgotten since

accountVars == <<disk, store, signer, tasks, busy, used, held>>

WalletStore ==
    [accounts : Seq(Accounts), backed : SUBSET Accounts, active : Accounts \cup {None}]

EmptyStore == [accounts |-> <<>>, backed |-> {}, active |-> None]

Task == [kind : {"create", "import", "unlock"}, account : Accounts]

AccountsOf(st) == ToSet(st.accounts)

\* status, and what WalletDashboard renders for it.
Screen(t) ==
    IF store[t].accounts = <<>> THEN "onboarding"
    ELSE IF signer[t] = None THEN "unlock"
    ELSE IF store[t].active \in AccountsOf(store[t]) \ store[t].backed THEN "backup"
    ELSE "dashboard"

AccountInit ==
    /\ disk = EmptyStore
    /\ store = [t \in Tabs |-> EmptyStore]
    /\ signer = [t \in Tabs |-> None]
    /\ tasks = [t \in Tabs |-> {}]
    /\ busy = [t \in Tabs |-> None]
    /\ used = Importable
    /\ held = {}

\* setBusy(false) reaches the screen that called, and a new screen is not busy.
Settle(t, task) ==
    busy' = [busy EXCEPT ![t] = IF Screen(t)' # Screen(t) \/ @ = task THEN None ELSE @]

\* persist: the tab's copy and localStorage become the same.
Persist(t, next) ==
    /\ disk' = next
    /\ store' = [store EXCEPT ![t] = next]

Begin(t, task) ==
    /\ busy[t] = None
    /\ tasks' = [tasks EXCEPT ![t] = @ \cup {task}]
    /\ busy' = [busy EXCEPT ![t] = task]
    /\ UNCHANGED <<disk, store, signer, held>>

--------------------------------------------------------------------------------
(* Onboarding.tsx *)

CreateAccount(t, a) ==
    /\ Screen(t) = "onboarding"
    /\ a \notin used
    /\ used' = used \cup {a}
    /\ Begin(t, [kind |-> "create", account |-> a])

ImportAccount(t, a) ==
    /\ Screen(t) = "onboarding"
    /\ a \in Importable
    /\ UNCHANGED used
    /\ Begin(t, [kind |-> "import", account |-> a])

\* Mutation: an account that is active stays so.
WithKept(st, a, backupConfirmed) ==
    [accounts |-> Append(Kept(st.accounts, Accounts \ {a}), a),
     backed |-> IF backupConfirmed THEN st.backed \cup {a} ELSE st.backed \ {a},
     active |-> IF st.active = None THEN a ELSE st.active]

\* The account goes last, and comes anew if it was there.
With(st, a, backupConfirmed) ==
    [accounts |-> Append(Kept(st.accounts, Accounts \ {a}), a),
     backed |-> IF backupConfirmed THEN st.backed \cup {a} ELSE st.backed \ {a},
     active |-> a]

\* Mutation: the account is added to what the tab read when it was opened.
AdoptIntoCopy(t, task) ==
    /\ task \in tasks[t] /\ task.kind # "unlock"
    /\ Persist(t, With(store[t], task.account, task.kind = "import"))
    /\ signer' = [signer EXCEPT ![t] = task.account]
    /\ tasks' = [tasks EXCEPT ![t] = @ \ {task}]
    /\ held' = held \cup {task.account}
    /\ UNCHANGED used
    /\ Settle(t, task)

\* adoptKeypair after its await: what other tabs have written meanwhile is read again.
AdoptKeypair(t, task) ==
    /\ task \in tasks[t] /\ task.kind # "unlock"
    /\ Persist(t, With(disk, task.account, task.kind = "import"))
    /\ signer' = [signer EXCEPT ![t] = task.account]
    /\ tasks' = [tasks EXCEPT ![t] = @ \ {task}]
    /\ held' = held \cup {task.account}
    /\ UNCHANGED used
    /\ Settle(t, task)

--------------------------------------------------------------------------------
(* UnlockScreen.tsx *)

\* The account is that of the copy the screen was rendered with.
Unlock(t) ==
    /\ Screen(t) = "unlock"
    /\ Begin(t, [kind |-> "unlock", account |-> store[t].active])
    /\ UNCHANGED used

\* The password was right: setSigner, whatever has happened since.
Unlocked(t, task) ==
    /\ task \in tasks[t] /\ task.kind = "unlock"
    /\ signer' = [signer EXCEPT ![t] = task.account]
    /\ tasks' = [tasks EXCEPT ![t] = @ \ {task}]
    /\ UNCHANGED <<disk, store, used, held>>
    /\ Settle(t, task)

WrongPassword(t, task) ==
    /\ task \in tasks[t] /\ task.kind = "unlock"
    /\ tasks' = [tasks EXCEPT ![t] = @ \ {task}]
    /\ UNCHANGED <<disk, store, signer, used, held>>
    /\ Settle(t, task)

\* The first account that is left takes the place of an active one.
Without(st, a) ==
    LET accounts == Kept(st.accounts, Accounts \ {a})
    IN  [accounts |-> accounts,
         backed |-> st.backed \ {a},
         active |-> IF st.active # a THEN st.active
                    ELSE IF accounts = <<>> THEN None ELSE Head(accounts)]

\* "Forget this account", which an unlock in flight does not disable.
RemoveAccount(t) ==
    /\ Screen(t) = "unlock"
    /\ Persist(t, Without(disk, store[t].active))
    /\ signer' = [signer EXCEPT ![t] = None]
    /\ held' = held \ {store[t].active}
    /\ UNCHANGED <<tasks, used>>
    /\ Settle(t, None)

--------------------------------------------------------------------------------
(* BackupKeyScreen.tsx, which shows the secret of the signer; locking; reloading. *)

ConfirmBackup(t) ==
    /\ Screen(t) = "backup"
    /\ Persist(t, [disk EXCEPT !.backed =
                       @ \cup (AccountsOf(disk) \cap {store[t].active})])
    /\ UNCHANGED <<signer, tasks, used, held>>
    /\ Settle(t, None)

Lock(t) ==
    /\ Screen(t) \in {"backup", "dashboard"}
    /\ signer' = [signer EXCEPT ![t] = None]
    /\ UNCHANGED <<disk, store, tasks, used, held>>
    /\ Settle(t, None)

\* The page is loaded anew: its calls are gone, and loadStore gives it its copy.
Reload(t) ==
    /\ store' = [store EXCEPT ![t] = disk]
    /\ signer' = [signer EXCEPT ![t] = None]
    /\ tasks' = [tasks EXCEPT ![t] = {}]
    /\ busy' = [busy EXCEPT ![t] = None]
    /\ UNCHANGED <<disk, used, held>>

--------------------------------------------------------------------------------
(* Properties *)

AccountTypeOK ==
    /\ disk \in WalletStore
    /\ store \in [Tabs -> WalletStore]
    /\ signer \in [Tabs -> Accounts \cup {None}]
    /\ tasks \in [Tabs -> SUBSET Task]
    /\ busy \in [Tabs -> Task \cup {None}]
    /\ used \subseteq Accounts /\ held \subseteq Accounts

\* However tabs interleave, localStorage holds each account that was taken in and not
\* forgotten since, once, and one of them is active (wallet-account.tsx 123-232).
NoAccountLost ==
    /\ AccountsOf(disk) = held
    /\ IsInjective(disk.accounts)
    /\ disk.backed \subseteq held
    /\ disk.active \in held \/ (held = {} /\ disk.active = None)
================================================================================
