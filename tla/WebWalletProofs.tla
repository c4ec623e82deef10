--------------------------- MODULE WebWalletProofs ---------------------------
(***************************************************************************)
(* The web wallet, for any number of tabs, accounts, dialogs and sends.    *)
(*                                                                         *)
(* The argument has three layers.  From what a filter keeps of a list      *)
(* (OthersAre), each write of a tab to localStorage keeps NoAccountLost,   *)
(* and every store keeps an account active (AccountsInv).  A tab whose user*)
(* is patient has at most one call that derives a key, and none while it   *)
(* holds one (KeyInv); so the account it shows changes only when it holds  *)
(* no key, and then it awaits no balance and no answer to a send           *)
(* (BalanceInv), and its dialog is gone or as it was opened (HiddenInv).   *)
(* That is why what such a dialog reviews remains a review of its fields   *)
(* and of the account (DialogInv), which is what Confirm signs.            *)
(***************************************************************************)
EXTENDS WebWallet, InductionLemmas

\* accounts.filter keeps the accounts that are not a, each as often as it was there.
LEMMA OthersAre ==
    ASSUME NEW accounts \in Seq(Accounts), NEW a
    PROVE  /\ Kept(accounts, Accounts \ {a}) \in Seq(Accounts)
           /\ ToSet(Kept(accounts, Accounts \ {a})) = ToSet(accounts) \ {a}
           /\ IsInjective(accounts) => IsInjective(Kept(accounts, Accounts \ {a}))
<1>1. ToSet(accounts) \subseteq Accounts
  BY DEF ToSet
<1> QED
  BY <1>1, KeptAre
-----------------------------------------------------------------------------
(* An account of a store is active, unless it has none.                     *)
Shape(st) ==
    st.active \in AccountsOf(st) \/ (st.accounts = <<>> /\ st.active = None)

AccountsInv ==
    /\ AccountTypeOK
    /\ Shape(disk)
    /\ \A t \in Tabs : Shape(store[t])

(* What a store with accounts is active in is one of the wallet's accounts. *)
LEMMA ActiveIsAccount ==
    ASSUME NEW st \in WalletStore, Shape(st)
    PROVE  /\ AccountsOf(st) \subseteq Accounts
           /\ st.accounts # <<>> <=> st.active \in Accounts
           /\ st.accounts = <<>> <=> st.active = None
<1>1. st.accounts \in Seq(Accounts)
  BY DEF WalletStore
<1>2. AccountsOf(st) \subseteq Accounts
  BY <1>1 DEF AccountsOf, ToSet
<1>3. st.accounts = <<>> => AccountsOf(st) = {}
  BY EmptySequence DEF AccountsOf
<1> QED
  BY <1>2, <1>3, AccountAssumption DEF Shape

(* What adoptKeypair writes.                                                *)
LEMMA WithHolds ==
    ASSUME NEW st \in WalletStore, NEW a \in Accounts, NEW b \in BOOLEAN
    PROVE  /\ With(st, a, b) \in WalletStore
           /\ Shape(With(st, a, b))
           /\ With(st, a, b).active = a
           /\ With(st, a, b).accounts # <<>>
           /\ AccountsOf(With(st, a, b)) = AccountsOf(st) \cup {a}
           /\ With(st, a, b).backed \subseteq st.backed \cup {a}
           /\ IsInjective(st.accounts) => IsInjective(With(st, a, b).accounts)
<1> DEFINE w == With(st, a, b)
           o == Kept(st.accounts, Accounts \ {a})
<1>1. st.accounts \in Seq(Accounts) /\ st.backed \subseteq Accounts
  BY DEF WalletStore
<1>2. /\ o \in Seq(Accounts) /\ ToSet(o) = ToSet(st.accounts) \ {a}
      /\ IsInjective(st.accounts) => IsInjective(o)
  BY <1>1, OthersAre
<1>3. /\ w.accounts = Append(o, a) /\ w.active = a
      /\ w.backed \subseteq st.backed \cup {a}
      /\ w = [accounts |-> w.accounts, backed |-> w.backed, active |-> w.active]
  BY DEF With
<1> HIDE DEF w, o
<1>4. /\ w.accounts \in Seq(Accounts) /\ w.accounts # <<>>
      /\ ToSet(w.accounts) = ToSet(o) \cup {a}
      /\ IsInjective(o) => IsInjective(w.accounts)
  BY <1>2, <1>3, AppendElements
<1>5. w \in WalletStore
  BY <1>1, <1>3, <1>4 DEF WalletStore
<1>6. AccountsOf(w) = AccountsOf(st) \cup {a}
  BY <1>2, <1>4 DEF AccountsOf
<1>7. Shape(w)
  BY <1>3, <1>6 DEF Shape
<1> QED
  BY <1>2, <1>3, <1>4, <1>5, <1>6, <1>7 DEF w

(* What removeAccount writes.                                               *)
LEMMA WithoutHolds ==
    ASSUME NEW st \in WalletStore, Shape(st), NEW a \in Accounts
    PROVE  /\ Without(st, a) \in WalletStore
           /\ Shape(Without(st, a))
           /\ AccountsOf(Without(st, a)) = AccountsOf(st) \ {a}
           /\ Without(st, a).backed = st.backed \ {a}
           /\ IsInjective(st.accounts) => IsInjective(Without(st, a).accounts)
<1> DEFINE w == Without(st, a)
           o == Kept(st.accounts, Accounts \ {a})
<1>1. st.accounts \in Seq(Accounts) /\ st.backed \subseteq Accounts
      /\ st.active \in Accounts \cup {None}
  BY DEF WalletStore
<1>2. /\ o \in Seq(Accounts) /\ ToSet(o) = ToSet(st.accounts) \ {a}
      /\ IsInjective(st.accounts) => IsInjective(o)
  BY <1>1, OthersAre
<1>3. /\ w.accounts = o /\ w.backed = st.backed \ {a}
      /\ w.active = IF st.active # a THEN st.active
                    ELSE IF o = <<>> THEN None ELSE Head(o)
      /\ w = [accounts |-> w.accounts, backed |-> w.backed, active |-> w.active]
  BY DEF Without
<1> HIDE DEF w, o
<1>4. o # <<>> => Head(o) \in ToSet(o) /\ Head(o) \in Accounts
  BY <1>2 DEF ToSet
<1>5. AccountsOf(w) = AccountsOf(st) \ {a}
  BY <1>2, <1>3 DEF AccountsOf
<1>6. w \in WalletStore
  BY <1>1, <1>2, <1>3, <1>4 DEF WalletStore
<1>7. Shape(w)
  <2>1. CASE st.active # a /\ st.active \in AccountsOf(st)
    BY <1>3, <1>5, <2>1 DEF Shape
  <2>2. CASE st.accounts = <<>> /\ st.active = None
    <3>1. ToSet(o) = {}
      BY <1>2, <2>2, EmptySequence
    <3>2. o = <<>>
      BY <1>4, <3>1
    <3> QED
      BY <1>3, <2>2, <3>2, AccountAssumption DEF Shape
  <2>3. CASE st.active = a
    BY <1>2, <1>3, <1>4, <2>3 DEF Shape, AccountsOf
  <2> QED
    BY <2>1, <2>2, <2>3 DEF Shape
<1> QED
  BY <1>2, <1>3, <1>5, <1>6, <1>7 DEF w

-----------------------------------------------------------------------------
(* The steps of a tab's accounts, whatever they do to its dashboard.        *)
UserStep(t) ==
    \/ \E a \in Accounts : CreateAccount(t, a) \/ ImportAccount(t, a)
    \/ Unlock(t) \/ RemoveAccount(t) \/ ConfirmBackup(t) \/ Lock(t)

KeyStep(t) ==
    \E task \in tasks[t] :
        AdoptKeypair(t, task) \/ Unlocked(t, task) \/ WrongPassword(t, task)

AccountStep(t) == UserStep(t) \/ KeyStep(t) \/ Reload(t)

(* A function of the tabs, changed in one tab.                              *)
LEMMA TabUpdate ==
    ASSUME NEW R, NEW f \in [Tabs -> R], NEW t \in Tabs, NEW x, x \in R
    PROVE  /\ [f EXCEPT ![t] = x] \in [Tabs -> R]
           /\ [f EXCEPT ![t] = x][t] = x
           /\ \A u \in Tabs : u # t => [f EXCEPT ![t] = x][u] = f[u]
  OBVIOUS

\* What a screen waits for is a call, or nothing.
LEMMA SettleKeepsType ==
    ASSUME busy \in [Tabs -> Task \cup {None}], NEW t \in Tabs, NEW task, Settle(t, task)
    PROVE  busy' \in [Tabs -> Task \cup {None}]
  BY DEF Settle

\* persist writes what it is given, to the disk and to one tab.
LEMMA PersistKeepsType ==
    ASSUME AccountsInv, NEW t \in Tabs, NEW next \in WalletStore, Shape(next),
           Persist(t, next)
    PROVE  /\ disk' \in WalletStore /\ store' \in [Tabs -> WalletStore]
           /\ Shape(disk') /\ \A u \in Tabs : Shape(store'[u])
           /\ store'[t] = next /\ \A u \in Tabs \ {t} : store'[u] = store[u]
<1>1. store \in [Tabs -> WalletStore]
  BY DEF AccountsInv, AccountTypeOK
<1>2. store' \in [Tabs -> WalletStore] /\ store'[t] = next
      /\ \A u \in Tabs : u # t => store'[u] = store[u]
  BY <1>1, TabUpdate DEF Persist
<1>3. \A u \in Tabs : Shape(store'[u])
  <2> SUFFICES ASSUME NEW u \in Tabs
               PROVE  Shape(store'[u])
    OBVIOUS
  <2>1. Shape(store[u])
    BY DEF AccountsInv
  <2> QED
    BY <1>2, <2>1
<1> QED
  BY <1>2, <1>3 DEF Persist

\* A call that begins changes no account.
LEMMA BeginKeepsInv ==
    ASSUME AccountsInv, NEW t \in Tabs, NEW task \in Task, Begin(t, task),
           used' \subseteq Accounts
    PROVE  AccountsInv'
<1>1. tasks' \in [Tabs -> SUBSET Task] /\ busy' \in [Tabs -> Task \cup {None}]
  BY DEF AccountsInv, AccountTypeOK, Begin
<1>2. UNCHANGED <<disk, store, signer, held>>
  BY DEF Begin
<1> QED
  BY <1>1, <1>2 DEF AccountsInv, AccountTypeOK, Shape, AccountsOf

(* The types of the accounts, and the shape of what is stored.              *)
LEMMA AccountStepKeepsInv ==
    ASSUME AccountsInv, NEW t \in Tabs, AccountStep(t)
    PROVE  AccountsInv'
<1> USE DEF AccountTypeOK
<1>0. store[t] \in WalletStore /\ Shape(store[t])
  BY DEF AccountsInv
<1>1. store[t].accounts # <<>> => store[t].active \in Accounts
  BY <1>0, ActiveIsAccount
<1>2. ASSUME NEW a \in Accounts, CreateAccount(t, a)
      PROVE  AccountsInv'
  <2>1. [kind |-> "create", account |-> a] \in Task
    BY DEF Task
  <2> QED
    BY <1>2, <2>1, BeginKeepsInv DEF CreateAccount, AccountsInv
<1>3. ASSUME NEW a \in Accounts, ImportAccount(t, a)
      PROVE  AccountsInv'
  <2>1. [kind |-> "import", account |-> a] \in Task
    BY DEF Task
  <2> QED
    BY <1>3, <2>1, BeginKeepsInv DEF ImportAccount, AccountsInv
<1>4. CASE Unlock(t)
  <2>1. [kind |-> "unlock", account |-> store[t].active] \in Task
    BY <1>1, <1>4 DEF Task, Unlock, Screen
  <2> QED
    BY <1>4, <2>1, BeginKeepsInv DEF Unlock, AccountsInv
<1>5. CASE RemoveAccount(t)
  <2>1. store[t].active \in Accounts
    BY <1>1, <1>5 DEF RemoveAccount, Screen
  <2> DEFINE next == Without(disk, store[t].active)
  <2>2. next \in WalletStore /\ Shape(next)
    BY <2>1, WithoutHolds DEF AccountsInv
  <2>3. Persist(t, next) /\ Settle(t, None)
    BY <1>5 DEF RemoveAccount
  <2> HIDE DEF next
  <2>4. signer' \in [Tabs -> Accounts \cup {None}] /\ held' \subseteq Accounts
        /\ UNCHANGED <<tasks, used>>
    BY <1>5 DEF RemoveAccount, AccountsInv
  <2> QED
    BY <2>2, <2>3, <2>4, PersistKeepsType, SettleKeepsType DEF AccountsInv
<1>6. CASE ConfirmBackup(t)
  <2> DEFINE next == [disk EXCEPT !.backed =
                          @ \cup (AccountsOf(disk) \cap {store[t].active})]
  <2>1. disk \in WalletStore /\ Shape(disk) /\ AccountsOf(disk) \subseteq Accounts
    BY ActiveIsAccount DEF AccountsInv
  <2>2. /\ next.accounts = disk.accounts /\ next.active = disk.active
        /\ next \in WalletStore
    BY <2>1 DEF WalletStore
  <2>3. Persist(t, next) /\ Settle(t, None) /\ UNCHANGED <<signer, tasks, used, held>>
    BY <1>6 DEF ConfirmBackup
  <2> HIDE DEF next
  <2>4. Shape(next)
    BY <2>1, <2>2 DEF Shape, AccountsOf
  <2> QED
    BY <2>2, <2>3, <2>4, PersistKeepsType, SettleKeepsType DEF AccountsInv
<1>7. CASE Lock(t)
  <2>1. /\ Settle(t, None) /\ UNCHANGED <<disk, store, tasks, used, held>>
        /\ signer' \in [Tabs -> Accounts \cup {None}]
    BY <1>7 DEF Lock, AccountsInv
  <2> QED
    BY <2>1, SettleKeepsType DEF AccountsInv, Shape, AccountsOf
<1>8. CASE Reload(t)
  <2>1. disk \in WalletStore /\ Shape(disk) /\ store \in [Tabs -> WalletStore]
    BY DEF AccountsInv
  <2>2. store' = [store EXCEPT ![t] = disk] /\ UNCHANGED <<disk, used, held>>
    BY <1>8 DEF Reload
  <2>3. store' \in [Tabs -> WalletStore] /\ store'[t] = disk
        /\ \A u \in Tabs : u # t => store'[u] = store[u]
    BY <2>1, <2>2, TabUpdate
  <2>4. ASSUME NEW u \in Tabs
        PROVE  Shape(store'[u])
    <3>1. Shape(store[u])
      BY DEF AccountsInv
    <3> QED
      BY <2>1, <2>3, <3>1
  <2>5. /\ signer' \in [Tabs -> Accounts \cup {None}]
        /\ tasks' \in [Tabs -> SUBSET Task]
        /\ busy' \in [Tabs -> Task \cup {None}]
    BY <1>8 DEF Reload, AccountsInv
  <2>6. Shape(disk')
    BY <2>1, <2>2
  <2> QED
    BY <2>1, <2>2, <2>3, <2>4, <2>5, <2>6 DEF AccountsInv
<1>9. ASSUME NEW task \in tasks[t], AdoptKeypair(t, task)
      PROVE  AccountsInv'
  <2>1. task \in Task /\ task.account \in Accounts
    BY DEF AccountsInv, Task
  <2> DEFINE next == With(disk, task.account, task.kind = "import")
  <2>2. next \in WalletStore /\ Shape(next)
    BY <2>1, WithHolds DEF AccountsInv
  <2>3. Persist(t, next) /\ Settle(t, task)
    BY <1>9 DEF AdoptKeypair
  <2> HIDE DEF next
  <2>4. /\ signer' \in [Tabs -> Accounts \cup {None}] /\ held' \subseteq Accounts
        /\ tasks' \in [Tabs -> SUBSET Task] /\ UNCHANGED used
    BY <1>9, <2>1 DEF AdoptKeypair, AccountsInv
  <2> QED
    BY <2>2, <2>3, <2>4, PersistKeepsType, SettleKeepsType DEF AccountsInv
<1>10. ASSUME NEW task \in tasks[t], Unlocked(t, task) \/ WrongPassword(t, task)
       PROVE  AccountsInv'
  <2>1. task \in Task /\ task.account \in Accounts
    BY DEF AccountsInv, Task
  <2>2. /\ Settle(t, task) /\ UNCHANGED <<disk, store, used, held>>
        /\ signer' \in [Tabs -> Accounts \cup {None}]
        /\ tasks' \in [Tabs -> SUBSET Task]
    BY <1>10, <2>1 DEF Unlocked, WrongPassword, AccountsInv
  <2> QED
    BY <2>2, SettleKeepsType DEF AccountsInv, Shape, AccountsOf
<1> QED
  BY <1>2, <1>3, <1>4, <1>5, <1>6, <1>7, <1>8, <1>9, <1>10 DEF AccountStep, UserStep, KeyStep

(* What is taken in or forgotten by one tab is so in what all of them read. *)
LEMMA AccountStepLosesNone ==
    ASSUME AccountsInv, NoAccountLost, NEW t \in Tabs, AccountStep(t)
    PROVE  NoAccountLost'
<1>0. /\ store[t] \in WalletStore /\ Shape(store[t]) /\ disk \in WalletStore /\ Shape(disk)
      /\ tasks[t] \subseteq Task
  BY DEF AccountsInv, AccountTypeOK
<1>1. CASE UNCHANGED <<disk, held>>
  BY <1>1 DEF NoAccountLost, AccountsOf
<1>2. CASE RemoveAccount(t)
  <2> DEFINE a == store[t].active
             next == Without(disk, a)
  <2>1. a \in Accounts
    BY <1>0, <1>2, ActiveIsAccount DEF RemoveAccount, Screen
  <2>2. /\ AccountsOf(next) = AccountsOf(disk) \ {a} /\ Shape(next)
        /\ next.backed = disk.backed \ {a}
        /\ IsInjective(disk.accounts) => IsInjective(next.accounts)
    BY <1>0, <2>1, WithoutHolds
  <2>3. disk' = next /\ held' = held \ {a}
    BY <1>2 DEF RemoveAccount, Persist
  <2> HIDE DEF next
  <2>4. /\ AccountsOf(next) = held \ {a} /\ next.backed \subseteq held \ {a}
        /\ IsInjective(next.accounts)
    BY <2>2 DEF NoAccountLost
  <2>5. next.accounts = <<>> => held \ {a} = {}
    BY <2>4, EmptySequence DEF AccountsOf
  <2> QED
    BY <2>2, <2>3, <2>4, <2>5 DEF NoAccountLost, Shape
<1>3. CASE ConfirmBackup(t)
  <2> DEFINE next == [disk EXCEPT !.backed =
                          @ \cup (AccountsOf(disk) \cap {store[t].active})]
  <2>1. /\ next.accounts = disk.accounts /\ next.active = disk.active
        /\ next.backed \subseteq disk.backed \cup AccountsOf(disk)
    BY <1>0 DEF WalletStore
  <2>2. disk' = next /\ held' = held
    BY <1>3 DEF ConfirmBackup, Persist
  <2> HIDE DEF next
  <2> QED
    BY <2>1, <2>2 DEF NoAccountLost, AccountsOf
<1>4. ASSUME NEW task \in tasks[t], AdoptKeypair(t, task)
      PROVE  NoAccountLost'
  <2>1. task.account \in Accounts
    BY <1>0 DEF Task
  <2> DEFINE a == task.account
             next == With(disk, a, task.kind = "import")
  <2>2. /\ AccountsOf(next) = AccountsOf(disk) \cup {a} /\ next.active = a
        /\ next.backed \subseteq disk.backed \cup {a}
        /\ IsInjective(disk.accounts) => IsInjective(next.accounts)
    BY <1>0, <2>1, WithHolds
  <2>3. disk' = next /\ held' = held \cup {a}
    BY <1>4 DEF AdoptKeypair, Persist
  <2> HIDE DEF next
  <2> QED
    BY <2>2, <2>3 DEF NoAccountLost
<1> QED
  BY <1>1, <1>2, <1>3, <1>4 DEF AccountStep, UserStep, KeyStep, CreateAccount, ImportAccount, Unlock,
     Begin, Lock, Reload, Unlocked, WrongPassword

-----------------------------------------------------------------------------
(* A dialog of one kind has the fields of that kind only, also in what it   *)
(* reviews and has reviewed.                                                *)
ReviewOf(kind) ==
    [sender : Accounts, intent : IntentsOf(kind), totalOf : Accounts,
     known : SUBSET Recipients]

AnalysisOf(kind) ==
    [sender : Accounts, intent : IntentsOf(kind), level : {"low", "high", "critical"}]

DialogOf(kind) ==
    [kind : {kind}, intent : IntentsOf(kind) \cup {None},
     phase : {"form", "preview", "executing", "done", "error"},
     reviewing : ReviewOf(kind) \cup {None}, analysis : AnalysisOf(kind) \cup {None},
     sending : 0 .. MaxSends]

SentOf(kind) ==
    [id : 1 .. MaxSends, tab : Dashboards, kind : {kind}, sender : Accounts,
     intent : IntentsOf(kind), active : Accounts]

Dialogs == DialogOf("send") \cup DialogOf("stake")

FlowTypes ==
    /\ suiMist \in [Dashboards -> Accounts \cup {None}]
    /\ fetches \in [Dashboards -> SUBSET Accounts]
    /\ modal \in [Dashboards -> Dialogs \cup {None}]
    /\ \A t \in Dashboards : modal[t] # None => suiMist[t] # None
    /\ known \subseteq Recipients /\ sentTo \subseteq Recipients
    /\ sends \subseteq SentOf("send") \cup SentOf("stake")
    /\ signed \in 0 .. MaxSends
    /\ verdicts \subseteq [calm : BOOLEAN, same : BOOLEAN, moderate : BOOLEAN]

TypeInv == AccountsInv /\ FlowTypes /\ haste \in [Dashboards -> 0 .. MaxHaste]

\* Dialogs and sends of one kind are among those of TypeOK.
LEMMA DialogTypes ==
    /\ Dialogs \subseteq Dialog
    /\ SentOf("send") \cup SentOf("stake") \subseteq Sent
    /\ \A d \in Dialogs : d.kind \in Kinds /\ d \in DialogOf(d.kind)
    /\ \A kind \in Kinds : DialogOf(kind) \subseteq Dialogs
<1> USE DEF Kinds
<1>1. \A kind \in Kinds : IntentsOf(kind) \subseteq Intents
  BY DEF Intents
<1> USE DEF Dialogs
<1>2. ASSUME NEW kind \in Kinds
      PROVE  /\ DialogOf(kind) \subseteq Dialog
             /\ \A d \in DialogOf(kind) : d.kind = kind
             /\ DialogOf(kind) \subseteq Dialogs
  <2>1. ReviewOf(kind) \subseteq ReviewTask
    BY <1>1 DEF ReviewOf, ReviewTask
  <2>2. AnalysisOf(kind) \subseteq Analysis
    BY <1>1 DEF AnalysisOf, Analysis
  <2> QED
    BY <1>1, <2>1, <2>2 DEF DialogOf, Dialog
<1>3. ASSUME NEW kind \in Kinds
      PROVE  SentOf(kind) \subseteq Sent
  BY <1>1 DEF SentOf, Sent
<1> QED
  BY <1>2, <1>3

(* The invariant is at least what the model calls its types.                *)
LEMMA TypeInvImpliesTypeOK == TypeInv => TypeOK
  BY DialogTypes DEF TypeInv, TypeOK, FlowTypes, AccountsInv

\* No account is there at first, and nothing is under way.
LEMMA InitTypeInv == Init => TypeInv
<1> SUFFICES ASSUME Init
             PROVE  TypeInv
  OBVIOUS
<1>1. EmptyStore \in WalletStore /\ Shape(EmptyStore)
  BY EmptySequence DEF EmptyStore, WalletStore, Shape
<1>2. AccountsInv
  BY <1>1, AccountAssumption DEF AccountsInv, AccountTypeOK, Init, AccountInit
<1>3. FlowTypes /\ haste \in [Dashboards -> 0 .. MaxHaste]
  BY WalletAssumption DEF FlowTypes, Init
<1> QED
  BY <1>2, <1>3 DEF TypeInv

\* The types of the accounts are theirs alone.
LEMMA AccountsUnchanged ==
    ASSUME AccountsInv, UNCHANGED accountVars
    PROVE  AccountsInv'
  BY DEF AccountsInv, AccountTypeOK, Shape, AccountsOf, accountVars

\* What a user does before the page has settled stays within its bound.
LEMMA ActKeepsType ==
    ASSUME haste \in [Dashboards -> 0 .. MaxHaste], NEW t \in Tabs, Act(t) \/ UNCHANGED haste
    PROVE  haste' \in [Dashboards -> 0 .. MaxHaste]
  BY WalletAssumption DEF Act, Hasty

\* A dialog that was just opened is one of its kind.
LEMMA FreshIsDialog ==
    ASSUME NEW kind \in Kinds
    PROVE  Fresh(kind) \in DialogOf(kind) /\ Fresh(kind) \in Dialogs
<1>1. Fresh(kind) \in DialogOf(kind)
  BY WalletAssumption DEF Fresh, DialogOf
<1> QED
  BY <1>1, DialogTypes

(* What an account step does to the dashboard of its tab.                   *)
LEMMA RenderedKeepsTypes ==
    ASSUME TypeInv, AccountsInv', NEW t \in Tabs, Rendered(t)
    PROVE  FlowTypes'
<1>1. /\ store' \in [Tabs -> WalletStore] /\ FlowTypes
      /\ UNCHANGED <<suiMist, known, sends, signed, sentTo, verdicts>>
  BY DEF TypeInv, AccountsInv, AccountTypeOK, Rendered
<1>2. CASE t \notin Dashboards
  BY <1>1, <1>2 DEF FlowTypes, Rendered
<1>3. CASE t \in Dashboards
  <2>1. RefreshEffect(t) \subseteq Accounts
    BY <1>1 DEF RefreshEffect, WalletStore
  <2>2. fetches' \in [Dashboards -> SUBSET Accounts]
    BY <1>1, <1>3, <2>1 DEF FlowTypes, Rendered
  <2> DEFINE d == IF modal[t] # None /\ Screen(t)' # "dashboard" THEN Fresh(modal[t].kind)
                  ELSE modal[t]
  <2>3. modal' = [modal EXCEPT ![t] = d]
    BY <1>3 DEF Rendered
  <2>4. d \in Dialogs \cup {None} /\ (d # None => modal[t] # None)
    BY <1>1, <1>3, FreshIsDialog, DialogTypes DEF FlowTypes
  <2> HIDE DEF d
  <2>5. modal' \in [Dashboards -> Dialogs \cup {None}]
        /\ \A u \in Dashboards : modal'[u] # None => suiMist'[u] # None
    BY <1>1, <1>3, <2>3, <2>4 DEF FlowTypes
  <2> QED
    BY <1>1, <2>2, <2>5 DEF FlowTypes
<1> QED
  BY <1>2, <1>3

\* A page that is loaded anew.
LEMMA ReloadKeepsTypes ==
    ASSUME TypeInv, NEW t \in Tabs, ReloadPage(t)
    PROVE  FlowTypes' /\ haste' \in [Dashboards -> 0 .. MaxHaste]
<1>1. FlowTypes /\ haste \in [Dashboards -> 0 .. MaxHaste]
      /\ UNCHANGED <<known, signed, sentTo, verdicts>>
  BY DEF TypeInv, ReloadPage
<1>2. CASE t \notin Dashboards
  BY <1>1, <1>2 DEF FlowTypes, ReloadPage
<1>3. CASE t \in Dashboards
  <2>1. /\ suiMist' \in [Dashboards -> Accounts \cup {None}]
        /\ fetches' \in [Dashboards -> SUBSET Accounts]
        /\ haste' \in [Dashboards -> 0 .. MaxHaste]
        /\ sends' \subseteq sends
    BY <1>1, <1>3, WalletAssumption DEF FlowTypes, ReloadPage
  <2>2. modal' \in [Dashboards -> Dialogs \cup {None}]
        /\ \A u \in Dashboards : modal'[u] # None => suiMist'[u] # None
    BY <1>1, <1>3 DEF FlowTypes, ReloadPage
  <2> QED
    BY <1>1, <2>1, <2>2 DEF FlowTypes
<1> QED
  BY <1>2, <1>3

(* A step that sets the dialog of a dashboard, and nothing else of it.      *)
LEMMA DialogSetKeepsTypes ==
    ASSUME FlowTypes, NEW t \in Dashboards, NEW d \in Dialogs \cup {None},
           d # None => suiMist[t] # None,
           modal' = [modal EXCEPT ![t] = d],
           UNCHANGED <<suiMist, fetches, known, sends, signed, sentTo, verdicts>>
    PROVE  FlowTypes'
<1>1. modal' \in [Dashboards -> Dialogs \cup {None}]
      /\ \A u \in Dashboards : modal'[u] # None => suiMist'[u] # None
  BY DEF FlowTypes
<1> QED
  BY <1>1 DEF FlowTypes

(* On the dashboard there is an account that is shown, and its key.         *)
LEMMA DashboardHasAccount ==
    ASSUME AccountsInv, NEW t \in Tabs, Screen(t) = "dashboard"
    PROVE  /\ store[t].active \in Accounts /\ store[t].accounts # <<>>
           /\ signer[t] \in Accounts /\ Status(t) = "unlocked"
<1>1. store[t] \in WalletStore /\ Shape(store[t]) /\ signer[t] \in Accounts \cup {None}
  BY DEF AccountsInv, AccountTypeOK
<1>2. store[t].accounts # <<>> /\ signer[t] # None
  BY DEF Screen
<1> QED
  BY <1>1, <1>2, ActiveIsAccount DEF Status

\* The rules that are modelled never say medium.
LEMMA RiskLevels ==
    ASSUME NEW kind, NEW review, NEW failed
    PROVE  RiskLevel(kind, review, failed) \in {"low", "high", "critical"}
<1> DEFINE findings == CollectFindings(DryRunOf(kind, review, failed),
                                       Balance[review.totalOf], review.known)
<1>1. "medium" \notin findings
  BY DEF CollectFindings
<1>2. RiskLevel(kind, review, failed) = ScoreRisk(findings)
  BY DEF RiskLevel, AnalyzeSimSummary
<1> HIDE DEF findings
<1> QED
  BY <1>1, <1>2 DEF ScoreRisk

(* A dialog after each of the steps that change one field or two of it.     *)
LEMMA DialogChanges ==
    ASSUME NEW kind \in Kinds, NEW d \in DialogOf(kind),
           NEW phase \in {"form", "preview", "executing", "done", "error"}
    PROVE  /\ [d EXCEPT !.phase = phase] \in DialogOf(kind)
           /\ [d EXCEPT !.reviewing = None] \in DialogOf(kind)
           /\ \A n \in 0 .. MaxSends :
                 [d EXCEPT !.phase = phase, !.sending = n] \in DialogOf(kind)
           /\ \A intent \in IntentsOf(kind) :
                 [d EXCEPT !.intent = intent, !.phase = phase, !.analysis = None]
                     \in DialogOf(kind)
           /\ \A review \in ReviewOf(kind) :
                 [d EXCEPT !.reviewing = review] \in DialogOf(kind)
           /\ \A analysis \in AnalysisOf(kind) :
                 [d EXCEPT !.reviewing = None, !.phase = phase, !.analysis = analysis]
                     \in DialogOf(kind)
  BY DEF DialogOf

(* The steps of the user that change the dialog only.                       *)
DialogStep(t) ==
    \/ \E kind \in Kinds : Open(t, kind)
    \/ \E kind \in Kinds : \E intent \in IntentsOf(kind) : Edit(t, intent)
    \/ BackToForm(t) \/ Close(t) \/ Review(t) \/ ConfirmRefused(t)

\* What the user does in a dialog keeps its fields of its kind.
LEMMA DialogStepKeepsTypes ==
    ASSUME TypeInv, NEW t \in Dashboards, DialogStep(t)
    PROVE  FlowTypes' /\ (Act(t) \/ UNCHANGED haste) /\ UNCHANGED accountVars
<1>0. /\ FlowTypes /\ t \in Tabs /\ AccountsInv
      /\ modal[t] \in Dialogs \cup {None} /\ (modal[t] # None => suiMist[t] # None)
  BY WalletAssumption DEF TypeInv, FlowTypes
<1>1. ASSUME NEW d \in Dialogs \cup {None}, d # None => suiMist[t] # None, SetDialog(t, d)
      PROVE  FlowTypes' /\ (Act(t) \/ UNCHANGED haste) /\ UNCHANGED accountVars
  BY <1>0, <1>1, DialogSetKeepsTypes DEF SetDialog
<1> DEFINE kind == modal[t].kind
<1>2. modal[t] # None => kind \in Kinds /\ modal[t] \in DialogOf(kind)
                         /\ DialogOf(kind) \subseteq Dialogs
  BY <1>0, DialogTypes
<1> HIDE DEF kind
<1>3. ASSUME NEW k \in Kinds, Open(t, k)
      PROVE  FlowTypes' /\ (Act(t) \/ UNCHANGED haste) /\ UNCHANGED accountVars
  BY <1>1, <1>3, FreshIsDialog DEF Open
<1>4. ASSUME NEW k \in Kinds, NEW intent \in IntentsOf(k), Edit(t, intent)
      PROVE  FlowTypes' /\ (Act(t) \/ UNCHANGED haste) /\ UNCHANGED accountVars
  <2>1. modal[t] # None /\ intent \in IntentsOf(kind)
    BY <1>4 DEF Edit, InPhase, kind
  <2>2. [modal[t] EXCEPT !.intent = intent, !.phase = "form", !.analysis = None] \in Dialogs
    BY <1>2, <2>1, DialogChanges
  <2> QED
    BY <1>0, <1>1, <1>4, <2>1, <2>2 DEF Edit
<1>5. CASE BackToForm(t)
  <2>1. modal[t] # None /\ [modal[t] EXCEPT !.phase = "form"] \in Dialogs
    BY <1>2, <1>5, DialogChanges DEF BackToForm, InPhase
  <2> QED
    BY <1>0, <1>1, <1>5, <2>1 DEF BackToForm
<1>6. CASE Close(t)
  BY <1>1, <1>6 DEF Close
<1>7. CASE Review(t)
  <2> DEFINE review == [sender |-> store[t].active, intent |-> modal[t].intent,
                        totalOf |-> suiMist[t], known |-> known]
  <2>1. /\ modal[t] # None /\ Screen(t) = "dashboard" /\ modal[t].intent # None
        /\ SetDialog(t, [modal[t] EXCEPT !.reviewing = review])
    BY <1>7 DEF Review, InPhase, Ready
  <2>2. store[t].active \in Accounts
    BY <1>0, <2>1, DashboardHasAccount
  <2>3. modal[t].intent \in IntentsOf(kind)
    BY <1>2, <2>1 DEF DialogOf
  <2>4. suiMist[t] \in Accounts /\ known \in SUBSET Recipients
    BY <1>0, <2>1 DEF FlowTypes
  <2>5. review \in ReviewOf(kind)
    BY <2>2, <2>3, <2>4 DEF ReviewOf
  <2> HIDE DEF review
  <2>6. [modal[t] EXCEPT !.reviewing = review] \in Dialogs
    BY <1>2, <2>1, <2>5, DialogChanges
  <2> QED
    BY <1>0, <1>1, <2>1, <2>6
<1>8. CASE ConfirmRefused(t)
  <2>1. modal[t] # None /\ [modal[t] EXCEPT !.phase = "error"] \in Dialogs
    BY <1>2, <1>8, DialogChanges DEF ConfirmRefused, CanConfirm, InPhase
  <2> QED
    BY <1>0, <1>1, <1>8, <2>1 DEF ConfirmRefused
<1> QED
  BY <1>3, <1>4, <1>5, <1>6, <1>7, <1>8 DEF DialogStep

(* The answers that come to a dashboard.                                    *)
AnswerStep(t) ==
    \/ RefreshClicked(t)
    \/ \E a \in Accounts : BalanceArrives(t, a) \/ BalanceFails(t, a)
    \/ \E failed \in BOOLEAN : Reviewed(t, failed)
    \/ ReviewFails(t)

\* What comes is a balance of an account, or an analysis of the kind asked.
LEMMA AnswerStepKeepsTypes ==
    ASSUME TypeInv, NEW t \in Dashboards, AnswerStep(t)
    PROVE  FlowTypes' /\ (Hasty(t) \/ UNCHANGED haste) /\ UNCHANGED accountVars
<1>0. /\ FlowTypes /\ t \in Tabs /\ AccountsInv /\ modal[t] \in Dialogs \cup {None}
      /\ modal[t] # None => suiMist[t] # None
  BY WalletAssumption DEF TypeInv, FlowTypes
<1>1. CASE RefreshClicked(t)
  <2>1. store[t].active \in Accounts
    BY <1>0, <1>1, DashboardHasAccount DEF RefreshClicked
  <2>2. fetches' \in [Dashboards -> SUBSET Accounts]
    BY <1>0, <1>1, <2>1 DEF RefreshClicked, FlowTypes
  <2> QED
    BY <1>0, <1>1, <2>2 DEF RefreshClicked, FlowTypes
<1>2. ASSUME NEW a \in Accounts, BalanceArrives(t, a)
      PROVE  FlowTypes' /\ (Hasty(t) \/ UNCHANGED haste) /\ UNCHANGED accountVars
  <2>1. /\ fetches' \in [Dashboards -> SUBSET Accounts]
        /\ suiMist' \in [Dashboards -> Accounts \cup {None}]
        /\ \A u \in Dashboards : suiMist[u] # None => suiMist'[u] # None
    BY <1>0, <1>2, AccountAssumption DEF BalanceArrives, FlowTypes
  <2> QED
    BY <1>0, <1>2, <2>1 DEF BalanceArrives, FlowTypes
<1>3. ASSUME NEW a \in Accounts, BalanceFails(t, a)
      PROVE  FlowTypes' /\ (Hasty(t) \/ UNCHANGED haste) /\ UNCHANGED accountVars
  <2>1. fetches' \in [Dashboards -> SUBSET Accounts]
    BY <1>0, <1>3 DEF BalanceFails, FlowTypes
  <2> QED
    BY <1>0, <1>3, <2>1 DEF BalanceFails, FlowTypes
<1> DEFINE kind == modal[t].kind
<1>4. modal[t] # None => kind \in Kinds /\ modal[t] \in DialogOf(kind)
                         /\ DialogOf(kind) \subseteq Dialogs
  BY <1>0, DialogTypes
<1> HIDE DEF kind
<1>5. ASSUME NEW failed \in BOOLEAN, Reviewed(t, failed)
      PROVE  FlowTypes' /\ (Hasty(t) \/ UNCHANGED haste) /\ UNCHANGED accountVars
  <2> DEFINE review == modal[t].reviewing
             analysis == [sender |-> review.sender, intent |-> review.intent,
                          level |-> RiskLevel(modal[t].kind, review, failed)]
             d == [modal[t] EXCEPT !.reviewing = None, !.phase = "preview",
                                   !.analysis = analysis]
  <2>1. /\ modal[t] # None /\ modal[t].reviewing # None
        /\ UNCHANGED <<accountVars, suiMist, fetches, known, sends, signed, sentTo,
                       verdicts, haste>>
    BY <1>5 DEF Reviewed
  <2>2. review \in ReviewOf(kind)
    BY <1>4, <2>1 DEF DialogOf
  <2>3. analysis \in AnalysisOf(kind)
    BY <2>2, RiskLevels DEF ReviewOf, AnalysisOf
  <2>4. modal' = [modal EXCEPT ![t] = d]
    BY <1>0, <1>5 DEF Reviewed, FlowTypes
  <2>5. d \in Dialogs
    <3> HIDE DEF analysis
    <3> QED
      BY <1>4, <2>1, <2>3, DialogChanges
  <2> HIDE DEF d
  <2> QED
    BY <1>0, <2>1, <2>4, <2>5, DialogSetKeepsTypes
<1>6. CASE ReviewFails(t)
  <2> DEFINE d == [modal[t] EXCEPT !.reviewing = None]
  <2>1. modal[t] # None /\ d \in Dialogs
    BY <1>4, <1>6, DialogChanges DEF ReviewFails
  <2>2. modal' = [modal EXCEPT ![t] = d]
    BY <1>0, <1>6 DEF ReviewFails, FlowTypes
  <2> HIDE DEF d
  <2> QED
    BY <1>0, <1>6, <2>1, <2>2, DialogSetKeepsTypes DEF ReviewFails
<1> QED
  BY <1>1, <1>2, <1>3, <1>5, <1>6 DEF AnswerStep

\* What is signed is of the kind of its dialog, and has a number.
LEMMA ConfirmKeepsTypes ==
    ASSUME TypeInv, NEW t \in Dashboards, Confirm(t)
    PROVE  FlowTypes' /\ Act(t) /\ UNCHANGED accountVars
<1>0. /\ FlowTypes /\ t \in Tabs /\ AccountsInv /\ modal[t] \in Dialogs \cup {None}
      /\ modal[t] # None => suiMist[t] # None
  BY WalletAssumption DEF TypeInv, FlowTypes
<1>1. /\ modal[t] # None /\ Screen(t) = "dashboard" /\ modal[t].intent # None
      /\ signed < MaxSends /\ signed' = signed + 1
      /\ verdicts' = verdicts \cup {Verdict(t)}
      /\ Act(t) /\ UNCHANGED <<accountVars, suiMist, fetches, known, sentTo>>
  BY DEF Confirm, CanConfirm, InPhase, Ready
<1>2. store[t].active \in Accounts /\ signer[t] \in Accounts
  BY <1>0, <1>1, DashboardHasAccount
<1>3. signed' \in 0 .. MaxSends /\ signed + 1 \in 1 .. MaxSends
  BY <1>0, <1>1, WalletAssumption DEF FlowTypes
<1> DEFINE kind == modal[t].kind
<1>4. kind \in Kinds /\ modal[t] \in DialogOf(kind) /\ DialogOf(kind) \subseteq Dialogs
  BY <1>0, <1>1, DialogTypes
<1>5. modal[t].intent \in IntentsOf(kind)
  <2> HIDE DEF kind
  <2> QED
    BY <1>1, <1>4 DEF DialogOf
<1> DEFINE send == [id |-> signed + 1, tab |-> t, kind |-> kind, sender |-> signer[t],
                    intent |-> modal[t].intent, active |-> store[t].active]
           d == [modal[t] EXCEPT !.phase = "executing", !.sending = signed + 1]
<1>6. sends' = sends \cup {send}
  BY DEF Confirm
<1>7. modal' = [modal EXCEPT ![t] = d]
  BY <1>0 DEF Confirm, FlowTypes
<1> HIDE DEF kind
<1>8. send \in SentOf(kind)
  BY <1>2, <1>3, <1>5 DEF SentOf
<1>9. send \in SentOf("send") \cup SentOf("stake")
  BY <1>4, <1>8 DEF Kinds
<1>10. d \in Dialogs
  <2>1. signed + 1 \in 0 .. MaxSends
    BY <1>1, <1>3
  <2>2. d \in DialogOf(kind)
    BY <1>4, <2>1, DialogChanges
  <2> QED
    BY <1>4, <2>2
<1>11. Verdict(t) \in [calm : BOOLEAN, same : BOOLEAN, moderate : BOOLEAN]
  <2>1. /\ Verdict(t) = [calm |-> Verdict(t).calm, same |-> Verdict(t).same,
                         moderate |-> Verdict(t).moderate]
        /\ Verdict(t).calm \in BOOLEAN /\ Verdict(t).same \in BOOLEAN
        /\ Verdict(t).moderate \in BOOLEAN
    BY DEF Verdict, Calm
  <2> QED
    BY <2>1, Zenon
<1> HIDE DEF send, d
<1>12. modal' \in [Dashboards -> Dialogs \cup {None}]
       /\ \A u \in Dashboards : modal'[u] # None => suiMist'[u] # None
  BY <1>0, <1>1, <1>7, <1>10 DEF FlowTypes
<1>13. sends' \subseteq SentOf("send") \cup SentOf("stake")
  BY <1>0, <1>6, <1>9 DEF FlowTypes
<1>14. verdicts' \subseteq [calm : BOOLEAN, same : BOOLEAN, moderate : BOOLEAN]
  BY <1>0, <1>1, <1>11 DEF FlowTypes
<1> QED
  BY <1>0, <1>1, <1>3, <1>12, <1>13, <1>14 DEF FlowTypes

(* The answer to a send changes the phase of the dialog that sent it.       *)
LEMMA OutcomeIs ==
    ASSUME FlowTypes, NEW send \in sends, NEW phase \in {"done", "error"},
           Outcome(send, phase)
    PROVE  /\ send.tab \in Dashboards
           /\ modal' \in [Dashboards -> Dialogs \cup {None}]
           /\ \A u \in Dashboards : modal'[u] # None => modal[u] # None
<1>1. send \in Sent /\ send.tab \in Dashboards
  BY DialogTypes DEF FlowTypes, Sent
<1> DEFINE t == send.tab
           d == [modal[t] EXCEPT !.phase = phase, !.sending = 0]
           e == IF modal[t] # None /\ modal[t].sending = send.id THEN d ELSE modal[t]
<1>2. modal[t] \in Dialogs \cup {None} /\ modal \in [Dashboards -> Dialogs \cup {None}]
  BY <1>1 DEF FlowTypes
<1>3. modal' = [modal EXCEPT ![t] = e]
  BY <1>1, <1>2 DEF Outcome
<1>4. ASSUME modal[t] # None
      PROVE  d \in Dialogs
  <2> DEFINE kind == modal[t].kind
  <2>1. kind \in Kinds /\ modal[t] \in DialogOf(kind) /\ DialogOf(kind) \subseteq Dialogs
    BY <1>2, <1>4, DialogTypes
  <2>2. 0 \in 0 .. MaxSends
    BY WalletAssumption
  <2> HIDE DEF kind
  <2>3. d \in DialogOf(kind)
    BY <2>1, <2>2, DialogChanges
  <2> QED
    BY <2>1, <2>3
<1> HIDE DEF t, d
<1>6. e \in Dialogs \cup {None} /\ (e # None => modal[t] # None)
  BY <1>2, <1>4
<1> QED
  BY <1>1, <1>2, <1>3, <1>6 DEF t

\* A recipient that is remembered is one, and a balance that is asked for.
LEMMA SendEndKeepsTypes ==
    ASSUME TypeInv, NEW send \in sends, SendSucceeds(send) \/ SendFails(send)
    PROVE  FlowTypes' /\ UNCHANGED <<accountVars, haste>>
<1>0. FlowTypes
  BY DEF TypeInv
<1>1. PICK phase \in {"done", "error"} : Outcome(send, phase)
  BY DEF SendSucceeds, SendFails
<1>2. /\ send.tab \in Dashboards
      /\ modal' \in [Dashboards -> Dialogs \cup {None}]
      /\ \A u \in Dashboards : modal'[u] # None => modal[u] # None
  BY <1>0, <1>1, OutcomeIs
<1>3. send.active \in Accounts /\ RecipientsOf(send) \subseteq Recipients
  <2>1. send \in SentOf("send") \/ send \in SentOf("stake")
    BY <1>0 DEF FlowTypes
  <2> QED
    BY <2>1 DEF SentOf, RecipientsOf, IntentsOf
<1>4. /\ sends' \subseteq sends /\ UNCHANGED <<accountVars, suiMist, signed, verdicts, haste>>
      /\ known' \subseteq Recipients /\ sentTo' \subseteq Recipients
  BY <1>0, <1>3 DEF SendSucceeds, SendFails, FlowTypes
<1>5. fetches' \in [Dashboards -> SUBSET Accounts]
  BY <1>0, <1>2, <1>3 DEF SendSucceeds, SendFails, FlowTypes
<1> QED
  BY <1>0, <1>2, <1>4, <1>5 DEF FlowTypes

(* Every step is one of these.                                              *)
LEMMA NextCases ==
    ASSUME Next
    PROVE  \/ \E t \in Tabs : UserStep(t) /\ Rendered(t) /\ Act(t)
           \/ \E t \in Tabs : KeyStep(t) /\ Rendered(t) /\ UNCHANGED haste
           \/ \E t \in Tabs : ReloadPage(t)
           \/ \E t \in Dashboards : DialogStep(t) \/ AnswerStep(t) \/ Confirm(t)
           \/ \E send \in sends : SendSucceeds(send) \/ SendFails(send)
<1>1. ASSUME NEW t \in Tabs, UserOfAccounts(t)
      PROVE  UserStep(t) /\ Rendered(t) /\ Act(t)
  BY <1>1, Zenon DEF UserOfAccounts, UserStep
<1>2. ASSUME NEW t \in Tabs, KeyDerived(t)
      PROVE  KeyStep(t) /\ Rendered(t) /\ UNCHANGED haste
  BY <1>2, Zenon DEF KeyDerived, KeyStep
<1>3. ASSUME NEW t \in Dashboards,
             \/ RefreshClicked(t)
             \/ \E a \in Accounts : BalanceArrives(t, a) \/ BalanceFails(t, a)
             \/ \E kind \in Kinds : Open(t, kind)
             \/ \E kind \in Kinds : \E intent \in IntentsOf(kind) : Edit(t, intent)
             \/ BackToForm(t) \/ Close(t)
             \/ Review(t) \/ \E failed \in BOOLEAN : Reviewed(t, failed)
             \/ ReviewFails(t) \/ Confirm(t) \/ ConfirmRefused(t)
      PROVE  DialogStep(t) \/ AnswerStep(t) \/ Confirm(t)
  BY <1>3, Zenon DEF DialogStep, AnswerStep
<1> QED
  BY <1>1, <1>2, <1>3, Zenon DEF Next

\* The types are inductive.
LEMMA StepKeepsTypeInv ==
    ASSUME TypeInv, Next
    PROVE  TypeInv'
<1>0. AccountsInv /\ haste \in [Dashboards -> 0 .. MaxHaste] /\ Dashboards \subseteq Tabs
  BY WalletAssumption DEF TypeInv
<1>1. ASSUME NEW t \in Tabs, UserStep(t) \/ KeyStep(t), Rendered(t), Act(t) \/ UNCHANGED haste
      PROVE  TypeInv'
  <2>1. AccountsInv'
    BY <1>0, <1>1, AccountStepKeepsInv DEF AccountStep
  <2>2. FlowTypes'
    BY <1>1, <2>1, RenderedKeepsTypes
  <2>3. haste' \in [Dashboards -> 0 .. MaxHaste]
    BY <1>0, <1>1, ActKeepsType
  <2> QED
    BY <2>1, <2>2, <2>3 DEF TypeInv
<1>2. ASSUME NEW t \in Tabs, ReloadPage(t)
      PROVE  TypeInv'
  <2>1. AccountsInv'
    BY <1>0, <1>2, AccountStepKeepsInv DEF AccountStep, ReloadPage
  <2> QED
    BY <1>2, <2>1, ReloadKeepsTypes DEF TypeInv
<1>3. ASSUME NEW t \in Dashboards, DialogStep(t) \/ AnswerStep(t) \/ Confirm(t)
      PROVE  TypeInv'
  <2>1. /\ FlowTypes' /\ UNCHANGED accountVars
        /\ Act(t) \/ Hasty(t) \/ UNCHANGED haste
    BY <1>3, DialogStepKeepsTypes, AnswerStepKeepsTypes, ConfirmKeepsTypes
  <2>2. haste' \in [Dashboards -> 0 .. MaxHaste]
    BY <1>0, <2>1, WalletAssumption DEF Act, Hasty
  <2> QED
    BY <1>0, <2>1, <2>2, AccountsUnchanged DEF TypeInv
<1>4. ASSUME NEW send \in sends, SendSucceeds(send) \/ SendFails(send)
      PROVE  TypeInv'
  BY <1>0, <1>4, SendEndKeepsTypes, AccountsUnchanged DEF TypeInv
<1> QED
  BY <1>1, <1>2, <1>3, <1>4, NextCases

\* A step that changes nothing keeps the types.
LEMMA StutterKeepsTypeInv ==
    ASSUME TypeInv, UNCHANGED vars
    PROVE  TypeInv'
<1>1. UNCHANGED accountVars /\ UNCHANGED <<flowVars, haste>>
  BY DEF vars
<1>2. AccountsInv'
  BY <1>1, AccountsUnchanged DEF TypeInv
<1>3. FlowTypes'
  BY <1>1 DEF TypeInv, FlowTypes, flowVars
<1> QED
  BY <1>1, <1>2, <1>3 DEF TypeInv, flowVars

\* Types, with two facts that they rest on: an account of a store is active unless it has
\* none (wallet-account.tsx), and a dialog has the fields of its kind only.
THEOREM WalletTypes == Spec => []TypeInv
<1>1. TypeInv /\ [Next]_vars => TypeInv'
  BY StepKeepsTypeInv, StutterKeepsTypeInv
<1> QED
  BY <1>1, InitTypeInv, PTL DEF Spec

\* The types of the variables of the accounts and of the dashboards (WalletDashboard.tsx).
THEOREM WalletTypeCorrect == Spec => []TypeOK
  BY WalletTypes, TypeInvImpliesTypeOK, PTL

\* No interleaving of the tabs loses an account, or has it twice, because each of them reads
\* localStorage again before it writes (wallet-account.tsx 123-232).
THEOREM AccountsAlwaysKept == Spec => []NoAccountLost
<1>1. Init => NoAccountLost
  <2> SUFFICES ASSUME Init
               PROVE  NoAccountLost
    OBVIOUS
  <2>1. disk = EmptyStore /\ held = {}
    BY DEF Init, AccountInit
  <2> QED
    BY <2>1, EmptySequence DEF NoAccountLost, EmptyStore, AccountsOf
<1>2. TypeInv /\ NoAccountLost /\ [Next]_vars => NoAccountLost'
  <2> SUFFICES ASSUME TypeInv, NoAccountLost, [Next]_vars
               PROVE  NoAccountLost'
    OBVIOUS
  <2>1. ASSUME NEW t \in Tabs, AccountStep(t)
        PROVE  NoAccountLost'
    BY <2>1, AccountStepLosesNone DEF TypeInv
  <2>2. CASE UNCHANGED accountVars
    BY <2>2 DEF NoAccountLost, AccountsOf, accountVars
  <2>3. CASE Next
    <3>1. \A t \in Dashboards : DialogStep(t) \/ AnswerStep(t) \/ Confirm(t)
                                    => UNCHANGED accountVars
      BY DialogStepKeepsTypes, AnswerStepKeepsTypes, ConfirmKeepsTypes
    <3>2. \A send \in sends : SendSucceeds(send) \/ SendFails(send) => UNCHANGED accountVars
      BY SendEndKeepsTypes
    <3>3. \A t \in Tabs : UserStep(t) \/ KeyStep(t) \/ ReloadPage(t) => AccountStep(t)
      BY DEF AccountStep, ReloadPage
    <3> QED
      BY <2>1, <2>2, <2>3, <3>1, <3>2, <3>3, NextCases
  <2> QED
    BY <2>2, <2>3 DEF vars
<1> QED
  BY <1>1, <1>2, WalletTypes, PTL DEF Spec

\* A recipient is remembered if and only if a send to it was seen to succeed
\* (address-book.ts 33-46), whichever tabs send and are loaded anew meanwhile.
THEOREM KnownAlwaysSentTo == Spec => []KnownWereSentTo
<1>1. Init => KnownWereSentTo
  BY DEF Init, KnownWereSentTo
<1>2. KnownWereSentTo /\ [Next]_vars => KnownWereSentTo'
  <2> SUFFICES ASSUME KnownWereSentTo, [Next]_vars
               PROVE  KnownWereSentTo'
    OBVIOUS
  <2>1. CASE UNCHANGED <<known, sentTo>>
    BY <2>1 DEF KnownWereSentTo
  <2>2. ASSUME NEW send \in sends, SendSucceeds(send) \/ SendFails(send)
        PROVE  KnownWereSentTo'
    BY <2>2 DEF SendSucceeds, SendFails, KnownWereSentTo
  <2>3. CASE Next
    <3>1. ASSUME NEW t \in Tabs, Rendered(t) \/ ReloadPage(t)
          PROVE  UNCHANGED <<known, sentTo>>
      BY <3>1 DEF Rendered, ReloadPage
    <3>2. ASSUME NEW t \in Dashboards, DialogStep(t)
          PROVE  UNCHANGED <<known, sentTo>>
      BY <3>2 DEF DialogStep, Open, Edit, BackToForm, Close, Review, ConfirmRefused, SetDialog
    <3>3. ASSUME NEW t \in Dashboards, AnswerStep(t) \/ Confirm(t)
          PROVE  UNCHANGED <<known, sentTo>>
      BY <3>3 DEF AnswerStep, RefreshClicked, BalanceArrives, BalanceFails, Reviewed,
         ReviewFails, Confirm
    <3> QED
      BY <2>1, <2>2, <2>3, <3>1, <3>2, <3>3, NextCases
  <2> QED
    BY <2>1, <2>3 DEF vars, flowVars
<1> QED
  BY <1>1, <1>2, PTL DEF Spec

-----------------------------------------------------------------------------
(* A tab whose user is patient: its key is that of the account it shows, or *)
(* it derives one, that of this account.                                    *)
KeyInv(t) ==
    /\ signer[t] # None => signer[t] = store[t].active /\ tasks[t] = {}
    /\ \A x, y \in tasks[t] : x = y
    /\ \A task \in tasks[t] : task.kind = "unlock" => task.account = store[t].active

(* What it awaits is the balance of this account, or it has it.             *)
BalanceInv(t) ==
    /\ \A a \in fetches[t] : signer[t] # None /\ a = store[t].active
    /\ \A send \in sends :
          send.tab = t => signer[t] # None /\ send.active = store[t].active
    /\ signer[t] # None => fetches[t] # {} \/ suiMist[t] = store[t].active

(* A transaction that leaves what the rule on draining demands.             *)
Moderate(sender, intent) ==
    \/ intent.to = sender
    \/ 10000 * (intent.amount + Gas) < (MaxOutflowBps + 1) * Balance[sender]

(* What its dialog reviews, or has reviewed, is what its fields say.        *)
DialogInv(t) ==
    modal[t] # None =>
       /\ modal[t].reviewing # None =>
             /\ modal[t].reviewing.sender = store[t].active
             /\ modal[t].reviewing.totalOf = store[t].active
             /\ modal[t].reviewing.intent = modal[t].intent
       /\ modal[t].analysis # None =>
             /\ modal[t].analysis.sender = store[t].active
             /\ modal[t].analysis.intent = modal[t].intent
             /\ modal[t].analysis.level # "critical" =>
                   Moderate(store[t].active, modal[t].intent)

(* Away from the dashboard a dialog is as it was opened.                    *)
HiddenInv(t) ==
    modal[t] # None /\ Screen(t) # "dashboard" =>
        modal[t].reviewing = None /\ modal[t].analysis = None

CalmInv ==
    /\ \A t \in Dashboards : HiddenInv(t)
    /\ \A t \in Dashboards : Calm(t) => KeyInv(t) /\ BalanceInv(t) /\ DialogInv(t)
    /\ SentWasReviewed

(* The user of a tab that is patient after a step was so before it, and did *)
(* not act unless all was settled.                                          *)
LEMMA CalmBefore ==
    ASSUME TypeInv, NEW t \in Dashboards, NEW u \in Tabs,
           Act(u) \/ UNCHANGED haste, Calm(t)'
    PROVE  Calm(t) /\ (u = t /\ Act(u) => Settled(t))
  BY DEF TypeInv, Calm, Act, Hasty

(* What t shows is settled by its own variables, those of its accounts.     *)
LEMMA ElsewhereInvs ==
    ASSUME TypeInv, NEW t \in Dashboards,
           store'[t] = store[t], signer'[t] = signer[t], tasks'[t] = tasks[t],
           suiMist'[t] = suiMist[t], fetches'[t] = fetches[t],
           modal'[t] = modal[t], \A send \in sends' : send.tab = t => send \in sends
    PROVE  /\ HiddenInv(t) => HiddenInv(t)'
           /\ KeyInv(t) => KeyInv(t)'
           /\ BalanceInv(t) => BalanceInv(t)'
           /\ DialogInv(t) => DialogInv(t)'
<1>1. Screen(t)' = Screen(t)
  BY DEF Screen, AccountsOf
<1> QED
  BY <1>1 DEF HiddenInv, KeyInv, BalanceInv, DialogInv

(* The key of a patient user's tab, after each step of its accounts.        *)
LEMMA AccountStepKeepsKey ==
    ASSUME AccountsInv, NEW t \in Tabs, KeyInv(t),
           \/ KeyStep(t) \/ Reload(t)
           \/ UserStep(t) /\ tasks[t] = {} /\ store[t] = disk
    PROVE  KeyInv(t)'
<1>0. /\ store \in [Tabs -> WalletStore] /\ signer \in [Tabs -> Accounts \cup {None}]
      /\ tasks \in [Tabs -> SUBSET Task] /\ tasks[t] \subseteq Task
      /\ store[t] \in WalletStore /\ Shape(store[t])
  BY DEF AccountsInv, AccountTypeOK
<1>1. CASE Reload(t)
  BY <1>0, <1>1 DEF Reload, KeyInv
<1>2. ASSUME NEW task \in tasks[t], AdoptKeypair(t, task)
      PROVE  KeyInv(t)'
  <2>1. disk \in WalletStore /\ task.account \in Accounts
    BY <1>0 DEF AccountsInv, AccountTypeOK, Task
  <2> DEFINE next == With(disk, task.account, task.kind = "import")
  <2>2. next.active = task.account
    BY <2>1, WithHolds
  <2>3. store'[t] = next /\ signer'[t] = task.account /\ tasks'[t] = tasks[t] \ {task}
    BY <1>0, <1>2 DEF AdoptKeypair, Persist
  <2> HIDE DEF next
  <2> QED
    BY <2>2, <2>3 DEF KeyInv
<1>3. ASSUME NEW task \in tasks[t], Unlocked(t, task) \/ WrongPassword(t, task)
      PROVE  KeyInv(t)'
  <2>1. tasks'[t] = tasks[t] \ {task} /\ store' = store
        /\ (signer'[t] = signer[t] \/ (signer'[t] = task.account /\ task.kind = "unlock"))
    BY <1>0, <1>3 DEF Unlocked, WrongPassword
  <2> QED
    BY <2>1 DEF KeyInv
<1>4. ASSUME UserStep(t), tasks[t] = {}, store[t] = disk
      PROVE  KeyInv(t)'
  <2>1. ASSUME signer[t] = None, NEW task \in Task, Begin(t, task),
               task.kind = "unlock" => task.account = store[t].active
        PROVE  KeyInv(t)'
    <3>1. tasks'[t] = {task} /\ UNCHANGED <<store, signer>>
      BY <1>0, <1>4, <2>1 DEF Begin
    <3> QED
      BY <2>1, <3>1 DEF KeyInv
  <2>2. Screen(t) = "onboarding" => signer[t] = None
    BY <1>0, ActiveIsAccount DEF Screen, KeyInv
  <2>3. ASSUME NEW a \in Accounts, CreateAccount(t, a) \/ ImportAccount(t, a)
        PROVE  KeyInv(t)'
    BY <2>1, <2>2, <2>3 DEF CreateAccount, ImportAccount, Task
  <2>4. CASE Unlock(t)
    <3>1. store[t].active \in Accounts /\ signer[t] = None
      BY <1>0, <2>4, ActiveIsAccount DEF Unlock, Screen
    <3> QED
      BY <2>1, <2>4, <3>1 DEF Unlock, Task
  <2>5. CASE RemoveAccount(t) \/ Lock(t)
    <3>1. signer'[t] = None /\ tasks' = tasks
      BY <1>0, <2>5 DEF RemoveAccount, Lock
    <3> QED
      BY <1>4, <3>1 DEF KeyInv
  <2>6. CASE ConfirmBackup(t)
    <3>1. /\ store'[t] = [disk EXCEPT !.backed =
                              @ \cup (AccountsOf(disk) \cap {store[t].active})]
          /\ UNCHANGED <<signer, tasks>>
      BY <1>0, <2>6 DEF ConfirmBackup, Persist
    <3>2. store'[t].active = store[t].active
      BY <1>0, <1>4, <3>1 DEF WalletStore
    <3> QED
      BY <1>4, <3>1, <3>2 DEF KeyInv
  <2> QED
    BY <1>4, <2>3, <2>4, <2>5, <2>6 DEF UserStep
<1> QED
  BY <1>1, <1>2, <1>3, <1>4 DEF KeyStep

(* What Rendered leaves alone, and what it adds.                            *)
LEMMA RenderedIs ==
    ASSUME TypeInv, NEW t \in Dashboards, Rendered(t)
    PROVE  /\ fetches'[t] = fetches[t] \cup RefreshEffect(t)
           /\ modal'[t] = IF modal[t] # None /\ Screen(t)' # "dashboard"
                          THEN Fresh(modal[t].kind) ELSE modal[t]
           /\ \A u \in Dashboards : u # t => fetches'[u] = fetches[u] /\ modal'[u] = modal[u]
           /\ UNCHANGED <<suiMist, known, sends, signed, sentTo, verdicts>>
  BY DEF TypeInv, FlowTypes, Rendered

(* A balance is asked for as soon as there is a key, and for its account.   *)
LEMMA AccountStepKeepsBalance ==
    ASSUME TypeInv, AccountsInv', NEW t \in Dashboards, Rendered(t),
           KeyInv(t), KeyInv(t)', BalanceInv(t),
           KeyStep(t) \/ (UserStep(t) /\ Settled(t))
    PROVE  BalanceInv(t)'
<1>0. /\ t \in Tabs /\ Shape(store[t]) /\ store[t] \in WalletStore
      /\ signer \in [Tabs -> Accounts \cup {None}]
      /\ store \in [Tabs -> WalletStore]
      /\ Shape(store'[t]) /\ store'[t] \in WalletStore
  BY WalletAssumption DEF TypeInv, AccountsInv, AccountTypeOK
<1>1. fetches'[t] = fetches[t] \cup RefreshEffect(t) /\ sends' = sends /\ suiMist' = suiMist
  BY RenderedIs
<1>2. CASE signer[t] = None
  <2>1. fetches[t] = {} /\ \A send \in sends : send.tab # t
    BY <1>2 DEF BalanceInv
  <2>2. Status(t) # "unlocked"
    BY <1>2 DEF Status
  <2>3. Status(t)' = "unlocked" <=> signer'[t] # None /\ store'[t].accounts # <<>>
    BY DEF Status
  <2>4. signer'[t] # None => store'[t].accounts # <<>> /\ store'[t].active # None
    BY <1>0, ActiveIsAccount DEF KeyInv
  <2>5. RefreshEffect(t) = IF signer'[t] # None THEN {store'[t].active} ELSE {}
    BY <2>2, <2>3, <2>4 DEF RefreshEffect
  <2> QED
    BY <1>1, <2>1, <2>5 DEF BalanceInv
<1>3. CASE signer[t] # None
  <2>1. tasks[t] = {} /\ signer[t] = store[t].active /\ store[t].accounts # <<>>
    BY <1>0, <1>3, ActiveIsAccount DEF KeyInv
  <2>2. UserStep(t) /\ Settled(t)
    BY <2>1 DEF KeyStep
  <2>3. fetches[t] = {} /\ store[t] = disk /\ \A send \in sends : send.tab # t
    BY <2>2 DEF Settled
  <2>4. Screen(t) \notin {"onboarding", "unlock"} /\ Status(t) = "unlocked"
    BY <1>3, <2>1 DEF Screen, Status
  <2>5. CASE Lock(t)
    <3>1. signer'[t] = None
      BY <1>0, <2>5 DEF Lock
    <3>2. RefreshEffect(t) = {}
      BY <3>1 DEF RefreshEffect, Status
    <3> QED
      BY <1>1, <2>3, <3>1, <3>2 DEF BalanceInv
  <2>6. CASE ConfirmBackup(t)
    <3>1. /\ store'[t] = [disk EXCEPT !.backed =
                              @ \cup (AccountsOf(disk) \cap {store[t].active})]
          /\ UNCHANGED <<signer, tasks>>
      BY <1>0, <2>6 DEF ConfirmBackup, Persist
    <3>2. store'[t].active = store[t].active
      BY <1>0, <2>3, <3>1 DEF WalletStore
    <3>3. RefreshEffect(t) = {}
      BY <2>4, <3>2 DEF RefreshEffect
    <3> QED
      BY <1>1, <2>3, <3>1, <3>2, <3>3 DEF BalanceInv
  <2> QED
    BY <2>2, <2>4, <2>5, <2>6 DEF UserStep, CreateAccount, ImportAccount, Unlock, RemoveAccount
<1> QED
  BY <1>2, <1>3

(* A dialog that is reviewing, or has reviewed, is gone after a step of the *)
(* accounts of its tab.                                                     *)
LEMMA AccountStepClearsDialog ==
    ASSUME TypeInv, NEW t \in Dashboards, Rendered(t), HiddenInv(t),
           (KeyStep(t) /\ signer[t] = None) \/ UserStep(t)
    PROVE  modal'[t] # None => modal'[t].reviewing = None /\ modal'[t].analysis = None
<1>0. t \in Tabs /\ signer \in [Tabs -> Accounts \cup {None}]
      /\ modal'[t] = IF modal[t] # None /\ Screen(t)' # "dashboard"
                     THEN Fresh(modal[t].kind) ELSE modal[t]
  BY RenderedIs, WalletAssumption DEF TypeInv, AccountsInv, AccountTypeOK
<1>1. CASE Screen(t)' # "dashboard"
  BY <1>0, <1>1 DEF Fresh
<1>2. CASE Screen(t) # "dashboard"
  BY <1>0, <1>2 DEF HiddenInv, Fresh
<1>3. CASE Lock(t)
  <2>1. signer'[t] = None
    BY <1>0, <1>3 DEF Lock
  <2>2. Screen(t)' # "dashboard"
    BY <2>1 DEF Screen
  <2> QED
    BY <1>1, <2>2
<1> QED
  BY <1>2, <1>3 DEF UserStep, CreateAccount, ImportAccount, Unlock, RemoveAccount, ConfirmBackup, Screen

(* Away from the dashboard, whatever its user does, a dialog shows nothing. *)
LEMMA AccountStepHides ==
    ASSUME TypeInv, NEW t \in Dashboards, Rendered(t)
    PROVE  HiddenInv(t)'
<1>1. modal'[t] = IF modal[t] # None /\ Screen(t)' # "dashboard"
                  THEN Fresh(modal[t].kind) ELSE modal[t]
  BY RenderedIs
<1>2. ASSUME modal'[t] # None, Screen(t)' # "dashboard"
      PROVE  modal'[t].reviewing = None /\ modal'[t].analysis = None
  BY <1>1, <1>2 DEF Fresh
<1> QED
  BY <1>2 DEF HiddenInv

(* No step of a tab's accounts is one of another tab.                       *)
LEMMA AccountStepElsewhere ==
    ASSUME AccountsInv, NEW t \in Tabs, AccountStep(t), NEW u \in Tabs, u # t
    PROVE  store'[u] = store[u] /\ signer'[u] = signer[u] /\ tasks'[u] = tasks[u]
<1>0. /\ store \in [Tabs -> WalletStore] /\ signer \in [Tabs -> Accounts \cup {None}]
      /\ tasks \in [Tabs -> SUBSET Task]
  BY DEF AccountsInv, AccountTypeOK
<1>1. CASE UserStep(t)
  BY <1>0, <1>1 DEF UserStep, CreateAccount, ImportAccount, Unlock, Begin, RemoveAccount,
     ConfirmBackup, Lock, Persist
<1>2. CASE KeyStep(t)
  BY <1>0, <1>2 DEF KeyStep, AdoptKeypair, Unlocked, WrongPassword, Persist
<1>3. CASE Reload(t)
  BY <1>0, <1>3 DEF Reload
<1> QED
  BY <1>1, <1>2, <1>3 DEF AccountStep

(* What a dashboard shows, after a step of the accounts of some tab.        *)
LEMMA AccountStepKeepsCalm ==
    ASSUME TypeInv, AccountsInv', CalmInv, NEW u \in Tabs,
           \/ UserStep(u) /\ Act(u)
           \/ KeyStep(u) /\ UNCHANGED haste,
           Rendered(u)
    PROVE  CalmInv'
<1>0. UNCHANGED <<suiMist, known, sends, signed, sentTo, verdicts>> /\ AccountStep(u)
      /\ AccountsInv
  BY DEF Rendered, AccountStep, TypeInv
<1>1. SentWasReviewed'
  BY <1>0 DEF CalmInv, SentWasReviewed
<1>2. ASSUME NEW t \in Dashboards, t # u
      PROVE  HiddenInv(t)' /\ (Calm(t)' => KeyInv(t)' /\ BalanceInv(t)' /\ DialogInv(t)')
  <2>1. t \in Tabs /\ store'[t] = store[t] /\ signer'[t] = signer[t] /\ tasks'[t] = tasks[t]
    BY <1>0, <1>2, AccountStepElsewhere, WalletAssumption
  <2>2. fetches'[t] = fetches[t] /\ modal'[t] = modal[t]
    BY <1>2 DEF Rendered, TypeInv, FlowTypes
  <2>3. Calm(t)' => Calm(t)
    BY <1>2, CalmBefore
  <2>4. HiddenInv(t) /\ (Calm(t) => KeyInv(t) /\ BalanceInv(t) /\ DialogInv(t))
    BY DEF CalmInv
  <2> QED
    BY <1>0, <2>1, <2>2, <2>3, <2>4, ElsewhereInvs
<1>3. ASSUME u \in Dashboards
      PROVE  HiddenInv(u)' /\ (Calm(u)' => KeyInv(u)' /\ BalanceInv(u)' /\ DialogInv(u)')
  <2>1. HiddenInv(u)'
    BY <1>3, AccountStepHides
  <2>2. HiddenInv(u) /\ (Calm(u) => KeyInv(u) /\ BalanceInv(u) /\ DialogInv(u))
    BY <1>3 DEF CalmInv
  <2>3. ASSUME Calm(u)'
        PROVE  KeyInv(u)' /\ BalanceInv(u)' /\ DialogInv(u)'
    <3>1. Calm(u) /\ (UserStep(u) /\ Act(u) => Settled(u))
      BY <1>3, <2>3, CalmBefore
    <3>2. KeyInv(u) /\ BalanceInv(u) /\ (KeyStep(u) \/ (UserStep(u) /\ Settled(u)))
      BY <2>2, <3>1
    <3>3. KeyInv(u)'
      BY <1>0, <3>2, AccountStepKeepsKey DEF Settled
    <3>4. BalanceInv(u)'
      BY <1>3, <3>2, <3>3, AccountStepKeepsBalance
    <3>5. KeyStep(u) => signer[u] = None
      BY <3>2 DEF KeyInv, KeyStep
    <3>6. modal'[u] # None => modal'[u].reviewing = None /\ modal'[u].analysis = None
      BY <1>3, <2>2, <3>2, <3>5, AccountStepClearsDialog
    <3> QED
      BY <3>3, <3>4, <3>6 DEF DialogInv
  <2> QED
    BY <2>1, <2>3
<1> QED
  BY <1>1, <1>2, <1>3 DEF CalmInv

\* A page that is loaded anew has nothing under way, whoever its user was.
LEMMA ReloadKeepsCalm ==
    ASSUME TypeInv, CalmInv, NEW u \in Tabs, ReloadPage(u)
    PROVE  CalmInv'
<1>0. /\ AccountsInv /\ AccountStep(u) /\ Reload(u) /\ verdicts' = verdicts
      /\ sends' \subseteq sends /\ Dashboards \subseteq Tabs /\ FlowTypes
      /\ haste \in [Dashboards -> 0 .. MaxHaste]
  BY WalletAssumption DEF TypeInv, ReloadPage, AccountStep
<1>1. SentWasReviewed'
  BY <1>0 DEF CalmInv, SentWasReviewed
<1>2. ASSUME NEW t \in Dashboards, t # u
      PROVE  HiddenInv(t)' /\ (Calm(t)' => KeyInv(t)' /\ BalanceInv(t)' /\ DialogInv(t)')
  <2>1. t \in Tabs /\ store'[t] = store[t] /\ signer'[t] = signer[t] /\ tasks'[t] = tasks[t]
    BY <1>0, <1>2, AccountStepElsewhere
  <2>2. /\ fetches'[t] = fetches[t] /\ modal'[t] = modal[t] /\ suiMist'[t] = suiMist[t]
        /\ haste'[t] = haste[t]
    BY <1>0, <1>2 DEF ReloadPage, FlowTypes
  <2>3. Calm(t)' => Calm(t)
    BY <2>2 DEF Calm
  <2>4. HiddenInv(t) /\ (Calm(t) => KeyInv(t) /\ BalanceInv(t) /\ DialogInv(t))
    BY DEF CalmInv
  <2> QED
    BY <1>0, <2>1, <2>2, <2>3, <2>4, ElsewhereInvs
<1>3. ASSUME u \in Dashboards
      PROVE  HiddenInv(u)' /\ KeyInv(u)' /\ BalanceInv(u)' /\ DialogInv(u)'
  <2>1. signer'[u] = None /\ tasks'[u] = {}
    BY <1>0 DEF AccountsInv, AccountTypeOK, Reload
  <2>2. modal'[u] = None /\ fetches'[u] = {} /\ \A send \in sends' : send.tab # u
    BY <1>0, <1>3 DEF ReloadPage, FlowTypes
  <2> QED
    BY <2>1, <2>2 DEF HiddenInv, KeyInv, BalanceInv, DialogInv
<1> QED
  BY <1>1, <1>2, <1>3 DEF CalmInv

(* A step that sets the dialog of a dashboard, and nothing else.            *)
LEMMA DialogSetKeepsCalm ==
    ASSUME TypeInv, CalmInv, NEW t \in Dashboards, NEW d, modal' = [modal EXCEPT ![t] = d],
           UNCHANGED <<accountVars, suiMist, fetches, sends, verdicts>>,
           Act(t) \/ UNCHANGED haste,
           HiddenInv(t)', Calm(t)' => DialogInv(t)'
    PROVE  CalmInv'
<1>0. Dashboards \subseteq Tabs /\ FlowTypes
  BY WalletAssumption DEF TypeInv
<1>1. SentWasReviewed'
  BY DEF CalmInv, SentWasReviewed
<1>2. ASSUME NEW u \in Dashboards
      PROVE  /\ Calm(u)' => KeyInv(u)' /\ BalanceInv(u)'
             /\ u # t => HiddenInv(u)' /\ (Calm(u)' => DialogInv(u)')
  <2>1. Calm(u)' => Calm(u)
    BY <1>0, CalmBefore
  <2>2. HiddenInv(u) /\ (Calm(u) => KeyInv(u) /\ BalanceInv(u) /\ DialogInv(u))
    BY DEF CalmInv
  <2>3. (KeyInv(u) => KeyInv(u)') /\ (BalanceInv(u) => BalanceInv(u)')
    BY DEF KeyInv, BalanceInv, accountVars
  <2>4. u # t => modal'[u] = modal[u]
    BY <1>0 DEF FlowTypes
  <2>5. u # t => (HiddenInv(u) => HiddenInv(u)') /\ (DialogInv(u) => DialogInv(u)')
    BY <2>4, ElsewhereInvs DEF accountVars
  <2> QED
    BY <2>1, <2>2, <2>3, <2>5
<1> QED
  BY <1>1, <1>2 DEF CalmInv

\* A patient user starts a review of what the dialog shows, and no edit leaves it behind.
LEMMA DialogStepKeepsCalm ==
    ASSUME TypeInv, CalmInv, NEW t \in Dashboards, DialogStep(t)
    PROVE  CalmInv'
<1>0. t \in Tabs /\ FlowTypes /\ AccountsInv /\ modal[t] \in Dialogs \cup {None}
      /\ (Calm(t) => KeyInv(t) /\ BalanceInv(t) /\ DialogInv(t))
  BY WalletAssumption DEF TypeInv, FlowTypes, CalmInv
<1>1. ASSUME NEW d, SetDialog(t, d), Screen(t) = "dashboard",
             Calm(t) /\ Settled(t) /\ modal'[t] = d => DialogInv(t)'
      PROVE  CalmInv'
  <2>1. /\ modal' = [modal EXCEPT ![t] = d] /\ Act(t)
        /\ UNCHANGED <<accountVars, suiMist, fetches, sends, verdicts>>
    BY <1>1 DEF SetDialog
  <2>2. Screen(t)' = "dashboard"
    BY <1>1, <2>1 DEF Screen, AccountsOf, accountVars
  <2>3. HiddenInv(t)'
    BY <2>2 DEF HiddenInv
  <2>4. modal'[t] = d
    BY <1>0, <2>1 DEF FlowTypes
  <2>5. Calm(t)' => DialogInv(t)'
    BY <1>0, <1>1, <2>1, <2>4, CalmBefore
  <2> QED
    BY <2>1, <2>3, <2>5, DialogSetKeepsCalm
<1>2. modal[t] # None => modal[t] \in DialogOf(modal[t].kind)
  BY <1>0, DialogTypes
<1>3. ASSUME NEW k \in Kinds, Open(t, k)
      PROVE  CalmInv'
  <2>1. SetDialog(t, Fresh(k)) /\ Screen(t) = "dashboard"
    BY <1>3 DEF Open
  <2>2. modal'[t] = Fresh(k) => DialogInv(t)'
    BY DEF DialogInv, Fresh
  <2> QED
    BY <1>1, <2>1, <2>2
<1>4. ASSUME NEW intent, Edit(t, intent)
      PROVE  CalmInv'
  <2> DEFINE d == [modal[t] EXCEPT !.intent = intent, !.phase = "form", !.analysis = None]
  <2>1. SetDialog(t, d) /\ Screen(t) = "dashboard" /\ modal[t] # None
    BY <1>4 DEF Edit, InPhase
  <2>2. d.reviewing = modal[t].reviewing /\ d.analysis = None
    BY <1>2, <2>1 DEF DialogOf
  <2> HIDE DEF d
  <2>3. Settled(t) /\ modal'[t] = d => DialogInv(t)'
    BY <2>1, <2>2 DEF Settled, DialogInv
  <2> QED
    BY <1>1, <2>1, <2>3
<1>5. ASSUME NEW phase, SetDialog(t, [modal[t] EXCEPT !.phase = phase]),
             Screen(t) = "dashboard", modal[t] # None
      PROVE  CalmInv'
  <2> DEFINE d == [modal[t] EXCEPT !.phase = phase]
  <2>1. d.reviewing = modal[t].reviewing /\ d.analysis = modal[t].analysis
        /\ d.intent = modal[t].intent
    BY <1>2, <1>5 DEF DialogOf
  <2> HIDE DEF d
  <2>2. DialogInv(t) /\ modal'[t] = d => DialogInv(t)'
    BY <1>5, <2>1 DEF DialogInv, Moderate, SetDialog, accountVars
  <2> QED
    BY <1>0, <1>1, <1>5, <2>2 DEF d
<1>6. CASE BackToForm(t) \/ ConfirmRefused(t)
  BY <1>5, <1>6 DEF BackToForm, ConfirmRefused, CanConfirm, InPhase
<1>7. CASE Close(t)
  <2>1. SetDialog(t, None) /\ Screen(t) = "dashboard"
    BY <1>7 DEF Close
  <2>2. modal'[t] = None => DialogInv(t)'
    BY DEF DialogInv
  <2> QED
    BY <1>1, <2>1, <2>2
<1>8. CASE Review(t)
  <2> DEFINE review == [sender |-> store[t].active, intent |-> modal[t].intent,
                        totalOf |-> suiMist[t], known |-> known]
             d == [modal[t] EXCEPT !.reviewing = review]
  <2>1. SetDialog(t, d) /\ Screen(t) = "dashboard" /\ modal[t] # None
    BY <1>8 DEF Review, InPhase
  <2>2. /\ d.reviewing = review /\ d.analysis = modal[t].analysis
        /\ d.intent = modal[t].intent
    BY <1>2, <2>1 DEF DialogOf
  <2>3. review.sender = store[t].active /\ review.intent = modal[t].intent
        /\ review.totalOf = suiMist[t]
    OBVIOUS
  <2> HIDE DEF review, d
  <2>4. signer[t] # None /\ store' = store
    BY <1>0, <2>1, DashboardHasAccount, AccountAssumption DEF SetDialog, accountVars
  <2>5. BalanceInv(t) /\ Settled(t) => suiMist[t] = store[t].active
    BY <2>4 DEF BalanceInv, Settled
  <2>6. DialogInv(t) /\ BalanceInv(t) /\ Settled(t) /\ modal'[t] = d => DialogInv(t)'
    BY <2>1, <2>2, <2>3, <2>4, <2>5 DEF DialogInv, Moderate
  <2> QED
    BY <1>0, <1>1, <2>1, <2>6
<1> QED
  BY <1>3, <1>4, <1>6, <1>7, <1>8 DEF DialogStep

(* What the rating does not call critical leaves something, provided that   *)
(* it was rated against the balance of the account that sends.              *)
LEMMA RatedModerate ==
    ASSUME NEW kind \in Kinds, NEW review \in ReviewOf(kind), NEW failed \in BOOLEAN,
           review.totalOf = review.sender,
           failed \/ review.intent.amount + Gas <= Balance[review.sender],
           RiskLevel(kind, review, failed) # "critical"
    PROVE  Moderate(review.sender, review.intent)
<1> DEFINE dryRun == DryRunOf(kind, review, failed)
           total == Balance[review.totalOf]
           findings == CollectFindings(dryRun, total, review.known)
           out == review.intent.amount + Gas
<1>1. /\ review.intent.amount \in Nat \ {0} /\ Gas \in Nat
      /\ out \in Nat \ {0} /\ total \in Nat /\ review.sender \in Accounts
  <2>1. review.sender \in Accounts /\ review.totalOf \in Accounts
        /\ review.intent \in IntentsOf(kind)
    BY DEF ReviewOf
  <2>2. review.intent.amount \in Amounts
    BY <2>1 DEF IntentsOf
  <2>3. Amounts \subseteq Nat \ {0} /\ Gas \in Nat /\ Balance \in [Accounts -> Nat]
    BY WalletAssumption
  <2>4. total \in Nat
    BY <2>1, <2>3
  <2>5. review.intent.amount \in Nat \ {0}
    BY <2>2, <2>3
  <2> HIDE DEF total
  <2> QED
    BY <2>1, <2>3, <2>4, <2>5
<1>2. RiskLevel(kind, review, failed) = ScoreRisk(findings)
  BY DEF RiskLevel, AnalyzeSimSummary
<1>3. "critical" \notin findings
  <2> HIDE DEF findings
  <2> QED
    BY <1>2 DEF ScoreRisk
<1>4. ~dryRun.failed
  BY <1>3 DEF CollectFindings
<1>5. ~failed
  BY <1>4 DEF DryRunOf
<1>6. CASE kind = "send" /\ review.intent.to = review.sender
  BY <1>6 DEF Moderate
<1>7. CASE ~(kind = "send" /\ review.intent.to = review.sender)
  <2>1. dryRun.netMist = -out
    BY <1>5, <1>7 DEF DryRunOf
  <2>2. OutflowBps(out, total) <= 9000
    <3>1. ~(OutflowBps(IF dryRun.netMist < 0 THEN -dryRun.netMist ELSE 0, total) > 9000)
      BY <1>3 DEF CollectFindings, MaxOutflowBps
    <3> HIDE DEF dryRun, total, out
    <3>2. (IF dryRun.netMist < 0 THEN -dryRun.netMist ELSE 0) = out
      BY <1>1, <2>1
    <3>3. ~(OutflowBps(out, total) > 9000)
      BY <3>1, <3>2
    <3>4. OutflowBps(out, total) \in Int
      BY <1>1 DEF OutflowBps
    <3> QED
      BY <3>3, <3>4
  <2>3. total = Balance[review.sender] /\ out <= total
    BY <1>5
  <2> HIDE DEF dryRun, total, out
  <2>4. (out * 10000) \div total <= 9000
    BY <1>1, <2>2, <2>3 DEF OutflowBps
  <2>5. \A n, b \in Nat : b > 0 /\ (n \div b) <= 9000 => n < 9001 * b
    OBVIOUS
  <2>6. out * 10000 < 9001 * total
    <3>1. out * 10000 \in Nat /\ total \in Nat /\ total > 0
      BY <1>1, <2>3
    <3> QED
      BY <2>4, <2>5, <3>1
  <2>7. 10000 * out < (MaxOutflowBps + 1) * total
    BY <1>1, <2>6 DEF MaxOutflowBps
  <2> QED
    BY <2>3, <2>7 DEF Moderate, out
<1> QED
  BY <1>6, <1>7

(* A balance that is asked for, or comes, or does not.                      *)
LEMMA BalanceStepKeepsCalm ==
    ASSUME TypeInv, CalmInv, NEW t \in Dashboards,
           \/ RefreshClicked(t)
           \/ \E a \in Accounts : BalanceArrives(t, a) \/ BalanceFails(t, a)
    PROVE  CalmInv'
<1>0. /\ Dashboards \subseteq Tabs /\ FlowTypes /\ AccountsInv
      /\ UNCHANGED <<accountVars, modal, sends, verdicts>>
      /\ Hasty(t) \/ UNCHANGED haste
      /\ \A u \in Dashboards : u # t => fetches'[u] = fetches[u] /\ suiMist'[u] = suiMist[u]
      /\ haste \in [Dashboards -> 0 .. MaxHaste]
  BY WalletAssumption DEF TypeInv, FlowTypes, RefreshClicked, BalanceArrives, BalanceFails
<1>1. SentWasReviewed'
  BY <1>0 DEF CalmInv, SentWasReviewed
<1>2. ASSUME NEW u \in Dashboards
      PROVE  /\ HiddenInv(u)'
             /\ Calm(u)' => Calm(u) /\ KeyInv(u)' /\ DialogInv(u)'
             /\ Calm(u)' /\ u # t => BalanceInv(u)'
  <2>1. HiddenInv(u) /\ (Calm(u) => KeyInv(u) /\ BalanceInv(u) /\ DialogInv(u))
    BY DEF CalmInv
  <2>2. Calm(u)' => Calm(u)
    BY <1>0 DEF Calm, Hasty
  <2>3. HiddenInv(u)'
    BY <1>0, <2>1 DEF HiddenInv, Screen, AccountsOf, accountVars
  <2>4. (KeyInv(u) => KeyInv(u)') /\ (DialogInv(u) => DialogInv(u)')
    BY <1>0 DEF KeyInv, DialogInv, Moderate, accountVars
  <2>5. u # t => (BalanceInv(u) => BalanceInv(u)')
    BY <1>0 DEF BalanceInv, accountVars
  <2> QED
    BY <2>1, <2>2, <2>3, <2>4, <2>5
<1>3. ASSUME Calm(t)'
      PROVE  BalanceInv(t)'
  <2>1. BalanceInv(t) /\ store' = store /\ signer' = signer /\ sends' = sends
    BY <1>0, <1>2, <1>3 DEF CalmInv, accountVars
  <2>2. CASE RefreshClicked(t)
    <3>1. /\ fetches'[t] = fetches[t] \cup {store[t].active} /\ suiMist' = suiMist
          /\ Screen(t) = "dashboard"
      BY <1>0, <2>2 DEF RefreshClicked, FlowTypes
    <3>2. signer[t] # None
      BY <1>0, <3>1, DashboardHasAccount, AccountAssumption
    <3> QED
      BY <2>1, <3>1, <3>2 DEF BalanceInv
  <2>3. ASSUME NEW a \in Accounts, BalanceArrives(t, a)
        PROVE  BalanceInv(t)'
    <3>1. fetches'[t] = fetches[t] \ {a} /\ suiMist'[t] = a /\ a \in fetches[t]
      BY <1>0, <2>3 DEF BalanceArrives, FlowTypes
    <3> QED
      BY <2>1, <3>1 DEF BalanceInv
  <2>4. ASSUME NEW a \in Accounts, BalanceFails(t, a)
        PROVE  BalanceInv(t)'
    BY <1>0, <1>3, <2>4 DEF BalanceFails, Hasty, Calm
  <2> QED
    BY <2>2, <2>3, <2>4
<1> QED
  BY <1>1, <1>2, <1>3 DEF CalmInv

\* The analysis is of what was reviewed, and it is not critical only if that is moderate.
LEMMA ReviewStepKeepsCalm ==
    ASSUME TypeInv, CalmInv, NEW t \in Dashboards,
           (\E failed \in BOOLEAN : Reviewed(t, failed)) \/ ReviewFails(t)
    PROVE  CalmInv'
<1>0. /\ t \in Tabs /\ FlowTypes /\ modal[t] \in Dialogs \cup {None} /\ HiddenInv(t)
      /\ Calm(t) => DialogInv(t)
  BY WalletAssumption DEF TypeInv, FlowTypes, CalmInv
<1>1. /\ modal[t] # None /\ modal[t].reviewing # None
      /\ UNCHANGED <<accountVars, suiMist, fetches, sends, verdicts, haste>>
  BY DEF Reviewed, ReviewFails
<1>2. Screen(t) = "dashboard"
  BY <1>0, <1>1 DEF HiddenInv
<1>3. HiddenInv(t)' /\ store' = store /\ (Calm(t)' => Calm(t))
  BY <1>1, <1>2 DEF HiddenInv, Screen, AccountsOf, accountVars, Calm
<1> DEFINE kind == modal[t].kind
           review == modal[t].reviewing
<1>4. kind \in Kinds /\ modal[t] \in DialogOf(kind)
  BY <1>0, <1>1, DialogTypes
<1>5. review \in ReviewOf(kind)
  BY <1>1, <1>4 DEF DialogOf
<1>6. CASE ReviewFails(t)
  <2> DEFINE d == [modal[t] EXCEPT !.reviewing = None]
  <2>1. modal' = [modal EXCEPT ![t] = d]
    BY <1>0, <1>6 DEF ReviewFails, FlowTypes
  <2>2. d.reviewing = None /\ d.analysis = modal[t].analysis /\ d.intent = modal[t].intent
    BY <1>4 DEF DialogOf
  <2>3. modal'[t] = d
    BY <1>0, <2>1 DEF FlowTypes
  <2> HIDE DEF d
  <2>4. DialogInv(t) => DialogInv(t)'
    BY <1>1, <1>3, <2>2, <2>3 DEF DialogInv, Moderate
  <2> QED
    BY <1>0, <1>1, <1>3, <2>1, <2>4, DialogSetKeepsCalm
<1>7. ASSUME NEW failed \in BOOLEAN, Reviewed(t, failed)
      PROVE  CalmInv'
  <2> DEFINE level == RiskLevel(kind, review, failed)
             analysis == [sender |-> review.sender, intent |-> review.intent,
                          level |-> level]
             d == [modal[t] EXCEPT !.reviewing = None, !.phase = "preview",
                                   !.analysis = analysis]
  <2>1. modal' = [modal EXCEPT ![t] = d]
        /\ (failed \/ review.intent.amount + Gas <= Balance[review.sender])
    BY <1>0, <1>7 DEF Reviewed, FlowTypes
  <2>2. d.reviewing = None /\ d.analysis = analysis /\ d.intent = modal[t].intent
    BY <1>4 DEF DialogOf
  <2>3. modal'[t] = d
    BY <1>0, <2>1 DEF FlowTypes
  <2>4. analysis.sender = review.sender /\ analysis.intent = review.intent
        /\ analysis.level = level
    OBVIOUS
  <2>5. review.totalOf = review.sender /\ level # "critical"
            => Moderate(review.sender, review.intent)
    <3> HIDE DEF kind, review
    <3> QED
      BY <1>4, <1>5, <2>1, RatedModerate
  <2> HIDE DEF d, analysis, level
  <2>6. DialogInv(t) => DialogInv(t)'
    BY <1>1, <1>3, <2>2, <2>3, <2>4, <2>5 DEF DialogInv, Moderate
  <2> QED
    BY <1>0, <1>1, <1>3, <2>1, <2>6, DialogSetKeepsCalm
<1> QED
  BY <1>6, <1>7

\* What a patient user signs is what was analysed.
LEMMA ConfirmKeepsCalm ==
    ASSUME TypeInv, CalmInv, NEW t \in Dashboards, Confirm(t)
    PROVE  CalmInv'
<1>0. /\ t \in Tabs /\ FlowTypes /\ AccountsInv /\ modal[t] \in Dialogs \cup {None}
      /\ Dashboards \subseteq Tabs
  BY WalletAssumption DEF TypeInv, FlowTypes
<1>1. /\ modal[t] # None /\ Screen(t) = "dashboard" /\ modal[t].analysis # None
      /\ modal[t].analysis.level # "critical" /\ Act(t)
      /\ UNCHANGED <<accountVars, suiMist, fetches>>
      /\ verdicts' = verdicts \cup {Verdict(t)}
      /\ \A send \in sends' : send \in sends \/ send.active = store[t].active
      /\ \A send \in sends' : send \in sends \/ send.tab = t
  BY DEF Confirm, CanConfirm, InPhase
<1>2. signer[t] # None
  BY <1>0, <1>1, DashboardHasAccount, AccountAssumption
<1> DEFINE d == [modal[t] EXCEPT !.phase = "executing", !.sending = signed + 1]
<1>3. modal' = [modal EXCEPT ![t] = d]
  BY <1>0 DEF Confirm, FlowTypes
<1>4. /\ d.reviewing = modal[t].reviewing /\ d.analysis = modal[t].analysis
      /\ d.intent = modal[t].intent
  <2>1. modal[t] \in DialogOf(modal[t].kind)
    BY <1>0, <1>1, DialogTypes
  <2> QED
    BY <2>1 DEF DialogOf
<1>5. modal'[t] = d /\ \A u \in Dashboards : u # t => modal'[u] = modal[u]
  BY <1>0, <1>3 DEF FlowTypes
<1> HIDE DEF d
<1>6. ASSUME NEW u \in Dashboards
      PROVE  HiddenInv(u)' /\ (Calm(u)' => KeyInv(u)' /\ BalanceInv(u)' /\ DialogInv(u)')
  <2>1. Calm(u)' => Calm(u)
    BY <1>0, <1>1, CalmBefore
  <2>2. HiddenInv(u) /\ (Calm(u) => KeyInv(u) /\ BalanceInv(u) /\ DialogInv(u))
    BY DEF CalmInv
  <2>3. KeyInv(u) => KeyInv(u)'
    BY <1>1 DEF KeyInv, accountVars
  <2>4. BalanceInv(u) => BalanceInv(u)'
    BY <1>1, <1>2 DEF BalanceInv, accountVars
  <2>5. u # t => (HiddenInv(u) => HiddenInv(u)') /\ (DialogInv(u) => DialogInv(u)')
    BY <1>1, <1>5 DEF HiddenInv, DialogInv, Moderate, Screen, AccountsOf, accountVars
  <2>6. u = t => HiddenInv(u)' /\ (DialogInv(u) => DialogInv(u)')
    BY <1>1, <1>4, <1>5 DEF HiddenInv, DialogInv, Moderate, Screen, AccountsOf, accountVars
  <2> QED
    BY <2>1, <2>2, <2>3, <2>4, <2>5, <2>6
<1>7. SentWasReviewed'
  <2>1. ASSUME Verdict(t).calm
        PROVE  Verdict(t).same /\ Verdict(t).moderate
    <3>1. Calm(t)'
      BY <2>1 DEF Verdict
    <3>2. Calm(t)
      BY <1>0, <1>1, <3>1, CalmBefore
    <3>3. KeyInv(t) /\ DialogInv(t)
      BY <3>2 DEF CalmInv
    <3>4. /\ modal[t].analysis.sender = signer[t]
          /\ modal[t].analysis.intent = modal[t].intent
          /\ Moderate(signer[t], modal[t].intent)
      BY <1>1, <1>2, <3>3 DEF KeyInv, DialogInv
    <3>5. /\ Verdict(t).same = (modal[t].analysis.sender = signer[t]
                                  /\ modal[t].analysis.intent = modal[t].intent)
          /\ Verdict(t).moderate = Moderate(signer[t], modal[t].intent)
      BY DEF Verdict, Moderate
    <3> QED
      BY <3>4, <3>5
  <2> QED
    BY <1>1, <2>1 DEF CalmInv, SentWasReviewed
<1> QED
  BY <1>6, <1>7 DEF CalmInv

\* A send that ends asks for the balance of the account that is active still.
LEMMA SendEndKeepsCalm ==
    ASSUME TypeInv, CalmInv, NEW send \in sends, SendSucceeds(send) \/ SendFails(send)
    PROVE  CalmInv'
<1>0. /\ FlowTypes /\ Dashboards \subseteq Tabs /\ sends' \subseteq sends
      /\ UNCHANGED <<accountVars, suiMist, verdicts, haste>>
  BY WalletAssumption DEF TypeInv, SendSucceeds, SendFails
<1>1. PICK phase \in {"done", "error"} : Outcome(send, phase)
  BY DEF SendSucceeds, SendFails
<1>2. send.tab \in Dashboards
  BY <1>0, <1>1, OutcomeIs
<1>3. ASSUME NEW u \in Dashboards
      PROVE  \/ modal'[u] = modal[u]
             \/ /\ modal[u] # None
                /\ modal'[u].reviewing = modal[u].reviewing
                /\ modal'[u].analysis = modal[u].analysis
                /\ modal'[u].intent = modal[u].intent
  <2> DEFINE d == [modal[u] EXCEPT !.phase = phase, !.sending = 0]
  <2>1. modal'[u] = modal[u] \/ (modal[u] # None /\ modal'[u] = d)
    BY <1>0, <1>1, <1>2 DEF Outcome, FlowTypes
  <2>2. modal[u] # None => /\ d.reviewing = modal[u].reviewing
                           /\ d.analysis = modal[u].analysis
                           /\ d.intent = modal[u].intent
    <3>1. modal[u] # None => modal[u] \in DialogOf(modal[u].kind)
      BY <1>0, DialogTypes DEF FlowTypes
    <3> QED
      BY <3>1 DEF DialogOf
  <2> HIDE DEF d
  <2> QED
    BY <2>1, <2>2
<1>4. ASSUME NEW u \in Dashboards
      PROVE  fetches'[u] = fetches[u] \/ (send.tab = u /\ fetches'[u] = fetches[u] \cup {send.active})
  BY <1>0, <1>2 DEF SendSucceeds, SendFails, FlowTypes
<1>5. ASSUME NEW u \in Dashboards
      PROVE  HiddenInv(u)' /\ (Calm(u)' => KeyInv(u)' /\ BalanceInv(u)' /\ DialogInv(u)')
  <2>1. Calm(u)' => Calm(u)
    BY <1>0 DEF Calm
  <2>2. HiddenInv(u) /\ (Calm(u) => KeyInv(u) /\ BalanceInv(u) /\ DialogInv(u))
    BY DEF CalmInv
  <2>3. KeyInv(u) => KeyInv(u)'
    BY <1>0 DEF KeyInv, accountVars
  <2>4. BalanceInv(u) => BalanceInv(u)'
    BY <1>0, <1>4 DEF BalanceInv, accountVars
  <2>5. (HiddenInv(u) => HiddenInv(u)') /\ (DialogInv(u) => DialogInv(u)')
    BY <1>0, <1>3 DEF HiddenInv, DialogInv, Moderate, Screen, AccountsOf, accountVars
  <2> QED
    BY <2>1, <2>2, <2>3, <2>4, <2>5
<1>6. SentWasReviewed'
  BY <1>0 DEF CalmInv, SentWasReviewed
<1> QED
  BY <1>5, <1>6 DEF CalmInv

\* At first nothing is shown and nothing is awaited.
LEMMA InitCalmInv == Init => CalmInv
<1> SUFFICES ASSUME Init
             PROVE  CalmInv
  OBVIOUS
<1>1. /\ \A t \in Tabs : signer[t] = None /\ tasks[t] = {}
      /\ \A t \in Dashboards : fetches[t] = {} /\ modal[t] = None
      /\ sends = {} /\ verdicts = {} /\ Dashboards \subseteq Tabs
  BY WalletAssumption DEF Init, AccountInit
<1> QED
  BY <1>1 DEF CalmInv, HiddenInv, KeyInv, BalanceInv, DialogInv, SentWasReviewed

\* A step that changes nothing keeps what a patient user sees.
LEMMA StutterKeepsCalm ==
    ASSUME CalmInv, UNCHANGED vars
    PROVE  CalmInv'
<1>1. ASSUME NEW t \in Dashboards
      PROVE  /\ HiddenInv(t) => HiddenInv(t)'
             /\ Calm(t)' => Calm(t)
             /\ KeyInv(t) => KeyInv(t)'
             /\ BalanceInv(t) => BalanceInv(t)'
             /\ DialogInv(t) => DialogInv(t)'
  BY DEF HiddenInv, Calm, KeyInv, BalanceInv, DialogInv, Moderate, Screen, AccountsOf,
     vars, accountVars, flowVars
<1>2. SentWasReviewed'
  BY DEF CalmInv, SentWasReviewed, vars, flowVars
<1> QED
  BY <1>1, <1>2 DEF CalmInv

\* The inductive invariant: what a tab holds, awaits, reviews and has reviewed is of the
\* account that it shows, as long as its user waits for each await of WalletDashboard.tsx.
THEOREM AlwaysCalmInv == Spec => [](TypeInv /\ CalmInv)
<1>1. TypeInv /\ CalmInv /\ [Next]_vars => CalmInv'
  <2> SUFFICES ASSUME TypeInv, CalmInv, [Next]_vars
               PROVE  CalmInv'
    OBVIOUS
  <2>1. CASE Next
    <3>1. AccountsInv'
      BY <2>1, StepKeepsTypeInv DEF TypeInv
    <3>2. ASSUME NEW t \in Dashboards, AnswerStep(t)
          PROVE  CalmInv'
      BY <3>2, BalanceStepKeepsCalm, ReviewStepKeepsCalm DEF AnswerStep
    <3> QED
      BY <2>1, <3>1, <3>2, NextCases, AccountStepKeepsCalm, ReloadKeepsCalm,
         DialogStepKeepsCalm, ConfirmKeepsCalm, SendEndKeepsCalm
  <2> QED
    BY <2>1, StutterKeepsCalm
<1> QED
  BY <1>1, InitCalmInv, WalletTypes, PTL DEF Spec

\* The key of a patient user's tab is that of the account it shows (wallet-account.tsx).
THEOREM SignerAlwaysActive == Spec => []SignerIsActive
<1>1. CalmInv => SignerIsActive
  BY DEF CalmInv, KeyInv, SignerIsActive, Status
<1> QED
  BY <1>1, AlwaysCalmInv, PTL

\* The balance of a settled dashboard is that of the account it shows, whatever refreshes
\* and sends have ended before (WalletDashboard.tsx 116-139).
THEOREM BalanceAlwaysActives == Spec => []BalanceIsActives
<1>1. TypeInv /\ CalmInv => BalanceIsActives
  <2> SUFFICES ASSUME TypeInv, CalmInv, NEW t \in Dashboards,
                      Screen(t) = "dashboard", Calm(t), Settled(t)
               PROVE  suiMist[t] = store[t].active
    BY DEF BalanceIsActives
  <2>1. t \in Tabs /\ AccountsInv /\ BalanceInv(t)
    BY WalletAssumption DEF TypeInv, CalmInv
  <2>2. signer[t] # None /\ fetches[t] = {}
    BY <2>1, DashboardHasAccount, AccountAssumption DEF Settled
  <2> QED
    BY <2>1, <2>2 DEF BalanceInv
<1> QED
  BY <1>1, AlwaysCalmInv, PTL

\* What a patient user signs was simulated as it is, for the account that signs it, and is no
\* drain of this account (SendModal.tsx 57-118, transaction-analysis.ts), for any balances.
THEOREM SentAlwaysReviewed == Spec => []SentWasReviewed
<1>1. CalmInv => SentWasReviewed
  BY DEF CalmInv
<1> QED
  BY <1>1, AlwaysCalmInv, PTL
=============================================================================
