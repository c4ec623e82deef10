------------------------- MODULE ApprovalFlowProofs -------------------------
(***************************************************************************)
(* The consent of the user, for any number of requests, popups, accounts,   *)
(* origins and stops of the worker: what the runs of ApprovalFlow show for  *)
(* two requests.                                                            *)
(*                                                                         *)
(* The argument: a request's body and level do not change once its popup is *)
(* asked for (Asked), so a page that has loaded shows the level of one of   *)
(* the requests of its id from then on (PopupInv), a click is on such a     *)
(* page (ClickInv), and a message on its way is backed by a click; an entry *)
(* of the map is settled once, because its handler waits in one phase only  *)
(* (HandlerInv); and an origin's accounts, in storage or in what a handler  *)
(* is about to write, belong to an origin that was let connect (OriginInv). *)
(***************************************************************************)
EXTENDS InpageProvider, TLAPS

(* The phases before the popup is asked for.                                *)
Early == {"idle", "checking", "simulating", "judging"}

Asked(r) == phase[r] \notin Early

(* The user approved on a page of this id.                                  *)
Clicked(id) == \E c \in clicks : c.id = id /\ c.approved

Consent(r) == Clicked(request[r].id)

Posted(r) == Transacts(r) => decisions[r] # None /\ decisions[r].approved

HandlerInv(r) ==
    /\ phase[r] # "idle" => request[r] # None
    /\ phase[r] = "checking" => request[r].method = "connect"
    /\ phase[r] \in Early => approved[r] = None /\ preview[r] = None /\ window[r] = "none"
    /\ phase[r] = "judging" => rules[r] # None
    /\ r \in pending => phase[r] = "awaiting" /\ approved[r] = None /\ preview[r] # None
    /\ phase[r] \in {"signing", "submitting", "submitted"} =>
           approved[r] = TRUE /\ Posted(r) /\ Consent(r)
    /\ phase[r] \in {"submitting", "submitted"} => r \in signature
    /\ r \in signature =>
           /\ phase[r] \in {"submitting", "submitted", "answered"}
           /\ approved[r] = TRUE /\ Posted(r) /\ Consent(r)

(* A page of r that has loaded, or whose call is running or just ended,     *)
(* shows a request of r's id, and its level.                                *)
Loaded(r) ==
    \/ r \in refreshing \/ popupTask[r] # None
    \/ view[r].page \in {"onboard", "unlock", "decide", "stuck"}

(* A level that is shown, or was clicked on, is that of request q.          *)
LevelOf(q, id, level) ==
    q \in Requests /\ Asked(q) /\ request[q].id = id /\ level = preview[q].riskLevel

PopupInv(r) ==
    Loaded(r) => Asked(r) /\ LevelOf(view[r].of, request[r].id, view[r].riskLevel)

ClickInv(c) ==
    /\ LevelOf(c.of, c.id, c.riskLevel)
    /\ c.approved /\ c.riskLevel = "critical" => c.override

UserInv ==
    /\ \A r \in Requests : PopupInv(r)
    /\ \A m \in resolves : m.approved => Clicked(m.id)
    /\ \A c \in clicks : ClickInv(c)

Allowed(map) == \A o \in Origins : map[o] # {} => o \in consented

OriginInv ==
    /\ Allowed(origins)
    /\ \A h \in Requests : originTask[h] # None =>
           /\ Allowed(originTask[h].map)
           /\ originTask[h].addresses # {} => originTask[h].origin \in consented
    /\ \A r \in Requests : (phase[r] = "listing" /\ request[r].method = "connect") =>
           request[r].origin \in consented

FlowInv ==
    /\ TypeOK
    /\ \A r \in Requests : HandlerInv(r)
    /\ UserInv
    /\ OriginInv
-----------------------------------------------------------------------------
(* The parts of TypeOK. *)

InWindows(ids, entries) ==
    /\ ids \in [Requests -> Requests \cup {None}]
    /\ \A r \in Requests : ids[r] # None => r \in entries

WorkerTypes ==
    /\ request \in [Requests -> WalletRequests \cup {None}]
    /\ phase \in [Requests -> Phases]
    /\ rules \in [Requests -> RiskLevels \cup {None}]
    /\ sends \in [Requests -> Nat]
    /\ preview \in [Requests -> PendingPreview \cup {None}]
    /\ pending \subseteq Requests /\ InWindows(windowId, pending)
    /\ approved \in [Requests -> BOOLEAN \cup {None}]
    /\ signature \subseteq Requests
    /\ decisions \in [Requests -> DecisionRecord \cup {None}]

PopupTypes ==
    /\ window \in [Requests -> {"none", "opening", "adrift", "open", "closed"}]
    /\ view \in [Requests -> PageView]
    /\ refreshing \subseteq Requests
    /\ resolves \subseteq [id : Ids, approved : BOOLEAN]
    /\ clicks \subseteq Click

\* TypeOK is the types of the keyring, the worker and the pages, before and after a step.
LEMMA TypeParts ==
    /\ TypeOK <=> /\ KeyringTypeOK /\ WorkerTypes /\ PopupTypes
                  /\ executed \subseteq signature /\ consented \subseteq Origins
    /\ TypeOK' <=> /\ KeyringTypeOK' /\ WorkerTypes' /\ PopupTypes'
                   /\ executed' \subseteq signature' /\ consented' \subseteq Origins
<1>1. TypeOK <=> /\ KeyringTypeOK /\ WorkerTypes /\ PopupTypes
                 /\ executed \subseteq signature /\ consented \subseteq Origins
  BY DEF TypeOK, WorkerTypes, PopupTypes, InWindows
<1>2. TypeOK' <=> /\ KeyringTypeOK' /\ WorkerTypes' /\ PopupTypes'
                  /\ executed' \subseteq signature' /\ consented' \subseteq Origins
  BY DEF TypeOK, WorkerTypes, PopupTypes, InWindows
<1> QED
  BY <1>1, <1>2

(* A request that was received is one of WalletRequests.                    *)
LEMMA RequestTypes ==
    ASSUME TypeOK, NEW r \in Requests, HandlerInv(r), phase[r] # "idle"
    PROVE  /\ request[r] \in WalletRequests /\ request[r] \in WalletRequest
           /\ request[r].origin \in Origins /\ request[r].method \in Methods
           /\ request[r].id \in Ids
<1>1. request[r] \in WalletRequests
  BY DEF TypeOK, HandlerInv
<1> QED
  BY <1>1, ApprovalAssumption DEF WalletRequest

-----------------------------------------------------------------------------
(* The keyring. *)

(* What the steps of the extension do to the keyring.                       *)
KeyringStep ==
    \/ UNCHANGED keyringVars
    \/ \E h \in Handlers :
        \/ \E o \in Origins, addresses \in SUBSET Accounts : SetOrigin(h, o, addresses)
        \/ ReadOrigins(h) \/ WriteOrigins(h)
    \/ \E p \in Popups :
        \/ \E a \in Accounts, password \in Passwords : Adopt(p, a, password)
        \/ \E password \in Passwords : Unlock(p, password)
        \/ ReadLocal(p) \/ WriteLocal(p) \/ Decrypted(p) \/ ReadSession(p) \/ WriteSession(p)
    \/ Lock
    \/ /\ popupTask' = [p \in Popups |-> None] /\ originTask' = [h \in Handlers |-> None]
       /\ UNCHANGED <<stored, session, origins, saved, raced>>

\* Every step of the keyring (keyring.ts) keeps the types of its variables.
LEMMA KeyringTypesKept ==
    ASSUME KeyringTypeOK, KeyringStep
    PROVE  KeyringTypeOK'
<1>1. CASE UNCHANGED keyringVars
  BY <1>1 DEF keyringVars, KeyringTypeOK
<1>2. ASSUME NEW h \in Handlers, NEW o \in Origins, NEW addresses \in SUBSET Accounts,
             SetOrigin(h, o, addresses)
      PROVE  KeyringTypeOK'
  <2>1. [step |-> "reading", origin |-> o, addresses |-> addresses, map |-> NoOrigins]
            \in OriginTask
    BY DEF OriginTask, OriginMap, NoOrigins
  <2> QED
    BY <1>2, <2>1 DEF SetOrigin, KeyringTypeOK
<1>3. ASSUME NEW h \in Handlers, ReadOrigins(h)
      PROVE  KeyringTypeOK'
  <2>1. originTask[h] \in OriginTask
    BY <1>3 DEF ReadOrigins, KeyringTypeOK
  <2>2. [originTask[h] EXCEPT !.step = "writing", !.map = origins] \in OriginTask
    BY <2>1 DEF KeyringTypeOK, OriginTask
  <2>3. originTask' = [originTask EXCEPT
            ![h] = [originTask[h] EXCEPT !.step = "writing", !.map = origins]]
    BY <1>3, <2>1 DEF ReadOrigins, KeyringTypeOK
  <2> QED
    BY <1>3, <2>2, <2>3 DEF ReadOrigins, KeyringTypeOK
<1>4. ASSUME NEW h \in Handlers, WriteOrigins(h)
      PROVE  KeyringTypeOK'
  <2>1. originTask[h] \in OriginTask
    BY <1>4 DEF WriteOrigins, KeyringTypeOK
  <2>2. origins' \in OriginMap
    BY <1>4, <2>1 DEF WriteOrigins, OriginTask, OriginMap
  <2> QED
    BY <1>4, <2>2 DEF WriteOrigins, KeyringTypeOK
<1>5. ASSUME NEW p \in Popups, NEW a \in Accounts, NEW password \in Passwords,
             Adopt(p, a, password)
      PROVE  KeyringTypeOK'
  <2>1. [step |-> "encrypting", password |-> password, opens |-> {a},
         local |-> NoAccounts, secrets |-> {}, adopts |-> TRUE] \in PopupTask
    BY DEF PopupTask, StoredAccounts, NoAccounts
  <2> QED
    BY <1>5, <2>1 DEF Adopt, KeyringTypeOK
<1>6. ASSUME NEW p \in Popups, NEW password \in Passwords, Unlock(p, password)
      PROVE  KeyringTypeOK'
  <2>1. [step |-> "decrypting", password |-> password, opens |-> {},
         local |-> stored, secrets |-> {}, adopts |-> FALSE] \in PopupTask
    BY DEF PopupTask, KeyringTypeOK
  <2> QED
    BY <1>6, <2>1 DEF Unlock, KeyringTypeOK
<1>7. ASSUME NEW p \in Popups,
             ReadLocal(p) \/ WriteLocal(p) \/ Decrypted(p) \/ ReadSession(p) \/ WriteSession(p)
      PROVE  KeyringTypeOK'
  <2>1. popupTask[p] \in PopupTask
    BY <1>7 DEF ReadLocal, WriteLocal, Saving, Decrypted, ReadSession, WriteSession,
                KeyringTypeOK
  <2>2. CASE ReadLocal(p)
    <3>1. [popupTask[p] EXCEPT !.step = "saving", !.local = stored] \in PopupTask
      BY <2>1 DEF PopupTask, KeyringTypeOK
    <3>2. popupTask' = [popupTask EXCEPT
              ![p] = [popupTask[p] EXCEPT !.step = "saving", !.local = stored]]
      BY <2>2 DEF ReadLocal, KeyringTypeOK
    <3> QED
      BY <2>2, <3>1, <3>2 DEF ReadLocal, KeyringTypeOK
  <2>3. CASE WriteLocal(p)
    <3>1. [popupTask[p] EXCEPT !.step = "merging"] \in PopupTask
      BY <2>1 DEF PopupTask
    <3>2. popupTask' = [popupTask EXCEPT ![p] = [popupTask[p] EXCEPT !.step = "merging"]]
      BY <2>3 DEF WriteLocal, KeyringTypeOK
    <3>3. stored' \in StoredAccounts
      BY <2>1, <2>3 DEF WriteLocal, PopupTask, StoredAccounts
    <3>4. raced' \subseteq Accounts
      BY <2>1, <2>3 DEF WriteLocal, PopupTask, KeyringTypeOK
    <3> QED
      BY <2>3, <3>1, <3>2, <3>3, <3>4 DEF WriteLocal, Saving, KeyringTypeOK
  <2>4. CASE Decrypted(p)
    <3> DEFINE opened == {a \in Accounts : popupTask[p].local[a] = popupTask[p].password}
               next == IF opened = {} THEN None
                       ELSE [popupTask[p] EXCEPT !.step = "merging", !.opens = opened]
    <3>1. next \in PopupTask \cup {None}
      BY <2>1 DEF PopupTask
    <3>2. popupTask' = [popupTask EXCEPT ![p] = next]
      BY <2>4 DEF Decrypted, KeyringTypeOK
    <3> HIDE DEF next
    <3> QED
      BY <2>4, <3>1, <3>2 DEF Decrypted, KeyringTypeOK
  <2>5. CASE ReadSession(p)
    <3>1. [popupTask[p] EXCEPT !.step = "opening", !.secrets = session] \in PopupTask
      BY <2>1 DEF PopupTask, KeyringTypeOK
    <3>2. popupTask' = [popupTask EXCEPT
              ![p] = [popupTask[p] EXCEPT !.step = "opening", !.secrets = session]]
      BY <2>5 DEF ReadSession, KeyringTypeOK
    <3> QED
      BY <2>5, <3>1, <3>2 DEF ReadSession, KeyringTypeOK
  <2>6. CASE WriteSession(p)
    <3>1. popupTask[p].secrets \subseteq Accounts /\ popupTask[p].opens \subseteq Accounts
      BY <2>1 DEF PopupTask
    <3> QED
      BY <2>6, <3>1 DEF WriteSession, KeyringTypeOK
  <2> QED
    BY <1>7, <2>2, <2>3, <2>4, <2>5, <2>6
<1>8. CASE Lock
  BY <1>8 DEF Lock, KeyringTypeOK
<1>9. CASE /\ popupTask' = [p \in Popups |-> None] /\ originTask' = [h \in Handlers |-> None]
           /\ UNCHANGED <<stored, session, origins, saved, raced>>
  BY <1>9 DEF KeyringTypeOK
<1> QED
  BY <1>1, <1>2, <1>3, <1>4, <1>5, <1>6, <1>7, <1>8, <1>9 DEF KeyringStep

(* The steps of pages and of calls of the keyring, which no handler sees.   *)
LEMMA KeyringSteps ==
    ASSUME TypeOK, \A r \in Requests : HandlerInv(r), [Next]_vars
    PROVE  KeyringStep
<1>1. ASSUME NEW r \in Requests, NEW body \in WalletRequests, Receive(r, body)
      PROVE  KeyringStep
  <2>1. r \in Handlers /\ body.origin \in Origins /\ {} \in SUBSET Accounts
    BY ApprovalAssumption DEF WalletRequest
  <2>2. SetOrigin(r, body.origin, {}) \/ UNCHANGED keyringVars
    BY <1>1 DEF Receive
  <2> QED
    BY <2>1, <2>2 DEF KeyringStep
<1>2. ASSUME NEW r \in Requests, ListAccounts(r)
      PROVE  KeyringStep
  <2>1. r \in Handlers /\ request[r].origin \in Origins
    BY <1>2, ApprovalAssumption, RequestTypes DEF ListAccounts
  <2>2. UnlockedAccounts \in SUBSET Accounts
    BY DEF TypeOK, KeyringTypeOK, UnlockedAccounts
  <2>3. SetOrigin(r, request[r].origin, UnlockedAccounts) \/ UNCHANGED keyringVars
    BY <1>2 DEF ListAccounts
  <2> QED
    BY <2>1, <2>2, <2>3 DEF KeyringStep
<1>3. ASSUME NEW r \in Requests, HandlerStep(r), ~ListAccounts(r)
      PROVE  KeyringStep
  <2>1. ReadOrigins(r) \/ WriteOrigins(r) \/ UNCHANGED keyringVars
    BY <1>3 DEF HandlerStep, CheckConnect, GrantRead, GrantWrite, Simulate, SimulateFails,
                Judge, Sign, Submit, Submitted, SubmitFails
  <2>2. r \in Handlers
    BY ApprovalAssumption
  <2> QED
    BY <2>1, <2>2 DEF KeyringStep
<1>4. ASSUME NEW r \in Requests, WindowOpens(r) \/ PageStep(r) \/ CloseWindow(r)
      PROVE  UNCHANGED keyringVars
  <2>1. CASE WindowOpens(r) \/ CloseWindow(r)
    BY <2>1 DEF WindowOpens, CloseWindow
  <2>2. CASE PageStep(r)
    BY <2>2 DEF PageStep, WindowFails, LoadPage, RefreshPage, ClickReject, ClickApprove,
                ClickOverride, Resolve
  <2> QED
    BY <1>4, <2>1, <2>2
<1>5. ASSUME NEW m \in resolves, ReceiveResolve(m)
      PROVE  UNCHANGED keyringVars
  BY <1>5 DEF ReceiveResolve
<1>6. ASSUME NEW p \in Popups, StartTask(p) \/ TaskStep(p) \/ TaskEnds(p)
      PROVE  KeyringStep
  BY <1>6 DEF StartTask, TaskStep, TaskEnds, KeyringStep
<1>7. CASE WorkerStops
  BY <1>7 DEF WorkerStops, KeyringStep
<1>8. CASE UNCHANGED vars
  BY <1>8 DEF vars, KeyringStep
<1> QED
  BY <1>1, <1>2, <1>3, <1>4, <1>5, <1>6, <1>7, <1>8 DEF Next, KeyringStep
-----------------------------------------------------------------------------
(* The accounts. *)

OnDisk(disk, some) == \A a \in some : disk[a] # None

(* What a call of the keyring has read or opened is on disk, and what it    *)
(* writes over is what it read, but for what was written under way.         *)
TaskBacked(disk, lost, task) ==
    /\ task.step = "saving" =>
           \A a \in Accounts \ lost : task.local[a] # None <=> disk[a] # None
    /\ task.step = "decrypting" => OnDisk(disk, {a \in Accounts \ lost : task.local[a] # None})
    /\ task.step \in {"merging", "opening"} => OnDisk(disk, task.opens \ lost)
    /\ task.step = "opening" => OnDisk(disk, task.secrets \ lost)

(* A call is fine with this disk.                                           *)
Fine(disk, lost, task) == task # None => TaskBacked(disk, lost, task)

BackedInv ==
    /\ OnDisk(stored, (session \cup saved) \ raced)
    /\ \A p \in Popups : Fine(stored, raced, popupTask[p])

\* Nothing is unlocked and no call runs when the extension starts.
LEMMA BackedInitially == Init => BackedInv
<1> SUFFICES ASSUME Init
             PROVE  BackedInv
  OBVIOUS
<1>1. KeyringInit
  BY DEF Init
<1>2. OnDisk(stored, (session \cup saved) \ raced)
  BY <1>1 DEF KeyringInit, OnDisk
<1>3. \A p \in Popups : Fine(stored, raced, popupTask[p])
  BY <1>1 DEF KeyringInit, Fine
<1> QED
  BY <1>2, <1>3 DEF BackedInv

\* What one call writes over (keyring.ts:42-63), and what that leaves of the other accounts.
LEMMA WriteLocalIs ==
    ASSUME KeyringTypeOK, BackedInv, NEW p \in Popups, WriteLocal(p)
    PROVE  LET task == popupTask[p] IN
           /\ task \in PopupTask /\ task.opens \subseteq Accounts
           /\ \A a \in task.opens : stored'[a] # None
           /\ \A a \in Accounts \ raced :
                  a \notin task.opens => (stored'[a] # None <=> stored[a] # None)
           /\ raced \subseteq raced'
           /\ \A q \in Popups : q # p /\ Saving(q) => task.opens \subseteq raced'
<1> DEFINE task == popupTask[p]
<1>1. task \in PopupTask /\ Fine(stored, raced, task) /\ task # None /\ task.step = "saving"
  BY DEF WriteLocal, Saving, BackedInv, KeyringTypeOK
<1>2. /\ stored' = [b \in Accounts |-> IF b \in task.opens THEN task.password ELSE task.local[b]]
      /\ raced' = IF \E q \in Popups \ {p} : Saving(q) THEN raced \cup task.opens ELSE raced
  BY DEF WriteLocal
<1> HIDE DEF task
<1>3. /\ task.opens \subseteq Accounts /\ task.password # None
      /\ \A a \in Accounts \ raced : task.local[a] # None <=> stored[a] # None
  BY <1>1, NoneAssumption DEF PopupTask, Fine, TaskBacked
<1>4. \A a \in Accounts : stored'[a] = IF a \in task.opens THEN task.password ELSE task.local[a]
  BY <1>2
<1>5. \A a \in task.opens : stored'[a] # None
  BY <1>3, <1>4
<1>6. ASSUME NEW a \in Accounts \ raced, a \notin task.opens
      PROVE  stored'[a] # None <=> stored[a] # None
  BY <1>3, <1>4, <1>6
<1>7. raced \subseteq raced' /\ \A q \in Popups : q # p /\ Saving(q) => task.opens \subseteq raced'
  BY <1>2
<1> QED
  BY <1>1, <1>3, <1>5, <1>6, <1>7 DEF task

\* A step of the keyring takes no account from disk but one that was written under way
\* (keyring.ts:42-63).
LEMMA StoredGrows ==
    ASSUME KeyringTypeOK, BackedInv, KeyringStep
    PROVE  /\ raced \subseteq raced'
           /\ \A a \in Accounts \ raced' : stored[a] # None => stored'[a] # None
<1>1. ASSUME NEW p \in Popups, WriteLocal(p)
      PROVE  /\ raced \subseteq raced'
             /\ \A a \in Accounts \ raced' : stored[a] # None => stored'[a] # None
  BY <1>1, WriteLocalIs
<1>2. ASSUME \A p \in Popups : ~WriteLocal(p)
      PROVE  stored' = stored /\ raced' = raced
  BY <1>2 DEF KeyringStep, keyringVars, SetOrigin, ReadOrigins, WriteOrigins, Adopt, Unlock,
              ReadLocal, Decrypted, ReadSession, WriteSession, Lock
<1> QED
  BY <1>1, <1>2

\* Every step of the keyring keeps what its calls have read on disk.
LEMMA BackedKept ==
    ASSUME KeyringTypeOK, BackedInv, KeyringStep
    PROVE  BackedInv'
<1>1. /\ raced \subseteq raced'
      /\ \A a \in Accounts \ raced' : stored[a] # None => stored'[a] # None
      /\ session \subseteq Accounts /\ saved \subseteq Accounts
      /\ popupTask \in [Popups -> PopupTask \cup {None}]
      /\ OnDisk(stored, session \ raced) /\ OnDisk(stored, saved \ raced)
      /\ \A p \in Popups : Fine(stored, raced, popupTask[p])
  BY StoredGrows DEF KeyringTypeOK, BackedInv, OnDisk
<1>2. ASSUME NEW p \in Popups,
             Saving(p) => \A a \in Accounts \ raced' : stored'[a] # None <=> stored[a] # None
      PROVE  Fine(stored', raced', popupTask[p])
  <2>1. CASE popupTask[p] = None
    BY <2>1 DEF Fine
  <2>2. CASE popupTask[p] # None
    <3>1. popupTask[p] \in PopupTask /\ TaskBacked(stored, raced, popupTask[p])
      BY <1>1, <2>2 DEF Fine
    <3>2. popupTask[p].opens \subseteq Accounts /\ popupTask[p].secrets \subseteq Accounts
      BY <3>1 DEF PopupTask
    <3>3. popupTask[p].step = "saving" =>
              \A a \in Accounts \ raced' : popupTask[p].local[a] # None <=> stored'[a] # None
      BY <1>1, <1>2, <2>2, <3>1 DEF TaskBacked, Saving
    <3>4. TaskBacked(stored', raced', popupTask[p])
      BY <1>1, <3>1, <3>2, <3>3 DEF TaskBacked, OnDisk
    <3> QED
      BY <3>4 DEF Fine
  <2> QED
    BY <2>1, <2>2
<1>3. ASSUME UNCHANGED <<stored, session, saved, raced>>,
             NEW p \in Popups, NEW task, popupTask' = [popupTask EXCEPT ![p] = task],
             Fine(stored, raced, task)
      PROVE  BackedInv'
  <2>1. ASSUME NEW q \in Popups
        PROVE  Fine(stored', raced', popupTask'[q])
    BY <1>1, <1>3
  <2>2. OnDisk(stored', (session' \cup saved') \ raced')
    BY <1>1, <1>3 DEF OnDisk
  <2> QED
    BY <2>1, <2>2 DEF BackedInv
<1>4. ASSUME UNCHANGED <<stored, session, saved, raced, popupTask>>
      PROVE  BackedInv'
  BY <1>4 DEF BackedInv
<1>5. ASSUME NEW h \in Handlers,
             \/ \E o \in Origins, addresses \in SUBSET Accounts : SetOrigin(h, o, addresses)
             \/ ReadOrigins(h) \/ WriteOrigins(h)
      PROVE  BackedInv'
  BY <1>4, <1>5 DEF SetOrigin, ReadOrigins, WriteOrigins
<1>6. ASSUME NEW p \in Popups, NEW a \in Accounts, NEW password \in Passwords,
             Adopt(p, a, password)
      PROVE  BackedInv'
  <2> DEFINE task == [step |-> "encrypting", password |-> password, opens |-> {a},
                      local |-> NoAccounts, secrets |-> {}, adopts |-> TRUE]
  <2>1. Fine(stored, raced, task)
    BY DEF Fine, TaskBacked
  <2>2. popupTask' = [popupTask EXCEPT ![p] = task] /\ UNCHANGED <<stored, session, saved, raced>>
    BY <1>6 DEF Adopt
  <2> HIDE DEF task
  <2> QED
    BY <1>3, <2>1, <2>2
<1>7. ASSUME NEW p \in Popups, NEW password \in Passwords, Unlock(p, password)
      PROVE  BackedInv'
  <2> DEFINE task == [step |-> "decrypting", password |-> password, opens |-> {},
                      local |-> stored, secrets |-> {}, adopts |-> FALSE]
  <2>1. Fine(stored, raced, task)
    BY DEF Fine, TaskBacked, OnDisk
  <2>2. popupTask' = [popupTask EXCEPT ![p] = task] /\ UNCHANGED <<stored, session, saved, raced>>
    BY <1>7 DEF Unlock
  <2> HIDE DEF task
  <2> QED
    BY <1>3, <2>1, <2>2
<1>8. ASSUME NEW p \in Popups, ReadLocal(p)
      PROVE  BackedInv'
  <2> DEFINE task == [popupTask[p] EXCEPT !.step = "saving", !.local = stored]
  <2>1. popupTask[p] \in PopupTask
    BY <1>1, <1>8 DEF ReadLocal
  <2>2. task.step = "saving" /\ task.local = stored
    BY <2>1 DEF PopupTask
  <2>3. popupTask' = [popupTask EXCEPT ![p] = task] /\ UNCHANGED <<stored, session, saved, raced>>
    BY <1>1, <1>8 DEF ReadLocal
  <2> HIDE DEF task
  <2>4. Fine(stored, raced, task)
    BY <2>2 DEF Fine, TaskBacked
  <2> QED
    BY <1>3, <2>3, <2>4
<1>9. ASSUME NEW p \in Popups, WriteLocal(p)
      PROVE  BackedInv'
  <2> DEFINE task == [popupTask[p] EXCEPT !.step = "merging"]
  <2>1. /\ popupTask[p] \in PopupTask
        /\ popupTask[p].opens \subseteq Accounts
        /\ \A a \in popupTask[p].opens : stored'[a] # None
        /\ \A a \in Accounts \ raced : a \notin popupTask[p].opens =>
               (stored'[a] # None <=> stored[a] # None)
        /\ \A q \in Popups : q # p /\ Saving(q) => popupTask[p].opens \subseteq raced'
    BY <1>9, WriteLocalIs
  <2>2. task.step = "merging" /\ task.opens = popupTask[p].opens
    BY <2>1 DEF PopupTask
  <2>3. popupTask' = [popupTask EXCEPT ![p] = task] /\ UNCHANGED <<session, saved>>
    BY <1>1, <1>9 DEF WriteLocal, Saving
  <2> HIDE DEF task
  <2>4. Fine(stored', raced', task)
    BY <2>1, <2>2 DEF Fine, TaskBacked, OnDisk
  <2>5. ASSUME NEW q \in Popups, q # p
        PROVE  Fine(stored', raced', popupTask[q])
    <3>1. ASSUME Saving(q), NEW a \in Accounts \ raced'
          PROVE  stored'[a] # None <=> stored[a] # None
      <4>1. a \in Accounts \ raced /\ a \notin popupTask[p].opens
        BY <1>1, <2>1, <2>5, <3>1
      <4> QED
        BY <2>1, <4>1
    <3> QED
      BY <1>2, <3>1
  <2>6. ASSUME NEW q \in Popups
        PROVE  Fine(stored', raced', popupTask'[q])
    <3>1. CASE q = p
      BY <1>1, <2>3, <2>4, <3>1
    <3>2. CASE q # p
      <4>1. popupTask'[q] = popupTask[q]
        BY <1>1, <2>3, <3>2
      <4> QED
        BY <2>5, <3>2, <4>1
    <3> QED
      BY <3>1, <3>2
  <2>7. OnDisk(stored', (session' \cup saved') \ raced')
    BY <1>1, <2>3 DEF OnDisk
  <2> QED
    BY <2>6, <2>7 DEF BackedInv
<1>10. ASSUME NEW p \in Popups, Decrypted(p)
       PROVE  BackedInv'
  <2> DEFINE opened == {a \in Accounts : popupTask[p].local[a] = popupTask[p].password}
             next == [popupTask[p] EXCEPT !.step = "merging", !.opens = opened]
             task == IF opened = {} THEN None ELSE next
  <2>1. popupTask[p] \in PopupTask /\ popupTask[p] # None /\ popupTask[p].step = "decrypting"
    BY <1>1, <1>10 DEF Decrypted
  <2>2. popupTask[p].password # None
    BY <2>1, NoneAssumption DEF PopupTask
  <2>3. next.step = "merging" /\ next.opens = opened
    BY <2>1 DEF PopupTask
  <2>4. popupTask' = [popupTask EXCEPT ![p] = task] /\ UNCHANGED <<stored, session, saved, raced>>
    BY <1>1, <1>10 DEF Decrypted
  <2>5. OnDisk(stored, opened \ raced)
    <3>1. OnDisk(stored, {a \in Accounts \ raced : popupTask[p].local[a] # None})
      BY <1>1, <2>1 DEF Fine, TaskBacked
    <3> QED
      BY <2>2, <3>1 DEF OnDisk
  <2> HIDE DEF next, opened
  <2>6. Fine(stored, raced, task)
    BY <2>3, <2>5 DEF Fine, TaskBacked
  <2> HIDE DEF task
  <2> QED
    BY <1>3, <2>4, <2>6
<1>11. ASSUME NEW p \in Popups, ReadSession(p)
       PROVE  BackedInv'
  <2> DEFINE task == [popupTask[p] EXCEPT !.step = "opening", !.secrets = session]
  <2>1. popupTask[p] \in PopupTask /\ popupTask[p] # None /\ popupTask[p].step = "merging"
    BY <1>1, <1>11 DEF ReadSession
  <2>2. task.step = "opening" /\ task.opens = popupTask[p].opens /\ task.secrets = session
    BY <2>1 DEF PopupTask
  <2>3. popupTask' = [popupTask EXCEPT ![p] = task] /\ UNCHANGED <<stored, session, saved, raced>>
    BY <1>1, <1>11 DEF ReadSession
  <2> HIDE DEF task
  <2>4. Fine(stored, raced, task)
    BY <1>1, <2>1, <2>2 DEF Fine, TaskBacked
  <2> QED
    BY <1>3, <2>3, <2>4
<1>12. ASSUME NEW p \in Popups, WriteSession(p)
       PROVE  BackedInv'
  <2>1. popupTask[p] \in PopupTask /\ popupTask[p] # None /\ popupTask[p].step = "opening"
    BY <1>1, <1>12 DEF WriteSession
  <2>2. OnDisk(stored, popupTask[p].opens \ raced) /\ OnDisk(stored, popupTask[p].secrets \ raced)
    BY <1>1, <2>1 DEF Fine, TaskBacked
  <2>3. /\ stored' = stored /\ raced' = raced /\ popupTask' = [popupTask EXCEPT ![p] = None]
        /\ session' = popupTask[p].secrets \cup popupTask[p].opens
        /\ saved' \subseteq saved \cup popupTask[p].opens
    BY <1>12 DEF WriteSession
  <2>4. ASSUME NEW q \in Popups
        PROVE  Fine(stored', raced', popupTask'[q])
    BY <1>1, <2>3 DEF Fine
  <2>5. OnDisk(stored', (session' \cup saved') \ raced')
    BY <1>1, <2>2, <2>3 DEF OnDisk
  <2> QED
    BY <2>4, <2>5 DEF BackedInv
<1>13. CASE Lock
  <2>1. UNCHANGED <<stored, popupTask, saved, raced>> /\ session' = {}
    BY <1>13 DEF Lock
  <2>2. OnDisk(stored', (session' \cup saved') \ raced')
    BY <1>1, <2>1 DEF OnDisk
  <2> QED
    BY <1>1, <2>1, <2>2 DEF BackedInv
<1>14. CASE popupTask' = [p \in Popups |-> None] /\ UNCHANGED <<stored, session, saved, raced>>
  <2>1. ASSUME NEW q \in Popups
        PROVE  Fine(stored', raced', popupTask'[q])
    BY <1>14 DEF Fine
  <2> QED
    BY <1>1, <1>14, <2>1 DEF BackedInv
<1>15. CASE UNCHANGED keyringVars
  BY <1>4, <1>15 DEF keyringVars
<1> QED
  BY <1>5, <1>6, <1>7, <1>8, <1>9, <1>10, <1>11, <1>12, <1>13, <1>14, <1>15 DEF KeyringStep
-----------------------------------------------------------------------------
(* The handlers. *)

(* Nothing of q's handler changes; its entry may be overwritten.            *)
Same(q) ==
    /\ request'[q] = request[q] /\ phase'[q] = phase[q] /\ rules'[q] = rules[q]
    /\ sends'[q] = sends[q] /\ preview'[q] = preview[q] /\ approved'[q] = approved[q]
    /\ decisions'[q] = decisions[q]
    /\ (q \in signature => q \in signature') /\ (q \in signature' => q \in signature)
    /\ (q \in pending' => q \in pending)
    /\ (window[q] = "none" => window'[q] = "none")

\* A step that leaves q's handler alone and takes no click back keeps its invariant.
LEMMA SameKeeps ==
    ASSUME NEW q \in Requests, HandlerInv(q), Same(q), clicks \subseteq clicks'
    PROVE  HandlerInv(q)'
  BY DEF HandlerInv, Same, Posted, Transacts, Consent, Clicked, Early

(* Steps that concern pages and calls of the keyring only.                  *)
QuietStep ==
    /\ UNCHANGED <<request, phase, rules, sends, preview, approved, signature,
                   executed, decisions, pending>>
    /\ InWindows(windowId', pending')
    /\ \A q \in Requests : window[q] = "none" => window'[q] = "none"

(* The steps that make a handler go on are each a step of one handler.      *)
MoveOf(r) ==
    \/ \E body \in WalletRequests : Receive(r, body)
    \/ HandlerStep(r) /\ ~GrantRead(r)
    \/ /\ r \in pending
       /\ \E isApproved \in BOOLEAN :
              Settle(r, isApproved) /\ (isApproved => Consent(r))
       /\ UNCHANGED <<request, rules, sends, preview, signature, executed, clicks>>
       /\ \A q \in Requests : window[q] = "none" => window'[q] = "none"

\* Each step of the extension is quiet, a move of one handler, or a stop of the worker.
LEMMA Steps ==
    ASSUME TypeOK, UserInv, [Next]_vars
    PROVE  \/ QuietStep
           \/ \E r \in Requests : MoveOf(r)
           \/ WorkerStops
<1>0. /\ WorkerTypes /\ PopupTypes /\ InWindows(windowId, pending)
      /\ window \in [Requests -> {"none", "opening", "adrift", "open", "closed"}]
  BY TypeParts DEF WorkerTypes, PopupTypes
<1>1. ASSUME NEW r \in Requests, WindowOpens(r)
      PROVE  QuietStep
  <2>1. InWindows(windowId', pending')
    <3>1. /\ pending' = pending
          /\ windowId' = [q \in Requests |-> IF /\ window[r] = "opening"
                                                /\ q \in Entry(request[r].id)
                                             THEN r ELSE windowId[q]]
      BY <1>1 DEF WindowOpens
    <3>2. \A q \in Entry(request[r].id) : q \in pending
      BY DEF Entry
    <3> QED
      BY <1>0, <3>1, <3>2 DEF InWindows
  <2>2. \A q \in Requests : window[q] = "none" => window'[q] = "none"
    BY <1>0, <1>1 DEF WindowOpens
  <2> QED
    BY <1>1, <2>1, <2>2 DEF WindowOpens, QuietStep, workerVars
<1>2. ASSUME NEW r \in Requests, GrantRead(r) \/ PageStep(r)
      PROVE  QuietStep
  <2>1. CASE GrantRead(r)
    BY <1>0, <2>1 DEF GrantRead, QuietStep, workerVars, pendingVars, popupVars
  <2>2. CASE WindowFails(r)
    BY <1>0, <2>2 DEF WindowFails, QuietStep, workerVars, pendingVars
  <2>3. CASE PageStep(r) /\ ~WindowFails(r)
    BY <1>0, <2>3 DEF PageStep, LoadPage, RefreshPage, ClickReject, ClickApprove,
                ClickOverride, Resolve, QuietStep, workerVars, pendingVars
  <2> QED
    BY <1>2, <2>1, <2>2, <2>3
<1>3. ASSUME NEW r \in Requests, CloseWindow(r)
      PROVE  QuietStep \/ \E q \in Requests : MoveOf(q)
  <2>1. ASSUME NEW q \in pending, Settle(q, FALSE)
        PROVE  MoveOf(q)
    <3>1. \A x \in Requests : window[x] = "none" => window'[x] = "none"
      BY <1>0, <1>3 DEF CloseWindow
    <3>2. UNCHANGED <<request, rules, sends, preview, signature, executed, clicks>>
      BY <1>3 DEF CloseWindow
    <3>3. PICK no \in BOOLEAN : no = FALSE
      OBVIOUS
    <3> QED
      BY <2>1, <3>1, <3>2, <3>3, Zenon DEF MoveOf
  <2>2. CASE Unsettled
    <3>1. \A q \in Requests : window[q] = "none" => window'[q] = "none"
      BY <1>0, <1>3 DEF CloseWindow
    <3> QED
      BY <1>0, <1>3, <2>2, <3>1 DEF CloseWindow, Unsettled, QuietStep, pendingVars
  <2>3. pending \subseteq Requests
    BY <1>0 DEF WorkerTypes
  <2> QED
    BY <1>3, <2>1, <2>2, <2>3 DEF CloseWindow
<1>4. ASSUME NEW m \in resolves, ReceiveResolve(m)
      PROVE  QuietStep \/ \E q \in Requests : MoveOf(q)
  <2>1. m.approved \in BOOLEAN /\ (m.approved => Clicked(m.id))
    BY DEF TypeOK, UserInv
  <2>2. ASSUME NEW q \in Entry(m.id), Settle(q, m.approved)
        PROVE  q \in Requests /\ MoveOf(q)
    <3>1. q \in pending /\ q \in Requests /\ request[q].id = m.id
      BY <1>0 DEF Entry, WorkerTypes
    <3>2. m.approved => Consent(q)
      BY <2>1, <3>1 DEF Consent
    <3> QED
      BY <1>4, <2>1, <2>2, <3>1, <3>2 DEF ReceiveResolve, MoveOf
  <2>3. CASE Unsettled
    BY <1>0, <1>4, <2>3 DEF ReceiveResolve, Unsettled, QuietStep, pendingVars
  <2> QED
    BY <1>4, <2>2, <2>3 DEF ReceiveResolve
<1>5. ASSUME NEW p \in Popups, StartTask(p) \/ TaskStep(p) \/ TaskEnds(p)
      PROVE  QuietStep
  BY <1>0, <1>5 DEF StartTask, TaskStep, TaskEnds, QuietStep, workerVars, pendingVars,
                    popupVars
<1>6. CASE UNCHANGED vars
  BY <1>0, <1>6 DEF vars, QuietStep, workerVars, pendingVars, popupVars
<1>7. ASSUME NEW r \in Requests, HandlerStep(r)
      PROVE  QuietStep \/ MoveOf(r)
  BY <1>2, <1>7 DEF MoveOf
<1>8. ASSUME NEW r \in Requests, NEW body \in WalletRequests, Receive(r, body)
      PROVE  MoveOf(r)
  BY <1>8 DEF MoveOf
<1> QED
  BY <1>1, <1>2, <1>3, <1>4, <1>5, <1>6, <1>7, <1>8 DEF Next

(* A handler's step is none of another handler's.                           *)
LEMMA OtherHandlers ==
    ASSUME TypeOK, NEW r \in Requests, MoveOf(r), NEW q \in Requests, q # r
    PROVE  Same(q)
<1>0. WorkerTypes /\ window \in [Requests -> {"none", "opening", "adrift", "open", "closed"}]
  BY TypeParts DEF PopupTypes
<1>1. ASSUME NEW body \in WalletRequests, Receive(r, body)
      PROVE  Same(q)
  <2>1. \E p \in Phases : Goto(r, p)
    BY <1>1 DEF Receive, RequestApproval, Phases
  <2>2. preview'[q] = preview[q] /\ (q \in pending' => q \in pending)
        /\ (window[q] = "none" => window'[q] = "none")
    BY <1>0, <1>1 DEF Receive, RequestApproval, WorkerTypes, pendingVars
  <2> QED
    BY <1>0, <1>1, <2>1, <2>2 DEF Receive, Goto, Same, WorkerTypes
<1>2. CASE CheckConnect(r)
  BY <1>0, <1>2 DEF CheckConnect, RequestApproval, Goto, Same, WorkerTypes,
       pendingVars, popupVars
<1>3. CASE ListAccounts(r)
  BY <1>0, <1>3 DEF ListAccounts, Answer, Goto, Same, WorkerTypes,
       pendingVars, popupVars
<1>4. CASE GrantWrite(r)
  BY <1>0, <1>4 DEF GrantWrite, Answer, Goto, Same, WorkerTypes,
       pendingVars, popupVars
<1>5. ASSUME NEW summary \in Summaries, Simulate(r, summary)
      PROVE  Same(q)
  BY <1>0, <1>5 DEF Simulate, Goto, Same, WorkerTypes,
       pendingVars, popupVars
<1>6. CASE SimulateFails(r)
  BY <1>0, <1>6 DEF SimulateFails, Answer, Goto, Same, WorkerTypes,
       pendingVars, popupVars
<1>7. ASSUME NEW ai \in Verdicts \cup {None}, Judge(r, ai)
      PROVE  Same(q)
  BY <1>0, <1>7 DEF Judge, RequestApproval, Goto, Same, WorkerTypes
<1>8. CASE Sign(r)
  BY <1>0, <1>8 DEF Sign, Answer, Goto, Same, WorkerTypes,
       pendingVars, popupVars
<1>9. CASE Submit(r) \/ Submitted(r) \/ SubmitFails(r)
  BY <1>0, <1>9 DEF Submit, Submitted, SubmitFails, Answer, Goto, Same, WorkerTypes,
       pendingVars, popupVars
<1>10. ASSUME NEW isApproved \in BOOLEAN, Settle(r, isApproved),
              UNCHANGED <<request, rules, sends, preview, signature>>,
              window[q] = "none" => window'[q] = "none"
       PROVE  Same(q)
  BY <1>0, <1>10 DEF Settle, Answer, Goto, Same, WorkerTypes
<1> QED
  BY <1>1, <1>2, <1>3, <1>4, <1>5, <1>6, <1>7, <1>8, <1>9, <1>10 DEF MoveOf, HandlerStep

(* The popup is asked for: the only time the level is set.                  *)
LEMMA AsksForApproval ==
    ASSUME WorkerTypes, NEW r \in Requests, HandlerInv(r), phase[r] \in Early,
           NEW level \in RiskLevels \cup {None}, NEW id, RequestApproval(r, id, level),
           request' \in [Requests -> WalletRequests \cup {None}], request'[r] # None,
           UNCHANGED <<rules, sends, approved, signature, decisions>>
    PROVE  WorkerTypes' /\ HandlerInv(r)'
<1>1. [riskLevel |-> level] \in PendingPreview /\ [riskLevel |-> level] # None
  BY ApprovalAssumption DEF PendingPreview
<1>2. /\ phase' = [phase EXCEPT ![r] = "awaiting"]
      /\ pending' = (pending \ Entry(id)) \cup {r}
      /\ windowId' = [q \in Requests |-> IF q \in Entry(id) THEN None ELSE windowId[q]]
      /\ preview' = [preview EXCEPT ![r] = [riskLevel |-> level]]
  BY DEF RequestApproval, Goto
<1>3. WorkerTypes'
  <2>1. InWindows(windowId', pending')
    BY <1>2 DEF WorkerTypes, InWindows
  <2>2. pending' \subseteq Requests
    BY <1>2 DEF WorkerTypes
  <2> QED
    BY <1>1, <1>2, <2>1, <2>2 DEF WorkerTypes, Phases
<1>4. phase'[r] = "awaiting" /\ preview'[r] # None
  BY <1>1, <1>2 DEF WorkerTypes
<1>5. approved'[r] = None /\ r \notin signature'
  BY DEF HandlerInv, Early
<1>6. HandlerInv(r)'
  BY <1>4, <1>5 DEF HandlerInv, Early
<1> QED
  BY <1>3, <1>6

\* A request that is received (background.ts, the message listener) starts a sound handler.
LEMMA ReceiveMove ==
    ASSUME WorkerTypes, NEW r \in Requests, HandlerInv(r),
           NEW body \in WalletRequests, Receive(r, body)
    PROVE  WorkerTypes' /\ HandlerInv(r)'
<1>1. body \in WalletRequest /\ body # None /\ body.method \in Methods
  BY ApprovalAssumption DEF WalletRequest
<1>2. /\ request' = [request EXCEPT ![r] = body] /\ phase[r] = "idle"
      /\ UNCHANGED <<rules, sends, approved, signature, executed, decisions>>
  BY DEF Receive
<1>3. /\ request' \in [Requests -> WalletRequests \cup {None}]
      /\ request'[r] = body
  BY <1>2 DEF WorkerTypes
<1>4. ASSUME NEW p \in {"checking", "listing", "granting", "simulating"},
             Goto(r, p), UNCHANGED <<preview, pendingVars, window>>,
             p = "checking" => body.method = "connect"
      PROVE  WorkerTypes' /\ HandlerInv(r)'
  <2>1. WorkerTypes' /\ phase'[r] = p
    BY <1>2, <1>3, <1>4 DEF WorkerTypes, Goto, Phases, pendingVars
  <2>2. /\ approved'[r] = None /\ preview'[r] = None /\ window'[r] = "none"
        /\ r \notin pending' /\ r \notin signature'
    BY <1>2, <1>4 DEF HandlerInv, Early, pendingVars
  <2>3. HandlerInv(r)'
    BY <1>1, <1>3, <1>4, <2>1, <2>2 DEF HandlerInv, Early
  <2> QED
    BY <2>1, <2>3
<1>5. CASE body.method = "connect"
  BY <1>4, <1>5 DEF Receive
<1>6. CASE body.method = "getAccounts"
  BY <1>4, <1>6 DEF Receive
<1>7. CASE body.method = "disconnect"
  BY <1>4, <1>7 DEF Receive
<1>8. CASE body.method = "signPersonalMessage"
  <2>1. RequestApproval(r, body.id, None) /\ phase[r] \in Early
    BY <1>2, <1>8 DEF Receive, Early
  <2> QED
    BY <1>1, <1>2, <1>3, <2>1, AsksForApproval
<1>9. CASE body.method \in {"signTransaction", "signAndExecuteTransaction"}
  BY <1>4, <1>9 DEF Receive
<1> QED
  BY <1>1, <1>5, <1>6, <1>7, <1>8, <1>9 DEF Methods

(* Steps of a handler that end in a phase of no obligation.                 *)
LEMMA FreeMove ==
    ASSUME WorkerTypes, NEW r \in Requests, HandlerInv(r), phase[r] # "idle",
           phase[r] # "awaiting",
           NEW p \in {"listing", "granting", "answered"}, Goto(r, p),
           r \in signature' => p = "answered" /\ approved[r] = TRUE /\ Posted(r) /\ Consent(r),
           UNCHANGED <<request, rules, sends, preview, approved, decisions, pending,
                       windowId, clicks>>,
           signature' \subseteq Requests
    PROVE  WorkerTypes' /\ HandlerInv(r)'
<1>1. WorkerTypes' /\ phase'[r] = p
  BY DEF WorkerTypes, Goto, Phases
<1>2. r \notin pending
  BY DEF HandlerInv
<1> QED
  BY <1>1, <1>2 DEF HandlerInv, Early, Posted, Transacts, Consent, Clicked

\* connect, once the origins are read, asks the user or lists accounts (handleConnect).
LEMMA CheckConnectMove ==
    ASSUME WorkerTypes, NEW r \in Requests, HandlerInv(r), CheckConnect(r)
    PROVE  WorkerTypes' /\ HandlerInv(r)'
<1>1. phase[r] = "checking" /\ request[r] # None
  BY DEF CheckConnect, HandlerInv
<1>2. CASE RequestApproval(r, request[r].id, None)
  <2>1. UNCHANGED <<request, rules, sends, approved, signature, decisions>>
    BY DEF CheckConnect
  <2> QED
    BY <1>1, <1>2, <2>1, AsksForApproval DEF Early, WorkerTypes
<1>3. CASE Goto(r, "listing") /\ UNCHANGED <<preview, pendingVars, window>>
  <2>1. /\ UNCHANGED <<request, rules, sends, preview, approved, decisions, pending,
                       windowId, clicks>>
        /\ signature' = signature
    BY <1>3 DEF CheckConnect, pendingVars
  <2>2. r \notin signature /\ signature \subseteq Requests
    BY <1>1 DEF HandlerInv, WorkerTypes
  <2> QED
    BY <1>1, <1>3, <2>1, <2>2, FreeMove
<1> QED
  BY <1>2, <1>3 DEF CheckConnect

\* The moves that only end an await and do not decide anything keep the handler sound.
LEMMA AnswerMove ==
    ASSUME WorkerTypes, NEW r \in Requests, HandlerInv(r),
           ListAccounts(r) \/ GrantWrite(r) \/ SimulateFails(r) \/ Submitted(r)
               \/ SubmitFails(r)
    PROVE  WorkerTypes' /\ HandlerInv(r)'
<1>1. phase[r] \in {"listing", "granting", "simulating", "submitting", "submitted"}
  BY DEF ListAccounts, GrantWrite, SimulateFails, Submitted, SubmitFails
<1>2. PICK p \in {"listing", "granting", "answered"} :
          Goto(r, p) /\ (phase[r] \in {"submitting", "submitted"} => p = "answered")
  BY DEF ListAccounts, GrantWrite, SimulateFails, Submitted, SubmitFails, Answer
<1>3. /\ UNCHANGED <<request, rules, sends, preview, approved, decisions, pending,
                     windowId, clicks>>
      /\ signature' = signature
  BY DEF ListAccounts, GrantWrite, SimulateFails, Submitted, SubmitFails, pendingVars,
         popupVars
<1>4. r \in signature => phase[r] \in {"submitting", "submitted"}
  BY <1>1 DEF HandlerInv
<1>5. r \in signature' => p = "answered" /\ approved[r] = TRUE /\ Posted(r) /\ Consent(r)
  BY <1>2, <1>3, <1>4 DEF HandlerInv
<1>6. signature' \subseteq Requests
  BY <1>3 DEF WorkerTypes
<1> QED
  BY <1>1, <1>2, <1>3, <1>5, <1>6, FreeMove

\* A simulation that ends leaves the handler with a summary and the level of the rules.
LEMMA SimulateMove ==
    ASSUME WorkerTypes, NEW r \in Requests, HandlerInv(r),
           NEW summary \in Summaries, Simulate(r, summary)
    PROVE  WorkerTypes' /\ HandlerInv(r)'
<1>1. phase[r] = "simulating" /\ phase' = [phase EXCEPT ![r] = "judging"]
  BY DEF Simulate, Goto
<1>2. PICK totalMist \in {Balance, 0} :
          rules' = [rules EXCEPT ![r] = AssessTransaction(summary, totalMist)]
  BY DEF Simulate
<1>3. AssessTransaction(summary, totalMist) \in RiskLevels
  BY DEF AssessTransaction, RiskLevels
<1>4. sends' = [sends EXCEPT ![r] = summary.netOut] /\ summary.netOut \in Nat
  BY ApprovalAssumption DEF Simulate, SimSummary
<1>5. UNCHANGED <<request, preview, approved, signature, decisions, pending, windowId,
                  window, clicks>>
  BY DEF Simulate, pendingVars, popupVars
<1>6. WorkerTypes'
  BY <1>1, <1>2, <1>3, <1>4, <1>5 DEF WorkerTypes, Phases
<1>7. phase'[r] = "judging" /\ rules'[r] \in RiskLevels
  BY <1>1, <1>2, <1>3 DEF WorkerTypes
<1>8. rules'[r] # None
  BY <1>7, ApprovalAssumption
<1>9. HandlerInv(r)'
  BY <1>1, <1>5, <1>7, <1>8 DEF HandlerInv, Early
<1> QED
  BY <1>6, <1>9

\* The judge's answer, or its failure, leads to a request for approval with its preview.
LEMMA JudgeMove ==
    ASSUME WorkerTypes, NEW r \in Requests, HandlerInv(r),
           NEW ai \in Verdicts \cup {None}, Judge(r, ai)
    PROVE  WorkerTypes' /\ HandlerInv(r)'
<1>1. phase[r] = "judging" /\ rules[r] \in RiskLevels /\ request[r] # None
  BY DEF Judge, HandlerInv, WorkerTypes
<1> DEFINE level == IF ai = None THEN rules[r] ELSE MergeRiskLevel(rules[r], ai)
<1>2. level \in RiskLevels \cup {None}
  BY <1>1, ApprovalAssumption DEF MergeRiskLevel
<1>3. RequestApproval(r, request[r].id, level)
  BY DEF Judge
<1>4. /\ UNCHANGED <<request, rules, sends, approved, signature, decisions>>
      /\ request' \in [Requests -> WalletRequests \cup {None}]
  BY DEF Judge, WorkerTypes
<1> HIDE DEF level
<1> QED
  BY <1>1, <1>2, <1>3, <1>4, AsksForApproval DEF Early

\* A handler signs only after approval, so that consent lies behind the signature.
LEMMA SignMove ==
    ASSUME WorkerTypes, NEW r \in Requests, HandlerInv(r), Sign(r)
    PROVE  WorkerTypes' /\ HandlerInv(r)'
<1>1. /\ phase[r] = "signing" /\ request[r] # None
      /\ approved[r] = TRUE /\ Posted(r) /\ Consent(r)
  BY DEF Sign, HandlerInv
<1>2. UNCHANGED <<request, rules, sends, preview, approved, decisions, pending,
                  windowId, clicks>>
  BY DEF Sign, pendingVars, popupVars
<1>3. signature' \subseteq Requests
  BY DEF Sign, WorkerTypes
<1>4. CASE Goto(r, "answered")
  BY <1>1, <1>2, <1>3, <1>4, FreeMove
<1>5. CASE Goto(r, "submitting") /\ r \in signature'
  <2>1. WorkerTypes' /\ phase'[r] = "submitting"
    BY <1>2, <1>3, <1>5 DEF WorkerTypes, Goto, Phases
  <2>2. r \notin pending
    BY <1>1 DEF HandlerInv
  <2>3. HandlerInv(r)'
    BY <1>1, <1>2, <1>5, <2>1, <2>2
    DEF HandlerInv, Early, Posted, Transacts, Consent, Clicked
  <2> QED
    BY <2>1, <2>3
<1> QED
  BY <1>4, <1>5 DEF Sign, Answer

\* Submission is of a transaction that the handler has signed.
LEMMA SubmitMove ==
    ASSUME WorkerTypes, NEW r \in Requests, HandlerInv(r), Submit(r)
    PROVE  WorkerTypes' /\ HandlerInv(r)' /\ r \in signature
<1>1. phase[r] = "submitting" /\ Goto(r, "submitted")
  BY DEF Submit
<1>2. UNCHANGED <<request, rules, sends, preview, approved, signature, decisions, pending,
                  windowId, clicks>>
  BY DEF Submit, pendingVars, popupVars
<1>3. WorkerTypes' /\ phase'[r] = "submitted"
  BY <1>1, <1>2 DEF WorkerTypes, Goto, Phases
<1> QED
  BY <1>1, <1>2, <1>3 DEF HandlerInv, Early, Posted, Transacts, Consent, Clicked

\* Settling a pending approval (resolveApproval) needs consent if it approves, and posts it.
LEMMA SettleMove ==
    ASSUME WorkerTypes, NEW r \in Requests, HandlerInv(r), r \in pending,
           NEW isApproved \in BOOLEAN, Settle(r, isApproved), isApproved => Consent(r),
           UNCHANGED <<request, rules, sends, preview, signature, executed, clicks>>
    PROVE  WorkerTypes' /\ HandlerInv(r)'
<1>1. phase[r] = "awaiting" /\ request[r] # None /\ r \notin signature
  BY DEF HandlerInv
<1>2. PICK p \in {"answered", "signing", "listing"} :
          Goto(r, p) /\ (p = "signing" => isApproved)
  BY DEF Settle, Answer
<1>3. /\ pending' = pending \ {r} /\ windowId' = [windowId EXCEPT ![r] = None]
      /\ approved' = [approved EXCEPT ![r] = isApproved]
  BY DEF Settle
<1> DEFINE record == [blocked |-> preview[r].riskLevel = "critical", approved |-> isApproved]
<1>4. record \in DecisionRecord
  <2>1. (preview[r].riskLevel = "critical") \in BOOLEAN
    OBVIOUS
  <2> QED
    BY <2>1 DEF DecisionRecord
<1>5. /\ ~Transacts(r) => decisions' = decisions
      /\ Transacts(r) => decisions' = [decisions EXCEPT ![r] = record]
  BY DEF Settle
<1>6. record # None /\ record.approved = isApproved
  BY <1>4, ApprovalAssumption
<1> HIDE DEF record
<1>7. WorkerTypes'
  <2>1. decisions' \in [Requests -> DecisionRecord \cup {None}]
    BY <1>4, <1>5 DEF WorkerTypes
  <2>2. InWindows(windowId', pending')
    BY <1>3 DEF WorkerTypes, InWindows
  <2> QED
    BY <1>2, <1>3, <2>1, <2>2 DEF WorkerTypes, Goto, Phases
<1>8. phase'[r] = p /\ approved'[r] = isApproved /\ r \notin pending'
  BY <1>2, <1>3 DEF WorkerTypes, Goto
<1>9. isApproved => Posted(r)'
  BY <1>5, <1>6 DEF Posted, Transacts, WorkerTypes
<1>10. isApproved => Consent(r)'
  BY DEF Consent, Clicked
<1>11. HandlerInv(r)'
  BY <1>1, <1>2, <1>8, <1>9, <1>10 DEF HandlerInv, Early
<1> QED
  BY <1>7, <1>11
-----------------------------------------------------------------------------
(* What no step of the extension undoes: the level of a request that was    *)
(* asked for, what the user clicked, and which origins were let connect.    *)
LEMMA ClicksGrow ==
    ASSUME [Next]_vars
    PROVE  clicks \subseteq clicks' /\ consented \subseteq consented'
<1>1. ASSUME NEW r, \E body \in WalletRequests : Receive(r, body)
      PROVE  clicks \subseteq clicks' /\ consented \subseteq consented'
  BY <1>1 DEF Receive
<1>2. ASSUME NEW r, HandlerStep(r)
      PROVE  clicks \subseteq clicks' /\ consented \subseteq consented'
  BY <1>2 DEF HandlerStep, CheckConnect, ListAccounts, GrantRead, GrantWrite, Simulate,
              SimulateFails, Judge, Sign, Submit, Submitted, SubmitFails, popupVars
<1>3. ASSUME NEW r, PageStep(r) \/ WindowOpens(r)
      PROVE  clicks \subseteq clicks' /\ consented \subseteq consented'
  BY <1>3 DEF PageStep, WindowFails, LoadPage, RefreshPage, ClickReject, ClickApprove,
              ClickOverride, Resolve, WindowOpens
<1>4. ASSUME NEW r, NEW isApproved, Settle(r, isApproved) \/ Unsettled
      PROVE  consented \subseteq consented'
  BY <1>4 DEF Settle, Unsettled
<1>5. ASSUME NEW r, CloseWindow(r)
      PROVE  clicks \subseteq clicks' /\ consented \subseteq consented'
  BY <1>4, <1>5 DEF CloseWindow
<1>6. ASSUME NEW m, ReceiveResolve(m)
      PROVE  clicks \subseteq clicks' /\ consented \subseteq consented'
  BY <1>4, <1>6 DEF ReceiveResolve
<1>7. ASSUME NEW p, StartTask(p) \/ TaskStep(p) \/ TaskEnds(p)
      PROVE  clicks \subseteq clicks' /\ consented \subseteq consented'
  BY <1>7 DEF StartTask, TaskStep, TaskEnds, popupVars
<1>8. CASE WorkerStops
  BY <1>8 DEF WorkerStops
<1>9. CASE UNCHANGED vars
  BY <1>9 DEF vars, popupVars
<1> QED
  BY <1>1, <1>2, <1>3, <1>5, <1>6, <1>7, <1>8, <1>9 DEF Next

(* The stop of the worker: every request that was served is answered.       *)
LEMMA StopKeepsHandlers ==
    ASSUME WorkerTypes, \A r \in Requests : HandlerInv(r), WorkerStops
    PROVE  WorkerTypes' /\ \A r \in Requests : HandlerInv(r)'
<1>1. /\ pending' = {} /\ windowId' = [r \in Requests |-> None]
      /\ phase' = [r \in Requests |-> IF r \in InFlight THEN "answered" ELSE phase[r]]
      /\ UNCHANGED <<request, rules, sends, preview, approved, signature, decisions, clicks>>
  BY DEF WorkerStops
<1>2. WorkerTypes'
  <2>1. InWindows(windowId', pending')
    BY <1>1 DEF InWindows
  <2> QED
    BY <1>1, <2>1 DEF WorkerTypes, Phases
<1>3. ASSUME NEW r \in Requests
      PROVE  HandlerInv(r)'
  <2>1. phase[r] = "idle" => phase'[r] = "idle" /\ (window[r] = "none" => window'[r] = "none")
    BY <1>1 DEF InFlight, WorkerStops
  <2>2. phase[r] # "idle" => phase'[r] = "answered"
    BY <1>1 DEF InFlight
  <2> QED
    BY <1>1, <2>1, <2>2 DEF HandlerInv, Early, Posted, Transacts, Consent, Clicked
<1> QED
  BY <1>2, <1>3

\* Every move of a handler keeps its types and its invariant, and executes what is signed.
LEMMA MoveKeepsHandler ==
    ASSUME WorkerTypes, executed \subseteq signature, NEW r \in Requests, HandlerInv(r),
           MoveOf(r)
    PROVE  WorkerTypes' /\ HandlerInv(r)' /\ executed' \subseteq signature'
<1>1. ASSUME NEW body \in WalletRequests, Receive(r, body)
      PROVE  WorkerTypes' /\ HandlerInv(r)' /\ UNCHANGED <<executed, signature>>
  BY <1>1, ReceiveMove DEF Receive
<1>2. CASE CheckConnect(r)
  BY <1>2, CheckConnectMove DEF CheckConnect
<1>3. CASE ListAccounts(r) \/ GrantWrite(r) \/ SimulateFails(r) \/ Submitted(r)
               \/ SubmitFails(r)
  <2>1. UNCHANGED <<executed, signature>>
    BY <1>3 DEF ListAccounts, GrantWrite, SimulateFails, Submitted, SubmitFails
  <2> QED
    BY <1>3, <2>1, AnswerMove
<1>4. ASSUME NEW summary \in Summaries, Simulate(r, summary)
      PROVE  WorkerTypes' /\ HandlerInv(r)' /\ UNCHANGED <<executed, signature>>
  BY <1>4, SimulateMove DEF Simulate
<1>5. ASSUME NEW ai \in Verdicts \cup {None}, Judge(r, ai)
      PROVE  WorkerTypes' /\ HandlerInv(r)' /\ UNCHANGED <<executed, signature>>
  BY <1>5, JudgeMove DEF Judge
<1>6. CASE Sign(r)
  BY <1>6, SignMove DEF Sign
<1>7. CASE Submit(r)
  BY <1>7, SubmitMove DEF Submit
<1>8. ASSUME r \in pending, NEW isApproved \in BOOLEAN, Settle(r, isApproved),
             isApproved => Consent(r),
             UNCHANGED <<request, rules, sends, preview, signature, executed, clicks>>
      PROVE  WorkerTypes' /\ HandlerInv(r)' /\ UNCHANGED <<executed, signature>>
  BY <1>8, SettleMove
<1> QED
  BY <1>1, <1>2, <1>3, <1>4, <1>5, <1>6, <1>7, <1>8 DEF MoveOf, HandlerStep

\* Every step keeps the invariant of every handler.
LEMMA HandlersKept ==
    ASSUME TypeOK, \A r \in Requests : HandlerInv(r), UserInv, [Next]_vars
    PROVE  /\ WorkerTypes' /\ executed' \subseteq signature'
           /\ \A r \in Requests : HandlerInv(r)'
<1>1. WorkerTypes /\ executed \subseteq signature
  BY TypeParts
<1>2. clicks \subseteq clicks'
  BY ClicksGrow
<1>3. CASE QuietStep
  <2>1. WorkerTypes' /\ executed' \subseteq signature'
    BY <1>1, <1>3, Zenon DEF QuietStep, WorkerTypes
  <2>2. \A q \in Requests : Same(q)
    BY <1>3 DEF QuietStep, Same
  <2> QED
    BY <1>2, <2>1, <2>2, SameKeeps
<1>4. ASSUME NEW r \in Requests, MoveOf(r)
      PROVE  /\ WorkerTypes' /\ executed' \subseteq signature'
             /\ \A q \in Requests : HandlerInv(q)'
  <2>1. WorkerTypes' /\ executed' \subseteq signature' /\ HandlerInv(r)'
    BY <1>1, <1>4, MoveKeepsHandler
  <2>2. \A q \in Requests : q # r => HandlerInv(q)'
    BY <1>2, <1>4, OtherHandlers, SameKeeps
  <2> QED
    BY <2>1, <2>2
<1>5. CASE WorkerStops
  BY <1>1, <1>5, StopKeepsHandlers DEF WorkerStops
<1> QED
  BY <1>3, <1>4, <1>5, Steps

(* A request that was asked for stays so, with its body and its level.      *)
LEMMA AskedForever ==
    ASSUME TypeOK, \A r \in Requests : HandlerInv(r), UserInv, [Next]_vars,
           NEW r \in Requests, Asked(r)
    PROVE  Asked(r)' /\ preview'[r] = preview[r] /\ request'[r] = request[r]
<1>1. WorkerTypes
  BY TypeParts
<1>2. CASE QuietStep
  BY <1>2 DEF QuietStep, Asked
<1>3. ASSUME NEW q \in Requests, MoveOf(q), q # r
      PROVE  Asked(r)' /\ preview'[r] = preview[r] /\ request'[r] = request[r]
  BY <1>3, OtherHandlers DEF Same, Asked
<1>4. CASE MoveOf(r)
  <2>1. preview' = preview /\ request' = request
    BY <1>4 DEF MoveOf, HandlerStep, Asked, Early, Receive, CheckConnect, ListAccounts,
                GrantWrite, Simulate, SimulateFails, Judge, Sign, Submit, Submitted,
                SubmitFails
  <2>2. \E p \in {"listing", "granting", "answered", "signing", "submitting", "submitted"} :
            Goto(r, p)
    BY <1>4 DEF MoveOf, HandlerStep, Asked, Early, Receive, CheckConnect, ListAccounts,
                GrantWrite, Simulate, SimulateFails, Judge, Sign, Submit, Submitted,
                SubmitFails, Settle, Answer
  <2> QED
    BY <1>1, <2>1, <2>2 DEF Goto, Asked, Early, WorkerTypes
<1>5. CASE WorkerStops
  BY <1>5 DEF WorkerStops, Asked, Early
<1> QED
  BY <1>2, <1>3, <1>4, <1>5, Steps

(* So a level that was shown stays that of its request.                     *)
LEMMA LevelKept ==
    ASSUME TypeOK, \A r \in Requests : HandlerInv(r), UserInv, [Next]_vars,
           NEW q, NEW id, NEW level, LevelOf(q, id, level)
    PROVE  LevelOf(q, id, level)'
  BY AskedForever DEF LevelOf
-----------------------------------------------------------------------------
(* The popups. *)

(* No page loads, and none shows another level.                             *)
PagesStay ==
    \A q \in Requests : /\ view'[q].riskLevel = view[q].riskLevel
                        /\ view'[q].of = view[q].of
                        /\ Loaded(q)' => Loaded(q)

\* A step that leaves views, loading pages and popup calls alone changes no page.
LEMMA UntouchedPages ==
    ASSUME UNCHANGED <<view, refreshing, popupTask>>
    PROVE  PagesStay
  BY DEF PagesStay, Loaded

(* Handlers and windows leave the pages and what the user does there alone. *)
LEMMA HandlersLeavePages ==
    ASSUME NEW r \in Requests,
           \/ \E body \in WalletRequests : Receive(r, body)
           \/ HandlerStep(r) \/ WindowOpens(r) \/ WindowFails(r) \/ CloseWindow(r)
    PROVE  UNCHANGED <<view, refreshing, popupTask, resolves, clicks>>
<1>1. ASSUME NEW body \in WalletRequests, Receive(r, body)
      PROVE  UNCHANGED <<view, refreshing, popupTask, resolves, clicks>>
  <2>1. UNCHANGED keyringVars \/ SetOrigin(r, body.origin, {})
    BY <1>1 DEF Receive
  <2> QED
    BY <1>1, <2>1 DEF Receive, SetOrigin, keyringVars
<1>2. CASE ListAccounts(r) \/ GrantRead(r) \/ GrantWrite(r)
  BY <1>2 DEF ListAccounts, GrantRead, GrantWrite, SetOrigin, ReadOrigins, WriteOrigins,
              keyringVars, popupVars
<1>3. CASE HandlerStep(r) /\ ~(ListAccounts(r) \/ GrantRead(r) \/ GrantWrite(r))
  BY <1>3 DEF HandlerStep, CheckConnect, Simulate, SimulateFails, Judge, Sign, Submit,
              Submitted, SubmitFails, keyringVars, popupVars
<1>4. CASE WindowOpens(r) \/ WindowFails(r) \/ CloseWindow(r)
  BY <1>4 DEF WindowOpens, WindowFails, CloseWindow, keyringVars
<1> QED
  BY <1>1, <1>2, <1>3, <1>4

(* What one step does to the pages and to the messages of the popups.       *)
LEMMA PopupSteps ==
    ASSUME TypeOK, [Next]_vars
    PROVE  \/ PagesStay /\ resolves' \subseteq resolves /\ clicks' = clicks
           \/ \E r \in Requests :
                  /\ UNCHANGED <<view, refreshing, popupTask>>
                  /\ ClickReject(r) \/ ClickApprove(r)
           \/ \E r \in Requests : LoadPage(r)
<1>1. /\ view \in [Requests -> PageView] /\ popupTask \in [Popups -> PopupTask \cup {None}]
      /\ Popups = Requests \cup {Toolbar} /\ Toolbar \notin Requests
  BY ApprovalAssumption DEF TypeOK, KeyringTypeOK
<1>2. ASSUME NEW r \in Requests,
             \/ \E body \in WalletRequests : Receive(r, body)
             \/ HandlerStep(r) \/ WindowOpens(r) \/ WindowFails(r) \/ CloseWindow(r)
      PROVE  PagesStay /\ resolves' \subseteq resolves /\ clicks' = clicks
  BY <1>2, HandlersLeavePages, UntouchedPages
<1>3. ASSUME NEW m \in resolves, ReceiveResolve(m)
      PROVE  PagesStay /\ resolves' \subseteq resolves /\ clicks' = clicks
  BY <1>3, UntouchedPages DEF ReceiveResolve, keyringVars
<1>4. ASSUME NEW r \in Requests, RefreshPage(r)
      PROVE  PagesStay /\ resolves' \subseteq resolves /\ clicks' = clicks
  <2>1. Loaded(r) /\ UNCHANGED <<popupTask, resolves, clicks>>
    BY <1>4 DEF RefreshPage, Loaded, keyringVars
  <2>2. \A q \in Requests : /\ view'[q].riskLevel = view[q].riskLevel
                            /\ view'[q].of = view[q].of
    BY <1>1, <1>4 DEF RefreshPage, PageView
  <2>3. \A q \in Requests : q # r => view'[q] = view[q] /\ (q \in refreshing' => q \in refreshing)
    BY <1>1, <1>4 DEF RefreshPage
  <2> QED
    BY <2>1, <2>2, <2>3 DEF PagesStay, Loaded
<1>5. ASSUME NEW r \in Requests, ClickOverride(r)
      PROVE  PagesStay /\ resolves' \subseteq resolves /\ clicks' = clicks
  <2>1. UNCHANGED <<popupTask, refreshing, resolves, clicks>>
    BY <1>5 DEF ClickOverride, keyringVars
  <2>2. \A q \in Requests : /\ view'[q].riskLevel = view[q].riskLevel
                            /\ view'[q].of = view[q].of
                            /\ view'[q].page = view[q].page
    BY <1>1, <1>5 DEF ClickOverride, PageView
  <2> QED
    BY <2>1, <2>2 DEF PagesStay, Loaded
<1>6. ASSUME NEW r \in Requests, ClickReject(r) \/ ClickApprove(r)
      PROVE  UNCHANGED <<view, refreshing, popupTask>>
  BY <1>6 DEF ClickReject, ClickApprove, Resolve, keyringVars
<1>7. ASSUME NEW p \in Popups, StartTask(p)
      PROVE  PagesStay /\ resolves' \subseteq resolves /\ clicks' = clicks
  <2>1. UNCHANGED <<view, refreshing, resolves, clicks>>
    BY <1>7 DEF StartTask, popupVars
  <2>2. p = Toolbar \/ popupTask' = popupTask \/ Loaded(p)
    BY <1>7 DEF StartTask, PageOf, Loaded
  <2>3. \A q \in Requests : q # p => popupTask'[q] = popupTask[q]
    BY <1>1, <1>7 DEF StartTask, Adopt, Unlock, Lock
  <2> QED
    BY <1>1, <2>1, <2>2, <2>3 DEF PagesStay, Loaded
<1>8. ASSUME NEW p \in Popups, TaskStep(p) \/ TaskEnds(p)
      PROVE  PagesStay /\ resolves' \subseteq resolves /\ clicks' = clicks
  <2>1. UNCHANGED <<view, resolves, clicks>>
    BY <1>8 DEF TaskStep, TaskEnds, popupVars
  <2>2. popupTask[p] # None
    BY <1>8 DEF TaskStep, TaskEnds, ReadLocal, WriteLocal, Decrypted, ReadSession,
                WriteSession, Saving
  <2>3. \A q \in Requests : q # p => popupTask'[q] = popupTask[q]
    BY <1>1, <1>8 DEF TaskStep, TaskEnds, ReadLocal, WriteLocal, Decrypted, ReadSession,
                      WriteSession
  <2>4. \A q \in Requests : q # p => (q \in refreshing' => q \in refreshing)
    BY <1>8 DEF TaskStep, TaskEnds, popupVars
  <2> QED
    BY <2>1, <2>2, <2>3, <2>4 DEF PagesStay, Loaded
<1>9. CASE WorkerStops
  <2>1. UNCHANGED <<refreshing, resolves, clicks>> /\ popupTask' = [p \in Popups |-> None]
    BY <1>9 DEF WorkerStops
  <2>2. ASSUME NEW q \in Requests
        PROVE  /\ view'[q].riskLevel = view[q].riskLevel /\ view'[q].of = view[q].of
               /\ popupTask[q] = None => view'[q] = view[q]
    <3>1. view'[q] = IF popupTask[q] # None THEN [view[q] EXCEPT !.page = "stuck"] ELSE view[q]
      BY <1>9 DEF WorkerStops
    <3>2. view[q] \in PageView
      BY <1>1
    <3> QED
      BY <3>1, <3>2 DEF PageView
  <2>3. \A q \in Requests : popupTask'[q] = None
    BY <1>1, <2>1
  <2> QED
    BY <2>1, <2>2, <2>3 DEF PagesStay, Loaded
<1>10. CASE UNCHANGED vars
  BY <1>10, UntouchedPages DEF vars, keyringVars, popupVars
<1> QED
  BY <1>2, <1>3, <1>4, <1>5, <1>6, <1>7, <1>8, <1>9, <1>10 DEF Next, PageStep

(* What a page shows stays what the worker rated, and what the user clicked *)
(* is what a page showed.                                                   *)
LEMMA UserKept ==
    ASSUME TypeOK, \A r \in Requests : HandlerInv(r), UserInv, [Next]_vars
    PROVE  UserInv'
<1>1. ASSUME NEW r \in Requests, Loaded(r),
             view'[r].of = view[r].of, view'[r].riskLevel = view[r].riskLevel
      PROVE  PopupInv(r)'
  <2>1. Asked(r) /\ LevelOf(view[r].of, request[r].id, view[r].riskLevel)
    BY <1>1 DEF UserInv, PopupInv
  <2>2. Asked(r)' /\ request'[r] = request[r]
    BY <2>1, AskedForever
  <2>3. PICK q, id, level :
            q = view[r].of /\ id = request[r].id /\ level = view[r].riskLevel
    OBVIOUS
  <2>4. LevelOf(q, id, level)'
    BY <2>1, <2>3, LevelKept
  <2> QED
    BY <1>1, <2>2, <2>3, <2>4 DEF PopupInv, LevelOf
<1>2. \A m \in resolves : m.approved => Clicked(m.id)'
  BY ClicksGrow DEF UserInv, Clicked
<1>3. ASSUME NEW c \in clicks
      PROVE  ClickInv(c)'
  <2>1. ClickInv(c)
    BY DEF UserInv
  <2>2. LevelOf(c.of, c.id, c.riskLevel)'
    BY <2>1, LevelKept DEF ClickInv
  <2> QED
    BY <2>1, <2>2 DEF ClickInv
<1>4. CASE PagesStay /\ resolves' \subseteq resolves /\ clicks' = clicks
  <2>1. \A r \in Requests : PopupInv(r)'
    BY <1>1, <1>4 DEF PagesStay, PopupInv
  <2> QED
    BY <1>2, <1>3, <1>4, <2>1 DEF UserInv
<1>5. ASSUME NEW r \in Requests, UNCHANGED <<view, refreshing, popupTask>>,
             ClickReject(r) \/ ClickApprove(r)
      PROVE  UserInv'
  <2>1. \A q \in Requests : PopupInv(q)'
    BY <1>1, <1>5, UntouchedPages DEF PagesStay, PopupInv
  <2>2. PICK isApproved \in BOOLEAN :
            Resolve(r, isApproved) /\ (isApproved => ~NeedsOverride(r))
    BY <1>5 DEF ClickReject, ClickApprove
  <2>3. LevelOf(view[r].of, request[r].id, view[r].riskLevel)
    BY <1>5 DEF ClickReject, ClickApprove, Deciding, Loaded, UserInv, PopupInv
  <2> DEFINE click == [id |-> request[r].id, approved |-> isApproved, of |-> view[r].of,
                       riskLevel |-> view[r].riskLevel, override |-> view[r].override]
             message == [id |-> request[r].id, approved |-> isApproved]
  <2>4. /\ click.id = request[r].id /\ click.approved = isApproved
        /\ click.of = view[r].of /\ click.riskLevel = view[r].riskLevel
        /\ click.override = view[r].override
        /\ message.id = request[r].id /\ message.approved = isApproved
    OBVIOUS
  <2>5. clicks' = clicks \cup {click} /\ resolves' = resolves \cup {message}
    BY <2>2 DEF Resolve
  <2> HIDE DEF click, message
  <2>6. ClickInv(click)
    BY <2>2, <2>3, <2>4 DEF ClickInv, NeedsOverride
  <2>7. PICK c : c = click
    OBVIOUS
  <2>8. ClickInv(c)'
    <3>1. LevelOf(c.of, c.id, c.riskLevel)'
      BY <2>6, <2>7, LevelKept DEF ClickInv
    <3> QED
      BY <2>6, <2>7, <3>1 DEF ClickInv
  <2>9. message.approved => Clicked(request[r].id)'
    <3>1. c \in clicks' /\ c.id = request[r].id /\ c.approved = isApproved
      BY <2>4, <2>5, <2>7
    <3>2. request'[r] = request[r]
      BY <2>2 DEF Resolve, workerVars
    <3> QED
      BY <2>4, <3>1, <3>2 DEF Clicked
  <2>10. PICK m : m = message
    OBVIOUS
  <2>11. m.approved => Clicked(m.id)'
    <3>1. request'[r] = request[r]
      BY <2>2 DEF Resolve, workerVars
    <3> QED
      BY <2>4, <2>9, <2>10, <3>1 DEF Clicked
  <2>12. \A n \in resolves' : n.approved => Clicked(n.id)'
    BY <1>2, <2>5, <2>10, <2>11
  <2>13. \A d \in clicks' : ClickInv(d)'
    BY <1>3, <2>5, <2>7, <2>8
  <2> QED
    BY <2>1, <2>12, <2>13 DEF UserInv
<1>6. ASSUME NEW r \in Requests, LoadPage(r)
      PROVE  UserInv'
  <2>1. UNCHANGED <<refreshing, popupTask, resolves, clicks, request, preview, phase>>
    BY <1>6 DEF LoadPage, keyringVars, workerVars
  <2>2. ASSUME NEW q \in Requests, q # r, Loaded(q)'
        PROVE  PopupInv(q)'
    <3>1. view'[q] = view[q]
      BY <1>6, <2>2 DEF LoadPage, TypeOK
    <3> QED
      BY <1>1, <2>1, <2>2, <3>1 DEF Loaded
  <2>3. Asked(r)
    BY <1>6 DEF LoadPage, HandlerInv, Asked
  <2>4. ASSUME NEW q \in Entry(request[r].id),
               view' = [view EXCEPT ![r] = [page |-> PageNow, of |-> q,
                                            riskLevel |-> preview[q].riskLevel,
                                            override |-> FALSE]]
        PROVE  PopupInv(r)'
    <3>1. q \in Requests /\ q \in pending /\ request[q].id = request[r].id
      BY DEF Entry, TypeOK
    <3>2. Asked(q)
      BY <3>1 DEF HandlerInv, Asked, Early
    <3>3. view'[r].of = q /\ view'[r].riskLevel = preview[q].riskLevel
      BY <2>4 DEF TypeOK
    <3> QED
      BY <2>1, <2>3, <3>1, <3>2, <3>3 DEF PopupInv, LevelOf, Asked
  <2>5. ASSUME view' = [view EXCEPT ![r].page = "expired"], Loaded(r)'
        PROVE  PopupInv(r)'
    <3>1. view'[r] = [view[r] EXCEPT !.page = "expired"] /\ view[r] \in PageView
      BY <2>5 DEF TypeOK
    <3>2. /\ view'[r].page = "expired" /\ view'[r].of = view[r].of
          /\ view'[r].riskLevel = view[r].riskLevel
      BY <3>1 DEF PageView
    <3>3. Loaded(r)
      BY <2>1, <2>5, <3>2 DEF Loaded
    <3> QED
      BY <1>1, <3>2, <3>3
  <2>6. PopupInv(r)'
    BY <1>6, <2>4, <2>5 DEF LoadPage, PopupInv
  <2>7. \A q \in Requests : PopupInv(q)'
    BY <2>2, <2>6 DEF PopupInv
  <2> QED
    BY <1>2, <1>3, <2>1, <2>7 DEF UserInv
<1> QED
  BY <1>4, <1>5, <1>6, PopupSteps

\* Every step keeps the types of windows, pages, messages and clicks.
LEMMA PopupTypesKept ==
    ASSUME TypeOK, \A r \in Requests : HandlerInv(r), UserInv, [Next]_vars
    PROVE  PopupTypes'
<1>1. PopupTypes /\ WorkerTypes
  BY TypeParts
<1>2. ASSUME UNCHANGED popupVars
      PROVE  PopupTypes'
  BY <1>1, <1>2 DEF popupVars, PopupTypes
<1>3. ASSUME NEW r \in Requests, NEW w \in {"opening", "open", "closed"},
             window' = [window EXCEPT ![r] = w],
             UNCHANGED <<view, refreshing, resolves, clicks>>
      PROVE  PopupTypes'
  BY <1>1, <1>3 DEF PopupTypes
<1>4. ASSUME NEW r \in Requests, NEW body \in WalletRequests, Receive(r, body)
      PROVE  PopupTypes'
  <2>1. window' = [window EXCEPT ![r] = "opening"] \/ window' = window
    BY <1>4 DEF Receive, RequestApproval
  <2> QED
    BY <1>2, <1>3, <1>4, <2>1 DEF Receive, popupVars
<1>5. ASSUME NEW r \in Requests, HandlerStep(r)
      PROVE  PopupTypes'
  <2>1. window' = [window EXCEPT ![r] = "opening"] \/ window' = window
    BY <1>5 DEF HandlerStep, CheckConnect, ListAccounts, GrantRead, GrantWrite, Simulate,
                SimulateFails, Judge, Sign, Submit, Submitted, SubmitFails,
                RequestApproval, popupVars
  <2>2. UNCHANGED <<view, refreshing, resolves, clicks>>
    BY <1>5, HandlersLeavePages
  <2> QED
    BY <1>2, <1>3, <2>1, <2>2 DEF popupVars
<1>6. ASSUME NEW r \in Requests, WindowOpens(r) \/ WindowFails(r) \/ CloseWindow(r)
      PROVE  PopupTypes'
  BY <1>3, <1>6 DEF WindowOpens, WindowFails, CloseWindow
<1>7. ASSUME NEW r \in Requests, LoadPage(r)
      PROVE  PopupTypes'
  <2>1. ASSUME NEW q \in Entry(request[r].id)
        PROVE  [page |-> PageNow, of |-> q, riskLevel |-> preview[q].riskLevel,
                override |-> FALSE] \in PageView
    <3>1. preview[q] \in PendingPreview /\ q \in Requests
      BY <1>1, <2>1 DEF Entry, HandlerInv, WorkerTypes
    <3>2. PageNow \in Pages
      BY DEF PageNow, Pages
    <3> QED
      BY <3>1, <3>2 DEF PendingPreview, PageView
  <2>2. [view[r] EXCEPT !.page = "expired"] \in PageView
    BY <1>1 DEF PopupTypes, PageView, Pages
  <2>3. view' \in [Requests -> PageView]
    <3>1. ASSUME NEW q \in Entry(request[r].id),
                 view' = [view EXCEPT ![r] = [page |-> PageNow, of |-> q,
                                              riskLevel |-> preview[q].riskLevel,
                                              override |-> FALSE]]
          PROVE  view' \in [Requests -> PageView]
      BY <1>1, <2>1, <3>1 DEF PopupTypes
    <3>2. ASSUME view' = [view EXCEPT ![r].page = "expired"]
          PROVE  view' \in [Requests -> PageView]
      <4>1. view' = [view EXCEPT ![r] = [view[r] EXCEPT !.page = "expired"]]
        BY <1>1, <3>2 DEF PopupTypes
      <4> QED
        BY <1>1, <2>2, <4>1 DEF PopupTypes
    <3> QED
      BY <1>7, <3>1, <3>2 DEF LoadPage
  <2> QED
    BY <1>1, <1>7, <2>3 DEF LoadPage, PopupTypes
<1>8. ASSUME NEW r \in Requests, RefreshPage(r)
      PROVE  PopupTypes'
  <2>1. [view[r] EXCEPT !.page = PageNow] \in PageView
    BY <1>1 DEF PopupTypes, PageView, PageNow, Pages
  <2>2. view' = [view EXCEPT ![r] = [view[r] EXCEPT !.page = PageNow]]
    BY <1>1, <1>8 DEF RefreshPage, PopupTypes
  <2> QED
    BY <1>1, <1>8, <2>1, <2>2 DEF RefreshPage, PopupTypes
<1>9. ASSUME NEW r \in Requests, ClickReject(r) \/ ClickApprove(r)
      PROVE  PopupTypes'
  <2>1. PICK isApproved \in BOOLEAN : Resolve(r, isApproved)
    BY <1>9 DEF ClickReject, ClickApprove
  <2>2. view[r].of \in Requests /\ view[r].page = "decide" /\ Asked(r)
    BY <1>9 DEF ClickReject, ClickApprove, Deciding, Loaded, UserInv, PopupInv, LevelOf
  <2>3. request[r].id \in Ids
    BY <2>2, RequestTypes DEF Asked, Early
  <2>4. [id |-> request[r].id, approved |-> isApproved, of |-> view[r].of,
         riskLevel |-> view[r].riskLevel, override |-> view[r].override] \in Click
    BY <1>1, <2>2, <2>3 DEF PopupTypes, PageView, Click
  <2>5. [id |-> request[r].id, approved |-> isApproved] \in [id : Ids, approved : BOOLEAN]
    BY <2>3
  <2>6. /\ resolves' = resolves \cup {[id |-> request[r].id, approved |-> isApproved]}
        /\ clicks' = clicks \cup
              {[id |-> request[r].id, approved |-> isApproved, of |-> view[r].of,
                riskLevel |-> view[r].riskLevel, override |-> view[r].override]}
        /\ UNCHANGED <<window, view, refreshing>>
    BY <2>1 DEF Resolve
  <2> QED
    BY <1>1, <2>4, <2>5, <2>6 DEF PopupTypes
<1>10. ASSUME NEW r \in Requests, ClickOverride(r)
       PROVE  PopupTypes'
  <2>1. [view[r] EXCEPT !.override = TRUE] \in PageView
    BY <1>1 DEF PopupTypes, PageView
  <2>2. view' = [view EXCEPT ![r] = [view[r] EXCEPT !.override = TRUE]]
    BY <1>1, <1>10 DEF ClickOverride, PopupTypes
  <2> QED
    BY <1>1, <1>10, <2>1, <2>2 DEF ClickOverride, PopupTypes
<1>11. ASSUME NEW m \in resolves, ReceiveResolve(m)
       PROVE  PopupTypes'
  BY <1>1, <1>11 DEF ReceiveResolve, PopupTypes
<1>12. ASSUME NEW p \in Popups, StartTask(p) \/ TaskStep(p)
       PROVE  PopupTypes'
  BY <1>2, <1>12 DEF StartTask, TaskStep
<1>13. ASSUME NEW p \in Popups, TaskEnds(p)
       PROVE  PopupTypes'
  <2>1. refreshing' \subseteq Requests
    BY <1>1, <1>13, ApprovalAssumption DEF TaskEnds, PopupTypes
  <2> QED
    BY <1>1, <1>13, <2>1 DEF TaskEnds, PopupTypes
<1>14. CASE WorkerStops
  <2>1. \A r \in Requests : [view[r] EXCEPT !.page = "stuck"] \in PageView
    BY <1>1 DEF PopupTypes, PageView, Pages
  <2>2. view' \in [Requests -> PageView]
    BY <1>1, <1>14, <2>1 DEF WorkerStops, PopupTypes
  <2>3. window' \in [Requests -> {"none", "opening", "adrift", "open", "closed"}]
    BY <1>1, <1>14 DEF WorkerStops, PopupTypes
  <2> QED
    BY <1>1, <1>14, <2>2, <2>3 DEF WorkerStops, PopupTypes
<1>15. CASE UNCHANGED vars
  BY <1>2, <1>15 DEF vars
<1> QED
  BY <1>4, <1>5, <1>6, <1>7, <1>8, <1>9, <1>10, <1>11, <1>12, <1>13, <1>14, <1>15
  DEF Next, PageStep
-----------------------------------------------------------------------------
(* The origins. *)

(* The accounts of an origin change as a handler's approveOrigin or         *)
(* revokeOrigin says, which it was let do.                                  *)
OriginStep ==
    \/ UNCHANGED <<origins, originTask>>
    \/ \E r \in Requests :
        \/ \E o \in Origins, addresses \in SUBSET Accounts :
               SetOrigin(r, o, addresses) /\ (addresses # {} => o \in consented)
        \/ ReadOrigins(r) \/ WriteOrigins(r)
    \/ originTask' = [h \in Handlers |-> None] /\ UNCHANGED origins

\* What a step does to the origins is one of the calls of OriginStep (keyring.ts 139-153).
LEMMA OriginSteps ==
    ASSUME TypeOK, \A r \in Requests : HandlerInv(r), OriginInv, [Next]_vars
    PROVE  OriginStep
<1>1. ASSUME NEW r \in Requests, NEW body \in WalletRequests, Receive(r, body)
      PROVE  OriginStep
  <2>1. body.origin \in Origins /\ {} \in SUBSET Accounts
    BY ApprovalAssumption DEF WalletRequest
  <2>2. SetOrigin(r, body.origin, {}) \/ UNCHANGED keyringVars
    BY <1>1 DEF Receive
  <2>3. CASE SetOrigin(r, body.origin, {})
    BY <2>1, <2>3 DEF OriginStep
  <2> QED
    BY <2>2, <2>3 DEF OriginStep, keyringVars
<1>2. ASSUME NEW r \in Requests, ListAccounts(r)
      PROVE  OriginStep
  <2>1. request[r].origin \in Origins
    BY <1>2, RequestTypes DEF ListAccounts
  <2>2. UnlockedAccounts \in SUBSET Accounts
    BY DEF TypeOK, KeyringTypeOK, UnlockedAccounts
  <2>3. CASE SetOrigin(r, request[r].origin, UnlockedAccounts)
               /\ request[r].method = "connect"
    <3>1. request[r].origin \in consented
      BY <1>2, <2>3 DEF ListAccounts, OriginInv
    <3> QED
      BY <2>1, <2>2, <2>3, <3>1 DEF OriginStep
  <2> QED
    BY <1>2, <2>3 DEF ListAccounts, OriginStep, keyringVars
<1>3. ASSUME NEW r \in Requests, HandlerStep(r), ~ListAccounts(r)
      PROVE  OriginStep
  BY <1>3 DEF HandlerStep, CheckConnect, GrantRead, GrantWrite, Simulate, SimulateFails,
              Judge, Sign, Submit, Submitted, SubmitFails, keyringVars, OriginStep
<1>4. ASSUME NEW r \in Requests, WindowOpens(r) \/ PageStep(r) \/ CloseWindow(r)
      PROVE  UNCHANGED keyringVars
  <2>1. CASE WindowOpens(r) \/ CloseWindow(r)
    BY <2>1 DEF WindowOpens, CloseWindow
  <2>2. CASE PageStep(r)
    BY <2>2 DEF PageStep, WindowFails, LoadPage, RefreshPage, ClickReject, ClickApprove,
                ClickOverride, Resolve
  <2> QED
    BY <1>4, <2>1, <2>2
<1>5. ASSUME NEW m \in resolves, ReceiveResolve(m)
      PROVE  UNCHANGED keyringVars
  BY <1>5 DEF ReceiveResolve
<1>6. ASSUME NEW p \in Popups, StartTask(p) \/ TaskStep(p) \/ TaskEnds(p)
      PROVE  UNCHANGED <<origins, originTask>>
  BY <1>6 DEF StartTask, TaskStep, TaskEnds, Adopt, Unlock, Lock, ReadLocal, WriteLocal,
              Decrypted, ReadSession, WriteSession
<1>7. CASE WorkerStops
  BY <1>7 DEF WorkerStops, OriginStep
<1>8. CASE UNCHANGED vars
  BY <1>8 DEF vars, keyringVars, OriginStep
<1> QED
  BY <1>1, <1>2, <1>3, <1>4, <1>5, <1>6, <1>7, <1>8 DEF Next, OriginStep, keyringVars

(* A handler lists the accounts for a connect only for an origin that may.  *)
LEMMA ListingKept ==
    ASSUME TypeOK, \A r \in Requests : HandlerInv(r), UserInv, OriginInv, [Next]_vars,
           NEW r \in Requests, phase'[r] = "listing", request'[r].method = "connect"
    PROVE  request'[r].origin \in consented'
<1>1. WorkerTypes /\ consented \subseteq consented'
  BY TypeParts, ClicksGrow
<1>2. ASSUME Same(r)
      PROVE  request'[r].origin \in consented'
  BY <1>1, <1>2 DEF Same, OriginInv
<1>3. CASE QuietStep
  BY <1>2, <1>3 DEF QuietStep, Same
<1>4. ASSUME NEW q \in Requests, MoveOf(q), q # r
      PROVE  request'[r].origin \in consented'
  BY <1>2, <1>4, OtherHandlers
<1>5. CASE MoveOf(r)
  <2>1. ASSUME NEW body \in WalletRequests, Receive(r, body)
        PROVE  FALSE
    <3>1. request'[r] = body
      BY <1>1, <2>1 DEF Receive, WorkerTypes
    <3>2. Goto(r, "checking")
      BY <2>1, <3>1 DEF Receive
    <3> QED
      BY <1>1, <3>2 DEF Goto, WorkerTypes
  <2>2. CASE CheckConnect(r)
    <3>1. Goto(r, "awaiting") \/ origins[request[r].origin] # {}
      BY <2>2 DEF CheckConnect, RequestApproval
    <3>2. origins[request[r].origin] # {}
      BY <1>1, <3>1 DEF Goto, WorkerTypes
    <3>3. request[r].origin \in Origins
      BY <2>2, RequestTypes DEF CheckConnect
    <3> QED
      BY <1>1, <2>2, <3>2, <3>3 DEF CheckConnect, OriginInv, Allowed
  <2>3. CASE HandlerStep(r) /\ ~CheckConnect(r) /\ ~GrantRead(r)
    <3>1. PICK p \in {"granting", "answered", "judging", "awaiting", "submitting", "submitted"} :
              Goto(r, p)
      BY <2>3 DEF HandlerStep, ListAccounts, GrantWrite, Simulate, SimulateFails, Judge,
                  Sign, Submit, Submitted, SubmitFails, RequestApproval, Answer
    <3> QED
      BY <1>1, <3>1 DEF Goto, WorkerTypes
  <2>4. ASSUME NEW isApproved \in BOOLEAN, Settle(r, isApproved), request' = request
        PROVE  request'[r].origin \in consented'
    <3>1. \/ Goto(r, "answered") \/ Goto(r, "signing")
          \/ consented' = consented \cup {request[r].origin}
      BY <2>4 DEF Settle, Answer
    <3> QED
      BY <1>1, <2>4, <3>1 DEF Goto, WorkerTypes
  <2> QED
    BY <1>5, <2>1, <2>2, <2>3, <2>4 DEF MoveOf
<1>6. CASE WorkerStops
  BY <1>1, <1>6 DEF WorkerStops, OriginInv
<1> QED
  BY <1>3, <1>4, <1>5, <1>6, Steps

\* Origins on disk and in read-modify-write calls stay among those that were consented to.
LEMMA OriginsKept ==
    ASSUME TypeOK, \A r \in Requests : HandlerInv(r), UserInv, OriginInv, [Next]_vars
    PROVE  OriginInv'
<1>1. /\ consented \subseteq consented' /\ Handlers = Requests
      /\ origins \in OriginMap /\ originTask \in [Handlers -> OriginTask \cup {None}]
  BY ClicksGrow, ApprovalAssumption DEF TypeOK, KeyringTypeOK
<1> DEFINE MayBe(map) == \A o \in Origins : map[o] # {} => o \in consented'
           Writes(task) == /\ MayBe(task.map)
                           /\ task.addresses # {} => task.origin \in consented'
<1>2. MayBe(origins) /\ MayBe(NoOrigins)
  BY <1>1 DEF OriginInv, Allowed, NoOrigins
<1>3. \A h \in Requests : originTask[h] # None => Writes(originTask[h])
  BY <1>1 DEF OriginInv, Allowed
<1>4. MayBe(origins') /\ \A h \in Requests : originTask'[h] # None => Writes(originTask'[h])
  <2>1. CASE UNCHANGED <<origins, originTask>>
    BY <1>2, <1>3, <2>1
  <2>2. ASSUME NEW r \in Requests, NEW o \in Origins, NEW addresses \in SUBSET Accounts,
               SetOrigin(r, o, addresses), addresses # {} => o \in consented
        PROVE  MayBe(origins')
               /\ \A h \in Requests : originTask'[h] # None => Writes(originTask'[h])
    <3> DEFINE task == [step |-> "reading", origin |-> o, addresses |-> addresses,
                        map |-> NoOrigins]
    <3>1. Writes(task)
      BY <1>1, <1>2, <2>2
    <3>2. origins' = origins /\ originTask' = [originTask EXCEPT ![r] = task]
      BY <2>2 DEF SetOrigin
    <3> HIDE DEF Writes, MayBe, task
    <3> QED
      BY <1>1, <1>2, <1>3, <3>1, <3>2
  <2>3. ASSUME NEW r \in Requests, ReadOrigins(r)
        PROVE  MayBe(origins')
               /\ \A h \in Requests : originTask'[h] # None => Writes(originTask'[h])
    <3>1. originTask[r] \in OriginTask /\ originTask[r] # None
      BY <1>1, <2>3 DEF ReadOrigins
    <3> DEFINE task == [originTask[r] EXCEPT !.step = "writing", !.map = origins]
    <3>2. /\ task.map = origins /\ task.addresses = originTask[r].addresses
          /\ task.origin = originTask[r].origin
      BY <3>1 DEF OriginTask
    <3>3. origins' = origins /\ originTask' = [originTask EXCEPT ![r] = task]
      BY <1>1, <2>3 DEF ReadOrigins
    <3> HIDE DEF task
    <3>4. Writes(task)
      BY <1>2, <1>3, <3>1, <3>2
    <3> HIDE DEF Writes, MayBe
    <3> QED
      BY <1>1, <1>2, <1>3, <3>3, <3>4
  <2>4. ASSUME NEW r \in Requests, WriteOrigins(r)
        PROVE  MayBe(origins')
               /\ \A h \in Requests : originTask'[h] # None => Writes(originTask'[h])
    <3>1. originTask[r] \in OriginTask /\ originTask[r] # None /\ Writes(originTask[r])
      BY <1>1, <1>3, <2>4 DEF WriteOrigins
    <3>2. origins' = [originTask[r].map EXCEPT
                          ![originTask[r].origin] = originTask[r].addresses]
      BY <2>4 DEF WriteOrigins
    <3>3. originTask[r].map \in OriginMap
      BY <3>1 DEF OriginTask
    <3>4. MayBe(origins')
      BY <3>1, <3>2, <3>3 DEF OriginMap
    <3>5. originTask' = [originTask EXCEPT ![r] = None]
      BY <2>4 DEF WriteOrigins
    <3> HIDE DEF Writes, MayBe
    <3> QED
      BY <1>1, <1>3, <3>4, <3>5
  <2>5. CASE originTask' = [h \in Handlers |-> None] /\ UNCHANGED origins
    BY <1>1, <1>2, <2>5
  <2> QED
    BY <2>1, <2>2, <2>3, <2>4, <2>5, OriginSteps DEF OriginStep
<1> QED
  BY <1>4, ListingKept DEF OriginInv, Allowed

\* What is consented to is an origin.
LEMMA ConsentedAreOrigins ==
    ASSUME TypeOK, \A r \in Requests : HandlerInv(r), UserInv, [Next]_vars
    PROVE  consented' \subseteq Origins
<1>1. consented \subseteq Origins
  BY DEF TypeOK
<1>2. ASSUME NEW r \in Requests, r \in pending, NEW isApproved, Settle(r, isApproved)
      PROVE  consented' \subseteq Origins
  <2>1. request[r].origin \in Origins
    BY <1>2, RequestTypes DEF HandlerInv
  <2> QED
    BY <1>1, <1>2, <2>1 DEF Settle
<1>3. ASSUME NEW m \in resolves, ReceiveResolve(m)
      PROVE  consented' \subseteq Origins
  <2>1. \A q \in Entry(m.id) : q \in pending /\ q \in Requests
    BY DEF Entry, TypeOK
  <2> QED
    BY <1>1, <1>2, <1>3, <2>1 DEF ReceiveResolve, Unsettled
<1>4. ASSUME NEW r \in Requests, CloseWindow(r)
      PROVE  consented' \subseteq Origins
  <2>1. pending \subseteq Requests
    BY DEF TypeOK
  <2> QED
    BY <1>1, <1>2, <1>4, <2>1 DEF CloseWindow, Unsettled
<1>5. ASSUME NEW r \in Requests,
             (\E body \in WalletRequests : Receive(r, body)) \/ HandlerStep(r)
      PROVE  consented' = consented
  BY <1>5 DEF Receive, HandlerStep, CheckConnect, ListAccounts, GrantRead, GrantWrite,
              Simulate, SimulateFails, Judge, Sign, Submit, Submitted, SubmitFails
<1>6. ASSUME NEW r \in Requests, WindowOpens(r) \/ PageStep(r)
      PROVE  consented' = consented
  BY <1>6 DEF WindowOpens, PageStep, WindowFails, LoadPage, RefreshPage, ClickReject,
              ClickApprove, ClickOverride, Resolve
<1>7. ASSUME NEW p \in Popups, StartTask(p) \/ TaskStep(p) \/ TaskEnds(p)
      PROVE  consented' = consented
  BY <1>7 DEF StartTask, TaskStep, TaskEnds
<1>8. CASE WorkerStops \/ UNCHANGED vars
  BY <1>1, <1>8 DEF WorkerStops, vars
<1> QED
  BY <1>1, <1>3, <1>4, <1>5, <1>6, <1>7, <1>8 DEF Next
-----------------------------------------------------------------------------
(* The hard floor. *)

Drains(r) == Balance > 0 /\ 10 * sends[r] >= 9 * Balance

DrainInv(r) ==
    /\ phase[r] = "judging" /\ Drains(r) => rules[r] = "critical"
    /\ preview[r] # None /\ Transacts(r) /\ Drains(r) => preview[r].riskLevel = "critical"

(* Nine tenths of a balance are 9000 basis points of it, also when rounded. *)
LEMMA DrainIsCritical ==
    ASSUME Balance > 0, NEW summary \in SimSummary, 10 * summary.netOut >= 9 * Balance
    PROVE  AssessTransaction(summary, Balance) = "critical"
<1>1. summary.netOut \in Nat /\ Balance \in Nat
  BY ApprovalAssumption DEF SimSummary
<1>2. summary.netOut > 0
  BY <1>1
<1> DEFINE bps == OutflowBps(summary.netOut, Balance)
<1>3. bps \in Int /\ bps >= 9000
  <2>1. summary.netOut * 10000 >= 9000 * Balance
    BY <1>1
  <2>2. \A n, b \in Nat : b > 0 /\ n >= 9000 * b => (n \div b) \in Int /\ (n \div b) >= 9000
    OBVIOUS
  <2>3. summary.netOut * 10000 \in Nat
    BY <1>1
  <2> QED
    BY <1>1, <2>1, <2>2, <2>3 DEF OutflowBps
<1>4. "critical" \in Findings(summary, Balance)
  BY <1>1, <1>2, <1>3 DEF Findings
<1> QED
  BY <1>4 DEF AssessTransaction

\* A drain whose balance was fetched keeps the level critical in its preview from the rules on.
LEMMA DrainsKept ==
    ASSUME BalanceMayFail = FALSE,
           TypeOK, \A r \in Requests : HandlerInv(r), UserInv, [Next]_vars,
           NEW r \in Requests, DrainInv(r)
    PROVE  DrainInv(r)'
<1>1. WorkerTypes
  BY TypeParts
<1>2. ASSUME Same(r)
      PROVE  DrainInv(r)'
  BY <1>2 DEF Same, DrainInv, Drains, Transacts
<1>3. ASSUME UNCHANGED <<request, sends, preview>>, phase'[r] # "judging"
      PROVE  DrainInv(r)'
  BY <1>3 DEF DrainInv, Drains, Transacts
<1>4. ASSUME NEW body \in WalletRequests, Receive(r, body)
      PROVE  DrainInv(r)'
  <2>1. phase[r] = "idle" /\ preview[r] = None /\ request'[r] = body
    BY <1>1, <1>4 DEF Receive, HandlerInv, Early, WorkerTypes
  <2>2. \E p \in Phases \ {"judging"} : Goto(r, p)
    BY <1>4 DEF Receive, RequestApproval, Phases
  <2>3. phase'[r] # "judging"
    BY <1>1, <2>2 DEF Goto, WorkerTypes
  <2>4. preview' = preview \/ body.method = "signPersonalMessage"
               \/ body.method \notin {"connect", "getAccounts", "disconnect",
                                      "signPersonalMessage"}
    BY <1>4 DEF Receive
  <2>5. body.method \notin {"connect", "getAccounts", "disconnect", "signPersonalMessage"}
            => preview' = preview
    BY <1>4 DEF Receive
  <2>6. preview'[r] # None => body.method = "signPersonalMessage"
    BY <2>1, <2>4, <2>5
  <2> QED
    BY <2>1, <2>3, <2>6 DEF DrainInv, Transacts
<1>5. CASE CheckConnect(r)
  <2>1. request[r].method = "connect" /\ request' = request
    BY <1>5 DEF CheckConnect, HandlerInv
  <2>2. \E p \in {"awaiting", "listing"} : Goto(r, p)
    BY <1>5 DEF CheckConnect, RequestApproval
  <2>3. phase'[r] # "judging"
    BY <1>1, <2>2 DEF Goto, WorkerTypes
  <2> QED
    BY <2>1, <2>3 DEF DrainInv, Transacts
<1>6. ASSUME NEW summary \in Summaries, Simulate(r, summary)
      PROVE  DrainInv(r)'
  <2>1. preview'[r] = None
    BY <1>6 DEF Simulate, HandlerInv, Early
  <2>2. /\ rules' = [rules EXCEPT ![r] = AssessTransaction(summary, Balance)]
        /\ sends' = [sends EXCEPT ![r] = summary.netOut]
    BY <1>6 DEF Simulate
  <2>3. rules'[r] = AssessTransaction(summary, Balance) /\ sends'[r] = summary.netOut
    BY <1>1, <2>2 DEF WorkerTypes
  <2>4. Drains(r)' => rules'[r] = "critical"
    BY <2>3, DrainIsCritical, ApprovalAssumption DEF Drains
  <2> QED
    BY <2>1, <2>4 DEF DrainInv
<1>7. ASSUME NEW ai \in Verdicts \cup {None}, Judge(r, ai)
      PROVE  DrainInv(r)'
  <2> DEFINE level == IF ai = None THEN rules[r] ELSE MergeRiskLevel(rules[r], ai)
  <2>1. /\ phase[r] = "judging" /\ UNCHANGED <<request, sends>>
        /\ RequestApproval(r, request[r].id, level)
    BY <1>7 DEF Judge
  <2>2. phase'[r] = "awaiting" /\ preview'[r] = [riskLevel |-> level]
    BY <1>1, <2>1 DEF RequestApproval, Goto, WorkerTypes
  <2>3. rules[r] = "critical" => level = "critical"
    <3>1. ai # None => ai \in {"low", "medium", "high", "critical"}
      BY ApprovalAssumption DEF RiskLevels
    <3>2. ai # None => RANK[ai] <= 3 /\ RANK["critical"] = 3 /\ RANK[ai] \in Nat
      BY <3>1 DEF RANK
    <3> QED
      BY <3>2 DEF MergeRiskLevel
  <2> HIDE DEF level
  <2> QED
    BY <2>1, <2>2, <2>3 DEF DrainInv, Drains, Transacts
<1>8. CASE ListAccounts(r) \/ GrantWrite(r) \/ SimulateFails(r) \/ Sign(r) \/ Submit(r)
               \/ Submitted(r) \/ SubmitFails(r)
  <2>1. \E p \in {"granting", "answered", "submitting", "submitted"} : Goto(r, p)
    BY <1>8 DEF ListAccounts, GrantWrite, SimulateFails, Sign, Submit, Submitted,
                SubmitFails, Answer
  <2>2. phase'[r] # "judging"
    BY <1>1, <2>1 DEF Goto, WorkerTypes
  <2>3. UNCHANGED <<request, sends, preview>>
    BY <1>8 DEF ListAccounts, GrantWrite, SimulateFails, Sign, Submit, Submitted, SubmitFails
  <2> QED
    BY <1>3, <2>2, <2>3
<1>9. ASSUME NEW isApproved \in BOOLEAN, Settle(r, isApproved),
             UNCHANGED <<request, sends, preview>>
      PROVE  DrainInv(r)'
  <2>1. \E p \in {"answered", "signing", "listing"} : Goto(r, p)
    BY <1>9 DEF Settle, Answer
  <2>2. phase'[r] # "judging"
    BY <1>1, <2>1 DEF Goto, WorkerTypes
  <2> QED
    BY <1>3, <1>9, <2>2
<1>10. CASE MoveOf(r)
  BY <1>4, <1>5, <1>6, <1>7, <1>8, <1>9, <1>10 DEF MoveOf, HandlerStep
<1>11. ASSUME NEW q \in Requests, MoveOf(q), q # r
       PROVE  DrainInv(r)'
  BY <1>2, <1>11, OtherHandlers
<1>12. CASE QuietStep
  BY <1>2, <1>12 DEF QuietStep, Same
<1>13. CASE WorkerStops
  <2>1. phase'[r] = IF phase[r] \notin {"idle", "answered"} THEN "answered" ELSE phase[r]
    BY <1>13 DEF WorkerStops, InFlight
  <2> QED
    BY <1>3, <1>13, <2>1 DEF WorkerStops
<1> QED
  BY <1>10, <1>11, <1>12, <1>13, Steps
-----------------------------------------------------------------------------
\* The inductive invariant holds initially.
LEMMA FlowInitially == Init => FlowInv
<1> SUFFICES ASSUME Init
             PROVE  FlowInv
  OBVIOUS
<1>1. KeyringTypeOK
  BY DEF Init, KeyringInit, KeyringTypeOK, OriginMap, NoOrigins
<1>2. WorkerTypes /\ executed \subseteq signature /\ consented \subseteq Origins
  BY DEF Init, WorkerTypes, InWindows, Phases
<1>3. PopupTypes
  BY DEF Init, PopupTypes, PageView, Pages, NoPage
<1>4. TypeOK
  BY <1>1, <1>2, <1>3, TypeParts
<1>5. ASSUME NEW r \in Requests
      PROVE  HandlerInv(r) /\ PopupInv(r)
  <2>1. HandlerInv(r)
    BY DEF Init, HandlerInv, Early
  <2>2. popupTask[r] = None
    BY ApprovalAssumption DEF Init, KeyringInit
  <2>3. PopupInv(r)
    BY <2>2 DEF Init, PopupInv, Loaded, NoPage
  <2> QED
    BY <2>1, <2>3
<1>6. OriginInv
  BY ApprovalAssumption DEF Init, KeyringInit, OriginInv, Allowed, NoOrigins
<1>7. UserInv
  BY <1>5 DEF Init, UserInv
<1> QED
  BY <1>4, <1>5, <1>6, <1>7 DEF FlowInv

\* Every step keeps the inductive invariant.
LEMMA FlowInvKept == FlowInv /\ [Next]_vars => FlowInv'
<1> SUFFICES ASSUME FlowInv, [Next]_vars
             PROVE  FlowInv'
  OBVIOUS
<1>1. /\ TypeOK /\ UserInv /\ OriginInv
      /\ \A r \in Requests : HandlerInv(r)
  BY DEF FlowInv
<1>2. KeyringTypeOK'
  BY <1>1, KeyringSteps, KeyringTypesKept DEF TypeOK
<1>3. TypeOK'
  BY <1>1, <1>2, HandlersKept, PopupTypesKept, ConsentedAreOrigins, TypeParts
<1> QED
  BY <1>1, <1>3, HandlersKept, UserKept, OriginsKept DEF FlowInv

\* The inductive invariant holds in every reachable state.
LEMMA FlowInvHolds == Spec => []FlowInv
  BY FlowInitially, FlowInvKept, PTL DEF Spec

(* The variables of the worker, the keyring and the popups keep their types. *)
THEOREM TypeCorrect == Spec => []TypeOK
<1>1. FlowInv => TypeOK
  BY DEF FlowInv
<1> QED
  BY <1>1, FlowInvHolds, PTL

(* Nothing is signed that the user has not approved on a page of its id,    *)
(* and where no other request carries the id, on the page that showed this  *)
(* request and its level (background.ts:96-175, popup.tsx).                 *)
THEOREM AlwaysConsented == Spec => []ConsentBeforeSignature
<1>1. FlowInv => ConsentBeforeSignature
  <2> SUFFICES ASSUME FlowInv, NEW r \in signature
               PROVE  /\ \E c \in clicks :
                             /\ c.id = request[r].id /\ c.approved
                             /\ c.riskLevel = "critical" => c.override
                             /\ Unshared(r) =>
                                    c.of = r /\ c.riskLevel = preview[r].riskLevel
                      /\ Posted(r)
    BY DEF ConsentBeforeSignature, Posted
  <2>1. r \in Requests
    BY DEF FlowInv, TypeOK
  <2>2. Consent(r) /\ Posted(r)
    BY <2>1 DEF FlowInv, HandlerInv
  <2>3. PICK c \in clicks : c.id = request[r].id /\ c.approved
    BY <2>2 DEF Consent, Clicked
  <2>4. ClickInv(c)
    BY DEF FlowInv, UserInv
  <2>5. /\ c.of \in Requests /\ request[c.of].id = request[r].id
        /\ request[c.of] # None /\ c.riskLevel = preview[c.of].riskLevel
    BY <2>3, <2>4 DEF ClickInv, LevelOf, Asked, Early, FlowInv, HandlerInv
  <2>6. Unshared(r) => c.of = r
    BY <2>5 DEF Unshared
  <2>7. c.riskLevel = "critical" => c.override
    BY <2>3, <2>4 DEF ClickInv
  <2> QED
    BY <2>2, <2>3, <2>5, <2>6, <2>7
<1> QED
  BY <1>1, FlowInvHolds, PTL

(* A decision is final, and a rejected request is never signed.             *)
THEOREM AlwaysDecidedOnce == Spec => DecidedOnce
<1> DEFINE Final == \A r \in Requests : approved[r] # None =>
                        /\ approved'[r] = approved[r]
                        /\ approved[r] = FALSE => r \notin signature'
<1>1. FlowInv /\ [Next]_vars => [Final]_vars
  <2> SUFFICES ASSUME FlowInv, [Next]_vars, NEW r \in Requests, approved[r] # None
               PROVE  /\ approved'[r] = approved[r]
                      /\ approved[r] = FALSE => r \notin signature'
    BY DEF Final
  <2>1. /\ TypeOK /\ UserInv
        /\ \A q \in Requests : HandlerInv(q)
    BY DEF FlowInv
  <2>2. HandlerInv(r)'
    BY <2>1, HandlersKept
  <2>3. approved'[r] = approved[r]
    <3>1. CASE QuietStep \/ WorkerStops
      BY <3>1 DEF QuietStep, WorkerStops
    <3>2. ASSUME NEW q \in Requests, MoveOf(q), q # r
          PROVE  approved'[r] = approved[r]
      BY <2>1, <3>2, OtherHandlers DEF Same
    <3>3. CASE MoveOf(r)
      <4>1. r \notin pending
        BY <2>1 DEF HandlerInv
      <4> QED
        BY <3>3, <4>1 DEF MoveOf, Receive, HandlerStep, CheckConnect, ListAccounts,
              GrantWrite, Simulate, SimulateFails, Judge, Sign, Submit, Submitted,
              SubmitFails
    <3> QED
      BY <2>1, <3>1, <3>2, <3>3, Steps
  <2> QED
    BY <2>2, <2>3 DEF HandlerInv
<1> QED
  BY <1>1, FlowInvHolds, PTL DEF Spec, DecidedOnce

(* An origin sees accounts only if the user once let it connect.            *)
THEOREM OriginsAlwaysConsented == Spec => []OriginConsented
<1>1. FlowInv => OriginConsented
  BY DEF FlowInv, OriginInv, Allowed, OriginConsented
<1> QED
  BY <1>1, FlowInvHolds, PTL

(* While the balance can be read, a transaction that sends nine tenths of   *)
(* it is shown as critical, whatever the judge answers (ai-risk.ts:30).     *)
THEOREM DrainAlwaysShown == BalanceMayFail = FALSE /\ Spec => []DrainShownCritical
<1> SUFFICES ASSUME BalanceMayFail = FALSE
             PROVE  Spec => []DrainShownCritical
  OBVIOUS
<1> DEFINE Inv == FlowInv /\ \A r \in Requests : DrainInv(r)
<1>1. Init => Inv
  <2>1. ASSUME Init, NEW r \in Requests
        PROVE  phase[r] = "idle" /\ preview[r] = None
    BY <2>1 DEF Init
  <2> QED
    BY <2>1, FlowInitially DEF DrainInv
<1>2. Inv /\ [Next]_vars => Inv'
  <2>1. FlowInv /\ [Next]_vars => FlowInv'
    BY FlowInvKept
  <2>2. ASSUME Inv, [Next]_vars, NEW r \in Requests
        PROVE  DrainInv(r)'
    BY <2>2, DrainsKept DEF FlowInv
  <2> QED
    BY <2>1, <2>2
<1>3. Inv => DrainShownCritical
  BY DEF DrainInv, Drains, DrainShownCritical
<1> QED
  BY <1>1, <1>2, <1>3, PTL DEF Spec

(* However the calls of popups and handlers interleave, no account is lost  *)
(* that is unlocked or that a popup was told is set up, but one written     *)
(* while another set-up had read the accounts and not yet written them      *)
(* (keyring.ts:42-63).                                                      *)
THEOREM AccountsAlwaysBacked == Spec => []AccountsBacked
<1> DEFINE Inv == FlowInv /\ BackedInv
<1>1. Init => Inv
  BY FlowInitially, BackedInitially
<1>2. Inv /\ [Next]_vars => Inv'
  <2>1. FlowInv /\ [Next]_vars => FlowInv'
    BY FlowInvKept
  <2>2. FlowInv /\ [Next]_vars => KeyringStep /\ KeyringTypeOK
    BY KeyringSteps DEF FlowInv, TypeOK
  <2> QED
    BY <2>1, <2>2, BackedKept
<1>3. Inv => AccountsBacked
  BY DEF BackedInv, OnDisk, AccountsBacked
<1> QED
  BY <1>1, <1>2, <1>3, PTL DEF Spec
-----------------------------------------------------------------------------
(***************************************************************************)
(* The dApp's page in front of the extension, for any number of pages,      *)
(* requests and reloads.                                                    *)
(*                                                                         *)
(* The page adds nothing to the extension: a behaviour of the two together, *)
(* looked at without the page's variables, is one of ApprovalFlow, so that  *)
(* what is proved of the extension holds behind every page.  The accounts a *)
(* page lists came in an answer, and an answer holds accounts only of what  *)
(* was unlocked, hence stored, and, to a connect, only after consent        *)
(* (GivenInv).                                                              *)
(***************************************************************************)

PageTypes ==
    /\ promise \in [Requests -> Promises]
    /\ posted \in [Requests -> WalletRequests \cup {None}]
    /\ leaves \in 0..MaxLeaves

\* The variables of the pages have their types at the start and after every step.
LEMMA PageTypesKept ==
    /\ ProviderInit => PageTypes
    /\ PageTypes /\ [ProviderNext]_providerVars => PageTypes'
<1>1. ProviderInit => PageTypes
  BY LeavesAssumption DEF ProviderInit, PageTypes, Promises
<1>2. ASSUME PageTypes, [ProviderNext]_providerVars
      PROVE  PageTypes'
  <2>1. ASSUME NEW r \in Requests, NEW body \in WalletRequests, PostRequest(r, body)
        PROVE  PageTypes'
    BY <1>2, <2>1 DEF PostRequest, PageTypes, Promises
  <2>2. ASSUME NEW r \in Requests, ForwardRequest(r)
        PROVE  PageTypes'
    BY <1>2, <2>2 DEF ForwardRequest, PageTypes
  <2>3. ASSUME NEW r \in Requests, ResponseArrives(r)
        PROVE  PageTypes'
    BY <1>2, <2>3 DEF ResponseArrives, PageTypes, Promises
  <2>4. ASSUME NEW o \in Origins, LeavePage(o)
        PROVE  PageTypes'
    <3>1. promise' \in [Requests -> Promises] /\ posted' \in [Requests -> WalletRequests \cup {None}]
      BY <1>2, <2>4 DEF LeavePage, PageTypes, Promises
    <3>2. leaves' \in 0..MaxLeaves
      BY <1>2, <2>4, LeavesAssumption DEF LeavePage, PageTypes
    <3> QED
      BY <3>1, <3>2 DEF PageTypes
  <2>5. CASE FlowStep \/ UNCHANGED providerVars
    BY <1>2, <2>5 DEF FlowStep, providerVars, pageVars, PageTypes
  <2> QED
    BY <1>2, <2>1, <2>2, <2>3, <2>4, <2>5 DEF ProviderNext
<1> QED
  BY <1>1, <1>2

\* A step of pages and worker is a step of the worker, or changes nothing of it.
LEMMA ProviderSteps ==
    ASSUME PageTypes, [ProviderNext]_providerVars
    PROVE  [Next]_vars
<1>1. ASSUME NEW r \in Requests, ForwardRequest(r)
      PROVE  Next
  <2>1. posted[r] \in WalletRequests /\ Receive(r, posted[r])
    BY <1>1 DEF ForwardRequest, PageTypes
  <2> QED
    BY <2>1 DEF Next
<1>2. CASE FlowStep
  BY <1>2 DEF FlowStep, Next
<1>3. ASSUME NEW r \in Requests,
             (\E body \in WalletRequests : PostRequest(r, body)) \/ ResponseArrives(r)
      PROVE  UNCHANGED vars
  BY <1>3 DEF PostRequest, ResponseArrives
<1>4. ASSUME NEW o \in Origins, LeavePage(o)
      PROVE  UNCHANGED vars
  BY <1>4 DEF LeavePage
<1>5. CASE UNCHANGED providerVars
  BY <1>5 DEF providerVars
<1> QED
  BY <1>1, <1>2, <1>3, <1>4, <1>5 DEF ProviderNext

(* What a page posts, when it posts it, and that it is left or reloaded      *)
(* lets the extension do nothing it does not do by itself: pages and worker  *)
(* together implement ApprovalFlow, whose properties therefore hold of them  *)
(* (inpage.ts:35-53, content.ts:28-38, background.ts:96-175).                *)
THEOREM ProviderImplementsFlow == ProviderSpec => Spec
<1>1. ProviderInit => Init
  BY DEF ProviderInit
<1> QED
  BY <1>1, PageTypesKept, ProviderSteps, PTL DEF ProviderSpec, Spec
-----------------------------------------------------------------------------
(* The accounts of the pages. *)

(* What a handler has answered, or is about to.                             *)
GivenInv(r) ==
    /\ given[r] \subseteq Accounts /\ OnDisk(stored, given[r] \ raced)
    /\ phase[r] = "idle" => given[r] = {}
    /\ request[r].method = "connect" /\ given[r] # {} => request[r].origin \in consented

(* A promise is resolved once its request was answered.                     *)
PromiseInv(r) ==
    /\ promise[r] = "none" => phase[r] = "idle" /\ posted[r] = None
    /\ posted[r] # None => promise[r] = "pending" /\ phase[r] = "idle"
    /\ promise[r] = "resolved" => phase[r] = "answered"

Connected(o, r) ==
    promise[r] = "resolved" /\ request[r].origin = o /\ request[r].method = "connect"

ShownInv(o) ==
    accounts[o] # {} =>
        /\ o \in consented /\ OnDisk(stored, accounts[o] \ raced)
        /\ \E r \in Requests : Connected(o, r) /\ accounts[o] = given[r]

AccountsInv ==
    /\ FlowInv /\ BackedInv /\ PageTypes
    /\ given \in [Requests -> SUBSET Accounts]
    /\ accounts \in [Origins -> SUBSET Accounts]
    /\ \A r \in Requests : GivenInv(r)
    /\ \A r \in Requests : PromiseInv(r)
    /\ \A o \in Origins : ShownInv(o)

\* Consent to an origin is not taken back, and only the listing of accounts gives any.
LEMMA GivenSteps ==
    ASSUME FlowInv, given \in [Requests -> SUBSET Accounts], [Next]_vars
    PROVE  /\ consented \subseteq consented'
           /\ given' = given \/ \E r \in Requests : ListAccounts(r)
<1>1. ASSUME NEW r \in Requests, HandlerStep(r), ~ListAccounts(r)
      PROVE  consented \subseteq consented' /\ given' = given
  BY <1>1 DEF HandlerStep, CheckConnect, GrantRead, GrantWrite, Simulate, SimulateFails,
              Judge, Sign, Submit, Submitted, SubmitFails, workerVars
<1>2. ASSUME NEW r \in Requests, ListAccounts(r)
      PROVE  consented' = consented
  BY <1>2 DEF ListAccounts
<1>3. ASSUME NEW r \in Requests, NEW body \in WalletRequests, Receive(r, body)
      PROVE  consented' = consented /\ given' = given
  BY <1>3 DEF Receive
<1>4. ASSUME NEW r \in Requests, WindowOpens(r) \/ PageStep(r)
      PROVE  consented' = consented /\ given' = given
  BY <1>4 DEF WindowOpens, PageStep, WindowFails, LoadPage, RefreshPage, ClickReject,
              ClickApprove, ClickOverride, Resolve, workerVars
<1>5. ASSUME NEW r \in Requests, CloseWindow(r)
      PROVE  consented \subseteq consented' /\ given' = given
  BY <1>5 DEF CloseWindow, Settle, Unsettled
<1>6. ASSUME NEW m \in resolves, ReceiveResolve(m)
      PROVE  consented \subseteq consented' /\ given' = given
  BY <1>6 DEF ReceiveResolve, Settle, Unsettled
<1>7. ASSUME NEW p \in Popups, StartTask(p) \/ TaskStep(p) \/ TaskEnds(p)
      PROVE  consented' = consented /\ given' = given
  BY <1>7 DEF StartTask, TaskStep, TaskEnds, workerVars
<1>8. CASE WorkerStops \/ UNCHANGED vars
  BY <1>8 DEF WorkerStops, vars, workerVars
<1> QED
  BY <1>1, <1>2, <1>3, <1>4, <1>5, <1>6, <1>7, <1>8 DEF Next

\* A request keeps its body once it was received, and is then never idle again.
LEMMA RequestsKept ==
    ASSUME FlowInv, [Next]_vars, NEW r \in Requests
    PROVE  /\ phase[r] # "idle" => request'[r] = request[r]
           /\ phase'[r] = "idle" => phase[r] = "idle"
<1>1. /\ TypeOK /\ WorkerTypes /\ UserInv
      /\ \A q \in Requests : HandlerInv(q)
  BY TypeParts DEF FlowInv
<1>2. CASE QuietStep \/ WorkerStops
  BY <1>2 DEF QuietStep, WorkerStops, InFlight
<1>3. ASSUME NEW q \in Requests, MoveOf(q), q # r
      PROVE  request'[r] = request[r] /\ phase'[r] = phase[r]
  BY <1>1, <1>3, OtherHandlers DEF Same
<1>4. ASSUME NEW body \in WalletRequests, Receive(r, body)
      PROVE  phase[r] = "idle"
  BY <1>4 DEF Receive
<1>5. CASE \/ HandlerStep(r) /\ ~GrantRead(r)
           \/ \E isApproved \in BOOLEAN : Settle(r, isApproved) /\ UNCHANGED request
  <2>1. request' = request
    BY <1>5 DEF HandlerStep, CheckConnect, ListAccounts, GrantWrite, Simulate, SimulateFails,
                Judge, Sign, Submit, Submitted, SubmitFails
  <2>2. \E p \in Phases \ {"idle"} : Goto(r, p)
    BY <1>5 DEF HandlerStep, CheckConnect, ListAccounts, GrantWrite, Simulate, SimulateFails,
                Judge, Sign, Submit, Submitted, SubmitFails, Settle, Answer, RequestApproval,
                Phases
  <2> QED
    BY <1>1, <2>1, <2>2 DEF Goto, WorkerTypes
<1>6. CASE MoveOf(r)
  BY <1>4, <1>5, <1>6 DEF MoveOf
<1> QED
  BY <1>1, <1>2, <1>3, <1>6, Steps

\* An answer, and what it holds, stays as it is.
LEMMA AnswersStay ==
    ASSUME FlowInv, given \in [Requests -> SUBSET Accounts], [Next]_vars,
           NEW r \in Requests, phase[r] = "answered"
    PROVE  phase'[r] = "answered" /\ request'[r] = request[r] /\ given'[r] = given[r]
<1>1. /\ TypeOK /\ UserInv
      /\ \A q \in Requests : HandlerInv(q)
  BY DEF FlowInv
<1>2. ASSUME QuietStep \/ WorkerStops
      PROVE  phase'[r] = "answered"
  BY <1>2 DEF QuietStep, WorkerStops, InFlight
<1>3. ASSUME NEW q \in Requests, MoveOf(q), q # r
      PROVE  phase'[r] = "answered"
  BY <1>1, <1>3, OtherHandlers DEF Same
<1>4. ASSUME MoveOf(r)
      PROVE  phase'[r] = "answered"
  <2>1. r \notin pending
    BY <1>1 DEF HandlerInv
  <2> QED
    BY <1>4, <2>1 DEF MoveOf, Receive, HandlerStep, CheckConnect, ListAccounts,
          GrantWrite, Simulate, SimulateFails, Judge, Sign, Submit, Submitted, SubmitFails
<1>5. phase'[r] = "answered"
  BY <1>1, <1>2, <1>3, <1>4, Steps
<1>6. ASSUME NEW q \in Requests, ListAccounts(q)
      PROVE  given'[r] = given[r]
  BY <1>6 DEF ListAccounts
<1> QED
  BY <1>5, <1>6, RequestsKept, GivenSteps

\* A request that has not reached the worker is idle there.
LEMMA IdleStays ==
    ASSUME FlowInv, FlowStep, NEW r \in Requests, phase[r] = "idle"
    PROVE  phase'[r] = "idle"
<1>1. /\ TypeOK /\ UserInv /\ WorkerTypes /\ r \notin pending
      /\ \A q \in Requests : HandlerInv(q)
  BY TypeParts DEF FlowInv, HandlerInv
<1>2. ASSUME NEW q \in Requests, HandlerStep(q)
      PROVE  phase'[r] = "idle"
  <2>1. q # r
    BY <1>2 DEF HandlerStep, CheckConnect, ListAccounts, GrantRead, GrantWrite, Simulate,
                SimulateFails, Judge, Sign, Submit, Submitted, SubmitFails
  <2>2. CASE GrantRead(q)
    BY <2>2 DEF GrantRead, workerVars
  <2>3. CASE ~GrantRead(q)
    <3>1. MoveOf(q)
      BY <1>2, <2>3 DEF MoveOf
    <3> QED
      BY <1>1, <2>1, <3>1, OtherHandlers DEF Same
  <2> QED
    BY <2>2, <2>3
<1>3. ASSUME NEW q \in pending, NEW isApproved, Settle(q, isApproved)
      PROVE  phase'[r] = "idle"
  <2>1. q # r
    BY <1>1
  <2>2. \E p \in {"answered", "signing", "listing"} : Goto(q, p)
    BY <1>3 DEF Settle, Answer
  <2> QED
    BY <1>1, <2>1, <2>2 DEF Goto, WorkerTypes
<1>4. CASE Unsettled
  BY <1>4 DEF Unsettled
<1>5. ASSUME NEW q \in Requests, CloseWindow(q)
      PROVE  phase'[r] = "idle"
  BY <1>3, <1>4, <1>5 DEF CloseWindow
<1>6. ASSUME NEW m \in resolves, ReceiveResolve(m)
      PROVE  phase'[r] = "idle"
  <2>1. \A q \in Entry(m.id) : q \in pending
    BY DEF Entry
  <2> QED
    BY <1>3, <1>4, <1>6, <2>1 DEF ReceiveResolve
<1>7. ASSUME NEW q \in Requests, WindowOpens(q) \/ PageStep(q)
      PROVE  phase'[r] = "idle"
  BY <1>7 DEF WindowOpens, PageStep, WindowFails, LoadPage, RefreshPage, ClickReject,
              ClickApprove, ClickOverride, Resolve, workerVars
<1>8. ASSUME NEW p \in Popups, StartTask(p) \/ TaskStep(p) \/ TaskEnds(p)
      PROVE  phase'[r] = "idle"
  BY <1>8 DEF StartTask, TaskStep, TaskEnds, workerVars
<1>9. CASE WorkerStops
  BY <1>9 DEF WorkerStops, InFlight
<1> QED
  BY <1>2, <1>5, <1>6, <1>7, <1>8, <1>9 DEF FlowStep

\* A step of the extension keeps what answers hold.
LEMMA GivenKept ==
    ASSUME FlowInv, BackedInv, given \in [Requests -> SUBSET Accounts],
           \A r \in Requests : GivenInv(r), [Next]_vars
    PROVE  /\ given' \in [Requests -> SUBSET Accounts]
           /\ \A r \in Requests : GivenInv(r)'
<1>1. /\ raced \subseteq raced'
      /\ \A a \in Accounts \ raced' : stored[a] # None => stored'[a] # None
      /\ consented \subseteq consented'
      /\ stored \in StoredAccounts /\ session \subseteq Accounts
  BY StoredGrows, KeyringSteps, GivenSteps DEF FlowInv, TypeOK, KeyringTypeOK
<1>2. ASSUME NEW r \in Requests, given'[r] = given[r]
      PROVE  GivenInv(r)'
  BY <1>1, <1>2, RequestsKept DEF GivenInv, OnDisk
<1>3. ASSUME NEW r \in Requests, ListAccounts(r)
      PROVE  /\ given' \in [Requests -> SUBSET Accounts]
             /\ \A q \in Requests : GivenInv(q)'
  <2>1. UnlockedAccounts \subseteq Accounts /\ OnDisk(stored, UnlockedAccounts)
    BY <1>1 DEF UnlockedAccounts, OnDisk
  <2>2. PICK some \in SUBSET UnlockedAccounts :
            given' = given \/ given' = [given EXCEPT ![r] = some]
    BY <1>3 DEF ListAccounts
  <2>3. given' \in [Requests -> SUBSET Accounts]
    BY <2>1, <2>2
  <2>4. ASSUME NEW q \in Requests, q # r
        PROVE  GivenInv(q)'
    BY <1>2, <2>2, <2>4
  <2>5. CASE given' = given
    BY <1>2, <2>3, <2>5
  <2>6. CASE given' = [given EXCEPT ![r] = some]
    <3>1. given'[r] = some
      BY <2>6
    <3>2. phase[r] = "listing" /\ request'[r] = request[r] /\ phase'[r] # "idle"
      BY <1>3, RequestsKept DEF ListAccounts
    <3>3. request[r].method = "connect" => request[r].origin \in consented
      BY <3>2 DEF FlowInv, OriginInv
    <3>4. OnDisk(stored', some \ raced')
      BY <1>1, <2>1 DEF OnDisk
    <3>5. GivenInv(r)'
      BY <1>1, <2>1, <3>1, <3>2, <3>3, <3>4 DEF GivenInv
    <3> QED
      BY <2>3, <2>4, <3>5
  <2> QED
    BY <2>2, <2>5, <2>6
<1> QED
  BY <1>2, <1>3, GivenSteps

\* A step of pages and extension keeps what the pages list.
LEMMA ShownKept ==
    ASSUME AccountsInv, [ProviderNext]_providerVars
    PROVE  /\ accounts' \in [Origins -> SUBSET Accounts]
           /\ \A o \in Origins : ShownInv(o)'
<1>1. /\ raced \subseteq raced'
      /\ \A a \in Accounts \ raced' : stored[a] # None => stored'[a] # None
      /\ consented \subseteq consented'
      /\ accounts \in [Origins -> SUBSET Accounts]
      /\ \A o \in Origins : ShownInv(o)
  BY StoredGrows, KeyringSteps, GivenSteps, ProviderSteps
  DEF AccountsInv, FlowInv, TypeOK, KeyringTypeOK
<1>2. /\ FlowInv /\ given \in [Requests -> SUBSET Accounts] /\ [Next]_vars
      /\ \A r \in Requests : PromiseInv(r)
  BY ProviderSteps DEF AccountsInv
<1>3. ASSUME NEW some \in SUBSET Accounts, OnDisk(stored, some \ raced)
      PROVE  OnDisk(stored', some \ raced')
  BY <1>1, <1>3 DEF OnDisk
<1>4. ASSUME NEW r \in Requests, promise[r] = "resolved"
      PROVE  request'[r] = request[r] /\ given'[r] = given[r]
  BY <1>2, <1>4, AnswersStay DEF PromiseInv
<1>5. ASSUME NEW o \in Origins, accounts'[o] = {}
      PROVE  ShownInv(o)'
  BY <1>5 DEF ShownInv
<1>6. ASSUME NEW o \in Origins, accounts'[o] = accounts[o],
             \A r \in Requests : Connected(o, r) => promise'[r] = "resolved"
      PROVE  ShownInv(o)'
  <2> SUFFICES ASSUME accounts[o] # {}
               PROVE  /\ o \in consented' /\ OnDisk(stored', accounts'[o] \ raced')
                      /\ \E r \in Requests : Connected(o, r)' /\ accounts'[o] = given'[r]
    BY <1>6 DEF ShownInv
  <2>1. PICK r \in Requests : Connected(o, r) /\ accounts[o] = given[r]
    BY <1>1 DEF ShownInv
  <2>2. Connected(o, r)' /\ accounts'[o] = given'[r]
    BY <1>4, <1>6, <2>1 DEF Connected
  <2>3. o \in consented' /\ OnDisk(stored', accounts'[o] \ raced')
    BY <1>1, <1>3, <1>6 DEF ShownInv
  <2> QED
    BY <2>2, <2>3
<1>7. ASSUME NEW r \in Requests, ResponseArrives(r)
      PROVE  /\ accounts' \in [Origins -> SUBSET Accounts]
             /\ \A o \in Origins : ShownInv(o)'
  <2>1. /\ GivenInv(r) /\ HandlerInv(r) /\ TypeOK /\ phase[r] # "idle"
        /\ promise[r] = "pending" /\ promise \in [Requests -> Promises]
    BY <1>7 DEF AccountsInv, FlowInv, ResponseArrives, Unanswered, PageTypes
  <2>2. request[r].origin \in Origins
    BY <2>1, RequestTypes
  <2>3. \A q \in Requests : promise[q] = "resolved" => promise'[q] = "resolved"
    BY <1>7, <2>1 DEF ResponseArrives
  <2>4. ASSUME NEW o \in Origins, accounts'[o] = accounts[o]
        PROVE  ShownInv(o)'
    BY <1>6, <2>3, <2>4 DEF Connected
  <2>5. CASE /\ accounts' = [accounts EXCEPT ![request[r].origin] = given[r]]
             /\ request[r].method = "connect" /\ response[r] = "ok"
    <3>1. ASSUME NEW o \in Origins, o = request[r].origin
          PROVE  ShownInv(o)'
      <4>1. accounts'[o] = given[r]
        BY <1>1, <2>5, <3>1
      <4>2. given[r] # {} => o \in consented'
        BY <1>1, <2>1, <2>5, <3>1 DEF GivenInv
      <4>3. OnDisk(stored', given[r] \ raced')
        BY <1>3, <2>1 DEF GivenInv
      <4>4. promise'[r] = "resolved" /\ UNCHANGED <<request, given>>
        BY <1>7, <2>1, <2>5 DEF ResponseArrives, vars, workerVars
      <4>5. Connected(o, r)' /\ accounts'[o] = given'[r]
        BY <2>5, <3>1, <4>1, <4>4 DEF Connected
      <4> QED
        BY <4>1, <4>2, <4>3, <4>5 DEF ShownInv
    <3>2. ASSUME NEW o \in Origins, o # request[r].origin
          PROVE  ShownInv(o)'
      BY <1>1, <2>4, <2>5, <3>2
    <3> QED
      BY <1>1, <2>1, <2>5, <3>1, <3>2 DEF GivenInv
  <2>6. CASE accounts' = [accounts EXCEPT ![request[r].origin] = {}] \/ accounts' = accounts
    BY <1>1, <1>5, <2>4, <2>6
  <2> QED
    BY <1>7, <2>5, <2>6 DEF ResponseArrives, SetAccounts
<1>8. ASSUME NEW p \in Origins, LeavePage(p)
      PROVE  /\ accounts' \in [Origins -> SUBSET Accounts]
             /\ \A o \in Origins : ShownInv(o)'
  <2>1. accounts' = [accounts EXCEPT ![p] = {}]
    BY <1>8 DEF LeavePage
  <2>2. ASSUME NEW o \in Origins, o # p
        PROVE  ShownInv(o)'
    <3>1. ASSUME NEW r \in Requests, Connected(o, r)
          PROVE  promise'[r] = "resolved"
      <4>1. OriginOf(r) = o
        BY <1>2, <3>1 DEF Connected, PromiseInv, OriginOf
      <4> QED
        BY <1>8, <2>2, <3>1, <4>1 DEF LeavePage, Connected
    <3> QED
      BY <1>1, <1>6, <2>1, <2>2, <3>1
  <2> QED
    BY <1>1, <1>5, <2>1, <2>2
<1>9. ASSUME accounts' = accounts,
             \A r \in Requests : promise[r] = "resolved" => promise'[r] = "resolved"
      PROVE  /\ accounts' \in [Origins -> SUBSET Accounts]
             /\ \A o \in Origins : ShownInv(o)'
  BY <1>1, <1>6, <1>9 DEF Connected
<1>10. ASSUME NEW r \in Requests, NEW body \in WalletRequests, PostRequest(r, body)
       PROVE  /\ accounts' \in [Origins -> SUBSET Accounts]
              /\ \A o \in Origins : ShownInv(o)'
  <2>1. \A q \in Requests : promise[q] = "resolved" => promise'[q] = "resolved"
    BY <1>10 DEF PostRequest, AccountsInv, PageTypes
  <2>2. accounts' = accounts
    BY <1>10 DEF PostRequest
  <2> QED
    BY <1>9, <2>1, <2>2
<1>11. CASE FlowStep \/ UNCHANGED providerVars \/ \E r \in Requests : ForwardRequest(r)
  BY <1>9, <1>11 DEF FlowStep, providerVars, pageVars, ForwardRequest
<1> QED
  BY <1>7, <1>8, <1>10, <1>11 DEF ProviderNext

\* A step of pages and extension keeps each promise in step with its request.
LEMMA PromisesKept ==
    ASSUME AccountsInv, [ProviderNext]_providerVars, NEW r \in Requests
    PROVE  PromiseInv(r)'
<1>1. /\ FlowInv /\ given \in [Requests -> SUBSET Accounts] /\ [Next]_vars
      /\ PromiseInv(r) /\ promise \in [Requests -> Promises]
      /\ posted \in [Requests -> WalletRequests \cup {None}]
  BY ProviderSteps DEF AccountsInv, PageTypes
<1>2. phase[r] = "answered" => phase'[r] = "answered"
  BY <1>1, AnswersStay
<1>3. ASSUME NEW q \in Requests, NEW body \in WalletRequests, PostRequest(q, body)
      PROVE  PromiseInv(r)'
  BY <1>1, <1>3 DEF PostRequest, PromiseInv, vars, workerVars
<1>4. ASSUME NEW q \in Requests, ForwardRequest(q)
      PROVE  PromiseInv(r)'
  <2>1. CASE q = r
    BY <1>1, <1>2, <1>4, <2>1 DEF ForwardRequest, PromiseInv
  <2>2. CASE q # r
    <3>1. posted[q] \in WalletRequests /\ Receive(q, posted[q])
      BY <1>1, <1>4 DEF ForwardRequest
    <3>2. MoveOf(q) /\ TypeOK
      BY <1>1, <3>1 DEF MoveOf, FlowInv
    <3>3. phase'[r] = phase[r]
      BY <2>2, <3>2, OtherHandlers DEF Same
    <3> QED
      BY <1>1, <1>4, <2>2, <3>3 DEF ForwardRequest, PromiseInv
  <2> QED
    BY <2>1, <2>2
<1>5. ASSUME NEW q \in Requests, ResponseArrives(q)
      PROVE  PromiseInv(r)'
  BY <1>1, <1>5 DEF ResponseArrives, PromiseInv, Unanswered, vars, workerVars
<1>6. ASSUME NEW o \in Origins, LeavePage(o)
      PROVE  PromiseInv(r)'
  <2>1. phase'[r] = phase[r]
    BY <1>6 DEF LeavePage, vars, workerVars
  <2>2. posted[r] # None /\ promise'[r] # promise[r] => posted'[r] = None
    BY <1>1, <1>6 DEF LeavePage, OriginOf
  <2> QED
    BY <1>1, <1>6, <2>1, <2>2 DEF LeavePage, PromiseInv
<1>7. CASE FlowStep \/ UNCHANGED providerVars
  <2>1. phase[r] = "idle" => phase'[r] = "idle"
    BY <1>1, <1>7, IdleStays DEF providerVars, vars, workerVars
  <2>2. promise' = promise /\ posted' = posted
    BY <1>7 DEF FlowStep, providerVars, pageVars
  <2> QED
    BY <1>1, <1>2, <2>1, <2>2 DEF PromiseInv
<1> QED
  BY <1>3, <1>4, <1>5, <1>6, <1>7 DEF ProviderNext

(* A page lists what a connect of this load of the page was answered, and   *)
(* only if the user let its origin connect: an answer from before a reload, *)
(* a stopped worker and a rejected connect leave no accounts behind         *)
(* (inpage.ts:134-152).                                                     *)
THEOREM AccountsAlwaysGiven == ProviderSpec => []AccountsWereGiven
<1>1. ProviderInit => AccountsInv
  <2> SUFFICES ASSUME ProviderInit
               PROVE  AccountsInv
    OBVIOUS
  <2>1. FlowInv /\ BackedInv /\ PageTypes
    BY FlowInitially, BackedInitially, PageTypesKept DEF ProviderInit
  <2>2. given = [r \in Requests |-> {}] /\ accounts = [o \in Origins |-> {}]
    BY DEF ProviderInit, Init
  <2>3. ASSUME NEW r \in Requests
        PROVE  GivenInv(r)
    BY <2>2 DEF GivenInv, OnDisk
  <2>4. ASSUME NEW r \in Requests
        PROVE  PromiseInv(r)
    BY DEF PromiseInv, ProviderInit, Init
  <2> QED
    BY <2>1, <2>2, <2>3, <2>4 DEF AccountsInv, ShownInv
<1>2. AccountsInv /\ [ProviderNext]_providerVars => AccountsInv'
  <2> SUFFICES ASSUME AccountsInv, [ProviderNext]_providerVars
               PROVE  AccountsInv'
    OBVIOUS
  <2>1. /\ FlowInv /\ BackedInv /\ PageTypes /\ [Next]_vars
        /\ given \in [Requests -> SUBSET Accounts] /\ \A r \in Requests : GivenInv(r)
    BY ProviderSteps DEF AccountsInv
  <2>2. FlowInv' /\ PageTypes'
    BY <2>1, FlowInvKept, PageTypesKept
  <2>3. BackedInv'
    BY <2>1, BackedKept, KeyringSteps DEF FlowInv, TypeOK
  <2> QED
    BY <2>1, <2>2, <2>3, GivenKept, ShownKept, PromisesKept DEF AccountsInv
<1>3. AccountsInv => AccountsWereGiven
  BY DEF AccountsInv, ShownInv, Connected, OnDisk, AccountsWereGiven
<1> QED
  BY <1>1, <1>2, <1>3, PTL DEF ProviderSpec
=============================================================================
