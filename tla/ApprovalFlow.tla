---------------------------- MODULE ApprovalFlow ----------------------------
(***************************************************************************)
(* The browser extension between a dApp's request and the answer            *)
(* (extension/src/background.ts, popup.tsx, content.ts, inpage.ts).         *)
(*                                                                         *)
(* A handler of the background service worker serves each request: it       *)
(* awaits a dry run, the AI judge, the user's decision in a popup window of *)
(* its own, and the keyring.  The worker keeps the undecided requests in    *)
(* memory only, and the browser may stop it at any await.  Messages of the  *)
(* popups reach it later, or never.                                         *)
(***************************************************************************)
EXTENDS Keyring, TransactionRisk

CONSTANTS
    Requests,          \* calls of the worker's handler, one for each dapp-request
    Ids,               \* the ids of requests: the page's own choice
    Toolbar,           \* the popup of the toolbar icon
    WalletRequests,    \* the bodies a request may have
    Summaries,         \* what a dry run may report
    Verdicts,          \* levels the AI judge may answer; it may always fail to
    Balance,           \* SUI of the account
    BalanceMayFail,    \* suix_getBalance may fail
    WindowsMayFail,    \* chrome.windows.create may fail
    Adopters,          \* popups in which the user sets up an account
    MaxStops           \* bound: times the browser stops the worker

Methods ==
    {"connect", "getAccounts", "disconnect", "signPersonalMessage",
     "signTransaction", "signAndExecuteTransaction"}

(* type WalletRequest; account matters to the methods that sign.  Id and    *)
(* origin are forwarded as the page gives them.  The provider of inpage.ts  *)
(* never uses an id twice; a page that posts requests of its own may.       *)
WalletRequest == [id : Ids, method : Methods, origin : Origins, account : Accounts]

(* type PendingPreview: the level shown for a transaction, none otherwise.  *)
PendingPreview == [riskLevel : RiskLevels \cup {None}]

(* What the worker reports of a decision.                                   *)
DecisionRecord == [blocked : BOOLEAN, approved : BOOLEAN]

ASSUME ApprovalAssumption ==
    /\ WalletRequests \subseteq WalletRequest
    /\ Popups = Requests \cup {Toolbar} /\ Toolbar \notin Requests
    /\ Handlers = Requests
    /\ Adopters \subseteq Popups
    /\ Summaries \subseteq SimSummary /\ Verdicts \subseteq RiskLevels
    /\ Balance \in Nat /\ MaxStops \in Nat
    /\ {BalanceMayFail, WindowsMayFail} \subseteq BOOLEAN
    /\ None \notin WalletRequest \cup PendingPreview \cup DecisionRecord
    /\ None \notin RiskLevels \cup Requests /\ None \notin BOOLEAN

VARIABLES
    request,     \* the request a handler serves
    phase,       \* the await the handler is at
    rules,       \* the deterministic level of the transaction
    sends,       \* history: the SUI the dry run says the transaction sends
    preview,     \* what the popup will show
    pending,     \* the handlers with an entry in the map `pending`
    windowId,    \* the window an entry holds, by the handler that opened it
    approved,    \* what requestApproval resolved to
    signature,   \* requests a signature was made for
    executed,    \* requests whose transaction was executed on chain
    response,    \* how the dApp was answered
    given,       \* accounts in the answer
    decisions,   \* the records posted to the risk service
    window,      \* each request's popup window
    view,        \* what the page in the window shows
    refreshing,  \* pages that will fetch popup:state again
    resolves,    \* popup:resolve messages on their way
    clicks,      \* history: decisions the user made in a popup
    consented,   \* history: origins the user let connect
    stops        \* times the worker was stopped

workerVars == <<request, phase, rules, sends, preview, approved, signature,
                executed, response, given, decisions>>
pendingVars == <<pending, windowId>>
popupVars == <<window, view, refreshing, resolves, clicks>>

vars == <<keyringVars, workerVars, pendingVars, popupVars, consented, stops>>

Signs(r) ==
    request[r].method \in
        {"signPersonalMessage", "signTransaction", "signAndExecuteTransaction"}

Transacts(r) ==
    request[r].method \in {"signTransaction", "signAndExecuteTransaction"}

InFlight == {r \in Requests : phase[r] \notin {"idle", "answered"}}

(* The entry of the map under an id: there is one at most.                  *)
Entry(id) == {q \in pending : request[q].id = id}

(* No other request carries r's id.                                         *)
Unshared(r) ==
    \A q \in Requests \ {r} : request[q] # None => request[q].id # request[r].id

NoPage == [page |-> "loading", of |-> None, riskLevel |-> None, override |-> FALSE]

Init ==
    /\ KeyringInit
    /\ request = [r \in Requests |-> None]
    /\ phase = [r \in Requests |-> "idle"]
    /\ rules = [r \in Requests |-> None]
    /\ sends = [r \in Requests |-> 0]
    /\ preview = [r \in Requests |-> None]
    /\ pending = {}
    /\ windowId = [r \in Requests |-> None]
    /\ approved = [r \in Requests |-> None]
    /\ signature = {}
    /\ executed = {}
    /\ response = [r \in Requests |-> ""]
    /\ given = [r \in Requests |-> {}]
    /\ decisions = [r \in Requests |-> None]
    /\ window = [r \in Requests |-> "none"]
    /\ view = [r \in Requests |-> NoPage]
    /\ refreshing = {}
    /\ resolves = {}
    /\ clicks = {}
    /\ consented = {}
    /\ stops = 0
-----------------------------------------------------------------------------
(* Steps of a handler that change what it is doing and nothing else.        *)
Goto(r, p) == phase' = [phase EXCEPT ![r] = p]

Answer(r, resp) ==
    /\ Goto(r, "answered")
    /\ response' = [response EXCEPT ![r] = resp]

(* new Promise in requestApproval: the entry, in place of one under the     *)
(* same id, whose handler then waits on; and chrome.windows.create.         *)
RequestApproval(r, id, riskLevel) ==
    /\ Goto(r, "awaiting")
    /\ preview' = [preview EXCEPT ![r] = [riskLevel |-> riskLevel]]
    /\ pending' = (pending \ Entry(id)) \cup {r}
    /\ windowId' = [q \in Requests |-> IF q \in Entry(id) THEN None ELSE windowId[q]]
    /\ window' = [window EXCEPT ![r] = "opening"]

(* dapp-request reaches the worker.                                         *)
Receive(r, body) ==
    /\ phase[r] = "idle"
    /\ request' = [request EXCEPT ![r] = body]
    /\ CASE body.method = "connect" ->
            Goto(r, "checking") /\ UNCHANGED <<preview, pendingVars, window, keyringVars>>
         [] body.method = "getAccounts" ->
            Goto(r, "listing") /\ UNCHANGED <<preview, pendingVars, window, keyringVars>>
         [] body.method = "disconnect" ->
            /\ Goto(r, "granting")
            /\ SetOrigin(r, body.origin, {})
            /\ UNCHANGED <<preview, pendingVars, window>>
         [] body.method = "signPersonalMessage" ->
            RequestApproval(r, body.id, None) /\ UNCHANGED keyringVars
         [] OTHER ->
            Goto(r, "simulating") /\ UNCHANGED <<preview, pendingVars, window, keyringVars>>
    /\ UNCHANGED <<rules, sends, approved, signature, executed, response, given,
                   decisions, view, refreshing, resolves, clicks,
                   consented, stops>>

(* A wrong connect, for sensitivity: an origin is asked about only while    *)
(* nothing is unlocked.                                                     *)
CheckConnectLockOnly(r) ==
    /\ phase[r] = "checking"
    /\ IF ~HasAccounts \/ IsLocked
       THEN RequestApproval(r, request[r].id, None)
       ELSE Goto(r, "listing") /\ UNCHANGED <<preview, pendingVars, window>>
    /\ UNCHANGED <<keyringVars, request, rules, sends, approved, signature, executed,
                   response, given, decisions, view, refreshing, resolves, clicks,
                   consented, stops>>

(* handleConnect: does the user have to be asked?                           *)
CheckConnect(r) ==
    /\ phase[r] = "checking"
    /\ IF ~HasAccounts \/ IsLocked \/ origins[request[r].origin] = {}
       THEN RequestApproval(r, request[r].id, None)
       ELSE Goto(r, "listing") /\ UNCHANGED <<preview, pendingVars, window>>
    /\ UNCHANGED <<keyringVars, request, rules, sends, approved, signature, executed,
                   response, given, decisions, view, refreshing, resolves, clicks,
                   consented, stops>>

(* The accounts that are unlocked; connect allows the origin all of them,   *)
(* getAccounts returns those it was allowed.                                *)
ListAccounts(r) ==
    /\ phase[r] = "listing"
    /\ IF request[r].method = "connect"
       THEN IF UnlockedAccounts = {}
            THEN Answer(r, "No unlocked accounts") /\ UNCHANGED <<given, keyringVars>>
            ELSE /\ Goto(r, "granting")
                 /\ given' = [given EXCEPT ![r] = UnlockedAccounts]
                 /\ SetOrigin(r, request[r].origin, UnlockedAccounts)
                 /\ UNCHANGED response
       ELSE /\ Answer(r, "ok")
            /\ given' = [given EXCEPT ![r] = UnlockedAccounts \cap origins[request[r].origin]]
            /\ UNCHANGED keyringVars
    /\ UNCHANGED <<request, rules, sends, preview, approved, signature, executed,
                   decisions, pendingVars, popupVars, consented, stops>>

(* approveOrigin of connect, revokeOrigin of disconnect.                    *)
GrantRead(r) ==
    /\ phase[r] = "granting"
    /\ ReadOrigins(r)
    /\ UNCHANGED <<workerVars, pendingVars, popupVars, consented, stops>>

GrantWrite(r) ==
    /\ phase[r] = "granting"
    /\ WriteOrigins(r)
    /\ Answer(r, "ok")
    /\ UNCHANGED <<request, rules, sends, preview, approved, signature, executed,
                   given, decisions, pendingVars, popupVars, consented, stops>>

(* handleSign: build, dry run, balance.  A balance that cannot be fetched   *)
(* is unknown to the rules.                                                 *)
Simulate(r, summary) ==
    /\ phase[r] = "simulating"
    /\ Goto(r, "judging")
    /\ \E totalMist \in {Balance} \cup (IF BalanceMayFail THEN {0} ELSE {}) :
        rules' = [rules EXCEPT ![r] = AssessTransaction(summary, totalMist)]
    /\ sends' = [sends EXCEPT ![r] = summary.netOut]
    /\ UNCHANGED <<keyringVars, request, preview, approved, signature, executed,
                   response, given, decisions, pendingVars, popupVars,
                   consented, stops>>

SimulateFails(r) ==
    /\ phase[r] = "simulating"
    /\ Answer(r, "simulation failed")
    /\ UNCHANGED <<keyringVars, request, rules, sends, preview, approved, signature,
                   executed, given, decisions, pendingVars, popupVars,
                   consented, stops>>

(* The judge answers, or fails or takes longer than TIMEOUT_MS: the rules   *)
(* alone then give the level.                                               *)
Judge(r, ai) ==
    /\ phase[r] = "judging"
    /\ RequestApproval(r, request[r].id,
                       IF ai = None THEN rules[r] ELSE MergeRiskLevel(rules[r], ai))
    /\ UNCHANGED <<keyringVars, request, rules, sends, approved, signature, executed,
                   response, given, decisions, view, refreshing, resolves, clicks,
                   consented, stops>>

(* A wrong handleConnect, for sensitivity: it does not look at what the     *)
(* user decided.                                                            *)
SettleConnectAnyway(r, isApproved) ==
    /\ pending' = pending \ {r}
    /\ windowId' = [windowId EXCEPT ![r] = None]
    /\ approved' = [approved EXCEPT ![r] = isApproved]
    /\ decisions' = IF Transacts(r)
                    THEN [decisions EXCEPT ![r] =
                            [blocked |-> preview[r].riskLevel = "critical",
                             approved |-> isApproved]]
                    ELSE decisions
    /\ consented' = IF isApproved /\ ~Signs(r)
                    THEN consented \cup {request[r].origin} ELSE consented
    /\ IF Signs(r) /\ ~isApproved
       THEN Answer(r, "rejected")
       ELSE Goto(r, IF Signs(r) THEN "signing" ELSE "listing") /\ UNCHANGED response

(* The entry is deleted and its promise resolved; the handler runs on to    *)
(* its next await in the same turn.                                         *)
Settle(r, isApproved) ==
    /\ pending' = pending \ {r}
    /\ windowId' = [windowId EXCEPT ![r] = None]
    /\ approved' = [approved EXCEPT ![r] = isApproved]
    /\ decisions' = IF Transacts(r)
                    THEN [decisions EXCEPT ![r] =
                            [blocked |-> preview[r].riskLevel = "critical",
                             approved |-> isApproved]]
                    ELSE decisions
    /\ IF ~isApproved
       THEN Answer(r, "rejected") /\ UNCHANGED consented
       ELSE IF Signs(r)
       THEN Goto(r, "signing") /\ UNCHANGED <<response, consented>>
       ELSE /\ Goto(r, "listing")
            /\ consented' = consented \cup {request[r].origin}
            /\ UNCHANGED response

Unsettled == UNCHANGED <<pendingVars, approved, decisions, phase, response, consented>>

(* A wrong popup:resolve, for sensitivity: settles what is settled.         *)
ReceiveResolveAlways(m) ==
    /\ m \in resolves
    /\ resolves' = resolves \ {m}
    /\ \E q \in Requests : /\ request[q] # None /\ request[q].id = m.id
                           /\ phase[q] \in {"awaiting", "answered"}
                           /\ Settle(q, m.approved)
    /\ UNCHANGED <<keyringVars, request, rules, sends, preview, signature, executed,
                   given, window, view, refreshing, clicks, stops>>

(* popup:resolve reaches the worker: it settles what is pending under its   *)
(* id; with nothing pending there, or no longer, it does nothing.           *)
ReceiveResolve(m) ==
    /\ m \in resolves
    /\ resolves' = resolves \ {m}
    /\ \/ \E q \in Entry(m.id) : Settle(q, m.approved)
       \/ Entry(m.id) = {} /\ Unsettled
    /\ UNCHANGED <<keyringVars, request, rules, sends, preview, signature, executed,
                   given, window, view, refreshing, clicks, stops>>

(* keyring.getSigner and the signature.                                     *)
Sign(r) ==
    /\ phase[r] = "signing"
    /\ IF request[r].account \notin session
       THEN Answer(r, "Wallet is locked") /\ UNCHANGED signature
       ELSE /\ signature' = signature \cup {r}
            /\ IF request[r].method = "signAndExecuteTransaction"
               THEN Goto(r, "submitting") /\ UNCHANGED response
               ELSE Answer(r, "ok")
    /\ UNCHANGED <<keyringVars, request, rules, sends, preview, approved, executed,
                   given, decisions, pendingVars, popupVars, consented, stops>>

(* executeTransactionBlock: the fullnode executes the transaction, and its  *)
(* answer may be lost.                                                      *)
Submit(r) ==
    /\ phase[r] = "submitting"
    /\ Goto(r, "submitted")
    /\ executed' = executed \cup {r}
    /\ UNCHANGED <<keyringVars, request, rules, sends, preview, approved, signature,
                   response, given, decisions, pendingVars, popupVars,
                   consented, stops>>

Submitted(r) ==
    /\ phase[r] = "submitted"
    /\ Answer(r, "ok")
    /\ UNCHANGED <<keyringVars, request, rules, sends, preview, approved, signature,
                   executed, given, decisions, pendingVars, popupVars,
                   consented, stops>>

SubmitFails(r) ==
    /\ phase[r] \in {"submitting", "submitted"}
    /\ Answer(r, "execution failed")
    /\ UNCHANGED <<keyringVars, request, rules, sends, preview, approved, signature,
                   executed, given, decisions, pendingVars, popupVars,
                   consented, stops>>
-----------------------------------------------------------------------------
(* Two wrong forms of what follows, for sensitivity: the id is stored for a *)
(* request that is settled, or for none.                                    *)
WindowOpensUnguarded(r) ==
    /\ window[r] \in {"opening", "adrift"}
    /\ window' = [window EXCEPT ![r] = "open"]
    /\ windowId' = [windowId EXCEPT ![r] = r]
    /\ UNCHANGED <<keyringVars, workerVars, pending, view, refreshing, resolves,
                   clicks, consented, stops>>

WindowOpensUntracked(r) ==
    /\ window[r] \in {"opening", "adrift"}
    /\ window' = [window EXCEPT ![r] = "open"]
    /\ UNCHANGED <<keyringVars, workerVars, pendingVars, view, refreshing, resolves,
                   clicks, consented, stops>>

(* chrome.windows.create resolves; Chrome reports the window's id before    *)
(* anything that happens in it or to it.  The entry now under r's id takes  *)
(* it, unless the worker that opened the window is gone.                    *)
WindowOpens(r) ==
    /\ window[r] \in {"opening", "adrift"}
    /\ window' = [window EXCEPT ![r] = "open"]
    /\ windowId' = [q \in Requests |-> IF /\ window[r] = "opening"
                                          /\ q \in Entry(request[r].id)
                                       THEN r ELSE windowId[q]]
    /\ UNCHANGED <<keyringVars, workerVars, pending, view, refreshing, resolves,
                   clicks, consented, stops>>

(* It rejects: nothing handles that.                                        *)
WindowFails(r) ==
    /\ WindowsMayFail
    /\ window[r] \in {"opening", "adrift"}
    /\ window' = [window EXCEPT ![r] = "closed"]
    /\ UNCHANGED <<keyringVars, workerVars, pendingVars, view, refreshing, resolves,
                   clicks, consented, stops>>

(* A wrong onRemoved, for sensitivity: closing the window approves.         *)
CloseWindowApproves(r) ==
    /\ window[r] = "open"
    /\ window' = [window EXCEPT ![r] = "closed"]
    /\ \/ \E q \in pending : windowId[q] = r /\ Settle(q, TRUE)
       \/ (\A q \in pending : windowId[q] # r) /\ Unsettled
    /\ UNCHANGED <<keyringVars, request, rules, sends, preview, signature, executed,
                   given, view, refreshing, resolves, clicks, stops>>

(* The user, the page itself after its popup:resolve, or windows.remove     *)
(* closes the window; onRemoved rejects what is pending in it.              *)
CloseWindow(r) ==
    /\ window[r] = "open"
    /\ window' = [window EXCEPT ![r] = "closed"]
    /\ \/ \E q \in pending : windowId[q] = r /\ Settle(q, FALSE)
       \/ (\A q \in pending : windowId[q] # r) /\ Unsettled
    /\ UNCHANGED <<keyringVars, request, rules, sends, preview, signature, executed,
                   given, view, refreshing, resolves, clicks, stops>>

(* What popup:state makes the approval page show.                           *)
PageNow == IF ~HasAccounts THEN "onboard" ELSE IF IsLocked THEN "unlock" ELSE "decide"

(* The page fetches popup:get-pending and popup:state: it shows what is      *)
(* pending under its id now.                                                *)
LoadPage(r) ==
    /\ window[r] = "open"
    /\ view[r].page = "loading"
    /\ \/ \E q \in Entry(request[r].id) :
              view' = [view EXCEPT ![r] = [page |-> PageNow, of |-> q,
                                           riskLevel |-> preview[q].riskLevel,
                                           override |-> FALSE]]
       \/ /\ Entry(request[r].id) = {}
          /\ view' = [view EXCEPT ![r].page = "expired"]
    /\ UNCHANGED <<keyringVars, workerVars, pendingVars, window, refreshing, resolves,
                   clicks, consented, stops>>

RefreshPage(r) ==
    /\ window[r] = "open"
    /\ r \in refreshing
    /\ refreshing' = refreshing \ {r}
    /\ view' = [view EXCEPT ![r].page = PageNow]
    /\ UNCHANGED <<keyringVars, workerVars, pendingVars, window, resolves, clicks,
                   consented, stops>>

(* The buttons of an approval page.  Critical risk takes a second click.    *)
Resolve(r, isApproved) ==
    /\ resolves' = resolves \cup {[id |-> request[r].id, approved |-> isApproved]}
    /\ clicks' = clicks \cup {[id |-> request[r].id, approved |-> isApproved,
                               of |-> view[r].of, riskLevel |-> view[r].riskLevel,
                               override |-> view[r].override]}
    /\ UNCHANGED <<keyringVars, workerVars, pendingVars, window, view, refreshing,
                   consented, stops>>

Deciding(r) == window[r] = "open" /\ view[r].page = "decide"

NeedsOverride(r) == view[r].riskLevel = "critical" /\ ~view[r].override

ClickReject(r) == Deciding(r) /\ Resolve(r, FALSE)

ClickApprove(r) == Deciding(r) /\ ~NeedsOverride(r) /\ Resolve(r, TRUE)

ClickOverride(r) ==
    /\ Deciding(r) /\ NeedsOverride(r)
    /\ view' = [view EXCEPT ![r].override = TRUE]
    /\ UNCHANGED <<keyringVars, workerVars, pendingVars, window, refreshing, resolves,
                   clicks, consented, stops>>

(* The set-up, unlock and account pages, in a request's window or in the    *)
(* toolbar's popup.                                                         *)
PageOf(p) ==
    IF p = Toolbar THEN PageNow
    ELSE IF window[p] = "open" /\ p \notin refreshing THEN view[p].page ELSE "none"

StartTask(p) ==
    /\ \/ /\ PageOf(p) = "onboard" /\ p \in Adopters
          /\ \E a \in Accounts, password \in Passwords : Adopt(p, a, password)
       \/ /\ PageOf(p) = "unlock"
          /\ \E password \in Passwords : Unlock(p, password)
       \/ /\ p = Toolbar /\ PageOf(p) = "decide" /\ popupTask[p] = None
          /\ Lock
    /\ UNCHANGED <<workerVars, pendingVars, popupVars, consented, stops>>

TaskStep(p) ==
    /\ ReadLocal(p) \/ WriteLocal(p) \/ Decrypted(p) \/ ReadSession(p)
    /\ UNCHANGED <<workerVars, pendingVars, popupVars, consented, stops>>

(* The task is done: its page fetches popup:state again.                    *)
TaskEnds(p) ==
    /\ WriteSession(p)
    /\ refreshing' = IF p = Toolbar THEN refreshing ELSE refreshing \cup {p}
    /\ UNCHANGED <<workerVars, pendingVars, window, view, resolves, clicks,
                   consented, stops>>

(* The browser stops the worker: its memory and its running calls are gone. *)
(* The content script answers for a channel that closed; a page whose task  *)
(* was running keeps its button disabled.                                   *)
WorkerStops ==
    /\ stops < MaxStops
    /\ stops' = stops + 1
    /\ phase' = [r \in Requests |-> IF r \in InFlight THEN "answered" ELSE phase[r]]
    /\ response' = [r \in Requests |-> IF r \in InFlight THEN "channel closed"
                                                         ELSE response[r]]
    /\ pending' = {}
    /\ windowId' = [r \in Requests |-> None]
    /\ window' = [r \in Requests |-> IF window[r] = "opening" THEN "adrift" ELSE window[r]]
    /\ popupTask' = [p \in Popups |-> None]
    /\ originTask' = [h \in Handlers |-> None]
    /\ view' = [r \in Requests |-> IF popupTask[r] # None
                                   THEN [view[r] EXCEPT !.page = "stuck"] ELSE view[r]]
    /\ UNCHANGED <<stored, session, origins, saved, raced, request, rules, sends, preview,
                   approved, signature, executed, given, decisions,
                   refreshing, resolves, clicks, consented>>
-----------------------------------------------------------------------------
(* What the worker and the services it calls do for one request.            *)
HandlerStep(r) ==
    \/ CheckConnect(r)
    \/ ListAccounts(r)
    \/ GrantRead(r)
    \/ GrantWrite(r)
    \/ \E summary \in Summaries : Simulate(r, summary)
    \/ SimulateFails(r)
    \/ \E ai \in Verdicts \cup {None} : Judge(r, ai)
    \/ Sign(r)
    \/ Submit(r)
    \/ Submitted(r)
    \/ SubmitFails(r)

PageStep(r) ==
    \/ WindowFails(r)
    \/ LoadPage(r)
    \/ RefreshPage(r)
    \/ ClickReject(r)
    \/ ClickApprove(r)
    \/ ClickOverride(r)

Next ==
    \/ \E r \in Requests :
        \/ \E body \in WalletRequests : Receive(r, body)
        \/ HandlerStep(r)
        \/ WindowOpens(r)
        \/ PageStep(r)
        \/ CloseWindow(r)
    \/ \E m \in resolves : ReceiveResolve(m)
    \/ \E p \in Popups : StartTask(p) \/ TaskStep(p) \/ TaskEnds(p)
    \/ WorkerStops

Spec == Init /\ [][Next]_vars
-----------------------------------------------------------------------------
Phases == {"idle", "checking", "simulating", "judging", "awaiting", "listing",
           "granting", "signing", "submitting", "submitted", "answered"}

Pages == {"loading", "expired", "onboard", "unlock", "decide", "stuck"}

(* What a page shows; `of` names, for the history, the request it is of.    *)
PageView == [page : Pages, of : Requests \cup {None},
             riskLevel : RiskLevels \cup {None}, override : BOOLEAN]

Click == [id : Ids, approved : BOOLEAN, of : Requests,
          riskLevel : RiskLevels \cup {None}, override : BOOLEAN]

(* The variables hold what their declarations say.                          *)
TypeOK ==
    /\ KeyringTypeOK
    /\ request \in [Requests -> WalletRequests \cup {None}]
    /\ phase \in [Requests -> Phases]
    /\ rules \in [Requests -> RiskLevels \cup {None}]
    /\ sends \in [Requests -> Nat]
    /\ preview \in [Requests -> PendingPreview \cup {None}]
    /\ pending \subseteq Requests
    /\ windowId \in [Requests -> Requests \cup {None}]
    /\ \A r \in Requests : windowId[r] # None => r \in pending
    /\ approved \in [Requests -> BOOLEAN \cup {None}]
    /\ signature \subseteq Requests /\ executed \subseteq signature
    /\ decisions \in [Requests -> DecisionRecord \cup {None}]
    /\ window \in [Requests -> {"none", "opening", "adrift", "open", "closed"}]
    /\ view \in [Requests -> PageView]
    /\ refreshing \subseteq Requests
    /\ resolves \subseteq [id : Ids, approved : BOOLEAN]
    /\ clicks \subseteq Click
    /\ consented \subseteq Origins

(* A signature is made for a request only after the user approved on a page *)
(* of its id, with the second click if that page showed critical risk: not  *)
(* for a window that was closed, nor for a worker that has been stopped     *)
(* since.  Where no other request carries the id, as with the provider of   *)
(* inpage.ts, the page showed this very request and its level.  For a       *)
(* transaction the approval has been posted to the log by then.             *)
ConsentBeforeSignature ==
    \A r \in signature :
        /\ \E c \in clicks :
              /\ c.id = request[r].id /\ c.approved
              /\ c.riskLevel = "critical" => c.override
              /\ Unshared(r) => c.of = r /\ c.riskLevel = preview[r].riskLevel
        /\ Transacts(r) => decisions[r] # None /\ decisions[r].approved

(* What a request was settled with stays: a second click, a window closed   *)
(* later or a late message does not change it (settlePending, onRemoved).   *)
DecidedOnce ==
    [][\A r \in Requests : approved[r] # None =>
        /\ approved'[r] = approved[r]
        /\ approved[r] = FALSE => r \notin signature']_vars

(* ai-risk.ts:30, the hard floor: a transaction that sends nine tenths of   *)
(* the balance is shown as critical whatever the judge says, or does not.   *)
DrainShownCritical ==
    \A r \in Requests :
        preview[r] # None /\ Transacts(r) /\ Balance > 0 /\ 10 * sends[r] >= 9 * Balance
            => preview[r].riskLevel = "critical"

(* An origin sees accounts only if the user once let it connect, however    *)
(* the connects, disconnects and stops of the worker interleave.            *)
OriginConsented == \A o \in Origins : origins[o] # {} => o \in consented
=============================================================================
