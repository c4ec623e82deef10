--------------------------- MODULE InpageProvider ---------------------------
(***************************************************************************)
(* The wallet a dApp's page sees (extension/src/inpage.ts), joined to the   *)
(* background worker of ApprovalFlow by the content script (content.ts).    *)
(* The page posts a request and keeps a promise for it under its id; the    *)
(* content script forwards the request, and the worker's answer, or the     *)
(* failure of the channel, comes back as a message.  A page that is left    *)
(* loses its promises and accounts, and the worker goes on without it.      *)
(* There is one page of each origin.                                        *)
(***************************************************************************)
EXTENDS ApprovalFlow

CONSTANT MaxLeaves      \* bound: how often a page is left or reloaded

ASSUME LeavesAssumption == MaxLeaves \in Nat

VARIABLES
    promise,     \* the map `pending` of the page, and what became of it
    posted,      \* requests on their way to the worker
    accounts,    \* #accounts of each page's wallet
    leaves

pageVars == <<promise, posted, accounts, leaves>>
providerVars == <<vars, pageVars>>

Promises == {"none", "pending", "resolved", "rejected", "lost"}

Unanswered(r) == promise[r] = "pending"

ProviderInit ==
    /\ Init
    /\ promise = [r \in Requests |-> "none"]
    /\ posted = [r \in Requests |-> None]
    /\ accounts = [o \in Origins |-> {}]
    /\ leaves = 0
-----------------------------------------------------------------------------
UsedIds ==
    {posted[q].id : q \in {q \in Requests : posted[q] # None}}
        \cup {request[q].id : q \in {q \in Requests : request[q] # None}}

(* request: the dApp calls a feature of the wallet.  The id is              *)
(* crypto.randomUUID's: none that is in use.                                *)
PostRequest(r, body) ==
    /\ promise[r] = "none"
    /\ body.id \notin UsedIds
    /\ promise' = [promise EXCEPT ![r] = "pending"]
    /\ posted' = [posted EXCEPT ![r] = body]
    /\ UNCHANGED <<vars, accounts, leaves>>

(* The content script sends dapp-request to the worker, which wakes up.     *)
ForwardRequest(r) ==
    /\ posted[r] # None
    /\ Receive(r, posted[r])
    /\ posted' = [posted EXCEPT ![r] = None]
    /\ UNCHANGED <<promise, accounts, leaves>>

(* #connect and #disconnect set the accounts when they are answered.        *)
SetAccounts(r) ==
    CASE request[r].method = "connect" ->
             [accounts EXCEPT ![request[r].origin] = given[r]]
      [] request[r].method = "disconnect" ->
             [accounts EXCEPT ![request[r].origin] = {}]
      [] OTHER -> accounts

(* The reply of the content script settles the promise of its id.           *)
ResponseArrives(r) ==
    /\ phase[r] = "answered" /\ Unanswered(r)
    /\ promise' = [promise EXCEPT ![r] = IF response[r] = "ok" THEN "resolved" ELSE "rejected"]
    /\ accounts' = IF response[r] = "ok" THEN SetAccounts(r) ELSE accounts
    /\ UNCHANGED <<vars, posted, leaves>>

OriginOf(r) == IF posted[r] # None THEN posted[r].origin ELSE request[r].origin

(* The page is left or reloaded: its promises and accounts are gone, and so *)
(* is what it posted and was not forwarded yet.                             *)
LeavePage(o) ==
    /\ leaves < MaxLeaves
    /\ leaves' = leaves + 1
    /\ promise' = [r \in Requests |-> IF promise[r] \in {"pending", "resolved", "rejected"}
                                           /\ OriginOf(r) = o
                                       THEN "lost" ELSE promise[r]]
    /\ posted' = [r \in Requests |-> IF posted[r] # None /\ OriginOf(r) = o THEN None
                                                                           ELSE posted[r]]
    /\ accounts' = [accounts EXCEPT ![o] = {}]
    /\ UNCHANGED vars

(* The worker, the popups and the browser: all steps of ApprovalFlow but    *)
(* the arrival of a request.                                                *)
FlowStep ==
    /\ \/ \E r \in Requests :
             HandlerStep(r) \/ WindowOpens(r) \/ PageStep(r) \/ CloseWindow(r)
       \/ \E m \in resolves : ReceiveResolve(m)
       \/ \E p \in Popups : StartTask(p) \/ TaskStep(p) \/ TaskEnds(p)
       \/ WorkerStops
    /\ UNCHANGED pageVars

ProviderNext ==
    \/ \E r \in Requests :
          \/ \E body \in WalletRequests : PostRequest(r, body)
          \/ ForwardRequest(r)
          \/ ResponseArrives(r)
    \/ \E o \in Origins : LeavePage(o)
    \/ FlowStep

(* Messages between page and worker arrive, the worker and the services get *)
(* on, windows open, and a user does not leave an approval window open for  *)
(* ever.                                                                    *)
ProviderFairness ==
    \A r \in Requests :
        /\ WF_providerVars(ForwardRequest(r))
        /\ WF_providerVars(ResponseArrives(r))
        /\ WF_providerVars(HandlerStep(r) /\ UNCHANGED pageVars)
        /\ WF_providerVars(WindowOpens(r) /\ UNCHANGED pageVars)
        /\ WF_providerVars(CloseWindow(r) /\ UNCHANGED pageVars)

ProviderSpec == ProviderInit /\ [][ProviderNext]_providerVars /\ ProviderFairness
-----------------------------------------------------------------------------
(* No promise of the page hangs: whatever the dApp asks for, and although   *)
(* the worker may be stopped in the middle, the call settles unless the     *)
(* page itself is left (inpage.ts:35-53, content.ts:28-38).                 *)
EveryPromiseSettles == \A r \in Requests : Unanswered(r) ~> ~Unanswered(r)

(* What a page lists is what the worker gave for a connect that this very   *)
(* load of the page asked for and saw resolved, after the user once let its *)
(* origin connect; and the keyring stores it, but for what AccountsBacked   *)
(* leaves out: a stopped worker, a connect the user rejected and an answer  *)
(* to the page before it was reloaded leave nothing (inpage.ts:134-152,     *)
(* background.ts:91-118).                                                   *)
AccountsWereGiven ==
    \A o \in Origins : accounts[o] # {} =>
        /\ o \in consented
        /\ \E r \in Requests : /\ promise[r] = "resolved" /\ request[r].origin = o
                               /\ request[r].method = "connect" /\ accounts[o] = given[r]
        /\ \A a \in accounts[o] \ raced : stored[a] # None
=============================================================================
