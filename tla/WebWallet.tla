------------------------------- MODULE WebWallet -------------------------------
(* The web wallet's dashboard with its send and stake dialogs                   *)
(* (app/src/components/WalletDashboard.tsx, SendModal.tsx, StakeModal.tsx,       *)
(* lib/send-flow.ts, lib/stake-flow.ts), on the accounts of WalletAccount. A      *)
(* balance, a simulation and an execution are each an await, after which a       *)
(* handler goes on with what it read before. The balances of the chain are       *)
(* constant: a total is wrong only by being that of another account.             *)
EXTENDS WalletAccount, TransactionAnalysis

CONSTANTS
    Balance,        \* what each account has, in a unit of MIST
    Recipients, Validators, Amounts,
    Gas,            \* DEFAULT_SEND_GAS_BUDGET_MIST and DEFAULT_STAKE_GAS_BUDGET_MIST
    MinStake,       \* MIN_STAKE_MIST
    Dashboards,     \* bound: the tabs whose dashboard is followed
    MaxHaste,       \* bound: what a user does in a page before it has settled
    MaxSends        \* bound: transactions signed

ASSUME WalletAssumption ==
    /\ Balance \in [Accounts -> Nat]
    /\ Amounts \subseteq Nat \ {0} /\ Gas \in Nat /\ MinStake \in Nat
    /\ Dashboards \subseteq Tabs /\ MaxHaste \in Nat /\ MaxSends \in Nat

VARIABLES
    suiMist,    \* the account whose balance a dashboard shows, or None
    fetches,    \* accounts whose balance it has asked for
    modal,      \* its dialog, or None
    known,      \* the recipients in localStorage
    sends,      \* signed transactions whose answer a page waits for
    signed,     \* how many were signed
    sentTo,     \* history: the recipients of sends that a page saw succeed
    verdicts,   \* history: what the reviews of the signed transactions were worth
    haste       \* history: how often the user of a page acted before what it awaits
                \* came or after another tab had written, and how often a balance failed

flowVars == <<suiMist, fetches, modal, known, sends, signed, sentTo, verdicts>>
vars == <<accountVars, flowVars, haste>>

Kinds == {"send", "stake"}

\* A send to one of the wallet's own accounts is one to a Recipient that is an Account.
IntentsOf(kind) ==
    [to : IF kind = "send" THEN Recipients ELSE Validators, amount : Amounts]

Fresh(kind) ==
    [kind |-> kind, intent |-> None, phase |-> "form", reviewing |-> None,
     analysis |-> None, sending |-> 0]

Status(t) ==
    IF store[t].accounts = <<>> THEN "empty"
    ELSE IF signer[t] = None THEN "locked" ELSE "unlocked"

Init ==
    /\ AccountInit
    /\ suiMist = [t \in Dashboards |-> None]
    /\ fetches = [t \in Dashboards |-> {}]
    /\ modal = [t \in Dashboards |-> None]
    /\ known = {}
    /\ sends = {}
    /\ signed = 0
    /\ sentTo = {}
    /\ verdicts = {}
    /\ haste = [t \in Dashboards |-> 0]

--------------------------------------------------------------------------------
(* How patient the user is: part of no code, but what some properties suppose.  *)

\* Nothing is under way in t, and t shows what localStorage holds.
Settled(t) ==
    /\ tasks[t] = {} /\ fetches[t] = {} /\ store[t] = disk
    /\ modal[t] = None \/ modal[t].reviewing = None
    /\ \A send \in sends : send.tab # t

Hasty(t) == haste[t] < MaxHaste /\ haste' = [haste EXCEPT ![t] = @ + 1]

Act(t) == IF t \in Dashboards /\ ~Settled(t) THEN Hasty(t) ELSE UNCHANGED haste

Calm(t) == haste[t] = 0

--------------------------------------------------------------------------------
(* What a step of the accounts does to the dashboard of its tab *)

\* Mutation: a balance that is there is not fetched again.
FetchOnce(t) ==
    IF /\ Status(t)' = "unlocked" /\ store'[t].active # None
       /\ suiMist[t] = None
    THEN {store'[t].active} ELSE {}

\* refresh as an effect: it runs when status or activeAddress has changed.
RefreshEffect(t) ==
    IF /\ Status(t)' = "unlocked" /\ store'[t].active # None
       /\ Status(t) # "unlocked" \/ store'[t].active # store[t].active
    THEN {store'[t].active} ELSE {}

\* Another screen unmounts the dialog; sendOpen remains, so that it comes back empty.
Rendered(t) ==
    /\ IF t \in Dashboards
       THEN /\ fetches' = [fetches EXCEPT ![t] = @ \cup RefreshEffect(t)]
            /\ modal' = [modal EXCEPT ![t] = IF @ # None /\ Screen(t)' # "dashboard"
                                             THEN Fresh(@.kind) ELSE @]
       ELSE UNCHANGED <<fetches, modal>>
    /\ UNCHANGED <<suiMist, known, sends, signed, sentTo, verdicts>>

UserOfAccounts(t) ==
    /\ \/ \E a \in Accounts : CreateAccount(t, a) \/ ImportAccount(t, a)
       \/ Unlock(t) \/ RemoveAccount(t) \/ ConfirmBackup(t) \/ Lock(t)
    /\ Rendered(t) /\ Act(t)

KeyDerived(t) ==
    /\ \E task \in tasks[t] :
           AdoptKeypair(t, task) \/ Unlocked(t, task) \/ WrongPassword(t, task)
    /\ Rendered(t) /\ UNCHANGED haste

\* What the page was waiting for is answered to nobody.
ReloadPage(t) ==
    /\ Reload(t)
    /\ IF t \in Dashboards
       THEN /\ suiMist' = [suiMist EXCEPT ![t] = None]
            /\ fetches' = [fetches EXCEPT ![t] = {}]
            /\ modal' = [modal EXCEPT ![t] = None]
            /\ haste' = [haste EXCEPT ![t] = 0]
            /\ sends' = {send \in sends : send.tab # t}
       ELSE UNCHANGED <<suiMist, fetches, modal, haste, sends>>
    /\ UNCHANGED <<known, signed, sentTo, verdicts>>

--------------------------------------------------------------------------------
(* WalletDashboard.tsx: refresh, and opening and closing a dialog *)

RefreshClicked(t) ==
    /\ Screen(t) = "dashboard" /\ store[t].active # None
    /\ fetches' = [fetches EXCEPT ![t] = @ \cup {store[t].active}]
    /\ UNCHANGED <<accountVars, suiMist, modal, known, sends, signed, sentTo, verdicts, haste>>

\* The answer is shown whatever account is active by now.
BalanceArrives(t, a) ==
    /\ a \in fetches[t]
    /\ fetches' = [fetches EXCEPT ![t] = @ \ {a}]
    /\ suiMist' = [suiMist EXCEPT ![t] = a]
    /\ UNCHANGED <<accountVars, modal, known, sends, signed, sentTo, verdicts, haste>>

\* "keep the last known balance"
BalanceFails(t, a) ==
    /\ a \in fetches[t]
    /\ fetches' = [fetches EXCEPT ![t] = @ \ {a}]
    /\ Hasty(t)
    /\ UNCHANGED <<accountVars, suiMist, modal, known, sends, signed, sentTo, verdicts>>

\* The user does something on the dashboard that changes its dialog only.
SetDialog(t, dialog) ==
    /\ modal' = [modal EXCEPT ![t] = dialog]
    /\ Act(t)
    /\ UNCHANGED <<accountVars, suiMist, fetches, known, sends, signed, sentTo, verdicts>>

Open(t, kind) ==
    /\ Screen(t) = "dashboard" /\ suiMist[t] # None /\ modal[t] = None
    /\ SetDialog(t, Fresh(kind))

\* The backdrop and the close button work in every phase, and so does "Done".
Close(t) ==
    /\ Screen(t) = "dashboard" /\ modal[t] # None
    /\ SetDialog(t, None)

--------------------------------------------------------------------------------
(* SendModal.tsx and StakeModal.tsx *)

InPhase(t, phases) ==
    Screen(t) = "dashboard" /\ modal[t] # None /\ modal[t].phase \in phases

\* Mutation: a field is changed under the analysis that is shown.
EditUnderPreview(t, intent) ==
    /\ InPhase(t, {"form", "preview"}) /\ intent \in IntentsOf(modal[t].kind)
    /\ SetDialog(t, [modal[t] EXCEPT !.intent = intent])

\* Both fields stay open while a simulation runs.
Edit(t, intent) ==
    /\ InPhase(t, {"form", "preview"}) /\ intent \in IntentsOf(modal[t].kind)
    /\ SetDialog(t, [modal[t] EXCEPT !.intent = intent, !.phase = "form", !.analysis = None])

\* "Edit" of the preview and "Back" of an error.
BackToForm(t) ==
    /\ InPhase(t, {"preview", "error"})
    /\ SetDialog(t, [modal[t] EXCEPT !.phase = "form"])

Busy(t) == modal[t].reviewing # None \/ modal[t].sending # 0

GetReadiness(kind, balanceMist, amountMist) ==
    IF \/ kind = "stake" /\ amountMist < MinStake
       \/ balanceMist < amountMist + Gas
    THEN "blocked" ELSE "ready"

\* parseIntent and buildIntent: the fields as they are, against the balance shown.
Ready(t) ==
    /\ modal[t].intent # None
    /\ GetReadiness(modal[t].kind, Balance[suiMist[t]], modal[t].intent.amount) = "ready"

\* Of what the dialog was rendered with: its address, its balance and its fields.
Review(t) ==
    /\ InPhase(t, {"form"}) /\ ~Busy(t) /\ Ready(t)
    /\ SetDialog(t, [modal[t] EXCEPT !.reviewing =
           [sender |-> store[t].active, intent |-> modal[t].intent,
            totalOf |-> suiMist[t], known |-> known]])

\* The dry run of such a transaction. A send to oneself costs its gas only.
DryRunOf(kind, review, failed) ==
    LET own == kind = "send" /\ review.intent.to = review.sender
    IN  [failed |-> failed,
         netMist |-> IF own \/ failed THEN -Gas ELSE -(review.intent.amount + Gas),
         recipients |-> IF kind = "stake" \/ own \/ failed THEN {} ELSE {review.intent.to}]

RiskLevel(kind, review, failed) ==
    AnalyzeSimSummary(DryRunOf(kind, review, failed), Balance[review.totalOf], review.known)

\* The answer of the simulation, which the fields may have left behind. One that the
\* sender cannot pay for fails.
Reviewed(t, failed) ==
    /\ modal[t] # None /\ modal[t].reviewing # None
    /\ LET review == modal[t].reviewing
       IN  /\ failed \/ review.intent.amount + Gas <= Balance[review.sender]
           /\ modal' = [modal EXCEPT
                  ![t].reviewing = None, ![t].phase = "preview",
                  ![t].analysis =
                      [sender |-> review.sender, intent |-> review.intent,
                       level |-> RiskLevel(modal[t].kind, review, failed)]]
    /\ UNCHANGED <<accountVars, suiMist, fetches, known, sends, signed, sentTo, verdicts, haste>>

ReviewFails(t) ==
    /\ modal[t] # None /\ modal[t].reviewing # None
    /\ modal' = [modal EXCEPT ![t].reviewing = None]
    /\ UNCHANGED <<accountVars, suiMist, fetches, known, sends, signed, sentTo, verdicts, haste>>

\* What the button of the preview needs.
CanConfirm(t) ==
    /\ InPhase(t, {"preview"}) /\ ~Busy(t)
    /\ modal[t].analysis # None /\ modal[t].analysis.level # "critical"

\* What the analysis that was shown is worth for the transaction that is signed: whether
\* it is of that transaction, and whether the rule on draining kept something back.
Verdict(t) ==
    LET intent == modal[t].intent
        shown == modal[t].analysis
    IN  [calm |-> Calm(t)',
         same |-> shown.sender = signer[t] /\ shown.intent = intent,
         moderate |-> \/ intent.to = signer[t]
                      \/ 10000 * (intent.amount + Gas)
                             < (MaxOutflowBps + 1) * Balance[signer[t]]]

\* confirm: the transaction is of the fields and of the signer, not of the analysis.
Confirm(t) ==
    /\ CanConfirm(t) /\ Ready(t)
    /\ signed < MaxSends
    /\ signed' = signed + 1
    /\ sends' = sends \cup
           {[id |-> signed + 1, tab |-> t, kind |-> modal[t].kind, sender |-> signer[t],
             intent |-> modal[t].intent, active |-> store[t].active]}
    /\ modal' = [modal EXCEPT ![t].phase = "executing", ![t].sending = signed + 1]
    /\ Act(t)
    /\ verdicts' = verdicts \cup {Verdict(t)}
    /\ UNCHANGED <<accountVars, suiMist, fetches, known, sentTo>>

\* The balance shown has changed since the review, and does not suffice.
ConfirmRefused(t) ==
    /\ CanConfirm(t) /\ ~Ready(t)
    /\ SetDialog(t, [modal[t] EXCEPT !.phase = "error"])

\* What the dialog shows of a send, if it is still there.
Outcome(send, phase) ==
    modal' = [modal EXCEPT ![send.tab] =
                  IF @ # None /\ @.sending = send.id
                  THEN [@ EXCEPT !.phase = phase, !.sending = 0] ELSE @]

RecipientsOf(send) == IF send.kind = "send" THEN {send.intent.to} ELSE {}

\* Mutation: the recipient is remembered before the answer is looked at.
RememberThenFail(send) ==
    /\ sends' = sends \ {send}
    /\ known' = known \cup RecipientsOf(send)
    /\ Outcome(send, "error")
    /\ UNCHANGED <<accountVars, suiMist, fetches, signed, sentTo, verdicts, haste>>

\* rememberRecipient, and onComplete: a refresh of the account that was active then.
SendSucceeds(send) ==
    /\ send.intent.amount + Gas <= Balance[send.sender]
    /\ sends' = sends \ {send}
    /\ known' = known \cup RecipientsOf(send)
    /\ sentTo' = sentTo \cup RecipientsOf(send)
    /\ fetches' = [fetches EXCEPT ![send.tab] = @ \cup {send.active}]
    /\ Outcome(send, "done")
    /\ UNCHANGED <<accountVars, suiMist, signed, verdicts, haste>>

\* Effects that say so, or no answer, in which case it may have been executed.
SendFails(send) ==
    /\ sends' = sends \ {send}
    /\ Outcome(send, "error")
    /\ UNCHANGED <<accountVars, suiMist, fetches, known, signed, sentTo, verdicts, haste>>

--------------------------------------------------------------------------------
Next ==
    \/ \E t \in Tabs : UserOfAccounts(t) \/ KeyDerived(t) \/ ReloadPage(t)
    \/ \E t \in Dashboards :
          \/ RefreshClicked(t)
          \/ \E a \in Accounts : BalanceArrives(t, a) \/ BalanceFails(t, a)
          \/ \E kind \in Kinds : Open(t, kind)
          \/ \E kind \in Kinds : \E intent \in IntentsOf(kind) : Edit(t, intent)
          \/ BackToForm(t) \/ Close(t)
          \/ Review(t) \/ \E failed \in BOOLEAN : Reviewed(t, failed)
          \/ ReviewFails(t) \/ Confirm(t) \/ ConfirmRefused(t)
    \/ \E send \in sends : SendSucceeds(send) \/ SendFails(send)

Spec == Init /\ [][Next]_vars

--------------------------------------------------------------------------------
(* Properties *)

Intents == IntentsOf("send") \cup IntentsOf("stake")

ReviewTask ==
    [sender : Accounts, intent : Intents, totalOf : Accounts, known : SUBSET Recipients]

Analysis == [sender : Accounts, intent : Intents, level : {"low", "high", "critical"}]

Dialog ==
    [kind : Kinds, intent : Intents \cup {None},
     phase : {"form", "preview", "executing", "done", "error"},
     reviewing : ReviewTask \cup {None}, analysis : Analysis \cup {None},
     sending : 0 .. MaxSends]

Sent ==
    [id : 1 .. MaxSends, tab : Dashboards, kind : Kinds, sender : Accounts,
     intent : Intents, active : Accounts]

\* The types of the variables.
TypeOK ==
    /\ AccountTypeOK
    /\ suiMist \in [Dashboards -> Accounts \cup {None}]
    /\ fetches \in [Dashboards -> SUBSET Accounts]
    /\ modal \in [Dashboards -> Dialog \cup {None}]
    /\ known \subseteq Recipients /\ sentTo \subseteq Recipients
    /\ sends \subseteq Sent /\ signed \in 0 .. MaxSends
    /\ verdicts \subseteq [calm : BOOLEAN, same : BOOLEAN, moderate : BOOLEAN]
    /\ haste \in [Dashboards -> 0 .. MaxHaste]

\* Whatever other tabs do, a tab whose user waits for each call and acts on what
\* localStorage holds has the key of the account that it shows (wallet-account.tsx 123-232).
SignerIsActive ==
    \A t \in Dashboards : Status(t) = "unlocked" /\ Calm(t) => signer[t] = store[t].active

\* The same user sees the balance of that account once the tab has settled, and never that
\* of one that was locked or forgotten before (WalletDashboard.tsx 116-139).
BalanceIsActives ==
    \A t \in Dashboards :
        Screen(t) = "dashboard" /\ Calm(t) /\ Settled(t) => suiMist[t] = store[t].active

\* Every send and stake of this user was simulated as it is signed, for the account that
\* signs it, and leaves a tenth of what the account has, but for less than the basis point
\* that the rating rounds away (SendModal.tsx 57-118).
SentWasReviewed ==
    \A verdict \in verdicts : verdict.calm => verdict.same /\ verdict.moderate

\* A recipient is spared the warning only because of a send to it that a page saw succeed,
\* and each such recipient is, whichever tab sent (address-book.ts 33-46).
KnownWereSentTo == known = sentTo

\* "Every send and stake is simulated, then risk-scanned ... before you can sign"
\* (WalletDashboard.tsx 82-84).
EverySendReviewed == \A verdict \in verdicts : verdict.same
================================================================================
