----------------------------- MODULE SubAccount -----------------------------
(***************************************************************************)
(* A budget a user sets aside for a dApp: the shared Move object            *)
(* (move/aegis/sources/subaccount.move), and the client's rendering of its  *)
(* rules (app/src/lib/subaccounts.ts), which has to foresee what the chain  *)
(* accepts.                                                                 *)
(***************************************************************************)
EXTENDS Naturals

CONSTANTS
    Dapp, Owner, Others,    \* senders
    Budgets,                \* max_mist
    Expiries,               \* expires_at_ms
    Spends,                 \* amount_mist of a spend
    U64Max,
    MaxTime,                \* bound of the clock
    MaxSpends               \* bound of the spends

ASSUME SubAccountAssumption ==
    /\ U64Max \in Nat /\ MaxTime \in Nat /\ MaxSpends \in Nat
    /\ Budgets \subseteq 0..U64Max /\ Expiries \subseteq 0..U64Max
    /\ Spends \subseteq 0..U64Max

Senders == {Dapp, Owner} \cup Others

VARIABLES
    clock,       \* sui::clock
    sub,         \* the object; dapp and owner are constants
    paid         \* history: the spends, when each was and whether the budget
                 \* was revoked by then

subVars == <<clock, sub, paid>>

SubAccountObject ==
    [created : BOOLEAN, max_mist : 0..U64Max, spent_mist : 0..U64Max,
     expires_at_ms : 0..U64Max, revoked : BOOLEAN]

NoSubAccount ==
    [created |-> FALSE, max_mist |-> 0, spent_mist |-> 0, expires_at_ms |-> 0,
     revoked |-> FALSE]

Init ==
    /\ clock = 0
    /\ sub = NoSubAccount
    /\ paid = [count |-> 0, total |-> 0, last |-> 0, afterRevoke |-> FALSE]
-----------------------------------------------------------------------------
(* create                                                                   *)
Create(maxMist, expiresAtMs) ==
    /\ ~sub.created
    /\ sub' = [NoSubAccount EXCEPT !.created = TRUE, !.max_mist = maxMist,
                                   !.expires_at_ms = expiresAtMs]
    /\ UNCHANGED <<clock, paid>>

(* A wrong budget test, for sensitivity: what was spent is tested, not what *)
(* is then spent.                                                           *)
RecordsSpendUnadded(sender, amount) ==
    /\ sender = Dapp
    /\ ~sub.revoked
    /\ clock <= sub.expires_at_ms
    /\ sub.spent_mist + amount <= U64Max
    /\ sub.spent_mist < sub.max_mist

(* The asserts of record_spend; an addition beyond u64 aborts.              *)
RecordsSpend(sender, amount) ==
    /\ sender = Dapp
    /\ ~sub.revoked
    /\ clock <= sub.expires_at_ms
    /\ sub.spent_mist + amount <= U64Max
    /\ sub.spent_mist + amount <= sub.max_mist

(* record_spend                                                             *)
RecordSpend(sender, amount) ==
    /\ sub.created /\ paid.count < MaxSpends
    /\ RecordsSpend(sender, amount)
    /\ sub' = [sub EXCEPT !.spent_mist = @ + amount]
    /\ paid' = [count |-> paid.count + 1, total |-> paid.total + amount,
                last |-> clock, afterRevoke |-> paid.afterRevoke \/ sub.revoked]
    /\ UNCHANGED clock

(* revoke                                                                   *)
Revoke(sender) ==
    /\ sub.created /\ sender = Owner
    /\ sub' = [sub EXCEPT !.revoked = TRUE]
    /\ UNCHANGED <<clock, paid>>

Tick ==
    /\ clock < MaxTime
    /\ clock' = clock + 1
    /\ UNCHANGED <<sub, paid>>

Next ==
    \/ \E maxMist \in Budgets, expiresAtMs \in Expiries : Create(maxMist, expiresAtMs)
    \/ \E sender \in Senders, amount \in Spends : RecordSpend(sender, amount)
    \/ \E sender \in Senders : Revoke(sender)
    \/ Tick

Spec == Init /\ [][Next]_subVars
-----------------------------------------------------------------------------
(* A wrong client, for sensitivity: the last tick is not one of the budget. *)
ReturnsBeforeExpiry(amount) ==
    /\ ~sub.revoked
    /\ clock < sub.expires_at_ms
    /\ sub.spent_mist + amount <= sub.max_mist

(* recordSubAccountSpend of the client returns instead of throwing: its     *)
(* bigints do not overflow, and it does not ask who spends.  Its times are  *)
(* numbers, exact up to 2^53: the times here stand for such.                *)
RecordSubAccountSpendReturns(amount) ==
    /\ ~sub.revoked
    /\ clock <= sub.expires_at_ms
    /\ sub.spent_mist + amount <= sub.max_mist

(* The variables hold what their declarations say.                          *)
SubAccountTypeOK ==
    /\ clock \in Nat
    /\ sub \in SubAccountObject
    /\ paid \in [count : Nat, total : Nat, last : Nat, afterRevoke : BOOLEAN]

(* All that a dApp ever spent is counted, fits the budget, and was spent    *)
(* before the expiry and before the owner revoked it: no spend near 2^64    *)
(* wraps the counter, none at the last tick slips through (subaccount.move  *)
(* 37-49).                                                                  *)
BudgetKept ==
    /\ paid.total = sub.spent_mist /\ paid.total <= sub.max_mist
    /\ paid.last <= sub.expires_at_ms
    /\ ~paid.afterRevoke

(* The client refuses a spend of the dApp exactly when the chain would      *)
(* abort it, whatever came before, for times up to 2^53 milliseconds        *)
(* (subaccounts.ts:20-38).                                                  *)
ClientForeseesChain ==
    sub.created => \A amount \in Spends :
        RecordsSpend(Dapp, amount) <=> RecordSubAccountSpendReturns(amount)
=============================================================================
