--------------------------- MODULE TimelockedRelease ---------------------------
(* What guardian recovery promises, with no guardian, share or address in it:  *)
(* a secret that nobody gets before a full timelock has passed since a request,*)
(* and a request that starts the wait again from the beginning.                *)
EXTENDS Integers

CONSTANT None  \* "not yet": no timelock agreed, nothing requested

VARIABLES
    lock,       \* how long a request has to wait, None before it is agreed
    remaining,  \* what is left of that wait, None before the first request
    released    \* whether the secret is out

rvars == <<lock, remaining, released>>

ReleaseInit ==
    /\ lock = None
    /\ remaining = None
    /\ released = FALSE

Agree ==
    /\ lock = None
    /\ lock' \in Nat
    /\ UNCHANGED <<remaining, released>>

Request ==
    /\ lock # None
    /\ remaining' = lock
    /\ UNCHANGED <<lock, released>>

Wait ==
    /\ remaining # None
    /\ remaining > 0
    /\ remaining' = remaining - 1
    /\ UNCHANGED <<lock, released>>

Release ==
    /\ remaining = 0
    /\ released' = TRUE
    /\ UNCHANGED <<lock, remaining>>

ReleaseNext == Agree \/ Request \/ Wait \/ Release

ReleaseSpec == ReleaseInit /\ [][ReleaseNext]_rvars
================================================================================
