-------------------------- MODULE MCInpageProvider --------------------------
(***************************************************************************)
(* An instance of InpageProvider for TLC: one request of a page, of any     *)
(* method; the user may set two accounts up, in the request's window and in *)
(* the toolbar's popup.                                                     *)
(***************************************************************************)
EXTENDS InpageProvider

CONSTANTS a1, a2, i1, o1, p1, r1, toolbar

RequestsAndToolbar == Requests \cup {toolbar}

AllMethods ==
    {[id |-> i1, method |-> method, origin |-> o1, account |-> a1] : method \in Methods}

(* Nine tenths of the balance: critical, whatever the judge says.           *)
Drain == {[failed |-> FALSE, risk |-> {}, objectsLeaving |-> 0, netOut |-> 9]}
=============================================================================
