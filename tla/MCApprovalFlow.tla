-------------------------- MODULE MCApprovalFlow --------------------------
(***************************************************************************)
(* Instances of ApprovalFlow for TLC: two requests, one or two accounts and *)
(* origins.                                                                 *)
(***************************************************************************)
EXTENDS ApprovalFlow, TLC

CONSTANTS a1, a2, i1, i2, o1, o2, p1, p2, r1, r2, toolbar

Symmetry == Permutations(Requests)

RequestsAndToolbar == Requests \cup {toolbar}

Body(id, method, origin) ==
    [id |-> id, method |-> method, origin |-> origin, account |-> a1]

(* Two transactions have the same id here, and so do two messages; a        *)
(* transaction and a message have two.                                      *)
SignatureRequests ==
    {Body(i1, "signAndExecuteTransaction", o1), Body(i2, "signPersonalMessage", o1)}

(* Requests of one origin carry the same id here, of two origins two.       *)
IdOf(origin) == IF origin = o1 THEN i1 ELSE i2

ConnectRequests ==
    {Body(IdOf(o), method, o) : method \in {"connect", "disconnect"}, o \in Origins}

(* A transfer of a third of the balance, and one of nine tenths.            *)
Transfer(netOut) ==
    [failed |-> FALSE, risk |-> {}, objectsLeaving |-> 0, netOut |-> netOut]

SmallTransfer == {Transfer(3)}

Drain == {Transfer(9)}
=============================================================================
