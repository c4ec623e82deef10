----------------------------- MODULE MCMirrors -----------------------------
(* All inputs of a bounded size for Mirrors.                                *)
EXTENDS Mirrors

CONSTANTS user, other, pool, USD

Spelled(who, padded, lower) == [of |-> who, padded |-> padded, lower |-> lower]

Written(who) == Spelled(who, TRUE, TRUE)

SpelledUsers ==
    {Written(user), Spelled(user, TRUE, FALSE), Spelled(user, FALSE, TRUE)}

SmallAmounts == {-2, 0, 1}

Owners == {Written(user), Spelled(user, TRUE, FALSE), Written(other), Written(pool)}

SmallChanges == [owner : Owners, coinType : Coins, amount : Amounts]

(* Bounds: three balance changes of three amounts, so that a first match, a *)
(* sum of several, a change of nothing and a sum above OutflowMax occur.    *)
MaxChanges == 3

Costs == [computationCost |-> 2, storageCost |-> 1, storageRebate |-> 4]

Simulated(failed, balances, objects) ==
    Costs @@ [failed |-> failed, balanceChanges |-> balances, objectChanges |-> objects,
              calls |-> <<>>]

(* Two changes of an object, and at most one payment beside them.           *)
MaxObjects == 2

Holders == {Written(user), Written(other), Written(pool), Nobody}

ObjectChanges ==
    Rendered \cap
    [objectId : Objects, sender : {Spelled(user, TRUE, FALSE), Written(other)},
     change : {"created", "mutated", "transferred", "wrapped", "deleted"},
     inputOwner : Holders, outputOwner : Holders]

Payment == [owner |-> Written(other), coinType |-> USD, amount |-> 1]

PaymentsOnly == BOOLEAN \X BoundedSeq(SmallChanges, MaxChanges) \X {<<>>}

WithObjects == {FALSE} \X {<<>>, <<Payment>>} \X BoundedSeq(ObjectChanges, MaxObjects)

SmallDryRuns == {Simulated(d[1], d[2], d[3]) : d \in PaymentsOnly \cup WithObjects}
=============================================================================
