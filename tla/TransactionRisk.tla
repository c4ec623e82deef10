-------------------------- MODULE TransactionRisk --------------------------
(***************************************************************************)
(* How the extension rates a dApp transaction: the deterministic rules of   *)
(* extension/src/risk.ts over the summary of a dry run, and their merge     *)
(* with the verdict of the AI judge (extension/src/ai-risk.ts), which may   *)
(* be missing.                                                              *)
(***************************************************************************)
EXTENDS Integers, FiniteSets

RiskLevels == {"low", "medium", "high", "critical"}

RANK == [low |-> 0, medium |-> 1, high |-> 2, critical |-> 3]

(* What the rules read of a SimSummary: whether the dry run failed, the     *)
(* levels of the simulator's own remarks, the number of owned objects that  *)
(* leave, and the SUI the user sends (the sum of the negative balance       *)
(* changes).                                                                *)
SimSummary ==
    [failed : BOOLEAN, risk : SUBSET {"info", "warn", "block"},
     objectsLeaving : Nat, netOut : Nat]

(* The share of the balance that leaves, in basis points, rounded down.     *)
OutflowBps(netOut, totalMist) == (netOut * 10000) \div totalMist

(* The levels of the findings.  A balance that is 0 or unknown (here 0)     *)
(* yields no finding about the outflow.                                     *)
Findings(summary, totalMist) ==
    UNION {
        IF summary.failed THEN {"critical"} ELSE {},
        IF "block" \in summary.risk THEN {"critical"} ELSE {},
        IF "warn" \in summary.risk THEN {"high"} ELSE {},
        IF summary.objectsLeaving > 0 THEN {"high"} ELSE {},
        IF totalMist > 0 /\ summary.netOut > 0
        THEN LET bps == OutflowBps(summary.netOut, totalMist)
             IN  IF bps >= 9000 THEN {"critical"}
                 ELSE IF bps >= 5000 THEN {"high"} ELSE {}
        ELSE {}}

(* assessTransaction(...).riskLevel                                         *)
AssessTransaction(summary, totalMist) ==
    LET found == Findings(summary, totalMist)
    IN  IF "critical" \in found THEN "critical"
        ELSE IF "high" \in found THEN "high"
        ELSE IF "medium" \in found THEN "medium"
        ELSE "low"

(* A wrong merge, for sensitivity: the judge has the last word.             *)
JudgeDecides(deterministic, ai) == ai

(* mergeRiskLevel: the worse of the two.                                    *)
MergeRiskLevel(deterministic, ai) ==
    IF RANK[ai] > RANK[deterministic] THEN ai ELSE deterministic
=============================================================================
