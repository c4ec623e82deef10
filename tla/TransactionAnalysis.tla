-------------------------- MODULE TransactionAnalysis --------------------------
(* How the web wallet rates a transaction of its own before the user may send it *)
(* (app/src/lib/transaction-analysis.ts), from the summary of a dry run          *)
(* (packages/shared/src/dry-run-summary.ts). A balance change is its coin's      *)
(* amount; the wallet's own sends and stakes call only packages that its policy  *)
(* trusts, its list of drainers and its address book are empty, so the findings  *)
(* about these cannot occur and are left out.                                    *)
EXTENDS Integers

\* What a dry run says: whether it failed, what leaves the user, who receives it.
DryRun(Addresses) == [failed : BOOLEAN, netMist : Int, recipients : SUBSET Addresses]

MaxOutflowBps == 9000

OutflowBps(outflow, totalMist) ==
    IF totalMist = 0 THEN 0 ELSE (outflow * 10000) \div totalMist

\* The levels of the findings, those of the simulation included.
CollectFindings(dryRun, totalMist, knownRecipients) ==
    LET outflow == IF dryRun.netMist < 0 THEN -dryRun.netMist ELSE 0
    IN  (IF dryRun.failed THEN {"critical"} ELSE {})
          \cup (IF OutflowBps(outflow, totalMist) > MaxOutflowBps THEN {"critical"} ELSE {})
          \cup (IF outflow > 0 /\ totalMist > 0 /\ outflow >= totalMist THEN {"high"} ELSE {})
          \cup (IF dryRun.recipients \subseteq knownRecipients THEN {} ELSE {"high"})

ScoreRisk(findings) ==
    IF "critical" \in findings THEN "critical"
    ELSE IF "high" \in findings THEN "high"
    ELSE IF "medium" \in findings THEN "medium"
    ELSE "low"

AnalyzeSimSummary(dryRun, totalMist, knownRecipients) ==
    ScoreRisk(CollectFindings(dryRun, totalMist, knownRecipients))
================================================================================
