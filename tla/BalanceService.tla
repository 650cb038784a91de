--------------------------- MODULE BalanceService ---------------------------
(***************************************************************************)
(* src/modules/balance/balance.service.js: what each operation does to one *)
(* row of employee_balances.                                               *)
(*                                                                         *)
(* Every operation reads the row and saves it inside the transaction of    *)
(* its caller, so it is a function from the row to the row; the condition  *)
(* under which it throws, and so rolls the caller's transaction back, is   *)
(* the negation of the Can operator beside it.                             *)
(*                                                                         *)
(* Amounts are whole days.  The columns are DECIMAL(6,2) and requests are  *)
(* always for whole days, so the tolerances of 0.001 and 0.01 on the drift *)
(* are zero here.  hcmLastSync, hcmVersion and the row version are never   *)
(* read by these operations and are left out.                              *)
(***************************************************************************)
EXTENDS Integers

Balance == [total             : Int,
            available         : Int,
            pending           : Int,
            used              : Int,
            hcmTotal          : Int,
            hasDiscrepancy    : BOOLEAN,
            discrepancyAmount : Int]

\* Mutant: the HCM total is left out of the insert.
newBalanceWithoutHcm(total) ==
    [total |-> total, available |-> total, pending |-> 0, used |-> 0,
     hasDiscrepancy |-> FALSE, discrepancyAmount |-> 0]

\* The row upsertBalance inserts, and the one the batch reconciliation
\* inserts for a balance it meets for the first time.
newBalance(total) ==
    [total |-> total, available |-> total, pending |-> 0, used |-> 0,
     hcmTotal |-> total, hasDiscrepancy |-> FALSE, discrepancyAmount |-> 0]

-----------------------------------------------------------------------------
\* Mutant: the availability check lets one day too many through.
CanDeductOffByOne(balance, days) == balance.available + 1 >= days

CanDeduct(balance, days) == balance.available >= days

atomicDeduct(balance, days) ==
    [balance EXCEPT !.available = @ - days, !.pending = @ + days]

-----------------------------------------------------------------------------
CanTakePending(balance, days) == balance.pending >= days

\* Mutant: the days return to available but stay counted as pending.
releaseKeepsPending(balance, days) == [balance EXCEPT !.available = @ + days]

releaseFromPending(balance, days) ==
    [balance EXCEPT !.pending = @ - days, !.available = @ + days]

\* Mutant: approved days leave pending and are never counted as used.
finalizeForgetsUsed(balance, days) == [balance EXCEPT !.pending = @ - days]

finalizeUsed(balance, days) ==
    [balance EXCEPT !.pending = @ - days, !.used = @ + days]

-----------------------------------------------------------------------------
localTotal(balance) == balance.used + balance.pending + balance.available

\* Mutant: a downward correction of the HCM is applied like an accrual.
hcmUpdateBothWays(balance, hcmTotal) ==
    [balance EXCEPT !.available = @ + (hcmTotal - localTotal(balance)),
                    !.total = hcmTotal,
                    !.hcmTotal = hcmTotal]

\* An HCM total above the local one is an accrual and raises what is
\* available; one below it only flags a discrepancy.
applyHcmRealTimeUpdate(balance, hcmTotal) ==
    LET drift == hcmTotal - localTotal(balance)
    IN  [balance EXCEPT
            !.available = IF drift > 0 THEN @ + drift ELSE @,
            !.total = IF drift > 0 THEN hcmTotal ELSE @,
            !.hcmTotal = hcmTotal,
            !.hasDiscrepancy = drift < 0,
            !.discrepancyAmount = IF drift < 0 THEN -drift ELSE 0]

=============================================================================
