-------------------------- MODULE InstallmentTerms --------------------------
(***************************************************************************)
(* How a principal is divided among consecutive months                     *)
(* (internal/domain/card/installment.go), shared by Installments and       *)
(* InstallmentSessions.  Months end where the supported dates end.         *)
(***************************************************************************)
EXTENDS Integers

CONSTANTS
  LastMonth,        \* the last month with supported dates (31 December 9999)
  Principals,       \* amounts of purchases
  MaxInstallments,  \* MaxInstallmentCount
  Amounts           \* amounts of principal payments

ASSUME BoundAssumption == LastMonth \in Nat /\ MaxInstallments \in Nat

ASSUME PrincipalAssumption == Principals \subseteq Nat \ {0} /\ Amounts \subseteq Nat \ {0}

-----------------------------------------------------------------------------

Months == 0..LastMonth

\* Mutant: the remainder goes to one installment too few.
PrincipalRoundedDown(principal, count, number) ==
  principal \div count + (IF number < principal % count THEN 1 ELSE 0)

\* The quotient, and one minor unit more for each of the earliest installments.
InstallmentPrincipal(principal, count, number) ==
  principal \div count + (IF number <= principal % count THEN 1 ELSE 0)

\* Mutant: the last cycle is not compared with the supported dates.
SchedulableForever(principal, count, first) == count <= principal /\ first <= LastMonth

\* BuildInstallmentSchedule refuses what it cannot divide or date.
Schedulable(principal, count, first) ==
  count <= principal /\ first + count - 1 <= LastMonth

=============================================================================
