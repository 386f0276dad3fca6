---------------------------- MODULE SynthetixState ----------------------------
(***************************************************************************)
(* The debt register (contracts/SynthetixState.sol), with the two Issuer   *)
(* functions that update it.  An account's debt is not stored: what is     *)
(* stored is the share of the pool it owned when it last issued or burned  *)
(* and the index of the debt ledger entry appended by that operation.  The *)
(* ledger accumulates the factor by which every later issue or burn        *)
(* diluted or concentrated all the shares.                                 *)
(***************************************************************************)
EXTENDS TokenState, Sequences

VARIABLES issuanceData,     \* account -> its share and entry index
          totalIssuerCount, \* number of accounts with outstanding debt
          debtLedger        \* the cumulative factors, a precise decimal each

registerVars == <<issuanceData, totalIssuerCount, debtLedger>>

IssuanceData == [initialDebtOwnership : Nat, debtEntryIndex : Nat]

SynthetixStateInit ==
  /\ issuanceData =
       [a \in Accounts |-> [initialDebtOwnership |-> 0, debtEntryIndex |-> 0]]
  /\ totalIssuerCount = 0
  /\ debtLedger = <<>>

\* The array is indexed from 0 in the contract and from 1 here.
debtLedgerAt(i) == debtLedger[i + 1]
debtLedgerLength == Len(debtLedger)
lastDebtLedgerEntry == debtLedger[Len(debtLedger)]

hasIssued(a) == issuanceData[a].initialDebtOwnership > 0

\* Whether the debt of a can be computed: the code divides by the ledger entry.
DebtIsDefined(a) ==
  hasIssued(a) => debtLedgerAt(issuanceData[a].debtEntryIndex) > 0

\* The share of the pool that a owns now.
currentDebtOwnership(a) ==
  multiplyDecimalRoundPrecise(
    divideDecimalRoundPrecise(lastDebtLedgerEntry,
                              debtLedgerAt(issuanceData[a].debtEntryIndex)),
    issuanceData[a].initialDebtOwnership)

\* The part that a owes of a pool worth total.
debtBalance(a, total) ==
  IF ~hasIssued(a) THEN 0
  ELSE preciseDecimalToDecimal(
         multiplyDecimalRoundPrecise(decimalToPreciseDecimal(total),
                                     currentDebtOwnership(a)))

\* Mutant: the entry before the one that the operation appends.
setIssuanceDataOfLast(a, ownership) ==
  issuanceData' = [issuanceData EXCEPT ![a] =
    [initialDebtOwnership |-> ownership,
     debtEntryIndex |-> IF debtLedgerLength = 0 THEN 0 ELSE debtLedgerLength - 1]]

setCurrentIssuanceData(a, ownership) ==
  issuanceData' = [issuanceData EXCEPT ![a] =
    [initialDebtOwnership |-> ownership, debtEntryIndex |-> debtLedgerLength]]

\* Mutants: the share is taken of the wrong total; the count follows the wrong
\* accounts.
issueDeltaOfOldTotal(amount, newTotal) ==
  PRECISE_UNIT - divideDecimalRoundPrecise(amount, newTotal - amount)
burnDeltaOfOldTotal(debtToRemove, newTotal) ==
  PRECISE_UNIT + divideDecimalRoundPrecise(debtToRemove, newTotal + debtToRemove)
countIfNotNew(existingDebt) ==
  totalIssuerCount' = totalIssuerCount + (IF existingDebt > 0 THEN 1 ELSE 0)

\* What an issue leaves of everybody's share, and what a burn makes of it.
issueDelta(amount, newTotal) ==
  PRECISE_UNIT - divideDecimalRoundPrecise(amount, newTotal)

burnDelta(debtToRemove, newTotal) ==
  IF newTotal > 0
  THEN PRECISE_UNIT + divideDecimalRoundPrecise(debtToRemove, newTotal)
  ELSE 0

countIfNew(existingDebt) ==
  totalIssuerCount' = totalIssuerCount + (IF existingDebt = 0 THEN 1 ELSE 0)

addToDebtRegister(from, amount, existingDebt, totalDebtIssued) ==
  LET newTotal == amount + totalDebtIssued IN
  /\ newTotal > 0
  /\ countIfNew(existingDebt)
  /\ setCurrentIssuanceData(from,
       divideDecimalRoundPrecise(amount + existingDebt, newTotal))
  /\ debtLedger' = Append(debtLedger,
       IF debtLedgerLength > 0
       THEN multiplyDecimalRoundPrecise(lastDebtLedgerEntry,
                                        issueDelta(amount, newTotal))
       ELSE PRECISE_UNIT)

removeFromDebtRegister(from, debtToRemove, existingDebt, totalDebtIssued) ==
  LET newTotal == totalDebtIssued - debtToRemove IN
  /\ debtToRemove <= totalDebtIssued
  /\ \/ /\ debtToRemove = existingDebt
        /\ totalIssuerCount > 0
        /\ setCurrentIssuanceData(from, 0)
        /\ totalIssuerCount' = totalIssuerCount - 1
     \/ /\ debtToRemove < existingDebt
        /\ newTotal > 0
        /\ setCurrentIssuanceData(from,
             divideDecimalRoundPrecise(existingDebt - debtToRemove, newTotal))
        /\ UNCHANGED totalIssuerCount
  /\ debtLedger' = Append(debtLedger,
       multiplyDecimalRoundPrecise(lastDebtLedgerEntry,
                                   burnDelta(debtToRemove, newTotal)))
------------------------------------------------------------------------------
RegisterTypeOK ==
  /\ issuanceData \in [Accounts -> IssuanceData]
  /\ totalIssuerCount \in Nat
  /\ debtLedger \in Seq(Nat)

Issuers == {a \in Accounts : hasIssued(a)}

\* Whoever owns a share has an entry of the ledger to measure it from: the
\* index an account keeps is the one its own operation appends afterwards.
EntriesInLedger ==
  \A a \in Issuers : issuanceData[a].debtEntryIndex < debtLedgerLength

\* decrementTotalIssuerCount subtracts safely, so a count below the number of
\* accounts with a share would one day make the last of them unable to burn.
IssuerCountCoversIssuers == totalIssuerCount >= Cardinality(Issuers)
==============================================================================
