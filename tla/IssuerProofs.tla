----------------------------- MODULE IssuerProofs -----------------------------
(***************************************************************************)
(* The debt register stays well formed, for any accounts, amounts, prices  *)
(* and settings: every variable keeps its type (so no subtraction of the   *)
(* Issuer goes below zero and no share above one), every share is measured *)
(* from an entry of the ledger, and the issuer count never runs short.     *)
(* Around it, the supply of sUSD stays the sum of the balances, and what   *)
(* an exchange may have to give back stays covered. Last, what the ledger  *)
(* says: a debt moves by what is issued or burned, those of others stay,   *)
(* their sum follows the pool, and a liquidation ends at the target ratio, *)
(* each but for rounding.                                                  *)
(***************************************************************************)
EXTENDS Issuer, SafeDecimalMathProofs, SumProofs

\* The register is well formed: the part of the invariant that its two
\* operations preserve by themselves.
RegisterInv == RegisterTypeOK /\ EntriesInLedger /\ IssuerCountCoversIssuers

\* The inductive invariant.
IInv == TypeOK /\ EntriesInLedger /\ IssuerCountCoversIssuers

\* There are finitely many issuers, as there are accounts.
LEMMA IssuersFinite ==
  /\ IsFiniteSet(Issuers)
  /\ Cardinality(Issuers) \in Nat
BY AccountsAssumption, FS_Subset, FS_CardinalityType DEF Issuers

\* A set of issuers that gained at most one account, or lost one.
LEMMA OneIssuerMore ==
  ASSUME NEW S, IsFiniteSet(S), NEW T, NEW a, T \subseteq S \cup {a}
  PROVE  /\ Cardinality(T) \in Nat
         /\ Cardinality(T) <= Cardinality(S) + 1
         /\ a \in S => Cardinality(T) <= Cardinality(S)
<1>1. IsFiniteSet(S \cup {a}) /\ Cardinality(S) \in Nat
  BY FS_AddElement, FS_CardinalityType
<1>2. Cardinality(S \cup {a}) = IF a \in S THEN Cardinality(S) ELSE Cardinality(S) + 1
  BY FS_AddElement
<1>3. Cardinality(T) \in Nat /\ Cardinality(T) <= Cardinality(S \cup {a})
  BY <1>1, FS_Subset, FS_CardinalityType
<1> QED BY <1>1, <1>2, <1>3

\* A set that lost a member is smaller.
LEMMA OneIssuerLess ==
  ASSUME NEW S, IsFiniteSet(S), NEW a \in S, NEW T, T \subseteq S \ {a}
  PROVE  Cardinality(T) \in Nat /\ Cardinality(T) <= Cardinality(S) - 1
<1>1. IsFiniteSet(S \ {a}) /\ Cardinality(S \ {a}) = Cardinality(S) - 1
  BY FS_RemoveElement
<1> QED BY <1>1, FS_Subset, FS_CardinalityType

\* A debt is a natural number, and only issuers have one.
LEMMA DebtBalanceNat ==
  ASSUME RegisterTypeOK, EntriesInLedger,
         NEW a \in Accounts, NEW total \in Nat, DebtIsDefined(a)
  PROVE  debtBalance(a, total) \in Nat
<1>1. CASE ~hasIssued(a)
  BY <1>1 DEF debtBalance
<1>2. CASE hasIssued(a)
  <2> DEFINE i == issuanceData[a].debtEntryIndex + 1
             e == debtLedgerAt(issuanceData[a].debtEntryIndex)
             own == issuanceData[a].initialDebtOwnership
  <2>1. own \in Nat /\ i \in Nat /\ i > 0 /\ i <= Len(debtLedger)
    BY <1>2 DEF RegisterTypeOK, EntriesInLedger, Issuers, IssuanceData, debtLedgerLength
  <2>2. e \in Nat /\ e > 0 /\ lastDebtLedgerEntry \in Nat
    BY <1>2, <2>1 DEF RegisterTypeOK, debtLedgerAt, lastDebtLedgerEntry, DebtIsDefined
  <2> HIDE DEF i, e, own
  <2>3. divideDecimalRoundPrecise(lastDebtLedgerEntry, e) \in Nat
    BY <2>2, DivideNat
  <2>4. currentDebtOwnership(a) \in Nat
    BY <2>1, <2>3, MultiplyNat DEF currentDebtOwnership, e, own
  <2> QED BY <1>2, <2>4, MultiplyNat, ConversionNat DEF debtBalance
<1> QED BY <1>1, <1>2

\* An account with a debt has issued (Issuer._debtBalanceOfAndTotalDebt).
LEMMA OnlyIssuersOwe ==
  ASSUME NEW a, NEW total, debtBalance(a, total) # 0
  PROVE  hasIssued(a)
BY DEF debtBalance

\* Setting the share of one account keeps the register well formed when the
\* ledger grows by one entry and the count covers what the issuers became.
LEMMA RegisterUpdate ==
  ASSUME RegisterInv,
         NEW from \in Accounts, NEW ownership \in Nat, NEW entry \in Nat,
         setCurrentIssuanceData(from, ownership),
         debtLedger' = Append(debtLedger, entry),
         totalIssuerCount' \in Nat,
         totalIssuerCount' >= Cardinality(Issuers')
  PROVE  RegisterInv'
<1>1. /\ issuanceData \in [Accounts -> IssuanceData]
      /\ debtLedger \in Seq(Nat) /\ Len(debtLedger) \in Nat
  BY DEF RegisterInv, RegisterTypeOK
<1>2. Len(debtLedger') = Len(debtLedger) + 1 /\ debtLedger' \in Seq(Nat)
  BY <1>1
<1>3. [initialDebtOwnership |-> ownership, debtEntryIndex |-> Len(debtLedger)]
        \in IssuanceData
  BY <1>1 DEF IssuanceData
<1>4. issuanceData' \in [Accounts -> IssuanceData]
  BY <1>1, <1>3 DEF setCurrentIssuanceData, debtLedgerLength
<1>5. EntriesInLedger'
  <2> SUFFICES ASSUME NEW a \in Accounts, hasIssued(a)'
               PROVE  issuanceData'[a].debtEntryIndex < Len(debtLedger')
    BY DEF EntriesInLedger, Issuers, debtLedgerLength
  <2>1. CASE a = from
    BY <2>1, <1>1, <1>2 DEF setCurrentIssuanceData, debtLedgerLength
  <2>2. CASE a # from
    <3>1. issuanceData'[a] = issuanceData[a]
      BY <2>2, <1>1 DEF setCurrentIssuanceData
    <3>2. issuanceData[a].debtEntryIndex < Len(debtLedger)
      BY <3>1 DEF RegisterInv, EntriesInLedger, Issuers, hasIssued, debtLedgerLength
    <3>3. issuanceData[a].debtEntryIndex \in Nat
      BY <1>1 DEF IssuanceData
    <3> QED BY <3>1, <3>2, <3>3, <1>1, <1>2
  <2> QED BY <2>1, <2>2
<1> QED BY <1>2, <1>4, <1>5
        DEF RegisterInv, RegisterTypeOK, IssuerCountCoversIssuers

\* Only the account whose share is set can become or cease to be an issuer.
LEMMA IssuersAfterUpdate ==
  ASSUME RegisterTypeOK, NEW from \in Accounts, NEW ownership,
         setCurrentIssuanceData(from, ownership)
  PROVE  /\ Issuers' \subseteq Issuers \cup {from}
         /\ ownership = 0 => Issuers' \subseteq Issuers \ {from}
<1>1. \A a \in Accounts : a # from => issuanceData'[a] = issuanceData[a]
  BY DEF setCurrentIssuanceData, RegisterTypeOK
<1>2. issuanceData'[from].initialDebtOwnership = ownership
  BY DEF setCurrentIssuanceData, RegisterTypeOK
<1> QED BY <1>1, <1>2 DEF Issuers, hasIssued

\* Issuer._addToDebtRegister, for an existing debt only an issuer can have.
LEMMA AddPreservesRegister ==
  ASSUME RegisterInv,
         NEW from \in Accounts, NEW amount \in Nat,
         NEW existingDebt \in Nat, NEW total \in Nat,
         existingDebt > 0 => hasIssued(from),
         addToDebtRegister(from, amount, existingDebt, total)
  PROVE  RegisterInv'
<1> DEFINE newTotal == amount + total
           ownership == divideDecimalRoundPrecise(amount + existingDebt, newTotal)
           factor == issueDelta(amount, newTotal)
           entry == IF debtLedgerLength > 0
                    THEN multiplyDecimalRoundPrecise(lastDebtLedgerEntry, factor)
                    ELSE PRECISE_UNIT
<1>1. newTotal \in Nat /\ newTotal > 0 /\ amount <= newTotal /\ amount + existingDebt \in Nat
  BY DEF addToDebtRegister
<1>2. ownership \in Nat
  <2> HIDE DEF newTotal
  <2> QED BY <1>1, DivideNat
<1>3. factor \in Nat
  <2> HIDE DEF newTotal
  <2>1. /\ divideDecimalRoundPrecise(amount, newTotal) \in Nat
        /\ divideDecimalRoundPrecise(amount, newTotal) <= PRECISE_UNIT
    BY <1>1, DivideNat, ShareAtMostOne
  <2> QED BY <2>1, PreciseUnitNat DEF issueDelta
<1>4. entry \in Nat
  <2> HIDE DEF factor
  <2>1. CASE debtLedgerLength > 0
    <3>1. lastDebtLedgerEntry \in Nat
      BY <2>1 DEF RegisterInv, RegisterTypeOK, lastDebtLedgerEntry, debtLedgerLength
    <3> QED BY <2>1, <3>1, <1>3, MultiplyNat
  <2>2. CASE ~(debtLedgerLength > 0)
    BY <2>2, PreciseUnitNat
  <2> QED BY <2>1, <2>2
<1>5. setCurrentIssuanceData(from, ownership) /\ debtLedger' = Append(debtLedger, entry)
  BY DEF addToDebtRegister
<1>6. totalIssuerCount \in Nat /\ totalIssuerCount >= Cardinality(Issuers)
  BY DEF RegisterInv, RegisterTypeOK, IssuerCountCoversIssuers
<1>7. totalIssuerCount' = IF existingDebt = 0 THEN totalIssuerCount + 1 ELSE totalIssuerCount
  BY <1>6 DEF addToDebtRegister, countIfNew
<1>8. /\ Cardinality(Issuers') \in Nat
      /\ Cardinality(Issuers') <= Cardinality(Issuers) + 1
      /\ from \in Issuers => Cardinality(Issuers') <= Cardinality(Issuers)
  <2>1. Issuers' \subseteq Issuers \cup {from}
    BY <1>5, IssuersAfterUpdate DEF RegisterInv
  <2> QED BY <2>1, IssuersFinite, OneIssuerMore
<1>9. existingDebt # 0 => from \in Issuers
  BY DEF Issuers
<1>10. totalIssuerCount' \in Nat /\ totalIssuerCount' >= Cardinality(Issuers')
  BY <1>6, <1>7, <1>8, <1>9, IssuersFinite
<1> HIDE DEF ownership, entry
<1> QED BY <1>2, <1>4, <1>5, <1>10, RegisterUpdate

\* Issuer._removeFromDebtRegister, for the debt of an issuer.
LEMMA RemovePreservesRegister ==
  ASSUME RegisterInv,
         NEW from \in Accounts, hasIssued(from), NEW debtToRemove \in Nat,
         NEW existingDebt \in Nat, NEW total \in Nat,
         removeFromDebtRegister(from, debtToRemove, existingDebt, total)
  PROVE  RegisterInv'
<1> DEFINE newTotal == total - debtToRemove
           entry == multiplyDecimalRoundPrecise(lastDebtLedgerEntry,
                                                burnDelta(debtToRemove, newTotal))
<1>1. newTotal \in Nat
  BY DEF removeFromDebtRegister
<1>2. burnDelta(debtToRemove, newTotal) \in Nat
  <2> HIDE DEF newTotal
  <2>1. CASE newTotal > 0
    BY <1>1, <2>1, DivideNat, PreciseUnitNat DEF burnDelta
  <2>2. CASE ~(newTotal > 0)
    BY <2>2 DEF burnDelta
  <2> QED BY <2>1, <2>2
<1>3. from \in Issuers /\ IsFiniteSet(Issuers) /\ Cardinality(Issuers) \in Nat
  BY IssuersFinite DEF Issuers
<1>4. Len(debtLedger) > 0 /\ debtLedger \in Seq(Nat)
  BY <1>3 DEF RegisterInv, RegisterTypeOK, EntriesInLedger, Issuers, IssuanceData,
              debtLedgerLength
<1>5. entry \in Nat
  <2>1. lastDebtLedgerEntry \in Nat
    BY <1>4 DEF lastDebtLedgerEntry
  <2> HIDE DEF newTotal
  <2> QED BY <1>2, <2>1, MultiplyNat
<1>6. debtLedger' = Append(debtLedger, entry)
  BY DEF removeFromDebtRegister
<1>7. totalIssuerCount \in Nat /\ totalIssuerCount >= Cardinality(Issuers)
  BY DEF RegisterInv, RegisterTypeOK, IssuerCountCoversIssuers
<1> HIDE DEF entry
<1>8. CASE /\ debtToRemove = existingDebt
           /\ totalIssuerCount > 0
           /\ setCurrentIssuanceData(from, 0)
           /\ totalIssuerCount' = totalIssuerCount - 1
  <2>1. Issuers' \subseteq Issuers \ {from}
    BY <1>8, IssuersAfterUpdate DEF RegisterInv
  <2>2. Cardinality(Issuers') \in Nat /\ Cardinality(Issuers') <= Cardinality(Issuers) - 1
    BY <2>1, <1>3, OneIssuerLess
  <2>3. totalIssuerCount' \in Nat /\ totalIssuerCount' >= Cardinality(Issuers')
    BY <1>3, <1>7, <1>8, <2>2
  <2> QED BY <1>5, <1>6, <1>8, <2>3, RegisterUpdate
<1>9. CASE /\ debtToRemove < existingDebt
           /\ newTotal > 0
           /\ setCurrentIssuanceData(from,
                divideDecimalRoundPrecise(existingDebt - debtToRemove, newTotal))
           /\ UNCHANGED totalIssuerCount
  <2> DEFINE ownership == divideDecimalRoundPrecise(existingDebt - debtToRemove, newTotal)
  <2>1. ownership \in Nat
    <3>1. existingDebt - debtToRemove \in Nat
      BY <1>9
    <3> HIDE DEF newTotal
    <3> QED BY <3>1, <1>1, <1>9, DivideNat
  <2>2. setCurrentIssuanceData(from, ownership)
    BY <1>9
  <2> HIDE DEF ownership
  <2>3. Issuers' \subseteq Issuers \cup {from}
    BY <2>2, IssuersAfterUpdate DEF RegisterInv
  <2>4. Cardinality(Issuers') \in Nat /\ Cardinality(Issuers') <= Cardinality(Issuers)
    BY <2>3, <1>3, OneIssuerMore
  <2>5. totalIssuerCount' \in Nat /\ totalIssuerCount' >= Cardinality(Issuers')
    BY <1>3, <1>7, <1>9, <2>4
  <2> QED BY <1>5, <1>6, <2>1, <2>2, <2>5, RegisterUpdate
<1> QED BY <1>8, <1>9 DEF removeFromDebtRegister
------------------------------------------------------------------------------
(* The Issuer around the register. *)

\* The type invariant apart from the register.
LedgersTypeOK ==
  /\ now \in Nat
  /\ deadline \in [Accounts -> Nat]
  /\ snx \in [Accounts -> Nat]
  /\ escrowed \in [Accounts -> Nat]
  /\ sUSD \in [Accounts -> Nat]
  /\ sUSDSupply \in Nat
  /\ otherSynths \in Nat
  /\ snxRate \in Rates
  /\ invalidRates \in SUBSET {"BADI", "synths"}
  /\ pending \in [Accounts -> [until : Nat, reclaim : Nat, rebate : Nat]]
  /\ lastIssueEvent \in [Accounts -> Nat]
  /\ suspended \in SUBSET Sections

\* The invariant is that of the register and the types of everything else.
LEMMA IInvParts == IInv <=> RegisterInv /\ LedgersTypeOK
BY DEF IInv, RegisterInv, TypeOK, LedgersTypeOK

\* A step that leaves the register alone keeps its invariant.
LEMMA RegisterUnchanged ==
  ASSUME RegisterInv, UNCHANGED registerVars
  PROVE  RegisterInv'
<1>1. issuanceData' = issuanceData /\ totalIssuerCount' = totalIssuerCount
      /\ debtLedger' = debtLedger
  BY DEF registerVars
<1>2. Issuers' = Issuers
  BY <1>1 DEF Issuers, hasIssued
<1> QED BY <1>1, <1>2 DEF RegisterInv, RegisterTypeOK, EntriesInLedger,
                          IssuerCountCoversIssuers, debtLedgerLength

\* The views of the Issuer are natural numbers.
LEMMA ViewsNat ==
  ASSUME IInv, NEW a \in Accounts
  PROVE  /\ totalIssuedSynths \in Nat
         /\ snxRate \in Nat /\ snxRate > 0
         /\ collateral(a) \in Nat
         /\ collateralValue(a) \in Nat
         /\ maxIssuableSynths(a) \in Nat
         /\ DebtIsDefined(a) => debtInSUSD(a) \in Nat
         /\ DebtIsDefined(a) => debtInSNX(a) \in Nat
<1>1. totalIssuedSynths \in Nat
  BY DEF IInv, TypeOK, totalIssuedSynths
<1>2. snxRate \in Nat /\ snxRate > 0
  BY IssuerAssumption DEF IInv, TypeOK
<1>3. collateral(a) \in Nat
  BY IssuerAssumption DEF IInv, TypeOK, collateral
<1>4. collateralValue(a) \in Nat
  BY <1>2, <1>3, MultiplyNat DEF collateralValue
<1>5. maxIssuableSynths(a) \in Nat
  BY <1>4, MultiplyNat, LiquidationAssumption DEF maxIssuableSynths
<1>6. totalIssuedInSNX \in Nat
  BY <1>1, <1>2, DivideNat DEF totalIssuedInSNX
<1>7. RegisterTypeOK /\ EntriesInLedger
  BY DEF IInv, TypeOK
<1> QED BY <1>1, <1>2, <1>3, <1>4, <1>5, <1>6, <1>7, DebtBalanceNat
        DEF debtInSUSD, debtInSNX

\* _internalIssueSynths of any amount.
LEMMA InternalIssuePreserves ==
  ASSUME IInv, NEW from \in Accounts, NEW amount \in Nat, DebtIsDefined(from),
         internalIssueSynths(from, amount)
  PROVE  IInv'
<1>1. debtInSUSD(from) \in Nat /\ totalIssuedSynths \in Nat
  BY ViewsNat
<1>2. debtInSUSD(from) > 0 => hasIssued(from)
  BY <1>1, OnlyIssuersOwe DEF debtInSUSD
<1>3. addToDebtRegister(from, amount, debtInSUSD(from), totalIssuedSynths)
  BY DEF internalIssueSynths
<1>4. RegisterInv'
  BY <1>1, <1>2, <1>3, AddPreservesRegister, IInvParts
<1>5. LedgersTypeOK
  BY IInvParts
<1>6. LedgersTypeOK'
  BY <1>5 DEF LedgersTypeOK, internalIssueSynths, snxVars, priceVars
<1> QED BY <1>4, <1>6, IInvParts DEF IInv, TypeOK, LedgersTypeOK, RegisterInv

\* Issuer._remainingIssuableSynths never goes below zero.
LEMMA RemainingNat ==
  ASSUME IInv, NEW a \in Accounts, DebtIsDefined(a)
  PROVE  remainingIssuableSynths(a) \in Nat
BY ViewsNat DEF remainingIssuableSynths

\* Issuer.issueSynths and issueMaxSynths keep the invariant.
LEMMA IssuePreserves ==
  ASSUME IInv, NEW a \in Accounts,
         IssueMaxSynths(a) \/ \E amount \in Amounts : IssueSynths(a, amount)
  PROVE  IInv'
BY InternalIssuePreserves, RemainingNat, IssuerAssumption
DEF IssueSynths, IssueMaxSynths

\* removeAccountInLiquidation and the functions that may call it.
LEMMA FlagsNat ==
  ASSUME LedgersTypeOK, NEW a \in Accounts,
         removeAccountInLiquidation(a) \/ UNCHANGED deadline
  PROVE  deadline' \in [Accounts -> Nat]
BY DEF LedgersTypeOK, removeAccountInLiquidation

\* _internalBurnSynths of any amount, for a debt greater than zero.
LEMMA InternalBurnPreserves ==
  ASSUME IInv, NEW from \in Accounts, hasIssued(from),
         NEW amount \in Nat, NEW existingDebt \in Nat, NEW total \in Nat,
         NEW balance \in Nat, NEW supply \in Nat,
         internalBurnSynths(from, amount, existingDebt, total, balance, supply),
         pending' \in [Accounts -> [until : Nat, reclaim : Nat, rebate : Nat]]
  PROVE  IInv'
<1> DEFINE burned == IF existingDebt < amount THEN existingDebt ELSE amount
<1>1. burned \in Nat
  OBVIOUS
<1> HIDE DEF burned
<1>2. /\ removeFromDebtRegister(from, burned, existingDebt, total)
      /\ CanBurn(balance, supply, burned)
      /\ sUSD' = [sUSD EXCEPT ![from] = balance - burned]
      /\ sUSDSupply' = supply - burned
      /\ unflagIfRepaired(from, existingDebt, burned)
      /\ UNCHANGED <<now, snxVars, priceVars, lastIssueEvent, suspended>>
  BY DEF internalBurnSynths, burned
<1>3. RegisterInv'
  BY <1>1, <1>2, RemovePreservesRegister, IInvParts
<1>4. LedgersTypeOK
  BY IInvParts
<1>5. deadline' \in [Accounts -> Nat]
  BY <1>2, <1>4, FlagsNat DEF unflagIfRepaired
<1>6. balance - burned \in Nat /\ supply - burned \in Nat
  BY <1>1, <1>2 DEF CanBurn
<1>7. LedgersTypeOK'
  BY <1>2, <1>4, <1>5, <1>6 DEF LedgersTypeOK, snxVars, priceVars
<1> QED BY <1>3, <1>7 DEF IInv, TypeOK, LedgersTypeOK, RegisterInv

\* The empty queue of settlements has the type of a queue.
LEMMA NoEntriesType == NoEntries \in [until : Nat, reclaim : Nat, rebate : Nat]
BY DEF NoEntries

\* Issuer._burnSynths, settlement included, keeps the invariant.
LEMMA BurnPreserves ==
  ASSUME IInv, NEW from \in Accounts, NEW amount \in Amounts,
         BurnSynths(from, amount)
  PROVE  IInv'
<1> DEFINE balance == sUSD[from] + NetSettled(from)
           supply == sUSDSupply + NetSettled(from)
           total == supply + otherSynths
           refunded == IF NetSettled(from) > 0 THEN NetSettled(from) ELSE 0
           afterSettlement ==
             IF pending[from].until = 0 THEN amount
             ELSE (IF amount > balance THEN balance ELSE amount) + refunded
<1>1. LedgersTypeOK /\ RegisterTypeOK /\ EntriesInLedger
  BY IInvParts DEF RegisterInv
<1>2. /\ pending[from].until \in Nat /\ pending[from].reclaim \in Nat
      /\ pending[from].rebate \in Nat
      /\ sUSD[from] \in Nat /\ sUSDSupply \in Nat /\ otherSynths \in Nat
  BY <1>1 DEF LedgersTypeOK
<1>3. CanSettle(from) /\ DebtIsDefined(from)
  BY DEF BurnSynths
<1>4. balance \in Nat /\ supply \in Nat /\ total \in Nat /\ refunded \in Nat
  BY <1>2, <1>3 DEF CanSettle, NetSettled
<1>5. amount \in Nat
  BY IssuerAssumption
<1> HIDE DEF balance, supply, total, refunded
<1>6. afterSettlement \in Nat
  BY <1>4, <1>5
<1>7. debtBalance(from, total) \in Nat
  BY <1>1, <1>3, <1>4, DebtBalanceNat
<1> HIDE DEF afterSettlement
<1>8. /\ debtBalance(from, total) > 0
      /\ internalBurnSynths(from, afterSettlement, debtBalance(from, total), total,
                            balance, supply)
      /\ pending' = [pending EXCEPT ![from] = NoEntries]
  BY DEF BurnSynths, settledPool, afterSettlement, balance, supply, total, refunded
<1>9. hasIssued(from)
  BY <1>7, <1>8, OnlyIssuersOwe
<1>10. pending' \in [Accounts -> [until : Nat, reclaim : Nat, rebate : Nat]]
  BY <1>1, <1>8, NoEntriesType DEF LedgersTypeOK
<1> QED BY <1>4, <1>6, <1>7, <1>8, <1>9, <1>10, InternalBurnPreserves

\* Issuer._burnSynthsToTarget keeps the invariant.
LEMMA BurnToTargetPreserves ==
  ASSUME IInv, NEW from \in Accounts, BurnSynthsToTarget(from)
  PROVE  IInv'
<1>1. LedgersTypeOK
  BY IInvParts
<1>2. /\ debtInSUSD(from) \in Nat /\ maxIssuableSynths(from) \in Nat
      /\ totalIssuedSynths \in Nat
  BY ViewsNat DEF BurnSynthsToTarget
<1>3. sUSD[from] \in Nat /\ sUSDSupply \in Nat
  BY <1>1 DEF LedgersTypeOK
<1>4. /\ debtInSUSD(from) - maxIssuableSynths(from) \in Nat
      /\ internalBurnSynths(from, debtInSUSD(from) - maxIssuableSynths(from),
                            debtInSUSD(from), totalIssuedSynths,
                            sUSD[from], sUSDSupply)
      /\ pending' = pending
  BY <1>2 DEF BurnSynthsToTarget
<1>5. hasIssued(from)
  BY <1>2, OnlyIssuersOwe DEF BurnSynthsToTarget, debtInSUSD
<1> QED BY <1>1, <1>2, <1>3, <1>4, <1>5, InternalBurnPreserves DEF LedgersTypeOK

\* An account that is open for liquidation has a debt, so it is an issuer.
LEMMA OpenAccountsOwe ==
  ASSUME IInv, NEW a \in Accounts, DebtIsDefined(a),
         isOpenForLiquidation(a, collateralisationRatio(a))
  PROVE  hasIssued(a)
<1>1. collateral(a) \in Nat
  BY ViewsNat
<1>2. collateralisationRatio(a) > IssuanceRatio /\ IssuanceRatio \in Nat
  BY LiquidationAssumption DEF isOpenForLiquidation
<1>3. SUFFICES ASSUME ~hasIssued(a) PROVE FALSE
  OBVIOUS
<1>4. debtInSNX(a) = 0
  BY <1>3 DEF debtInSNX, debtBalance
<1>5. collateralisationRatio(a) = 0
  BY <1>1, <1>4, ZeroShare DEF collateralisationRatio
<1> QED BY <1>2, <1>5

\* The settings leave room for the penalty: the divisor of
\* calculateAmountToFixCollateral is positive.
LEMMA FixDivisorPositive ==
  UNIT - multiplyDecimal(UNIT + LiquidationPenalty, IssuanceRatio) \in Nat \ {0}
<1> DEFINE p == UNIT + LiquidationPenalty
<1>1. p \in Nat /\ p > 0 /\ UNIT \in Nat /\ UNIT > 0
  BY UnitAssumption, LiquidationAssumption
<1>2. /\ IssuanceRatio \in Nat /\ LiquidationRatio \in Nat
      /\ IssuanceRatio + 1 <= LiquidationRatio
      /\ LiquidationRatio * p <= UNIT * UNIT
  BY LiquidationAssumption
<1> HIDE DEF p
<1>3. (IssuanceRatio + 1) * p <= LiquidationRatio * p
  BY <1>1, <1>2, MulMonotone
<1>4. p * IssuanceRatio < UNIT * UNIT /\ p * IssuanceRatio \in Nat
  <2>1. (IssuanceRatio + 1) * p = p * IssuanceRatio + p
    BY <1>1, <1>2
  <2>2. p * IssuanceRatio \in Nat /\ LiquidationRatio * p \in Nat /\ UNIT * UNIT \in Nat
    BY <1>1, <1>2, MulNat
  <2> QED BY <1>1, <1>2, <1>3, <2>1, <2>2
<1>5. (p * IssuanceRatio) \div UNIT < UNIT /\ (p * IssuanceRatio) \div UNIT \in Nat
  <2> DEFINE x == p * IssuanceRatio
  <2>1. x \in Nat /\ x < UNIT * UNIT
    BY <1>4
  <2> HIDE DEF x
  <2>2. x \div UNIT < UNIT /\ x \div UNIT \in Nat
    BY <1>1, <2>1
  <2> QED BY <2>2 DEF x
<1> QED BY <1>1, <1>5 DEF multiplyDecimal, p

\* A transfer of no more than the sender has leaves natural balances.
LEMMA MovedNat ==
  ASSUME NEW balance \in [Accounts -> Nat], NEW from \in Accounts, NEW to \in Accounts,
         NEW v \in Nat, v <= balance[from]
  PROVE  Moved(balance, from, to, v) \in [Accounts -> Nat]
BY DEF Moved

\* Issuer.liquidateDelinquentAccount burns what the liquidator has, for SNX that the
\* account has: the amounts it computes are natural numbers.
LEMMA LiquidationEffects ==
  ASSUME IInv, NEW account \in Accounts, NEW susdAmount \in Amounts,
         NEW liquidator \in Accounts,
         LiquidateDelinquentAccount(account, susdAmount, liquidator)
  PROVE  /\ hasIssued(account)
         /\ \E burned, redeemed \in Nat :
              /\ removeFromDebtRegister(account, burned, debtInSUSD(account), totalIssuedSynths)
              /\ CanBurn(sUSD[liquidator], sUSDSupply, burned)
              /\ sUSD' = [sUSD EXCEPT ![liquidator] = @ - burned]
              /\ sUSDSupply' = sUSDSupply - burned
              /\ redeemed <= snx[account]
              /\ snx' = Moved(snx, account, liquidator, redeemed)
         /\ removeAccountInLiquidation(account) \/ UNCHANGED deadline
         /\ UNCHANGED <<now, escrowed, priceVars, pending, lastIssueEvent, suspended>>
<1> DEFINE debt == debtInSUSD(account)
           penalised == UNIT + LiquidationPenalty
           amountToFixRatio ==
             calculateAmountToFixCollateral(debt, collateralValue(account))
           capped == IF amountToFixRatio < susdAmount THEN amountToFixRatio
                                                      ELSE susdAmount
           redeemed == multiplyDecimal(divideDecimalRound(capped, snxRate), penalised)
           short == redeemed > collateral(account)
           totalRedeemed == IF short THEN collateral(account) ELSE redeemed
           amountToLiquidate ==
             IF short
             THEN multiplyDecimalRound(divideDecimal(collateral(account), penalised),
                                       snxRate)
             ELSE capped
<1>1. LedgersTypeOK /\ RegisterInv
  BY IInvParts
<1>2. DebtIsDefined(account) /\ hasIssued(account)
  BY OpenAccountsOwe DEF LiquidateDelinquentAccount
<1>3. /\ debt \in Nat /\ collateral(account) \in Nat /\ collateralValue(account) \in Nat
      /\ snxRate \in Nat /\ snxRate > 0 /\ totalIssuedSynths \in Nat
  BY <1>2, ViewsNat
<1>4. penalised \in Nat /\ penalised > 0 /\ susdAmount \in Nat
  BY UnitAssumption, LiquidationAssumption, IssuerAssumption
<1>5. amountToFixRatio \in Nat
  <2> DEFINE target == multiplyDecimal(collateralValue(account), IssuanceRatio)
             divisor == UNIT - multiplyDecimal(UNIT + LiquidationPenalty, IssuanceRatio)
  <2>1. target \in Nat
    BY <1>3, MultiplyNat, LiquidationAssumption
  <2>2. debt >= target
    BY DEF LiquidateDelinquentAccount
  <2>3. divisor \in Nat /\ divisor > 0
    BY FixDivisorPositive
  <2>4. amountToFixRatio = divideDecimal(debt - target, divisor)
    BY DEF calculateAmountToFixCollateral
  <2> HIDE DEF debt, target, divisor, amountToFixRatio
  <2>5. debt - target \in Nat
    BY <1>3, <2>1, <2>2
  <2> QED BY <2>3, <2>4, <2>5, DivideNat
<1>6. /\ removeFromDebtRegister(account, amountToLiquidate, debt, totalIssuedSynths)
      /\ CanBurn(sUSD[liquidator], sUSDSupply, amountToLiquidate)
      /\ sUSD' = [sUSD EXCEPT ![liquidator] = @ - amountToLiquidate]
      /\ sUSDSupply' = sUSDSupply - amountToLiquidate
      /\ removeAccountInLiquidation(account) \/ UNCHANGED deadline
      /\ totalRedeemed <= snx[account]
      /\ snx' = Moved(snx, account, liquidator, totalRedeemed)
      /\ UNCHANGED <<now, escrowed, priceVars, pending, lastIssueEvent, suspended>>
  BY DEF LiquidateDelinquentAccount
<1> HIDE DEF debt, penalised, amountToFixRatio
<1>7. capped \in Nat
  BY <1>4, <1>5
<1> HIDE DEF capped
<1>8. redeemed \in Nat
  BY <1>3, <1>4, <1>7, DivideNat, MultiplyNat
<1> HIDE DEF redeemed
<1>9. totalRedeemed \in Nat
  BY <1>3, <1>8
<1>10. amountToLiquidate \in Nat
  BY <1>3, <1>4, <1>7, DivideNat, MultiplyNat
<1> HIDE DEF short, totalRedeemed, amountToLiquidate
<1> QED BY <1>2, <1>6, <1>9, <1>10 DEF debt

\* Issuer.liquidateDelinquentAccount keeps the invariant.
LEMMA LiquidatePreserves ==
  ASSUME IInv, NEW account \in Accounts, NEW susdAmount \in Amounts,
         NEW liquidator \in Accounts,
         LiquidateDelinquentAccount(account, susdAmount, liquidator)
  PROVE  IInv'
<1>1. LedgersTypeOK /\ RegisterInv
  BY IInvParts
<1>2. PICK burned, redeemed \in Nat :
        /\ removeFromDebtRegister(account, burned, debtInSUSD(account), totalIssuedSynths)
        /\ CanBurn(sUSD[liquidator], sUSDSupply, burned)
        /\ sUSD' = [sUSD EXCEPT ![liquidator] = @ - burned]
        /\ sUSDSupply' = sUSDSupply - burned
        /\ redeemed <= snx[account]
        /\ snx' = Moved(snx, account, liquidator, redeemed)
  BY LiquidationEffects
<1>3. /\ hasIssued(account)
      /\ removeAccountInLiquidation(account) \/ UNCHANGED deadline
      /\ UNCHANGED <<now, escrowed, priceVars, pending, lastIssueEvent, suspended>>
  BY LiquidationEffects
<1>4. debtInSUSD(account) \in Nat /\ totalIssuedSynths \in Nat
  BY ViewsNat DEF LiquidateDelinquentAccount
<1>5. RegisterInv'
  BY <1>1, <1>2, <1>3, <1>4, RemovePreservesRegister
<1>6. deadline' \in [Accounts -> Nat]
  BY <1>1, <1>3, FlagsNat
<1>7. snx' \in [Accounts -> Nat]
  BY <1>1, <1>2, MovedNat DEF LedgersTypeOK
<1>8. sUSD' \in [Accounts -> Nat] /\ sUSDSupply' \in Nat
  BY <1>1, <1>2 DEF LedgersTypeOK, CanBurn
<1>9. LedgersTypeOK'
  BY <1>1, <1>3, <1>6, <1>7, <1>8 DEF LedgersTypeOK, snxVars, priceVars
<1> QED BY <1>5, <1>9 DEF IInv, TypeOK, LedgersTypeOK, RegisterInv

\* Flagging and unflagging an account keeps the invariant.
LEMMA FlagsPreserve ==
  ASSUME IInv, NEW a \in Accounts,
         FlagAccountForLiquidation(a) \/ CheckAndRemoveAccountInLiquidation(a)
  PROVE  IInv'
<1>1. LedgersTypeOK /\ RegisterInv
  BY IInvParts
<1>2. /\ UNCHANGED registerVars
      /\ UNCHANGED <<now, tokenVars, priceVars, pending, lastIssueEvent, suspended>>
  BY DEF FlagAccountForLiquidation, CheckAndRemoveAccountInLiquidation
<1>3. deadline' \in [Accounts -> Nat]
  <2>1. CASE FlagAccountForLiquidation(a)
    <3>1. now + LiquidationDelay \in Nat
      BY <1>1, LiquidationAssumption DEF LedgersTypeOK
    <3> QED BY <2>1, <3>1, <1>1 DEF FlagAccountForLiquidation, flagAccount, LedgersTypeOK
  <2>2. CASE CheckAndRemoveAccountInLiquidation(a)
    BY <2>2, <1>1, FlagsNat DEF CheckAndRemoveAccountInLiquidation, checkAndRemoveAccount
  <2> QED BY <2>1, <2>2
<1>4. RegisterInv'
  BY <1>1, <1>2, RegisterUnchanged
<1>5. LedgersTypeOK'
  BY <1>1, <1>2, <1>3 DEF LedgersTypeOK, tokenVars, snxVars, priceVars
<1> QED BY <1>4, <1>5 DEF IInv, TypeOK, LedgersTypeOK, RegisterInv

\* Transfers, settlements and exchanges leave the register alone.
LEMMA TokensPreserve ==
  ASSUME IInv, TokenNext
  PROVE  IInv'
<1>1. LedgersTypeOK /\ RegisterInv
  BY IInvParts
<1>2. PICK a \in Accounts :
        \/ \E b \in Accounts, value \in Transfers :
             TransferSNX(a, b, value) \/ TransferSUSD(a, b, value)
        \/ \E quantity \in Transfers : Vest(a, quantity)
        \/ SettleSUSD(a)
        \/ \E amount \in Amounts : ExchangeFromSUSD(a, amount)
        \/ \E amount \in Amounts, owed \in Adjustments : ExchangeToSUSD(a, amount, owed)
  BY DEF TokenNext
<1>3. UNCHANGED registerVars /\ LedgersTypeOK'
  <2>1. ASSUME NEW b \in Accounts, NEW value \in Transfers, TransferSNX(a, b, value)
        PROVE  UNCHANGED registerVars /\ LedgersTypeOK'
    <3>1. snx' \in [Accounts -> Nat]
      BY <2>1, <1>1, MovedNat, IssuerAssumption DEF TransferSNX, LedgersTypeOK
    <3> QED BY <2>1, <3>1, <1>1 DEF TransferSNX, LedgersTypeOK, snxVars, priceVars
  <2>2. ASSUME NEW b \in Accounts, NEW value \in Transfers, TransferSUSD(a, b, value)
        PROVE  UNCHANGED registerVars /\ LedgersTypeOK'
    <3>1. value \in Nat /\ value <= sUSD[a]
      BY <2>2, <1>1, IssuerAssumption DEF TransferSUSD, transferableSynths, LedgersTypeOK
    <3>2. sUSD' \in [Accounts -> Nat]
      BY <2>2, <3>1, <1>1, MovedNat DEF TransferSUSD, LedgersTypeOK
    <3> QED BY <2>2, <3>2, <1>1 DEF TransferSUSD, LedgersTypeOK, snxVars, priceVars
  <2>3. CASE SettleSUSD(a)
    <3>1. sUSD[a] + NetSettled(a) \in Nat /\ sUSDSupply + NetSettled(a) \in Nat
      BY <2>3, <1>1 DEF SettleSUSD, CanSettle, NetSettled, LedgersTypeOK
    <3> QED BY <2>3, <3>1, <1>1, NoEntriesType DEF SettleSUSD, LedgersTypeOK, snxVars, priceVars
  <2>4. ASSUME NEW amount \in Amounts, ExchangeFromSUSD(a, amount)
        PROVE  UNCHANGED registerVars /\ LedgersTypeOK'
    <3>1. sUSD[a] - amount \in Nat /\ sUSDSupply - amount \in Nat /\ amount \in Nat
      BY <2>4, <1>1, IssuerAssumption DEF ExchangeFromSUSD, CanBurn, LedgersTypeOK
    <3> QED BY <2>4, <3>1, <1>1 DEF ExchangeFromSUSD, LedgersTypeOK, snxVars
  <2>5. ASSUME NEW amount \in Amounts, NEW owed \in Adjustments,
               ExchangeToSUSD(a, amount, owed)
        PROVE  UNCHANGED registerVars /\ LedgersTypeOK'
    <3>1. /\ amount \in Nat /\ otherSynths - amount \in Nat
          /\ owed[1] \in Nat /\ owed[2] \in Nat
      BY <2>5, <1>1, IssuerAssumption DEF ExchangeToSUSD, LedgersTypeOK
    <3>2. [until |-> now + WaitingPeriod, reclaim |-> owed[1], rebate |-> owed[2]]
            \in [until : Nat, reclaim : Nat, rebate : Nat]
      BY <3>1, <1>1, IssuerAssumption DEF LedgersTypeOK
    <3> QED BY <2>5, <3>1, <3>2, <1>1 DEF ExchangeToSUSD, LedgersTypeOK, snxVars
  <2>6. ASSUME NEW quantity \in Transfers, Vest(a, quantity)
        PROVE  UNCHANGED registerVars /\ LedgersTypeOK'
    <3>1. escrowed[a] - quantity \in Nat /\ quantity \in Nat
      BY <2>6, <1>1, IssuerAssumption DEF Vest, LedgersTypeOK
    <3> QED BY <2>6, <3>1, <1>1 DEF Vest, LedgersTypeOK, priceVars
  <2> QED BY <1>2, <2>1, <2>2, <2>3, <2>4, <2>5, <2>6
<1> QED BY <1>1, <1>3, RegisterUnchanged DEF IInv, TypeOK, LedgersTypeOK, RegisterInv

\* Prices, suspensions and time keep the invariant.
LEMMA EnvironmentPreserves ==
  ASSUME IInv, EnvironmentNext
  PROVE  IInv'
<1>1. LedgersTypeOK /\ RegisterInv
  BY IInvParts
<1>2. UNCHANGED registerVars
  BY DEF EnvironmentNext, UpdateRates, UpdateSuspension, Tick
<1>3. LedgersTypeOK'
  <2>1. CASE UpdateRates
    BY <2>1, <1>1, IssuerAssumption DEF UpdateRates, LedgersTypeOK, tokenVars, snxVars
  <2>2. CASE UpdateSuspension
    BY <2>2, <1>1 DEF UpdateSuspension, LedgersTypeOK, tokenVars, snxVars, priceVars
  <2>3. CASE Tick
    BY <2>3, <1>1 DEF Tick, LedgersTypeOK, tokenVars, snxVars, priceVars
  <2> QED BY <2>1, <2>2, <2>3 DEF EnvironmentNext
<1> QED BY <1>1, <1>2, <1>3, RegisterUnchanged DEF IInv, TypeOK, LedgersTypeOK, RegisterInv
------------------------------------------------------------------------------
\* The deployed contracts satisfy the invariant.
LEMMA InitEstablishes == Init => IInv
<1> SUFFICES ASSUME Init PROVE IInv
  OBVIOUS
<1>1. Issuers = {}
  BY DEF Init, SynthetixStateInit, Issuers, hasIssued
<1>2. RegisterInv
  BY <1>1, FS_EmptySet DEF Init, SynthetixStateInit, RegisterInv, RegisterTypeOK,
     EntriesInLedger, IssuerCountCoversIssuers, IssuanceData
<1>3. LedgersTypeOK
  BY IssuerAssumption, NoEntriesType DEF Init, LiquidationsInit, LedgersTypeOK
<1> QED BY <1>2, <1>3, IInvParts

\* Every step keeps the invariant.
LEMMA NextPreserves == IInv /\ [Next]_vars => IInv'
<1> SUFFICES ASSUME IInv, [Next]_vars PROVE IInv'
  OBVIOUS
<1>1. CASE IssuerNext
  <2>1. PICK a \in Accounts :
          \/ \E amount \in Amounts : IssueSynths(a, amount)
          \/ IssueMaxSynths(a)
          \/ \E amount \in Amounts : BurnSynths(a, amount)
          \/ BurnSynthsToTarget(a)
          \/ \E amount \in Amounts, b \in Accounts : LiquidateDelinquentAccount(a, amount, b)
    BY <1>1 DEF IssuerNext, IssuerStep
  <2> QED BY <2>1, IssuePreserves, BurnPreserves, BurnToTargetPreserves, LiquidatePreserves
<1>2. CASE LiquidationsNext
  BY <1>2, FlagsPreserve DEF LiquidationsNext
<1>3. CASE TokenNext
  BY <1>3, TokensPreserve
<1>4. CASE EnvironmentNext
  BY <1>4, EnvironmentPreserves
<1>5. CASE UNCHANGED vars
  <2>1. LedgersTypeOK /\ RegisterInv
    BY IInvParts
  <2> QED BY <1>5, <2>1, RegisterUnchanged
          DEF vars, tokenVars, snxVars, priceVars, IInv, TypeOK, LedgersTypeOK, RegisterInv
<1> QED BY <1>1, <1>2, <1>3, <1>4, <1>5 DEF Next

\* The invariant holds of every behaviour of the Issuer.
THEOREM Invariance == Spec => []IInv
BY InitEstablishes, NextPreserves, PTL DEF Spec

\* No balance, supply, share, deadline or count ever goes below zero, and no
\* ledger entry is anything but a natural number, whatever is called when.
THEOREM TypeCorrect == Spec => []TypeOK
<1>1. IInv => TypeOK
  BY DEF IInv
<1> QED BY <1>1, Invariance, PTL

\* debtBalanceOf always finds the ledger entry an account's share refers to.
THEOREM EntriesStayInLedger == Spec => []EntriesInLedger
<1>1. IInv => EntriesInLedger
  BY DEF IInv
<1> QED BY <1>1, Invariance, PTL

\* The issuer count never runs short, so decrementTotalIssuerCount never
\* reverts for an account that leaves the system.
THEOREM IssuerCountNeverShort == Spec => []IssuerCountCoversIssuers
<1>1. IInv => IssuerCountCoversIssuers
  BY DEF IInv
<1> QED BY <1>1, Invariance, PTL

\* While the system is suspended every handler of every contract refuses, so
\* nobody's debt, tokens, flag or pending settlement moves.
THEOREM SuspensionFreezes == Spec => SuspensionFreezesTheSystem
<1>1. ASSUME [Next]_vars, ~systemActive
      PROVE  UNCHANGED <<registerVars, deadline, tokenVars, pending>>
  <2>1. ~IssuerNext
    BY <1>1 DEF IssuerNext, IssuerStep, IssueSynths, IssueMaxSynths, BurnSynths, BurnSynthsToTarget,
                LiquidateDelinquentAccount, issuanceActive, systemActive
  <2>2. ~LiquidationsNext
    BY <1>1 DEF LiquidationsNext, FlagAccountForLiquidation,
                CheckAndRemoveAccountInLiquidation
  <2>3. ~TokenNext
    BY <1>1 DEF TokenNext, TransferSNX, Vest, TransferSUSD, SettleSUSD, CanSettle,
                ExchangeFromSUSD, ExchangeToSUSD, exchangeActive, systemActive
  <2>4. EnvironmentNext => UNCHANGED <<registerVars, deadline, tokenVars, pending>>
    BY DEF EnvironmentNext, UpdateRates, UpdateSuspension, Tick
  <2>5. UNCHANGED vars => UNCHANGED <<registerVars, deadline, tokenVars, pending>>
    BY DEF vars, registerVars, tokenVars
  <2> QED BY <1>1, <2>1, <2>2, <2>3, <2>4, <2>5 DEF Next
<1> QED BY <1>1, PTL DEF Spec, SuspensionFreezesTheSystem
------------------------------------------------------------------------------
(* The supply of sUSD. *)

\* The sum over the accounts, as the lemmas about sums know it.
LEMMA SupplyAsSum ==
  /\ SupplyIsBacked <=> sUSDSupply = sumOver(sUSD, Accounts)
  /\ SupplyIsBacked' <=> sUSDSupply' = sumOver(sUSD', Accounts)
BY DEF SupplyIsBacked, sumOver, MapThenSumSet, MapThenFoldSet

\* Synth.issue and Synth.burn change a balance and the supply by the same amount.
LEMMA MintAndBurnKeepBacking ==
  ASSUME SupplyIsBacked, LedgersTypeOK, NEW a \in Accounts, NEW d \in Int,
         sUSD' = [sUSD EXCEPT ![a] = sUSD[a] + d], sUSDSupply' = sUSDSupply + d
  PROVE  SupplyIsBacked'
<1> DEFINE after == [sUSD EXCEPT ![a] = sUSD[a] + d]
<1>1. sUSD \in [Accounts -> Nat] /\ sUSDSupply \in Nat
  BY DEF LedgersTypeOK
<1>2. /\ \A x \in Accounts : sUSD[x] \in Int
      /\ after[a] = sUSD[a] + d /\ after[a] \in Int
      /\ \A x \in Accounts : x # a => after[x] = sUSD[x]
  BY <1>1
<1>3. sUSD' = after
  OBVIOUS
<1> HIDE DEF after
<1>4. /\ sumOver(after, Accounts) = sumOver(sUSD, Accounts) + (after[a] - sUSD[a])
      /\ sumOver(sUSD, Accounts) \in Int
  BY <1>2, AccountsAssumption, SumOfChanged
<1>5. sUSDSupply = sumOver(sUSD, Accounts)
  BY SupplyAsSum
<1>6. sUSD[a] \in Int /\ after[a] - sUSD[a] = d
  BY <1>1, <1>2
<1>7. sUSDSupply' = sumOver(after, Accounts)
  BY <1>4, <1>5, <1>6
<1>8. sUSDSupply' = sumOver(sUSD', Accounts)
  BY <1>3, <1>7
<1> QED BY <1>8, SupplyAsSum

\* ExternStateToken._internalTransfer keeps the sum, also from an account to itself.
LEMMA TransferKeepsSum ==
  ASSUME NEW balance \in [Accounts -> Nat], NEW from \in Accounts, NEW to \in Accounts,
         NEW v \in Nat, v <= balance[from]
  PROVE  sumOver(Moved(balance, from, to, v), Accounts) = sumOver(balance, Accounts)
<1> DEFINE taken == [balance EXCEPT ![from] = @ - v]
           after == [taken EXCEPT ![to] = @ + v]
<1>1. /\ \A x \in Accounts : balance[x] \in Int
      /\ taken[from] = balance[from] - v /\ taken[from] \in Int
      /\ \A x \in Accounts : x # from => taken[x] = balance[x]
  OBVIOUS
<1>2. taken \in [Accounts -> Int]
  OBVIOUS
<1> HIDE DEF taken
<1>3. /\ \A x \in Accounts : taken[x] \in Int
      /\ after[to] = taken[to] + v /\ after[to] \in Int
      /\ \A x \in Accounts : x # to => after[x] = taken[x]
  BY <1>2
<1> HIDE DEF after
<1>4. /\ sumOver(taken, Accounts) = sumOver(balance, Accounts) + (taken[from] - balance[from])
      /\ sumOver(balance, Accounts) \in Int
  BY <1>1, AccountsAssumption, SumOfChanged
<1>5. sumOver(after, Accounts) = sumOver(taken, Accounts) + (after[to] - taken[to])
  BY <1>3, AccountsAssumption, SumOfChanged
<1>6. taken[from] - balance[from] = 0 - v /\ after[to] - taken[to] = v
  BY <1>1, <1>2, <1>3
<1>7. sumOver(after, Accounts) = sumOver(balance, Accounts)
  BY <1>4, <1>5, <1>6
<1> QED BY <1>7 DEF Moved, taken, after

\* The operations of the Issuer.
LEMMA IssuerKeepsBacking ==
  ASSUME IInv, SupplyIsBacked, IssuerNext
  PROVE  SupplyIsBacked'
<1>1. LedgersTypeOK
  BY IInvParts
<1>2. ASSUME NEW a \in Accounts, NEW amount \in Nat, internalIssueSynths(a, amount)
      PROVE  SupplyIsBacked'
  <2>1. sUSD' = [sUSD EXCEPT ![a] = sUSD[a] + amount] /\ sUSDSupply' = sUSDSupply + amount
    BY <1>2 DEF internalIssueSynths
  <2>2. amount \in Int
    OBVIOUS
  <2> QED BY <1>1, <2>1, <2>2, MintAndBurnKeepBacking
<1>3. ASSUME NEW a \in Accounts, NEW amount \in Nat, NEW existingDebt \in Nat, NEW total,
             NEW settled \in Int,
             internalBurnSynths(a, amount, existingDebt, total,
                                sUSD[a] + settled, sUSDSupply + settled)
      PROVE  SupplyIsBacked'
  <2> DEFINE burned == IF existingDebt < amount THEN existingDebt ELSE amount
  <2>1. burned \in Nat
    OBVIOUS
  <2> HIDE DEF burned
  <2>2. /\ sUSD' = [sUSD EXCEPT ![a] = (sUSD[a] + settled) - burned]
        /\ sUSDSupply' = (sUSDSupply + settled) - burned
    BY <1>3 DEF internalBurnSynths, burned
  <2>3. settled - burned \in Int /\ sUSD[a] \in Int /\ sUSDSupply \in Int
    BY <1>1, <2>1 DEF LedgersTypeOK
  <2>4. /\ (sUSD[a] + settled) - burned = sUSD[a] + (settled - burned)
        /\ (sUSDSupply + settled) - burned = sUSDSupply + (settled - burned)
    BY <2>1, <2>3
  <2>5. /\ sUSD' = [sUSD EXCEPT ![a] = sUSD[a] + (settled - burned)]
        /\ sUSDSupply' = sUSDSupply + (settled - burned)
    BY <2>2, <2>4
  <2> QED BY <1>1, <2>3, <2>5, MintAndBurnKeepBacking
<1>4. PICK a \in Accounts : IssuerStep(a)
  BY DEF IssuerNext
<1>5. ASSUME NEW amount \in Amounts, IssueSynths(a, amount) PROVE SupplyIsBacked'
  BY <1>2, <1>5, IssuerAssumption DEF IssueSynths
<1>6. CASE IssueMaxSynths(a)
  BY <1>2, <1>6, RemainingNat DEF IssueMaxSynths
<1>7. ASSUME NEW amount \in Amounts, BurnSynths(a, amount) PROVE SupplyIsBacked'
  <2> DEFINE balance == sUSD[a] + NetSettled(a)
             total == (sUSDSupply + NetSettled(a)) + otherSynths
             refunded == IF NetSettled(a) > 0 THEN NetSettled(a) ELSE 0
             afterSettlement ==
               IF pending[a].until = 0 THEN amount
               ELSE (IF amount > balance THEN balance ELSE amount) + refunded
  <2>1. /\ pending[a].reclaim \in Nat /\ pending[a].rebate \in Nat
        /\ sUSD[a] \in Nat /\ sUSDSupply \in Nat /\ otherSynths \in Nat /\ amount \in Nat
    BY <1>1, IssuerAssumption DEF LedgersTypeOK
  <2>2. CanSettle(a) /\ DebtIsDefined(a)
    BY <1>7 DEF BurnSynths
  <2>3. NetSettled(a) \in Int /\ balance \in Nat /\ total \in Nat /\ refunded \in Nat
    BY <2>1, <2>2 DEF CanSettle, NetSettled
  <2> HIDE DEF total, balance, refunded
  <2>4. afterSettlement \in Nat
    BY <2>1, <2>3
  <2>5. debtBalance(a, total) \in Nat
    BY <2>2, <2>3, DebtBalanceNat DEF IInv, TypeOK
  <2> HIDE DEF afterSettlement
  <2>6. internalBurnSynths(a, afterSettlement, debtBalance(a, total), total,
                           sUSD[a] + NetSettled(a), sUSDSupply + NetSettled(a))
    BY <1>7 DEF BurnSynths, settledPool, afterSettlement, total, balance, refunded
  <2> QED BY <1>3, <2>3, <2>4, <2>5, <2>6
<1>8. CASE BurnSynthsToTarget(a)
  <2>1. /\ debtInSUSD(a) \in Nat /\ maxIssuableSynths(a) \in Nat
        /\ debtInSUSD(a) >= maxIssuableSynths(a)
    BY <1>8, ViewsNat DEF BurnSynthsToTarget
  <2>2. sUSD[a] + 0 = sUSD[a] /\ sUSDSupply + 0 = sUSDSupply
    BY <1>1 DEF LedgersTypeOK
  <2>3. internalBurnSynths(a, debtInSUSD(a) - maxIssuableSynths(a), debtInSUSD(a),
                           totalIssuedSynths, sUSD[a] + 0, sUSDSupply + 0)
    BY <1>8, <2>2 DEF BurnSynthsToTarget
  <2>4. debtInSUSD(a) - maxIssuableSynths(a) \in Nat
    BY <2>1
  <2> QED BY <1>3, <2>1, <2>3, <2>4
<1>9. ASSUME NEW amount \in Amounts, NEW b \in Accounts,
             LiquidateDelinquentAccount(a, amount, b)
      PROVE  SupplyIsBacked'
  <2>1. PICK burned \in Nat :
          /\ sUSD' = [sUSD EXCEPT ![b] = @ - burned]
          /\ sUSDSupply' = sUSDSupply - burned
    BY <1>9, LiquidationEffects
  <2>2. /\ 0 - burned \in Int
        /\ sUSD[b] - burned = sUSD[b] + (0 - burned)
        /\ sUSDSupply - burned = sUSDSupply + (0 - burned)
    BY <1>1, <2>1 DEF LedgersTypeOK
  <2>3. /\ sUSD' = [sUSD EXCEPT ![b] = sUSD[b] + (0 - burned)]
        /\ sUSDSupply' = sUSDSupply + (0 - burned)
    BY <2>1, <2>2
  <2> QED BY <1>1, <2>2, <2>3, MintAndBurnKeepBacking
<1> QED BY <1>4, <1>5, <1>6, <1>7, <1>8, <1>9 DEF IssuerStep

\* Transfers, settlements and exchanges.
LEMMA TokensKeepBacking ==
  ASSUME IInv, SupplyIsBacked, TokenNext
  PROVE  SupplyIsBacked'
<1>1. LedgersTypeOK
  BY IInvParts
<1>2. PICK a \in Accounts :
        \/ \E b \in Accounts, value \in Transfers :
             TransferSNX(a, b, value) \/ TransferSUSD(a, b, value)
        \/ \E quantity \in Transfers : Vest(a, quantity)
        \/ SettleSUSD(a)
        \/ \E amount \in Amounts : ExchangeFromSUSD(a, amount)
        \/ \E amount \in Amounts, owed \in Adjustments : ExchangeToSUSD(a, amount, owed)
  BY DEF TokenNext
<1>3. ASSUME UNCHANGED <<sUSD, sUSDSupply>> PROVE SupplyIsBacked'
  BY <1>3, SupplyAsSum
<1>4. ASSUME NEW b \in Accounts, NEW value \in Transfers, TransferSUSD(a, b, value)
      PROVE  SupplyIsBacked'
  <2>1. value \in Nat /\ value <= sUSD[a] /\ sUSD \in [Accounts -> Nat]
    BY <1>1, <1>4, IssuerAssumption DEF TransferSUSD, transferableSynths, LedgersTypeOK
  <2>2. sumOver(Moved(sUSD, a, b, value), Accounts) = sumOver(sUSD, Accounts)
    BY <2>1, TransferKeepsSum
  <2>3. sUSD' = Moved(sUSD, a, b, value) /\ sUSDSupply' = sUSDSupply
    BY <1>4 DEF TransferSUSD
  <2>4. sUSDSupply' = sumOver(sUSD', Accounts)
    BY <2>2, <2>3, SupplyAsSum
  <2> QED BY <2>4, SupplyAsSum
<1>5. CASE SettleSUSD(a)
  <2>1. NetSettled(a) \in Int
    BY <1>1 DEF NetSettled, LedgersTypeOK
  <2> QED BY <1>1, <1>5, <2>1, MintAndBurnKeepBacking DEF SettleSUSD
<1>6. ASSUME NEW amount \in Amounts, ExchangeFromSUSD(a, amount) PROVE SupplyIsBacked'
  <2>1. /\ 0 - amount \in Int
        /\ sUSD[a] - amount = sUSD[a] + (0 - amount)
        /\ sUSDSupply - amount = sUSDSupply + (0 - amount)
    BY <1>1, IssuerAssumption DEF LedgersTypeOK
  <2>2. /\ sUSD' = [sUSD EXCEPT ![a] = sUSD[a] + (0 - amount)]
        /\ sUSDSupply' = sUSDSupply + (0 - amount)
    BY <1>6, <2>1 DEF ExchangeFromSUSD
  <2> QED BY <1>1, <2>1, <2>2, MintAndBurnKeepBacking
<1>7. ASSUME NEW amount \in Amounts, NEW owed \in Adjustments,
             ExchangeToSUSD(a, amount, owed)
      PROVE  SupplyIsBacked'
  <2>1. amount \in Int
    BY IssuerAssumption
  <2>2. sUSD' = [sUSD EXCEPT ![a] = sUSD[a] + amount] /\ sUSDSupply' = sUSDSupply + amount
    BY <1>7 DEF ExchangeToSUSD
  <2> QED BY <1>1, <2>1, <2>2, MintAndBurnKeepBacking
<1>8. ASSUME NEW b, NEW value, TransferSNX(a, b, value) \/ Vest(a, value)
      PROVE  SupplyIsBacked'
  BY <1>3, <1>8 DEF TransferSNX, Vest
<1> QED BY <1>2, <1>4, <1>5, <1>6, <1>7, <1>8

\* No account holds anything at first.
LEMMA NothingIssuedAtFirst == Init => SupplyIsBacked
<1> SUFFICES ASSUME Init PROVE SupplyIsBacked
  OBVIOUS
<1> DEFINE nothing == [a \in Accounts |-> 0]
<1>1. sUSD = nothing /\ sUSDSupply = 0
  BY DEF Init
<1>2. sumOver(nothing, Accounts) = 0
  <2>1. \A x \in Accounts : nothing[x] \in Int /\ nothing[x] = nothing[x] + nothing[x]
    OBVIOUS
  <2> HIDE DEF nothing
  <2> QED BY <2>1, AccountsAssumption, SumOfTwo
<1> QED BY <1>1, <1>2, SupplyAsSum

\* totalSupply of sUSD is the sum of the balances: every issue, burn, liquidation,
\* settlement, exchange and transfer changes both, or neither, by the same amount.
THEOREM SupplyStaysBacked == Spec => []SupplyIsBacked
<1>1. ASSUME IInv, SupplyIsBacked, [Next]_vars PROVE SupplyIsBacked'
  <2>1. CASE UNCHANGED <<sUSD, sUSDSupply>>
    BY <1>1, <2>1, SupplyAsSum
  <2>2. LiquidationsNext \/ EnvironmentNext \/ UNCHANGED vars => UNCHANGED <<sUSD, sUSDSupply>>
    BY DEF LiquidationsNext, FlagAccountForLiquidation, CheckAndRemoveAccountInLiquidation,
           EnvironmentNext, UpdateRates, UpdateSuspension, Tick, vars, tokenVars
  <2> QED BY <1>1, <2>1, <2>2, IssuerKeepsBacking, TokensKeepBacking DEF Next
<1> QED BY <1>1, Invariance, NothingIssuedAtFirst, PTL DEF Spec
------------------------------------------------------------------------------
(* What an exchange into sUSD may have to give back. *)

\* Time has begun, and what is owed belongs to an exchange that is pending.
EntriesOweInv ==
  /\ now > 0
  /\ \A a \in Accounts : pending[a].until = 0 => pending[a].reclaim = 0

LEMMA EntriesOweStep ==
  ASSUME IInv, EntriesOweInv, [Next]_vars
  PROVE  EntriesOweInv'
<1> USE DEF EntriesOweInv
<1>1. LedgersTypeOK
  BY IInvParts
<1>2. CASE UNCHANGED <<now, pending>>
  BY <1>2
<1>3. ASSUME NEW a \in Accounts, pending' = [pending EXCEPT ![a] = NoEntries], now' = now
      PROVE  EntriesOweInv'
  BY <1>1, <1>3 DEF LedgersTypeOK, NoEntries
<1>4. ASSUME NEW a \in Accounts, NEW amount \in Amounts, NEW owed \in Adjustments,
             ExchangeToSUSD(a, amount, owed)
      PROVE  EntriesOweInv'
  <2>1. now + WaitingPeriod > 0
    BY <1>1, IssuerAssumption DEF LedgersTypeOK
  <2>2. pending' = [pending EXCEPT ![a] =
          [until |-> now + WaitingPeriod, reclaim |-> owed[1], rebate |-> owed[2]]]
    BY <1>4 DEF ExchangeToSUSD
  <2>3. now' = now
    BY <1>4 DEF ExchangeToSUSD
  <2>4. \A b \in Accounts : b # a => pending'[b] = pending[b]
    BY <1>1, <2>2 DEF LedgersTypeOK
  <2>5. pending'[a].until = now + WaitingPeriod
    BY <1>1, <2>2 DEF LedgersTypeOK
  <2> QED BY <2>1, <2>3, <2>4, <2>5
<1>5. CASE Tick
  BY <1>1, <1>5 DEF Tick, LedgersTypeOK
<1>6. CASE IssuerNext
  <2>1. PICK a \in Accounts : IssuerStep(a)
    BY <1>6 DEF IssuerNext
  <2>2. now' = now /\ (pending' = pending \/ pending' = [pending EXCEPT ![a] = NoEntries])
    BY <2>1 DEF IssuerStep, IssueSynths, IssueMaxSynths, internalIssueSynths, BurnSynths,
                BurnSynthsToTarget, internalBurnSynths, LiquidateDelinquentAccount
  <2> QED BY <1>2, <1>3, <2>2
<1>7. CASE TokenNext
  <2>1. PICK a \in Accounts :
          \/ \E b \in Accounts, value \in Transfers :
               TransferSNX(a, b, value) \/ TransferSUSD(a, b, value)
          \/ \E quantity \in Transfers : Vest(a, quantity)
          \/ SettleSUSD(a)
          \/ \E amount \in Amounts : ExchangeFromSUSD(a, amount)
          \/ \E amount \in Amounts, owed \in Adjustments : ExchangeToSUSD(a, amount, owed)
    BY <1>7 DEF TokenNext
  <2>2. CASE SettleSUSD(a)
    BY <1>3, <2>2 DEF SettleSUSD
  <2>3. ASSUME NEW b, NEW value,
               \/ TransferSNX(a, b, value) \/ TransferSUSD(a, b, value)
               \/ Vest(a, value) \/ ExchangeFromSUSD(a, value)
        PROVE  UNCHANGED <<now, pending>>
    BY <2>3 DEF TransferSNX, TransferSUSD, Vest, ExchangeFromSUSD
  <2> QED BY <1>2, <1>4, <2>1, <2>2, <2>3
<1>8. LiquidationsNext \/ UpdateRates \/ UpdateSuspension \/ UNCHANGED vars
        => UNCHANGED <<now, pending>>
  BY DEF LiquidationsNext, FlagAccountForLiquidation, CheckAndRemoveAccountInLiquidation,
         UpdateRates, UpdateSuspension, vars
<1> QED BY <1>2, <1>5, <1>6, <1>7, <1>8 DEF Next, EnvironmentNext

\* Nothing is pending at first.
LEMMA EntriesOweInit == Init => EntriesOweInv
BY DEF Init, LiquidationsInit, EntriesOweInv, NoEntries

\* An account stays covered when it owes nothing, or when its entries stay and
\* its balance does not fall.
LEMMA StaysCovered ==
  ASSUME IInv, IInv', NEW b \in Accounts, ReclaimIsCovered(b),
         \/ pending'[b].reclaim = 0
         \/ pending'[b] = pending[b] /\ sUSD'[b] >= sUSD[b]
  PROVE  ReclaimIsCovered(b)'
<1>1. /\ pending[b].reclaim \in Nat /\ pending[b].rebate \in Nat /\ sUSD[b] \in Nat
      /\ pending'[b].reclaim \in Nat /\ pending'[b].rebate \in Nat /\ sUSD'[b] \in Nat
  BY DEF IInv, TypeOK
<1>2. ReclaimIsCovered(b)' <=> sUSD'[b] + pending'[b].rebate >= pending'[b].reclaim
  BY DEF ReclaimIsCovered
<1> QED BY <1>1, <1>2 DEF ReclaimIsCovered

\* The operations of the Issuer.
LEMMA IssuerKeepsCover ==
  ASSUME IInv, IInv', IssuerNext, NEW b \in Accounts, ReclaimIsCovered(b)
  PROVE  ReclaimIsCovered(b)' \/ BurnSynthsToTarget(b)
<1>1. LedgersTypeOK
  BY IInvParts
<1>2. PICK a \in Accounts : IssuerStep(a)
  BY DEF IssuerNext
<1>3. ASSUME NEW amount \in Nat, internalIssueSynths(a, amount) PROVE ReclaimIsCovered(b)'
  <2>1. pending' = pending /\ sUSD' = [sUSD EXCEPT ![a] = @ + amount]
    BY <1>3 DEF internalIssueSynths
  <2>2. sUSD'[b] >= sUSD[b]
    BY <1>1, <2>1 DEF LedgersTypeOK
  <2> QED BY <2>1, <2>2, StaysCovered
<1>4. ASSUME NEW amount \in Amounts, IssueSynths(a, amount) PROVE ReclaimIsCovered(b)'
  BY <1>3, <1>4, IssuerAssumption DEF IssueSynths
<1>5. CASE IssueMaxSynths(a)
  BY <1>3, <1>5, RemainingNat DEF IssueMaxSynths
<1>6. ASSUME pending' = pending \/ pending' = [pending EXCEPT ![a] = NoEntries],
             NEW v, sUSD' = [sUSD EXCEPT ![a] = v], b # a
      PROVE  ReclaimIsCovered(b)'
  <2>1. pending'[b] = pending[b] /\ sUSD'[b] >= sUSD[b]
    BY <1>1, <1>6 DEF LedgersTypeOK
  <2> QED BY <2>1, StaysCovered
<1>7. ASSUME NEW amount \in Amounts, BurnSynths(a, amount) PROVE ReclaimIsCovered(b)'
  <2>1. /\ pending' = [pending EXCEPT ![a] = NoEntries]
        /\ \E v : sUSD' = [sUSD EXCEPT ![a] = v]
    BY <1>7 DEF BurnSynths, internalBurnSynths
  <2>2. CASE b = a
    <3>1. pending'[b].reclaim = 0
      BY <1>1, <2>1, <2>2 DEF LedgersTypeOK, NoEntries
    <3> QED BY <3>1, StaysCovered
  <2> QED BY <1>6, <2>1, <2>2
<1>8. CASE BurnSynthsToTarget(a)
  <2>1. pending' = pending /\ \E v : sUSD' = [sUSD EXCEPT ![a] = v]
    BY <1>8 DEF BurnSynthsToTarget, internalBurnSynths
  <2> QED BY <1>6, <1>8, <2>1
<1>9. ASSUME NEW amount \in Amounts, NEW liquidator \in Accounts,
             LiquidateDelinquentAccount(a, amount, liquidator)
      PROVE  ReclaimIsCovered(b)'
  <2>1. pending' = pending /\ \E v : sUSD' = [sUSD EXCEPT ![liquidator] = v]
    BY <1>9 DEF LiquidateDelinquentAccount
  <2>2. pending[liquidator].reclaim = 0
    BY <1>1, <1>9 DEF LiquidateDelinquentAccount, settlementOwing, LedgersTypeOK
  <2>3. CASE b = liquidator
    BY <2>1, <2>2, <2>3, StaysCovered
  <2>4. CASE b # liquidator
    <3>1. pending'[b] = pending[b] /\ sUSD'[b] >= sUSD[b]
      BY <1>1, <2>1, <2>4 DEF LedgersTypeOK
    <3> QED BY <3>1, StaysCovered
  <2> QED BY <2>3, <2>4
<1> QED BY <1>2, <1>4, <1>5, <1>7, <1>8, <1>9 DEF IssuerStep

\* Transfers, settlements and exchanges.
LEMMA TokensKeepCover ==
  ASSUME IInv, IInv', EntriesOweInv, TokenNext, NEW b \in Accounts, ReclaimIsCovered(b)
  PROVE  ReclaimIsCovered(b)'
<1>1. LedgersTypeOK
  BY IInvParts
<1>2. PICK a \in Accounts :
        \/ \E c \in Accounts, value \in Transfers :
             TransferSNX(a, c, value) \/ TransferSUSD(a, c, value)
        \/ \E quantity \in Transfers : Vest(a, quantity)
        \/ SettleSUSD(a)
        \/ \E amount \in Amounts : ExchangeFromSUSD(a, amount)
        \/ \E amount \in Amounts, owed \in Adjustments : ExchangeToSUSD(a, amount, owed)
  BY DEF TokenNext
<1>3. ASSUME pending'[b] = pending[b], sUSD'[b] = sUSD[b] PROVE ReclaimIsCovered(b)'
  BY <1>1, <1>3, StaysCovered DEF LedgersTypeOK
<1>4. ASSUME NEW c, NEW value, TransferSNX(a, c, value) \/ Vest(a, value)
      PROVE  ReclaimIsCovered(b)'
  BY <1>3, <1>4 DEF TransferSNX, Vest
<1>5. ASSUME NEW to \in Accounts, NEW value \in Transfers, TransferSUSD(a, to, value)
      PROVE  ReclaimIsCovered(b)'
  <2>1. /\ pending' = pending
        /\ sUSD' = Moved(sUSD, a, to, value)
        /\ value <= transferableSynths(a)
    BY <1>5 DEF TransferSUSD
  <2>2. /\ sUSD \in [Accounts -> Nat] /\ value \in Nat
        /\ pending[b].reclaim \in Nat /\ pending[b].rebate \in Nat
    BY <1>1, IssuerAssumption DEF LedgersTypeOK
  <2>3. sUSD'[b] >= IF b = a THEN sUSD[b] - value ELSE sUSD[b]
    BY <2>1, <2>2 DEF Moved
  <2>4. CASE b = a
    <3>1. sUSD[b] - value >= pending[b].reclaim \/ value = 0
      BY <2>1, <2>2, <2>4 DEF transferableSynths
    <3>2. sUSD'[b] \in Nat
      BY DEF IInv, TypeOK
    <3>3. CASE value = 0
      BY <2>1, <2>2, <2>3, <2>4, <3>3, StaysCovered
    <3>4. CASE sUSD[b] - value >= pending[b].reclaim
      <4>1. sUSD'[b] + pending[b].rebate >= pending[b].reclaim
        BY <2>2, <2>3, <2>4, <3>2, <3>4
      <4> QED BY <2>1, <4>1 DEF ReclaimIsCovered
    <3> QED BY <3>1, <3>3, <3>4
  <2>5. CASE b # a
    BY <2>1, <2>3, <2>5, StaysCovered
  <2> QED BY <2>4, <2>5
<1>6. CASE SettleSUSD(a)
  <2>1. /\ pending' = [pending EXCEPT ![a] = NoEntries]
        /\ b # a => sUSD'[b] = sUSD[b]
    BY <1>1, <1>6 DEF SettleSUSD, LedgersTypeOK
  <2>2. CASE b = a
    <3>1. pending'[b].reclaim = 0
      BY <1>1, <2>1, <2>2 DEF LedgersTypeOK, NoEntries
    <3> QED BY <3>1, StaysCovered
  <2>3. CASE b # a
    BY <1>1, <1>3, <2>1, <2>3 DEF LedgersTypeOK
  <2> QED BY <2>2, <2>3
<1>7. ASSUME NEW amount \in Amounts, ExchangeFromSUSD(a, amount) PROVE ReclaimIsCovered(b)'
  <2>1. /\ pending' = pending /\ pending[a].until = 0
        /\ b # a => sUSD'[b] = sUSD[b]
    BY <1>1, <1>7 DEF ExchangeFromSUSD, LedgersTypeOK
  <2>2. pending[a].reclaim = 0
    BY <2>1 DEF EntriesOweInv
  <2> QED BY <1>3, <2>1, <2>2, StaysCovered
<1>8. ASSUME NEW amount \in Amounts, NEW owed \in Adjustments,
             ExchangeToSUSD(a, amount, owed)
      PROVE  ReclaimIsCovered(b)'
  <2>1. /\ sUSD' = [sUSD EXCEPT ![a] = @ + amount]
        /\ pending' = [pending EXCEPT ![a] =
             [until |-> now + WaitingPeriod, reclaim |-> owed[1], rebate |-> owed[2]]]
        /\ owed[1] <= amount
    BY <1>8 DEF ExchangeToSUSD
  <2>2. /\ sUSD \in [Accounts -> Nat] /\ amount \in Nat
        /\ owed[1] \in Nat /\ owed[2] \in Nat
    BY <1>1, IssuerAssumption DEF LedgersTypeOK
  <2>3. CASE b # a
    BY <1>1, <1>3, <2>1, <2>3 DEF LedgersTypeOK
  <2>4. CASE b = a
    <3>1. /\ sUSD'[b] = sUSD[b] + amount
          /\ pending'[b].reclaim = owed[1] /\ pending'[b].rebate = owed[2]
      BY <1>1, <2>1, <2>4 DEF LedgersTypeOK
    <3>2. sUSD'[b] + pending'[b].rebate >= pending'[b].reclaim
      BY <2>1, <2>2, <3>1
    <3> QED BY <3>2 DEF ReclaimIsCovered
  <2> QED BY <2>3, <2>4
<1> QED BY <1>2, <1>4, <1>5, <1>6, <1>7, <1>8

\* What an exchange into sUSD may have to give back stays in the account until
\* it is settled: issuing, burning, liquidating, transferring and exchanging all
\* look at what is owed first.  Burning to the target ratio is the exception.
THEOREM CoverIsKept == Spec => ReclaimsStayCovered
<1>1. ASSUME IInv, EntriesOweInv, [Next]_vars,
             NEW b \in Accounts, ReclaimIsCovered(b)
      PROVE  ReclaimIsCovered(b)' \/ BurnSynthsToTarget(b)
  <2>1. IInv'
    BY <1>1, NextPreserves
  <2>2. ASSUME UNCHANGED <<pending, sUSD>> PROVE ReclaimIsCovered(b)'
    BY <1>1, <2>2 DEF ReclaimIsCovered
  <2>3. LiquidationsNext \/ EnvironmentNext \/ UNCHANGED vars => UNCHANGED <<pending, sUSD>>
    BY DEF LiquidationsNext, FlagAccountForLiquidation, CheckAndRemoveAccountInLiquidation,
           EnvironmentNext, UpdateRates, UpdateSuspension, Tick, vars, tokenVars
  <2> QED BY <1>1, <2>1, <2>2, <2>3, IssuerKeepsCover, TokensKeepCover DEF Next
<1>2. Spec => []EntriesOweInv
  BY EntriesOweInit, EntriesOweStep, Invariance, PTL DEF Spec
<1>3. IInv /\ EntriesOweInv /\ [Next]_vars =>
        [\A a \in Accounts : ReclaimIsCovered(a) =>
                              ReclaimIsCovered(a)' \/ BurnSynthsToTarget(a)]_vars
  BY <1>1
<1> QED BY <1>2, <1>3, Invariance, PTL DEF Spec, ReclaimsStayCovered
------------------------------------------------------------------------------
(* What an operation makes of the debt it is about. *)

\* The pool is a natural number, before a step and after it.
LEMMA PoolNat ==
  (IInv => totalIssuedSynths \in Nat) /\ (IInv' => totalIssuedSynths' \in Nat)
<1>1. ASSUME NEW x \in Nat, NEW y \in Nat PROVE x + y \in Nat
  OBVIOUS
<1>2. /\ IInv => sUSDSupply \in Nat /\ otherSynths \in Nat
      /\ IInv' => sUSDSupply' \in Nat /\ otherSynths' \in Nat
  BY DEF IInv, TypeOK
<1> QED BY <1>1, <1>2 DEF totalIssuedSynths

\* The share that was just set is not diluted yet: it is the part of the pool
\* that the account owes.
LEMMA DebtOfSetShare ==
  ASSUME IInv, IInv', NEW from \in Accounts, NEW share \in Nat, NEW entry,
         setCurrentIssuanceData(from, share), debtLedger' = Append(debtLedger, entry),
         DebtIsDefined(from)'
  PROVE  debtInSUSD(from)' =
           preciseDecimalToDecimal(
             multiplyDecimalRoundPrecise(decimalToPreciseDecimal(totalIssuedSynths'), share))
<1> DEFINE total == decimalToPreciseDecimal(totalIssuedSynths')
<1>1. /\ issuanceData'[from].initialDebtOwnership = share
      /\ issuanceData'[from].debtEntryIndex = Len(debtLedger)
  BY DEF setCurrentIssuanceData, IInv, TypeOK, RegisterTypeOK, debtLedgerLength
<1>2. debtLedger \in Seq(Nat) /\ debtLedger' \in Seq(Nat) /\ Len(debtLedger) \in Nat
  BY DEF IInv, TypeOK, RegisterTypeOK
<1>3. /\ Len(debtLedger') = Len(debtLedger) + 1
      /\ debtLedger'[Len(debtLedger) + 1] = entry /\ entry \in Nat
  BY <1>2
<1>4. total \in Nat
  <2>1. totalIssuedSynths' \in Nat
    BY PoolNat
  <2> QED BY <2>1, ConversionNat
<1>5. hasIssued(from)' <=> share > 0
  BY <1>1 DEF hasIssued
<1> HIDE DEF total
<1>6. CASE share = 0
  <2>1. debtInSUSD(from)' = 0
    BY <1>5, <1>6 DEF debtInSUSD, debtBalance
  <2> QED BY <1>4, <1>6, <2>1, WholeSharesAreExact DEF total
<1>7. CASE share > 0
  <2>1. /\ lastDebtLedgerEntry' = entry
        /\ debtLedgerAt(issuanceData[from].debtEntryIndex)' = entry
    BY <1>1, <1>3 DEF lastDebtLedgerEntry, debtLedgerAt
  <2>2. entry > 0
    BY <1>5, <1>7, <2>1 DEF DebtIsDefined
  <2>3. currentDebtOwnership(from)' =
          multiplyDecimalRoundPrecise(divideDecimalRoundPrecise(entry, entry), share)
    BY <1>1, <2>1 DEF currentDebtOwnership
  <2>4. currentDebtOwnership(from)' = share
    BY <1>3, <2>2, <2>3, WholeSharesAreExact
  <2> QED BY <1>5, <1>7, <2>4 DEF debtInSUSD, debtBalance, total
<1> QED BY <1>6, <1>7

\* Issuer._addToDebtRegister moves the debt by the amount that is issued.
LEMMA AddMovesDebt ==
  ASSUME IInv, IInv',
         NEW from \in Accounts, NEW amount \in Nat, DebtIsDefined(from), DebtIsDefined(from)',
         addToDebtRegister(from, amount, debtInSUSD(from), totalIssuedSynths),
         totalIssuedSynths' = totalIssuedSynths + amount,
         totalIssuedSynths' <= PRECISE_UNIT
  PROVE  debtInSUSD(from)' \in Nat /\ Within(debtInSUSD(from)', debtInSUSD(from) + amount, 1)
<1> DEFINE total == totalIssuedSynths
           after == totalIssuedSynths'
           debt == debtInSUSD(from)
           share == divideDecimalRoundPrecise(amount + debt, after)
           regained == preciseDecimalToDecimal(
                         multiplyDecimalRoundPrecise(decimalToPreciseDecimal(after), share))
<1>1. total \in Nat /\ debt \in Nat /\ after \in Nat /\ after = amount + total
  BY ViewsNat
<1>2. /\ after > 0 /\ setCurrentIssuanceData(from, share)
      /\ \E entry : debtLedger' = Append(debtLedger, entry)
  BY <1>1 DEF addToDebtRegister
<1> HIDE DEF total, after, debt
<1>3. share \in Nat
  <2>1. amount + debt \in Nat /\ after \in Nat /\ after > 0
    BY <1>1, <1>2
  <2> QED BY <2>1, DivideNat
<1>4. debtInSUSD(from)' = regained
  BY <1>2, <1>3, DebtOfSetShare DEF after
<1>5. regained <= amount + debt + 1 /\ amount + debt <= regained + 1
  <2>1. after \in Nat /\ after > 0 /\ after <= PRECISE_UNIT
    BY <1>1, <1>2 DEF after
  <2>2. amount + debt \in Nat
    BY <1>1
  <2> QED BY <2>1, <2>2, PartIsRegained
<1>6. regained \in Nat
  BY <1>1, <1>3, ConversionNat, MultiplyNat
<1> HIDE DEF regained, share
<1>7. Within(regained, debt + amount, 1)
  BY <1>1, <1>5, <1>6 DEF Within
<1> QED BY <1>4, <1>6, <1>7 DEF debt

\* Issuer._removeFromDebtRegister moves it by the amount that is burned.
LEMMA RemoveMovesDebt ==
  ASSUME IInv, IInv',
         NEW from \in Accounts, NEW burned \in Nat, DebtIsDefined(from), DebtIsDefined(from)',
         NEW total \in Nat,
         removeFromDebtRegister(from, burned, debtBalance(from, total), total),
         totalIssuedSynths' = total - burned,
         totalIssuedSynths' <= PRECISE_UNIT
  PROVE  /\ debtInSUSD(from)' \in Nat
         /\ Within(debtInSUSD(from)' + burned, debtBalance(from, total), 1)
<1> DEFINE after == totalIssuedSynths'
           debt == debtBalance(from, total)
           left == debt - burned
           regained(share) ==
             preciseDecimalToDecimal(
               multiplyDecimalRoundPrecise(decimalToPreciseDecimal(after), share))
<1>1. total \in Nat /\ debt \in Nat /\ burned <= total /\ after = total - burned
  BY DebtBalanceNat DEF removeFromDebtRegister, IInv, TypeOK
<1>2. after \in Nat
  BY <1>1
<1>3. PICK entry : debtLedger' = Append(debtLedger, entry)
  BY DEF removeFromDebtRegister
<1>4. \/ burned = debt /\ setCurrentIssuanceData(from, 0)
      \/ /\ burned < debt /\ after > 0
         /\ setCurrentIssuanceData(from, divideDecimalRoundPrecise(left, after))
  BY DEF removeFromDebtRegister
<1> HIDE DEF after, debt
<1>5. CASE burned = debt /\ setCurrentIssuanceData(from, 0)
  <2>1. debtInSUSD(from)' = regained(0)
    BY <1>3, <1>5, DebtOfSetShare DEF after
  <2>2. decimalToPreciseDecimal(after) \in Nat
    BY <1>2, ConversionNat
  <2>3. debtInSUSD(from)' = 0
    BY <2>1, <2>2, WholeSharesAreExact
  <2>4. Within(0 + burned, debt, 1)
    BY <1>1, <1>5 DEF Within
  <2> QED BY <2>3, <2>4 DEF debt
<1>6. CASE /\ burned < debt /\ after > 0
           /\ setCurrentIssuanceData(from, divideDecimalRoundPrecise(left, after))
  <2> DEFINE share == divideDecimalRoundPrecise(left, after)
             new == regained(share)
  <2>1. left \in Nat /\ share \in Nat
    BY <1>1, <1>2, <1>6, DivideNat
  <2>2. debtInSUSD(from)' = new
    BY <1>3, <1>6, <2>1, DebtOfSetShare DEF after
  <2>3. new <= left + 1 /\ left <= new + 1
    <3>1. after > 0 /\ after <= PRECISE_UNIT
      BY <1>6 DEF after
    <3> QED BY <1>2, <2>1, <3>1, PartIsRegained
  <2>4. new \in Nat
    BY <1>2, <2>1, ConversionNat, MultiplyNat
  <2> HIDE DEF new, share
  <2>5. Within(new + burned, debt, 1)
    BY <1>1, <1>6, <2>3, <2>4 DEF Within
  <2> QED BY <2>2, <2>4, <2>5 DEF debt
<1> QED BY <1>4, <1>5, <1>6

\* One account's share is set, and the others' are left alone.
LEMMA OneShareIsSet ==
  ASSUME IInv, NEW a \in Accounts, IssuerStep(a),
         NEW b \in Accounts, issuanceData'[b] # issuanceData[b]
  PROVE  b = a
<1>1. \E ownership : setCurrentIssuanceData(a, ownership)
  BY DEF IssuerStep, IssueSynths, IssueMaxSynths, BurnSynths, BurnSynthsToTarget,
         LiquidateDelinquentAccount, internalIssueSynths, internalBurnSynths,
         addToDebtRegister, removeFromDebtRegister
<1> QED BY <1>1 DEF setCurrentIssuanceData, IInv, TypeOK, RegisterTypeOK

\* Adding to the register comes with an issue, removing from it with a burn.
Issued(a, amount) ==
  /\ addToDebtRegister(a, amount, debtInSUSD(a), totalIssuedSynths)
  /\ totalIssuedSynths' = totalIssuedSynths + amount
Burned(a, amount) ==
  /\ removeFromDebtRegister(a, amount, debtInSUSD(a), totalIssuedSynths)
  /\ totalIssuedSynths' = totalIssuedSynths - amount

\* Every operation of the Issuer that settles nothing is one or the other.
LEMMA StepOfRegister ==
  ASSUME IInv, NEW a \in Accounts, IssuerStep(a), pending' = pending
  PROVE  DebtIsDefined(a) /\ \E amount \in Nat : Issued(a, amount) \/ Burned(a, amount)
<1> DEFINE Moves == DebtIsDefined(a) /\ \E n \in Nat : Issued(a, n) \/ Burned(a, n)
<1>1. /\ sUSDSupply \in Nat /\ otherSynths \in Nat /\ sUSD \in [Accounts -> Nat]
      /\ pending \in [Accounts -> [until : Nat, reclaim : Nat, rebate : Nat]]
  BY DEF IInv, TypeOK
<1>2. ASSUME NEW amount \in Nat, DebtIsDefined(a), internalIssueSynths(a, amount) PROVE Moves
  <2>1. addToDebtRegister(a, amount, debtInSUSD(a), totalIssuedSynths)
    BY <1>2 DEF internalIssueSynths
  <2>2. totalIssuedSynths' = totalIssuedSynths + amount
    BY <1>1, <1>2 DEF internalIssueSynths, totalIssuedSynths, priceVars
  <2> QED BY <1>2, <2>1, <2>2 DEF Issued
<1>3. ASSUME NEW amount \in Amounts, IssueSynths(a, amount) PROVE Moves
  BY <1>2, <1>3, IssuerAssumption DEF IssueSynths
<1>4. ASSUME IssueMaxSynths(a) PROVE Moves
  BY <1>2, <1>4, RemainingNat DEF IssueMaxSynths
<1>5. ASSUME NEW amount \in Nat, DebtIsDefined(a),
             internalBurnSynths(a, amount, debtInSUSD(a), totalIssuedSynths, sUSD[a], sUSDSupply)
      PROVE  Moves
  <2> DEFINE burned == IF debtInSUSD(a) < amount THEN debtInSUSD(a) ELSE amount
  <2>1. /\ removeFromDebtRegister(a, burned, debtInSUSD(a), totalIssuedSynths)
        /\ sUSDSupply' = sUSDSupply - burned /\ otherSynths' = otherSynths
    BY <1>5 DEF internalBurnSynths, priceVars
  <2>2. burned \in Nat
    BY <1>5, ViewsNat
  <2> HIDE DEF burned
  <2>3. totalIssuedSynths' = totalIssuedSynths - burned
    BY <1>1, <2>1, <2>2 DEF totalIssuedSynths
  <2> QED BY <1>5, <2>1, <2>2, <2>3 DEF Burned
<1>6. ASSUME NEW amount \in Amounts, BurnSynths(a, amount) PROVE Moves
  <2>1. pending[a] = NoEntries
    BY <1>1, <1>6 DEF BurnSynths
  <2>2. NetSettled(a) = 0 /\ pending[a].until = 0
    BY <2>1 DEF NoEntries, NetSettled
  <2>3. /\ sUSD[a] + NetSettled(a) = sUSD[a] /\ sUSDSupply + NetSettled(a) = sUSDSupply
    BY <1>1, <2>2
  <2>4. DebtIsDefined(a) /\
        internalBurnSynths(a, amount, debtInSUSD(a), totalIssuedSynths, sUSD[a], sUSDSupply)
    BY <1>6, <2>2, <2>3 DEF BurnSynths, settledPool, totalIssuedSynths, debtInSUSD
  <2> QED BY <1>5, <2>4, IssuerAssumption
<1>7. ASSUME BurnSynthsToTarget(a) PROVE Moves
  <2>1. debtInSUSD(a) - maxIssuableSynths(a) \in Nat
    BY <1>7, ViewsNat DEF BurnSynthsToTarget
  <2> QED BY <1>5, <1>7, <2>1 DEF BurnSynthsToTarget
<1>8. ASSUME NEW amount \in Amounts, NEW b \in Accounts, LiquidateDelinquentAccount(a, amount, b)
      PROVE  Moves
  <2>1. PICK burned \in Nat :
          /\ removeFromDebtRegister(a, burned, debtInSUSD(a), totalIssuedSynths)
          /\ sUSDSupply' = sUSDSupply - burned
    BY <1>8, LiquidationEffects
  <2>2. otherSynths' = otherSynths /\ DebtIsDefined(a)
    BY <1>8 DEF LiquidateDelinquentAccount, priceVars
  <2>3. totalIssuedSynths' = totalIssuedSynths - burned
    BY <1>1, <2>1, <2>2 DEF totalIssuedSynths
  <2> QED BY <2>1, <2>2, <2>3 DEF Burned
<1> QED BY <1>3, <1>4, <1>6, <1>7, <1>8 DEF IssuerStep

\* So it moves the debt that it is about.
LEMMA IssuerMovesDebt ==
  ASSUME IInv, IInv',
         NEW a \in Accounts, IssuerStep(a), pending' = pending,
         DebtIsDefined(a)', totalIssuedSynths' <= PRECISE_UNIT
  PROVE  /\ debtInSUSD(a)' \in Nat
         /\ Within(debtInSUSD(a)' + totalIssuedSynths, debtInSUSD(a) + totalIssuedSynths', 1)
<1> DEFINE total == totalIssuedSynths
           after == totalIssuedSynths'
           debt == debtInSUSD(a)
           new == debtInSUSD(a)'
<1>1. PICK amount \in Nat : Issued(a, amount) \/ Burned(a, amount)
  BY StepOfRegister
<1>2. DebtIsDefined(a)
  BY StepOfRegister
<1>3. total \in Nat /\ debt \in Nat
  BY <1>2, ViewsNat
<1>4. CASE Issued(a, amount)
  <2>1. new \in Nat /\ Within(new, debt + amount, 1) /\ after = total + amount
    BY <1>2, <1>4, AddMovesDebt DEF Issued
  <2> HIDE DEF total, after, debt, new
  <2>2. Within(new + total, debt + after, 1)
    BY <1>3, <2>1 DEF Within
  <2> QED BY <2>1, <2>2 DEF total, after, debt, new
<1>5. CASE Burned(a, amount)
  <2>1. new \in Nat /\ Within(new + amount, debt, 1) /\ after = total - amount
    BY <1>2, <1>3, <1>5, RemoveMovesDebt DEF Burned, debtInSUSD
  <2>2. amount <= total
    BY <1>5 DEF Burned, removeFromDebtRegister
  <2> HIDE DEF total, after, debt, new
  <2>3. Within(new + total, debt + after, 1)
    BY <1>3, <2>1, <2>2 DEF Within
  <2> QED BY <2>1, <2>3 DEF total, after, debt, new
<1> QED BY <1>1, <1>4, <1>5

\* The one operation that settles is burnSynths: it reads the debt, and removes
\* what it burns, once the exchanges of the account are settled.
LEMMA SettlingBurnMovesDebt ==
  ASSUME IInv, IInv', NEW a \in Accounts, IssuerStep(a), pending'[a] # pending[a],
         DebtIsDefined(a)', totalIssuedSynths' <= PRECISE_UNIT
  PROVE  LET pool == totalIssuedSynths + NetSettled(a) IN
         /\ pool \in Nat /\ debtBalance(a, pool) \in Nat /\ debtInSUSD(a)' \in Nat
         /\ Within(debtInSUSD(a)' + pool, debtBalance(a, pool) + totalIssuedSynths', 1)
<1> DEFINE pool == totalIssuedSynths + NetSettled(a)
           debt == debtBalance(a, pool)
<1>1. PICK amount \in Amounts : BurnSynths(a, amount)
  BY DEF IssuerStep, IssueSynths, IssueMaxSynths, internalIssueSynths, BurnSynthsToTarget,
         LiquidateDelinquentAccount
<1>2. /\ CanSettle(a) /\ DebtIsDefined(a)
      /\ pending[a].reclaim \in Nat /\ pending[a].rebate \in Nat
      /\ sUSDSupply \in Nat /\ otherSynths \in Nat
  BY <1>1 DEF BurnSynths, IInv, TypeOK
<1>3. /\ pool \in Nat /\ settledPool(a) = pool
      /\ NetSettled(a) \in Int
  BY <1>2 DEF CanSettle, NetSettled, settledPool, totalIssuedSynths
<1>4. debt \in Nat
  BY <1>2, <1>3, DebtBalanceNat DEF IInv, TypeOK
<1> DEFINE balance == sUSD[a] + NetSettled(a)
           refunded == IF NetSettled(a) > 0 THEN NetSettled(a) ELSE 0
           owed == IF pending[a].until = 0 THEN amount
                   ELSE (IF amount > balance THEN balance ELSE amount) + refunded
           burned == IF debt < owed THEN debt ELSE owed
<1>5. owed \in Nat
  <2>1. amount \in Nat /\ sUSD[a] \in Nat
    BY IssuerAssumption DEF IInv, TypeOK
  <2>2. balance \in Nat /\ refunded \in Nat
    BY <1>2, <1>3, <2>1 DEF CanSettle, NetSettled
  <2> HIDE DEF balance, refunded
  <2> QED BY <2>1, <2>2
<1>6. internalBurnSynths(a, owed, debt, pool, balance, sUSDSupply + NetSettled(a))
  BY <1>1, <1>3 DEF BurnSynths
<1> HIDE DEF owed, balance
<1>7. /\ burned \in Nat /\ removeFromDebtRegister(a, burned, debt, pool) /\ burned <= pool
      /\ sUSDSupply' = (sUSDSupply + NetSettled(a)) - burned /\ otherSynths' = otherSynths
  BY <1>4, <1>5, <1>6 DEF internalBurnSynths, priceVars, removeFromDebtRegister
<1> HIDE DEF burned
<1>8. totalIssuedSynths' = pool - burned
  BY <1>2, <1>3, <1>7 DEF totalIssuedSynths
<1>9. debtInSUSD(a)' \in Nat /\ Within(debtInSUSD(a)' + burned, debt, 1)
  BY <1>2, <1>3, <1>7, <1>8, RemoveMovesDebt
<1> DEFINE after == totalIssuedSynths'
           new == debtInSUSD(a)'
<1> HIDE DEF pool, debt, after, new
<1>10. Within(new + pool, debt + after, 1)
  BY <1>3, <1>4, <1>7, <1>8, <1>9 DEF Within, after, new
<1> QED BY <1>3, <1>4, <1>9, <1>10 DEF pool, debt, after, new

\* Issuing, burning and liquidating move the debt they are about by the amount
\* that is issued or burned, up to the smallest unit, whatever became of the
\* ledger before and whatever the operation settled first: while the pool is worth
\* less than 10^27 units (a billion sUSD).
THEOREM DebtsFollowSupply ==
  ASSUME RoundingSlack >= 1
  PROVE  Spec => DebtMovesWithSupply
<1> DEFINE Pool(a) == IF pending'[a] = pending[a] THEN totalIssuedSynths
                      ELSE totalIssuedSynths + NetSettled(a)
<1>1. ASSUME IInv, [Next]_vars, NEW a \in Accounts, issuanceData'[a] # issuanceData[a],
             DebtIsDefined(a)', totalIssuedSynths' <= PRECISE_UNIT
      PROVE  Near(debtInSUSD(a)' + Pool(a), debtBalance(a, Pool(a)) + totalIssuedSynths')
  <2>1. IInv'
    BY <1>1, NextPreserves
  <2>2. LiquidationsNext \/ TokenNext \/ EnvironmentNext \/ UNCHANGED vars
          => issuanceData' = issuanceData
    BY DEF LiquidationsNext, FlagAccountForLiquidation, CheckAndRemoveAccountInLiquidation,
           TokenNext, TransferSNX, TransferSUSD, Vest, SettleSUSD, ExchangeFromSUSD,
           ExchangeToSUSD, EnvironmentNext, UpdateRates, UpdateSuspension, Tick, vars,
           registerVars
  <2>3. PICK b \in Accounts : IssuerStep(b)
    BY <1>1, <2>2 DEF Next, IssuerNext
  <2>4. b = a
    BY <1>1, <2>3, OneShareIsSet
  <2>5. totalIssuedSynths \in Nat /\ totalIssuedSynths' \in Nat /\ RoundingSlack \in Nat
    BY <1>1, <2>1, PoolNat, IssuerAssumption
  <2>6. CASE pending'[a] = pending[a]
    <3>1. pending' = pending
      <4>1. pending' = pending \/ pending' = [pending EXCEPT ![a] = NoEntries]
        BY <2>3, <2>4 DEF IssuerStep, IssueSynths, IssueMaxSynths, internalIssueSynths,
             BurnSynths, BurnSynthsToTarget, internalBurnSynths, LiquidateDelinquentAccount
      <4>2. pending \in [Accounts -> [until : Nat, reclaim : Nat, rebate : Nat]]
        BY <1>1 DEF IInv, TypeOK
      <4> QED BY <2>6, <4>1, <4>2
    <3>2. /\ debtInSUSD(a)' \in Nat
          /\ Within(debtInSUSD(a)' + totalIssuedSynths, debtInSUSD(a) + totalIssuedSynths', 1)
      BY <1>1, <2>1, <2>3, <2>4, <3>1, IssuerMovesDebt
    <3>3. DebtIsDefined(a) /\ debtInSUSD(a) \in Nat
      BY <1>1, <2>3, <2>4, <3>1, StepOfRegister, ViewsNat
    <3>4. Near(debtInSUSD(a)' + totalIssuedSynths, debtInSUSD(a) + totalIssuedSynths')
      BY <2>5, <3>2, <3>3 DEF Within, Near, AtMost
    <3> QED BY <2>6, <3>4 DEF debtInSUSD
  <2>7. CASE pending'[a] # pending[a]
    <3> DEFINE pool == totalIssuedSynths + NetSettled(a)
    <3>1. /\ pool \in Nat /\ debtBalance(a, pool) \in Nat /\ debtInSUSD(a)' \in Nat
          /\ Within(debtInSUSD(a)' + pool, debtBalance(a, pool) + totalIssuedSynths', 1)
      BY <1>1, <2>1, <2>3, <2>4, <2>7, SettlingBurnMovesDebt
    <3> HIDE DEF pool
    <3>2. Near(debtInSUSD(a)' + pool, debtBalance(a, pool) + totalIssuedSynths')
      BY <2>5, <3>1 DEF Within, Near, AtMost
    <3> QED BY <2>7, <3>2 DEF pool
  <2> QED BY <2>6, <2>7
<1>2. IInv /\ [Next]_vars =>
        [\A a \in Accounts :
           LET pool == IF pending'[a] = pending[a] THEN totalIssuedSynths
                       ELSE totalIssuedSynths + NetSettled(a) IN
           /\ issuanceData'[a] # issuanceData[a]
           /\ DebtIsDefined(a)' /\ totalIssuedSynths' <= PRECISE_UNIT
           => Near(debtInSUSD(a)' + pool, debtBalance(a, pool) + totalIssuedSynths')]_vars
  BY <1>1
<1> QED BY <1>2, Invariance, PTL DEF Spec, DebtMovesWithSupply
------------------------------------------------------------------------------
(* What an operation leaves of the debts of the others. *)

\* Amounts are small for the precision of the register: the pool for a precise
\* unit, no share is of more than twice the pool, and the entry a share was taken
\* at is twice the debt at least.  Nobody owes a part of nothing.
PrecisionSuffices ==
  /\ 10 * totalIssuedSynths <= PRECISE_UNIT
  /\ \A a \in Issuers :
       LET share == issuanceData[a].initialDebtOwnership
           entry == debtLedgerAt(issuanceData[a].debtEntryIndex)
       IN  entry > 0 =>
             /\ totalIssuedSynths > 0
             /\ share <= 2 * PRECISE_UNIT
             /\ share * lastDebtLedgerEntry <= 2 * (entry * PRECISE_UNIT)
             /\ 2 * (share * totalIssuedSynths) <= PRECISE_UNIT * entry

\* The factor of an issue is what the pool was of what it is, but for rounding.
LEMMA IssueDelta ==
  ASSUME NEW amount \in Nat, NEW total \in Nat, NEW after, after = amount + total, after > 0
  PROVE  /\ issueDelta(amount, after) \in Nat
         /\ Within(2 * (issueDelta(amount, after) * after), 2 * (PRECISE_UNIT * total), after)
<1> DEFINE P == PRECISE_UNIT
           q == divideDecimalRoundPrecise(amount, after)
<1>1. P \in Nat /\ after \in Nat /\ amount <= after
  BY PreciseUnitNat
<1>2. q \in Nat /\ Nearest(q, amount * P, after) /\ q <= P
  BY <1>1, DivideNat, DivisionRoundsToNearest, ShareAtMostOne
<1>3. issueDelta(amount, after) = P - q
  BY DEF issueDelta
<1> HIDE DEF P, q
<1>4. P - q \in Nat
  BY <1>1, <1>2
<1>5. (P - q) * after = P * after - q * after /\ P * after = amount * P + P * total
  BY <1>1, <1>2
<1>6. q * after \in Nat /\ P * after \in Nat /\ amount * P \in Nat /\ P * total \in Nat
  BY <1>1, <1>2, MulNat
<1>7. Within(2 * ((P - q) * after), 2 * (P * total), after)
  BY <1>1, <1>2, <1>5, <1>6 DEF Nearest, Within
<1> QED BY <1>3, <1>4, <1>7 DEF P

\* So is the factor of a burn that leaves something of the pool.
LEMMA BurnDelta ==
  ASSUME NEW amount \in Nat, NEW total \in Nat, NEW after \in Nat, total = amount + after,
         after > 0
  PROVE  /\ burnDelta(amount, after) \in Nat
         /\ Within(2 * (burnDelta(amount, after) * after), 2 * (PRECISE_UNIT * total), after)
<1> DEFINE P == PRECISE_UNIT
           q == divideDecimalRoundPrecise(amount, after)
<1>1. P \in Nat
  BY PreciseUnitNat
<1>2. q \in Nat /\ Nearest(q, amount * P, after)
  BY DivideNat, DivisionRoundsToNearest
<1>3. burnDelta(amount, after) = P + q
  BY DEF burnDelta
<1> HIDE DEF P, q
<1>4. (P + q) * after = P * after + q * after /\ P * total = amount * P + P * after
  BY <1>1, <1>2
<1>5. q * after \in Nat /\ P * after \in Nat /\ amount * P \in Nat /\ P * total \in Nat
  BY <1>1, <1>2, MulNat
<1>6. Within(2 * ((P + q) * after), 2 * (P * total), after)
  BY <1>1, <1>2, <1>4, <1>5 DEF Nearest, Within
<1> QED BY <1>1, <1>2, <1>3, <1>6 DEF P

\* The factor that an operation appends to a ledger that is not empty.
LEMMA FactorOfStep ==
  ASSUME IInv, IInv', NEW a \in Accounts, IssuerStep(a), pending' = pending,
         debtLedgerLength > 0, totalIssuedSynths' > 0
  PROVE  \E delta \in Nat :
           /\ debtLedger' = Append(debtLedger,
                               multiplyDecimalRoundPrecise(lastDebtLedgerEntry, delta))
           /\ Within(2 * (delta * totalIssuedSynths'),
                     2 * (PRECISE_UNIT * totalIssuedSynths), totalIssuedSynths')
<1> DEFINE total == totalIssuedSynths
           after == totalIssuedSynths'
<1>1. total \in Nat /\ after \in Nat /\ after > 0
  BY PoolNat
<1>2. PICK amount \in Nat : Issued(a, amount) \/ Burned(a, amount)
  BY StepOfRegister
<1>3. CASE Issued(a, amount)
  <2>1. after = amount + total
    BY <1>1, <1>3 DEF Issued
  <2>2. debtLedger' = Append(debtLedger, multiplyDecimalRoundPrecise(
                        lastDebtLedgerEntry, issueDelta(amount, amount + total)))
    BY <1>3 DEF Issued, addToDebtRegister
  <2> HIDE DEF total, after
  <2>3. /\ issueDelta(amount, after) \in Nat
        /\ Within(2 * (issueDelta(amount, after) * after), 2 * (PRECISE_UNIT * total), after)
    BY <1>1, <2>1, IssueDelta
  <2> QED BY <2>1, <2>2, <2>3 DEF total, after
<1>4. CASE Burned(a, amount)
  <2>1. amount <= total /\ after = total - amount
    BY <1>4 DEF Burned, removeFromDebtRegister
  <2>2. debtLedger' = Append(debtLedger, multiplyDecimalRoundPrecise(
                        lastDebtLedgerEntry, burnDelta(amount, total - amount)))
    BY <1>4 DEF Burned, removeFromDebtRegister
  <2> HIDE DEF total, after
  <2>3. total = amount + after
    BY <1>1, <2>1
  <2>4. /\ burnDelta(amount, after) \in Nat
        /\ Within(2 * (burnDelta(amount, after) * after), 2 * (PRECISE_UNIT * total), after)
    BY <1>1, <2>3, BurnDelta
  <2> QED BY <2>1, <2>2, <2>4 DEF total, after
<1> QED BY <1>2, <1>3, <1>4

\* The debt of an issuer, in terms of what the register has of it.
LEMMA DebtInTerms ==
  ASSUME NEW b, hasIssued(b)
  PROVE  debtInSUSD(b) = DebtOfShare(issuanceData[b].initialDebtOwnership,
                                     debtLedgerAt(issuanceData[b].debtEntryIndex),
                                     lastDebtLedgerEntry, totalIssuedSynths)
BY DEF debtInSUSD, debtBalance, currentDebtOwnership, DebtOfShare

\* An operation leaves the debt of an account alone whose share it does not set.
LEMMA IssuerKeepsDebts ==
  ASSUME IInv, IInv', PrecisionSuffices, PrecisionSuffices',
         NEW a \in Accounts, IssuerStep(a), pending' = pending,
         NEW b \in Accounts, issuanceData'[b] = issuanceData[b],
         DebtIsDefined(b), DebtIsDefined(b)'
  PROVE  /\ debtInSUSD(b) \in Nat /\ debtInSUSD(b)' \in Nat
         /\ Within(debtInSUSD(b)', debtInSUSD(b), 1)
<1>1. hasIssued(b)' <=> hasIssued(b)
  BY DEF hasIssued
<1>2. CASE ~hasIssued(b)
  <2>1. debtInSUSD(b) = 0 /\ debtInSUSD(b)' = 0
    BY <1>1, <1>2 DEF debtInSUSD, debtBalance
  <2> QED BY <2>1 DEF Within
<1>3. CASE hasIssued(b)
  <2> DEFINE s == issuanceData[b].initialDebtOwnership
             i == issuanceData[b].debtEntryIndex
             e == debtLedgerAt(i)
             last == lastDebtLedgerEntry
             total == totalIssuedSynths
             after == totalIssuedSynths'
  <2>1. /\ debtLedger \in Seq(Nat) /\ debtLedger' \in Seq(Nat) /\ s \in Nat
        /\ i \in Nat /\ i < Len(debtLedger)
    BY <1>3 DEF IInv, TypeOK, RegisterTypeOK, IssuanceData, EntriesInLedger, Issuers,
                debtLedgerLength
  <2>2. e \in Nat /\ e > 0 /\ last \in Nat /\ Len(debtLedger) \in Nat /\ Len(debtLedger) > 0
    BY <1>3, <2>1 DEF DebtIsDefined, debtLedgerAt, lastDebtLedgerEntry
  <2>3. total \in Nat /\ after \in Nat
    BY PoolNat
  <2>4. /\ 10 * total <= PRECISE_UNIT /\ 10 * after <= PRECISE_UNIT
        /\ s <= 2 * PRECISE_UNIT /\ s * last <= 2 * (e * PRECISE_UNIT)
    BY <1>3, <2>2 DEF PrecisionSuffices, Issuers
  <2>5. \E new : debtLedger' = Append(debtLedger, new)
    <3>1. PICK amount \in Nat : Issued(a, amount) \/ Burned(a, amount)
      BY StepOfRegister
    <3> QED BY <3>1 DEF Issued, Burned, addToDebtRegister, removeFromDebtRegister
  <2>6. /\ issuanceData'[b].initialDebtOwnership = s /\ issuanceData'[b].debtEntryIndex = i
        /\ debtLedgerAt(issuanceData[b].debtEntryIndex)' = e
    BY <2>1, <2>5 DEF debtLedgerAt
  <2>7. after > 0 /\ 2 * (s * after) <= PRECISE_UNIT * e
    BY <1>1, <1>3, <2>2, <2>6 DEF PrecisionSuffices, Issuers
  <2>8. PICK delta \in Nat :
          /\ debtLedger' = Append(debtLedger, multiplyDecimalRoundPrecise(last, delta))
          /\ Within(2 * (delta * after), 2 * (PRECISE_UNIT * total), after)
    BY <2>2, <2>7, FactorOfStep DEF debtLedgerLength
  <2>9. lastDebtLedgerEntry' = multiplyDecimalRoundPrecise(last, delta)
    <3> DEFINE new == multiplyDecimalRoundPrecise(last, delta)
    <3>1. new \in Nat
      BY <2>2, MultiplyNat
    <3> HIDE DEF new
    <3> QED BY <2>1, <2>8, <3>1 DEF lastDebtLedgerEntry, new
  <2>10. /\ debtInSUSD(b) = DebtOfShare(s, e, last, total)
         /\ debtInSUSD(b)' = DebtOfShare(s, e, multiplyDecimalRoundPrecise(last, delta), after)
    <3>1. debtInSUSD(b)' = DebtOfShare(s, e, lastDebtLedgerEntry', after)
      BY <1>1, <1>3, <2>6 DEF debtInSUSD, debtBalance, currentDebtOwnership, DebtOfShare
    <3> QED BY <1>3, <2>9, <3>1, DebtInTerms
  <2> HIDE DEF s, e, last, total, after
  <2>11. Within(debtInSUSD(b), debtInSUSD(b)', 1)
    <3>1. Within(DebtOfShare(s, e, last, total),
                 DebtOfShare(s, e, multiplyDecimalRoundPrecise(last, delta), after), 1)
      BY <2>1, <2>2, <2>3, <2>4, <2>7, <2>8, DebtIsKept
    <3> QED BY <2>10, <3>1
  <2>12. debtInSUSD(b) \in Nat /\ debtInSUSD(b)' \in Nat
    <3> DEFINE next == multiplyDecimalRoundPrecise(last, delta)
    <3>1. next \in Nat
      BY <2>2, <2>8, MultiplyNat
    <3> HIDE DEF next
    <3>2. DebtOfShare(s, e, last, total) \in Nat
      BY <2>1, <2>2, <2>3, DebtOfShareWithin
    <3>3. DebtOfShare(s, e, next, after) \in Nat
      BY <2>1, <2>2, <2>3, <3>1, DebtOfShareWithin
    <3> QED BY <2>10, <3>2, <3>3 DEF next
  <2> QED BY <2>11, <2>12 DEF Within
<1> QED BY <1>2, <1>3

\* Issuing, burning and liquidating change nobody else's debt by more than the
\* smallest unit, however long the ledger is, as long as amounts are small for
\* its precision.
THEOREM DebtsOfOthersAreKept ==
  ASSUME RoundingSlack >= 1
  PROVE  Spec /\ []PrecisionSuffices => OthersDebtUnaffected
<1>1. ASSUME IInv, [Next]_vars, PrecisionSuffices, PrecisionSuffices',
             debtLedger' # debtLedger, pending' = pending, NEW b \in Accounts,
             issuanceData'[b] = issuanceData[b], DebtIsDefined(b), DebtIsDefined(b)'
      PROVE  Near(debtInSUSD(b)', debtInSUSD(b))
  <2>1. IInv'
    BY <1>1, NextPreserves
  <2>2. LiquidationsNext \/ TokenNext \/ EnvironmentNext \/ UNCHANGED vars
          => debtLedger' = debtLedger
    BY DEF LiquidationsNext, FlagAccountForLiquidation, CheckAndRemoveAccountInLiquidation,
           TokenNext, TransferSNX, TransferSUSD, Vest, SettleSUSD, ExchangeFromSUSD,
           ExchangeToSUSD, EnvironmentNext, UpdateRates, UpdateSuspension, Tick, vars,
           registerVars
  <2>3. PICK a \in Accounts : IssuerStep(a)
    BY <1>1, <2>2 DEF Next, IssuerNext
  <2>4. /\ debtInSUSD(b) \in Nat /\ debtInSUSD(b)' \in Nat
        /\ Within(debtInSUSD(b)', debtInSUSD(b), 1)
    BY <1>1, <2>1, <2>3, IssuerKeepsDebts
  <2>5. RoundingSlack \in Nat
    BY IssuerAssumption
  <2> QED BY <2>4, <2>5 DEF Within, Near, AtMost
<1>2. IInv /\ [Next]_vars /\ PrecisionSuffices /\ PrecisionSuffices' =>
        [debtLedger' # debtLedger /\ pending' = pending =>
           \A b \in Accounts :
             issuanceData'[b] = issuanceData[b] /\ DebtIsDefined(b) /\ DebtIsDefined(b)'
               => Near(debtInSUSD(b)', debtInSUSD(b))]_vars
  BY <1>1
<1> QED BY <1>2, Invariance, PTL DEF Spec, OthersDebtUnaffected
------------------------------------------------------------------------------
(* What the operations leave of the sum of the debts. *)

Debts == [a \in Accounts |-> debtInSUSD(a)]

\* The sum over the accounts, as the lemmas about sums know it.
LEMMA DebtsAsSum ==
  /\ MapThenSumSet(debtInSUSD, Accounts) = sumOver(Debts, Accounts)
  /\ MapThenSumSet(debtInSUSD, Accounts)' = sumOver(Debts', Accounts)
BY DEF sumOver, MapThenSumSet, MapThenFoldSet, Debts

\* Tables whose entries are a unit apart at most, the changed one beside what it
\* changed by, have sums that are a unit for each entry apart at most.
LEMMA SumsWithin ==
  ASSUME NEW f, NEW g, NEW S, IsFiniteSet(S), NEW a \in S, NEW t \in Nat, NEW u \in Nat,
         \A x \in S : f[x] \in Nat /\ g[x] \in Nat,
         \A x \in S : x # a => Within(f[x], g[x], 1),
         Within(f[a] + t, g[a] + u, 1)
  PROVE  /\ sumOver(f, S) \in Nat /\ sumOver(g, S) \in Nat
         /\ Within(sumOver(f, S) + t, sumOver(g, S) + u, Cardinality(S))
<1> DEFINE F == [x \in S |-> IF x = a THEN f[a] + t ELSE f[x]]
           G == [x \in S |-> IF x = a THEN g[a] + u ELSE g[x]]
           One == [x \in S |-> 1]
           F1 == [x \in S |-> F[x] + One[x]]
           G1 == [x \in S |-> G[x] + One[x]]
<1>1. /\ F[a] = f[a] + t /\ \A x \in S : F[x] \in Nat /\ (x # a => F[x] = f[x])
      /\ G[a] = g[a] + u /\ \A x \in S : G[x] \in Nat /\ (x # a => G[x] = g[x])
  OBVIOUS
<1>2. \A x \in S : One[x] = 1 /\ F1[x] = F[x] + One[x] /\ G1[x] = G[x] + One[x]
  OBVIOUS
<1>3. \A x \in S : f[x] \in Int /\ g[x] \in Int
  OBVIOUS
<1> HIDE DEF F, G, One, F1, G1
<1>4. \A x \in S : Within(F[x], G[x], 1)
  BY <1>1
<1>5. \A x \in S : /\ F[x] \in Int /\ G[x] \in Int /\ One[x] \in Int
                   /\ F1[x] \in Int /\ G1[x] \in Int /\ F[x] <= G1[x] /\ G[x] <= F1[x]
  BY <1>1, <1>2, <1>4 DEF Within
<1>6. sumOver(One, S) = Cardinality(S)
  BY <1>2, SumOfOnes
<1>7. /\ sumOver(F1, S) = sumOver(F, S) + sumOver(One, S)
      /\ sumOver(G1, S) = sumOver(G, S) + sumOver(One, S)
  BY <1>2, <1>5, SumOfTwo
<1>8. sumOver(F, S) <= sumOver(G1, S) /\ sumOver(G, S) <= sumOver(F1, S)
  BY <1>5, SumMonotone
<1>9. /\ F[a] \in Int /\ sumOver(F, S) = sumOver(f, S) + (F[a] - f[a])
      /\ G[a] \in Int /\ sumOver(G, S) = sumOver(g, S) + (G[a] - g[a])
  <2>1. F[a] \in Int /\ G[a] \in Int
    BY <1>5
  <2>2. sumOver(F, S) = sumOver(f, S) + (F[a] - f[a])
    BY <1>1, <1>3, <2>1, SumOfChanged
  <2>3. sumOver(G, S) = sumOver(g, S) + (G[a] - g[a])
    BY <1>1, <1>3, <2>1, SumOfChanged
  <2> QED BY <2>1, <2>2, <2>3
<1>10. sumOver(f, S) \in Nat /\ sumOver(g, S) \in Nat
  BY SumNat
<1>11. Cardinality(S) \in Nat
  BY FS_CardinalityType
<1>12. sumOver(F, S) = sumOver(f, S) + t /\ sumOver(G, S) = sumOver(g, S) + u
  <2>1. f[a] \in Nat /\ g[a] \in Nat
    OBVIOUS
  <2> QED BY <1>1, <1>9, <1>10, <2>1
<1> QED BY <1>6, <1>7, <1>8, <1>10, <1>11, <1>12 DEF Within

\* An operation of the Issuer appends to the ledger and sets one share, and only
\* these operations do.
LEMMA RegisterGrows ==
  ASSUME IInv, [Next]_vars
  PROVE  \/ UNCHANGED registerVars
         \/ \E a \in Accounts :
              /\ IssuerStep(a) /\ \A b \in Accounts \ {a} : issuanceData'[b] = issuanceData[b]
              /\ \E entry : debtLedger' = Append(debtLedger, entry)
<1>1. LiquidationsNext \/ TokenNext \/ EnvironmentNext \/ UNCHANGED vars
        => UNCHANGED registerVars
  BY DEF LiquidationsNext, FlagAccountForLiquidation, CheckAndRemoveAccountInLiquidation,
         TokenNext, TransferSNX, TransferSUSD, Vest, SettleSUSD, ExchangeFromSUSD,
         ExchangeToSUSD, EnvironmentNext, UpdateRates, UpdateSuspension, Tick, vars,
         registerVars
<1>2. ASSUME NEW a \in Accounts, IssuerStep(a)
      PROVE  /\ \A b \in Accounts \ {a} : issuanceData'[b] = issuanceData[b]
             /\ \E entry : debtLedger' = Append(debtLedger, entry)
  <2>1. \E entry : debtLedger' = Append(debtLedger, entry)
    BY <1>2 DEF IssuerStep, IssueSynths, IssueMaxSynths, BurnSynths, BurnSynthsToTarget,
         LiquidateDelinquentAccount, internalIssueSynths, internalBurnSynths,
         addToDebtRegister, removeFromDebtRegister
  <2> QED BY <1>2, <2>1, OneShareIsSet
<1> QED BY <1>1, <1>2 DEF Next, IssuerNext

\* A debt that cannot be computed never can be again: the entry that its share
\* is measured from stays what it is, and no operation sets the share.
LEMMA DebtsStayDefined ==
  ASSUME IInv, NEW a \in Accounts, IssuerStep(a), pending' = pending,
         \E entry : debtLedger' = Append(debtLedger, entry),
         \A b \in Accounts \ {a} : issuanceData'[b] = issuanceData[b],
         AllDebtsDefined'
  PROVE  AllDebtsDefined
<1> SUFFICES ASSUME NEW b \in Accounts PROVE DebtIsDefined(b)
  BY DEF AllDebtsDefined
<1>1. CASE b = a
  BY <1>1, StepOfRegister
<1>2. CASE b # a /\ hasIssued(b)
  <2>1. DebtIsDefined(b)' /\ issuanceData'[b] = issuanceData[b]
    BY <1>2 DEF AllDebtsDefined
  <2>2. /\ debtLedger \in Seq(Nat) /\ issuanceData[b].debtEntryIndex \in Nat
        /\ issuanceData[b].debtEntryIndex < Len(debtLedger)
    BY <1>2 DEF IInv, TypeOK, RegisterTypeOK, IssuanceData, EntriesInLedger, Issuers,
                debtLedgerLength
  <2>3. debtLedger'[issuanceData[b].debtEntryIndex + 1]
          = debtLedger[issuanceData[b].debtEntryIndex + 1]
    BY <2>2
  <2> QED BY <1>2, <2>1, <2>3 DEF DebtIsDefined, hasIssued, debtLedgerAt
<1> QED BY <1>1, <1>2 DEF DebtIsDefined

\* One operation moves the sum of the debts as it moves the pool.
LEMMA IssuerMovesSum ==
  ASSUME IInv, IInv', PrecisionSuffices, PrecisionSuffices',
         NEW a \in Accounts, IssuerStep(a), pending' = pending,
         \A b \in Accounts \ {a} : issuanceData'[b] = issuanceData[b],
         AllDebtsDefined, AllDebtsDefined'
  PROVE  /\ sumOver(Debts, Accounts) \in Nat /\ sumOver(Debts', Accounts) \in Nat
         /\ Within(sumOver(Debts', Accounts) + totalIssuedSynths,
                   sumOver(Debts, Accounts) + totalIssuedSynths', Cardinality(Accounts))
<1>1. \A b \in Accounts : /\ Debts[b] = debtInSUSD(b) /\ Debts'[b] = debtInSUSD(b)'
                          /\ DebtIsDefined(b) /\ DebtIsDefined(b)'
  BY DEF Debts, AllDebtsDefined
<1>2. totalIssuedSynths \in Nat /\ totalIssuedSynths' \in Nat
  BY PoolNat
<1>3. totalIssuedSynths' <= PRECISE_UNIT
  <2>1. 10 * totalIssuedSynths' <= PRECISE_UNIT /\ PRECISE_UNIT \in Nat
    BY PreciseUnitNat DEF PrecisionSuffices
  <2> QED BY <1>2, <2>1
<1>4. /\ Debts[a] \in Nat /\ Debts'[a] \in Nat
      /\ Within(Debts'[a] + totalIssuedSynths, Debts[a] + totalIssuedSynths', 1)
  BY <1>1, <1>3, ViewsNat, IssuerMovesDebt
<1>5. ASSUME NEW b \in Accounts \ {a}
      PROVE  Debts[b] \in Nat /\ Debts'[b] \in Nat /\ Within(Debts'[b], Debts[b], 1)
  BY <1>1, <1>5, IssuerKeepsDebts
<1>6. /\ \A x \in Accounts : Debts'[x] \in Nat /\ Debts[x] \in Nat
      /\ \A x \in Accounts : x # a => Within(Debts'[x], Debts[x], 1)
  BY <1>4, <1>5
<1> QED BY <1>2, <1>4, <1>6, AccountsAssumption, SumsWithin

\* Issuing, burning and liquidating move the sum of all debts as they move the
\* pool, up to a unit for each account: what is owed follows what is in circulation.
THEOREM DebtsFollowPool ==
  Spec /\ []PrecisionSuffices =>
    [][debtLedger' # debtLedger /\ pending' = pending /\ AllDebtsDefined' =>
         Within(MapThenSumSet(debtInSUSD, Accounts)' + totalIssuedSynths,
                MapThenSumSet(debtInSUSD, Accounts) + totalIssuedSynths',
                Cardinality(Accounts))]_vars
<1>1. ASSUME IInv, [Next]_vars, PrecisionSuffices, PrecisionSuffices',
             debtLedger' # debtLedger, pending' = pending, AllDebtsDefined'
      PROVE  Within(MapThenSumSet(debtInSUSD, Accounts)' + totalIssuedSynths,
                    MapThenSumSet(debtInSUSD, Accounts) + totalIssuedSynths',
                    Cardinality(Accounts))
  <2>1. PICK a \in Accounts :
          /\ IssuerStep(a) /\ \A b \in Accounts \ {a} : issuanceData'[b] = issuanceData[b]
          /\ \E entry : debtLedger' = Append(debtLedger, entry)
    BY <1>1, RegisterGrows DEF registerVars
  <2>2. IInv' /\ AllDebtsDefined
    BY <1>1, <2>1, NextPreserves, DebtsStayDefined
  <2>3. Within(sumOver(Debts', Accounts) + totalIssuedSynths,
               sumOver(Debts, Accounts) + totalIssuedSynths', Cardinality(Accounts))
    BY <1>1, <2>1, <2>2, IssuerMovesSum
  <2> QED BY <2>3, DebtsAsSum
<1>2. IInv /\ [Next]_vars /\ PrecisionSuffices /\ PrecisionSuffices' =>
        [debtLedger' # debtLedger /\ pending' = pending /\ AllDebtsDefined' =>
           Within(MapThenSumSet(debtInSUSD, Accounts)' + totalIssuedSynths,
                  MapThenSumSet(debtInSUSD, Accounts) + totalIssuedSynths',
                  Cardinality(Accounts))]_vars
  BY <1>1
<1> QED BY <1>2, Invariance, PTL DEF Spec

\* The pool is what the operations of the Issuer make it: no price moves, and
\* what is settled leaves it as it is.
PoolRests ==
  [][IF debtLedger' = debtLedger THEN totalIssuedSynths' = totalIssuedSynths
                                 ELSE pending' = pending]_vars

\* The errors add up: a unit for each account and each operation so far.  The
\* pool need not be shared by anybody: what the last issuer leaves is one of them.
DriftInv ==
  /\ debtLedgerLength <= MaxLedger
  /\ AllDebtsDefined =>
       Within(sumOver(Debts, Accounts), totalIssuedSynths,
              Cardinality(Accounts) * debtLedgerLength)

LEMMA DriftInit == Init => DriftInv
<1> SUFFICES ASSUME Init PROVE DriftInv
  OBVIOUS
<1>1. debtLedgerLength = 0 /\ MaxLedger \in Nat /\ totalIssuedSynths = 0
  BY IssuerAssumption DEF Init, SynthetixStateInit, debtLedgerLength, totalIssuedSynths
<1>2. \A a \in Accounts : Debts[a] = 0
  BY DEF Init, SynthetixStateInit, Debts, debtInSUSD, debtBalance, hasIssued
<1>3. sumOver(Debts, Accounts) = 0
  <2> DEFINE double == [a \in Accounts |-> Debts[a] + Debts[a]]
  <2>1. \A a \in Accounts : Debts[a] \in Int /\ double[a] = Debts[a] + Debts[a]
    BY <1>2
  <2>2. \A a \in Accounts : double[a] = Debts[a]
    BY <1>2
  <2> HIDE DEF double
  <2>3. /\ sumOver(Debts, Accounts) \in Int
        /\ sumOver(double, Accounts) = sumOver(Debts, Accounts) + sumOver(Debts, Accounts)
    BY <2>1, AccountsAssumption, SumOfTwo
  <2>4. sumOver(double, Accounts) = sumOver(Debts, Accounts)
    BY <2>1, <2>2, AccountsAssumption, SumOfEqual
  <2>5. ASSUME NEW n \in Int, n = n + n PROVE n = 0
    BY <2>5
  <2> QED BY <2>3, <2>4, <2>5
<1>4. Cardinality(Accounts) \in Nat
  BY AccountsAssumption, FS_CardinalityType
<1> QED BY <1>1, <1>3, <1>4 DEF DriftInv, Within

LEMMA DriftStep ==
  ASSUME IInv, DriftInv, [Next]_vars, PrecisionSuffices, PrecisionSuffices',
         IF debtLedger' = debtLedger THEN totalIssuedSynths' = totalIssuedSynths
                                     ELSE pending' = pending
  PROVE  DriftInv'
<1>1. CASE UNCHANGED registerVars
  <2>1. totalIssuedSynths' = totalIssuedSynths
    BY <1>1 DEF registerVars
  <2>2. Debts' = Debts /\ (AllDebtsDefined' <=> AllDebtsDefined)
        /\ debtLedgerLength' = debtLedgerLength
    BY <1>1, <2>1 DEF registerVars, Debts, debtInSUSD, debtBalance, currentDebtOwnership,
       hasIssued, debtLedgerAt, lastDebtLedgerEntry, AllDebtsDefined, DebtIsDefined,
       debtLedgerLength
  <2> QED BY <2>1, <2>2 DEF DriftInv
<1>2. ASSUME NEW a \in Accounts, IssuerStep(a),
             \A b \in Accounts \ {a} : issuanceData'[b] = issuanceData[b],
             \E entry : debtLedger' = Append(debtLedger, entry)
      PROVE  DriftInv'
  <2> DEFINE N == Cardinality(Accounts)
             L == debtLedgerLength
  <2>1. IInv' /\ debtLedger \in Seq(Nat)
    BY NextPreserves DEF IInv, TypeOK, RegisterTypeOK
  <2>2. L \in Nat /\ L' = L + 1 /\ debtLedger' # debtLedger
    BY <1>2, <2>1 DEF debtLedgerLength
  <2>3. pending' = pending
    BY <2>2
  <2>4. L < MaxLedger
    BY <1>2 DEF IssuerStep, IssueSynths, IssueMaxSynths, BurnSynths, BurnSynthsToTarget,
         LiquidateDelinquentAccount, internalIssueSynths, internalBurnSynths
  <2>5. ASSUME AllDebtsDefined'
        PROVE  Within(sumOver(Debts', Accounts), totalIssuedSynths', N * L')
    <3>1. AllDebtsDefined
      BY <1>2, <2>3, <2>5, DebtsStayDefined
    <3>2. /\ sumOver(Debts, Accounts) \in Nat /\ sumOver(Debts', Accounts) \in Nat
          /\ Within(sumOver(Debts', Accounts) + totalIssuedSynths,
                    sumOver(Debts, Accounts) + totalIssuedSynths', N)
      BY <1>2, <2>1, <2>3, <2>5, <3>1, IssuerMovesSum
    <3>3. Within(sumOver(Debts, Accounts), totalIssuedSynths, N * L)
      BY <3>1 DEF DriftInv
    <3>4. totalIssuedSynths \in Nat /\ totalIssuedSynths' \in Nat
      BY <2>1, PoolNat
    <3>5. N \in Nat
      BY AccountsAssumption, FS_CardinalityType
    <3>6. N * L \in Nat /\ N * L' = N * L + N
      BY <2>2, <3>5
    <3> HIDE DEF N, L
    <3> QED BY <3>2, <3>3, <3>4, <3>5, <3>6 DEF Within
  <2>6. L' <= MaxLedger
    BY <2>2, <2>4, IssuerAssumption
  <2> QED BY <2>5, <2>6 DEF DriftInv
<1> QED BY <1>1, <1>2, RegisterGrows

\* SynthetixState, Issuer._addToDebtRegister and _removeFromDebtRegister: while
\* prices rest and amounts are small for the precision of the register, the debts
\* add up to the pool, for any accounts, up to what the operations may have rounded.
THEOREM PoolStaysShared ==
  ASSUME Cardinality(Accounts) * MaxLedger <= RoundingSlack
  PROVE  Spec /\ []PrecisionSuffices /\ PoolRests => []DebtPoolShared
<1>1. IInv /\ DriftInv => DebtPoolShared
  <2> SUFFICES ASSUME IInv, DriftInv, AllDebtsDefined
               PROVE  Near(MapThenSumSet(debtInSUSD, Accounts), totalIssuedSynths)
    BY DEF DebtPoolShared
  <2> DEFINE N == Cardinality(Accounts)
             L == debtLedgerLength
  <2>1. Within(sumOver(Debts, Accounts), totalIssuedSynths, N * L)
    BY DEF DriftInv
  <2>2. /\ N \in Nat /\ L \in Nat /\ MaxLedger \in Nat /\ L <= MaxLedger
        /\ RoundingSlack \in Nat /\ totalIssuedSynths \in Nat
    <3>1. N \in Nat
      BY AccountsAssumption, FS_CardinalityType
    <3>2. debtLedger \in Seq(Nat)
      BY DEF IInv, TypeOK, RegisterTypeOK
    <3>3. L \in Nat /\ L <= MaxLedger
      BY <3>2 DEF debtLedgerLength, DriftInv
    <3>4. MaxLedger \in Nat /\ RoundingSlack \in Nat
      BY IssuerAssumption
    <3> QED BY <3>1, <3>3, <3>4, PoolNat
  <2>3. N * MaxLedger <= RoundingSlack
    OBVIOUS
  <2>4. sumOver(Debts, Accounts) \in Nat
    <3>1. \A a \in Accounts : Debts[a] \in Nat
      BY ViewsNat DEF Debts, AllDebtsDefined
    <3> QED BY <3>1, AccountsAssumption, SumNat
  <2> HIDE DEF N, L
  <2>5. N * L <= N * MaxLedger /\ N * L \in Nat /\ N * MaxLedger \in Nat
    BY <2>2, MulMonotone, MulNat
  <2>6. Near(sumOver(Debts, Accounts), totalIssuedSynths)
    BY <2>1, <2>2, <2>3, <2>4, <2>5 DEF Within, Near, AtMost
  <2> QED BY <2>6, DebtsAsSum
<1>2. IInv /\ DriftInv /\ [Next]_vars /\ PrecisionSuffices /\ PrecisionSuffices'
        /\ [IF debtLedger' = debtLedger THEN totalIssuedSynths' = totalIssuedSynths
                                        ELSE pending' = pending]_vars
        => DriftInv'
  <2>1. UNCHANGED vars => IF debtLedger' = debtLedger
                          THEN totalIssuedSynths' = totalIssuedSynths ELSE pending' = pending
    BY DEF vars, registerVars, tokenVars, priceVars, totalIssuedSynths
  <2> QED BY <2>1, DriftStep
<1> QED BY <1>1, <1>2, DriftInit, Invariance, PTL DEF Spec, PoolRests
------------------------------------------------------------------------------
(* How far a liquidation goes, with the names of the arithmetic's lemmas.       *)

\* The settings leave less than the unit of the unit.
LEMMA PenaltyFits ==
  LET p == UNIT + LiquidationPenalty
  IN  p * IssuanceRatio <= UNIT * UNIT /\ IssuanceRatio <= UNIT
<1> DEFINE p == UNIT + LiquidationPenalty
           r == IssuanceRatio
           l == LiquidationRatio
<1>1. /\ UNIT \in Nat /\ UNIT > 0 /\ p \in Nat /\ UNIT <= p /\ r \in Nat /\ l \in Nat /\ r <= l
      /\ l * p <= UNIT * UNIT
  BY UnitAssumption, LiquidationAssumption
<1> HIDE DEF p, r, l
<1>2. r * p <= l * p /\ p * r = r * p
  BY <1>1, MulMonotone
<1>3. p * r <= UNIT * UNIT
  <2>1. r * p \in Nat /\ l * p \in Nat /\ UNIT * UNIT \in Nat
    BY <1>1, MulNat
  <2> QED BY <1>1, <1>2, <2>1
<1>4. UNIT * r <= p * r /\ UNIT * r = r * UNIT
  BY <1>1, MulMonotone
<1>5. r <= UNIT
  <2>1. r * UNIT <= UNIT * UNIT
    BY <1>1, <1>3, <1>4, MulNat
  <2> QED BY <1>1, <2>1, CommonFactor
<1> QED BY <1>3, <1>5 DEF p, r

\* The sUSD whose liquidation takes a to its target ratio, and the SNX that
\* liquidating x takes.
amountToFix(a) == calculateAmountToFixCollateral(debtInSUSD(a), collateralValue(a))
redeemedFor(x) ==
  multiplyDecimal(divideDecimalRound(x, snxRate), UNIT + LiquidationPenalty)

\* The sUSD that all the collateral of a stands for, less the penalty.
soldForAll(a) ==
  multiplyDecimalRound(divideDecimal(collateral(a), UNIT + LiquidationPenalty), snxRate)

\* Issuer.liquidateDelinquentAccount takes SNX for x, or all the account has.
LEMMA LiquidationAmounts ==
  ASSUME IInv, NEW a \in Accounts, NEW susdAmount \in Amounts, NEW b \in Accounts,
         LiquidateDelinquentAccount(a, susdAmount, b)
  PROVE  \E x, burned \in Nat :
           /\ x <= amountToFix(a)
           /\ removeFromDebtRegister(a, burned, debtInSUSD(a), totalIssuedSynths)
           /\ totalIssuedSynths' = totalIssuedSynths - burned
           /\ \/ /\ redeemedFor(x) <= collateral(a) /\ burned = x
                 /\ snx' = Moved(snx, a, b, redeemedFor(x))
              \/ /\ redeemedFor(x) > collateral(a)
                 /\ burned = soldForAll(a)
                 /\ snx' = Moved(snx, a, b, collateral(a))
           /\ deadline'[a] = 0 <=> burned = amountToFix(a)
<1> DEFINE fix == amountToFix(a)
           x == IF fix < susdAmount THEN fix ELSE susdAmount
           short == redeemedFor(x) > collateral(a)
           redeemed == IF short THEN collateral(a) ELSE redeemedFor(x)
           burned == IF short THEN soldForAll(a) ELSE x
<1>1. /\ DebtIsDefined(a)
      /\ deadline[a] > 0
      /\ debtInSUSD(a) >= maxIssuableSynths(a)
      /\ removeFromDebtRegister(a, burned, debtInSUSD(a), totalIssuedSynths)
      /\ sUSDSupply' = sUSDSupply - burned
      /\ IF burned = fix THEN removeAccountInLiquidation(a) ELSE UNCHANGED deadline
      /\ snx' = Moved(snx, a, b, redeemed)
      /\ otherSynths' = otherSynths
  BY DEF LiquidateDelinquentAccount, amountToFix, redeemedFor, soldForAll, maxIssuableSynths,
         priceVars, isOpenForLiquidation, deadlinePassed
<1>2. /\ debtInSUSD(a) \in Nat /\ maxIssuableSynths(a) \in Nat /\ collateral(a) \in Nat
      /\ snxRate \in Nat /\ snxRate > 0 /\ totalIssuedSynths \in Nat
  BY <1>1, ViewsNat
<1>3. UNIT + LiquidationPenalty \in Nat /\ UNIT + LiquidationPenalty > 0 /\ susdAmount \in Nat
  BY UnitAssumption, LiquidationAssumption, IssuerAssumption
<1>4. fix \in Nat
  <2>1. debtInSUSD(a) - maxIssuableSynths(a) \in Nat
    BY <1>1, <1>2
  <2> QED BY <2>1, FixDivisorPositive, DivideNat
          DEF amountToFix, calculateAmountToFixCollateral, maxIssuableSynths
<1> HIDE DEF fix
<1>5. x \in Nat /\ x <= fix
  BY <1>3, <1>4
<1> HIDE DEF x
<1>6. redeemedFor(x) \in Nat
  BY <1>2, <1>3, <1>5, DivideNat, MultiplyNat DEF redeemedFor
<1>7. burned \in Nat
  BY <1>2, <1>3, <1>5, DivideNat, MultiplyNat DEF soldForAll
<1>8. \/ /\ redeemedFor(x) > collateral(a) /\ burned = soldForAll(a)
         /\ snx' = Moved(snx, a, b, collateral(a))
      \/ /\ redeemedFor(x) <= collateral(a) /\ burned = x
         /\ snx' = Moved(snx, a, b, redeemedFor(x))
  BY <1>1, <1>2, <1>6
<1> HIDE DEF burned
<1>9. totalIssuedSynths' = totalIssuedSynths - burned
  <2>1. sUSDSupply \in Nat /\ otherSynths \in Nat
    BY DEF IInv, TypeOK
  <2> QED BY <1>1, <1>7, <2>1 DEF totalIssuedSynths
<1>10. deadline'[a] = 0 <=> burned = fix
  BY <1>1 DEF removeAccountInLiquidation, IInv, TypeOK
<1> QED BY <1>1, <1>5, <1>7, <1>8, <1>9, <1>10 DEF fix

\* What a liquidation leaves of debt and collateral is at the target ratio or
\* above it, and at it when the flag is removed.
LEMMA LiquidationInNumbers ==
  ASSUME IInv, IInv', NEW a \in Accounts, NEW susdAmount \in Amounts, NEW b \in Accounts,
         LiquidateDelinquentAccount(a, susdAmount, b), snx'[a] < snx[a],
         DebtIsDefined(a)', totalIssuedSynths' <= PRECISE_UNIT
  PROVE  /\ maxIssuableSynths(a)' \in Nat /\ debtInSUSD(a)' \in Nat
         /\ 2 * (UNIT * maxIssuableSynths(a)')
              <= 2 * (UNIT * debtInSUSD(a)') + 6 * UNIT + 3 * snxRate
         /\ deadline'[a] = 0 =>
              2 * (UNIT * debtInSUSD(a)')
                <= 2 * (UNIT * maxIssuableSynths(a)') + 8 * UNIT + snxRate + 2 * totalIssuedSynths
<1> DEFINE U == UNIT
           r == IssuanceRatio
           p == UNIT + LiquidationPenalty
           q == multiplyDecimal(p, r)
           d == U - q
           R == snxRate
           S == collateral(a)
           V == collateralValue(a)
           VV == collateralValue(a)'
           k == maxIssuableSynths(a)
           mm == maxIssuableSynths(a)'
           debt == debtInSUSD(a)
           new == debtInSUSD(a)'
           g == debt - k
           fix == amountToFix(a)
<1>1. PICK x \in Nat, burned \in Nat :
        /\ x <= fix
        /\ removeFromDebtRegister(a, burned, debt, totalIssuedSynths)
        /\ totalIssuedSynths' = totalIssuedSynths - burned
        /\ \/ /\ redeemedFor(x) <= S /\ burned = x
              /\ snx' = Moved(snx, a, b, redeemedFor(x))
           \/ /\ redeemedFor(x) > S
              /\ snx' = Moved(snx, a, b, S)
        /\ deadline'[a] = 0 => burned = fix
  BY LiquidationAmounts
<1>2. /\ DebtIsDefined(a) /\ debt >= k /\ snxRate' = snxRate /\ escrowed' = escrowed
  BY DEF LiquidateDelinquentAccount, maxIssuableSynths, priceVars
<1>3. /\ S \in Nat /\ V \in Nat /\ k \in Nat /\ debt \in Nat /\ R \in Nat /\ R > 0
      /\ totalIssuedSynths \in Nat
  BY <1>2, ViewsNat
<1>4. /\ U \in Nat /\ U > 0 /\ p \in Nat /\ r \in Nat /\ r <= U /\ p * r <= U * U
  BY UnitAssumption, LiquidationAssumption, PenaltyFits
<1>5. new \in Nat /\ Within(new + burned, debt, 1)
  BY <1>1, <1>2, <1>3, RemoveMovesDebt DEF debtInSUSD
<1>6. burned <= totalIssuedSynths
  BY <1>1 DEF removeFromDebtRegister
<1>7. q \in Nat /\ q * U <= p * r /\ p * r < q * U + U
  <2>1. p * r \in Nat
    BY <1>4, MulNat
  <2> QED BY <1>4, <2>1, DivNat, DivBounds DEF multiplyDecimal
<1>8. d \in Nat /\ d > 0 /\ U = d + q
  <2>1. d \in Nat \ {0}
    BY FixDivisorPositive
  <2> QED BY <1>4, <1>7, <2>1
<1>9. g \in Nat /\ debt = k + g
  BY <1>2, <1>3
<1>10. fix \in Nat /\ fix * d <= g * U /\ g * U < fix * d + d
  <2>1. fix = (g * U) \div d
    BY DEF amountToFix, calculateAmountToFixCollateral, divideDecimal, maxIssuableSynths
  <2> HIDE DEF fix, g, U, d
  <2>2. g * U \in Nat
    BY <1>4, <1>9, MulNat
  <2> QED BY <1>8, <2>1, <2>2, DivNat, DivBounds
<1>11. Nearest(V, S * R, U)
  BY <1>3, MultiplicationRoundsToNearest DEF collateralValue
<1>12. k * U <= V * r /\ V * r < k * U + U
  <2>1. V * r \in Nat
    BY <1>3, <1>4, MulNat
  <2> QED BY <1>4, <2>1, DivBounds DEF maxIssuableSynths, multiplyDecimal
<1>13. snx \in [Accounts -> Nat] /\ snx' \in [Accounts -> Nat] /\ escrowed \in [Accounts -> Nat]
  BY DEF IInv, TypeOK
<1>14. ASSUME NEW rd \in Nat, rd <= S, snx' = Moved(snx, a, b, rd)
       PROVE  /\ VV \in Nat /\ Nearest(VV, (S - rd) * R, U)
              /\ mm \in Nat /\ mm * U <= VV * r /\ VV * r < mm * U + U
  <2>1. snx'[a] = snx[a] - rd
    BY <1>13, <1>14 DEF Moved
  <2>2. collateral(a)' = S - rd /\ S - rd \in Nat
    BY <1>2, <1>3, <1>13, <1>14, <2>1 DEF collateral
  <2>3. VV = multiplyDecimalRound(S - rd, R)
    BY <1>2, <2>2 DEF collateralValue
  <2> HIDE DEF S, R
  <2>4. VV \in Nat /\ Nearest(VV, (S - rd) * R, U)
    BY <1>3, <2>2, <2>3, MultiplyNat, MultiplicationRoundsToNearest
  <2>5. mm = (VV * r) \div U
    BY DEF maxIssuableSynths, multiplyDecimal
  <2> HIDE DEF VV, mm, r, U
  <2>6. VV * r \in Nat
    BY <1>4, <2>4, MulNat
  <2> QED BY <1>4, <2>4, <2>5, <2>6, DivNat, DivBounds
<1>15. \E n \in Nat : /\ Nearest(n, x * U, R)
                      /\ redeemedFor(x) \in Nat
                      /\ redeemedFor(x) * U <= n * p /\ n * p < redeemedFor(x) * U + U
  <2> DEFINE n == divideDecimalRound(x, R)
  <2>1. n \in Nat /\ Nearest(n, x * U, R)
    BY <1>3, DivideNat, DivisionRoundsToNearest
  <2>2. redeemedFor(x) = (n * p) \div U
    BY DEF redeemedFor, multiplyDecimal
  <2> HIDE DEF n, p, U
  <2>3. n * p \in Nat
    BY <1>4, <2>1, MulNat
  <2> QED BY <1>4, <2>1, <2>2, <2>3, DivNat, DivBounds
<1> HIDE DEF U, r, p, q, d, R, S, V, VV, k, mm, debt, new, g, fix
<1>16. PICK n \in Nat : /\ Nearest(n, x * U, R)
                        /\ redeemedFor(x) \in Nat
                        /\ redeemedFor(x) * U <= n * p /\ n * p < redeemedFor(x) * U + U
  BY <1>15
<1>17. x * d <= g * U
  BY <1>1, <1>8, <1>9, <1>10, <1>4, MulNat, MulMonotone
<1>18. burned = fix => g * U <= burned * d + d
  BY <1>4, <1>8, <1>9, <1>10, MulNat
<1>19. x * U \in Nat /\ S * R \in Nat /\ n * p \in Nat /\ p * r \in Nat /\ V * r \in Nat
       /\ n * R \in Nat /\ V * U \in Nat
  BY <1>3, <1>4, <1>16, MulNat
<1>20. ASSUME mm \in Nat, 2 * (U * (mm + burned)) <= 2 * (U * (k + g)) + 4 * U + 3 * R
       PROVE  2 * (U * mm) <= 2 * (U * new) + 6 * U + 3 * R
  <2>1. debt <= new + burned + 1
    BY <1>5 DEF Within
  <2>2. debt * U <= (new + burned + 1) * U
    BY <1>3, <1>4, <1>5, <2>1, MulMonotone
  <2>3. debt * U = U * (k + g) /\ (new + burned + 1) * U = U * new + U * burned + U
        /\ U * (mm + burned) = U * mm + U * burned
    BY <1>3, <1>4, <1>5, <1>9, <1>20
  <2>4. U * (k + g) \in Nat /\ U * new \in Nat /\ U * burned \in Nat /\ U * mm \in Nat
    BY <1>3, <1>4, <1>5, <1>9, <1>20, MulNat
  <2> QED BY <1>3, <1>4, <1>20, <2>2, <2>3, <2>4
<1>21. ASSUME mm \in Nat,
              2 * (U * (k + g)) <= 2 * (U * (mm + burned)) + 6 * U + R + 2 * burned
       PROVE  2 * (U * new) <= 2 * (U * mm) + 8 * U + R + 2 * totalIssuedSynths
  <2>1. new + burned <= debt + 1
    BY <1>5 DEF Within
  <2>2. (new + burned) * U <= (debt + 1) * U
    BY <1>3, <1>4, <1>5, <2>1, MulMonotone
  <2>3. (debt + 1) * U = U * (k + g) + U /\ (new + burned) * U = U * new + U * burned
        /\ U * (mm + burned) = U * mm + U * burned
    BY <1>3, <1>4, <1>5, <1>9, <1>21
  <2>4. U * (k + g) \in Nat /\ U * new \in Nat /\ U * burned \in Nat /\ U * mm \in Nat
    BY <1>3, <1>4, <1>5, <1>9, <1>21, MulNat
  <2> QED BY <1>3, <1>4, <1>6, <1>21, <2>2, <2>3, <2>4
<1>22. CASE redeemedFor(x) <= S /\ burned = x /\ snx' = Moved(snx, a, b, redeemedFor(x))
  <2> DEFINE rd == redeemedFor(x)
             left == S - rd
  <2>1. /\ VV \in Nat /\ Nearest(VV, left * R, U)
        /\ mm \in Nat /\ mm * U <= VV * r /\ VV * r < mm * U + U
    BY <1>14, <1>16, <1>22
  <2>2. left \in Nat /\ rd \in Nat /\ S = left + rd
    BY <1>3, <1>16, <1>22
  <2>3. rd * U <= n * p /\ n * p < rd * U + U
    BY <1>16
  <2> HIDE DEF rd, left
  <2>4. /\ 2 * (S * R) <= 2 * (V * U) + U /\ 2 * (V * U) <= 2 * (S * R) + U
        /\ 2 * (VV * U) <= 2 * (left * R) + U /\ 2 * (left * R) <= 2 * (VV * U) + U
        /\ 2 * (x * U) <= 2 * (n * R) + R /\ 2 * (n * R) <= 2 * (x * U) + R
    <3>1. VV * U \in Nat /\ left * R \in Nat
      BY <1>3, <1>4, <2>1, <2>2, MulNat
    <3> QED BY <1>3, <1>4, <1>11, <1>16, <1>19, <2>1, <3>1 DEF Nearest
  <2>5. n * p <= rd * U + U /\ rd * U \in Nat /\ VV * r \in Nat /\ mm * U \in Nat
    BY <1>4, <1>19, <2>1, <2>2, <2>3, MulNat
  <2>6. 2 * (VV * (U * U)) + 2 * (x * (U * p))
          <= 2 * (V * (U * U)) + 2 * (U * U) + R * p + 2 * (U * R)
    BY <1>3, <1>4, <2>1, <2>2, <2>4, <2>5, RedeemedIsEnough
  <2>7. 2 * (U * (mm + x)) <= 2 * (U * (k + g)) + 4 * U + 3 * R
    <3>1. V * r <= k * U + U
      BY <1>3, <1>4, <1>12, <1>19, MulNat
    <3> QED BY <1>3, <1>4, <1>7, <1>8, <1>9, <1>17, <2>1, <2>6, <3>1, TargetNotPassed
  <2>8. burned = fix => 2 * (U * (k + g)) <= 2 * (U * (mm + x)) + 6 * U + R + 2 * x
    <3>1. 2 * (V * (U * U)) <= 2 * (VV * (U * U)) + 2 * (x * (U * p)) + 2 * (U * U) + R * p
      BY <1>3, <1>4, <2>1, <2>2, <2>3, <2>4, RedeemedIsNotTooMuch
    <3>2. VV * r <= mm * U + U /\ p * r <= q * U + U
      <4>1. q * U \in Nat
        BY <1>4, <1>7, MulNat
      <4> QED BY <1>4, <1>7, <1>19, <2>1, <2>5, <4>1
    <3> QED BY <1>3, <1>4, <1>7, <1>8, <1>9, <1>12, <1>18, <1>22, <2>1, <3>1, <3>2,
               TargetIsReached
  <2>9. 2 * (U * mm) <= 2 * (U * new) + 6 * U + 3 * R
    BY <1>20, <1>22, <2>1, <2>7
  <2>10. deadline'[a] = 0 =>
           2 * (U * new) <= 2 * (U * mm) + 8 * U + R + 2 * totalIssuedSynths
    BY <1>1, <1>21, <1>22, <2>1, <2>8
  <2> QED BY <1>5, <2>1, <2>9, <2>10 DEF U, R, mm, new
<1>23. CASE redeemedFor(x) > S /\ snx' = Moved(snx, a, b, S)
  <2>1. /\ VV \in Nat /\ Nearest(VV, (S - S) * R, U)
        /\ mm \in Nat /\ mm * U <= VV * r
    BY <1>3, <1>14, <1>23
  <2>2. (S - S) * R = 0
    BY <1>3
  <2>3. VV = 0
    <3>1. 2 * (VV * U) <= U /\ VV * U \in Nat
      BY <1>4, <2>1, <2>2, MulNat DEF Nearest
    <3>2. 1 <= VV => 1 * U <= VV * U
      BY <1>4, <2>1, MulMonotone
    <3> QED BY <1>4, <2>1, <3>1, <3>2
  <2>4. mm = 0
    <3>1. mm * U <= 0
      BY <1>4, <2>1, <2>3
    <3>2. 1 <= mm => 1 * U <= mm * U
      BY <1>4, <2>1, MulMonotone
    <3>3. mm * U \in Nat
      BY <1>4, <2>1, MulNat
    <3> QED BY <1>4, <2>1, <3>1, <3>2, <3>3
  <2>5. 2 * (U * mm) <= 2 * (U * new) + 6 * U + 3 * R
    <3>1. U * mm = 0
      BY <1>4, <2>4
    <3>2. U * new \in Nat
      BY <1>4, <1>5, MulNat
    <3> QED BY <1>3, <1>4, <3>1, <3>2
  <2>6. ASSUME burned = fix
        PROVE  2 * (U * new) <= 2 * (U * mm) + 8 * U + R + 2 * totalIssuedSynths
    <3>1. S * U <= n * p
      <4>1. S * U <= redeemedFor(x) * U
        BY <1>3, <1>4, <1>16, <1>23, MulMonotone
      <4>2. S * U \in Nat /\ redeemedFor(x) * U \in Nat
        BY <1>3, <1>4, <1>16, MulNat
      <4> QED BY <1>16, <1>19, <4>1, <4>2
    <3>2. 2 * (n * R) <= 2 * (burned * U) + R
      <4>1. x * U <= burned * U
        BY <1>1, <1>4, <2>6, MulMonotone
      <4>2. burned * U \in Nat
        BY <1>4, MulNat
      <4>3. 2 * (n * R) <= 2 * (x * U) + R
        BY <1>3, <1>16, <1>19 DEF Nearest
      <4> QED BY <1>3, <1>19, <4>1, <4>2, <4>3
    <3>3. 2 * (V * U) <= 2 * (S * R) + U
      BY <1>4, <1>11, <1>19 DEF Nearest
    <3>4. 2 * (0 * R) <= 2 * (VV * U) + U /\ S = 0 + S
      BY <1>3, <1>4, <2>3
    <3>5. 2 * (V * (U * U))
            <= 2 * (VV * (U * U)) + 2 * (burned * (U * p)) + 2 * (U * U) + R * p
      BY <1>3, <1>4, <1>16, <2>1, <3>1, <3>2, <3>3, <3>4, RedeemedIsNotTooMuch
    <3>6. VV * r <= mm * U + U /\ p * r <= q * U + U
      <4>1. q * U \in Nat /\ VV * r = 0 /\ mm * U = 0
        BY <1>4, <1>7, <2>3, <2>4, MulNat
      <4> QED BY <1>4, <1>7, <1>19, <4>1
    <3>7. 2 * (U * (k + g)) <= 2 * (U * (mm + burned)) + 6 * U + R + 2 * burned
      BY <1>3, <1>4, <1>7, <1>8, <1>9, <1>12, <1>18, <2>1, <2>6, <3>5, <3>6, TargetIsReached
    <3> QED BY <1>21, <2>1, <3>7
  <2>7. deadline'[a] = 0 =>
          2 * (U * new) <= 2 * (U * mm) + 8 * U + R + 2 * totalIssuedSynths
    BY <1>1, <2>6
  <2> QED BY <1>5, <2>1, <2>5, <2>7 DEF U, R, mm, new
<1> QED BY <1>1, <1>22, <1>23

\* The collateral that leaves an account when debt is burned is that of an account
\* which is liquidated.
LEMMA OnlyLiquidationsTakeCollateral ==
  ASSUME IInv, [Next]_vars, debtLedger' # debtLedger, NEW a \in Accounts, snx'[a] < snx[a]
  PROVE  \E amount \in Amounts, b \in Accounts : LiquidateDelinquentAccount(a, amount, b)
<1>1. snx \in [Accounts -> Nat] /\ snx' \in [Accounts -> Nat]
  <2>1. IInv'
    BY NextPreserves
  <2> QED BY <2>1 DEF IInv, TypeOK
<1>2. LiquidationsNext \/ TokenNext \/ EnvironmentNext \/ UNCHANGED vars
        => debtLedger' = debtLedger
  BY DEF LiquidationsNext, FlagAccountForLiquidation, CheckAndRemoveAccountInLiquidation,
         TokenNext, TransferSNX, TransferSUSD, Vest, SettleSUSD, ExchangeFromSUSD,
         ExchangeToSUSD, EnvironmentNext, UpdateRates, UpdateSuspension, Tick, vars,
         registerVars
<1>3. PICK c \in Accounts : IssuerStep(c)
  BY <1>2 DEF Next, IssuerNext
<1>4. PICK amount \in Amounts, b \in Accounts : LiquidateDelinquentAccount(c, amount, b)
  <2>1. snx' # snx
    BY <1>1
  <2> QED BY <1>3, <2>1 DEF IssuerStep, IssueSynths, IssueMaxSynths, internalIssueSynths,
             BurnSynths, BurnSynthsToTarget, internalBurnSynths, snxVars
<1>5. PICK x \in Nat : snx' = Moved(snx, c, b, x)
  <2>1. DebtIsDefined(c) /\ collateral(c) \in Nat
    BY <1>4, ViewsNat DEF LiquidateDelinquentAccount
  <2>2. \A y \in Nat : redeemedFor(y) <= collateral(c) => redeemedFor(y) \in Nat
    <3> TAKE y \in Nat
    <3>1. snxRate \in Nat /\ snxRate > 0 /\ UNIT + LiquidationPenalty \in Nat
      BY <2>1, ViewsNat, UnitAssumption, LiquidationAssumption
    <3> QED BY <3>1, DivideNat, MultiplyNat DEF redeemedFor
  <2> QED BY <1>4, <2>1, <2>2, LiquidationAmounts
<1>6. c = a
  BY <1>1, <1>5 DEF Moved
<1> QED BY <1>4, <1>6

\* A liquidation takes an account no further than its target ratio, and reaches
\* it when it removes the flag: up to four units, one and a half times the price
\* of SNX and the pool over the unit, by which the divisor of the amount to
\* liquidate, which is cut off, is multiplied.
THEOREM LiquidationsStop ==
  ASSUME NEW Pool \in Nat, Pool <= PRECISE_UNIT,
         \A rate \in Rates : 8 * UNIT + 3 * rate + 2 * Pool <= 2 * (UNIT * RoundingSlack)
  PROVE  Spec /\ [](totalIssuedSynths <= Pool) => LiquidationStopsAtTarget
<1>1. ASSUME IInv, [Next]_vars, totalIssuedSynths <= Pool, (totalIssuedSynths <= Pool)',
             debtLedger' # debtLedger, NEW a \in Accounts, snx'[a] < snx[a], DebtIsDefined(a)'
      PROVE  /\ AtMost(maxIssuableSynths(a)', debtInSUSD(a)')
             /\ deadline'[a] = 0 => AtMost(debtInSUSD(a)', maxIssuableSynths(a)')
  <2> DEFINE mm == maxIssuableSynths(a)'
             new == debtInSUSD(a)'
             total == totalIssuedSynths
             after == totalIssuedSynths'
  <2>1. IInv'
    BY <1>1, NextPreserves
  <2>2. PICK amount \in Amounts, b \in Accounts : LiquidateDelinquentAccount(a, amount, b)
    BY <1>1, OnlyLiquidationsTakeCollateral
  <2>3. total \in Nat /\ after \in Nat /\ PRECISE_UNIT \in Nat
    BY <1>1, <2>1, PoolNat, PreciseUnitNat
  <2>4. after <= PRECISE_UNIT
    BY <1>1, <2>3
  <2>5. /\ mm \in Nat /\ new \in Nat
        /\ 2 * (UNIT * mm) <= 2 * (UNIT * new) + 6 * UNIT + 3 * snxRate
        /\ deadline'[a] = 0 =>
             2 * (UNIT * new) <= 2 * (UNIT * mm) + 8 * UNIT + snxRate + 2 * total
    BY <1>1, <2>1, <2>2, <2>4, LiquidationInNumbers
  <2>6. snxRate \in Rates /\ snxRate \in Nat
    BY <1>1, IssuerAssumption DEF IInv, TypeOK
  <2>7. UNIT \in Nat /\ UNIT > 0 /\ RoundingSlack \in Nat
    BY UnitAssumption, IssuerAssumption
  <2> HIDE DEF mm, new, total, after
  <2>8. 8 * UNIT + 3 * snxRate + 2 * Pool <= 2 * (UNIT * RoundingSlack)
    BY <2>6
  <2>9. /\ UNIT * mm \in Nat /\ UNIT * new \in Nat /\ UNIT * RoundingSlack \in Nat
         /\ total <= Pool
    BY <1>1, <2>5, <2>7, MulNat DEF total
  <2>10. ASSUME NEW y \in Nat, NEW z \in Nat,
                UNIT * y <= UNIT * z + UNIT * RoundingSlack
         PROVE  AtMost(y, z)
    <3>1. y * UNIT <= (z + RoundingSlack) * UNIT
      BY <2>7, <2>10
    <3> QED BY <2>7, <3>1, CommonFactor DEF AtMost
  <2>11. UNIT * mm <= UNIT * new + UNIT * RoundingSlack
    BY <2>3, <2>5, <2>6, <2>7, <2>8, <2>9
  <2>12. deadline'[a] = 0 => UNIT * new <= UNIT * mm + UNIT * RoundingSlack
    BY <2>3, <2>5, <2>6, <2>7, <2>8, <2>9
  <2> QED BY <2>5, <2>10, <2>11, <2>12 DEF mm, new
<1>2. IInv /\ [Next]_vars /\ totalIssuedSynths <= Pool /\ (totalIssuedSynths <= Pool)' =>
        [debtLedger' # debtLedger =>
           \A a \in Accounts :
             snx'[a] < snx[a] /\ DebtIsDefined(a)' =>
               /\ AtMost(maxIssuableSynths(a)', debtInSUSD(a)')
               /\ deadline'[a] = 0 => AtMost(debtInSUSD(a)', maxIssuableSynths(a)')]_vars
  BY <1>1
<1> QED BY <1>2, Invariance, PTL DEF Spec, LiquidationStopsAtTarget
------------------------------------------------------------------------------
(* What becomes of the flag when the debt is gone. *)

\* A part of a pool that is small for the precision is a share.
LEMMA PartIsAShare ==
  ASSUME NEW part \in Nat, part > 0, NEW total \in Nat, total > 0, total <= PRECISE_UNIT
  PROVE  divideDecimalRoundPrecise(part, total) > 0
<1> DEFINE share == divideDecimalRoundPrecise(part, total)
<1>1. share \in Nat /\ Nearest(share, part * PRECISE_UNIT, total) /\ PRECISE_UNIT \in Nat
  BY DivideNat, DivisionRoundsToNearest, PreciseUnitNat
<1> HIDE DEF share
<1>2. 1 * PRECISE_UNIT <= part * PRECISE_UNIT /\ part * PRECISE_UNIT \in Nat
  BY <1>1, MulNat, MulMonotone
<1>3. share # 0
  <2> SUFFICES ASSUME share = 0 PROVE FALSE
    OBVIOUS
  <2>1. 2 * (part * PRECISE_UNIT) < 2 * (0 * total) + total
    BY <1>1 DEF Nearest
  <2> QED BY <1>1, <1>2, <2>1
<1> QED BY <1>1, <1>3 DEF share

\* Adding to the register leaves a share.
LEMMA AddLeavesShare ==
  ASSUME RegisterTypeOK, NEW a \in Accounts, NEW amount \in Nat, NEW debt \in Nat, debt > 0,
         NEW total \in Nat, amount + total <= PRECISE_UNIT,
         addToDebtRegister(a, amount, debt, total)
  PROVE  hasIssued(a)'
<1>1. divideDecimalRoundPrecise(amount + debt, amount + total) > 0
  BY PartIsAShare DEF addToDebtRegister
<1>2. issuanceData'[a].initialDebtOwnership
        = divideDecimalRoundPrecise(amount + debt, amount + total)
  BY DEF addToDebtRegister, setCurrentIssuanceData, RegisterTypeOK
<1> QED BY <1>1, <1>2 DEF hasIssued

\* Removing leaves one unless all is removed.
LEMMA RemoveLeavesShare ==
  ASSUME RegisterTypeOK, NEW a \in Accounts, NEW removed \in Nat, NEW debt \in Nat,
         NEW total \in Nat, total - removed <= PRECISE_UNIT,
         removeFromDebtRegister(a, removed, debt, total), ~hasIssued(a)'
  PROVE  removed = debt
<1> SUFFICES ASSUME removed # debt PROVE FALSE
  OBVIOUS
<1>1. /\ removed < debt /\ total - removed > 0 /\ removed <= total
      /\ setCurrentIssuanceData(a, divideDecimalRoundPrecise(debt - removed, total - removed))
  BY DEF removeFromDebtRegister
<1>2. debt - removed \in Nat /\ debt - removed > 0 /\ total - removed \in Nat
  BY <1>1
<1>3. divideDecimalRoundPrecise(debt - removed, total - removed) > 0
  BY <1>1, <1>2, PartIsAShare
<1>4. issuanceData'[a].initialDebtOwnership
        = divideDecimalRoundPrecise(debt - removed, total - removed)
  BY <1>1 DEF setCurrentIssuanceData, RegisterTypeOK
<1> QED BY <1>3, <1>4 DEF hasIssued

\* A burn of all the debt removes the flag.
LEMMA BurnTakesFlag ==
  ASSUME IInv, NEW a \in Accounts, NEW amount \in Nat, NEW debt \in Nat, NEW total \in Nat,
         NEW balance, NEW supply \in Nat, total = supply + otherSynths,
         internalBurnSynths(a, amount, debt, total, balance, supply),
         totalIssuedSynths' <= PRECISE_UNIT, ~hasIssued(a)'
  PROVE  deadline'[a] = 0
<1> DEFINE burned == IF debt < amount THEN debt ELSE amount
<1>1. burned \in Nat /\ otherSynths \in Nat
  BY DEF IInv, TypeOK
<1>2. /\ removeFromDebtRegister(a, burned, debt, total)
      /\ unflagIfRepaired(a, debt, burned)
      /\ sUSDSupply' = supply - burned /\ otherSynths' = otherSynths
  BY DEF internalBurnSynths, priceVars
<1> HIDE DEF burned
<1>3. total - burned <= PRECISE_UNIT /\ RegisterTypeOK
  BY <1>1, <1>2 DEF IInv, TypeOK, totalIssuedSynths
<1>4. burned = debt
  BY <1>1, <1>2, <1>3, RemoveLeavesShare
<1>5. debt - burned <= maxIssuableSynths(a)
  BY <1>4, ViewsNat
<1> QED BY <1>2, <1>5 DEF unflagIfRepaired, removeAccountInLiquidation, IInv, TypeOK

\* Neither does an issue end a debt, so only a liquidation ends one and leaves the
\* flag.
LEMMA OnlyLiquidationsLeaveFlags ==
  ASSUME IInv, NEW a \in Accounts, IssuerStep(a), debtInSUSD(a) > 0, DebtIsDefined(a),
         totalIssuedSynths' <= PRECISE_UNIT, ~hasIssued(a)', deadline'[a] > 0
  PROVE  \E amount \in Amounts, b \in Accounts : LiquidateDelinquentAccount(a, amount, b)
<1>1. /\ debtInSUSD(a) \in Nat /\ totalIssuedSynths \in Nat /\ maxIssuableSynths(a) \in Nat
      /\ RegisterTypeOK
  BY ViewsNat DEF IInv, TypeOK
<1>2. ASSUME NEW amount \in Nat, internalIssueSynths(a, amount) PROVE FALSE
  <2>1. /\ addToDebtRegister(a, amount, debtInSUSD(a), totalIssuedSynths)
        /\ sUSDSupply' = sUSDSupply + amount /\ otherSynths' = otherSynths
    BY <1>2 DEF internalIssueSynths, priceVars
  <2>2. amount + totalIssuedSynths <= PRECISE_UNIT
    <3>1. sUSDSupply \in Nat /\ otherSynths \in Nat
      BY DEF IInv, TypeOK
    <3> QED BY <2>1, <3>1 DEF totalIssuedSynths
  <2> QED BY <1>1, <2>1, <2>2, AddLeavesShare
<1>3. ASSUME NEW amount \in Amounts, IssueSynths(a, amount) PROVE FALSE
  BY <1>2, <1>3, IssuerAssumption DEF IssueSynths
<1>4. ASSUME IssueMaxSynths(a) PROVE FALSE
  BY <1>2, <1>4, RemainingNat DEF IssueMaxSynths
<1>5. ASSUME NEW amount \in Amounts, BurnSynths(a, amount) PROVE FALSE
  <2> DEFINE balance == sUSD[a] + NetSettled(a)
             supply == sUSDSupply + NetSettled(a)
             total == supply + otherSynths
             refunded == IF NetSettled(a) > 0 THEN NetSettled(a) ELSE 0
             afterSettlement ==
               IF pending[a].until = 0 THEN amount
               ELSE (IF amount > balance THEN balance ELSE amount) + refunded
  <2>1. /\ pending[a].until \in Nat /\ pending[a].reclaim \in Nat /\ pending[a].rebate \in Nat
        /\ sUSD[a] \in Nat /\ sUSDSupply \in Nat /\ otherSynths \in Nat
    BY DEF IInv, TypeOK
  <2>2. CanSettle(a)
    BY <1>5 DEF BurnSynths
  <2>3. balance \in Nat /\ supply \in Nat /\ total \in Nat /\ refunded \in Nat
    BY <2>1, <2>2 DEF CanSettle, NetSettled
  <2>4. amount \in Nat
    BY IssuerAssumption
  <2>5. internalBurnSynths(a, afterSettlement, debtBalance(a, total), total, balance, supply)
    BY <1>5 DEF BurnSynths, settledPool
  <2>6. total = supply + otherSynths
    OBVIOUS
  <2> HIDE DEF balance, supply, total, refunded
  <2>7. afterSettlement \in Nat
    BY <2>3, <2>4
  <2>8. debtBalance(a, total) \in Nat
    BY <1>1, <2>3, DebtBalanceNat DEF IInv
  <2> HIDE DEF afterSettlement
  <2> QED BY <2>3, <2>5, <2>6, <2>7, <2>8, BurnTakesFlag
<1>6. ASSUME BurnSynthsToTarget(a) PROVE FALSE
  <2>1. debtInSUSD(a) - maxIssuableSynths(a) \in Nat
    BY <1>1, <1>6 DEF BurnSynthsToTarget
  <2>2. sUSDSupply \in Nat /\ totalIssuedSynths = sUSDSupply + otherSynths
    BY DEF IInv, TypeOK, totalIssuedSynths
  <2>3. internalBurnSynths(a, debtInSUSD(a) - maxIssuableSynths(a), debtInSUSD(a),
                           totalIssuedSynths, sUSD[a], sUSDSupply)
    BY <1>6 DEF BurnSynthsToTarget
  <2> QED BY <1>1, <2>1, <2>2, <2>3, BurnTakesFlag
<1> QED BY <1>3, <1>4, <1>5, <1>6 DEF IssuerStep

\* The debt with the penalty, cut off to a unit.
penalisedDebt(a) == multiplyDecimal(debtInSUSD(a), UNIT + LiquidationPenalty)

\* A liquidation that burns all the debt and leaves the flag is of collateral worth
\* the debt and the penalty.
LEMMA FullLiquidationInNumbers ==
  ASSUME IInv, NEW a \in Accounts, NEW susdAmount \in Amounts, NEW b \in Accounts,
         LiquidateDelinquentAccount(a, susdAmount, b),
         totalIssuedSynths' <= PRECISE_UNIT, ~hasIssued(a)', deadline'[a] > 0
  PROVE  LET p == UNIT + LiquidationPenalty
             bound == 2 * (UNIT * p) + 3 * (snxRate * p)
         IN  /\ collateralValue(a) \in Nat /\ penalisedDebt(a) \in Nat /\ debtInSUSD(a) \in Nat
             /\ penalisedDebt(a) * UNIT <= debtInSUSD(a) * p
             /\ debtInSUSD(a) * p <= penalisedDebt(a) * UNIT + UNIT
             /\ 2 * (debtInSUSD(a) * (UNIT * p)) <= 2 * (collateralValue(a) * (UNIT * UNIT)) + bound
             /\ 2 * (collateralValue(a) * (UNIT * UNIT)) <= 2 * (debtInSUSD(a) * (UNIT * p)) + bound
<1> DEFINE U == UNIT
           r == IssuanceRatio
           p == UNIT + LiquidationPenalty
           q == multiplyDecimal(p, r)
           d == U - q
           R == snxRate
           S == collateral(a)
           V == collateralValue(a)
           k == maxIssuableSynths(a)
           D == debtInSUSD(a)
           m == penalisedDebt(a)
           g == D - k
           fix == amountToFix(a)
<1>1. PICK x \in Nat, burned \in Nat :
        /\ x <= fix
        /\ removeFromDebtRegister(a, burned, D, totalIssuedSynths)
        /\ totalIssuedSynths' = totalIssuedSynths - burned
        /\ \/ redeemedFor(x) <= S /\ burned = x
           \/ redeemedFor(x) > S /\ burned = soldForAll(a)
        /\ deadline'[a] = 0 <=> burned = fix
  BY LiquidationAmounts
<1>2. DebtIsDefined(a) /\ D >= k
  BY DEF LiquidateDelinquentAccount, maxIssuableSynths
<1>3. /\ S \in Nat /\ V \in Nat /\ k \in Nat /\ D \in Nat /\ R \in Nat /\ R > 0
      /\ totalIssuedSynths \in Nat
  BY <1>2, ViewsNat
<1>4. /\ U \in Nat /\ U > 0 /\ p \in Nat /\ p > 0 /\ U <= p /\ r \in Nat /\ r > 0
  BY UnitAssumption, LiquidationAssumption
<1>5. burned = D
  <2>1. RegisterTypeOK
    BY DEF IInv, TypeOK
  <2> QED BY <1>1, <1>3, <2>1, RemoveLeavesShare
<1>6. q \in Nat /\ q * U <= p * r
  <2>1. p * r \in Nat
    BY <1>4, MulNat
  <2> QED BY <1>4, <2>1, DivNat, DivBounds DEF multiplyDecimal
<1>7. d \in Nat /\ d > 0 /\ U = d + q
  <2>1. d \in Nat \ {0}
    BY FixDivisorPositive
  <2> QED BY <1>4, <1>6, <2>1
<1>8. g \in Nat /\ D = k + g
  BY <1>2, <1>3
<1>9. fix \in Nat /\ fix * d <= g * U
  <2>1. fix = (g * U) \div d
    BY DEF amountToFix, calculateAmountToFixCollateral, divideDecimal, maxIssuableSynths
  <2> HIDE DEF fix, g, U, d
  <2>2. g * U \in Nat
    BY <1>4, <1>8, MulNat
  <2> QED BY <1>7, <2>1, <2>2, DivNat, DivBounds
<1>10. 2 * (V * U) <= 2 * (S * R) + U /\ 2 * (S * R) <= 2 * (V * U) + U
  <2>1. Nearest(V, S * R, U)
    BY <1>3, MultiplicationRoundsToNearest DEF collateralValue
  <2> HIDE DEF V, S, R, U
  <2>2. S * R \in Nat /\ V * U \in Nat
    BY <1>3, <1>4, MulNat
  <2> QED BY <1>4, <2>1, <2>2 DEF Nearest
<1>11. V * r <= k * U + U
  <2>1. V * r \in Nat
    BY <1>3, <1>4, MulNat
  <2>2. k = (V * r) \div U
    BY DEF maxIssuableSynths, multiplyDecimal
  <2> HIDE DEF V, r, U, k
  <2>3. V * r < k * U + U /\ k * U \in Nat
    BY <1>3, <1>4, <2>1, <2>2, DivBounds, MulNat
  <2> QED BY <1>4, <2>1, <2>3
<1>12. m \in Nat /\ m * U <= D * p /\ D * p <= m * U + U
  <2>1. m = (D * p) \div U
    BY DEF penalisedDebt, multiplyDecimal
  <2> HIDE DEF m, D, p, U
  <2>2. D * p \in Nat
    BY <1>3, <1>4, MulNat
  <2>3. m \in Nat /\ m * U <= D * p /\ D * p < m * U + U
    BY <1>4, <2>1, <2>2, DivNat, DivBounds
  <2>4. m * U \in Nat
    BY <1>4, <2>3, MulNat
  <2> QED BY <1>4, <2>2, <2>3, <2>4
<1>13. \E n \in Nat : /\ Nearest(n, x * U, R)
                      /\ redeemedFor(x) \in Nat
                      /\ redeemedFor(x) * U <= n * p /\ n * p < redeemedFor(x) * U + U
  <2> DEFINE n == divideDecimalRound(x, R)
  <2>1. n \in Nat /\ Nearest(n, x * U, R)
    BY <1>3, DivideNat, DivisionRoundsToNearest
  <2>2. redeemedFor(x) = (n * p) \div U
    BY DEF redeemedFor, multiplyDecimal
  <2> HIDE DEF n, p, U
  <2>3. n * p \in Nat
    BY <1>4, <2>1, MulNat
  <2> QED BY <1>4, <2>1, <2>2, <2>3, DivNat, DivBounds
<1>14. soldForAll(a) = D => \E h \in Nat : /\ h * p <= S * U /\ S * U < h * p + p
                                           /\ Nearest(D, h * R, U)
  <2> DEFINE h == (S * U) \div p
  <2>1. soldForAll(a) = multiplyDecimalRound(h, R)
    BY DEF soldForAll, divideDecimal
  <2> HIDE DEF S, U, p, R, D
  <2>2. S * U \in Nat
    BY <1>3, <1>4, MulNat
  <2>3. h \in Nat /\ h * p <= S * U /\ S * U < h * p + p
    BY <1>4, <2>2, DivNat, DivBounds
  <2> HIDE DEF h
  <2>4. Nearest(multiplyDecimalRound(h, R), h * R, UNIT)
    BY <1>3, <2>3, MultiplicationRoundsToNearest
  <2> QED BY <2>1, <2>3, <2>4 DEF U
<1> DEFINE UU == U * U
           Up == U * p
           Rp == R * p
           UR == U * R
           lower == 2 * (D * (U * p)) <= 2 * (V * (U * U)) + 2 * (U * p) + 3 * (R * p)
           upper == 2 * (V * (U * U)) <= 2 * (D * (U * p)) + 2 * (U * p) + 3 * (R * p)
<1> HIDE DEF U, r, p, q, d, R, S, V, k, D, m, g, fix
<1>15. UU <= Up /\ UR <= Rp
  <2>1. U * U <= p * U /\ U * R <= p * R
    BY <1>3, <1>4, MulMonotone
  <2> QED BY <1>3, <1>4, <2>1
<1>16. /\ UU \in Nat /\ Up \in Nat /\ Rp \in Nat /\ UR \in Nat
       /\ D * Up \in Nat /\ V * UU \in Nat
  BY <1>3, <1>4, MulNat
<1>17. ASSUME redeemedFor(x) <= S, burned = x PROVE lower /\ upper
  <2> DEFINE rd == redeemedFor(x)
             left == S - rd
  <2>1. PICK n \in Nat : /\ Nearest(n, D * U, R)
                         /\ rd \in Nat
                         /\ rd * U <= n * p /\ n * p < rd * U + U
    BY <1>5, <1>13, <1>17
  <2>2. left \in Nat /\ S = left + rd
    BY <1>3, <1>17, <2>1
  <2> HIDE DEF rd, left
  <2>3. 2 * (D * U) <= 2 * (n * R) + R /\ n * p <= rd * U + U
    <3>1. D * U \in Nat /\ n * R \in Nat /\ n * p \in Nat /\ rd * U \in Nat
      BY <1>3, <1>4, <2>1, MulNat
    <3> QED BY <1>3, <1>4, <2>1, <3>1 DEF Nearest
  <2>4. 2 * (0 * U) <= 2 * (left * R) + U
    <3>1. left * R \in Nat /\ 0 * U = 0
      BY <1>3, <1>4, <2>2, MulNat
    <3> QED BY <1>4, <3>1
  <2>5. 2 * (0 * UU) + 2 * (D * Up) <= 2 * (V * UU) + 2 * UU + Rp + 2 * UR
    BY <1>3, <1>4, <1>10, <2>1, <2>2, <2>3, <2>4, RedeemedIsEnough
  <2>6. D < fix
    <3>1. burned # fix
      BY <1>1
    <3> QED BY <1>1, <1>3, <1>5, <1>9, <1>17, <3>1
  <2>7. V * U <= D * p + p
    BY <1>3, <1>4, <1>6, <1>7, <1>8, <1>9, <1>11, <2>6, CollateralIsShort
  <2>8. V * UU <= D * Up + Up
    <3>1. (V * U) * U <= (D * p + p) * U
      BY <1>3, <1>4, <2>7, MulNat, MulMonotone
    <3>2. (V * U) * U = V * UU /\ (D * p + p) * U = D * Up + Up
      BY <1>3, <1>4
    <3> QED BY <3>1, <3>2
  <2> HIDE DEF UU, Up, Rp, UR
  <2>9. /\ 2 * (D * Up) <= 2 * (V * UU) + 2 * Up + 3 * Rp
        /\ 2 * (V * UU) <= 2 * (D * Up) + 2 * Up + 3 * Rp
    BY <1>15, <1>16, <2>5, <2>8
  <2> QED BY <2>9 DEF UU, Up, Rp
<1>18. ASSUME redeemedFor(x) > S, burned = soldForAll(a) PROVE lower /\ upper
  <2>1. PICK h \in Nat : h * p <= S * U /\ S * U < h * p + p /\ Nearest(D, h * R, U)
    BY <1>5, <1>14, <1>18
  <2>2. /\ S * U <= h * p + p
        /\ 2 * (D * U) <= 2 * (h * R) + U /\ 2 * (h * R) <= 2 * (D * U) + U
    <3>1. S * U \in Nat /\ h * p \in Nat /\ h * R \in Nat /\ D * U \in Nat
      BY <1>3, <1>4, <2>1, MulNat
    <3> QED BY <1>4, <2>1, <3>1 DEF Nearest
  <2>3. /\ 2 * (D * Up) <= 2 * (V * UU) + UU + Up
        /\ 2 * (V * UU) <= 2 * (D * Up) + Up + 2 * Rp + UU
    BY <1>3, <1>4, <1>10, <2>1, <2>2, CollateralIsSold
  <2> HIDE DEF UU, Up, Rp, UR
  <2>4. /\ 2 * (D * Up) <= 2 * (V * UU) + 2 * Up + 3 * Rp
        /\ 2 * (V * UU) <= 2 * (D * Up) + 2 * Up + 3 * Rp
    BY <1>15, <1>16, <2>3
  <2> QED BY <2>4 DEF UU, Up, Rp
<1>19. lower /\ upper
  BY <1>1, <1>17, <1>18
<1>20. /\ V \in Nat /\ m \in Nat /\ D \in Nat /\ m * U <= D * p /\ D * p <= m * U + U
       /\ 2 * (D * (U * p)) <= 2 * (V * (U * U)) + (2 * (U * p) + 3 * (R * p))
       /\ 2 * (V * (U * U)) <= 2 * (D * (U * p)) + (2 * (U * p) + 3 * (R * p))
  <2> HIDE DEF UU, Up, Rp, UR
  <2>1. /\ 2 * (D * Up) <= 2 * (V * UU) + 2 * Up + 3 * Rp
        /\ 2 * (V * UU) <= 2 * (D * Up) + 2 * Up + 3 * Rp
    BY <1>19 DEF UU, Up, Rp
  <2>2. /\ 2 * (D * Up) <= 2 * (V * UU) + (2 * Up + 3 * Rp)
        /\ 2 * (V * UU) <= 2 * (D * Up) + (2 * Up + 3 * Rp)
    BY <1>16, <2>1
  <2> QED BY <1>3, <1>12, <2>2 DEF UU, Up, Rp
<1> QED BY <1>20 DEF U, p, R, V, D, m

\* The step that ends a debt removes the flag, or is a liquidation of collateral
\* worth the debt and the penalty, up to the unit, the unit with the penalty and
\* one and a half times the price of SNX with the penalty.
THEOREM FlagsEndWithDebt ==
  ASSUME \A rate \in Rates :
           LET p == UNIT + LiquidationPenalty
           IN  2 * (UNIT * UNIT) + 2 * (UNIT * p) + 3 * (rate * p)
                 <= 2 * ((UNIT * UNIT) * RoundingSlack)
  PROVE  Spec /\ [](totalIssuedSynths <= PRECISE_UNIT) => FlagsGoWithDebt
<1>1. ASSUME IInv, [Next]_vars, totalIssuedSynths' <= PRECISE_UNIT, NEW a \in Accounts,
             deadline'[a] > 0, ~hasIssued(a)', DebtIsDefined(a), debtInSUSD(a) > 0
      PROVE  Near(collateralValue(a),
                  multiplyDecimal(debtInSUSD(a), UNIT + LiquidationPenalty))
  <2> DEFINE p == UNIT + LiquidationPenalty
             V == collateralValue(a)
             D == debtInSUSD(a)
             m == penalisedDebt(a)
  <2>1. hasIssued(a)
    BY <1>1 DEF debtInSUSD, debtBalance
  <2>2. LiquidationsNext \/ TokenNext \/ EnvironmentNext \/ UNCHANGED vars
          => issuanceData' = issuanceData
    BY DEF LiquidationsNext, FlagAccountForLiquidation, CheckAndRemoveAccountInLiquidation,
           TokenNext, TransferSNX, TransferSUSD, Vest, SettleSUSD, ExchangeFromSUSD,
           ExchangeToSUSD, EnvironmentNext, UpdateRates, UpdateSuspension, Tick, vars,
           registerVars
  <2>3. issuanceData'[a] # issuanceData[a]
    BY <1>1, <2>1 DEF hasIssued
  <2>4. PICK c \in Accounts : IssuerStep(c)
    BY <1>1, <2>2, <2>3 DEF Next, IssuerNext
  <2>5. c = a
    BY <1>1, <2>3, <2>4, OneShareIsSet
  <2>6. PICK amount \in Amounts, b \in Accounts : LiquidateDelinquentAccount(a, amount, b)
    BY <1>1, <2>4, <2>5, OnlyLiquidationsLeaveFlags
  <2>7. /\ V \in Nat /\ m \in Nat /\ D \in Nat /\ m * UNIT <= D * p /\ D * p <= m * UNIT + UNIT
        /\ 2 * (D * (UNIT * p)) <= 2 * (V * (UNIT * UNIT)) + (2 * (UNIT * p) + 3 * (snxRate * p))
        /\ 2 * (V * (UNIT * UNIT)) <= 2 * (D * (UNIT * p)) + (2 * (UNIT * p) + 3 * (snxRate * p))
    BY <1>1, <2>6, FullLiquidationInNumbers
  <2>8. snxRate \in Rates /\ snxRate \in Nat
    BY <1>1, IssuerAssumption DEF IInv, TypeOK
  <2>9. 2 * (UNIT * UNIT) + 2 * (UNIT * p) + 3 * (snxRate * p)
          <= 2 * ((UNIT * UNIT) * RoundingSlack)
    BY <2>8
  <2>10. /\ UNIT \in Nat /\ UNIT > 0 /\ p \in Nat /\ UNIT <= p /\ RoundingSlack \in Nat
    BY UnitAssumption, LiquidationAssumption, IssuerAssumption
  <2> HIDE DEF p, V, D, m
  <2>11. /\ 2 * (D * (UNIT * p)) <= 2 * (V * (UNIT * UNIT)) + 2 * (UNIT * p) + 3 * (snxRate * p)
         /\ 2 * (V * (UNIT * UNIT)) <= 2 * (D * (UNIT * p)) + 2 * (UNIT * p) + 3 * (snxRate * p)
    <3>1. /\ UNIT * p \in Nat /\ snxRate * p \in Nat /\ D * (UNIT * p) \in Nat
          /\ V * (UNIT * UNIT) \in Nat
      BY <2>7, <2>8, <2>10, MulNat
    <3> QED BY <2>7, <3>1
  <2>12. V <= m + RoundingSlack /\ m <= V + RoundingSlack
    BY <2>7, <2>8, <2>9, <2>10, <2>11, ValueNearPenalised
  <2> QED BY <2>12 DEF Near, AtMost, V, m, penalisedDebt
<1>2. IInv /\ [Next]_vars /\ (totalIssuedSynths <= PRECISE_UNIT)' =>
        [\A a \in Accounts :
           /\ deadline'[a] > 0 /\ ~hasIssued(a)'
           /\ DebtIsDefined(a) /\ debtInSUSD(a) > 0
           => Near(collateralValue(a),
                   multiplyDecimal(debtInSUSD(a), UNIT + LiquidationPenalty))]_vars
  <2>1. (totalIssuedSynths <= PRECISE_UNIT)' => totalIssuedSynths' <= PRECISE_UNIT
    BY DEF PRECISE_UNIT
  <2> QED BY <1>1, <2>1
<1> QED BY <1>2, Invariance, PTL DEF Spec, FlagsGoWithDebt
==============================================================================
