----------------------------- MODULE MCExchanger ------------------------------
(* Exchanges on a small instance: amounts and rates are in tenths (UNIT = 10). *)
EXTENDS Exchanger

CONSTANTS a1, fees

MCFeeRate == [s \in Currencies |-> 1]
================================================================================
