------------------------------- MODULE MCCommands -------------------------------
(* Two of the maintenance commands: an operator uses one of them at a time and  *)
(* they share nothing, so that a behaviour is one of settle or one of the       *)
(* migration of markets. The other has nothing to do meanwhile.                 *)
EXTENDS Settle, MarketMigration

VARIABLE job
commandsVars == <<job, settleVars, migVars>>

CommandsInit ==
  /\ job \in {"settle", "migrate"}
  /\ SettleInit /\ MigInit
  /\ job # "settle" => due = {} /\ seeded
  /\ job # "migrate" => existed = {}

settleJob(A) == job = "settle" /\ A /\ UNCHANGED <<job, migVars>>
migrateJob(A) == job = "migrate" /\ A /\ UNCHANGED <<job, settleVars>>

CommandsNext == settleJob(SettleNext) \/ migrateJob(MigNext)

\* The fairness of each command, while it is the one in use.
CommandsSpec ==
  /\ CommandsInit /\ [][CommandsNext]_commandsVars
  /\ WF_commandsVars(settleJob(settleStep)) /\ SF_commandsVars(settleJob(startSettle(TRUE)))
  /\ WF_commandsVars(settleJob(mineSettle)) /\ WF_commandsVars(settleJob(waitingEnds))
  /\ WF_commandsVars(settleJob(blockEnds)) /\ WF_commandsVars(migrateJob(migStep))
================================================================================
