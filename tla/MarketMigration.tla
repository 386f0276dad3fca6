----------------------------- MODULE MarketMigration ----------------------------
(* The migrate-binary-option-markets command: it copies the lists of active    *)
(* and matured markets from the source manager page by page, then hands the    *)
(* markets to the target manager chunk by chunk, two transactions for each.    *)
(* Meanwhile markets are resolved, cancelled and expire, which moves the last  *)
(* market of a list to the place of the one removed (AddressListLib).          *)
EXTENDS Naturals, Sequences, SequencesExt, FiniteSets

CONSTANTS Markets,
          FetchSize,  \* markets asked for in the first page
          ChunkSize,
          CreatedDuring, \* markets may be created while a run is in progress
          MaxStopped  \* bound on runs that stop

\* The second argument of the pages is their size, but the command passes the
\* index of their end: the third page overlaps the second, and with more markets
\* than two pages hold the lengths never agree.
ASSUME PageLimit == Cardinality(Markets) <= 2 * FetchSize /\ ChunkSize > 0

ASSUME MarketAssumption ==
  IsFiniteSet(Markets) /\ FetchSize \in Nat /\ ChunkSize \in Nat

Kinds == <<"active", "matured">>

VARIABLES lists,     \* chain: the lists of the two managers
          existed,   \* chain: markets created so far
          accepts,   \* chain: the target accepts markets of the source
          mig, kind, at, counts, fetched, \* the run: its step, the list it works
                                          \* on and the place in it, what it read
          older,     \* history: markets of the source when the run started
          stopped

marketChain == <<lists, existed, accepts>>
migVars == <<marketChain, mig, kind, at, counts, fetched, older, stopped>>

marketsOf(manager) == UNION {Range(lists[manager][k]) : k \in Range(Kinds)}
Nothing == [k \in Range(Kinds) |-> <<>>]

MigInit ==
  /\ \E a, b \in SUBSET Markets :
       /\ a \cap b = {}
       /\ lists = [source |-> [active |-> SetToSeq(a), matured |-> SetToSeq(b)],
                   target |-> Nothing]
       /\ existed = a \cup b
  /\ accepts = FALSE
  /\ mig = "idle" /\ kind = 1 /\ at = 0 /\ counts = [k \in Range(Kinds) |-> 0]
  /\ fetched = Nothing /\ older = {} /\ stopped = 0

(* --------------------------------- the run -------------------------------- *)

now == Kinds[kind]
run(step, k, i) == mig' = step /\ kind' = k /\ at' = i
throws == run("idle", 1, 0)
\* After the last list of a phase the next phase starts with the first list.
nextList(step, phase) == IF kind = Len(Kinds) THEN run(phase, 1, 0) ELSE run(step, kind + 1, 0)

startMigration ==
  /\ mig \in {"idle", "done"} /\ marketsOf("source") # {}
  /\ run("count", 1, 0)
  /\ fetched' = Nothing
  /\ older' = marketsOf("source")
  /\ UNCHANGED <<marketChain, counts, stopped>>

countMarkets ==
  /\ mig = "count"
  /\ counts' = [counts EXCEPT ![now] = Len(lists["source"][now])]
  /\ nextList("count", "fetch")
  /\ UNCHANGED <<marketChain, fetched, older, stopped>>

\* The elements from one index up to another, or to the end.
slice(list, from, to) == SubSeq(list, from + 1, IF to > Len(list) THEN Len(list) ELSE to)

\* A page starts at its index; its size is the index plus the size of a page.
page(list, i) == slice(list, i, i + (i + FetchSize))
fetchPage ==
  /\ mig = "fetch" /\ at < counts[now]
  /\ fetched' = [fetched EXCEPT ![now] = @ \o page(lists["source"][now], at)]
  /\ run("fetch", kind, at + FetchSize)
  /\ UNCHANGED <<marketChain, counts, older, stopped>>

\* Whatever was fetched will do.
fetchedSome == TRUE
\* The number of markets fetched must be the one expected.
allFetched == Len(fetched[now]) = counts[now]
checkFetched ==
  /\ mig = "fetch" /\ at >= counts[now]
  /\ IF allFetched THEN nextList("fetch", "manager") ELSE throws
  /\ UNCHANGED <<marketChain, counts, fetched, older, stopped>>

\* The migrating manager is set at the source, which never asks for it.
setAtSource == accepts
setAtTarget == TRUE
setMigratingManager ==
  /\ mig = "manager"
  /\ accepts' = setAtTarget
  /\ run("sync", 1, 0)
  /\ UNCHANGED <<lists, existed, counts, fetched, older, stopped>>

\* A chunk: the markets' caches are refreshed, which only their manager may do,
\* then they are migrated, those of a list that has all of them.
chunk == slice(fetched[now], at, at + ChunkSize)
syncChunk ==
  /\ mig = "sync" /\ at < Len(fetched[now])
  /\ IF Range(chunk) \subseteq marketsOf("source") THEN run("migrate", kind, at) ELSE throws
  /\ UNCHANGED <<marketChain, counts, fetched, older, stopped>>

\* AddressListLib: the last element takes the place of the one removed.
remove(list, m) ==
  LET last == list[Len(list)]
  IN [i \in 1 .. (Len(list) - 1) |-> IF list[i] = m THEN last ELSE list[i]]

canMigrate == accepts /\ Range(chunk) \subseteq Range(lists["source"][now])
migrateChunk ==
  /\ mig = "migrate"
  /\ IF canMigrate
     THEN /\ lists' = [lists EXCEPT !["source"][now] = FoldLeft(remove, @, chunk),
                                    !["target"][now] = @ \o chunk]
          /\ run("sync", kind, at + ChunkSize)
     ELSE throws /\ UNCHANGED lists
  /\ UNCHANGED <<existed, accepts, counts, fetched, older, stopped>>

endOfList ==
  /\ mig = "sync" /\ at >= Len(fetched[now])
  /\ nextList("sync", "done")
  /\ UNCHANGED <<marketChain, counts, fetched, older, stopped>>

\* A cancelled prompt or a failed call: the next run reads everything again.
stopMigration ==
  /\ mig \notin {"idle", "done"} /\ stopped < MaxStopped
  /\ stopped' = stopped + 1
  /\ throws
  /\ UNCHANGED <<marketChain, counts, fetched, older>>

(* ------------------------------- the markets ------------------------------ *)

\* Somebody creates a market at the source, resolves or cancels an active one,
\* or lets a matured one expire.
createMarket ==
  /\ mig \in {"idle", "done"} \/ CreatedDuring
  /\ \E m \in Markets \ existed :
       /\ lists' = [lists EXCEPT !["source"]["active"] = Append(@, m)]
       /\ existed' = existed \cup {m}
  /\ UNCHANGED <<accepts, mig, kind, at, counts, fetched, older, stopped>>

resolveMarket ==
  /\ \E o \in DOMAIN lists, m \in Markets :
       /\ m \in Range(lists[o]["active"])
       /\ lists' = [lists EXCEPT ![o]["active"] = remove(@, m),
                                 ![o]["matured"] = Append(@, m)]
  /\ UNCHANGED <<existed, accepts, mig, kind, at, counts, fetched, older, stopped>>

endMarket ==
  /\ \E o \in DOMAIN lists, k \in Range(Kinds), m \in Markets :
       /\ m \in Range(lists[o][k])
       /\ lists' = [lists EXCEPT ![o][k] = remove(@, m)]
  /\ UNCHANGED <<existed, accepts, mig, kind, at, counts, fetched, older, stopped>>

migStep ==
  \/ startMigration \/ countMarkets \/ fetchPage \/ checkFetched
  \/ setMigratingManager \/ syncChunk \/ migrateChunk \/ endOfList
MigNext == migStep \/ stopMigration \/ createMarket \/ resolveMarket \/ endMarket

\* A run goes on, and the operator starts another while the source has markets.
MigFairness == WF_migVars(migStep)
MigSpec == MigInit /\ [][MigNext]_migVars /\ MigFairness

(* ------------------------------- properties ------------------------------- *)

\* A run that completes has left nothing behind of what the source had when it
\* started, although lists change while they are copied and handed over: a
\* market that another took the place of is missed only together with one that
\* cannot be migrated (migrate-binary-option-markets.js:107, AddressListLib).
\* It needs creation to be disabled: a market that matures after the matured ones
\* were counted, and a new one in its place, leave both counts right.
OnlyNewMarketsRemain == mig = "done" => older \cap marketsOf("source") = {}

\* Once no more markets are created the source becomes empty, in spite of runs
\* that stop and of markets that mature or end after they were listed.
SourceBecomesEmpty == <>[](marketsOf("source") = {})
================================================================================
