----------------------------- MODULE MCPgStore -----------------------------
(* Instances of PgStore for TLC: two processes share the database.         *)
EXTENDS PgStore, TLC

CONSTANTS serve, backfill, m1, m2, f1, f2

OneWorker  == {serve}
TwoWorkers == {serve, backfill}

TwoMessages == {m1, m2}
OneFile  == {f1}
TwoFiles == {f1, f2}

AllFaults == FaultKinds

\* The waits for one another are the same for a file that is skipped.
NothingFiltered == \A w \in Workers : job[w].filtered = {}

\* No definition names a particular message or file.
MessagesAndFiles == Permutations(TwoMessages) \cup Permutations(TwoFiles)
=============================================================================
