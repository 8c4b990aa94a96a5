------------------------------- MODULE MCParts -------------------------------
(***************************************************************************)
(* Small values for Parts.                                                 *)
(***************************************************************************)
EXTENDS Parts

CONSTANTS serve, backfill, revision, m1, m2, f1, f2, coffee, tea

\* A service, a backfill job and the service's next revision.
MCProcesses == {serve, backfill, revision}

\* Messages, of which either may list each file, or both.
MCPosts == {m1, m2}
MCFiles == {f1, f2}

\* Neighbours that share a microsecond in Postgres and change places in SQLite,
\* and one at the end of the second, which the float puts above its ts.
MCMessages == {200, 201, 999999}
MCTerms == {coffee, tea}
=============================================================================
