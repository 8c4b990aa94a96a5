------------------------------ MODULE SqliteFts ------------------------------
(***************************************************************************)
(* Full-text search of the SQLite store (internal/sqlitestore).            *)
(* messages_fts is an external-content FTS5 table: it keeps no text, only  *)
(* an index from terms to rowids, and three triggers are all that keeps    *)
(* the index in step with the table messages.  A message is known by its   *)
(* (channel_id, ts); its rowid is SQLite's choice, one more than the       *)
(* largest in use, so that the rowid of the newest row is used again once  *)
(* that row is deleted.  A text is the set of its terms.                   *)
(***************************************************************************)
EXTENDS Timestamps, FiniteSets

CONSTANTS Terms,         \* the terms the tokenizer makes of texts and queries
          MaxRowid       \* bound: the largest rowid handed out

ASSUME FtsAssumption == MaxRowid \in Nat

VARIABLES rows,          \* messages: the row of each message, or NoRow
          index          \* messages_fts: the <<rowid, term>> pairs it holds

ftsVars == <<rows, index, posted_at>>

NoRow == [rowid |-> 0, text |-> {}]
Texts == SUBSET Terms
Rowids == {r \in Nat : r # 0}

Stored == {m \in Messages : rows[m].rowid # 0}
Entries(r, text) == {r} \X text

(* The rowid SQLite gives a new row: one more than the largest.            *)
IsNewRowid(r) ==
    /\ \A m \in Messages : rows[m].rowid < r
    /\ r = 1 \/ \E m \in Messages : rows[m].rowid = r - 1

FtsInit == /\ rows = [m \in Messages |-> NoRow]
           /\ index = {}
           /\ TimeInit

\* Mutants: the triggers as they may be written by mistake.
messages_adForgotten(old) == index
messages_auAddsOnly(old, new) == index \cup Entries(new.rowid, new.text)

(***************************************************************************)
(* The triggers, each run by the statement that changes the table.  The    *)
(* special 'delete' command of FTS5 takes out the terms of the text it is  *)
(* given, whatever the index really holds.                                 *)
(***************************************************************************)
messages_ai(new) == index \cup Entries(new.rowid, new.text)
messages_ad(old) == index \ Entries(old.rowid, old.text)
messages_au(old, new) ==
    (index \ Entries(old.rowid, old.text)) \cup Entries(new.rowid, new.text)

(***************************************************************************)
(* UpsertMessage is INSERT ... ON CONFLICT DO UPDATE: one statement that   *)
(* fires the insert trigger or the update trigger.  An update keeps the    *)
(* rowid.                                                                  *)
(***************************************************************************)
Insert(m, text) ==
    /\ m \notin Stored
    /\ \E r \in Rowids \cap 1..MaxRowid :
          /\ IsNewRowid(r)
          /\ rows' = [rows EXCEPT ![m] = [rowid |-> r, text |-> text]]
          /\ index' = messages_ai([rowid |-> r, text |-> text])

Update(m, text) ==
    /\ m \in Stored
    /\ rows' = [rows EXCEPT ![m] = [rowid |-> @.rowid, text |-> text]]
    /\ index' = messages_au(rows[m], [rowid |-> rows[m].rowid, text |-> text])

UpsertMessage(m, text) == Insert(m, text) \/ Update(m, text)

(* DELETE FROM messages finds the row or does nothing.                     *)
DeleteMessage(m) ==
    /\ m \in Stored
    /\ rows' = [rows EXCEPT ![m] = NoRow]
    /\ index' = messages_ad(rows[m])

(* Both processes write through the same store, each its own posted_at.    *)
FtsNext == \E m \in Messages :
    \/ \E text \in Texts : UpsertMessage(m, text) /\ ServeWrites(m)
    \/ \E text \in Texts : UpsertMessage(m, text) /\ BackfillWrites(m)
    \/ DeleteMessage(m) /\ Delete(m)

FtsSpec == FtsInit /\ [][FtsNext]_ftsVars

-----------------------------------------------------------------------------
(***************************************************************************)
(* Search joins the rowids the index gives with the rows of messages, so a *)
(* rowid left in the index finds nothing until a row has it again.  Of the *)
(* hits, LIMIT keeps those that bm25 ranks first.                          *)
(***************************************************************************)
Hits(t) == {m \in Stored : <<rows[m].rowid, t>> \in index}

-----------------------------------------------------------------------------
FtsTypeOK == /\ rows \in [Messages -> [rowid : Nat, text : Texts]]
             /\ index \subseteq (Rowids \X Terms)

(* The messages whose stored text has a term.                              *)
Containing(t) == {m \in Stored : t \in rows[m].text}

(***************************************************************************)
(* No two rows share a rowid, and the index holds the terms of the stored  *)
(* rows and nothing else: also not an entry of a deleted row, which Search *)
(* would not show until the rowid is used again.                           *)
(***************************************************************************)
IndexFollows ==
    /\ \A m, n \in Stored : rows[m].rowid = rows[n].rowid => m = n
    /\ index = UNION {Entries(rows[m].rowid, rows[m].text) : m \in Stored}

(***************************************************************************)
(* A query finds the messages whose text has the term now: nothing a       *)
(* message said before an edit, nothing a deleted message said that now    *)
(* shares its rowid with another, and no message is left out.              *)
(***************************************************************************)
SearchAgrees == \A t \in Terms : Hits(t) = Containing(t)
=============================================================================
