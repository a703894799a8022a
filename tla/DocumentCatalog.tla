--------------------------- MODULE DocumentCatalog ---------------------------
(***************************************************************************)
(* The document_history table and the service over it.  A text is a member *)
(* of Contents; a summary and its voice are the content they were made of. *)
(* Rows are never reused: the id is the position in docs.                  *)
(***************************************************************************)
EXTENDS Naturals, Sequences

CONSTANTS Owners, Contents,
          MaxDocs           \* bound: rows ever inserted

VARIABLE docs

None == 0       \* no id, no session, no summary
Gone == [owner |-> None, content |-> None, summary |-> None, audio |-> None]
Rows == {n \in DOMAIN docs : docs[n] # Gone}

\* Empty, or what an earlier run of the bot left: a row with a summary.
CatalogInit ==
    docs \in {<<>>} \cup
      {<<[owner |-> u, content |-> c, summary |-> c, audio |-> None]>> :
          u \in Owners, c \in Contents}

OwnRow(u, n) == n \in Rows /\ docs[n].owner = u

\* add_document_history: the new id is Len(docs) + 1.
RowAdded(u, c) == Append(docs, [owner |-> u, content |-> c, summary |-> None, audio |-> None])

\* UPDATE ... WHERE user_id = ? AND id = ?: nothing happens to a row that is gone,
\* and the service returns before the query when there is no id or nothing to store.
SummarySaved(u, n, s) ==
    IF OwnRow(u, n) /\ s # None THEN [docs EXCEPT ![n].summary = s] ELSE docs
AudioSaved(u, n, a) ==
    IF OwnRow(u, n) /\ a # None THEN [docs EXCEPT ![n].audio = a] ELSE docs

\* Rows of the same text that have a summary, found by the hash of the text or by its
\* chunks.  Which one is the latest depends on timestamps of a second's resolution.
Twins(u, c, n) ==
    {m \in Rows \ {n} : OwnRow(u, m) /\ docs[m].content = c /\ docs[m].summary # None}

RowsDeleted(ns) == [n \in DOMAIN docs |-> IF n \in ns THEN Gone ELSE docs[n]]

\* Delete one row, clear the catalog, and the retention sweep over old rows.
DeleteRow ==
    \E n \in Rows : docs' = RowsDeleted({n})
ClearCatalog ==
    \E u \in Owners :
       /\ \E n \in Rows : OwnRow(u, n)
       /\ docs' = RowsDeleted({n \in Rows : OwnRow(u, n)})
DeleteOlder ==
    \E last \in Rows : docs' = RowsDeleted({n \in Rows : n <= last})

\* The summary stored with a document, and the one found for its text, is made of
\* that text: over replaced sessions, late saves, deletions and reopened documents.
CatalogSummaryOwn ==
    \A n \in Rows : docs[n].summary \in {None, docs[n].content}
=============================================================================
