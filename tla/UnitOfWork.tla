----------------------------- MODULE UnitOfWork -----------------------------
(***************************************************************************)
(* What the services know of the database session they share: a unit of    *)
(* work that reads rows once and, when it is flushed, writes back the      *)
(* columns whose value it changed, by primary key and without looking at   *)
(* the rest of the row.                                                    *)
(***************************************************************************)

\* The row after a session that read it as "read" and left it as "new" commits.
Flush(row, read, new) ==
    [f \in DOMAIN row |-> IF new[f] # read[f] THEN new[f] ELSE row[f]]
=============================================================================
