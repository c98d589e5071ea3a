------------------------------ MODULE MCHatch ------------------------------
(* One writer, one reader, and statements of every class the authorizer tells
   apart. *)
EXTENDS Hatch

St(verb, reserved) == [verb |-> verb, reserved |-> reserved, renames |-> FALSE]

\* ALTER TABLE mine RENAME TO events, of a TEMP table.
Rename == [verb |-> "AlterTable", reserved |-> FALSE, renames |-> TRUE]

\* Caller code that leaves the transaction to the crate.
SomeStatements == {St("Insert", TRUE), St("Insert", FALSE), St("DropIndex", TRUE),
                   St("CreateTempTable", TRUE), St("CreateView", TRUE), St("Attach", FALSE),
                   St("PragmaSet", FALSE), Rename, St("CreateVtable", TRUE),
                   St("DropVtable", TRUE), St("RollbackTo", FALSE)}

\* Caller code that ends it.
WithCommit == {St("Insert", FALSE), St("Commit", FALSE)}

Q(st, names, bare, by, count, given, wide, row, lossy, deadline) ==
  [st |-> st, names |-> names, bare |-> bare, by |-> by, count |-> count, given |-> given,
   wide |-> wide, row |-> row, lossy |-> lossy, deadline |-> deadline]

Read == St("Select", TRUE)

Asked == {Q(st, {}, 0, "position", 0, {}, FALSE, <<>>, FALSE, FALSE) :
            st \in {St("Insert", FALSE), St("CreateTable", FALSE), St("Attach", FALSE),
                    St("Detach", FALSE), St("RollbackTo", FALSE),
                    St("PragmaDescribe", TRUE), St("PragmaRead", FALSE), St("PragmaSet", FALSE)}}
  \cup {Q(Read, {":a", ":b"}, bare, "name", 0, given, FALSE, <<"text">>, FALSE, FALSE) :
          bare \in 0..1, given \in {{":a"}, {":a", ":b"}, {":a", ":b", ":c"}}}
  \cup {Q(Read, {":a"}, 1, "position", count, {}, wide, <<"text">>, FALSE, TRUE) :
          count \in 1..3, wide \in BOOLEAN}
  \cup {Q(Read, {}, 0, "position", 0, {}, FALSE, <<cell, "null">>, lossy, FALSE) :
          cell \in Cells, lossy \in BOOLEAN}

NoQueries == {}
=============================================================================
