------------------------------- MODULE MCDatabase -------------------------------
(* Small instances of Database for TLC. *)
EXTENDS Database, TLC

CONSTANTS w1, w2, a, b

I(op, id, stmt) == [op |-> op, id |-> id, stmt |-> stmt]
End == I("end", NoId, "none")
Try == I("try", NoId, "none")
Db(id) == I("database", id, "none")
Tx(id) == I("transaction", id, "none")
Select(id) == I("query", id, "select")
Update(id) == I("query", id, "update")

\* An update, then a transaction that goes on after failed statements.
UpdateThenTransaction ==
    <<Db(a), Update(a), End, Tx(a), Update(a), End, Try, Update(a), End, End,
      Try, Update(a), End, End, End, End>>

\* A query of one database in a transaction of another.
TwoDatabases ==
    <<Db(a), Db(b), Tx(a), Update(b), End, Update(a), End, End, Update(b), End, End, End>>

\* A nested database tag, a transaction in a transaction, an empty selection.
Nested ==
    <<Db(a), Db(a), Try, Tx(a), Update(a), End, Tx(a), End, End, End, End,
      Select(a), Update(a), End, End, End>>

\* A transaction of a database that the script has not opened.
Undefined == <<Tx(b), Update(b), End, End>>

\* No transaction at all.
Plain == <<Db(a), Try, Update(a), Select(a), End, End, End, Select(a), End, End>>

\* One worker gets every script, the other disturbs the pool.
MCScripts == (w1 :> {Plain, UpdateThenTransaction, TwoDatabases, Nested, Undefined})
             @@ (w2 :> {<<Db(a), End>>})

\* A transaction in which the exception of a failed statement is caught.
OneScript == w1 :> {<<Db(a), Tx(a), Update(a), End, Try, Update(a), End, End, End, End>>}

================================================================================
