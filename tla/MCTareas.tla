------------------------------ MODULE MCTareas ------------------------------
(* Instance of Tareas for TLC. The scenarios look at the notifications of a  *)
(* request, with Celery and without, beside imports of an empty folder, and  *)
(* at folders beside a request that gives a sku of theirs: an unreadable     *)
(* file, the same file twice, a sku twice in a file, a file with no rows.    *)
EXTENDS Tareas

CONSTANTS w1, w2, a1

Csv(s) == [legible |-> TRUE, skus |-> s]
Roto == [legible |-> FALSE, skus |-> <<>>]
SuSku == [a \in {a1} |-> 3]
ConAvisos(c, i) == [celery |-> c, importa |-> i, bajo |-> {a1}, carpeta |-> <<>>]
ConArchivos(f) == [celery |-> FALSE, importa |-> FALSE, bajo |-> {}, carpeta |-> f]
LosEscenarios ==
  {ConAvisos(TRUE, TRUE), ConAvisos(TRUE, FALSE), ConAvisos(FALSE, FALSE),
   ConArchivos(<<Roto, Csv(<<1, 2>>), Csv(<<3>>)>>),
   ConArchivos(<<Csv(<<1>>), Csv(<<1>>)>>), ConArchivos(<<Csv(<<>>), Csv(<<1, 1>>)>>)}
=============================================================================
