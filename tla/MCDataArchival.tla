--------------------------- MODULE MCDataArchival ---------------------------
(* Small instances of DataArchival: records of one table.                  *)
EXTENDS DataArchival

CONSTANT t1

OneTable == [r \in Rows |-> t1]
=============================================================================
