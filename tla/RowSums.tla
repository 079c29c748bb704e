------------------------------ MODULE RowSums ------------------------------
(***************************************************************************)
(* Column sums over table rows.  A table is a sequence of rows (the rows a *)
(* service has inserted, in insertion order), and a column is a function   *)
(* from row numbers to integers.  SumRows(col, n) is what the SQL          *)
(*   SELECT SUM(col) FROM table                                            *)
(* returns over the first n rows.  It is a recursive function rather than  *)
(* a RECURSIVE operator, so that it can be both evaluated and proved about *)
(* (RowSumTheorems).                                                       *)
(***************************************************************************)
EXTENDS Integers

SumRows(col, n) ==
  LET sum[i \in 0..n] == IF i = 0 THEN 0 ELSE sum[i - 1] + col[i]
  IN  sum[n]
=============================================================================
