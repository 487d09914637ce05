-------------------------------- MODULE Totals --------------------------------
(* SUM over rows: what the amounts of a set of rows add up to, wherever the    *)
(* code adds money up in a query.                                              *)
EXTENDS FiniteSetsExt

Total(set, of) == MapThenSumSet(LAMBDA x : of[x], set)
===============================================================================
