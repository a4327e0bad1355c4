--------------------------- MODULE MCReceivables ---------------------------
(* Instances of Receivables, and of the reports on it, for TLC. *)
EXTENDS ReceivablesReports, TLC
Ids == {1, 2}
Ones == {1, 2}
Days == {0, 1, 2, 3}
Asked == {<<1, 2>>, <<2>>, <<2, 1>>}
Thirds == <<1, 2, 3>>
Alike == Permutations(Receipts)
Symmetric == Alike \cup Permutations(Requests)
=============================================================================
