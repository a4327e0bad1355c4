---------------------------- MODULE MCInventory ----------------------------
(* Instances of Inventory for TLC. *)
EXTENDS ItemImport, TLC
Few == 1..2
Units == {1, 2}
Prices == {6, 12}
SameDay == <<0>>   \* two buckets: of today, and older
(* Items that differ in all a plan looks at, and every readable file of one *)
(* row; of files of two, those whose rows decide about the same things.      *)
Stocks == {[qty |-> 0, moved |-> FALSE], [qty |-> 0, moved |-> TRUE], [qty |-> 2, moved |-> TRUE]}
SomeItem ==
  {[copies |-> 1, name |-> "old", cost |-> c, min |-> 2, max |-> m, active |-> a,
    qty |-> s.qty, moved |-> s.moved] :
     c \in {0, 6}, m \in {0, 3}, a \in BOOLEAN, s \in Stocks}
Twice == [copies |-> 2, name |-> "old", cost |-> 6, min |-> 2, max |-> 3, active |-> TRUE,
          qty |-> 0, moved |-> FALSE]
SomeShelves == {[i \in Goods |-> item] : item \in SomeItem \cup {Twice, Absent}}
ImportRows(names, costs, mins, maxes, flags, broken) ==
  [sku : Goods \cup {Blank}, name : names, cost : costs, min : mins, max : maxes, active : flags,
   opening : {Blank, 0, 2}, unreadable : broken]
Uploads ==
  {<<row>> : row \in ImportRows({Blank, "new"}, {Blank, 0, 6, 12}, {Blank, 1}, {Blank, 1},
                                {Blank, TRUE, FALSE}, {FALSE})} \cup
  {<<row, second>> : row, second \in
     ImportRows({"new"}, {Blank, 6}, {Blank}, {Blank}, {Blank}, BOOLEAN)}
Alike == Permutations(Goods) \cup Permutations(Clients)
=============================================================================
