----------------------------- MODULE ItemImport -----------------------------
(***************************************************************************)
(* The import of items from a spreadsheet (planImport): what each row of a *)
(* file would do, in the preview and again, against locked rows, in the    *)
(* commit that applies every row without an error in one transaction.      *)
(*                                                                         *)
(* An item stands for its SKU, whatever its spelling; copies of it are     *)
(* items whose SKUs differ in case alone.  name stands for the five text   *)
(* columns, min and max for the decimal ones but the unit cost.  Amounts   *)
(* are whole, so that none rounds to zero.                                 *)
(***************************************************************************)
EXTENDS InventoryReports

CONSTANTS Blank,       \* an empty cell
          Names,       \* what else a text cell may hold
          Shelves,     \* items there may be, as functions from Goods
          Files        \* what may be uploaded: sequences of rows

Fields == {"name", "cost", "min", "max", "active"}
Roles == {"admin", "staff"}

NewItem == [copies |-> 1, name |-> Blank, cost |-> 0, min |-> 0, max |-> 0, active |-> TRUE,
            qty |-> 0, moved |-> FALSE]
Absent == [NewItem EXCEPT !.copies = 0]
OnFile(item) == item.copies > 0

(* Stock comes and goes by movements.                                       *)
Item == {item \in [copies : Nat, name : Names \cup {Blank}, cost : Nat, min : Nat, max : Nat,
                   active : BOOLEAN, qty : Nat, moved : BOOLEAN] :
           /\ item.qty # 0 => item.moved
           /\ item.copies = 0 => item = Absent}
FileRow == [sku : Goods \cup {Blank}, name : Names \cup {Blank}, cost : Nat \cup {Blank},
            min : Nat \cup {Blank}, max : Nat \cup {Blank}, active : BOOLEAN \cup {Blank},
            opening : Nat \cup {Blank}, unreadable : BOOLEAN]

ASSUME ItemImportAssumption ==
  /\ Blank \notin Int \cup Goods /\ Shelves \subseteq [Goods -> Item] /\ Files \subseteq Seq(FileRow)

-----------------------------------------------------------------------------
(* A row. *)

(* A blank cell leaves a value alone; a staff member's Active is ignored.   *)
Cell(value, old) == IF value = Blank THEN old ELSE value
Patched(item, row, role) ==
  LET base == IF OnFile(item) THEN item ELSE NewItem
      allowed == IF role = "admin" THEN Fields ELSE Fields \ {"active"}
  IN [f \in DOMAIN item |-> IF f \in allowed THEN Cell(row[f], base[f]) ELSE base[f]]

(* Opening stock is the owner's, and for an item that never had any; it is  *)
(* left out of a row otherwise.                                             *)
OpensAnyEmpty(item, row, role) ==
  row.opening \notin {Blank, 0} /\ role = "admin" /\ item.qty = 0
Opens(item, row, role) ==
  row.opening \notin {Blank, 0} /\ role = "admin" /\ item.qty = 0 /\ ~item.moved

(* What is wrong with row n; of the first three, nothing else is looked at. *)
Errors(items, file, n, role) ==
  LET row == file[n]
      item == items[row.sku]
      next == Patched(item, row, role)
  IN IF row.sku = Blank THEN {"sku"}
     ELSE IF \E k \in 1 .. (n - 1) : file[k].sku = row.sku THEN {"twice"}
     ELSE IF item.copies > 1 THEN {"several"}
     ELSE {e \in {"cell", "name", "cost", "limits", "opening"} :
             \/ e = "cell" /\ row.unreadable
             \/ e = "name" /\ ~OnFile(item) /\ row.name = Blank
             \/ e = "cost" /\ OnFile(item) /\ next.cost # item.cost /\ ~MayReprice(item)
             \/ e = "limits" /\ next.max > 0 /\ next.max < next.min
             \/ e = "opening" /\ Opens(item, row, role) /\ next.cost <= 0}

PlanRow(items, file, n, role) ==
  LET row == file[n]
      item == items[row.sku]
      next == Patched(item, row, role)
      opening == IF Opens(item, row, role) THEN row.opening ELSE 0
  IN IF Errors(items, file, n, role) # {} THEN [action |-> "error", opening |-> 0, value |-> 0]
     ELSE [action |-> IF ~OnFile(item) THEN "create"
                      ELSE IF next # item \/ opening > 0 THEN "update" ELSE "unchanged",
           opening |-> opening, value |-> opening * next.cost]
Plan(items, file, role) == [n \in DOMAIN file |-> PlanRow(items, file, n, role)]

(* summarise *)
Rows(plan, action) == {n \in DOMAIN plan : plan[n].action = action}
OpeningValue(plan) == Sum([n \in DOMAIN plan |-> plan[n].value], DOMAIN plan)

(* The owner confirms the value of the opening stock the preview showed.    *)
Confirms(plan, confirmed) ==
  IF \E n \in DOMAIN plan : plan[n].opening > 0 THEN confirmed = OpeningValue(plan)
  ELSE confirmed \in {Blank, OpeningValue(plan)}

(* apply: the new rows, then the changed ones, then one journal entry and a *)
(* movement for each opening quantity.                                      *)
Applied(items, file, role) ==
  LET plan == Plan(items, file, role)
      row(i) == {n \in Rows(plan, "create") \cup Rows(plan, "update") : file[n].sku = i}
  IN [i \in Goods |->
        IF row(i) = {} THEN items[i]
        ELSE LET n == CHOOSE n \in row(i) : TRUE
                 next == Patched(items[i], file[n], role)
             IN IF plan[n].opening = 0 THEN next
                ELSE [next EXCEPT !.qty = plan[n].opening, !.moved = TRUE]]

-----------------------------------------------------------------------------
(* Re-sending a file is harmless: nothing is created or changed a second    *)
(* time, what was wrong is still wrong, and opening stock is not recorded   *)
(* again even when it has been sold since.  The stock is worth more by      *)
(* exactly the opening value, which only an owner can bring in and must     *)
(* have confirmed; a staff member switches no item on or off; and limits    *)
(* that made sense still do.                                                *)
StockWorth(items) == Sum([i \in Goods |-> items[i].qty * items[i].cost], Goods)
Sensible(item) == item.max > 0 => item.min <= item.max
ImportHarmless ==
  (Alone /\ writes = 0) =>
    \A items \in Shelves, file \in Files, role \in Roles :
      LET plan == Plan(items, file, role)
          after == Applied(items, file, role)
          again == Plan(after, file, role)
          sold == [i \in Goods |-> [after[i] EXCEPT !.qty = 0]]
      IN /\ Rows(again, "create") \cup Rows(again, "update") = {}
         /\ Rows(again, "error") = Rows(plan, "error")
         /\ OpeningValue(Plan(sold, file, role)) = 0
         /\ StockWorth(after) = StockWorth(items) + OpeningValue(plan)
         /\ Confirms(plan, Blank) => StockWorth(after) = StockWorth(items)
         /\ role = "staff" => /\ OpeningValue(plan) = 0
                              /\ \A i \in Goods : after[i].active = (OnFile(items[i]) => items[i].active)
         /\ \A i \in Goods : Sensible(items[i]) => Sensible(after[i])
=============================================================================
