---- MODULE MCVbaRange ----
EXTENDS VbaRange

Left  == Area(0, 0, 0, MaxRow)
Right == Area(MaxCol, 0, MaxCol, MaxRow)
Some  == [Blank EXCEPT !.v = "text"]

Starts == {Plain(<<Sheet>>), Plain(<<Area(0, 0, 0, 0)>>), Plain(<<Area(0, 0, MaxCol, 0)>>),
           AsCols(<<Left>>), AsRows(<<Sheet>>), Plain(<<Left, Right>>)}

Sheets == {[p \in SheetCells |-> IF p = <<0, 0>> THEN Some
                                 ELSE IF p = <<MaxCol, 0>> THEN [Blank EXCEPT !.v = "one", !.f = "logical"]
                                 ELSE Blank]}
====
