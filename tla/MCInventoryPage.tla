--------------------------- MODULE MCInventoryPage ---------------------------
(* Samosas made of beef, staged or to order, and tea whose stock is not counted. *)
EXTENDS InventoryPage

OneBeef == [i \in Items |-> [k \in Items |-> IF i = "samosa" /\ k = "beef" THEN 1 ELSE 0]]

Stock(known, stages, boxes, ordered) ==
    [known |-> known, onHand |-> [i \in Items |-> IF i \in known THEN 1 ELSE 0],
     staged |-> [i \in Items |-> stages /\ i = "samosa"], recipe |-> OneBeef,
     batches |-> boxes, orders |-> ordered]

Snacks == {"samosa", "beef"}
NoTea == Stock(Snacks, TRUE, <<>>, <<>>)
WithTea == Stock(Items, FALSE, <<>>, <<>>)
TwoBoxes == Stock(Snacks, TRUE, <<Batch("beef", 1, 2), Batch("beef", 1, 1)>>, <<>>)
Ordered(S) == Stock(Snacks, FALSE, <<>>, <<[i \in Items |-> IF i \in S THEN 1 ELSE 0]>>)
BeefOnly == Stock({"beef"}, FALSE, <<>>, <<>>)
SmallOpenings == {NoTea, BeefOnly, WithTea, TwoBoxes, Ordered(Snacks), Ordered({"beef"})}

Visit(boss, uses, o, n, l, f, w) ==
    [manager |-> boss, uses |-> uses, opening |-> o, requests |-> n, lost |-> l, inFlight |-> f,
     watches |-> w]

SmallVisits ==
    {Visit(TRUE, {"header", "items"}, NoTea, 1, 1, 1, "import"),
     Visit(FALSE, {"header", "items"}, WithTea, 1, 0, 1, "production"),
     Visit(TRUE, {"items"}, TwoBoxes, 2, 0, 1, "recipe"),
     Visit(TRUE, {"items"}, WithTea, 1, 1, 1, "batches"),
     Visit(TRUE, {"processing"}, TwoBoxes, 3, 1, 2, "board"),
     Visit(TRUE, {"stocktake"}, NoTea, 3, 1, 1, "load"),
     Visit(FALSE, {"stocktake"}, WithTea, 3, 0, 2, "load"),
     Visit(TRUE, {"stocktake"}, BeefOnly, 4, 0, 2, "load"),
     Visit(TRUE, {"alerts", "orders"}, Ordered(Snacks), 2, 0, 1, "load"),
     Visit(FALSE, {"orders"}, Ordered({"beef"}), 2, 0, 2, "load"),
     Visit(FALSE, {"orders"}, Ordered(Snacks), 2, 1, 1, "load"),
     Visit(FALSE, {"orders", "suppliers"}, BeefOnly, 2, 0, 2, "load"),
     Visit(TRUE, {"categories", "suppliers"}, NoTea, 0, 1, 2, "load"),
     Visit(TRUE, {"ingredients", "expiry"}, TwoBoxes, 1, 1, 1, "price"),
     Visit(FALSE, {"ingredients"}, TwoBoxes, 1, 0, 1, "delete"),
     Visit(TRUE, {"expiry"}, TwoBoxes, 2, 0, 2, "expiring"),
     Visit(TRUE, {"expiry"}, TwoBoxes, 1, 1, 1, "expiry")}

=============================================================================
