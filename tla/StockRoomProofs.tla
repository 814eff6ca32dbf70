--------------------------- MODULE StockRoomProofs ---------------------------
(***************************************************************************)
(* Theorems about StockRoom: for any items, recipes, amounts and dates,    *)
(* and any number of stock takes and purchase orders, whatever requests    *)
(* follow each other. How much leaves which batch is not proved about: the *)
(* run stock checks that. Then theorems about InventoryPage in front of    *)
(* it, for any visit: that it drives StockRoom as StockSpec says, and what *)
(* its lists, sheets and dialogs may show.                                 *)
(***************************************************************************)
EXTENDS InventoryPage, SequenceTheorems, TLAPS

-----------------------------------------------------------------------------
(* What is on paper.                                                       *)

CountLine == [expected : Int, counted : Int, done : BOOLEAN]
Take == [status : {"draft", "completed"}, lines : UNION {[S -> CountLine] : S \in SUBSET Items}]

OrderLine == [want : Nat, got : Nat, in : BOOLEAN]
PurchaseOrder ==
    [status : {"draft", "submitted", "partially_received", "received"},
     lines : UNION {[S -> OrderLine] : S \in (SUBSET Items) \ {{}}}]

\* The status of an order says how much of it is here.
Honest(q) ==
    LET here == {i \in DOMAIN q.lines : q.lines[i].in}
    IN  /\ q.status = "received" <=> here = DOMAIN q.lines
        /\ q.status = "partially_received" <=> here # {} /\ here # DOMAIN q.lines

PaperOK ==
    /\ takes \in Seq(Take)
    /\ orders \in Seq(PurchaseOrder)
    /\ \A o \in DOMAIN orders : Honest(orders[o])

(* The invariant, in parts that most requests leave alone.                 *)

StockOK ==
    /\ onHand \in [Items -> Int] /\ moved \in [Items -> Int] /\ overruled \subseteq Items
    /\ LedgerExplainsStock

KitchenOK ==
    /\ wip \in [Items -> Int] /\ started \in [Items -> Int] /\ finished \in [Items -> Int]
    /\ KitchenKeepsUnits

MenuOK ==
    /\ listed \in [Items -> {"unknown", "active", "deleted"}]
    /\ assembled \in [Items -> BOOLEAN] /\ staged \in [Items -> BOOLEAN]
    /\ recipe \in [Items -> [Items -> Nat]]

SInv == StockOK /\ KitchenOK /\ MenuOK /\ PaperOK

LEMMA Rests ==
    ASSUME SInv
    PROVE  /\ UNCHANGED <<onHand, moved, overruled>> => StockOK'
           /\ UNCHANGED kitchenVars => KitchenOK'
           /\ UNCHANGED menuVars => MenuOK'
           /\ UNCHANGED <<takes, orders>> => PaperOK'
<1>1. UNCHANGED <<onHand, moved, overruled>> => StockOK'
  BY DEF SInv, StockOK, LedgerExplainsStock
<1>2. UNCHANGED kitchenVars => KitchenOK'
  BY DEF SInv, KitchenOK, KitchenKeepsUnits, kitchenVars
<1>3. UNCHANGED menuVars => MenuOK'
  BY DEF SInv, MenuOK, menuVars
<1>4. UNCHANGED <<takes, orders>> => PaperOK'
  BY DEF SInv, PaperOK
<1> QED
  BY <1>1, <1>2, <1>3, <1>4

\* What is asked for with each request.
LEMMA AskedFor ==
    ASSUME NEW r \in Request
    PROVE  /\ r.op \in {"process", "complete"} => r.item \in Items /\ r.n \in Nat \ {0}
           /\ r.op \in {"adjust", "import", "create"} => r.item \in Items /\ r.n \in Int
           /\ r.op = "set_recipe" =>
                r.item \in Items /\ r.made \in BOOLEAN /\ r.parts \in [Items -> Nat]
           /\ r.op = "update" => r.item \in Items /\ r.staged \in BOOLEAN
           /\ r.op = "delete" => r.items \subseteq Items
           /\ r.op = "count" => r.take \in DOMAIN takes /\ r.item \in Items /\ r.n \in Int
           /\ r.op = "complete_take" => r.take \in DOMAIN takes
           /\ r.op = "create_order" => r.want \in [Items -> Nat]
           /\ r.op = "submit_order" => r.order \in DOMAIN orders
           /\ r.op = "receive" => r.order \in DOMAIN orders /\ r.item \in Items /\ r.n \in Nat
  BY DEF Request

-----------------------------------------------------------------------------
(* Stock and movements.                                                    *)

LEMMA PartsNeeded ==
    ASSUME MenuOK, NEW i \in Items, NEW n \in Nat
    PROVE  IngredientsFor(i, n) \in [Items -> Nat] /\ Depletes(i, n) \in [Items -> Nat]
<1>1. ASSUME NEW k \in Items
      PROVE  recipe[i][k] * n \in Nat
  <2>1. recipe[i][k] \in Nat
    BY DEF MenuOK
  <2> QED
    BY <2>1
<1>2. IngredientsFor(i, n) \in [Items -> Nat]
  BY <1>1 DEF IngredientsFor
<1> QED
  BY <1>2 DEF Depletes

\* What leaves is written down for every item, and taken from every tracked one.
LEMMA Leaves ==
    ASSUME StockOK, NEW out \in [Items -> Nat], NEW counted, Tracked \subseteq counted,
           StockLeaves(out, counted), UNCHANGED overruled
    PROVE  StockOK'
<1>1. onHand' \in [Items -> Int] /\ moved' \in [Items -> Int]
  BY DEF StockOK, StockLeaves
<1>2. ASSUME NEW i \in Tracked \ overruled
      PROVE  onHand'[i] = moved'[i]
  <2>1. i \in Items /\ i \in counted
    BY StockAssumption
  <2>2. onHand'[i] = onHand[i] - out[i] /\ moved'[i] = moved[i] - out[i]
    BY <2>1 DEF StockLeaves
  <2> QED
    BY <2>2 DEF StockOK, LedgerExplainsStock
<1> QED
  BY <1>1, <1>2 DEF StockOK, LedgerExplainsStock

\* What moves in or out of one item is written down for it.
LEMMA Moves ==
    ASSUME StockOK, NEW i \in Items, NEW d \in Int,
           onHand' = [onHand EXCEPT ![i] = @ + d], moved' = [moved EXCEPT ![i] = @ + d],
           UNCHANGED overruled
    PROVE  StockOK'
  BY DEF StockOK, LedgerExplainsStock

\* A stock take overrules the movements only where the stock had moved since it began.
LEMMA Applied ==
    ASSUME StockOK, PaperOK, NEW t \in DOMAIN takes, CompleteStockTake(t)
    PROVE  StockOK'
<1> DEFINE lines == takes[t].lines
           counted == {i \in DOMAIN lines : lines[i].done}
<1>1. DOMAIN lines \subseteq Items /\ \A i \in DOMAIN lines : lines[i] \in CountLine
  <2>1. takes[t] \in Take
    BY DEF PaperOK
  <2> QED
    BY <2>1 DEF Take
<1>2. \A i \in counted : i \in Items /\ lines[i].counted \in Int /\ lines[i].expected \in Int
  BY <1>1 DEF CountLine
<1>3. /\ onHand' = [i \in Items |-> IF i \in counted THEN lines[i].counted ELSE onHand[i]]
      /\ moved' = [i \in Items |-> IF i \in counted
                                   THEN moved[i] + (lines[i].counted - lines[i].expected)
                                   ELSE moved[i]]
      /\ overruled' = overruled \cup {i \in counted : onHand[i] # lines[i].expected}
  BY DEF CompleteStockTake
<1> HIDE DEF lines, counted
<1>4. onHand' \in [Items -> Int] /\ moved' \in [Items -> Int] /\ overruled' \subseteq Items
  BY <1>2, <1>3 DEF StockOK
<1>5. ASSUME NEW i \in Tracked \ overruled'
      PROVE  onHand'[i] = moved'[i]
  <2>1. i \in Items /\ i \in Tracked \ overruled
    BY <1>3, StockAssumption
  <2>2. onHand[i] = moved[i] /\ onHand[i] \in Int
    BY <2>1 DEF StockOK, LedgerExplainsStock
  <2>3. CASE i \notin counted
    BY <1>3, <2>1, <2>2, <2>3
  <2>4. CASE i \in counted
    <3>1. onHand[i] = lines[i].expected
      BY <1>3, <2>4
    <3>2. /\ onHand'[i] = lines[i].counted
          /\ moved'[i] = moved[i] + (lines[i].counted - lines[i].expected)
      BY <1>3, <2>1, <2>4
    <3>3. lines[i].counted \in Int /\ lines[i].expected \in Int
      BY <1>2, <2>4
    <3>4. moved[i] = lines[i].expected
      BY <2>2, <3>1
    <3> QED
      BY <3>2, <3>3, <3>4
  <2> QED
    BY <2>3, <2>4
<1> QED
  BY <1>4, <1>5 DEF StockOK, LedgerExplainsStock

-----------------------------------------------------------------------------
(* Purchase orders and stock takes.                                        *)

LEMMA NewOrderIsHonest ==
    ASSUME NEW status \in {"draft", "submitted"}, NEW want \in [Items -> Nat],
           \E i \in Items : want[i] > 0
    PROVE  NewOrder(status, want) \in PurchaseOrder /\ Honest(NewOrder(status, want))
<1> DEFINE S == {i \in Items : want[i] > 0}
           lines == [i \in S |-> [want |-> want[i], got |-> 0, in |-> FALSE]]
<1>1. S \in (SUBSET Items) \ {{}}
  OBVIOUS
<1>2. \A i \in S : want[i] \in Nat
  OBVIOUS
<1>3. lines \in [S -> OrderLine] /\ DOMAIN lines = S /\ \A i \in S : lines[i].in = FALSE
  BY <1>2 DEF OrderLine
<1>4. NewOrder(status, want) = [status |-> status, lines |-> lines]
  BY DEF NewOrder
<1> HIDE DEF S, lines
<1>5. NewOrder(status, want) \in PurchaseOrder
  BY <1>1, <1>3, <1>4 DEF PurchaseOrder
<1>6. {i \in DOMAIN lines : lines[i].in} = {} /\ DOMAIN lines # {}
  BY <1>1, <1>3
<1> QED
  BY <1>4, <1>5, <1>6 DEF Honest

\* A delivery of one line.
LEMMA ReceivedIsHonest ==
    ASSUME NEW q \in PurchaseOrder, Honest(q), NEW i \in DOMAIN q.lines, NEW n \in Nat,
           NEW lines, lines = [q.lines EXCEPT ![i].got = n, ![i].in = TRUE],
           NEW status, status = IF \A k \in DOMAIN lines : lines[k].in
                                THEN "received" ELSE "partially_received"
    PROVE  /\ [status |-> status, lines |-> lines] \in PurchaseOrder
           /\ Honest([status |-> status, lines |-> lines])
<1>1. PICK S \in (SUBSET Items) \ {{}} : q.lines \in [S -> OrderLine]
  BY DEF PurchaseOrder
<1>2. lines \in [S -> OrderLine] /\ DOMAIN lines = S /\ lines[i].in = TRUE /\ i \in S
  BY <1>1 DEF OrderLine
<1>3. status \in {"draft", "submitted", "partially_received", "received"}
  OBVIOUS
<1>4. [status |-> status, lines |-> lines] \in PurchaseOrder
  BY <1>1, <1>2, <1>3 DEF PurchaseOrder
<1>5. \A k \in S : lines[k].in \in BOOLEAN
  BY <1>2 DEF OrderLine
<1> DEFINE here == {k \in DOMAIN lines : lines[k].in}
<1>6. here # {}
  BY <1>2
<1>7. here = DOMAIN lines <=> \A k \in DOMAIN lines : lines[k].in
  OBVIOUS
<1>8. /\ status = "received" <=> here = DOMAIN lines
      /\ status = "partially_received" <=> here # {} /\ here # DOMAIN lines
  <2> HIDE DEF here
  <2> QED
    BY <1>6, <1>7
<1> QED
  BY <1>4, <1>8 DEF Honest

-----------------------------------------------------------------------------
(* Requests.                                                               *)

LEMMA InitKeeps == StockInit => SInv
<1> SUFFICES ASSUME NEW o \in Openings, StartsWith(o)
             PROVE  SInv
  BY DEF StockInit
<1> USE DEF StartsWith
<1>1. /\ o.known \subseteq Items /\ o.onHand \in [Items -> Nat] /\ o.staged \in [Items -> BOOLEAN]
      /\ o.recipe \in [Items -> [Items -> Nat]]
      /\ o.orders \in Seq({want \in [Items -> Nat] : \E i \in Items : want[i] > 0})
  BY StockAssumption
<1>2. StockOK
  <2>1. onHand \in [Items -> Int] /\ moved = onHand /\ overruled = {}
    BY <1>1
  <2> QED
    BY <2>1, StockAssumption DEF StockOK, LedgerExplainsStock
<1>3. KitchenOK
  BY DEF KitchenOK, KitchenKeepsUnits
<1>4. MenuOK
  BY <1>1 DEF MenuOK
<1>5. PaperOK
  <2>1. ASSUME NEW k \in DOMAIN o.orders
        PROVE  /\ NewOrder("submitted", o.orders[k]) \in PurchaseOrder
               /\ Honest(NewOrder("submitted", o.orders[k]))
    <3> DEFINE W == {want \in [Items -> Nat] : \E i \in Items : want[i] > 0}
    <3>1. o.orders[k] \in W
      <4>1. o.orders \in Seq(W)
        BY <1>1
      <4> HIDE DEF W
      <4> QED
        BY <4>1
    <3>2. o.orders[k] \in [Items -> Nat] /\ \E i \in Items : o.orders[k][i] > 0
      BY <3>1
    <3> QED
      BY <3>2, NewOrderIsHonest
  <2>2. takes \in Seq(Take)
    OBVIOUS
  <2>3. Len(o.orders) \in Nat /\ DOMAIN o.orders = 1..Len(o.orders)
    BY <1>1
  <2>4. orders = [k \in 1..Len(o.orders) |-> NewOrder("submitted", o.orders[k])]
    BY <2>3
  <2>5. orders \in [1..Len(o.orders) -> PurchaseOrder]
    BY <2>1, <2>3, <2>4
  <2>6. orders \in Seq(PurchaseOrder) /\ DOMAIN orders = DOMAIN o.orders
    BY <2>3, <2>5
  <2>7. \A k \in DOMAIN orders : Honest(orders[k])
    BY <2>1, <2>3, <2>4, <2>6
  <2> QED
    BY <2>2, <2>6, <2>7 DEF PaperOK
<1> QED
  BY <1>2, <1>3, <1>4, <1>5 DEF SInv

LEMMA DepartureKeeps ==
    ASSUME SInv, NEW i \in Items, NEW n \in Nat, SellsOrSpoils(i, n)
    PROVE  SInv'
<1>1. PICK counted : StockLeaves(Depletes(i, n), counted) /\ Tracked \subseteq counted
  BY StockAssumption DEF SellsOrSpoils, DeductStockOnSale, RecordSpoil
<1>2. UNCHANGED <<kitchenVars, menuVars, paperVars>>
  BY DEF SellsOrSpoils, DeductStockOnSale, RecordSpoil
<1>3. StockOK'
  BY <1>1, <1>2, PartsNeeded, Leaves DEF SInv, paperVars
<1> QED
  BY <1>2, <1>3, Rests DEF SInv, paperVars

LEMMA AdjustKeeps ==
    ASSUME SInv, NEW i \in Items, NEW d \in Int, AdjustStock(i, d)
    PROVE  SInv'
<1>1. StockOK'
  BY Moves DEF SInv, AdjustStock, paperVars
<1> QED
  BY <1>1, Rests DEF SInv, AdjustStock, paperVars

LEMMA ProcessKeeps ==
    ASSUME SInv, NEW i \in Items, NEW n \in Nat, ProcessBatch(i, n)
    PROVE  SInv'
<1>1. StockOK'
  BY PartsNeeded, Leaves, StockAssumption DEF SInv, ProcessBatch, paperVars
<1>2. KitchenOK'
  BY DEF SInv, ProcessBatch, KitchenOK, KitchenKeepsUnits
<1> QED
  BY <1>1, <1>2, Rests DEF SInv, ProcessBatch, paperVars

\* No more is finished than is in the works.
LEMMA CompleteKeeps ==
    ASSUME SInv, NEW i \in Items, NEW n \in Nat, CompleteProcessing(i, n)
    PROVE  SInv'
<1>1. StockOK'
  <2>1. /\ onHand' = [onHand EXCEPT ![i] = @ + n] /\ moved' = [moved EXCEPT ![i] = @ + n]
        /\ UNCHANGED overruled
    BY DEF CompleteProcessing, paperVars
  <2>2. n \in Int /\ StockOK
    BY DEF SInv
  <2> QED
    BY <2>1, <2>2, Moves
<1>2. KitchenOK'
  BY DEF SInv, CompleteProcessing, CanComplete, KitchenOK, KitchenKeepsUnits
<1> QED
  BY <1>1, <1>2, Rests DEF SInv, CompleteProcessing, paperVars

LEMMA SetRecipeKeeps ==
    ASSUME SInv, NEW i \in Items, NEW made \in BOOLEAN, NEW parts \in [Items -> Nat],
           SetRecipe(i, made, parts)
    PROVE  SInv'
<1>1. MenuOK'
  <2>1. staged' \in [Items -> BOOLEAN]
    BY DEF SInv, SetRecipe, MenuOK
  <2> QED
    BY <2>1 DEF SInv, SetRecipe, MenuOK
<1> QED
  BY <1>1, Rests DEF SInv, SetRecipe, stockVars, paperVars

LEMMA CatalogueKeeps ==
    ASSUME SInv, NEW i \in Items, NEW n \in Int
    PROVE  /\ CreateItem(i, n) => SInv'
           /\ \A kind \in BOOLEAN : UpdateItem(i, kind) => SInv'
           /\ \A S \in SUBSET Items : BulkDeactivateItems(S) => SInv'
           /\ ImportCsv(i, n) => SInv'
<1>1. ASSUME CreateItem(i, n)
      PROVE  SInv'
  <2>1. StockOK'
    BY <1>1 DEF SInv, StockOK, LedgerExplainsStock, CreateItem, paperVars
  <2>2. MenuOK'
    BY <1>1 DEF SInv, MenuOK, CreateItem
  <2> QED
    BY <1>1, <2>1, <2>2, Rests DEF SInv, CreateItem, paperVars
<1>2. ASSUME NEW kind \in BOOLEAN, UpdateItem(i, kind)
      PROVE  SInv'
  <2>1. MenuOK'
    BY <1>2 DEF SInv, MenuOK, UpdateItem
  <2> QED
    BY <1>2, <2>1, Rests DEF SInv, UpdateItem, stockVars, paperVars
<1>3. ASSUME NEW S \in SUBSET Items, BulkDeactivateItems(S)
      PROVE  SInv'
  <2>1. MenuOK'
    BY <1>3 DEF SInv, MenuOK, BulkDeactivateItems
  <2> QED
    BY <1>3, <2>1, Rests DEF SInv, BulkDeactivateItems, stockVars, paperVars
<1>4. ASSUME ImportCsv(i, n)
      PROVE  SInv'
  <2>1. StockOK'
    BY <1>4 DEF SInv, StockOK, LedgerExplainsStock, ImportCsv, paperVars
  <2> QED
    BY <1>4, <2>1, Rests DEF SInv, ImportCsv, paperVars
<1> QED
  BY <1>1, <1>2, <1>3, <1>4

\* Batches are nobody's business here.
LEMMA BatchKeeps ==
    ASSUME SInv, UNCHANGED <<onHand, moved, kitchenVars, menuVars, paperVars>>
    PROVE  SInv'
  BY Rests DEF SInv, paperVars

LEMMA TakeKeeps ==
    ASSUME SInv, StartStockTake
    PROVE  SInv'
<1>1. PaperOK'
  <2>1. [i \in Active |-> [expected |-> onHand[i], counted |-> 0, done |-> FALSE]]
           \in [Active -> CountLine]
    BY DEF SInv, StockOK, Active, CountLine
  <2>2. Active \in SUBSET Items
    BY DEF Active
  <2>3. takes' \in Seq(Take)
    <3> DEFINE lines == [i \in Active |-> [expected |-> onHand[i], counted |-> 0, done |-> FALSE]]
    <3>1. takes' = Append(takes, [status |-> "draft", lines |-> lines])
      BY DEF StartStockTake
    <3>2. lines \in UNION {[S -> CountLine] : S \in SUBSET Items}
      BY <2>1, <2>2
    <3> HIDE DEF lines
    <3>3. [status |-> "draft", lines |-> lines] \in Take
      BY <3>2 DEF Take
    <3> QED
      BY <3>1, <3>3 DEF SInv, PaperOK
  <2> QED
    BY <2>3 DEF SInv, PaperOK, StartStockTake
<1> QED
  BY <1>1, Rests DEF SInv, StartStockTake, stockVars

LEMMA CountKeeps ==
    ASSUME SInv, NEW t \in DOMAIN takes, NEW i \in DOMAIN takes[t].lines, NEW n \in Int,
           UpdateCountLine(t, i, n)
    PROVE  SInv'
<1>1. PaperOK'
  <2>1. takes[t] \in Take
    BY DEF SInv, PaperOK
  <2>2. PICK S \in SUBSET Items : takes[t].lines \in [S -> CountLine]
    BY <2>1 DEF Take
  <2> DEFINE lines == [takes[t].lines EXCEPT ![i].counted = n, ![i].done = TRUE]
  <2>3. lines \in [S -> CountLine]
    BY <2>2 DEF CountLine
  <2>4. [takes[t] EXCEPT !.lines = lines] \in Take
    <3> HIDE DEF lines
    <3> QED
      BY <2>1, <2>3 DEF Take
  <2>5. takes' = [takes EXCEPT ![t] = [takes[t] EXCEPT !.lines = lines]]
    BY <2>1 DEF UpdateCountLine, Take
  <2>6. takes' \in Seq(Take)
    <3> HIDE DEF lines
    <3> QED
      BY <2>4, <2>5 DEF SInv, PaperOK
  <2> QED
    BY <2>6 DEF SInv, PaperOK, UpdateCountLine
<1> QED
  BY <1>1, Rests DEF SInv, UpdateCountLine, stockVars

LEMMA CompleteTakeKeeps ==
    ASSUME SInv, NEW t \in DOMAIN takes, CompleteStockTake(t)
    PROVE  SInv'
<1>1. StockOK'
  BY Applied DEF SInv
<1>2. PaperOK'
  <2>1. takes' = [takes EXCEPT ![t].status = "completed"] /\ UNCHANGED orders
    BY DEF CompleteStockTake
  <2>2. takes \in Seq(Take) /\ takes[t] \in Take
    BY DEF SInv, PaperOK
  <2>3. [takes[t] EXCEPT !.status = "completed"] \in Take
    BY <2>2 DEF Take
  <2>4. takes' \in Seq(Take)
    BY <2>1, <2>2, <2>3
  <2> QED
    BY <2>1, <2>4 DEF SInv, PaperOK
<1> QED
  BY <1>1, <1>2, Rests DEF SInv, CompleteStockTake

LEMMA OrderKeeps ==
    ASSUME SInv, NEW want \in [Items -> Nat], \E i \in Items : want[i] > 0,
           CreateRequisition(want)
    PROVE  SInv'
<1>1. PaperOK'
  <2> DEFINE q == NewOrder("draft", want)
  <2>1. q \in PurchaseOrder /\ Honest(q)
    BY NewOrderIsHonest
  <2>2. orders' = Append(orders, q) /\ UNCHANGED takes
    BY DEF CreateRequisition
  <2> HIDE DEF q
  <2>3. orders' \in Seq(PurchaseOrder)
    BY <2>1, <2>2 DEF SInv, PaperOK
  <2>4. \A o \in DOMAIN orders' : Honest(orders'[o])
    BY <2>1, <2>2 DEF SInv, PaperOK
  <2> QED
    BY <2>2, <2>3, <2>4 DEF SInv, PaperOK
<1> QED
  BY <1>1, Rests DEF SInv, CreateRequisition, stockVars

\* A late submission changes nothing.
LEMMA SubmitKeeps ==
    ASSUME SInv, NEW o \in DOMAIN orders, SubmitRequisition(o)
    PROVE  SInv'
<1>1. PaperOK'
  <2>1. orders[o] \in PurchaseOrder /\ Honest(orders[o])
    BY DEF SInv, PaperOK
  <2>2. PICK S \in (SUBSET Items) \ {{}} : orders[o].lines \in [S -> OrderLine]
    BY <2>1 DEF PurchaseOrder
  <2> DEFINE q == [orders[o] EXCEPT !.status = IF @ = "draft" THEN "submitted" ELSE @]
  <2>3. q \in PurchaseOrder /\ q.lines = orders[o].lines
    BY <2>1 DEF PurchaseOrder
  <2>4. Honest(q)
    BY <2>1, <2>3 DEF Honest, PurchaseOrder
  <2>5. orders' = [orders EXCEPT ![o] = q] /\ UNCHANGED takes
    BY DEF SubmitRequisition
  <2> HIDE DEF q
  <2> QED
    BY <2>3, <2>4, <2>5 DEF SInv, PaperOK
<1> QED
  BY <1>1, Rests DEF SInv, SubmitRequisition, stockVars

LEMMA ReceiveKeeps ==
    ASSUME SInv, NEW o \in DOMAIN orders, NEW i \in DOMAIN orders[o].lines, NEW n \in Nat,
           NEW e, ReceiveLine(o, i, n, e)
    PROVE  SInv'
<1> DEFINE lines == [orders[o].lines EXCEPT ![i].got = n, ![i].in = TRUE]
           status == IF \A k \in DOMAIN lines : lines[k].in
                     THEN "received" ELSE "partially_received"
           q == [status |-> status, lines |-> lines]
<1>1. orders[o] \in PurchaseOrder /\ Honest(orders[o])
  BY DEF SInv, PaperOK
<1>2. q \in PurchaseOrder /\ Honest(q)
  BY <1>1, ReceivedIsHonest
<1>3. orders' = [orders EXCEPT ![o] = q]
  BY DEF ReceiveLine
<1>4. /\ onHand' = [onHand EXCEPT ![i] = @ + n] /\ moved' = [moved EXCEPT ![i] = @ + n]
      /\ UNCHANGED <<takes, overruled, kitchenVars, menuVars>>
  BY DEF ReceiveLine
<1> HIDE DEF lines, status, q
<1>5. PaperOK'
  BY <1>2, <1>3, <1>4 DEF SInv, PaperOK
<1>6. i \in Items
  BY <1>1 DEF PurchaseOrder
<1>7. StockOK'
  <2>1. n \in Int /\ StockOK
    BY DEF SInv
  <2> QED
    BY <1>4, <1>6, <2>1, Moves
<1> QED
  BY <1>4, <1>5, <1>7, Rests DEF SInv

LEMMA NextKeeps ==
    ASSUME SInv, [StockNext]_store
    PROVE  SInv'
<1>1. CASE UNCHANGED store
  BY <1>1, Rests DEF SInv, store, stockVars, paperVars
<1>2. ASSUME NEW i \in Items, NEW n \in Nat \ {0}, SellsOrSpoils(i, n)
      PROVE  SInv'
  BY <1>2, DepartureKeeps
<1>3. ASSUME NEW r \in Request, OnPaper(r), Perform(r)
      PROVE  SInv'
  <2> USE AskedFor
  <2>1. CASE r.op = "adjust" /\ AdjustStock(r.item, r.n)
    BY <2>1, AdjustKeeps
  <2>2. CASE r.op = "process" /\ ProcessBatch(r.item, r.n)
    BY <2>2, ProcessKeeps
  <2>3. CASE r.op = "complete" /\ CompleteProcessing(r.item, r.n)
    BY <2>3, CompleteKeeps
  <2>4. CASE r.op = "set_recipe" /\ SetRecipe(r.item, r.made, r.parts)
    BY <2>4, SetRecipeKeeps
  <2>5. CASE r.op = "create" /\ CreateItem(r.item, r.n)
    BY <2>5, CatalogueKeeps
  <2>6. CASE r.op = "update" /\ UpdateItem(r.item, r.staged)
    BY <2>6, CatalogueKeeps
  <2>7. CASE r.op = "delete" /\ BulkDeactivateItems(r.items)
    <3>1. CASE Items = {}
      BY <2>7, <3>1, Rests DEF SInv, BulkDeactivateItems, stockVars, paperVars, MenuOK
    <3>2. CASE Items # {}
      BY <2>7, <3>2, CatalogueKeeps
    <3> QED
      BY <3>1, <3>2
  <2>8. CASE r.op = "import" /\ ImportCsv(r.item, r.n)
    BY <2>8, CatalogueKeeps
  <2>9. CASE r.op = "batch" /\ CreateBatch(r.item, r.n, r.expiry)
    BY <2>9, BatchKeeps DEF CreateBatch
  <2>10. CASE r.op = "expiry" /\ UpdateBatch(r.batch, r.expiry)
    BY <2>10, BatchKeeps DEF UpdateBatch
  <2>11. CASE r.op = "start_take" /\ StartStockTake
    BY <2>11, TakeKeeps
  <2>12. CASE r.op = "count" /\ UpdateCountLine(r.take, r.item, r.n)
    BY <1>3, <2>12, CountKeeps DEF OnPaper
  <2>13. CASE r.op = "complete_take" /\ CompleteStockTake(r.take)
    BY <2>13, CompleteTakeKeeps
  <2>14. CASE r.op = "create_order" /\ CreateRequisition(r.want)
    BY <1>3, <2>14, OrderKeeps DEF OnPaper
  <2>15. CASE r.op = "submit_order" /\ SubmitRequisition(r.order)
    BY <2>15, SubmitKeeps
  <2>16. CASE r.op = "receive" /\ ReceiveLine(r.order, r.item, r.n, r.expiry)
    BY <1>3, <2>16, ReceiveKeeps DEF OnPaper
  <2> QED
    BY <1>3, <2>1, <2>2, <2>3, <2>4, <2>5, <2>6, <2>7, <2>8, <2>9, <2>10, <2>11, <2>12,
       <2>13, <2>14, <2>15, <2>16 DEF Perform
<1> QED
  BY <1>1, <1>2, <1>3 DEF StockNext

-----------------------------------------------------------------------------
\* The theorems.

LEMMA StockInvariant == StockSpec => []SInv
  BY InitKeeps, NextKeeps, PTL DEF StockSpec

\* The stock room keeps its types: in particular no amount that is asked for, counted or
\* imported makes a recipe or a unit in the works something else than a number.
THEOREM StockTypeCorrect == StockSpec => []StockTypeOK
<1>1. SInv => StockTypeOK
  BY DEF SInv, StockOK, KitchenOK, MenuOK, StockTypeOK
<1> QED
  BY StockInvariant, <1>1, PTL

\* The movements of a tracked item explain its stock, whatever happened to it, until a stock
\* take was applied to stock that had moved since it began (complete_stock_take).
THEOREM LedgerExplainsStockAlways == StockSpec => []LedgerExplainsStock
<1>1. SInv => LedgerExplainsStock
  BY DEF SInv, StockOK
<1> QED
  BY StockInvariant, <1>1, PTL

\* No unit in processing is lost or finished twice, whatever becomes of its recipe
\* (process_batch, complete_processing, set_recipe).
THEOREM KitchenKeepsUnitsAlways == StockSpec => []KitchenKeepsUnits
<1>1. SInv => KitchenKeepsUnits
  BY DEF SInv, KitchenOK
<1> QED
  BY StockInvariant, <1>1, PTL

\* The status of a purchase order says how much of it is here, in whatever order it is
\* submitted and received (submit_requisition, receive_line).
THEOREM OrderStatusIsTrueAlways == StockSpec => []OrderStatusIsTrue
<1>1. SInv => OrderStatusIsTrue
  BY DEF SInv, PaperOK, OrderStatusIsTrue, Honest
<1> QED
  BY StockInvariant, <1>1, PTL

-----------------------------------------------------------------------------
(* The inventory screen. Requests and what they bring, with stock takes ts *)
(* and purchase orders os at the server, of which requests R may be sent.  *)

SheetFits(s, ts) ==
    /\ s = [take |-> s.take, copy |-> s.copy]
    /\ s.take \in DOMAIN ts
    /\ DOMAIN s.copy.lines = DOMAIN ts[s.take].lines

OrderFits(p, os) ==
    /\ p = [order |-> p.order, copy |-> p.copy]
    /\ p.order \in DOMAIN os
    /\ DOMAIN p.copy.lines = DOMAIN os[p.order].lines
    /\ p.copy \in PurchaseOrder

ListFits(l, ts, os) ==
    /\ {"items", "takes", "orders"} \subseteq DOMAIN l
    /\ DOMAIN l.items \subseteq Items
    /\ DOMAIN l.takes \subseteq DOMAIN ts
    /\ DOMAIN l.orders \subseteq DOMAIN os

CardFits(cd) == cd.made \in BOOLEAN /\ cd.parts \in [Items -> Nat]

\* The counts that a sheet shows are those of lines.
Counted(seen, t, lines) ==
    \A x \in DOMAIN seen : x[1] = t => lines[x[2]].done /\ lines[x[2]].counted = seen[x]

\* An answer on its way back.
Brings(c, ts, os) ==
    /\ {"ok", "data"} \subseteq DOMAIN c
    /\ c.req.op \in {"load", "get_take", "get_order", "get_recipe"} => c.ok
    /\ c.req.op = "load" => ListFits(c.data, ts, os)
    /\ c.req.op \in {"start_take", "get_take", "complete_take"} /\ c.ok => SheetFits(c.data, ts)
    /\ c.req.op \in {"get_take", "complete_take"} /\ c.ok => c.data.take = c.req.take
    /\ c.req.op = "get_order" => OrderFits(c.data, os) /\ c.data.order = c.req.order
    /\ c.req.op = "create_order" /\ c.ok => c.data.order \in DOMAIN os
    /\ c.req.op = "get_recipe" => c.data.of = c.req.item /\ CardFits(c.data)
    /\ c.req.op = "receive" /\ c.calm => c.first
    /\ c.req.op = "complete_take" /\ c.ok /\ c.calm => Counted(c.seen, c.req.take, c.data.copy.lines)

\* What a calm request leans on is still true at the server.
Leans(c, ts, os) ==
    /\ c.req.op = "receive" /\ c.calm => ~os[c.req.order].lines[c.req.item].in
    /\ c.req.op = "complete_take" /\ c.calm => Counted(c.seen, c.req.take, ts[c.req.take].lines)

CallFits(c, ts, os) ==
    /\ {"req", "at", "phase", "heard", "calm", "seen"} \subseteq DOMAIN c
    /\ c.req.op = "get_take" => c.req.take \in DOMAIN ts
    /\ c.req.op = "get_order" => c.req.order \in DOMAIN os
    /\ c.req.op \in {"price", "get_recipe"} => c.req.item \in Items
    /\ c.req.op = "get_recipe" => c.at.item = c.req.item
    /\ c.req.op \in {"batches", "batch", "expiry"} =>
          c.at.part \in {"batches", "expiry"} /\ c.at.item \in Items
    /\ c.phase \in {"sent", "answered"}
    /\ c.phase = "answered" => Brings(c, ts, os)
    /\ c.phase = "sent" => Leans(c, ts, os)

\* OnPaper, of stock takes ts and orders os.
Written(r, ts, os) ==
    /\ r.op = "create_order" => \E i \in Items : r.want[i] > 0
    /\ r.op = "count" => r.item \in DOMAIN ts[r.take].lines
    /\ r.op = "receive" => r.item \in DOMAIN os[r.order].lines

Lawful(c, R, ts, os) == c.req.op \notin Plain => c.req \in R /\ Written(c.req, ts, os)

CallsFit(cs, R, ts, os) ==
    /\ \E T : cs \in Seq(T)
    /\ \A k \in DOMAIN cs : CallFits(cs[k], ts, os) /\ Lawful(cs[k], R, ts, os)

\* A calm delivery is alone, and no count passes a calm completion.
Unhurried(cs) == \A j, k \in DOMAIN cs : cs[j].calm =>
    /\ cs[j].req.op = "receive" /\ cs[k].req.op = "receive" => j = k
    /\ cs[j].req.op = "complete_take" => cs[k].req.op # "count"

-----------------------------------------------------------------------------
(* The screen: what it may show, and that what is old is about to be read  *)
(* again.                                                                  *)

TypedFits(ty, ts) ==
    \A x \in DOMAIN ty : x = <<x[1], x[2]>> /\ x[1] \in DOMAIN ts /\ x[2] \in DOMAIN ts[x[1]].lines

DialogsFit(ds) ==
    /\ {"item", "recipe", "batches", "production"} \subseteq DOMAIN ds
    /\ ds["item"] \in Items \cup {"new", "none"}
    /\ \A k \in {"recipe", "batches", "production"} : ds[k] \in Items \cup {"none"}

ScreenFits(l, s, p, ty, ds, pk, ts, os) ==
    /\ ListFits(l, ts, os)
    /\ s = NoSheet \/ SheetFits(s, ts)
    /\ p = NoPO \/ OrderFits(p, os)
    /\ TypedFits(ty, ts)
    /\ DialogsFit(ds)
    /\ pk \in Items \cup {"none"}

RefreshesList(c) ==
    /\ c.heard
    /\ \/ c.req.op = "load"
       \/ c.phase = "answered" /\ c.ok /\ c.req.op \in LoadsAfter \cup {"receive", "create_order"}

RefreshesSheet(c, t) ==
    /\ c.heard
    /\ \/ c.req.op = "get_take" /\ c.req.take = t
       \/ /\ c.req.op \in {"count", "complete_take"} /\ c.req.take = t
          /\ c.phase = "answered" /\ c.ok

RefreshesOrder(c, o) ==
    /\ c.heard
    /\ \/ c.req.op = "get_order" /\ c.req.order = o
       \/ c.req.op = "receive" /\ c.req.order = o /\ c.phase = "answered"

\* Order o will be submitted, which no sheet of it is told.
SubmitsLater(c, o) ==
    /\ c.heard
    /\ \/ c.req.op = "submit_order" /\ c.phase = "sent" /\ c.req.order = o
       \/ c.req.op = "create_order" /\ c.phase = "answered" /\ c.ok /\ c.data.order = o

\* A count for field x.
OnItsWay(c, x) ==
    c.req.op = "count" /\ c.heard /\ c.phase = "sent" /\ c.req.take = x[1] /\ c.req.item = x[2]

ListFresh(l, snap, cs, ex) ==
    \/ "list" \in ex \/ l = snap
    \/ \E k \in DOMAIN cs : RefreshesList(cs[k])

SheetFresh(s, ts, cs, ex) ==
    \/ "sheet" \in ex \/ s = NoSheet \/ s.copy = ts[s.take]
    \/ \E k \in DOMAIN cs : RefreshesSheet(cs[k], s.take)

OrderFresh(p, os, cs, ex) ==
    \/ "po" \in ex \/ p = NoPO
    \/ /\ p.copy = os[p.order] \/ \E k \in DOMAIN cs : RefreshesOrder(cs[k], p.order)
       /\ \A k \in DOMAIN cs : ~SubmitsLater(cs[k], p.order)

FieldsFresh(ty, ts, cs, ex) ==
    \/ "typed" \in ex
    \/ \A x \in DOMAIN ty :
         /\ \/ ts[x[1]].lines[x[2]].done /\ ts[x[1]].lines[x[2]].counted = ty[x]
            \/ \E k \in DOMAIN cs : OnItsWay(cs[k], x)
         /\ \A k \in DOMAIN cs : OnItsWay(cs[k], x) => cs[k].req.n = ty[x]

\* A count nobody waits for is an excuse for the fields.
Copies(l, s, p, ty, cs, ex, snap, ts, os) ==
    /\ ListFresh(l, snap, cs, ex)
    /\ SheetFresh(s, ts, cs, ex)
    /\ OrderFresh(p, os, cs, ex)
    /\ FieldsFresh(ty, ts, cs, ex)

PInv ==
    /\ SInv
    /\ \E T : batches \in Seq(T)
    /\ visit \in Visits
    /\ CallsFit(calls, Request, takes, orders)
    /\ Unhurried(calls)
    /\ ScreenFits(list, sheet, po, typed, dialogs, picked, takes, orders)
    /\ Copies(list, sheet, po, typed, calls, excuse, Snapshot, takes, orders)
    /\ CardFits(card)

-----------------------------------------------------------------------------
(* Lists of requests.                                                      *)

LEMMA Removed ==
    ASSUME NEW T, NEW cs \in Seq(T), NEW j \in DOMAIN cs
    PROVE  /\ RemoveAt(cs, j) \in Seq(T)
           /\ DOMAIN RemoveAt(cs, j) = 1..(Len(cs) - 1)
           /\ \A k \in 1..(Len(cs) - 1) :
                RemoveAt(cs, j)[k] = cs[IF k < j THEN k ELSE k + 1]
<1>1. Len(cs) \in Nat /\ j \in 1..Len(cs) /\ DOMAIN cs = 1..Len(cs)
  OBVIOUS
<1> DEFINE a == SubSeq(cs, 1, j - 1)
           b == SubSeq(cs, j + 1, Len(cs))
<1>2. /\ a \in Seq(T) /\ Len(a) = j - 1
      /\ \A k \in 1..(j - 1) : a[k] = cs[k]
  BY <1>1
<1>3. /\ b \in Seq(T) /\ Len(b) = Len(cs) - j
      /\ \A k \in 1..(Len(cs) - j) : b[k] = cs[j + k]
  BY <1>1
<1>4. RemoveAt(cs, j) = a \o b
  BY DEF RemoveAt
<1> HIDE DEF a, b
<1>5. /\ a \o b \in Seq(T) /\ Len(a \o b) = Len(cs) - 1
      /\ \A i \in 1..(Len(a) + Len(b)) : (a \o b)[i] = IF i <= Len(a) THEN a[i] ELSE b[i - Len(a)]
  <2>1. /\ a \o b \in Seq(T) /\ Len(a \o b) = Len(a) + Len(b)
        /\ \A i \in 1..(Len(a) + Len(b)) : (a \o b)[i] = IF i <= Len(a) THEN a[i] ELSE b[i - Len(a)]
    BY <1>2, <1>3, ConcatProperties
  <2> QED
    BY <1>1, <1>2, <1>3, <2>1
<1>6. ASSUME NEW k \in 1..(Len(cs) - 1)
      PROVE  (a \o b)[k] = cs[IF k < j THEN k ELSE k + 1]
  <2>1. CASE k < j
    <3>1. k \in 1..(j - 1) /\ k <= Len(a) /\ k \in 1..(Len(a) + Len(b))
      BY <1>1, <1>2, <1>3, <2>1
    <3> QED
      BY <1>2, <1>5, <2>1, <3>1
  <2>2. CASE ~(k < j)
    <3>1. /\ k - (j - 1) \in 1..(Len(cs) - j) /\ ~(k <= Len(a)) /\ k \in 1..(Len(a) + Len(b))
          /\ j + (k - (j - 1)) = k + 1 /\ k - Len(a) = k - (j - 1)
      BY <1>1, <1>2, <1>3, <2>2
    <3>2. (a \o b)[k] = b[k - (j - 1)]
      BY <1>5, <3>1
    <3>3. b[k - (j - 1)] = cs[j + (k - (j - 1))]
      BY <1>3, <3>1
    <3> QED
      BY <2>2, <3>1, <3>2, <3>3
  <2> QED
    BY <2>1, <2>2
<1>7. DOMAIN (a \o b) = 1..(Len(cs) - 1)
  BY <1>5
<1> QED
  BY <1>4, <1>5, <1>6, <1>7

\* What is left of cs when j goes.
LEMMA Rest ==
    ASSUME NEW cs, \E T : cs \in Seq(T), NEW j \in DOMAIN cs
    PROVE  /\ \E T : RemoveAt(cs, j) \in Seq(T)
           /\ \A m \in DOMAIN RemoveAt(cs, j) : \E k \in DOMAIN cs \ {j} : RemoveAt(cs, j)[m] = cs[k]
           /\ \A k \in DOMAIN cs \ {j} : \E m \in DOMAIN RemoveAt(cs, j) : RemoveAt(cs, j)[m] = cs[k]
<1>1. PICK T : cs \in Seq(T)
  OBVIOUS
<1>2. DOMAIN cs = 1..Len(cs) /\ Len(cs) \in Nat /\ j \in Int
  BY <1>1
<1>3. ASSUME NEW k \in DOMAIN cs \ {j}
      PROVE  \E m \in DOMAIN RemoveAt(cs, j) : RemoveAt(cs, j)[m] = cs[k]
  <2>1. CASE k < j
    <3>1. k \in 1..(Len(cs) - 1)
      BY <1>2, <2>1
    <3> QED
      BY <1>1, <2>1, <3>1, Removed
  <2>2. CASE ~(k < j)
    <3>1. k - 1 \in 1..(Len(cs) - 1) /\ ~(k - 1 < j) /\ (k - 1) + 1 = k
      BY <1>2, <2>2
    <3> QED
      BY <1>1, <3>1, Removed
  <2> QED
    BY <2>1, <2>2
<1>4. ASSUME NEW m \in DOMAIN RemoveAt(cs, j)
      PROVE  \E k \in DOMAIN cs \ {j} : RemoveAt(cs, j)[m] = cs[k]
  <2>1. m \in 1..(Len(cs) - 1) /\ RemoveAt(cs, j)[m] = cs[IF m < j THEN m ELSE m + 1]
    BY <1>1, Removed
  <2>2. (IF m < j THEN m ELSE m + 1) \in DOMAIN cs \ {j}
    BY <1>2, <2>1
  <2> QED
    BY <2>1, <2>2
<1>5. RemoveAt(cs, j) \in Seq(T)
  BY <1>1, Removed
<1> QED
  BY <1>3, <1>4, <1>5

LEMMA Behind ==
    ASSUME NEW a, NEW b, \E T : a \in Seq(T), \E T : b \in Seq(T)
    PROVE  /\ \E T : a \o b \in Seq(T)
           /\ Len(a) \in Nat /\ DOMAIN a = 1..Len(a)
           /\ \A k \in DOMAIN a : k \in DOMAIN (a \o b) /\ (a \o b)[k] = a[k]
           /\ \A n \in DOMAIN b : Len(a) + n \in DOMAIN (a \o b) /\ (a \o b)[Len(a) + n] = b[n]
           /\ \A m \in DOMAIN (a \o b) : m \in DOMAIN a \/ \E n \in DOMAIN b : (a \o b)[m] = b[n]
<1>1. PICK S : a \in Seq(S)
  OBVIOUS
<1>2. PICK T : b \in Seq(T)
  OBVIOUS
<1>3. a \in Seq(S \cup T) /\ b \in Seq(S \cup T)
  BY <1>1, <1>2, SeqMonotonic
<1>4. /\ a \o b \in Seq(S \cup T)
      /\ Len(a \o b) = Len(a) + Len(b)
      /\ \A i \in 1..(Len(a) + Len(b)) : (a \o b)[i] = IF i <= Len(a) THEN a[i] ELSE b[i - Len(a)]
  BY <1>3, ConcatProperties
<1>5. /\ Len(a) \in Nat /\ Len(b) \in Nat /\ DOMAIN a = 1..Len(a) /\ DOMAIN b = 1..Len(b)
      /\ DOMAIN (a \o b) = 1..(Len(a) + Len(b))
  BY <1>3, <1>4
<1>6. ASSUME NEW k \in DOMAIN a PROVE k \in DOMAIN (a \o b) /\ (a \o b)[k] = a[k]
  BY <1>4, <1>5
<1>7. ASSUME NEW n \in DOMAIN b PROVE Len(a) + n \in DOMAIN (a \o b) /\ (a \o b)[Len(a) + n] = b[n]
  <2>1. /\ Len(a) + n \in DOMAIN (a \o b) /\ Len(a) + n \in 1..(Len(a) + Len(b))
        /\ ~(Len(a) + n <= Len(a)) /\ Len(a) + n - Len(a) = n
    BY <1>5
  <2> QED
    BY <1>4, <2>1
<1>8. ASSUME NEW m \in DOMAIN (a \o b), m \notin DOMAIN a
      PROVE  \E n \in DOMAIN b : (a \o b)[m] = b[n]
  <2>1. m - Len(a) \in DOMAIN b /\ ~(m <= Len(a)) /\ m \in 1..(Len(a) + Len(b))
    BY <1>5, <1>8
  <2> QED
    BY <1>4, <2>1
<1> QED
  BY <1>4, <1>5, <1>6, <1>7, <1>8

-----------------------------------------------------------------------------
(* What a request leaves of the paper at the server.                       *)

\* Nothing is torn up, and no line is added to what is there.
Grows(ts, us) ==
    /\ DOMAIN ts \subseteq DOMAIN us
    /\ \A t \in DOMAIN ts : DOMAIN us[t].lines = DOMAIN ts[t].lines

LEMMA MoreMayBeAsked ==
    ASSUME DOMAIN batches \subseteq DOMAIN batches', DOMAIN takes \subseteq DOMAIN takes',
           DOMAIN orders \subseteq DOMAIN orders'
    PROVE  Request \subseteq Request'
<1> SUFFICES ASSUME NEW r \in Request
             PROVE  r \in Request'
  OBVIOUS
<1>1. CASE r \in [op : {"expiry"}, batch : DOMAIN batches, expiry : Dates]
  <2>1. r \in [op : {"expiry"}, batch : DOMAIN batches', expiry : Dates]
    BY <1>1
  <2> QED
    BY <2>1 DEF Request
<1>2. CASE r \in [op : {"count"}, take : DOMAIN takes, item : Items, n : Int]
  <2>1. r \in [op : {"count"}, take : DOMAIN takes', item : Items, n : Int]
    BY <1>2
  <2> QED
    BY <2>1 DEF Request
<1>3. CASE r \in [op : {"complete_take"}, take : DOMAIN takes]
  <2>1. r \in [op : {"complete_take"}, take : DOMAIN takes']
    BY <1>3
  <2> QED
    BY <2>1 DEF Request
<1>4. CASE r \in [op : {"submit_order"}, order : DOMAIN orders]
  <2>1. r \in [op : {"submit_order"}, order : DOMAIN orders']
    BY <1>4
  <2> QED
    BY <2>1 DEF Request
<1>5. CASE r \in [op : {"receive"}, order : DOMAIN orders, item : Items, n : Nat, expiry : Dates]
  <2>1. r \in [op : {"receive"}, order : DOMAIN orders', item : Items, n : Nat, expiry : Dates]
    BY <1>5
  <2> QED
    BY <2>1 DEF Request
<1> QED
  BY <1>1, <1>2, <1>3, <1>4, <1>5, ZenonT(60) DEF Request

\* Stock takes are a list of sheets, orders a list of orders.
LEMMA Paper ==
    ASSUME SInv
    PROVE  /\ takes \in Seq(Take) /\ orders \in Seq(PurchaseOrder)
           /\ Len(takes) \in Nat /\ DOMAIN takes = 1..Len(takes)
           /\ Len(orders) \in Nat /\ DOMAIN orders = 1..Len(orders)
           /\ \A t \in DOMAIN takes : takes[t] = [status |-> takes[t].status, lines |-> takes[t].lines]
           /\ \A o \in DOMAIN orders :
                orders[o] = [status |-> orders[o].status, lines |-> orders[o].lines]
           /\ \A t \in DOMAIN takes : \A i \in DOMAIN takes[t].lines :
                takes[t].lines[i] \in CountLine
<1>1. takes \in Seq(Take) /\ orders \in Seq(PurchaseOrder)
  BY DEF SInv, PaperOK
<1>2. ASSUME NEW t \in DOMAIN takes
      PROVE  /\ takes[t] = [status |-> takes[t].status, lines |-> takes[t].lines]
             /\ \A i \in DOMAIN takes[t].lines : takes[t].lines[i] \in CountLine
  <2>1. takes[t] \in Take
    BY <1>1
  <2>2. PICK S \in SUBSET Items : takes[t].lines \in [S -> CountLine]
    BY <2>1 DEF Take
  <2> QED
    BY <2>1, <2>2 DEF Take
<1>3. ASSUME NEW o \in DOMAIN orders
      PROVE  orders[o] = [status |-> orders[o].status, lines |-> orders[o].lines]
  <2>1. orders[o] \in PurchaseOrder
    BY <1>1
  <2> QED
    BY <2>1 DEF PurchaseOrder
<1>4. /\ Len(takes) \in Nat /\ DOMAIN takes = 1..Len(takes)
      /\ Len(orders) \in Nat /\ DOMAIN orders = 1..Len(orders)
  BY <1>1
<1> QED
  BY <1>1, <1>2, <1>3, <1>4

LEMMA LineCounted ==
    ASSUME SInv, NEW t \in DOMAIN takes, NEW i \in DOMAIN takes[t].lines, NEW n \in Int,
           UpdateCountLine(t, i, n)
    PROVE  /\ DOMAIN takes' = DOMAIN takes
           /\ takes'[t].lines[i].done /\ takes'[t].lines[i].counted = n
           /\ DOMAIN takes'[t].lines = DOMAIN takes[t].lines
           /\ \A k \in DOMAIN takes[t].lines \ {i} : takes'[t].lines[k] = takes[t].lines[k]
           /\ takes'[t].status = takes[t].status
           /\ \A u \in DOMAIN takes \ {t} : takes'[u] = takes[u]
<1> DEFINE g == [takes[t].lines EXCEPT ![i].counted = n, ![i].done = TRUE]
<1>1. takes[t] \in Take
  BY DEF SInv, PaperOK
<1>2. PICK S \in SUBSET Items : takes[t].lines \in [S -> CountLine]
  BY <1>1 DEF Take
<1>3. /\ DOMAIN g = DOMAIN takes[t].lines /\ g[i].done /\ g[i].counted = n
      /\ \A k \in DOMAIN takes[t].lines \ {i} : g[k] = takes[t].lines[k]
  BY <1>2 DEF CountLine
<1>4. takes' = [takes EXCEPT ![t] = [takes[t] EXCEPT !.lines = g]]
  BY <1>1 DEF UpdateCountLine, Take
<1> HIDE DEF g
<1>5. takes'[t].lines = g /\ takes'[t].status = takes[t].status
  BY <1>1, <1>4 DEF Take
<1> QED
  BY <1>3, <1>4, <1>5

\* The stock takes after a request.
LEMMA TakesAfter ==
    ASSUME SInv, NEW r \in Request, OnPaper(r), Perform(r)
    PROVE  /\ Grows(takes, takes')
           /\ \A t \in DOMAIN takes :
                takes'[t] # takes[t] => r.op \in {"count", "complete_take"} /\ r.take = t
           /\ r.op # "count" => \A t \in DOMAIN takes : takes'[t].lines = takes[t].lines
           /\ r.op = "count" =>
                /\ r.take \in DOMAIN takes /\ r.item \in DOMAIN takes[r.take].lines
                /\ takes'[r.take].lines[r.item].done
                /\ takes'[r.take].lines[r.item].counted = r.n
                /\ \A i \in DOMAIN takes[r.take].lines \ {r.item} :
                      takes'[r.take].lines[i] = takes[r.take].lines[i]
                /\ \A t \in DOMAIN takes : takes'[t].status = takes[t].status
                /\ DOMAIN takes' = DOMAIN takes
           /\ r.op = "start_take" => Len(takes') \in DOMAIN takes'
<1>1. CASE r.op \notin {"start_take", "count", "complete_take"}
  <2>1. takes' = takes
    BY <1>1 DEF Perform, AdjustStock, ProcessBatch, CompleteProcessing, SetRecipe, CreateItem,
       UpdateItem, BulkDeactivateItems, ImportCsv, CreateBatch, UpdateBatch, CreateRequisition,
       SubmitRequisition, ReceiveLine, paperVars
  <2> QED
    BY <1>1, <2>1 DEF Grows
<1>2. CASE r.op = "start_take"
  <2>1. StartStockTake
    BY <1>2 DEF Perform
  <2> DEFINE s == [status |-> "draft",
                   lines |-> [i \in Active |-> [expected |-> onHand[i], counted |-> 0, done |-> FALSE]]]
  <2>2. takes' = Append(takes, s)
    BY <2>1 DEF StartStockTake
  <2> HIDE DEF s
  <2>3. /\ DOMAIN takes' = 1..(Len(takes) + 1) /\ Len(takes') = Len(takes) + 1
        /\ \A t \in 1..Len(takes) : takes'[t] = takes[t]
    BY <2>2, Paper
  <2>4. /\ DOMAIN takes \subseteq DOMAIN takes' /\ \A t \in DOMAIN takes : takes'[t] = takes[t]
        /\ Len(takes') \in DOMAIN takes'
    BY <2>3, Paper
  <2> QED
    BY <1>2, <2>4 DEF Grows
<1>3. CASE r.op = "count"
  <2>1. UpdateCountLine(r.take, r.item, r.n)
    BY <1>3 DEF Perform
  <2>2. r.take \in DOMAIN takes /\ r.item \in DOMAIN takes[r.take].lines /\ r.n \in Int
    BY <1>3, AskedFor DEF OnPaper
  <2> QED
    BY <1>3, <2>1, <2>2, LineCounted DEF Grows
<1>4. CASE r.op = "complete_take"
  <2>1. CompleteStockTake(r.take) /\ r.take \in DOMAIN takes
    BY <1>4, AskedFor DEF Perform
  <2>2. takes' = [takes EXCEPT ![r.take].status = "completed"]
    BY <2>1 DEF CompleteStockTake
  <2>3. takes[r.take] = [status |-> takes[r.take].status, lines |-> takes[r.take].lines]
    BY <2>1, Paper
  <2>4. /\ DOMAIN takes' = DOMAIN takes /\ takes'[r.take].lines = takes[r.take].lines
        /\ \A t \in DOMAIN takes \ {r.take} : takes'[t] = takes[t]
    BY <2>1, <2>2, <2>3
  <2> QED
    BY <1>4, <2>1, <2>4 DEF Grows
<1> QED
  BY <1>1, <1>2, <1>3, <1>4

\* The orders after a request.
LEMMA OrdersAfter ==
    ASSUME SInv, NEW r \in Request, OnPaper(r), Perform(r)
    PROVE  /\ Grows(orders, orders')
           /\ \A o \in DOMAIN orders :
                orders'[o] # orders[o] => r.op \in {"submit_order", "receive"} /\ r.order = o
           /\ r.op # "receive" => \A o \in DOMAIN orders : orders'[o].lines = orders[o].lines
           /\ r.op = "create_order" =>
                Len(orders') \in DOMAIN orders' /\ Len(orders') \notin DOMAIN orders
           /\ r.op = "count" => orders' = orders
<1>1. CASE r.op \notin {"create_order", "submit_order", "receive"}
  <2>1. orders' = orders
    BY <1>1 DEF Perform, AdjustStock, ProcessBatch, CompleteProcessing, SetRecipe, CreateItem,
       UpdateItem, BulkDeactivateItems, ImportCsv, CreateBatch, UpdateBatch, StartStockTake,
       UpdateCountLine, CompleteStockTake, paperVars
  <2> QED
    BY <1>1, <2>1 DEF Grows
<1>2. CASE r.op = "create_order"
  <2>1. CreateRequisition(r.want)
    BY <1>2 DEF Perform
  <2> DEFINE q == NewOrder("draft", r.want)
  <2>2. orders' = Append(orders, q)
    BY <2>1 DEF CreateRequisition
  <2> HIDE DEF q
  <2>3. /\ DOMAIN orders' = 1..(Len(orders) + 1) /\ Len(orders') = Len(orders) + 1
        /\ \A o \in 1..Len(orders) : orders'[o] = orders[o]
    BY <2>2, Paper
  <2>4. /\ DOMAIN orders \subseteq DOMAIN orders' /\ \A o \in DOMAIN orders : orders'[o] = orders[o]
        /\ Len(orders') \in DOMAIN orders' /\ Len(orders') \notin DOMAIN orders
    BY <2>3, Paper
  <2> QED
    BY <1>2, <2>4 DEF Grows
<1>3. CASE r.op = "submit_order"
  <2>1. SubmitRequisition(r.order) /\ r.order \in DOMAIN orders
    BY <1>3, AskedFor DEF Perform
  <2> DEFINE q == [orders[r.order] EXCEPT !.status = IF @ = "draft" THEN "submitted" ELSE @]
  <2>2. orders' = [orders EXCEPT ![r.order] = q]
    BY <2>1 DEF SubmitRequisition
  <2>3. orders[r.order] = [status |-> orders[r.order].status, lines |-> orders[r.order].lines]
    BY <2>1, Paper
  <2>4. q.lines = orders[r.order].lines
    BY <2>3
  <2> HIDE DEF q
  <2>5. /\ DOMAIN orders' = DOMAIN orders /\ orders'[r.order].lines = orders[r.order].lines
        /\ \A o \in DOMAIN orders \ {r.order} : orders'[o] = orders[o]
    BY <2>1, <2>2, <2>4
  <2> QED
    BY <1>3, <2>1, <2>5 DEF Grows
<1>4. CASE r.op = "receive"
  <2>1. ReceiveLine(r.order, r.item, r.n, r.expiry) /\ r.order \in DOMAIN orders
    BY <1>4, AskedFor DEF Perform
  <2> DEFINE f == orders[r.order].lines
             g == [f EXCEPT ![r.item].got = r.n, ![r.item].in = TRUE]
             h == IF \A k \in DOMAIN g : g[k].in THEN "received" ELSE "partially_received"
             q == [status |-> h, lines |-> g]
  <2>2. orders' = [orders EXCEPT ![r.order] = q]
    BY <2>1 DEF ReceiveLine
  <2>3. q.lines = g /\ DOMAIN g = DOMAIN f
    OBVIOUS
  <2> HIDE DEF q, g
  <2>4. /\ DOMAIN orders' = DOMAIN orders /\ DOMAIN orders'[r.order].lines = DOMAIN f
        /\ \A o \in DOMAIN orders \ {r.order} : orders'[o] = orders[o]
    BY <2>1, <2>2, <2>3
  <2> QED
    BY <1>4, <2>1, <2>4 DEF Grows
<1> QED
  BY <1>1, <1>2, <1>3, <1>4

\* Batches are added, never removed.
LEMMA BatchesStay ==
    ASSUME \E T : batches \in Seq(T), NEW out, NEW b, NEW e, NEW q,
           \/ batches' = batches
           \/ batches' = Append(batches, q)
           \/ batches' = [batches EXCEPT ![b].expiry = e]
           \/ batches' = ConsumeBatchesFefo(out)
    PROVE  (\E T : batches' \in Seq(T)) /\ DOMAIN batches \subseteq DOMAIN batches'
<1>1. PICK T : batches \in Seq(T)
  OBVIOUS
<1>2. Len(batches) \in Nat /\ DOMAIN batches = 1..Len(batches) /\ batches \in [1..Len(batches) -> T]
  BY <1>1
<1>3. CASE batches' = Append(batches, q)
  <2>1. batches \in Seq(T \cup {q}) /\ q \in T \cup {q}
    BY <1>1, SeqMonotonic
  <2>2. Append(batches, q) \in Seq(T \cup {q}) /\ Len(Append(batches, q)) = Len(batches) + 1
    BY <2>1, AppendProperties
  <2>3. DOMAIN batches' = 1..(Len(batches) + 1)
    BY <1>3, <2>2
  <2> QED
    BY <1>2, <1>3, <2>2, <2>3
<1>4. CASE DOMAIN batches' = 1..Len(batches) /\ batches' = [k \in DOMAIN batches' |-> batches'[k]]
  <2> DEFINE S == {batches'[k] : k \in 1..Len(batches)}
             m == Len(batches)
  <2>1. batches' \in [1..m -> S]
    BY <1>4
  <2>2. m \in Nat
    BY <1>2
  <2> HIDE DEF S, m
  <2>3. batches' \in Seq(S)
    BY <2>1, <2>2
  <2> QED
    BY <1>2, <1>4, <2>3
<1>5. CASE batches' = [batches EXCEPT ![b].expiry = e]
  <2>1. DOMAIN batches' = 1..Len(batches) /\ batches' = [k \in DOMAIN batches' |-> batches'[k]]
    BY <1>2, <1>5, Zenon
  <2> QED
    BY <1>4, <2>1
<1>6. CASE batches' = ConsumeBatchesFefo(out)
  <2>1. DOMAIN batches' = 1..Len(batches) /\ batches' = [k \in DOMAIN batches' |-> batches'[k]]
    BY <1>2, <1>6, Zenon DEF ConsumeBatchesFefo
  <2> QED
    BY <1>4, <2>1
<1> QED
  BY <1>1, <1>3, <1>5, <1>6

LEMMA BatchesAfter ==
    ASSUME \E T : batches \in Seq(T), StockNext
    PROVE  (\E T : batches' \in Seq(T)) /\ DOMAIN batches \subseteq DOMAIN batches'
<1> DEFINE After(out, b, e, q) ==
        \/ batches' = batches
        \/ batches' = Append(batches, q)
        \/ batches' = [batches EXCEPT ![b].expiry = e]
        \/ batches' = ConsumeBatchesFefo(out)
<1>1. SUFFICES \E out, b, e, q : After(out, b, e, q)
  BY BatchesStay
<1>2. ASSUME NEW i \in Items, NEW n \in Nat \ {0}, SellsOrSpoils(i, n)
      PROVE  \E out, b, e, q : After(out, b, e, q)
  BY <1>2 DEF SellsOrSpoils, DeductStockOnSale, RecordSpoil, StockLeaves
<1>3. ASSUME NEW r \in Request, Perform(r)
      PROVE  \E out, b, e, q : After(out, b, e, q)
  <2>1. CASE batches' = batches
    BY <2>1
  <2>2. CASE r.op = "adjust"
    BY <1>3, <2>2 DEF Perform, AdjustStock
  <2>3. CASE r.op = "process"
    BY <1>3, <2>3 DEF Perform, ProcessBatch, StockLeaves
  <2>4. CASE r.op = "batch"
    BY <1>3, <2>4 DEF Perform, CreateBatch
  <2>5. CASE r.op = "expiry"
    BY <1>3, <2>5 DEF Perform, UpdateBatch
  <2>6. CASE r.op = "receive"
    BY <1>3, <2>6 DEF Perform, ReceiveLine
  <2>7. CASE r.op \notin {"adjust", "process", "batch", "expiry", "receive"}
    <3>1. batches' = batches
      BY <1>3, <2>7 DEF Perform, CompleteProcessing, SetRecipe, CreateItem, UpdateItem,
         BulkDeactivateItems, ImportCsv, StartStockTake, UpdateCountLine, CompleteStockTake,
         CreateRequisition, SubmitRequisition, stockVars
    <3> QED
      BY <3>1
  <2> QED
    BY <2>2, <2>3, <2>4, <2>5, <2>6, <2>7
<1> QED
  BY <1>2, <1>3 DEF StockNext

\* Counts and batches are not in the lists.
LEMMA ListsAfter ==
    ASSUME SInv, NEW r \in Request, OnPaper(r), Perform(r), r.op \in {"count", "batch", "expiry"}
    PROVE  Snapshot' = Snapshot
<1>1. CASE r.op \in {"batch", "expiry"}
  BY <1>1 DEF Perform, CreateBatch, UpdateBatch, Snapshot, Row, Active, menuVars, kitchenVars, paperVars
<1>2. CASE r.op = "count"
  <2>1. UNCHANGED <<onHand, kitchenVars, menuVars>>
    BY <1>2 DEF Perform, UpdateCountLine, stockVars
  <2>2. /\ DOMAIN takes' = DOMAIN takes /\ \A t \in DOMAIN takes : takes'[t].status = takes[t].status
        /\ orders' = orders
    BY <1>2, TakesAfter, OrdersAfter
  <2>3. [t \in DOMAIN takes |-> takes[t].status]' = [t \in DOMAIN takes |-> takes[t].status]
    BY <2>2
  <2>4. [i \in Active |-> Row(i)]' = [i \in Active |-> Row(i)]
    BY <2>1 DEF Active, Row, menuVars, kitchenVars
  <2>5. [o \in DOMAIN orders |-> orders[o].status]' = [o \in DOMAIN orders |-> orders[o].status]
    BY <2>2
  <2> QED
    BY <2>3, <2>4, <2>5 DEF Snapshot
<1> QED
  BY <1>1, <1>2

-----------------------------------------------------------------------------
(* What fits goes on fitting.                                              *)

LEMMA SheetFitsOn ==
    ASSUME NEW s, NEW ts, NEW us, Grows(ts, us), SheetFits(s, ts)
    PROVE  SheetFits(s, us)
  BY DEF SheetFits, Grows

LEMMA OrderFitsOn ==
    ASSUME NEW p, NEW os, NEW ps, Grows(os, ps), OrderFits(p, os)
    PROVE  OrderFits(p, ps)
  BY DEF OrderFits, Grows

LEMMA ListFitsOn ==
    ASSUME NEW l, NEW ts, NEW us, NEW os, NEW ps, Grows(ts, us), Grows(os, ps), ListFits(l, ts, os)
    PROVE  ListFits(l, us, ps)
  BY DEF ListFits, Grows

LEMMA ScreenFitsOn ==
    ASSUME NEW l, NEW s, NEW p, NEW ty, NEW ds, NEW pk, NEW ts, NEW us, NEW os, NEW ps,
           Grows(ts, us), Grows(os, ps), ScreenFits(l, s, p, ty, ds, pk, ts, os)
    PROVE  ScreenFits(l, s, p, ty, ds, pk, us, ps)
<1>1. TypedFits(ty, us)
  BY DEF ScreenFits, TypedFits, Grows
<1> QED
  BY <1>1, SheetFitsOn, OrderFitsOn, ListFitsOn DEF ScreenFits

LEMMA BringsOn ==
    ASSUME NEW c, NEW ts, NEW us, NEW os, NEW ps, Grows(ts, us), Grows(os, ps), Brings(c, ts, os)
    PROVE  Brings(c, us, ps)
<1>1. DOMAIN os \subseteq DOMAIN ps
  BY DEF Grows
<1> QED
  BY <1>1, SheetFitsOn, OrderFitsOn, ListFitsOn DEF Brings

LEMMA CallFitsOn ==
    ASSUME NEW c, NEW ts, NEW us, NEW os, NEW ps, Grows(ts, us), Grows(os, ps),
           CallFits(c, ts, os), c.phase = "sent" => Leans(c, us, ps)
    PROVE  CallFits(c, us, ps)
<1>1. DOMAIN ts \subseteq DOMAIN us /\ DOMAIN os \subseteq DOMAIN ps
  BY DEF Grows
<1> QED
  BY <1>1, BringsOn DEF CallFits

\* A request that may be sent.
Sendable(c) == Lawful(c, Request, takes, orders)

LEMMA LawfulOn ==
    ASSUME NEW c, Sendable(c), Request \subseteq Request',
           Grows(takes, takes'), Grows(orders, orders')
    PROVE  Lawful(c, Request', takes', orders')
<1>1. CASE c.req.op \in Plain
  BY <1>1 DEF Lawful
<1>2. CASE c.req.op \notin Plain
  <2>1. c.req \in Request /\ Written(c.req, takes, orders)
    BY <1>2 DEF Sendable, Lawful
  <2>2. Written(c.req, takes', orders')
    BY <2>1, AskedFor DEF Written, Grows
  <2> QED
    BY <2>1, <2>2 DEF Lawful
<1> QED
  BY <1>1, <1>2

LEMMA Shorter ==
    ASSUME NEW cs, NEW R, NEW ts, NEW os, CallsFit(cs, R, ts, os), Unhurried(cs), NEW j \in DOMAIN cs
    PROVE  CallsFit(RemoveAt(cs, j), R, ts, os) /\ Unhurried(RemoveAt(cs, j))
<1>1. PICK T : cs \in Seq(T)
  BY DEF CallsFit
<1>2. CallsFit(RemoveAt(cs, j), R, ts, os)
  BY <1>1, Rest DEF CallsFit
<1>3. Unhurried(RemoveAt(cs, j))
  <2> DEFINE Old(m) == IF m < j THEN m ELSE m + 1
  <2>1. Len(cs) \in Nat /\ DOMAIN cs = 1..Len(cs) /\ j \in Int
    BY <1>1
  <2>2. /\ DOMAIN RemoveAt(cs, j) = 1..(Len(cs) - 1)
        /\ \A m \in 1..(Len(cs) - 1) : RemoveAt(cs, j)[m] = cs[Old(m)]
    BY <1>1, Removed
  <2>3. \A m \in 1..(Len(cs) - 1) : Old(m) \in DOMAIN cs
    BY <2>1
  <2>4. \A m, n \in 1..(Len(cs) - 1) : Old(m) = Old(n) => m = n
    BY <2>1
  <2> HIDE DEF Old
  <2> QED
    BY <2>2, <2>3, <2>4 DEF Unhurried
<1> QED
  BY <1>2, <1>3

LEMMA Replaced ==
    ASSUME NEW cs, NEW R, NEW ts, NEW os, NEW j \in DOMAIN cs, NEW d,
           CallsFit(cs, R, ts, os), Unhurried(cs), CallFits(d, ts, os), Lawful(d, R, ts, os),
           d.req = cs[j].req, d.calm = cs[j].calm
    PROVE  /\ CallsFit([cs EXCEPT ![j] = d], R, ts, os)
           /\ Unhurried([cs EXCEPT ![j] = d])
<1>1. PICK T : cs \in Seq(T)
  BY DEF CallsFit
<1>2. [cs EXCEPT ![j] = d] \in Seq(T \cup {d})
  <2>1. cs \in Seq(T \cup {d})
    BY <1>1, SeqMonotonic
  <2> QED
    BY <2>1
<1>3. /\ DOMAIN [cs EXCEPT ![j] = d] = DOMAIN cs
      /\ \A k \in DOMAIN cs : [cs EXCEPT ![j] = d][k] = IF k = j THEN d ELSE cs[k]
  OBVIOUS
<1> DEFINE ds == [cs EXCEPT ![j] = d]
<1> HIDE DEF ds
<1>4. CallsFit(ds, R, ts, os)
  BY <1>2, <1>3 DEF CallsFit, ds
<1>5. Unhurried(ds)
  BY <1>3 DEF Unhurried, ds
<1> QED
  BY <1>4, <1>5 DEF ds

LEMMA Longer ==
    ASSUME NEW cs, NEW ds, NEW R, NEW ts, NEW os, CallsFit(cs, R, ts, os), Unhurried(cs),
           CallsFit(ds, R, ts, os),
           \A n \in DOMAIN ds : ~ds[n].calm /\ ds[n].req.op \notin {"receive", "count"}
    PROVE  CallsFit(cs \o ds, R, ts, os) /\ Unhurried(cs \o ds)
<1>1. (\E T : cs \in Seq(T)) /\ (\E T : ds \in Seq(T))
  BY DEF CallsFit
<1>2. /\ \E T : cs \o ds \in Seq(T)
      /\ \A m \in DOMAIN (cs \o ds) :
           \/ m \in DOMAIN cs /\ (cs \o ds)[m] = cs[m]
           \/ \E n \in DOMAIN ds : (cs \o ds)[m] = ds[n]
  BY <1>1, Behind
<1>3. CallsFit(cs \o ds, R, ts, os)
  BY <1>2 DEF CallsFit
<1>4. Unhurried(cs \o ds)
  <2> DEFINE es == cs \o ds
  <2> HIDE DEF es
  <2> SUFFICES ASSUME NEW j \in DOMAIN es, NEW k \in DOMAIN es, es[j].calm
               PROVE  /\ es[j].req.op = "receive" /\ es[k].req.op = "receive" => j = k
                      /\ es[j].req.op = "complete_take" => es[k].req.op # "count"
    BY DEF Unhurried, es
  <2>1. j \in DOMAIN cs /\ es[j] = cs[j]
    BY <1>2 DEF es
  <2>2. CASE k \in DOMAIN cs /\ es[k] = cs[k]
    BY <2>1, <2>2 DEF Unhurried
  <2>3. CASE \E n \in DOMAIN ds : es[k] = ds[n]
    BY <2>3
  <2> QED
    BY <1>2, <2>2, <2>3 DEF es
<1> QED
  BY <1>3, <1>4

-----------------------------------------------------------------------------
(* Copies stay as fresh as they are while what will read them again stays, *)
(* and no new request makes them old.                                      *)

\* Nothing that says more of the copies than d did.
Same(c, d) ==
    /\ d.req = c.req /\ d.phase = c.phase /\ d.heard = c.heard
    /\ c.phase = "answered" => d.ok = c.ok /\ d.data = c.data

\* A request that makes no copy old.
Silent(c) == c.phase = "sent" /\ c.req.op \notin {"submit_order", "count"}

LEMMA SameRefreshes ==
    ASSUME NEW c, NEW d, Same(c, d)
    PROVE  /\ RefreshesList(d) <=> RefreshesList(c)
           /\ \A t : RefreshesSheet(d, t) <=> RefreshesSheet(c, t)
           /\ \A o : RefreshesOrder(d, o) <=> RefreshesOrder(c, o)
           /\ \A o : SubmitsLater(d, o) <=> SubmitsLater(c, o)
           /\ \A x : OnItsWay(d, x) <=> OnItsWay(c, x)
  BY DEF Same, RefreshesList, RefreshesSheet, RefreshesOrder, SubmitsLater, OnItsWay

LEMMA SilentIs ==
    ASSUME NEW c, Silent(c)
    PROVE  (\A o : ~SubmitsLater(c, o)) /\ (\A x : ~OnItsWay(c, x))
  BY DEF Silent, SubmitsLater, OnItsWay

LEMMA ListFreshOn ==
    ASSUME NEW l, NEW snap, NEW cs, NEW ds, NEW ex, NEW ex1, ListFresh(l, snap, cs, ex), ex \subseteq ex1,
           \A k \in DOMAIN cs : RefreshesList(cs[k]) => \E m \in DOMAIN ds : RefreshesList(ds[m])
    PROVE  ListFresh(l, snap, ds, ex1)
  BY DEF ListFresh

LEMMA SheetFreshOn ==
    ASSUME NEW s, NEW ts, NEW cs, NEW ds, NEW ex, NEW ex1, SheetFresh(s, ts, cs, ex), "sheet" \in ex => "sheet" \in ex1,
           \A k \in DOMAIN cs : RefreshesSheet(cs[k], s.take) =>
              \E m \in DOMAIN ds : RefreshesSheet(ds[m], s.take)
    PROVE  SheetFresh(s, ts, ds, ex1)
  BY DEF SheetFresh

LEMMA OrderFreshOn ==
    ASSUME NEW p, NEW os, NEW cs, NEW ds, NEW ex, NEW ex1, OrderFresh(p, os, cs, ex), "po" \in ex => "po" \in ex1,
           \A k \in DOMAIN cs : RefreshesOrder(cs[k], p.order) =>
              \E m \in DOMAIN ds : RefreshesOrder(ds[m], p.order),
           \A m \in DOMAIN ds : SubmitsLater(ds[m], p.order) =>
              \E k \in DOMAIN cs : SubmitsLater(cs[k], p.order)
    PROVE  OrderFresh(p, os, ds, ex1)
  BY DEF OrderFresh

LEMMA FieldsFreshOn ==
    ASSUME NEW ty, NEW ts, NEW cs, NEW ds, NEW ex, NEW ex1, FieldsFresh(ty, ts, cs, ex), "typed" \in ex => "typed" \in ex1,
           \A x \in DOMAIN ty : \A k \in DOMAIN cs :
              OnItsWay(cs[k], x) => \E m \in DOMAIN ds : OnItsWay(ds[m], x),
           \A x \in DOMAIN ty : \A m \in DOMAIN ds :
              OnItsWay(ds[m], x) => \E k \in DOMAIN cs : OnItsWay(cs[k], x) /\ ds[m].req = cs[k].req
    PROVE  FieldsFresh(ty, ts, ds, ex1)
<1>1. CASE "typed" \in ex
  BY <1>1 DEF FieldsFresh
<1>2. CASE "typed" \notin ex
  <2>1. ASSUME NEW x \in DOMAIN ty
        PROVE  /\ \/ ts[x[1]].lines[x[2]].done /\ ts[x[1]].lines[x[2]].counted = ty[x]
                  \/ \E m \in DOMAIN ds : OnItsWay(ds[m], x)
               /\ \A m \in DOMAIN ds : OnItsWay(ds[m], x) => ds[m].req.n = ty[x]
    <3>1. /\ \/ ts[x[1]].lines[x[2]].done /\ ts[x[1]].lines[x[2]].counted = ty[x]
             \/ \E k \in DOMAIN cs : OnItsWay(cs[k], x)
          /\ \A k \in DOMAIN cs : OnItsWay(cs[k], x) => cs[k].req.n = ty[x]
      BY <1>2, <2>1 DEF FieldsFresh
    <3>2. \A m \in DOMAIN ds : OnItsWay(ds[m], x) => ds[m].req.n = ty[x]
      BY <2>1, <3>1
    <3> QED
      BY <2>1, <3>1, <3>2
  <2> QED
    BY <2>1 DEF FieldsFresh
<1> QED
  BY <1>1, <1>2

\* All together: each request is still there, and a new one is silent.
LEMMA CopiesOn ==
    ASSUME NEW l, NEW s, NEW p, NEW ty, NEW cs, NEW ds, NEW ex, NEW ex1, NEW snap, NEW ts, NEW os,
           Copies(l, s, p, ty, cs, ex, snap, ts, os), ex \subseteq ex1,
           \A k \in DOMAIN cs : \E m \in DOMAIN ds : Same(cs[k], ds[m]),
           \A m \in DOMAIN ds : (\E k \in DOMAIN cs : Same(cs[k], ds[m])) \/ Silent(ds[m])
    PROVE  Copies(l, s, p, ty, ds, ex1, snap, ts, os)
<1>1. ListFresh(l, snap, ds, ex1)
  BY SameRefreshes, ListFreshOn DEF Copies
<1>2. SheetFresh(s, ts, ds, ex1)
  BY SameRefreshes, SheetFreshOn DEF Copies
<1>3. OrderFresh(p, os, ds, ex1)
  <2>1. \A k \in DOMAIN cs : RefreshesOrder(cs[k], p.order) =>
              \E m \in DOMAIN ds : RefreshesOrder(ds[m], p.order)
    BY SameRefreshes
  <2>2. \A m \in DOMAIN ds : SubmitsLater(ds[m], p.order) =>
              \E k \in DOMAIN cs : SubmitsLater(cs[k], p.order)
    BY SameRefreshes, SilentIs
  <2> QED
    BY <2>1, <2>2, OrderFreshOn DEF Copies
<1>4. FieldsFresh(ty, ts, ds, ex1)
  <2>1. \A x \in DOMAIN ty : \A k \in DOMAIN cs :
              OnItsWay(cs[k], x) => \E m \in DOMAIN ds : OnItsWay(ds[m], x)
    BY SameRefreshes
  <2>2. \A x \in DOMAIN ty : \A m \in DOMAIN ds :
              OnItsWay(ds[m], x) => \E k \in DOMAIN cs : OnItsWay(cs[k], x) /\ ds[m].req = cs[k].req
    <3> SUFFICES ASSUME NEW x \in DOMAIN ty, NEW m \in DOMAIN ds, OnItsWay(ds[m], x)
                 PROVE  \E k \in DOMAIN cs : OnItsWay(cs[k], x) /\ ds[m].req = cs[k].req
      OBVIOUS
    <3>1. ~Silent(ds[m])
      BY SilentIs
    <3>2. PICK k \in DOMAIN cs : Same(cs[k], ds[m])
      BY <3>1
    <3> QED
      BY <3>2, SameRefreshes DEF Same
  <2> QED
    BY <2>1, <2>2, FieldsFreshOn DEF Copies
<1> QED
  BY <1>1, <1>2, <1>3, <1>4 DEF Copies

-----------------------------------------------------------------------------
(* Sending a request.                                                      *)

LEMMA HurriedIs ==
    ASSUME NEW r, NEW c, NEW ts, NEW os, CallFits(c, ts, os)
    PROVE  /\ CallFits(Hurried(r, c), ts, os)
           /\ Same(c, Hurried(r, c))
           /\ Hurried(r, c).calm => c.calm
           /\ r.op = "receive" /\ c.req.op = "receive" => ~Hurried(r, c).calm
           /\ r.op = "count" /\ c.req.op = "complete_take" => ~Hurried(r, c).calm
<1>1. CASE Hurried(r, c) = c
  <2>1. ~(r.op = "receive" /\ c.req.op = "receive") \/ ~c.calm
    BY <1>1 DEF Hurried, CallFits
  <2>2. ~(r.op = "count" /\ c.req.op = "complete_take") \/ ~c.calm
    BY <1>1 DEF Hurried, CallFits
  <2> QED
    BY <1>1, <2>1, <2>2 DEF Same
<1>2. CASE Hurried(r, c) # c
  <2> DEFINE h == [c EXCEPT !.calm = FALSE]
  <2>1. Hurried(r, c) = h
    BY <1>2 DEF Hurried
  <2>2. /\ DOMAIN h = DOMAIN c /\ ~h.calm
        /\ h.req = c.req /\ h.at = c.at /\ h.phase = c.phase /\ h.heard = c.heard /\ h.seen = c.seen
    BY DEF CallFits
  <2>3. c.phase = "answered" => h.ok = c.ok /\ h.data = c.data
    BY DEF CallFits, Brings
  <2> HIDE DEF h
  <2>4. CallFits(h, ts, os)
    <3>1. c.phase = "answered" => Brings(h, ts, os)
      BY <2>2, <2>3 DEF CallFits, Brings
    <3>2. Leans(h, ts, os)
      BY <2>2 DEF Leans
    <3> QED
      BY <2>2, <3>1, <3>2 DEF CallFits
  <2> QED
    BY <2>1, <2>2, <2>3, <2>4 DEF Same
<1> QED
  BY <1>1, <1>2

\* The requests under way with c behind them.
Sending(cs, c) == Append([j \in DOMAIN cs |-> Hurried(c.req, cs[j])], c)

LEMMA SendingIs ==
    ASSUME NEW cs, NEW c, \E T : cs \in Seq(T)
    PROVE  /\ \E T : Sending(cs, c) \in Seq(T)
           /\ Len(cs) \in Nat /\ DOMAIN cs = 1..Len(cs)
           /\ DOMAIN Sending(cs, c) = 1..(Len(cs) + 1)
           /\ \A k \in DOMAIN cs : Sending(cs, c)[k] = Hurried(c.req, cs[k])
           /\ Sending(cs, c)[Len(cs) + 1] = c
<1>1. PICK T : cs \in Seq(T)
  OBVIOUS
<1> DEFINE hs == [j \in DOMAIN cs |-> Hurried(c.req, cs[j])]
           S == {Hurried(c.req, cs[j]) : j \in DOMAIN cs} \cup {c}
<1>2. Len(cs) \in Nat /\ DOMAIN cs = 1..Len(cs)
  BY <1>1
<1>3. hs \in [1..Len(cs) -> S]
  BY <1>2
<1>4. DOMAIN hs = 1..Len(cs) /\ \A k \in DOMAIN cs : hs[k] = Hurried(c.req, cs[k])
  BY <1>2
<1>5. c \in S
  OBVIOUS
<1> HIDE DEF hs, S
<1>6. hs \in Seq(S) /\ Len(hs) = Len(cs)
  BY <1>2, <1>3
<1>7. /\ Append(hs, c) \in Seq(S)
      /\ DOMAIN Append(hs, c) = 1..(Len(cs) + 1)
      /\ \A k \in 1..Len(cs) : Append(hs, c)[k] = hs[k]
      /\ Append(hs, c)[Len(cs) + 1] = c
  BY <1>2, <1>5, <1>6
<1> QED
  BY <1>2, <1>4, <1>7 DEF Sending, hs

LEMMA Sent ==
    ASSUME NEW cs, NEW c, NEW R, NEW ts, NEW os, CallsFit(cs, R, ts, os), Unhurried(cs),
           CallFits(c, ts, os), Lawful(c, R, ts, os),
           c.calm => cs = <<>> \/ c.req.op \notin {"receive", "complete_take"}
    PROVE  CallsFit(Sending(cs, c), R, ts, os) /\ Unhurried(Sending(cs, c))
<1> DEFINE ds == Sending(cs, c)
<1>1. \E T : cs \in Seq(T)
  BY DEF CallsFit
<1>2. /\ \E T : ds \in Seq(T)
      /\ Len(cs) \in Nat /\ DOMAIN cs = 1..Len(cs)
      /\ DOMAIN ds = 1..(Len(cs) + 1)
      /\ \A k \in DOMAIN cs : ds[k] = Hurried(c.req, cs[k])
      /\ ds[Len(cs) + 1] = c
  BY <1>1, SendingIs
<1> HIDE DEF ds
<1>3. \A k \in DOMAIN ds : k \in DOMAIN cs \/ (k = Len(cs) + 1 /\ k \notin DOMAIN cs)
  BY <1>2
<1>4. \A k \in DOMAIN cs : CallFits(ds[k], ts, os) /\ Same(cs[k], ds[k]) /\ (ds[k].calm => cs[k].calm)
  BY <1>2, HurriedIs DEF CallsFit
<1>5. CallsFit(ds, R, ts, os)
  <2>1. \A k \in DOMAIN cs : Lawful(ds[k], R, ts, os)
    BY <1>4 DEF CallsFit, Lawful, Same
  <2> QED
    BY <1>2, <1>3, <1>4, <2>1 DEF CallsFit
<1>6. Unhurried(ds)
  <2> SUFFICES ASSUME NEW j \in DOMAIN ds, NEW k \in DOMAIN ds, ds[j].calm
               PROVE  /\ ds[j].req.op = "receive" /\ ds[k].req.op = "receive" => j = k
                      /\ ds[j].req.op = "complete_take" => ds[k].req.op # "count"
    BY DEF Unhurried
  <2>1. CASE j \in DOMAIN cs /\ k \in DOMAIN cs
    BY <1>4, <2>1 DEF Unhurried, Same
  <2>2. CASE j \in DOMAIN cs /\ k = Len(cs) + 1
    <3>1. ds[k] = c /\ ds[j] = Hurried(c.req, cs[j]) /\ ds[j].req = cs[j].req
      BY <1>2, <1>4, <2>2 DEF Same
    <3>2. CallFits(cs[j], ts, os) /\ j # k
      BY <1>2, <2>2 DEF CallsFit
    <3>3. /\ c.req.op = "receive" /\ cs[j].req.op = "receive" => ~Hurried(c.req, cs[j]).calm
          /\ c.req.op = "count" /\ cs[j].req.op = "complete_take" => ~Hurried(c.req, cs[j]).calm
      BY <3>2, HurriedIs
    <3> QED
      BY <3>1, <3>3
  <2>3. CASE j = Len(cs) + 1 /\ k \in DOMAIN cs
    <3>1. cs # <<>> /\ ds[j] = c
      BY <1>2, <2>3
    <3> QED
      BY <3>1
  <2>4. CASE j = Len(cs) + 1 /\ k = Len(cs) + 1
    BY <2>4
  <2> QED
    BY <1>3, <2>1, <2>2, <2>3, <2>4
<1> QED
  BY <1>5, <1>6 DEF ds

-----------------------------------------------------------------------------
(* The screen alone.                                                       *)

\* What a step that leaves the server alone leaves of it.
LEMMA Settles ==
    ASSUME PInv, UNCHANGED store
    PROVE  /\ SInv' /\ \E T : batches' \in Seq(T)
           /\ Snapshot' = Snapshot /\ Request' = Request
           /\ takes' = takes /\ orders' = orders /\ batches' = batches
<1>1. takes' = takes /\ orders' = orders /\ batches' = batches
  BY DEF store, paperVars, stockVars
<1>2. SInv'
  BY NextKeeps DEF PInv
<1>3. Request' = Request
  BY <1>1 DEF Request
<1>4. Snapshot' = Snapshot
  BY DEF store, stockVars, kitchenVars, menuVars, paperVars, Snapshot, Row, Active
<1>5. \E T : batches' \in Seq(T)
  BY <1>1 DEF PInv
<1> QED
  BY <1>1, <1>2, <1>3, <1>4, <1>5

\* The invariant after a step that leaves the server alone.
LEMMA Settled ==
    ASSUME PInv, UNCHANGED <<store, visit>>,
           CallsFit(calls', Request, takes, orders), Unhurried(calls'),
           ScreenFits(list', sheet', po', typed', dialogs', picked', takes, orders),
           Copies(list', sheet', po', typed', calls', excuse', Snapshot, takes, orders),
           CardFits(card')
    PROVE  PInv'
<1>1. /\ SInv' /\ \E T : batches' \in Seq(T)
      /\ Snapshot' = Snapshot /\ Request' = Request
      /\ takes' = takes /\ orders' = orders
  BY Settles
<1>2. visit' \in Visits
  BY DEF PInv
<1>3. CallsFit(calls', Request', takes', orders')
  BY <1>1
<1>4. ScreenFits(list', sheet', po', typed', dialogs', picked', takes', orders')
  BY <1>1
<1>5. Copies(list', sheet', po', typed', calls', excuse', Snapshot', takes', orders')
  BY <1>1
<1> QED
  BY <1>1, <1>2, <1>3, <1>4, <1>5 DEF PInv

\* The recipe dialog when neither it nor its recipe is touched.
LEMMA CardLeft ==
    ASSUME PInv, card' = card
    PROVE  CardFits(card')
  BY DEF PInv

\* A request that makes no copy old.
LEMMA AskKeeps ==
    ASSUME PInv, NEW c, Ask(c), Silent(c),
           CallFits(c, takes, orders), Sendable(c),
           c.calm => calls = <<>> \/ c.req.op \notin {"receive", "complete_take"},
           typed' = typed, DialogsFit(dialogs'), picked' \in Items \cup {"none"},
           CardFits(card')
    PROVE  PInv'
<1>1. /\ calls' = Sending(calls, c) /\ excuse \subseteq excuse'
      /\ UNCHANGED <<store, visit, list, sheet, po>>
  BY DEF Ask, Sending
<1>2. CallsFit(calls', Request, takes, orders) /\ Unhurried(calls')
  BY <1>1, Sent DEF PInv, Sendable
<1>3. ScreenFits(list', sheet', po', typed', dialogs', picked', takes, orders)
  BY <1>1 DEF PInv, ScreenFits
<1>4. Copies(list', sheet', po', typed', calls', excuse', Snapshot, takes, orders)
  <2>1. /\ Len(calls) \in Nat /\ DOMAIN calls = 1..Len(calls)
        /\ DOMAIN calls' = 1..(Len(calls) + 1)
        /\ \A k \in DOMAIN calls : calls'[k] = Hurried(c.req, calls[k])
        /\ calls'[Len(calls) + 1] = c
    BY <1>1, SendingIs DEF PInv, CallsFit
  <2>2. \A k \in DOMAIN calls : Same(calls[k], calls'[k])
    <3> SUFFICES ASSUME NEW k \in DOMAIN calls
                 PROVE  Same(calls[k], calls'[k])
      OBVIOUS
    <3>1. CallFits(calls[k], takes, orders)
      BY DEF PInv, CallsFit
    <3>2. Same(calls[k], Hurried(c.req, calls[k]))
      BY <3>1, HurriedIs
    <3> QED
      BY <2>1, <3>2
  <2>3. \A k \in DOMAIN calls : \E m \in DOMAIN calls' : Same(calls[k], calls'[m])
    BY <2>1, <2>2
  <2>4. \A m \in DOMAIN calls' : (\E k \in DOMAIN calls : Same(calls[k], calls'[m])) \/ Silent(calls'[m])
    BY <2>1, <2>2
  <2>5. Copies(list, sheet, po, typed, calls, excuse, Snapshot, takes, orders)
    BY DEF PInv
  <2>6. Copies(list, sheet, po, typed, calls', excuse', Snapshot, takes, orders)
    BY <1>1, <2>3, <2>4, <2>5, CopiesOn
  <2> QED
    BY <1>1, <2>6
<1> QED
  BY <1>1, <1>2, <1>3, <1>4, Settled

-----------------------------------------------------------------------------
(* What the buttons ask.                                                   *)

\* A request with nothing calm about it.
LEMMA Called ==
    ASSUME NEW r, NEW at
    PROVE  /\ Call(r, at).req = r /\ Call(r, at).at = at /\ Call(r, at).phase = "sent"
           /\ Call(r, at).heard /\ ~Call(r, at).calm
           /\ {"req", "at", "phase", "heard", "calm", "seen"} \subseteq DOMAIN Call(r, at)
  BY DEF Call

\* A request that is about nothing the screen has to know.
LEMMA ButtonKeeps ==
    ASSUME PInv, NEW r, NEW at, Ask(Call(r, at)),
           r.op \notin {"submit_order", "count"},
           r.op = "get_take" => r.take \in DOMAIN takes,
           r.op = "get_order" => r.order \in DOMAIN orders,
           r.op \in {"price", "get_recipe"} => r.item \in Items,
           r.op = "get_recipe" => at.item = r.item,
           r.op \in {"batches", "batch", "expiry"} =>
              at.part \in {"batches", "expiry"} /\ at.item \in Items,
           r.op \notin Plain => r \in Request /\ Written(r, takes, orders),
           typed' = typed, DialogsFit(dialogs'), picked' \in Items \cup {"none"},
           CardFits(card')
    PROVE  PInv'
<1> DEFINE c == Call(r, at)
<1>1. /\ c.req = r /\ c.at = at /\ c.phase = "sent" /\ c.heard /\ ~c.calm
      /\ {"req", "at", "phase", "heard", "calm", "seen"} \subseteq DOMAIN c
  BY Called
<1> HIDE DEF c
<1>2. Silent(c)
  BY <1>1 DEF Silent
<1>3. CallFits(c, takes, orders)
  BY <1>1 DEF CallFits, Leans
<1>4. Sendable(c)
  BY <1>1 DEF Sendable, Lawful
<1>5. Ask(c)
  BY DEF c
<1> QED
  BY <1>1, <1>2, <1>3, <1>4, <1>5, AskKeeps

\* The same, with the rest of the screen left alone.
LEMMA PressKeeps ==
    ASSUME PInv, NEW r, NEW at, Ask(Call(r, at)), UNCHANGED <<typed, dialogs, card, picked>>,
           busy \subseteq busy',
           r.op \notin {"submit_order", "count"},
           r.op = "get_take" => r.take \in DOMAIN takes,
           r.op = "get_order" => r.order \in DOMAIN orders,
           r.op = "price" => r.item \in Items,
           r.op # "get_recipe",
           r.op \in {"batches", "batch", "expiry"} =>
              at.part \in {"batches", "expiry"} /\ at.item \in Items,
           r.op \notin Plain => r \in Request /\ Written(r, takes, orders)
    PROVE  PInv'
<1>1. DialogsFit(dialogs') /\ picked' \in Items \cup {"none"}
  BY DEF PInv, ScreenFits
<1>2. excuse \subseteq excuse'
  BY DEF Ask
<1>3. CardFits(card')
  BY <1>2, CardLeft
<1> QED
  BY <1>1, <1>3, ButtonKeeps

\* A dialog opens on an item, or closes.
LEMMA OpenDialogKeeps ==
    ASSUME PInv, NEW kind, NEW i, OpenDialog(kind, i), i \in Items \cup {"new", "none"},
           kind \in {"batches", "production"} => i \in Items \cup {"none"},
           kind = "recipe" => i = "none"
    PROVE  PInv'
<1>1. /\ dialogs' = [dialogs EXCEPT ![kind] = i]
      /\ UNCHANGED <<store, visit, calls, list, sheet, typed, po, card, picked, busy, excuse>>
  BY DEF OpenDialog, wire
<1>2. DialogsFit(dialogs') /\ dialogs'["recipe"] \in {dialogs["recipe"], "none"}
  BY <1>1 DEF PInv, ScreenFits, DialogsFit
<1>3. ScreenFits(list', sheet', po', typed', dialogs', picked', takes, orders)
  BY <1>1, <1>2 DEF PInv, ScreenFits
<1>4. CardFits(card')
  BY <1>1, <1>2, CardLeft
<1>5. Copies(list', sheet', po', typed', calls', excuse', Snapshot, takes, orders)
  BY <1>1 DEF PInv
<1>6. CallsFit(calls', Request, takes, orders) /\ Unhurried(calls')
  BY <1>1 DEF PInv
<1> QED
  BY <1>1, <1>3, <1>4, <1>5, <1>6, Settled

\* What is on the screen.
LEMMA OnScreen ==
    ASSUME PInv
    PROVE  /\ Listed \subseteq Items /\ Active \subseteq Items /\ Amounts \subseteq Nat \ {0}
           /\ OnTop("item") => dialogs["item"] \in Items \cup {"new"}
           /\ OnTop("recipe") => dialogs["recipe"] \in Items
           /\ OnTop("batches") => dialogs["batches"] \in Items
           /\ OnTop("production") => dialogs["production"] \in Items
           /\ DialogsFit(dialogs) /\ picked \in Items \cup {"none"}
<1>1. Listed \subseteq Items
  BY DEF PInv, ScreenFits, ListFits, Listed
<1>2. \A kind : OnTop(kind) => dialogs[kind] # "none"
  BY DEF OnTop, KindsOpen
<1>3. DialogsFit(dialogs) /\ picked \in Items \cup {"none"}
  BY DEF PInv, ScreenFits
<1> QED
  BY <1>1, <1>2, <1>3, AmountsAssumption DEF Active, DialogsFit

LEMMA HeaderKeeps ==
    ASSUME PInv, Header
    PROVE  PInv'
<1>1. ASSUME NEW i \in Active, NEW n \in Amounts \cup {0}, HandleImport(i, n)
      PROVE  PInv'
  <2> DEFINE r == [op |-> "import", item |-> i, n |-> n]
  <2>1. Ask(Call(r, Somewhere)) /\ UNCHANGED <<typed, dialogs, card, picked>> /\ busy \subseteq busy'
    BY <1>1 DEF HandleImport, PressBusy, Waits, localVars
  <2>2. r \in Request /\ Written(r, takes, orders)
    <3>1. i \in Items /\ n \in Int
      BY OnScreen
    <3> QED
      BY <3>1 DEF Request, Written
  <2>3. r.op = "import"
    OBVIOUS
  <2> HIDE DEF r
  <2> QED
    BY <2>1, <2>2, <2>3, PressKeeps
<1>2. CASE OpenDialog("item", "new")
  BY <1>2, OpenDialogKeeps
<1> QED
  BY <1>1, <1>2 DEF Header

-----------------------------------------------------------------------------
(* The tabs of items, ingredients and products in the works.              *)

LEMMA DeleteKeeps ==
    ASSUME PInv, NEW from, from \subseteq Items, DeleteSelected(from)
    PROVE  PInv'
<1>1. PICK S \in SUBSET from : BulkDelete(S)
  BY DEF DeleteSelected
<1> DEFINE r == [op |-> "delete", items |-> S]
<1>2. Ask(Call(r, Somewhere)) /\ UNCHANGED <<typed, dialogs, card, picked>> /\ busy \subseteq busy'
  BY <1>1 DEF BulkDelete, PressBusy, Waits, localVars
<1>3. r \in Request /\ Written(r, takes, orders) /\ r.op = "delete"
  BY <1>1 DEF Request, Written
<1> HIDE DEF r
<1> QED
  BY <1>2, <1>3, PressKeeps

\* Batches of an item are asked for by the dialog and by the expiry tab.
LEMMA OpenBatchesKeeps ==
    ASSUME PInv, NEW i \in Items, OpenBatches(i) \/ OpenExpiryItem(i)
    PROVE  PInv'
<1> DEFINE r == [op |-> "batches", item |-> i]
<1>1. r.op = "batches" /\ r.op \in Plain
  BY DEF Plain
<1>2. CASE OpenBatches(i)
  <2> DEFINE at == At("batches", i)
  <2>1. /\ Ask(Call(r, at)) /\ dialogs' = [dialogs EXCEPT !["batches"] = i]
        /\ UNCHANGED <<typed, card, picked>> /\ busy \subseteq busy' /\ excuse \subseteq excuse'
    BY <1>2 DEF OpenBatches, GetBatches, Waits, Ask
  <2>2. at.part = "batches" /\ at.item = i
    BY DEF At
  <2>3. DialogsFit(dialogs') /\ dialogs'["recipe"] = dialogs["recipe"]
    BY <2>1, OnScreen DEF DialogsFit
  <2>4. CardFits(card')
    BY <2>1, <2>3, CardLeft
  <2>5. picked' \in Items \cup {"none"}
    BY <2>1, OnScreen
  <2> HIDE DEF r, at
  <2> QED
    BY <1>1, <2>1, <2>2, <2>3, <2>4, <2>5, ButtonKeeps
<1>3. CASE OpenExpiryItem(i)
  <2> DEFINE at == At("expiry", i)
  <2>1. /\ Ask(Call(r, at)) /\ picked' = i
        /\ UNCHANGED <<typed, dialogs, card>> /\ busy \subseteq busy' /\ excuse \subseteq excuse'
    BY <1>3 DEF OpenExpiryItem, GetBatches, Waits, Ask
  <2>2. at.part = "expiry" /\ at.item = i
    BY DEF At
  <2>3. DialogsFit(dialogs')
    BY <2>1, OnScreen
  <2>4. CardFits(card')
    BY <2>1, CardLeft
  <2> HIDE DEF r, at
  <2> QED
    BY <1>1, <2>1, <2>2, <2>3, <2>4, ButtonKeeps
<1> QED
  BY <1>2, <1>3

LEMMA BatchButtonsKeep ==
    ASSUME PInv, NEW part \in {"batches", "expiry"}, NEW i \in Items, BatchButtons(part, i)
    PROVE  PInv'
<1> DEFINE at == At(part, i)
<1>1. at.part = part /\ at.item = i
  BY DEF At
<1>2. ASSUME NEW n \in Amounts, NEW e \in Dates,
             Press([op |-> "batch", item |-> i, n |-> n, expiry |-> e], at)
      PROVE  PInv'
  <2> DEFINE r == [op |-> "batch", item |-> i, n |-> n, expiry |-> e]
  <2>1. Ask(Call(r, at)) /\ UNCHANGED <<typed, dialogs, card, picked>> /\ busy \subseteq busy'
    BY <1>2 DEF Press, localVars
  <2>2. r \in Request /\ Written(r, takes, orders) /\ r.op = "batch"
    BY OnScreen DEF Request, Written
  <2> HIDE DEF r, at
  <2> QED
    BY <1>1, <2>1, <2>2, PressKeeps
<1>3. ASSUME NEW b \in BatchesOf(rows[part]), NEW e \in Dates,
             Press([op |-> "expiry", batch |-> b, expiry |-> e], at)
      PROVE  PInv'
  <2> DEFINE r == [op |-> "expiry", batch |-> b, expiry |-> e]
  <2>1. Ask(Call(r, at)) /\ UNCHANGED <<typed, dialogs, card, picked>> /\ busy \subseteq busy'
    BY <1>3 DEF Press, localVars
  <2>2. r \in Request /\ Written(r, takes, orders) /\ r.op = "expiry"
    <3>1. b \in DOMAIN batches
      BY DEF BatchesOf
    <3> QED
      BY <3>1 DEF Request, Written
  <2> HIDE DEF r, at
  <2> QED
    BY <1>1, <2>1, <2>2, PressKeeps
<1> QED
  BY <1>2, <1>3 DEF BatchButtons

LEMMA StockButtonsKeep ==
    ASSUME PInv, NEW i \in Items, StockButtons(i)
    PROVE  PInv'
<1>1. CASE CommitPrice(i)
  <2> DEFINE r == [op |-> "price", item |-> i]
  <2>1. Ask(Call(r, Somewhere)) /\ UNCHANGED <<typed, dialogs, card, picked>> /\ busy \subseteq busy'
    BY <1>1 DEF CommitPrice, PressBusy, Waits, localVars
  <2>2. r.op = "price" /\ r.item = i /\ r.op \in Plain
    BY DEF Plain
  <2> HIDE DEF r
  <2> QED
    BY <2>1, <2>2, PressKeeps
<1>2. ASSUME NEW n \in Amounts, NEW sign \in {-1, 1}, AdjustTo(i, sign * n)
      PROVE  PInv'
  <2> DEFINE r == [op |-> "adjust", item |-> i, n |-> sign * n]
  <2>1. Ask(Call(r, Somewhere)) /\ UNCHANGED <<typed, dialogs, card, picked>> /\ busy \subseteq busy'
    BY <1>2 DEF AdjustTo, Press, localVars
  <2>2. sign * n \in Int
    BY OnScreen
  <2>3. r \in Request /\ Written(r, takes, orders) /\ r.op = "adjust"
    BY <2>2 DEF Request, Written
  <2> HIDE DEF r
  <2> QED
    BY <2>1, <2>3, PressKeeps
<1>3. CASE OpenDialog("item", i)
  BY <1>3, OpenDialogKeeps
<1>4. CASE OpenBatches(i)
  BY <1>4, OpenBatchesKeeps
<1> QED
  BY <1>1, <1>2, <1>3, <1>4 DEF StockButtons

LEMMA OpenRecipeKeeps ==
    ASSUME PInv, NEW i \in Items, OpenRecipe(i)
    PROVE  PInv'
<1> DEFINE r == [op |-> "get_recipe", item |-> i]
           at == At("recipe", i)
<1>1. /\ Ask(Call(r, at)) /\ dialogs' = [dialogs EXCEPT !["recipe"] = i]
      /\ UNCHANGED <<typed, card, picked>> /\ busy' = busy \cup {"recipe"}
  BY DEF OpenRecipe, Waits
<1>2. at.item = i /\ r.item = i /\ r.op = "get_recipe" /\ r.op \in Plain
  BY DEF At, Plain
<1>3. DialogsFit(dialogs') /\ picked' \in Items \cup {"none"}
  BY <1>1, OnScreen DEF DialogsFit
<1>4. CardFits(card')
  BY <1>1 DEF PInv
<1> HIDE DEF r, at
<1> QED
  BY <1>1, <1>2, <1>3, <1>4, ButtonKeeps

LEMMA ItemsTabKeeps ==
    ASSUME PInv, ItemsTab \/ IngredientsTab \/ CategoriesTab \/ SuppliersTab
    PROVE  PInv'
<1>1. Products \subseteq Items /\ Listed \cap Ingredients \subseteq Items
  BY OnScreen DEF Products
<1>2. \A from : from \subseteq Items /\ DeleteSelected(from) => PInv'
  BY DeleteKeeps
<1>3. \A i \in Items : StockButtons(i) \/ OpenRecipe(i) \/ OpenDialog("production", i) => PInv'
  BY StockButtonsKeep, OpenRecipeKeeps, OpenDialogKeeps
<1>4. \A kind \in {"item", "category", "supplier"} : OpenDialog(kind, "new") => PInv'
  BY OpenDialogKeeps
<1> QED
  BY <1>1, <1>2, <1>3, <1>4 DEF ItemsTab, IngredientsTab, CategoriesTab, SuppliersTab

\* Units are put into processing and taken out on the board and in the dialog.
LEMMA ProductionKeeps ==
    ASSUME PInv, NEW op \in {"process", "complete"}, NEW i \in Items, NEW n \in Amounts, NEW at,
           Ask(Call([op |-> op, item |-> i, n |-> n], at)),
           UNCHANGED <<typed, dialogs, card, picked>>, busy \subseteq busy'
    PROVE  PInv'
<1> DEFINE r == [op |-> op, item |-> i, n |-> n]
<1>1. r \in Request /\ Written(r, takes, orders) /\ r.op \in {"process", "complete"}
  BY OnScreen DEF Request, Written
<1>2. Ask(Call(r, at))
  OBVIOUS
<1> HIDE DEF r
<1> QED
  BY <1>1, <1>2, PressKeeps

LEMMA ProcessingTabKeeps ==
    ASSUME PInv, ProcessingTab
    PROVE  PInv'
<1>1. PICK i \in Products, n \in Amounts : ProcStart(i, n) \/ ProcComplete(i, n)
  BY DEF ProcessingTab
<1>2. i \in Items
  BY OnScreen DEF Products
<1>3. UNCHANGED <<typed, dialogs, card, picked>> /\ busy \subseteq busy'
  BY <1>1 DEF ProcStart, ProcComplete, localVars
<1>4. \E op \in {"process", "complete"} : Ask(Call([op |-> op, item |-> i, n |-> n], At("board", i)))
  BY <1>1 DEF ProcStart, ProcComplete
<1> QED
  BY <1>2, <1>3, <1>4, ProductionKeeps

LEMMA ProductionDialogKeeps ==
    ASSUME PInv, ProductionDialog
    PROVE  PInv'
<1>1. dialogs["production"] \in Items
  BY OnScreen DEF ProductionDialog
<1>2. ASSUME NEW n \in Amounts, NEW op \in {"process", "complete"}, SubmitProcess(op, n)
      PROVE  PInv'
  <2>1. /\ UNCHANGED <<typed, dialogs, card, picked>> /\ busy \subseteq busy'
        /\ Ask(Call([op |-> op, item |-> dialogs["production"], n |-> n],
                    At("dialog", dialogs["production"])))
    BY <1>2 DEF SubmitProcess, PressBusy, Waits, localVars
  <2> QED
    BY <1>1, <2>1, ProductionKeeps
<1>3. CASE CloseDialog("production")
  BY <1>3, OpenDialogKeeps DEF CloseDialog
<1> QED
  BY <1>2, <1>3 DEF ProductionDialog

LEMMA ExpiryTabKeeps ==
    ASSUME PInv, ExpiryTab \/ BatchDialog
    PROVE  PInv'
<1>1. ASSUME NEW i \in Listed, OpenExpiryItem(i)
      PROVE  PInv'
  BY <1>1, OnScreen, OpenBatchesKeeps
<1>2. CASE picked # "none" /\ BatchButtons("expiry", picked)
  BY <1>2, OnScreen, BatchButtonsKeep
<1>3. CASE BatchDialog
  BY <1>3, OnScreen, BatchButtonsKeep, OpenDialogKeeps DEF BatchDialog, CloseDialog
<1> QED
  BY <1>1, <1>2, <1>3 DEF ExpiryTab

\* A stock take is begun, or opened.
-----------------------------------------------------------------------------
(* Lists and dialogs.                                                      *)

LEMMA StockTakeListKeeps ==
    ASSUME PInv, StockTakeList
    PROVE  PInv'
<1>1. CASE StartTake
  <2> DEFINE r == [op |-> "start_take"]
  <2>1. Ask(Call(r, Somewhere)) /\ UNCHANGED <<typed, dialogs, card, picked>> /\ busy \subseteq busy'
    BY <1>1 DEF StartTake, Press, localVars
  <2>2. r \in Request /\ Written(r, takes, orders) /\ r.op = "start_take"
    BY DEF Request, Written
  <2> HIDE DEF r
  <2> QED
    BY <2>1, <2>2, PressKeeps
<1>2. ASSUME NEW t \in DOMAIN list.takes, Press([op |-> "get_take", take |-> t], At("open", "none"))
      PROVE  PInv'
  <2> DEFINE r == [op |-> "get_take", take |-> t]
             at == At("open", "none")
  <2>1. Ask(Call(r, at)) /\ UNCHANGED <<typed, dialogs, card, picked>> /\ busy \subseteq busy'
    BY <1>2 DEF Press, localVars
  <2>2. r.op = "get_take" /\ r.take \in DOMAIN takes /\ r.op \in Plain
    BY DEF PInv, ScreenFits, ListFits, Plain
  <2> HIDE DEF r, at
  <2> QED
    BY <2>1, <2>2, PressKeeps
<1> QED
  BY <1>1, <1>2 DEF StockTakeList

\* A purchase order is opened, or begun.
LEMMA OrderListKeeps ==
    ASSUME PInv, OrderList
    PROVE  PInv'
<1>1. CASE OpenDialog("order", "new")
  BY <1>1, OpenDialogKeeps
<1>2. ASSUME NEW o \in DOMAIN list.orders, Press([op |-> "get_order", order |-> o], Somewhere)
      PROVE  PInv'
  <2> DEFINE r == [op |-> "get_order", order |-> o]
  <2>1. Ask(Call(r, Somewhere)) /\ UNCHANGED <<typed, dialogs, card, picked>> /\ busy \subseteq busy'
    BY <1>2 DEF Press, localVars
  <2>2. r.op = "get_order" /\ r.order \in DOMAIN orders /\ r.op \in Plain
    BY DEF PInv, ScreenFits, ListFits, Plain
  <2> HIDE DEF r
  <2> QED
    BY <2>1, <2>2, PressKeeps
<1> QED
  BY <1>1, <1>2 DEF OrderList

LEMMA OrderDialogKeeps ==
    ASSUME PInv, OrderDialog
    PROVE  PInv'
<1>1. ASSUME NEW S \in (SUBSET Listed) \ {{}}, NEW n \in Amounts,
             CreatePO([i \in Items |-> IF i \in S THEN n ELSE 0])
      PROVE  PInv'
  <2> DEFINE want == [i \in Items |-> IF i \in S THEN n ELSE 0]
             r == [op |-> "create_order", want |-> want]
  <2>1. Ask(Call(r, Somewhere)) /\ UNCHANGED <<typed, dialogs, card, picked>> /\ busy \subseteq busy'
    BY <1>1 DEF CreatePO, Press, localVars
  <2>2. want \in [Items -> Nat] /\ \E i \in Items : want[i] > 0
    <3>1. S \subseteq Items /\ S # {} /\ n \in Nat \ {0}
      BY OnScreen
    <3>2. PICK i \in S : i \in Items
      BY <3>1
    <3>3. want[i] = n /\ n > 0
      BY <3>1, <3>2
    <3> QED
      BY <3>1, <3>2, <3>3
  <2>3. r \in Request /\ Written(r, takes, orders) /\ r.op = "create_order"
    <3> HIDE DEF want
    <3> QED
      BY <2>2 DEF Request, Written
  <2> HIDE DEF r
  <2> QED
    BY <2>1, <2>3, PressKeeps
<1>2. CASE CloseDialog("order")
  BY <1>2, OpenDialogKeeps DEF CloseDialog
<1> QED
  BY <1>1, <1>2 DEF OrderDialog

LEMMA ItemDialogKeeps ==
    ASSUME PInv, ItemDialog
    PROVE  PInv'
<1>1. ASSUME NEW k \in Items, NEW n \in Amounts, Press([op |-> "create", item |-> k, n |-> n], Somewhere)
      PROVE  PInv'
  <2> DEFINE r == [op |-> "create", item |-> k, n |-> n]
  <2>1. Ask(Call(r, Somewhere)) /\ UNCHANGED <<typed, dialogs, card, picked>> /\ busy \subseteq busy'
    BY <1>1 DEF Press, localVars
  <2>2. n \in Int
    BY OnScreen
  <2>3. r \in Request /\ Written(r, takes, orders) /\ r.op = "create"
    BY <2>2 DEF Request, Written
  <2> HIDE DEF r
  <2> QED
    BY <2>1, <2>3, PressKeeps
<1>2. ASSUME NEW i \in Items, NEW kind \in BOOLEAN,
             Press([op |-> "update", item |-> i, staged |-> kind], Somewhere)
      PROVE  PInv'
  <2> DEFINE r == [op |-> "update", item |-> i, staged |-> kind]
  <2>1. Ask(Call(r, Somewhere)) /\ UNCHANGED <<typed, dialogs, card, picked>> /\ busy \subseteq busy'
    BY <1>2 DEF Press, localVars
  <2>2. r \in Request /\ Written(r, takes, orders) /\ r.op = "update"
    BY DEF Request, Written
  <2> HIDE DEF r
  <2> QED
    BY <2>1, <2>2, PressKeeps
<1>3. CASE CloseDialog("item")
  BY <1>3, OpenDialogKeeps DEF CloseDialog
<1>4. ASSUME NEW kind \in BOOLEAN, SaveItem(kind)
      PROVE  PInv'
  <2>1. CASE dialogs["item"] = "new"
    BY <1>1, <1>4, <2>1 DEF SaveItem
  <2>2. CASE dialogs["item"] # "new"
    <3>1. dialogs["item"] \in Items
      BY <2>2, OnScreen DEF ItemDialog
    <3> QED
      BY <1>2, <1>4, <2>2, <3>1 DEF SaveItem
  <2> QED
    BY <2>1, <2>2
<1> QED
  BY <1>3, <1>4 DEF ItemDialog

LEMMA NameDialogKeeps ==
    ASSUME PInv, NEW kind \in {"category", "supplier"}, NameDialog(kind)
    PROVE  PInv'
<1>1. CASE Press([op |-> kind], Somewhere)
  <2> DEFINE r == [op |-> kind]
  <2>1. Ask(Call(r, Somewhere)) /\ UNCHANGED <<typed, dialogs, card, picked>> /\ busy \subseteq busy'
    BY <1>1 DEF Press, localVars
  <2>2. r.op \in Plain /\ r.op \in {"category", "supplier"}
    BY DEF Plain
  <2> HIDE DEF r
  <2> QED
    BY <2>1, <2>2, PressKeeps
<1>2. CASE CloseDialog(kind)
  BY <1>2, OpenDialogKeeps DEF CloseDialog
<1> QED
  BY <1>1, <1>2 DEF NameDialog

\* A recipe is saved: the dialog's own, unless its recipe is still being fetched.
LEMMA SaveRecipeKeeps ==
    ASSUME PInv, NEW made \in BOOLEAN, NEW parts \in [Items -> Nat], OnTop("recipe"),
           SaveRecipe(made, parts)
    PROVE  PInv'
<1> DEFINE i == dialogs["recipe"]
           r == [op |-> "set_recipe", item |-> i, made |-> made, parts |-> parts]
           at == At("recipe", card.of)
           quiet == "recipe" \notin busy /\ "recipe" \notin excuse
           c == [Call(r, at) EXCEPT !.calm = quiet]
<1>1. i \in Items /\ i # "none"
  BY OnScreen DEF OnTop, KindsOpen
<1>2. r \in Request /\ Written(r, takes, orders) /\ r.op = "set_recipe" /\ r.item = i
  BY <1>1 DEF Request, Written
<1>3. Ask(c) /\ UNCHANGED <<typed, dialogs, card, picked, busy>>
  BY DEF SaveRecipe, localVars
<1>4. /\ c.req = r /\ c.at = at /\ c.phase = "sent" /\ c.heard /\ (c.calm <=> quiet)
      /\ {"req", "at", "phase", "heard", "calm", "seen"} \subseteq DOMAIN c
  BY DEF Call
<1>6. DialogsFit(dialogs') /\ picked' \in Items \cup {"none"}
  BY <1>3, OnScreen
<1>7. excuse \subseteq excuse'
  BY <1>3 DEF Ask
<1>8. CardFits(card')
  BY <1>3, <1>7, CardLeft
<1> HIDE DEF c, r, at, quiet, i
<1>9. Silent(c) /\ Sendable(c)
  BY <1>2, <1>4 DEF Silent, Sendable, Lawful
<1>10. CallFits(c, takes, orders)
  BY <1>2, <1>4 DEF CallFits, Leans
<1> QED
  BY <1>2, <1>3, <1>4, <1>6, <1>8, <1>9, <1>10, AskKeeps

LEMMA RecipeDialogKeeps ==
    ASSUME PInv, RecipeDialog
    PROVE  PInv'
<1>1. CASE SaveRecipe(card.made, card.parts)
  BY <1>1, SaveRecipeKeeps DEF PInv, CardFits, RecipeDialog
<1>2. ASSUME NEW made \in BOOLEAN, NEW n \in Amounts,
             SaveRecipe(made, [k \in Items |-> IF k \in Ingredients THEN n ELSE 0])
      PROVE  PInv'
  <2> DEFINE parts == [k \in Items |-> IF k \in Ingredients THEN n ELSE 0]
  <2>1. parts \in [Items -> Nat]
    BY OnScreen
  <2>2. SaveRecipe(made, parts) /\ OnTop("recipe")
    BY <1>2 DEF RecipeDialog
  <2> HIDE DEF parts
  <2> QED
    BY <2>1, <2>2, SaveRecipeKeeps
<1>3. CASE CloseDialog("recipe")
  BY <1>3, OpenDialogKeeps DEF CloseDialog
<1> QED
  BY <1>1, <1>2, <1>3 DEF RecipeDialog

\* Nothing is sent, nothing that was typed is changed.
LEMMA LookKeeps ==
    ASSUME PInv, UNCHANGED <<store, visit, calls, list, typed, card, picked, busy, excuse>>,
           sheet' \in {sheet, NoSheet}, po' \in {po, NoPO},
           DialogsFit(dialogs'), dialogs'["recipe"] = dialogs["recipe"]
    PROVE  PInv'
<1>1. ScreenFits(list', sheet', po', typed', dialogs', picked', takes, orders)
  BY DEF PInv, ScreenFits
<1>2. Copies(list', sheet', po', typed', calls', excuse', Snapshot, takes, orders)
  <2>1. SheetFresh(sheet', takes, calls, excuse) /\ OrderFresh(po', orders, calls, excuse)
    BY DEF PInv, Copies, SheetFresh, OrderFresh
  <2>2. ListFresh(list', Snapshot, calls', excuse') /\ FieldsFresh(typed', takes, calls', excuse')
    BY DEF PInv, Copies
  <2> QED
    BY <2>1, <2>2 DEF Copies
<1>3. CallsFit(calls', Request, takes, orders) /\ Unhurried(calls')
  BY DEF PInv
<1>4. CardFits(card')
  BY CardLeft
<1> QED
  BY <1>1, <1>2, <1>3, <1>4, Settled

LEMMA AlertsTabKeeps ==
    ASSUME PInv, AlertsTab
    PROVE  PInv'
<1>1. /\ dialogs' = [dialogs EXCEPT !["order"] = "new"]
      /\ UNCHANGED <<store, visit, calls, list, typed, card, picked, busy, excuse, sheet, po>>
  BY DEF AlertsTab, wire
<1>2. DialogsFit(dialogs') /\ dialogs'["recipe"] = dialogs["recipe"]
  BY <1>1, OnScreen DEF DialogsFit
<1> QED
  BY <1>1, <1>2, LookKeeps

\* Another tab shows nothing that was open before.
LEMMA TabsKeep ==
    ASSUME PInv, NEW t, Tabs(t)
    PROVE  PInv'
<1> DEFINE asks == t = "expiry" /\ tab # "expiry"
           ds == IF asks THEN <<Expiring>> ELSE <<>>
<1>1. /\ UNCHANGED <<store, visit, list, typed, dialogs, card, picked, excuse>>
      /\ sheet' = NoSheet /\ po' = NoPO /\ busy \subseteq busy'
      /\ calls' = IF asks THEN Append(calls, Expiring) ELSE calls
  BY DEF Tabs, localVars, Waits
<1>2. \E T : calls \in Seq(T)
  BY DEF PInv, CallsFit
<1>3. calls' = calls \o ds
  <2>1. PICK T : calls \in Seq(T)
    BY <1>2
  <2>2. CASE asks
    BY <1>1, <2>1, <2>2, AppendIsConcat
  <2>3. CASE ~asks
    BY <1>1, <2>1, <2>3, ConcatEmptySeq
  <2> QED
    BY <2>2, <2>3
<1>4. /\ \E T : ds \in Seq(T)
      /\ \A n \in DOMAIN ds : ds[n] = Expiring
  <2>1. CASE asks
    <3>1. <<Expiring>> \in Seq({Expiring}) /\ \A n \in DOMAIN <<Expiring>> : <<Expiring>>[n] = Expiring
      OBVIOUS
    <3> QED
      BY <2>1, <3>1
  <2>2. CASE ~asks
    <3>1. <<>> \in Seq({Expiring}) /\ DOMAIN <<>> = {}
      OBVIOUS
    <3> QED
      BY <2>2, <3>1
  <2> QED
    BY <2>1, <2>2
<1>5. /\ Expiring.req.op = "expiring" /\ ~Expiring.calm /\ Silent(Expiring)
      /\ CallFits(Expiring, takes, orders) /\ Lawful(Expiring, Request, takes, orders)
  BY Called DEF Expiring, Call, Silent, CallFits, Leans, Lawful, Plain
<1> HIDE DEF ds
<1>6. CallsFit(calls', Request, takes, orders) /\ Unhurried(calls')
  <2>1. CallsFit(ds, Request, takes, orders)
    BY <1>4, <1>5 DEF CallsFit
  <2>2. \A n \in DOMAIN ds : ~ds[n].calm /\ ds[n].req.op \notin {"receive", "count"}
    BY <1>4, <1>5
  <2> QED
    BY <1>3, <2>1, <2>2, Longer DEF PInv
<1>7. /\ \A k \in DOMAIN calls : k \in DOMAIN (calls \o ds) /\ (calls \o ds)[k] = calls[k]
      /\ \A m \in DOMAIN (calls \o ds) :
           m \in DOMAIN calls \/ \E n \in DOMAIN ds : (calls \o ds)[m] = ds[n]
  BY <1>2, <1>4, Behind
<1>8. Copies(list, sheet, po, typed, calls', excuse', Snapshot, takes, orders)
  <2>1. \A k \in DOMAIN calls : \E m \in DOMAIN calls' : Same(calls[k], calls'[m])
    BY <1>3, <1>7 DEF Same
  <2>2. \A m \in DOMAIN calls' : (\E k \in DOMAIN calls : Same(calls[k], calls'[m])) \/ Silent(calls'[m])
    BY <1>3, <1>4, <1>5, <1>7 DEF Same
  <2>3. Copies(list, sheet, po, typed, calls, excuse, Snapshot, takes, orders) /\ excuse \subseteq excuse'
    BY <1>1 DEF PInv
  <2> QED
    BY <2>1, <2>2, <2>3, CopiesOn
<1>9. Copies(list', sheet', po', typed', calls', excuse', Snapshot, takes, orders)
  BY <1>1, <1>8 DEF Copies, SheetFresh, OrderFresh
<1>10. ScreenFits(list', sheet', po', typed', dialogs', picked', takes, orders)
  BY <1>1 DEF PInv, ScreenFits
<1>11. CardFits(card')
  BY <1>1, CardLeft
<1> QED
  BY <1>1, <1>6, <1>9, <1>10, <1>11, Settled

-----------------------------------------------------------------------------
(* The stock take.                                                         *)

LEMMA CompleteKeepsScreen ==
    ASSUME PInv, sheet # NoSheet, CompleteTake
    PROVE  PInv'
<1> DEFINE r == [op |-> "complete_take", take |-> sheet.take]
           quiet == Calm("sheet") /\ Calm("typed")
           c == [Call(r, Somewhere) EXCEPT !.calm = quiet, !.seen = typed]
<1>1. sheet.take \in DOMAIN takes
  BY DEF PInv, ScreenFits, SheetFits
<1>2. r \in Request /\ Written(r, takes, orders) /\ r.op = "complete_take" /\ r.take = sheet.take
  BY <1>1 DEF Request, Written
<1>3. Ask(c) /\ UNCHANGED <<typed, dialogs, card, picked, busy>>
  BY DEF CompleteTake, localVars
<1>4. /\ c.req = r /\ c.phase = "sent" /\ c.heard /\ (c.calm <=> quiet) /\ c.seen = typed
      /\ {"req", "at", "phase", "heard", "calm", "seen"} \subseteq DOMAIN c
  BY DEF Call
<1>5. ASSUME quiet
      PROVE  calls = <<>> /\ Counted(typed, sheet.take, takes[sheet.take].lines)
  <2>1. calls = <<>> /\ "typed" \notin excuse
    BY <1>5 DEF Calm
  <2>2. FieldsFresh(typed, takes, calls, excuse)
    BY DEF PInv, Copies
  <2> QED
    BY <2>1, <2>2 DEF FieldsFresh, Counted
<1>6. DialogsFit(dialogs') /\ picked' \in Items \cup {"none"}
  BY <1>3, OnScreen
<1>7. excuse \subseteq excuse'
  BY <1>3 DEF Ask
<1>8. CardFits(card')
  BY <1>3, <1>7, CardLeft
<1> HIDE DEF c, r, quiet
<1>9. Silent(c) /\ Sendable(c)
  BY <1>2, <1>4 DEF Silent, Sendable, Lawful
<1>10. CallFits(c, takes, orders)
  BY <1>2, <1>4, <1>5 DEF CallFits, Leans
<1> QED
  BY <1>2, <1>3, <1>4, <1>5, <1>6, <1>8, <1>9, <1>10, AskKeeps

\* What is typed is what the count that is sent says.
LEMMA SaveCountKeeps ==
    ASSUME PInv, sheet # NoSheet, NEW i \in DOMAIN sheet.copy.lines, NEW n \in Amounts \cup {0},
           SaveCount(i, n)
    PROVE  PInv'
<1> DEFINE t == sheet.take
           r == [op |-> "count", take |-> t, item |-> i, n |-> n]
           c == Call(r, Somewhere)
<1>1. t \in DOMAIN takes /\ i \in DOMAIN takes[t].lines
  BY DEF PInv, ScreenFits, SheetFits
<1>2. /\ typed' = Typing(i, n) /\ Ask(c)
      /\ UNCHANGED <<dialogs, card, picked, busy>>
  BY DEF SaveCount
<1>3. /\ c.req = r /\ c.phase = "sent" /\ c.heard /\ ~c.calm
      /\ {"req", "at", "phase", "heard", "calm", "seen"} \subseteq DOMAIN c
  BY Called
<1>4. r \in Request /\ Written(r, takes, orders)
  <2>1. i \in Items
    <3>1. takes[t] \in Take
      BY <1>1 DEF PInv, SInv, PaperOK
    <3> QED
      BY <1>1, <3>1 DEF Take
  <2>2. n \in Int
    BY OnScreen
  <2> QED
    BY <1>1, <2>1, <2>2 DEF Request, Written
<1>5. r.op = "count" /\ r.take = t /\ r.item = i /\ r.n = n
  OBVIOUS
<1>6. /\ calls' = Sending(calls, c) /\ UNCHANGED <<store, visit, list, sheet, po>>
      /\ excuse' = IF Recounts(r) THEN excuse \cup {"typed"} ELSE excuse
  BY <1>2, <1>3 DEF Ask, Sending
<1>7. typed' = [x \in DOMAIN typed \cup {<<t, i>>} |-> IF x = <<t, i>> THEN n ELSE typed[x]]
  BY <1>2 DEF Typing
<1> HIDE DEF c, r, t
<1>8. CallsFit(calls', Request, takes, orders) /\ Unhurried(calls')
  <2>1. CallFits(c, takes, orders) /\ Lawful(c, Request, takes, orders)
    BY <1>3, <1>4, <1>5 DEF CallFits, Leans, Lawful
  <2> QED
    BY <1>3, <1>6, <2>1, Sent DEF PInv
<1>9. ScreenFits(list', sheet', po', typed', dialogs', picked', takes, orders)
  <2>1. TypedFits(typed', takes)
    BY <1>1, <1>7 DEF PInv, ScreenFits, TypedFits
  <2> QED
    BY <1>2, <1>6, <2>1 DEF PInv, ScreenFits
<1>10. CardFits(card')
  BY <1>2, <1>6, CardLeft
<1>11. /\ Len(calls) \in Nat /\ DOMAIN calls = 1..Len(calls)
       /\ DOMAIN calls' = 1..(Len(calls) + 1)
       /\ calls'[Len(calls) + 1] = c
       /\ \A k \in DOMAIN calls : calls'[k] = Hurried(r, calls[k])
  BY <1>3, <1>6, SendingIs DEF PInv, CallsFit
<1>12. \A k \in DOMAIN calls : Same(calls[k], calls'[k])
  <2> SUFFICES ASSUME NEW k \in DOMAIN calls
               PROVE  Same(calls[k], calls'[k])
    OBVIOUS
  <2>1. CallFits(calls[k], takes, orders)
    BY DEF PInv, CallsFit
  <2>2. Same(calls[k], Hurried(r, calls[k]))
    BY <2>1, HurriedIs
  <2> QED
    BY <1>11, <2>2
<1>13. \A m \in DOMAIN calls' : (m \in DOMAIN calls /\ Same(calls[m], calls'[m])) \/ calls'[m] = c
  BY <1>11, <1>12
<1>14. \A k \in DOMAIN calls : k \in DOMAIN calls'
  BY <1>11
<1>15. /\ ListFresh(list, Snapshot, calls, excuse) /\ SheetFresh(sheet, takes, calls, excuse)
       /\ OrderFresh(po, orders, calls, excuse) /\ FieldsFresh(typed, takes, calls, excuse)
  BY DEF PInv, Copies
<1>16. /\ excuse \subseteq excuse'
       /\ \A o : ~SubmitsLater(c, o)
  BY <1>3, <1>5, <1>6 DEF SubmitsLater
<1>17. ListFresh(list', Snapshot, calls', excuse') /\ SheetFresh(sheet', takes, calls', excuse')
  <2>1. \A k \in DOMAIN calls : RefreshesList(calls[k]) => \E m \in DOMAIN calls' : RefreshesList(calls'[m])
    BY <1>12, <1>14, SameRefreshes
  <2>2. \A k \in DOMAIN calls : RefreshesSheet(calls[k], sheet.take) =>
           \E m \in DOMAIN calls' : RefreshesSheet(calls'[m], sheet.take)
    BY <1>12, <1>14, SameRefreshes
  <2> QED
    BY <1>6, <1>15, <1>16, <2>1, <2>2, ListFreshOn, SheetFreshOn
<1>18. OrderFresh(po', orders, calls', excuse')
  <2>1. \A k \in DOMAIN calls : RefreshesOrder(calls[k], po.order) =>
           \E m \in DOMAIN calls' : RefreshesOrder(calls'[m], po.order)
    BY <1>12, <1>14, SameRefreshes
  <2>2. \A m \in DOMAIN calls' : SubmitsLater(calls'[m], po.order) =>
           \E k \in DOMAIN calls : SubmitsLater(calls[k], po.order)
    BY <1>13, <1>16, SameRefreshes
  <2> QED
    BY <1>6, <1>15, <1>16, <2>1, <2>2, OrderFreshOn
<1>19. FieldsFresh(typed', takes, calls', excuse')
  <2>1. CASE "typed" \in excuse'
    BY <2>1 DEF FieldsFresh
  <2>2. CASE "typed" \notin excuse'
    <3>1. "typed" \notin excuse /\ ~Recounts(r)
      BY <1>6, <2>2
    <3>2. \A x \in DOMAIN typed : x = <<x[1], x[2]>>
      BY DEF PInv, ScreenFits, TypedFits
    <3>3. \A x : OnItsWay(c, x) <=> t = x[1] /\ i = x[2]
      BY <1>3, <1>5 DEF OnItsWay
    <3>4. \A k \in DOMAIN calls : ~OnItsWay(calls[k], <<t, i>>)
      BY <1>5, <3>1 DEF Recounts, OnItsWay
    <3>5. ASSUME NEW x \in DOMAIN typed'
          PROVE  /\ \/ takes[x[1]].lines[x[2]].done /\ takes[x[1]].lines[x[2]].counted = typed'[x]
                    \/ \E m \in DOMAIN calls' : OnItsWay(calls'[m], x)
                 /\ \A m \in DOMAIN calls' : OnItsWay(calls'[m], x) => calls'[m].req.n = typed'[x]
      <4>1. CASE x = <<t, i>>
        <5>1. typed'[x] = n /\ OnItsWay(c, x) /\ c.req.n = n
          BY <1>3, <1>5, <1>7, <3>3, <4>1
        <5>2. Len(calls) + 1 \in DOMAIN calls'
          BY <1>11
        <5>3. \A m \in DOMAIN calls' : OnItsWay(calls'[m], x) => calls'[m] = c
          BY <1>13, <3>4, <4>1, SameRefreshes
        <5> QED
          BY <1>11, <5>1, <5>2, <5>3
      <4>2. CASE x # <<t, i>>
        <5>1. x \in DOMAIN typed /\ typed'[x] = typed[x]
          BY <1>7, <3>5, <4>2
        <5>2. ~OnItsWay(c, x)
          BY <3>2, <3>3, <4>2, <5>1
        <5>3. /\ \/ takes[x[1]].lines[x[2]].done /\ takes[x[1]].lines[x[2]].counted = typed[x]
                 \/ \E k \in DOMAIN calls : OnItsWay(calls[k], x)
              /\ \A k \in DOMAIN calls : OnItsWay(calls[k], x) => calls[k].req.n = typed[x]
          BY <1>15, <3>1, <5>1 DEF FieldsFresh
        <5>4. \A k \in DOMAIN calls : OnItsWay(calls'[k], x) <=> OnItsWay(calls[k], x)
          BY <1>12, SameRefreshes
        <5>5. \A m \in DOMAIN calls' : OnItsWay(calls'[m], x) =>
                 m \in DOMAIN calls /\ OnItsWay(calls[m], x) /\ calls'[m].req = calls[m].req
          BY <1>13, <5>2, <5>4 DEF Same
        <5> QED
          BY <1>14, <5>1, <5>3, <5>4, <5>5
      <4> QED
        BY <4>1, <4>2
    <3> QED
      BY <3>5 DEF FieldsFresh
  <2> QED
    BY <2>1, <2>2
<1> QED
  BY <1>2, <1>6, <1>8, <1>9, <1>10, <1>17, <1>18, <1>19, Settled DEF Copies

\* A field that was emptied is no count.
LEMMA ClearCountKeeps ==
    ASSUME PInv, NEW i, ClearCount(i)
    PROVE  PInv'
<1>1. /\ typed' = Restrict(typed, DOMAIN typed \ {<<sheet.take, i>>})
      /\ UNCHANGED <<store, visit, calls, list, sheet, po, dialogs, card, picked, busy, excuse>>
  BY DEF ClearCount, wire
<1>2. DOMAIN typed' \subseteq DOMAIN typed /\ \A x \in DOMAIN typed' : typed'[x] = typed[x]
  BY <1>1 DEF Restrict
<1>3. ScreenFits(list', sheet', po', typed', dialogs', picked', takes, orders)
  BY <1>1, <1>2 DEF PInv, ScreenFits, TypedFits
<1>4. Copies(list', sheet', po', typed', calls', excuse', Snapshot, takes, orders)
  <2>1. FieldsFresh(typed', takes, calls', excuse')
    BY <1>1, <1>2 DEF PInv, Copies, FieldsFresh
  <2> QED
    BY <1>1, <2>1 DEF PInv, Copies
<1>5. CallsFit(calls', Request, takes, orders) /\ Unhurried(calls')
  BY <1>1 DEF PInv
<1>6. CardFits(card')
  BY <1>1, CardLeft
<1> QED
  BY <1>1, <1>3, <1>4, <1>5, <1>6, Settled

LEMMA StockTakeSheetKeeps ==
    ASSUME PInv, StockTakeSheet
    PROVE  PInv'
<1>1. sheet # NoSheet
  BY DEF StockTakeSheet
<1>2. CASE CompleteTake
  BY <1>1, <1>2, CompleteKeepsScreen
<1>3. ASSUME NEW i \in DOMAIN sheet.copy.lines, NEW n \in Amounts \cup {0}, SaveCount(i, n)
      PROVE  PInv'
  BY <1>1, <1>3, SaveCountKeeps
<1>4. ASSUME NEW i, ClearCount(i)
      PROVE  PInv'
  BY <1>4, ClearCountKeeps
<1>5. CASE /\ sheet' = NoSheet
           /\ UNCHANGED <<store, wire, visit, tab, list, localVars, po, busy, boardBusy, excuse>>
  <2>1. UNCHANGED <<store, visit, calls, list, typed, card, picked, busy, excuse, dialogs, po>>
    BY <1>5 DEF wire, localVars
  <2> QED
    BY <1>5, <2>1, OnScreen, LookKeeps
<1> QED
  BY <1>2, <1>3, <1>4, <1>5 DEF StockTakeSheet

-----------------------------------------------------------------------------
(* The purchase order.                                                     *)

\* A delivery that is confirmed on a quiet screen is the first of its line.
LEMMA ReceiveKeepsScreen ==
    ASSUME PInv, po # NoPO, NEW i \in DOMAIN po.copy.lines, NEW e \in Dates, ~po.copy.lines[i].in,
           NEW n \in {0, po.copy.lines[i].want}, ReceivePOLine(i, n, e)
    PROVE  PInv'
<1> DEFINE r == [op |-> "receive", order |-> po.order, item |-> i, n |-> n, expiry |-> e]
           quiet == Calm("po")
           c == [Call(r, Somewhere) EXCEPT !.calm = quiet]
<1>1. OrderFits(po, orders)
  BY DEF PInv, ScreenFits
<1>2. r \in Request /\ Written(r, takes, orders)
  <2>1. po.order \in DOMAIN orders /\ i \in DOMAIN orders[po.order].lines
    BY <1>1 DEF OrderFits
  <2>2. po.copy \in PurchaseOrder
    BY <1>1 DEF OrderFits
  <2>3. PICK S \in (SUBSET Items) \ {{}} : po.copy.lines \in [S -> OrderLine]
    BY <2>2 DEF PurchaseOrder
  <2>4. i \in Items /\ po.copy.lines[i].want \in Nat
    BY <2>3 DEF OrderLine
  <2>5. n \in Nat
    BY <2>4
  <2> QED
    BY <2>1, <2>4, <2>5 DEF Request, Written
<1>3. r.op = "receive" /\ r.order = po.order /\ r.item = i
  OBVIOUS
<1>4. Ask(c) /\ UNCHANGED <<typed, dialogs, card, picked, busy>>
  BY DEF ReceivePOLine, localVars
<1>5. /\ c.req = r /\ c.phase = "sent" /\ c.heard /\ (c.calm <=> quiet)
      /\ {"req", "at", "phase", "heard", "calm", "seen"} \subseteq DOMAIN c
  BY DEF Call
<1>6. ASSUME quiet
      PROVE  calls = <<>> /\ ~orders[po.order].lines[i].in
  <2>1. calls = <<>> /\ "po" \notin excuse
    BY <1>6 DEF Calm
  <2>2. OrderFresh(po, orders, calls, excuse)
    BY DEF PInv, Copies
  <2> QED
    BY <2>1, <2>2 DEF OrderFresh
<1>7. DialogsFit(dialogs') /\ picked' \in Items \cup {"none"}
  BY <1>4, OnScreen
<1>8. excuse \subseteq excuse'
  BY <1>4 DEF Ask
<1>9. CardFits(card')
  BY <1>4, <1>8, CardLeft
<1> HIDE DEF c, r, quiet
<1>10. Silent(c) /\ Sendable(c)
  BY <1>2, <1>3, <1>5 DEF Silent, Sendable, Lawful
<1>11. CallFits(c, takes, orders)
  BY <1>3, <1>5, <1>6 DEF CallFits, Leans
<1> QED
  BY <1>3, <1>4, <1>5, <1>6, <1>7, <1>9, <1>10, <1>11, AskKeeps

LEMMA OrderSheetKeeps ==
    ASSUME PInv, OrderSheet
    PROVE  PInv'
<1>1. po # NoPO
  BY DEF OrderSheet
<1>2. ASSUME NEW i \in DOMAIN po.copy.lines, NEW e \in Dates, ~po.copy.lines[i].in,
             NEW n \in {0, po.copy.lines[i].want}, ReceivePOLine(i, n, e)
      PROVE  PInv'
  BY <1>1, <1>2, ReceiveKeepsScreen
<1>3. CASE /\ po' = NoPO
           /\ UNCHANGED <<store, wire, visit, tab, list, localVars, sheet, busy, boardBusy, excuse>>
  <2>1. UNCHANGED <<store, visit, calls, list, typed, card, picked, busy, excuse, dialogs, sheet>>
    BY <1>3 DEF wire, localVars
  <2> QED
    BY <1>3, <2>1, OnScreen, LookKeeps
<1> QED
  BY <1>2, <1>3 DEF OrderSheet

\* Every button.
LEMMA ScreenKeeps ==
    ASSUME PInv, Screen
    PROVE  PInv'
<1>1. CASE ProcessingTab \/ ExpiryTab \/ BatchDialog \/ ProductionDialog
  BY <1>1, ProcessingTabKeeps, ExpiryTabKeeps, ProductionDialogKeeps
<1>2. CASE ItemsTab \/ IngredientsTab \/ CategoriesTab \/ SuppliersTab
  BY <1>2, ItemsTabKeeps
<1>3. CASE Header \/ (\E t \in visit.uses : Tabs(t)) \/ AlertsTab
  BY <1>3, HeaderKeeps, TabsKeep, AlertsTabKeeps
<1>4. CASE StockTakeList \/ StockTakeSheet \/ OrderList \/ OrderSheet
  BY <1>4, StockTakeListKeeps, StockTakeSheetKeeps, OrderListKeeps, OrderSheetKeeps
<1>5. CASE ItemDialog \/ RecipeDialog \/ NameDialog("category") \/ NameDialog("supplier") \/ OrderDialog
  BY <1>5, ItemDialogKeeps, RecipeDialogKeeps, NameDialogKeeps, OrderDialogKeeps
<1> QED
  BY <1>1, <1>2, <1>3, <1>4, <1>5 DEF Screen

-----------------------------------------------------------------------------
(* The server.                                                             *)

\* A request that changes something.
Does(r) == r.op \notin Plain /\ Granted(r)
Served(r) == IF Does(r) THEN Perform(r) ELSE UNCHANGED store

\* What serving one request changes at the server, and that StockRoom allows it.
LEMMA StoreAfter ==
    ASSUME PInv, NEW r, r.op \notin Plain => r \in Request /\ OnPaper(r), Served(r)
    PROVE  /\ [StockNext]_store
           /\ SInv' /\ \E T : batches' \in Seq(T)
           /\ Request \subseteq Request' /\ Grows(takes, takes') /\ Grows(orders, orders')
           /\ \A t \in DOMAIN takes : takes'[t] # takes[t] =>
                Does(r) /\ r.op \in {"count", "complete_take"} /\ r.take = t
           /\ r.op # "count" => \A t \in DOMAIN takes : takes'[t].lines = takes[t].lines
           /\ \A o \in DOMAIN orders : orders'[o] # orders[o] =>
                Does(r) /\ r.op \in {"submit_order", "receive"} /\ r.order = o
           /\ r.op # "receive" => \A o \in DOMAIN orders : orders'[o].lines = orders[o].lines
           /\ Snapshot' # Snapshot => Does(r) /\ r.op \in LoadsAfter \cup {"receive", "create_order"}
<1>1. CASE ~Does(r)
  <2>1. UNCHANGED store
    BY <1>1 DEF Served
  <2>2. /\ SInv' /\ (\E T : batches' \in Seq(T)) /\ Snapshot' = Snapshot /\ Request' = Request
        /\ takes' = takes /\ orders' = orders
    BY <2>1, Settles
  <2> QED
    BY <2>1, <2>2 DEF Grows
<1>2. CASE Does(r)
  <2>1. Perform(r) /\ r \in Request /\ OnPaper(r) /\ SInv /\ \E T : batches \in Seq(T)
    BY <1>2 DEF Does, Served, PInv
  <2>2. StockNext
    BY <2>1 DEF StockNext
  <2>3. SInv'
    BY <2>1, <2>2, NextKeeps
  <2>4. (\E T : batches' \in Seq(T)) /\ DOMAIN batches \subseteq DOMAIN batches'
    BY <2>1, <2>2, BatchesAfter
  <2>5. /\ Grows(takes, takes')
        /\ \A t \in DOMAIN takes :
             takes'[t] # takes[t] => r.op \in {"count", "complete_take"} /\ r.take = t
        /\ r.op # "count" => \A t \in DOMAIN takes : takes'[t].lines = takes[t].lines
    BY <2>1, TakesAfter
  <2>6. /\ Grows(orders, orders')
        /\ \A o \in DOMAIN orders :
             orders'[o] # orders[o] => r.op \in {"submit_order", "receive"} /\ r.order = o
        /\ r.op # "receive" => \A o \in DOMAIN orders : orders'[o].lines = orders[o].lines
    BY <2>1, OrdersAfter
  <2>7. Request \subseteq Request'
    BY <2>4, <2>5, <2>6, MoreMayBeAsked DEF Grows
  <2>8. Snapshot' # Snapshot => r.op \in LoadsAfter \cup {"receive", "create_order"}
    <3>1. CASE r.op \in {"count", "batch", "expiry"}
      BY <2>1, <3>1, ListsAfter
    <3>2. CASE r.op \notin {"count", "batch", "expiry"}
      BY <2>1, <3>2 DEF Perform, LoadsAfter
    <3> QED
      BY <3>1, <3>2
  <2> QED
    BY <1>2, <2>2, <2>3, <2>4, <2>5, <2>6, <2>7, <2>8
<1> QED
  BY <1>1, <1>2

\* What else is under way fits what the server has now.
LEMMA OthersFit ==
    ASSUME PInv, NEW j \in DOMAIN calls, Served(calls[j].req), NEW k \in DOMAIN calls \ {j}
    PROVE  CallFits(calls[k], takes', orders') /\ Lawful(calls[k], Request', takes', orders')
<1> DEFINE r == calls[j].req
           d == calls[k]
<1>1. /\ r.op \notin Plain => r \in Request /\ OnPaper(r)
      /\ CallFits(d, takes, orders) /\ Sendable(d)
  BY DEF PInv, CallsFit, Lawful, Written, OnPaper, Sendable
<1>2. /\ Request \subseteq Request' /\ Grows(takes, takes') /\ Grows(orders, orders')
      /\ r.op # "count" => \A t \in DOMAIN takes : takes'[t].lines = takes[t].lines
      /\ r.op # "receive" => \A o \in DOMAIN orders : orders'[o].lines = orders[o].lines
  BY <1>1, StoreAfter
<1>3. Lawful(d, Request', takes', orders')
  BY <1>1, <1>2, LawfulOn
<1>4. d.calm =>
        /\ ~(d.req.op = "receive" /\ r.op = "receive")
        /\ ~(d.req.op = "complete_take" /\ r.op = "count")
  BY DEF PInv, Unhurried
<1>5. /\ d.req.op = "receive" => d.req.order \in DOMAIN orders
      /\ d.req.op = "complete_take" => d.req.take \in DOMAIN takes
  BY <1>1, AskedFor DEF Sendable, Lawful, Plain
<1> HIDE DEF r, d
<1>6. d.phase = "sent" => Leans(d, takes', orders')
  BY <1>1, <1>2, <1>4, <1>5 DEF CallFits, Leans
<1>7. CallFits(d, takes', orders')
  BY <1>1, <1>2, <1>6, CallFitsOn
<1> QED
  BY <1>3, <1>7 DEF d

\* The answer on its way back.
Reply(c) ==
    [req |-> c.req, at |-> c.at, phase |-> "answered", heard |-> TRUE,
     calm |-> c.calm, seen |-> c.seen, ok |-> Granted(c.req),
     data |-> IF Granted(c.req) THEN Data(c.req)' ELSE "nothing",
     first |-> c.req.op = "receive" => ~orders[c.req.order].lines[c.req.item].in]

LEMMA ReplyIs ==
    ASSUME NEW c
    PROVE  /\ {"req", "at", "phase", "heard", "calm", "seen", "ok", "data", "first"} \subseteq DOMAIN Reply(c)
           /\ Reply(c).req = c.req /\ Reply(c).at = c.at /\ Reply(c).phase = "answered"
           /\ Reply(c).heard /\ Reply(c).calm = c.calm /\ Reply(c).seen = c.seen
           /\ Reply(c).ok = Granted(c.req)
           /\ Granted(c.req) => Reply(c).data = Data(c.req)'
           /\ Reply(c).first <=> (c.req.op = "receive" => ~orders[c.req.order].lines[c.req.item].in)
  BY DEF Reply

\* What a read brings back fits.
LEMMA DataFits ==
    ASSUME SInv', NEW r
    PROVE  /\ r.op = "load" => ListFits(Data(r)', takes', orders')
           /\ r.op \in {"get_take", "complete_take"} /\ r.take \in DOMAIN takes' =>
                SheetFits(Data(r)', takes') /\ Data(r)'.take = r.take /\ Data(r)'.copy = takes'[r.take]
           /\ r.op = "start_take" /\ Len(takes') \in DOMAIN takes' => SheetFits(Data(r)', takes')
           /\ r.op = "get_order" /\ r.order \in DOMAIN orders' =>
                OrderFits(Data(r)', orders') /\ Data(r)'.order = r.order
           /\ r.op = "create_order" => Data(r)'.order = Len(orders')
           /\ r.op = "get_recipe" /\ r.item \in Items => Data(r)'.of = r.item /\ CardFits(Data(r)')
<1>1. ASSUME r.op = "load"
      PROVE  ListFits(Data(r)', takes', orders')
  <2>1. Data(r)' = [items |-> [i \in Active' |-> Row(i)'],
                    takes |-> [t \in DOMAIN takes' |-> takes'[t].status],
                    orders |-> [o \in DOMAIN orders' |-> orders'[o].status]]
    BY <1>1 DEF Data, Snapshot
  <2>2. Active' \subseteq Items
    BY DEF Active
  <2> QED
    BY <2>1, <2>2 DEF ListFits
<1>2. ASSUME r.op \in {"get_take", "complete_take"}, r.take \in DOMAIN takes'
      PROVE  SheetFits(Data(r)', takes') /\ Data(r)'.take = r.take /\ Data(r)'.copy = takes'[r.take]
  BY <1>2 DEF Data, Sheet, SheetFits
<1>3. ASSUME r.op = "start_take", Len(takes') \in DOMAIN takes'
      PROVE  SheetFits(Data(r)', takes')
  BY <1>3 DEF Data, Sheet, SheetFits
<1>4. ASSUME r.op = "get_order", r.order \in DOMAIN orders'
      PROVE  OrderFits(Data(r)', orders') /\ Data(r)'.order = r.order
  <2>1. Data(r)' = [order |-> r.order, copy |-> orders'[r.order]]
    BY <1>4 DEF Data, Order
  <2>2. orders'[r.order] \in PurchaseOrder
    BY <1>4 DEF SInv, PaperOK
  <2> QED
    BY <1>4, <2>1, <2>2 DEF OrderFits
<1>5. r.op = "create_order" => Data(r)'.order = Len(orders')
  BY DEF Data
<1>6. ASSUME r.op = "get_recipe", r.item \in Items
      PROVE  Data(r)'.of = r.item /\ CardFits(Data(r)')
  <2>1. Data(r)' = [of |-> r.item, made |-> assembled'[r.item], parts |-> recipe'[r.item]]
    BY <1>6 DEF Data
  <2>2. assembled'[r.item] \in BOOLEAN /\ recipe'[r.item] \in [Items -> Nat]
    BY <1>6 DEF SInv, MenuOK
  <2> QED
    BY <2>1, <2>2 DEF CardFits
<1> QED
  BY <1>1, <1>2, <1>3, <1>4, <1>5, <1>6

LEMMA ReplyFits ==
    ASSUME PInv, NEW j \in DOMAIN calls, NEW c, c = calls[j], c.phase = "sent", Served(c.req)
    PROVE  CallFits(Reply(c), takes', orders') /\ Lawful(Reply(c), Request', takes', orders')
<1> DEFINE r == c.req
           d == Reply(c)
<1>1. /\ CallFits(c, takes, orders) /\ Sendable(c) /\ c.phase = "sent"
      /\ r.op \notin Plain => r \in Request /\ OnPaper(r)
  BY DEF PInv, CallsFit, Lawful, Written, OnPaper, Sendable
<1>2. /\ SInv' /\ Request \subseteq Request' /\ Grows(takes, takes') /\ Grows(orders, orders')
      /\ r.op # "count" => \A t \in DOMAIN takes : takes'[t].lines = takes[t].lines
  BY <1>1, StoreAfter
<1>3. Lawful(c, Request', takes', orders')
  BY <1>1, <1>2, LawfulOn
<1>4. /\ {"req", "at", "phase", "heard", "calm", "seen", "ok", "data", "first"} \subseteq DOMAIN d
      /\ d.req = c.req /\ d.at = c.at /\ d.phase = "answered"
      /\ d.heard /\ d.calm = c.calm /\ d.seen = c.seen
      /\ d.ok = Granted(c.req)
      /\ Granted(c.req) => d.data = Data(c.req)'
      /\ d.first <=> (c.req.op = "receive" => ~orders[c.req.order].lines[c.req.item].in)
  BY ReplyIs
<1>5. DOMAIN takes \subseteq DOMAIN takes' /\ DOMAIN orders \subseteq DOMAIN orders'
  BY <1>2 DEF Grows
<1>6. r.op \in {"load", "get_take", "get_order", "get_recipe"} => Granted(r)
  BY DEF Granted, ManagersOnly, Accepts
<1>7. r.op = "complete_take" => r.take \in DOMAIN takes
  BY <1>1, AskedFor DEF Plain
<1>8. Does(r) /\ r.op = "start_take" => Len(takes') \in DOMAIN takes'
  BY <1>1, TakesAfter DEF PInv, Served, Does
<1>9. Does(r) /\ r.op = "create_order" => Len(orders') \in DOMAIN orders'
  BY <1>1, OrdersAfter DEF PInv, Served, Does
<1> HIDE DEF d
<1>10. Brings(d, takes', orders')
  <2> USE DEF CallFits
  <2>1. d.req.op = "load" => ListFits(d.data, takes', orders')
    BY <1>2, <1>4, <1>6, DataFits
  <2>2. d.req.op = "get_take" /\ d.ok => SheetFits(d.data, takes') /\ d.data.take = d.req.take
    BY <1>1, <1>2, <1>4, <1>5, <1>6, DataFits
  <2>3. d.req.op = "complete_take" /\ d.ok => 
           /\ SheetFits(d.data, takes') /\ d.data.take = d.req.take
           /\ d.data.copy = takes'[d.req.take]
    BY <1>2, <1>4, <1>5, <1>7, DataFits
  <2>4. d.req.op = "start_take" /\ d.ok => SheetFits(d.data, takes')
    <3>1. r.op = "start_take" /\ Granted(r) => Does(r)
      BY DEF Does, Plain
    <3> QED
      BY <1>2, <1>4, <1>8, <3>1, DataFits
  <2>5. d.req.op = "get_order" => OrderFits(d.data, orders') /\ d.data.order = d.req.order
    BY <1>1, <1>2, <1>4, <1>5, <1>6, DataFits
  <2>6. d.req.op = "create_order" /\ d.ok => d.data.order \in DOMAIN orders'
    <3>1. r.op = "create_order" /\ Granted(r) => Does(r)
      BY DEF Does, Plain
    <3> QED
      BY <1>2, <1>4, <1>9, <3>1, DataFits
  <2>7. d.req.op = "get_recipe" => d.data.of = d.req.item /\ CardFits(d.data)
    BY <1>1, <1>2, <1>4, <1>6, DataFits
  <2>8. d.req.op = "receive" /\ d.calm => d.first
    BY <1>1, <1>4 DEF Leans
  <2>9. d.req.op = "complete_take" /\ d.ok /\ d.calm => Counted(d.seen, d.req.take, d.data.copy.lines)
    <3>1. r.op = "complete_take" /\ c.calm => Counted(c.seen, r.take, takes[r.take].lines)
      BY <1>1 DEF Leans
    <3>2. r.op = "complete_take" => takes'[r.take].lines = takes[r.take].lines
      BY <1>2, <1>7
    <3> QED
      BY <1>4, <2>3, <3>1, <3>2
  <2>10. d.req.op \in {"load", "get_take", "get_order", "get_recipe"} => d.ok
    BY <1>4, <1>6
  <2> QED
    BY <1>4, <2>1, <2>2, <2>3, <2>4, <2>5, <2>6, <2>7, <2>8, <2>9, <2>10 DEF Brings
<1>11. CallFits(d, takes', orders')
  BY <1>1, <1>4, <1>5, <1>10 DEF CallFits
<1>12. Lawful(d, Request', takes', orders')
  BY <1>3, <1>4 DEF Lawful
<1> QED
  BY <1>11, <1>12 DEF d

\* The invariant, from its parts.
LEMMA Together ==
    ASSUME SInv', \E T : batches' \in Seq(T), visit' \in Visits,
           CallsFit(calls', Request', takes', orders'), Unhurried(calls'),
           ScreenFits(list', sheet', po', typed', dialogs', picked', takes', orders'),
           Copies(list', sheet', po', typed', calls', excuse', Snapshot', takes', orders'),
           CardFits(card')
    PROVE  PInv'
  BY DEF PInv

\* Copies after a request was served, whose answer says so.
LEMMA ServedCopies ==
    ASSUME PInv, NEW j \in DOMAIN calls, NEW c, c = calls[j], c.phase = "sent", c.heard,
           Served(c.req), NEW ds, ds = [calls EXCEPT ![j] = Reply(c)]
    PROVE  Copies(list, sheet, po, typed, ds, excuse, Snapshot', takes', orders')
<1> DEFINE r == c.req
           d == Reply(c)
<1>1. /\ CallFits(c, takes, orders)
      /\ r.op \notin Plain => r \in Request /\ OnPaper(r)
  BY DEF PInv, CallsFit, Lawful, Written, OnPaper
<1>2. /\ d.req = r /\ d.phase = "answered" /\ d.heard /\ d.ok = Granted(r)
      /\ Granted(r) => d.data = Data(r)'
  BY ReplyIs
<1> HIDE DEF d
<1>3. /\ DOMAIN ds = DOMAIN calls /\ ds[j] = d
      /\ \A k \in DOMAIN calls \ {j} : ds[k] = calls[k]
  BY DEF d
<1>4. /\ SInv' /\ Grows(takes, takes') /\ Grows(orders, orders')
      /\ \A t \in DOMAIN takes : takes'[t] # takes[t] =>
           Does(r) /\ r.op \in {"count", "complete_take"} /\ r.take = t
      /\ r.op # "count" => \A t \in DOMAIN takes : takes'[t].lines = takes[t].lines
      /\ \A o \in DOMAIN orders : orders'[o] # orders[o] =>
           Does(r) /\ r.op \in {"submit_order", "receive"} /\ r.order = o
      /\ Snapshot' # Snapshot => Does(r) /\ r.op \in LoadsAfter \cup {"receive", "create_order"}
  BY <1>1, StoreAfter
<1>5. /\ ListFresh(list, Snapshot, calls, excuse) /\ SheetFresh(sheet, takes, calls, excuse)
      /\ OrderFresh(po, orders, calls, excuse) /\ FieldsFresh(typed, takes, calls, excuse)
      /\ sheet = NoSheet \/ SheetFits(sheet, takes)
      /\ po = NoPO \/ OrderFits(po, orders)
      /\ TypedFits(typed, takes)
  BY DEF PInv, Copies, ScreenFits
<1>6. ListFresh(list, Snapshot', ds, excuse)
  <2>1. CASE Snapshot' # Snapshot
    <3>1. RefreshesList(d)
      BY <1>2, <1>4, <2>1 DEF RefreshesList, Does
    <3> QED
      BY <1>3, <3>1 DEF ListFresh
  <2>2. CASE Snapshot' = Snapshot
    <3>1. RefreshesList(calls[j]) => RefreshesList(d)
      BY <1>2 DEF RefreshesList
    <3> QED
      BY <1>3, <1>5, <2>2, <3>1 DEF ListFresh
  <2> QED
    BY <2>1, <2>2
<1>7. SheetFresh(sheet, takes', ds, excuse)
  <2>1. CASE sheet # NoSheet /\ takes'[sheet.take] # takes[sheet.take]
    <3>1. sheet.take \in DOMAIN takes
      BY <1>5, <2>1 DEF SheetFits
    <3>2. RefreshesSheet(d, sheet.take)
      BY <1>2, <1>4, <2>1, <3>1 DEF RefreshesSheet, Does
    <3> QED
      BY <1>3, <3>2 DEF SheetFresh
  <2>2. CASE sheet # NoSheet /\ takes'[sheet.take] = takes[sheet.take]
    <3>1. RefreshesSheet(calls[j], sheet.take) => RefreshesSheet(d, sheet.take)
      BY <1>2 DEF RefreshesSheet
    <3> QED
      BY <1>3, <1>5, <2>2, <3>1 DEF SheetFresh
  <2> QED
    BY <2>1, <2>2 DEF SheetFresh
<1>8. OrderFresh(po, orders', ds, excuse)
  <2>1. CASE "po" \in excuse \/ po = NoPO
    BY <2>1 DEF OrderFresh
  <2>2. CASE "po" \notin excuse /\ po # NoPO
    <3>1. po.order \in DOMAIN orders
      BY <1>5, <2>2 DEF OrderFits
    <3>2. /\ po.copy = orders[po.order] \/ \E k \in DOMAIN calls : RefreshesOrder(calls[k], po.order)
          /\ \A k \in DOMAIN calls : ~SubmitsLater(calls[k], po.order)
      BY <1>5, <2>2 DEF OrderFresh
    <3>3. RefreshesOrder(calls[j], po.order) => RefreshesOrder(d, po.order)
      BY <1>2 DEF RefreshesOrder
    <3>4. orders'[po.order] # orders[po.order] => RefreshesOrder(d, po.order)
      <4>1. ~SubmitsLater(c, po.order)
        BY <3>2
      <4> QED
        BY <1>2, <1>4, <3>1, <4>1 DEF RefreshesOrder, SubmitsLater
    <3>5. ~SubmitsLater(d, po.order)
      <4>1. CASE r.op = "create_order" /\ d.ok
        <5>1. d.data.order = Len(orders')
          BY <1>2, <1>4, <4>1, DataFits
        <5>2. Does(r)
          BY <1>2, <4>1 DEF Does, Plain
        <5>3. Len(orders') \notin DOMAIN orders
          BY <1>1, <4>1, <5>2, OrdersAfter DEF PInv, Served, Does
        <5> QED
          BY <1>2, <3>1, <4>1, <5>1, <5>3 DEF SubmitsLater
      <4>2. CASE ~(r.op = "create_order" /\ d.ok)
        BY <1>2, <4>2 DEF SubmitsLater
      <4> QED
        BY <4>1, <4>2
    <3> QED
      BY <1>3, <3>2, <3>3, <3>4, <3>5 DEF OrderFresh
  <2> QED
    BY <2>1, <2>2
<1>9. FieldsFresh(typed, takes', ds, excuse)
  <2>1. CASE "typed" \in excuse
    BY <2>1 DEF FieldsFresh
  <2>2. CASE "typed" \notin excuse
    <3> SUFFICES ASSUME NEW x \in DOMAIN typed
                 PROVE  /\ \/ takes'[x[1]].lines[x[2]].done /\ takes'[x[1]].lines[x[2]].counted = typed[x]
                           \/ \E m \in DOMAIN ds : OnItsWay(ds[m], x)
                        /\ \A m \in DOMAIN ds : OnItsWay(ds[m], x) => ds[m].req.n = typed[x]
      BY DEF FieldsFresh
    <3>1. /\ \/ takes[x[1]].lines[x[2]].done /\ takes[x[1]].lines[x[2]].counted = typed[x]
             \/ \E k \in DOMAIN calls : OnItsWay(calls[k], x)
          /\ \A k \in DOMAIN calls : OnItsWay(calls[k], x) => calls[k].req.n = typed[x]
      BY <1>5, <2>2 DEF FieldsFresh
    <3>2. x[1] \in DOMAIN takes /\ x[2] \in DOMAIN takes[x[1]].lines
      BY <1>5 DEF TypedFits
    <3>3. ~OnItsWay(d, x)
      BY <1>2 DEF OnItsWay
    <3>4. \A m \in DOMAIN ds : OnItsWay(ds[m], x) => m \in DOMAIN calls \ {j} /\ ds[m] = calls[m]
      BY <1>3, <3>3
    <3>5. CASE r.op # "count"
      <4>1. takes'[x[1]].lines = takes[x[1]].lines /\ ~OnItsWay(calls[j], x)
        BY <1>4, <3>2, <3>5 DEF OnItsWay
      <4> QED
        BY <1>3, <3>1, <3>4, <4>1
    <3>6. CASE r.op = "count"
      <4>1. Perform(r) /\ r \in Request /\ OnPaper(r)
        BY <1>1, <3>6 DEF Served, Does, Granted, ManagersOnly, Accepts, Plain
      <4>2. /\ takes'[r.take].lines[r.item].done /\ takes'[r.take].lines[r.item].counted = r.n
            /\ \A i \in DOMAIN takes[r.take].lines \ {r.item} :
                  takes'[r.take].lines[i] = takes[r.take].lines[i]
        BY <3>6, <4>1, TakesAfter DEF PInv
      <4>3. CASE x[1] = r.take /\ x[2] = r.item
        <5>1. OnItsWay(calls[j], x)
          BY <3>6, <4>3 DEF OnItsWay
        <5>2. r.n = typed[x]
          BY <3>1, <5>1
        <5> QED
          BY <3>1, <3>4, <4>2, <4>3, <5>2
      <4>4. CASE ~(x[1] = r.take /\ x[2] = r.item)
        <5>1. ~OnItsWay(calls[j], x)
          BY <3>6, <4>4 DEF OnItsWay
        <5>2. takes'[x[1]].lines[x[2]] = takes[x[1]].lines[x[2]]
          BY <1>4, <3>2, <4>2, <4>4
        <5> QED
          BY <1>3, <3>1, <3>4, <5>1, <5>2
      <4> QED
        BY <4>3, <4>4
    <3> QED
      BY <3>5, <3>6
  <2> QED
    BY <2>1, <2>2
<1> QED
  BY <1>6, <1>7, <1>8, <1>9 DEF Copies

\* A request is served: whatever it makes old, its own answer reads again.
LEMMA ServeKeeps ==
    ASSUME PInv, NEW j \in DOMAIN calls, Serve(j)
    PROVE  PInv' /\ [StockNext]_store
<1>1. PICK c : /\ c = calls[j] /\ c.phase = "sent" /\ Served(c.req)
               /\ calls' = IF ~c.heard THEN RemoveAt(calls, j) ELSE [calls EXCEPT ![j] = Reply(c)]
               /\ excuse' = IF c.heard THEN excuse ELSE Parts
               /\ UNCHANGED page
  BY DEF Serve, Served, Does, Reply
<1>2. UNCHANGED <<visit, list, sheet, typed, po, dialogs, card, picked, busy>>
  BY <1>1 DEF page
<1>3. c.req.op \notin Plain => c.req \in Request /\ OnPaper(c.req)
  BY <1>1 DEF PInv, CallsFit, Lawful, Written, OnPaper
<1>4. /\ [StockNext]_store /\ SInv' /\ \E T : batches' \in Seq(T)
      /\ Grows(takes, takes') /\ Grows(orders, orders')
  BY <1>1, <1>3, StoreAfter
<1>5. \A k \in DOMAIN calls \ {j} :
         CallFits(calls[k], takes', orders') /\ Lawful(calls[k], Request', takes', orders')
  BY <1>1, OthersFit
<1>6. ScreenFits(list', sheet', po', typed', dialogs', picked', takes', orders')
  BY <1>2, <1>4, ScreenFitsOn DEF PInv
<1>7. CASE c.heard
  <2> DEFINE d == Reply(c)
             ds == [calls EXCEPT ![j] = d]
  <2>1. CallFits(d, takes', orders') /\ Lawful(d, Request', takes', orders')
    BY <1>1, ReplyFits
  <2>2. d.req = c.req /\ d.calm = c.calm
    BY ReplyIs
  <2> HIDE DEF d
  <2>3. DOMAIN ds = DOMAIN calls /\ ds[j] = d /\ \A k \in DOMAIN calls \ {j} : ds[k] = calls[k]
    OBVIOUS
  <2>4. \E T : ds \in Seq(T)
    <3>1. PICK T : calls \in Seq(T)
      BY DEF PInv, CallsFit
    <3>2. calls \in Seq(T \cup {d})
      BY <3>1, SeqMonotonic
    <3>3. ds \in Seq(T \cup {d})
      BY <3>2
    <3> QED
      BY <3>3
  <2>5. Copies(list, sheet, po, typed, ds, excuse, Snapshot', takes', orders')
    BY <1>1, <1>7, ServedCopies DEF d
  <2>6. calls' = ds /\ excuse' = excuse
    BY <1>1, <1>7 DEF d
  <2> HIDE DEF ds
  <2>7. CallsFit(ds, Request', takes', orders')
    BY <1>5, <2>1, <2>3, <2>4 DEF CallsFit
  <2>8. Unhurried(ds)
    <3>1. \A k \in DOMAIN ds : k \in DOMAIN calls /\ ds[k].req = calls[k].req /\ ds[k].calm = calls[k].calm
      BY <1>1, <2>2, <2>3
    <3> QED
      BY <3>1 DEF PInv, Unhurried
  <2>9. CardFits(card')
    BY <1>2, <2>6 DEF PInv
  <2>10. visit' \in Visits
    BY <1>2 DEF PInv
  <2>11. Copies(list', sheet', po', typed', calls', excuse', Snapshot', takes', orders')
    BY <1>2, <2>5, <2>6
  <2> QED
    BY <1>4, <1>6, <2>6, <2>7, <2>8, <2>9, <2>10, <2>11, Together
<1>8. CASE ~c.heard
  <2>1. calls' = RemoveAt(calls, j) /\ excuse' = Parts
    BY <1>1, <1>8
  <2>2. Unhurried(calls')
    BY <2>1, Shorter DEF PInv
  <2>3. CallsFit(calls', Request', takes', orders')
    <3>1. /\ \E T : calls' \in Seq(T)
          /\ \A m \in DOMAIN calls' : \E k \in DOMAIN calls \ {j} : calls'[m] = calls[k]
      BY <2>1, Rest DEF PInv, CallsFit
    <3> QED
      BY <1>5, <3>1 DEF CallsFit
  <2>4. Copies(list', sheet', po', typed', calls', excuse', Snapshot', takes', orders')
    BY <2>1 DEF Copies, ListFresh, SheetFresh, OrderFresh, FieldsFresh, Parts
  <2>5. CardFits(card')
    BY <1>2, <2>1 DEF PInv, Parts
  <2>6. visit' \in Visits
    BY <1>2 DEF PInv
  <2> QED
    BY <1>4, <1>6, <2>2, <2>3, <2>4, <2>5, <2>6, Together
<1> QED
  BY <1>4, <1>7, <1>8

\* The point of sale sells: lists and sheets may be old from then on, and are excused.
LEMMA ElsewhereKeeps ==
    ASSUME PInv, Elsewhere
    PROVE  PInv' /\ [StockNext]_store
<1>1. /\ StockNext /\ paperVars' = paperVars
      /\ excuse' = excuse \cup {"list", "sheet"}
      /\ UNCHANGED <<calls, page>>
  <2>1. PICK i \in Active, n \in Amounts : SellsOrSpoils(i, n)
    BY DEF Elsewhere
  <2>2. i \in Items /\ n \in Nat \ {0}
    BY OnScreen
  <2>3. paperVars' = paperVars
    BY <2>1 DEF SellsOrSpoils, DeductStockOnSale, RecordSpoil
  <2> QED
    BY <2>1, <2>2, <2>3 DEF Elsewhere, StockNext
<1>2. UNCHANGED <<visit, list, sheet, typed, po, dialogs, card, picked, busy>>
  BY <1>1 DEF page
<1>3. takes' = takes /\ orders' = orders
  BY <1>1 DEF paperVars
<1>4. SInv' /\ (\E T : batches' \in Seq(T)) /\ Request \subseteq Request'
  <2>1. SInv'
    BY <1>1, NextKeeps DEF PInv
  <2>2. (\E T : batches' \in Seq(T)) /\ DOMAIN batches \subseteq DOMAIN batches'
    BY <1>1, BatchesAfter DEF PInv
  <2> QED
    BY <1>3, <2>1, <2>2, MoreMayBeAsked
<1>5. CallsFit(calls', Request', takes', orders') /\ Unhurried(calls')
  <2>1. \A k \in DOMAIN calls : Lawful(calls[k], Request', takes, orders)
    BY <1>4 DEF PInv, CallsFit, Lawful
  <2> QED
    BY <1>1, <1>3, <2>1 DEF PInv, CallsFit
<1>6. ScreenFits(list', sheet', po', typed', dialogs', picked', takes', orders')
  BY <1>2, <1>3 DEF PInv
<1>7. Copies(list', sheet', po', typed', calls', excuse', Snapshot', takes', orders')
  <2>1. ListFresh(list', Snapshot', calls', excuse') /\ SheetFresh(sheet', takes', calls', excuse')
    BY <1>1 DEF ListFresh, SheetFresh
  <2>2. OrderFresh(po, orders, calls, excuse) /\ FieldsFresh(typed, takes, calls, excuse)
    BY DEF PInv, Copies
  <2>3. ("po" \in excuse' <=> "po" \in excuse) /\ ("typed" \in excuse' <=> "typed" \in excuse)
    BY <1>1
  <2>4. OrderFresh(po', orders', calls', excuse') /\ FieldsFresh(typed', takes', calls', excuse')
    BY <1>1, <1>2, <1>3, <2>2, <2>3 DEF OrderFresh, FieldsFresh
  <2> QED
    BY <2>1, <2>4 DEF Copies
<1>8. CardFits(card')
  BY <1>1, <1>2 DEF PInv
<1>9. visit' \in Visits
  BY <1>2 DEF PInv
<1> QED
  BY <1>1, <1>4, <1>5, <1>6, <1>7, <1>8, <1>9, Together

\* An answer nobody waits for refreshes nothing.
LEMMA DropKeeps ==
    ASSUME PInv, NEW j \in DOMAIN calls, Drop(j)
    PROVE  PInv'
<1>1. /\ ~calls[j].heard /\ calls' = RemoveAt(calls, j)
      /\ UNCHANGED <<store, visit, list, sheet, typed, po, dialogs, card, picked, busy, excuse>>
  BY DEF Drop, page
<1>2. CallsFit(calls', Request, takes, orders) /\ Unhurried(calls')
  BY <1>1, Shorter DEF PInv
<1>3. /\ \A m \in DOMAIN calls' : \E k \in DOMAIN calls \ {j} : calls'[m] = calls[k]
      /\ \A k \in DOMAIN calls \ {j} : \E m \in DOMAIN calls' : calls'[m] = calls[k]
  BY <1>1, Rest DEF PInv, CallsFit
<1>4. /\ ~RefreshesList(calls[j])
      /\ \A t : ~RefreshesSheet(calls[j], t)
      /\ \A o : ~RefreshesOrder(calls[j], o)
      /\ \A x : ~OnItsWay(calls[j], x)
  BY <1>1 DEF RefreshesList, RefreshesSheet, RefreshesOrder, OnItsWay
<1>5. /\ ListFresh(list, Snapshot, calls, excuse) /\ SheetFresh(sheet, takes, calls, excuse)
      /\ OrderFresh(po, orders, calls, excuse) /\ FieldsFresh(typed, takes, calls, excuse)
  BY DEF PInv, Copies
<1>6. ListFresh(list, Snapshot, calls', excuse)
  BY <1>3, <1>4, <1>5, ListFreshOn
<1>7. SheetFresh(sheet, takes, calls', excuse)
  BY <1>3, <1>4, <1>5, SheetFreshOn
<1>8. OrderFresh(po, orders, calls', excuse)
  BY <1>3, <1>4, <1>5, OrderFreshOn
<1>9. FieldsFresh(typed, takes, calls', excuse)
  <2>1. \A x \in DOMAIN typed : \A k \in DOMAIN calls :
           OnItsWay(calls[k], x) => \E m \in DOMAIN calls' : OnItsWay(calls'[m], x)
    BY <1>3, <1>4
  <2>2. \A x \in DOMAIN typed : \A m \in DOMAIN calls' :
           OnItsWay(calls'[m], x) => \E k \in DOMAIN calls : OnItsWay(calls[k], x) /\ calls'[m].req = calls[k].req
    BY <1>3
  <2> QED
    BY <1>5, <2>1, <2>2, FieldsFreshOn
<1>10. Copies(list', sheet', po', typed', calls', excuse', Snapshot, takes, orders)
  BY <1>1, <1>6, <1>7, <1>8, <1>9 DEF Copies
<1>11. ScreenFits(list', sheet', po', typed', dialogs', picked', takes, orders)
  BY <1>1 DEF PInv
<1>12. CardFits(card')
  BY <1>1 DEF PInv
<1> QED
  BY <1>1, <1>2, <1>10, <1>11, <1>12, Settled

\* The screen opens with the first list on its way.
LEMMA InitFits == Init => PInv /\ StockInit
<1> SUFFICES ASSUME Init
             PROVE  PInv /\ StockInit
  OBVIOUS
<1>1. visit \in Visits /\ visit.opening \in Openings /\ StartsWith(visit.opening)
  BY VisitsAssumption DEF Init
<1>2. StockInit
  BY <1>1 DEF StockInit
<1>3. SInv
  BY <1>2, InitKeeps
<1>4. \E T : batches \in Seq(T)
  BY <1>1, StockAssumption DEF StartsWith
<1>5. /\ calls = <<Load>> /\ sheet = NoSheet /\ typed = <<>> /\ po = NoPO
      /\ list = [items |-> <<>>, takes |-> <<>>, orders |-> <<>>] /\ card = NoCard
      /\ dialogs = [k \in {Kinds[n] : n \in DOMAIN Kinds} |-> "none"] /\ picked = "none"
  BY DEF Init
<1>6. /\ Load.req.op = "load" /\ Load.heard /\ ~Load.calm
      /\ CallFits(Load, takes, orders) /\ Lawful(Load, Request, takes, orders)
  BY Called DEF Load, Call, CallFits, Leans, Lawful, Plain
<1> HIDE DEF Load
<1>7. calls \in Seq({Load}) /\ DOMAIN calls = {1} /\ calls[1] = Load
  BY <1>5
<1>8. CallsFit(calls, Request, takes, orders) /\ Unhurried(calls)
  BY <1>6, <1>7 DEF CallsFit, Unhurried
<1>9. DialogsFit(dialogs)
  <2>1. {"item", "recipe", "batches", "production"} \subseteq {Kinds[n] : n \in DOMAIN Kinds}
    <3>1. Kinds[1] = "item" /\ Kinds[2] = "recipe" /\ Kinds[6] = "batches" /\ Kinds[7] = "production"
      BY DEF Kinds
    <3>2. 1 \in DOMAIN Kinds /\ 2 \in DOMAIN Kinds /\ 6 \in DOMAIN Kinds /\ 7 \in DOMAIN Kinds
      BY DEF Kinds
    <3> QED
      BY <3>1, <3>2
  <2> QED
    BY <1>5, <2>1 DEF DialogsFit
<1>10. ScreenFits(list, sheet, po, typed, dialogs, picked, takes, orders)
  <2>1. ListFits(list, takes, orders)
    BY <1>5 DEF ListFits
  <2>2. TypedFits(typed, takes)
    BY <1>5 DEF TypedFits
  <2> QED
    BY <1>5, <1>9, <2>1, <2>2 DEF ScreenFits
<1>11. Copies(list, sheet, po, typed, calls, excuse, Snapshot, takes, orders)
  <2>1. RefreshesList(calls[1])
    BY <1>6, <1>7 DEF RefreshesList
  <2> QED
    BY <1>5, <1>7, <2>1 DEF Copies, ListFresh, SheetFresh, OrderFresh, FieldsFresh
<1>12. CardFits(card)
  BY <1>5 DEF CardFits, NoCard
<1> QED
  BY <1>1, <1>2, <1>3, <1>4, <1>8, <1>10, <1>11, <1>12 DEF PInv

-----------------------------------------------------------------------------
(* Answers.                                                                *)

\* What a handler asks next.
Polite(d) ==
    /\ d.heard /\ ~d.calm /\ d.phase = "sent"
    /\ d.req.op \in {"load", "get_take", "get_order", "submit_order", "batches", "expiring"}

LEMMA PoliteTogether ==
    ASSUME NEW a, NEW b, NEW R, NEW ts, NEW os, CallsFit(a, R, ts, os), CallsFit(b, R, ts, os),
           \A n \in DOMAIN a : Polite(a[n]), \A n \in DOMAIN b : Polite(b[n])
    PROVE  /\ CallsFit(a \o b, R, ts, os) /\ \A m \in DOMAIN (a \o b) : Polite((a \o b)[m])
           /\ \A n \in DOMAIN a : n \in DOMAIN (a \o b) /\ (a \o b)[n] = a[n]
           /\ \A m \in DOMAIN (a \o b) :
                 (\E n \in DOMAIN a : (a \o b)[m] = a[n]) \/ (\E n \in DOMAIN b : (a \o b)[m] = b[n])
<1>1. /\ \E T : a \o b \in Seq(T)
      /\ \A n \in DOMAIN a : n \in DOMAIN (a \o b) /\ (a \o b)[n] = a[n]
      /\ \A m \in DOMAIN (a \o b) :
           m \in DOMAIN a \/ \E n \in DOMAIN b : (a \o b)[m] = b[n]
  BY Behind DEF CallsFit
<1>2. \A m \in DOMAIN (a \o b) :
         (\E n \in DOMAIN a : (a \o b)[m] = a[n]) \/ (\E n \in DOMAIN b : (a \o b)[m] = b[n])
  BY <1>1
<1> DEFINE ds == a \o b
<1> HIDE DEF ds
<1>3. CallsFit(ds, R, ts, os) /\ \A m \in DOMAIN ds : Polite(ds[m])
  BY <1>1, <1>2 DEF CallsFit, ds
<1> QED
  BY <1>1, <1>2, <1>3 DEF ds

LEMMA PoliteOne ==
    ASSUME NEW d, NEW R, NEW ts, NEW os, CallFits(d, ts, os), Lawful(d, R, ts, os), Polite(d)
    PROVE  /\ CallsFit(<<d>>, R, ts, os) /\ DOMAIN <<d>> = {1} /\ <<d>>[1] = d
           /\ \A n \in DOMAIN <<d>> : Polite(<<d>>[n])
<1>1. <<d>> \in Seq({d}) /\ DOMAIN <<d>> = {1} /\ <<d>>[1] = d
  OBVIOUS
<1> QED
  BY <1>1 DEF CallsFit

LEMMA PoliteNone ==
    ASSUME NEW R, NEW ts, NEW os
    PROVE  CallsFit(<<>>, R, ts, os) /\ DOMAIN <<>> = {}
<1>1. <<>> \in Seq({}) /\ DOMAIN <<>> = {}
  OBVIOUS
<1> QED
  BY <1>1 DEF CallsFit

\* An answer c that is heard, or that fails.
Hears(c, ok) == ok = FALSE \/ (c.phase = "answered" /\ ok = c.ok)

Reads == {"load", "get_take", "get_order", "get_recipe", "batches", "expiring"}

\* What a handler asks next may be asked, and reads again what the answer made old.
LEMMA FollowsIs ==
    ASSUME PInv, NEW j \in DOMAIN calls, NEW c, c = calls[j], NEW ok, Hears(c, ok)
    PROVE  LET nx == Follows(c, ok) IN
           /\ CallsFit(nx, Request, takes, orders)
           /\ \A n \in DOMAIN nx : Polite(nx[n])
           /\ \A n \in DOMAIN nx : nx[n].req.op = "submit_order" =>
                 c.req.op = "create_order" /\ ok /\ nx[n].req.order = c.data.order
           /\ c.req.op = "count" =>
                 \E n \in DOMAIN nx : nx[n].req.op = "get_take" /\ nx[n].req.take = c.req.take
           /\ c.req.op = "receive" =>
                 \E n \in DOMAIN nx : nx[n].req.op = "get_order" /\ nx[n].req.order = c.req.order
           /\ c.req.op = "receive" \/ (ok /\ c.req.op \in LoadsAfter) =>
                 \E n \in DOMAIN nx : nx[n].req.op = "load"
           /\ c.req.op \in Reads => DOMAIN nx = {}
<1> DEFINE nx == Follows(c, ok)
           op == c.req.op
<1>1. CallFits(c, takes, orders) /\ Lawful(c, Request, takes, orders)
  BY DEF PInv, CallsFit
<1>0. ok => c.phase = "answered" /\ c.ok
  BY DEF Hears
<1>2. /\ {"load", "get_take", "get_order", "batches", "expiring"} \subseteq Plain
      /\ {"count", "receive"} \cap Plain = {}
  BY DEF Plain
<1>3. CallFits(Load, takes, orders) /\ Lawful(Load, Request, takes, orders) /\ Polite(Load) /\ Load.req.op = "load"
  BY <1>2, Called DEF Load, Call, CallFits, Leans, Lawful, Polite
<1>4. /\ CallFits(Expiring, takes, orders) /\ Lawful(Expiring, Request, takes, orders)
      /\ Polite(Expiring) /\ Expiring.req.op = "expiring"
  BY <1>2, Called DEF Expiring, Call, CallFits, Leans, Lawful, Polite
<1>5. CASE op = "count"
  <2> DEFINE d == GetTake(c.req.take, "count")
  <2>1. nx = <<d>>
    BY <1>5 DEF Follows, LoadsAfter
  <2>2. c.req.take \in DOMAIN takes
    BY <1>1, <1>2, <1>5, AskedFor DEF Lawful
  <2>3. d.req.op = "get_take" /\ d.req.take = c.req.take
    BY DEF GetTake, Call
  <2>4. CallFits(d, takes, orders) /\ Lawful(d, Request, takes, orders) /\ Polite(d)
    BY <1>2, <2>2 DEF GetTake, Call, CallFits, Leans, Lawful, Polite
  <2> HIDE DEF d, nx
  <2>5. /\ CallsFit(nx, Request, takes, orders) /\ DOMAIN nx = {1} /\ nx[1] = d
        /\ \A n \in DOMAIN nx : Polite(nx[n])
    BY <2>1, <2>4, PoliteOne
  <2> QED
    BY <1>5, <2>3, <2>5 DEF nx, Reads, LoadsAfter
<1>6. CASE op = "receive"
  <2> DEFINE d == GetOrder(c.req.order)
  <2>1. nx = <<d, Load>>
    BY <1>6 DEF Follows, LoadsAfter
  <2>2. c.req.order \in DOMAIN orders
    BY <1>1, <1>2, <1>6, AskedFor DEF Lawful
  <2>3. d.req.op = "get_order" /\ d.req.order = c.req.order
    BY DEF GetOrder, Call
  <2>4. CallFits(d, takes, orders) /\ Lawful(d, Request, takes, orders) /\ Polite(d)
    BY <1>2, <2>2 DEF GetOrder, Call, CallFits, Leans, Lawful, Polite
  <2> HIDE DEF d, nx
  <2>5. nx \in Seq({d, Load}) /\ DOMAIN nx = {1, 2} /\ nx[1] = d /\ nx[2] = Load
    BY <2>1
  <2>6. /\ CallsFit(nx, Request, takes, orders)
        /\ \A n \in DOMAIN nx : Polite(nx[n])
    BY <1>3, <2>4, <2>5 DEF CallsFit
  <2> QED
    BY <1>3, <1>6, <2>3, <2>5, <2>6 DEF nx, Reads
<1>7. CASE ok /\ op = "create_order"
  <2> DEFINE d == Call([op |-> "submit_order", order |-> c.data.order], Somewhere)
  <2>1. nx = <<d>>
    BY <1>7 DEF Follows, LoadsAfter
  <2>2. c.data.order \in DOMAIN orders
    BY <1>0, <1>1, <1>7 DEF CallFits, Brings
  <2>3. d.req.op = "submit_order" /\ d.req.order = c.data.order
    BY DEF Call
  <2>4. d.req \in Request /\ Written(d.req, takes, orders)
    BY <2>2 DEF Call, Request, Written
  <2>5. CallFits(d, takes, orders) /\ Lawful(d, Request, takes, orders) /\ Polite(d)
    BY <2>4 DEF Call, CallFits, Leans, Lawful, Polite
  <2> HIDE DEF d, nx
  <2>6. /\ CallsFit(nx, Request, takes, orders) /\ DOMAIN nx = {1} /\ nx[1] = d
        /\ \A n \in DOMAIN nx : Polite(nx[n])
    BY <2>1, <2>5, PoliteOne
  <2> QED
    BY <1>7, <2>3, <2>6 DEF nx, Reads, LoadsAfter
<1>8. CASE ok /\ op \in {"batch", "expiry"}
  <2> DEFINE d == GetBatches(c.at.part, c.at.item)
             es == IF c.at.part = "expiry" THEN <<Expiring>> ELSE IF op = "batch" THEN <<Load>> ELSE <<>>
  <2>1. nx = <<d>> \o es
    BY <1>8 DEF Follows, LoadsAfter
  <2>2. d.req.op = "batches"
    BY DEF GetBatches, Call
  <2>3. CallFits(d, takes, orders) /\ Lawful(d, Request, takes, orders) /\ Polite(d)
    BY <1>1, <1>2, <1>8 DEF GetBatches, Call, At, CallFits, Leans, Lawful, Polite
  <2>4. /\ CallsFit(es, Request, takes, orders)
        /\ \A n \in DOMAIN es : Polite(es[n]) /\ es[n].req.op # "submit_order"
    BY <1>3, <1>4, PoliteOne, PoliteNone
  <2> HIDE DEF d, nx, es
  <2>5. /\ CallsFit(<<d>>, Request, takes, orders) /\ DOMAIN <<d>> = {1} /\ <<d>>[1] = d
        /\ \A n \in DOMAIN <<d>> : Polite(<<d>>[n])
    BY <2>3, PoliteOne
  <2>6. /\ CallsFit(nx, Request, takes, orders) /\ \A m \in DOMAIN nx : Polite(nx[m])
        /\ \A m \in DOMAIN nx : nx[m] = d \/ (\E n \in DOMAIN es : nx[m] = es[n])
    BY <2>1, <2>4, <2>5, PoliteTogether
  <2>7. \A m \in DOMAIN nx : nx[m].req.op # "submit_order"
    BY <2>2, <2>4, <2>6
  <2> QED
    BY <1>8, <2>6, <2>7 DEF nx, Reads, LoadsAfter
<1>9. CASE ok /\ op \in LoadsAfter
  <2>1. nx = <<Load>>
    BY <1>9 DEF Follows, LoadsAfter
  <2> HIDE DEF nx
  <2>2. /\ CallsFit(nx, Request, takes, orders) /\ DOMAIN nx = {1} /\ nx[1] = Load
        /\ \A n \in DOMAIN nx : Polite(nx[n])
    BY <1>3, <2>1, PoliteOne
  <2> QED
    BY <1>3, <1>9, <2>2 DEF nx, Reads, LoadsAfter
<1>10. CASE /\ op \notin {"count", "receive"}
            /\ ~(ok /\ op \in {"create_order", "batch", "expiry"} \cup LoadsAfter)
  <2>1. nx = <<>>
    BY <1>10 DEF Follows
  <2> HIDE DEF nx
  <2>2. CallsFit(nx, Request, takes, orders) /\ DOMAIN nx = {}
    BY <2>1, PoliteNone
  <2> QED
    BY <1>10, <2>2 DEF nx
<1> QED
  BY <1>5, <1>6, <1>7, <1>8, <1>9, <1>10

\* Request d is one of cs; it is one of cs other than that at j.
Among(d, cs) == \E m \in DOMAIN cs : cs[m] = d
Besides(d, j, cs) == \E k \in DOMAIN cs \ {j} : d = cs[k]

\* What is under way when an answer has been heard.
LEMMA Heard ==
    ASSUME PInv, NEW j \in DOMAIN calls, NEW c, c = calls[j], NEW ok, Hears(c, ok),
           NEW nx, nx = Follows(c, ok), NEW ds, ds = RemoveAt(calls, j) \o nx
    PROVE  /\ CallsFit(ds, Request, takes, orders) /\ Unhurried(ds)
           /\ \A k \in DOMAIN calls \ {j} : Among(calls[k], ds)
           /\ \A n \in DOMAIN nx : Among(nx[n], ds)
           /\ \A m \in DOMAIN ds : Besides(ds[m], j, calls) \/ Among(ds[m], nx)
<1> DEFINE rs == RemoveAt(calls, j)
<1>0. ds = rs \o nx
  OBVIOUS
<1>1. /\ \A m \in DOMAIN rs : \E k \in DOMAIN calls \ {j} : rs[m] = calls[k]
      /\ \A k \in DOMAIN calls \ {j} : \E m \in DOMAIN rs : rs[m] = calls[k]
  BY Rest DEF PInv, CallsFit
<1>2. CallsFit(rs, Request, takes, orders) /\ Unhurried(rs)
  BY Shorter DEF PInv
<1> HIDE DEF rs
<1>3. CallsFit(nx, Request, takes, orders) /\ \A n \in DOMAIN nx : Polite(nx[n])
  BY FollowsIs
<1>5. CallsFit(ds, Request, takes, orders) /\ Unhurried(ds)
  <2>1. \A n \in DOMAIN nx : ~nx[n].calm /\ nx[n].req.op \notin {"receive", "count"}
    BY <1>3 DEF Polite
  <2> QED
    BY <1>2, <1>3, <1>0, <2>1, Longer
<1>6. /\ \A k \in DOMAIN rs : k \in DOMAIN ds /\ ds[k] = rs[k]
      /\ \A n \in DOMAIN nx : Len(rs) + n \in DOMAIN ds /\ ds[Len(rs) + n] = nx[n]
      /\ \A m \in DOMAIN ds : m \in DOMAIN rs \/ \E n \in DOMAIN nx : ds[m] = nx[n]
  <2>1. (\E T : rs \in Seq(T)) /\ (\E T : nx \in Seq(T))
    BY <1>2, <1>3 DEF CallsFit
  <2>2. /\ \A k \in DOMAIN rs : k \in DOMAIN (rs \o nx) /\ (rs \o nx)[k] = rs[k]
        /\ \A n \in DOMAIN nx : Len(rs) + n \in DOMAIN (rs \o nx) /\ (rs \o nx)[Len(rs) + n] = nx[n]
        /\ \A m \in DOMAIN (rs \o nx) :
             m \in DOMAIN rs \/ \E n \in DOMAIN nx : (rs \o nx)[m] = nx[n]
    BY <2>1, Behind
  <2> QED
    BY <1>0, <2>2
<1>7. \A n \in DOMAIN nx : Among(nx[n], ds)
  BY <1>6 DEF Among
<1>8. \A k \in DOMAIN calls \ {j} : Among(calls[k], ds)
  BY <1>1, <1>6 DEF Among
<1>9. \A m \in DOMAIN ds : Besides(ds[m], j, calls) \/ Among(ds[m], nx)
  <2> SUFFICES ASSUME NEW m \in DOMAIN ds
               PROVE  Besides(ds[m], j, calls) \/ Among(ds[m], nx)
    OBVIOUS
  <2>1. CASE m \in DOMAIN rs
    <3>1. ds[m] = rs[m]
      BY <1>6, <2>1
    <3>2. \E k \in DOMAIN calls \ {j} : rs[m] = calls[k]
      BY <1>1, <2>1
    <3> QED
      BY <3>1, <3>2 DEF Besides
  <2> QED
    BY <1>6, <2>1 DEF Among
<1> QED
  BY <1>5, <1>7, <1>8, <1>9

\* What the screen shows then.
LEMMA ShownFits ==
    ASSUME PInv, NEW j \in DOMAIN calls, NEW c, c = calls[j], NEW ok, Hears(c, ok),
           NEW rest, GoOn(j, ok, rest)
    PROVE  /\ ScreenFits(list', sheet', po', typed', dialogs', picked', takes, orders)
           /\ CardFits(card')
           /\ dialogs'["recipe"] \in {dialogs["recipe"], "none"}
<1> DEFINE op == c.req.op
<1>1. /\ CallFits(c, takes, orders) /\ Lawful(c, Request, takes, orders)
      /\ ok => Brings(c, takes, orders) /\ c.ok
  BY DEF PInv, CallsFit, CallFits, Hears
<1>2. ListFits(list, takes, orders) /\ TypedFits(typed, takes) /\ DialogsFit(dialogs)
  BY DEF PInv, ScreenFits
<1>3. ListFits(list', takes, orders)
  <2>1. list' = List(c, ok)
    BY DEF GoOn
  <2>2. CASE ok /\ op = "load"
    <3>1. list' = c.data
      BY <2>1, <2>2 DEF List
    <3> QED
      BY <1>1, <2>2, <3>1 DEF Brings
  <2>3. CASE ok /\ op = "price" /\ c.req.item \in Listed
    <3>1. list' = [list EXCEPT !.items[c.req.item] = c.data]
      BY <2>1, <2>3 DEF List
    <3>2. /\ DOMAIN list' = DOMAIN list /\ DOMAIN list'.items = DOMAIN list.items
          /\ list'.takes = list.takes /\ list'.orders = list.orders
      BY <1>2, <3>1 DEF ListFits
    <3> QED
      BY <1>2, <3>2 DEF ListFits
  <2>4. CASE ~(ok /\ op = "load") /\ ~(ok /\ op = "price" /\ c.req.item \in Listed)
    <3>1. list' = list
      BY <2>1, <2>4 DEF List
    <3> QED
      BY <1>2, <3>1
  <2> QED
    BY <2>2, <2>3, <2>4
<1>4. sheet' = NoSheet \/ SheetFits(sheet', takes)
  <2>1. sheet' = IF ok /\ op \in {"start_take", "get_take", "complete_take"} THEN c.data ELSE sheet
    BY DEF GoOn
  <2>2. sheet = NoSheet \/ SheetFits(sheet, takes)
    BY DEF PInv, ScreenFits
  <2> QED
    BY <1>1, <2>1, <2>2 DEF Brings
<1>5. po' = NoPO \/ OrderFits(po', orders)
  <2>1. po' = IF ok /\ op = "get_order" THEN c.data ELSE po
    BY DEF GoOn
  <2>2. po = NoPO \/ OrderFits(po, orders)
    BY DEF PInv, ScreenFits
  <2> QED
    BY <1>1, <2>1, <2>2 DEF Brings
<1>6. TypedFits(typed', takes)
  <2>1. typed' = IF ok /\ op = "start_take" THEN <<>>
                 ELSE IF ok /\ op = "get_take" /\ c.at.part = "open" THEN Counts(c.data)
                 ELSE typed
    BY DEF GoOn
  <2>2. CASE ok /\ op = "start_take"
    <3>1. typed' = <<>>
      BY <2>1, <2>2
    <3> QED
      BY <3>1 DEF TypedFits
  <2>3. CASE ok /\ op = "get_take" /\ c.at.part = "open"
    <3>1. typed' = Counts(c.data)
      BY <2>1, <2>3
    <3>2. SheetFits(c.data, takes)
      BY <1>1, <2>3 DEF Brings
    <3>3. DOMAIN typed' = {<<c.data.take, i>> : i \in {i \in DOMAIN c.data.copy.lines : c.data.copy.lines[i].done}}
      BY <3>1 DEF Counts
    <3>4. ASSUME NEW x \in DOMAIN typed'
          PROVE  x = <<x[1], x[2]>> /\ x[1] \in DOMAIN takes /\ x[2] \in DOMAIN takes[x[1]].lines
      <4>1. PICK i \in DOMAIN c.data.copy.lines : x = <<c.data.take, i>>
        BY <3>3
      <4> QED
        BY <3>2, <4>1 DEF SheetFits
    <3> QED
      BY <3>4 DEF TypedFits
  <2>4. CASE ~(ok /\ op = "start_take") /\ ~(ok /\ op = "get_take" /\ c.at.part = "open")
    BY <1>2, <2>1, <2>4
  <2> QED
    BY <2>2, <2>3, <2>4
<1>7. DialogsFit(dialogs') /\ dialogs'["recipe"] \in {dialogs["recipe"], "none"}
  <2>1. dialogs' = Dialogs(c, ok)
    BY DEF GoOn
  <2>2. PICK k, i : dialogs' = dialogs \/ (/\ dialogs' = [dialogs EXCEPT ![k] = i]
                                           /\ k = "recipe" => i = "none"
                                           /\ i \in Items \cup {"none"})
    <3>1. CASE ~ok
      BY <2>1, <3>1 DEF Dialogs
    <3>2. CASE ok /\ op \in {"create", "update"}
      <4>1. dialogs' = [dialogs EXCEPT !["item"] = "none"]
        BY <2>1, <3>2 DEF Dialogs
      <4> QED
        BY <4>1
    <3>3. CASE ok /\ op \in {"category", "supplier"}
      <4>1. dialogs' = [dialogs EXCEPT ![op] = "none"]
        BY <2>1, <3>3 DEF Dialogs
      <4> QED
        BY <3>3, <4>1
    <3>4. CASE ok /\ op = "submit_order"
      <4>1. dialogs' = [dialogs EXCEPT !["order"] = "none"]
        BY <2>1, <3>4 DEF Dialogs
      <4> QED
        BY <4>1
    <3>5. CASE ok /\ op = "set_recipe"
      <4>1. dialogs' = [dialogs EXCEPT !["recipe"] = "none"]
        BY <2>1, <3>5 DEF Dialogs
      <4> QED
        BY <4>1
    <3>6. CASE ok /\ op \in {"batch", "expiry"}
      <4>1. dialogs' = dialogs \/ dialogs' = [dialogs EXCEPT !["batches"] = c.at.item]
        BY <2>1, <3>6 DEF Dialogs
      <4>2. c.at.item \in Items
        BY <1>1, <3>6 DEF CallFits
      <4> QED
        BY <4>1, <4>2
    <3>7. CASE ok /\ op \in {"process", "complete"}
      <4>1. dialogs' = dialogs \/ dialogs' = [dialogs EXCEPT !["production"] = c.req.item]
        BY <2>1, <3>7 DEF Dialogs
      <4>2. c.req.item \in Items
        BY <1>1, <3>7, AskedFor DEF Lawful, Plain
      <4> QED
        BY <4>1, <4>2
    <3>8. CASE ok /\ op \notin {"create", "update", "category", "supplier", "submit_order",
                                "set_recipe", "batch", "expiry", "process", "complete"}
      BY <2>1, <3>8 DEF Dialogs
    <3> QED
      BY <3>1, <3>2, <3>3, <3>4, <3>5, <3>6, <3>7, <3>8
  <2>3. CASE dialogs' = dialogs
    BY <1>2, <2>3
  <2>4. CASE /\ dialogs' = [dialogs EXCEPT ![k] = i]
             /\ k = "recipe" => i = "none"
             /\ i \in Items \cup {"none"}
    <3>1. /\ DOMAIN dialogs' = DOMAIN dialogs
          /\ \A m \in DOMAIN dialogs : dialogs'[m] = IF m = k THEN i ELSE dialogs[m]
      BY <2>4
    <3> QED
      BY <1>2, <2>4, <3>1 DEF DialogsFit
  <2> QED
    BY <2>2, <2>3, <2>4
<1>8. picked' \in Items \cup {"none"}
  <2>1. picked' = IF ok /\ op \in {"batch", "expiry"} /\ c.at.part = "expiry" THEN c.at.item ELSE picked
    BY DEF GoOn
  <2>2. picked \in Items \cup {"none"}
    BY DEF PInv, ScreenFits
  <2> QED
    BY <1>1, <2>1, <2>2 DEF CallFits
<1>9. CardFits(card')
  <2>1. card' = IF op # "get_recipe" THEN card ELSE IF ok THEN c.data ELSE NoCard
    BY DEF GoOn, Card
  <2>2. CardFits(card) /\ CardFits(NoCard)
    BY DEF PInv, CardFits, NoCard
  <2> QED
    BY <1>1, <2>1, <2>2 DEF Brings
<1> QED
  BY <1>3, <1>4, <1>5, <1>6, <1>7, <1>8, <1>9 DEF ScreenFits

\* An answer, by what it brought and what the history notes of it.
LEMMA AnswerIs ==
    ASSUME PInv, NEW j \in DOMAIN calls, NEW c, c = calls[j], Answer(j)
    PROVE  /\ CallFits(c, takes, orders) /\ Brings(c, takes, orders)
           /\ c.phase = "answered" /\ c.heard /\ Hears(c, c.ok)
           /\ GoOn(j, c.ok, RemoveAt(calls, j))
           /\ UNCHANGED <<store, visit>>
  BY DEF PInv, CallsFit, CallFits, Hears, Answer, GoOn

LEMMA ExcuseAfter ==
    ASSUME NEW j \in DOMAIN calls, NEW c, c = calls[j], Answer(j)
    PROVE  /\ IF c.req.op = "load" THEN "list" \in excuse' \/ c.data = Snapshot
              ELSE "list" \in excuse => "list" \in excuse'
           /\ c.req.op = "create_order" => "list" \in excuse'
           /\ c.req.op = "price" /\ c.ok /\ c.req.item \in Active =>
                 "list" \in excuse' \/ c.data = Row(c.req.item)
           /\ IF c.req.op = "get_take" THEN "sheet" \in excuse' \/ c.data.copy = takes[c.req.take]
              ELSE IF c.ok /\ c.req.op \in {"start_take", "complete_take"}
              THEN "sheet" \in excuse' \/ c.data.copy = takes[c.data.take]
              ELSE "sheet" \in excuse => "sheet" \in excuse'
           /\ IF c.req.op = "get_take" /\ c.at.part = "open"
              THEN \/ "typed" \in excuse'
                   \/ /\ c.data.copy = takes[c.req.take]
                      /\ \A k \in DOMAIN calls : calls[k].req.op # "count"
              ELSE "typed" \in excuse => "typed" \in excuse'
           /\ IF c.req.op = "get_order"
              THEN \/ "po" \in excuse'
                   \/ /\ c.data.copy = orders[c.req.order]
                      /\ \A k \in DOMAIN calls \ {j} : calls[k].req.op \in Plain
              ELSE "po" \in excuse => "po" \in excuse'
           /\ IF c.req.op = "get_recipe" THEN "recipe" \in excuse' \/ c.at.item = dialogs["recipe"]
              ELSE "recipe" \in excuse => "recipe" \in excuse'
<1> DEFINE op == c.req.op
<1>1. excuse' =
             CASE op = "load" -> Excused("list", c.data = Snapshot)
               [] op = "price" /\ c.ok /\ c.req.item \in Active /\ c.data # Row(c.req.item) ->
                    excuse \cup {"list"}
               [] op = "create_order" -> excuse \cup {"list"}
               [] op \in {"start_take", "complete_take"} /\ c.ok ->
                    Excused("sheet", c.data.copy = takes[c.data.take])
               [] op = "get_take" /\ c.at.part = "open" ->
                    Unless(Excused("sheet", c.data.copy = takes[c.req.take]), "typed",
                           /\ c.data.copy = takes[c.req.take]
                           /\ \A k \in DOMAIN calls : calls[k].req.op # "count")
               [] op = "get_take" /\ c.at.part # "open" ->
                    Excused("sheet", c.data.copy = takes[c.req.take])
               [] op = "get_order" ->
                    Excused("po", /\ c.data.copy = orders[c.req.order]
                                  /\ \A k \in DOMAIN calls \ {j} : calls[k].req.op \in Plain)
               [] op = "get_recipe" -> Excused("recipe", c.at.item = dialogs["recipe"])
               [] OTHER -> excuse
  BY DEF Answer
<1>2. CASE op = "load"
  <2>1. excuse' = Excused("list", c.data = Snapshot)
    BY <1>1, <1>2
  <2> QED
    BY <1>2, <2>1 DEF Excused, Unless
<1>3. CASE op = "price"
  <2>1. \/ excuse' = excuse \cup {"list"}
        \/ excuse' = excuse /\ ~(c.ok /\ c.req.item \in Active /\ c.data # Row(c.req.item))
    BY <1>1, <1>3
  <2> QED
    BY <1>3, <2>1
<1>4. CASE op = "create_order"
  <2>1. excuse' = excuse \cup {"list"}
    BY <1>1, <1>4
  <2> QED
    BY <1>4, <2>1
<1>5. CASE op \in {"start_take", "complete_take"}
  <2>1. IF c.ok THEN excuse' = Excused("sheet", c.data.copy = takes[c.data.take]) ELSE excuse' = excuse
    BY <1>1, <1>5
  <2> QED
    BY <1>5, <2>1 DEF Excused, Unless
<1>6. CASE op = "get_take" /\ c.at.part = "open"
  <2>1. excuse' = Unless(Excused("sheet", c.data.copy = takes[c.req.take]), "typed",
                         /\ c.data.copy = takes[c.req.take]
                         /\ \A k \in DOMAIN calls : calls[k].req.op # "count")
    BY <1>1, <1>6
  <2> QED
    BY <1>6, <2>1 DEF Excused, Unless
<1>7. CASE op = "get_take" /\ c.at.part # "open"
  <2>1. excuse' = Excused("sheet", c.data.copy = takes[c.req.take])
    BY <1>1, <1>7
  <2> QED
    BY <1>7, <2>1 DEF Excused, Unless
<1>8. CASE op = "get_order"
  <2>1. excuse' = Excused("po", /\ c.data.copy = orders[c.req.order]
                                /\ \A k \in DOMAIN calls \ {j} : calls[k].req.op \in Plain)
    BY <1>1, <1>8
  <2> QED
    BY <1>8, <2>1 DEF Excused, Unless
<1>9. CASE op = "get_recipe"
  <2>1. excuse' = Excused("recipe", c.at.item = dialogs["recipe"])
    BY <1>1, <1>9
  <2> QED
    BY <1>9, <2>1 DEF Excused, Unless
<1>10. CASE op \notin {"load", "price", "create_order", "start_take", "complete_take", "get_take",
                       "get_order", "get_recipe"}
  <2>1. excuse' = excuse
    BY <1>1, <1>10
  <2> QED
    BY <1>10, <2>1
<1> QED
  BY <1>2, <1>3, <1>4, <1>5, <1>6, <1>7, <1>8, <1>9, <1>10

\* The recipe dialog.
LEMMA CardHeard ==
    ASSUME PInv, NEW j \in DOMAIN calls, NEW c, c = calls[j], Answer(j)
    PROVE  CardFits(card')
<1>1. /\ CallFits(c, takes, orders) /\ Brings(c, takes, orders) /\ Hears(c, c.ok)
      /\ GoOn(j, c.ok, RemoveAt(calls, j))
  BY AnswerIs
<1> QED
  BY <1>1, ShownFits

\* The requests that are still under way, and those that follow.
LEMMA Left ==
    ASSUME PInv, NEW j \in DOMAIN calls, NEW c, c = calls[j], Answer(j),
           NEW nx, nx = Follows(c, c.ok)
    PROVE  /\ \A k \in DOMAIN calls \ {j} : Among(calls[k], calls')
           /\ \A n \in DOMAIN nx : Among(nx[n], calls')
           /\ \A m \in DOMAIN calls' : Besides(calls'[m], j, calls) \/ Among(calls'[m], nx)
           /\ \A n \in DOMAIN nx : Polite(nx[n])
           /\ \A n \in DOMAIN nx : nx[n].req.op = "submit_order" =>
                 c.req.op = "create_order" /\ c.ok /\ nx[n].req.order = c.data.order
           /\ c.req.op = "count" =>
                 \E n \in DOMAIN nx : nx[n].req.op = "get_take" /\ nx[n].req.take = c.req.take
           /\ c.req.op = "receive" =>
                 \E n \in DOMAIN nx : nx[n].req.op = "get_order" /\ nx[n].req.order = c.req.order
           /\ c.req.op = "receive" \/ (c.ok /\ c.req.op \in LoadsAfter) =>
                 \E n \in DOMAIN nx : nx[n].req.op = "load"
           /\ c.req.op \in Reads => DOMAIN nx = {}
           /\ CallsFit(calls', Request, takes, orders) /\ Unhurried(calls')
<1>1. Hears(c, c.ok)
  BY AnswerIs
<1>2. PICK ds : ds = RemoveAt(calls, j) \o nx
  OBVIOUS
<1>3. calls' = ds
  BY <1>2 DEF Answer, GoOn
<1>4. /\ CallsFit(ds, Request, takes, orders) /\ Unhurried(ds)
      /\ \A k \in DOMAIN calls \ {j} : Among(calls[k], ds)
      /\ \A n \in DOMAIN nx : Among(nx[n], ds)
      /\ \A m \in DOMAIN ds : Besides(ds[m], j, calls) \/ Among(ds[m], nx)
  BY <1>1, <1>2, Heard
<1>5. /\ \A n \in DOMAIN nx : Polite(nx[n])
      /\ \A n \in DOMAIN nx : nx[n].req.op = "submit_order" =>
            c.req.op = "create_order" /\ c.ok /\ nx[n].req.order = c.data.order
      /\ c.req.op = "count" =>
            \E n \in DOMAIN nx : nx[n].req.op = "get_take" /\ nx[n].req.take = c.req.take
      /\ c.req.op = "receive" =>
            \E n \in DOMAIN nx : nx[n].req.op = "get_order" /\ nx[n].req.order = c.req.order
      /\ c.req.op = "receive" \/ (c.ok /\ c.req.op \in LoadsAfter) =>
            \E n \in DOMAIN nx : nx[n].req.op = "load"
      /\ c.req.op \in Reads => DOMAIN nx = {}
  BY <1>1, FollowsIs
<1> QED
  BY <1>3, <1>4, <1>5

LEMMA ListHeard ==
    ASSUME PInv, NEW j \in DOMAIN calls, NEW c, c = calls[j], Answer(j)
    PROVE  ListFresh(list', Snapshot, calls', excuse')
<1> DEFINE op == c.req.op
<1>1. PICK nx : nx = Follows(c, c.ok)
  OBVIOUS
<1>0. \A n \in DOMAIN nx : Polite(nx[n])
  BY <1>1, Left
<1>2. Brings(c, takes, orders) /\ c.phase = "answered" /\ list' = List(c, c.ok)
  BY AnswerIs DEF GoOn
<1>3. ListFresh(list, Snapshot, calls, excuse)
  BY DEF PInv, Copies
<1>4. SUFFICES ASSUME "list" \notin excuse'
               PROVE  ListFresh(list', Snapshot, calls', excuse')
  BY DEF ListFresh
<1>5. CASE op = "load"
  <2>1. c.ok /\ c.data = Snapshot
    BY <1>2, <1>4, <1>5, ExcuseAfter DEF Brings
  <2>2. list' = c.data
    BY <1>2, <1>5, <2>1 DEF List
  <2> QED
    BY <2>1, <2>2 DEF ListFresh
<1>6. CASE op = "receive" \/ (c.ok /\ op \in LoadsAfter)
  <2>1. PICK n \in DOMAIN nx : nx[n].req.op = "load"
    BY <1>1, <1>6, Left
  <2>2. RefreshesList(nx[n])
    BY <1>0, <2>1 DEF RefreshesList, Polite
  <2>3. Among(nx[n], calls')
    BY <1>1, Left
  <2> QED
    BY <2>2, <2>3 DEF ListFresh, Among, Besides
<1>7. CASE op = "create_order"
  BY <1>4, <1>7, ExcuseAfter
<1>8. CASE op \notin {"load", "receive", "create_order"} /\ ~(c.ok /\ op \in LoadsAfter)
  <2>1. "list" \notin excuse
    BY <1>4, <1>8, ExcuseAfter
  <2>2. ~RefreshesList(c)
    BY <1>8 DEF RefreshesList
  <2>3. CASE \E k \in DOMAIN calls : RefreshesList(calls[k])
    <3>1. PICK k \in DOMAIN calls : RefreshesList(calls[k])
      BY <2>3
    <3>2. k \in DOMAIN calls \ {j}
      BY <2>2, <3>1
    <3>3. Among(calls[k], calls')
      BY <1>1, <3>2, Left
    <3> QED
      BY <3>1, <3>3 DEF ListFresh, Among, Besides
  <2>4. CASE list = Snapshot
    <3>1. CASE c.ok /\ op = "price" /\ c.req.item \in Listed
      <4>1. list' = [list EXCEPT !.items[c.req.item] = c.data]
        BY <1>2, <3>1 DEF List
      <4>2. Listed = Active
        BY <2>4 DEF Listed, Snapshot
      <4>3. c.data = Row(c.req.item)
        BY <1>4, <3>1, <4>2, ExcuseAfter
      <4>4. list.items[c.req.item] = c.data
        BY <2>4, <3>1, <4>2, <4>3 DEF Snapshot
      <4>5. [list.items EXCEPT ![c.req.item] = c.data] = list.items
        <5>1. list.items = [i \in Active |-> Row(i)]
          BY <2>4 DEF Snapshot
        <5> QED
          BY <4>4, <5>1
      <4>6. list = [items |-> list.items, takes |-> list.takes, orders |-> list.orders]
        BY <2>4 DEF Snapshot
      <4>7. [list EXCEPT !.items[c.req.item] = c.data] = [list EXCEPT !.items = list.items]
        BY <4>5, <4>6
      <4>8. [list EXCEPT !.items = list.items] = list
        BY <4>6
      <4> QED
        BY <2>4, <4>1, <4>7, <4>8 DEF ListFresh
    <3>2. CASE ~(c.ok /\ op = "price" /\ c.req.item \in Listed)
      <4>1. list' = list
        BY <1>2, <1>8, <3>2 DEF List
      <4> QED
        BY <2>4, <4>1 DEF ListFresh
    <3> QED
      BY <3>1, <3>2
  <2> QED
    BY <1>3, <2>1, <2>3, <2>4 DEF ListFresh
<1> QED
  BY <1>5, <1>6, <1>7, <1>8

LEMMA SheetHeard ==
    ASSUME PInv, NEW j \in DOMAIN calls, NEW c, c = calls[j], Answer(j)
    PROVE  SheetFresh(sheet', takes, calls', excuse')
<1> DEFINE op == c.req.op
<1>1. PICK nx : nx = Follows(c, c.ok)
  OBVIOUS
<1>0. \A n \in DOMAIN nx : Polite(nx[n])
  BY <1>1, Left
<1>2. /\ Brings(c, takes, orders) /\ c.phase = "answered"
      /\ sheet' = IF c.ok /\ op \in {"start_take", "get_take", "complete_take"} THEN c.data ELSE sheet
  BY AnswerIs DEF GoOn
<1>3. CASE op = "get_take" \/ (c.ok /\ op \in {"start_take", "complete_take"})
  <2>1. sheet' = c.data
    BY <1>2, <1>3 DEF Brings
  <2>2. "sheet" \in excuse' \/ c.data.copy = takes[c.data.take]
    BY <1>2, <1>3, ExcuseAfter DEF Brings
  <2> QED
    BY <2>1, <2>2 DEF SheetFresh
<1>4. CASE ~(op = "get_take" \/ (c.ok /\ op \in {"start_take", "complete_take"}))
  <2>1. sheet' = sheet /\ ("sheet" \in excuse => "sheet" \in excuse')
    BY <1>2, <1>4, ExcuseAfter
  <2>2. \A k \in DOMAIN calls : RefreshesSheet(calls[k], sheet.take) =>
           \E m \in DOMAIN calls' : RefreshesSheet(calls'[m], sheet.take)
    <3> SUFFICES ASSUME NEW k \in DOMAIN calls, RefreshesSheet(calls[k], sheet.take)
                 PROVE  \E m \in DOMAIN calls' : RefreshesSheet(calls'[m], sheet.take)
      OBVIOUS
    <3>1. CASE k # j
      <4>1. Among(calls[k], calls')
        BY <1>1, <3>1, Left
      <4> QED
        BY <4>1 DEF Among, Besides
    <3>2. CASE k = j
      <4>1. op = "count" /\ c.req.take = sheet.take
        BY <1>2, <1>4, <3>2 DEF RefreshesSheet
      <4>2. PICK n \in DOMAIN nx : nx[n].req.op = "get_take" /\ nx[n].req.take = c.req.take
        BY <1>1, <4>1, Left
      <4>3. RefreshesSheet(nx[n], sheet.take)
        BY <1>0, <4>1, <4>2 DEF RefreshesSheet, Polite
      <4>4. Among(nx[n], calls')
        BY <1>1, Left
      <4> QED
        BY <4>3, <4>4 DEF Among, Besides
    <3> QED
      BY <3>1, <3>2
  <2>3. SheetFresh(sheet, takes, calls, excuse)
    BY DEF PInv, Copies
  <2> QED
    BY <2>1, <2>2, <2>3, SheetFreshOn
<1> QED
  BY <1>3, <1>4

LEMMA OrderHeard ==
    ASSUME PInv, NEW j \in DOMAIN calls, NEW c, c = calls[j], Answer(j)
    PROVE  OrderFresh(po', orders, calls', excuse')
<1> DEFINE op == c.req.op
<1>1. PICK nx : nx = Follows(c, c.ok)
  OBVIOUS
<1>0. \A n \in DOMAIN nx : Polite(nx[n])
  BY <1>1, Left
<1>5. ASSUME NEW n \in DOMAIN nx, nx[n].req.op = "submit_order"
      PROVE  c.req.op = "create_order" /\ c.ok /\ nx[n].req.order = c.data.order
  BY <1>1, <1>5, Left
<1>2. /\ Brings(c, takes, orders) /\ c.phase = "answered" /\ c.heard
      /\ po' = IF c.ok /\ op = "get_order" THEN c.data ELSE po
  BY AnswerIs DEF GoOn
<1>3. CASE op = "get_order"
  <2>1. po' = c.data /\ c.data.order = c.req.order
    BY <1>2, <1>3 DEF Brings
  <2>2. SUFFICES ASSUME "po" \notin excuse'
                 PROVE  OrderFresh(po', orders, calls', excuse')
    BY DEF OrderFresh
  <2>3. c.data.copy = orders[c.req.order] /\ \A k \in DOMAIN calls \ {j} : calls[k].req.op \in Plain
    BY <1>3, <2>2, ExcuseAfter
  <2>4. DOMAIN nx = {}
    BY <1>1, <1>3, Left DEF Reads
  <2>5. \A m \in DOMAIN calls' : calls'[m].req.op \in Plain
    BY <1>1, <2>3, <2>4, Left DEF Among, Besides
  <2>6. \A m \in DOMAIN calls' : ~SubmitsLater(calls'[m], po'.order)
    BY <2>5 DEF SubmitsLater, Plain
  <2> QED
    BY <2>1, <2>3, <2>6 DEF OrderFresh
<1>4. CASE op # "get_order"
  <2>1. po' = po /\ ("po" \in excuse => "po" \in excuse')
    BY <1>2, <1>4, ExcuseAfter
  <2>2. \A k \in DOMAIN calls : RefreshesOrder(calls[k], po.order) =>
           \E m \in DOMAIN calls' : RefreshesOrder(calls'[m], po.order)
    <3> SUFFICES ASSUME NEW k \in DOMAIN calls, RefreshesOrder(calls[k], po.order)
                 PROVE  \E m \in DOMAIN calls' : RefreshesOrder(calls'[m], po.order)
      OBVIOUS
    <3>1. CASE k # j
      <4>1. Among(calls[k], calls')
        BY <1>1, <3>1, Left
      <4> QED
        BY <4>1 DEF Among, Besides
    <3>2. CASE k = j
      <4>1. op = "receive" /\ c.req.order = po.order
        BY <1>4, <3>2 DEF RefreshesOrder
      <4>2. PICK n \in DOMAIN nx : nx[n].req.op = "get_order" /\ nx[n].req.order = c.req.order
        BY <1>1, <4>1, Left
      <4>3. RefreshesOrder(nx[n], po.order)
        BY <1>0, <4>1, <4>2 DEF RefreshesOrder, Polite
      <4>4. Among(nx[n], calls')
        BY <1>1, Left
      <4> QED
        BY <4>3, <4>4 DEF Among, Besides
    <3> QED
      BY <3>1, <3>2
  <2>3. \A m \in DOMAIN calls' : SubmitsLater(calls'[m], po.order) =>
           \E k \in DOMAIN calls : SubmitsLater(calls[k], po.order)
    <3> SUFFICES ASSUME NEW m \in DOMAIN calls', SubmitsLater(calls'[m], po.order)
                 PROVE  \E k \in DOMAIN calls : SubmitsLater(calls[k], po.order)
      OBVIOUS
    <3>1. CASE Besides(calls'[m], j, calls)
      BY <3>1 DEF Among, Besides
    <3>2. CASE Among(calls'[m], nx)
      <4>1. PICK n \in DOMAIN nx : calls'[m] = nx[n]
        BY <3>2 DEF Among, Besides
      <4>2. Polite(nx[n]) /\ SubmitsLater(nx[n], po.order)
        BY <1>0, <4>1
      <4>3. nx[n].req.op = "submit_order" /\ nx[n].req.order = po.order
        BY <4>2 DEF SubmitsLater, Polite
      <4>4. op = "create_order" /\ c.ok /\ nx[n].req.order = c.data.order
        BY <1>5, <4>3
      <4> QED
        BY <1>2, <4>3, <4>4 DEF SubmitsLater
    <3> QED
      BY <1>1, <3>1, <3>2, Left
  <2>4. OrderFresh(po, orders, calls, excuse)
    BY DEF PInv, Copies
  <2> QED
    BY <2>1, <2>2, <2>3, <2>4, OrderFreshOn
<1> QED
  BY <1>3, <1>4

LEMMA FieldsHeard ==
    ASSUME PInv, NEW j \in DOMAIN calls, NEW c, c = calls[j], Answer(j)
    PROVE  FieldsFresh(typed', takes, calls', excuse')
<1> DEFINE op == c.req.op
<1>1. PICK nx : nx = Follows(c, c.ok)
  OBVIOUS
<1>0. \A n \in DOMAIN nx : Polite(nx[n])
  BY <1>1, Left
<1>2. /\ Brings(c, takes, orders) /\ c.phase = "answered"
      /\ typed' = IF c.ok /\ op = "start_take" THEN <<>>
                  ELSE IF c.ok /\ op = "get_take" /\ c.at.part = "open" THEN Counts(c.data)
                  ELSE typed
  BY AnswerIs DEF GoOn
<1>3. CASE c.ok /\ op = "start_take"
  <2>1. typed' = <<>>
    BY <1>2, <1>3
  <2> QED
    BY <2>1 DEF FieldsFresh
<1>4. CASE op = "get_take" /\ c.at.part = "open"
  <2>1. typed' = Counts(c.data) /\ SheetFits(c.data, takes) /\ c.data.take = c.req.take
    BY <1>2, <1>4 DEF Brings
  <2>2. SUFFICES ASSUME "typed" \notin excuse'
                 PROVE  FieldsFresh(typed', takes, calls', excuse')
    BY DEF FieldsFresh
  <2>3. c.data.copy = takes[c.req.take] /\ \A k \in DOMAIN calls : calls[k].req.op # "count"
    BY <1>4, <2>2, ExcuseAfter
  <2>4. DOMAIN nx = {}
    BY <1>1, <1>4, Left DEF Reads
  <2>5. \A m \in DOMAIN calls' : calls'[m].req.op # "count"
    BY <1>1, <2>3, <2>4, Left DEF Among, Besides
  <2>6. ASSUME NEW x \in DOMAIN typed'
        PROVE  takes[x[1]].lines[x[2]].done /\ takes[x[1]].lines[x[2]].counted = typed'[x]
    <3>1. PICK i \in DOMAIN c.data.copy.lines : x = <<c.data.take, i>> /\ c.data.copy.lines[i].done
      BY <2>1 DEF Counts
    <3>2. x[1] = c.req.take /\ x[2] = i
      BY <2>1, <3>1
    <3>3. typed'[x] = c.data.copy.lines[x[2]].counted
      BY <2>1, <2>6 DEF Counts
    <3> QED
      BY <2>3, <3>1, <3>2, <3>3
  <2> QED
    BY <2>5, <2>6 DEF FieldsFresh, OnItsWay
<1>5. CASE ~(c.ok /\ op = "start_take") /\ ~(op = "get_take" /\ c.at.part = "open")
  <2>1. typed' = typed /\ ("typed" \in excuse => "typed" \in excuse')
    BY <1>2, <1>5, ExcuseAfter
  <2>2. \A x : ~OnItsWay(c, x)
    BY <1>2 DEF OnItsWay
  <2>3. \A x \in DOMAIN typed : \A k \in DOMAIN calls :
           OnItsWay(calls[k], x) => \E m \in DOMAIN calls' : OnItsWay(calls'[m], x)
    <3> SUFFICES ASSUME NEW x \in DOMAIN typed, NEW k \in DOMAIN calls, OnItsWay(calls[k], x)
                 PROVE  \E m \in DOMAIN calls' : OnItsWay(calls'[m], x)
      OBVIOUS
    <3>1. k \in DOMAIN calls \ {j}
      BY <2>2
    <3>2. Among(calls[k], calls')
      BY <1>1, <3>1, Left
    <3> QED
      BY <3>2 DEF Among, Besides
  <2>4. \A x \in DOMAIN typed : \A m \in DOMAIN calls' :
           OnItsWay(calls'[m], x) => \E k \in DOMAIN calls : OnItsWay(calls[k], x) /\ calls'[m].req = calls[k].req
    <3> SUFFICES ASSUME NEW x \in DOMAIN typed, NEW m \in DOMAIN calls', OnItsWay(calls'[m], x)
                 PROVE  \E k \in DOMAIN calls : OnItsWay(calls[k], x) /\ calls'[m].req = calls[k].req
      OBVIOUS
    <3>1. \A n \in DOMAIN nx : ~OnItsWay(nx[n], x)
      BY <1>0 DEF Polite, OnItsWay
    <3>2. Besides(calls'[m], j, calls)
      BY <1>1, <3>1, Left DEF Among, Besides
    <3> QED
      BY <3>2 DEF Among, Besides
  <2>5. FieldsFresh(typed, takes, calls, excuse)
    BY DEF PInv, Copies
  <2> QED
    BY <2>1, <2>3, <2>4, <2>5, FieldsFreshOn
<1> QED
  BY <1>3, <1>4, <1>5

LEMMA AnswerKeeps ==
    ASSUME PInv, NEW j \in DOMAIN calls, Answer(j)
    PROVE  PInv'
<1>1. PICK c, nx : c = calls[j] /\ nx = Follows(c, c.ok)
  OBVIOUS
<1>2. /\ Hears(c, c.ok) /\ GoOn(j, c.ok, RemoveAt(calls, j)) /\ UNCHANGED <<store, visit>>
  BY <1>1, AnswerIs
<1>3. CallsFit(calls', Request, takes, orders) /\ Unhurried(calls')
  BY <1>1, Left
<1>4. ScreenFits(list', sheet', po', typed', dialogs', picked', takes, orders)
  BY <1>1, <1>2, ShownFits
<1>5. Copies(list', sheet', po', typed', calls', excuse', Snapshot, takes, orders)
  BY <1>1, ListHeard, SheetHeard, OrderHeard, FieldsHeard DEF Copies
<1>6. CardFits(card')
  BY <1>1, CardHeard
<1> QED
  BY <1>2, <1>3, <1>4, <1>5, <1>6, Settled

-----------------------------------------------------------------------------
(* Answers that are given up.                                              *)

\* A request nobody listens to any more.
Deaf(d, c) == d.req = c.req /\ ~d.heard

LEMMA Forsaken ==
    ASSUME PInv, NEW j \in DOMAIN calls, NEW c, c = calls[j], GiveUp(j)
    PROVE  /\ CallsFit(calls', Request, takes, orders) /\ Unhurried(calls')
           /\ c.req.op \in Reads =>
                /\ \A k \in DOMAIN calls \ {j} : Among(calls[k], calls')
                /\ \A m \in DOMAIN calls' : Besides(calls'[m], j, calls) \/ Deaf(calls'[m], c)
<1>1. PICK rest, nx, ds :
         /\ \/ rest = RemoveAt(calls, j)
            \/ calls[j].phase = "sent" /\ rest = [calls EXCEPT ![j].heard = FALSE]
         /\ nx = Follows(c, FALSE) /\ ds = rest \o nx /\ calls' = ds
  BY DEF GiveUp, GoOn
<1>2. Hears(c, FALSE)
  BY DEF Hears
<1>3. /\ CallsFit(nx, Request, takes, orders)
      /\ \A n \in DOMAIN nx : Polite(nx[n])
      /\ c.req.op \in Reads => DOMAIN nx = {}
  BY <1>1, <1>2, FollowsIs
<1>4. CASE rest = RemoveAt(calls, j)
  <2>1. /\ CallsFit(ds, Request, takes, orders) /\ Unhurried(ds)
        /\ \A k \in DOMAIN calls \ {j} : Among(calls[k], ds)
        /\ \A m \in DOMAIN ds : Besides(ds[m], j, calls) \/ Among(ds[m], nx)
    BY <1>1, <1>2, <1>4, Heard
  <2>2. c.req.op \in Reads => \A m \in DOMAIN ds : Besides(ds[m], j, calls)
    BY <1>3, <2>1 DEF Among
  <2> QED
    BY <1>1, <2>1, <2>2
<1>5. CASE c.phase = "sent" /\ rest = [calls EXCEPT ![j].heard = FALSE]
  <2>1. PICK d : d = [c EXCEPT !.heard = FALSE]
    OBVIOUS
  <2>2. rest = [calls EXCEPT ![j] = d]
    BY <1>5, <2>1
  <2>3. CallFits(c, takes, orders) /\ Lawful(c, Request, takes, orders)
    BY DEF PInv, CallsFit
  <2>4. /\ d.req = c.req /\ d.at = c.at /\ d.phase = "sent" /\ d.calm = c.calm /\ d.seen = c.seen
        /\ ~d.heard /\ DOMAIN d = DOMAIN c
    BY <1>5, <2>1, <2>3 DEF CallFits
  <2>5. CallFits(d, takes, orders) /\ Lawful(d, Request, takes, orders)
    BY <1>5, <2>3, <2>4 DEF CallFits, Leans, Lawful
  <2>6. CallsFit(rest, Request, takes, orders) /\ Unhurried(rest)
    BY <2>2, <2>4, <2>5, Replaced DEF PInv
  <2>7. \A n \in DOMAIN nx : ~nx[n].calm /\ nx[n].req.op \notin {"receive", "count"}
    BY <1>3 DEF Polite
  <2>8. CallsFit(ds, Request, takes, orders) /\ Unhurried(ds)
    BY <1>1, <1>3, <2>6, <2>7, Longer
  <2>9. /\ DOMAIN rest = DOMAIN calls /\ rest[j] = d
        /\ \A k \in DOMAIN calls \ {j} : rest[k] = calls[k]
    BY <2>2
  <2>10. (\E T : rest \in Seq(T)) /\ (\E T : nx \in Seq(T))
    BY <1>3, <2>6 DEF CallsFit
  <2>11. /\ \A k \in DOMAIN rest : k \in DOMAIN ds /\ ds[k] = rest[k]
         /\ \A m \in DOMAIN ds : m \in DOMAIN rest \/ \E n \in DOMAIN nx : ds[m] = nx[n]
    <3>1. /\ \A k \in DOMAIN rest : k \in DOMAIN (rest \o nx) /\ (rest \o nx)[k] = rest[k]
          /\ \A m \in DOMAIN (rest \o nx) :
                m \in DOMAIN rest \/ \E n \in DOMAIN nx : (rest \o nx)[m] = nx[n]
      BY <2>10, Behind
    <3> QED
      BY <1>1, <3>1
  <2>12. \A k \in DOMAIN calls \ {j} : Among(calls[k], ds)
    BY <2>9, <2>11 DEF Among
  <2>13. Deaf(d, c)
    BY <2>4 DEF Deaf
  <2>14. c.req.op \in Reads => \A m \in DOMAIN ds : Besides(ds[m], j, calls) \/ Deaf(ds[m], c)
    BY <1>3, <2>9, <2>11, <2>13 DEF Besides
  <2> QED
    BY <1>1, <2>8, <2>12, <2>14
<1> QED
  BY <1>1, <1>4, <1>5

\* An answer that is given up is an excuse for everything but the recipe, which it empties.
LEMMA GiveUpKeeps ==
    ASSUME PInv, NEW j \in DOMAIN calls, GiveUp(j)
    PROVE  PInv'
<1>1. PICK c, rest : c = calls[j] /\ GoOn(j, FALSE, rest) /\ Hears(c, FALSE)
  BY DEF GiveUp, Hears
<1>2. /\ excuse' = IF c.req.op = "get_recipe" THEN excuse ELSE excuse \cup (Parts \ {"recipe"})
      /\ UNCHANGED <<store, visit>>
  BY <1>1 DEF GiveUp, GoOn
<1>3. CallFits(c, takes, orders)
  BY <1>1 DEF PInv, CallsFit
<1>4. CallsFit(calls', Request, takes, orders) /\ Unhurried(calls')
  BY <1>1, Forsaken
<1>5. /\ ScreenFits(list', sheet', po', typed', dialogs', picked', takes, orders)
      /\ CardFits(card') /\ dialogs'["recipe"] \in {dialogs["recipe"], "none"}
  BY <1>1, ShownFits
<1>6. list' = List(c, FALSE) /\ sheet' = sheet /\ typed' = typed /\ po' = po
  BY <1>1 DEF GoOn
<1>7. list' = list
  BY <1>6 DEF List
<1>8. Copies(list', sheet', po', typed', calls', excuse', Snapshot, takes, orders)
  <2>1. CASE c.req.op # "get_recipe"
    <3>1. {"list", "sheet", "po", "typed"} \subseteq excuse'
      BY <1>2, <2>1 DEF Parts
    <3> QED
      BY <3>1 DEF Copies, ListFresh, SheetFresh, OrderFresh, FieldsFresh
  <2>2. CASE c.req.op = "get_recipe"
    <3>1. /\ \A k \in DOMAIN calls \ {j} : Among(calls[k], calls')
          /\ \A m \in DOMAIN calls' : Besides(calls'[m], j, calls) \/ Deaf(calls'[m], c)
      BY <1>1, <2>2, Forsaken DEF Reads
    <3>2. /\ \A t : ~RefreshesSheet(c, t)
          /\ \A o : ~RefreshesOrder(c, o)
          /\ \A x : ~OnItsWay(c, x)
          /\ ~RefreshesList(c)
      BY <2>2 DEF RefreshesList, RefreshesSheet, RefreshesOrder, OnItsWay, LoadsAfter
    <3>3. \A d : Deaf(d, c) => (\A o : ~SubmitsLater(d, o)) /\ (\A x : ~OnItsWay(d, x))
      BY DEF Deaf, SubmitsLater, OnItsWay
    <3>4. excuse' = excuse
      BY <1>2, <2>2
    <3>5. /\ ListFresh(list, Snapshot, calls, excuse) /\ SheetFresh(sheet, takes, calls, excuse)
          /\ OrderFresh(po, orders, calls, excuse) /\ FieldsFresh(typed, takes, calls, excuse)
      BY DEF PInv, Copies
    <3>6. ListFresh(list, Snapshot, calls', excuse)
      <4>1. \A k \in DOMAIN calls : RefreshesList(calls[k]) => \E m \in DOMAIN calls' : RefreshesList(calls'[m])
        BY <1>1, <3>1, <3>2 DEF Among
      <4> QED
        BY <3>5, <4>1, ListFreshOn
    <3>7. SheetFresh(sheet, takes, calls', excuse)
      <4>1. \A k \in DOMAIN calls : RefreshesSheet(calls[k], sheet.take) =>
               \E m \in DOMAIN calls' : RefreshesSheet(calls'[m], sheet.take)
        BY <1>1, <3>1, <3>2 DEF Among
      <4> QED
        BY <3>5, <4>1, SheetFreshOn
    <3>8. OrderFresh(po, orders, calls', excuse)
      <4>1. \A k \in DOMAIN calls : RefreshesOrder(calls[k], po.order) =>
               \E m \in DOMAIN calls' : RefreshesOrder(calls'[m], po.order)
        BY <1>1, <3>1, <3>2 DEF Among
      <4>2. \A m \in DOMAIN calls' : SubmitsLater(calls'[m], po.order) =>
               \E k \in DOMAIN calls : SubmitsLater(calls[k], po.order)
        BY <3>1, <3>3 DEF Besides
      <4> QED
        BY <3>5, <4>1, <4>2, OrderFreshOn
    <3>9. FieldsFresh(typed, takes, calls', excuse)
      <4>1. \A x \in DOMAIN typed : \A k \in DOMAIN calls :
               OnItsWay(calls[k], x) => \E m \in DOMAIN calls' : OnItsWay(calls'[m], x)
        BY <1>1, <3>1, <3>2 DEF Among
      <4>2. \A x \in DOMAIN typed : \A m \in DOMAIN calls' :
               OnItsWay(calls'[m], x) => \E k \in DOMAIN calls : OnItsWay(calls[k], x) /\ calls'[m].req = calls[k].req
        BY <3>1, <3>3 DEF Besides
      <4> QED
        BY <3>5, <4>1, <4>2, FieldsFreshOn
    <3> QED
      BY <1>6, <1>7, <3>4, <3>6, <3>7, <3>8, <3>9 DEF Copies
  <2> QED
    BY <2>1, <2>2
<1> QED
  BY <1>2, <1>4, <1>5, <1>8, Settled

-----------------------------------------------------------------------------
(* Every step of the screen.                                               *)

\* The screen itself changes nothing at the server.
LEMMA ScreenLeavesStore ==
    ASSUME Screen
    PROVE  UNCHANGED store
<1>1. \A c : Ask(c) => UNCHANGED store
  BY DEF Ask
<1>2. \A k, i : OpenDialog(k, i) => UNCHANGED store
  BY DEF OpenDialog
<1>3. /\ \A r, at : Press(r, at) => UNCHANGED store
      /\ \A r, at, w : PressBusy(r, at, w) => UNCHANGED store
  BY <1>1 DEF Press, PressBusy
<1>4. \A part, i : BatchButtons(part, i) => UNCHANGED store
  BY <1>3 DEF BatchButtons
<1>5. \A i : StockButtons(i) => UNCHANGED store
  BY <1>1, <1>2, <1>3 DEF StockButtons, CommitPrice, AdjustTo, OpenBatches
<1>6. CASE Header \/ (\E t \in visit.uses : Tabs(t)) \/ AlertsTab
  BY <1>2, <1>3, <1>6 DEF Header, HandleImport, Tabs, AlertsTab
<1>7. CASE ItemsTab \/ IngredientsTab \/ CategoriesTab
  BY <1>1, <1>2, <1>3, <1>5, <1>7
     DEF ItemsTab, IngredientsTab, CategoriesTab, DeleteSelected, BulkDelete, OpenRecipe
<1>8. CASE ProcessingTab \/ ExpiryTab
  BY <1>1, <1>4, <1>8 DEF ProcessingTab, ProcStart, ProcComplete, ExpiryTab, OpenExpiryItem
<1>9. CASE StockTakeList \/ StockTakeSheet
  BY <1>1, <1>3, <1>9
     DEF StockTakeList, StartTake, StockTakeSheet, CompleteTake, SaveCount, ClearCount
<1>10. CASE OrderList \/ OrderSheet \/ SuppliersTab
  BY <1>1, <1>2, <1>3, <1>10 DEF OrderList, OrderSheet, ReceivePOLine, SuppliersTab
<1>11. CASE ItemDialog \/ RecipeDialog \/ NameDialog("category") \/ NameDialog("supplier")
  BY <1>1, <1>2, <1>3, <1>11
     DEF ItemDialog, SaveItem, RecipeDialog, SaveRecipe, NameDialog, CloseDialog
<1>12. CASE OrderDialog \/ BatchDialog \/ ProductionDialog
  BY <1>2, <1>3, <1>4, <1>12
     DEF OrderDialog, CreatePO, BatchDialog, ProductionDialog, SubmitProcess, CloseDialog
<1> QED
  BY <1>6, <1>7, <1>8, <1>9, <1>10, <1>11, <1>12 DEF Screen

LEMMA StepKeeps == PInv /\ [Next]_vars => PInv' /\ [StockNext]_store
<1> SUFFICES ASSUME PInv, [Next]_vars
             PROVE  PInv' /\ [StockNext]_store
  OBVIOUS
<1>1. CASE Screen
  <2>1. UNCHANGED store
    BY <1>1, ScreenLeavesStore
  <2> QED
    BY <1>1, <2>1, ScreenKeeps
<1>2. CASE Elsewhere
  BY <1>2, ElsewhereKeeps
<1>3. ASSUME NEW j \in DOMAIN calls, Resolve(j)
      PROVE  PInv' /\ [StockNext]_store
  <2>1. CASE Serve(j)
    BY <2>1, ServeKeeps
  <2>2. CASE Answer(j)
    <3>1. UNCHANGED store
      BY <2>2 DEF Answer, GoOn
    <3> QED
      BY <2>2, <3>1, AnswerKeeps
  <2>3. CASE GiveUp(j)
    <3>1. UNCHANGED store
      BY <2>3 DEF GiveUp, GoOn
    <3> QED
      BY <2>3, <3>1, GiveUpKeeps
  <2>4. CASE Drop(j)
    <3>1. UNCHANGED store
      BY <2>4 DEF Drop
    <3> QED
      BY <2>4, <3>1, DropKeeps
  <2> QED
    BY <1>3, <2>1, <2>2, <2>3, <2>4 DEF Resolve
<1>4. CASE UNCHANGED vars
  <2>1. UNCHANGED <<store, visit, calls, list, sheet, typed, po, dialogs, card, picked, busy, excuse>>
    BY <1>4 DEF vars, wire, page
  <2>2. /\ CallsFit(calls', Request, takes, orders) /\ Unhurried(calls')
        /\ ScreenFits(list', sheet', po', typed', dialogs', picked', takes, orders)
        /\ Copies(list', sheet', po', typed', calls', excuse', Snapshot, takes, orders)
        /\ CardFits(card')
    BY <2>1 DEF PInv
  <2> QED
    BY <2>1, <2>2, Settled
<1> QED
  BY <1>1, <1>2, <1>3, <1>4 DEF Next

\* For any visit, whatever is old is excused or about to be read again.
LEMMA ScreenInvariant == Spec => []PInv
<1>1. Init => PInv
  BY InitFits
<1>2. PInv /\ [Next]_vars => PInv'
  BY StepKeeps
<1> QED
  BY <1>1, <1>2, PTL DEF Spec

\* Whatever the screen asks, and whatever becomes of its requests, the stock room is one that
\* requests follow each other in: it never sends an item, a line or an amount that is not
\* there (InventoryPage.tsx).
THEOREM ScreenDrivesStockRoom == Spec => StockSpec
<1>1. Init => StockInit
  BY InitFits
<1>2. PInv /\ [Next]_vars => [StockNext]_store
  BY StepKeeps
<1> QED
  BY ScreenInvariant, <1>1, <1>2, PTL DEF Spec, StockSpec

\* So behind the screen movements explain the stock, no unit in the works is lost, and orders
\* say how much of them is here.
COROLLARY StockRoomBehindScreen ==
    Spec => [](LedgerExplainsStock /\ KitchenKeepsUnits /\ OrderStatusIsTrue)
  BY ScreenDrivesStockRoom, LedgerExplainsStockAlways, KitchenKeepsUnitsAlways,
     OrderStatusIsTrueAlways, PTL

\* A list or a sheet that is old is about to be read again, for any number of requests under
\* way and answers given up: once there are none, what is shown is what the server has, unless
\* an answer was lost or overtaken, or the point of sale sold in between.
THEOREM QuietCopiesAreFreshAlways == Spec => []QuietCopiesAreFresh
<1>1. PInv => QuietCopiesAreFresh
  <2> SUFFICES ASSUME PInv, calls = <<>>
               PROVE  /\ "list" \in excuse \/ list = Snapshot
                      /\ "sheet" \in excuse \/ sheet = NoSheet \/ sheet = Sheet(sheet.take)
                      /\ "po" \in excuse \/ po = NoPO \/ po = Order(po.order)
    BY DEF QuietCopiesAreFresh
  <2>1. DOMAIN calls = {}
    OBVIOUS
  <2>2. /\ "list" \in excuse \/ list = Snapshot
        /\ "sheet" \in excuse \/ sheet = NoSheet \/ sheet.copy = takes[sheet.take]
        /\ "po" \in excuse \/ po = NoPO \/ po.copy = orders[po.order]
    BY <2>1 DEF PInv, Copies, ListFresh, SheetFresh, OrderFresh
  <2>3. /\ sheet = NoSheet \/ sheet = [take |-> sheet.take, copy |-> sheet.copy]
        /\ po = NoPO \/ po = [order |-> po.order, copy |-> po.copy]
    BY DEF PInv, ScreenFits, SheetFits, OrderFits
  <2> QED
    BY <2>2, <2>3 DEF Sheet, Order
<1> QED
  BY ScreenInvariant, <1>1, PTL

\* A delivery that was confirmed while nothing was under way, on a sheet that had been read,
\* is the first of its line when the server books it (receivePOLine, receive_line).
THEOREM RestockedOnceAlways == Spec => []RestockedOnce
<1>1. PInv => RestockedOnce
  BY DEF PInv, CallsFit, CallFits, Brings, RestockedOnce
<1> QED
  BY ScreenInvariant, <1>1, PTL

\* A stock take that is completed on a quiet sheet has the counts of its fields
\* (saveCount, complete_stock_take).
THEOREM CountsAreKeptAlways == Spec => []CountsAreKept
<1>1. PInv => CountsAreKept
  BY DEF PInv, CallsFit, CallFits, Brings, Counted, CountsAreKept
<1> QED
  BY ScreenInvariant, <1>1, PTL

=============================================================================
