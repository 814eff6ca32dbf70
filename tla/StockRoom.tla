------------------------------ MODULE StockRoom ------------------------------
(***************************************************************************)
(* The inventory service (crates/smeazy-inventory/src/service.rs), one     *)
(* request at a time: stock and the movements that explain it, batches     *)
(* drawn down earliest expiry first, recipes and staged production, stock  *)
(* takes and purchase orders. Names, prices, categories and suppliers are  *)
(* left out: nothing reads them back. InventoryPage puts the screen before *)
(* it.                                                                     *)
(***************************************************************************)
EXTENDS Integers, Sequences, FiniteSets, SequencesExt, FiniteSetsExt, Sums

CONSTANTS
    Items,          \* products and ingredients
    Ingredients,    \* those of type 'assembly'
    Tracked,        \* those whose stock is counted (track_inventory)
    Dates,          \* expiry dates; the last stands for none
    Openings        \* what may be in the database when the model begins

Batch(i, n, e) == [item |-> i, quantity |-> n, expiry |-> e]
Batches == [item : Items, quantity : Nat, expiry : Dates]

\* A purchase order for what is wanted, of which nothing has arrived.
NewOrder(status, want) ==
    [status |-> status,
     lines |-> [i \in {i \in Items : want[i] > 0} |-> [want |-> want[i], got |-> 0, in |-> FALSE]]]

ASSUME StockAssumption ==
    /\ Ingredients \subseteq Items /\ Tracked \subseteq Items /\ Dates \subseteq Nat
    /\ \A o \in Openings :
         /\ o.known \subseteq Items /\ o.onHand \in [Items -> Nat] /\ o.staged \in [Items -> BOOLEAN]
         /\ o.recipe \in [Items -> [Items -> Nat]] /\ o.batches \in Seq(Batches)
         /\ o.orders \in Seq({want \in [Items -> Nat] : \E i \in Items : want[i] > 0})

VARIABLES
    listed,      \* each item "unknown", "active" or "deleted"
    onHand,      \* quantity_on_hand
    wip,         \* units in processing
    assembled,   \* items with a recipe
    staged,      \* items of production type 'staged'
    recipe,      \* units of each ingredient in one unit of a product
    batches,     \* in the order they were received
    takes,       \* stock takes
    orders,      \* purchase orders
    \* history
    moved,       \* what the movements of each item add up to, its opening stock included
    overruled,   \* items for which a stock take was applied to stock it had not seen
    started, finished   \* units put into and taken out of processing

stockVars == <<onHand, moved, batches>>
kitchenVars == <<wip, started, finished>>
menuVars == <<listed, assembled, staged, recipe>>
paperVars == <<takes, orders, overruled>>
store == <<stockVars, kitchenVars, menuVars, paperVars>>

-------------------------------------------------------------------------------
(* Stock that leaves.                                                        *)

Active == {i \in Items : listed[i] = "active"}

BatchesOf(i) == {b \in DOMAIN batches : batches[b].item = i}

ExpiresFirst(a, b) ==
    batches[a].expiry < batches[b].expiry \/ (batches[a].expiry = batches[b].expiry /\ a < b)

\* Mutant: the batch that keeps longest goes first.
ExpiresLast(i) == SetToSortSeq(BatchesOf(i), LAMBDA a, b : ExpiresFirst(b, a))

Fefo(i) == SetToSortSeq(BatchesOf(i), ExpiresFirst)

\* What is left of the batches of item i when n units of it leave.
ConsumeBatches(i, n) ==
    FoldLeft(LAMBDA acc, b :
                 LET take == Min({acc.remaining, acc.left[b].quantity})
                 IN  [remaining |-> acc.remaining - take,
                      left |-> [acc.left EXCEPT ![b].quantity = @ - take]],
             [remaining |-> n, left |-> batches],
             Fefo(i)).left

ConsumeBatchesFefo(out) ==
    [b \in DOMAIN batches |->
        LET i == batches[b].item IN IF out[i] > 0 THEN ConsumeBatches(i, out[i])[b] ELSE batches[b]]

\* A product made to order takes its ingredients; a staged one took them when it was made.
MadeToOrder(i) == assembled[i] /\ ~staged[i]

IngredientsFor(i, n) == [k \in Items |-> recipe[i][k] * n]

Depletes(i, n) ==
    IF MadeToOrder(i) THEN IngredientsFor(i, n) ELSE [k \in Items |-> IF k = i THEN n ELSE 0]

\* Every departure is a movement; the stock of the items in counted follows.
StockLeaves(out, counted) ==
    /\ onHand' = [k \in Items |-> IF k \in counted THEN onHand[k] - out[k] ELSE onHand[k]]
    /\ moved' = [k \in Items |-> moved[k] - out[k]]
    /\ batches' = ConsumeBatchesFefo(out)

DeductStockOnSale(i, n) ==
    /\ StockLeaves(Depletes(i, n), Tracked)
    /\ UNCHANGED <<kitchenVars, menuVars, paperVars>>

RecordSpoil(i, n) ==
    /\ StockLeaves(Depletes(i, n), IF MadeToOrder(i) THEN Tracked ELSE Items)
    /\ UNCHANGED <<kitchenVars, menuVars, paperVars>>

\* Mutant: only what comes in is written down.
AdjustUnlogged(i, d) ==
    /\ onHand' = [onHand EXCEPT ![i] = @ + d]
    /\ moved' = IF d > 0 THEN [moved EXCEPT ![i] = @ + d] ELSE moved
    /\ batches' = ConsumeBatchesFefo([k \in Items |-> IF k = i /\ d < 0 THEN -d ELSE 0])
    /\ UNCHANGED <<kitchenVars, menuVars, paperVars>>

AdjustStock(i, d) ==
    /\ onHand' = [onHand EXCEPT ![i] = @ + d]
    /\ moved' = [moved EXCEPT ![i] = @ + d]
    /\ batches' = ConsumeBatchesFefo([k \in Items |-> IF k = i /\ d < 0 THEN -d ELSE 0])
    /\ UNCHANGED <<kitchenVars, menuVars, paperVars>>

-------------------------------------------------------------------------------
(* Staged production.                                                        *)

CanProcess(i, n) ==
    /\ assembled[i] /\ staged[i]
    /\ \E k \in Items : recipe[i][k] > 0
    /\ \A k \in Items : recipe[i][k] > 0 => onHand[k] >= recipe[i][k] * n

ProcessBatch(i, n) ==
    /\ CanProcess(i, n)
    /\ StockLeaves(IngredientsFor(i, n), Items)
    /\ wip' = [wip EXCEPT ![i] = @ + n]
    /\ started' = [started EXCEPT ![i] = @ + n]
    /\ UNCHANGED <<finished, menuVars, paperVars>>

\* Mutant: more is finished than was in the works.
CanCompleteStaged(i, n) == staged[i]

CanComplete(i, n) == staged[i] /\ n <= wip[i]

CompleteProcessing(i, n) ==
    /\ CanComplete(i, n)
    /\ wip' = [wip EXCEPT ![i] = @ - n]
    /\ finished' = [finished EXCEPT ![i] = @ + n]
    /\ onHand' = [onHand EXCEPT ![i] = @ + n]
    /\ moved' = [moved EXCEPT ![i] = @ + n]
    /\ UNCHANGED <<started, batches, menuVars, paperVars>>

ValidRecipe(parts) == \A k \in Items : parts[k] > 0 => k \in Ingredients

\* Without a recipe there is nothing to stage.
SetRecipe(i, made, parts) ==
    /\ ValidRecipe(parts)
    /\ assembled' = [assembled EXCEPT ![i] = made]
    /\ staged' = [staged EXCEPT ![i] = @ /\ made]
    /\ recipe' = [recipe EXCEPT ![i] = parts]
    /\ UNCHANGED <<listed, stockVars, kitchenVars, paperVars>>

-------------------------------------------------------------------------------
(* The catalogue.                                                            *)

CreateItem(i, n) ==
    /\ listed[i] = "unknown"
    /\ listed' = [listed EXCEPT ![i] = "active"]
    /\ onHand' = [onHand EXCEPT ![i] = n]
    /\ moved' = [moved EXCEPT ![i] = n]
    /\ UNCHANGED <<batches, assembled, staged, recipe, kitchenVars, paperVars>>

\* The stock in the form is not written.
UpdateItem(i, kind) ==
    /\ staged' = [staged EXCEPT ![i] = IF i \in Ingredients THEN @ ELSE kind]
    /\ UNCHANGED <<listed, assembled, recipe, stockVars, kitchenVars, paperVars>>

BulkDeactivateItems(S) ==
    /\ listed' = [i \in Items |-> IF i \in S THEN "deleted" ELSE listed[i]]
    /\ UNCHANGED <<assembled, staged, recipe, stockVars, kitchenVars, paperVars>>

\* A row of an imported file that matches an item; the difference is a movement.
ImportCsv(i, n) ==
    /\ onHand' = [onHand EXCEPT ![i] = n]
    /\ moved' = [moved EXCEPT ![i] = @ + (n - onHand[i])]
    /\ UNCHANGED <<batches, kitchenVars, menuVars, paperVars>>

CreateBatch(i, n, e) ==
    /\ batches' = Append(batches, Batch(i, n, e))
    /\ UNCHANGED <<onHand, moved, kitchenVars, menuVars, paperVars>>

UpdateBatch(b, e) ==
    /\ batches' = [batches EXCEPT ![b].expiry = e]
    /\ UNCHANGED <<onHand, moved, kitchenVars, menuVars, paperVars>>

-------------------------------------------------------------------------------
(* Stock takes and purchase orders.                                          *)

StartStockTake ==
    /\ takes' = Append(takes,
          [status |-> "draft",
           lines |-> [i \in Active |-> [expected |-> onHand[i], counted |-> 0, done |-> FALSE]]])
    /\ UNCHANGED <<orders, overruled, stockVars, kitchenVars, menuVars>>

UpdateCountLine(t, i, n) ==
    /\ takes' = [takes EXCEPT ![t].lines[i].counted = n, ![t].lines[i].done = TRUE]
    /\ UNCHANGED <<orders, overruled, stockVars, kitchenVars, menuVars>>

\* What is counted replaces what is there; the movement is the variance at the start.
CompleteStockTake(t) ==
    LET lines == takes[t].lines
        counted == {i \in DOMAIN lines : lines[i].done}
    IN  /\ onHand' = [i \in Items |-> IF i \in counted THEN lines[i].counted ELSE onHand[i]]
        /\ moved' = [i \in Items |-> IF i \in counted
                                     THEN moved[i] + (lines[i].counted - lines[i].expected)
                                     ELSE moved[i]]
        /\ overruled' = overruled \cup {i \in counted : onHand[i] # lines[i].expected}
        /\ takes' = [takes EXCEPT ![t].status = "completed"]
        /\ UNCHANGED <<orders, batches, kitchenVars, menuVars>>

CreateRequisition(want) ==
    /\ orders' = Append(orders, NewOrder("draft", want))
    /\ UNCHANGED <<takes, overruled, stockVars, kitchenVars, menuVars>>

\* Mutant: whatever the order has become in the meantime.
SubmitAnyway(o) ==
    /\ orders' = [orders EXCEPT ![o].status = "submitted"]
    /\ UNCHANGED <<takes, overruled, stockVars, kitchenVars, menuVars>>

SubmitRequisition(o) ==
    /\ orders' = [orders EXCEPT ![o].status = IF @ = "draft" THEN "submitted" ELSE @]
    /\ UNCHANGED <<takes, overruled, stockVars, kitchenVars, menuVars>>

ReceiveLine(o, i, n, e) ==
    LET lines == [orders[o].lines EXCEPT ![i].got = n, ![i].in = TRUE]
        status == IF \A k \in DOMAIN lines : lines[k].in THEN "received" ELSE "partially_received"
    IN  /\ orders' = [orders EXCEPT ![o] = [status |-> status, lines |-> lines]]
        /\ onHand' = [onHand EXCEPT ![i] = @ + n]
        /\ moved' = [moved EXCEPT ![i] = @ + n]
        /\ batches' = IF n > 0 THEN Append(batches, Batch(i, n, e)) ELSE batches
        /\ UNCHANGED <<takes, overruled, kitchenVars, menuVars>>

-------------------------------------------------------------------------------
(* Requests.                                                                 *)

Accepts(r) ==
    CASE r.op = "process" -> CanProcess(r.item, r.n)
      [] r.op = "complete" -> CanComplete(r.item, r.n)
      [] r.op = "set_recipe" -> ValidRecipe(r.parts)
      [] OTHER -> TRUE

Perform(r) ==
    \/ r.op = "adjust" /\ AdjustStock(r.item, r.n)
    \/ r.op = "process" /\ ProcessBatch(r.item, r.n)
    \/ r.op = "complete" /\ CompleteProcessing(r.item, r.n)
    \/ r.op = "set_recipe" /\ SetRecipe(r.item, r.made, r.parts)
    \/ r.op = "create" /\ CreateItem(r.item, r.n)
    \/ r.op = "update" /\ UpdateItem(r.item, r.staged)
    \/ r.op = "delete" /\ BulkDeactivateItems(r.items)
    \/ r.op = "import" /\ ImportCsv(r.item, r.n)
    \/ r.op = "batch" /\ CreateBatch(r.item, r.n, r.expiry)
    \/ r.op = "expiry" /\ UpdateBatch(r.batch, r.expiry)
    \/ r.op = "start_take" /\ StartStockTake
    \/ r.op = "count" /\ UpdateCountLine(r.take, r.item, r.n)
    \/ r.op = "complete_take" /\ CompleteStockTake(r.take)
    \/ r.op = "create_order" /\ CreateRequisition(r.want)
    \/ r.op = "submit_order" /\ SubmitRequisition(r.order)
    \/ r.op = "receive" /\ ReceiveLine(r.order, r.item, r.n, r.expiry)

\* Anything the inventory screen may send.
Request ==
    [op : {"process", "complete"}, item : Items, n : Nat \ {0}] \cup
    [op : {"adjust", "import"}, item : Items, n : Int] \cup
    [op : {"create"}, item : Items, n : Int] \cup
    [op : {"set_recipe"}, item : Items, made : BOOLEAN, parts : [Items -> Nat]] \cup
    [op : {"update"}, item : Items, staged : BOOLEAN] \cup
    [op : {"delete"}, items : SUBSET Items] \cup
    [op : {"batch"}, item : Items, n : Nat \ {0}, expiry : Dates] \cup
    [op : {"expiry"}, batch : DOMAIN batches, expiry : Dates] \cup
    [op : {"start_take"}] \cup
    [op : {"count"}, take : DOMAIN takes, item : Items, n : Int] \cup
    [op : {"complete_take"}, take : DOMAIN takes] \cup
    [op : {"create_order"}, want : [Items -> Nat]] \cup
    [op : {"submit_order"}, order : DOMAIN orders] \cup
    [op : {"receive"}, order : DOMAIN orders, item : Items, n : Nat, expiry : Dates]

\* An order has a line (createPO); a count or a receipt names one that is there.
OnPaper(r) ==
    /\ r.op = "create_order" => \E i \in Items : r.want[i] > 0
    /\ r.op = "count" => r.item \in DOMAIN takes[r.take].lines
    /\ r.op = "receive" => r.item \in DOMAIN orders[r.order].lines

StartsWith(o) ==
    /\ listed = [i \in Items |-> IF i \in o.known THEN "active" ELSE "unknown"]
    /\ onHand = o.onHand /\ moved = onHand
    /\ wip = [i \in Items |-> 0] /\ started = wip /\ finished = wip
    /\ assembled = [i \in Items |-> \E k \in Items : o.recipe[i][k] > 0]
    /\ staged = o.staged
    /\ recipe = o.recipe
    /\ batches = o.batches
    /\ takes = <<>>
    /\ orders = [k \in DOMAIN o.orders |-> NewOrder("submitted", o.orders[k])]
    /\ overruled = {}

StockInit == \E o \in Openings : StartsWith(o)

\* The point of sale sells; a client that records losses need not be this screen.
SellsOrSpoils(i, n) == DeductStockOnSale(i, n) \/ RecordSpoil(i, n)

StockNext ==
    \/ \E r \in Request : OnPaper(r) /\ Perform(r)
    \/ \E i \in Items, n \in Nat \ {0} : SellsOrSpoils(i, n)

StockSpec == StockInit /\ [][StockNext]_store

-------------------------------------------------------------------------------

StockTypeOK ==
    /\ listed \in [Items -> {"unknown", "active", "deleted"}]
    /\ onHand \in [Items -> Int] /\ moved \in [Items -> Int]
    /\ wip \in [Items -> Int] /\ started \in [Items -> Int] /\ finished \in [Items -> Int]
    /\ assembled \in [Items -> BOOLEAN] /\ staged \in [Items -> BOOLEAN]
    /\ recipe \in [Items -> [Items -> Nat]]
    /\ overruled \subseteq Items

\* The movements of a tracked item explain its stock, whatever sold, spoiled, counted,
\* imported, cooked or delivered it: until a stock take is applied to stock that has
\* moved since the take began (complete_stock_take books the variance of that time).
LedgerExplainsStock == \A i \in Tracked \ overruled : onHand[i] = moved[i]

\* No unit in processing is lost, finished twice or finished before it was started,
\* whatever becomes of the recipe and the production type (service.rs:702-766).
KitchenKeepsUnits == \A i \in Items : wip[i] >= 0 /\ wip[i] = started[i] - finished[i]

\* An order is 'received' exactly when all its lines are, and on its way there shows that
\* something has arrived: a late submission does not take it back (service.rs:484-510).
OrderStatusIsTrue == \A o \in DOMAIN orders :
    LET lines == orders[o].lines
        here == {i \in DOMAIN lines : lines[i].in}
    IN  /\ orders[o].status = "received" <=> here = DOMAIN lines
        /\ orders[o].status = "partially_received" <=> here # {} /\ here # DOMAIN lines

\* A departure that draws on batches takes as many units off an item's open batches as
\* they still hold, from those that expire first, and leaves no batch below zero
\* (consume_batches_fefo, service.rs:215-228).
InBatches(i) == SumOver([b \in DOMAIN batches |-> batches[b].quantity], BatchesOf(i))

BatchesFollowStock == [][\A i \in Items :
    Len(batches') = Len(batches) /\ takes' = takes /\ moved'[i] < moved[i] /\ batches' # batches =>
        /\ InBatches(i)' = Max({0, InBatches(i) - (moved[i] - moved'[i])})
        /\ \A a, b \in BatchesOf(i) :
             batches[a].expiry < batches[b].expiry /\ batches'[b].quantity < batches[b].quantity
                => batches'[a].quantity = 0
        /\ \A b \in DOMAIN batches : batches'[b].quantity >= 0]_store

===============================================================================
