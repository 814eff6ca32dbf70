---------------------------- MODULE InventoryPage ----------------------------
(***************************************************************************)
(* The inventory screen (frontend/src/pages/InventoryPage.tsx) in front of *)
(* StockRoom. It lists items, stock takes and purchase orders from one     *)
(* load(), and keeps copies of its own of the stock take, the purchase     *)
(* order, the recipe and the batches that are open. Every handler goes on  *)
(* when its answer arrives, on whatever the screen shows by then. What is  *)
(* typed, ticked or searched for is chosen when the button is pressed,     *)
(* except for the counts of a stock take, which the sheet keeps. Everybody *)
(* who may open the screen may edit (permissions.ts:39-50), so what it     *)
(* shows to others, the spoilage dialog among it, is never there.          *)
(***************************************************************************)
EXTENDS StockRoom, Functions

CONSTANTS
    Amounts,        \* quantities typed
    Visits          \* who opens the screen on which stock, which tabs they use, and bounds

Spinners == {"load", "price", "import", "delete", "expiring", "recipe", "production",
             "batches", "expiry"}

ASSUME VisitsAssumption ==
    \A v \in Visits :
        /\ v.opening \in Openings
        /\ v.manager \in BOOLEAN
        /\ v.watches \in Spinners \cup {"board"}  \* whether it comes to rest
        /\ v.requests \in Nat \* requests that change something
        /\ v.lost \in Nat     \* answers the screen gives up
        /\ v.inFlight \in Nat \* requests under way when another is sent

\* The forms take nothing that is not more than zero.
ASSUME AmountsAssumption == Amounts \subseteq Nat \ {0}

VARIABLES
    \* between screen and server
    calls,       \* requests under way, and answers on their way back, oldest first
    sent, lost,  \* how many were sent, and given up
    \* the screen
    visit,       \* whose it is: the server lets a storekeeper do less
    tab,         \* the open tab
    list,        \* the copy of items, stock takes and orders
    sheet,       \* the open stock take
    typed,       \* counts in its fields, by stock take and item
    po,          \* the open purchase order
    dialogs,     \* the item of each dialog, "new", or "none" when it is closed
    card,        \* the recipe in the recipe dialog, and whose it is
    rows,        \* whose batches are shown in the batch dialog and on the expiry tab
    picked,      \* the item picked on the expiry tab
    busy,        \* spinners
    boardBusy,   \* the one item whose buttons wait on the processing board
    excuse       \* history: the copies that may be old although nothing is under way

wire == <<calls, sent, lost>>
page == <<visit, tab, list, sheet, typed, po, dialogs, card, rows, picked, busy, boardBusy>>
vars == <<store, wire, page, excuse>>

NoSheet == [take |-> 0]
NoPO == [order |-> 0]
NoCard == [of |-> "none", made |-> FALSE, parts |-> [k \in Items |-> 0]]

-------------------------------------------------------------------------------
(* What a request brings back.                                               *)

Row(i) == [onHand |-> onHand[i], wip |-> wip[i], staged |-> assembled[i] /\ staged[i]]

Snapshot ==
    [items |-> [i \in Active |-> Row(i)],
     takes |-> [t \in DOMAIN takes |-> takes[t].status],
     orders |-> [o \in DOMAIN orders |-> orders[o].status]]

Sheet(t) == [take |-> t, copy |-> takes[t]]
Order(o) == [order |-> o, copy |-> orders[o]]

Data(r) ==
    CASE r.op = "load" -> Snapshot
      [] r.op \in {"price", "process", "complete"} -> Row(r.item)
      [] r.op \in {"get_take", "complete_take"} -> Sheet(r.take)
      [] r.op = "start_take" -> Sheet(Len(takes))
      [] r.op = "get_order" -> Order(r.order)
      [] r.op = "create_order" -> [order |-> Len(orders)]
      [] r.op = "get_recipe" -> [of |-> r.item, made |-> assembled[r.item], parts |-> recipe[r.item]]
      [] OTHER -> "nothing"

\* Requests that change nothing that is modelled: reads, prices, names.
Plain == {"load", "get_take", "get_order", "get_recipe", "batches", "expiring",
          "price", "category", "supplier"}

-------------------------------------------------------------------------------
(* Requests of the screen.                                                   *)

\* Where a request comes from: the part of the screen, and the item it is about there.
Call(r, at) == [req |-> r, at |-> at, phase |-> "sent", heard |-> TRUE, calm |-> FALSE, seen |-> <<>>]
Somewhere == [part |-> "page", item |-> "none"]
At(part, i) == [part |-> part, item |-> i]

Load == Call([op |-> "load"], Somewhere)
GetTake(t, part) == Call([op |-> "get_take", take |-> t], At(part, "none"))
GetOrder(o) == Call([op |-> "get_order", order |-> o], Somewhere)
GetBatches(part, i) == Call([op |-> "batches", item |-> i], At(part, i))
Expiring == Call([op |-> "expiring"], Somewhere)

\* History: of two deliveries under way at a time neither was confirmed on a quiet screen, nor
\* was a stock take completed on one if another count leaves before the answer is there.
Hurried(r, c) ==
    IF <<r.op, c.req.op>> \in {<<"receive", "receive">>, <<"count", "complete_take">>}
    THEN [c EXCEPT !.calm = FALSE] ELSE c

\* History: two counts of one field under way at a time may arrive in either order.
Recounts(r) ==
    /\ r.op = "count"
    /\ \E j \in DOMAIN calls :
          LET q == calls[j].req
          IN  q.op = "count" /\ q.take = r.take /\ q.item = r.item /\ calls[j].phase = "sent"

Ask(c) ==
    /\ Len(calls) < visit.inFlight
    /\ sent < visit.requests \/ c.req.op \in Plain
    /\ sent' = IF c.req.op \in Plain THEN sent ELSE sent + 1
    /\ calls' = Append([j \in DOMAIN calls |-> Hurried(c.req, calls[j])], c)
    /\ excuse' = IF Recounts(c.req) THEN excuse \cup {"typed"} ELSE excuse
    /\ UNCHANGED <<store, lost, visit, tab, list, sheet, po>>

Waits(w) == busy' = busy \cup {w}

localVars == <<typed, dialogs, card, rows, picked>>

\* A button that sends a request and leaves the rest to its answer.
Press(r, at) == Ask(Call(r, at)) /\ UNCHANGED <<localVars, busy, boardBusy>>
PressBusy(r, at, w) == Ask(Call(r, at)) /\ Waits(w) /\ UNCHANGED <<localVars, boardBusy>>

OpenDialog(kind, i) ==
    /\ dialogs' = [dialogs EXCEPT ![kind] = i]
    /\ UNCHANGED <<store, wire, visit, tab, list, sheet, typed, po, card, rows, picked,
                   busy, boardBusy, excuse>>
CloseDialog(kind) == OpenDialog(kind, "none")

AdjustTo(i, d) == Press([op |-> "adjust", item |-> i, n |-> d], Somewhere)
CommitPrice(i) == "price" \notin busy /\ PressBusy([op |-> "price", item |-> i], Somewhere, "price")
BulkDelete(S) == "delete" \notin busy /\ PressBusy([op |-> "delete", items |-> S], Somewhere, "delete")

HandleImport(i, n) ==
    "import" \notin busy /\ PressBusy([op |-> "import", item |-> i, n |-> n], Somewhere, "import")

\* One new item at a time, so that it is known which.
SaveItem(kind) ==
    LET i == dialogs["item"]
    IN  IF i = "new"
        THEN /\ \A j \in DOMAIN calls : calls[j].req.op # "create"
             /\ \E k \in {k \in Items : listed[k] = "unknown"}, n \in Amounts :
                  Press([op |-> "create", item |-> k, n |-> n], Somewhere)
        ELSE Press([op |-> "update", item |-> i, staged |-> kind], Somewhere)

OpenBatches(i) ==
    /\ Ask(GetBatches("batches", i))
    /\ dialogs' = [dialogs EXCEPT !["batches"] = i]
    /\ Waits("batches")
    /\ UNCHANGED <<typed, card, rows, picked, boardBusy>>

OpenExpiryItem(i) ==
    /\ Ask(GetBatches("expiry", i))
    /\ picked' = i
    /\ Waits("expiry")
    /\ UNCHANGED <<typed, dialogs, card, rows, boardBusy>>

\* Both lists of batches offer the same: a new one for the item, another date for a row.
BatchButtons(part, i) ==
    \/ \E n \in Amounts, e \in Dates :
          Press([op |-> "batch", item |-> i, n |-> n, expiry |-> e], At(part, i))
    \/ /\ part \notin busy
       /\ \E b \in BatchesOf(rows[part]), e \in Dates :
             Press([op |-> "expiry", batch |-> b, expiry |-> e], At(part, i))

OpenRecipe(i) ==
    /\ Ask(Call([op |-> "get_recipe", item |-> i], At("recipe", i)))
    /\ dialogs' = [dialogs EXCEPT !["recipe"] = i]
    /\ Waits("recipe")
    /\ UNCHANGED <<typed, card, rows, picked, boardBusy>>

\* The button is there while the recipe is still being fetched.
SaveRecipe(made, parts) ==
    LET i == dialogs["recipe"]
    IN  /\ Ask([Call([op |-> "set_recipe", item |-> i, made |-> made, parts |-> parts],
                     At("recipe", card.of))
                EXCEPT !.calm = "recipe" \notin busy /\ "recipe" \notin excuse])
        /\ UNCHANGED <<localVars, busy, boardBusy>>

ProcStart(i, n) ==
    /\ boardBusy # i
    /\ Ask(Call([op |-> "process", item |-> i, n |-> n], At("board", i)))
    /\ boardBusy' = i
    /\ UNCHANGED <<localVars, busy>>

ProcComplete(i, n) ==
    /\ boardBusy # i
    /\ Ask(Call([op |-> "complete", item |-> i, n |-> n], At("board", i)))
    /\ boardBusy' = i
    /\ UNCHANGED <<localVars, busy>>

SubmitProcess(op, n) ==
    LET i == dialogs["production"]
    IN  "production" \notin busy /\ PressBusy([op |-> op, item |-> i, n |-> n], At("dialog", i), "production")

\* The fields of the stock take, with n typed into that of item i.
Typing(i, n) ==
    [x \in DOMAIN typed \cup {<<sheet.take, i>>} |-> IF x = <<sheet.take, i>> THEN n ELSE typed[x]]

\* Leaving the field sends what was typed into it; a field that was emptied sends nothing.
\* Mutant: nor does one that says zero.
SaveCountUnlessZero(i, n) ==
    /\ typed' = Typing(i, n)
    /\ IF n = 0 THEN UNCHANGED <<store, wire, visit, tab, list, sheet, po, excuse>>
       ELSE Ask(Call([op |-> "count", take |-> sheet.take, item |-> i, n |-> n], Somewhere))
    /\ UNCHANGED <<dialogs, card, rows, picked, busy, boardBusy>>

SaveCount(i, n) ==
    /\ typed' = Typing(i, n)
    /\ Ask(Call([op |-> "count", take |-> sheet.take, item |-> i, n |-> n], Somewhere))
    /\ UNCHANGED <<dialogs, card, rows, picked, busy, boardBusy>>

ClearCount(i) ==
    /\ typed' = Restrict(typed, DOMAIN typed \ {<<sheet.take, i>>})
    /\ UNCHANGED <<store, wire, visit, tab, list, sheet, po, excuse,
                   dialogs, card, rows, picked, busy, boardBusy>>

Calm(part) == calls = <<>> /\ part \notin excuse

CompleteTake ==
    /\ Ask([Call([op |-> "complete_take", take |-> sheet.take], Somewhere)
            EXCEPT !.calm = Calm("sheet") /\ Calm("typed"), !.seen = typed])
    /\ UNCHANGED <<localVars, busy, boardBusy>>

ReceivePOLine(i, n, e) ==
    /\ Ask([Call([op |-> "receive", order |-> po.order, item |-> i, n |-> n, expiry |-> e], Somewhere)
            EXCEPT !.calm = Calm("po")])
    /\ UNCHANGED <<localVars, busy, boardBusy>>

CreatePO(want) == Press([op |-> "create_order", want |-> want], Somewhere)

StartTake == Press([op |-> "start_take"], Somewhere)

-------------------------------------------------------------------------------
(* The parts of the screen and what can be done there. While load() is under *)
(* way the tabs show a spinner; a dialog covers everything beneath it.       *)

Kinds == <<"item", "recipe", "category", "supplier", "order", "batches", "production">>
KindsOpen == {k \in DOMAIN Kinds : dialogs[Kinds[k]] # "none"}
OnTop(kind) == \E k \in KindsOpen : Kinds[k] = kind /\ \A m \in KindsOpen : m <= k
Shows(t) == t \in visit.uses /\ tab = t /\ "load" \notin busy /\ KindsOpen = {}

Listed == DOMAIN list.items
Products == Listed \ Ingredients

Header ==
    /\ "header" \in visit.uses /\ KindsOpen = {}
    /\ \/ \E i \in Active, n \in Amounts \cup {0} : HandleImport(i, n)
       \/ OpenDialog("item", "new")

\* Opening the expiry tab asks for what expires soon.
Tabs(t) ==
    /\ KindsOpen = {} /\ t \in visit.uses
    /\ tab' = t /\ sheet' = NoSheet /\ po' = NoPO
    /\ IF t = "expiry" /\ tab # "expiry"
       THEN Len(calls) < visit.inFlight /\ calls' = Append(calls, Expiring) /\ Waits("expiring")
       ELSE UNCHANGED <<calls, busy>>
    /\ UNCHANGED <<store, sent, lost, visit, list, localVars, boardBusy, excuse>>

DeleteSelected(from) ==
    \E S \in SUBSET from : S # {} /\ BulkDelete(S)

StockButtons(i) ==
    \/ CommitPrice(i)
    \/ \E n \in Amounts, sign \in {-1, 1} : AdjustTo(i, sign * n)
    \/ OpenDialog("item", i)
    \/ OpenBatches(i)

ItemsTab ==
    /\ Shows("items")
    /\ \/ DeleteSelected(Products)
       \/ \E i \in Products :
            \/ StockButtons(i) \/ OpenRecipe(i)
            \/ list.items[i].staged /\ OpenDialog("production", i)
       \/ OpenDialog("category", "new")

IngredientsTab ==
    /\ Shows("ingredients")
    /\ \/ DeleteSelected(Listed \cap Ingredients)
       \/ \E i \in Listed \cap Ingredients : StockButtons(i)
       \/ OpenDialog("item", "new")

CategoriesTab == Shows("categories") /\ OpenDialog("category", "new")

ProcessingTab ==
    /\ Shows("processing")
    /\ \E i \in Products, n \in Amounts :
          list.items[i].staged /\ (ProcStart(i, n) \/ ProcComplete(i, n))

ExpiryTab ==
    /\ Shows("expiry")
    /\ \/ \E i \in Listed : OpenExpiryItem(i)
       \/ picked # "none" /\ BatchButtons("expiry", picked)

StockTakeList ==
    /\ Shows("stocktake") /\ sheet = NoSheet
    /\ \/ StartTake
       \/ \E t \in DOMAIN list.takes : Press([op |-> "get_take", take |-> t], At("open", "none"))

StockTakeSheet ==
    /\ Shows("stocktake") /\ sheet # NoSheet
    /\ \/ /\ sheet.copy.status # "completed"
          /\ \/ CompleteTake
             \/ \E i \in DOMAIN sheet.copy.lines :
                   \/ \E n \in Amounts \cup {0} : SaveCount(i, n)
                   \/ ClearCount(i)
       \/ /\ sheet' = NoSheet
          /\ UNCHANGED <<store, wire, visit, tab, list, localVars, po, busy, boardBusy, excuse>>

OrderList ==
    /\ Shows("orders") /\ po = NoPO
    /\ \/ OpenDialog("order", "new")
       \/ \E o \in DOMAIN list.orders : Press([op |-> "get_order", order |-> o], Somewhere)

OrderSheet ==
    /\ Shows("orders") /\ po # NoPO
    /\ \/ \E i \in DOMAIN po.copy.lines, e \in Dates :
            /\ ~po.copy.lines[i].in
            /\ \E n \in {0, po.copy.lines[i].want} : ReceivePOLine(i, n, e)
       \/ /\ po' = NoPO
          /\ UNCHANGED <<store, wire, visit, tab, list, localVars, sheet, busy, boardBusy, excuse>>

SuppliersTab == Shows("suppliers") /\ OpenDialog("supplier", "new")

\* Goes to the orders without closing what is open there.
AlertsTab ==
    /\ Shows("alerts") /\ "orders" \in visit.uses
    /\ tab' = "orders"
    /\ dialogs' = [dialogs EXCEPT !["order"] = "new"]
    /\ UNCHANGED <<store, wire, visit, list, sheet, po, typed, card, rows, picked,
                   busy, boardBusy, excuse>>

ItemDialog ==
    OnTop("item") /\ ((\E kind \in BOOLEAN : SaveItem(kind)) \/ CloseDialog("item"))

RecipeDialog ==
    /\ OnTop("recipe")
    /\ \/ SaveRecipe(card.made, card.parts)
       \/ \E made \in BOOLEAN, n \in Amounts :
            "recipe" \notin busy /\ SaveRecipe(made, [k \in Items |-> IF k \in Ingredients THEN n ELSE 0])
       \/ CloseDialog("recipe")

NameDialog(kind) ==
    OnTop(kind) /\ (Press([op |-> kind], Somewhere) \/ CloseDialog(kind))

OrderDialog ==
    /\ OnTop("order")
    /\ \/ \E S \in (SUBSET Listed) \ {{}}, n \in Amounts :
          CreatePO([i \in Items |-> IF i \in S THEN n ELSE 0])
       \/ CloseDialog("order")

BatchDialog ==
    OnTop("batches") /\ (BatchButtons("batches", dialogs["batches"]) \/ CloseDialog("batches"))

ProductionDialog ==
    /\ OnTop("production")
    /\ \/ \E n \in Amounts, op \in {"process", "complete"} : SubmitProcess(op, n)
       \/ CloseDialog("production")

Screen ==
    \/ Header \/ \E t \in visit.uses : Tabs(t)
    \/ ItemsTab \/ IngredientsTab \/ CategoriesTab \/ ProcessingTab \/ ExpiryTab
    \/ StockTakeList \/ StockTakeSheet \/ OrderList \/ OrderSheet \/ SuppliersTab \/ AlertsTab
    \/ ItemDialog \/ RecipeDialog \/ NameDialog("category") \/ NameDialog("supplier")
    \/ OrderDialog \/ BatchDialog \/ ProductionDialog

-------------------------------------------------------------------------------
(* Answers.                                                                  *)

ManagersOnly == {"category", "create", "update", "adjust", "import", "complete_take",
                 "set_recipe", "delete"}

Granted(r) == (visit.manager \/ r.op \notin ManagersOnly) /\ Accepts(r)

Parts == {"list", "sheet", "po", "typed", "recipe"}

\* The history notes whether a delivery is the first of its line.
Serve(j) ==
    \E c \in {calls[j]} :
        /\ c.phase = "sent"
        /\ IF c.req.op \notin Plain /\ Granted(c.req) THEN Perform(c.req) ELSE UNCHANGED store
        /\ calls' = IF ~c.heard THEN RemoveAt(calls, j)
                    ELSE [calls EXCEPT ![j] =
                            [req |-> c.req, at |-> c.at, phase |-> "answered", heard |-> TRUE,
                             calm |-> c.calm, seen |-> c.seen, ok |-> Granted(c.req),
                             data |-> IF Granted(c.req) THEN Data(c.req)' ELSE "nothing",
                             first |-> c.req.op = "receive" =>
                                          ~orders[c.req.order].lines[c.req.item].in]]
        /\ excuse' = IF c.heard THEN excuse ELSE Parts
        /\ UNCHANGED <<sent, lost, page>>

\* The point of sale sells, and another client records a loss.
Elsewhere ==
    /\ sent < visit.requests
    /\ \E i \in Active, n \in Amounts : SellsOrSpoils(i, n)
    /\ sent' = sent + 1
    /\ excuse' = excuse \cup {"list", "sheet"}
    /\ UNCHANGED <<calls, lost, page>>

\* What a handler asks next.
LoadsAfter == {"adjust", "create", "update", "category", "supplier", "delete", "import",
               "set_recipe", "process", "complete", "start_take", "complete_take", "submit_order"}

\* Mutant: the sheet of the order is not read again.
ReceivesBlindly(c, ok) ==
    LET op == c.req.op
    IN  CASE op = "count" -> <<GetTake(c.req.take, "count")>>
          [] op = "receive" -> <<Load>>
          [] ok /\ op = "create_order" ->
                <<Call([op |-> "submit_order", order |-> c.data.order], Somewhere)>>
          [] ok /\ op \in {"batch", "expiry"} ->
                <<GetBatches(c.at.part, c.at.item)>> \o
                (IF c.at.part = "expiry" THEN <<Expiring>> ELSE IF op = "batch" THEN <<Load>> ELSE <<>>)
          [] ok /\ op \in LoadsAfter -> <<Load>>
          [] OTHER -> <<>>

Follows(c, ok) ==
    LET op == c.req.op
    IN  CASE op = "count" -> <<GetTake(c.req.take, "count")>>
          [] op = "receive" -> <<GetOrder(c.req.order), Load>>
          [] ok /\ op = "create_order" ->
                <<Call([op |-> "submit_order", order |-> c.data.order], Somewhere)>>
          [] ok /\ op \in {"batch", "expiry"} ->
                <<GetBatches(c.at.part, c.at.item)>> \o
                (IF c.at.part = "expiry" THEN <<Expiring>> ELSE IF op = "batch" THEN <<Load>> ELSE <<>>)
          [] ok /\ op \in LoadsAfter -> <<Load>>
          [] OTHER -> <<>>

\* The spinner of a request; what it asks next has spinners of its own.
Spinner(c) ==
    CASE c.req.op = "load" -> {"load"}
      [] c.req.op \in {"price", "import", "delete", "expiring"} -> {c.req.op}
      [] c.req.op = "get_recipe" -> {"recipe"}
      [] c.req.op = "batches" -> {c.at.part}
      [] c.req.op \in {"process", "complete"} /\ c.at.part = "dialog" -> {"production"}
      [] OTHER -> {}

\* Mutant: a failed deletion keeps the spinner.
StopsUnlessFailed(c, ok) == IF c.req.op = "delete" /\ ~ok THEN {} ELSE Spinner(c)

Stops(c, ok) == Spinner(c)

\* Dialogs close, or open again on the item the handler began with.
Dialogs(c, ok) ==
    LET op == c.req.op
    IN  CASE ok /\ op \in {"create", "update"} -> [dialogs EXCEPT !["item"] = "none"]
          [] ok /\ op \in {"category", "supplier"} -> [dialogs EXCEPT ![op] = "none"]
          [] ok /\ op = "submit_order" -> [dialogs EXCEPT !["order"] = "none"]
          [] ok /\ op = "set_recipe" -> [dialogs EXCEPT !["recipe"] = "none"]
          [] ok /\ op \in {"batch", "expiry"} /\ c.at.part = "batches" ->
                [dialogs EXCEPT !["batches"] = c.at.item]
          [] ok /\ op \in {"process", "complete"} /\ c.at.part = "dialog" ->
                [dialogs EXCEPT !["production"] = c.req.item]
          [] OTHER -> dialogs

\* Mutant: a recipe that could not be fetched leaves the one that was there.
CardKept(c, ok) == IF c.req.op = "get_recipe" /\ ok THEN c.data ELSE card

Card(c, ok) ==
    IF c.req.op # "get_recipe" THEN card ELSE IF ok THEN c.data ELSE NoCard

List(c, ok) ==
    CASE ok /\ c.req.op = "load" -> c.data
      [] ok /\ c.req.op = "price" /\ c.req.item \in Listed ->
            [list EXCEPT !.items[c.req.item] = c.data]
      [] OTHER -> list

Counts(s) ==
    [x \in {<<s.take, i>> : i \in {i \in DOMAIN s.copy.lines : s.copy.lines[i].done}} |->
        s.copy.lines[x[2]].counted]

GoOn(j, ok, rest) ==
    LET c == calls[j]
        op == c.req.op
        next == Follows(c, ok)
    IN  /\ calls' = rest \o next
        /\ busy' = (busy \ Stops(c, ok)) \cup UNION {Spinner(next[k]) : k \in DOMAIN next}
        /\ boardBusy' = IF op \in {"process", "complete"} /\ c.at.part = "board"
                        THEN "none" ELSE boardBusy
        /\ dialogs' = Dialogs(c, ok)
        /\ card' = Card(c, ok)
        /\ rows' = IF op = "batches"
                   THEN [rows EXCEPT ![c.at.part] = IF ok THEN c.at.item ELSE "none"] ELSE rows
        /\ picked' = IF ok /\ op \in {"batch", "expiry"} /\ c.at.part = "expiry"
                     THEN c.at.item ELSE picked
        /\ list' = List(c, ok)
        /\ sheet' = IF ok /\ op \in {"start_take", "get_take", "complete_take"} THEN c.data ELSE sheet
        /\ typed' = IF ok /\ op = "start_take" THEN <<>>
                    ELSE IF ok /\ op = "get_take" /\ c.at.part = "open" THEN Counts(c.data)
                    ELSE typed
        /\ po' = IF ok /\ op = "get_order" THEN c.data ELSE po
        /\ UNCHANGED <<store, sent, visit, tab>>

\* A copy that is no longer true when it arrives is an excuse, one that is ends it. A purchase
\* order may be opened before the submission that follows its creation, a stock take before
\* a count of it arrives, which its fields then do not show.
Unless(S, part, true) == IF true THEN S \ {part} ELSE S \cup {part}
Excused(part, true) == Unless(excuse, part, true)

Answer(j) ==
    LET c == calls[j]
        op == c.req.op
    IN  /\ c.phase = "answered" /\ c.heard
        /\ GoOn(j, c.ok, RemoveAt(calls, j))
        /\ excuse' =
             CASE op = "load" -> Excused("list", c.data = Snapshot)
               [] op = "price" /\ c.ok /\ c.req.item \in Active /\ c.data # Row(c.req.item) ->
                    excuse \cup {"list"}
               [] op = "create_order" -> excuse \cup {"list"}
               [] op \in {"start_take", "complete_take"} /\ c.ok ->
                    Excused("sheet", c.data.copy = takes[c.data.take])
               [] op = "get_take" /\ c.at.part = "open" ->
                    Unless(Excused("sheet", c.data.copy = takes[c.req.take]), "typed",
                           /\ c.data.copy = takes[c.req.take]
                           /\ \A k \in DOMAIN calls : calls[k].req.op # "count")
               [] op = "get_take" /\ c.at.part # "open" ->
                    Excused("sheet", c.data.copy = takes[c.req.take])
               [] op = "get_order" ->
                    Excused("po", /\ c.data.copy = orders[c.req.order]
                                  /\ \A k \in DOMAIN calls \ {j} : calls[k].req.op \in Plain)
               [] op = "get_recipe" -> Excused("recipe", c.at.item = dialogs["recipe"])
               [] OTHER -> excuse
        /\ UNCHANGED lost

GiveUp(j) ==
    /\ lost < visit.lost
    /\ calls[j].heard
    /\ lost' = lost + 1
    /\ \/ GoOn(j, FALSE, RemoveAt(calls, j))
       \/ calls[j].phase = "sent" /\ GoOn(j, FALSE, [calls EXCEPT ![j].heard = FALSE])
    /\ excuse' = IF calls[j].req.op = "get_recipe" THEN excuse
               ELSE excuse \cup (Parts \ {"recipe"})

Drop(j) ==
    /\ ~calls[j].heard
    /\ calls' = RemoveAt(calls, j)
    /\ UNCHANGED <<store, sent, lost, page, excuse>>

Resolve(j) == Serve(j) \/ Answer(j) \/ GiveUp(j) \/ Drop(j)

-------------------------------------------------------------------------------

Init ==
    /\ visit \in Visits /\ StartsWith(visit.opening)
    /\ calls = <<Load>> /\ sent = 0 /\ lost = 0
    /\ tab = "items"
    /\ list = [items |-> <<>>, takes |-> <<>>, orders |-> <<>>]
    /\ sheet = NoSheet /\ typed = <<>> /\ po = NoPO
    /\ dialogs = [k \in {Kinds[n] : n \in DOMAIN Kinds} |-> "none"]
    /\ card = NoCard
    /\ rows = [part \in {"batches", "expiry"} |-> "none"] /\ picked = "none"
    /\ busy = {"load"} /\ boardBusy = "none"
    /\ excuse = {}

Next ==
    \/ Screen
    \/ Elsewhere
    \/ \E j \in DOMAIN calls : Resolve(j)

\* Every request ends, the oldest one too: axios gives it up after 15 seconds at the latest.
Fairness == WF_vars(calls # <<>> /\ Resolve(1))

Spec == Init /\ [][Next]_vars /\ Fairness

-------------------------------------------------------------------------------

\* Once nothing is under way, lists and sheets show what the server has, unless an answer
\* was lost or overtaken, or the point of sale sold in between: every handler reads back
\* what it changed, though not all of them the same way.
QuietCopiesAreFresh ==
    calls = <<>> =>
        /\ "list" \in excuse \/ list = Snapshot
        /\ "sheet" \in excuse \/ sheet = NoSheet \/ sheet = Sheet(sheet.take)
        /\ "po" \in excuse \/ po = NoPO \/ po = Order(po.order)

\* A delivery confirmed on a quiet screen is booked once: nothing at the server stops a
\* second one, only that the sheet was read again before (receivePOLine, 478-484).
RestockedOnce ==
    \A j \in DOMAIN calls :
        LET c == calls[j] IN
        c.req.op = "receive" /\ c.phase = "answered" /\ c.calm => c.first

\* A stock take that is completed on a quiet sheet applies the counts its fields show
\* (saveCount swallows errors, so a lost one is an excuse; an emptied field is not a count).
CountsAreKept ==
    \A j \in DOMAIN calls :
        LET c == calls[j] IN
        c.req.op = "complete_take" /\ c.phase = "answered" /\ c.ok /\ c.calm =>
            \A x \in DOMAIN c.seen : x[1] = c.req.take =>
                /\ c.data.copy.lines[x[2]].done
                /\ c.data.copy.lines[x[2]].counted = c.seen[x]

\* A product never gets the recipe of another one, unless it was saved while its own was
\* being fetched or after the answer for another dialog had come last (openRecipe, 348-356).
RecipeIsOwn ==
    \A j \in DOMAIN calls :
        LET c == calls[j] IN
        c.req.op = "set_recipe" /\ c.calm => c.at.item \in {c.req.item, "none"}

\* No spinner turns for ever: not the one over the tabs, not a button's. Each visit watches one.
Turns == IF visit.watches = "board" THEN boardBusy # "none" ELSE visit.watches \in busy
WaitingEnds == Turns ~> ~Turns

===============================================================================
