# A verification of Smeazy POS in TLA+

Smeazy POS is a point-of-sale system for a restaurant with rooms: a Rust API
(`crates/`, axum + sqlx over SQLite), a React front end and a desktop shell that
starts the API. This directory models the part of it that handles money, goods and
rooms, checks the models on small instances with TLC, and proves the properties that
matter most with TLAPS for every instance. It covers both sides of the API: the handlers,
statement by statement, and the screens, with what the network may do in between.

Paths below are relative to the repository; `service.rs` alone is
`crates/smeazy-pos/src/service.rs`, and a page alone is in `frontend/src/pages/`.

## 1. The system

### How it runs

Every HTTP request is a tokio task over a pool of ten SQLite connections in WAL mode
(`crates/smeazy-api/src/main.rs:34-53`). No handler opens a transaction: each SQL
statement commits alone. So

* other requests run between any two statements of a handler;
* what a handler read with a SELECT may be old when it writes;
* a handler whose client disconnects (axum drops its future), whose process exits (the
  desktop shell kills the API) or whose statement fails leaves the statements it already
  executed, and nothing resumes it.

There is no version column, no lock, and a few UPDATEs are conditional (`void_order`).
This is the source of nearly every hard behaviour below.

The front end is one React page at a time. A page keeps copies of what it read; a handler
sends a request and goes on when its answer arrives, or when axios gives up after 15
seconds (`frontend/src/lib/api.ts:8`). Between the two the page goes on: other handlers
run, another page is shown, the screen locks, somebody else signs in. Requests may be
answered in any order, and one that was given up may have been carried out. An answer
with status 401 loads the program again, whoever asked (`api.ts:15-18`).

### Components

| Component | State it keeps | Operations | Interacts with | What makes it correct | Status |
|---|---|---|---|---|---|
| Point of sale (`smeazy-pos`) | `pos_orders`, `pos_order_items`, `payment_records`, `wallet_ledger`, and it inserts `kitchen_orders(_items)` | create, add/remove item, quantity, line and order discount, item status, send to kitchen, attach customer, void, checkout, pay tab | rooms (check-in, revert), inventory (deduct on sale), audit | the bill is the sum of its lines; payments and balance cover it; stock, revenue and tickets agree with it; nothing is booked for a bill that is not closed | **modelled**, but for what section 5 lists: `PosOrders` |
| Order screen (`PosOrderPage`) | a copy of the bill, the checkout form, spinners, the receipt | edit lines, send, customer, waiter, payment lines, checkout; dialogs | the point of sale | the copy is the bill once all is quiet; one checkout closes the bill; the receipt is what was booked | **modelled**: `OrderPage`, promise: `Bill` |
| Customers (in `smeazy-pos`) | `customers` | resolve or create by phone/name, balance | orders | one row per customer; the balance is the sum of the tabs | not modelled |
| Kitchen service (`smeazy-kitchen`) | ticket and ticket-line status | acknowledge, dispatch | POS lines and tickets, room and recipe data | what was dispatched shows on the bill, and nothing else but what a waiter marked by hand; no dish goes back | **modelled**: `PosKitchen` |
| Kitchen screen (`KitchenPage`) | the cards | poll, acknowledge, dispatch | kitchen service, session | it catches up | **modelled**: `KitchenPage` |
| Floor service (`smeazy-tables`) | tables; moves orders | CRUD, transfer, merge | rewrites orders under the POS handlers | a merge loses no line and no money | partly: `PosFloor` has transfer and merge; CRUD is single statements |
| Floor screen (`FloorPlanPage`) | the board, a menu, dialogs | poll, open, transfer, clear, assign, add | floor service, point of sale, session | it catches up; a table shown as it is gets no second bill but one that overtook it; nobody opens a table in another's name | **modelled**: `FloorPage` |
| Session, permissions, lock | who is signed in, the lock, its timer, the page | sign in by password or PIN, onboarding, unlock, sign out, restart, expiry, links, redirects | every page | only who asked is signed in; the page fits them; the lock comes | **modelled**: `Terminal`, `Permissions`, composed in `Till`, promise: `Session` |
| Rooms (`smeazy-accommodation`) | `accommodation_rooms` | list (creates rows lazily), set ready, sweep every five minutes, check-in, revert | POS add and void | a free room has no order; nobody is turned out before 11:00 (which the code breaks ahead of UTC), nobody overstays | **modelled**: `Rooms`; check-in and revert also in `PosOrders` |
| Inventory service (`smeazy-inventory`) | items, movements, batches, recipes, stock takes, requisitions, staged production | adjust, sale deduction, spoilage, FEFO consumption, apply a take, receive, process, complete, import | POS checkout, the screen | stock is the sum of its movements; batches go earliest expiry first; no unit in processing is lost | partly: `StockRoom`, a request at a time |
| Inventory screen (`InventoryPage`) | copies of lists, sheets, recipe and batches; typed counts | 9 tabs, 7 dialogs | inventory service | copies are fresh once all is quiet; a delivery is booked once; counts are kept | **modelled**: `InventoryPage` |
| Receipt templates (in `smeazy-iam`) | `receipt_templates` | create, update, set default, delete | - | exactly one default of each type | **modelled**: `ReceiptTemplates` |
| Staff, businesses, settings (`smeazy-iam`) | users, PINs, business rows | sign-in, CRUD | everyone's `business_id` | - | partly: sign-in as the till sees it; the rest is CRUD over hashing and token signing |
| Common, domain | - | audit rows (write-only, errors swallowed), middleware, role constants | - | - | not modelled |
| Analytics | none (reads) | reports | POS, ledger | - | not modelled: read-only; what it reads is what `PosOrders` is about |
| Other pages | a list or form each | read, save | one table each | - | not modelled beyond coming and going |
| M-Pesa | - | STK push | - | - | not modelled: not a member of the workspace, never called |
| API server, desktop shell | the pool, the sweep's timer | start, kill | all | - | its concurrency is the shape of `PosOrders`; the kill is `Interrupt` |

### What is hard here

`PROJECT.json` lists the hazards, each at its line. In short: read-then-write without a
transaction (deltas to `total_amount`, a tab's balance, two checkouts of one bill, a void
between a checkout's statements); handlers that stop half way and are sent again;
handlers that do not look at the order's status; UPDATEs that select by status rather
than by the rows read; amounts that are never clamped. On the screens: answers that overtake
each other or arrive after the page, the dialog or the person they were meant for is gone;
a button offered again for something that was already done; copies read back in five
different ways; intervals and timers that must start again on every path. No test in the
repository runs two requests at once, and the front end has no tests.

## 2. The modules

| Module | Models | Extends |
|---|---|---|
| `PosOrders` | the point-of-sale service, statement by statement: state, actions, properties, and the mutants that show what each property catches | `Sums` |
| `PosKitchen` | the kitchen service, composed with the point of sale | `PosOrders` |
| `PosFloor` | transfer and merge of tables, composed with the point of sale | `PosOrders` |
| `Sums` | adding up: a `SELECT SUM`, a `reduce` | |
| `Rooms` | the room board, its timer and its 11:00 rule, over bills reduced to their status | |
| `ReceiptTemplates` | the templates of one business and type | |
| `Bill` | what a guest may rely on about one bill: the abstract specification of `OrderPage` | |
| `OrderPage` | the order screen, the network and the point of sale, request by request | `Sums`, instantiates `Bill` |
| `StockRoom` | the inventory service, request by request | `Sums` |
| `InventoryPage` | the inventory screen, composed with its service | `StockRoom` |
| `Permissions` | the roles, the capabilities and where a path ends | |
| `Session` | what the staff may rely on about who is signed in: the abstract specification of `Terminal` | |
| `Terminal` | sign-in, onboarding, lock and navigation of one till | `Permissions`, instantiates `Session` |
| `FloorPage`, `KitchenPage` | the two polling pages and what they talk to | `Terminal` |
| `Till` | the composition of the three | `FloorPage`, `KitchenPage` |
| `SumLaws` | nothing new: the laws of sums, proved | `Sums` |
| `PosOrdersProofs` | nothing new: theorems about `PosOrders` and `PosKitchen` | `PosKitchen` |
| `PosSerialProofs` | nothing new: theorems about the money in `PosOrders` and `PosFloor` | `PosOrdersProofs`, `PosFloor`, `SumLaws` |
| `OrderPageProofs`, `TillProofs` | nothing new: theorems about the module of that name | that module, `SumLaws` |
| `StockRoomProofs` | nothing new: theorems about `StockRoom` and `InventoryPage` | `InventoryPage` |
| `RoomsProofs`, `ReceiptTemplatesProofs` | nothing new: theorems about the module of that name | that module |
| `MCPosOrders`, `MCPosKitchen`, `MCPosFloor`, `MCRooms`, `MCReceiptTemplates`, `MCOrderPage`, `MCInventoryPage`, `MCTill` | nothing new: constants and symmetries for TLC | the module of that name |

The service is modelled at two grains. `PosOrders`, `PosKitchen`, `PosFloor`, `Rooms` and
`ReceiptTemplates` take a handler apart: an action is one SQL statement, or the SELECTs and
tests with which a handler begins. `OrderPage`, `StockRoom`, `InventoryPage`, `FloorPage` and
`KitchenPage` take a request as one step, and make steps of what the screen, the network
and other clients do around it. A definition that starts with "Mutant" is no part of the
model: it is a plausible bug in the definition next to it, and shows which property would
catch it.

### PosOrders: state

| Variable | Code |
|---|---|
| `orders[o]` | a `pos_orders` row: status, `total_amount`, `discount_amount`, `balance_due`, whose customer. Key `o` is unused while its status is `"none"` |
| `lines[l]` | a `pos_order_items` row; a removed one is `"deleted"` (keys are never used twice) |
| `tickets[t]` | a `kitchen_orders` row with its `kitchen_order_items` |
| `rooms[r]` | an `accommodation_rooms` row |
| `paid[o]` | the sum of the order's `payment_records` |
| `sold[l]` | the units booked by `deduct_stock_on_sale` for this line |
| `ledger[o]` | the sum credited for the order in `wallet_ledger` |
| `job[w]` | one request in flight: the statement it will execute next and the local variables it holds. Local variables die with the request |

Amounts are integers: the code uses `f64`, and none of the properties is about rounding.

### PosOrders: actions

`Arrive(w)` is a client's request being accepted: the SELECTs and tests a handler begins
with, up to its first write (`RemoveItem`, `Checkout`, `PayTab`, ...). A handler that is
one write is one action (`CreateOrder`, `ApplyDiscount`, `AttachCustomer`,
`UpdateItemStatus`), and so is the conditional UPDATE of `VoidOrder`. A request that the code
rejects changes nothing and is not a step. `Continue(w)` is the next statement of a request in
flight; one action each:

| Handler | Steps |
|---|---|
| `add_item` | `AddItem`, `InsertLine`, `BumpTotal`, `CheckIn` (rooms only) |
| `remove_item` | `RemoveItem`, `DeleteLine`, `BumpTotal` |
| `update_item_quantity` | `UpdateItemQuantity` (reads the line), `ReadOrder` (status), then `SetQuantity`, `BumpTotal`, or, for a quantity of zero, `RereadLine` and on as `remove_item` |
| `set_item_discount` | `SetItemDiscount` (reads the order), `ReadLine`, `SetDiscount`, `BumpTotal` |
| `send_to_kitchen` | `SendToKitchen` (reads the new lines), `InsertTicket`, `InsertTicketItem` per line, `MarkProcessing` |
| `void_order` | `VoidOrder`, `RevertRooms` |
| `checkout` | `Checkout` (reads the order once), for a director's discount `ReadCosts`, `AddCost` per line, `CheckCost`; then `InsertPayment` per payment, `CloseOrder`, `MarkPaid`, `CompleteTickets`, `ReadSold`, `DeductStock` per line, `CreditLedger` |
| `pay_tab` | `PayTab`, `InsertPayment` per payment, `CloseTab` |

`Interrupt(w)` drops a request between two statements, for any of the reasons in section
1. `DeductStock` may also fail on its own: the loop in `checkout` ignores its errors.

A foreign key makes two statements fail: the DELETE of a line that is on a ticket
(`DeleteLine`) and the insert of a ticket line whose order line is gone
(`InsertTicketItem`). Both end the request where it is.

### PosOrders: constants

`Orders`, `Lines`, `Tickets`, `Items`, `Rooms`, `Customers` and `Workers` are sets of keys;
`Ops` the kinds of request sent; `Prices`, `Quantities`, `Discounts`, `Payments` the amounts
clients send (quantities and discounts may be zero or less, as the API allows), `Statuses` the
strings they set a line's status to by hand: the API takes any. `MaxTotal`
and `MaxPaid` are bounds: requests stop arriving for a bill beyond them. Three switches say
what the surroundings do:

* `Interruptions`: requests may stop half way;
* `StaleScreens`: a client may send an edit for a bill that was closed since its page was
  loaded. The pages only offer open bills (and tabs to `pay_tab`), the API does not check;
* `OneEditorPerLine`: two clients never edit the same line at the same time.

### PosKitchen

`cook[c]` is one request of a kitchen screen: the second statement of its handler and
the row it is about. `AcknowledgeOrder`, `StartItems` are the two UPDATEs of
`acknowledge_order`; `DispatchItem`, `MarkLine` those of `dispatch_item`.
`CookInterrupted` drops a request between them, and `unmarked` remembers the lines
concerned: a history variable, as is `byHand`, the lines whose status was set at the order
screen, whose button "Mark dispatched" (`PosOrderPage.tsx:355`) is an ordinary
`update_item_status` of the point of sale. `StaleBoards` lets a cook press
a button of a card that has changed since it was loaded, which the API does not check.
A step of `KNext` is a step of `PosOrders` or of a kitchen request.

### PosFloor

`seat[o]` is the order's `table_id` and `host[h]` a merge in flight. `TransferTable` is the
single UPDATE of `transfer_table`; `MergeTables`, `ReadTarget`, `SumSource`, `MoveLines`,
`BumpTarget` and `CloseSource` are the statements of `merge_tables`, which anything may
stop (`HostInterrupted`). Two SELECTs there take one open order of a table without an
ORDER BY: any of them. `Seat` gives a new bill its table. `torn` is a history variable, the
bills that a request was working on when it was cut off. `OneAtATime` says that no request
starts before the last one has ended, and `MergeWithSelf` that a client may name one table
twice, which no page does.

### Rooms

`rooms[r]` is an `accommodation_rooms` row; a room without one is a ready room, since every
handler inserts it first. `bills[o]` is what the rooms see of an order. `entering` and
`leaving` are the `add_item` and `void_order` requests between their own statement and the
room's. `clock` counts hours of UTC: `datetime('now')` stamps UTC, `run_readying_sweep`
parses the stamp as local time and compares with the local clock (`UtcOffset` hours
ahead). The sweep is `SweepRead`, its SELECT, which fills `todo`, and a `SweepRoom(r)` for each
row of the list, in any order. `ServerStops` loses the list and every request in flight.
`Hours` are the hours at which things happen, a bound; `MaxStops` bounds the restarts.

### ReceiptTemplates

`row[t]`, `made[t]` and the set `default` are the rows with `created_at` and `is_default`;
`job[a]` a request in flight. `create` is `CreateTemplate`, `InsertTemplate`, `UnsetOthers`; `update`
with `is_default` is `UpdateTemplate`, `SetDefault`, `UnsetOthers`; `delete` is
`DeleteTemplate`, `CountSiblings`, `DeleteRow`, `FindOldest`, `Promote`. `torn` is a history
variable: a request has been cut off since a default was last chosen. Initially the
seeding at registration has made one default, or none.

### OrderPage

`order` is the bill with its lines, `books` what a checkout booked, `takings` (history) the
payments that each checkout recorded and whether it closed the bill. `calls` are the requests under way and the answers on their way
back. `Ask` puts a request there, and then for any `j`: `Serve(j)` carries it out (`Outcome`
has one operator per handler of the service), `Answer(j)` runs the rest of the handler,
`GiveUp(j)` runs its catch branch, with the request lost, unanswered or still to be carried
out, and `Drop(j)` loses a request nobody waits for. A request that the client still waits
for is one step. One whose client has gone may be carried out wholly (`Serve`) or only in part
(`CutOff`), since axum drops its handler between two statements: a checkout may have recorded
payments and not closed the bill (`RecordPayments`), or closed it and not marked the lines;
an edit may have written the line and not the total, a send only some of the ticket (`CutShort`).
Two checkouts of one bill overlapping statement by statement are the matter of `PosOrders`. `GoOn` is what the handlers do with
their answers: spinner, reload, receipt. The screen's own state is `view`, `shown` (its copy
of the bill), `form`, `dialog`, `busy`, `qtyBusy` and `receipt`. Each button is in the part
of the screen it is drawn in (`ProductGrid`, `LineButtons(i)`, `CheckoutTab`, ...), guarded
by what disables it in the code; a modal covers the rest. `Elsewhere` is another terminal that
voids the bill or changes a quantity. `excuse` (history) says that a copy may be old
although all is quiet: an answer was lost or overtaken, or another terminal wrote since.

`Bill` has three variables, the stage of the bill, the figures it was settled with and the
slip on the screen. The refinement `Guest` maps them to `order.status`, `books` and
`receipt`; `BillKept` says that every step of `OrderPage` is one of `Bill` or none.

### StockRoom and InventoryPage

`listed`, `onHand`, `wip`, `assembled`, `staged` and `recipe` are columns of the items;
`batches`, `takes` and `orders` rows, in the order they were made. `moved[i]` adds up the movements
of an item (the code inserts a `stock_movements` row where `moved` changes). `overruled`,
`started` and `finished` are history. Each function of `service.rs` that changes any of these is
an action of the same name, with the calls it makes: `DeductStockOnSale` and `RecordSpoil` take
the item or, for a product made to order, its ingredients, and draw down the batches
earliest expiry first (`ConsumeBatchesFefo`, a fold over the sorted batches).

`InventoryPage` adds the screen, on the pattern of `OrderPage`: `list` is what `load()`
brought (its seven reads are taken as one: they are awaited together and shown together),
`sheet`, `po`, `card`, `rows` the copies in the parts of the screen, `typed` the counts in
the fields of stock takes, `dialogs` the item each dialog is about, `busy` and `boardBusy` the spinners. Each tab
and each dialog is an operator with its buttons. `Follows` is what a handler asks for next,
`Dialogs`, `Card`, `List`, `Counts` what it does with what came back. `visit` fixes what a
behaviour is about: who opens the screen, on which stock, and which tabs are used. `excuse`
and the fields `calm`, `seen` and `first` of a request are history.

### Terminal, FloorPage, KitchenPage and Till

`Terminal` has the session (`user`, `locked`, `timer`), the sign-ins under way, the `page` and its
`local` state, and `calls`, the requests of whatever pages asked for them. A page that leaves
keeps its handlers running (`mine` becomes FALSE) but no longer its state; a reload drops
them all (`Abandoned`). `Permissions` has the role table and the guards of `App.tsx` as one
function, `Land(roles, path)`: the page at which the redirects end. Sign-in is `AdminLogin`, `PosLogin`,
`Register` and `PressPin` with the three answers `SignedIn`, `WrongPin`, `SignInFailed`; wrong credentials
are a 401, which loads the program again. `Lock` is the idle timer; `Armed` says when its effect
starts it. `Follow` follows a link that is on the screen.

`FloorPage` adds `tables` and `bills` at the server, and of each bill who opened it. A menu or a
dialog keeps the table as it was when it was opened. An answer to `createOrder` leads to the
new bill wherever the till is by then (`LeadTo`). `calm` of a dialog and of a request is history:
the table it is about was shown as it was when the dialog was opened, or the bill sent to it,
and no bill has come to it since. `KitchenPage` adds `tickets`, and the cards
on the screen. `OtherTill` and `FromTheFloor` are other tills. `Till` interleaves the three
and states the fairness. `shift` fixes what a behaviour is about, as `visit` does above.

`Session` is the promise: who asked, who is signed in, is the screen locked. `SessionKept` maps
`asked` to the names in `signIns` and is checked and proved.

## 3. What TLC checks

Deadlock is off in every configuration: once every bill is closed, every key used and every
request of the bounds sent, clients have nothing left to ask, and the system rightly stops.

| Run | Instance | Question | Answer |
|---|---|---|---|
| `pos_serial` | 1 request at a time, never interrupted; 1 bill, 2 lines, 2 tickets, 1 room, 11 kinds of request | Is each handler right on its own, after any sequence of legal calls? | `TypeOK`, `BillInStep`, `BooksMatchBill` hold |
| `pos_interrupted` | 1 request at a time, any of them may stop and be sent again; here also `update_item_status`, which sets a status by hand, 'paid' included, and would take `BooksMatchBill` apart | What survives a crash and a retry? | `NeverUndercollected`, `NoSaleBookedTwice` hold |
| `pos_pairs` | 2 uninterrupted requests at a time on one bill of 2 lines, never editing the same line; weak fairness | Do edits of different lines keep the total right, and does a bill somebody paid for get closed? | `BillInStep`, `MoneyClosesBill` hold |
| `pos_concurrent` | 2 requests of the point of sale at a time, interruptions, stale screens, a line's status set to anything by hand, 'paid' included | What survives all of it? | `DebtIsVisible`, `BookedMeansClosed` hold |
| `kitchen` | 2 point-of-sale requests, marking by hand among them, and 2 kitchen requests in flight, old cards, interruptions; 1 bill, 1 line, 2 tickets | Do kitchen and bill agree on what was cooked? | `DispatchShows`, `ShownWasDispatched`, `CookingMovesForward` hold |
| `floor` | 1 request at a time, any of which may stop; 2 bills, 3 lines, 2 tables | Do bills add up after transfers and merges? | `MergedBillInStep`, `NoLineLeftBehind` hold |
| `rooms` | 2 rooms, 2 bills, any interleaving with the sweep, 1 restart, three hours ahead of UTC as in Nairobi; weak fairness of the sweep | Is a free room free; who is turned out early; is anybody forgotten? | `StatusFitsOrder`, `OthersStayTillEleven`, `OverdueIsSwept` hold |
| `rooms_noon` | 1 room, 1 bill, three hours ahead of UTC, a guest who comes at noon | Does the guest stay until 11:00 of the day after? | `NeverBeforeEleven` is violated: the next sweep turns them out |
| `templates` | 1 request at a time, any of which may stop; 5 keys | Is there always exactly one default? | `OneDefault` holds |
| `order_page` | one bill, begun or not; 2 products, 2 changes, 1 lost answer, 2 requests at a time, handlers dropped half-way, another terminal | Does the screen show, let through and print what is booked? | `QuietPageIsFresh`, `ClosedOnce`, `FreshCheckoutIsAccepted`, `ShownChangeIsGiven`, `BillKept` (refinement of `Bill`), `WaitingEnds` hold |
| `stock` | 3 items, 17 visits of up to 4 changes to some of the tabs each, by a manager or a storekeeper, with lost answers and sales in between | Do movements explain stock, are batches and orders right, and are the screen's copies those of what it shows? | `LedgerExplainsStock`, `KitchenKeepsUnits`, `OrderStatusIsTrue`, `BatchesFollowStock`, `QuietCopiesAreFresh`, `RestockedOnce`, `CountsAreKept`, `RecipeIsOwn`, `WaitingEnds` hold |
| `terminal` | 4 people of different roles, 2 tables, 6 shifts: onboarding, handovers, service, rush, outage, cooking | Who is signed in, does the page fit, do boards catch up, is whose table it is, and does a free table get one bill? | `PageFits`, `SessionKept` (refinement of `Session`), `LockComes`, `OwnTable`, `FreshBoardNeverCrowds`, `FloorCatchesUp`, `KitchenCatchesUp` hold |

### The bounds

The properties of `PosOrders` relate one bill to its own lines, tickets, rooms and requests,
and none of its requests touches two bills, so one bill shows what they can do to each
other. Two lines are needed for a ticket or a stock loop that takes only some of them, and for
one request that inserts a line while another edits one. Two requests in flight are enough for
every race of a read with one write in between; the theorems of section 4 have no such
bound. Prices are above cost so that a director's discount changes the bill; payments
include nothing, less than, exactly and more than the bill; quantities include zero (which
removes) and discounts more than a line is worth. `MaxTotal` and `MaxPaid` are at least one
full bill. Lines, tickets, customers and workers are only compared, hence the symmetry
sets; runs with liveness properties use none.

`kitchen` needs two tickets so that a line can be sent twice, and two cooks so that one
dispatches between the two statements of another. `floor` needs two bills to merge and three lines so
that both have some and one is added later. In `rooms` the clock starts at 3:00 local time and goes on to 16:00 and to 11:00 of
the next day: a guest who comes at one of the first two is due on an 11:00 that the third reaches,
one who comes at the third is of those whose stamp misleads the code. That the code's next 11:00
is right for every other hour is the theorem `NextEleven`, and that only those guests are at risk,
in any time zone, is `OthersStayTillElevenAlways`. "Overdue" is by the documented 11:00 local
time: for a guest whom the stamp misleads the code's own threshold is earlier.
In `templates` five keys allow three deletions, each with siblings of the same and of
different age, before none can be added.

In `order_page` tea costs more than it sells for, so that cost price is sometimes the dearer
one, and cake is not on the register. Two payment lines are needed for one that opens the
next, two requests at a time for answers that overtake each other, one lost answer for a
retry. A third change to the bill adds no new pair of handlers: every property relates one
request to what another did between its sending and its answer.

A `visit` of `stock` and a `shift` of `terminal` bound one stretch of work, and the initial
state chooses one. Together the visits open every tab and every dialog, and every handler
meets every other of its tab: tabs that share a copy (stock, ingredients and expiry; orders, alerts and
suppliers) are visited together. Two visits have two boxes of beef of different expiry in the wrong
order, so that a departure must sort them; stock is one unit each, so that it
runs out. One stock take has four changes, two of them under way at a time, so that a count
can overtake the completion of the sheet it is for. In `terminal` the onboarding has two people who sign in at once; the handovers
everybody, all pages and an expiring session; service and rush one or two tables and a second
till; the outage lost answers; cooking two tickets, so that one leaves while another
comes.

### Fairness

`FairSpec` has weak fairness of `Continue(w)` for each worker: tokio polls a ready task
and SQLite answers a statement, so a request in flight gets to its next one. No fairness
is assumed of `Arrive` (clients owe nothing) nor of `Interrupt`; `pos_pairs` sets
`Interruptions` to FALSE, since a checkout that dies after its payments leaves a paid
bill open for good.

`FairSpec` of `Rooms` has weak fairness of `SweepRead` and of each `SweepRoom(r)`: the
interval in `main` (`main.rs:55-71`) ticks for ever, an error of one sweep is logged
and the next one runs, and a sweep that runs goes through its whole list. `MaxStops`
bounds the restarts, so that they do not starve the sweep; no fairness is assumed of
clients, cooks, hosts or of the clock.

`OrderPage`, `InventoryPage` and `Till` have weak fairness of `Resolve(1)`, whatever becomes of
the oldest request: it ends within the 15 seconds of the HTTP client (`api.ts:8`), by an answer or
without one. Nothing says which: liveness holds also when every answer the bounds allow to be
lost is lost. `Till` adds weak fairness of `AnswerSignIn` (the same client), of the two intervals
`PollFloor` and `PollKitchen` (`setInterval` fires while the page is mounted) and of `Lock`: a
till is left alone for 15 seconds sooner or later, which is what `LockComes` is about. No
gesture of a person is fair.

### Where the code and its documentation part

The models were written from the code. Where a comment or a document says otherwise, the
code was followed:

* A line's discount is said to be clamped to [0, line total] (`service.rs:128-129`); lowering the quantity
  afterwards (114) keeps the discount as it was.
* `balance_due` is said to reach zero with the payments (`migrations/008_customers.sql:26-28`); of two
  payments of one tab taken at once, both start from the same balance (`service.rs:371`).
* A room is said to be kept until "11am the day after check-in" (`README.md:43` of the repository), the
  sweep to wait for the next 11:00 local time (`crates/smeazy-accommodation/src/service.rs:17-18`). The
  check-in is stamped in UTC (94) and read as local time (136-137): in Nairobi a guest who comes
  between 11:00 and 14:00 bears a stamp of the morning and is turned out by the next sweep. This is the
  finding of `PROJECT.json`, shown by the run `rooms_noon`. Everybody else stays until 11:00
  (`OthersStayTillEleven`); at or behind UTC everybody does (`NeverBeforeElevenInTheWest`).
* The lock screen is written to say that a PIN was wrong and to stay (`PosLockGuard.tsx:65-68`); the
  401 loads the program again before it can (`api.ts:15-18`).
* A contractor is said to have "profile only" (`permissions.ts:11`); the way home after a sign-in ends at a
  page they may not see, and stays empty until a link to the profile is typed.

### What the models say besides

Things a reader of the properties should know of the code, which no property contradicts:

* The server never asks whether a table is free. A table gets a second bill from a board that is out
  of date, from a dialog left open on a free table while the board goes on to show it
  occupied (`FloorPlanPage.tsx:74-87` looks at the dialog only), and from a second try after the answer to
  the first was lost.
* A line that a waiter marks as dispatched before it was sent never reaches the kitchen: only lines
  that are 'new' are sent. Marked "new" through the API, a line is sent a second time.
* A merge racing a checkout moves its lines to the other bill, marked 'paid' or not, and may
  turn a bill that was just booked into 'merged'.
* A checkout that is dropped after its payment rows and before its close leaves them on an
  open bill; tried again, it records the payments a second time.
* The waiter chosen in the table dialog stays chosen for the next table.
* An answer to `createOrder` leads whoever is at the till by then to the bill.
* The kitchen display can only be reached from the dashboard or by its address.
* When every payment line is confirmed and the bill then grows, no other line can be opened
  (`PosOrderPage.tsx:170`): the way on is to leave the bill and open it again.
* The spoilage dialog and the read-only variants of the inventory screen are offered to no role,
  while a storekeeper is shown buttons the server refuses.
* A recipe can be saved while it is being fetched, or after the answer for another dialog came
  last: both save the recipe of the other product. `RecipeIsOwn` excludes these two cases.
* A count whose request failed is only in its field; a field that was emptied keeps the old count.
* An import does not bring back a deleted item; dropping a recipe leaves units in processing
  that can no longer be finished; a purchase order whose submission failed stays a draft, and
  trying again makes another.

### Where the properties stop

Some properties hold for requests one at a time only, because the handlers have nothing
against the overlap. `BillInStep` needs clients that do not edit one line at once
(`OneEditorPerLine`); `BooksMatchBill` that nothing is added or sent while a bill is being
paid; `MergedBillInStep` that nothing else is at work on the bills of a merge; `OneDefault`
that template requests do not overlap. Where requests may stop half way,
`DispatchShows`, `MergedBillInStep` and `OneDefault` leave out what the interrupted request
was working on (`unmarked`, `torn`), and nothing else. `ShownWasDispatched` leaves out the lines
that a waiter marked at the order screen (`byHand`). `DebtIsVisible` and `BookedMeansClosed` are about requests of
the point of sale; a merge that races a checkout is outside them (it breaks the second), and
what holds of merges is `MergedBillInStep`, `NoLineLeftBehind` and the theorem
`MergesKeepBooks`, for requests that do not overlap. The hazards of `PROJECT.json` say
for each such case why no property covers it.

On the screens the exceptions are written into the history variables. `excuse` names the
copies that may be old: one whose answer was lost or overtaken, or that somebody else has
changed since. `FreshCheckoutIsAccepted` and `ShownChangeIsGiven` are about a checkout of a bill
the cashier saw as it was (`fresh`); the first leaves out cost price, where a thing may cost more than it
sells for, the second the director's rates, which the screen does not take into account, and
a negative discount. `RestockedOnce` and `CountsAreKept` are about what was confirmed on a quiet
sheet and not overtaken since by another delivery, or another count (`Hurried`); two counts of
one field under way at a time may arrive in either order, which excuses the field (`Recounts`).
`RecipeIsOwn` is about a recipe saved after it was fetched, with no answer for another dialog
in between (`calm`). `FreshBoardNeverCrowds` is about a table that was shown as it was when its dialog was
opened, or when a bill was sent to it, and excuses one to which a bill has come between then and the
moment the request is carried out. `ClosedOnce` is about closing: payments that a dropped checkout
recorded before its close come on top, and two checkouts overlapping statement by statement
(the hazard at `service.rs:224`) are outside the order screen's model, which takes the close as one step. `LedgerExplainsStock` leaves out
items for which a stock take was applied to stock that had moved since the take began.

## 4. What is proved

Every invariant that a run checks is also proved, for every value of the constants, and so
are three refinements and the action properties, but for `BatchesFollowStock`, `RecipeIsOwn` and liveness
(see the end of this section).

`PosOrdersProofs` proves, for every finite or infinite choice of the constants that meets
the assumptions of `PosOrders`, any number of requests in flight, with interruptions and
stale screens or without:

* `TypeCorrect`: `Spec => []TypeOK`;
* `DebtIsVisibleAlways`: money is owed exactly on tabs, and every tab has a customer;
* `BookedMeansClosedAlways`: revenue, stock and completed tickets belong to
  closed bills only;
* `ReadsStayTrueAlways`: what a handler read and leans on is still true when it writes.

**Assumptions.** `OpsAssumption`, `ItemsAssumption` (rooms are items, costs are natural
numbers), `AmountsAssumption` (prices and payments are not negative, other amounts are
integers), `SwitchesAssumption`, `NullsAssumption` (a NULL is not a key). TLC evaluates
all of them in every run.

**Argument.** None of the three invariants is inductive alone. A close that makes a bill
a tab keeps `DebtIsVisible` only if the customer the checkout saw at its start is still
there: that is a fact about the request, not about the tables, and other requests must
not disturb it. `BookedMeansClosed` needs that a bill being booked stays closed. So the
inductive invariant is

    IInv == TypeOK /\ DebtIsVisible /\ BookedMeansClosed /\ ReadsStayTrue /\ KeysSound

with `ReadsStayTrue` the requests' half and `KeysSound` saying that unused keys carry no
marks and foreign keys point into the tables. The proof has a lemma for what an arriving
request does (`IInvArrive`), one for each kind of statement (`PlainStep` for steps
that touch the tables of the request only, `BooksKept`, `JobStep`, `BeginStep`), and
one lemma per idea they share: `ReadsKept` says which facts survive when another
request moves. The point of it all is monotonicity: an order never loses its customer,
and a bill that was closed is never opened or voided again, so a fact once read
stays true however late it is used.

About `PosKitchen` (`KSpec`) it proves, for any number of requests, cooks, tickets and lines:

* `CookingMovesForwardAlways`: no dish goes back, with stale boards and interruptions or without;
* `DispatchShowsAlways`: what was dispatched shows on the bill, if clients set a line's status to
  nothing but "dispatched" or "paid" (the order screen sets the first);
* `ShownWasDispatchedAlways`: what shows as dispatched was dispatched or marked by hand, whatever
  status clients set.

The invariant `KInv` is `IInv` with what ties tickets to lines: a ticket is written
by one request, which puts no line on it twice and only lines that exist (`SendersOK`,
`TicketsOK`), and a cook's request is about rows that were written (`CookOK`). `TicketsMove` and `LinesMove` list the few ways in which the
requests of the point of sale move a ticket or a line; none of them undoes a dispatch.

`SumLaws` has what the theorems about money rest on: a sum of integers is an integer, it is
zero over the empty set, grows by what an element brings (`SumPutsIn`), changes by what one element
changes (`SumChanges`), and is the same for functions that agree (`SumOfSame`). `SumOver` is a
fold, that is a `CHOOSE` of a function defined by recursion over subsets. Induction over it is
out of the provers' reach, but a smallest counterexample is not: each law is proved of a smallest set that breaks it
(`MinimalSet`), which exists because the naturals are well-founded.

`PosSerialProofs` proves what holds of the money. For requests that do not overlap, wherever they
are cut off, for any number of orders and lines and any amounts:

* `NeverUndercollectedAlone`: what was paid for a closed bill and what is still owed cover
  its total;
* `NoSaleBookedTwiceAlone`: neither the wallet nor the stock books a sale twice;
* `BooksMatchBillAlone`: if moreover no request stops half way, a closed bill, its payments, the
  ledger, the stock and the tickets agree to the unit.

They assume `OneWorker` and `~StaleScreens`, the last also `~Interruptions`, as the runs
`pos_interrupted` and `pos_serial` do; with overlapping requests none of them holds, since `checkout` reads and
writes without a transaction. The invariant is `IInv /\ Books`. `Books` adds `JobBooks`, what a request
knows of the books while nobody else writes them: a checkout that still collects has booked
nothing, a payment on a tab comes on top of what was paid before, a close books what is not
booked yet. Most steps follow from `RestStep`: they leave alone what a closed bill owes, has
received and lists (`ClosedRest`), and an open bill has nothing booked (`NothingBooked`, from
`BookedMeansClosed`). `BooksMatchBill` adds `Settlement`: at each statement of a close, what has been
booked so far and what the request still holds are together what the bill says.

* `BillInStepAlways`: an open bill's total is the sum of its lines, once no edit of it is under
  way. Finitely many requests overlap as they like, as long as none of them edits the line of another
  (`OneEditorPerLine`) or there is one worker, and none stops half way. The invariant is
  `EditInv`: at every moment the total and what the requests in flight will still add to it are the sum of
  the lines (`InStep`), since every handler that writes a line owes the total
  the difference, and `EditsOK`, which says that what it computes the difference from is still in the row.
* `NoLineLeftBehindAlways`, `MergedBillInStepAlways`: a bill closed by a merge keeps no line, and bills
  add up after transfers and merges, if requests do not overlap (`OneAtATime`) and no table
  is merged with itself; requests may stop anywhere. The invariant `FInv` adds to `IInv` what a merge
  knows of the two bills between its statements (`HostsOK`), that one request at a time is busy (`OneBusy`), and
  that every bill that is not excused is `InStep` (`BillsOK`).
* `MergesKeepBooks`: under the same conditions `BookedMeansClosed` survives transfers and merges too.

`RoomsProofs` proves, for any rooms, orders, hours and number of restarts:

* `NextEleven`: for every time, `NextElevenAfter` is the first 11:00 strictly after it;
* `StatusFitsOrderAlways`: a ready room has no order and an occupied one has, whatever
  interleaves;
* `OthersStayTillElevenAlways`: in every time zone the sweep turns no guest out before the first 11:00
  after the check-in it read, but for those between whose stamp, read as local time, and whose true local
  check-in there is an 11:00 (`ShiftCrossesEleven`);
* `NeverBeforeElevenInTheWest`: at or behind UTC there are none of those. Ahead of it there are: `rooms_noon`.
* `TypeCorrect`: every room, request and the sweep's list keep their types.

The inductive invariant is `RInv == TypeOK /\ StatusFitsOrder /\ ListSound`, where
`ListSound` says that the sweep read its clock in the past. `OverdueIsSwept` is liveness and
stays with TLC.

`ReceiptTemplatesProofs` proves, for any number of templates and of requests:

* `TypeCorrect`: in particular a default flag never outlives its row, whatever overlaps;
* `KeepsOneAlways`: under `OneAtATime` the last template of a type stays, also if requests
  stop half way;
* `OneDefaultAlways`: under `OneAtATime` there is exactly one default, and after a request
  that stopped half way there is again once a default has been chosen.

Both rest on `AloneInv`: at most one request is in flight, and what it has read still holds
(`JobSound`). `FlagInv` adds what each step leaves of the flags (`FlagSound`). That a deletion
finds an oldest template to promote (`SomeOldest`) is the well-foundedness of the naturals.

`StockRoomProofs` proves about `StockSpec`, for any items, recipes, amounts and dates, any
number of stock takes and orders, and any sequence of requests:

* `StockTypeCorrect`, and `LedgerExplainsStockAlways`, `KitchenKeepsUnitsAlways`,
  `OrderStatusIsTrueAlways`.

It assumes `StockAssumption` (what may be in the database at the beginning). The invariant is
`SInv == StockOK /\ KitchenOK /\ MenuOK /\ PaperOK`, in four parts because most requests
touch one: `Rests` says that a part whose variables stay keeps, and each operation has a lemma for the parts
it changes. The ledger needs `PaperOK`, since a stock take books what its lines say; the
order status is a fact about every order on paper (`Honest`), the history of its receipts.

About the screen in front of it (`Spec` of `InventoryPage`) it proves, for any visits, any number of
requests under way and of answers lost:

* `ScreenDrivesStockRoom`: the screen with its service implements `StockSpec`, so what was proved of the
  service holds behind it (`StockRoomBehindScreen`);
* `QuietCopiesAreFreshAlways`, `RestockedOnceAlways`, `CountsAreKeptAlways`.

It assumes `VisitsAssumption` and `AmountsAssumption` besides. The invariant `PInv` is `SInv` with three
ideas. What is shown fits the server (`CallsFit`, `ScreenFits`): every answer and every copy names
things that exist there, which is why a request of the screen is one that `StockSpec` allows.
A copy that is old is excused or about to be read again (`Copies`: for each of the five ways of reading back,
which requests under way will bring it up to date). And what a calm request leans on is
still true at the server (`Leans`), because no other passes it (`Unhurried`). The last came of the proof:
with two requests at a time a count could overtake a completion that the history called calm,
which no visit of the run showed; now one does.

`OrderPageProofs` proves, for any prices, amounts and bounds:

* `ClosedOnceAlways`: one checkout closes a bill, with the payments in its books, and nothing is recorded
  after it, also if checkouts are dropped half-way and tried again;
* `ReceiptIsBookedAlways`: the receipt on the screen is what was booked;
* `BillKeptAlways`: the order screen with its network and server implements `Bill`, step by step;
* `QuietPageIsFreshAlways`: with nothing under way the screen shows the bill as it is;
* `FreshCheckoutIsAcceptedAlways`, `ShownChangeIsGivenAlways`: a checkout the screen lets through is accepted,
  and the change it announces is what is booked.

The assumptions are `PricesAssumption` and `NumbersAssumption`. The invariant `OInv` says that an open or voided bill has no books, and that every answer
under way is `Truthful`: figures that come back with it are those in the books. That
relates a message to a later state, and holds because books, once written, never change.
`PInv` adds the types of the bill, of requests and of answers, and `CallOK`: a version that a request was made
for and that is still the server's stands for the same bill, so that what the cashier
reckoned is what the server reckons. `UpToDate` says when the screen may differ from the bill: only while something under way
will have it read again (`Due`).

`TillProofs` proves, for any staff, roles, tables and shifts:

* `PageFitsAlways`: the page on the screen is one that whoever is signed in may see;
* `SessionKeptAlways`: `Till` implements `Session`, step by step;
* `LockedHasOwnerAlways`, `HandoverAlways`: what `Session` promises, of the till itself;
* `OwnTableAlways`: a table that waitstaff open is served by whoever opened it;
* `FreshBoardNeverCrowdsAlways`: a table shown as it was when its dialog was opened, or a bill
  sent to it, gets a second bill only if another came to it since.

It assumes `StaffAssumption`, `ShiftsAssumption`, `AreasAssumption` and `TicketsAssumption`. The invariant `TInv` is `PageFits` with the types of
the session. `LandFits` proves that the redirects end at a page that fits, for every set of
roles and every path; every action of the three modules then moves in one of the few ways
(`PromiseRests`, `PromiseAsks`, `PromiseBegins`, `PromiseEnds`, ...) that `Session` allows.
`FloorInv` is about the floor plan: each request under way `Fits` the page that sent it, and a calm
request or dialog has no open bill on its table: there was none when it began (`BoardTells`: a table that is
shown free, and as it is, has none), and one that comes ends the calm.

**Only model-checked.** `BatchesFollowStock`: which batches a departure empties is a fold over
batches in order of expiry, and its reference definition another; their agreement on every
list is induction over data. `RecipeIsOwn`: its excuse is most of what a proof would need. Liveness (`MoneyClosesBill`, `OverdueIsSwept`, `WaitingEnds`,
`LockComes`, `FloorCatchesUp`, `KitchenCatchesUp`) is out of TLAPS's reach.

## 5. What is not modelled, and why

* `update_waitstaff` writes a name that nothing reads back. The VAT split of the ledger
  credit and the audit rows are values no property is about yet.
* The name and phone lookup of `attach_customer` only decides which customer it is.
* A connection pool that runs dry, `SQLITE_BUSY` after its timeout: both end a
  request with an error, which is `Interrupt`.
* Ids: `Uuid::new_v4` is taken never to return a key twice.
* The statements of the inventory service interleave as those of the point of sale do;
  `StockRoom` takes each request as one step. `PosOrders` has the statement of a checkout that
  draws on stock.
* Names, prices, categories, suppliers and the text of an imported file: nothing reads them back.
* On the order screen: the search box, the order note, how receipts look, and the
  dialogs of which only the choice matters. Going from one of its tabs to the other changes nothing else.
* On the kitchen screen: the bell, which compares how many tickets there are.
* On the floor plan: the register picker, which only narrows the products of the order screen,
  and the positions of menus.
* The pages for staff, settings, customers, analytics, logs, registers, accommodation
  and the profile: only coming and going. Each is a form or a list over one table, read on arrival
  and after a change.
* The screen lock comes after 15 seconds without a touch, which is as long as a request may
  take; so `Lock` waits for the requests of the last touch. A dialog or menu covers the page
  under it, and only links that are on the screen are followed.
* Administration of staff, businesses and settings; analytics; M-Pesa; common code: see the
  table of section 1.

## 6. Plan

Done: `PosOrders`, `PosKitchen`, `PosFloor`, `Rooms`, `ReceiptTemplates`, `OrderPage` with `Bill`,
`StockRoom` with `InventoryPage`, `Terminal`, `FloorPage` and `KitchenPage` in `Till` with `Session`;
proofs about every one of them.

Left, most important first:

1. `PosOrders`, one request at a time, shown to implement the server half of `OrderPage`.
2. That departures follow the batches (`BatchesFollowStock`), by a smallest list that breaks it, as `SumLaws` does it for
   sets.
3. The statements of the inventory service, interleaved, with requests that stop half way: two
   sales on one batch, two cooks on one ingredient.
4. `Customers`: resolve-or-create under races; the balance as the sum of the tabs.
