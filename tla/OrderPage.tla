------------------------------ MODULE OrderPage ------------------------------
(***************************************************************************)
(* The order screen (frontend/src/pages/PosOrderPage.tsx) and the point of *)
(* sale behind it. The screen works on a copy of the bill; every button    *)
(* sends a request and goes on when its answer, or the 15 seconds of the   *)
(* HTTP client, arrives. Answers overtake each other, and a request whose  *)
(* answer was given up may still be carried out, wholly or up to any of    *)
(* its statements: the server drops the handler of a client that is gone.  *)
(* A request somebody waits for is one step of the server here. Requests   *)
(* that overlap, or fail half-way, are PosOrders' subject.                 *)
(***************************************************************************)
EXTENDS Integers, Sequences, FiniteSets, SequencesExt, Sums, FiniteSetsExt, TLC

CONSTANTS
    Products,       \* what is for sale
    Price, Cost,    \* what a unit of each product sells for and cost
    InRegister,     \* products of the departments of the selected register
    Discounts,      \* discounts a cashier types
    Amounts,        \* payments a cashier types
    MaxLines,       \* lines ever put on the bill
    MaxQuantity,    \* bound on the quantity of a line
    MaxPayments,    \* bound on the payment lines of the checkout form
    MaxInFlight,    \* requests of the screen that may be under way at once
    MaxRequests,    \* bound on requests other than reloads
    MaxLost         \* bound on answers the screen gives up

ASSUME PricesAssumption ==
    Price \in [Products -> Nat] /\ Cost \in [Products -> Nat] /\ InRegister \subseteq Products
ASSUME NumbersAssumption ==
    Discounts \subseteq Int /\ Amounts \subseteq Int /\ MaxLines \in Nat /\ MaxQuantity \in Nat

LineIds == 1..MaxLines

VARIABLES
    \* the server
    order,       \* the bill and its lines
    books,       \* what a checkout booked
    takings,     \* history: what each checkout recorded as paid, and whether it closed the bill
    \* between screen and server
    calls,       \* requests under way, and answers on their way back, oldest first
    sent, lost,  \* how many were sent, and given up
    \* the screen
    view,        \* what is mounted
    shown,       \* the screen's copy of the bill
    form,        \* the checkout form
    dialog,      \* the line whose discount is being edited, as it was
    busy,        \* spinners: requests whose button waits
    qtyBusy,     \* the one line whose quantity buttons wait
    receipt,     \* the figures of the receipt on the screen
    excuse       \* history: why the copy may be old although nothing is under way

server == <<order, books, takings>>
wire == <<calls, sent, lost>>
page == <<view, shown, form, dialog, busy, qtyBusy, receipt>>
vars == <<server, wire, page, excuse>>

NoOrder == [status |-> "unknown"]
NoFigures == [total |-> "none"]
NoDialog == [line |-> 0]
EmptyForm == [cart |-> 0, partial |-> FALSE,
              pays |-> <<[amt |-> 0, ok |-> FALSE]>>]

-------------------------------------------------------------------------------
(* The server, one request at a time.                                        *)

NewLine(p) == [product |-> p, qty |-> 1, disc |-> 0, status |-> "new", ticket |-> FALSE]
Put(lines, i, l) == [k \in DOMAIN lines \cup {i} |-> IF k = i THEN l ELSE lines[k]]
ListTotal(l) == Price[l.product] * l.qty
LineTotal(l) == ListTotal(l) - l.disc

Refused(o) == [ok |-> FALSE, order |-> o, figures |-> NoFigures]
Done(o) == [ok |-> TRUE, order |-> [o EXCEPT !.version = @ + 1], figures |-> NoFigures]

AddItem(o, p) ==
    IF o.status # "open" THEN Refused(o)
    ELSE Done([o EXCEPT !.lines = Put(@, o.next, NewLine(p)),
                        !.total = @ + Price[p], !.next = @ + 1])

\* The only edit of lines that does not ask whether the bill is open. A line a kitchen
\* ticket refers to cannot be deleted.
RemoveItem(o, i) ==
    IF i \notin DOMAIN o.lines \/ o.lines[i].ticket THEN Refused(o)
    ELSE Done([o EXCEPT !.lines = Restrict(@, DOMAIN @ \ {i}),
                        !.total = @ - LineTotal(o.lines[i])])

UpdateItemQuantity(o, i, q) ==
    IF i \notin DOMAIN o.lines \/ o.status # "open" THEN Refused(o)
    ELSE IF q <= 0 THEN RemoveItem(o, i)
    ELSE Done([o EXCEPT !.lines[i].qty = q,
                        !.total = @ + Price[o.lines[i].product] * (q - o.lines[i].qty)])

SetItemDiscount(o, i, d) ==
    IF i \notin DOMAIN o.lines \/ o.status # "open" THEN Refused(o)
    ELSE LET clamped == Min({Max({d, 0}), ListTotal(o.lines[i])})
         IN  Done([o EXCEPT !.lines[i].disc = clamped,
                            !.total = @ - (clamped - o.lines[i].disc)])

UpdateItemStatus(o, i) ==
    IF i \notin DOMAIN o.lines THEN Refused(o)
    ELSE Done([o EXCEPT !.lines[i].status = "dispatched"])

SendToKitchen(o) ==
    Done([o EXCEPT !.lines = [i \in DOMAIN @ |->
            IF @[i].status = "new" THEN [@[i] EXCEPT !.status = "processing", !.ticket = TRUE]
            ELSE @[i]]])

AttachCustomer(o) == Done([o EXCEPT !.customer = TRUE])
UpdateWaitstaff(o) == Done([o EXCEPT !.waiter = TRUE])
VoidOrder(o) == IF o.status # "open" THEN Refused(o) ELSE Done([o EXCEPT !.status = "voided"])

AtCost(o) ==
    SumOver([i \in DOMAIN o.lines |-> Cost[o.lines[i].product] * o.lines[i].qty], DOMAIN o.lines)

Charged(o, r) ==
    CASE r.rate = "directors_promo" -> 0
      [] r.rate = "directors_discount" -> AtCost(o)
      [] OTHER -> o.total - r.disc

\* Mutant: a closed bill is not turned away.
TakesAnyBill(o) == TRUE

TakesPayment(o) == o.status = "open"

\* Mutant: the change is worked out before the discount of the cart.
GrossFigures(o, r) ==
    LET total == Charged(o, r)
        short == r.rate # "directors_promo" /\ r.paid < total
    IN  [total |-> total, paid |-> r.paid,
         change |-> IF short THEN 0 ELSE Max({r.paid - o.total, 0}),
         owed |-> IF short THEN total - r.paid ELSE 0]

Figures(o, r) ==
    LET total == Charged(o, r)
        short == r.rate # "directors_promo" /\ r.paid < total
    IN  [total |-> total, paid |-> r.paid,
         change |-> IF short THEN 0 ELSE Max({r.paid - total, 0}),
         owed |-> IF short THEN total - r.paid ELSE 0]

Checkout(o, r) ==
    LET f == Figures(o, r)
    IN  IF ~TakesPayment(o) \/ (f.owed > 0 /\ ~(r.partial /\ o.customer)) THEN Refused(o)
        ELSE [Done([o EXCEPT !.status = IF f.owed > 0 THEN "tab" ELSE "paid", !.total = f.total,
                             !.lines = [i \in DOMAIN @ |-> [@[i] EXCEPT !.status = "paid"]]])
              EXCEPT !.figures = f]

Outcome(o, r) ==
    CASE r.op = "get" -> [ok |-> TRUE, order |-> o, figures |-> NoFigures]
      [] r.op = "add" -> AddItem(o, r.product)
      [] r.op = "remove" -> RemoveItem(o, r.line)
      [] r.op = "quantity" -> UpdateItemQuantity(o, r.line, r.n)
      [] r.op = "discount" -> SetItemDiscount(o, r.line, r.n)
      [] r.op = "status" -> UpdateItemStatus(o, r.line)
      [] r.op = "send" -> SendToKitchen(o)
      [] r.op = "waitstaff" -> UpdateWaitstaff(o)
      [] r.op = "attach" -> AttachCustomer(o)
      [] r.op = "void" -> VoidOrder(o)
      [] r.op = "checkout" -> Checkout(o, r)

-------------------------------------------------------------------------------
(* What the screen works out from its copy.                                  *)

Confirmed == {k \in DOMAIN form.pays : form.pays[k].ok}
Total == shown.total
TotalPaid == SumOver([k \in DOMAIN form.pays |-> form.pays[k].amt], Confirmed)
\* Mutant: what is typed counts before it is confirmed.
RemainingTyped ==
    Max({0, Total - form.cart - SumOver([k \in DOMAIN form.pays |-> form.pays[k].amt],
                                        DOMAIN form.pays)})

Remaining == Max({0, Total - form.cart - TotalPaid})
ChangeDue == Max({0, TotalPaid - Total + form.cart})
CanOpenTab == form.partial /\ shown.customer
CanComplete == Remaining = 0 \/ CanOpenTab

\* The products the search box and the category tabs can bring up.
Offered == {p \in InRegister : Price[p] > 0}

\* A dialog or a receipt covers the screen.
Free == view = "open" /\ dialog = NoDialog /\ receipt = NoFigures

-------------------------------------------------------------------------------
(* Requests of the screen.                                                   *)

Call(r) == [req |-> r, phase |-> "sent", heard |-> TRUE]
Reload == Call([op |-> "get"])

Adds == Len(SelectSeq(calls, LAMBDA c : c.req.op = "add"))

Ask(r) ==
    /\ sent < MaxRequests
    /\ r.op = "add" => order.next + Adds <= MaxLines
    /\ Len(calls) < MaxInFlight
    /\ calls' = Append(calls, Call(r))
    /\ sent' = sent + 1
    /\ UNCHANGED <<server, lost, view, shown, form, receipt, excuse>>

AddProduct(p) == Ask([op |-> "add", product |-> p]) /\ UNCHANGED <<dialog, busy, qtyBusy>>
RemoveLine(i) == Ask([op |-> "remove", line |-> i]) /\ UNCHANGED <<dialog, busy, qtyBusy>>
MarkDispatched(i) == Ask([op |-> "status", line |-> i]) /\ UNCHANGED <<dialog, busy, qtyBusy>>

ChangeQuantity(i, q) ==
    /\ q >= 0
    /\ Ask([op |-> "quantity", line |-> i, n |-> q])
    /\ qtyBusy' = i
    /\ UNCHANGED <<dialog, busy>>

Send ==
    /\ \E i \in DOMAIN shown.lines : shown.lines[i].status = "new"
    /\ Ask([op |-> "send"])
    /\ busy' = busy \cup {"send"}
    /\ UNCHANGED <<dialog, qtyBusy>>

AssignWaitstaff == Ask([op |-> "waitstaff"]) /\ UNCHANGED <<dialog, busy, qtyBusy>>

Attach ==
    /\ Ask([op |-> "attach"])
    /\ busy' = busy \cup {"attach"}
    /\ UNCHANGED <<dialog, qtyBusy>>

\* The dialog compares with the line as it was when it was opened.
SaveItemDiscount(d) ==
    /\ d >= 0
    /\ d <= ListTotal(dialog.was)
    /\ Ask([op |-> "discount", line |-> dialog.line, n |-> d])
    /\ busy' = busy \cup {"discount"}
    /\ UNCHANGED <<dialog, qtyBusy>>

ProcessCheckout(rate) ==
    /\ CanComplete
    /\ Ask([op |-> "checkout", paid |-> TotalPaid,
            disc |-> IF form.cart > 0 THEN form.cart ELSE 0,
            rate |-> rate, partial |-> CanOpenTab,
            \* what the cashier saw
            version |-> shown.version, typed |-> form.cart, change |-> ChangeDue])
    /\ busy' = busy \cup {"checkout"}
    /\ UNCHANGED <<dialog, qtyBusy>>

-------------------------------------------------------------------------------
(* The parts of the screen and what can be done there. Going from one tab to *)
(* the other is always possible and changes nothing else, so the tab that is *)
(* open is left out; so are the dialogs of which only the choice matters.    *)

Fill(f) == form' = f /\ UNCHANGED <<server, wire, view, shown, dialog, receipt, busy, qtyBusy, excuse>>

Edit(d) == dialog' = d /\ UNCHANGED <<server, wire, view, shown, form, receipt, busy, qtyBusy, excuse>>

\* Leaving unmounts the page: nobody listens to the requests still under way. A reload
\* could no longer change anything, so it may as well come first.
Leave ==
    /\ \A j \in DOMAIN calls : calls[j].req.op # "get"
    /\ view' = "away"
    /\ shown' = NoOrder /\ form' = EmptyForm /\ dialog' = NoDialog /\ receipt' = NoFigures
    /\ busy' = {} /\ qtyBusy' = 0
    /\ calls' = [j \in DOMAIN calls |-> [calls[j] EXCEPT !.heard = FALSE]]
    /\ lost' = lost + Len(SelectSeq(calls, LAMBDA c : c.heard))
    /\ lost' <= MaxLost
    /\ UNCHANGED <<server, sent, excuse>>

Header == Free /\ Leave

ProductGrid == Free /\ \E p \in Offered : AddProduct(p)

LineButtons(i) ==
    /\ Free
    /\ \/ /\ qtyBusy # i
          /\ \/ ChangeQuantity(i, shown.lines[i].qty - 1)
             \/ shown.lines[i].qty < MaxQuantity /\ ChangeQuantity(i, shown.lines[i].qty + 1)
       \/ \E q \in 0..MaxQuantity : ChangeQuantity(i, q)      \* the number typed
       \/ Edit([line |-> i, was |-> shown.lines[i]])
       \/ shown.lines[i].status # "dispatched" /\ MarkDispatched(i)
       \/ RemoveLine(i)

ActionBar == Free /\ "send" \notin busy /\ Send

\* Confirming the last payment line opens another one for what is missing.
ConfirmPaymentLine(k, amt) ==
    LET left == Remaining - amt
        more == k = Len(form.pays) /\ left > 0
    IN  /\ amt > 0
        /\ more => Len(form.pays) < MaxPayments
        /\ Fill([form EXCEPT !.pays =
                   [@ EXCEPT ![k] = [amt |-> amt, ok |-> TRUE]] \o
                   IF more THEN <<[amt |-> left, ok |-> FALSE]>> ELSE <<>>])

\* An amount is typed, or is there already: focusing an empty one writes what remains into
\* it. It counts once it is confirmed.
PaymentLine(k) ==
    LET given == IF form.pays[k].amt = 0 THEN Remaining ELSE form.pays[k].amt
    IN  ~form.pays[k].ok /\ \E a \in Amounts \cup {given} : ConfirmPaymentLine(k, a)

\* A director's rate changes nothing on the screen but the total it prints, so it may as
\* well be chosen when the button is pressed.
Rates == {"none", "directors_promo", "directors_discount"}

CheckoutTab ==
    /\ Free
    /\ \/ \E d \in Discounts : Fill([form EXCEPT !.cart = d])
       \/ \E k \in DOMAIN form.pays : PaymentLine(k)
       \/ /\ Remaining > 0 /\ shown.customer
          /\ Fill([form EXCEPT !.partial = ~@])
       \/ "checkout" \notin busy /\ \E r \in Rates : ProcessCheckout(r)

WaitstaffModal == Free /\ AssignWaitstaff

CustomerModal == Free /\ "attach" \notin busy /\ Attach

DiscountModal ==
    /\ dialog # NoDialog
    /\ \/ "discount" \notin busy /\ \E d \in Discounts \cup {0} : SaveItemDiscount(d)
       \/ Edit(NoDialog)

ReceiptModal == receipt # NoFigures /\ Leave

\* The floor plan, or the lock when it opens again, leads back to the bill.
Enter ==
    /\ view = "away"
    /\ Len(calls) < MaxInFlight
    /\ view' = "loading"
    /\ calls' = Append(calls, Reload)
    /\ UNCHANGED <<server, sent, lost, shown, form, dialog, receipt, busy, qtyBusy, excuse>>

-------------------------------------------------------------------------------
(* Answers.                                                                  *)

Book(bill, figures) ==
    /\ order' = bill
    /\ IF figures = NoFigures THEN UNCHANGED <<books, takings>>
       ELSE /\ books' = figures
            /\ takings' = Append(takings, [paid |-> figures.paid, closed |-> TRUE])

\* The server carries out a request.
Perform(r) == LET out == Outcome(order, r) IN Book(out.order, out.figures)

\* What comes back; the ghost says whether the cashier had seen the bill as it was, and open.
Answered(c) ==
    LET out == Outcome(order, c.req)
    IN  [req |-> c.req, phase |-> "answered", heard |-> TRUE, ok |-> out.ok,
         figures |-> out.figures,
         order |-> IF c.req.op = "get" THEN out.order ELSE NoOrder,
         fresh |-> /\ c.req.op = "checkout" /\ order.status = "open"
                   /\ c.req.version = order.version]

Serve(j) ==
    LET c == calls[j] IN
    /\ c.phase = "sent"
    /\ Perform(c.req)
    /\ calls' = IF c.heard THEN [calls EXCEPT ![j] = Answered(c)] ELSE RemoveAt(calls, j)
    /\ excuse' = (excuse \/ ~c.heard)
    /\ UNCHANGED <<sent, lost, page>>

\* The bill as a handler leaves it that is dropped after its first writes: closed, the lines
\* not marked; some new lines on a ticket, none marked; a line written, the total not.
CutShort(o, r, ticketed) ==
    LET bill == Outcome(o, r).order
    IN  CASE r.op = "checkout" -> [bill EXCEPT !.lines = o.lines]
          [] r.op = "send" ->
               [bill EXCEPT !.lines = [i \in DOMAIN o.lines |->
                                         [o.lines[i] EXCEPT !.ticket = @ \/ i \in ticketed]]]
          [] OTHER -> [bill EXCEPT !.total = o.total]

NewLines(o) == {i \in DOMAIN o.lines : o.lines[i].status = "new"}

\* A checkout that is dropped before it closes the bill; how much of the payments it has
\* recorded by then makes no difference here.
RecordPayments(r) ==
    /\ r.op = "checkout" /\ Outcome(order, r).ok /\ r.paid > 0
    /\ takings' = Append(takings, [paid |-> r.paid, closed |-> FALSE])
    /\ UNCHANGED <<order, books>>

\* The client of a request is gone, and its handler is dropped between two statements.
CutOff(j) ==
    LET r == calls[j].req IN
    /\ calls[j].phase = "sent" /\ ~calls[j].heard
    /\ \/ \E ticketed \in SUBSET NewLines(order) :
             Book(CutShort(order, r, ticketed), Outcome(order, r).figures)
       \/ RecordPayments(r)
    /\ calls' = RemoveAt(calls, j)
    /\ excuse' = TRUE
    /\ UNCHANGED <<sent, lost, page>>

\* Another terminal changes the bill, or voids it from the floor plan.
Elsewhere ==
    /\ sent < MaxRequests
    /\ \E r \in {[op |-> "void"]} \cup
                {[op |-> "quantity", line |-> i, n |-> q] : i \in DOMAIN order.lines, q \in 0..MaxQuantity} :
          Outcome(order, r).ok /\ Perform(r)
    /\ sent' = sent + 1
    /\ excuse' = TRUE
    /\ UNCHANGED <<calls, lost, page>>

AlwaysReloads == {"remove", "quantity", "status"}
ReloadsOnSuccess == {"add", "send", "waitstaff", "attach", "discount"}

\* Mutant: a changed quantity is not read back.
ReloadsUnlessQuantity(op, ok) ==
    op \in AlwaysReloads \ {"quantity"} \/ (ok /\ op \in ReloadsOnSuccess)

ReloadsAfter(op, ok) == op \in AlwaysReloads \/ (ok /\ op \in ReloadsOnSuccess)

\* Mutant: the spinner of the checkout stops only when it went well.
StopsIfDone(op, ok) == IF op = "checkout" /\ ~ok THEN {} ELSE {op}

StopsSpinner(op, ok) == {op}

\* Mutant: the receipt repeats what the screen had worked out.
PrintedAsShown(c) == [c.figures EXCEPT !.paid = c.req.paid, !.change = c.req.change]

Printed(c) == c.figures

\* The rest of a handler, once its request succeeded or failed.
GoOn(j, ok, rest) ==
    LET c == calls[j]
        op == c.req.op
    IN  /\ calls' = rest \o IF ReloadsAfter(op, ok) THEN <<Reload>> ELSE <<>>
        /\ busy' = busy \ StopsSpinner(op, ok)
        /\ qtyBusy' = IF op = "quantity" THEN 0 ELSE qtyBusy
        /\ dialog' = IF ok /\ op = "discount" THEN NoDialog ELSE dialog
        /\ receipt' = IF ok /\ op = "checkout"
                      THEN Printed(c)
                      ELSE receipt
        /\ shown' = IF ok /\ op = "get" THEN c.order ELSE shown
        /\ view' = IF view = "loading" /\ op = "get"
                   THEN IF ok THEN "open" ELSE "missing"
                   ELSE view
        /\ UNCHANGED <<server, sent, form>>

\* A copy that the server has since replaced, and that a newer one was shown before, is
\* an excuse; the current one ends every excuse.
Answer(j) ==
    LET c == calls[j] IN
    /\ c.phase = "answered" /\ c.heard
    /\ GoOn(j, c.ok, RemoveAt(calls, j))
    /\ excuse' = IF c.req.op # "get" THEN excuse
                 ELSE IF c.order = order THEN FALSE
                 ELSE excuse \/ (shown # NoOrder /\ c.order.version < shown.version)
    /\ UNCHANGED lost

\* The network fails or 15 seconds pass: the request is carried out later, in part or
\* wholly, was, or never is.
GiveUp(j) ==
    /\ lost < MaxLost
    /\ calls[j].heard
    /\ lost' = lost + 1
    /\ \/ GoOn(j, FALSE, RemoveAt(calls, j))
       \/ calls[j].phase = "sent" /\ GoOn(j, FALSE, [calls EXCEPT ![j].heard = FALSE])
    /\ excuse' = TRUE

\* What nobody waits for gets lost.
Drop(j) ==
    /\ ~calls[j].heard
    /\ calls' = RemoveAt(calls, j)
    /\ UNCHANGED <<server, sent, lost, page, excuse>>

Resolve(j) == Serve(j) \/ CutOff(j) \/ Answer(j) \/ GiveUp(j) \/ Drop(j)

-------------------------------------------------------------------------------

EmptyBill == [status |-> "open", version |-> 0, customer |-> FALSE, waiter |-> FALSE,
              lines |-> <<>>, total |-> 0, next |-> 1]

\* A bill as the floor plan opens it, or one that was worked on before.
Init ==
    /\ order \in {EmptyBill} \cup
                 {[EmptyBill EXCEPT !.lines = Put(@, 1, NewLine(p)), !.total = Price[p], !.next = 2] :
                    p \in Offered}
    /\ books = NoFigures /\ takings = <<>>
    /\ calls = <<Reload>> /\ sent = 0 /\ lost = 0
    /\ view = "loading" /\ shown = NoOrder /\ form = EmptyForm /\ dialog = NoDialog
    /\ busy = {} /\ qtyBusy = 0 /\ receipt = NoFigures
    /\ excuse = FALSE

Screen ==
    \/ Header \/ ProductGrid \/ ActionBar \/ CheckoutTab
    \/ \E i \in LineIds : view = "open" /\ i \in DOMAIN shown.lines /\ LineButtons(i)
    \/ WaitstaffModal \/ CustomerModal \/ DiscountModal \/ ReceiptModal
    \/ Enter

Next ==
    \/ Screen
    \/ Elsewhere
    \/ \E j \in DOMAIN calls : Resolve(j)

\* Every request ends, the oldest one too: axios gives it up after 15 seconds at the latest.
Fairness == WF_vars(calls # <<>> /\ Resolve(1))

Spec == Init /\ [][Next]_vars /\ Fairness

-------------------------------------------------------------------------------

\* Once nothing is under way, the screen shows the bill as the server has it, unless an
\* answer was lost or overtaken or another terminal wrote since: every handler reads back
\* what it changed (reload, PosOrderPage.tsx:74-78).
QuietPageIsFresh ==
    view = "open" /\ calls = <<>> /\ ~excuse /\ receipt = NoFigures
        => shown = order

\* One checkout closes a bill, with the payments the books show, and none records anything
\* after it, whatever is tapped again once an answer got lost (processCheckout offers the
\* retry, checkout refuses a bill that is not open). What a checkout recorded that was
\* dropped before its close stays, and comes on top.
ClosedOnce ==
    IF books = NoFigures THEN \A k \in DOMAIN takings : ~takings[k].closed
    ELSE /\ \A k \in DOMAIN takings : takings[k].closed <=> k = Len(takings)
         /\ takings # <<>> /\ takings[Len(takings)].paid = books.paid

\* A checkout that the screen enables on an up-to-date copy of an open bill is not turned
\* away (canComplete, PosOrderPage.tsx:95, against checkout's checks); at cost price it may
\* be, where a thing costs more than it sells for.
FreshCheckoutIsAccepted ==
    \A j \in DOMAIN calls :
        LET c == calls[j] IN
        c.phase = "answered" /\ c.req.op = "checkout" /\ c.fresh /\ ~c.ok
            => c.req.rate = "directors_discount"

\* The change the cashier was told to give (changeDue, PosOrderPage.tsx:93) is the change
\* that is booked and printed, for a bill that nobody changed in between and without a
\* director's rate or a negative discount.
ShownChangeIsGiven ==
    \A j \in DOMAIN calls :
        LET c == calls[j] IN
        c.phase = "answered" /\ c.req.op = "checkout" /\ c.fresh /\ c.ok
          /\ c.req.rate = "none" /\ c.req.typed >= 0
            => c.figures.change = c.req.change

\* The screen never waits for ever: not with a spinner, and not for its first copy of the
\* bill (the finally blocks and setLoading, PosOrderPage.tsx:80-194).
Waiting == busy # {} \/ qtyBusy # 0 \/ view = "loading"
WaitingEnds == Waiting ~> ~Waiting

\* The screen, the network and the server together keep the promise of Bill.
Guest == INSTANCE Bill WITH
    NoFigures <- NoFigures,
    stage <- IF order.status \in {"paid", "tab"} THEN "settled" ELSE order.status,
    figures <- books,
    slip <- receipt

BillKept == Guest!Spec

===============================================================================
