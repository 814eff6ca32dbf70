--------------------------------- MODULE Bill ---------------------------------
(***************************************************************************)
(* What a guest may rely on about one bill: it is settled at most once,    *)
(* with figures that add up, and a receipt shows the figures it was        *)
(* settled with. OrderPage implements it, however requests are lost, cut   *)
(* off, repeated or overtaken on the way, as long as checkouts do not      *)
(* overlap at the server: two that both read the bill as open settle it    *)
(* twice.                                                                  *)
(***************************************************************************)
EXTENDS Integers

CONSTANT NoFigures

VARIABLES
    stage,     \* "open", then "settled" or "voided"
    figures,   \* what it was settled with
    slip       \* what the receipt on the screen says

billVars == <<stage, figures, slip>>

AddsUp(f) ==
    /\ f.paid >= 0 /\ f.change >= 0 /\ f.owed >= 0
    /\ f.paid + f.owed = f.total + f.change
    /\ f.change = 0 \/ f.owed = 0

Init == stage = "open" /\ figures = NoFigures /\ slip = NoFigures

Settle ==
    /\ stage = "open"
    /\ stage' = "settled"
    /\ figures' # NoFigures
    /\ AddsUp(figures')
    /\ UNCHANGED slip

Void ==
    /\ stage = "open"
    /\ stage' = "voided"
    /\ UNCHANGED <<figures, slip>>

ShowReceipt ==
    /\ stage = "settled"
    /\ slip = NoFigures
    /\ slip' = figures
    /\ UNCHANGED <<stage, figures>>

PutAway ==
    /\ slip' = NoFigures
    /\ UNCHANGED <<stage, figures>>

Next == Settle \/ Void \/ ShowReceipt \/ PutAway

Spec == Init /\ [][Next]_billVars

===============================================================================
