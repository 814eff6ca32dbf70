----------------------------- MODULE MCOrderPage -----------------------------
(* A small bar: one product that is on the register, one that is not. *)
EXTENDS OrderPage

SmallPrices == "tea" :> 2 @@ "cake" :> 3
SmallCosts == "tea" :> 3 @@ "cake" :> 1
Typed == {1}

==============================================================================
