-------------------------------- MODULE MCTill --------------------------------
(* A waiter, a cashier who also serves, the owner and a contractor, in six shifts. *)
EXTENDS Till

People == {"amina", "brian", "carol", "deng"}

TheirRoles ==
    "amina" :> {"operational_staff"} @@ "brian" :> {"cashier", "operational_staff"} @@
    "carol" :> {"entrepreneur"} @@ "deng" :> {"guest_contractor", "operational_staff"}

TwoAreas == 1 :> "Hall" @@ 2 :> "Terrace"

Quiet == [staff |-> {}, onboarded |-> TRUE, signIns |-> 1, requests |-> 0, lost |-> 0,
          inFlight |-> 0, expires |-> FALSE, pages |-> {"dashboard", "floor"},
          tables |-> {}, opened |-> {}, bills |-> 0, tickets |-> 0]

\* The device is new, and two people sign in at once.
Onboarding == [Quiet EXCEPT !.staff = {"amina", "carol"}, !.onboarded = FALSE,
                            !.signIns = 3, !.lost = 1]

\* The till changes hands under the lock, between everybody who works here.
Handovers == [Quiet EXCEPT !.staff = People, !.signIns = 4, !.lost = 1, !.expires = TRUE,
                           !.inFlight = 1, !.pages = GuardedPages]

\* A cashier leaves a half-opened table to a waiter.
Service == [Quiet EXCEPT !.staff = {"amina", "brian"}, !.signIns = 3, !.requests = 2,
                         !.inFlight = 1, !.tables = {1}, !.bills = 1]

\* The owner opens, transfers and clears tables while another till does.
Rush == [Quiet EXCEPT !.staff = {"carol"}, !.requests = 3, !.inFlight = 2,
                      !.tables = {1, 2}, !.opened = {1}, !.bills = 2, !.pages = {"floor"}]

\* The same with answers that get lost.
Outage == [Quiet EXCEPT !.staff = {"carol"}, !.requests = 2, !.inFlight = 2, !.lost = 1,
                        !.opened = {1}, !.tables = {1}, !.bills = 1]

\* The kitchen.
Cooking == [Quiet EXCEPT !.staff = {"brian"}, !.requests = 3, !.inFlight = 2, !.lost = 1,
                         !.tickets = 2, !.pages = {"dashboard", "kitchen"}]

SmallShifts == {Onboarding, Handovers, Service, Rush, Outage, Cooking}

===============================================================================
