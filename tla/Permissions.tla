----------------------------- MODULE Permissions -----------------------------
(***************************************************************************)
(* What each role may do (frontend/src/lib/permissions.ts) and which page  *)
(* a path ends at once every redirect of App.tsx was followed.             *)
(***************************************************************************)

Nobody == "nobody"

Clerk == {"dashboard", "inventory", "inventory_edit", "accommodation"}
Manager == Clerk \cup {"pos", "kitchen", "analytics", "staff_analytics", "customers"}
Everything == Manager \cup {"staff", "registers", "logs", "settings"}

RoleCaps ==
    [entrepreneur      |-> Everything,
     admin_staff       |-> Everything,
     executive_staff   |-> Manager,
     cashier           |-> Everything,
     storekeeper       |-> Clerk,
     operational_staff |-> {"pos", "kitchen"},
     guest_contractor  |-> {}]

CapabilitiesOf(roles) == UNION {RoleCaps[r] : r \in roles}
Can(roles, cap) == cap \in CapabilitiesOf(roles)
IsWaitstaffOnly(roles) == roles = {"operational_staff"}

\* The roles whose screen locks itself.
LockingRoles == {"operational_staff", "cashier"}

\* The capability each page asks for; the profile asks for none.
CapOf ==
    [dashboard |-> "dashboard", staff |-> "staff", registers |-> "registers", logs |-> "logs",
     settings |-> "settings", accommodation |-> "accommodation", inventory |-> "inventory",
     analytics |-> "analytics", customers |-> "customers",
     floor |-> "pos", pos |-> "pos", kitchen |-> "kitchen"]

\* The pages with the sidebar.
OfficePages == (DOMAIN CapOf \ {"floor", "pos", "kitchen"}) \cup {"profile"}
GuardedPages == DOMAIN CapOf \cup {"profile"}
Pages == GuardedPages \cup {"login", "register", "blank"}

\* Mutant: everybody's home is the dashboard.
HomeIsDashboard(roles) == "dashboard"

HomeFor(roles) == IF IsWaitstaffOnly(roles) THEN "floor" ELSE "dashboard"

\* Where someone with these roles ends who follows a path. Whoever may not see the
\* dashboard and is sent there is sent there again: the page stays empty.
Land(roles, path) ==
    LET wanted == IF path \in {"login", "register"} THEN HomeFor(roles) ELSE path
        May(p) == p = "profile" \/ Can(roles, CapOf[p])
    IN  CASE May(wanted)          -> wanted
          [] May(HomeFor(roles))  -> HomeFor(roles)
          [] OTHER                -> "blank"

\* And where the path ends when nobody is signed in.
LandSignedOut(business, path) == IF path = "register" /\ ~business THEN "register" ELSE "login"

==============================================================================
