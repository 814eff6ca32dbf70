--------------------------- MODULE ReceiptTemplates ---------------------------
(***************************************************************************)
(* The receipt templates of one business and one type (smeazy-iam): every  *)
(* handler works on one such pair only. Formatting is left out; what is    *)
(* kept is which templates exist, how old they are, and which are flagged  *)
(* is_default. Each handler is several statements without a transaction.   *)
(***************************************************************************)
EXTENDS Naturals

CONSTANTS
    Templates,        \* keys of receipt_templates; a deleted one is never used again
    Admins,           \* how many requests may be in flight at once
    OneAtATime,       \* does no request start before the last one ended?
    Interruptions     \* may a request stop between two statements?

ASSUME SwitchesAssumption == {OneAtATime, Interruptions} \subseteq BOOLEAN

NoTemplate == "no template"

ASSUME NullAssumption == NoTemplate \notin Templates

VARIABLES
    row,        \* is this key unused, a row, or a row that was deleted?
    made,       \* created_at, in seconds
    default,    \* the rows with is_default = 1
    second,     \* the database's clock
    job,        \* the statement each request is at, and its local variables
    torn        \* history: has a request been cut off since a default was last chosen?

vars == <<row, made, default, second, job, torn>>

Steps == {"idle", "insert", "setDefault", "unsetOthers",
          "countSiblings", "deleteRow", "findOldest", "promote"}

\* id: the template the request is about; flag: make_default, or existing.is_default.
Job == [step: Steps, id: Templates \cup {NoTemplate}, flag: {0, 1}]

Idle == [step |-> "idle", id |-> NoTemplate, flag |-> 0]

Live == {t \in Templates : row[t] = "live"}

TypeOK ==
    /\ row \in [Templates -> {"unused", "live", "deleted"}]
    /\ made \in [Templates -> Nat]
    /\ default \subseteq Live
    /\ second \in Nat
    /\ job \in [Admins -> Job]
    /\ torn \in BOOLEAN

\* A business registered since migration 011 is seeded with one default of each type;
\* an older one, or one whose seeding failed (its errors are dropped), has none.
Init ==
    /\ \E seeded \in {{}} \cup {{t} : t \in Templates} :
          /\ row = [t \in Templates |-> IF t \in seeded THEN "live" ELSE "unused"]
          /\ default = seeded
    /\ made = [t \in Templates |-> 0]
    /\ second = 0
    /\ job = [a \in Admins |-> Idle]
    /\ torn = FALSE

-----------------------------------------------------------------------------

At(a, step) == job[a].step = step

MayStart(a) ==
    /\ At(a, "idle")
    /\ OneAtATime => \A b \in Admins : At(b, "idle")

Goto(a, step) == job' = [job EXCEPT ![a].step = step]
End(a)        == job' = [job EXCEPT ![a] = Idle]

AtMostOne(S) == \A s, t \in S : s = t

\* create_receipt_template: the first template of a type is its default, whatever was
\* asked.
CreateTemplate(a) ==
    /\ MayStart(a)
    /\ \E asked \in {0, 1} :
          job' = [job EXCEPT ![a] = [step |-> "insert", id |-> NoTemplate,
                                     flag |-> IF Live = {} THEN 1 ELSE asked]]
    /\ UNCHANGED <<row, made, default, second, torn>>

\* Any time may have passed since the last row was made, or none.
InsertTemplate(a) ==
    /\ At(a, "insert")
    /\ \E t \in Templates, later \in {0, 1} :
          /\ row[t] = "unused"
          /\ row' = [row EXCEPT ![t] = "live"]
          /\ second' = second + later
          /\ made' = [made EXCEPT ![t] = second']
          /\ default' = IF job[a].flag = 1 THEN default \cup {t} ELSE default
          /\ IF job[a].flag = 1
               THEN job' = [job EXCEPT ![a] = [step |-> "unsetOthers", id |-> t, flag |-> 1]]
               ELSE End(a)
    /\ UNCHANGED torn

\* update_receipt_template with is_default; without it nothing kept here changes.
UpdateTemplate(a, t) ==
    /\ MayStart(a)
    /\ t \in Live
    /\ job' = [job EXCEPT ![a] = [step |-> "setDefault", id |-> t, flag |-> 1]]
    /\ UNCHANGED <<row, made, default, second, torn>>

\* The UPDATE finds nothing if the template is gone; the request goes on.
SetDefault(a) ==
    /\ At(a, "setDefault")
    /\ default' = default \cup ({job[a].id} \cap Live)
    /\ Goto(a, "unsetOthers")
    /\ UNCHANGED <<row, made, second, torn>>

\* unset_other_default_templates
UnsetOthers(a) ==
    /\ At(a, "unsetOthers")
    /\ default' = default \cap {job[a].id}
    /\ torn' = FALSE
    /\ End(a)
    /\ UNCHANGED <<row, made, second>>

-----------------------------------------------------------------------------
\* delete_receipt_template

DeleteTemplate(a, t) ==
    /\ MayStart(a)
    /\ t \in Live
    /\ job' = [job EXCEPT ![a] =
                 [step |-> "countSiblings", id |-> t, flag |-> IF t \in default THEN 1 ELSE 0]]
    /\ UNCHANGED <<row, made, default, second, torn>>

\* Refused if it is the only template of its type.
CountSiblings(a) ==
    /\ At(a, "countSiblings")
    /\ IF AtMostOne(Live) THEN End(a) ELSE Goto(a, "deleteRow")
    /\ UNCHANGED <<row, made, default, second, torn>>

DeleteRow(a) ==
    /\ At(a, "deleteRow")
    /\ row' = [row EXCEPT ![job[a].id] = "deleted"]
    /\ default' = default \ {job[a].id}
    /\ IF job[a].flag = 1 THEN Goto(a, "findOldest") ELSE End(a)
    /\ UNCHANGED <<made, second, torn>>

Oldest == {t \in Live : \A u \in Live : made[t] <= made[u]}

FindOldest(a) ==
    /\ At(a, "findOldest")
    /\ job' \in IF Oldest = {}
                   THEN {[job EXCEPT ![a] = Idle]}
                   ELSE {[job EXCEPT ![a].step = "promote", ![a].id = t] : t \in Oldest}
    /\ UNCHANGED <<row, made, default, second, torn>>

\* Mutant: no successor is flagged.
PromoteNobody(a) ==
    /\ At(a, "promote")
    /\ End(a)
    /\ UNCHANGED <<row, made, default, second, torn>>

Promote(a) ==
    /\ At(a, "promote")
    /\ default' = default \cup ({job[a].id} \cap Live)
    /\ End(a)
    /\ UNCHANGED <<row, made, second, torn>>

-----------------------------------------------------------------------------

Interrupt(a) ==
    /\ Interruptions
    /\ ~At(a, "idle")
    /\ torn' = TRUE
    /\ End(a)
    /\ UNCHANGED <<row, made, default, second>>

Continue(a) ==
    \/ InsertTemplate(a) \/ SetDefault(a) \/ UnsetOthers(a)
    \/ CountSiblings(a) \/ DeleteRow(a) \/ FindOldest(a) \/ Promote(a)

Arrive(a) ==
    \/ CreateTemplate(a)
    \/ \E t \in Templates : UpdateTemplate(a, t) \/ DeleteTemplate(a, t)

Next == \E a \in Admins : Arrive(a) \/ Continue(a) \/ Interrupt(a)

Spec == Init /\ [][Next]_vars

-----------------------------------------------------------------------------
\* Correctness.

Quiet == \A a \in Admins : At(a, "idle")

\* "Exactly one template per (business_id, template_type) is flagged is_default"
\* (migration 011:6-8), as long as there is any: after requests of any kind, in any
\* order, once they have ended. Whatever mess a request that stops half way leaves
\* behind, several defaults or none, the next one that makes a template the default
\* repairs it.
OneDefault == Quiet /\ ~torn /\ Live # {} => \E t \in Live : default = {t}

\* A type that has a template keeps one (service.rs:589-601), also if requests stop
\* half way.
KeepsOne == [][Live # {} => Live' # {}]_vars

=============================================================================
