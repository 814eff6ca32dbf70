------------------------ MODULE ReceiptTemplatesProofs ------------------------
(***************************************************************************)
(* Theorems about ReceiptTemplates, for any number of templates.           *)
(***************************************************************************)
EXTENDS ReceiptTemplates, WellFoundedInduction, TLAPS

-----------------------------------------------------------------------------
\* A type with a template has exactly one default.
OneFlag == Live = {} \/ \E t \in Live : default = {t}

\* What a step does to a request.

LEMMA GotoMoves ==
    ASSUME TypeOK, NEW a \in Admins, NEW s \in Steps, Goto(a, s)
    PROVE  /\ job' \in [Admins -> Job]
           /\ job'[a].step = s /\ job'[a].id = job[a].id /\ job'[a].flag = job[a].flag
  BY DEF TypeOK, Goto, Job

LEMMA EndRests ==
    ASSUME TypeOK, NEW a \in Admins, End(a)
    PROVE  job' \in [Admins -> Job] /\ job'[a] = Idle /\ job'[a].step = "idle"
  BY DEF TypeOK, End, Idle, Job, Steps

\* There is always an oldest template to promote.
LEMMA SomeOldest ==
    ASSUME TypeOK, Live # {}
    PROVE  Oldest # {}
<1> DEFINE R == OpToRel(<, Nat)
           T == {made[t] : t \in Live}
<1>1. T \subseteq Nat /\ T # {}
  BY DEF TypeOK, Live
<1>2. IsWellFoundedOn(R, Nat)
  BY NatLessThanWellFounded
<1>3. PICK x \in T : \A y \in T : <<y, x>> \notin R
  <2> HIDE DEF R, T
  <2> QED
    BY <1>1, <1>2, WFMin
<1>4. ASSUME NEW y \in T
      PROVE  x <= y
  <2>1. x \in Nat /\ y \in Nat
    BY <1>1
  <2>2. <<y, x>> \in R <=> y < x
    <3> HIDE DEF T
    <3> QED
      BY <2>1 DEF OpToRel
  <2>3. <<y, x>> \notin R
    <3> HIDE DEF R, T
    <3> QED
      BY <1>3, <1>4
  <2> QED
    <3> HIDE DEF R, T
    <3> QED
      BY <2>1, <2>2, <2>3
<1> QED
  BY <1>4 DEF Oldest

\* The request either ends, for want of a template, or goes on with an oldest one.
LEMMA OldestFound ==
    ASSUME TypeOK, NEW a \in Admins, FindOldest(a)
    PROVE  /\ job' \in [Admins -> Job]
           /\ \/ Live = {} /\ End(a)
              \/ /\ job'[a].step = "promote" /\ job'[a].id \in Live
                 /\ job'[a].flag = job[a].flag
<1>1. CASE Oldest = {}
  <2>1. End(a)
    BY <1>1 DEF FindOldest, End
  <2> QED
    BY <1>1, <2>1, EndRests, SomeOldest
<1>2. CASE Oldest # {}
  <2>1. PICK t \in Oldest : job' = [job EXCEPT ![a].step = "promote", ![a].id = t]
    BY <1>2 DEF FindOldest
  <2>2. t \in Live
    BY DEF Oldest
  <2> QED
    BY <2>1, <2>2 DEF TypeOK, Job, Steps, Live
<1> QED
  BY <1>1, <1>2

LEMMA InitTypes == Init => TypeOK /\ OneFlag /\ \A a \in Admins : job[a].step = "idle"
<1> SUFFICES ASSUME Init
             PROVE  TypeOK /\ OneFlag /\ \A a \in Admins : job[a].step = "idle"
  OBVIOUS
<1>1. PICK seeded \in {{}} \cup {{t} : t \in Templates} :
         /\ row = [t \in Templates |-> IF t \in seeded THEN "live" ELSE "unused"]
         /\ default = seeded
  BY DEF Init
<1>2. Live = seeded
  BY <1>1 DEF Live
<1>3. job \in [Admins -> Job] /\ \A a \in Admins : job[a].step = "idle"
  BY DEF Init, Job, Steps, Idle
<1>4. made \in [Templates -> Nat] /\ second \in Nat
  BY DEF Init
<1>5. row \in [Templates -> {"unused", "live", "deleted"}]
  BY <1>1
<1>6. torn \in BOOLEAN
  BY DEF Init
<1> QED
  BY <1>1, <1>2, <1>3, <1>4, <1>5, <1>6 DEF TypeOK, OneFlag

-----------------------------------------------------------------------------
\* Types, however requests interleave and stop.

\* A flag never outlives its row, whatever overlaps and wherever requests stop.
THEOREM TypeCorrect == Spec => []TypeOK
<1>1. Init => TypeOK
  BY InitTypes
<1>2. ASSUME TypeOK, [Next]_vars
      PROVE  TypeOK'
  <2>1. CASE UNCHANGED vars
    BY <1>2, <2>1 DEF vars, TypeOK, Live
  <2>2. ASSUME NEW a \in Admins, Arrive(a)
        PROVE  TypeOK'
    BY <1>2, <2>2 DEF Arrive, CreateTemplate, UpdateTemplate, DeleteTemplate, TypeOK,
       Live, Job, Steps
  <2>3. ASSUME NEW a \in Admins, InsertTemplate(a)
        PROVE  TypeOK'
    <3>1. PICK t \in Templates, later \in {0, 1} :
             /\ row' = [row EXCEPT ![t] = "live"]
             /\ second' = second + later
             /\ made' = [made EXCEPT ![t] = second']
             /\ default' = IF job[a].flag = 1 THEN default \cup {t} ELSE default
             /\ IF job[a].flag = 1
                  THEN job' = [job EXCEPT ![a] = [step |-> "unsetOthers", id |-> t, flag |-> 1]]
                  ELSE End(a)
             /\ torn' = torn
      BY <2>3 DEF InsertTemplate
    <3>2. second' \in Nat
      BY <1>2, <3>1 DEF TypeOK
    <3>3. job' \in [Admins -> Job]
      BY <1>2, <3>1 DEF TypeOK, Job, Steps, Idle, End
    <3>4. default' \subseteq Live'
      BY <1>2, <3>1 DEF TypeOK, Live
    <3> QED
      BY <1>2, <3>1, <3>2, <3>3, <3>4 DEF TypeOK
  <2>4. ASSUME NEW a \in Admins, SetDefault(a) \/ UnsetOthers(a) \/ Promote(a)
        PROVE  TypeOK'
    <3>1. job' \in [Admins -> Job]
      BY <1>2, <2>4, GotoMoves, EndRests DEF SetDefault, UnsetOthers, Promote, Steps
    <3>2. default' \subseteq Live' /\ torn' \in BOOLEAN
      BY <1>2, <2>4 DEF SetDefault, UnsetOthers, Promote, TypeOK, Live
    <3> QED
      BY <1>2, <2>4, <3>1, <3>2 DEF SetDefault, UnsetOthers, Promote, TypeOK
  <2>5. ASSUME NEW a \in Admins, CountSiblings(a) \/ FindOldest(a) \/ Interrupt(a)
        PROVE  TypeOK'
    <3>1. job' \in [Admins -> Job]
      BY <1>2, <2>5, GotoMoves, EndRests, OldestFound DEF CountSiblings, Interrupt, Steps
    <3>2. Live' = Live /\ torn' \in BOOLEAN
      BY <1>2, <2>5 DEF CountSiblings, FindOldest, Interrupt, TypeOK, Live
    <3> QED
      BY <1>2, <2>5, <3>1, <3>2 DEF CountSiblings, FindOldest, Interrupt, TypeOK
  <2>6. ASSUME NEW a \in Admins, DeleteRow(a)
        PROVE  TypeOK'
    <3>1. job' \in [Admins -> Job]
      BY <1>2, <2>6, GotoMoves, EndRests DEF DeleteRow, Steps
    <3>2. row' \in [Templates -> {"unused", "live", "deleted"}] /\ default' \subseteq Live'
      BY <1>2, <2>6 DEF DeleteRow, TypeOK, Live
    <3> QED
      BY <1>2, <2>6, <3>1, <3>2 DEF DeleteRow, TypeOK
  <2> QED
    BY <1>2, <2>1, <2>2, <2>3, <2>4, <2>5, <2>6 DEF Next, Continue
<1> QED
  BY <1>1, <1>2, PTL DEF Spec

-----------------------------------------------------------------------------
\* One request at a time: what each of its statements can rely on.

\* At most one request is in flight.
Alone == \A a, b \in Admins : ~At(a, "idle") /\ ~At(b, "idle") => a = b

\* What a request has read still holds when it writes.
JobSound(a) ==
    /\ At(a, "insert")        => (Live = {} => job[a].flag = 1)
    /\ At(a, "setDefault")    => job[a].id \in Live
    /\ At(a, "unsetOthers")   => job[a].id \in default
    /\ At(a, "countSiblings") => job[a].id \in Live
    /\ At(a, "deleteRow")     => job[a].id \in Live /\ Live # {job[a].id}
    /\ At(a, "findOldest")    => Live # {}
    /\ At(a, "promote")       => job[a].id \in Live

AloneInv == TypeOK /\ Alone /\ \A a \in Admins : JobSound(a)

\* Whoever moves on is still alone, and the others have no job to be wrong about.
LEMMA OthersIdle ==
    ASSUME TypeOK, Alone, NEW a \in Admins, NEW j \in Job,
           ~At(a, "idle") \/ Quiet, job' = [job EXCEPT ![a] = j]
    PROVE  /\ Alone'
           /\ \A b \in Admins : b # a => job'[b].step = "idle"
           /\ job'[a] = j
<1>1. \A b \in Admins : b # a => job[b].step = "idle"
  BY DEF Alone, Quiet, At
<1> QED
  BY <1>1 DEF Alone, At, TypeOK

LEMMA AloneInvStep ==
    ASSUME OneAtATime, AloneInv, TypeOK', [Next]_vars
    PROVE  AloneInv'
<1> USE DEF AloneInv
<1>1. CASE UNCHANGED vars
  BY <1>1 DEF vars, Alone, JobSound, At, Live
<1>2. ASSUME NEW a \in Admins, Arrive(a) \/ Continue(a) \/ Interrupt(a)
      PROVE  AloneInv'
  <2>1. ~At(a, "idle") \/ Quiet
    BY <1>2 DEF Arrive, CreateTemplate, UpdateTemplate, DeleteTemplate, MayStart, Quiet,
       Interrupt, Continue, InsertTemplate, SetDefault, UnsetOthers, CountSiblings,
       DeleteRow, FindOldest, Promote, At
  <2>2. job' = [job EXCEPT ![a] = job'[a]] /\ job'[a] \in Job
    BY <1>2 DEF Arrive, CreateTemplate, UpdateTemplate, DeleteTemplate, TypeOK,
       Interrupt, Continue, InsertTemplate, SetDefault, UnsetOthers, CountSiblings,
       DeleteRow, FindOldest, Promote, Goto, End
  <2>3. Alone' /\ \A b \in Admins : b # a => JobSound(b)'
    BY <2>1, <2>2, OthersIdle DEF JobSound, At
  <2>4. JobSound(a)'
    <3>1. CASE CreateTemplate(a)
      BY <3>1 DEF CreateTemplate, JobSound, At, Live, TypeOK
    <3>2. ASSUME NEW t \in Templates, UpdateTemplate(a, t) \/ DeleteTemplate(a, t)
          PROVE  JobSound(a)'
      BY <3>2 DEF UpdateTemplate, DeleteTemplate, JobSound, At, Live, TypeOK
    <3>3. CASE InsertTemplate(a)
      BY <3>3 DEF InsertTemplate, JobSound, At, Live, TypeOK, End, Idle
    <3>4. CASE SetDefault(a)
      BY <3>4 DEF SetDefault, JobSound, At, Live, TypeOK, Goto
    <3>5. CASE UnsetOthers(a) \/ Promote(a) \/ Interrupt(a)
      BY <3>5 DEF UnsetOthers, Promote, Interrupt, JobSound, At, Live, TypeOK, End, Idle
    <3>6. CASE CountSiblings(a)
      <4>1. CASE AtMostOne(Live)
        BY <3>6, <4>1 DEF CountSiblings, JobSound, At, TypeOK, End, Idle
      <4>2. CASE ~AtMostOne(Live)
        <5>1. Live # {job[a].id}
          BY <4>2 DEF AtMostOne
        <5>2. job[a].id \in Live /\ Live' = Live
          BY <3>6 DEF CountSiblings, JobSound, Live
        <5> QED
          BY <3>6, <4>2, <5>1, <5>2, GotoMoves DEF CountSiblings, JobSound, At, Steps
      <4> QED
        BY <4>1, <4>2
    <3>7. CASE DeleteRow(a)
      <4>1. PICK s \in Live : s # job[a].id
        BY <3>7 DEF DeleteRow, JobSound
      <4>2. s \in Live'
        BY <3>7, <4>1 DEF DeleteRow, TypeOK, Live
      <4> QED
        BY <3>7, <4>2, GotoMoves, EndRests DEF DeleteRow, JobSound, At, Steps
    <3>8. CASE FindOldest(a)
      <4>1. Live' = Live
        BY <3>8 DEF FindOldest, Live
      <4> QED
        BY <3>8, <4>1, OldestFound, EndRests DEF JobSound, At
    <3> QED
      BY <1>2, <3>1, <3>2, <3>3, <3>4, <3>5, <3>6, <3>7, <3>8 DEF Arrive, Continue
  <2> QED
    BY <2>3, <2>4
<1> QED
  BY <1>1, <1>2 DEF Next

LEMMA AloneInvAlways ==
    ASSUME OneAtATime
    PROVE  Spec => []AloneInv
<1>1. Init => AloneInv
  BY InitTypes DEF AloneInv, Alone, JobSound, At
<1>2. AloneInv /\ TypeOK' /\ [Next]_vars => AloneInv'
  BY AloneInvStep
<1> QED
  BY <1>1, <1>2, TypeCorrect, PTL DEF Spec

-----------------------------------------------------------------------------
\* The theorems.

\* With one request at a time, also if requests stop half way: the last template stays.
THEOREM KeepsOneAlways ==
    ASSUME OneAtATime
    PROVE  Spec => KeepsOne
<1>1. AloneInv /\ TypeOK' /\ [Next]_vars => [Live # {} => Live' # {}]_vars
  <2> SUFFICES ASSUME AloneInv, Next, Live # {}
               PROVE  Live' # {}
    OBVIOUS
  <2>1. PICK a \in Admins : Arrive(a) \/ Continue(a) \/ Interrupt(a)
    BY DEF Next
  <2>2. CASE DeleteRow(a)
    <3>1. PICK s \in Live : s # job[a].id
      BY <2>2 DEF AloneInv, JobSound, DeleteRow
    <3> QED
      BY <2>2, <3>1 DEF AloneInv, DeleteRow, TypeOK, Live
  <2>3. CASE InsertTemplate(a)
    BY <2>3 DEF AloneInv, InsertTemplate, TypeOK, Live
  <2>4. CASE ~DeleteRow(a) /\ ~InsertTemplate(a)
    BY <2>1, <2>4 DEF Arrive, CreateTemplate, UpdateTemplate, DeleteTemplate, Live,
       Interrupt, Continue, SetDefault, UnsetOthers, CountSiblings, FindOldest, Promote
  <2> QED
    BY <2>2, <2>3, <2>4
<1> QED
  BY AloneInvAlways, TypeCorrect, <1>1, PTL DEF Spec, KeepsOne

\* What one request after another makes of the flags, until one is cut off and again
\* once a default has been chosen anew.
FlagSound(a) ==
    ~torn =>
    /\ job[a].step \in {"insert", "setDefault", "countSiblings", "deleteRow"} => OneFlag
    /\ job[a].step \in {"countSiblings", "deleteRow"} =>
          (job[a].flag = 1 <=> job[a].id \in default)
    /\ job[a].step \in {"findOldest", "promote"} => default = {}

FlagInv == AloneInv /\ OneDefault /\ \A a \in Admins : FlagSound(a)

LEMMA FlagInvStep ==
    ASSUME OneAtATime, FlagInv, AloneInv', [Next]_vars
    PROVE  FlagInv'
<1> USE DEF FlagInv
<1>1. CASE UNCHANGED vars
  BY <1>1 DEF vars, OneDefault, Quiet, At, Live, FlagSound, OneFlag
<1>2. ASSUME NEW a \in Admins, Arrive(a) \/ Continue(a)
      PROVE  FlagInv'
  <2>1. \A b \in Admins : b # a => job'[b].step = "idle" /\ job[b].step = "idle"
    <3>1. ~At(a, "idle") \/ Quiet
      BY <1>2 DEF Arrive, CreateTemplate, UpdateTemplate, DeleteTemplate, MayStart, Quiet,
         Continue, InsertTemplate, SetDefault, UnsetOthers, CountSiblings,
         DeleteRow, FindOldest, Promote, At
    <3>2. job' = [job EXCEPT ![a] = job'[a]] /\ job'[a] \in Job
      BY <1>2 DEF Arrive, CreateTemplate, UpdateTemplate, DeleteTemplate, AloneInv, TypeOK,
         Continue, InsertTemplate, SetDefault, UnsetOthers, CountSiblings,
         DeleteRow, FindOldest, Promote, Goto, End
    <3>3. \A b \in Admins : b # a => job'[b].step = "idle"
      BY <3>1, <3>2, OthersIdle DEF AloneInv
    <3>4. \A b \in Admins : b # a => job[b].step = "idle"
      BY <3>1 DEF AloneInv, Alone, Quiet, At
    <3> QED
      BY <3>3, <3>4
  <2>2. (job[a].step = "idle" /\ ~torn => OneFlag) /\ JobSound(a) /\ FlagSound(a)
    BY <2>1 DEF OneDefault, Quiet, At, OneFlag, AloneInv
  <2>3. FlagSound(a)' /\ (job'[a].step = "idle" /\ ~torn' => OneFlag')
    <3> USE <2>2 DEF AloneInv, FlagSound, OneFlag, At
    <3>1. CASE CreateTemplate(a)
      BY <3>1 DEF CreateTemplate, MayStart, Live, TypeOK
    <3>2. ASSUME NEW t \in Templates, UpdateTemplate(a, t) \/ DeleteTemplate(a, t)
          PROVE  FlagSound(a)' /\ (job'[a].step = "idle" /\ ~torn' => OneFlag')
      BY <3>2 DEF UpdateTemplate, DeleteTemplate, MayStart, Live, TypeOK
    <3>3. CASE InsertTemplate(a)
      BY <3>3 DEF InsertTemplate, JobSound, Live, TypeOK, End, Idle
    <3>4. CASE SetDefault(a)
      BY <3>4 DEF SetDefault, TypeOK, Goto
    <3>5. CASE UnsetOthers(a) \/ Promote(a)
      BY <3>5 DEF UnsetOthers, Promote, JobSound, Live, TypeOK, End, Idle
    <3>6. CASE CountSiblings(a)
      BY <3>6, GotoMoves, EndRests DEF CountSiblings, Live, Steps
    <3>7. CASE DeleteRow(a)
      <4>1. CASE torn
        BY <3>7, <4>1 DEF DeleteRow
      <4>2. CASE ~torn /\ job[a].flag = 1
        <5>1. default' = {}
          BY <3>7, <4>2 DEF DeleteRow, JobSound
        <5> QED
          BY <3>7, <4>2, <5>1, GotoMoves DEF DeleteRow, Steps
      <4>3. CASE ~torn /\ job[a].flag # 1
        <5>1. PICK t \in Live : default = {t} /\ t # job[a].id
          BY <3>7, <4>3 DEF DeleteRow, JobSound
        <5>2. t \in Live' /\ default' = {t}
          BY <3>7, <5>1 DEF DeleteRow, Live, TypeOK
        <5> QED
          BY <3>7, <4>3, <5>2, EndRests DEF DeleteRow
      <4> QED
        BY <4>1, <4>2, <4>3
    <3>8. CASE FindOldest(a)
      <4>1. job'[a].step = "promote"
        <5>1. Live # {}
          BY <3>8 DEF FindOldest, JobSound
        <5> QED
          BY <3>8, <5>1, OldestFound
      <4> QED
        BY <3>8, <4>1 DEF FindOldest
    <3> QED
      BY <1>2, <3>1, <3>2, <3>3, <3>4, <3>5, <3>6, <3>7, <3>8 DEF Arrive, Continue
  <2> QED
    BY <2>1, <2>3 DEF OneDefault, Quiet, At, FlagSound, OneFlag
<1>3. ASSUME NEW a \in Admins, Interrupt(a)
      PROVE  FlagInv'
  BY <1>3 DEF Interrupt, OneDefault, FlagSound
<1> QED
  BY <1>1, <1>2, <1>3 DEF Next

\* One request after another leaves exactly one default; after a request that stopped
\* half way, so does the next one that chooses a default.
THEOREM OneDefaultAlways ==
    ASSUME OneAtATime
    PROVE  Spec => []OneDefault
<1>1. Init => FlagInv
  BY InitTypes DEF FlagInv, AloneInv, Alone, JobSound, At, OneDefault, OneFlag, Quiet,
                   FlagSound
<1>2. FlagInv /\ AloneInv' /\ [Next]_vars => FlagInv'
  BY FlagInvStep
<1>3. FlagInv => OneDefault
  BY DEF FlagInv
<1> QED
  BY <1>1, <1>2, <1>3, AloneInvAlways, PTL DEF Spec

=============================================================================
