------------------------------ MODULE RoomsProofs ------------------------------
(***************************************************************************)
(* Theorems about Rooms, for any rooms, orders, clocks and time zones.     *)
(***************************************************************************)
EXTENDS Rooms, TLAPS

-----------------------------------------------------------------------------
\* Arithmetic of the day.

\* What the comment of next_11am_after promises (service.rs:17-18): n is the first 11:00
\* strictly after t.
FirstEleven(t, n) == /\ n % 24 = 11 /\ n > t
                     /\ \A m \in (t + 1)..(n - 1) : m % 24 # 11

\* next_11am_after (service.rs:19-25) is, for every time, the first 11:00 after it.
THEOREM NextEleven ==
    ASSUME NEW t \in Int
    PROVE  /\ NextElevenAfter(t) \in Int
           /\ FirstEleven(t, NextElevenAfter(t))
  BY DEF NextElevenAfter, FirstEleven

\* A later check-in is never due earlier.
LEMMA ElevenMonotone ==
    ASSUME NEW a \in Int, NEW b \in Int, a <= b
    PROVE  NextElevenAfter(a) <= NextElevenAfter(b)
  BY DEF NextElevenAfter

\* If no 11:00 lies between a stamp and the local time it stands for, reading the stamp as
\* local time does not make the guest due early.
LEMMA UncrossedEleven ==
    ASSUME NEW t \in Int, ~ShiftCrossesEleven(t)
    PROVE  NextElevenAfter(Local(t)) <= NextElevenAfter(t)
<1>1. UtcOffset \in Int /\ Local(t) \in Int
  BY HoursAssumption DEF Local
<1>2. CASE Local(t) <= t
  BY <1>1, <1>2, ElevenMonotone
<1>3. CASE Local(t) > t
  <2> DEFINE n == NextElevenAfter(t)
  <2>1. n \in Int /\ n % 24 = 11 /\ n > t
    BY NextEleven DEF FirstEleven
  <2>2. n > Local(t)
    BY <1>1, <2>1 DEF ShiftCrossesEleven
  <2>3. /\ NextElevenAfter(Local(t)) \in Int
        /\ \A m \in (Local(t) + 1)..(NextElevenAfter(Local(t)) - 1) : m % 24 # 11
    BY <1>1, NextEleven DEF FirstEleven
  <2> QED
    BY <1>1, <2>1, <2>2, <2>3
<1> QED
  BY <1>1, <1>2, <1>3

\* What is past stays past.
LEMMA StillPast ==
    ASSUME NEW a \in Int, NEW b \in Int, NEW u \in Int, NEW s \in Int, b > a
    PROVE  s <= a + u => s <= b + u
  OBVIOUS

-----------------------------------------------------------------------------
\* What the invariants rest on.

\* The sweep read its clock in the past.
ListSound == Sweeping => sweptAt <= Local(clock)

RInv == TypeOK /\ StatusFitsOrder /\ ListSound

LEMMA RInvInit == Init => RInv
  BY HoursAssumption, NullAssumption
  DEF Init, RInv, TypeOK, StatusFitsOrder, ListSound, RoomRow, Ready, NothingToDo,
      Sweeping, Times, NoTime

LEMMA RInvStep ==
    ASSUME RInv, [Next]_vars
    PROVE  RInv'
<1> USE HoursAssumption, NullAssumption DEF RInv
<1>1. CASE UNCHANGED vars
  BY <1>1 DEF vars, TypeOK, StatusFitsOrder, ListSound, Sweeping, NothingToDo
<1>2. CASE Tick
  <2>1. clock \in Int /\ clock' \in Int /\ clock' > clock /\ clock' \in Nat
    BY <1>2 DEF Tick, TypeOK
  <2>2. UtcOffset \in Int /\ sweptAt \in Int
    BY DEF TypeOK
  <2>3. sweptAt <= clock + UtcOffset => sweptAt <= clock' + UtcOffset
    BY <2>1, <2>2, StillPast
  <2>4. TypeOK' /\ StatusFitsOrder'
    BY <1>2, <2>1 DEF Tick, TypeOK, StatusFitsOrder
  <2> QED
    BY <1>2, <2>3, <2>4 DEF Tick, ListSound, Sweeping, NothingToDo, Local
<1>3. CASE SweepRead
  BY <1>3 DEF SweepRead, TypeOK, StatusFitsOrder, ListSound, Sweeping, NothingToDo,
              Local, RoomRow, Times, NoTime
<1>4. CASE ServerStops
  BY <1>4 DEF ServerStops, TypeOK, StatusFitsOrder, ListSound, Sweeping, NothingToDo,
              Times, NoTime
<1>5. ASSUME NEW o \in Orders, VoidOrder(o) \/ CloseOrder(o)
      PROVE  RInv'
  BY <1>5 DEF VoidOrder, CloseOrder, TypeOK, StatusFitsOrder, ListSound, Sweeping,
              NothingToDo
<1>6. ASSUME NEW o \in Orders, RevertRooms(o)
      PROVE  RInv'
  BY <1>6 DEF RevertRooms, TypeOK, StatusFitsOrder, ListSound, Sweeping,
              NothingToDo, RoomRow, Ready, Times, NoTime
<1>7. ASSUME NEW r \in Rooms, SetReady(r)
      PROVE  RInv'
  BY <1>7 DEF SetReady, TypeOK, StatusFitsOrder, ListSound, Sweeping,
              NothingToDo, RoomRow, Ready, Times, NoTime
<1>8. ASSUME NEW r \in Rooms, SweepRoom(r)
      PROVE  RInv'
  <2>1. TypeOK' /\ StatusFitsOrder'
    BY <1>8 DEF SweepRoom, TypeOK, StatusFitsOrder, RoomRow, Ready, Times, NoTime
  <2>2. ListSound'
    <3>1. Sweeping /\ sweptAt <= Local(clock)
      BY <1>8 DEF SweepRoom, ListSound, Sweeping, NothingToDo
    <3>2. Sweeping' => sweptAt' = sweptAt
      BY <1>8 DEF SweepRoom, Sweeping, NothingToDo
    <3> QED
      BY <1>8, <3>1, <3>2 DEF SweepRoom, ListSound, Local
  <2> QED
    BY <2>1, <2>2
<1>9. ASSUME NEW r \in Rooms, NEW o \in Orders, AddRoom(o, r)
      PROVE  RInv'
  BY <1>9 DEF AddRoom, TypeOK, StatusFitsOrder, ListSound, Sweeping, NothingToDo
<1>10. ASSUME NEW r \in Rooms, NEW o \in Orders, CheckIn(o, r)
       PROVE  RInv'
  BY <1>10 DEF CheckIn, TypeOK, StatusFitsOrder, ListSound, Sweeping,
               NothingToDo, RoomRow, Ready, Times, NoTime
<1> QED
  BY <1>1, <1>2, <1>3, <1>4, <1>5, <1>6, <1>7, <1>8, <1>9, <1>10 DEF Next

LEMMA RInvAlways == Spec => []RInv
<1>1. RInv /\ [Next]_vars => RInv'
  BY RInvStep
<1> QED
  BY RInvInit, <1>1, PTL DEF Spec

-----------------------------------------------------------------------------
\* The theorems.

\* Every variable keeps its type, however many rooms, orders and restarts there are.
THEOREM TypeCorrect == Spec => []TypeOK
<1>1. RInv => TypeOK
  BY DEF RInv
<1> QED
  BY RInvAlways, <1>1, PTL

\* A ready room is free and an occupied one is held, whatever requests, sweeps and
\* restarts interleave.
THEOREM StatusFitsOrderAlways == Spec => []StatusFitsOrder
<1>1. RInv => StatusFitsOrder
  BY DEF RInv
<1> QED
  BY RInvAlways, <1>1, PTL

\* In every time zone, a guest whose check-in hour is not moved across an 11:00 by reading
\* the UTC stamp as local time (service.rs:136-138) is not turned out before the first 11:00
\* after it, whatever interleaves. At or behind UTC that is every guest.
THEOREM OthersStayTillElevenAlways == Spec => OthersStayTillEleven
<1> DEFINE Leaves == \A r \in Rooms : (~ShiftCrossesEleven(rooms[r].since) => LeavesGuests(r))
<1>1. ASSUME RInv, [Next]_vars
      PROVE  [Leaves]_vars
  <2> SUFFICES ASSUME Next, NEW s \in Rooms, SweptOut(s),
                      ~ShiftCrossesEleven(rooms[s].since)
               PROVE  Local(clock) >= NextElevenAfter(Local(rooms[s].since))
    BY <1>1 DEF LeavesGuests
  <2> USE HoursAssumption DEF RInv, SweptOut
  <2>1. PICK r \in Rooms : SweepRoom(r)
    <3>1. \A o \in Orders : ~VoidOrder(o) /\ ~CloseOrder(o) /\ ~RevertRooms(o)
      BY <1>1 DEF VoidOrder, CloseOrder, RevertRooms, Ready, TypeOK
    <3>2. \A r \in Rooms : ~SetReady(r) /\ \A o \in Orders : ~AddRoom(o, r) /\ ~CheckIn(o, r)
      BY <1>1 DEF SetReady, AddRoom, CheckIn, Ready, TypeOK, RoomRow
    <3>3. ~Tick /\ ~SweepRead /\ ~ServerStops
      BY <1>1 DEF Tick, SweepRead, ServerStops
    <3> QED
      BY <3>1, <3>2, <3>3 DEF Next
  <2>2. r = s /\ sweptAt >= NextElevenAfter(todo[s]) /\ todo[s] # NoTime
    BY <1>1, <2>1 DEF SweepRoom, TypeOK, RoomRow
  <2>3. sweptAt <= Local(clock)
    BY <1>1, <2>2 DEF ListSound, Sweeping, NothingToDo
  <2>4. todo[s] \in Int /\ Local(todo[s]) \in Int /\ ~ShiftCrossesEleven(todo[s])
    BY <1>1 DEF TypeOK, Times, NoTime, Local
  <2>5. NextElevenAfter(Local(todo[s])) <= NextElevenAfter(todo[s])
    BY <2>4, UncrossedEleven
  <2>6. /\ NextElevenAfter(Local(todo[s])) \in Int /\ NextElevenAfter(todo[s]) \in Int
        /\ sweptAt \in Int /\ Local(clock) \in Int
    BY <1>1, <2>4, NextEleven DEF TypeOK, Local
  <2> QED
    BY <2>2, <2>3, <2>5, <2>6
<1> QED
  BY RInvAlways, <1>1, PTL DEF Spec, OthersStayTillEleven

\* At or behind UTC no check-in is moved across an 11:00, so that the promise of
\* next_11am_after (service.rs:17-18) is kept to everybody.
THEOREM NeverBeforeElevenInTheWest ==
    ASSUME UtcOffset <= 0
    PROVE  Spec => NeverBeforeEleven
<1>1. TypeOK /\ [\A r \in Rooms : ~ShiftCrossesEleven(rooms[r].since) => LeavesGuests(r)]_vars
        => [\A r \in Rooms : LeavesGuests(r)]_vars
  <2>1. ASSUME TypeOK, NEW r \in Rooms PROVE ~ShiftCrossesEleven(rooms[r].since)
    BY <2>1, HoursAssumption DEF ShiftCrossesEleven, Local, TypeOK, RoomRow, Times, NoTime
  <2> QED
    BY <2>1
<1> QED
  BY OthersStayTillElevenAlways, TypeCorrect, <1>1, PTL DEF OthersStayTillEleven, NeverBeforeEleven

=============================================================================
