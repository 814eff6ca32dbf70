-------------------------------- MODULE Rooms --------------------------------
(***************************************************************************)
(* The room board (crates/smeazy-accommodation): rooms are checked in by   *)
(* adding them to a bill, reverted by voiding it, made ready by hand, and  *)
(* moved to readying by a sweep the server runs every five minutes, once   *)
(* the 11:00 after check-in has passed. Bills are reduced to what the      *)
(* rooms see of them; PosOrders has the rest.                              *)
(*                                                                         *)
(* Time is in whole hours. The database stamps UTC; the sweep reads those  *)
(* stamps as if they were local, and compares them with the local clock.   *)
(* A room without a row is a ready one: every handler inserts that row     *)
(* before it does anything else (INSERT OR IGNORE).                        *)
(***************************************************************************)
EXTENDS Integers, FiniteSets

CONSTANTS
    Rooms, Orders,
    UtcOffset,      \* local time is so many hours ahead of UTC
    Hours,          \* bound: the hours, from midnight UTC of some day, things happen at
    MaxStops        \* bound: how often the server may stop and start again

ASSUME HoursAssumption ==
    UtcOffset \in -12..14 /\ Hours \subseteq Nat /\ MaxStops \in Nat

NoOrder == "no order"
NoTime  == -1

ASSUME NullAssumption == NoOrder \notin Orders

VARIABLES
    clock,      \* hours of UTC gone by
    rooms,      \* accommodation_rooms: status, current_order_id, occupied_at
    bills,      \* the status of each order
    entering,   \* add_item requests that are about to check a room in
    leaving,    \* voided orders whose rooms are about to be reverted
    todo,       \* the sweep's list: occupied_at of the rooms it has still to look at
    sweptAt,    \* the local time it read
    stops       \* how often the server has stopped

vars == <<clock, rooms, bills, entering, leaving, todo, sweptAt, stops>>

Times == Nat \cup {NoTime}

RoomRow == [status: {"ready", "occupied", "readying"},
            order: Orders \cup {NoOrder}, since: Times]

NothingToDo == [r \in Rooms |-> NoTime]

Ready == [status |-> "ready", order |-> NoOrder, since |-> NoTime]

TypeOK ==
    /\ clock \in Nat
    /\ rooms \in [Rooms -> RoomRow]
    /\ bills \in [Orders -> {"open", "voided", "closed"}]
    /\ entering \subseteq Orders \X Rooms
    /\ leaving \subseteq Orders
    /\ todo \in [Rooms -> Times]
    /\ sweptAt \in Int
    /\ stops \in Nat

Init ==
    /\ clock = 0
    /\ rooms = [r \in Rooms |-> Ready]
    /\ bills = [o \in Orders |-> "open"]
    /\ entering = {}
    /\ leaving = {}
    /\ todo = NothingToDo
    /\ sweptAt = 0
    /\ stops = 0

-----------------------------------------------------------------------------

Local(t) == t + UtcOffset

\* Mutant: always today's 11:00.
ElevenOfToday(t) == (t \div 24) * 24 + 11

\* next_11am_after: the next 11:00 strictly after a time.
NextElevenAfter(t) ==
    LET today == (t \div 24) * 24 + 11
    IN IF today > t THEN today ELSE today + 24

Sweeping == todo # NothingToDo

Tick ==
    /\ clock' \in {h \in Hours : h > clock}
    /\ UNCHANGED <<rooms, bills, entering, leaving, todo, sweptAt, stops>>

-----------------------------------------------------------------------------
\* The requests.

\* add_item has seen that the order is open and has inserted the line.
AddRoom(o, r) ==
    /\ bills[o] = "open"
    /\ entering' = entering \cup {<<o, r>>}
    /\ UNCHANGED <<clock, rooms, bills, leaving, todo, sweptAt, stops>>

\* mark_occupied_if_room
CheckIn(o, r) ==
    /\ <<o, r>> \in entering
    /\ entering' = entering \ {<<o, r>>}
    /\ rooms' = [rooms EXCEPT ![r] =
                   [status |-> "occupied", order |-> o, since |-> clock]]
    /\ UNCHANGED <<clock, bills, leaving, todo, sweptAt, stops>>

\* void_order, and checkout as far as the rooms can tell.
VoidOrder(o) ==
    /\ bills[o] = "open"
    /\ bills' = [bills EXCEPT ![o] = "voided"]
    /\ leaving' = leaving \cup {o}
    /\ UNCHANGED <<clock, rooms, entering, todo, sweptAt, stops>>

CloseOrder(o) ==
    /\ bills[o] = "open"
    /\ bills' = [bills EXCEPT ![o] = "closed"]
    /\ UNCHANGED <<clock, rooms, entering, leaving, todo, sweptAt, stops>>

\* Mutant: only the status is written.
RevertStatus(o) ==
    /\ o \in leaving
    /\ leaving' = leaving \ {o}
    /\ rooms' = [r \in Rooms |-> IF rooms[r].order = o
                                   THEN [rooms[r] EXCEPT !.status = "ready"]
                                   ELSE rooms[r]]
    /\ UNCHANGED <<clock, bills, entering, todo, sweptAt, stops>>

\* revert_rooms_for_voided_order
RevertRooms(o) ==
    /\ o \in leaving
    /\ leaving' = leaving \ {o}
    /\ rooms' = [r \in Rooms |-> IF rooms[r].order = o THEN Ready ELSE rooms[r]]
    /\ UNCHANGED <<clock, bills, entering, todo, sweptAt, stops>>

\* set_ready: of any room, whatever its status.
SetReady(r) ==
    /\ rooms[r] # Ready
    /\ rooms' = [rooms EXCEPT ![r] = Ready]
    /\ UNCHANGED <<clock, bills, entering, leaving, todo, sweptAt, stops>>

-----------------------------------------------------------------------------
\* run_readying_sweep: one SELECT, then an UPDATE for each room that is due.

SweepRead ==
    /\ ~Sweeping
    /\ \E r \in Rooms : rooms[r].status = "occupied"
    /\ todo' = [r \in Rooms |-> IF rooms[r].status = "occupied"
                                  THEN rooms[r].since ELSE NoTime]
    /\ sweptAt' = Local(clock)
    /\ UNCHANGED <<clock, rooms, bills, entering, leaving, stops>>

\* Mutant: a room that is not due ends the loop.
SweepStops(r) ==
    /\ todo[r] # NoTime
    /\ IF sweptAt >= NextElevenAfter(todo[r])
         THEN /\ rooms' = [rooms EXCEPT ![r].status = "readying"]
              /\ todo' = [todo EXCEPT ![r] = NoTime]
         ELSE /\ todo' = NothingToDo
              /\ UNCHANGED rooms
    /\ sweptAt' = IF todo' = NothingToDo THEN 0 ELSE sweptAt
    /\ UNCHANGED <<clock, bills, entering, leaving, stops>>

\* Mutant: the 11:00 of the day of check-in, also for guests who came after it.
SweepSameDay(r) ==
    /\ todo[r] # NoTime
    /\ IF sweptAt >= ElevenOfToday(todo[r])
         THEN rooms' = [rooms EXCEPT ![r].status = "readying"]
         ELSE UNCHANGED rooms
    /\ todo' = [todo EXCEPT ![r] = NoTime]
    /\ sweptAt' = IF todo' = NothingToDo THEN 0 ELSE sweptAt
    /\ UNCHANGED <<clock, bills, entering, leaving, stops>>

\* The stamp in the list is UTC and is taken for local time. The UPDATE names the room
\* by id alone.
SweepRoom(r) ==
    /\ todo[r] # NoTime
    /\ IF sweptAt >= NextElevenAfter(todo[r])
         THEN rooms' = [rooms EXCEPT ![r].status = "readying"]
         ELSE UNCHANGED rooms
    /\ todo' = [todo EXCEPT ![r] = NoTime]
    /\ sweptAt' = IF todo' = NothingToDo THEN 0 ELSE sweptAt
    /\ UNCHANGED <<clock, bills, entering, leaving, stops>>

\* The server stops, with every request in flight and its sweep, and starts again.
ServerStops ==
    /\ stops < MaxStops
    /\ stops' = stops + 1
    /\ entering' = {}
    /\ leaving' = {}
    /\ todo' = NothingToDo
    /\ sweptAt' = 0
    /\ UNCHANGED <<clock, rooms, bills>>

Next ==
    \/ Tick
    \/ SweepRead
    \/ ServerStops
    \/ \E o \in Orders : VoidOrder(o) \/ CloseOrder(o) \/ RevertRooms(o)
    \/ \E r \in Rooms :
          \/ SetReady(r) \/ SweepRoom(r)
          \/ \E o \in Orders : AddRoom(o, r) \/ CheckIn(o, r)

Spec == Init /\ [][Next]_vars

\* The interval of main ticks for ever: a sweep that fails is logged and the next one
\* runs; a sweep that runs looks at every room of its list.
FairSpec ==
    Spec /\ WF_vars(SweepRead) /\ \A r \in Rooms : WF_vars(SweepRoom(r))

-----------------------------------------------------------------------------
\* Correctness.

\* A room is free exactly when nobody holds it: a ready room has no order and no
\* check-in time, an occupied one has both.
StatusFitsOrder ==
    \A r \in Rooms :
        /\ rooms[r].status = "ready" => rooms[r] = Ready
        /\ rooms[r].status = "occupied" => rooms[r].order # NoOrder /\ rooms[r].since # NoTime

\* The sweep never turns a guest out early: it moves a room to readying only at or after
\* the first 11:00 local time (service.rs:17-18) after the check-in it read, however long
\* ago that was, if the room has not changed hands since.
SweptOut(r) ==
    /\ rooms[r].status = "occupied" /\ rooms'[r].status = "readying"
    /\ rooms[r].since = todo[r]

LeavesGuests(r) ==
    SweptOut(r) => Local(clock) >= NextElevenAfter(Local(rooms[r].since))

NeverBeforeEleven == [][\A r \in Rooms : LeavesGuests(r)]_vars

\* Ahead of UTC the code breaks that for the guests between whose stamp, read as local
\* time, and whose true local check-in there is an 11:00: it takes them for guests of the
\* morning, due that day. Whoever comes at another hour is safe in every time zone,
\* whatever requests, sweeps and restarts interleave.
ShiftCrossesEleven(t) == \E e \in (t + 1)..Local(t) : e % 24 = 11

OthersStayTillEleven ==
    [][\A r \in Rooms : ~ShiftCrossesEleven(rooms[r].since) => LeavesGuests(r)]_vars

\* The sweep comes round: a room that stays occupied past the first 11:00 local time after
\* its check-in does not stay so for good, whatever else happens to it and however often
\* the server restarts.
Overdue(r) == /\ rooms[r].status = "occupied"
              /\ Local(clock) >= NextElevenAfter(Local(rooms[r].since))

OverdueIsSwept == \A r \in Rooms : Overdue(r) ~> ~Overdue(r)

=============================================================================
