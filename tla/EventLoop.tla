----------------------------- MODULE EventLoop -----------------------------
(***************************************************************************)
(* The time events of the event loop (ae.c): a list of events that their   *)
(* handlers change while it is processed, a clock that may be set back,    *)
(* and the time that the poll of the sockets may sleep.                    *)
(***************************************************************************)
EXTENDS Integers, Sequences, FiniteSets, SequencesExt

CONSTANTS
    MS,          \* milliseconds per second
    MaxNow,      \* the last time of the clock
    MaxEvents    \* time events ever created

ASSUME LoopAssumption == MS \in Nat \ {0}

VARIABLES
    clock,           \* the time in milliseconds
    timeEvents,      \* the list from timeEventHead: id and due time of each event
    timeEventNextId, lastTime, \* fields of the event loop
    loopAt,          \* "poll", "time" before and "pass" in processTimeEvents
    te,              \* the place in the list
    maxId,           \* newest event when the pass began
    owed,            \* events that the pass has to run, or that the last one left over
    back,            \* the clock was set back during the pass under way
    slept            \* the last poll: how long it slept beyond the first event that is due

loopVars == <<clock, timeEvents, timeEventNextId, lastTime, loopAt, te, maxId, owed, back, slept>>

Sec(t) == t \div MS
Msec(t) == t % MS
EventIsDue(e) == Sec(clock) > e.sec \/ (Sec(clock) = e.sec /\ Msec(clock) >= e.ms)

(* when_sec and when_ms, a number of milliseconds from now.                *)
aeAddMillisecondsToNow(now, id, n) ==
    LET ms == Msec(now) + (n % MS)
    IN  [id |-> id, sec |-> Sec(now) + (n \div MS) + (IF ms >= MS THEN 1 ELSE 0), ms |-> IF ms >= MS THEN ms - MS ELSE ms]

aeCreateTimeEvent(events, now, id, n) == <<aeAddMillisecondsToNow(now, id, n)>> \o events
aeDeleteTimeEvent(events, id) == RemoveFirstMatch(events, LAMBDA e : e.id = id)

aeSearchNearestTimer ==
    CHOOSE e \in ToSet(timeEvents) :
       \A f \in ToSet(timeEvents) : e.sec < f.sec \/ (e.sec = f.sec /\ e.ms <= f.ms)

(* The timeout of the poll: the difference to the nearest event, with each *)
(* of its two parts at least zero.                                         *)
PollTimeout(e) ==
    LET borrow == e.ms < Msec(clock)
        sec == e.sec - Sec(clock) - (IF borrow THEN 1 ELSE 0)
        ms  == IF borrow THEN e.ms + MS - Msec(clock) ELSE e.ms - Msec(clock)
    IN  (IF sec < 0 THEN 0 ELSE sec) * MS + ms

(* The poll ends by its timeout, or earlier by a file event.               *)
aeApiPoll ==
    /\ loopAt = "poll" /\ timeEvents # <<>>
    /\ \E n \in 0 .. PollTimeout(aeSearchNearestTimer) :
          /\ clock + n <= MaxNow
          /\ clock' = clock + n
          /\ slept' = IF EventIsDue(aeSearchNearestTimer) THEN n ELSE 0
    /\ loopAt' = "time"
    /\ UNCHANGED <<timeEvents, timeEventNextId, lastTime, te, maxId, owed, back>>

Ids(events) == {e.id : e \in ToSet(events)}

(* A bug that does not notice that the clock was set back.                 *)
SkewUnnoticed(events) == events

(* The events are made due at once when the clock was set back.            *)
DetectSkew(events) ==
    IF Sec(clock) < lastTime THEN [i \in 1 .. Len(events) |-> [events[i] EXCEPT !.sec = 0]] ELSE events

processTimeEvents ==
    /\ loopAt = "time"
    /\ timeEvents' = DetectSkew(timeEvents)
    /\ lastTime' = Sec(clock)
    /\ te' = 1 /\ maxId' = timeEventNextId - 1
    /\ owed' = (IF Sec(clock) < lastTime THEN Ids(timeEvents) ELSE {e.id : e \in {f \in ToSet(timeEvents) : EventIsDue(f)}})
                \cup (IF Sec(clock) = lastTime THEN {} ELSE owed)
    /\ loopAt' = "pass"
    /\ UNCHANGED <<clock, timeEventNextId, back, slept>>

NoEvent == -1    \* the id of no event

(* The event at te is due: its handler runs, and may create an event or    *)
(* delete another one.  It takes its time, and the clock may be set        *)
(* meanwhile: it shows now when the handler returns.  n is the period that *)
(* it returns, 0 for AE_NOMORE.  The list is searched from its head again. *)
RunTimeEvent(n) ==
    /\ loopAt = "pass" /\ te <= Len(timeEvents)
    /\ timeEvents[te].id <= maxId /\ EventIsDue(timeEvents[te])
    /\ \E now \in MS .. MaxNow, create \in BOOLEAN, delete \in (Ids(timeEvents) \ {timeEvents[te].id}) \cup {NoEvent} :
          LET id    == timeEvents[te].id
              kept  == aeDeleteTimeEvent(timeEvents, delete)
              after == IF create THEN aeCreateTimeEvent(kept, now, timeEventNextId, 0) ELSE kept
          IN  /\ create => timeEventNextId < MaxEvents
              /\ timeEventNextId' = IF create THEN timeEventNextId + 1 ELSE timeEventNextId
              /\ timeEvents' = IF n = 0 THEN aeDeleteTimeEvent(after, id)
                               ELSE [i \in 1 .. Len(after) |->
                                        IF after[i].id = id THEN aeAddMillisecondsToNow(now, id, n) ELSE after[i]]
              /\ owed' = owed \ {delete, id}
              /\ clock' = now
              /\ back' = (back \/ now < clock)
    /\ te' = 1
    /\ UNCHANGED <<lastTime, loopAt, maxId, slept>>

SkipTimeEvent ==
    /\ loopAt = "pass" /\ te <= Len(timeEvents)
    /\ timeEvents[te].id > maxId \/ ~EventIsDue(timeEvents[te])
    /\ te' = te + 1
    /\ UNCHANGED <<clock, timeEvents, timeEventNextId, lastTime, loopAt, maxId, owed, back, slept>>

PassEnds ==
    /\ loopAt = "pass" /\ te > Len(timeEvents)
    /\ loopAt' = "poll"
    /\ back' = FALSE
    /\ UNCHANGED <<clock, timeEvents, timeEventNextId, lastTime, te, maxId, owed, slept>>

(* Time passes between any two readings of the clock, and the              *)
(* administrator may set it back there, as often as he likes.              *)
TimePasses ==
    /\ clock < MaxNow
    /\ clock' = clock + 1
    /\ UNCHANGED <<timeEvents, timeEventNextId, lastTime, loopAt, te, maxId, owed, back, slept>>

ClockIsSetBack ==
    /\ \E t \in MS .. clock - 1 : clock' = t
    /\ back' = (back \/ loopAt = "pass")
    /\ UNCHANGED <<timeEvents, timeEventNextId, lastTime, loopAt, te, maxId, owed, slept>>

LoopInit ==
    /\ clock = MS
    /\ timeEvents = <<[id |-> 0, sec |-> 1, ms |-> 0]>>
    /\ timeEventNextId = 1 /\ lastTime = 1
    /\ loopAt = "poll" /\ te = 1 /\ maxId = 0 /\ owed = {}
    /\ back = FALSE /\ slept = 0

LoopNext ==
    \/ aeApiPoll \/ processTimeEvents \/ SkipTimeEvent \/ PassEnds \/ TimePasses \/ ClockIsSetBack
    \/ \E n \in 0 .. MS : RunTimeEvent(n)

-----------------------------------------------------------------------------
(* A pass during which the clock is not set back runs every event that was *)
(* due when it began, and all events if the clock was set back by a second *)
(* or more since the pass before, although its handlers create and delete  *)
(* events while it goes through the list; what they create waits for the   *)
(* next.  The clock is read for each event (processTimeEvents), so a pass  *)
(* during which it is set back may leave events over; the next pass runs   *)
(* them, unless it begins in the same second by the clock.                 *)
DueEventsRun == [][PassEnds => back \/ owed = {}]_loopVars

(* "the function sleeps until some file event fires, or when the next time *)
(* event occurs": it sleeps on when an event is overdue by more than a     *)
(* second and the part below the second has not passed.                    *)
NoSleepWhenDue == slept = 0

=============================================================================
