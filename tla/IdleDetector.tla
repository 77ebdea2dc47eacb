---------------------------- MODULE IdleDetector ----------------------------
(***************************************************************************)
(* The idle detection loop (platform/monitor/idle_detector.rs) with the    *)
(* rows it keeps in idle_segments and the events it enqueues.              *)
(*                                                                         *)
(* Time is counted in units; a poll comes Interval units after the one     *)
(* before, later when the machine was suspended.  What the loop reads of   *)
(* the rest of the agent (pin_plus_active, can_track_time, attendance,     *)
(* work status, session) is written by other tasks between any two polls:  *)
(* each poll sees any value.  Whether the company has a lunch break does   *)
(* not change: main info is set and cleared together with the work status, *)
(* without which no poll tracks.                                           *)
(***************************************************************************)
EXTENDS Integers, Sequences, FiniteSets

CONSTANTS
    Interval,      \* idle_check_interval_seconds
    Gaps,          \* the times that may pass between two polls
    Threshold,     \* effective_idle_threshold_seconds
    Grace,         \* IDLE_CLOSE_GRACE_SECONDS
    DayLength,     \* a day
    WinStart,      \* lunch_start_time, from midnight
    WinEnd,        \* lunch_end_time, from midnight
    Allowed,       \* lunch_allowed_minutes
    BreakTime,     \* values use_break_time may have
    DbOutcomes,    \* may a statement fail: {TRUE} or BOOLEAN
    Horizon,       \* bound: when the modelled time ends
    MaxSegments    \* bound: rows of idle_segments

ASSUME TimeAssumption ==
    /\ Interval \in Nat \ {0} /\ Gaps \subseteq Nat /\ Interval \in Gaps
    /\ Threshold \in Nat \ {0} /\ Grace \in Nat /\ Horizon \in Nat
    /\ DayLength \in Nat \ {0}
ASSUME LunchAssumption ==
    /\ WinStart \in Nat /\ WinEnd \in Nat /\ Allowed \in Nat
    /\ WinStart < WinEnd /\ WinEnd <= DayLength
    /\ BreakTime \subseteq BOOLEAN /\ BreakTime # {}
ASSUME BoundsAssumption ==
    /\ DbOutcomes \subseteq BOOLEAN /\ TRUE \in DbOutcomes
    /\ MaxSegments \in Nat

NoTime == -1

VARIABLES
    up,          \* the process runs
    now,         \* Utc::now()
    lastInput,   \* when the user last touched mouse or keyboard
    mode,        \* IdleState: "Active" or "IdleOpen"
    current,     \* the open segment of IdleOpen (0: none)
    firstZero,   \* first_zero_at of IdleOpen
    startedAt,   \* segment_started_at
    lunchUsed,   \* lunch_used_secs
    lunchDate,   \* lunch_reset_date
    segments,    \* the rows of idle_segments of this PC
    events,      \* the IDLE_* events enqueued, in order
    breakTime,   \* use_break_time, with a lunch window that parses
    credited,    \* history: what each day credited to lunch
    failed       \* history: a statement of a closing segment has failed

clock == <<up, now, lastInput>>
loopState == <<mode, current, firstZero, startedAt>>
lunch == <<lunchUsed, lunchDate, credited>>
tables == <<segments, events>>
history == <<breakTime, failed>>
vars == <<clock, loopState, lunch, tables, history>>

-----------------------------------------------------------------------------
(***************************************************************************)
(* The lunch window                                                        *)
(***************************************************************************)

Later(a, b) == IF a >= b THEN a ELSE b
Smaller(a, b) == IF a <= b THEN a ELSE b

Day(t) == t \div DayLength
Days == 0..Day(Horizon)
WindowStart(t) == Day(t) * DayLength + WinStart
WindowEnd(t) == Day(t) * DayLength + WinEnd

\* is_within_lunch_break of a company with break time: the end is exclusive.
InWindow(t) == t >= WindowStart(t) /\ t < WindowEnd(t)

\* effective_segment_start_at: after the window no earlier than its end, in it
\* the allowance after the spell or the window began, before it unchanged.
EffectiveStart(raw, t) ==
    IF t >= WindowEnd(t) THEN Later(raw, WindowEnd(t))
    ELSE IF t >= WindowStart(t) THEN Later(raw, WindowStart(t)) + Allowed
    ELSE raw

-----------------------------------------------------------------------------
Init ==
    /\ up = TRUE
    /\ now = 0
    /\ lastInput = 0
    /\ mode = "Active"
    /\ current = 0
    /\ firstZero = NoTime
    /\ startedAt = NoTime
    /\ lunchUsed = 0
    /\ lunchDate = NoTime
    /\ segments = <<>>
    /\ events = <<>>
    /\ credited = [d \in Days |-> 0]
    /\ breakTime \in BreakTime
    /\ failed = FALSE

(***************************************************************************)
(* One iteration of the loop.  Poll and Measure are what all share.        *)
(***************************************************************************)

\* The sleep ends; the user may have given input meanwhile.
Poll ==
    /\ up /\ UNCHANGED up
    /\ \E dt \in Gaps :
        /\ dt > 0 /\ now + dt <= Horizon
        /\ now' = now + dt
        /\ lastInput' \in {lastInput} \cup (now + 1)..(now + dt)

\* input::idle_seconds
Idle == now' - lastInput'

\* The company's midnight resets the lunch credit, before the tracking gates.
Measure ==
    /\ Poll
    /\ lunchDate' = Day(now')

\* Mutant: no reset at midnight.
UsedEver == lunchUsed

UsedToday == IF lunchDate = Day(now') THEN lunchUsed ELSE 0

KeepLunch == lunchUsed' = UsedToday /\ UNCHANGED credited

\* A poll the gates let through.
Track ==
    /\ Measure
    /\ UNCHANGED breakTime

\* pin_plus_active() is false: nothing is even measured.
PollWithoutPinPlus ==
    /\ Poll
    /\ UNCHANGED <<loopState, lunch, tables, history>>

\* can_track_time is false, the attendance is neither Working nor Unknown, or
\* the work status is not WorkingNow: the state stays what it is.
PollBlocked ==
    /\ Measure
    /\ KeepLunch
    /\ UNCHANGED <<loopState, tables, history>>

\* Active, idle below the threshold.
PollActive ==
    /\ Track
    /\ mode = "Active"
    /\ Idle < Threshold
    /\ KeepLunch
    /\ UNCHANGED <<loopState, tables, failed>>

LunchCredits == breakTime /\ InWindow(now') /\ UsedToday < Allowed

\* Mutant: the last credit is not cut off at the allowance.
FullInterval == Interval

\* interval_secs.min(lunch_allowed - lunch_used_secs)
LunchCredit == Smaller(Interval, Allowed - UsedToday)

\* Active and idle, but the lunch allowance is not used up.
PollLunch ==
    /\ Track
    /\ mode = "Active"
    /\ Idle >= Threshold
    /\ LunchCredits
    /\ lunchUsed' = UsedToday + LunchCredit
    /\ credited' = [credited EXCEPT ![Day(now')] = @ + LunchCredit]
    /\ UNCHANGED <<loopState, tables, failed>>

\* Mutant: the threshold is subtracted on top of the idle time.
EarlyStart == now' - Idle - Threshold

\* The last input is where the absence began.
RawStart == now' - Idle

\* insert: a row without an end.
Inserted(start) == Append(segments, [start |-> start, end |-> NoTime, openedAt |-> now'])

\* Active and idle: a segment is inserted, its start corrected for lunch.
PollOpen ==
    /\ Track
    /\ mode = "Active"
    /\ Idle >= Threshold
    /\ Len(segments) < MaxSegments
    /\ ~LunchCredits
    /\ startedAt' = IF breakTime THEN EffectiveStart(RawStart, now') ELSE RawStart
    /\ segments' = Inserted(startedAt')
    /\ mode' = "IdleOpen"
    /\ current' = Len(segments')
    /\ firstZero' = NoTime
    /\ KeepLunch
    /\ UNCHANGED <<events, failed>>

\* The same without a session, or with an INSERT that fails.
PollOpenFails ==
    /\ Track
    /\ mode = "Active"
    /\ Idle >= Threshold
    /\ ~LunchCredits
    /\ KeepLunch
    /\ UNCHANGED <<loopState, tables, failed>>

\* Mutant: only the end of a segment is reported.
EndOnly(id, start, end) == <<[type |-> "IDLE_ENDED", seg |-> id, at |-> end]>>

\* The two events of a segment.
SegmentEvents(id, start, end) ==
    <<[type |-> "IDLE_STARTED", seg |-> id, at |-> start],
      [type |-> "IDLE_ENDED", seg |-> id, at |-> end]>>

\* close
RowClosed(closeAt) == [segments EXCEPT ![current].end = closeAt]

\* finalize_segment_close: the row is closed and both events are enqueued; a
\* statement that fails does not keep the others back.
Finalize(closeAt) ==
    /\ LET both == SegmentEvents(current, startedAt, closeAt)
       IN  \E updated, first, last \in DbOutcomes :
            /\ segments' = IF updated THEN RowClosed(closeAt) ELSE segments
            /\ events' = events \o (IF first THEN SubSeq(both, 1, 1) ELSE <<>>)
                                \o (IF last THEN SubSeq(both, 2, Len(both)) ELSE <<>>)
            /\ failed' = (failed \/ ~(updated /\ first /\ last))
    /\ mode' = "Active"
    /\ current' = 0
    /\ firstZero' = NoTime
    /\ startedAt' = NoTime

\* IdleOpen inside the lunch window: closed at the window's start.
PollLunchClose ==
    /\ Track
    /\ mode = "IdleOpen"
    /\ breakTime
    /\ InWindow(now')
    /\ Finalize(Later(WindowStart(now'), startedAt))
    /\ KeepLunch

IdleOpenPoll ==
    /\ Track
    /\ mode = "IdleOpen"
    /\ ~breakTime \/ ~InWindow(now')
    /\ KeepLunch

\* IdleOpen, still or again idle.
PollAway ==
    /\ IdleOpenPoll
    /\ Idle > 0
    /\ firstZero' = NoTime
    /\ UNCHANGED <<mode, current, startedAt, tables, failed>>

\* IdleOpen, input in the very second of the poll: the grace period starts.
PollBack ==
    /\ IdleOpenPoll
    /\ Idle = 0
    /\ firstZero = NoTime
    /\ firstZero' = now'
    /\ UNCHANGED <<mode, current, startedAt, tables, failed>>

PollGrace ==
    /\ IdleOpenPoll
    /\ Idle = 0
    /\ firstZero # NoTime
    /\ now' - firstZero < Grace
    /\ UNCHANGED <<loopState, tables, failed>>

\* IdleOpen, input in this second too after the grace period.
PollClose ==
    /\ IdleOpenPoll
    /\ Idle = 0
    /\ firstZero # NoTime
    /\ now' - firstZero >= Grace
    /\ Finalize(firstZero)

\* A crash or a quit: the loop's variables are gone, the tables stay.
Stop ==
    /\ up
    /\ up' = FALSE
    /\ mode' = "Active" /\ current' = 0
    /\ firstZero' = NoTime /\ startedAt' = NoTime
    /\ lunchUsed' = 0 /\ lunchDate' = NoTime
    /\ UNCHANGED <<now, lastInput, tables, credited, history>>

Start ==
    /\ ~up
    /\ up' = TRUE
    /\ UNCHANGED <<now, lastInput, loopState, lunch, tables, history>>

Next ==
    \/ PollWithoutPinPlus \/ PollBlocked
    \/ PollActive \/ PollLunch \/ PollOpen \/ PollOpenFails
    \/ PollLunchClose \/ PollAway
    \/ PollBack \/ PollGrace \/ PollClose
    \/ Stop \/ Start

Spec == Init /\ [][Next]_vars

-----------------------------------------------------------------------------
(***************************************************************************)
(* Properties                                                              *)
(***************************************************************************)

Time == 0..(Horizon + Allowed)
Segment == [start : Time, end : Time \cup {NoTime}, openedAt : Time]
Event == [type : {"IDLE_STARTED", "IDLE_ENDED"}, seg : 1..MaxSegments, at : Time]

\* Every variable has its type; IdleOpen and only it has a segment.
TypeOK ==
    /\ up \in BOOLEAN
    /\ now \in 0..Horizon /\ lastInput \in 0..now
    /\ mode \in {"Active", "IdleOpen"}
    /\ current \in 0..Len(segments) /\ (current # 0 <=> mode = "IdleOpen")
    /\ firstZero \in (0..now) \cup {NoTime}
    /\ startedAt \in Time \cup {NoTime}
    /\ lunchUsed \in 0..Allowed
    /\ lunchDate \in Nat \cup {NoTime}
    /\ segments \in Seq(Segment) /\ Len(segments) <= MaxSegments
    /\ events \in Seq(Event)
    /\ credited \in [Days -> Nat]
    /\ breakTime \in BreakTime
    /\ failed \in BOOLEAN

IsClosed(i) == segments[i].end # NoTime

\* Without a lunch break no moment is counted as two absences, and no recorded
\* absence is shorter than the threshold: a segment's start reaches back from its
\* poll, its end over the grace period, and blocked polls, restarts, suspends and
\* failing statements lie in between.
SegmentsDisjoint ==
    ~breakTime =>
        \A i \in DOMAIN segments : IsClosed(i) =>
            /\ segments[i].start + Threshold <= segments[i].end
            /\ \A j \in DOMAIN segments : i < j => segments[i].end <= segments[j].start

\* The lunch allowance comes first, every day anew: no segment opens inside a
\* window before that day has credited all of it, whatever the days before,
\* blocked polls and restarts left in lunch_used_secs.
AllowanceFirst ==
    breakTime =>
        \A i \in DOMAIN segments :
            InWindow(segments[i].openedAt) =>
                credited[Day(segments[i].openedAt)] >= Allowed

\* Two events about one segment or about two come in this order.
InTurn(d, e) ==
    \/ d.seg < e.seg
    \/ d.seg = e.seg /\ d.type = "IDLE_STARTED" /\ e.type = "IDLE_ENDED"

\* Whatever statements fail: nothing is said twice or out of turn, a start is the
\* row's own, and an end is not the open segment's and is the row's own unless the
\* row has none.  Whether an open segment's start is told is left open here.
ReportedOnce ==
    \A k \in DOMAIN events :
        LET e == events[k]
        IN  /\ IF e.type = "IDLE_STARTED" THEN e.at = segments[e.seg].start
               ELSE e.seg # current /\ segments[e.seg].end \in {NoTime, e.at}
            /\ \A j \in 1..(k - 1) : InTurn(events[j], e)

\* As long as statements succeed: of a closed row both the start and the end are
\* told, and an end is only told of a row that is closed.
ReportedInFull ==
    ~failed =>
        /\ \A i \in DOMAIN segments :
            IsClosed(i) => Cardinality({k \in DOMAIN events : events[k].seg = i}) = 2
        /\ \A k \in DOMAIN events :
            LET e == events[k]
            IN  e.type = "IDLE_ENDED" => e.at = segments[e.seg].end

\* What the server is told agrees with the table: the UPDATE of the row and the two
\* INSERTs of finalize_segment_close each may fail without the others noticing.
ReportsMatchRows == ReportedOnce /\ ReportedInFull

=============================================================================
