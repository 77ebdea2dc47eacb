-------------------------- MODULE IdleDetectorProofs --------------------------
(***************************************************************************)
(* Proofs about IdleDetector, for every interval, threshold, grace period, *)
(* lunch window, allowance and horizon: its types, that segments do not    *)
(* overlap and none is shorter than the threshold, that the lunch          *)
(* allowance comes first and lunch is cut off, that what is reported       *)
(* agrees with the rows and follows the clock, and that nothing recorded   *)
(* is rewritten.                                                           *)
(*                                                                         *)
(* The last part puts the loop together with the event queue, by what      *)
(* EventDelivery promises: what the server has learned of the absences at  *)
(* any moment.                                                             *)
(***************************************************************************)
EXTENDS IdleDetector, SequenceTheorems, FiniteSetTheorems, TLAPS

-----------------------------------------------------------------------------
(***************************************************************************)
(* Days and windows                                                        *)
(***************************************************************************)

\* A moment is in its day.
LEMMA DayFacts ==
    ASSUME NEW t \in Nat
    PROVE  /\ Day(t) \in Nat
           /\ Day(t) * DayLength \in Nat
           /\ Day(t) * DayLength =< t
BY TimeAssumption DEF Day

\* Days come one after the other.
LEMMA DayInHorizon == ASSUME NEW t \in 0..Horizon PROVE Day(t) \in Days
<1>1. t \in Nat /\ Horizon \in Nat /\ t =< Horizon
  BY TimeAssumption
<1>2. Day(t) =< Day(Horizon)
  BY <1>1, TimeAssumption DEF Day
<1> QED
  BY <1>1, <1>2, DayFacts DEF Days

\* The window of a day has whole ends; whoever is in it is after its start.
LEMMA WindowFacts ==
    ASSUME NEW t \in Nat
    PROVE  /\ WindowStart(t) \in Nat
           /\ WindowEnd(t) \in Nat
           /\ InWindow(t) => WindowStart(t) =< t
BY DayFacts, LunchAssumption DEF WindowStart, WindowEnd, InWindow

\* A corrected start is a time.
LEMMA EffectiveStartType ==
    ASSUME NEW t \in 0..Horizon, NEW raw \in 0..t
    PROVE  EffectiveStart(raw, t) \in Time
<1>1. t \in Nat /\ Allowed \in Nat /\ Horizon \in Nat
  BY TimeAssumption, LunchAssumption
<1>2. WindowStart(t) \in Nat /\ WindowEnd(t) \in Nat
  BY <1>1, WindowFacts
<1> QED
  BY <1>1, <1>2 DEF EffectiveStart, Later, Time

-----------------------------------------------------------------------------
(***************************************************************************)
(* What every poll does to the clock                                       *)
(***************************************************************************)

ClockOK == up \in BOOLEAN /\ now \in 0..Horizon /\ lastInput \in 0..now

\* A poll moves the clock on, the last input with it at most, and the raw start
\* of an absence is the last input.
LEMMA PollClock ==
    ASSUME ClockOK, Poll
    PROVE  /\ up \in BOOLEAN /\ up' \in BOOLEAN
           /\ now' \in 0..Horizon /\ now' \in Nat /\ now \in Nat /\ now < now'
           /\ lastInput \in Nat /\ lastInput' \in 0..now' /\ lastInput =< lastInput'
           /\ now' - (now' - lastInput') = lastInput'
<1>1. PICK dt \in Gaps : /\ dt > 0 /\ now + dt <= Horizon
                         /\ now' = now + dt
                         /\ lastInput' \in {lastInput} \cup (now + 1)..(now + dt)
  BY DEF Poll
<1>2. dt \in Nat /\ Horizon \in Nat
  BY TimeAssumption
<1>3. now \in Nat /\ lastInput \in Nat /\ lastInput =< now
  BY <1>2 DEF ClockOK
<1>4. now' \in 0..Horizon /\ now' \in Nat /\ now < now'
  BY <1>1, <1>2, <1>3
<1>5. lastInput' \in 0..now' /\ lastInput =< lastInput'
  BY <1>1, <1>2, <1>3, <1>4
<1>6. now' - (now' - lastInput') = lastInput'
  <2>1. \A a, b \in Int : a - (a - b) = b
    OBVIOUS
  <2>2. now' \in Int /\ lastInput' \in Int
    BY <1>4, <1>5
  <2> QED
    BY <2>1, <2>2
<1>7. up \in BOOLEAN /\ up' \in BOOLEAN
  BY DEF Poll, ClockOK
<1> QED
  BY <1>3, <1>4, <1>5, <1>6, <1>7

-----------------------------------------------------------------------------
(***************************************************************************)
(* The rows and the open segment                                           *)
(***************************************************************************)

Rows == Seq(Segment)

\* IdleOpen keeps the last row, which is open, and remembers where it starts.
LoopOK ==
    /\ mode \in {"Active", "IdleOpen"}
    /\ firstZero \in (0..now) \cup {NoTime}
    /\ mode = "Active" => current = 0 /\ firstZero = NoTime /\ startedAt = NoTime
    /\ mode = "IdleOpen" =>
        /\ current = Len(segments) /\ current # 0
        /\ startedAt \in Time
        /\ startedAt = segments[current].start
        /\ segments[current].end = NoTime

RowsOK ==
    /\ segments \in Rows /\ Len(segments) <= MaxSegments
    /\ \A i \in 1..Len(segments) : segments[i].openedAt \in 0..now

\* A new row is the last one, open, and the others stay.
LEMMA InsertedRow ==
    ASSUME RowsOK, NEW start \in Time, NEW opened \in 0..Horizon
    PROVE  LET new == Append(segments, [start |-> start, end |-> NoTime, openedAt |-> opened])
           IN  /\ new \in Rows
               /\ Len(new) = Len(segments) + 1
               /\ \A i \in 1..Len(segments) : new[i] = segments[i]
               /\ new[Len(segments) + 1] = [start |-> start, end |-> NoTime, openedAt |-> opened]
<1>1. Len(segments) \in Nat
  BY LenProperties DEF RowsOK, Rows
<1>2. [start |-> start, end |-> NoTime, openedAt |-> opened] \in Segment
  BY TimeAssumption, LunchAssumption DEF Segment, Time
<1> QED
  BY <1>1, <1>2 DEF RowsOK, Rows

\* Closing keeps everything but the end of the open row.
LEMMA ClosedRow ==
    ASSUME RowsOK, LoopOK, mode = "IdleOpen", NEW closeAt \in Time
    PROVE  /\ RowClosed(closeAt) \in Rows
           /\ Len(RowClosed(closeAt)) = Len(segments)
           /\ \A i \in 1..Len(segments) :
                /\ RowClosed(closeAt)[i].start = segments[i].start
                /\ RowClosed(closeAt)[i].openedAt = segments[i].openedAt
                /\ RowClosed(closeAt)[i].end = IF i = current THEN closeAt ELSE segments[i].end
<1>1. Len(segments) \in Nat /\ current \in 1..Len(segments)
  BY LenProperties DEF RowsOK, LoopOK, Rows
<1>2. segments[current] \in Segment
  BY <1>1, ElementOfSeq DEF RowsOK, Rows
<1>3. [segments[current] EXCEPT !.end = closeAt] \in Segment
  BY <1>2 DEF Segment
<1>4. RowClosed(closeAt) = [segments EXCEPT ![current] = [segments[current] EXCEPT !.end = closeAt]]
  BY DEF RowClosed
<1>5. \A i \in 1..Len(segments) :
          RowClosed(closeAt)[i] = IF i = current THEN [segments[current] EXCEPT !.end = closeAt]
                                  ELSE segments[i]
  BY <1>1, <1>3, <1>4, ExceptSeq DEF RowsOK, Rows
<1> QED
  BY <1>1, <1>2, <1>3, <1>4, <1>5, ExceptSeq DEF RowsOK, Rows, Segment

\* finalize_segment_close, whatever fails: the rows but for one end, and Active.
LEMMA Finalized ==
    ASSUME RowsOK, LoopOK, mode = "IdleOpen", NEW closeAt \in Time, Finalize(closeAt)
    PROVE  /\ segments' \in Rows
           /\ Len(segments') = Len(segments)
           /\ \A i \in 1..Len(segments) :
                /\ segments'[i].start = segments[i].start
                /\ segments'[i].openedAt = segments[i].openedAt
                /\ i # current => segments'[i].end = segments[i].end
                /\ segments'[i].end \in {segments[i].end, closeAt}
           /\ mode' = "Active" /\ current' = 0 /\ firstZero' = NoTime /\ startedAt' = NoTime
<1>1. segments' = segments \/ segments' = RowClosed(closeAt)
  BY DEF Finalize
<1>2. CASE segments' = segments
  BY <1>2 DEF Finalize, RowsOK
<1>3. CASE segments' = RowClosed(closeAt)
  BY <1>3, ClosedRow DEF Finalize
<1> QED
  BY <1>1, <1>2, <1>3

\* The time a poll closes a segment at.
LEMMA CloseTimes ==
    ASSUME ClockOK, LoopOK, PollLunchClose \/ PollClose
    PROVE  \E closeAt \in Time :
              /\ Finalize(closeAt)
              /\ PollClose => closeAt = firstZero
<1>1. Poll
  BY DEF PollLunchClose, PollClose, IdleOpenPoll, Track, Measure
<1>2. now' \in Nat /\ now' =< Horizon /\ Horizon \in Nat /\ Allowed \in Nat
  BY <1>1, PollClock, TimeAssumption, LunchAssumption
<1>3. CASE PollLunchClose
  <2>1. mode = "IdleOpen" /\ InWindow(now') /\ Finalize(Later(WindowStart(now'), startedAt))
    BY <1>3 DEF PollLunchClose
  <2>2. startedAt \in Time /\ WindowStart(now') \in Nat /\ WindowStart(now') =< now'
    BY <1>2, <2>1, WindowFacts DEF LoopOK
  <2>3. Later(WindowStart(now'), startedAt) \in Time
    BY <1>2, <2>2 DEF Later, Time
  <2>4. PICK closeAt \in Time : closeAt = Later(WindowStart(now'), startedAt)
    BY <2>3
  <2>5. Finalize(closeAt)
    BY <2>1, <2>4 DEF Finalize
  <2>6. ~PollClose
    BY <1>3 DEF PollLunchClose, PollClose, IdleOpenPoll
  <2> QED
    BY <2>5, <2>6
<1>4. CASE PollClose
  <2>1. firstZero # NoTime /\ Finalize(firstZero)
    BY <1>4 DEF PollClose
  <2>2. firstZero \in Time
    BY <1>2, <2>1, PollClock, <1>1 DEF LoopOK, ClockOK, Time
  <2>3. PICK closeAt \in Time : closeAt = firstZero
    BY <2>2
  <2>4. Finalize(closeAt)
    BY <2>1, <2>3 DEF Finalize
  <2> QED
    BY <2>3, <2>4
<1> QED
  BY <1>3, <1>4

-----------------------------------------------------------------------------
(***************************************************************************)
(* The events                                                              *)
(***************************************************************************)

EventsOK ==
    /\ events \in Seq(Event)
    /\ \A k \in 1..Len(events) : events[k].seg \in 1..Len(segments)

\* The two events of the open segment.
StartEvent == [type |-> "IDLE_STARTED", seg |-> current, at |-> startedAt]
EndEvent(closeAt) == [type |-> "IDLE_ENDED", seg |-> current, at |-> closeAt]

\* They are what SegmentEvents lists.
LEMMA BothEvents ==
    ASSUME RowsOK, LoopOK, mode = "IdleOpen", NEW closeAt \in Time
    PROVE  LET both == SegmentEvents(current, startedAt, closeAt)
           IN  /\ both \in Seq(Event) /\ Len(both) = 2
               /\ both[1] = StartEvent /\ both[2] = EndEvent(closeAt)
<1>1. current \in 1..MaxSegments
  BY LenProperties, BoundsAssumption DEF RowsOK, LoopOK, Rows
<1>2. StartEvent \in Event /\ EndEvent(closeAt) \in Event
  BY <1>1 DEF LoopOK, Event, StartEvent, EndEvent
<1> QED
  BY <1>2 DEF SegmentEvents, StartEvent, EndEvent

\* One of the two, or none.
LEMMA OneEvent ==
    ASSUME RowsOK, LoopOK, mode = "IdleOpen", NEW closeAt \in Time, NEW n \in {1, 2}
    PROVE  LET both == SegmentEvents(current, startedAt, closeAt)
           IN  /\ SubSeq(both, n, n) \in Seq(Event)
               /\ Len(SubSeq(both, n, n)) = 1
               /\ SubSeq(both, n, n)[1] = both[n]
<1> DEFINE both == SegmentEvents(current, startedAt, closeAt)
<1>1. both \in Seq(Event) /\ Len(both) = 2
  BY BothEvents
<1>2. \A i \in n .. n : both[i] \in Event
  BY <1>1, ElementOfSeq
<1> HIDE DEF both
<1>3. /\ SubSeq(both, n, n) \in Seq(Event)
      /\ Len(SubSeq(both, n, n)) = 1
      /\ \A i \in 1 .. 1 : SubSeq(both, n, n)[i] = both[n + i - 1]
  BY <1>2, SubSeqProperties
<1>4. SubSeq(both, n, n)[1] = both[n]
  BY <1>3
<1> QED
  BY <1>3, <1>4 DEF both

\* Whatever fails, the log is kept and what is appended are the segment's two events,
\* one of them or none, in this order.
LEMMA EventsGrow ==
    ASSUME RowsOK, LoopOK, EventsOK, mode = "IdleOpen", NEW closeAt \in Time, Finalize(closeAt)
    PROVE  /\ events' \in Seq(Event)
           /\ Len(events) =< Len(events')
           /\ \A k \in 1..Len(events') :
                IF k =< Len(events) THEN events'[k] = events[k]
                ELSE events'[k] \in {StartEvent, EndEvent(closeAt)}
           /\ \A j, k \in 1..Len(events') :
                Len(events) < j /\ j < k =>
                    events'[j] = StartEvent /\ events'[k] = EndEvent(closeAt)
<1> DEFINE both == SegmentEvents(current, startedAt, closeAt)
<1>1. PICK first, last \in DbOutcomes :
          events' = events \o (IF first THEN SubSeq(both, 1, 1) ELSE <<>>)
                           \o (IF last THEN SubSeq(both, 2, Len(both)) ELSE <<>>)
  BY DEF Finalize
<1>2. /\ both \in Seq(Event) /\ Len(both) = 2
      /\ both[1] = StartEvent /\ both[2] = EndEvent(closeAt)
  BY BothEvents
<1>3. /\ SubSeq(both, 1, 1) \in Seq(Event) /\ Len(SubSeq(both, 1, 1)) = 1
      /\ SubSeq(both, 1, 1)[1] = StartEvent
  BY <1>2, OneEvent
<1>4. /\ SubSeq(both, 2, Len(both)) \in Seq(Event) /\ Len(SubSeq(both, 2, Len(both))) = 1
      /\ SubSeq(both, 2, Len(both))[1] = EndEvent(closeAt)
  BY <1>2, OneEvent
<1> DEFINE x == IF first THEN SubSeq(both, 1, 1) ELSE <<>>
           y == IF last THEN SubSeq(both, 2, Len(both)) ELSE <<>>
<1>5. /\ x \in Seq(Event) /\ Len(x) \in {0, 1}
      /\ \A k \in 1..Len(x) : x[k] = StartEvent
  BY <1>3
<1>6. /\ y \in Seq(Event) /\ Len(y) \in {0, 1}
      /\ \A k \in 1..Len(y) : y[k] = EndEvent(closeAt)
  BY <1>4
<1>7. events' = (events \o x) \o y
  BY <1>1
<1> HIDE DEF x, y, both
<1>8. events \in Seq(Event) /\ Len(events) \in Nat
  BY LenProperties DEF EventsOK
<1>9. /\ events \o x \in Seq(Event) /\ Len(events \o x) = Len(events) + Len(x)
      /\ \A k \in 1 .. Len(events) + Len(x) :
            (events \o x)[k] = IF k <= Len(events) THEN events[k] ELSE x[k - Len(events)]
  BY <1>5, <1>8, ConcatProperties
<1>10. /\ events' \in Seq(Event) /\ Len(events') = Len(events) + Len(x) + Len(y)
       /\ \A k \in 1 .. Len(events) + Len(x) + Len(y) :
             events'[k] = IF k <= Len(events) + Len(x) THEN (events \o x)[k]
                          ELSE y[k - (Len(events) + Len(x))]
  BY <1>6, <1>7, <1>9, ConcatProperties
<1>11. ASSUME NEW k \in 1..Len(events')
       PROVE  IF k =< Len(events) THEN events'[k] = events[k]
              ELSE IF k =< Len(events) + Len(x) THEN events'[k] = StartEvent
              ELSE events'[k] = EndEvent(closeAt)
  <2>1. CASE k =< Len(events)
    BY <1>5, <1>6, <1>8, <1>9, <1>10, <2>1
  <2>2. CASE Len(events) < k /\ k =< Len(events) + Len(x)
    <3>1. events'[k] = x[k - Len(events)] /\ k - Len(events) \in 1..Len(x)
      BY <1>5, <1>6, <1>8, <1>9, <1>10, <2>2
    <3> QED
      BY <1>5, <1>8, <2>2, <3>1
  <2>3. CASE Len(events) + Len(x) < k
    <3>1. /\ events'[k] = y[k - (Len(events) + Len(x))]
          /\ k - (Len(events) + Len(x)) \in 1..Len(y)
      BY <1>5, <1>6, <1>8, <1>10, <2>3
    <3> QED
      BY <1>5, <1>6, <1>8, <2>3, <3>1
  <2> QED
    BY <1>5, <1>6, <1>8, <1>10, <2>1, <2>2, <2>3
<1>12. ASSUME NEW j \in 1..Len(events'), NEW k \in 1..Len(events'), Len(events) < j, j < k
       PROVE  events'[j] = StartEvent /\ events'[k] = EndEvent(closeAt)
  <2>1. ~(j =< Len(events)) /\ ~(k =< Len(events))
    BY <1>8, <1>10, <1>12
  <2>2. j =< Len(events) + Len(x) /\ ~(k =< Len(events) + Len(x))
    <3>1. PICK a \in Nat, b \in {0, 1}, c \in {0, 1} :
              a = Len(events) /\ b = Len(x) /\ c = Len(y)
      BY <1>5, <1>6, <1>8
    <3>2. Len(events') = a + b + c
      BY <1>10, <3>1
    <3>3. j \in 1..(a + b + c) /\ k \in 1..(a + b + c) /\ a < j /\ j < k
      BY <1>12, <3>1, <3>2
    <3>4. j =< a + b /\ ~(k =< a + b)
      BY <3>3
    <3> QED
      BY <3>1, <3>4
  <2> QED
    BY <1>11, <2>1, <2>2
<1> QED
  BY <1>5, <1>6, <1>8, <1>10, <1>11, <1>12

-----------------------------------------------------------------------------
(***************************************************************************)
(* Types                                                                   *)
(***************************************************************************)

\* What lunch_used_secs counts, the day it is of has credited.
LunchOK ==
    /\ lunchUsed \in 0..Allowed
    /\ lunchDate \in Days \cup {NoTime}
    /\ credited \in [Days -> Nat]
    /\ lunchDate # NoTime => lunchUsed =< credited[lunchDate]

Parts == ClockOK /\ RowsOK /\ LoopOK /\ EventsOK /\ LunchOK
         /\ breakTime \in BreakTime /\ failed \in BOOLEAN

\* The parts give every variable its type.
LEMMA PartsGiveTypes == Parts => TypeOK
<1> SUFFICES ASSUME Parts PROVE TypeOK
  OBVIOUS
<1>1. /\ up \in BOOLEAN /\ failed \in BOOLEAN
  BY DEF Parts, ClockOK
<1>2. /\ now \in 0..Horizon /\ lastInput \in 0..now /\ breakTime \in BreakTime
      /\ firstZero \in (0..now) \cup {NoTime} /\ mode \in {"Active", "IdleOpen"}
      /\ segments \in Seq(Segment) /\ Len(segments) <= MaxSegments
      /\ events \in Seq(Event) /\ credited \in [Days -> Nat]
      /\ lunchUsed \in 0..Allowed
  BY DEF Parts, ClockOK, RowsOK, LoopOK, EventsOK, LunchOK, Rows
<1>3. Len(segments) \in Nat
  BY <1>2, LenProperties
<1>4. current \in 0..Len(segments) /\ (current # 0 <=> mode = "IdleOpen")
  BY <1>2, <1>3 DEF Parts, LoopOK
<1>5. startedAt \in Time \cup {NoTime}
  BY <1>2 DEF Parts, LoopOK
<1>6. lunchDate \in Nat \cup {NoTime}
  BY DEF Parts, LunchOK, Days
<1> QED
  BY <1>1, <1>2, <1>4, <1>5, <1>6 DEF TypeOK

\* Every poll keeps the clock's types.
LEMMA ClockStep == ASSUME ClockOK, Poll PROVE ClockOK'
BY PollClock DEF ClockOK

\* A poll that keeps the lunch credit, or adds to it.
LEMMA LunchStep ==
    ASSUME ClockOK, LunchOK, Measure,
           \/ KeepLunch
           \/ /\ LunchCredits
              /\ lunchUsed' = UsedToday + LunchCredit
              /\ credited' = [credited EXCEPT ![Day(now')] = @ + LunchCredit]
    PROVE  /\ LunchOK' /\ Day(now') \in Days
           /\ UsedToday \in 0..Allowed /\ UsedToday =< credited[Day(now')]
           /\ \A d \in Days : credited[d] =< credited'[d]
<1>1. now' \in 0..Horizon
  BY PollClock DEF Measure
<1>2. Day(now') \in Days /\ lunchDate' = Day(now')
  BY <1>1, DayInHorizon DEF Measure
<1>3. UsedToday \in 0..Allowed /\ UsedToday =< credited[Day(now')] /\ Allowed \in Nat
  <2>1. Day(now') \in Nat /\ Allowed \in Nat /\ credited[Day(now')] \in Nat
    BY <1>1, <1>2, DayFacts, TimeAssumption, LunchAssumption DEF LunchOK
  <2>2. CASE lunchDate = Day(now')
    <3>1. lunchDate # NoTime
      BY <2>1, <2>2 DEF NoTime
    <3> QED
      BY <2>1, <2>2, <3>1 DEF UsedToday, LunchOK
  <2>3. CASE lunchDate # Day(now')
    BY <2>1, <2>3 DEF UsedToday
  <2> QED
    BY <2>1, <2>2, <2>3
<1>t. \A d \in Days : credited[d] \in Nat
  BY DEF LunchOK
<1>4. CASE KeepLunch
  <2>1. LunchOK'
    BY <1>2, <1>3, <1>4 DEF KeepLunch, LunchOK
  <2>2. \A d \in Days : credited[d] =< credited'[d]
    BY <1>4, <1>t DEF KeepLunch
  <2> QED
    BY <1>2, <1>3, <2>1, <2>2
<1>5. CASE /\ LunchCredits
           /\ lunchUsed' = UsedToday + LunchCredit
           /\ credited' = [credited EXCEPT ![Day(now')] = @ + LunchCredit]
  <2>1. PICK c \in Nat : c = LunchCredit /\ UsedToday + c \in 0..Allowed
    <3>1. PICK u \in 0..Allowed : u = UsedToday
      BY <1>3
    <3>2. LunchCredit = Smaller(Interval, Allowed - u)
      BY <3>1 DEF LunchCredit
    <3>3. /\ Smaller(Interval, Allowed - u) \in Nat
          /\ u + Smaller(Interval, Allowed - u) \in 0..Allowed
      BY <1>3, <3>1, TimeAssumption DEF Smaller
    <3> QED
      BY <3>1, <3>2, <3>3
  <2>2. credited' \in [Days -> Nat] /\ credited'[Day(now')] = credited[Day(now')] + c
    BY <1>2, <1>5, <2>1 DEF LunchOK
  <2>3. lunchUsed' \in 0..Allowed /\ lunchUsed' =< credited'[Day(now')]
    BY <1>2, <1>3, <1>5, <2>1, <2>2 DEF LunchOK
  <2>4. \A d \in Days : credited[d] =< credited'[d]
    BY <1>2, <1>5, <1>t, <2>1 DEF LunchOK
  <2>5. LunchOK'
    BY <1>2, <1>3, <2>2, <2>3 DEF LunchOK
  <2> QED
    BY <1>2, <1>3, <2>4, <2>5
<1> QED
  BY <1>4, <1>5

\* A poll that touches neither rows nor events and at most the grace period.
Quiet ==
    /\ UNCHANGED <<mode, current, startedAt, segments, events, breakTime, failed>>
    /\ firstZero' = firstZero \/ (mode = "IdleOpen" /\ firstZero' \in {NoTime, now'})

\* A quiet poll keeps rows, loop and events.
LEMMA QuietStep == ASSUME Parts, Poll, Quiet PROVE RowsOK' /\ LoopOK' /\ EventsOK'
<1>1. now \in Nat /\ now' \in Nat /\ now < now'
  BY PollClock DEF Parts
<1>2. RowsOK'
  BY <1>1 DEF Parts, Quiet, RowsOK
<1>3. LoopOK'
  <2>1. firstZero' \in (0..now') \cup {NoTime}
    BY <1>1 DEF Parts, Quiet, LoopOK
  <2> QED
    BY <2>1 DEF Parts, Quiet, LoopOK
<1>4. EventsOK'
  BY DEF Parts, Quiet, EventsOK
<1> QED
  BY <1>2, <1>3, <1>4

\* A poll that opens a segment.
LEMMA OpenStep == ASSUME Parts, PollOpen PROVE RowsOK' /\ LoopOK' /\ EventsOK'
<1> DEFINE n == Len(segments)
<1>1. Poll /\ ClockOK /\ RowsOK /\ LoopOK /\ EventsOK
  BY DEF PollOpen, Track, Measure, Parts
<1>2. n \in Nat /\ n < MaxSegments /\ now \in Nat /\ now' \in 0..Horizon /\ now < now'
  BY <1>1, PollClock, LenProperties, BoundsAssumption DEF PollOpen, RowsOK, Rows
<1>3. startedAt' \in Time
  <2>1. RawStart \in 0..now'
    BY <1>1, PollClock DEF RawStart, Idle
  <2>2. PICK raw \in 0..now' : raw = RawStart
    BY <2>1
  <2>3. EffectiveStart(raw, now') \in Time /\ raw \in Time
    BY <1>2, EffectiveStartType, LunchAssumption, TimeAssumption DEF Time
  <2> QED
    BY <2>2, <2>3 DEF PollOpen
<1>4. /\ segments' \in Rows /\ Len(segments') = n + 1
      /\ \A i \in 1..n : segments'[i] = segments[i]
      /\ segments'[n + 1] = [start |-> startedAt', end |-> NoTime, openedAt |-> now']
  <2>1. PICK start \in Time : start = startedAt'
    BY <1>3
  <2>2. PICK opened \in 0..Horizon : opened = now'
    BY <1>2
  <2>3. segments' = Append(segments, [start |-> start, end |-> NoTime, openedAt |-> opened])
    BY <2>1, <2>2 DEF PollOpen, Inserted
  <2> QED
    BY <1>1, <2>1, <2>2, <2>3, InsertedRow
<1>5. RowsOK'
  BY <1>1, <1>2, <1>4, BoundsAssumption DEF RowsOK
<1>6. LoopOK'
  BY <1>1, <1>2, <1>3, <1>4 DEF PollOpen, LoopOK
<1>7. EventsOK'
  BY <1>1, <1>2, <1>4 DEF PollOpen, EventsOK
<1> QED
  BY <1>5, <1>6, <1>7

\* A poll that closes one.
LEMMA CloseStep ==
    ASSUME Parts, PollLunchClose \/ PollClose PROVE RowsOK' /\ LoopOK' /\ EventsOK'
<1>1. /\ Poll /\ ClockOK /\ RowsOK /\ LoopOK /\ EventsOK /\ mode = "IdleOpen"
  BY DEF PollLunchClose, PollClose, IdleOpenPoll, Track, Measure, Parts
<1>2. PICK closeAt \in Time : Finalize(closeAt)
  BY <1>1, CloseTimes
<1>3. Len(segments) \in Nat /\ now \in Nat /\ now' \in Nat /\ now < now'
  BY <1>1, PollClock, LenProperties DEF RowsOK, Rows
<1>4. RowsOK'
  BY <1>1, <1>2, <1>3, Finalized DEF RowsOK
<1>5. LoopOK'
  BY <1>1, <1>2, Finalized DEF LoopOK
<1>6. current \in 1..Len(segments')
  BY <1>1, <1>2, <1>3, Finalized DEF LoopOK
<1>7. /\ events' \in Seq(Event)
      /\ \A k \in 1..Len(events') : events'[k].seg \in 1..Len(segments')
  <2>1. Len(segments') = Len(segments)
    BY <1>1, <1>2, Finalized
  <2>2. Len(events) \in Nat /\ Len(events') \in Nat
    BY <1>1, <1>2, EventsGrow, LenProperties DEF EventsOK
  <2>3. StartEvent.seg = current /\ EndEvent(closeAt).seg = current
    BY DEF StartEvent, EndEvent
  <2> QED
    BY <1>1, <1>2, <1>6, <2>1, <2>2, <2>3, EventsGrow DEF EventsOK
<1> QED
  BY <1>4, <1>5, <1>7 DEF EventsOK

\* A poll is quiet, opens a segment or closes one.
LEMMA PollKinds ==
    ASSUME Parts, Next, ~Stop, ~Start
    PROVE  /\ Poll
           /\ Quiet \/ PollOpen \/ PollLunchClose \/ PollClose
           /\ breakTime' = breakTime
           /\ ~PollLunchClose /\ ~PollClose => failed' = failed
<1>1. Poll
  BY DEF Next, PollWithoutPinPlus, PollBlocked, PollActive, PollLunch, PollOpen, PollOpenFails,
         PollLunchClose, PollAway, PollBack, PollGrace, PollClose, IdleOpenPoll, Track, Measure
<1>2. Quiet \/ PollOpen \/ PollLunchClose \/ PollClose
  <2>1. CASE PollWithoutPinPlus \/ PollBlocked
    <3>1. UNCHANGED loopState /\ UNCHANGED tables /\ UNCHANGED history
      BY <2>1 DEF PollWithoutPinPlus, PollBlocked
    <3> QED
      BY <3>1 DEF Quiet, loopState, tables, history
  <2>2. CASE PollActive \/ PollLunch \/ PollOpenFails
    <3>1. /\ UNCHANGED loopState /\ UNCHANGED tables
          /\ UNCHANGED breakTime /\ UNCHANGED failed
      BY <2>2 DEF PollActive, PollLunch, PollOpenFails, Track
    <3> QED
      BY <3>1 DEF Quiet, loopState, tables
  <2>3. CASE PollAway \/ PollBack \/ PollGrace
    <3>1. CASE PollGrace
      <4>1. /\ UNCHANGED loopState /\ UNCHANGED tables
            /\ UNCHANGED breakTime /\ UNCHANGED failed
        BY <3>1 DEF PollGrace, IdleOpenPoll, Track
      <4> QED
        BY <4>1 DEF Quiet, loopState, tables
    <3>2. CASE PollAway \/ PollBack
      <4>1. /\ UNCHANGED <<mode, current, startedAt>> /\ UNCHANGED tables
            /\ UNCHANGED breakTime /\ UNCHANGED failed
        BY <3>2 DEF PollAway, PollBack, IdleOpenPoll, Track
      <4>2. mode = "IdleOpen" /\ firstZero' \in {NoTime, now'}
        BY <3>2 DEF PollAway, PollBack, IdleOpenPoll
      <4> QED
        BY <4>1, <4>2 DEF Quiet, tables
    <3> QED
      BY <2>3, <3>1, <3>2
  <2> QED
    BY <2>1, <2>2, <2>3 DEF Next
<1>3. breakTime' = breakTime
  BY DEF Next, PollWithoutPinPlus, PollBlocked, PollActive, PollLunch, PollOpen, PollOpenFails,
         PollLunchClose, PollAway, PollBack, PollGrace, PollClose, IdleOpenPoll, Track, history
<1>4. ASSUME ~PollLunchClose, ~PollClose PROVE failed' = failed
  BY <1>4 DEF Next, PollWithoutPinPlus, PollBlocked, PollActive, PollLunch, PollOpen,
              PollOpenFails, PollAway, PollBack, PollGrace, history
<1> QED
  BY <1>1, <1>2, <1>3, <1>4

\* What a poll does to the lunch credit: no day loses any.
LEMMA PollLunchOK ==
    ASSUME Parts, Next, ~Stop, ~Start
    PROVE  LunchOK' /\ \A d \in Days : credited[d] =< credited'[d]
<1>t. ClockOK /\ LunchOK
  BY DEF Parts
<1>1. CASE PollWithoutPinPlus
  <2>1. UNCHANGED <<lunchUsed, lunchDate, credited>>
    BY <1>1 DEF PollWithoutPinPlus, lunch
  <2>2. \A d \in Days : credited[d] \in Nat
    BY <1>t DEF LunchOK
  <2> QED
    BY <1>t, <2>1, <2>2 DEF LunchOK
<1>2. CASE PollLunch
  BY <1>2, <1>t, LunchStep DEF PollLunch, Track
<1>3. CASE ~PollWithoutPinPlus /\ ~PollLunch
  <2>1. Measure /\ KeepLunch
    BY <1>3 DEF Next, PollBlocked, PollActive, PollOpen, PollOpenFails, PollLunchClose, PollAway,
                PollBack, PollGrace, PollClose, Track, IdleOpenPoll
  <2> QED
    BY <1>t, <2>1, LunchStep
<1> QED
  BY <1>1, <1>2, <1>3

\* The end and the start of the process.
LEMMA RestartParts == ASSUME Parts, Stop \/ Start \/ UNCHANGED vars PROVE Parts'
<1> USE DEF clock, loopState, lunch, tables, history
<1>1. CASE Stop
  <2>1. ClockOK'
    BY <1>1 DEF Stop, Parts, ClockOK
  <2>2. RowsOK' /\ EventsOK' /\ (breakTime \in BreakTime)'
    BY <1>1 DEF Stop, Parts, RowsOK, EventsOK
  <2>3. LoopOK'
    BY <1>1 DEF Stop, Parts, LoopOK
  <2>4. LunchOK'
    BY <1>1, LunchAssumption DEF Stop, Parts, LunchOK
  <2>5. (failed \in BOOLEAN)'
    BY <1>1 DEF Stop, Parts
  <2> QED
    BY <2>1, <2>2, <2>3, <2>4, <2>5 DEF Parts
<1>2. CASE Start \/ UNCHANGED vars
  <2>1. ClockOK'
    BY <1>2 DEF Start, vars, Parts, ClockOK
  <2>2. RowsOK' /\ EventsOK' /\ LoopOK' /\ LunchOK' /\ (breakTime \in BreakTime)'
    BY <1>2 DEF Start, vars, Parts, RowsOK, EventsOK, LoopOK, LunchOK
  <2>3. (failed \in BOOLEAN)'
    BY <1>2 DEF Start, vars, Parts
  <2> QED
    BY <2>1, <2>2, <2>3 DEF Parts
<1> QED
  BY <1>1, <1>2

\* Every step keeps the parts.
LEMMA NextParts == Parts /\ [Next]_vars => Parts'
<1> SUFFICES ASSUME Parts, [Next]_vars PROVE Parts'
  OBVIOUS
<1>1. CASE Stop \/ Start \/ UNCHANGED vars
  BY <1>1, RestartParts
<1>2. CASE Next /\ ~Stop /\ ~Start
  <2>1. Poll /\ (Quiet \/ PollOpen \/ PollLunchClose \/ PollClose)
    BY <1>2, PollKinds
  <2>2. ClockOK'
    BY <2>1, ClockStep DEF Parts
  <2>3. RowsOK' /\ LoopOK' /\ EventsOK'
    BY <2>1, QuietStep, OpenStep, CloseStep
  <2>4. LunchOK'
    BY <1>2, PollLunchOK
  <2>5. (breakTime \in BreakTime)'
    BY <1>2, PollKinds DEF Parts
  <2>6. failed' \in BOOLEAN
    <3>1. CASE PollLunchClose \/ PollClose
      BY <3>1 DEF PollLunchClose, PollClose, Finalize
    <3>2. CASE ~PollLunchClose /\ ~PollClose
      BY <1>2, <3>2, PollKinds DEF Parts
    <3> QED
      BY <3>1, <3>2
  <2> QED
    BY <2>2, <2>3, <2>4, <2>5, <2>6 DEF Parts
<1> QED
  BY <1>1, <1>2

\* A fresh start has them.
LEMMA InitParts == Init => Parts
<1> SUFFICES ASSUME Init PROVE Parts
  OBVIOUS
<1>1. ClockOK
  <2>1. up \in BOOLEAN
    BY DEF Init
  <2>2. now \in 0..Horizon /\ lastInput \in 0..now
    BY TimeAssumption DEF Init
  <2> QED
    BY <2>1, <2>2 DEF ClockOK
<1>2. RowsOK /\ EventsOK
  BY BoundsAssumption DEF Init, RowsOK, EventsOK, Rows
<1>3. LoopOK
  BY DEF Init, LoopOK
<1>4. LunchOK
  BY LunchAssumption DEF Init, LunchOK
<1>5. breakTime \in BreakTime
  BY DEF Init
<1>6. failed \in BOOLEAN
  BY DEF Init
<1> QED
  BY <1>1, <1>2, <1>3, <1>4, <1>5, <1>6 DEF Parts

\* The parts hold at every moment.
THEOREM PartsHold == Spec => []Parts
BY InitParts, NextParts, PTL DEF Spec

\* Every variable keeps its type.
THEOREM TypeCorrect == Spec => []TypeOK
BY PartsHold, PartsGiveTypes, PTL

-----------------------------------------------------------------------------
(***************************************************************************)
(* Segments do not overlap                                                 *)
(***************************************************************************)

\* Without a lunch break nothing that is recorded lies after the last input, rows
\* begin where those before them have ended, and a row is opened, and its grace
\* period begins, a threshold after its start at the earliest.
Ordered ==
    ~breakTime =>
        /\ \A i \in 1..Len(segments) :
              /\ segments[i].start =< lastInput
              /\ segments[i].start + Threshold =< segments[i].openedAt
        /\ firstZero # NoTime => startedAt + Threshold =< firstZero /\ firstZero =< lastInput
        /\ \A i \in 1..Len(segments) : IsClosed(i) =>
              /\ segments[i].start + Threshold =< segments[i].end
              /\ segments[i].end =< lastInput
              /\ \A j \in 1..Len(segments) : i < j => segments[i].end =< segments[j].start

\* The times of the rows are whole numbers.
LEMMA RowTimes ==
    ASSUME RowsOK
    PROVE  \A i \in 1..Len(segments) :
              /\ segments[i].start \in Nat /\ segments[i].end \in Int
              /\ segments[i].openedAt \in Nat
<1>1. \A i \in 1..Len(segments) : segments[i] \in Segment
  BY ElementOfSeq DEF RowsOK, Rows
<1>2. Time \subseteq Nat /\ NoTime \in Int
  BY TimeAssumption, LunchAssumption DEF Time, NoTime
<1>3. ASSUME NEW r \in Segment PROVE r.start \in Nat /\ r.end \in Int /\ r.openedAt \in Nat
  <2>1. r.start \in Time /\ r.end \in Time \cup {NoTime} /\ r.openedAt \in Time
    BY DEF Segment
  <2>2. \A t \in Time : t \in Nat /\ t \in Int
    BY <1>2
  <2>3. r.start \in Nat /\ r.openedAt \in Nat
    BY <2>1, <2>2
  <2>4. r.end \in Int
    BY <1>2, <2>1, <2>2
  <2> QED
    BY <2>3, <2>4
<1> QED
  BY <1>1, <1>3

\* A quiet poll keeps the order; the grace period begins at the last input.
LEMMA QuietOrdered ==
    ASSUME Parts, Ordered, Poll, Quiet, PollBack \/ firstZero' \in {firstZero, NoTime}
    PROVE  Ordered'
<1> SUFFICES ASSUME ~breakTime' PROVE Ordered'
  BY DEF Ordered
<1>t. ClockOK /\ RowsOK /\ LoopOK
  BY DEF Parts
<1>1. /\ lastInput \in Nat /\ lastInput' \in Nat /\ lastInput =< lastInput'
      /\ now' \in Nat /\ lastInput' =< now'
  BY <1>t, PollClock
<1>2. UNCHANGED <<segments, startedAt, mode, current, breakTime>>
  BY DEF Quiet
<1>3. /\ \A i \in 1..Len(segments) :
            /\ segments[i].start =< lastInput'
            /\ segments[i].start + Threshold =< segments[i].openedAt
      /\ \A i \in 1..Len(segments) : segments[i].end # NoTime =>
            segments[i].end =< lastInput'
  BY <1>t, <1>1, <1>2, RowTimes DEF Ordered, IsClosed
<1>4. firstZero' # NoTime =>
          startedAt' + Threshold =< firstZero' /\ firstZero' =< lastInput'
  <2>1. CASE PollBack
    <3>1. /\ mode = "IdleOpen" /\ Idle = 0 /\ firstZero' = now'
      BY <2>1 DEF PollBack, IdleOpenPoll
    <3>2. lastInput' = now'
      <4>1. now' - lastInput' = 0
        BY <3>1 DEF Idle
      <4>2. PICK a \in Nat, b \in Nat : a = now' /\ b = lastInput'
        BY <1>1
      <4>3. a - b = 0
        BY <4>1, <4>2
      <4>4. a = b
        BY <4>3
      <4> QED
        BY <4>2, <4>4
    <3>3. current \in 1..Len(segments) /\ startedAt = segments[current].start
      BY <1>t, <3>1, LenProperties DEF LoopOK, RowsOK, Rows
    <3>4. /\ segments[current].start + Threshold =< segments[current].openedAt
          /\ segments[current].openedAt \in 0..now
      BY <1>t, <1>2, <3>3 DEF Ordered, RowsOK
    <3>5. startedAt + Threshold =< now'
      BY <1>t, <3>3, <3>4, PollClock, RowTimes, TimeAssumption
    <3> QED
      BY <1>1, <1>2, <3>1, <3>2, <3>5
  <2>2. CASE firstZero' \in {firstZero, NoTime}
    <3>1. firstZero # NoTime => firstZero \in Nat
      BY <1>t DEF LoopOK, ClockOK
    <3> QED
      BY <1>1, <1>2, <2>2, <3>1 DEF Ordered
  <2> QED
    BY <2>1, <2>2
<1> QED
  BY <1>2, <1>3, <1>4 DEF Ordered, IsClosed

\* A new row begins at the last input, which is after all that is recorded.
LEMMA OpenOrdered == ASSUME Parts, Ordered, PollOpen PROVE Ordered'
<1> SUFFICES ASSUME ~breakTime' PROVE Ordered'
  BY DEF Ordered
<1> DEFINE n == Len(segments)
<1>t. ClockOK /\ RowsOK /\ LoopOK /\ Poll
  BY DEF Parts, PollOpen, Track, Measure
<1>1. lastInput \in Nat /\ lastInput' \in Nat /\ lastInput =< lastInput' /\ n \in Nat
  BY <1>t, PollClock, LenProperties DEF RowsOK, Rows
<1>2. ~breakTime
  BY DEF PollOpen, Track
<1>3. startedAt' = lastInput'
  <2>1. RawStart = lastInput'
    BY <1>t, PollClock DEF RawStart, Idle
  <2> QED
    BY <1>2, <2>1 DEF PollOpen
<1>4. /\ Len(segments') = n + 1
      /\ \A i \in 1..n : segments'[i] = segments[i]
      /\ segments'[n + 1].start = lastInput' /\ segments'[n + 1].end = NoTime
      /\ segments'[n + 1].openedAt = now'
  <2>1. segments' = Append(segments, [start |-> startedAt', end |-> NoTime, openedAt |-> now'])
    BY DEF PollOpen, Inserted
  <2>2. /\ Len(segments') = n + 1
        /\ \A i \in 1..n : segments'[i] = segments[i]
        /\ segments'[n + 1] = [start |-> startedAt', end |-> NoTime, openedAt |-> now']
    <3>1. startedAt' \in Time /\ now' \in 0..Horizon
      BY OpenStep, <1>t, PollClock DEF PollOpen, LoopOK
    <3>2. PICK start \in Time, opened \in 0..Horizon : start = startedAt' /\ opened = now'
      BY <3>1
    <3> QED
      BY <1>t, <2>1, <3>2, InsertedRow
  <2> QED
    BY <1>3, <2>2
<1>5. firstZero' = NoTime
  BY DEF PollOpen
<1>6. \A i \in 1..n : segments[i].start \in Nat /\ segments[i].end \in Int
  BY <1>t, RowTimes
<1>7. \A i \in 1..n : /\ segments'[i].start =< lastInput'
                      /\ segments'[i].start + Threshold =< segments'[i].openedAt
  BY <1>1, <1>2, <1>4, <1>6 DEF Ordered
<1>a. lastInput' + Threshold =< now'
  <2>1. now' - lastInput' >= Threshold
    BY DEF PollOpen, Idle
  <2> QED
    BY <1>t, <1>1, <2>1, PollClock, TimeAssumption
<1>8. ASSUME NEW i \in 1..n, segments[i].end # NoTime
      PROVE  /\ segments[i].start + Threshold =< segments[i].end
             /\ segments[i].end =< lastInput'
             /\ \A j \in 1..n : i < j => segments[i].end =< segments[j].start
  BY <1>1, <1>2, <1>6, <1>8 DEF Ordered, IsClosed
<1>9. ASSUME NEW i \in 1..n + 1, NEW j \in 1..n + 1, segments'[i].end # NoTime, i < j
      PROVE  segments'[i].end =< segments'[j].start
  <2>1. i \in 1..n
    BY <1>1, <1>9
  <2>2. CASE j \in 1..n
    BY <1>4, <1>8, <1>9, <2>1, <2>2
  <2>3. CASE j = n + 1
    BY <1>4, <1>8, <1>9, <2>1, <2>3
  <2> QED
    BY <1>1, <2>2, <2>3
<1>10. ASSUME NEW i \in 1..n + 1
       PROVE  /\ segments'[i].start =< lastInput'
              /\ segments'[i].start + Threshold =< segments'[i].openedAt
              /\ segments'[i].end # NoTime =>
                   /\ segments'[i].start + Threshold =< segments'[i].end
                   /\ segments'[i].end =< lastInput'
  <2>1. CASE i \in 1..n
    BY <1>4, <1>7, <1>8, <2>1
  <2>2. CASE i = n + 1
    BY <1>1, <1>4, <1>a, <2>2
  <2> QED
    BY <1>1, <2>1, <2>2
<1> QED
  BY <1>4, <1>5, <1>9, <1>10 DEF Ordered, IsClosed

\* A row is closed where its grace period began.
LEMMA CloseOrdered == ASSUME Parts, Ordered, PollLunchClose \/ PollClose PROVE Ordered'
<1> SUFFICES ASSUME ~breakTime' PROVE Ordered'
  BY DEF Ordered
<1> DEFINE n == Len(segments)
<1>t. ClockOK /\ RowsOK /\ LoopOK /\ Poll
  BY DEF Parts, PollLunchClose, PollClose, IdleOpenPoll, Track, Measure
<1>1. lastInput \in Nat /\ lastInput' \in Nat /\ lastInput =< lastInput' /\ n \in Nat
  BY <1>t, PollClock, LenProperties DEF RowsOK, Rows
<1>2. ~breakTime /\ PollClose /\ mode = "IdleOpen" /\ firstZero # NoTime
  BY DEF PollLunchClose, PollClose, IdleOpenPoll, Track
<1>3. PICK closeAt \in Time : Finalize(closeAt) /\ closeAt = firstZero
  BY <1>t, <1>2, CloseTimes
<1>4. /\ Len(segments') = n /\ firstZero' = NoTime
      /\ \A i \in 1..n : /\ segments'[i].start = segments[i].start
                         /\ segments'[i].openedAt = segments[i].openedAt
                         /\ i # current => segments'[i].end = segments[i].end
                         /\ segments'[i].end \in {segments[i].end, closeAt}
  BY <1>t, <1>2, <1>3, Finalized
<1>5. current = n /\ startedAt = segments[current].start /\ segments[current].end = NoTime
  BY <1>t, <1>2 DEF LoopOK
<1>6. startedAt + Threshold =< closeAt /\ closeAt =< lastInput
  BY <1>2, <1>3 DEF Ordered
<1>7. \A i \in 1..n : segments[i].start \in Nat /\ segments[i].end \in Int
  BY <1>t, RowTimes
<1>8. closeAt \in Nat
  BY TimeAssumption, LunchAssumption DEF Time
<1>9. ASSUME NEW i \in 1..n, segments'[i].end # NoTime
      PROVE  /\ segments'[i].start + Threshold =< segments'[i].end
             /\ segments'[i].end =< lastInput'
             /\ \A j \in 1..n : i < j => segments'[i].end =< segments'[j].start
  <2>1. CASE i = current
    <3>1. segments'[i].end = closeAt
      BY <1>4, <1>5, <1>9, <2>1
    <3>2. \A j \in 1..n : ~(i < j)
      BY <1>1, <1>5, <2>1
    <3> QED
      BY <1>1, <1>4, <1>5, <1>6, <1>8, <2>1, <3>1, <3>2
  <2>2. CASE i # current
    BY <1>1, <1>2, <1>4, <1>7, <1>9, <2>2 DEF Ordered, IsClosed
  <2> QED
    BY <2>1, <2>2
<1>10. \A i \in 1..n : /\ segments'[i].start =< lastInput'
                       /\ segments'[i].start + Threshold =< segments'[i].openedAt
  BY <1>1, <1>2, <1>4, <1>7 DEF Ordered
<1> QED
  BY <1>4, <1>9, <1>10 DEF Ordered, IsClosed

\* Every step keeps the order.
LEMMA NextOrdered == Parts /\ Ordered /\ [Next]_vars => Ordered'
<1> SUFFICES ASSUME Parts, Ordered, [Next]_vars PROVE Ordered'
  OBVIOUS
<1>1. CASE Stop \/ Start \/ UNCHANGED vars
  <2>1. UNCHANGED <<segments, lastInput, breakTime>>
    BY <1>1 DEF Stop, Start, vars, clock, tables, history
  <2>2. firstZero' = NoTime \/ UNCHANGED <<firstZero, startedAt>>
    BY <1>1 DEF Stop, Start, vars, loopState
  <2> QED
    BY <2>1, <2>2 DEF Ordered, IsClosed
<1>2. CASE Next /\ ~Stop /\ ~Start
  <2>1. CASE Quiet
    <3>1. PollBack \/ firstZero' \in {firstZero, NoTime}
      BY <1>2, <2>1
         DEF Next, PollWithoutPinPlus, PollBlocked, PollActive, PollLunch, PollOpen,
             PollOpenFails, PollLunchClose, PollAway, PollGrace, PollClose, Finalize, loopState
    <3> QED
      BY <1>2, <2>1, <3>1, PollKinds, QuietOrdered
  <2>2. CASE PollOpen
    BY <2>2, OpenOrdered
  <2>3. CASE PollLunchClose \/ PollClose
    BY <2>3, CloseOrdered
  <2> QED
    BY <1>2, <2>1, <2>2, <2>3, PollKinds
<1> QED
  BY <1>1, <1>2

\* Without a lunch break no moment is counted as two absences and none is recorded
\* that is shorter than the threshold.
THEOREM NoOverlap == Spec => []SegmentsDisjoint
<1>1. Init => Ordered
  BY DEF Init, Ordered
<1>2. Parts /\ Ordered => SegmentsDisjoint
  <2> SUFFICES ASSUME Parts, Ordered PROVE SegmentsDisjoint
    OBVIOUS
  <2>1. DOMAIN segments = 1..Len(segments)
    BY LenProperties DEF Parts, RowsOK, Rows
  <2> QED
    BY <2>1 DEF Ordered, SegmentsDisjoint
<1> QED
  BY <1>1, <1>2, NextOrdered, PartsHold, PTL DEF Spec

-----------------------------------------------------------------------------
(***************************************************************************)
(* The lunch allowance comes first                                         *)
(***************************************************************************)

\* A moment in a window has its day's allowance credited.
UsedUp(t, credit) == InWindow(t) => credit[Day(t)] >= Allowed

CreditedFirst ==
    breakTime => \A i \in 1..Len(segments) : UsedUp(segments[i].openedAt, credited)

\* More credit keeps a moment's day used up.
LEMMA UsedUpStays ==
    ASSUME NEW t \in 0..Horizon, NEW c, NEW d,
           \A day \in Days : c[day] \in Nat /\ d[day] \in Nat /\ c[day] =< d[day],
           UsedUp(t, c)
    PROVE  UsedUp(t, d)
<1>1. Day(t) \in Days /\ Allowed \in Nat
  BY DayInHorizon, LunchAssumption
<1> QED
  BY <1>1 DEF UsedUp

\* Every step keeps the days of the windows that rows were opened in used up.
LEMMA NextCredited == Parts /\ CreditedFirst /\ [Next]_vars => CreditedFirst'
<1> SUFFICES ASSUME Parts, CreditedFirst, [Next]_vars PROVE CreditedFirst'
  OBVIOUS
<1> DEFINE n == Len(segments)
<1>t. ClockOK /\ RowsOK /\ LoopOK /\ LunchOK
  BY DEF Parts
<1>1. CASE Stop \/ Start \/ UNCHANGED vars
  <2>1. UNCHANGED <<segments, credited, breakTime>>
    BY <1>1 DEF Stop, Start, vars, lunch, tables, history
  <2> QED
    BY <2>1 DEF CreditedFirst
<1>2. CASE Next /\ ~Stop /\ ~Start
  <2> SUFFICES ASSUME breakTime' PROVE \A i \in 1..Len(segments') :
                                          UsedUp(segments'[i].openedAt, credited')
    BY DEF CreditedFirst
  <2>1. Poll /\ breakTime' = breakTime /\ (Quiet \/ PollOpen \/ PollLunchClose \/ PollClose)
    BY <1>2, PollKinds
  <2>2. LunchOK' /\ \A d \in Days : credited[d] =< credited'[d]
    BY <1>2, PollLunchOK
  <2>3. \A d \in Days : credited[d] \in Nat /\ credited'[d] \in Nat
    BY <1>t, <2>2 DEF LunchOK
  <2>4. \A i \in 1..n : segments[i].openedAt \in 0..Horizon
    BY <1>t, TimeAssumption DEF RowsOK, ClockOK
  <2>5. \A i \in 1..n : UsedUp(segments[i].openedAt, credited')
    BY <2>1, <2>2, <2>3, <2>4, UsedUpStays DEF CreditedFirst
  <2>6. CASE Quiet
    BY <2>5, <2>6 DEF Quiet
  <2>7. CASE PollLunchClose \/ PollClose
    <3>1. mode = "IdleOpen"
      BY <2>7 DEF PollLunchClose, PollClose, IdleOpenPoll
    <3>2. PICK closeAt \in Time : Finalize(closeAt)
      BY <1>t, <2>7, CloseTimes
    <3>3. Len(segments') = n /\ \A i \in 1..n : segments'[i].openedAt = segments[i].openedAt
      BY <1>t, <3>1, <3>2, Finalized
    <3> QED
      BY <2>5, <3>3
  <2>8. CASE PollOpen
    <3>1. PICK start \in Time, opened \in 0..Horizon : start = startedAt' /\ opened = now'
      BY <1>t, <2>1, <2>8, OpenStep, PollClock DEF PollOpen, LoopOK
    <3>2. segments' = Append(segments, [start |-> start, end |-> NoTime, openedAt |-> opened])
      BY <2>8, <3>1 DEF PollOpen, Inserted
    <3>3. /\ Len(segments') = n + 1
          /\ \A i \in 1..n : segments'[i] = segments[i]
          /\ segments'[n + 1].openedAt = opened
      <4>1. segments'[n + 1] = [start |-> start, end |-> NoTime, openedAt |-> opened]
        BY <1>t, <3>2, InsertedRow
      <4> QED
        BY <1>t, <3>2, <4>1, InsertedRow
    <3>4. UsedUp(opened, credited')
      <4>1. Measure /\ KeepLunch /\ ~LunchCredits /\ breakTime
        BY <2>1, <2>8 DEF PollOpen, Track
      <4>2. UsedToday \in 0..Allowed /\ UsedToday =< credited[Day(opened)] /\ Day(opened) \in Days
        BY <1>t, <3>1, <4>1, LunchStep
      <4>3. InWindow(opened) => ~(UsedToday < Allowed)
        BY <3>1, <4>1 DEF LunchCredits
      <4>4. credited' = credited
        BY <4>1 DEF KeepLunch
      <4> QED
        BY <2>3, <4>2, <4>3, <4>4, LunchAssumption DEF UsedUp
    <3>5. n \in Nat
      BY <1>t, LenProperties DEF RowsOK, Rows
    <3>6. ASSUME NEW i \in 1..n + 1 PROVE UsedUp(segments'[i].openedAt, credited')
      <4>1. CASE i \in 1..n
        BY <2>5, <3>3, <4>1
      <4>2. CASE i = n + 1
        BY <3>3, <3>4, <4>2
      <4> QED
        BY <3>5, <4>1, <4>2
    <3> QED
      BY <3>3, <3>6
  <2> QED
    BY <2>1, <2>6, <2>7, <2>8
<1> QED
  BY <1>1, <1>2

\* No segment opens inside a window before its day has credited the allowance.
THEOREM LunchFirst == Spec => []AllowanceFirst
<1>1. Init => CreditedFirst
  BY DEF Init, CreditedFirst
<1>2. Parts /\ CreditedFirst => AllowanceFirst
  <2> SUFFICES ASSUME Parts, CreditedFirst PROVE AllowanceFirst
    OBVIOUS
  <2>1. DOMAIN segments = 1..Len(segments)
    BY LenProperties DEF Parts, RowsOK, Rows
  <2> QED
    BY <2>1 DEF CreditedFirst, UsedUp, AllowanceFirst
<1> QED
  BY <1>1, <1>2, NextCredited, PartsHold, PTL DEF Spec

-----------------------------------------------------------------------------
(***************************************************************************)
(* What is reported agrees with the rows                                   *)
(***************************************************************************)

\* The event at an odd place starts a segment, the next one ends it.
Paired(k, rows, log) ==
    IF k % 2 = 1
    THEN /\ log[k].type = "IDLE_STARTED" /\ log[k].at = rows[log[k].seg].start
         /\ k + 1 \in 1..Len(log) /\ log[k + 1].seg = log[k].seg
    ELSE log[k].type = "IDLE_ENDED" /\ log[k].at = rows[log[k].seg].end

\* The events about a row: none, or one pair.
About(i, log) == {k \in 1..Len(log) : log[k].seg = i}
NoneAbout(i, log) == \A k \in 1..Len(log) : log[k].seg # i
PairAbout(i, log) ==
    \E p \in 1..Len(log) :
        p + 1 \in 1..Len(log) /\ \A k \in 1..Len(log) : log[k].seg = i <=> k = p \/ k = p + 1

Matched ==
    ~failed =>
        /\ Len(events) % 2 = 0
        /\ \A k \in 1..Len(events) : Paired(k, segments, events)
        /\ \A i \in 1..Len(segments) :
              IF IsClosed(i) THEN PairAbout(i, events) ELSE NoneAbout(i, events)

\* Joining a sequence of one.
LEMMA JoinOne ==
    ASSUME NEW S, NEW s \in Seq(S), NEW x \in Seq(S), Len(x) = 1
    PROVE  /\ s \o x \in Seq(S) /\ Len(s \o x) = Len(s) + 1
           /\ \A k \in 1..Len(s) : (s \o x)[k] = s[k]
           /\ (s \o x)[Len(s) + 1] = x[1]
<1>1. Len(s) \in Nat
  BY LenProperties
<1>2. /\ s \o x \in Seq(S) /\ Len(s \o x) = Len(s) + Len(x)
      /\ \A i \in 1 .. Len(s) + Len(x) :
            (s \o x)[i] = IF i <= Len(s) THEN s[i] ELSE x[i - Len(s)]
  BY ConcatProperties
<1>3. \A k \in 1..Len(s) : (s \o x)[k] = s[k]
  BY <1>1, <1>2
<1>4. (s \o x)[Len(s) + 1] = x[1]
  <2>1. /\ Len(s) + 1 \in 1 .. Len(s) + Len(x) /\ ~(Len(s) + 1 <= Len(s))
        /\ Len(s) + 1 - Len(s) = 1
    BY <1>1
  <2> QED
    BY <1>2, <2>1
<1> QED
  BY <1>2, <1>3, <1>4

\* When no statement of a closing segment fails, the row is closed and its pair
\* of events is appended.
LEMMA CleanClose ==
    ASSUME RowsOK, LoopOK, EventsOK, mode = "IdleOpen",
           NEW closeAt \in Time, Finalize(closeAt), ~failed'
    PROVE  /\ ~failed /\ segments' = RowClosed(closeAt)
           /\ Len(events') = Len(events) + 2
           /\ \A k \in 1..Len(events) : events'[k] = events[k]
           /\ events'[Len(events) + 1] = StartEvent
           /\ events'[Len(events) + 2] = EndEvent(closeAt)
<1> DEFINE both == SegmentEvents(current, startedAt, closeAt)
           n == Len(events)
<1>1. /\ ~failed /\ segments' = RowClosed(closeAt)
      /\ events' = (events \o SubSeq(both, 1, 1)) \o SubSeq(both, 2, Len(both))
  BY BoundsAssumption DEF Finalize
<1>2. /\ both \in Seq(Event) /\ Len(both) = 2
      /\ both[1] = StartEvent /\ both[2] = EndEvent(closeAt)
  BY BothEvents
<1>3. /\ SubSeq(both, 1, 1) \in Seq(Event) /\ Len(SubSeq(both, 1, 1)) = 1
      /\ SubSeq(both, 1, 1)[1] = both[1]
  BY OneEvent
<1>4. /\ SubSeq(both, 2, Len(both)) \in Seq(Event) /\ Len(SubSeq(both, 2, Len(both))) = 1
      /\ SubSeq(both, 2, Len(both))[1] = both[2]
  BY <1>2, OneEvent
<1> DEFINE x == SubSeq(both, 1, 1)
           y == SubSeq(both, 2, Len(both))
<1>5. n \in Nat
  BY LenProperties DEF EventsOK
<1>6. events' = (events \o x) \o y
  BY <1>1
<1>7. x \in Seq(Event) /\ Len(x) = 1 /\ x[1] = both[1]
  BY <1>3
<1>8. y \in Seq(Event) /\ Len(y) = 1 /\ y[1] = both[2]
  BY <1>4
<1> HIDE DEF x, y, both
<1>9. /\ events \o x \in Seq(Event) /\ Len(events \o x) = n + 1
      /\ \A k \in 1..n : (events \o x)[k] = events[k]
      /\ (events \o x)[n + 1] = x[1]
  BY <1>7, JoinOne DEF EventsOK
<1>10. /\ Len(events') = n + 2
       /\ \A k \in 1..n : events'[k] = events[k]
       /\ events'[n + 1] = x[1] /\ events'[n + 2] = y[1]
  <2>1. /\ Len(events') = Len(events \o x) + 1
        /\ \A k \in 1..Len(events \o x) : events'[k] = (events \o x)[k]
        /\ events'[Len(events \o x) + 1] = y[1]
    BY <1>6, <1>8, <1>9, JoinOne
  <2>2. n + 1 + 1 = n + 2 /\ 1..n \subseteq 1..n + 1 /\ n + 1 \in 1..n + 1
    BY <1>5
  <2> QED
    BY <1>9, <2>1, <2>2
<1> QED
  BY <1>1, <1>2, <1>7, <1>8, <1>10

\* A poll that closes a segment without a failure keeps log and rows matched.
LEMMA CloseMatched == ASSUME Parts, Matched, PollLunchClose \/ PollClose PROVE Matched'
<1> SUFFICES ASSUME ~failed' PROVE Matched'
  BY DEF Matched
<1> DEFINE n == Len(segments)
           m == Len(events)
<1>t. ClockOK /\ RowsOK /\ LoopOK /\ EventsOK /\ mode = "IdleOpen"
  BY DEF Parts, PollLunchClose, PollClose, IdleOpenPoll
<1>1. PICK closeAt \in Time : Finalize(closeAt)
  BY <1>t, CloseTimes
<1>2. /\ ~failed /\ segments' = RowClosed(closeAt)
      /\ Len(events') = m + 2
      /\ \A k \in 1..m : events'[k] = events[k]
      /\ events'[m + 1] = StartEvent /\ events'[m + 2] = EndEvent(closeAt)
  BY <1>t, <1>1, CleanClose
<1>3. /\ Len(segments') = n
      /\ \A i \in 1..n :
            /\ segments'[i].start = segments[i].start
            /\ segments'[i].end = IF i = current THEN closeAt ELSE segments[i].end
  BY <1>t, <1>2, ClosedRow
<1>4. n \in Nat /\ m \in Nat /\ current \in 1..n
  BY <1>t, LenProperties DEF RowsOK, LoopOK, EventsOK, Rows
<1>5. /\ m % 2 = 0
      /\ \A k \in 1..m : Paired(k, segments, events)
      /\ \A i \in 1..n : IF segments[i].end # NoTime
                           THEN PairAbout(i, events) ELSE NoneAbout(i, events)
  BY <1>2 DEF Matched, IsClosed
<1>6. NoneAbout(current, events)
  BY <1>t, <1>4, <1>5 DEF LoopOK
<1>7. closeAt # NoTime /\ startedAt = segments[current].start
  BY <1>t, TimeAssumption, LunchAssumption DEF Time, NoTime, LoopOK
<1>8. events'[m + 1].type = "IDLE_STARTED" /\ events'[m + 1].seg = current
      /\ events'[m + 1].at = startedAt
      /\ events'[m + 2].type = "IDLE_ENDED" /\ events'[m + 2].seg = current
      /\ events'[m + 2].at = closeAt
  BY <1>2 DEF StartEvent, EndEvent
<1>9. ASSUME NEW k \in 1..m + 2 PROVE Paired(k, segments', events')
  <2>1. CASE k \in 1..m
    <3>1. events[k].seg \in 1..n /\ events[k].seg # current
      BY <1>t, <1>6, <2>1 DEF EventsOK, NoneAbout
    <3>2. Paired(k, segments, events) /\ events'[k] = events[k]
      BY <1>2, <1>5, <2>1
    <3>3. CASE k % 2 = 1
      <4>1. k + 1 \in 1..m /\ events'[k + 1] = events[k + 1]
        BY <1>2, <3>2, <3>3 DEF Paired
      <4>2. k + 1 \in 1..Len(events')
        BY <1>2, <1>4, <2>1, <4>1
      <4> QED
        BY <1>3, <3>1, <3>2, <3>3, <4>1, <4>2 DEF Paired
    <3>4. CASE k % 2 # 1
      BY <1>3, <3>1, <3>2, <3>4 DEF Paired
    <3> QED
      BY <3>3, <3>4
  <2>2. CASE k = m + 1
    <3>1. k % 2 = 1 /\ k + 1 \in 1..Len(events') /\ k + 1 = m + 2
      BY <1>2, <1>4, <1>5, <2>2
    <3> QED
      BY <1>3, <1>4, <1>7, <1>8, <2>2, <3>1 DEF Paired
  <2>3. CASE k = m + 2
    <3>1. k % 2 # 1
      BY <1>4, <1>5, <2>3
    <3> QED
      BY <1>3, <1>4, <1>8, <2>3, <3>1 DEF Paired
  <2> QED
    BY <1>4, <2>1, <2>2, <2>3
<1>10. ASSUME NEW i \in 1..n
       PROVE  IF segments'[i].end # NoTime THEN PairAbout(i, events') ELSE NoneAbout(i, events')
  <2>1. CASE i = current
    <3>1. segments'[i].end # NoTime
      BY <1>3, <1>7, <2>1
    <3>2. \A k \in 1..m + 2 : events'[k].seg = i <=> k = m + 1 \/ k = m + 1 + 1
      <4>1. \A k \in 1..m : events'[k].seg # i
        BY <1>2, <1>6, <2>1 DEF NoneAbout
      <4>2. m + 1 + 1 = m + 2
        BY <1>4
      <4> QED
        BY <1>4, <1>8, <2>1, <4>1, <4>2
    <3>3. m + 1 \in 1..m + 2 /\ m + 1 + 1 \in 1..m + 2
      BY <1>4
    <3> QED
      BY <1>2, <3>1, <3>2, <3>3 DEF PairAbout
  <2>2. CASE i # current /\ segments[i].end # NoTime
    <3>1. PICK p \in 1..m : p + 1 \in 1..m /\ \A k \in 1..m :
                               events[k].seg = i <=> k = p \/ k = p + 1
      BY <1>5, <2>2 DEF PairAbout
    <3>2. ASSUME NEW k \in 1..m + 2 PROVE events'[k].seg = i <=> k = p \/ k = p + 1
      <4>1. CASE k \in 1..m
        BY <1>2, <3>1, <4>1
      <4>2. CASE k = m + 1 \/ k = m + 2
        BY <1>4, <1>8, <2>2, <3>1, <4>2
      <4> QED
        BY <1>4, <4>1, <4>2
    <3>3. p \in 1..m + 2 /\ p + 1 \in 1..m + 2
      BY <1>4, <3>1
    <3>4. PairAbout(i, events')
      BY <1>2, <3>2, <3>3 DEF PairAbout
    <3> QED
      BY <1>3, <2>2, <3>4
  <2>3. CASE i # current /\ segments[i].end = NoTime
    <3>1. ASSUME NEW k \in 1..m + 2 PROVE events'[k].seg # i
      <4>1. CASE k \in 1..m
        BY <1>2, <1>5, <2>3, <4>1 DEF NoneAbout
      <4>2. CASE k = m + 1 \/ k = m + 2
        BY <1>8, <2>3, <4>2
      <4> QED
        BY <1>4, <4>1, <4>2
    <3> QED
      BY <1>2, <1>3, <2>3, <3>1 DEF NoneAbout
  <2> QED
    BY <2>1, <2>2, <2>3
<1>11. Len(events') % 2 = 0
  BY <1>2, <1>4, <1>5
<1> QED
  BY <1>2, <1>3, <1>9, <1>10, <1>11 DEF Matched, IsClosed

\* Every step keeps log and rows matched.
LEMMA NextMatched == Parts /\ Matched /\ [Next]_vars => Matched'
<1> SUFFICES ASSUME Parts, Matched, [Next]_vars PROVE Matched'
  OBVIOUS
<1> DEFINE n == Len(segments)
           m == Len(events)
<1>t. ClockOK /\ RowsOK /\ LoopOK /\ EventsOK /\ n \in Nat /\ m \in Nat
  BY LenProperties DEF Parts, RowsOK, EventsOK, Rows
<1>1. CASE Stop \/ Start \/ UNCHANGED vars
  <2>1. UNCHANGED <<segments, events, failed>>
    BY <1>1 DEF Stop, Start, vars, tables, history
  <2> QED
    BY <2>1 DEF Matched, Paired, IsClosed, PairAbout, NoneAbout
<1>2. CASE Next /\ ~Stop /\ ~Start
  <2>1. Poll /\ (Quiet \/ PollOpen \/ PollLunchClose \/ PollClose)
    BY <1>2, PollKinds
  <2>2. CASE Quiet
    <3>1. UNCHANGED <<segments, events, failed>>
      BY <2>2 DEF Quiet
    <3> QED
      BY <3>1 DEF Matched, Paired, IsClosed, PairAbout, NoneAbout
  <2>3. CASE PollLunchClose \/ PollClose
    BY <2>3, CloseMatched
  <2>4. CASE PollOpen
    <3> SUFFICES ASSUME ~failed' PROVE Matched'
      BY DEF Matched
    <3>1. PICK start \in Time, opened \in 0..Horizon : start = startedAt' /\ opened = now'
      BY <1>t, <2>1, <2>4, OpenStep, PollClock DEF PollOpen, LoopOK
    <3>2. segments' = Append(segments, [start |-> start, end |-> NoTime, openedAt |-> opened])
      BY <2>4, <3>1 DEF PollOpen, Inserted
    <3>3. /\ Len(segments') = n + 1
          /\ \A i \in 1..n : segments'[i] = segments[i]
          /\ segments'[n + 1].end = NoTime
      <4>1. segments'[n + 1] = [start |-> start, end |-> NoTime, openedAt |-> opened]
        BY <1>t, <3>2, InsertedRow
      <4> QED
        BY <1>t, <3>2, <4>1, InsertedRow
    <3>4. events' = events /\ ~failed
      BY <2>4 DEF PollOpen
    <3>5. /\ m % 2 = 0
          /\ \A k \in 1..m : Paired(k, segments, events)
          /\ \A i \in 1..n : IF segments[i].end # NoTime
                               THEN PairAbout(i, events) ELSE NoneAbout(i, events)
      BY <3>4 DEF Matched, IsClosed
    <3>6. \A k \in 1..m : events[k].seg \in 1..n
      BY <1>t DEF EventsOK
    <3>7. \A k \in 1..m : Paired(k, segments', events')
      BY <3>3, <3>4, <3>5, <3>6 DEF Paired
    <3>8. ASSUME NEW i \in 1..n + 1
          PROVE  IF segments'[i].end # NoTime THEN PairAbout(i, events') ELSE NoneAbout(i, events')
      <4>1. CASE i \in 1..n
        BY <3>3, <3>4, <3>5, <4>1
      <4>2. CASE i = n + 1
        <5>1. ~(n + 1 \in 1..n)
          BY <1>t
        <5>2. NoneAbout(i, events')
          BY <3>4, <3>6, <4>2, <5>1 DEF NoneAbout
        <5> QED
          BY <3>3, <4>2, <5>2
      <4> QED
        BY <1>t, <4>1, <4>2
    <3> QED
      BY <3>3, <3>4, <3>5, <3>7, <3>8 DEF Matched, IsClosed
  <2> QED
    BY <2>1, <2>2, <2>3, <2>4
<1> QED
  BY <1>1, <1>2

\* A row that one pair of events is about has two, a row without any none.
LEMMA CountAbout ==
    ASSUME EventsOK, NEW i
    PROVE  /\ PairAbout(i, events) => Cardinality(About(i, events)) = 2
           /\ NoneAbout(i, events) => Cardinality(About(i, events)) = 0
<1>1. Len(events) \in Nat
  BY LenProperties DEF EventsOK
<1>2. 1 + 1 = 2
  OBVIOUS
<1>3. ASSUME NoneAbout(i, events) PROVE Cardinality(About(i, events)) = 0
  <2>1. About(i, events) = {}
    BY <1>3 DEF NoneAbout, About
  <2> QED
    BY <2>1, FS_EmptySet
<1>4. ASSUME PairAbout(i, events) PROVE Cardinality(About(i, events)) = 2
  <2>1. PICK p \in 1..Len(events) :
            p + 1 \in 1..Len(events) /\ \A k \in 1..Len(events) :
                events[k].seg = i <=> k = p \/ k = p + 1
    BY <1>4 DEF PairAbout
  <2>2. About(i, events) = {p, p + 1}
    BY <2>1 DEF About
  <2>3. p \in Nat /\ p + 1 # p
    BY <1>1
  <2>4. {p, p + 1} = {p} \cup {p + 1} /\ p + 1 \notin {p}
    BY <2>3
  <2>5. IsFiniteSet({p}) /\ Cardinality({p}) = 1
    BY FS_Singleton
  <2>6. Cardinality({p} \cup {p + 1}) = 2
    <3>1. Cardinality({p} \cup {p + 1}) = 1 + 1
      BY <2>4, <2>5, FS_AddElement
    <3> QED
      BY <1>2, <3>1, Zenon
  <2>7. About(i, events) = {p} \cup {p + 1}
    BY <2>2, <2>4
  <2> QED
    BY <2>6, <2>7, Zenon
<1> QED
  BY <1>3, <1>4

\* Whatever is said of a segment by two events of the log, and by its row.
Reported ==
    \A k \in 1..Len(events) :
        /\ events[k].seg # current
        /\ IF events[k].type = "IDLE_STARTED" THEN events[k].at = segments[events[k].seg].start
           ELSE segments[events[k].seg].end \in {NoTime, events[k].at}
        /\ \A j \in 1..Len(events) : j < k => InTurn(events[j], events[k])

\* A step that changes no row an event is about and appends none keeps it.
LEMMA ReportedStays ==
    ASSUME EventsOK, Reported, UNCHANGED events,
           \A i \in 1..Len(segments) :
                /\ segments'[i].start = segments[i].start
                /\ segments'[i].end = segments[i].end,
           current' = current \/ current' \notin 1..Len(segments)
    PROVE  Reported'
BY DEF EventsOK, Reported, InTurn

\* A close, whatever statement fails, appends what is said of its own row only.
LEMMA CloseReported ==
    ASSUME Parts, Reported, PollLunchClose \/ PollClose PROVE Reported'
<1> DEFINE m == Len(events)
<1>t. ClockOK /\ RowsOK /\ LoopOK /\ EventsOK /\ mode = "IdleOpen"
  BY DEF Parts, PollLunchClose, PollClose, IdleOpenPoll
<1>1. PICK closeAt \in Time : Finalize(closeAt)
  BY <1>t, CloseTimes
<1>2. m \in Nat /\ Len(segments) \in Nat /\ current = Len(segments) /\ current # 0
  BY <1>t, LenProperties DEF RowsOK, LoopOK, EventsOK, Rows
<1>3. /\ current' = 0
      /\ \A i \in 1..Len(segments) :
           /\ segments'[i].start = segments[i].start
           /\ i # current => segments'[i].end = segments[i].end
           /\ segments'[i].end \in {segments[i].end, closeAt}
  BY <1>t, <1>1, Finalized
<1>4. /\ events' \in Seq(Event) /\ m =< Len(events')
      /\ \A k \in 1..Len(events') :
           IF k =< m THEN events'[k] = events[k]
           ELSE events'[k] \in {StartEvent, EndEvent(closeAt)}
      /\ \A j, k \in 1..Len(events') :
           m < j /\ j < k => events'[j] = StartEvent /\ events'[k] = EndEvent(closeAt)
  BY <1>t, <1>1, EventsGrow
<1>5. Len(events') \in Nat
  BY <1>4, LenProperties
<1>6. ASSUME NEW k \in 1..m
      PROVE  events[k].seg \in 1..Len(segments) /\ events[k].seg < current
  BY <1>t, <1>2, <1>6 DEF EventsOK, Reported
<1>7. /\ StartEvent.seg = current /\ StartEvent.type = "IDLE_STARTED"
      /\ StartEvent.at = segments[current].start
      /\ EndEvent(closeAt).seg = current /\ EndEvent(closeAt).type = "IDLE_ENDED"
      /\ EndEvent(closeAt).at = closeAt /\ segments[current].end = NoTime
  BY <1>t DEF StartEvent, EndEvent, LoopOK
<1>8. ASSUME NEW k \in 1..Len(events'), k =< m
      PROVE  /\ events'[k].seg # current'
             /\ IF events'[k].type = "IDLE_STARTED"
                THEN events'[k].at = segments'[events'[k].seg].start
                ELSE segments'[events'[k].seg].end \in {NoTime, events'[k].at}
             /\ \A j \in 1..Len(events') : j < k => InTurn(events'[j], events'[k])
  <2>1. k \in 1..m /\ events'[k] = events[k]
    BY <1>2, <1>4, <1>5, <1>8
  <2>2. \A j \in 1..Len(events') : j < k => j \in 1..m /\ events'[j] = events[j]
    BY <1>2, <1>4, <1>5, <2>1
  <2>3. events[k].seg \in 1..Len(segments) /\ events[k].seg # current /\ events[k].seg # 0
    BY <1>2, <1>6, <2>1
  <2> QED
    BY <1>3, <2>1, <2>2, <2>3 DEF Reported
<1>9. ASSUME NEW k \in 1..Len(events'), ~(k =< m)
      PROVE  /\ events'[k].seg # current'
             /\ IF events'[k].type = "IDLE_STARTED"
                THEN events'[k].at = segments'[events'[k].seg].start
                ELSE segments'[events'[k].seg].end \in {NoTime, events'[k].at}
             /\ \A j \in 1..Len(events') : j < k => InTurn(events'[j], events'[k])
  <2>1. events'[k] \in {StartEvent, EndEvent(closeAt)} /\ current \in 1..Len(segments)
    BY <1>2, <1>4, <1>9
  <2>2. ASSUME NEW j \in 1..Len(events'), j < k PROVE InTurn(events'[j], events'[k])
    <3>1. CASE j =< m
      <4>1. j \in 1..m /\ events'[j] = events[j]
        BY <1>2, <1>4, <1>5, <3>1
      <4> QED
        BY <1>6, <1>7, <2>1, <4>1 DEF InTurn
    <3>2. CASE m < j
      BY <1>4, <1>7, <2>2, <3>2 DEF InTurn
    <3> QED
      BY <1>2, <1>5, <3>1, <3>2
  <2> QED
    BY <1>2, <1>3, <1>7, <2>1, <2>2
<1> QED
  BY <1>8, <1>9 DEF Reported

\* Every step keeps what is said of a segment true and said once.
LEMMA NextReported == Parts /\ Reported /\ [Next]_vars => Reported'
<1> SUFFICES ASSUME Parts, Reported, [Next]_vars PROVE Reported'
  OBVIOUS
<1>t. ClockOK /\ RowsOK /\ LoopOK /\ EventsOK /\ Len(segments) \in Nat
  BY LenProperties DEF Parts, RowsOK, Rows
<1>1. CASE Stop \/ Start \/ UNCHANGED vars
  <2>1. UNCHANGED <<segments, events>> /\ current' \in {0, current}
    BY <1>1 DEF Stop, Start, vars, tables, loopState
  <2> QED
    BY <1>t, <2>1, ReportedStays
<1>2. CASE Next /\ ~Stop /\ ~Start
  <2>1. Poll /\ (Quiet \/ PollOpen \/ PollLunchClose \/ PollClose)
    BY <1>2, PollKinds
  <2>2. CASE Quiet
    BY <1>t, <2>2, ReportedStays DEF Quiet
  <2>3. CASE PollLunchClose \/ PollClose
    BY <2>3, CloseReported
  <2>4. CASE PollOpen
    <3>1. PICK start \in Time, opened \in 0..Horizon : start = startedAt' /\ opened = now'
      BY <1>t, <2>1, <2>4, OpenStep, PollClock DEF PollOpen, LoopOK
    <3>2. segments' = Append(segments, [start |-> start, end |-> NoTime, openedAt |-> opened])
      BY <2>4, <3>1 DEF PollOpen, Inserted
    <3>3. /\ Len(segments') = Len(segments) + 1
          /\ \A i \in 1..Len(segments) : segments'[i] = segments[i]
      BY <1>t, <3>2, InsertedRow
    <3>4. events' = events /\ current' = Len(segments')
      BY <2>4 DEF PollOpen
    <3>5. current' \notin 1..Len(segments)
      BY <1>t, <3>3, <3>4
    <3> QED
      BY <1>t, <3>3, <3>4, <3>5, ReportedStays
  <2> QED
    BY <2>1, <2>2, <2>3, <2>4
<1> QED
  BY <1>1, <1>2

\* What the server is told agrees with the rows, whatever statements of a close fail;
\* when none has, both ends of every closed row are told.  (The code tells nothing of
\* an open row: Reported and Matched say so, the property does not.)
THEOREM ReportsAgree == Spec => []ReportsMatchRows
<1>1. Init => Matched
  BY DEF Init, Matched
<1>2. Parts /\ Matched => ReportedInFull
  <2> SUFFICES ASSUME Parts, Matched, ~failed PROVE ReportedInFull
    BY DEF ReportedInFull
  <2>1. DOMAIN segments = 1..Len(segments) /\ DOMAIN events = 1..Len(events) /\ EventsOK
    BY LenProperties DEF Parts, RowsOK, EventsOK, Rows
  <2>2. \A i \in 1..Len(segments) : IsClosed(i) => Cardinality(About(i, events)) = 2
    BY <2>1, CountAbout DEF Matched
  <2>3. \A i : About(i, events) = {k \in DOMAIN events : events[k].seg = i}
    BY <2>1 DEF About
  <2>4. \A i \in DOMAIN segments :
            IsClosed(i) => Cardinality({k \in DOMAIN events : events[k].seg = i}) = 2
    BY <2>1, <2>2, <2>3
  <2>5. \A k \in DOMAIN events :
            events[k].type = "IDLE_ENDED" => events[k].at = segments[events[k].seg].end
    BY <2>1 DEF Matched, Paired
  <2> QED
    BY <2>4, <2>5 DEF ReportedInFull
<1>3. Init => Reported
  BY DEF Init, Reported
<1>4. Parts /\ Reported => ReportedOnce
  <2> SUFFICES ASSUME Parts, Reported PROVE ReportedOnce
    OBVIOUS
  <2>1. DOMAIN events = 1..Len(events) /\ Len(events) \in Nat
    BY LenProperties DEF Parts, EventsOK
  <2>2. \A k \in 1..Len(events) : \A j \in 1..(k - 1) : j \in 1..Len(events) /\ j < k
    BY <2>1
  <2> QED
    BY <2>1, <2>2 DEF Reported, ReportedOnce
<1>5. ReportedOnce /\ ReportedInFull => ReportsMatchRows
  BY DEF ReportsMatchRows
<1> QED
  BY <1>1, <1>2, <1>3, <1>4, <1>5, NextMatched, NextReported, PartsHold, PTL DEF Spec

-----------------------------------------------------------------------------
(***************************************************************************)
(* The rows and the log are only ever added to                             *)
(***************************************************************************)

\* A row keeps its start and, once closed, its end: the one row a step may close is
\* the open one of the running loop, so a segment a crash left open is never closed
\* later, with an end it did not have.
RowsAreFinal ==
    [][\A i \in DOMAIN segments :
        /\ i \in DOMAIN segments'
        /\ segments'[i].start = segments[i].start
        /\ segments'[i].openedAt = segments[i].openedAt
        /\ segments'[i].end # segments[i].end => segments[i].end = NoTime /\ i = current]_vars

\* What has been enqueued stays, where it is.
LogGrows == [][\A k \in DOMAIN events : k \in DOMAIN events' /\ events'[k] = events[k]]_vars

\* The rows and the log after any step.
LEMMA NextFinal ==
    ASSUME Parts, [Next]_vars
    PROVE  /\ Len(segments) =< Len(segments') /\ Len(events) =< Len(events')
           /\ \A i \in 1..Len(segments) :
                /\ segments'[i].start = segments[i].start
                /\ segments'[i].openedAt = segments[i].openedAt
                /\ segments'[i].end # segments[i].end => segments[i].end = NoTime /\ i = current
           /\ \A k \in 1..Len(events) : events'[k] = events[k]
<1>t. /\ ClockOK /\ RowsOK /\ LoopOK /\ EventsOK
      /\ Len(segments) \in Nat /\ Len(events) \in Nat
  BY LenProperties DEF Parts, RowsOK, EventsOK, Rows
<1>1. CASE Stop \/ Start \/ UNCHANGED vars \/ (Next /\ ~Stop /\ ~Start /\ Quiet)
  <2>1. UNCHANGED <<segments, events>>
    BY <1>1 DEF Stop, Start, Quiet, vars, tables
  <2> QED
    BY <1>t, <2>1
<1>2. CASE PollOpen
  <2>1. events' = events
    BY <1>2 DEF PollOpen
  <2>2. startedAt' \in Time /\ now' \in 0..Horizon
    <3>1. Poll
      BY <1>2 DEF PollOpen, Track, Measure
    <3> QED
      BY <1>2, <1>t, <3>1, OpenStep, PollClock DEF PollOpen, LoopOK
  <2>3. PICK start \in Time, opened \in 0..Horizon : start = startedAt' /\ opened = now'
    BY <2>2
  <2>4. segments' = Append(segments, [start |-> start, end |-> NoTime, openedAt |-> opened])
    BY <1>2, <2>3 DEF PollOpen, Inserted
  <2>5. Len(segments') = Len(segments) + 1 /\ \A i \in 1..Len(segments) : segments'[i] = segments[i]
    BY <1>t, <2>4, InsertedRow
  <2> QED
    BY <1>t, <2>1, <2>5
<1>3. CASE PollLunchClose \/ PollClose
  <2>1. mode = "IdleOpen"
    BY <1>3 DEF PollLunchClose, PollClose, IdleOpenPoll
  <2>2. PICK closeAt \in Time : Finalize(closeAt)
    BY <1>3, <1>t, CloseTimes
  <2>3. /\ Len(segments') = Len(segments)
        /\ \A i \in 1..Len(segments) :
             /\ segments'[i].start = segments[i].start
             /\ segments'[i].openedAt = segments[i].openedAt
             /\ i # current => segments'[i].end = segments[i].end
    BY <1>t, <2>1, <2>2, Finalized
  <2>4. segments[current].end = NoTime
    BY <1>t, <2>1 DEF LoopOK
  <2>5. Len(events) =< Len(events') /\ Len(events') \in Nat
    BY <1>t, <2>1, <2>2, EventsGrow, LenProperties
  <2>6. \A k \in 1..Len(events) : events'[k] = events[k]
    <3> SUFFICES ASSUME NEW k \in 1..Len(events) PROVE events'[k] = events[k]
      OBVIOUS
    <3>1. k \in 1..Len(events') /\ k =< Len(events)
      BY <1>t, <2>5
    <3> QED
      BY <1>t, <2>1, <2>2, <3>1, EventsGrow
  <2> QED
    BY <1>t, <2>3, <2>4, <2>5, <2>6
<1> QED
  BY <1>1, <1>2, <1>3, PollKinds

\* Neither rows nor events are ever rewritten.
THEOREM NothingIsRewritten == Spec => RowsAreFinal /\ LogGrows
<1>1. ASSUME Parts, [Next]_vars
      PROVE  /\ \A i \in DOMAIN segments :
                  /\ i \in DOMAIN segments'
                  /\ segments'[i].start = segments[i].start
                  /\ segments'[i].openedAt = segments[i].openedAt
                  /\ segments'[i].end # segments[i].end =>
                        segments[i].end = NoTime /\ i = current
             /\ \A k \in DOMAIN events : k \in DOMAIN events' /\ events'[k] = events[k]
  <2>1. Parts'
    BY <1>1, NextParts
  <2>2. /\ DOMAIN segments = 1..Len(segments) /\ DOMAIN events = 1..Len(events)
        /\ Len(segments) \in Nat /\ Len(events) \in Nat
    BY <1>1, LenProperties DEF Parts, RowsOK, EventsOK, Rows
  <2>3. /\ DOMAIN segments' = 1..Len(segments') /\ DOMAIN events' = 1..Len(events')
        /\ Len(segments') \in Nat /\ Len(events') \in Nat
    BY <2>1, LenProperties DEF Parts, RowsOK, EventsOK, Rows
  <2>4. /\ \A i \in 1..Len(segments) : i \in 1..Len(segments')
        /\ \A k \in 1..Len(events) : k \in 1..Len(events')
    BY <1>1, <2>2, <2>3, NextFinal
  <2> QED
    BY <1>1, <2>2, <2>3, <2>4, NextFinal
<1>2. Parts /\ [Next]_vars =>
        [\A i \in DOMAIN segments :
            /\ i \in DOMAIN segments'
            /\ segments'[i].start = segments[i].start
            /\ segments'[i].openedAt = segments[i].openedAt
            /\ segments'[i].end # segments[i].end => segments[i].end = NoTime /\ i = current]_vars
  BY <1>1
<1>3. Parts /\ [Next]_vars =>
        [\A k \in DOMAIN events : k \in DOMAIN events' /\ events'[k] = events[k]]_vars
  BY <1>1
<1> QED
  BY <1>2, <1>3, PartsHold, PTL DEF Spec, RowsAreFinal, LogGrows

-----------------------------------------------------------------------------
(***************************************************************************)
(* The reports follow the clock                                            *)
(***************************************************************************)

\* Without a lunch break the log is in the order of its times, all of them past, and
\* the open segment begins after whatever is in the log.
InTime ==
    ~breakTime =>
        /\ \A k \in 1..Len(events) :
              events[k].at =< lastInput /\ (mode = "IdleOpen" => events[k].at =< startedAt)
        /\ \A j, k \in 1..Len(events) : j < k => events[j].at =< events[k].at

\* The times of the log are whole numbers.
LEMMA EventTimes ==
    ASSUME EventsOK PROVE \A k \in 1..Len(events) : events[k].at \in Nat
<1>1. \A k \in 1..Len(events) : events[k] \in Event
  BY ElementOfSeq DEF EventsOK
<1>2. \A e \in Event : e.at \in Nat
  <2>1. \A e \in Event : e.at \in Time
    BY DEF Event
  <2>2. Time \subseteq Nat
    BY TimeAssumption, LunchAssumption DEF Time
  <2> QED
    BY <2>1, <2>2
<1> QED
  BY <1>1, <1>2

\* A close appends times after those that are there.
LEMMA CloseInTime ==
    ASSUME Parts, Ordered, InTime, PollLunchClose \/ PollClose PROVE InTime'
<1> SUFFICES ASSUME ~breakTime' PROVE InTime'
  BY DEF InTime
<1> DEFINE m == Len(events)
<1>t. ClockOK /\ RowsOK /\ LoopOK /\ EventsOK /\ Poll
  BY DEF Parts, PollLunchClose, PollClose, IdleOpenPoll, Track, Measure
<1>1. lastInput \in Nat /\ lastInput' \in Nat /\ lastInput =< lastInput'
  BY <1>t, PollClock
<1>2. ~breakTime /\ PollClose /\ mode = "IdleOpen" /\ firstZero # NoTime
  BY DEF PollLunchClose, PollClose, IdleOpenPoll, Track
<1>3. PICK closeAt \in Time : Finalize(closeAt) /\ closeAt = firstZero
  BY <1>t, <1>2, CloseTimes
<1>4. startedAt \in Nat /\ closeAt \in Nat
  BY <1>t, <1>2, TimeAssumption, LunchAssumption DEF Time, LoopOK
<1>5. startedAt =< closeAt /\ closeAt =< lastInput
  BY <1>1, <1>2, <1>3, <1>4, TimeAssumption DEF Ordered
<1>6. /\ events' \in Seq(Event) /\ m =< Len(events')
      /\ \A k \in 1..Len(events') :
           IF k =< m THEN events'[k] = events[k]
           ELSE events'[k] \in {StartEvent, EndEvent(closeAt)}
      /\ \A j, k \in 1..Len(events') :
           m < j /\ j < k => events'[j] = StartEvent /\ events'[k] = EndEvent(closeAt)
  BY <1>t, <1>2, <1>3, EventsGrow
<1>7. m \in Nat /\ Len(events') \in Nat
  BY <1>t, <1>6, LenProperties DEF EventsOK
<1>8. StartEvent.at = startedAt /\ EndEvent(closeAt).at = closeAt
  BY DEF StartEvent, EndEvent
<1>9. \A k \in 1..m : /\ events[k].at \in Nat /\ events[k].at =< startedAt
                      /\ \A j \in 1..m : j < k => events[j].at =< events[k].at
  BY <1>t, <1>2, EventTimes DEF InTime
<1>10. ASSUME NEW k \in 1..Len(events')
       PROVE  /\ events'[k].at =< lastInput'
              /\ \A j \in 1..Len(events') : j < k => events'[j].at =< events'[k].at
  <2>1. CASE k =< m
    <3>1. k \in 1..m /\ events'[k] = events[k]
      BY <1>6, <1>7, <2>1
    <3>2. \A j \in 1..Len(events') : j < k => j \in 1..m /\ events'[j] = events[j]
      BY <1>6, <1>7, <3>1
    <3> QED
      BY <1>1, <1>4, <1>5, <1>9, <3>1, <3>2
  <2>2. CASE ~(k =< m)
    <3>1. events'[k].at \in {startedAt, closeAt}
      BY <1>6, <1>8, <2>2
    <3>2. ASSUME NEW j \in 1..Len(events'), j < k PROVE events'[j].at =< events'[k].at
      <4>1. CASE j =< m
        <5>1. j \in 1..m /\ events'[j] = events[j]
          BY <1>6, <1>7, <4>1
        <5> QED
          BY <1>4, <1>5, <1>9, <3>1, <5>1
      <4>2. CASE m < j
        BY <1>5, <1>6, <1>8, <3>2, <4>2
      <4> QED
        BY <1>7, <4>1, <4>2
    <3> QED
      BY <1>1, <1>4, <1>5, <3>1, <3>2
  <2> QED
    BY <2>1, <2>2
<1>11. mode' # "IdleOpen"
  BY <1>3 DEF Finalize
<1> QED
  BY <1>10, <1>11 DEF InTime

\* Every step keeps the log in the order of its times.
LEMMA NextInTime == Parts /\ Ordered /\ InTime /\ [Next]_vars => InTime'
<1> SUFFICES ASSUME Parts, Ordered, InTime, [Next]_vars PROVE InTime'
  OBVIOUS
<1>t. ClockOK /\ RowsOK /\ LoopOK /\ EventsOK
  BY DEF Parts
<1>1. CASE Stop \/ Start \/ UNCHANGED vars
  <2>1. UNCHANGED <<events, lastInput, breakTime>>
    BY <1>1 DEF Stop, Start, vars, clock, tables, history
  <2>2. mode' # "IdleOpen" \/ UNCHANGED <<mode, startedAt>>
    BY <1>1 DEF Stop, Start, vars, loopState
  <2> QED
    BY <2>1, <2>2 DEF InTime
<1>2. CASE Next /\ ~Stop /\ ~Start
  <2>1. /\ Poll /\ (Quiet \/ PollOpen \/ PollLunchClose \/ PollClose)
        /\ breakTime' = breakTime
    BY <1>2, PollKinds
  <2>2. lastInput \in Nat /\ lastInput' \in Nat /\ lastInput =< lastInput'
    BY <1>t, <2>1, PollClock
  <2>3. \A k \in 1..Len(events) : events[k].at \in Nat
    BY <1>t, EventTimes
  <2>4. CASE Quiet
    BY <2>1, <2>2, <2>3, <2>4 DEF Quiet, InTime
  <2>5. CASE PollLunchClose \/ PollClose
    BY <2>5, CloseInTime
  <2>6. CASE PollOpen
    <3> SUFFICES ASSUME ~breakTime' PROVE InTime'
      BY DEF InTime
    <3>1. RawStart = lastInput'
      BY <1>t, <2>1, PollClock DEF RawStart, Idle
    <3>2. startedAt' = lastInput' /\ events' = events
      BY <2>1, <2>6, <3>1 DEF PollOpen
    <3>3. \A k \in 1..Len(events) : events[k].at =< lastInput'
      BY <2>1, <2>2, <2>3 DEF InTime
    <3> QED
      BY <2>1, <3>2, <3>3 DEF InTime
  <2> QED
    BY <2>1, <2>4, <2>5, <2>6
<1> QED
  BY <1>1, <1>2

\* Without a lunch break absences are reported in the order of their times, whatever
\* statements fail, polls are skipped and restarts lie in between.
THEOREM ReportsInTime == Spec => []InTime
<1>1. Init => Ordered /\ InTime
  BY DEF Init, Ordered, InTime
<1> QED
  BY <1>1, NextOrdered, NextInTime, PartsHold, PTL DEF Spec

-----------------------------------------------------------------------------
(***************************************************************************)
(* The lunch window is cut off                                             *)
(***************************************************************************)

\* What a row's opening poll knows of the lunch window is not counted as absence: none
\* of it when the window is over, nor the allowance's length of it when it is not.
LunchIsCut(row) ==
    LET t == row.openedAt
    IN  /\ t >= WindowEnd(t) => row.start >= WindowEnd(t)
        /\ InWindow(t) => row.start >= WindowStart(t) + Allowed

CutOff == breakTime => \A i \in 1..Len(segments) : LunchIsCut(segments[i])

\* Later is at least its second argument.
LEMMA LaterFacts ==
    ASSUME NEW a \in Int, NEW b \in Int PROVE Later(a, b) \in Int /\ Later(a, b) >= b
BY DEF Later

\* The corrected start cuts it off.
LEMMA EffectiveStartCuts ==
    ASSUME NEW t \in 0..Horizon, NEW raw \in 0..t
    PROVE  LunchIsCut([start |-> EffectiveStart(raw, t), end |-> NoTime, openedAt |-> t])
<1>1. WindowStart(t) \in Nat /\ WindowEnd(t) \in Nat /\ Allowed \in Nat /\ t \in Nat
  BY WindowFacts, TimeAssumption, LunchAssumption
<1>2. CASE t >= WindowEnd(t)
  <2>1. EffectiveStart(raw, t) = Later(raw, WindowEnd(t))
    BY <1>2 DEF EffectiveStart
  <2>2. ~InWindow(t)
    BY <1>1, <1>2 DEF InWindow
  <2> QED
    BY <1>1, <2>1, <2>2, LaterFacts DEF LunchIsCut
<1>3. CASE InWindow(t)
  <2>1. EffectiveStart(raw, t) = Later(raw, WindowStart(t)) + Allowed
    BY <1>1, <1>3 DEF EffectiveStart, InWindow
  <2>2. ~(t >= WindowEnd(t))
    BY <1>1, <1>3 DEF InWindow
  <2>3. Later(raw, WindowStart(t)) \in Int /\ Later(raw, WindowStart(t)) >= WindowStart(t)
    <3>1. raw \in Int /\ WindowStart(t) \in Int
      BY <1>1
    <3> QED
      BY <3>1, LaterFacts, Zenon
  <2> QED
    BY <1>1, <2>1, <2>2, <2>3 DEF LunchIsCut
<1> QED
  BY <1>2, <1>3 DEF LunchIsCut

\* Rows keep it, and a new one has it.
LEMMA NextCutOff == Parts /\ CutOff /\ [Next]_vars => CutOff'
<1> SUFFICES ASSUME Parts, CutOff, [Next]_vars, breakTime'
             PROVE  \A i \in 1..Len(segments') : LunchIsCut(segments'[i])
  BY DEF CutOff
<1>t. ClockOK /\ RowsOK /\ LoopOK /\ EventsOK /\ Len(segments) \in Nat
  BY LenProperties DEF Parts, RowsOK, Rows
<1>1. CASE Stop \/ Start \/ UNCHANGED vars
  BY <1>1 DEF Stop, Start, vars, tables, history, CutOff
<1>2. CASE Next /\ ~Stop /\ ~Start
  <2>1. /\ Poll /\ (Quiet \/ PollOpen \/ PollLunchClose \/ PollClose)
        /\ breakTime' = breakTime
    BY <1>2, PollKinds
  <2>2. \A i \in 1..Len(segments) : LunchIsCut(segments[i])
    BY <2>1 DEF CutOff
  <2>3. CASE Quiet
    BY <2>2, <2>3 DEF Quiet
  <2>4. CASE PollLunchClose \/ PollClose
    <3>1. PICK closeAt \in Time : Finalize(closeAt)
      BY <1>t, <2>4, CloseTimes
    <3>2. mode = "IdleOpen"
      BY <2>4 DEF PollLunchClose, PollClose, IdleOpenPoll
    <3>3. /\ Len(segments') = Len(segments)
          /\ \A i \in 1..Len(segments) : /\ segments'[i].start = segments[i].start
                                         /\ segments'[i].openedAt = segments[i].openedAt
      BY <1>t, <3>1, <3>2, Finalized
    <3> QED
      BY <2>2, <3>3 DEF LunchIsCut
  <2>5. CASE PollOpen
    <3>1. PICK start \in Time, opened \in 0..Horizon : start = startedAt' /\ opened = now'
      BY <1>t, <2>1, <2>5, OpenStep, PollClock DEF PollOpen, LoopOK
    <3>2. segments' = Append(segments, [start |-> start, end |-> NoTime, openedAt |-> opened])
      BY <2>5, <3>1 DEF PollOpen, Inserted
    <3>3. /\ Len(segments') = Len(segments) + 1
          /\ \A i \in 1..Len(segments) : segments'[i] = segments[i]
          /\ segments'[Len(segments) + 1] =
                [start |-> start, end |-> NoTime, openedAt |-> opened]
      BY <1>t, <3>2, InsertedRow
    <3>4. PICK raw \in 0..opened : raw = RawStart
      BY <1>t, <2>1, <3>1, PollClock DEF RawStart, Idle
    <3>5. start = EffectiveStart(raw, opened)
      BY <2>1, <2>5, <3>1, <3>4 DEF PollOpen
    <3>6. LunchIsCut(segments'[Len(segments) + 1])
      BY <3>3, <3>5, EffectiveStartCuts
    <3> QED
      BY <1>t, <2>2, <3>3, <3>6
  <2> QED
    BY <2>1, <2>3, <2>4, <2>5
<1> QED
  BY <1>1, <1>2

\* No absence counts the lunch window its opening poll knows of.
THEOREM LunchIsCutOff == Spec => []CutOff
<1>1. Init => CutOff
  BY DEF Init, CutOff
<1> QED
  BY <1>1, NextCutOff, PartsHold, PTL DEF Spec

-----------------------------------------------------------------------------
(***************************************************************************)
(* With the event queue: what the server has learned of the absences       *)
(*                                                                         *)
(* EventDelivery is what the queue promises and EventQueue implements.     *)
(* The events of the idle loop are some of the queue's, among others, in   *)
(* the order they were enqueued.                                           *)
(***************************************************************************)

CONSTANTS Employees, NoUser, EventTypes, RejectedTypes, MaxRows
VARIABLES log, delivered, believed

Queue == INSTANCE EventDelivery

\* The queue's log has its types, and only what is in it is delivered, nothing before
\* an earlier event that could be.
DeliveredInOrder ==
    /\ log \in Seq(EventTypes) /\ Len(log) =< MaxRows
    /\ delivered \in [1..MaxRows -> Employees \cup {NoUser}]
    /\ \A j \in 1..MaxRows : delivered[j] # NoUser =>
          /\ j \in 1..Len(log)
          /\ \A i \in 1..(j - 1) : delivered[i] # NoUser \/ log[i] \in RejectedTypes

\* Every delivery keeps the order, and what happens comes last.
LEMMA DeliveryKeepsOrder ==
    ASSUME MaxRows \in Nat, NoUser \notin Employees,
           DeliveredInOrder, [Queue!Next]_(Queue!abstractVars)
    PROVE  DeliveredInOrder'
<1>t. Len(log) \in Nat /\ DOMAIN log = 1..Len(log)
  BY LenProperties DEF DeliveredInOrder
<1>1. CASE UNCHANGED Queue!abstractVars
  BY <1>1 DEF Queue!abstractVars, DeliveredInOrder
<1>2. ASSUME NEW type \in EventTypes, Queue!Happen(type) PROVE DeliveredInOrder'
  <2>1. Len(log) < MaxRows /\ log' = Append(log, type) /\ UNCHANGED delivered
    BY <1>2 DEF Queue!Happen
  <2>2. /\ log' \in Seq(EventTypes) /\ Len(log') = Len(log) + 1
        /\ \A i \in 1..Len(log) : log'[i] = log[i]
    BY <1>t, <2>1 DEF DeliveredInOrder
  <2>3. ASSUME NEW j \in 1..MaxRows, delivered[j] # NoUser
        PROVE  /\ j \in 1..Len(log')
               /\ \A i \in 1..(j - 1) : delivered[i] # NoUser \/ log'[i] \in RejectedTypes
    <3>1. /\ j \in 1..Len(log)
          /\ \A i \in 1..(j - 1) : delivered[i] # NoUser \/ log[i] \in RejectedTypes
      BY <2>3 DEF DeliveredInOrder
    <3>2. \A i \in 1..(j - 1) : i \in 1..Len(log)
      BY <1>t, <3>1
    <3> QED
      BY <1>t, <2>2, <3>1, <3>2
  <2> QED
    BY <1>t, <2>1, <2>2, <2>3 DEF DeliveredInOrder
<1>3. ASSUME NEW user \in Employees, NEW ids \in SUBSET Queue!Positions, Queue!Deliver(user, ids)
      PROVE  DeliveredInOrder'
  <2>1. /\ UNCHANGED log /\ user # NoUser
        /\ \A i \in 1..MaxRows :
             delivered'[i] = IF i \in ids /\ ~Queue!Refused(i) /\ delivered[i] = NoUser
                             THEN user ELSE delivered[i]
        /\ delivered' \in [1..MaxRows -> Employees \cup {NoUser}]
    BY <1>3 DEF Queue!Deliver, Queue!Positions, DeliveredInOrder
  <2>2. \A j \in ids : \A i \in 1..j : i \in ids \/ Queue!Refused(i) \/ delivered[i] # NoUser
    BY <1>3 DEF Queue!Deliver
  <2>3. ASSUME NEW j \in 1..MaxRows, delivered'[j] # NoUser
        PROVE  /\ j \in 1..Len(log)
               /\ \A i \in 1..(j - 1) : delivered'[i] # NoUser \/ log[i] \in RejectedTypes
    <3>1. CASE delivered[j] # NoUser
      <4>1. \A i \in 1..(j - 1) : i \in 1..MaxRows
        OBVIOUS
      <4> QED
        BY <2>1, <3>1, <4>1 DEF DeliveredInOrder
    <3>2. CASE j \in ids /\ ~Queue!Refused(j)
      <4>1. j \in 1..Len(log)
        BY <1>t, <3>2 DEF Queue!Refused
      <4>2. ASSUME NEW i \in 1..(j - 1)
            PROVE  delivered'[i] # NoUser \/ log[i] \in RejectedTypes
        <5>1. i \in 1..j /\ i \in 1..MaxRows /\ i \in DOMAIN log
          BY <1>t, <4>1
        <5>2. i \in ids \/ Queue!Refused(i) \/ delivered[i] # NoUser
          BY <2>2, <3>2, <5>1
        <5> QED
          BY <2>1, <5>1, <5>2 DEF Queue!Refused
      <4> QED
        BY <4>1, <4>2
    <3> QED
      BY <2>1, <2>3, <3>1, <3>2
  <2> QED
    BY <2>1, <2>3 DEF DeliveredInOrder
<1>4. ASSUME NEW ids \in SUBSET Queue!Positions, Queue!Believe(ids) PROVE DeliveredInOrder'
  BY <1>4 DEF Queue!Believe, DeliveredInOrder
<1> QED
  BY <1>1, <1>2, <1>3, <1>4 DEF Queue!Next

\* Where the queue has the events of the idle loop: place[k] is the id of the k-th.
Placed(place) ==
    /\ place \in [1..Len(events) -> 1..Len(log)]
    /\ \A k \in 1..Len(events) : log[place[k]] = events[k].type
    /\ \A j, k \in 1..Len(events) : j < k => place[j] < place[k]

Arrived(place) == {k \in 1..Len(events) : delivered[place[k]] # NoUser}

\* The server never knows of an absence without whatever was enqueued of it and of
\* the absences before it; if no statement failed those are all the closed ones, with
\* the times of their rows; without a lunch break the times it was told only rise.
KnownAbsences(place) ==
    \A k \in Arrived(place) :
        /\ \A j \in 1..Len(events) :
              InTurn(events[j], events[k]) => j \in Arrived(place)
        /\ ~failed =>
              \A i \in 1..Len(segments) : IsClosed(i) /\ i < events[k].seg =>
                  \E p, q \in Arrived(place) :
                      /\ events[p] = [type |-> "IDLE_STARTED", seg |-> i,
                                      at |-> segments[i].start]
                      /\ events[q] = [type |-> "IDLE_ENDED", seg |-> i,
                                      at |-> segments[i].end]
        /\ ~breakTime =>
              \A j \in Arrived(place) : j < k => events[j].at =< events[k].at

AbsencesArriveInOrder == \A place : Placed(place) => KnownAbsences(place)

\* Of two events in turn the one that comes first is the earlier one of the log.
LEMMA TurnIsOrder ==
    ASSUME Parts, Reported, NEW j \in 1..Len(events), NEW k \in 1..Len(events),
           InTurn(events[j], events[k])
    PROVE  j < k
<1>1. j \in Nat /\ k \in Nat
  BY LenProperties DEF Parts, EventsOK
<1>2. events[j].seg \in Nat /\ events[k].seg \in Nat
  BY LenProperties DEF Parts, EventsOK, RowsOK, Rows
<1>3. ~InTurn(events[k], events[j]) /\ j # k
  BY <1>2 DEF InTurn
<1>4. ~(k < j)
  BY <1>3 DEF Reported
<1> QED
  BY <1>1, <1>3, <1>4

\* What is in the queue before something that has arrived has arrived too.
LEMMA EarlierArrived ==
    ASSUME Parts, DeliveredInOrder, MaxRows \in Nat,
           {"IDLE_STARTED", "IDLE_ENDED"} \cap RejectedTypes = {},
           NEW place, Placed(place), NEW k \in Arrived(place),
           NEW j \in 1..Len(events), j < k
    PROVE  j \in Arrived(place)
<1>1. k \in 1..Len(events) /\ delivered[place[k]] # NoUser
  BY DEF Arrived
<1>2. Len(log) \in Nat /\ Len(log) =< MaxRows
  BY LenProperties DEF DeliveredInOrder
<1>3. place[j] \in 1..Len(log) /\ place[k] \in 1..Len(log) /\ place[j] < place[k]
  BY <1>1 DEF Placed
<1>4. place[k] \in 1..MaxRows /\ place[j] \in 1..(place[k] - 1)
  BY <1>2, <1>3
<1>5. delivered[place[j]] # NoUser \/ log[place[j]] \in RejectedTypes
  BY <1>1, <1>4 DEF DeliveredInOrder
<1>6. log[place[j]] = events[j].type
  BY DEF Placed
<1>7. events[j].type \in {"IDLE_STARTED", "IDLE_ENDED"}
  <2>1. events[j] \in Event
    BY ElementOfSeq DEF Parts, EventsOK
  <2> QED
    BY <2>1 DEF Event
<1> QED
  BY <1>5, <1>6, <1>7 DEF Arrived

\* A closed row has its two events in the log, when no statement failed.
LEMMA PairOfRow ==
    ASSUME Parts, Reported, Matched, ~failed, NEW i \in 1..Len(segments), IsClosed(i)
    PROVE  \E p, q \in 1..Len(events) :
              /\ events[p] = [type |-> "IDLE_STARTED", seg |-> i, at |-> segments[i].start]
              /\ events[q] = [type |-> "IDLE_ENDED", seg |-> i, at |-> segments[i].end]
<1>1. PICK p \in 1..Len(events) :
          p + 1 \in 1..Len(events) /\ \A k \in 1..Len(events) :
              events[k].seg = i <=> k = p \/ k = p + 1
  BY DEF Matched, PairAbout
<1>2. Len(events) \in Nat /\ p < p + 1
  BY LenProperties DEF Parts, EventsOK
<1>3. events[p].seg = i /\ events[p + 1].seg = i
  BY <1>1
<1>4. events[p].type = "IDLE_STARTED" /\ events[p + 1].type = "IDLE_ENDED"
  <2>1. InTurn(events[p], events[p + 1])
    BY <1>1, <1>2 DEF Reported
  <2>2. i \in Nat
    BY LenProperties DEF Parts, RowsOK, Rows
  <2> QED
    BY <1>3, <2>1, <2>2 DEF InTurn
<1>5. events[p].at = segments[i].start
  BY <1>3, <1>4 DEF Reported
<1>6. events[p + 1].at = segments[i].end
  BY <1>1, <1>3, <1>4 DEF Reported, IsClosed
<1>7. events[p] \in Event /\ events[p + 1] \in Event
  BY <1>1, ElementOfSeq DEF Parts, EventsOK
<1>8. \A e \in Event : e = [type |-> e.type, seg |-> e.seg, at |-> e.at]
  BY DEF Event
<1> QED
  BY <1>1, <1>3, <1>4, <1>5, <1>6, <1>7, <1>8

\* The loop and a queue that keeps its promise, composed: however the IDLE events lie
\* among the queue's others, the server learns of absences in order and in whole.
THEOREM AbsencesReachServer ==
    ASSUME MaxRows \in Nat, NoUser \notin Employees,
           {"IDLE_STARTED", "IDLE_ENDED"} \subseteq EventTypes \ RejectedTypes
    PROVE  Spec /\ Queue!Spec => []AbsencesArriveInOrder
<1>1. Init => Ordered /\ InTime /\ Matched /\ Reported
  BY DEF Init, Ordered, InTime, Matched, Reported
<1>2. Queue!Init => DeliveredInOrder
  BY DEF Queue!Init, DeliveredInOrder, Queue!Positions
<1>3. DeliveredInOrder /\ [Queue!Next]_(Queue!abstractVars) => DeliveredInOrder'
  BY DeliveryKeepsOrder
<1>4. Parts /\ InTime /\ Matched /\ Reported /\ DeliveredInOrder => AbsencesArriveInOrder
  <2> SUFFICES ASSUME Parts, InTime, Matched, Reported, DeliveredInOrder,
                      NEW place, Placed(place), NEW k \in Arrived(place)
               PROVE  /\ \A j \in 1..Len(events) :
                            InTurn(events[j], events[k]) => j \in Arrived(place)
                      /\ ~failed =>
                            \A i \in 1..Len(segments) : IsClosed(i) /\ i < events[k].seg =>
                                \E p, q \in Arrived(place) :
                                    /\ events[p] = [type |-> "IDLE_STARTED", seg |-> i,
                                                    at |-> segments[i].start]
                                    /\ events[q] = [type |-> "IDLE_ENDED", seg |-> i,
                                                    at |-> segments[i].end]
                      /\ ~breakTime =>
                            \A j \in Arrived(place) : j < k => events[j].at =< events[k].at
    BY DEF AbsencesArriveInOrder, KnownAbsences
  <2>1. k \in 1..Len(events) /\ Arrived(place) \subseteq 1..Len(events)
    BY DEF Arrived
  <2>2. ASSUME NEW j \in 1..Len(events), InTurn(events[j], events[k])
        PROVE  j \in Arrived(place)
    <3>1. j < k
      BY <2>1, <2>2, TurnIsOrder
    <3> QED
      BY <3>1, EarlierArrived
  <2>3. ASSUME ~failed, NEW i \in 1..Len(segments), IsClosed(i), i < events[k].seg
        PROVE  \E p, q \in Arrived(place) :
                  /\ events[p] = [type |-> "IDLE_STARTED", seg |-> i, at |-> segments[i].start]
                  /\ events[q] = [type |-> "IDLE_ENDED", seg |-> i, at |-> segments[i].end]
    <3>1. PICK p \in 1..Len(events), q \in 1..Len(events) :
              /\ events[p] = [type |-> "IDLE_STARTED", seg |-> i, at |-> segments[i].start]
              /\ events[q] = [type |-> "IDLE_ENDED", seg |-> i, at |-> segments[i].end]
      BY <2>3, PairOfRow
    <3>2. InTurn(events[p], events[k]) /\ InTurn(events[q], events[k])
      BY <2>3, <3>1 DEF InTurn
    <3> QED
      BY <2>2, <3>1, <3>2
  <2>4. ASSUME ~breakTime, NEW j \in Arrived(place), j < k
        PROVE  events[j].at =< events[k].at
    BY <2>1, <2>4 DEF InTime
  <2> QED
    BY <2>2, <2>3, <2>4
<1> QED
  BY <1>1, <1>2, <1>3, <1>4, NextOrdered, NextInTime, NextMatched, NextReported, PartsHold, PTL
     DEF Spec, Queue!Spec

=============================================================================
