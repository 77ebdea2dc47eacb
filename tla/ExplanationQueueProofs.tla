------------------------- MODULE ExplanationQueueProofs -------------------------
(***************************************************************************)
(* Proofs about ExplanationQueue, for any number of employees, segments    *)
(* and rows, any batch limit and any number of faults and stops: its       *)
(* types, the two safety invariants, that it implements                    *)
(* ExplanationHandover, that rows are kept, and that a segment has one     *)
(* employee.                                                               *)
(***************************************************************************)
EXTENDS ExplanationQueue, WellFoundedInduction, TLAPS

-----------------------------------------------------------------------------
(***************************************************************************)
(* The row a cycle is at                                                   *)
(***************************************************************************)

\* A set of row ids that is not empty has an oldest one.
LEMMA HasOldest ==
    ASSUME NEW S \in SUBSET Nat, S # {}
    PROVE  \E x \in S : \A y \in S : x =< y
<1> DEFINE Less == OpToRel(<, Nat)
<1>1. PICK x \in S : \A y \in S : <<y, x>> \notin Less
  <2>1. IsWellFoundedOn(Less, Nat)
    BY NatLessThanWellFounded
  <2> HIDE DEF Less
  <2> QED
    BY <2>1, WFMin
<1>2. \A y \in S : ~(y < x)
  BY <1>1 DEF OpToRel
<1> QED
  BY <1>2

\* The row the retry is at is one of those it has read.
LEMMA CurrentIsTodo ==
    ASSUME TypeOK, retry.todo # {}
    PROVE  Current \in retry.todo /\ Current \in 1 .. next - 1 /\ Current \in Ids
<1>1. retry.todo \in SUBSET (1 .. next - 1) /\ next \in 1 .. MaxRows + 1
  BY DEF TypeOK
<1>2. retry.todo \in SUBSET Nat
  BY <1>1, BoundsAssumption
<1>3. Current \in retry.todo
  BY <1>2, HasOldest DEF Current, Min
<1> QED
  BY <1>1, <1>3, BoundsAssumption DEF Ids

-----------------------------------------------------------------------------
(***************************************************************************)
(* Types                                                                   *)
(***************************************************************************)

\* Written ids are ids.
LEMMA WrittenAreIds ==
    ASSUME TypeOK PROVE next \in Nat /\ 1 .. next - 1 \subseteq Ids
BY BoundsAssumption DEF TypeOK, Ids

\* What the server does with a row that was written keeps its types.
LEMMA ServerType ==
    ASSUME TypeOK, NEW i \in 1 .. next - 1, NEW e \in Employees, Store(i, e) \/ Refuse(i, e)
    PROVE  /\ known' \in [Segments -> Users]
           /\ stored' \subseteq (1 .. next - 1) \X Employees
           /\ refused' \subseteq 1 .. next - 1
<1>1. CASE Store(i, e)
  <2>1. known' \in [Segments -> Users]
    BY <1>1 DEF Store, TypeOK, Users
  <2>2. stored' = stored \cup {<<i, e>>} /\ refused' = refused
    BY <1>1 DEF Store
  <2> QED
    BY <2>1, <2>2 DEF TypeOK
<1>2. CASE Refuse(i, e)
  BY <1>2 DEF Refuse, TypeOK
<1> QED
  BY <1>1, <1>2

\* A row that keeps its segment keeps its type, whatever unsent or deleted it becomes.
LEMMA RowType ==
    ASSUME TypeOK, NEW i \in 1 .. next - 1, NEW st \in {"PENDING", "FAILED", "DELETED"},
           row' = row \/ row' = [row EXCEPT ![i].status = st]
    PROVE  /\ row' \in [Ids -> Row]
           /\ \A j \in Ids : j < next <=> row'[j].status # "FREE"
           /\ \A j \in Ids : row'[j].segment = row[j].segment
<1>1. i \in Ids /\ i < next
  BY WrittenAreIds
<1>2. CASE row' = row
  BY <1>2 DEF TypeOK
<1>3. CASE row' = [row EXCEPT ![i].status = st]
  <2>1. row[i] \in Row /\ row[i].status # "FREE"
    BY <1>1 DEF TypeOK
  <2>2. [row[i] EXCEPT !.status = st] \in Row
    BY <2>1 DEF Row
  <2>3. row' \in [Ids -> Row]
    BY <1>1, <1>3, <2>2 DEF TypeOK
  <2>4. \A j \in Ids : /\ row'[j].segment = row[j].segment
                       /\ row'[j].status = IF j = i THEN st ELSE row[j].status
    BY <1>1, <1>3, <2>1 DEF TypeOK, Row
  <2> QED
    BY <1>1, <2>3, <2>4 DEF TypeOK
<1> QED
  BY <1>2, <1>3

\* Init has the types.
LEMMA InitTypeOK == Init => TypeOK
<1> SUFFICES ASSUME Init PROVE TypeOK
  OBVIOUS
<1>1. row \in [Ids -> Row] /\ \A i \in Ids : row[i].status = "FREE"
  BY DEF Init, Free, Row
<1>2. next = 1 /\ next \in 1 .. MaxRows + 1 /\ form \in 0 .. next - 1
  BY BoundsAssumption DEF Init
<1>3. \A i \in Ids : ~(i < next)
  BY <1>2, BoundsAssumption DEF Ids
<1>4. /\ author \in [Ids -> Users] /\ submitted \subseteq Segments /\ session \in Users
      /\ known \in [Segments -> Users] /\ faults \in Nat /\ stops \in Nat
  BY BoundsAssumption DEF Init, Users
<1>5. /\ direct \in [Ids -> {"none", "spawned", "sent", "accepted", "done"}]
      /\ \A i \in Ids : direct[i] = "none"
  BY DEF Init
<1>6. /\ retry.pc = "asleep"
      /\ retry \in [pc : {"asleep", "read", "send", "sent", "accepted", "refused"},
                    as : Users, todo : SUBSET (1 .. next - 1)]
  BY DEF Init, Asleep, Users
<1>7. late = {} /\ stored = {} /\ refused = {}
  BY DEF Init
<1> QED
  BY <1>1, <1>2, <1>3, <1>4, <1>5, <1>6, <1>7 DEF TypeOK

RetryType == [pc : {"asleep", "read", "send", "sent", "accepted", "refused"},
              as : Users, todo : SUBSET (1 .. next - 1)]

\* A retry that waits has the type of one.
LEMMA AsleepType == Asleep \in RetryType
BY DEF Asleep, RetryType, Users

\* The next row, or none.
LEMMA NextRowType ==
    ASSUME TypeOK, retry.pc # "asleep", NextRow
    PROVE  retry' \in RetryType /\ retry'.pc = "send" /\ retry'.as \in Employees
BY DEF TypeOK, NextRow, RetryType

\* Every step keeps the types.
LEMMA NextTypeOK == TypeOK /\ [Next]_vars => TypeOK'
<1> SUFFICES ASSUME TypeOK, [Next]_vars PROVE TypeOK'
  OBVIOUS
<1> USE DEF table, tasks, server
<1>1. ASSUME NEW u \in Employees, Login(u) PROVE TypeOK'
  BY <1>1 DEF Login, TypeOK, Users
<1>2. ASSUME Logout PROVE TypeOK'
  BY <1>2 DEF Logout, TypeOK, Users
<1>3. ASSUME Stop PROVE TypeOK'
  <2>1. late' \subseteq (1 .. next - 1) \X Employees
    <3>1. \A i \in Ids : direct[i] = "sent" =>
              <<i, author[i]>> \in (1 .. next - 1) \X Employees
      BY WrittenAreIds DEF TypeOK, Ids
    <3>2. retry.pc = "sent" => <<Current, retry.as>> \in (1 .. next - 1) \X Employees
      BY CurrentIsTodo DEF TypeOK
    <3> QED
      BY <1>3, <3>1, <3>2 DEF Stop, TypeOK
  <2>2. /\ direct' \in [Ids -> {"none", "spawned", "sent", "accepted", "done"}]
        /\ \A i \in Ids : direct'[i] # "none" => i < next
    BY <1>3 DEF Stop, TypeOK
  <2>3. retry' \in RetryType /\ retry'.pc = "asleep"
    BY <1>3, AsleepType DEF Stop, Asleep
  <2>4. session' \in Users /\ form' \in 0 .. next - 1 /\ stops' \in Nat
    BY <1>3, WrittenAreIds DEF Stop, TypeOK, Users
  <2> QED
    BY <1>3, <2>1, <2>2, <2>3, <2>4 DEF Stop, TypeOK, RetryType
<1>4. ASSUME NEW s \in Segments, SubmitInsert(s) PROVE TypeOK'
  <2>1. next' = next + 1 /\ next \in 1 .. MaxRows /\ next \in Ids
    BY <1>4, BoundsAssumption DEF SubmitInsert, TypeOK, Ids
  <2>2. session \in Employees
    BY <1>4, UsersAssumption DEF SubmitInsert, FormShows, TypeOK, Users
  <2>3. row' \in [Ids -> Row] /\ author' \in [Ids -> Users]
    BY <1>4, <2>2 DEF SubmitInsert, TypeOK, Row, Users
  <2>4. \A i \in Ids : i < next' <=> row'[i].status # "FREE"
    BY <1>4, <2>1, BoundsAssumption DEF SubmitInsert, TypeOK, Ids
  <2>5. \A i \in Ids : i < next' => row'[i].segment \in Segments /\ author'[i] \in Employees
    BY <1>4, <2>1, <2>2, BoundsAssumption DEF SubmitInsert, TypeOK, Ids
  <2>6. next' \in 1 .. MaxRows + 1 /\ form' \in 0 .. next' - 1
    BY <1>4, <2>1, BoundsAssumption DEF SubmitInsert
  <2>7. 1 .. next - 1 \subseteq 1 .. next' - 1
    BY <2>1, BoundsAssumption
  <2>8. /\ late' \subseteq (1 .. next' - 1) \X Employees
        /\ stored' \subseteq (1 .. next' - 1) \X Employees
        /\ refused' \subseteq 1 .. next' - 1
    BY <1>4, <2>7 DEF SubmitInsert, TypeOK
  <2>9. retry' \in RetryType' /\ retry' = retry
    BY <1>4, <2>7 DEF SubmitInsert, TypeOK, RetryType
  <2>10. \A i \in Ids : direct'[i] # "none" => i < next'
    BY <1>4, <2>1, BoundsAssumption DEF SubmitInsert, TypeOK, Ids
  <2> QED
    BY <1>4, <2>3, <2>4, <2>5, <2>6, <2>8, <2>9, <2>10 DEF SubmitInsert, TypeOK, RetryType
<1>5. ASSUME NEW s \in Segments, SegmentReported(s) PROVE TypeOK'
  BY <1>5 DEF SegmentReported, TypeOK
<1>6. ASSUME SubmitMark PROVE TypeOK'
  <2>1. form \in Ids /\ form < next
    BY <1>6, BoundsAssumption DEF SubmitMark, TypeOK, Ids
  <2>2. submitted' \subseteq Segments /\ faults' \in Nat
    BY <1>6, <2>1 DEF SubmitMark, Fail, TypeOK
  <2>3. /\ direct' \in [Ids -> {"none", "spawned", "sent", "accepted", "done"}]
        /\ \A i \in Ids : direct'[i] # "none" => i < next
    BY <1>6, <2>1 DEF SubmitMark, TypeOK
  <2>4. form' \in 0 .. next - 1
    BY <1>6, WrittenAreIds DEF SubmitMark, TypeOK
  <2> QED
    BY <1>6, <2>2, <2>3, <2>4 DEF SubmitMark, TypeOK
<1>7. ASSUME NEW i \in Ids, DirectStep(i) \/ DirectLost(i) PROVE TypeOK'
  <2>1. i \in 1 .. next - 1 /\ author[i] \in Employees
    BY <1>7, WrittenAreIds DEF DirectStep, DirectSend, DirectServed, DirectAccepted, DirectLost,
                               TypeOK, Ids
  <2>2. ASSUME NEW pc \in {"spawned", "sent", "accepted", "done"}, Goto(i, pc)
        PROVE  /\ direct' \in [Ids -> {"none", "spawned", "sent", "accepted", "done"}]
               /\ \A j \in Ids : direct'[j] # "none" => j < next
    BY <2>1, <2>2, WrittenAreIds DEF Goto, TypeOK
  <2>3. CASE DirectSend(i)
    BY <2>2, <2>3 DEF DirectSend, TypeOK
  <2>4. CASE DirectServed(i)
    BY <2>1, <2>2, <2>4, ServerType DEF DirectServed, TypeOK
  <2>5. CASE DirectAccepted(i)
    <3>1. /\ row' \in [Ids -> Row] /\ faults' \in Nat
          /\ \A j \in Ids : j < next <=> row'[j].status # "FREE"
          /\ \A j \in Ids : row'[j].segment = row[j].segment
      BY <2>1, <2>5, RowType DEF DirectAccepted, Delete, Deleted, Fail, TypeOK
    <3> QED
      BY <2>2, <2>5, <3>1 DEF DirectAccepted, TypeOK
  <2>6. CASE DirectLost(i)
    <3>1. late' \subseteq (1 .. next - 1) \X Employees /\ faults' \in Nat
      BY <2>1, <2>6 DEF DirectLost, Fail, TypeOK
    <3> QED
      BY <2>2, <2>6, <3>1 DEF DirectLost, TypeOK
  <2> QED
    BY <1>7, <2>3, <2>4, <2>5, <2>6 DEF DirectStep
<1>8. ASSUME RetryTick \/ RetryRead \/ RetrySend PROVE TypeOK'
  <2>1. CASE RetryTick
    BY <2>1 DEF RetryTick, TypeOK, Users
  <2>2. CASE RetryRead
    <3>1. PendingBatch \in SUBSET (1 .. next - 1)
      BY WrittenAreIds DEF PendingBatch, Unsent, TypeOK, Ids
    <3>2. retry' \in RetryType
      BY <2>2, <3>1, AsleepType DEF RetryRead, TypeOK, RetryType
    <3>3. \/ retry'.pc = "send" /\ retry'.as = retry.as
          \/ retry'.pc = "asleep"
      <4>1. retry \in RetryType
        BY DEF TypeOK, RetryType
      <4>2. CASE retry' = [retry EXCEPT !.pc = "send", !.todo = PendingBatch]
        BY <4>1, <4>2 DEF RetryType
      <4>3. CASE retry' = Asleep
        BY <4>3 DEF Asleep
      <4> QED
        BY <2>2, <4>2, <4>3 DEF RetryRead
    <3>4. retry.as \in Employees
      BY <2>2 DEF RetryRead, TypeOK
    <3> QED
      BY <2>2, <3>2, <3>3, <3>4 DEF RetryRead, Fail, TypeOK, RetryType
  <2>3. CASE RetrySend
    BY <2>3, AsleepType DEF RetrySend, TypeOK, RetryType, Asleep
  <2> QED
    BY <1>8, <2>1, <2>2, <2>3
<1>9. ASSUME RetryServed PROVE TypeOK'
  <2>1. Current \in 1 .. next - 1 /\ retry.as \in Employees
    BY <1>9, CurrentIsTodo DEF RetryServed, TypeOK
  <2> QED
    BY <1>9, <2>1, ServerType DEF RetryServed, TypeOK
<1>10. ASSUME RetryAnswered \/ RetryLost PROVE TypeOK'
  <2>1. /\ retry.pc # "asleep" /\ NextRow
        /\ Current \in 1 .. next - 1 /\ retry.as \in Employees
    BY <1>10, CurrentIsTodo DEF RetryAnswered, RetryLost, TypeOK
  <2>2. /\ row' \in [Ids -> Row] /\ faults' \in Nat
        /\ \A j \in Ids : j < next <=> row'[j].status # "FREE"
        /\ \A j \in Ids : row'[j].segment = row[j].segment
    BY <1>10, <2>1, RowType
       DEF RetryAnswered, RetryLost, Delete, Deleted, MarkFailed, Fail, TypeOK
  <2>3. late' \subseteq (1 .. next - 1) \X Employees
    BY <1>10, <2>1 DEF RetryAnswered, RetryLost, TypeOK
  <2>4. retry' \in RetryType /\ retry'.pc = "send" /\ retry'.as \in Employees
    BY <2>1, NextRowType
  <2> QED
    BY <1>10, <2>2, <2>3, <2>4 DEF RetryAnswered, RetryLost, TypeOK, RetryType
<1>11. ASSUME NEW i \in Ids, NEW e \in Employees, LateArrives(i, e) PROVE TypeOK'
  <2>1. i \in 1 .. next - 1
    BY <1>11 DEF LateArrives, TypeOK
  <2> QED
    BY <1>11, <2>1, ServerType DEF LateArrives, TypeOK
<1>12. ASSUME UNCHANGED vars PROVE TypeOK'
  BY <1>12 DEF vars, TypeOK
<1> QED
  BY <1>1, <1>2, <1>3, <1>4, <1>5, <1>6, <1>7, <1>8, <1>9, <1>10, <1>11, <1>12
     DEF Next, RetryStep

\* Every variable keeps its type.
THEOREM TypeCorrect == Spec => []TypeOK
BY InitTypeOK, NextTypeOK, PTL DEF Spec

-----------------------------------------------------------------------------
(***************************************************************************)
(* What is believed is settled                                             *)
(***************************************************************************)

\* Who has an answer has a settled row.
AnsweredIsSettled ==
    /\ \A i \in Ids : direct[i] = "accepted" => Settled(i)
    /\ retry.pc \in {"accepted", "refused"} => Settled(Current)

\* The row a segment was marked for is there.
SubmittedHasRow == \A s \in submitted : \E i \in 1 .. next - 1 : row[i].segment = s

QInv == TypeOK /\ AnsweredIsSettled /\ SubmittedHasRow /\ GoneIsSettled

\* The server takes nothing back.
LEMMA SettledStays ==
    ASSUME stored \subseteq stored', refused \subseteq refused', NEW i, Settled(i)
    PROVE  Settled(i)'
BY DEF Settled

\* What it has answered is settled.
LEMMA AnswerSettles ==
    ASSUME NEW i, NEW e \in Employees, Store(i, e) \/ Refuse(i, e)
    PROVE  /\ stored \subseteq stored' /\ refused \subseteq refused'
           /\ Settled(i)'
<1>1. CASE Store(i, e)
  BY <1>1 DEF Store, Settled
<1>2. CASE Refuse(i, e)
  BY <1>2 DEF Refuse, Settled
<1> QED
  BY <1>1, <1>2

\* A step that adds no mark and moves no row keeps SubmittedHasRow.
LEMMA SubmittedKept ==
    ASSUME TypeOK, SubmittedHasRow, submitted' \subseteq submitted,
           next' = next, \A i \in Ids : row'[i].segment = row[i].segment
    PROVE  SubmittedHasRow'
BY WrittenAreIds DEF SubmittedHasRow

\* A step that deletes no row keeps GoneIsSettled.
LEMMA GoneKept ==
    ASSUME GoneIsSettled, stored \subseteq stored', refused \subseteq refused',
           \A i \in Ids : row'[i].status = "DELETED" => row[i].status = "DELETED"
    PROVE  GoneIsSettled'
BY SettledStays DEF GoneIsSettled

\* A step that leaves the tasks and the rows alone.
LEMMA ServerStepKeeps ==
    ASSUME QInv, stored \subseteq stored', refused \subseteq refused',
           row' = row, next' = next, submitted' = submitted, direct' = direct, retry' = retry
    PROVE  AnsweredIsSettled' /\ SubmittedHasRow' /\ GoneIsSettled'
<1>1. Current' = Current
  BY DEF Current
<1>2. AnsweredIsSettled'
  BY <1>1, SettledStays DEF QInv, AnsweredIsSettled
<1> QED
  BY <1>2, SubmittedKept, GoneKept DEF QInv

\* Every step keeps the invariant of the queue.
LEMMA NextQInv == QInv /\ [Next]_vars => QInv'
<1> SUFFICES ASSUME QInv, [Next]_vars
             PROVE  AnsweredIsSettled' /\ SubmittedHasRow' /\ GoneIsSettled'
  BY NextTypeOK DEF QInv
<1> USE DEF table, tasks, server
<1>t. TypeOK
  BY DEF QInv
<1>1. ASSUME \/ \E u \in Employees : Login(u)
             \/ Logout
             \/ \E s \in Segments : SegmentReported(s)
             \/ UNCHANGED vars
      PROVE  AnsweredIsSettled' /\ SubmittedHasRow' /\ GoneIsSettled'
  BY <1>1, ServerStepKeeps DEF Login, Logout, SegmentReported, vars
<1>2. ASSUME Stop PROVE AnsweredIsSettled' /\ SubmittedHasRow' /\ GoneIsSettled'
  <2>1. \A i \in Ids : direct'[i] # "accepted"
    BY <1>2 DEF Stop
  <2>2. retry'.pc = "asleep"
    BY <1>2 DEF Stop, Asleep
  <2>3. AnsweredIsSettled'
    BY <2>1, <2>2 DEF AnsweredIsSettled
  <2>4. SubmittedHasRow' /\ GoneIsSettled'
    BY <1>2, SubmittedKept, GoneKept DEF Stop, QInv
  <2> QED
    BY <2>3, <2>4
<1>3. ASSUME NEW s \in Segments, SubmitInsert(s)
      PROVE  AnsweredIsSettled' /\ SubmittedHasRow' /\ GoneIsSettled'
  <2>1. next' = next + 1 /\ next \in Ids
    BY <1>3, <1>t, BoundsAssumption DEF SubmitInsert, TypeOK, Ids
  <2>2. \A i \in Ids \ {next} : row'[i] = row[i]
    BY <1>3, <1>t DEF SubmitInsert, TypeOK
  <2>3. row'[next].status = "PENDING"
    BY <1>3, <1>t, <2>1 DEF SubmitInsert, TypeOK
  <2>4. AnsweredIsSettled'
    <3>1. Current' = Current
      BY <1>3 DEF SubmitInsert, Current
    <3> QED
      BY <1>3, <3>1, SettledStays DEF SubmitInsert, QInv, AnsweredIsSettled
  <2>5. SubmittedHasRow'
    <3>1. submitted' = submitted
      BY <1>3 DEF SubmitInsert
    <3>2. \A i \in 1 .. next - 1 : i \in Ids \ {next} /\ i \in 1 .. next' - 1
      BY <2>1, <1>t, WrittenAreIds
    <3> QED
      BY <2>2, <3>1, <3>2 DEF QInv, SubmittedHasRow
  <2>6. \A i \in Ids : row'[i].status = "DELETED" => row[i].status = "DELETED"
    BY <2>2, <2>3
  <2>7. stored' = stored /\ refused' = refused
    BY <1>3 DEF SubmitInsert
  <2>8. GoneIsSettled'
    BY <2>6, <2>7, GoneKept DEF QInv
  <2> QED
    BY <2>4, <2>5, <2>8
<1>4. ASSUME SubmitMark PROVE AnsweredIsSettled' /\ SubmittedHasRow' /\ GoneIsSettled'
  <2>1. form \in 1 .. next - 1 /\ form \in Ids
    BY <1>4, <1>t, WrittenAreIds DEF SubmitMark, TypeOK
  <2>2. SubmittedHasRow'
    BY <1>4, <2>1 DEF SubmitMark, QInv, SubmittedHasRow
  <2>3. \A i \in Ids : direct'[i] = "accepted" => direct[i] = "accepted"
    BY <1>4, <1>t, <2>1 DEF SubmitMark, TypeOK
  <2>4. Current' = Current /\ retry' = retry /\ stored' = stored /\ refused' = refused
    BY <1>4 DEF SubmitMark, Current
  <2>5. AnsweredIsSettled'
    BY <2>3, <2>4, SettledStays DEF QInv, AnsweredIsSettled
  <2>6. GoneIsSettled'
    BY <1>4, <2>4, GoneKept DEF SubmitMark, QInv
  <2> QED
    BY <2>2, <2>5, <2>6
<1>5. ASSUME NEW i \in Ids, DirectStep(i) \/ DirectLost(i)
      PROVE  AnsweredIsSettled' /\ SubmittedHasRow' /\ GoneIsSettled'
  <2>1. /\ submitted' = submitted /\ next' = next /\ retry' = retry /\ Current' = Current
        /\ \A j \in Ids \ {i} : direct'[j] = direct[j]
    BY <1>5, <1>t DEF DirectStep, DirectSend, DirectServed, DirectAccepted, DirectLost, Goto,
                      Current, TypeOK
  <2>2. i \in 1 .. next - 1 /\ author[i] \in Employees
    BY <1>5, <1>t, WrittenAreIds
       DEF DirectStep, DirectSend, DirectServed, DirectAccepted, DirectLost, TypeOK, Ids
  <2>3. CASE DirectSend(i) \/ DirectLost(i)
    <3>1. direct'[i] # "accepted"
      BY <2>3, <1>t DEF DirectSend, DirectLost, Goto, TypeOK
    <3>2. row' = row /\ stored' = stored /\ refused' = refused
      BY <2>3 DEF DirectSend, DirectLost
    <3> QED
      BY <2>1, <3>1, <3>2, <1>t, SettledStays, SubmittedKept, GoneKept
         DEF QInv, AnsweredIsSettled
  <2>4. CASE DirectServed(i)
    <3>1. stored \subseteq stored' /\ refused \subseteq refused' /\ Settled(i)'
      BY <2>2, <2>4, AnswerSettles DEF DirectServed
    <3>2. row' = row
      BY <2>4 DEF DirectServed
    <3> QED
      BY <2>1, <3>1, <3>2, <1>t, SettledStays, SubmittedKept, GoneKept
         DEF QInv, AnsweredIsSettled
  <2>5. CASE DirectAccepted(i)
    <3>1. direct'[i] # "accepted" /\ Settled(i) /\ stored' = stored /\ refused' = refused
      BY <2>5, <1>t DEF DirectAccepted, Goto, TypeOK, QInv, AnsweredIsSettled
    <3>2. \A j \in Ids : /\ row'[j].segment = row[j].segment
                         /\ j # i => row'[j].status = row[j].status
      BY <2>2, <2>5, <1>t, RowType DEF DirectAccepted, Delete, Deleted, TypeOK
    <3>3. GoneIsSettled'
      BY <3>1, <3>2, SettledStays DEF QInv, GoneIsSettled
    <3> QED
      BY <2>1, <3>1, <3>2, <3>3, <1>t, SettledStays, SubmittedKept
         DEF QInv, AnsweredIsSettled
  <2> QED
    BY <1>5, <2>3, <2>4, <2>5 DEF DirectStep
<1>6. ASSUME RetryTick \/ RetryRead \/ RetrySend
      PROVE  AnsweredIsSettled' /\ SubmittedHasRow' /\ GoneIsSettled'
  <2>1. retry'.pc \notin {"accepted", "refused"}
    <3>1. retry \in RetryType
      BY <1>t DEF TypeOK, RetryType
    <3>2. \/ retry' = Asleep
          \/ retry' = [retry EXCEPT !.pc = "read", !.as = session]
          \/ retry' = [retry EXCEPT !.pc = "send", !.todo = PendingBatch]
          \/ retry' = [retry EXCEPT !.pc = "sent"]
      BY <1>6 DEF RetryTick, RetryRead, RetrySend
    <3>3. CASE retry' = Asleep
      BY <3>3 DEF Asleep
    <3>4. CASE retry' = [retry EXCEPT !.pc = "read", !.as = session]
      BY <3>1, <3>4 DEF RetryType
    <3>5. CASE retry' = [retry EXCEPT !.pc = "send", !.todo = PendingBatch]
      BY <3>1, <3>5 DEF RetryType
    <3>6. CASE retry' = [retry EXCEPT !.pc = "sent"]
      BY <3>1, <3>6 DEF RetryType
    <3> QED
      BY <3>2, <3>3, <3>4, <3>5, <3>6
  <2>2. UNCHANGED <<table, direct, stored, refused>>
    BY <1>6 DEF RetryTick, RetryRead, RetrySend
  <2>3. AnsweredIsSettled'
    BY <2>1, <2>2, SettledStays DEF QInv, AnsweredIsSettled
  <2> QED
    BY <2>2, <2>3, SubmittedKept, GoneKept DEF QInv
<1>7. ASSUME RetryServed PROVE AnsweredIsSettled' /\ SubmittedHasRow' /\ GoneIsSettled'
  <2>1. retry.as \in Employees
    BY <1>7, <1>t DEF RetryServed, TypeOK
  <2>2. Store(Current, retry.as) \/ Refuse(Current, retry.as)
    BY <1>7 DEF RetryServed
  <2>3. stored \subseteq stored' /\ refused \subseteq refused' /\ Settled(Current)'
    <3>1. ASSUME NEW i, Store(i, retry.as) \/ Refuse(i, retry.as)
          PROVE  stored \subseteq stored' /\ refused \subseteq refused' /\ Settled(i)'
      BY <2>1, <3>1, AnswerSettles
    <3>2. Current' = Current
      BY <1>7, <1>t DEF RetryServed, Current, TypeOK
    <3> QED
      BY <2>2, <3>1, <3>2 DEF Store, Refuse, Settled
  <2>4. UNCHANGED <<table, direct>>
    BY <1>7 DEF RetryServed
  <2>5. AnsweredIsSettled'
    BY <2>3, <2>4, SettledStays DEF QInv, AnsweredIsSettled
  <2> QED
    BY <2>3, <2>4, <2>5, SubmittedKept, GoneKept DEF QInv
<1>8. ASSUME RetryAnswered \/ RetryLost
      PROVE  AnsweredIsSettled' /\ SubmittedHasRow' /\ GoneIsSettled'
  <2>1. retry'.pc = "send" /\ UNCHANGED <<next, submitted, direct, stored, refused>>
    BY <1>8, <1>t, NextRowType DEF RetryAnswered, RetryLost, TypeOK
  <2>2. AnsweredIsSettled'
    BY <2>1, SettledStays DEF QInv, AnsweredIsSettled
  <2>3. Current \in 1 .. next - 1
    BY <1>8, <1>t, CurrentIsTodo DEF RetryAnswered, RetryLost, TypeOK
  <2>4. CASE RetryAnswered
    <3>1. Settled(Current)
      BY <2>4 DEF RetryAnswered, QInv, AnsweredIsSettled
    <3>2. \A j \in Ids : /\ row'[j].segment = row[j].segment
                         /\ j # Current => row'[j].status = row[j].status
      BY <2>3, <2>4, <1>t, RowType DEF RetryAnswered, Delete, Deleted, TypeOK
    <3>3. GoneIsSettled'
      BY <2>1, <3>1, <3>2, SettledStays DEF QInv, GoneIsSettled
    <3> QED
      BY <2>1, <2>2, <3>2, <3>3, <1>t, SubmittedKept DEF QInv
  <2>5. CASE RetryLost
    <3>1. \A j \in Ids : /\ row'[j].segment = row[j].segment
                         /\ row'[j].status = "DELETED" => row[j].status = "DELETED"
      BY <2>3, <2>5, <1>t, RowType DEF RetryLost, MarkFailed, TypeOK
    <3> QED
      BY <2>1, <2>2, <3>1, <1>t, SubmittedKept, GoneKept DEF QInv
  <2> QED
    BY <1>8, <2>4, <2>5
<1>9. ASSUME NEW i \in Ids, NEW e \in Employees, LateArrives(i, e)
      PROVE  AnsweredIsSettled' /\ SubmittedHasRow' /\ GoneIsSettled'
  <2>1. stored \subseteq stored' /\ refused \subseteq refused'
    BY <1>9, AnswerSettles DEF LateArrives
  <2> QED
    BY <1>9, <2>1, ServerStepKeeps DEF LateArrives
<1> QED
  BY <1>1, <1>2, <1>3, <1>4, <1>5, <1>6, <1>7, <1>8, <1>9 DEF Next, RetryStep

\* An empty queue has the invariant.
LEMMA InitQInv == Init => QInv
<1>1. Init => AnsweredIsSettled
  BY DEF Init, Asleep, AnsweredIsSettled
<1>2. Init => SubmittedHasRow
  BY DEF Init, SubmittedHasRow
<1>3. Init => GoneIsSettled
  BY DEF Init, Free, GoneIsSettled
<1> QED
  BY <1>1, <1>2, <1>3, InitTypeOK DEF QInv

\* The strengthened invariant.
THEOREM QueueInvariant == Spec => []QInv
BY InitQInv, NextQInv, PTL DEF Spec

\* No row disappears before the server has settled it.
THEOREM NothingIsForgotten == Spec => []GoneIsSettled
<1>1. QInv => GoneIsSettled
  BY DEF QInv
<1> QED
  BY <1>1, QueueInvariant, PTL

\* No segment counts as explained without a row or an answer.
THEOREM MarksAreBacked == Spec => []SubmittedIsBacked
<1>1. QInv => SubmittedIsBacked
  <2> SUFFICES ASSUME QInv, NEW s \in submitted
               PROVE  \E i \in Ids : row[i].segment = s /\ (i \in Unsent \/ Settled(i))
    BY DEF SubmittedIsBacked
  <2>1. PICK i \in 1 .. next - 1 : row[i].segment = s
    BY DEF QInv, SubmittedHasRow
  <2>2. i \in Ids /\ i < next
    BY WrittenAreIds DEF QInv
  <2>3. row[i].status \in {"PENDING", "FAILED", "DELETED"}
    BY <2>2 DEF QInv, TypeOK, Row
  <2>4. i \in Unsent \/ Settled(i)
    BY <2>2, <2>3 DEF Unsent, QInv, GoneIsSettled
  <2> QED
    BY <2>1, <2>2, <2>4
<1> QED
  BY <1>1, QueueInvariant, PTL

-----------------------------------------------------------------------------
(***************************************************************************)
(* The handover                                                            *)
(***************************************************************************)

Written == 1 .. next - 1
Forgotten == {i \in Ids : row[i].status = "DELETED"}

\* Nothing written is nothing handed over.
LEMMA InitImplements == Init => Handover!Init
<1> SUFFICES ASSUME Init PROVE Handover!Init
  OBVIOUS
<1>1. Written = {}
  BY DEF Init, Written
<1>2. Forgotten = {}
  BY DEF Init, Free, Forgotten
<1> QED
  BY <1>1, <1>2 DEF Init, Handover!Init, Written, Forgotten

\* What the server does with a written row is the handover's.
LEMMA AnswerImplements ==
    ASSUME TypeOK, NEW i \in Ids, i < next, NEW e \in Employees, Store(i, e) \/ Refuse(i, e),
           next' = next, row' = row
    PROVE  Handover!Next
<1>1. i \in Written /\ Written' = Written /\ Forgotten' = Forgotten
  BY WrittenAreIds DEF Written, Forgotten, Ids
<1>2. CASE Store(i, e)
  <2>1. Handover!HandOver(i, e)
    BY <1>1, <1>2 DEF Store, Handover!HandOver, Written, Forgotten
  <2> QED
    BY <2>1 DEF Handover!Next
<1>3. CASE Refuse(i, e)
  <2>1. Handover!Refuse(i)
    BY <1>1, <1>3 DEF Refuse, Handover!Refuse, Written, Forgotten
  <2> QED
    BY <2>1 DEF Handover!Next
<1> QED
  BY <1>2, <1>3

\* A settled row may be deleted.
LEMMA DeleteImplements ==
    ASSUME TypeOK, NEW i \in Ids, i < next, Settled(i), Delete(i),
           UNCHANGED <<next, stored, refused>>
    PROVE  [Handover!Next]_(Handover!vars)
<1>1. i \in Written /\ Written' = Written
  BY WrittenAreIds DEF Written, Ids
<1>2. CASE Deleted(i)
  <2>1. \A j \in Ids : row'[j].status = IF j = i THEN "DELETED" ELSE row[j].status
    BY <1>2 DEF Deleted, TypeOK, Row
  <2>2. Forgotten' = Forgotten \cup {i}
    BY <2>1 DEF Forgotten
  <2>3. Handover!Settled(i)
    BY DEF Settled, Handover!Settled
  <2>4. Handover!Forget(i)
    BY <1>1, <2>2, <2>3 DEF Handover!Forget, Written, Forgotten
  <2> QED
    BY <2>4 DEF Handover!Next
<1>3. CASE UNCHANGED row
  BY <1>1, <1>3 DEF Handover!vars, Written
<1> QED
  BY <1>2, <1>3 DEF Delete

\* Every step of the queue is one of the handover's, or none.
LEMMA StepImplements == QInv /\ [Next]_vars => [Handover!Next]_(Handover!vars)
<1> SUFFICES ASSUME QInv, [Next]_vars PROVE [Handover!Next]_(Handover!vars)
  OBVIOUS
<1> USE DEF table, tasks, server
<1>t. TypeOK
  BY DEF QInv
<1>1. ASSUME UNCHANGED <<next, row, stored, refused>> PROVE UNCHANGED Handover!vars
  BY <1>1 DEF Handover!vars
<1>2. CASE \/ \E u \in Employees : Login(u)
           \/ Logout \/ Stop
           \/ \E s \in Segments : SegmentReported(s)
           \/ SubmitMark
           \/ \E i \in Ids : DirectSend(i) \/ DirectLost(i)
           \/ RetryTick \/ RetryRead \/ RetrySend
           \/ UNCHANGED vars
  BY <1>1, <1>2 DEF Login, Logout, Stop, SegmentReported, SubmitMark, DirectSend, DirectLost,
                    RetryTick, RetryRead, RetrySend, vars
<1>3. ASSUME NEW s \in Segments, SubmitInsert(s) PROVE [Handover!Next]_(Handover!vars)
  <2>1. next' = next + 1 /\ next \in Ids /\ next \in Nat
    BY <1>3, <1>t, BoundsAssumption DEF SubmitInsert, TypeOK, Ids
  <2>2. Written' = Written \cup {next} /\ next \notin Written
    BY <2>1, BoundsAssumption DEF Written, Ids
  <2>3. \A j \in Ids : row'[j].status = IF j = next THEN "PENDING" ELSE row[j].status
    BY <1>3, <1>t, <2>1 DEF SubmitInsert, TypeOK
  <2>4. row[next].status = "FREE"
    BY <1>t, <2>1 DEF TypeOK, Row
  <2>5. Forgotten' = Forgotten
    BY <2>3, <2>4 DEF Forgotten
  <2>6. Handover!Write(next)
    BY <1>3, <2>2, <2>5 DEF SubmitInsert, Handover!Write, Written, Forgotten
  <2> QED
    BY <2>1, <2>6 DEF Handover!Next
<1>4. ASSUME NEW i \in Ids, DirectServed(i) \/ DirectAccepted(i)
      PROVE  [Handover!Next]_(Handover!vars)
  <2>1. i < next /\ author[i] \in Employees
    BY <1>4, <1>t DEF DirectServed, DirectAccepted, TypeOK
  <2>2. CASE DirectServed(i)
    BY <2>1, <2>2, <1>t, AnswerImplements DEF DirectServed
  <2>3. CASE DirectAccepted(i)
    <3>1. Settled(i)
      BY <2>3 DEF DirectAccepted, QInv, AnsweredIsSettled
    <3> QED
      BY <2>1, <2>3, <3>1, <1>t, DeleteImplements DEF DirectAccepted
  <2> QED
    BY <1>4, <2>2, <2>3
<1>5. ASSUME RetryServed \/ RetryAnswered \/ RetryLost PROVE [Handover!Next]_(Handover!vars)
  <2>1. Current \in Ids /\ Current < next /\ retry.as \in Employees
    BY <1>5, <1>t, CurrentIsTodo, WrittenAreIds
       DEF RetryServed, RetryAnswered, RetryLost, TypeOK
  <2>2. CASE RetryServed
    <3>1. Store(Current, retry.as) \/ Refuse(Current, retry.as)
      BY <2>2 DEF RetryServed
    <3>2. next' = next /\ row' = row
      BY <2>2 DEF RetryServed
    <3> HIDE DEF Current
    <3> QED
      BY <2>1, <3>1, <3>2, <1>t, AnswerImplements
  <2>3. CASE RetryAnswered
    <3>1. PICK i \in Ids : i = Current
      BY <2>1
    <3>2. i < next /\ Settled(i)
      BY <2>1, <2>3, <3>1 DEF RetryAnswered, QInv, AnsweredIsSettled
    <3>3. Delete(i) /\ UNCHANGED <<next, stored, refused>>
      BY <2>3, <3>1 DEF RetryAnswered, Delete, Deleted
    <3> QED
      BY <3>2, <3>3, <1>t, DeleteImplements
  <2>4. CASE RetryLost
    <3>1. \A j \in Ids : row'[j].status = "DELETED" <=> row[j].status = "DELETED"
      BY <2>1, <2>4, <1>t DEF RetryLost, MarkFailed, Unsent, TypeOK, Row
    <3>2. Forgotten' = Forgotten
      BY <3>1 DEF Forgotten
    <3> QED
      BY <2>4, <3>2 DEF RetryLost, Handover!vars, Forgotten
  <2> QED
    BY <1>5, <2>2, <2>3, <2>4
<1>6. ASSUME NEW i \in Ids, NEW e \in Employees, LateArrives(i, e)
      PROVE  [Handover!Next]_(Handover!vars)
  <2>1. i < next
    BY <1>6, <1>t, WrittenAreIds DEF LateArrives, TypeOK
  <2> QED
    BY <1>6, <2>1, <1>t, AnswerImplements DEF LateArrives
<1> QED
  BY <1>2, <1>3, <1>4, <1>5, <1>6 DEF Next, DirectStep, RetryStep

\* The two senders of the queue, the late requests and the restarts implement the
\* handover.
THEOREM Refinement == Spec => ImplementsHandover
BY InitImplements, StepImplements, QueueInvariant, PTL
   DEF Spec, ImplementsHandover, Handover!Spec

-----------------------------------------------------------------------------
(***************************************************************************)
(* The rows, between two senders                                           *)
(***************************************************************************)

\* What was written stays what it is, and a row one sender has deleted is not
\* brought back by the other, which may still note a failure for it.
RowsStay ==
    [][\A i \in Ids : row[i].status # "FREE" =>
        /\ row'[i].segment = row[i].segment
        /\ author'[i] = author[i]
        /\ row[i].status = "DELETED" => row'[i] = row[i]]_vars

\* The rows after any step.
LEMMA NextRows ==
    ASSUME TypeOK, [Next]_vars, NEW i \in Ids, row[i].status # "FREE"
    PROVE  /\ row'[i].segment = row[i].segment
           /\ author'[i] = author[i]
           /\ row[i].status = "DELETED" => row'[i] = row[i]
<1> USE DEF table, tasks, server
<1>r. row \in [Ids -> Row] /\ row[i] \in Row
  BY DEF TypeOK
<1>1. ASSUME NEW s \in Segments, SubmitInsert(s)
      PROVE  row'[i] = row[i] /\ author'[i] = author[i]
  <2>1. i # next
    BY <1>1 DEF TypeOK
  <2> QED
    BY <1>1, <2>1 DEF SubmitInsert, TypeOK
<1>2. ASSUME NEW j, Delete(j)
      PROVE  /\ row'[i].segment = row[i].segment
             /\ row[i].status = "DELETED" => row'[i] = row[i]
  BY <1>r, <1>2 DEF Delete, Deleted, Row
<1>3. ASSUME NEW j, MarkFailed(j)
      PROVE  /\ row'[i].segment = row[i].segment
             /\ row[i].status = "DELETED" => row'[i] = row[i]
  <2>1. row[i].status = "DELETED" => i \notin Unsent
    BY DEF Unsent
  <2> QED
    BY <1>r, <1>3, <2>1 DEF MarkFailed, Row
<1>4. ASSUME \/ RetryAnswered \/ RetryLost
             \/ \E j \in Ids : DirectAccepted(j)
      PROVE  /\ row'[i].segment = row[i].segment
             /\ author'[i] = author[i]
             /\ row[i].status = "DELETED" => row'[i] = row[i]
  <2>1. author' = author
    BY <1>4 DEF RetryAnswered, RetryLost, DirectAccepted
  <2>2. \E j : Delete(j) \/ MarkFailed(j)
    BY <1>4 DEF RetryAnswered, RetryLost, DirectAccepted
  <2> QED
    BY <1>2, <1>3, <2>1, <2>2
<1>5. ASSUME \/ \E u \in Employees : Login(u)
             \/ Logout \/ Stop \/ SubmitMark
             \/ \E s \in Segments : SegmentReported(s)
             \/ \E j \in Ids : DirectSend(j) \/ DirectServed(j) \/ DirectLost(j)
             \/ RetryTick \/ RetryRead \/ RetrySend \/ RetryServed
             \/ \E j \in Ids, e \in Employees : LateArrives(j, e)
             \/ UNCHANGED vars
      PROVE  row' = row /\ author' = author
  BY <1>5 DEF Login, Logout, Stop, SubmitMark, SegmentReported, DirectSend, DirectServed,
              DirectLost, RetryTick, RetryRead, RetrySend, RetryServed, LateArrives, vars
<1> QED
  BY <1>1, <1>4, <1>5 DEF Next, DirectStep, RetryStep

\* A deleted row never comes back, and no row changes hands.
THEOREM RowsAreKept == Spec => RowsStay
<1>1. TypeOK /\ [Next]_vars =>
        [\A i \in Ids : row[i].status # "FREE" =>
            /\ row'[i].segment = row[i].segment
            /\ author'[i] = author[i]
            /\ row[i].status = "DELETED" => row'[i] = row[i]]_vars
  BY NextRows
<1> QED
  BY <1>1, TypeCorrect, PTL DEF Spec, RowsStay

-----------------------------------------------------------------------------
(***************************************************************************)
(* Whose explanation the server has                                        *)
(***************************************************************************)

\* What the server has stored is stored under the employee it knows the segment of.
StoredAsKnown ==
    \A i \in Ids, e \in Employees : <<i, e>> \in stored => known[row[i].segment] = e

\* A segment has one employee: all its explanations, sent at once, again, or late,
\* in whosever name, are stored under the same one.
OneEmployeeEach ==
    \A x, y \in stored : row[x[1]].segment = row[y[1]].segment => x[2] = y[2]

\* Once the server knows whose a segment is, that does not change.
KnownStays == [][\A s \in Segments : known[s] # NoUser => known'[s] = known[s]]_vars

\* An answer of the server.
LEMMA ServedKeeps ==
    ASSUME TypeOK, NEW i \in 1 .. next - 1, NEW e \in Employees, Store(i, e) \/ Refuse(i, e)
    PROVE  /\ \A s \in Segments : known[s] # NoUser => known'[s] = known[s]
           /\ \A x \in stored' : x \in stored \/ (x = <<i, e>> /\ known'[row[i].segment] = e)
<1>1. row[i].segment \in Segments
  BY WrittenAreIds DEF TypeOK
<1>2. CASE Store(i, e)
  BY <1>1, <1>2 DEF Store, Accepts, TypeOK
<1>3. CASE Refuse(i, e)
  BY <1>3 DEF Refuse
<1> QED
  BY <1>2, <1>3

\* What a step does to what the server knows and has.
LEMMA NextServer ==
    ASSUME TypeOK, [Next]_vars
    PROVE  /\ \A s \in Segments : known[s] # NoUser => known'[s] = known[s]
           /\ \A x \in stored' : \/ x \in stored
                                 \/ /\ row' = row /\ x[1] \in 1 .. next - 1
                                    /\ known'[row[x[1]].segment] = x[2]
<1> USE DEF table, tasks, server
<1> DEFINE G == /\ \A s \in Segments : known[s] # NoUser => known'[s] = known[s]
                /\ \A x \in stored' : \/ x \in stored
                                      \/ /\ row' = row /\ x[1] \in 1 .. next - 1
                                         /\ known'[row[x[1]].segment] = x[2]
<1>1. ASSUME NEW i \in 1 .. next - 1, NEW e \in Employees, Store(i, e) \/ Refuse(i, e),
             row' = row
      PROVE  G
  BY <1>1, ServedKeeps
<1>2. ASSUME NEW i \in Ids, DirectServed(i) PROVE G
  <2>1. i \in 1 .. next - 1 /\ author[i] \in Employees
    BY <1>2 DEF DirectServed, TypeOK, Ids
  <2>2. row' = row /\ (Store(i, author[i]) \/ Refuse(i, author[i]))
    BY <1>2 DEF DirectServed
  <2> QED
    BY <1>1, <2>1, <2>2
<1>3. ASSUME RetryServed PROVE G
  <2>1. Current \in 1 .. next - 1 /\ retry.as \in Employees
    BY <1>3, CurrentIsTodo DEF RetryServed, TypeOK
  <2>2. row' = row /\ (Store(Current, retry.as) \/ Refuse(Current, retry.as))
    BY <1>3 DEF RetryServed
  <2> QED
    BY <1>1, <2>1, <2>2
<1>4. ASSUME NEW i \in Ids, NEW e \in Employees, LateArrives(i, e) PROVE G
  <2>1. i \in 1 .. next - 1
    BY <1>4 DEF LateArrives, TypeOK
  <2>2. row' = row /\ (Store(i, e) \/ Refuse(i, e))
    BY <1>4 DEF LateArrives
  <2> QED
    BY <1>1, <2>1, <2>2
<1>5. ASSUME NEW s \in Segments, SegmentReported(s) PROVE G
  BY <1>5 DEF SegmentReported, TypeOK
<1>6. ASSUME \/ \E u \in Employees : Login(u)
             \/ Logout \/ Stop \/ SubmitMark
             \/ \E s \in Segments : SubmitInsert(s)
             \/ \E j \in Ids : DirectSend(j) \/ DirectAccepted(j) \/ DirectLost(j)
             \/ RetryTick \/ RetryRead \/ RetrySend \/ RetryAnswered \/ RetryLost
             \/ UNCHANGED vars
      PROVE  G
  <2>1. known' = known /\ stored' = stored
    BY <1>6 DEF Login, Logout, Stop, SubmitMark, SubmitInsert, DirectSend, DirectAccepted,
                DirectLost, RetryTick, RetryRead, RetrySend, RetryAnswered, RetryLost, vars
  <2> QED
    BY <2>1
<1> HIDE DEF G
<1>7. G
  BY <1>2, <1>3, <1>4, <1>5, <1>6 DEF Next, DirectStep, RetryStep
<1> QED
  BY <1>7 DEF G

\* Every step keeps the stored explanations under the employee of the segment.
LEMMA NextStored == TypeOK /\ StoredAsKnown /\ [Next]_vars => StoredAsKnown'
<1> SUFFICES ASSUME TypeOK, StoredAsKnown, [Next]_vars,
                    NEW i \in Ids, NEW e \in Employees, <<i, e>> \in stored'
             PROVE  known'[row'[i].segment] = e
  BY DEF StoredAsKnown
<1>1. CASE <<i, e>> \in stored
  <2>1. known[row[i].segment] = e /\ e # NoUser
    BY <1>1, UsersAssumption DEF StoredAsKnown
  <2>2. i \in 1 .. next - 1
    BY <1>1 DEF TypeOK
  <2>3. row[i].segment \in Segments /\ row[i].status # "FREE"
    BY <2>2 DEF TypeOK
  <2>4. row'[i].segment = row[i].segment
    BY <2>3, NextRows
  <2> QED
    BY <2>1, <2>3, <2>4, NextServer
<1>2. CASE <<i, e>> \notin stored
  BY <1>2, NextServer
<1> QED
  BY <1>1, <1>2

\* A segment has one employee at the server, and so have its explanations.
THEOREM OneEmployeePerSegment == Spec => []OneEmployeeEach /\ KnownStays
<1>1. Init => StoredAsKnown
  BY DEF Init, StoredAsKnown
<1>2. TypeOK /\ StoredAsKnown => OneEmployeeEach
  <2> SUFFICES ASSUME TypeOK, StoredAsKnown, NEW x \in stored, NEW y \in stored,
                      row[x[1]].segment = row[y[1]].segment
               PROVE  x[2] = y[2]
    BY DEF OneEmployeeEach
  <2>1. ASSUME NEW z \in stored PROVE known[row[z[1]].segment] = z[2]
    <3>1. z \in (1 .. next - 1) \X Employees
      BY <2>1 DEF TypeOK
    <3>2. PICK i \in 1 .. next - 1, e \in Employees : z = <<i, e>>
      BY <3>1
    <3>3. i \in Ids
      BY WrittenAreIds
    <3> QED
      BY <2>1, <3>2, <3>3 DEF StoredAsKnown
  <2> QED
    BY <2>1
<1>3. TypeOK /\ [Next]_vars => [\A s \in Segments : known[s] # NoUser => known'[s] = known[s]]_vars
  BY NextServer
<1> QED
  BY <1>1, <1>2, <1>3, NextStored, TypeCorrect, PTL DEF Spec, KnownStays

=============================================================================
